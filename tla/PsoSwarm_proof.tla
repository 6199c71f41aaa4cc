---------------------------- MODULE PsoSwarm_proof ----------------------------
(***************************************************************************)
(* LeaderLeads, NoWorse and the refinement of BestOfSeen for any number of *)
(* particles, threads and iterations, any map and any fitness.             *)
(***************************************************************************)
EXTENDS PsoSwarm, FiniteSetTheorems, TLAPS

Critical == {"test", "write", "unlock"}

(* A particle in one of these places has reported its personal optimum.    *)
Reported == {"off", "move", "personal", "unlock", "done"}

Types ==
  /\ map \in Maps
  /\ pc \in {"idle", "iterate", "join", "inherit"}
  /\ position \in [Particles -> Positions]
  /\ personal_best \in [Particles -> Positions]
  /\ best \in [fitness : Nat, position : Positions] /\ GlobalBest \in Particles
  /\ thread \in [Particles -> ThreadPcs] /\ lock \in 0..N

(* Only the holder of the mutex is between lock() and unlock().            *)
Exclusion == \A i \in Particles : thread[i] \in Critical => lock = i

(* Whoever has reported does not beat the record, whoever is about to      *)
(* write does, and the record is the leader's, or the leader is about to   *)
(* raise it.                                                               *)
Record ==
  pc # "idle" =>
    /\ \A i \in Particles :
         /\ thread[i] \in Reported => Fit(personal_best[i]) <= best.fitness
         /\ thread[i] = "write" => Fit(personal_best[i]) > best.fitness
    /\ Fit(personal_best[GlobalBest]) >= best.fitness

Resting ==
  /\ pc # "join" => \A i \in Particles : thread[i] = "off"
  /\ pc \in {"iterate", "inherit"} => best.position = personal_best[GlobalBest]

SwarmInv == Types /\ Exclusion /\ Record /\ Resting

LEMMA FitType ==
  ASSUME NEW m \in Maps, NEW p \in Positions
  PROVE  Fitness[m][p] \in Nat
  BY FitnessAssumption

LEMMA InitSwarm == Init => SwarmInv
  BY NAssumption, PositionsAssumption
  DEF Init, SwarmInv, Types, Exclusion, Record, Resting, Particles, ThreadPcs, Critical

LEMMA InvLeads == SwarmInv => LeaderLeads
  <1> SUFFICES ASSUME SwarmInv, pc \in {"iterate", "inherit"}
               PROVE  /\ best.fitness = Fit(best.position)
                      /\ \A i \in Particles : Fit(personal_best[i]) <= best.fitness
    BY DEF LeaderLeads
  <1>1. /\ \A i \in Particles : thread[i] = "off"
        /\ best.position = personal_best[GlobalBest]
    BY DEF SwarmInv, Resting
  <1>2. \A i \in Particles : Fit(personal_best[i]) <= best.fitness
    BY <1>1 DEF SwarmInv, Record, Reported
  <1>3. Fit(personal_best[GlobalBest]) >= best.fitness /\ GlobalBest \in Particles
    BY DEF SwarmInv, Record, Types
  <1>4. personal_best[GlobalBest] \in Positions /\ map \in Maps /\ best.fitness \in Nat
    BY DEF SwarmInv, Types
  <1>5. Fit(personal_best[GlobalBest]) \in Nat
    BY <1>4, FitType DEF Fit
  <1>6. best.fitness = Fit(best.position)
    BY <1>1, <1>2, <1>3, <1>4, <1>5
  <1>7. QED BY <1>2, <1>6

LEMMA PlanSwarm ==
  ASSUME SwarmInv, NEW m \in Maps, NEW start \in [Particles -> Positions], Plan(m, start)
  PROVE  SwarmInv'
  <1>1. /\ pc = "idle" /\ pc' = "iterate" /\ map' = m
        /\ position' = start /\ personal_best' = start
        /\ UNCHANGED <<thread, lock>>
    BY DEF Plan
  <1>2. PICK g \in Particles :
          /\ \A i \in Particles : Fitness[m][start[i]] <= Fitness[m][start[g]]
          /\ GlobalBest' = g
          /\ best' = [fitness |-> Fitness[m][start[g]], position |-> start[g]]
    BY DEF Plan
  <1>3. Fitness[m][start[g]] \in Nat
    BY FitType
  <1>4. \A i \in Particles : thread[i] = "off"
    BY <1>1 DEF SwarmInv, Resting
  <1>5. Types'
    BY <1>1, <1>2, <1>3 DEF SwarmInv, Types
  <1>6. Exclusion'
    BY <1>1 DEF SwarmInv, Exclusion
  <1>7. Record'
    BY <1>1, <1>2, <1>3, <1>4 DEF Record, Fit
  <1>8. Resting'
    BY <1>1, <1>2, <1>4 DEF Resting
  <1>9. QED BY <1>5, <1>6, <1>7, <1>8 DEF SwarmInv

LEMMA SpawnSwarm ==
  ASSUME SwarmInv, Spawn
  PROVE  SwarmInv'
  <1>1. /\ pc = "iterate" /\ pc' = "join" /\ thread' = [i \in Particles |-> "move"]
        /\ UNCHANGED <<map, position, personal_best, best, GlobalBest, lock>>
    BY DEF Spawn
  <1>2. \A i \in Particles : thread[i] \in Reported
    BY <1>1 DEF SwarmInv, Resting, Reported
  <1>3. Types'
    BY <1>1 DEF SwarmInv, Types, ThreadPcs
  <1>4. Exclusion' /\ Resting'
    BY <1>1 DEF Exclusion, Critical, Resting
  <1>5. Record'
    BY <1>1, <1>2 DEF SwarmInv, Record, Fit
  <1>6. QED BY <1>3, <1>4, <1>5 DEF SwarmInv

(* What every step of a particle's thread leaves alone.                    *)
LEMMA ThreadFrame ==
  ASSUME SwarmInv, NEW i \in Particles, Thread(i)
  PROVE  /\ pc = "join" /\ pc' = "join" /\ map' = map
         /\ best'.position = best.position
         /\ \A j \in Particles : j # i => thread'[j] = thread[j]
                                          /\ personal_best'[j] = personal_best[j]
  <1>1. thread[i] # "off"
    BY DEF Thread, Move, Personal, Lock, Test, Write, Unlock
  <1>2. pc = "join"
    BY <1>1 DEF SwarmInv, Resting
  <1>3. pc' = pc /\ map' = map
    BY DEF Thread, Move, Personal, Lock, Test, Write, Unlock
  <1>4. best'.position = best.position
    BY DEF Thread, Move, Personal, Lock, Test, Write, Unlock, SwarmInv, Types
  <1>5. \A j \in Particles : j # i => thread'[j] = thread[j]
                                      /\ personal_best'[j] = personal_best[j]
    BY DEF Thread, Move, Personal, Lock, Test, Write, Unlock, SwarmInv, Types
  <1>6. QED BY <1>2, <1>3, <1>4, <1>5

LEMMA ThreadTypes ==
  ASSUME SwarmInv, NEW i \in Particles, Thread(i)
  PROVE  Types'
  <1>1. CASE \E p \in Positions : Move(i, p)
    BY <1>1 DEF Move, SwarmInv, Types, ThreadPcs
  <1>2. CASE Personal(i)
    BY <1>2 DEF Personal, SwarmInv, Types, ThreadPcs
  <1>3. CASE Lock(i)
    BY <1>3, NAssumption DEF Lock, SwarmInv, Types, ThreadPcs, Particles
  <1>4. CASE Test(i)
    BY <1>4 DEF Test, SwarmInv, Types, ThreadPcs
  <1>5. CASE Write(i)
    <2>1. personal_best[i] \in Positions /\ map \in Maps
      BY DEF SwarmInv, Types
    <2>2. Fit(personal_best[i]) \in Nat
      BY <2>1, FitType DEF Fit
    <2>3. QED BY <1>5, <2>2 DEF Write, SwarmInv, Types, ThreadPcs
  <1>6. CASE Unlock(i)
    BY <1>6, NAssumption DEF Unlock, SwarmInv, Types, ThreadPcs
  <1>7. QED BY <1>1, <1>2, <1>3, <1>4, <1>5, <1>6 DEF Thread

LEMMA ThreadExclusion ==
  ASSUME SwarmInv, NEW i \in Particles, Thread(i)
  PROVE  Exclusion'
  <1> SUFFICES ASSUME NEW j \in Particles, thread'[j] \in Critical
               PROVE  lock' = j
    BY DEF Exclusion
  <1>0. i # 0 /\ j # 0
    BY NAssumption DEF Particles
  <1>1. \A k \in Particles : thread[k] \in Critical => lock = k
    BY DEF SwarmInv, Exclusion
  <1>2. thread \in [Particles -> ThreadPcs]
    BY DEF SwarmInv, Types
  <1>3. CASE j # i
    <2>1. lock = j
      BY <1>1, <1>3, ThreadFrame
    <2>2. ~Lock(i) /\ ~Unlock(i)
      BY <1>0, <1>1, <1>3, <2>1 DEF Lock, Unlock, Critical
    <2>3. lock' = lock
      BY <2>2 DEF Thread, Move, Personal, Test, Write
    <2>4. QED BY <2>1, <2>3
  <1>4. CASE j = i
    <2>1. Lock(i) \/ Test(i) \/ Write(i)
      BY <1>2, <1>4 DEF Thread, Move, Personal, Unlock, Critical
    <2>2. CASE Lock(i)
      BY <1>4, <2>2 DEF Lock
    <2>3. CASE Test(i) \/ Write(i)
      BY <1>1, <1>4, <2>3 DEF Test, Write, Critical
    <2>4. QED BY <2>1, <2>2, <2>3
  <1>5. QED BY <1>3, <1>4

(* The critical section: nobody else writes the record between one         *)
(* thread's test and its write, so the record only grows.                  *)
LEMMA ThreadRecord ==
  ASSUME SwarmInv, NEW i \in Particles, Thread(i)
  PROVE  Record'
  <1> DEFINE pb == personal_best
  <1>1. pc = "join" /\ pc' = "join" /\ map' = map
    BY ThreadFrame
  <1>2. /\ \A j \in Particles :
             /\ thread[j] \in Reported => Fit(pb[j]) <= best.fitness
             /\ thread[j] = "write" => Fit(pb[j]) > best.fitness
        /\ Fit(pb[GlobalBest]) >= best.fitness
    BY <1>1 DEF SwarmInv, Record
  <1>3. /\ thread \in [Particles -> ThreadPcs] /\ pb \in [Particles -> Positions]
        /\ map \in Maps /\ best \in [fitness : Nat, position : Positions]
        /\ GlobalBest \in Particles
    BY DEF SwarmInv, Types
  <1>4. \A p \in Positions : Fit(p) \in Nat
    BY <1>3, FitType DEF Fit
  <1>5. \A p : Fit(p)' = Fitness[map'][p']
    BY DEF Fit
  <1>6. SUFFICES
          /\ \A j \in Particles :
               /\ thread'[j] \in Reported => Fit(pb'[j]) <= best'.fitness
               /\ thread'[j] = "write" => Fit(pb'[j]) > best'.fitness
          /\ Fit(pb'[GlobalBest']) >= best'.fitness
    BY <1>1 DEF Record, Fit
  <1>7. CASE \E p \in Positions : Move(i, p)
    <2>1. UNCHANGED <<pb, best, GlobalBest>> /\ thread[i] = "move"
          /\ thread' = [thread EXCEPT ![i] = "personal"]
      BY <1>7 DEF Move
    <2>2. QED BY <1>2, <1>3, <2>1 DEF Reported
  <1>8. CASE Personal(i)
    <2>1. /\ UNCHANGED <<best, GlobalBest>> /\ thread' = [thread EXCEPT ![i] = "lock"]
          /\ pb' = [pb EXCEPT ![i] = IF Fit(position[i]) > Fit(pb[i]) THEN position[i]
                                                                     ELSE pb[i]]
      BY <1>8, <1>3 DEF Personal
    <2>2. position[i] \in Positions
      BY DEF SwarmInv, Types
    <2>3. Fit(pb'[i]) >= Fit(pb[i]) /\ Fit(pb[i]) \in Nat /\ Fit(pb'[i]) \in Nat
      BY <1>3, <1>4, <2>1, <2>2
    <2>4. \A j \in Particles : j # i => pb'[j] = pb[j] /\ thread'[j] = thread[j]
      BY <1>3, <2>1
    <2>5. thread'[i] = "lock"
      BY <1>3, <2>1
    <2>6. \A j \in Particles :
            /\ thread'[j] \in Reported => Fit(pb'[j]) <= best'.fitness
            /\ thread'[j] = "write" => Fit(pb'[j]) > best'.fitness
      BY <1>2, <2>1, <2>4, <2>5 DEF Reported
    <2>7. best.fitness \in Nat
      BY <1>3
    <2>8. Fit(pb'[GlobalBest]) >= best.fitness
      <3>1. CASE GlobalBest = i
        <4>1. Fit(pb[i]) >= best.fitness
          BY <1>2, <3>1
        <4>2. Fit(pb'[i]) >= best.fitness
          BY <2>3, <2>7, <4>1
        <4>3. QED BY <3>1, <4>2
      <3>2. CASE GlobalBest # i
        BY <1>2, <1>3, <2>4, <3>2
      <3>3. QED BY <3>1, <3>2
    <2>9. QED BY <2>1, <2>6, <2>8
  <1>9. CASE Lock(i) \/ Unlock(i)
    <2>1. UNCHANGED <<pb, best, GlobalBest>>
          /\ \/ thread[i] = "lock" /\ thread' = [thread EXCEPT ![i] = "test"]
             \/ thread[i] = "unlock" /\ thread' = [thread EXCEPT ![i] = "done"]
      BY <1>9 DEF Lock, Unlock
    <2>2. QED BY <1>2, <1>3, <2>1 DEF Reported
  <1>10. CASE Test(i)
    <2>1. /\ UNCHANGED <<pb, best, GlobalBest>>
          /\ thread' = [thread EXCEPT ![i] = IF Fit(pb[i]) > best.fitness
                                               THEN "write" ELSE "unlock"]
      BY <1>10 DEF Test
    <2>2. Fit(pb[i]) \in Nat /\ best.fitness \in Nat
      BY <1>3, <1>4
    <2>3. \A j \in Particles : j # i => thread'[j] = thread[j]
      BY <1>3, <2>1
    <2>4. CASE Fit(pb[i]) > best.fitness
      <3>1. thread'[i] = "write"
        BY <1>3, <2>1, <2>4
      <3>2. QED BY <1>2, <2>1, <2>3, <2>4, <3>1 DEF Reported
    <2>5. CASE ~(Fit(pb[i]) > best.fitness)
      <3>1. thread'[i] = "unlock" /\ Fit(pb[i]) <= best.fitness
        BY <1>3, <2>1, <2>2, <2>5
      <3>2. QED BY <1>2, <2>1, <2>3, <3>1 DEF Reported
    <2>6. QED BY <2>4, <2>5
  <1>11. CASE Write(i)
    <2>1. /\ thread[i] = "write" /\ UNCHANGED pb /\ GlobalBest' = i
          /\ best' = [best EXCEPT !.fitness = Fit(pb[i])]
          /\ thread' = [thread EXCEPT ![i] = "unlock"]
      BY <1>11 DEF Write
    <2>2. best'.fitness = Fit(pb[i]) /\ Fit(pb[i]) > best.fitness
      BY <1>2, <1>3, <2>1
    <2>3. Fit(pb[i]) \in Nat /\ best.fitness \in Nat
      BY <1>3, <1>4
    <2>4. \A j \in Particles : j # i => thread'[j] = thread[j] /\ thread[j] # "write"
      <3>1. TAKE j \in Particles
      <3>2. HAVE j # i
      <3>3. thread[j] \notin Critical
        BY <2>1, <3>2 DEF SwarmInv, Exclusion, Critical
      <3>4. QED BY <1>3, <2>1, <3>2, <3>3 DEF Critical
    <2>5. thread'[i] = "unlock"
      BY <1>3, <2>1
    <2>6. \A j \in Particles : thread'[j] \in Reported => Fit(pb[j]) <= Fit(pb[i])
      <3>1. TAKE j \in Particles
      <3>2. HAVE thread'[j] \in Reported
      <3>3. Fit(pb[j]) \in Nat
        BY <1>3, <1>4
      <3>4. CASE j = i
        BY <2>3, <3>4
      <3>5. CASE j # i
        <4>1. Fit(pb[j]) <= best.fitness
          BY <1>2, <2>4, <3>2, <3>5
        <4>2. QED BY <2>2, <2>3, <3>3, <4>1
      <3>6. QED BY <3>4, <3>5
    <2>7. \A j \in Particles : thread'[j] # "write"
      BY <2>4, <2>5
    <2>8. Fit(pb[i]) >= Fit(pb[i])
      BY <2>3
    <2>9. QED BY <2>1, <2>2, <2>6, <2>7, <2>8
  <1>12. QED BY <1>7, <1>8, <1>9, <1>10, <1>11 DEF Thread

LEMMA ThreadSwarm ==
  ASSUME SwarmInv, NEW i \in Particles, Thread(i)
  PROVE  SwarmInv'
  <1>1. Resting'
    BY ThreadFrame DEF Resting
  <1>2. QED BY <1>1, ThreadTypes, ThreadExclusion, ThreadRecord DEF SwarmInv

LEMMA JoinSwarm ==
  ASSUME SwarmInv, Join
  PROVE  SwarmInv'
  <1>1. /\ pc = "join" /\ pc' = "iterate" /\ (\A i \in Particles : thread[i] = "done")
        /\ thread' = [i \in Particles |-> "off"]
        /\ best' = [best EXCEPT !.position = personal_best[GlobalBest]]
        /\ UNCHANGED <<map, position, personal_best, GlobalBest, lock>>
    BY DEF Join
  <1>2. best'.fitness = best.fitness /\ best'.position = personal_best[GlobalBest]
    BY <1>1 DEF SwarmInv, Types
  <1>3. Types'
    BY <1>1 DEF SwarmInv, Types, ThreadPcs
  <1>4. Exclusion' /\ Resting'
    BY <1>1, <1>2 DEF Exclusion, Critical, Resting
  <1>5. Record'
    BY <1>1, <1>2 DEF SwarmInv, Record, Reported, Fit
  <1>6. QED BY <1>3, <1>4, <1>5 DEF SwarmInv

LEMMA RestSwarm ==
  ASSUME SwarmInv, Extract \/ Inherit
  PROVE  SwarmInv'
  <1>1. /\ pc \in {"iterate", "inherit"} /\ pc' \in {"inherit", "idle"}
        /\ UNCHANGED <<map, position, personal_best, best, GlobalBest, thread, lock>>
    BY DEF Extract, Inherit
  <1>2. QED BY <1>1 DEF SwarmInv, Types, Exclusion, Record, Resting, Fit

LEMMA SwarmInductive == SwarmInv /\ [Next]_vars => SwarmInv'
  <1> SUFFICES ASSUME SwarmInv, [Next]_vars PROVE SwarmInv'
    OBVIOUS
  <1>1. CASE \E m \in Maps, start \in [Particles -> Positions] : Plan(m, start)
    BY <1>1, PlanSwarm
  <1>2. CASE \E i \in Particles : Thread(i)
    BY <1>2, ThreadSwarm
  <1>3. CASE Spawn
    BY <1>3, SpawnSwarm
  <1>4. CASE Join
    BY <1>4, JoinSwarm
  <1>5. CASE Extract \/ Inherit
    BY <1>5, RestSwarm
  <1>6. CASE UNCHANGED vars
    BY <1>6 DEF vars, SwarmInv, Types, Exclusion, Record, Resting, Fit
  <1>7. QED BY <1>1, <1>2, <1>3, <1>4, <1>5, <1>6 DEF Next, Planner

(* After every iteration of PSO::plan the leader is unbeaten and its       *)
(* recorded fitness is its position's (pso.cpp 130-161 and 386-428), for   *)
(* any swarm: the mutex around the test and the write is enough.           *)
THEOREM SwarmCorrect == Spec => []LeaderLeads
  <1>1. QED BY InvLeads, InitSwarm, SwarmInductive, PTL DEF Spec

(* At most one thread at a time is between lock() and unlock().            *)
THEOREM MutualExclusion == Spec => []Exclusion
  <1>1. SwarmInv => Exclusion
    BY DEF SwarmInv
  <1>2. QED BY <1>1, InitSwarm, SwarmInductive, PTL DEF Spec

-----------------------------------------------------------------------------
(* The rest of the types; a running iteration is not the last one yet.      *)
RestTypes ==
  /\ iter \in 0..MaxIter /\ (pc = "join" => iter < MaxIter)
  /\ inherited \in Seq(Positions)
  /\ answer \in Positions \cup {NoAnswer}
  /\ seen \subseteq Positions
  /\ last \in [map : Maps, fitness : Nat]

(* Every position evaluated by a plan is on record, or its particle is      *)
(* about to make it its optimum, or to report one at least as good.         *)
Accounted(q) ==
  \/ Fit(q) <= best.fitness
  \/ \E i \in Particles : thread[i] = "personal" /\ position[i] = q
  \/ \E i \in Particles : /\ thread[i] \in {"lock", "test", "write"}
                          /\ Fit(q) <= Fit(personal_best[i])

SearchInv ==
  /\ pc \in {"iterate", "join"} => answer = NoAnswer
  /\ pc # "idle" =>
       /\ \A i \in Particles : /\ personal_best[i] \in seen
                               /\ thread[i] = "personal" => position[i] \in seen
       /\ \A q \in seen : Accounted(q)

(* The first inherited position is as good, on the map it was found on, as  *)
(* the last plan's; the current plan's record has kept up with it.          *)
WorthInv ==
  NInherited > 0 =>
    /\ last.fitness > 0 =>
         Len(inherited) = NInherited /\ Fitness[last.map][inherited[1]] >= last.fitness
    /\ pc # "idle" /\ last.map = map => best.fitness >= last.fitness

LEMMA RestTypesInit == Init => RestTypes
  <1> SUFFICES ASSUME Init PROVE RestTypes
    OBVIOUS
  <1>1. inherited \in Seq(Positions)
    BY PositionsAssumption DEF Init
  <1>2. QED BY <1>1, NAssumption DEF Init, RestTypes

LEMMA RestTypesStep ==
  ASSUME SwarmInv, RestTypes, [Next]_vars
  PROVE  RestTypes'
  <1> USE DEF RestTypes
  <1>1. ASSUME NEW m \in Maps, NEW start \in [Particles -> Positions], Plan(m, start)
        PROVE  RestTypes'
    <2>1. seen' \subseteq Positions
      BY <1>1 DEF Plan
    <2>2. QED BY <1>1, <2>1, NAssumption DEF Plan
  <1>2. ASSUME NEW i \in Particles, Thread(i)
        PROVE  RestTypes'
    <2>1. UNCHANGED <<iter, inherited, answer, last, pc>>
      BY <1>2 DEF Thread, Move, Personal, Lock, Test, Write, Unlock
    <2>2. seen' \subseteq Positions
      BY <1>2 DEF Thread, Move, Personal, Lock, Test, Write, Unlock
    <2>3. QED BY <2>1, <2>2
  <1>3. CASE Spawn
    BY <1>3, NAssumption DEF Spawn
  <1>4. CASE Join
    BY <1>4, NAssumption DEF Join
  <1>5. CASE Extract
    BY <1>5 DEF Extract, SwarmInv, Types
  <1>6. CASE Inherit
    <2>1. PICK order \in [Particles -> Particles] :
            inherited' = [i \in 1..NInherited |-> personal_best[order[i]]]
      BY <1>6 DEF Inherit
    <2>2. \A i \in 1..NInherited : personal_best[order[i]] \in Positions
      BY InheritedAssumption, NAssumption DEF Particles, SwarmInv, Types
    <2>3. inherited' \in Seq(Positions)
      BY <2>1, <2>2, InheritedAssumption
    <2>4. last' \in [map : Maps, fitness : Nat]
      BY <1>6 DEF Inherit, SwarmInv, Types
    <2>5. UNCHANGED <<iter, answer, seen>> /\ pc' = "idle"
      BY <1>6 DEF Inherit
    <2>6. QED BY <2>3, <2>4, <2>5
  <1>7. CASE UNCHANGED vars
    BY <1>7 DEF vars
  <1>8. QED BY <1>1, <1>2, <1>3, <1>4, <1>5, <1>6, <1>7 DEF Next, Planner

-----------------------------------------------------------------------------
LEMMA SearchThread ==
  ASSUME SwarmInv, RestTypes, SearchInv, NEW i \in Particles, Thread(i)
  PROVE  SearchInv'
  <1> DEFINE pb == personal_best
  <1>1. /\ pc = "join" /\ pc' = "join" /\ map' = map /\ answer' = answer
        /\ \A j \in Particles : j # i => thread'[j] = thread[j] /\ pb'[j] = pb[j]
    <2>1. answer' = answer
      BY DEF Thread, Move, Personal, Lock, Test, Write, Unlock
    <2>2. QED BY <2>1, ThreadFrame
  <1>2. /\ thread \in [Particles -> ThreadPcs] /\ pb \in [Particles -> Positions]
        /\ position \in [Particles -> Positions] /\ map \in Maps
        /\ best \in [fitness : Nat, position : Positions] /\ seen \subseteq Positions
    BY DEF SwarmInv, Types, RestTypes
  <1>3. /\ \A p \in Positions : Fit(p) \in Nat
        /\ best.fitness \in Nat
    BY <1>2, FitType DEF Fit
  <1>4. /\ \A j \in Particles : /\ pb[j] \in seen
                                /\ thread[j] = "personal" => position[j] \in seen
        /\ \A q \in seen : Accounted(q)
    BY <1>1 DEF SearchInv
  <1>5. SUFFICES
          /\ \A j \in Particles : /\ pb'[j] \in seen'
                                  /\ thread'[j] = "personal" => position'[j] \in seen'
          /\ \A q \in seen' :
               \/ Fit(q) <= best'.fitness
               \/ \E j \in Particles : thread'[j] = "personal" /\ position'[j] = q
               \/ \E j \in Particles : /\ thread'[j] \in {"lock", "test", "write"}
                                       /\ Fit(q) <= Fit(pb'[j])
    BY <1>1 DEF SearchInv, Accounted, Fit
  <1>6. CASE \E p \in Positions : Move(i, p)
    <2>1. PICK p \in Positions :
            /\ thread[i] = "move" /\ position' = [position EXCEPT ![i] = p]
            /\ seen' = seen \cup {p} /\ thread' = [thread EXCEPT ![i] = "personal"]
            /\ UNCHANGED <<pb, best>>
      BY <1>6 DEF Move
    <2>2. thread'[i] = "personal" /\ position'[i] = p
          /\ \A j \in Particles : j # i => position'[j] = position[j]
      BY <1>2, <2>1
    <2>3. ASSUME NEW q \in seen
          PROVE  \/ Fit(q) <= best'.fitness
                 \/ \E j \in Particles : thread'[j] = "personal" /\ position'[j] = q
                 \/ \E j \in Particles : /\ thread'[j] \in {"lock", "test", "write"}
                                         /\ Fit(q) <= Fit(pb'[j])
      BY <1>1, <1>4, <2>1, <2>2 DEF Accounted
    <2>4. QED BY <1>1, <1>4, <2>1, <2>2, <2>3
  <1>7. CASE Personal(i)
    <2>1. /\ thread[i] = "personal" /\ thread' = [thread EXCEPT ![i] = "lock"]
          /\ pb' = [pb EXCEPT ![i] = IF Fit(position[i]) > Fit(pb[i]) THEN position[i]
                                                                     ELSE pb[i]]
          /\ UNCHANGED <<position, best, seen>>
      BY <1>2, <1>7 DEF Personal
    <2>2. /\ pb'[i] \in {position[i], pb[i]} /\ thread'[i] = "lock"
          /\ Fit(position[i]) <= Fit(pb'[i])
      BY <1>2, <1>3, <2>1
    <2>3. QED BY <1>1, <1>4, <2>1, <2>2 DEF Accounted
  <1>8. CASE Lock(i)
    <2>1. /\ thread[i] = "lock" /\ thread' = [thread EXCEPT ![i] = "test"]
          /\ UNCHANGED <<position, pb, best, seen>>
      BY <1>8 DEF Lock
    <2>2. QED BY <1>1, <1>2, <1>4, <2>1 DEF Accounted
  <1>9. CASE Test(i)
    <2>1. /\ thread[i] = "test" /\ UNCHANGED <<position, pb, best, seen>>
          /\ thread'[i] = IF Fit(pb[i]) > best.fitness THEN "write" ELSE "unlock"
      BY <1>2, <1>9 DEF Test
    <2>2. ASSUME NEW q \in seen, Fit(q) <= Fit(pb[i]), thread'[i] # "write"
          PROVE  Fit(q) <= best.fitness
      <3>1. Fit(q) \in Nat /\ Fit(pb[i]) \in Nat
        BY <1>2, <1>3
      <3>2. QED BY <1>3, <2>1, <2>2, <3>1
    <2>3. QED BY <1>1, <1>4, <2>1, <2>2 DEF Accounted
  <1>10. CASE Write(i)
    <2>1. /\ thread[i] = "write" /\ thread'[i] = "unlock"
          /\ best'.fitness = Fit(pb[i]) /\ UNCHANGED <<position, pb, seen>>
      BY <1>2, <1>10 DEF Write
    <2>2. Fit(pb[i]) > best.fitness
      BY <1>1, <2>1 DEF SwarmInv, Record
    <2>3. ASSUME NEW q \in seen, Fit(q) <= best.fitness
          PROVE  Fit(q) <= best'.fitness
      <3>1. Fit(q) \in Nat /\ Fit(pb[i]) \in Nat
        BY <1>2, <1>3
      <3>2. QED BY <1>3, <2>1, <2>2, <2>3, <3>1
    <2>4. QED BY <1>1, <1>4, <2>1, <2>3 DEF Accounted
  <1>11. CASE Unlock(i)
    <2>1. /\ thread[i] = "unlock" /\ thread'[i] = "done"
          /\ UNCHANGED <<position, pb, best, seen>>
      BY <1>2, <1>11 DEF Unlock
    <2>2. QED BY <1>1, <1>4, <2>1 DEF Accounted
  <1>12. QED BY <1>6, <1>7, <1>8, <1>9, <1>10, <1>11 DEF Thread

LEMMA SearchStep ==
  ASSUME SwarmInv, RestTypes, SearchInv, [Next]_vars
  PROVE  SearchInv'
  <1>1. ASSUME NEW m \in Maps, NEW start \in [Particles -> Positions], Plan(m, start)
        PROVE  SearchInv'
    <2>1. /\ map' = m /\ personal_best' = start /\ answer' = NoAnswer
          /\ seen' = {start[i] : i \in Particles}
          /\ thread' = thread /\ pc = "idle" /\ pc' = "iterate"
      BY <1>1 DEF Plan
    <2>2. \A i \in Particles : Fitness[m][start[i]] <= best'.fitness
      BY <1>1 DEF Plan
    <2>3. \A i \in Particles : thread'[i] = "off"
      BY <2>1 DEF SwarmInv, Resting
    <2>4. \A q \in seen' : Fitness[m][q] <= best'.fitness
      BY <2>1, <2>2
    <2>5. QED BY <2>1, <2>3, <2>4 DEF SearchInv, Accounted, Fit
  <1>2. CASE \E i \in Particles : Thread(i)
    BY <1>2, SearchThread
  <1>3. CASE Spawn
    <2>1. /\ pc = "iterate" /\ pc' = "join" /\ thread' = [i \in Particles |-> "move"]
          /\ UNCHANGED <<map, position, personal_best, best, answer, seen>>
      BY <1>3 DEF Spawn
    <2>2. \A i \in Particles : thread[i] = "off"
      BY <2>1 DEF SwarmInv, Resting
    <2>3. QED BY <2>1, <2>2 DEF SearchInv, Accounted, Fit
  <1>4. CASE Join
    <2>1. /\ pc = "join" /\ pc' = "iterate" /\ (\A i \in Particles : thread[i] = "done")
          /\ thread' = [i \in Particles |-> "off"]
          /\ UNCHANGED <<map, position, personal_best, answer, seen>>
      BY <1>4 DEF Join
    <2>2. best'.fitness = best.fitness
      BY <1>4 DEF Join, SwarmInv, Types
    <2>3. QED BY <2>1, <2>2 DEF SearchInv, Accounted, Fit
  <1>5. CASE Extract \/ Inherit
    BY <1>5 DEF Extract, Inherit, SearchInv, Accounted, Fit
  <1>6. CASE UNCHANGED vars
    BY <1>6 DEF vars, SearchInv, Accounted, Fit
  <1>7. QED BY <1>1, <1>2, <1>3, <1>4, <1>5, <1>6 DEF Next, Planner

(* What a plan answers was evaluated, and nothing evaluated beats it.       *)
LEMMA AnswerIsBest ==
  ASSUME SwarmInv, RestTypes, SearchInv, pc = "iterate"
  PROVE  best.position \in seen /\ \A q \in seen : Fit(best.position) >= Fit(q)
  <1>1. (\A i \in Particles : thread[i] = "off")
        /\ best.position = personal_best[GlobalBest] /\ GlobalBest \in Particles
    BY DEF SwarmInv, Resting, Types
  <1>2. best.fitness = Fit(best.position)
    BY InvLeads DEF LeaderLeads
  <1>3. best.fitness \in Nat /\ \A q \in seen : Fit(q) \in Nat
    BY FitType DEF SwarmInv, Types, RestTypes, Fit
  <1>4. \A q \in seen : Fit(q) <= best.fitness
    BY <1>1 DEF SearchInv, Accounted
  <1>5. best.position \in seen
    BY <1>1 DEF SearchInv
  <1>6. QED BY <1>2, <1>3, <1>4, <1>5

(* Every step of the swarm is a step of the search, or leaves it alone.     *)
LEMMA StepSearches ==
  ASSUME SwarmInv, RestTypes, SearchInv, [Next]_vars
  PROVE  [Promise!Begin \/ Promise!Evaluate \/ Promise!Answer]_(Promise!searchVars)
  <1> USE DEF Promise!searchVars
  <1>1. ASSUME NEW m \in Maps, NEW start \in [Particles -> Positions], Plan(m, start)
        PROVE  Promise!Begin
    <2>1. map' = m /\ answer' = NoAnswer /\ seen' = {start[i] : i \in Particles}
      BY <1>1 DEF Plan
    <2>2. 1 \in Particles
      BY NAssumption DEF Particles
    <2>3. seen' \in (SUBSET Positions) \ {{}}
      <3>1. start[1] \in seen' /\ seen' \subseteq Positions
        BY <2>1, <2>2
      <3>2. seen' # {}
        BY <3>1
      <3>3. QED BY <3>1, <3>2
    <2>4. QED BY <2>1, <2>3 DEF Promise!Begin
  <1>2. ASSUME NEW i \in Particles, NEW p \in Positions, Move(i, p)
        PROVE  Promise!Evaluate
    <2>1. seen' = seen \cup {p} /\ UNCHANGED <<map, answer>>
      BY <1>2 DEF Move
    <2>2. pc = "join"
      BY <1>2 DEF Move, SwarmInv, Resting
    <2>3. answer = NoAnswer /\ personal_best[i] \in seen
      BY <2>2 DEF SearchInv
    <2>4. QED BY <2>1, <2>3 DEF Promise!Evaluate
  <1>3. CASE Extract
    <2>1. pc = "iterate" /\ answer' = best.position /\ UNCHANGED <<map, seen>>
      BY <1>3 DEF Extract
    <2>2. answer = NoAnswer
      BY <2>1 DEF SearchInv
    <2>3. best.position \in seen /\ \A q \in seen : Fit(best.position) >= Fit(q)
      BY <2>1, AnswerIsBest
    <2>4. Promise!Answer
      BY <2>1, <2>2, <2>3 DEF Promise!Answer, Fit
    <2>5. QED BY <2>4
  <1>4. ASSUME NEW i \in Particles,
               Personal(i) \/ Lock(i) \/ Test(i) \/ Write(i) \/ Unlock(i)
        PROVE  UNCHANGED <<map, seen, answer>>
    BY <1>4 DEF Personal, Lock, Test, Write, Unlock
  <1>5. Spawn \/ Join \/ Inherit => UNCHANGED <<map, seen, answer>>
    BY DEF Spawn, Join, Inherit
  <1>6. UNCHANGED vars => UNCHANGED <<map, seen, answer>>
    BY DEF vars
  <1>7. QED BY <1>1, <1>2, <1>3, <1>4, <1>5, <1>6 DEF Next, Planner, Thread

-----------------------------------------------------------------------------
(* An order of all particles has every particle at some place.              *)
LEMMA OrderCovers ==
  ASSUME NEW order \in [Particles -> Particles], NEW g \in Particles,
         \A i, j \in Particles : i < j => order[i] # order[j]
  PROVE  \E k \in Particles : order[k] = g
  <1>1. IsFiniteSet(Particles)
    BY FS_Interval, NAssumption DEF Particles
  <1>2. \A i, j \in Particles : order[i] = order[j] => i = j
    BY NAssumption DEF Particles
  <1>3. order \in Injection(Particles, Particles)
    BY <1>2 DEF Injection, IsInjective
  <1>4. order \in Surjection(Particles, Particles)
    BY <1>1, <1>3, FS_Injection
  <1>5. QED BY <1>4 DEF Surjection

(* The first of the inherited particles is as good as the plan's leader.    *)
LEMMA InheritWorth ==
  ASSUME SwarmInv, RestTypes, Inherit, NInherited > 0
  PROVE  Len(inherited') = NInherited /\ Fit(inherited'[1]) >= best.fitness
  <1>1. PICK order \in [Particles -> Particles] :
          /\ IsSorted(order)
          /\ inherited' = [i \in 1..NInherited |-> personal_best[order[i]]]
    BY DEF Inherit
  <1>2. /\ GlobalBest \in Particles /\ best.fitness \in Nat /\ pc = "inherit"
        /\ 1 \in Particles /\ 1 \in 1..NInherited
        /\ \A i \in Particles : Fit(personal_best[i]) \in Nat
    <2>1. /\ GlobalBest \in Particles /\ best.fitness \in Nat /\ pc = "inherit"
          /\ \A i \in Particles : personal_best[i] \in Positions
          /\ map \in Maps
      BY DEF Inherit, SwarmInv, Types
    <2>2. \A i \in Particles : Fit(personal_best[i]) \in Nat
      BY <2>1, FitType DEF Fit
    <2>3. QED BY <2>1, <2>2, NAssumption, InheritedAssumption DEF Particles
  <1>3. PICK k \in Particles : order[k] = GlobalBest
    BY <1>1, <1>2, OrderCovers DEF IsSorted
  <1>4. Fit(personal_best[order[1]]) >= Fit(personal_best[GlobalBest])
    <2>1. CASE k = 1
      BY <1>2, <1>3, <2>1
    <2>2. CASE k # 1
      <3>1. 1 < k
        BY <2>2, NAssumption DEF Particles
      <3>2. QED BY <1>1, <1>2, <1>3, <3>1 DEF IsSorted
    <2>3. QED BY <2>1, <2>2
  <1>5. Fit(personal_best[GlobalBest]) >= best.fitness
    BY <1>2 DEF SwarmInv, Record
  <1>6. Fit(personal_best[order[1]]) >= best.fitness
    <2>1. order[1] \in Particles
      BY <1>2
    <2>2. QED BY <1>2, <1>4, <1>5, <2>1
  <1>7. inherited'[1] = personal_best[order[1]] /\ Len(inherited') = NInherited
    BY <1>1, <1>2, InheritedAssumption
  <1>8. QED BY <1>6, <1>7

(* A plan begins at least as well as the last one on its map ended.         *)
LEMMA PlanWorth ==
  ASSUME SwarmInv, RestTypes, WorthInv, NInherited > 0,
         NEW m \in Maps, NEW start \in [Particles -> Positions], Plan(m, start),
         last.map = m
  PROVE  best'.fitness >= last.fitness
  <1>1. last.fitness \in Nat
    BY DEF RestTypes
  <1>2. 1 \in Particles
    BY NAssumption DEF Particles
  <1>3. /\ \A i \in Particles : Fitness[m][start[i]] <= best'.fitness
        /\ \A i \in Particles : Inherits(i) => start[i] = inherited[i]
        /\ best'.fitness \in Nat
    <2>1. PICK g \in Particles :
            /\ \A i \in Particles : Fitness[m][start[i]] <= Fitness[m][start[g]]
            /\ best' = [fitness |-> Fitness[m][start[g]], position |-> start[g]]
      BY DEF Plan
    <2>2. QED BY <2>1, FitType DEF Plan
  <1>4. CASE last.fitness = 0
    BY <1>3, <1>4
  <1>5. CASE last.fitness > 0
    <2>1. Len(inherited) = NInherited /\ Fitness[m][inherited[1]] >= last.fitness
      BY <1>5 DEF WorthInv
    <2>2. start[1] = inherited[1]
      BY <1>2, <1>3, <2>1, InheritedAssumption DEF Inherits
    <2>3. Fitness[m][start[1]] \in Nat
      BY <1>2, FitType
    <2>4. QED BY <1>1, <1>2, <1>3, <2>1, <2>2, <2>3
  <1>6. QED BY <1>1, <1>4, <1>5

LEMMA WorthStep ==
  ASSUME SwarmInv, RestTypes, WorthInv, [Next]_vars
  PROVE  WorthInv'
  <1> SUFFICES ASSUME NInherited > 0 PROVE WorthInv'
    BY DEF WorthInv
  <1>1. ASSUME NEW m \in Maps, NEW start \in [Particles -> Positions], Plan(m, start)
        PROVE  WorthInv'
    <2>1. UNCHANGED <<inherited, last>> /\ map' = m
      BY <1>1 DEF Plan
    <2>2. last.map = m => best'.fitness >= last.fitness
      BY <1>1, PlanWorth
    <2>3. QED BY <2>1, <2>2 DEF WorthInv
  <1>2. ASSUME NEW i \in Particles, Thread(i)
        PROVE  WorthInv'
    <2>1. UNCHANGED <<inherited, last, map, pc>> /\ pc = "join"
      <3>1. UNCHANGED <<inherited, last>>
        BY <1>2 DEF Thread, Move, Personal, Lock, Test, Write, Unlock
      <3>2. QED BY <1>2, <3>1, ThreadFrame
    <2>2. best'.fitness >= best.fitness /\ best'.fitness \in Nat /\ best.fitness \in Nat
      <3>1. CASE Write(i)
        <4>1. best'.fitness = Fit(personal_best[i]) /\ Fit(personal_best[i]) > best.fitness
          BY <2>1, <3>1 DEF Write, SwarmInv, Types, Record
        <4>2. Fit(personal_best[i]) \in Nat /\ best.fitness \in Nat
          BY FitType DEF SwarmInv, Types, Fit
        <4>3. QED BY <4>1, <4>2
      <3>2. CASE ~Write(i)
        <4>1. best' = best
          BY <1>2, <3>2 DEF Thread, Move, Personal, Lock, Test, Unlock
        <4>2. QED BY <4>1 DEF SwarmInv, Types
      <3>3. QED BY <3>1, <3>2
    <2>3. last.fitness \in Nat
      BY DEF RestTypes
    <2>4. QED BY <2>1, <2>2, <2>3 DEF WorthInv
  <1>3. CASE Spawn \/ Join
    <2>1. /\ UNCHANGED <<inherited, last, map>> /\ pc # "idle"
          /\ best'.fitness = best.fitness
      BY <1>3 DEF Spawn, Join, SwarmInv, Types
    <2>2. QED BY <2>1 DEF WorthInv
  <1>4. CASE Extract
    BY <1>4 DEF Extract, WorthInv
  <1>5. CASE Inherit
    <2>1. pc' = "idle" /\ last' = [map |-> map, fitness |-> best.fitness]
      BY <1>5 DEF Inherit
    <2>2. Len(inherited') = NInherited /\ Fit(inherited'[1]) >= best.fitness
      BY <1>5, InheritWorth
    <2>3. QED BY <2>1, <2>2 DEF WorthInv, Fit
  <1>6. CASE UNCHANGED vars
    BY <1>6 DEF vars, WorthInv
  <1>7. QED BY <1>1, <1>2, <1>3, <1>4, <1>5, <1>6 DEF Next, Planner

-----------------------------------------------------------------------------
LEMMA AllInit == Init => SwarmInv /\ RestTypes /\ SearchInv /\ WorthInv
  <1>1. Init => SearchInv /\ WorthInv
    BY DEF Init, SearchInv, WorthInv
  <1>2. QED BY <1>1, InitSwarm, RestTypesInit

LEMMA AllStep ==
  SwarmInv /\ RestTypes /\ SearchInv /\ WorthInv /\ [Next]_vars
    => (SwarmInv /\ RestTypes /\ SearchInv /\ WorthInv)'
  BY SwarmInductive, RestTypesStep, SearchStep, WorthStep

(* Every variable of the planner and its threads keeps its type.            *)
THEOREM SwarmTypes == Spec => []TypeOK
  <1>1. SwarmInv /\ RestTypes => TypeOK
    BY DEF SwarmInv, Types, RestTypes, TypeOK
  <1>2. QED BY <1>1, AllInit, AllStep, PTL DEF Spec

(* PSO::plan called again for the same map, start and goal never answers    *)
(* with a worse path: the best of the sorted optima is inherited (pso.cpp   *)
(* 190-201) and takes part from the first evaluation on (109-140).          *)
THEOREM NoWorseCorrect == Spec => []NoWorse
  <1>1. WorthInv => NoWorse
    BY DEF WorthInv, NoWorse
  <1>2. QED BY <1>1, AllInit, AllStep, PTL DEF Spec

(* The planner implements BestOfSeen: whatever the threads do at the same   *)
(* time, its answer is one of the best positions any of them has evaluated. *)
THEOREM SwarmSearches == Spec => AnswersBestOfSeen
  <1>1. Init => Promise!SearchInit
    BY DEF Init, Promise!SearchInit
  <1>2. SwarmInv /\ RestTypes /\ SearchInv /\ [Next]_vars
          => [Promise!Begin \/ Promise!Evaluate \/ Promise!Answer]_(Promise!searchVars)
    BY StepSearches
  <1>3. QED
    BY <1>1, <1>2, AllInit, AllStep, PTL
       DEF Spec, AnswersBestOfSeen, Promise!SearchSpec
=============================================================================
