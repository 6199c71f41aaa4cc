------------------------------- MODULE PsoSwarm -------------------------------
(***************************************************************************)
(* The particle swarm global planner (PSO::plan).  In every iteration one  *)
(* thread per particle moves its particle, evaluates the path through it   *)
(* and reports it under a mutex; the planner joins them, and keeps the     *)
(* best particles for the next call.                                       *)
(*                                                                         *)
(* A position stands for a particle's sequence of path points; its fitness *)
(* (path length and obstacles on the given map) is a parameter.  Random    *)
(* velocities may take a particle anywhere.                                *)
(***************************************************************************)
EXTENDS Naturals, Sequences

CONSTANTS
  Positions,   \* what a particle can be
  Maps,        \* a cost map with a start and a goal
  Fitness,     \* [Maps -> [Positions -> Nat]]
  Corner,      \* the position the constructor inherits from
  N,           \* n_particles
  NInherited,  \* n_inherited
  MaxIter,     \* pso_max_iter
  NoAnswer     \* no path extracted yet

Particles == 1..N

ASSUME NAssumption == N \in Nat \ {0} /\ MaxIter \in Nat
ASSUME FitnessAssumption == Fitness \in [Maps -> [Positions -> Nat]]
ASSUME PositionsAssumption == Corner \in Positions /\ NoAnswer \notin Positions
ASSUME MapsAssumption == Maps # {}

(* pso_planner.yaml: "Need to be less than parameter n_Particles".         *)
ASSUME InheritedAssumption == NInherited \in Nat /\ NInherited < N

VARIABLES
  map,          \* what plan() was called with
  pc, iter,     \* the planner's thread
  position, personal_best,
  best,         \* Best_particle: fitness and position
  GlobalBest,   \* GlobalBest_particle_
  thread, lock, \* the particles' threads; who holds particles_lock_ (0: nobody)
  inherited,    \* inherited_particles_, best first
  answer,       \* the position the path is made from
  seen, last    \* history: positions evaluated; map and fitness of the last plan

vars == <<map, pc, iter, position, personal_best, best, GlobalBest, thread, lock,
          inherited, answer, seen, last>>

Fit(p) == Fitness[map][p]

Init ==
  /\ map \in Maps
  /\ pc = "idle" /\ iter = 0
  /\ position = [i \in Particles |-> Corner]
  /\ personal_best = [i \in Particles |-> Corner]
  /\ best = [fitness |-> 0, position |-> Corner] /\ GlobalBest = 1
  /\ thread = [i \in Particles |-> "off"] /\ lock = 0
  /\ inherited = <<Corner>>
  /\ answer = NoAnswer
  /\ seen = {} /\ last = [map |-> map, fitness |-> 0]

(* Definitions named Bad... are deliberate defects: none is part of the    *)
(* specification, each shows that some property would notice it.           *)
BadInherits(i) == FALSE

(* Particle i starts from an inherited position.                           *)
Inherits(i) == i <= NInherited /\ Len(inherited) = NInherited

(* plan(): the swarm is set up; the first of the fittest particles leads.  *)
Plan(m, start) ==
  /\ pc = "idle"
  /\ \A i \in Particles : Inherits(i) => start[i] = inherited[i]
  /\ map' = m
  /\ position' = start /\ personal_best' = start
  /\ \E g \in Particles :
       /\ \A i \in Particles : Fitness[m][start[i]] <= Fitness[m][start[g]]
       /\ \A i \in 1..(g - 1) : Fitness[m][start[i]] < Fitness[m][start[g]]
       /\ GlobalBest' = g
       /\ best' = [fitness |-> Fitness[m][start[g]], position |-> start[g]]
  /\ pc' = "iterate" /\ iter' = 0 /\ answer' = NoAnswer
  /\ seen' = {start[i] : i \in Particles}
  /\ UNCHANGED <<thread, lock, inherited, last>>

Spawn ==
  /\ pc = "iterate" /\ iter < MaxIter
  /\ thread' = [i \in Particles |-> "move"]
  /\ pc' = "join"
  /\ UNCHANGED <<map, iter, position, personal_best, best, GlobalBest, lock,
                 inherited, answer, seen, last>>

-----------------------------------------------------------------------------
(* optimizeParticle: the particle moves and its path is evaluated.         *)
Move(i, p) ==
  /\ thread[i] = "move"
  /\ position' = [position EXCEPT ![i] = p]
  /\ seen' = seen \cup {p}
  /\ thread' = [thread EXCEPT ![i] = "personal"]
  /\ UNCHANGED <<map, pc, iter, personal_best, best, GlobalBest, lock, inherited,
                 answer, last>>

BadPersonal(i) ==
  /\ thread[i] = "personal"
  /\ personal_best' = [personal_best EXCEPT ![i] = position[i]]
  /\ thread' = [thread EXCEPT ![i] = "lock"]
  /\ UNCHANGED <<map, pc, iter, position, best, GlobalBest, lock, inherited,
                 answer, seen, last>>

(* Its personal optimum, which only this thread touches.                   *)
Personal(i) ==
  /\ thread[i] = "personal"
  /\ personal_best' =
       [personal_best EXCEPT ![i] = IF Fit(position[i]) > Fit(@) THEN position[i] ELSE @]
  /\ thread' = [thread EXCEPT ![i] = "lock"]
  /\ UNCHANGED <<map, pc, iter, position, best, GlobalBest, lock, inherited,
                 answer, seen, last>>

BadLock(i) ==
  /\ thread[i] = "lock"
  /\ lock' = i
  /\ thread' = [thread EXCEPT ![i] = "test"]
  /\ UNCHANGED <<map, pc, iter, position, personal_best, best, GlobalBest,
                 inherited, answer, seen, last>>

Lock(i) ==
  /\ thread[i] = "lock" /\ lock = 0
  /\ lock' = i
  /\ thread' = [thread EXCEPT ![i] = "test"]
  /\ UNCHANGED <<map, pc, iter, position, personal_best, best, GlobalBest,
                 inherited, answer, seen, last>>

Test(i) ==
  /\ thread[i] = "test"
  /\ thread' = [thread EXCEPT ![i] = IF Fit(personal_best[i]) > best.fitness
                                       THEN "write" ELSE "unlock"]
  /\ UNCHANGED <<map, pc, iter, position, personal_best, best, GlobalBest, lock,
                 inherited, answer, seen, last>>

Write(i) ==
  /\ thread[i] = "write"
  /\ best' = [best EXCEPT !.fitness = Fit(personal_best[i])]
  /\ GlobalBest' = i
  /\ thread' = [thread EXCEPT ![i] = "unlock"]
  /\ UNCHANGED <<map, pc, iter, position, personal_best, lock, inherited, answer,
                 seen, last>>

BadUnlock(i) ==
  /\ thread[i] = "unlock"
  /\ thread' = [thread EXCEPT ![i] = "done"]
  /\ UNCHANGED <<map, pc, iter, position, personal_best, best, GlobalBest, lock,
                 inherited, answer, seen, last>>

Unlock(i) ==
  /\ thread[i] = "unlock"
  /\ lock' = 0
  /\ thread' = [thread EXCEPT ![i] = "done"]
  /\ UNCHANGED <<map, pc, iter, position, personal_best, best, GlobalBest,
                 inherited, answer, seen, last>>

-----------------------------------------------------------------------------
(* All threads are joined; only now the leader's position is copied.       *)
Join ==
  /\ pc = "join"
  /\ \A i \in Particles : thread[i] = "done"
  /\ best' = [best EXCEPT !.position = personal_best[GlobalBest]]
  /\ thread' = [i \in Particles |-> "off"]
  /\ iter' = iter + 1 /\ pc' = "iterate"
  /\ UNCHANGED <<map, position, personal_best, GlobalBest, lock, inherited,
                 answer, seen, last>>

Extract ==
  /\ pc = "iterate" /\ iter = MaxIter
  /\ answer' = best.position
  /\ pc' = "inherit"
  /\ UNCHANGED <<map, iter, position, personal_best, best, GlobalBest, thread,
                 lock, inherited, seen, last>>

(* The particles are sorted by personal optimum and the first ones kept.   *)
IsSorted(order) ==
  \A i, j \in Particles :
    i < j => order[i] # order[j]
             /\ Fit(personal_best[order[i]]) >= Fit(personal_best[order[j]])

Inherit ==
  /\ pc = "inherit"
  /\ \E order \in [Particles -> Particles] :
       /\ IsSorted(order)
       /\ inherited' = [i \in 1..NInherited |-> personal_best[order[i]]]
  /\ last' = [map |-> map, fitness |-> best.fitness]
  /\ pc' = "idle"
  /\ UNCHANGED <<map, iter, position, personal_best, best, GlobalBest, thread,
                 lock, answer, seen>>

Thread(i) ==
  \/ \E p \in Positions : Move(i, p)
  \/ Personal(i) \/ Lock(i) \/ Test(i) \/ Write(i) \/ Unlock(i)

Planner == Spawn \/ Join \/ Extract \/ Inherit

Next ==
  \/ \E m \in Maps, start \in [Particles -> Positions] : Plan(m, start)
  \/ \E i \in Particles : Thread(i)
  \/ Planner

Spec == Init /\ [][Next]_vars

(* The operating system runs every thread.                                 *)
FairSpec == Spec /\ WF_vars(Planner) /\ \A i \in Particles : WF_vars(Thread(i))

-----------------------------------------------------------------------------
ThreadPcs == {"off", "move", "personal", "lock", "test", "write", "unlock", "done"}

TypeOK ==
  /\ map \in Maps
  /\ pc \in {"idle", "iterate", "join", "inherit"} /\ iter \in 0..MaxIter
  /\ position \in [Particles -> Positions]
  /\ personal_best \in [Particles -> Positions]
  /\ best \in [fitness : Nat, position : Positions] /\ GlobalBest \in Particles
  /\ thread \in [Particles -> ThreadPcs] /\ lock \in 0..N
  /\ inherited \in Seq(Positions)
  /\ answer \in Positions \cup {NoAnswer}
  /\ seen \subseteq Positions
  /\ last \in [map : Maps, fitness : Nat]

(* When the threads are joined the leader is a particle no other beats,    *)
(* and the fitness on record is that of its position.                      *)
LeaderLeads ==
  pc \in {"iterate", "inherit"} =>
    /\ best.fitness = Fit(best.position)
    /\ \A i \in Particles : Fit(personal_best[i]) <= best.fitness

(* Inheritance is worth it: planning again with the same map, start and    *)
(* goal never gives a worse path.                                          *)
NoWorse ==
  pc = "inherit" /\ NInherited > 0 /\ last.map = map => best.fitness >= last.fitness

(* Every call of plan() returns: no thread waits for the mutex forever.    *)
PlanReturns == pc # "idle" ~> pc = "idle"

(* The answer is one of the best positions any thread has evaluated.       *)
Promise == INSTANCE BestOfSeen
AnswersBestOfSeen == Promise!SearchSpec
=============================================================================
