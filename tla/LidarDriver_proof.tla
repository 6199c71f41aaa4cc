-------------------------- MODULE LidarDriver_proof --------------------------
(***************************************************************************)
(* For every capacity, every division into turns, every format and every   *)
(* interleaving: the scans of the cache thread are whole turns, and the    *)
(* node gets each of them at most once and in order.                       *)
(***************************************************************************)
EXTENDS LidarDriver, SequenceTheorems, TLAPS

-----------------------------------------------------------------------------
(* Type correctness: the calls are sequences of the steps that exist.      *)

LEMMA CallsTyped ==
  /\ GetDeviceInfo \in Seq(Steps) /\ GetHealth \in Seq(Steps)
  /\ Connect \in Seq(Steps) /\ SetMotorSpeed \in Seq(Steps)
  /\ Stop \in Seq(Steps) /\ StartScan \in Seq(Steps)
  /\ NormalScan \in Seq(Steps) /\ ExpressScan \in Seq(Steps)
  /\ GetAllSupportedScanModes \o ExpressMode \in Seq(Steps)
  /\ Locked("ask") \in Seq(Steps)
  <1>1. \A s \in Steps : <<s>> \in Seq(Steps) /\ Locked(s) \in Seq(Steps)
    BY DEF Locked, Steps
  <1>2. /\ DisableDataGrabbing \in Seq(Steps)
        /\ <<"spin">> \in Seq(Steps) /\ <<"haltPwm">> \in Seq(Steps)
        /\ <<"details">> \in Seq(Steps) /\ <<"idle">> \in Seq(Steps)
        /\ <<"details", "idle">> \in Seq(Steps)
        /\ <<"details", "select">> \in Seq(Steps)
        /\ <<"details", "choose">> \in Seq(Steps)
    BY DEF DisableDataGrabbing, Steps
  <1>3. \A s, t \in Seq(Steps) : s \o t \in Seq(Steps)
    OBVIOUS
  <1>4. {"ask", "support", "control", "send", "respin", "scan"} \subseteq Steps
    BY DEF Steps
  <1>5. GetDeviceInfo \in Seq(Steps) /\ GetHealth \in Seq(Steps) /\ Locked("ask") \in Seq(Steps)
    BY <1>1, <1>2, <1>3, <1>4 DEF GetDeviceInfo, GetHealth
  <1>6. Connect \in Seq(Steps) /\ SetMotorSpeed \in Seq(Steps) /\ Stop \in Seq(Steps)
    BY <1>1, <1>2, <1>3, <1>4 DEF Connect, SetMotorSpeed, Stop
  <1>7. CheckSupportConfigCommands \in Seq(Steps)
    BY <1>1, <1>3, <1>4, <1>5 DEF CheckSupportConfigCommands
  <1>8. GetTypicalScanMode \in Seq(Steps) /\ GetAllSupportedScanModes \in Seq(Steps)
    BY <1>2, <1>3, <1>7 DEF GetTypicalScanMode, GetAllSupportedScanModes
  <1>9. ExpressMode \in Seq(Steps)
    BY <1>2, <1>3, <1>6, <1>7 DEF ExpressMode
  <1>10. NormalScan \in Seq(Steps)
    BY <1>1, <1>2, <1>3, <1>4, <1>6, <1>7 DEF NormalScan
  <1>11. StartScan \in Seq(Steps) /\ GetAllSupportedScanModes \o ExpressMode \in Seq(Steps)
    BY <1>2, <1>3, <1>7, <1>8, <1>9 DEF StartScan
  <1>12. ExpressScan \in Seq(Steps)
    BY DEF ExpressScan, Steps
  <1>13. QED BY <1>5, <1>6, <1>10, <1>11, <1>12

LEMMA TypeInit == Init => TypeOK
  <1>1. Init => /\ todo \in Seq(Steps) /\ at \in Places /\ result \in {"ok", "fail"}
                /\ motor \in {"none", "pwm", "rpm"} /\ lock \in {"none", "main"}
    BY CallsTyped DEF Init, Places
  <1>2. Init => /\ served \in 0 .. MaxServed /\ sent \in Numbers
                /\ faults \in 0 .. MaxFaults /\ interval \in 0 .. MaxNodes - 1
    BY BoundsAssumption, NodesAssumption DEF Init, Numbers
  <1>3. Init => /\ got \in Seq(Numbers) /\ cached \in Seq(Numbers) /\ local \in Seq(Numbers)
    BY DEF Init
  <1>4. QED BY <1>1, <1>2, <1>3 DEF Init, TypeOK

(* The rest of a call is a sequence of steps too.                          *)
LEMMA TodoTyped ==
  ASSUME TypeOK, Done \/ Fail
  PROVE  todo' \in Seq(Steps) /\ at' \in Places /\ result' \in {"ok", "fail"}
  <1>1. CASE Done /\ todo # << >>
    BY <1>1 DEF TypeOK, Done
  <1>2. CASE Fail
    <2>1. <<"unlock">> \in Seq(Steps) BY DEF Steps
    <2>2. QED BY <1>2, <2>1 DEF TypeOK, Fail
  <1>3. CASE Done /\ todo = << >>
    <2>1. Tail(todo) \in Seq(Steps) BY <1>3 DEF Done, TypeOK
    <2>2. QED BY <1>3, <2>1 DEF TypeOK, Done
  <1>4. QED BY <1>1, <1>2, <1>3

LEMMA TypeStep ==
  ASSUME TypeOK, Step
  PROVE  TypeOK'
  <1>1. UNCHANGED <<served, got, event, cached, interval, previous, synced, cur, sent,
                    faults, lost, garbled, overtaken>>
    BY DEF Step, node, cache, link, history
  <1>2. /\ todo' \in Seq(Steps) /\ at' \in Places /\ result' \in {"ok", "fail"}
    <2>1. CASE Done \/ Fail
      BY <2>1, TodoTyped
    <2>2. CASE Details
      <3>1. todo # << >> BY <2>2 DEF Details, Doing
      <3>2. Tail(todo) \in Seq(Steps) BY <3>1 DEF TypeOK
      <3>3. Locked("ask") \o Tail(todo) \in Seq(Steps) BY <3>2, CallsTyped
      <3>4. QED BY <2>2, <3>2, <3>3 DEF Details, TypeOK
    <2>3. CASE Idle
      <3>1. todo # << >> BY <2>3 DEF Idle, Doing
      <3>2. Tail(todo) \in Seq(Steps) BY <3>1 DEF TypeOK
      <3>3. QED BY <2>3, <3>2 DEF Idle, TypeOK
    <2>4. CASE Choose
      BY <2>4, CallsTyped DEF Choose, TypeOK
    <2>5. QED
      BY <2>1, <2>2, <2>3, <2>4
      DEF Step, Disable, Join, Lock, Unlock, Ask, Learn, Motor, Select, Start
  <1>3. /\ support' \in BOOLEAN /\ motor' \in {"none", "pwm", "rpm"} /\ rotating' \in BOOLEAN
        /\ scanning' \in BOOLEAN /\ lock' \in {"none", "main"}
        /\ local' \in Seq(Numbers) /\ format' \in Formats \cup {"normal"}
        /\ thread' \in {"none", "first", "test", "wait", "node", "interval", "ended"}
        /\ thread' = "node" => thread = "node"
    <2>1. CASE \E f \in Formats : Start(f)
      <3>1. PICK f \in Formats : Start(f) BY <2>1
      <3>2. << >> \in Seq(Numbers) OBVIOUS
      <3>3. format' \in Formats \cup {"normal"} BY <3>1 DEF Start, TypeOK
      <3>4. local' \in Seq(Numbers) BY <3>1, <3>2 DEF Start, TypeOK
      <3>5. QED BY <3>1, <3>3, <3>4 DEF Start, TypeOK
    <2>2. CASE Motor
      <3>1. rotating' \in BOOLEAN
        BY <2>2 DEF Motor, Turning, TypeOK
      <3>2. UNCHANGED <<support, motor, scanning, lock, local, format, thread>>
        BY <2>2 DEF Motor, knows
      <3>3. QED BY <3>1, <3>2 DEF TypeOK
    <2>3. CASE Disable \/ Join \/ Lock \/ Unlock \/ Idle
      <3>1. CASE Disable \/ Join
        BY <3>1 DEF Disable, Join, TypeOK, knows
      <3>2. CASE Lock \/ Unlock \/ Idle
        BY <3>2 DEF Lock, Unlock, Idle, TypeOK, knows
      <3>3. QED BY <2>3, <3>1, <3>2
    <2>4. CASE Ask \/ Learn \/ Details \/ Select \/ Choose
      BY <2>4 DEF Ask, Learn, Details, Select, Choose, TypeOK, knows
    <2>5. QED BY <2>1, <2>2, <2>3, <2>4 DEF Step
  <1>4. QED BY <1>1, <1>2, <1>3 DEF TypeOK

LEMMA TypeNode ==
  ASSUME TypeOK, Node \/ Grab
  PROVE  TypeOK'
  <1>1. <<"halt">> \in Seq(Steps) /\ << >> \in Seq(Steps)
    BY DEF Steps
  <1>2. CASE Node
    <2>1. UNCHANGED <<support, motor, rotating, scanning, lock, event, cached, interval,
                      format, thread, previous, synced, local, cur, sent, faults,
                      lost, garbled, overtaken>>
      BY <1>2 DEF Node, knows, cache, reader, link, history
    <2>2. CASE Return
      <3>1. at \in {"connect", "info", "health", "scan", "speed", "rescan", "serve",
                    "off", "stop"} =>
              Following(at)[1] \in Places /\ Following(at)[2] \in Seq(Steps)
        BY CallsTyped, <1>1 DEF Following, Places
      <3>2. todo' \in Seq(Steps) /\ at' \in Places /\ result' = "ok"
        BY <2>2, <3>1, <1>1 DEF Return, Go, Places
      <3>3. QED BY <2>1, <2>2, <3>2 DEF Return, node, TypeOK
    <2>3. CASE ChooseMode
      <3>1. todo' \in Seq(Steps) /\ at' \in Places /\ result' = "ok"
        BY <2>3, CallsTyped DEF ChooseMode, Go, Places
      <3>2. QED BY <2>1, <2>3, <3>1 DEF ChooseMode, node, TypeOK
    <2>4. CASE TestOk
      <3>1. todo' \in Seq(Steps) /\ at' \in Places /\ result' = "ok"
        BY <2>4, <1>1 DEF TestOk, Go, Places
      <3>2. QED BY <2>1, <2>4, <3>1 DEF TestOk, node, TypeOK
    <2>5. CASE Serve
      <3>1. served' \in 0 .. MaxServed
        BY <2>5, BoundsAssumption DEF Serve, TypeOK
      <3>2. todo' \in Seq(Steps) /\ at' \in Places /\ result' = "ok"
        BY <2>5, <1>1, CallsTyped DEF Serve, Go, Places
      <3>3. QED BY <2>1, <2>5, <3>1, <3>2 DEF Serve, TypeOK
    <2>6. QED BY <1>2, <2>2, <2>3, <2>4, <2>5 DEF Node
  <1>3. CASE Grab
    <2>1. UNCHANGED <<served, support, motor, rotating, scanning, lock, interval, format,
                      thread, previous, synced, local, cur, sent, faults, lost, garbled,
                      overtaken>>
      BY <1>3 DEF Grab, GrabWait, GrabTest, GrabCopy, knows, reader, link, history
    <2>2. at' \in Places /\ todo' \in Seq(Steps) /\ result' = "ok"
      BY <1>1, <1>3 DEF Grab, GrabWait, GrabTest, GrabCopy, Go, Places
    <2>3. event' \in BOOLEAN /\ got' \in Seq(Numbers) /\ cached' \in Seq(Numbers)
      <3>1. << >> \in Seq(Numbers) OBVIOUS
      <3>2. QED BY <1>3, <3>1 DEF Grab, GrabWait, GrabTest, GrabCopy, TypeOK
    <2>4. QED BY <2>1, <2>2, <2>3 DEF TypeOK
  <1>4. QED BY <1>2, <1>3

LEMMA TypeCache ==
  ASSUME TypeOK, CacheThread
  PROVE  TypeOK'
  <1>1. UNCHANGED <<at, todo, result, support, motor, rotating, served, got, lock, format>>
    BY DEF CacheThread, Discard, TestScanning, Receive, Damaged, Silence, Reuse, Publish,
           Collect, Interval, Alone, call, knows, node
  <1>2. /\ sent \in Numbers /\ NoNode \in Numbers \cup {NoNode}
        /\ sent' \in Numbers /\ faults' \in 0 .. MaxFaults
        /\ interval' \in 0 .. MaxNodes - 1
    <2>1. CASE UNCHANGED <<interval, faults>> /\ (Sends \/ sent' = sent)
      BY <2>1, BoundsAssumption DEF Sends, TypeOK, Numbers
    <2>2. CASE UNCHANGED <<interval>> /\ Sends /\ Faulty
      BY <2>2, BoundsAssumption DEF Sends, Faulty, TypeOK, Numbers
    <2>3. CASE UNCHANGED <<sent, faults>> /\ Interval
      BY <2>3, NodesAssumption DEF Interval, TypeOK
    <2>4. QED
      BY <2>1, <2>2, <2>3
      DEF CacheThread, Discard, TestScanning, Receive, Damaged, Silence, Reuse, Publish,
          Collect, Interval, cache, link, TypeOK
  <1>3. /\ local' \in Seq(Numbers) /\ cached' \in Seq(Numbers)
    <2>1. CASE UNCHANGED <<local, cached>>
      BY <2>1 DEF TypeOK
    <2>2. CASE Publish
      <3>1. cur \in Numbers
        BY <2>2, StartsAssumption DEF Publish, TypeOK, NoNode
      <3>2. <<cur>> \in Seq(Numbers) BY <3>1
      <3>3. QED BY <2>2, <3>2 DEF Publish, TypeOK
    <2>3. CASE Collect
      <3>1. cur \in Numbers
        BY <2>3 DEF Collect, TypeOK
      <3>2. <<cur>> \in Seq(Numbers) /\ Append(local, cur) \in Seq(Numbers)
        BY <3>1 DEF TypeOK
      <3>3. QED BY <2>3, <3>2 DEF Collect, TypeOK, cache
    <2>4. QED
      BY <2>1, <2>2, <2>3
      DEF CacheThread, Discard, TestScanning, Receive, Damaged, Silence, Reuse, Interval, cache
  <1>4. /\ thread' \in {"none", "first", "test", "wait", "node", "interval", "ended"}
        /\ previous' \in Numbers \cup {NoNode} /\ cur' \in Numbers \cup {NoNode}
        /\ thread' = "node" => cur' # NoNode
    <2>1. CASE Receive
      <3>1. sent \in Numbers /\ sent # NoNode BY <1>2 DEF Numbers, NoNode
      <3>2. cur' \in Numbers \cup {NoNode} /\ (thread' = "node" => cur' # NoNode)
            /\ thread' \in {"node", "test"}
        BY <2>1, <3>1 DEF Receive, Emit, Skip, TypeOK
      <3>3. QED BY <2>1, <3>1, <3>2 DEF Receive
    <2>2. CASE Damaged
      BY <2>2 DEF Damaged, Skip, TypeOK
    <2>3. CASE \E n \in Numbers : Reuse(n)
      <3>1. PICK n \in Numbers : Reuse(n) BY <2>3
      <3>2. n # NoNode BY DEF Numbers, NoNode
      <3>3. QED BY <3>1, <3>2 DEF Reuse, Emit, TypeOK
    <2>4. CASE Silence
      BY <2>4 DEF Silence, Skip, TypeOK
    <2>5. CASE Discard \/ TestScanning \/ Publish \/ Collect \/ Interval
      BY <1>2, <2>5 DEF Discard, TestScanning, Publish, Collect, Interval, TypeOK
    <2>6. QED BY <2>1, <2>2, <2>3, <2>4, <2>5 DEF CacheThread
  <1>5. /\ scanning' \in BOOLEAN /\ event' \in BOOLEAN /\ synced' \in BOOLEAN
        /\ lost' \subseteq Numbers /\ garbled' \in BOOLEAN /\ overtaken' \in BOOLEAN
    <2>1. CASE Receive
      BY <2>1 DEF Receive, Emit, Skip, TypeOK, Delayed
    <2>2. CASE Damaged
      <3>1. Pending \subseteq Numbers BY DEF Pending, TypeOK
      <3>2. QED BY <1>2, <2>2, <3>1 DEF Damaged, Skip, TypeOK
    <2>3. CASE \E n \in Numbers : Reuse(n)
      BY <1>2, <2>3 DEF Reuse, Emit, TypeOK
    <2>4. CASE Silence
      <3>1. Pending \subseteq Numbers BY DEF Pending, TypeOK
      <3>2. CASE format = "normal" BY <2>4, <3>2 DEF Silence, TypeOK
      <3>3. CASE format # "normal" BY <2>4, <3>1, <3>3 DEF Silence, Skip, TypeOK
      <3>4. QED BY <3>2, <3>3
    <2>5. CASE Discard \/ TestScanning \/ Publish \/ Collect \/ Interval
      <3>1. CASE Publish BY <3>1 DEF Publish, TypeOK
      <3>2. CASE Discard BY <3>2 DEF Discard, TypeOK, history
      <3>3. CASE TestScanning \/ Collect \/ Interval
        BY <3>3 DEF TestScanning, Collect, Interval, TypeOK, history, cache
      <3>4. QED BY <2>5, <3>1, <3>2, <3>3
    <2>6. QED BY <2>1, <2>2, <2>3, <2>4, <2>5 DEF CacheThread
  <1>6. QED BY <1>1, <1>2, <1>3, <1>4, <1>5 DEF TypeOK

(* Every variable keeps its type.                                          *)
THEOREM TypeCorrect == Spec => []TypeOK
  <1>1. TypeOK /\ [Next]_vars => TypeOK'
    <2>1. ASSUME TypeOK, UNCHANGED vars PROVE TypeOK'
      BY <2>1 DEF TypeOK, vars, call, knows, node, cache, reader, link, history
    <2>2. QED BY <2>1, TypeStep, TypeNode, TypeCache DEF Next, Main
  <1>2. QED BY <1>1, TypeInit, PTL DEF Spec

-----------------------------------------------------------------------------
(* The scans.                                                              *)

(* The number of the measurement the reader will make known next.          *)
Edge == IF thread = "node" THEN cur
        ELSE IF thread # "first" /\ Delayed /\ previous # NoNode THEN previous
        ELSE sent

Chain(scan) ==
  /\ Len(scan) < MaxNodes
  /\ \A i \in 1 .. Len(scan) - 1 : scan[i + 1] \notin Starts /\ Gap(scan[i], scan[i + 1])

ReaderOK ==
  /\ thread # "first" /\ Delayed /\ previous # NoNode => previous = sent - 1
  /\ thread = "node" => IF Delayed THEN cur = sent - 2 /\ previous # NoNode
                        ELSE cur = sent - 1
  /\ thread = "first" => local = << >>

Reaches ==
  local # << >> =>
    /\ local[Len(local)] < Edge
    /\ \/ Len(local) = MaxNodes - 1
       \/ (local[Len(local)] + 1) .. (Edge - 1) \subseteq lost

Older(scan) ==
  scan # << >> =>
    /\ scan[Len(scan)] < Edge
    /\ local # << >> => scan[Len(scan)] < local[1]

InOrder == cached # << >> /\ got # << >> => got[Len(got)] < cached[1]
CopyOK == at = "copy" => cached # << >>

DataOK ==
  /\ ReaderOK /\ Chain(local) /\ Reaches
  /\ cached # << >> => WholeTurn(cached)
  /\ got # << >> => WholeTurn(got)
  /\ InOrder /\ Older(cached) /\ Older(got)

IInv == CopyOK /\ (~garbled => DataOK)

LEMMA InitInv == Init => IInv
  BY NodesAssumption
  DEF Init, IInv, CopyOK, DataOK, ReaderOK, Chain, Reaches, InOrder, Older

(* What is lost stays lost.                                                *)
LEMMA MoreLost ==
  ASSUME lost \subseteq lost', NEW s
  PROVE  /\ Chain(s) => Chain(s)'
         /\ s # << >> /\ WholeTurn(s) => WholeTurn(s)'
  BY DEF Chain, WholeTurn, Gap

LEMMA EndsTyped ==
  ASSUME NEW s \in Seq(Numbers), s # << >>
  PROVE  Len(s) \in Nat \ {0} /\ s[1] \in Numbers /\ s[Len(s)] \in Numbers
  OBVIOUS

LEMMA EdgeTyped ==
  ASSUME TypeOK
  PROVE  Edge \in Numbers /\ sent \in Numbers /\ Numbers \subseteq Int
  BY DEF TypeOK, Edge, Numbers

LEMMA Later ==
  ASSUME NEW s \in Seq(Numbers), s # << >>, NEW n \in Int, s[Len(s)] < n
  PROVE  s[Len(s)] < n + 1
  <1>1. s[Len(s)] \in Numbers BY EndsTyped
  <1>2. s[Len(s)] \in Int BY <1>1 DEF Numbers
  <1>3. QED BY <1>2

LEMMA StepInv ==
  ASSUME TypeOK, IInv, Step
  PROVE  IInv'
  <1>1. UNCHANGED <<at, got, cached, previous, cur, sent, lost, garbled>>
    BY DEF Step, node, cache, link, history, Disable, Join, Lock, Unlock, Ask, Learn,
           Details, Motor, Idle, Select, Choose, Start, Done, Fail
  <1>2. CASE UNCHANGED <<local, thread, format>>
    BY <1>1, <1>2
    DEF IInv, CopyOK, DataOK, ReaderOK, Chain, Reaches, InOrder, Older, Edge, Delayed,
        WholeTurn, Gap
  <1>3. CASE thread' = "first" /\ local' = << >>
    <2>1. ~garbled => Edge <= sent
      BY DEF IInv, DataOK, ReaderOK, Edge, TypeOK, Numbers, NoNode
    <2>2. Edge' = sent BY <1>1, <1>3 DEF Edge
    <2>3. ~garbled => Older(cached)' /\ Older(got)'
      <3>1. ASSUME NEW s \in Seq(Numbers), s # << >>, s[Len(s)] < Edge, Edge <= sent
            PROVE  s[Len(s)] < sent
        BY <3>1, EndsTyped, EdgeTyped
      <3>2. cached \in Seq(Numbers) /\ got \in Seq(Numbers) BY DEF TypeOK
      <3>3. QED BY <1>1, <1>3, <2>1, <2>2, <3>1, <3>2 DEF IInv, DataOK, Older
    <2>4. ~garbled => Chain(local)' /\ Reaches' /\ ReaderOK'
      BY <1>3, NodesAssumption DEF Chain, Reaches, ReaderOK
    <2>5. QED
      BY <1>1, <2>3, <2>4 DEF IInv, CopyOK, DataOK, InOrder, WholeTurn, Gap
  <1>4. QED
    BY <1>2, <1>3
    DEF Step, Disable, Join, Lock, Unlock, Ask, Learn, Details, Motor, Idle, Select,
        Choose, Start

LEMMA NodeInv ==
  ASSUME TypeOK, IInv, Node \/ (GrabWait /\ Grab) \/ (GrabTest /\ Grab)
  PROVE  IInv'
  <1>1. UNCHANGED <<got, cached, local, thread, format, previous, cur, sent, lost, garbled>>
    BY DEF Node, Return, ChooseMode, TestOk, Serve, Grab, GrabWait, GrabTest, GrabCopy,
           Go, node, cache, reader, link, history
  <1>2. CopyOK'
    <2>1. CASE Node
      <3>1. at' = "copy" => at = "copy"
        BY <2>1 DEF Node, Return, ChooseMode, TestOk, Serve, Go, Following
      <3>2. QED BY <1>1, <3>1 DEF IInv, CopyOK
    <2>2. CASE GrabWait
      BY <2>2 DEF GrabWait, Go, CopyOK
    <2>3. CASE GrabTest
      BY <1>1, <2>3 DEF GrabTest, Go, CopyOK
    <2>4. QED BY <2>1, <2>2, <2>3
  <1>3. ~garbled => DataOK'
    BY <1>1
    DEF IInv, DataOK, ReaderOK, Chain, Reaches, InOrder, Older, Edge, Delayed, WholeTurn, Gap
  <1>4. QED BY <1>1, <1>2, <1>3 DEF IInv

LEMMA CopyInv ==
  ASSUME TypeOK, IInv, GrabCopy, Grab
  PROVE  IInv'
  <1>1. UNCHANGED <<local, thread, format, previous, cur, sent, lost, garbled>>
    BY DEF Grab, reader, link, history
  <1>2. at' = "serve" /\ got' = cached /\ cached' = << >>
    BY DEF GrabCopy, Go
  <1>3. ~garbled => DataOK'
    BY <1>1, <1>2
    DEF IInv, DataOK, ReaderOK, Chain, Reaches, InOrder, Older, Edge, Delayed, WholeTurn, Gap
  <1>4. QED BY <1>1, <1>2, <1>3 DEF IInv, CopyOK

(* The reader moves on, over measurements that are lost or before a scan.  *)
LEMMA Advance ==
  ASSUME TypeOK, TypeOK', IInv, UNCHANGED <<at, got, cached, local, garbled>>,
         lost \subseteq lost',
         ~garbled => /\ ReaderOK' /\ Edge <= Edge'
                     /\ local = << >> \/ Edge .. (Edge' - 1) \subseteq lost'
  PROVE  IInv'
  <1>1. CASE ~garbled
    <2>1. DataOK BY <1>1 DEF IInv
    <2>2. Edge \in Int /\ Edge' \in Int
      <3>1. Edge' \in Numbers BY DEF TypeOK, Edge, Numbers
      <3>2. QED BY <3>1, EdgeTyped
    <2>3. ASSUME NEW s \in Seq(Numbers), s # << >>, s[Len(s)] < Edge
          PROVE  s[Len(s)] < Edge'
      BY <1>1, <2>2, <2>3, EndsTyped, EdgeTyped
    <2>4. cached \in Seq(Numbers) /\ got \in Seq(Numbers) /\ local \in Seq(Numbers)
      BY DEF TypeOK
    <2>5. Older(cached)' /\ Older(got)'
      BY <2>1, <2>3, <2>4 DEF DataOK, Older
    <2>6. Reaches'
      <3>1. CASE local # << >>
        <4>1. local[Len(local)] < Edge' BY <2>1, <2>3, <2>4, <3>1 DEF DataOK, Reaches
        <4>2. ASSUME Len(local) # MaxNodes - 1
              PROVE  (local[Len(local)] + 1) .. (Edge' - 1) \subseteq lost'
          <5>1. local[Len(local)] \in Int
            BY <2>4, <3>1, EndsTyped, EdgeTyped
          <5>2. (local[Len(local)] + 1) .. (Edge - 1) \subseteq lost'
            BY <2>1, <3>1, <4>2 DEF DataOK, Reaches
          <5>3. Edge .. (Edge' - 1) \subseteq lost' BY <1>1, <3>1
          <5>4. PICK a \in Int, b \in Int, c \in Int :
                   a = local[Len(local)] /\ b = Edge /\ c = Edge'
            BY <2>2, <5>1
          <5>5. (a + 1) .. (b - 1) \subseteq lost' /\ b .. (c - 1) \subseteq lost'
            BY <5>2, <5>3, <5>4
          <5>6. \A n \in (a + 1) .. (c - 1) : n \in (a + 1) .. (b - 1) \/ n \in b .. (c - 1)
            OBVIOUS
          <5>7. (a + 1) .. (c - 1) \subseteq lost'
            BY <5>5, <5>6
          <5>8. QED BY <5>4, <5>7
        <4>3. local' = local OBVIOUS
        <4>4. QED BY <4>1, <4>2, <4>3 DEF Reaches
      <3>2. CASE local = << >> BY <3>2 DEF Reaches
      <3>3. QED BY <3>1, <3>2
    <2>7. Chain(local)' /\ (cached # << >> => WholeTurn(cached))'
          /\ (got # << >> => WholeTurn(got))' /\ InOrder'
      BY <2>1, MoreLost DEF DataOK, InOrder
    <2>8. QED BY <1>1, <2>1, <2>5, <2>6, <2>7 DEF IInv, DataOK, CopyOK
  <1>2. CASE garbled
    BY <1>2 DEF IInv, CopyOK
  <1>3. QED BY <1>1, <1>2

LEMMA ReaderFacts ==
  ASSUME TypeOK, IInv
  PROVE  /\ NoNode = -1 /\ sent \in Nat /\ previous \in Int /\ cur \in Int
         /\ ~garbled => ReaderOK
  BY DEF TypeOK, IInv, DataOK, Numbers, NoNode

LEMMA AdvanceActions ==
  ASSUME TypeOK, TypeOK', IInv,
         Discard \/ TestScanning \/ Receive \/ Damaged \/ Silence \/ Interval
  PROVE  IInv'
  <1>1. UNCHANGED <<at, got, cached, local, garbled, format>> /\ lost \subseteq lost'
    BY DEF Discard, TestScanning, Receive, Damaged, Silence, Interval, Alone, Emit, Skip,
           call, node, cache, history
  <1>2. ASSUME ~garbled
        PROVE  /\ ReaderOK' /\ Edge <= Edge'
               /\ local = << >> \/ Edge .. (Edge' - 1) \subseteq lost'
    <2>1. ReaderOK /\ NoNode = -1 /\ sent \in Nat /\ previous \in Int /\ cur \in Int
      BY <1>2, ReaderFacts
    <2>2. CASE Discard
      BY <1>1, <2>1, <2>2 DEF Discard, Sends, ReaderOK, Edge, Delayed
    <2>3. CASE TestScanning
      BY <1>1, <2>1, <2>3 DEF TestScanning, ReaderOK, Edge, Delayed, history, link
    <2>4. CASE Interval
      BY <1>1, <2>1, <2>4 DEF Interval, ReaderOK, Edge, Delayed, history, link
    <2>5. CASE Receive
      BY <1>1, <2>1, <2>5 DEF Receive, Sends, Emit, Skip, ReaderOK, Edge, Delayed
    <2>6. CASE Damaged
      BY <1>1, <2>1, <2>6 DEF Damaged, Sends, Skip, Pending, ReaderOK, Edge, Delayed
    <2>7. CASE Silence
      BY <1>1, <2>1, <2>7 DEF Silence, Skip, Pending, ReaderOK, Edge, Delayed, link
    <2>8. QED BY <2>2, <2>3, <2>4, <2>5, <2>6, <2>7
  <1>3. QED BY <1>1, <1>2, Advance

(* A measurement after the node that is being processed begins or extends  *)
(* the scan: what both actions leave behind.                               *)
LEMMA NodeFacts ==
  ASSUME TypeOK, IInv, ~garbled, thread = "node", thread' = "interval",
         UNCHANGED <<format, previous, sent>>
  PROVE  /\ ReaderOK' /\ Edge = cur /\ Edge' = cur + 1 /\ cur \in Numbers
         /\ DataOK /\ cur < sent
  <1>1. DataOK /\ ReaderOK BY DEF IInv, DataOK
  <1>2. NoNode = -1 /\ sent \in Nat /\ previous \in Int /\ cur \in Int
    BY ReaderFacts
  <1>3. ReaderOK' /\ Edge = cur /\ Edge' = cur + 1 /\ cur < sent
    BY <1>1, <1>2 DEF ReaderOK, Edge, Delayed
  <1>4. cur \in Numbers BY DEF TypeOK
  <1>5. QED BY <1>1, <1>3, <1>4

(* No restart is possible before the end of the scan that is published.    *)
LEMMA PublishInv ==
  ASSUME TypeOK, TypeOK', IInv, Publish
  PROVE  IInv'
  <1>1. /\ UNCHANGED <<at, got, garbled, lost, format, previous, sent>>
        /\ thread = "node" /\ thread' = "interval"
        /\ cached' = local /\ local' = <<cur>> /\ cur \in Starts
        /\ local # << >> /\ local[1] \in Starts
    BY DEF Publish, Alone, Begins, call, node, link
  <1>2. CASE ~garbled
    <2>1. /\ ReaderOK' /\ Edge = cur /\ Edge' = cur + 1 /\ cur \in Numbers /\ DataOK
          /\ cur \in Int
      BY <1>1, <1>2, NodeFacts, EdgeTyped
    <2>2. Len(<<cur>>) = 1 /\ <<cur>>[1] = cur /\ <<cur>> # << >>
      OBVIOUS
    <2>3. Chain(local)' /\ Reaches'
      BY <1>1, <2>1, <2>2, NodesAssumption DEF Chain, Reaches
    <2>4. local[Len(local)] < cur /\ (got # << >> => got[Len(got)] < cur)
      BY <1>1, <2>1 DEF DataOK, Reaches, Older
    <2>5. WholeTurn(local)
      <3>1. Len(local) = MaxNodes - 1 \/ Gap(local[Len(local)], cur)
        BY <1>1, <2>1, <2>4 DEF DataOK, Reaches, Gap
      <3>2. QED BY <1>1, <2>1, <3>1 DEF DataOK, Chain, WholeTurn
    <2>6. WholeTurn(cached)' /\ (got # << >> => WholeTurn(got))'
      BY <1>1, <2>1, <2>5 DEF DataOK, WholeTurn, Gap
    <2>7. Older(cached)' /\ Older(got)' /\ InOrder'
      <3>1. ASSUME NEW s \in Seq(Numbers), s # << >>, s[Len(s)] < cur
            PROVE  s[Len(s)] < cur + 1
        BY <2>1, <3>1, Later
      <3>2. local \in Seq(Numbers) /\ got \in Seq(Numbers) BY DEF TypeOK
      <3>3. Older(cached)' /\ Older(got)'
        BY <1>1, <2>1, <2>2, <2>4, <3>1, <3>2 DEF Older
      <3>4. InOrder'
        BY <1>1, <2>1 DEF DataOK, Older, InOrder
      <3>5. QED BY <3>3, <3>4
    <2>8. cached' # << >> BY <1>1
    <2>9. QED BY <1>1, <1>2, <2>1, <2>3, <2>6, <2>7, <2>8 DEF IInv, DataOK, CopyOK
  <1>3. CASE garbled
    BY <1>1, <1>3 DEF IInv, CopyOK
  <1>4. QED BY <1>2, <1>3

LEMMA CollectInv ==
  ASSUME TypeOK, TypeOK', IInv, Collect
  PROVE  IInv'
  <1>1. /\ UNCHANGED <<at, got, cached, garbled, lost, format, previous, sent>>
        /\ thread = "node" /\ thread' = "interval"
        /\ ~(cur \in Starts /\ Begins(local))
        /\ local' = IF cur \in Starts THEN <<cur>>
                    ELSE IF Len(local) + 1 < MaxNodes THEN Append(local, cur) ELSE local
    BY DEF Collect, Alone, call, node, link, cache, history
  <1>2. CASE ~garbled
    <2>1. /\ ReaderOK' /\ Edge = cur /\ Edge' = cur + 1 /\ cur \in Numbers /\ DataOK
          /\ cur \in Int /\ local \in Seq(Numbers) /\ Len(local) \in Nat
      BY <1>1, <1>2, NodeFacts, EdgeTyped DEF TypeOK
    <2>2. (cached # << >> => WholeTurn(cached))' /\ (got # << >> => WholeTurn(got))' /\ InOrder'
      BY <1>1, <2>1 DEF DataOK, WholeTurn, Gap, InOrder
    <2>3. ASSUME NEW s \in Seq(Numbers), s # << >>, s[Len(s)] < cur
          PROVE  s[Len(s)] < cur + 1
      BY <2>1, <2>3, Later
    <2>4. /\ cached \in Seq(Numbers) /\ got \in Seq(Numbers)
          /\ cached # << >> => cached[Len(cached)] < cur
          /\ got # << >> => got[Len(got)] < cur
          /\ local # << >> => local[Len(local)] < cur
          /\ local # << >> /\ cached # << >> => cached[Len(cached)] < local[1]
          /\ local # << >> /\ got # << >> => got[Len(got)] < local[1]
      BY <2>1 DEF DataOK, Older, Reaches, TypeOK
    <2>5. ASSUME local' # << >>, local'[1] \in {cur, local[1]},
                 local'[1] # cur => local # << >>
          PROVE  Older(cached)' /\ Older(got)'
      <3>1. /\ cached # << >> => cached[Len(cached)] < local'[1]
            /\ got # << >> => got[Len(got)] < local'[1]
        BY <2>4, <2>5
      <3>2. /\ cached # << >> => cached[Len(cached)] < cur + 1
            /\ got # << >> => got[Len(got)] < cur + 1
        BY <2>3, <2>4
      <3>3. QED BY <1>1, <2>1, <3>1, <3>2 DEF Older
    <2>10. CASE local' = <<cur>>
      <3>1. Len(<<cur>>) = 1 /\ <<cur>>[1] = cur /\ <<cur>> # << >>
        OBVIOUS
      <3>2. Chain(local)' /\ Reaches'
        BY <2>1, <2>10, <3>1, NodesAssumption DEF Chain, Reaches
      <3>3. Older(cached)' /\ Older(got)'
        BY <2>5, <2>10, <3>1
      <3>4. QED BY <1>1, <2>1, <2>2, <3>2, <3>3 DEF IInv, DataOK, CopyOK
    <2>6. CASE local # << >> /\ cur \notin Starts /\ local' = Append(local, cur)
               /\ Len(local) + 1 < MaxNodes
      <3>1. /\ Len(local') = Len(local) + 1 /\ local'[Len(local')] = cur
            /\ \A i \in 1 .. Len(local) : local'[i] = local[i]
            /\ Len(local) >= 1 /\ local' # << >>
        BY <2>1, <2>6
      <3>2. Gap(local[Len(local)], cur)
        BY <2>1, <2>4, <2>6, NodesAssumption DEF DataOK, Reaches, Gap
      <3>3. Chain(local)'
        <4>1. Len(local') < MaxNodes BY <2>6, <3>1
        <4>2. ASSUME NEW i \in 1 .. Len(local') - 1
              PROVE  local'[i + 1] \notin Starts /\ Gap(local'[i], local'[i + 1])
          <5>1. CASE i = Len(local)
            <6>1. local'[i] = local[Len(local)] /\ local'[i + 1] = cur
              BY <2>1, <3>1, <5>1
            <6>2. QED BY <2>6, <3>2, <6>1
          <5>2. CASE i # Len(local)
            <6>1. i \in 1 .. Len(local) - 1 /\ i + 1 \in 1 .. Len(local)
              BY <2>1, <3>1, <4>2, <5>2
            <6>2. local'[i] = local[i] /\ local'[i + 1] = local[i + 1]
              BY <2>1, <3>1, <6>1
            <6>3. QED BY <2>1, <6>1, <6>2 DEF DataOK, Chain
          <5>3. QED BY <5>1, <5>2
        <4>3. QED BY <1>1, <4>1, <4>2 DEF Chain, Gap
      <3>4. Reaches'
        BY <2>1, <3>1 DEF Reaches
      <3>5. local'[1] = local[1] BY <2>1, <3>1
      <3>6. Older(cached)' /\ Older(got)'
        BY <2>5, <2>6, <3>1, <3>5
      <3>7. QED BY <1>1, <2>1, <2>2, <3>3, <3>4, <3>6 DEF IInv, DataOK, CopyOK
    <2>7. CASE local # << >> /\ local' = local /\ ~(Len(local) + 1 < MaxNodes)
      <3>1. Chain(local)' /\ Len(local) = MaxNodes - 1
        BY <1>1, <2>1, <2>7, NodesAssumption DEF DataOK, Chain, Gap
      <3>2. local[Len(local)] < cur + 1 BY <2>1, <2>3, <2>4, <2>7
      <3>3. Reaches' BY <2>1, <2>7, <3>1, <3>2 DEF Reaches
      <3>4. Older(cached)' /\ Older(got)'
        BY <2>5, <2>7
      <3>5. QED BY <1>1, <2>1, <2>2, <3>1, <3>3, <3>4 DEF IInv, DataOK, CopyOK
    <2>8. QED
      <3>1. CASE local = << >>
        <4>1. Append(local, cur) = <<cur>> /\ Len(local) = 0 BY <3>1
        <4>2. QED BY <1>1, <2>10, <4>1, NodesAssumption
      <3>2. CASE local # << >>
        BY <1>1, <2>10, <2>6, <2>7, <3>2
      <3>3. QED BY <3>1, <3>2
  <1>3. CASE garbled
    BY <1>1, <1>3 DEF IInv, CopyOK
  <1>4. QED BY <1>2, <1>3

LEMMA NextInv ==
  ASSUME TypeOK, TypeOK', IInv, [Next]_vars
  PROVE  IInv'
  <1>1. CASE Main
    <2>1. CASE Step
      BY <2>1, StepInv
    <2>2. CASE Node
      BY <2>2, NodeInv
    <2>3. CASE Grab
      <3>1. GrabWait \/ GrabTest \/ GrabCopy BY <2>3 DEF Grab
      <3>2. QED BY <2>3, <3>1, NodeInv, CopyInv
    <2>4. QED BY <1>1, <2>1, <2>2, <2>3 DEF Main
  <1>2. CASE \E n \in Numbers : Reuse(n)
    <2>1. garbled' /\ at' = at /\ cached' = cached
      BY <1>2 DEF Reuse, Alone, call, cache
    <2>2. QED BY <2>1 DEF IInv, CopyOK
  <1>3. CASE CacheThread /\ ~\E n \in Numbers : Reuse(n)
    BY <1>3, AdvanceActions, PublishInv, CollectInv DEF CacheThread
  <1>4. CASE UNCHANGED vars
    BY <1>4
    DEF IInv, CopyOK, DataOK, ReaderOK, Chain, Reaches, InOrder, Older, Edge, Delayed,
        WholeTurn, Gap, vars, call, node, cache, reader, link, history
  <1>5. QED BY <1>1, <1>2, <1>3, <1>4 DEF Next

LEMMA InvCorrect == Spec => []IInv
  <1>1. TypeOK /\ TypeOK' /\ IInv /\ [Next]_vars => IInv'
    BY NextInv
  <1>2. QED BY <1>1, InitInv, TypeCorrect, PTL DEF Spec

(* Every scan the cache thread publishes and the node takes is a whole     *)
(* turn: it begins with a sync bit, misses nothing received, and ends at   *)
(* the next sync bit or at the capacity.                                   *)
THEOREM WholeCorrect == Spec => []ScansAreWhole
  <1>1. IInv => ScansAreWhole
    BY DEF IInv, DataOK, ScansAreWhole
  <1>2. QED BY <1>1, InvCorrect, PTL

(* The node takes the scans in the order of the turns, each at most once.  *)
THEOREM NewerCorrect == Spec => NewerEachTime
  <1>1. IInv /\ TypeOK /\ [Next]_vars =>
          [at = "copy" /\ at' # at /\ ~garbled => got = << >> \/ got'[1] > got[Len(got)]]_vars
    <2>1. SUFFICES ASSUME IInv, TypeOK, Next, at = "copy", at' # at, ~garbled, got # << >>
                   PROVE  got'[1] > got[Len(got)]
      OBVIOUS
    <2>2. GrabCopy
      BY <2>1
      DEF Next, Main, Step, Disable, Join, Lock, Unlock, Ask, Learn, Details, Motor, Idle,
          Select, Choose, Start, Done, Fail, Node, Return, ChooseMode, TestOk, Serve, Grab,
          GrabWait, GrabTest, CacheThread, Discard, TestScanning, Receive, Damaged, Silence,
          Reuse, Publish, Collect, Interval, Alone, call
    <2>3. cached # << >> /\ got' = cached /\ got[Len(got)] < cached[1]
      BY <2>1, <2>2 DEF IInv, CopyOK, DataOK, InOrder, GrabCopy
    <2>4. cached[1] \in Numbers /\ got[Len(got)] \in Numbers
      BY <2>1, <2>3, EndsTyped DEF TypeOK
    <2>5. QED BY <2>3, <2>4, EdgeTyped
  <1>2. QED BY <1>1, InvCorrect, TypeCorrect, PTL DEF Spec, NewerEachTime

-----------------------------------------------------------------------------
(* The event.                                                              *)
Taking == at \in {"test", "copy"}
SignalInv ==
  /\ SignalMeansScan
  /\ event /\ Taking => overtaken

LEMMA SignalNext ==
  ASSUME SignalInv, [Next]_vars
  PROVE  SignalInv'
  <1>1. CASE UNCHANGED <<at, event, cached, overtaken>>
    BY <1>1 DEF SignalInv, SignalMeansScan, Taking
  <1>2. CASE Node
    <2>1. UNCHANGED <<event, cached, overtaken>> /\ (Taking' => Taking)
      BY <1>2
      DEF Node, cache, history, Taking, Return, ChooseMode, TestOk, Serve, Go, Following
    <2>2. QED BY <2>1 DEF SignalInv, SignalMeansScan
  <1>3. CASE Grab
    <2>1. overtaken' = overtaken BY <1>3 DEF Grab, history
    <2>2. CASE GrabWait
      BY <2>2 DEF GrabWait, SignalInv, SignalMeansScan
    <2>3. CASE GrabTest
      BY <2>1, <2>3 DEF GrabTest, SignalInv, SignalMeansScan, Taking
    <2>4. CASE GrabCopy
      BY <2>1, <2>4 DEF GrabCopy, Go, SignalInv, SignalMeansScan, Taking
    <2>5. QED BY <1>3, <2>2, <2>3, <2>4 DEF Grab
  <1>4. CASE Publish
    <2>1. at' = at /\ cached' # << >> /\ overtaken' = Taking
      BY <1>4 DEF Publish, Begins, Alone, call, Taking
    <2>2. QED BY <2>1 DEF SignalInv, SignalMeansScan, Taking
  <1>5. CASE Step
    <2>1. UNCHANGED <<at, event, cached, overtaken>>
      BY <1>5
      DEF Step, Disable, Join, Lock, Unlock, Ask, Learn, Details, Motor, Idle, Select,
          Choose, Start, Done, Fail, cache, history
    <2>2. QED BY <1>1, <2>1
  <1>6. CASE CacheThread /\ ~Publish
    <2>1. UNCHANGED <<at, event, cached, overtaken>>
      BY <1>6
      DEF CacheThread, Discard, TestScanning, Receive, Damaged, Silence, Reuse, Collect,
          Interval, Alone, call, cache, history
    <2>2. QED BY <1>1, <2>1
  <1>7. CASE UNCHANGED vars
    BY <1>1, <1>7 DEF vars, call, cache, history
  <1>8. QED BY <1>2, <1>3, <1>4, <1>5, <1>6, <1>7 DEF Next, Main

(* A signalled event stands for a scan, or for a publication that came     *)
(* between the wait and the copy of the grab before.                       *)
THEOREM SignalCorrect == Spec => []SignalMeansScan
  <1>1. Init => SignalInv
    BY DEF Init, SignalInv, SignalMeansScan
  <1>2. SignalInv => SignalMeansScan
    BY DEF SignalInv
  <1>3. QED BY <1>1, <1>2, SignalNext, PTL DEF Spec
-----------------------------------------------------------------------------
(* The calls, step by step: who waits for the cache thread before asking.   *)

Quiet == thread \in {"none", "ended"}
StartSteps == {"scan", "express"}

(* Steps that must find no cache thread, or lead to one that must not.      *)
NeedsQuiet ==
  {"ask", "send", "control", "support", "respin", "scan", "express", "details", "choose"}

HasJoin(s) == \E i \in 1 .. Len(s) : s[i] = "join"
Joined(s) ==
  \A i \in 1 .. Len(s) : s[i] \in NeedsQuiet => \E j \in 1 .. i - 1 : s[j] = "join"
NoStart(s) == \A i \in 1 .. Len(s) : s[i] \notin StartSteps \cup {"choose"}
StartsLast(s) ==
  \A i \in 1 .. Len(s) : s[i] \in StartSteps =>
    \A j \in i + 1 .. Len(s) : s[j] = "unlock"
Plain(s) ==
  \A i \in 1 .. Len(s) : s[i] \in {"disable", "join", "lock", "send", "unlock", "haltPwm"}

(* A call that may meet a cache thread joins it before it asks anything;    *)
(* when the driver is deleted, nothing can stop the call before the join.   *)
CallInv ==
  /\ at # "speed" => Quiet \/ Joined(todo)
  /\ StartsLast(todo)
  /\ at \in {"connect", "info", "health", "motor"} => Quiet /\ NoStart(todo)
  /\ at = "stop" => Plain(todo) /\ (Quiet \/ HasJoin(todo))
  /\ at = "exited" => Quiet /\ todo = << >>

(* A sequence after another one.                                            *)
LEMMA ConcatCalls ==
  ASSUME NEW s \in Seq(Steps), NEW t \in Seq(Steps)
  PROVE  /\ s \o t \in Seq(Steps)
         /\ HasJoin(s) => HasJoin(s \o t)
         /\ Joined(s) /\ (Joined(t) \/ HasJoin(s)) => Joined(s \o t)
         /\ NoStart(s) /\ NoStart(t) => NoStart(s \o t)
         /\ NoStart(s) /\ StartsLast(t) => StartsLast(s \o t)
         /\ Plain(s) /\ Plain(t) => Plain(s \o t)
  <1> DEFINE r == s \o t
  <1>1. /\ r \in Seq(Steps) /\ Len(r) = Len(s) + Len(t)
        /\ Len(s) \in Nat /\ Len(t) \in Nat
        /\ \A i \in 1 .. Len(s) : r[i] = s[i]
        /\ \A i \in 1 .. Len(r) : i > Len(s) => i - Len(s) \in 1 .. Len(t) /\ r[i] = t[i - Len(s)]
    OBVIOUS
  <1>2. \A i \in 1 .. Len(r) : i \in 1 .. Len(s) \/ i > Len(s)
    BY <1>1
  <1>3. 1 .. Len(s) \subseteq 1 .. Len(r)
    BY <1>1
  <1> HIDE DEF r
  <1>4. HasJoin(s) => HasJoin(r)
    BY <1>1, <1>3 DEF HasJoin
  <1>5. ASSUME Joined(s), Joined(t) \/ HasJoin(s)
        PROVE  Joined(r)
    <2>1. SUFFICES ASSUME NEW i \in 1 .. Len(r), r[i] \in NeedsQuiet
                   PROVE  \E j \in 1 .. i - 1 : r[j] = "join"
      BY DEF Joined
    <2>2. CASE i \in 1 .. Len(s)
      <3>1. PICK j \in 1 .. i - 1 : s[j] = "join"
        BY <1>1, <1>5, <2>1, <2>2 DEF Joined
      <3>2. j \in 1 .. Len(s) BY <1>1, <2>2
      <3>3. QED BY <1>1, <3>1, <3>2
    <2>3. CASE i > Len(s) /\ HasJoin(s)
      <3>1. PICK j \in 1 .. Len(s) : s[j] = "join"
        BY <2>3 DEF HasJoin
      <3>2. j \in 1 .. i - 1 BY <1>1, <2>3
      <3>3. QED BY <1>1, <3>1, <3>2
    <2>4. CASE i > Len(s) /\ Joined(t)
      <3>1. PICK j \in 1 .. (i - Len(s)) - 1 : t[j] = "join"
        BY <1>1, <2>1, <2>4 DEF Joined
      <3>2. /\ j + Len(s) \in 1 .. i - 1 /\ j + Len(s) \in 1 .. Len(r)
            /\ j + Len(s) > Len(s) /\ (j + Len(s)) - Len(s) = j
        BY <1>1, <2>4
      <3>3. r[j + Len(s)] = t[j] BY <1>1, <3>2
      <3>4. QED BY <3>1, <3>2, <3>3
    <2>5. QED BY <1>2, <1>5, <2>1, <2>2, <2>3, <2>4
  <1>6. /\ NoStart(s) /\ NoStart(t) => NoStart(r)
        /\ Plain(s) /\ Plain(t) => Plain(r)
    BY <1>1, <1>2 DEF NoStart, Plain
  <1>7. ASSUME NoStart(s), StartsLast(t)
        PROVE  StartsLast(r)
    <2>1. SUFFICES ASSUME NEW i \in 1 .. Len(r), r[i] \in StartSteps,
                          NEW j \in i + 1 .. Len(r)
                   PROVE  r[j] = "unlock"
      BY DEF StartsLast
    <2>2. i > Len(s) BY <1>1, <1>2, <1>7, <2>1 DEF NoStart
    <2>3. /\ i - Len(s) \in 1 .. Len(t) /\ t[i - Len(s)] \in StartSteps
          /\ j \in 1 .. Len(r) /\ j > Len(s)
      BY <1>1, <2>1, <2>2
    <2>4. j - Len(s) \in (i - Len(s)) + 1 .. Len(t) /\ r[j] = t[j - Len(s)]
      BY <1>1, <2>1, <2>3
    <2>5. QED BY <1>7, <2>3, <2>4 DEF StartsLast
  <1>8. QED BY <1>1, <1>4, <1>5, <1>6, <1>7 DEF r

(* What is left of a call after its first step.                             *)
LEMMA RestOfCall ==
  ASSUME NEW s \in Seq(Steps), s # << >>
  PROVE  /\ Tail(s) \in Seq(Steps)
         /\ Joined(s) /\ s[1] # "join" => Joined(Tail(s))
         /\ HasJoin(s) /\ s[1] # "join" => HasJoin(Tail(s))
         /\ NoStart(s) => NoStart(Tail(s))
         /\ StartsLast(s) => StartsLast(Tail(s))
         /\ Plain(s) => Plain(Tail(s))
         /\ StartsLast(s) /\ s[1] \in StartSteps => Joined(Tail(s))
  <1> DEFINE r == Tail(s)
  <1>1. /\ r \in Seq(Steps) /\ Len(s) \in Nat \ {0} /\ Len(r) = Len(s) - 1
        /\ \A i \in 1 .. Len(r) : i + 1 \in 1 .. Len(s) /\ r[i] = s[i + 1]
        /\ 1 \in 1 .. Len(s)
    OBVIOUS
  <1> HIDE DEF r
  <1>2. ASSUME Joined(s), s[1] # "join" PROVE Joined(r)
    <2>1. SUFFICES ASSUME NEW i \in 1 .. Len(r), r[i] \in NeedsQuiet
                   PROVE  \E j \in 1 .. i - 1 : r[j] = "join"
      BY DEF Joined
    <2>2. PICK j \in 1 .. (i + 1) - 1 : s[j] = "join"
      BY <1>1, <1>2, <2>1 DEF Joined
    <2>3. j - 1 \in 1 .. i - 1 /\ j - 1 \in 1 .. Len(r) /\ (j - 1) + 1 = j
      BY <1>1, <1>2, <2>2
    <2>4. QED BY <1>1, <2>2, <2>3
  <1>3. ASSUME HasJoin(s), s[1] # "join" PROVE HasJoin(r)
    <2>1. PICK j \in 1 .. Len(s) : s[j] = "join"
      BY <1>3 DEF HasJoin
    <2>2. j - 1 \in 1 .. Len(r) /\ (j - 1) + 1 = j
      BY <1>1, <1>3, <2>1
    <2>3. QED BY <1>1, <2>1, <2>2 DEF HasJoin
  <1>4. (NoStart(s) => NoStart(r)) /\ (Plain(s) => Plain(r))
    BY <1>1 DEF NoStart, Plain
  <1>5. ASSUME StartsLast(s)
        PROVE  StartsLast(r) /\ (s[1] \in StartSteps => Joined(r))
    <2>1. ASSUME NEW i \in 1 .. Len(r), r[i] \in StartSteps, NEW j \in i + 1 .. Len(r)
          PROVE  r[j] = "unlock"
      <3>1. /\ i + 1 \in 1 .. Len(s) /\ s[i + 1] \in StartSteps
            /\ j \in 1 .. Len(r) /\ j + 1 \in (i + 1) + 1 .. Len(s)
        BY <1>1, <2>1
      <3>2. QED BY <1>1, <1>5, <3>1 DEF StartsLast
    <2>2. ASSUME s[1] \in StartSteps, NEW i \in 1 .. Len(r)
          PROVE  r[i] \notin NeedsQuiet
      <3>1. i + 1 \in 1 + 1 .. Len(s) BY <1>1
      <3>2. r[i] = "unlock" BY <1>1, <1>5, <2>2, <3>1 DEF StartsLast
      <3>3. QED BY <3>2 DEF NeedsQuiet
    <2>3. QED BY <2>1, <2>2 DEF StartsLast, Joined
  <1>6. QED BY <1>1, <1>2, <1>3, <1>4, <1>5 DEF r

LEMMA CallShapes ==
  /\ NoStart(Connect) /\ NoStart(GetDeviceInfo) /\ NoStart(GetHealth)
  /\ NoStart(SetMotorSpeed) /\ NoStart(Stop) /\ NoStart(Locked("ask"))
  /\ Plain(Stop) /\ HasJoin(Stop) /\ Joined(Stop)
  /\ StartsLast(StartScan) /\ Joined(StartScan)
  /\ StartsLast(GetAllSupportedScanModes \o ExpressMode)
  /\ Joined(GetAllSupportedScanModes \o ExpressMode)
  /\ StartsLast(NormalScan) /\ StartsLast(ExpressScan)
  <1>1. \A s \in Steps : <<s>> \in Seq(Steps) /\ Locked(s) \in Seq(Steps)
    BY DEF Locked, Steps
  <1>2. \A s \in Steps :
          /\ s \notin StartSteps \cup {"choose"} => NoStart(<<s>>) /\ NoStart(Locked(s))
          /\ StartsLast(<<s>>) /\ StartsLast(Locked(s))
          /\ s \notin NeedsQuiet => Joined(<<s>>) /\ Joined(Locked(s))
    BY DEF Locked, NoStart, StartsLast, Joined, NeedsQuiet, StartSteps
  <1>3. /\ DisableDataGrabbing \in Seq(Steps) /\ NoStart(DisableDataGrabbing)
        /\ HasJoin(DisableDataGrabbing) /\ Joined(DisableDataGrabbing)
        /\ Plain(DisableDataGrabbing)
    <2>1. DisableDataGrabbing \in Seq(Steps)
      BY DEF DisableDataGrabbing, Steps
    <2>2. HasJoin(DisableDataGrabbing)
      <3>1. 2 \in 1 .. Len(DisableDataGrabbing) /\ DisableDataGrabbing[2] = "join"
        BY DEF DisableDataGrabbing
      <3>2. QED BY <3>1 DEF HasJoin
    <2>3. QED
      BY <2>1, <2>2
      DEF DisableDataGrabbing, NoStart, Joined, NeedsQuiet, Plain, StartSteps
  <1>4. {"ask", "support", "control", "send", "respin", "scan", "spin", "haltPwm", "details",
         "idle", "select", "choose"} \subseteq Steps
    BY DEF Steps
  <1>5. \A s \in {"ask", "support", "control", "send", "respin", "spin", "haltPwm",
                  "details", "idle", "select"} :
           NoStart(<<s>>) /\ NoStart(Locked(s))
    BY <1>2, <1>4 DEF StartSteps
  <1>6. /\ GetDeviceInfo \in Seq(Steps) /\ NoStart(GetDeviceInfo)
        /\ HasJoin(GetDeviceInfo) /\ Joined(GetDeviceInfo)
        /\ GetHealth = GetDeviceInfo
    BY <1>1, <1>3, <1>4, <1>5, ConcatCalls DEF GetDeviceInfo, GetHealth
  <1>7. NoStart(Connect) /\ NoStart(SetMotorSpeed)
    <2>1. NoStart(Locked("ask") \o DisableDataGrabbing)
          /\ Locked("ask") \o DisableDataGrabbing \in Seq(Steps)
      BY <1>1, <1>3, <1>4, <1>5, ConcatCalls
    <2>2. QED BY <1>1, <1>4, <1>5, <2>1, ConcatCalls DEF Connect, SetMotorSpeed
  <1>8. /\ Stop \in Seq(Steps) /\ NoStart(Stop) /\ Plain(Stop) /\ HasJoin(Stop)
        /\ Joined(Stop)
    <2>1. Plain(Locked("send")) /\ Plain(<<"haltPwm">>)
      BY DEF Locked, Plain
    <2> DEFINE s == DisableDataGrabbing \o Locked("send")
    <2>2. s \in Seq(Steps) /\ NoStart(s) /\ Plain(s) /\ HasJoin(s) /\ Joined(s)
      BY <1>1, <1>3, <1>4, <1>5, <2>1, ConcatCalls
    <2>3. Stop = s \o <<"haltPwm">> BY DEF Stop
    <2> HIDE DEF s
    <2>4. QED BY <1>1, <1>4, <1>5, <2>1, <2>2, <2>3, ConcatCalls
  <1> DEFINE c == CheckSupportConfigCommands
  <1>9. c \in Seq(Steps) /\ NoStart(c) /\ HasJoin(c) /\ Joined(c)
    BY <1>1, <1>4, <1>5, <1>6, ConcatCalls DEF CheckSupportConfigCommands
  <1> HIDE DEF c
  <1>10. /\ GetTypicalScanMode \in Seq(Steps) /\ NoStart(GetTypicalScanMode)
         /\ HasJoin(GetTypicalScanMode) /\ Joined(GetTypicalScanMode)
    BY <1>1, <1>4, <1>5, <1>9, ConcatCalls DEF GetTypicalScanMode, c
  <1>11. /\ GetAllSupportedScanModes \in Seq(Steps) /\ NoStart(GetAllSupportedScanModes)
         /\ HasJoin(GetAllSupportedScanModes) /\ Joined(GetAllSupportedScanModes)
    <2>1. <<"details", "select">> \in Seq(Steps) /\ NoStart(<<"details", "select">>)
      BY DEF Steps, NoStart, StartSteps
    <2>2. QED BY <1>9, <2>1, ConcatCalls DEF GetAllSupportedScanModes, c
  <1>12. ExpressMode \in Seq(Steps) /\ StartsLast(ExpressMode) /\ Joined(ExpressMode)
    <2> DEFINE s == <<"idle">> \o Stop
    <2>1. s \in Seq(Steps) /\ NoStart(s) /\ HasJoin(s) /\ Joined(s)
      <3>1. Joined(<<"idle">>) BY <1>2, <1>4 DEF NeedsQuiet
      <3>2. HasJoin(s)
        <4>1. PICK i \in 1 .. Len(Stop) : Stop[i] = "join" BY <1>8 DEF HasJoin
        <4>2. i + 1 \in 1 .. Len(s) /\ s[i + 1] = Stop[i] BY <1>1, <1>4, <1>8
        <4>3. QED BY <4>1, <4>2 DEF HasJoin
      <3>3. QED BY <1>1, <1>4, <1>5, <1>8, <3>1, <3>2, ConcatCalls
    <2> DEFINE t == s \o c
    <2>2. t \in Seq(Steps) /\ NoStart(t) /\ HasJoin(t) /\ Joined(t)
      BY <1>9, <2>1, ConcatCalls
    <2>3. ExpressMode = t \o <<"details", "choose">>
      BY DEF ExpressMode, c
    <2>4. <<"details", "choose">> \in Seq(Steps) /\ StartsLast(<<"details", "choose">>)
      BY DEF Steps, StartsLast, StartSteps
    <2> HIDE DEF s, t
    <2>5. QED BY <2>2, <2>3, <2>4, ConcatCalls
  <1>13. StartsLast(StartScan) /\ Joined(StartScan)
    <2> DEFINE s == <<"spin">> \o c
               t == s \o GetTypicalScanMode
    <2>1. s \in Seq(Steps) /\ NoStart(s) /\ Joined(s)
      <3>1. Joined(<<"spin">>) BY <1>2, <1>4 DEF NeedsQuiet
      <3>2. QED BY <1>1, <1>4, <1>5, <1>9, <3>1, ConcatCalls
    <2>2. t \in Seq(Steps) /\ NoStart(t) /\ Joined(t)
      BY <1>10, <2>1, ConcatCalls
    <2>3. StartScan = t \o ExpressMode BY DEF StartScan, c
    <2> HIDE DEF s, t
    <2>4. QED BY <1>12, <2>2, <2>3, ConcatCalls
  <1>14. /\ StartsLast(GetAllSupportedScanModes \o ExpressMode)
         /\ Joined(GetAllSupportedScanModes \o ExpressMode)
    BY <1>11, <1>12, ConcatCalls
  <1>15. StartsLast(NormalScan)
    <2> DEFINE s == <<"spin">> \o c
               t == s \o <<"details", "idle">>
               u == t \o Stop
               v == u \o Locked("respin")
    <2>1. s \in Seq(Steps) /\ NoStart(s)
      BY <1>1, <1>4, <1>5, <1>9, ConcatCalls
    <2>2. <<"details", "idle">> \in Seq(Steps) /\ NoStart(<<"details", "idle">>)
      BY DEF Steps, NoStart, StartSteps
    <2>3. t \in Seq(Steps) /\ NoStart(t)
      BY <2>1, <2>2, ConcatCalls
    <2>4. u \in Seq(Steps) /\ NoStart(u)
      BY <1>8, <2>3, ConcatCalls
    <2>5. v \in Seq(Steps) /\ NoStart(v)
      BY <1>1, <1>4, <1>5, <2>4, ConcatCalls
    <2>6. NormalScan = v \o Locked("scan") BY DEF NormalScan, c
    <2> HIDE DEF s, t, u, v
    <2>7. QED BY <1>1, <1>2, <1>4, <2>5, <2>6, ConcatCalls
  <1>16. StartsLast(ExpressScan)
    BY DEF ExpressScan, StartsLast, StartSteps
  <1>17. QED
    BY <1>1, <1>4, <1>5, <1>6, <1>7, <1>8, <1>12, <1>13, <1>14, <1>15, <1>16

(* An empty call, and one that only unlocks or halts the motor.             *)
LEMMA ShortCalls ==
  \A s \in {<< >>, <<"unlock">>, <<"halt">>} :
    Joined(s) /\ StartsLast(s) /\ NoStart(s)
  BY DEF Joined, StartsLast, NoStart, NeedsQuiet, StartSteps

LEMMA CallInit == Init => CallInv
  <1>1. NoStart(Connect) => StartsLast(Connect)
    BY DEF NoStart, StartsLast
  <1>2. QED BY <1>1, CallShapes DEF Init, CallInv, Quiet

(* A step of a driver call.                                                 *)
LEMMA CallStep ==
  ASSUME TypeOK, CallInv, Step
  PROVE  CallInv'
  <1>1. /\ todo # << >> /\ todo \in Seq(Steps) /\ at' = at /\ at # "exited"
        /\ Head(todo) = todo[1] /\ 1 \in 1 .. Len(todo)
    <2>1. todo # << >> /\ at' = at
      BY DEF Step, Disable, Join, Lock, Unlock, Ask, Learn, Details, Motor, Idle, Select,
             Choose, Start, Doing, Done, Fail
    <2>2. QED BY <2>1 DEF TypeOK, CallInv
  <1>2. CASE \E f \in Formats : Start(f)
    <2>1. PICK f \in Formats : Start(f) BY <1>2
    <2>2. todo[1] \in StartSteps
      BY <1>1, <2>1 DEF Start, Doing, StartSteps
    <2>3. todo' \in {Tail(todo), << >>, <<"unlock">>}
      BY <2>1 DEF Start, Done, Fail
    <2>4. StartsLast(todo') /\ Joined(todo')
      BY <1>1, <2>2, <2>3, RestOfCall, ShortCalls DEF CallInv
    <2>5. at \notin {"connect", "info", "health", "motor", "stop"}
      BY <1>1, <2>2 DEF CallInv, NoStart, Plain, StartSteps
    <2>6. QED BY <1>1, <2>4, <2>5 DEF CallInv
  <1>3. CASE ~\E f \in Formats : Start(f)
    <2>1. thread' = thread
      BY <1>3 DEF Step, Disable, Join, Lock, Unlock, Ask, Learn, Details, Motor, Idle,
                  Select, Choose
    <2>2. CASE todo' = Tail(todo) \/ (todo' \in {<< >>, <<"unlock">>} /\ at # "stop")
      <3>1. todo[1] = "join" => Quiet
        BY <1>1, <1>3, <2>2 DEF Step, Disable, Join, Lock, Unlock, Ask, Learn, Details,
                                Motor, Idle, Select, Choose, Doing, Quiet
      <3>2. QED
        BY <1>1, <2>1, <2>2, <3>1, RestOfCall, ShortCalls DEF CallInv, Quiet
    <2>3. CASE todo[1] \in {"details", "choose"}
      <3>1. at # "stop" BY <1>1, <2>3 DEF CallInv, Plain
      <3>2. at # "speed" => Quiet
        BY <1>1, <2>3 DEF CallInv, Joined, NeedsQuiet
      <3>3. CASE Details
        <4>1. CASE todo' = Locked("ask") \o Tail(todo)
          <5>1. StartsLast(todo') /\ (NoStart(todo) => NoStart(todo'))
            BY <1>1, <4>1, RestOfCall, ConcatCalls, CallsTyped, CallShapes DEF CallInv
          <5>2. QED BY <1>1, <2>1, <3>1, <3>2, <5>1 DEF CallInv, Quiet
        <4>2. QED BY <2>2, <3>3, <4>1 DEF Details
      <3>4. CASE Choose
        <4>1. at \notin {"connect", "info", "health", "motor"}
          BY <1>1, <3>4 DEF Choose, Doing, CallInv, NoStart
        <4>2. StartsLast(todo')
          BY <3>4, CallShapes DEF Choose
        <4>3. QED BY <1>1, <2>1, <3>1, <3>2, <4>1, <4>2 DEF CallInv, Quiet
      <3>5. QED
        BY <1>1, <1>3, <2>2, <2>3, <3>3, <3>4
        DEF Step, Disable, Join, Lock, Unlock, Ask, Learn, Motor, Idle, Select, Doing
    <2>4. CASE Details \/ Choose
      BY <1>1, <2>3, <2>4 DEF Details, Choose, Doing
    <2>5. CASE Ask \/ Idle \/ Select
      <3>1. Head(todo) \in {"ask", "send", "idle", "select"}
            /\ (todo' = Tail(todo) \/ (todo' \in {<< >>, <<"unlock">>} /\ Head(todo) # "send"))
        BY <2>5 DEF Ask, Idle, Select, Doing, Done, Fail
      <3>2. at = "stop" => Head(todo) \notin {"ask", "idle", "select"}
        BY <1>1 DEF CallInv, Plain
      <3>3. QED BY <2>2, <3>1, <3>2
    <2>6. CASE Disable \/ Join \/ Lock \/ Unlock \/ Learn \/ Motor
      <3>1. todo' = Tail(todo)
        BY <2>6 DEF Disable, Join, Lock, Unlock, Learn, Motor, Done
      <3>2. QED BY <2>2, <3>1
    <2>7. QED BY <1>3, <2>4, <2>5, <2>6 DEF Step
  <1>4. QED BY <1>2, <1>3

LEMMA CallNode ==
  ASSUME TypeOK, CallInv, Node \/ Grab
  PROVE  CallInv'
  <1>1. thread' = thread
    BY DEF Node, Grab, reader
  <1>2. CASE Return
    <2>1. todo = << >> BY <1>2 DEF Return, Awake
    <2>2. CASE at \in {"connect", "info", "health"} /\ result = "fail"
      <3>1. at' = "exited" /\ todo' = << >> /\ Quiet
        BY <1>2, <2>2 DEF Return, Go, CallInv
      <3>2. QED BY <1>1, <3>1, ShortCalls DEF CallInv, Quiet
    <2>3. CASE ~(at \in {"connect", "info", "health"} /\ result = "fail")
      <3>1. /\ at \in {"connect", "info", "health", "scan", "speed", "rescan", "serve",
                       "off", "stop"}
            /\ at' = Following(at)[1] /\ todo' = Following(at)[2]
        BY <1>2, <2>3 DEF Return, Go
      <3>2. CASE at \in {"connect", "info", "health"}
        <4>1. /\ at' \in {"info", "health", "motor"} /\ Quiet
              /\ todo' \in {GetDeviceInfo, GetHealth, SetMotorSpeed}
          BY <3>1, <3>2 DEF Following, CallInv
        <4>2. NoStart(todo') BY <4>1, CallShapes
        <4>3. StartsLast(todo') BY <4>2 DEF NoStart, StartsLast
        <4>4. QED BY <1>1, <4>1, <4>2, <4>3 DEF CallInv, Quiet
      <3>3. CASE at \in {"scan", "rescan", "serve"}
        <4>1. at' \in {"loop", "serve"} /\ todo' = << >>
          BY <3>1, <3>3 DEF Following
        <4>2. QED BY <4>1, ShortCalls DEF CallInv
      <3>4. CASE at = "speed"
        <4>1. at' = "rescan" /\ todo' = StartScan
          BY <3>1, <3>4 DEF Following
        <4>2. QED BY <4>1, CallShapes DEF CallInv
      <3>5. CASE at = "off"
        <4>1. at' = "stop" /\ todo' = Stop
          BY <3>1, <3>5 DEF Following
        <4>2. StartsLast(Stop) BY CallShapes DEF NoStart, StartsLast
        <4>3. QED BY <4>1, <4>2, CallShapes DEF CallInv
      <3>6. CASE at = "stop"
        <4>1. at' = "exited" /\ todo' = << >>
          BY <3>1, <3>6 DEF Following
        <4>2. ~HasJoin(todo) BY <2>1 DEF HasJoin
        <4>3. Quiet BY <3>6, <4>2 DEF CallInv
        <4>4. QED BY <1>1, <4>1, <4>3, ShortCalls DEF CallInv, Quiet
      <3>7. QED BY <3>1, <3>2, <3>3, <3>4, <3>5, <3>6
    <2>4. QED BY <2>2, <2>3
  <1>3. CASE ChooseMode
    <2>1. /\ at' = "scan"
          /\ todo' \in {StartScan, GetAllSupportedScanModes \o ExpressMode}
      BY <1>3 DEF ChooseMode, Go
    <2>2. QED BY <2>1, CallShapes DEF CallInv
  <1>4. CASE TestOk \/ Grab
    <2>1. at' \in {"wait", "off", "test", "copy", "serve"} /\ todo' \in {<< >>, <<"halt">>}
      BY <1>4 DEF TestOk, Grab, GrabWait, GrabTest, GrabCopy, Go
    <2>2. QED BY <2>1, ShortCalls DEF CallInv
  <1>5. CASE Serve
    <2>1. \/ at' = "serve" /\ todo' = <<"halt">>
          \/ at' = "speed" /\ todo' = SetMotorSpeed
      BY <1>5 DEF Serve, Go
    <2>2. StartsLast(SetMotorSpeed) BY CallShapes DEF NoStart, StartsLast
    <2>3. QED BY <2>1, <2>2, ShortCalls DEF CallInv
  <1>6. QED BY <1>2, <1>3, <1>4, <1>5 DEF Node

LEMMA CallCache ==
  ASSUME CallInv, CacheThread
  PROVE  CallInv'
  <1>1. UNCHANGED <<at, todo>> /\ (Quiet => Quiet')
    BY DEF CacheThread, Discard, TestScanning, Receive, Damaged, Silence, Reuse, Publish,
           Collect, Interval, Alone, call, Quiet
  <1>2. QED BY <1>1 DEF CallInv

(* No question is asked while a cache thread runs that would read away the  *)
(* answer, none is started beside another one, and none is left when the    *)
(* driver is deleted (sl_lidar_driver.cpp), but for a change of speed.      *)
THEOREM QuietCorrect == Spec => []NoThreadLeft
  <1>1. TypeOK /\ CallInv /\ [Next]_vars => CallInv'
    <2>1. ASSUME CallInv, UNCHANGED vars PROVE CallInv'
      BY <2>1 DEF CallInv, Quiet, vars, call, reader
    <2>2. QED BY <2>1, CallStep, CallNode, CallCache DEF Next, Main
  <1>2. TypeOK /\ CallInv => NoThreadLeft
    <2>1. SUFFICES ASSUME TypeOK, CallInv, Asking, ~Quiet PROVE FALSE
      BY DEF NoThreadLeft, CallInv, Quiet
    <2>2. Joined(todo) BY <2>1 DEF CallInv, Asking
    <2>3. 1 \in 1 .. Len(todo) /\ todo[1] = Head(todo) /\ todo[1] \in NeedsQuiet
      BY <2>1 DEF Asking, TypeOK, NeedsQuiet
    <2>4. QED BY <2>2, <2>3 DEF Joined
  <1>3. QED BY <1>1, <1>2, CallInit, TypeCorrect, PTL DEF Spec
=============================================================================
