--------------------------- MODULE PatrolNode_proof ---------------------------
(***************************************************************************)
(* The patrol node's safety for any commands, rays and threshold: the flag *)
(* "moving" can be trusted, and at most one move is published on hold.     *)
(***************************************************************************)
EXTENDS PatrolNode, TLAPS

Pcs == {"top", "dispatch", "leg", "check", "halt", "again", "repeat", "confirm",
        "await", "turn", "look", "hold", "held", "push", "pushed", "ended"}

(* The late moves counted so far, and why no other can follow: the thread   *)
(* would have to pass the test it has yet to make.                          *)
LateInv ==
  /\ late = [joy |-> late.joy, pause |-> late.pause, obstacle |-> late.obstacle]
  /\ late.joy \in {0, 1} /\ late.pause \in {0, 1} /\ late.obstacle \in {0, 1}
  /\ late.joy = 1 => Joy_active /\ pc # "push"
  /\ late.pause = 1 => ~Switch /\ pc \notin {"look", "push"}
  /\ late.obstacle = 1 => Obstacle /\ pc # "push"

HoldInv ==
  /\ pc \in Pcs /\ moving \in BOOLEAN /\ warning \in Nat
  /\ NotMovingIsStopped
  /\ LateInv
  /\ pc = "held" => out = "stop"

LEMMA InitHold == Init => HoldInv
  BY DEF Init, HoldInv, Pcs, NotMovingIsStopped, LateInv

(* Callbacks change neither the thread's place nor "moving", and publish    *)
(* nothing but stops.                                                       *)
LEMMA CallbackHold ==
  ASSUME HoldInv,
         (\E c \in Configs : Configure(c)) \/ ShutDown \/ Cancel
  PROVE  HoldInv'
  <1>1. UNCHANGED <<pc, moving, Switch, Joy_active, late, warning>> /\ out' \in {out, "stop"}
    BY DEF Configure, ShutDown, Cancel, params, thread
  <1>2. QED BY <1>1 DEF HoldInv, NotMovingIsStopped, LateInv, Obstacle

(* A scan that begins forgets the obstacle; until then the count only grows.*)
LEMMA ScanHold ==
  ASSUME HoldInv, (\E near \in 0..MaxRays : RegisterScan(near)) \/ CountRay
  PROVE  HoldInv'
  <1>1. UNCHANGED <<pc, moving, Switch, Joy_active, out>>
    BY DEF RegisterScan, CountRay, params, thread
  <1>2. CASE \E near \in 0..MaxRays : RegisterScan(near)
    <2>1. warning' = 1 /\ late' = [late EXCEPT !.obstacle = 0]
      BY <1>2 DEF RegisterScan
    <2>2. late' = [joy |-> late.joy, pause |-> late.pause, obstacle |-> 0]
      BY <2>1 DEF HoldInv, LateInv
    <2>3. QED BY <1>1, <2>1, <2>2 DEF HoldInv, NotMovingIsStopped, LateInv
  <1>3. CASE CountRay
    <2>1. warning' = warning + 1 /\ late' = late
      BY <1>3 DEF CountRay
    <2>2. warning' \in Nat /\ (Obstacle => Obstacle')
      BY <2>1, RaysAssumption DEF HoldInv, Obstacle
    <2>3. QED BY <1>1, <2>1, <2>2 DEF HoldInv, NotMovingIsStopped, LateInv
  <1>4. QED BY <1>2, <1>3

LEMMA ConfigureStepHold ==
  ASSUME HoldInv, ConfigureStep
  PROVE  HoldInv'
  <1>1. UNCHANGED <<pc, moving, out, Joy_active, warning>>
    BY DEF ConfigureStep, thread
  <1>2. CASE cb.at = 4 /\ cb.new.Switch
    <2>1. late' = [late EXCEPT !.pause = 0] /\ Switch' = cb.new.Switch
      BY <1>2 DEF ConfigureStep
    <2>2. late' = [joy |-> late.joy, pause |-> 0, obstacle |-> late.obstacle]
      BY <2>1 DEF HoldInv, LateInv
    <2>3. QED BY <1>1, <2>2 DEF HoldInv, NotMovingIsStopped, LateInv, Obstacle
  <1>3. CASE ~(cb.at = 4 /\ cb.new.Switch)
    <2>1. late' = late /\ (Switch' = Switch \/ ~Switch')
      BY <1>3 DEF ConfigureStep
    <2>2. QED BY <1>1, <2>1 DEF HoldInv, NotMovingIsStopped, LateInv, Obstacle
  <1>4. QED BY <1>2, <1>3

LEMMA JoyHold ==
  ASSUME HoldInv, NEW on \in BOOLEAN, JoyStateCallback(on)
  PROVE  HoldInv'
  <1>1. UNCHANGED <<pc, moving, Switch, warning>> /\ out' \in {out, "stop"} /\ Joy_active' = on
    BY DEF JoyStateCallback, params, thread
  <1>2. CASE on
    BY <1>1, <1>2 DEF JoyStateCallback, HoldInv, NotMovingIsStopped, LateInv, Obstacle
  <1>3. CASE ~on
    <2>1. late' = [joy |-> 0, pause |-> late.pause, obstacle |-> late.obstacle]
      BY <1>3 DEF JoyStateCallback, HoldInv, LateInv
    <2>2. QED BY <1>1, <2>1 DEF HoldInv, NotMovingIsStopped, LateInv, Obstacle
  <1>4. QED BY <1>2, <1>3

(* The thread's steps that neither publish a move nor set "moving".         *)
LEMMA QuietHold ==
  ASSUME HoldInv,
         \/ Top \/ Dispatch \/ Leg \/ Complete \/ Check \/ Halt \/ Again \/ Repeat
         \/ Confirm \/ Await \/ TurnDone \/ TurnOn \/ Look \/ Hold \/ End
  PROVE  HoldInv'
  <1>1. /\ UNCHANGED <<moving, Switch, Joy_active, late, warning>>
        /\ out' = out \/ out' = "stop"
        /\ pc # "pushed" /\ pc' # "pushed"
        /\ pc' \in Pcs /\ (pc' = "held" => out' = "stop")
    BY DEF Top, Dispatch, Leg, Complete, Check, Halt, Again, Repeat, Confirm, Await,
           TurnDone, TurnOn, Look, Hold, End, Goto, Publish, params, Pcs
  <1>2. (pc' = "push" => pc = "look" /\ ~Joy_active /\ ~Obstacle) /\ (pc' = "look" => Switch)
    BY DEF Top, Dispatch, Leg, Complete, Check, Halt, Again, Repeat, Confirm, Await,
           TurnDone, TurnOn, Look, Hold, End, Goto, Publish
  <1>3. QED BY <1>1, <1>2 DEF HoldInv, NotMovingIsStopped, LateInv, Obstacle

LEMMA PushHold ==
  ASSUME HoldInv, Push
  PROVE  HoldInv'
  <1>1. /\ late.joy = 0 /\ late.pause = 0 /\ late.obstacle = 0 /\ pc = "push"
        /\ UNCHANGED <<moving, Switch, Joy_active, warning>>
    BY DEF HoldInv, LateInv, Push, params
  <1>2. pc' \in {"pushed", "ended"} /\ (pc' = "ended" => out' = out /\ pc # "pushed")
    BY <1>1 DEF Push, Publish
  <1>3. late' = [joy |-> Count(0, Joy_active), pause |-> Count(0, ~Switch),
                 obstacle |-> Count(0, Obstacle)]
    BY <1>1 DEF Push
  <1>4. /\ Count(0, Joy_active) \in {0, 1} /\ (Count(0, Joy_active) = 1 => Joy_active)
        /\ Count(0, ~Switch) \in {0, 1} /\ (Count(0, ~Switch) = 1 => ~Switch)
        /\ Count(0, Obstacle) \in {0, 1} /\ (Count(0, Obstacle) = 1 => Obstacle)
    BY DEF Count
  <1>5. LateInv'
    BY <1>1, <1>2, <1>3, <1>4 DEF LateInv, Obstacle
  <1>6. QED BY <1>1, <1>2, <1>5 DEF HoldInv, NotMovingIsStopped, Pcs

LEMMA HoldInductive == HoldInv /\ [Next]_vars => HoldInv'
  <1> SUFFICES ASSUME HoldInv, [Next]_vars PROVE HoldInv'
    OBVIOUS
  <1>1. CASE (\E c \in Configs : Configure(c)) \/ ShutDown \/ Cancel
    BY <1>1, CallbackHold
  <1>0. CASE (\E near \in 0..MaxRays : RegisterScan(near)) \/ CountRay
    BY <1>0, ScanHold
  <1>2. CASE ConfigureStep
    BY <1>2, ConfigureStepHold
  <1>3. CASE \E on \in BOOLEAN : JoyStateCallback(on)
    BY <1>3, JoyHold
  <1>4. CASE \/ Top \/ Dispatch \/ Leg \/ Complete \/ Check \/ Halt \/ Again
             \/ Repeat \/ Confirm \/ Await \/ TurnDone \/ TurnOn \/ Look \/ Hold
             \/ End
    BY <1>4, QuietHold
  <1>5. CASE Push
    BY <1>5, PushHold
  <1>6. CASE Held
    BY <1>6 DEF Held, params, HoldInv, NotMovingIsStopped, LateInv, Obstacle, Pcs
  <1>7. CASE Pushed
    BY <1>7 DEF Pushed, params, HoldInv, NotMovingIsStopped, LateInv, Obstacle, Pcs
  <1>8. CASE UNCHANGED vars
    BY <1>8 DEF vars, HoldInv, NotMovingIsStopped, LateInv, Obstacle, Pcs
  <1>9. QED
    BY <1>0, <1>1, <1>2, <1>3, <1>4, <1>5, <1>6, <1>7, <1>8 DEF Next, Patrol

(* The loops of advancing and Spin need not repeat the stop while "moving"  *)
(* is false (patrol_4ROS.py 223-246 and 271-278), whatever the callbacks do.*)
THEOREM MovingCorrect == Spec => []NotMovingIsStopped
  <1>1. HoldInv => NotMovingIsStopped
    BY DEF HoldInv
  <1>2. QED BY <1>1, InitHold, HoldInductive, PTL DEF Spec

(* After the joystick has taken over, after the pause, or once a scan has   *)
(* shown an obstacle, one move at most is still published: the one the      *)
(* thread had already decided on.                                           *)
THEOREM LateCorrect == Spec => []OneLateMove
  <1>1. HoldInv => OneLateMove
    BY DEF HoldInv, LateInv, OneLateMove
  <1>2. QED BY <1>1, InitHold, HoldInductive, PTL DEF Spec

-----------------------------------------------------------------------------
(* When only the thread's own end runs the hook, the thread publishes       *)
(* nothing behind the hook's back.                                          *)
DeadInv ==
  ~MayShutDown =>
    /\ down # "no" => pc = "ended"
    /\ down \in {"unregister", "done"} => out = "stop"

LEMMA DeadInductive == DeadInv /\ [Next]_vars => DeadInv'
  <1> SUFFICES ASSUME DeadInv, ~MayShutDown, [Next]_vars
               PROVE  /\ down' # "no" => pc' = "ended"
                      /\ down' \in {"unregister", "done"} => out' = "stop"
    BY DEF DeadInv
  <1>1. CASE \/ \E c \in Configs : Configure(c)
             \/ ConfigureStep
             \/ \E on \in BOOLEAN : JoyStateCallback(on)
             \/ \E near \in 0..MaxRays : RegisterScan(near)
             \/ CountRay
    <2>1. UNCHANGED <<pc, down>> /\ out' \in {out, "stop"}
      BY <1>1 DEF Configure, ConfigureStep, JoyStateCallback, RegisterScan, CountRay,
                  thread
    <2>2. QED BY <2>1 DEF DeadInv
  <1>2. CASE ShutDown
    BY <1>2 DEF ShutDown, thread, DeadInv
  <1>3. CASE Cancel
    BY <1>3 DEF Cancel, thread, DeadInv
  <1>4. CASE Patrol \/ End
    <2>1. pc # "ended" /\ down' = down
      BY <1>4 DEF Patrol, Top, Dispatch, Leg, Complete, Check, Halt, Again, Repeat,
                  Confirm, Await, TurnDone, TurnOn, Look, Hold, Held, Push, Pushed,
                  End, Goto
    <2>2. QED BY <2>1 DEF DeadInv
  <1>5. CASE UNCHANGED vars
    BY <1>5 DEF vars, DeadInv
  <1>6. QED BY <1>1, <1>2, <1>3, <1>4, <1>5 DEF Next

(* A patrol thread that died of a missing transform leaves a robot that the *)
(* hook has stopped (patrol_4ROS.py 299-307), whatever the callbacks do.    *)
THEOREM DeadCorrect == Spec => []DeadIsStopped
  <1>1. Init => DeadInv
    BY DEF Init, DeadInv
  <1>2. DeadInv => DeadIsStopped
    BY DEF DeadInv, DeadIsStopped
  <1>3. QED BY <1>1, <1>2, DeadInductive, PTL DEF Spec

-----------------------------------------------------------------------------
(* Types.  The legs that remain are not used up inside a leg's loop, and    *)
(* the count of near rays is that of the scan.                              *)
LEMMA LegsType == \A c \in Patterns : Legs(c) \in Seq({"advance", "spin"}) /\ Legs(c) # << >>
  <1> SUFFICES ASSUME NEW c \in Patterns
               PROVE  Legs(c) \in Seq({"advance", "spin"}) /\ Legs(c) # << >>
    OBVIOUS
  <1>1. CASE c = "LengthTest"
    BY <1>1 DEF Legs
  <1>2. CASE c = "AngleTest"
    BY <1>2 DEF Legs
  <1>0. CASE c = "Circle"
    BY <1>0 DEF Legs
  <1>3. CASE c = "Triangle"
    BY <1>3 DEF Legs
  <1>4. CASE c = "Square"
    BY <1>4 DEF Legs
  <1>5. CASE c = "Parallelogram"
    BY <1>5 DEF Legs
  <1>6. QED BY <1>0, <1>1, <1>2, <1>3, <1>4, <1>5 DEF Patterns

LEMMA TypeInit == Init => TypeOK
  <1> SUFFICES ASSUME Init PROVE TypeOK
    OBVIOUS
  <1>1. << >> \in Seq({"advance", "spin"})
    OBVIOUS
  <1>2. config \in Configs /\ Command \in Commands /\ command_src \in Commands
    BY DEF Init, Configs
  <1>3. cb \in [at : 0..4, new : Configs, by : {"user", "self"}]
    BY <1>2 DEF Init
  <1>4. /\ scan \in [left : Nat, found : Nat]
        /\ warning = 1 + (scan.found - scan.left) /\ scan.left <= scan.found
        /\ late \in [joy : 0..2, pause : 0..2, obstacle : 0..2]
    BY DEF Init
  <1>5. /\ SetLoop \in BOOLEAN /\ Switch \in BOOLEAN /\ Joy_active \in BOOLEAN
        /\ moving \in BOOLEAN /\ out \in {"stop", "move"} /\ open \in BOOLEAN
    BY DEF Init
  <1>6. /\ pc = "top" /\ legs \in Seq({"advance", "spin"})
        /\ calls \in 0..3 /\ down = "no"
    BY <1>1 DEF Init
  <1>7. QED BY <1>2, <1>3, <1>4, <1>5, <1>6 DEF TypeOK

(* What the callbacks change.                                               *)
LEMMA ConfigureType ==
  ASSUME TypeOK, NEW c \in Configs, Configure(c)
  PROVE  TypeOK'
  <1>1. cb' \in [at : 0..4, new : Configs, by : {"user", "self"}]
    BY DEF Configure
  <1>2. QED BY <1>1 DEF Configure, TypeOK, params, thread

LEMMA ConfigureStepType ==
  ASSUME TypeOK, ConfigureStep
  PROVE  TypeOK'
  <1>1. cb.new \in Configs /\ cb.at \in 1..4 /\ cb.by \in {"user", "self"}
    BY DEF TypeOK, ConfigureStep
  <1>2. cb.new.Command \in Commands /\ cb.new.SetLoop \in BOOLEAN /\ cb.new.Switch \in BOOLEAN
    BY <1>1 DEF Configs
  <1>3. config' \in Configs /\ cb' \in [at : 0..4, new : Configs, by : {"user", "self"}]
    <2>1. CASE cb.at = 4
      BY <1>1, <2>1 DEF TypeOK, ConfigureStep
    <2>2. CASE cb.at # 4
      <3>1. cb.at + 1 \in 0..4
        BY <1>1, <2>2
      <3>2. QED BY <3>1, <2>2 DEF TypeOK, ConfigureStep
    <2>3. QED BY <2>1, <2>2
  <1>4. late' \in [joy : 0..2, pause : 0..2, obstacle : 0..2]
    BY DEF TypeOK, ConfigureStep
  <1>5. /\ Command' \in Commands \cup {"finish"} /\ command_src' \in Commands
        /\ SetLoop' \in BOOLEAN /\ Switch' \in BOOLEAN
    BY <1>2 DEF TypeOK, ConfigureStep
  <1>6. QED BY <1>3, <1>4, <1>5 DEF ConfigureStep, TypeOK, thread

LEMMA JoyType ==
  ASSUME TypeOK, NEW on \in BOOLEAN, JoyStateCallback(on)
  PROVE  TypeOK'
  <1>1. late' \in [joy : 0..2, pause : 0..2, obstacle : 0..2]
    BY DEF TypeOK, JoyStateCallback
  <1>2. out' \in {"stop", "move"} /\ Joy_active' \in BOOLEAN
    BY DEF TypeOK, JoyStateCallback
  <1>3. QED BY <1>1, <1>2 DEF JoyStateCallback, TypeOK, server, params, thread

LEMMA ScanType ==
  ASSUME TypeOK, (\E near \in 0..MaxRays : RegisterScan(near)) \/ CountRay
  PROVE  TypeOK'
  <1>1. CASE \E near \in 0..MaxRays : RegisterScan(near)
    <2>1. PICK near \in 0..MaxRays : RegisterScan(near)
      BY <1>1
    <2>2. near \in Nat
      BY RaysAssumption
    <2>3. scan' = [left |-> near, found |-> near] /\ warning' = 1
      BY <2>1 DEF RegisterScan
    <2>4. /\ scan' \in [left : Nat, found : Nat]
          /\ warning' = 1 + (scan'.found - scan'.left) /\ scan'.left <= scan'.found
      BY <2>2, <2>3
    <2>5. late' \in [joy : 0..2, pause : 0..2, obstacle : 0..2]
      BY <2>1 DEF TypeOK, RegisterScan
    <2>6. QED BY <2>1, <2>4, <2>5 DEF RegisterScan, TypeOK, server, params, thread
  <1>2. CASE CountRay
    <2>1. scan.left \in Nat /\ scan.found \in Nat /\ scan.left > 0
      BY <1>2 DEF CountRay, TypeOK
    <2>2. scan' = [left |-> scan.left - 1, found |-> scan.found] /\ warning' = warning + 1
      BY <1>2 DEF CountRay, TypeOK
    <2>3. /\ scan' \in [left : Nat, found : Nat]
          /\ warning' = 1 + (scan'.found - scan'.left) /\ scan'.left <= scan'.found
      BY <2>1, <2>2 DEF TypeOK
    <2>4. QED BY <1>2, <2>3 DEF CountRay, TypeOK, server, params, thread
  <1>3. QED BY <1>1, <1>2

LEMMA HookType ==
  ASSUME TypeOK, ShutDown \/ Cancel
  PROVE  TypeOK'
  <1>1. /\ UNCHANGED <<server, params, Joy_active, warning, scan, moving, thread, late>>
        /\ down' \in {"no", "cancel", "unregister", "done"}
        /\ out' \in {out, "stop"} /\ open' \in {open, FALSE}
    BY DEF ShutDown, Cancel
  <1>2. out' \in {"stop", "move"} /\ open' \in BOOLEAN
    BY <1>1 DEF TypeOK
  <1>3. QED BY <1>1, <1>2 DEF TypeOK, server, params, thread

(* Steps of the thread that leave the shared attributes alone.              *)
InLoop == {"turn", "look", "hold", "held", "push", "pushed"}

LEMMA PlaceType ==
  ASSUME TypeOK,
         Top \/ Leg \/ Check \/ Halt \/ Await \/ TurnOn \/ Look \/ Hold \/ Held \/ Pushed \/ End
  PROVE  TypeOK'
  <1>1. /\ UNCHANGED <<server, params, Joy_active, warning, scan, open, legs, calls, down, late>>
        /\ pc' \in Pcs /\ (pc' \in InLoop => legs # << >>)
    BY DEF Top, Leg, Check, Halt, Await, TurnOn, Look, Hold, Held, Pushed, End, Goto,
           Publish, Pcs, InLoop, TypeOK
  <1>2. moving' \in BOOLEAN /\ out' \in {"stop", "move"}
    BY DEF Top, Leg, Check, Halt, Await, TurnOn, Look, Hold, Held, Pushed, End, Goto,
           Publish, TypeOK
  <1>3. QED BY <1>1, <1>2 DEF TypeOK, server, params, Pcs, InLoop

LEMMA DispatchType ==
  ASSUME TypeOK, Dispatch
  PROVE  TypeOK'
  <1>1. legs' \in Seq({"advance", "spin"}) /\ pc' \in {"check", "leg"}
    BY LegsType, CommandsAssumption DEF Dispatch, TypeOK
  <1>2. QED BY <1>1 DEF Dispatch, TypeOK, server, params

LEMMA CommandType ==
  ASSUME TypeOK, Complete \/ Repeat \/ Again
  PROVE  TypeOK'
  BY DEF Complete, Repeat, Again, TypeOK, server, params

LEMMA ConfirmType ==
  ASSUME TypeOK, Confirm
  PROVE  TypeOK'
  <1>1. [config EXCEPT !.Switch = FALSE] \in Configs
    BY DEF TypeOK, Configs
  <1>2. cb' \in [at : 0..4, new : Configs, by : {"user", "self"}]
    BY <1>1 DEF Confirm
  <1>3. calls' \in 0..3 /\ pc' = "await"
    BY DEF Confirm, TypeOK
  <1>4. QED BY <1>2, <1>3 DEF Confirm, TypeOK, params

LEMMA TurnDoneType ==
  ASSUME TypeOK, TurnDone
  PROVE  TypeOK'
  <1>1. legs # << >> /\ legs \in Seq({"advance", "spin"})
    BY DEF TypeOK, TurnDone
  <1>2. legs' \in Seq({"advance", "spin"})
    BY <1>1 DEF TurnDone
  <1>3. pc' \in {"leg", "ended"} /\ out' \in {"stop", "move"}
    BY DEF TurnDone, Publish, TypeOK
  <1>4. QED BY <1>2, <1>3 DEF TurnDone, TypeOK, server, params

LEMMA PushType ==
  ASSUME TypeOK, Push
  PROVE  TypeOK'
  <1>1. \A k \in 0..2 : \A on \in BOOLEAN : Count(k, on) \in 0..2
    BY DEF Count, TypeOK
  <1>2. /\ Joy_active \in BOOLEAN /\ (~Switch) \in BOOLEAN /\ Obstacle \in BOOLEAN
        /\ late.joy \in 0..2 /\ late.pause \in 0..2 /\ late.obstacle \in 0..2
    BY DEF TypeOK, Obstacle
  <1>3. late' \in [joy : 0..2, pause : 0..2, obstacle : 0..2]
    BY <1>1, <1>2 DEF Push
  <1>4. pc' \in {"pushed", "ended"} /\ out' \in {"stop", "move"} /\ legs # << >>
    BY DEF Push, Publish, TypeOK
  <1>5. QED BY <1>3, <1>4 DEF Push, TypeOK, server, params

LEMMA TypeInductive == TypeOK /\ [Next]_vars => TypeOK'
  <1> SUFFICES ASSUME TypeOK, [Next]_vars PROVE TypeOK'
    OBVIOUS
  <1>1. CASE \E c \in Configs : Configure(c)
    BY <1>1, ConfigureType
  <1>2. CASE ConfigureStep
    BY <1>2, ConfigureStepType
  <1>3. CASE \E on \in BOOLEAN : JoyStateCallback(on)
    BY <1>3, JoyType
  <1>4. CASE (\E near \in 0..MaxRays : RegisterScan(near)) \/ CountRay
    BY <1>4, ScanType
  <1>5. CASE ShutDown \/ Cancel
    BY <1>5, HookType
  <1>6. CASE Top \/ Leg \/ Check \/ Halt \/ Await \/ TurnOn \/ Look \/ Hold \/ Held \/ Pushed \/ End
    BY <1>6, PlaceType
  <1>7. CASE Dispatch
    BY <1>7, DispatchType
  <1>8. CASE Complete \/ Repeat \/ Again
    BY <1>8, CommandType
  <1>9. CASE Confirm
    BY <1>9, ConfirmType
  <1>10. CASE TurnDone
    BY <1>10, TurnDoneType
  <1>11. CASE Push
    BY <1>11, PushType
  <1>12. CASE UNCHANGED vars
    BY <1>12 DEF vars, TypeOK
  <1>13. QED
    BY <1>1, <1>2, <1>3, <1>4, <1>5, <1>6, <1>7, <1>8, <1>9, <1>10, <1>11, <1>12
    DEF Next, Patrol

(* Every attribute keeps its type, and no loop of a leg is entered without  *)
(* a leg to drive (patrol_4ROS.py 142-170, 197-281).                        *)
THEOREM TypeCorrect == Spec => []TypeOK
  BY TypeInit, TypeInductive, PTL DEF Spec
=============================================================================
