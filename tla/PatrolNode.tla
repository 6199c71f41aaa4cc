------------------------------ MODULE PatrolNode ------------------------------
(***************************************************************************)
(* The patrol node (class PAVS_CarPatrol): a thread that drives patterns   *)
(* made of legs ("advancing" and "Spin"), and the callbacks that change    *)
(* its attributes meanwhile: the parameter server, the joystick, the laser *)
(* scanner and the shutdown hook.  No attribute is protected by a lock.    *)
(*                                                                         *)
(* Poses and speeds are left out: a leg reaches its target at any turn of  *)
(* its loop.  "out" is the last velocity published on /cmd_vel.            *)
(***************************************************************************)
EXTENDS Naturals, Sequences

CONSTANTS
  Commands,   \* the patterns the operator asks for
  Threshold,  \* how many near rays make an obstacle (10 in the code)
  MaxRays,    \* bound: near rays in a scan
  MayShutDown \* is the node shut down from outside (rosnode kill)?

Patterns == {"LengthTest", "AngleTest", "Triangle", "Square", "Parallelogram",
             "Circle"}

ASSUME CommandsAssumption == Commands \subseteq Patterns /\ Commands # {}
ASSUME RaysAssumption == Threshold \in Nat \ {0} /\ MaxRays \in Nat
ASSUME ShutDownAssumption == MayShutDown \in BOOLEAN

VARIABLES
  config,                             \* the parameter server's configuration
  cb,                                 \* its callback: what it assigns, how far
  Command, command_src, SetLoop, Switch,
  Joy_active,
  warning, scan,                      \* near rays counted; the scan they are of
  moving, out, open,                  \* open: the publisher is registered
  pc, legs, calls,                    \* the patrol thread
  down,                               \* the shutdown hook
  late                                \* history: moves published on hold

params == <<Command, command_src, SetLoop, Switch>>
server == <<config, cb>>
thread == <<pc, legs, calls>>
vars == <<config, cb, Command, command_src, SetLoop, Switch, Joy_active, warning,
          scan, moving, out, open, pc, legs, calls, down, late>>

Configs == [Command : Commands, SetLoop : BOOLEAN, Switch : BOOLEAN]

(* The legs of a pattern, in the order the code drives them.               *)
Legs(c) ==
  CASE c = "LengthTest"    -> <<"advance">>
    [] c = "AngleTest"     -> <<"spin">>
    [] c = "Circle"        -> <<"spin">>
    [] c = "Square"        -> <<"advance", "spin", "advance", "spin", "advance">>
    [] c = "Triangle"      -> <<"advance", "spin", "advance", "spin", "advance", "spin">>
    [] c = "Parallelogram" -> <<"advance", "spin", "advance", "spin",
                                "advance", "spin", "advance", "spin">>

Obstacle == warning > Threshold
IsShutDown == down = "done"

-----------------------------------------------------------------------------
(* Definitions named Bad... are deliberate defects: none is part of the    *)
(* specification, each shows that some property would notice it.           *)
Init ==
  /\ \E c \in Commands :
       /\ config = [Command |-> c, SetLoop |-> FALSE, Switch |-> FALSE]
       /\ Command = c /\ command_src = c
  /\ cb = [at |-> 0, new |-> config, by |-> "user"]
  /\ SetLoop = FALSE /\ Switch = FALSE
  /\ Joy_active = FALSE
  /\ warning = 1 /\ scan = [left |-> 0, found |-> 0]
  /\ moving = TRUE /\ out = "stop" /\ open = TRUE
  /\ pc = "top" /\ legs = << >> /\ calls = 0
  /\ down = "no"
  /\ late = [joy |-> 0, pause |-> 0, obstacle |-> 0]

-----------------------------------------------------------------------------
(* The parameter server calls dynamic_reconfigure_callback under its own   *)
(* mutex, for the operator or for the node's own dyn_client.               *)
Configure(c) ==
  /\ cb.at = 0
  /\ cb' = [at |-> 1, new |-> c, by |-> "user"]
  /\ UNCHANGED <<config, params, Joy_active, warning, scan, moving, out, open,
                 thread, down, late>>

(* The callback's assignments to the attributes the patrol thread uses.    *)
ConfigureStep ==
  /\ cb.at > 0
  /\ Command' = IF cb.at = 1 THEN cb.new.Command ELSE Command
  /\ command_src' = IF cb.at = 2 THEN cb.new.Command ELSE command_src
  /\ SetLoop' = IF cb.at = 3 THEN cb.new.SetLoop ELSE SetLoop
  /\ Switch' = IF cb.at = 4 THEN cb.new.Switch ELSE Switch
  /\ IF cb.at = 4
       THEN config' = cb.new /\ cb' = [cb EXCEPT !.at = 0]
       ELSE config' = config /\ cb' = [cb EXCEPT !.at = @ + 1]
  /\ late' = IF cb.at = 4 /\ cb.new.Switch THEN [late EXCEPT !.pause = 0] ELSE late
  /\ UNCHANGED <<Joy_active, warning, scan, moving, out, open, thread, down>>

(* JoyStateCallback: the operator takes over, or hands back and the robot  *)
(* is stopped.                                                             *)
JoyStateCallback(on) ==
  /\ Joy_active' = on
  /\ out' = IF on \/ ~open THEN out ELSE "stop"
  /\ late' = IF on THEN late ELSE [late EXCEPT !.joy = 0]
  /\ UNCHANGED <<server, params, warning, scan, moving, open, thread, down>>

(* registerScan: the count is reset, then raised ray by ray.               *)
RegisterScan(near) ==
  /\ scan.left = 0 /\ open
  /\ warning' = 1
  /\ scan' = [left |-> near, found |-> near]
  /\ late' = [late EXCEPT !.obstacle = 0]
  /\ UNCHANGED <<server, params, Joy_active, moving, out, open, thread, down>>

CountRay ==
  /\ scan.left > 0
  /\ warning' = warning + 1
  /\ scan' = [scan EXCEPT !.left = @ - 1]
  /\ UNCHANGED <<server, params, Joy_active, moving, out, open, thread, down, late>>

(* The shutdown hook "cancel" runs before rospy sets its shutdown flag.    *)
ShutDown ==
  /\ MayShutDown \/ pc = "ended"
  /\ down = "no"
  /\ down' = "cancel"
  /\ UNCHANGED <<server, params, Joy_active, warning, scan, moving, out, open,
                 thread, late>>

BadCancel ==
  \/ /\ down = "cancel"
     /\ open' = FALSE /\ down' = "unregister"
     /\ UNCHANGED <<server, params, Joy_active, warning, scan, moving, out,
                    thread, late>>
  \/ /\ down = "unregister"
     /\ out' = (IF open THEN "stop" ELSE out) /\ down' = "done"
     /\ UNCHANGED <<server, params, Joy_active, warning, scan, moving, open,
                    thread, late>>

Cancel ==
  \/ /\ down = "cancel"
     /\ out' = "stop" /\ down' = "unregister"
     /\ UNCHANGED <<server, params, Joy_active, warning, scan, moving, open,
                    thread, late>>
  \/ /\ down = "unregister"
     /\ open' = FALSE /\ down' = "done"
     /\ UNCHANGED <<server, params, Joy_active, warning, scan, moving, out,
                    thread, late>>

-----------------------------------------------------------------------------
(* The patrol thread.  Publishing through an unregistered publisher raises *)
(* an exception nobody catches: the thread ends.                           *)
Publish(v, next) ==
  IF open THEN out' = v /\ pc' = next ELSE out' = out /\ pc' = "ended"

Goto(next) ==
  /\ pc' = next
  /\ UNCHANGED <<server, params, Joy_active, warning, scan, moving, out, open,
                 legs, calls, down, late>>

(* process: the outer loop.                                                *)
Top ==
  /\ pc = "top" /\ ~IsShutDown /\ Switch
  /\ Goto("dispatch")

Dispatch ==
  /\ pc = "dispatch"
  /\ IF Command = "finish" THEN pc' = "check" /\ legs' = legs
                           ELSE pc' = "leg" /\ legs' = Legs(Command)
  /\ UNCHANGED <<server, params, Joy_active, warning, scan, moving, out, open,
                 calls, down, late>>

Leg ==
  /\ pc = "leg" /\ legs # << >>
  /\ Goto("turn")

(* The pattern is driven; the command is finished ...                      *)
Complete ==
  /\ pc = "leg" /\ legs = << >>
  /\ Command' = "finish" /\ pc' = "check"
  /\ UNCHANGED <<server, command_src, SetLoop, Switch, Joy_active, warning, scan,
                 moving, out, open, legs, calls, down, late>>

(* ... unless the callback has set another one in the meantime.            *)
Check ==
  /\ pc = "check"
  /\ Goto(IF Command = "finish" THEN "halt" ELSE "top")

Halt ==
  /\ pc = "halt"
  /\ Publish("stop", "again")
  /\ UNCHANGED <<server, params, Joy_active, warning, scan, moving, open, legs,
                 calls, down, late>>

Again ==
  /\ pc = "again"
  /\ IF SetLoop THEN pc' = "repeat" /\ calls' = calls
                ELSE pc' = "confirm" /\ calls' = 3
  /\ UNCHANGED <<server, params, Joy_active, warning, scan, moving, out, open,
                 legs, down, late>>

Repeat ==
  /\ pc = "repeat"
  /\ Command' = command_src /\ pc' = "top"
  /\ UNCHANGED <<server, command_src, SetLoop, Switch, Joy_active, warning, scan,
                 moving, out, open, legs, calls, down, late>>

(* update_configuration({'Switch': False}), three times.                   *)
Confirm ==
  /\ pc = "confirm" /\ calls > 0
  /\ cb.at = 0
  /\ cb' = [at |-> 1, new |-> [config EXCEPT !.Switch = FALSE], by |-> "self"]
  /\ pc' = "await" /\ calls' = calls - 1
  /\ UNCHANGED <<config, params, Joy_active, warning, scan, moving, out, open,
                 legs, down, late>>

Await ==
  /\ pc = "await"
  /\ cb.at = 0 \/ cb.by = "user"
  /\ Goto(IF calls > 0 THEN "confirm" ELSE "top")

(* advancing and Spin: one turn of their loops.  "Spin" stops the robot    *)
(* when it is done, "advancing" leaves it rolling.                         *)
BadTurnDone ==
  /\ pc = "turn" /\ ~IsShutDown
  /\ legs' = Tail(legs)
  /\ pc' = "leg" /\ out' = out
  /\ UNCHANGED <<server, params, Joy_active, warning, scan, moving, open, calls,
                 down, late>>

TurnDone ==
  /\ pc = "turn" /\ ~IsShutDown
  /\ legs' = Tail(legs)
  /\ IF Head(legs) = "spin" THEN Publish("stop", "leg")
                            ELSE pc' = "leg" /\ out' = out
  /\ UNCHANGED <<server, params, Joy_active, warning, scan, moving, open, calls,
                 down, late>>

TurnOn ==
  /\ pc = "turn" /\ ~IsShutDown
  /\ Switch
  /\ Goto("look")

BadLook ==
  /\ pc = "look"
  /\ Goto(IF Obstacle THEN IF moving THEN "hold" ELSE "turn" ELSE "push")

Look ==
  /\ pc = "look"
  /\ Goto(IF Joy_active \/ Obstacle THEN IF moving THEN "hold" ELSE "turn"
                                    ELSE "push")

Hold ==
  /\ pc = "hold"
  /\ Publish("stop", "held")
  /\ UNCHANGED <<server, params, Joy_active, warning, scan, moving, open, legs,
                 calls, down, late>>

Held ==
  /\ pc = "held"
  /\ moving' = FALSE /\ pc' = "turn"
  /\ UNCHANGED <<server, params, Joy_active, warning, scan, out, open, legs,
                 calls, down, late>>

Count(n, on) == IF on /\ open /\ n < 2 THEN n + 1 ELSE n

Push ==
  /\ pc = "push"
  /\ Publish("move", "pushed")
  /\ late' = [joy |-> Count(late.joy, Joy_active),
              pause |-> Count(late.pause, ~Switch),
              obstacle |-> Count(late.obstacle, Obstacle)]
  /\ UNCHANGED <<server, params, Joy_active, warning, scan, moving, open, legs,
                 calls, down>>

BadPushed ==
  /\ pc = "pushed"
  /\ Goto("turn")

Pushed ==
  /\ pc = "pushed"
  /\ moving' = TRUE /\ pc' = "turn"
  /\ UNCHANGED <<server, params, Joy_active, warning, scan, out, open, legs,
                 calls, down, late>>

(* The flag is set (the next publication would raise an exception), or the *)
(* pose is not known: "position.x" of None raises one at once.             *)
End ==
  /\ \/ IsShutDown /\ pc \in {"top", "turn"}
     \/ pc \in {"leg", "turn"} /\ legs # << >>
  /\ Goto("ended")

Patrol ==
  \/ Top \/ Dispatch \/ Leg \/ Complete \/ Check \/ Halt \/ Again \/ Repeat
  \/ Confirm \/ Await \/ TurnDone \/ TurnOn \/ Look \/ Hold \/ Held \/ Push
  \/ Pushed

Next ==
  \/ \E c \in Configs : Configure(c)
  \/ ConfigureStep
  \/ \E on \in BOOLEAN : JoyStateCallback(on)
  \/ \E near \in 0..MaxRays : RegisterScan(near)
  \/ CountRay
  \/ ShutDown \/ Cancel
  \/ Patrol \/ End

Spec == Init /\ [][Next]_vars

(* The patrol thread runs, callbacks that were entered complete, and when  *)
(* the thread has ended the interpreter's exit runs the shutdown hook.     *)
FairSpec ==
  /\ Spec
  /\ WF_vars(Patrol) /\ WF_vars(ConfigureStep) /\ WF_vars(CountRay)
  /\ WF_vars(Cancel) /\ WF_vars(pc = "ended" /\ ShutDown)

-----------------------------------------------------------------------------
TypeOK ==
  /\ config \in Configs
  /\ cb \in [at : 0..4, new : Configs, by : {"user", "self"}]
  /\ Command \in Commands \cup {"finish"} /\ command_src \in Commands
  /\ SetLoop \in BOOLEAN /\ Switch \in BOOLEAN /\ Joy_active \in BOOLEAN
  /\ scan \in [left : Nat, found : Nat]
  /\ warning = 1 + (scan.found - scan.left) /\ scan.left <= scan.found
  /\ moving \in BOOLEAN /\ out \in {"stop", "move"} /\ open \in BOOLEAN
  /\ pc \in {"top", "dispatch", "leg", "check", "halt", "again", "repeat",
             "confirm", "await", "turn", "look", "hold", "held", "push",
             "pushed", "ended"}
  /\ legs \in Seq({"advance", "spin"})
  /\ pc \in {"turn", "look", "hold", "held", "push", "pushed"} => legs # << >>
  /\ calls \in 0..3 /\ down \in {"no", "cancel", "unregister", "done"}
  /\ late \in [joy : 0..2, pause : 0..2, obstacle : 0..2]

(* "moving" is what the loops of advancing and Spin go by when they do not *)
(* publish a stop again: while it is false, the robot has been told to     *)
(* stop and nothing else since.                                            *)
NotMovingIsStopped == ~moving /\ pc # "pushed" => out = "stop"

(* When the operator takes over with the joystick, the patrol publishes at *)
(* most the one velocity it was about to; likewise when it is paused, and  *)
(* from the moment a scan shows an obstacle until the next scan begins.    *)
OneLateMove == late.joy <= 1 /\ late.pause <= 1 /\ late.obstacle <= 1

(* As long as the operator holds the joystick or an obstacle stays, the    *)
(* pattern does not go on: eventually the robot stands, or the node has    *)
(* been paused or is shut down.                                            *)
JoyYields ==
  Joy_active /\ Switch /\ down = "no" ~>
    out = "stop" \/ ~Joy_active \/ ~Switch \/ down # "no"

(* The parameter Switch pauses the patrol: when it is off the robot is     *)
(* told to stop.                                                           *)
PauseStops == ~Switch /\ down = "no" ~> Switch \/ out = "stop" \/ down # "no"

(* "Always stop the robot when shutting down the node": a patrol thread    *)
(* that dies in the middle of a leg, because the transform is missing,     *)
(* leaves a robot that the exit hook has stopped.  When the node is shut   *)
(* down from outside, the thread may overtake the hook's stop.             *)
DeadIsStopped == ~MayShutDown /\ down = "done" => out = "stop"
=============================================================================
