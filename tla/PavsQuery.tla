------------------------------ MODULE PavsQuery ------------------------------
(***************************************************************************)
(* The request/reply "mailbox" of the PAVS serial driver.                  *)
(*                                                                         *)
(* A getter of class PAVS runs in the client's thread: it resets some      *)
(* attributes of the object, writes a request to the serial port, polls an *)
(* attribute until the receive thread has changed it, and reads the others.*)
(* The receive thread parses a reply by assigning the attributes one by    *)
(* one.  No lock is held by either side, so the two threads interleave     *)
(* between any two assignments.                                            *)
(*                                                                         *)
(* Data is abstracted to its provenance: a data attribute holds the number *)
(* of the request whose reply wrote it, 0 when it holds its initial value  *)
(* or was reset.  Two attributes read together belong to one reply exactly *)
(* when their numbers are equal.  Identifiers and flags keep their values. *)
(***************************************************************************)
EXTENDS Naturals, Sequences

CONSTANTS
  Kinds,       \* the getters the client uses
  Servos,      \* the servo identifiers it asks for
  MaxAsk,      \* bound: number of commands written to the serial port
  PollBudget   \* bound: polls of a getter (20, 30, 100 or 200 in the code)

AllKinds == {"servo", "arm", "pid", "offset", "car_type", "version", "akm"}

ASSUME KindsAssumption == Kinds \subseteq AllKinds
ASSUME ServosAssumption == Servos \subseteq 1..250
ASSUME BoundsAssumption == MaxAsk \in Nat /\ PollBudget \in Nat \ {0}

VARIABLES
  asked,    \* the commands written so far; a command's number is its index
  link,     \* numbers of the replies on their way to the receive thread
  rx,       \* the reply being parsed (0: none) and the next assignment
  mem,      \* the attributes both threads use
  version,  \* __version, as the pair (version_H, version_L) it is built from
  pc, kind, id, at, polls, got,    \* the client's thread
  taken,    \* history: the last reply a get_car_type_from_machine returned
  late      \* history: some getter has given up before its reply came

vars == <<asked, link, rx, mem, version, pc, kind, id, at, polls, got, taken, late>>
clientVars == <<pc, kind, id, at, polls, got, taken, late>>

(* The servo arm has six joints; two of them stand for all.                *)
ArmFields == {"arm1", "arm2"}

Fields == ArmFields \cup
  {"read_id", "read_val", "arm_ok", "pid_index", "kp", "ki", "kd",
   "offset_id", "offset_state", "akm_readed", "akm_angle", "car_type",
   "version_H", "version_L"}

(* The identifier __arm_offset_id is preset to, which no servo has.        *)
NoServo == 255

-----------------------------------------------------------------------------
(* Definitions named Bad... are deliberate defects: none is part of the    *)
(* specification, each shows that some property would notice it.           *)
BadParseOrder(k) ==
  CASE k = "servo"    -> <<"read_id", "read_val">>
    [] k = "arm"      -> <<"arm_ok", "arm1", "arm2">>
    [] k = "version"  -> <<"version_H", "version_L">>
    [] k = "pid"      -> <<"pid_index", "kp", "ki", "kd">>
    [] k = "offset"   -> <<"offset_id", "offset_state">>
    [] k = "akm"      -> <<"akm_readed", "akm_angle">>
    [] k = "car_type" -> <<"car_type">>

(* The receive thread's assignments, in the order of __parse_data.         *)
ParseOrder(k) ==
  CASE k = "servo"    -> <<"read_id", "read_val">>
    [] k = "arm"      -> <<"arm1", "arm2", "arm_ok">>
    [] k = "version"  -> <<"version_H", "version_L">>
    [] k = "pid"      -> <<"pid_index", "kp", "ki", "kd">>
    [] k = "offset"   -> <<"offset_id", "offset_state">>
    [] k = "akm"      -> <<"akm_angle", "akm_readed">>
    [] k = "car_type" -> <<"car_type">>

(* What reply n assigns to attribute f.                                    *)
ParsedValue(f, n) ==
  IF f \in {"read_id", "offset_id"} THEN asked[n].id
  ELSE IF f \in {"arm_ok", "akm_readed", "pid_index"} THEN 1
  ELSE n

(* The client's assignments before a request: each element is the set of   *)
(* attributes one statement resets.                                        *)
ResetOrder(k) ==
  CASE k = "servo"    -> <<{"read_id"}, {"read_val"}>>
    [] k = "arm"      -> <<ArmFields, {"arm_ok"}>>
    [] k = "pid"      -> <<{"kp"}, {"ki"}, {"kd"}, {"pid_index"}>>
    [] k = "offset"   -> <<{"offset_id"}, {"offset_state"}>>
    [] k = "car_type" -> << >>
    [] k = "version"  -> << >>
    [] k = "akm"      -> << >>

ResetValue(f) == IF f = "offset_id" THEN NoServo ELSE 0

(* The condition the getter polls.                                         *)
Ready(k) ==
  CASE k = "servo"    -> mem["read_id"] > 0
    [] k = "arm"      -> mem["arm_ok"] = 1
    [] k = "pid"      -> mem["pid_index"] > 0
    [] k = "offset"   -> mem["offset_id"] = id
    [] k = "car_type" -> mem["car_type"] # 0
    [] k = "version"  -> mem["version_H"] # 0
    [] k = "akm"      -> mem["akm_readed"] = 1

(* The attributes the getter reads once the condition holds, in order.     *)
ReadOrder(k) ==
  CASE k = "servo"    -> <<"read_id", "read_val">>
    [] k = "arm"      -> <<"arm1", "arm2">>
    [] k = "pid"      -> <<"kp", "ki", "kd">>
    [] k = "offset"   -> <<"offset_state">>
    [] k = "car_type" -> <<"car_type">>
    [] k = "version"  -> <<"version_H", "version_L">>
    [] k = "akm"      -> <<"akm_angle">>

-----------------------------------------------------------------------------
Init ==
  /\ asked = << >>
  /\ link = << >>
  /\ rx = [reply |-> 0, at |-> 1]
  /\ mem = [f \in Fields |-> 0]
  /\ version = <<0, 0>>
  /\ pc = "idle" /\ kind = "version" /\ id = 0 /\ at = 1
  /\ polls = 0 /\ got = << >> /\ taken = 0 /\ late = FALSE

(* The client calls a getter.  get_version and get_akm_default_angle ask   *)
(* the machine only as long as nothing has been received.                  *)
Call(k, i) ==
  /\ pc = "idle"
  /\ Len(asked) < MaxAsk
  /\ kind' = k /\ id' = i /\ at' = 1
  /\ IF k = "version" /\ mem["version_H"] # 0
       THEN pc' = "done" /\ got' = version
     ELSE IF k = "akm" /\ mem["akm_readed"] = 1
       THEN pc' = "read" /\ got' = << >>
     ELSE pc' = "reset" /\ got' = << >>
  /\ UNCHANGED <<asked, link, rx, mem, version, polls, taken, late>>

(* One of the assignments that precede the request.                        *)
Reset ==
  /\ pc = "reset"
  /\ at <= Len(ResetOrder(kind))
  /\ mem' = [f \in Fields |->
               IF f \in ResetOrder(kind)[at] THEN ResetValue(f) ELSE mem[f]]
  /\ at' = at + 1
  /\ UNCHANGED <<asked, link, rx, version, pc, kind, id, polls, got, taken, late>>

(* The request is written.  It or its reply may be lost, or the reply will *)
(* reach the receive thread behind those already on the way.               *)
Request ==
  /\ pc = "reset"
  /\ at > Len(ResetOrder(kind))
  /\ asked' = Append(asked, [kind |-> kind, id |-> id])
  /\ \/ link' = Append(link, Len(asked) + 1)
     \/ link' = link
  /\ pc' = "poll" /\ polls' = PollBudget
  /\ UNCHANGED <<rx, mem, version, kind, id, at, got, taken, late>>

(* The number of the last command written.                                 *)
Current == Len(asked)

Outstanding == rx.reply = Current \/ \E i \in DOMAIN link : link[i] = Current

PollReady ==
  /\ pc = "poll"
  /\ polls > 0
  /\ Ready(kind)
  /\ pc' = "read" /\ at' = 1
  /\ UNCHANGED <<asked, link, rx, mem, version, kind, id, polls, got, taken, late>>

BadPollCount ==
  /\ pc = "poll"
  /\ ~Ready(kind)
  /\ polls' = polls - 1
  /\ UNCHANGED <<asked, link, rx, mem, version, pc, kind, id, at, got, taken, late>>

BadPollAgain ==
  /\ pc = "poll"
  /\ ~Ready(kind)
  /\ UNCHANGED vars

(* The polls may run out before a reply that is not lost has come.         *)
PollAgain ==
  /\ pc = "poll"
  /\ polls > 0
  /\ ~Ready(kind)
  /\ polls' = polls - 1
  /\ late' = (late \/ (polls = 1 /\ Outstanding))
  /\ UNCHANGED <<asked, link, rx, mem, version, pc, kind, id, at, got, taken>>

(* The polls are used up.  set_uart_servo_offset returns the state it then *)
(* finds; the other getters return an error (no value).                    *)
GiveUp ==
  /\ pc = "poll"
  /\ polls = 0
  /\ pc' = IF kind = "offset" THEN "read" ELSE "done"
  /\ at' = 1
  /\ UNCHANGED <<asked, link, rx, mem, version, kind, id, polls, got, taken, late>>

(* One attribute of the answer is read.                                    *)
Read ==
  /\ pc = "read"
  /\ at <= Len(ReadOrder(kind))
  /\ got' = Append(got, mem[ReadOrder(kind)[at]])
  /\ at' = at + 1
  /\ UNCHANGED <<asked, link, rx, mem, version, pc, kind, id, polls, taken, late>>

BadFinish ==
  /\ pc = "read"
  /\ at > Len(ReadOrder(kind))
  /\ version' = IF kind = "version" THEN got ELSE version
  /\ taken' = IF kind = "car_type" THEN got[1] ELSE taken
  /\ pc' = "done"
  /\ UNCHANGED <<asked, link, rx, mem, kind, id, at, polls, got, late>>

BadKeepVersion ==
  /\ pc = "read"
  /\ at > Len(ReadOrder(kind))
  /\ mem' = IF kind = "car_type" THEN [mem EXCEPT !["car_type"] = 0] ELSE mem
  /\ taken' = IF kind = "car_type" THEN got[1] ELSE taken
  /\ pc' = "done"
  /\ UNCHANGED <<asked, link, rx, version, kind, id, at, polls, got, late>>

(* The getter's last statement: get_version keeps what it read, get_car_   *)
(* type_from_machine clears the attribute for the next caller.             *)
Finish ==
  /\ pc = "read"
  /\ at > Len(ReadOrder(kind))
  /\ version' = IF kind = "version" THEN got ELSE version
  /\ mem' = IF kind = "car_type" THEN [mem EXCEPT !["car_type"] = 0] ELSE mem
  /\ taken' = IF kind = "car_type" THEN got[1] ELSE taken
  /\ pc' = "done"
  /\ UNCHANGED <<asked, link, rx, kind, id, at, polls, got, late>>

Return ==
  /\ pc = "done"
  /\ pc' = "idle" /\ got' = << >> /\ at' = 1
  /\ kind' = "version" /\ id' = 0 /\ polls' = 0
  /\ UNCHANGED <<asked, link, rx, mem, version, taken, late>>

BadSetAkmDefault(forever) ==
  /\ "akm" \in Kinds
  /\ pc = "idle"
  /\ Len(asked) < MaxAsk
  /\ asked' = Append(asked, [kind |-> IF forever THEN "set_akm" ELSE "try_akm",
                             id |-> 0])
  /\ UNCHANGED <<link, rx, mem, version, clientVars>>

(* set_akm_default_angle: a command without a reply; with forever=True the *)
(* new angle is also kept in the attribute.                                *)
SetAkmDefault(forever) ==
  /\ "akm" \in Kinds
  /\ pc = "idle"
  /\ Len(asked) < MaxAsk
  /\ asked' = Append(asked, [kind |-> IF forever THEN "set_akm" ELSE "try_akm",
                             id |-> 0])
  /\ mem' = IF forever
              THEN [mem EXCEPT !["akm_angle"] = Len(asked) + 1] ELSE mem
  /\ UNCHANGED <<link, rx, version, clientVars>>

(* set_car_type changes the type the machine will report from now on.      *)
SetCarType ==
  /\ "car_type" \in Kinds
  /\ pc = "idle"
  /\ Len(asked) < MaxAsk
  /\ asked' = Append(asked, [kind |-> "set_type", id |-> 0])
  /\ UNCHANGED <<link, rx, mem, version, clientVars>>

-----------------------------------------------------------------------------
(* The receive thread takes the next whole frame from the link ...         *)
Receive ==
  /\ rx.reply = 0
  /\ link # << >>
  /\ rx' = [reply |-> Head(link), at |-> 1]
  /\ link' = Tail(link)
  /\ UNCHANGED <<asked, mem, version, clientVars>>

(* ... and makes one of its assignments.                                   *)
Parse ==
  /\ rx.reply # 0
  /\ LET order == ParseOrder(asked[rx.reply].kind)
         f == order[rx.at]
     IN /\ mem' = [mem EXCEPT ![f] = ParsedValue(f, rx.reply)]
        /\ rx' = IF rx.at = Len(order) THEN [reply |-> 0, at |-> 1]
                                       ELSE [rx EXCEPT !.at = @ + 1]
  /\ UNCHANGED <<asked, link, version, clientVars>>

Client ==
  \/ Reset \/ Request \/ PollReady \/ PollAgain \/ GiveUp
  \/ Read \/ Finish \/ Return

(* Identifiers matter only to the two servo getters.                       *)
Ids(k) == IF k \in {"servo", "offset"} THEN Servos ELSE {0}

(* The bound on commands is reached and the client stays idle.             *)
Terminated ==
  /\ pc = "idle" /\ Len(asked) = MaxAsk
  /\ rx.reply = 0 /\ link = << >>
  /\ UNCHANGED vars

Next ==
  \/ \E k \in Kinds : \E i \in Ids(k) : Call(k, i)
  \/ \E forever \in BOOLEAN : SetAkmDefault(forever)
  \/ SetCarType
  \/ Client
  \/ Receive
  \/ Parse
  \/ Terminated

Spec == Init /\ [][Next]_vars

(* A getter in progress goes on: its thread only computes and sleeps.      *)
FairSpec == Spec /\ WF_vars(Client)

-----------------------------------------------------------------------------
Command == [kind : Kinds \cup {"set_akm", "try_akm", "set_type"},
            id : Servos \cup {0}]

TypeOK ==
  /\ asked \in Seq(Command)
  /\ link \in Seq(Nat \ {0})
  /\ rx \in [reply : Nat, at : Nat \ {0}]
  /\ mem \in [Fields -> Nat]
  /\ version \in Seq(Nat) /\ Len(version) = 2
  /\ pc \in {"idle", "reset", "poll", "read", "done"}
  /\ kind \in AllKinds /\ id \in Servos \cup {0}
  /\ at \in Nat \ {0} /\ polls \in Nat
  /\ got \in Seq(Nat) /\ taken \in Nat /\ late \in BOOLEAN

(* A getter of kind k is about to return what it has read.                 *)
Answers(k) == pc = "done" /\ kind = k /\ got # << >>

(* As long as no reply has been late, the array that                       *)
(* get_uart_servo_angle_array returns is one reply's, the reply to its own *)
(* request, because __read_arm_ok is assigned last; and the type that      *)
(* get_car_type_from_machine returns is the reply to its own request, so   *)
(* none that an earlier set_car_type has replaced.                         *)
AnswersCurrent ==
  ~late /\ (Answers("arm") \/ Answers("car_type")) =>
    \A i \in DOMAIN got : got[i] = Current

(* Even when replies are late, no car type is returned twice, and none     *)
(* after a newer one: the getter clears the attribute it has returned.     *)
CarTypeOnce ==
  [][pc = "read" /\ pc' = "done" /\ kind = "car_type" => got[1] > taken]_vars

(* get_akm_default_angle never returns the placeholder of __init__: the    *)
(* angle is assigned before the flag that makes the getter return it.      *)
AkmNeverPlaceholder == Answers("akm") => got[1] # 0

(* ... and, when no reply is late, no angle older than one set with        *)
(* forever=True.                                                           *)
AkmNotOlderThanSet ==
  ~late /\ Answers("akm") =>
    \A n \in DOMAIN asked : asked[n].kind = "set_akm" => got[1] >= n

(* get_version, which never asks again once version_H is set, does not     *)
(* answer the initial 0 when no reply has been late.                       *)
VersionKnown == ~late /\ Answers("version") => got # <<0, 0>>

(* A getter always comes back, whatever is lost and even if the receive    *)
(* thread does nothing: its polls are counted.                             *)
GetterReturns == pc # "idle" ~> pc = "idle"

-----------------------------------------------------------------------------
(* What a comment of a getter promises and the code does not keep.         *)

(* "Read the Angle of the bus steering gear, s_id indicates the ID number  *)
(* of the steering gear to be read": get_uart_servo_angle accepts a value  *)
(* read together with the identifier it asked for, and rejects value 0,    *)
(* which converts to an angle out of range for every servo.                *)
ServoAngle == IF got[1] = id THEN got[2] ELSE 0

ServoAngleOwn ==
  ~late /\ Answers("servo") /\ ServoAngle # 0 => asked[ServoAngle].id = id
=============================================================================
