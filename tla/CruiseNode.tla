------------------------------ MODULE CruiseNode ------------------------------
(***************************************************************************)
(* Multi-point cruise (class Multipoint_navigation): the operator clicks   *)
(* points on the map, the node sends them to move_base one after the other *)
(* and goes by the results.  The callbacks of different topics run in      *)
(* threads of their own and share the attributes without a lock; the two   *)
(* that call cancel_marker are taken as one.                               *)
(*                                                                         *)
(* move_base is external: it drives to one goal at a time, a newer goal or *)
(* a cancel request preempts it, and every goal ends with one result.      *)
(***************************************************************************)
EXTENDS Naturals, Sequences

CONSTANTS
  Points,      \* what the operator clicks on
  None,        \* no goal
  MayFail,     \* may move_base give a goal up?
  MaxInFlight, \* bound: goals and results under way when a point is added
  MaxCancels   \* bound: cancel requests under way

ASSUME NoneAssumption == None \notin Points
ASSUME MayFailAssumption == MayFail \in BOOLEAN
ASSUME BoundsAssumption == MaxInFlight \in Nat /\ MaxCancels \in Nat

VARIABLES
  markers, count, index, try_again, \* the node's attributes
  press, result, clear,             \* its callbacks' threads
  goals, cancels, results, active,  \* the topics, and move_base's goal
  sent, tries, raced                \* history

attrs == <<markers, count, index, try_again>>
base == <<goals, cancels, results, active>>
vars == <<markers, count, index, try_again, press, result, clear,
          goals, cancels, results, active, sent, tries, raced>>

(* What DELETEALL leaves in the marker array for a moment.                 *)
DeleteAll == "DELETEALL"
Markers == Points \cup {DeleteAll}

ASSUME DeleteAllAssumption == DeleteAll \notin Points \cup {None}

(* Definitions named Bad... are deliberate defects: none is part of the    *)
(* specification, each shows that some property would notice it.           *)
Init ==
  /\ markers = << >> /\ count = 0 /\ index = 0 /\ try_again = 1
  /\ press = [pc |-> "idle", x |-> None]
  /\ result = [pc |-> "idle", ok |-> FALSE, x |-> None, via |-> "success"]
  /\ clear = 0
  /\ goals = << >> /\ cancels = 0 /\ results = << >> /\ active = None
  /\ sent = None /\ tries = 0 /\ raced = FALSE

Elements(s) == {s[i] : i \in DOMAIN s}

(* PubTargetPoint: the topic's queue holds one goal; whether an earlier one *)
(* is already gone or is replaced is a matter of time.                     *)
PubTargetPoint(x) == goals' \in {<<x>>, Append(goals, x)} /\ sent' = x

-----------------------------------------------------------------------------
(* press_callback: the point is added, and is the first goal if it is the  *)
(* first point.                                                            *)
Press(x) ==
  /\ press.pc = "idle"
  /\ x \notin Elements(markers)
  /\ Len(goals) + Len(results) + (IF active = None THEN 0 ELSE 1) < MaxInFlight
  /\ markers' = Append(markers, x)
  /\ press' = [pc |-> "test", x |-> x]
  /\ raced' = (raced \/ clear > 0)
  /\ UNCHANGED <<count, index, try_again, result, clear, base, sent, tries>>

PressTest ==
  /\ press.pc = "test"
  /\ press' = [press EXCEPT !.pc = IF count = 0 THEN "send" ELSE "count"]
  /\ UNCHANGED <<attrs, result, clear, base, sent, tries, raced>>

PressSend ==
  /\ press.pc = "send"
  /\ PubTargetPoint(press.x) /\ tries' = 1
  /\ press' = [press EXCEPT !.pc = "index"]
  /\ UNCHANGED <<attrs, result, clear, cancels, results, active, raced>>

BadPressIndex ==
  /\ press.pc = "index"
  /\ press' = [press EXCEPT !.pc = "count"]
  /\ UNCHANGED <<attrs, result, clear, base, sent, tries, raced>>

PressIndex ==
  /\ press.pc = "index"
  /\ index' = index + 1
  /\ press' = [press EXCEPT !.pc = "count"]
  /\ UNCHANGED <<markers, count, try_again, result, clear, base, sent, tries, raced>>

PressCount ==
  /\ press.pc = "count"
  /\ count' = count + 1
  /\ press' = [pc |-> "idle", x |-> None]
  /\ UNCHANGED <<markers, index, try_again, result, clear, base, sent, tries, raced>>

-----------------------------------------------------------------------------
(* cancel_marker, for the joystick or a new initial pose: one assignment   *)
(* after the other, then the request to cancel every goal.                 *)
StartClear ==
  /\ clear = 0 /\ cancels < MaxCancels
  /\ clear' = 1
  /\ raced' = (press.pc # "idle" \/ result.pc # "idle")
  /\ tries' = 0
  /\ UNCHANGED <<attrs, press, result, base, sent>>

BadClear ==
  /\ clear > 0
  /\ markers' = << >> /\ count' = 0 /\ index' = 0 /\ try_again' = 1
  /\ cancels' = IF clear = 7 THEN cancels + 1 ELSE cancels
  /\ clear' = clear + 1
  /\ UNCHANGED <<press, result, goals, results, active, sent, tries, raced>>

Clear ==
  /\ clear > 0
  /\ markers' = CASE clear \in {1, 3} -> << >>
                  [] clear = 2 -> Append(markers, DeleteAll)
                  [] OTHER -> markers
  /\ count' = IF clear = 4 THEN 0 ELSE count
  /\ index' = IF clear = 5 THEN 0 ELSE index
  /\ try_again' = IF clear = 6 THEN 1 ELSE try_again
  /\ cancels' = IF clear = 7 THEN cancels + 1 ELSE cancels
  /\ clear' = IF clear = 7 THEN 0 ELSE clear + 1
  /\ UNCHANGED <<press, result, goals, results, active, sent, tries, raced>>

-----------------------------------------------------------------------------
(* goal_result_callback.                                                   *)
Result ==
  /\ result.pc = "idle" /\ results # << >>
  /\ result' = [pc |-> "check", ok |-> Head(results) = "succeeded", x |-> None,
                via |-> "success"]
  /\ results' = Tail(results)
  /\ raced' = (raced \/ clear > 0)
  /\ UNCHANGED <<attrs, press, clear, goals, cancels, active, sent, tries>>

At(pc) == result' = [result EXCEPT !.pc = pc]
Idle == result' = [pc |-> "idle", ok |-> FALSE, x |-> None, via |-> "success"]
Quiet == UNCHANGED <<attrs, press, clear, base, sent, tries, raced>>

Check ==
  /\ result.pc = "check"
  /\ IF count = 0 THEN Idle ELSE At(IF result.ok THEN "success" ELSE "failure")
  /\ Quiet

Success ==
  /\ result.pc = "success"
  /\ try_again' = 1
  /\ At("compare")
  /\ UNCHANGED <<markers, count, index, press, clear, base, sent, tries, raced>>

BadCompare ==
  /\ result.pc = "compare"
  /\ IF index < count THEN At("next") ELSE Idle
  /\ Quiet

(* The round is complete, or it goes on.                                   *)
Compare ==
  /\ result.pc = "compare"
  /\ IF index = count THEN At("wrap") ELSE IF index < count THEN At("next") ELSE Idle
  /\ Quiet

Wrap ==
  /\ result.pc = "wrap"
  /\ index' = 0
  /\ At("next")
  /\ UNCHANGED <<markers, count, try_again, press, clear, base, sent, tries, raced>>

(* The marker is read; an index out of range raises an exception, which    *)
(* the subscriber logs.                                                    *)
Next1 ==
  /\ result.pc = "next"
  /\ IF index < Len(markers)
       THEN result' = [result EXCEPT !.pc = "send", !.x = markers[index + 1]]
       ELSE Idle
  /\ Quiet

Send ==
  /\ result.pc = "send"
  /\ PubTargetPoint(result.x) /\ tries' = 1
  /\ At("advance")
  /\ UNCHANGED <<attrs, press, clear, cancels, results, active, raced>>

Advance ==
  /\ result.pc = "advance"
  /\ index' = index + 1
  /\ IF result.via = "success" THEN Idle ELSE At("allow")
  /\ UNCHANGED <<markers, count, try_again, press, clear, base, sent, tries, raced>>

Allow ==
  /\ result.pc = "allow"
  /\ try_again' = 1
  /\ Idle
  /\ UNCHANGED <<markers, count, index, press, clear, base, sent, tries, raced>>

(* A goal that was not reached is tried once more, then skipped.           *)
Failure ==
  /\ result.pc = "failure"
  /\ IF try_again = 1 THEN At("again")
     ELSE IF index < Len(markers) THEN At("skip") ELSE Idle
  /\ Quiet

(* Python's index -1 is the last marker.                                   *)
Again ==
  /\ result.pc = "again"
  /\ LET i == IF index = 0 THEN Len(markers) ELSE index
     IN IF i \in DOMAIN markers
          THEN result' = [result EXCEPT !.pc = "resend", !.x = markers[i]]
          ELSE Idle
  /\ Quiet

Resend ==
  /\ result.pc = "resend"
  /\ PubTargetPoint(result.x) /\ tries' = IF tries < 3 THEN tries + 1 ELSE 3
  /\ At("forbid")
  /\ UNCHANGED <<attrs, press, clear, cancels, results, active, raced>>

BadForbid ==
  /\ result.pc = "forbid"
  /\ Idle
  /\ Quiet

Forbid ==
  /\ result.pc = "forbid"
  /\ try_again' = 0
  /\ Idle
  /\ UNCHANGED <<markers, count, index, press, clear, base, sent, tries, raced>>

Skip ==
  /\ result.pc = "skip"
  /\ index' = IF index = count THEN 0 ELSE index
  /\ result' = [result EXCEPT !.pc = "next", !.via = "skip"]
  /\ UNCHANGED <<markers, count, try_again, press, clear, base, sent, tries, raced>>

-----------------------------------------------------------------------------
(* move_base.                                                              *)
Ended(r) == IF active = None THEN results ELSE Append(results, r)

TakeGoal ==
  /\ goals # << >>
  /\ results' = Ended("preempted")
  /\ active' = Head(goals) /\ goals' = Tail(goals)
  /\ UNCHANGED <<attrs, press, result, clear, cancels, sent, tries, raced>>

TakeCancel ==
  /\ cancels > 0
  /\ results' = Ended("preempted")
  /\ active' = None /\ cancels' = cancels - 1
  /\ UNCHANGED <<attrs, press, result, clear, goals, sent, tries, raced>>

Finish(r) ==
  /\ active # None
  /\ r = "succeeded" \/ MayFail
  /\ results' = Ended(r)
  /\ active' = None
  /\ UNCHANGED <<attrs, press, result, clear, goals, cancels, sent, tries, raced>>

-----------------------------------------------------------------------------
PressSteps == PressTest \/ PressSend \/ PressIndex \/ PressCount
ResultSteps ==
  \/ Result \/ Check \/ Success \/ Compare \/ Wrap \/ Next1 \/ Send \/ Advance
  \/ Allow \/ Failure \/ Again \/ Resend \/ Forbid \/ Skip
Base == TakeGoal \/ TakeCancel \/ \E r \in {"succeeded", "aborted"} : Finish(r)

Next ==
  \/ \E x \in Points : Press(x)
  \/ StartClear
  \/ PressSteps \/ Clear \/ ResultSteps \/ Base

Spec == Init /\ [][Next]_vars

(* Callbacks run to their end, messages arrive, move_base answers.         *)
FairSpec ==
  /\ Spec
  /\ WF_vars(PressSteps) /\ WF_vars(Clear) /\ WF_vars(ResultSteps)
  /\ WF_vars(TakeGoal) /\ WF_vars(TakeCancel)
  /\ WF_vars(\E r \in {"succeeded", "aborted"} : Finish(r))

-----------------------------------------------------------------------------
TypeOK ==
  /\ markers \in Seq(Markers) /\ count \in Nat /\ index \in Nat
  /\ try_again \in {0, 1}
  /\ press \in [pc : {"idle", "test", "send", "index", "count"}, x : Points \cup {None}]
  /\ result.pc \in {"idle", "check", "success", "compare", "wrap", "next", "send",
                    "advance", "allow", "failure", "again", "resend", "forbid", "skip"}
  /\ result.ok \in BOOLEAN /\ result.via \in {"success", "skip"}
  /\ result.x \in Markers \cup {None}
  /\ clear \in 0..7
  /\ goals \in Seq(Markers) /\ active \in Markers \cup {None}
  /\ results \in Seq({"succeeded", "aborted", "preempted"})
  /\ cancels \in 0..MaxCancels
  /\ sent \in Markers \cup {None} /\ tries \in 0..3 /\ raced \in BOOLEAN

(* No cancel_marker has run together with another callback since the last  *)
(* one that ran alone.                                                     *)
Calm == ~raced /\ clear = 0

(* Between callbacks the attributes agree: every marker is counted, and    *)
(* index stands behind the marker of the goal last sent.  Within the result*)
(* callback no marker is read that is not there, and none that stands for  *)
(* DELETEALL.                                                              *)
Consistent ==
  Calm =>
    /\ press.pc = "idle" /\ result.pc = "idle" =>
         /\ count = Len(markers) /\ index <= count
         /\ count > 0 => index > 0 /\ sent = markers[index]
    /\ result.pc = "next" => index < Len(markers)
    /\ result.pc = "again" => index \in DOMAIN markers
    /\ result.x # DeleteAll

(* An unreachable point is tried twice and no more before the cruise goes  *)
(* on, also when results of cancelled goals arrive late.                   *)
TriedTwice == Calm => tries <= 2

(* press_callback has sent the first goal and has not counted its point.   *)
FirstUncounted == count = 0 /\ press.pc \in {"index", "count"}

(* A point reached leads to the next goal, whatever callbacks run at the   *)
(* same time, unless its result finds the first point uncounted: then it   *)
(* is dropped as if the cruise had been cancelled, and the cruise is over. *)
SuccessGoesOn ==
  result.pc = "check" /\ result.ok /\ markers # << >> /\ ~FirstUncounted /\ Calm
    ~> goals # << >> \/ ~Calm

(* "If this round of cruise has been completed, the setting starts from    *)
(* the beginning": also when the last point could not be reached.          *)
FailedRoundRestarts ==
  result.pc = "failure" /\ try_again = 0 /\ index = count /\ Calm
    ~> goals # << >> \/ ~Calm
=============================================================================
