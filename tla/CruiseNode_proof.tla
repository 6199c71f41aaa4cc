--------------------------- MODULE CruiseNode_proof ---------------------------
(***************************************************************************)
(* Consistent and TriedTwice for any set of points, any number of goals    *)
(* and cancel requests under way, with goals that fail or not.             *)
(***************************************************************************)
EXTENDS CruiseNode, TLAPS

(* The callbacks hold what they use, and a cancel under way has its place   *)
(* in the queue of requests.                                                *)
ResultPcs == {"idle", "check", "success", "compare", "wrap", "next", "send", "advance",
              "allow", "failure", "again", "resend", "forbid", "skip"}

ThreadInv ==
  /\ result \in [pc : ResultPcs, ok : BOOLEAN, x : Markers \cup {None},
                 via : {"success", "skip"}]
  /\ press.pc # "idle" => press.x \in Points
  /\ result.pc = "idle" => result.x = None
  /\ result.pc \in {"send", "resend"} => result.x \in Markers
  /\ clear > 0 => cancels < MaxCancels

(* A cancel_marker that runs alone resets one attribute after the other.    *)
ClearInv ==
  ~raced /\ clear > 0 =>
    /\ press.pc = "idle" /\ result.pc = "idle" /\ tries = 0
    /\ clear \in {2, 4, 5, 6, 7} => markers = << >>
    /\ clear > 4 => count = 0
    /\ clear > 5 => index = 0
    /\ clear > 6 => try_again = 1

(* Without a cancel_marker: a marker is counted at the end of its callback. *)
MarkerInv ==
  Calm =>
    /\ \A i \in DOMAIN markers : markers[i] \in Points
    /\ Len(markers) = IF press.pc = "idle" THEN count ELSE count + 1
    /\ press.pc # "idle" => press.x = markers[Len(markers)]
    /\ press.pc \in {"send", "index"} => count = 0
    /\ result.x \in Points \cup {None}

(* Until the first marker is counted no result is acted on.                 *)
FirstInv ==
  Calm /\ count = 0 =>
    /\ result.pc \in {"idle", "check"}
    /\ index = IF press.pc = "count" THEN 1 ELSE 0
    /\ press.pc \in {"index", "count"} => sent = press.x

(* From then on only the result callback moves the index.                   *)
PlaceInv ==
  Calm /\ count > 0 =>
    /\ index <= count
    /\ IF result.pc \in {"next", "send", "advance"} THEN index < count
       ELSE index > 0 /\ sent = markers[index]
    /\ result.pc = "send" => result.x = markers[index + 1]
    /\ result.pc = "resend" => result.x = markers[index]
    /\ result.pc = "advance" => sent = markers[index + 1]

(* A second try is allowed only when the goal was sent once, unless the     *)
(* next goal is certain to be sent, or the permission about to be taken.    *)
TryInv ==
  Calm =>
    /\ tries <= 2
    /\ try_again = 1 /\ result.pc \notin {"compare", "wrap", "next", "send", "forbid"}
         => tries <= 1
    /\ result.pc \in {"again", "resend"} => try_again = 1
    /\ result.pc \in {"advance", "allow"} => tries <= 1

CruiseInv ==
  TypeOK /\ ThreadInv /\ ClearInv /\ MarkerInv /\ FirstInv /\ PlaceInv /\ TryInv

RoundInv == ClearInv /\ MarkerInv /\ FirstInv /\ PlaceInv /\ TryInv

LEMMA CruiseInit == Init => CruiseInv
  <1> SUFFICES ASSUME Init PROVE CruiseInv
    OBVIOUS
  <1>1. TypeOK /\ ThreadInv
    <2>1. /\ << >> \in Seq(Markers)
          /\ << >> \in Seq({"succeeded", "aborted", "preempted"})
      OBVIOUS
    <2>2. /\ result \in [pc : ResultPcs, ok : BOOLEAN, x : Markers \cup {None},
                        via : {"success", "skip"}]
          /\ press \in [pc : {"idle", "test", "send", "index", "count"},
                       x : Points \cup {None}]
      BY DEF Init, ResultPcs
    <2>3. result.pc = "idle" /\ result.ok = FALSE /\ result.x = None
          /\ result.via = "success" /\ press.pc = "idle"
      BY DEF Init
    <2>4. /\ count \in Nat /\ index \in Nat /\ try_again \in {0, 1} /\ tries \in 0..3
          /\ clear \in 0..7 /\ ~(clear > 0) /\ cancels \in 0..MaxCancels
      BY BoundsAssumption DEF Init
    <2>5. /\ markers = << >> /\ goals = << >> /\ results = << >>
          /\ active = None /\ sent = None /\ raced = FALSE
      BY DEF Init
    <2>6. TypeOK
      BY <2>1, <2>2, <2>3, <2>4, <2>5 DEF TypeOK
    <2>7. ThreadInv
      BY <2>2, <2>3, <2>4 DEF ThreadInv
    <2>8. QED BY <2>6, <2>7
  <1>2. ClearInv /\ MarkerInv /\ FirstInv /\ PlaceInv /\ TryInv
    BY DEF Init, ClearInv, MarkerInv, FirstInv, PlaceInv, TryInv
  <1>3. QED BY <1>1, <1>2 DEF CruiseInv

-----------------------------------------------------------------------------
(* Types.                                                                   *)
LEMMA SentType ==
  ASSUME TypeOK, NEW x \in Markers, PubTargetPoint(x)
  PROVE  goals' \in Seq(Markers) /\ sent' \in Markers
  <1>1. <<x>> \in Seq(Markers) /\ Append(goals, x) \in Seq(Markers)
    BY DEF TypeOK
  <1>2. QED BY <1>1 DEF PubTargetPoint

LEMMA PressTypes ==
  ASSUME TypeOK, ThreadInv, (\E x \in Points : Press(x)) \/ PressSteps
  PROVE  TypeOK' /\ ThreadInv'
  <1> USE DEF TypeOK, ThreadInv
  <1>1. ASSUME NEW x \in Points, Press(x)
        PROVE  TypeOK' /\ ThreadInv'
    <2>1. x \in Markers
      BY DEF Markers
    <2>2. raced' \in BOOLEAN
      BY <1>1, Zenon DEF Press
    <2>3. markers' \in Seq(Markers)
      BY <1>1, <2>1 DEF Press
    <2>4. QED BY <1>1, <2>2, <2>3 DEF Press, attrs, base
  <1>2. CASE PressTest
    BY <1>2 DEF PressTest, attrs, base
  <1>3. CASE PressSend
    <2>1. press.x \in Markers
      BY <1>3 DEF PressSend, Markers
    <2>2. goals' \in Seq(Markers) /\ sent' \in Markers
      BY <1>3, <2>1, SentType DEF PressSend
    <2>3. /\ press' \in [pc : {"idle", "test", "send", "index", "count"},
                         x : Points \cup {None}]
          /\ press'.x = press.x /\ press.pc = "send"
      BY <1>3 DEF PressSend
    <2>4. /\ UNCHANGED <<attrs, result, clear, cancels, results, active, raced>>
          /\ tries' = 1
      BY <1>3 DEF PressSend
    <2>5. QED BY <2>2, <2>3, <2>4 DEF attrs
  <1>4. CASE PressIndex
    BY <1>4 DEF PressIndex, base
  <1>5. CASE PressCount
    BY <1>5 DEF PressCount, base
  <1>6. QED BY <1>1, <1>2, <1>3, <1>4, <1>5 DEF PressSteps

LEMMA ClearTypes ==
  ASSUME TypeOK, ThreadInv, StartClear \/ Clear
  PROVE  TypeOK' /\ ThreadInv'
  <1> USE DEF TypeOK, ThreadInv
  <1>1. CASE StartClear
    <2>1. raced' \in BOOLEAN
      BY <1>1, Zenon DEF StartClear
    <2>2. QED BY <1>1, <2>1 DEF StartClear, attrs, base
  <1>2. CASE Clear
    <2>1. markers' \in Seq(Markers)
      <3>1. DeleteAll \in Markers
        BY DEF Markers
      <3>2. << >> \in Seq(Markers) /\ Append(markers, DeleteAll) \in Seq(Markers)
        BY <3>1
      <3>3. markers' \in {<< >>, Append(markers, DeleteAll), markers}
        BY <1>2 DEF Clear
      <3>4. QED BY <3>2, <3>3
    <2>2. /\ count' \in Nat /\ index' \in Nat /\ try_again' \in {0, 1}
          /\ clear' \in 0..7 /\ cancels' \in 0..MaxCancels
          /\ clear' > 0 => cancels' < MaxCancels
      <3>1. count' \in Nat /\ index' \in Nat /\ try_again' \in {0, 1}
        BY <1>2 DEF Clear
      <3>2. CASE clear = 7
        BY <1>2, <3>2, BoundsAssumption DEF Clear
      <3>3. CASE clear # 7
        BY <1>2, <3>3, BoundsAssumption DEF Clear
      <3>4. QED BY <3>1, <3>2, <3>3
    <2>3. UNCHANGED <<press, result, goals, results, active, sent, tries, raced>>
      BY <1>2 DEF Clear
    <2>4. QED BY <2>1, <2>2, <2>3
  <1>3. QED BY <1>1, <1>2

LEMMA ResultTypes ==
  ASSUME TypeOK, ThreadInv, ResultSteps
  PROVE  TypeOK' /\ ThreadInv'
  <1> USE DEF TypeOK, ThreadInv
  <1>1. CASE Result
    <2>1. raced' \in BOOLEAN
      BY <1>1, Zenon DEF Result
    <2>2. results' \in Seq({"succeeded", "aborted", "preempted"})
      BY <1>1 DEF Result
    <2>3. result' \in [pc : ResultPcs, ok : BOOLEAN, x : Markers \cup {None},
                       via : {"success", "skip"}]
          /\ result'.pc = "check" /\ result'.ok \in BOOLEAN /\ result'.x = None
          /\ result'.via = "success"
      BY <1>1 DEF Result, ResultPcs
    <2>4. QED BY <1>1, <2>1, <2>2, <2>3 DEF Result, attrs
  <1>2. ASSUME NEW to \in ResultPcs, At(to), to \notin {"idle", "send", "resend"},
               UNCHANGED press, UNCHANGED clear, UNCHANGED cancels
        PROVE  ThreadInv' /\ result'.pc = to /\ result'.ok = result.ok
               /\ result'.x = result.x /\ result'.via = result.via
    BY <1>2 DEF At
  <1>3. ASSUME Idle, UNCHANGED press, UNCHANGED clear, UNCHANGED cancels
        PROVE  ThreadInv' /\ result'.pc = "idle" /\ result'.ok \in BOOLEAN
               /\ result'.x = None /\ result'.via = "success"
    BY <1>3 DEF Idle, ResultPcs
  <1>4. CASE Check
    BY <1>2, <1>3, <1>4 DEF Check, Quiet, attrs, base, ResultPcs
  <1>5. CASE Success \/ Compare \/ Wrap
    <2>1. CASE Success
      BY <1>2, <2>1 DEF Success, base, ResultPcs
    <2>2. CASE Compare
      BY <1>2, <1>3, <2>2 DEF Compare, Quiet, attrs, base, ResultPcs
    <2>3. CASE Wrap
      BY <1>2, <2>3 DEF Wrap, base, ResultPcs
    <2>4. QED BY <1>5, <2>1, <2>2, <2>3
  <1>6. CASE Next1
    <2>1. CASE index < Len(markers)
      <3>1. markers[index + 1] \in Markers
        BY <2>1
      <3>2. result' = [result EXCEPT !.pc = "send", !.x = markers[index + 1]]
        BY <1>6, <2>1 DEF Next1
      <3>3. QED BY <1>6, <3>1, <3>2 DEF Next1, Quiet, attrs, base, ResultPcs
    <2>2. CASE ~(index < Len(markers))
      BY <1>3, <1>6, <2>2 DEF Next1, Quiet, attrs, base
    <2>3. QED BY <2>1, <2>2
  <1>7. CASE Send
    <2>1. goals' \in Seq(Markers) /\ sent' \in Markers
      BY <1>7, SentType DEF Send
    <2>2. QED BY <1>2, <1>7, <2>1 DEF Send, attrs, ResultPcs
  <1>8. CASE Advance
    BY <1>2, <1>3, <1>8 DEF Advance, base, ResultPcs
  <1>9. CASE Allow
    BY <1>3, <1>9 DEF Allow, base
  <1>10. CASE Failure
    BY <1>2, <1>3, <1>10 DEF Failure, Quiet, attrs, base, ResultPcs
  <1>11. CASE Again
    <2>1. PICK i \in Nat :
            IF i \in DOMAIN markers
              THEN result' = [result EXCEPT !.pc = "resend", !.x = markers[i]]
              ELSE Idle
      <3>1. (IF index = 0 THEN Len(markers) ELSE index) \in Nat
        OBVIOUS
      <3>2. QED BY <1>11, <3>1 DEF Again
    <2>2. CASE i \in DOMAIN markers
      <3>1. markers[i] \in Markers
        BY <2>2
      <3>2. /\ result' \in [pc : ResultPcs, ok : BOOLEAN, x : Markers \cup {None},
                            via : {"success", "skip"}]
            /\ result'.pc = "resend" /\ result'.x \in Markers
        BY <2>1, <2>2, <3>1 DEF ResultPcs
      <3>3. UNCHANGED <<attrs, press, clear, base, sent, tries, raced>>
        BY <1>11 DEF Again, Quiet
      <3>4. QED BY <3>2, <3>3 DEF attrs, base, ResultPcs
    <2>3. CASE i \notin DOMAIN markers
      BY <1>3, <1>11, <2>1, <2>3 DEF Again, Quiet, attrs, base
    <2>4. QED BY <2>2, <2>3
  <1>12. CASE Resend
    <2>1. goals' \in Seq(Markers) /\ sent' \in Markers
      BY <1>12, SentType DEF Resend
    <2>2. tries' \in 0..3
      BY <1>12 DEF Resend
    <2>3. QED BY <1>2, <1>12, <2>1, <2>2 DEF Resend, attrs, ResultPcs
  <1>13. CASE Forbid
    BY <1>3, <1>13 DEF Forbid, base
  <1>14. CASE Skip
    <2>1. /\ result' \in [pc : ResultPcs, ok : BOOLEAN, x : Markers \cup {None},
                          via : {"success", "skip"}]
          /\ result'.pc = "next"
      BY <1>14 DEF Skip, ResultPcs
    <2>2. index' \in Nat
      BY <1>14 DEF Skip
    <2>3. UNCHANGED <<markers, count, try_again, press, clear, base, sent, tries, raced>>
      BY <1>14 DEF Skip
    <2>4. QED BY <2>1, <2>2, <2>3 DEF base, ResultPcs
  <1>15. QED
    BY <1>1, <1>4, <1>5, <1>6, <1>7, <1>8, <1>9, <1>10, <1>11, <1>12, <1>13, <1>14
       DEF ResultSteps

LEMMA BaseTypes ==
  ASSUME TypeOK, ThreadInv, Base
  PROVE  TypeOK' /\ ThreadInv'
  <1> USE DEF TypeOK, ThreadInv
  <1>1. ASSUME NEW r \in {"succeeded", "aborted", "preempted"}
        PROVE  Ended(r) \in Seq({"succeeded", "aborted", "preempted"})
    BY <1>1 DEF Ended
  <1>2. CASE TakeGoal
    BY <1>1, <1>2 DEF TakeGoal, attrs
  <1>3. CASE TakeCancel
    BY <1>1, <1>3, BoundsAssumption DEF TakeCancel, attrs
  <1>4. ASSUME NEW r \in {"succeeded", "aborted"}, Finish(r)
        PROVE  TypeOK' /\ ThreadInv'
    BY <1>1, <1>4 DEF Finish, attrs
  <1>5. QED BY <1>2, <1>3, <1>4 DEF Base

-----------------------------------------------------------------------------
(* The points' callback: while it runs alone with the result callback the   *)
(* markers are one ahead of the count.                                      *)
LEMMA PressRound ==
  ASSUME TypeOK, ThreadInv, RoundInv, (\E x \in Points : Press(x)) \/ PressSteps,
         ~raced'
  PROVE  RoundInv'
  <1>1. /\ clear = 0 /\ clear' = 0 /\ ~raced
        /\ UNCHANGED <<try_again, result>>
    <2>1. CASE \E x \in Points : Press(x)
      <3>1. ~raced /\ ~(clear > 0)
        BY <2>1, Zenon DEF Press
      <3>2. UNCHANGED <<clear, try_again, result>>
        BY <2>1 DEF Press
      <3>3. QED BY <3>1, <3>2 DEF TypeOK
    <2>2. CASE PressSteps
      BY <2>2 DEF PressSteps, PressTest, PressSend, PressIndex, PressCount, attrs,
                  TypeOK, RoundInv, ClearInv
    <2>3. QED BY <2>1, <2>2
  <1>2. /\ Calm /\ Calm' /\ ClearInv'
    BY <1>1 DEF Calm, ClearInv
  <1>3. /\ markers \in Seq(Markers) /\ count \in Nat /\ index \in Nat /\ tries \in 0..3
        /\ press \in [pc : {"idle", "test", "send", "index", "count"},
                      x : Points \cup {None}]
    BY DEF TypeOK
  <1>4. ASSUME NEW x \in Points, Press(x)
        PROVE  RoundInv'
    <2>1. /\ press.pc = "idle" /\ press'.pc = "test" /\ press'.x = x
          /\ UNCHANGED <<count, index, sent, tries>>
      BY <1>4 DEF Press, attrs
    <2>2. /\ Len(markers') = Len(markers) + 1 /\ markers'[Len(markers) + 1] = x
          /\ \A i \in DOMAIN markers : markers'[i] = markers[i]
          /\ \A i \in DOMAIN markers' : i \in DOMAIN markers \/ i = Len(markers) + 1
          /\ DOMAIN markers = 1..Len(markers)
      BY <1>3, <1>4 DEF Press, Markers
    <2>3. Len(markers) = count
      BY <1>2, <2>1 DEF RoundInv, MarkerInv
    <2>4. MarkerInv'
      BY <1>1, <1>2, <2>1, <2>2, <2>3 DEF RoundInv, MarkerInv
    <2>5. FirstInv'
      BY <1>1, <1>2, <2>1 DEF RoundInv, FirstInv
    <2>6. PlaceInv'
      <3>1. SUFFICES ASSUME count > 0 PROVE PlaceInv'
        BY <2>1 DEF PlaceInv
      <3>2. index > 0 /\ index <= count => markers'[index] = markers[index]
        BY <1>3, <2>2, <2>3
      <3>3. index < count => markers'[index + 1] = markers[index + 1]
        BY <1>3, <2>2, <2>3
      <3>4. QED BY <1>1, <1>2, <1>3, <2>1, <3>1, <3>2, <3>3 DEF RoundInv, PlaceInv
    <2>7. TryInv'
      BY <1>1, <1>2, <2>1 DEF RoundInv, TryInv
    <2>8. QED BY <1>2, <2>4, <2>5, <2>6, <2>7 DEF RoundInv
  <1>5. CASE PressTest
    <2>1. /\ press.pc = "test" /\ press'.x = press.x
          /\ press'.pc = IF count = 0 THEN "send" ELSE "count"
          /\ UNCHANGED <<markers, count, index, sent, tries>>
      BY <1>3, <1>5 DEF PressTest, attrs
    <2>2. MarkerInv' /\ FirstInv'
      BY <1>1, <1>2, <2>1 DEF RoundInv, MarkerInv, FirstInv
    <2>3. PlaceInv' /\ TryInv'
      BY <1>1, <1>2, <2>1 DEF RoundInv, PlaceInv, TryInv
    <2>4. QED BY <1>2, <2>2, <2>3 DEF RoundInv
  <1>6. CASE PressSend
    <2>1. /\ press.pc = "send" /\ press'.x = press.x /\ press'.pc = "index"
          /\ sent' = press.x /\ tries' = 1
          /\ UNCHANGED <<markers, count, index>>
      BY <1>3, <1>6 DEF PressSend, PubTargetPoint, attrs
    <2>2. count = 0 /\ result.pc \in {"idle", "check"}
      BY <1>2, <2>1 DEF RoundInv, MarkerInv, FirstInv
    <2>3. MarkerInv' /\ FirstInv' /\ PlaceInv' /\ TryInv'
      BY <1>1, <1>2, <2>1, <2>2
         DEF RoundInv, MarkerInv, FirstInv, PlaceInv, TryInv
    <2>4. QED BY <1>2, <2>3 DEF RoundInv
  <1>7. CASE PressIndex
    <2>1. /\ press.pc = "index" /\ press'.x = press.x /\ press'.pc = "count"
          /\ index' = index + 1
          /\ UNCHANGED <<markers, count, sent, tries>>
      BY <1>3, <1>7 DEF PressIndex
    <2>2. count = 0
      BY <1>2, <2>1 DEF RoundInv, MarkerInv
    <2>3. MarkerInv' /\ FirstInv' /\ PlaceInv' /\ TryInv'
      BY <1>1, <1>2, <2>1, <2>2
         DEF RoundInv, MarkerInv, FirstInv, PlaceInv, TryInv
    <2>4. QED BY <1>2, <2>3 DEF RoundInv
  <1>8. CASE PressCount
    <2>1. /\ press.pc = "count" /\ press'.pc = "idle" /\ count' = count + 1
          /\ UNCHANGED <<markers, index, sent, tries>>
      BY <1>3, <1>8 DEF PressCount
    <2>2. Len(markers) = count + 1 /\ press.x = markers[Len(markers)]
      BY <1>2, <2>1 DEF RoundInv, MarkerInv
    <2>3. MarkerInv' /\ FirstInv' /\ TryInv'
      BY <1>1, <1>2, <1>3, <2>1, <2>2 DEF RoundInv, MarkerInv, FirstInv, TryInv
    <2>4. PlaceInv'
      <3>1. CASE count = 0
        <4>1. index = 1 /\ sent = markers[1] /\ result.pc \in {"idle", "check"}
          BY <1>2, <2>1, <2>2, <3>1 DEF RoundInv, FirstInv
        <4>2. QED BY <1>1, <2>1, <3>1, <4>1 DEF PlaceInv
      <3>2. CASE count > 0
        BY <1>1, <1>2, <1>3, <2>1, <3>2 DEF RoundInv, PlaceInv
      <3>3. QED BY <1>3, <3>1, <3>2
    <2>5. QED BY <1>2, <2>3, <2>4 DEF RoundInv
  <1>9. QED BY <1>4, <1>5, <1>6, <1>7, <1>8 DEF PressSteps

(* cancel_marker alone puts everything back.                                *)
LEMMA ClearRound ==
  ASSUME TypeOK, ThreadInv, RoundInv, StartClear \/ Clear, ~raced'
  PROVE  RoundInv'
  <1>1. CASE StartClear
    <2>1. clear' = 1 /\ press' = press /\ result' = result /\ tries' = 0
          /\ press.pc = "idle" /\ result.pc = "idle"
      BY <1>1 DEF StartClear
    <2>2. ~Calm'
      BY <2>1 DEF Calm
    <2>3. ClearInv'
      BY <2>1 DEF ClearInv
    <2>4. QED BY <2>2, <2>3 DEF RoundInv, MarkerInv, FirstInv, PlaceInv, TryInv
  <1>2. CASE Clear
    <2>1. /\ ~raced /\ clear \in 1..7 /\ press.pc = "idle" /\ result.pc = "idle"
          /\ UNCHANGED <<press, result, tries>> /\ tries = 0 /\ result.x = None
      BY <1>2 DEF Clear, TypeOK, RoundInv, ClearInv, ThreadInv
    <2>2. CASE clear = 7
      <3>1. markers' = << >> /\ count' = 0 /\ index' = 0 /\ try_again' = 1 /\ clear' = 0
        BY <1>2, <2>1, <2>2 DEF Clear, RoundInv, ClearInv
      <3>2. ClearInv' /\ MarkerInv' /\ FirstInv' /\ PlaceInv' /\ TryInv'
        BY <2>1, <3>1 DEF ClearInv, MarkerInv, FirstInv, PlaceInv, TryInv
      <3>3. QED BY <3>2 DEF RoundInv
    <2>3. CASE clear # 7
      <3>1. clear' = clear + 1 /\ clear' \in 2..7
        BY <1>2, <2>1, <2>3 DEF Clear
      <3>2. ~Calm'
        BY <3>1 DEF Calm
      <3>3. clear' \in {2, 4, 5, 6, 7} => markers' = << >>
        BY <1>2, <2>1, <3>1 DEF Clear, RoundInv, ClearInv
      <3>4. /\ clear' > 4 => count' = 0
            /\ clear' > 5 => index' = 0
            /\ clear' > 6 => try_again' = 1
        BY <1>2, <2>1, <3>1 DEF Clear, RoundInv, ClearInv
      <3>5. ClearInv'
        BY <2>1, <3>3, <3>4 DEF ClearInv
      <3>6. QED BY <3>2, <3>5 DEF RoundInv, MarkerInv, FirstInv, PlaceInv, TryInv
    <2>4. QED BY <2>2, <2>3
  <1>3. QED BY <1>1, <1>2

(* move_base and the topics touch none of it.                               *)
LEMMA BaseRound ==
  ASSUME RoundInv, Base
  PROVE  RoundInv'
  <1>1. UNCHANGED <<markers, count, index, try_again, press, result, clear, sent, tries,
                    raced>>
    BY DEF Base, TakeGoal, TakeCancel, Finish, attrs
  <1>2. QED
    BY <1>1 DEF RoundInv, ClearInv, MarkerInv, FirstInv, PlaceInv, TryInv, Calm

(* The result callback: the goal it sends is the one behind the index.      *)
LEMMA ResultRound ==
  ASSUME TypeOK, ThreadInv, RoundInv, ResultSteps, ~raced'
  PROVE  RoundInv'
  <1>1. clear = 0 /\ clear' = 0 /\ ~raced /\ UNCHANGED <<press, markers, count>>
    <2>1. CASE Result
      <3>1. ~raced /\ ~(clear > 0)
        BY <2>1, Zenon DEF Result
      <3>2. UNCHANGED <<clear, press, markers, count>>
        BY <2>1 DEF Result, attrs
      <3>3. QED BY <3>1, <3>2 DEF TypeOK
    <2>2. ASSUME result.pc # "idle", UNCHANGED <<clear, raced>>
          PROVE  clear = 0 /\ clear' = 0 /\ ~raced
      BY <2>2 DEF TypeOK, RoundInv, ClearInv
    <2>3. CASE Check \/ Success \/ Compare \/ Wrap \/ Next1 \/ Send \/ Advance
      BY <2>2, <2>3 DEF Check, Success, Compare, Wrap, Next1, Send, Advance, Quiet, attrs
    <2>4. CASE Allow \/ Failure \/ Again \/ Resend \/ Forbid \/ Skip
      BY <2>2, <2>4 DEF Allow, Failure, Again, Resend, Forbid, Skip, Quiet, attrs
    <2>5. QED BY <2>1, <2>3, <2>4 DEF ResultSteps
  <1>2. Calm /\ Calm' /\ ClearInv'
    BY <1>1 DEF Calm, ClearInv
  <1>3. /\ count \in Nat /\ index \in Nat /\ tries \in 0..3 /\ try_again \in {0, 1}
        /\ result \in [pc : ResultPcs, ok : BOOLEAN, x : Markers \cup {None},
                       via : {"success", "skip"}]
        /\ markers \in Seq(Markers) /\ Len(markers) \in {count, count + 1}
    BY <1>2 DEF TypeOK, ThreadInv, RoundInv, MarkerInv
  <1>4. ASSUME result'.x \in Points \cup {None}
        PROVE  MarkerInv'
    BY <1>1, <1>2, <1>4 DEF RoundInv, MarkerInv
  <1>5. result.x \in Points \cup {None}
    BY <1>2 DEF RoundInv, MarkerInv
  <1>6. result.pc \notin {"idle", "check"} =>
          /\ count > 0 /\ index <= count
          /\ IF result.pc \in {"next", "send", "advance"} THEN index < count
             ELSE index > 0 /\ sent = markers[index]
    BY <1>2, <1>3 DEF RoundInv, FirstInv, PlaceInv
  <1>7. /\ tries <= 2
        /\ try_again = 1 /\ result.pc \notin {"compare", "wrap", "next", "send", "forbid"}
             => tries <= 1
    BY <1>2 DEF RoundInv, TryInv
  <1>8. CASE Result
    <2>1. /\ result.pc = "idle" /\ result'.pc = "check" /\ result'.x = None
          /\ UNCHANGED <<index, try_again, sent, tries>>
      BY <1>8 DEF Result, attrs
    <2>2. FirstInv' /\ PlaceInv' /\ TryInv'
      BY <1>1, <1>2, <2>1 DEF RoundInv, FirstInv, PlaceInv, TryInv
    <2>3. QED BY <1>2, <1>4, <2>1, <2>2 DEF RoundInv
  <1>9. CASE Check
    <2>1. /\ result.pc = "check" /\ result'.x \in Points \cup {None}
          /\ result'.pc \in {"idle", "success", "failure"}
          /\ count = 0 => result'.pc = "idle"
          /\ UNCHANGED <<index, try_again, sent, tries>>
      BY <1>3, <1>5, <1>9 DEF Check, Idle, At, Quiet, attrs
    <2>2. FirstInv' /\ PlaceInv' /\ TryInv'
      BY <1>1, <1>2, <2>1 DEF RoundInv, FirstInv, PlaceInv, TryInv
    <2>3. QED BY <1>2, <1>4, <2>1, <2>2 DEF RoundInv
  <1>10. CASE Success
    <2>1. /\ result.pc = "success" /\ result'.pc = "compare" /\ result'.x = result.x
          /\ UNCHANGED <<index, sent, tries>>
      BY <1>3, <1>10 DEF Success, At
    <2>2. FirstInv' /\ PlaceInv' /\ TryInv'
      BY <1>1, <1>6, <1>7, <2>1 DEF FirstInv, PlaceInv, TryInv
    <2>3. QED BY <1>2, <1>4, <1>5, <2>1, <2>2 DEF RoundInv
  <1>11. CASE Compare
    <2>1. result.pc = "compare" /\ UNCHANGED <<index, try_again, sent, tries>>
      BY <1>11 DEF Compare, Quiet, attrs
    <2>2. /\ result'.x = result.x
          /\ result'.pc = "wrap" \/ (result'.pc = "next" /\ index < count)
      BY <1>3, <1>6, <1>11, <2>1 DEF Compare, At
    <2>3. FirstInv' /\ PlaceInv' /\ TryInv'
      BY <1>1, <1>6, <1>7, <2>1, <2>2 DEF FirstInv, PlaceInv, TryInv
    <2>4. QED BY <1>2, <1>4, <1>5, <2>2, <2>3 DEF RoundInv
  <1>12. CASE Wrap
    <2>1. /\ result.pc = "wrap" /\ result'.pc = "next" /\ result'.x = result.x
          /\ index' = 0 /\ UNCHANGED <<try_again, sent, tries>>
      BY <1>3, <1>12 DEF Wrap, At
    <2>2. FirstInv' /\ PlaceInv' /\ TryInv'
      BY <1>1, <1>3, <1>6, <1>7, <2>1 DEF FirstInv, PlaceInv, TryInv
    <2>3. QED BY <1>2, <1>4, <1>5, <2>1, <2>2 DEF RoundInv
  <1>13. CASE Next1
    <2>1. result.pc = "next" /\ UNCHANGED <<index, try_again, sent, tries>>
      BY <1>13 DEF Next1, Quiet, attrs
    <2>2. index < count /\ index < Len(markers) /\ index + 1 \in DOMAIN markers
      BY <1>3, <1>6, <2>1
    <2>3. result'.pc = "send" /\ result'.x = markers[index + 1]
      BY <1>3, <1>13, <2>2 DEF Next1
    <2>4. result'.x \in Points
      BY <1>2, <2>2, <2>3 DEF RoundInv, MarkerInv
    <2>5. FirstInv' /\ PlaceInv' /\ TryInv'
      BY <1>1, <1>6, <1>7, <2>1, <2>2, <2>3 DEF FirstInv, PlaceInv, TryInv
    <2>6. QED BY <1>2, <1>4, <2>4, <2>5 DEF RoundInv
  <1>14. CASE Send
    <2>1. /\ result.pc = "send" /\ result'.pc = "advance" /\ result'.x = result.x
          /\ sent' = result.x /\ tries' = 1 /\ UNCHANGED <<index, try_again>>
      BY <1>3, <1>14 DEF Send, At, PubTargetPoint, attrs
    <2>2. result.x = markers[index + 1]
      BY <1>2, <1>6, <2>1 DEF RoundInv, PlaceInv
    <2>3. FirstInv' /\ PlaceInv' /\ TryInv'
      BY <1>1, <1>6, <2>1, <2>2 DEF FirstInv, PlaceInv, TryInv
    <2>4. QED BY <1>2, <1>4, <1>5, <2>1, <2>3 DEF RoundInv
  <1>15. CASE Advance
    <2>1. /\ result.pc = "advance" /\ result'.pc \in {"idle", "allow"}
          /\ result'.x \in Points \cup {None} /\ index' = index + 1
          /\ UNCHANGED <<try_again, sent, tries>>
      BY <1>3, <1>5, <1>15 DEF Advance, Idle, At
    <2>2. sent = markers[index + 1] /\ tries <= 1
      BY <1>2, <1>6, <2>1 DEF RoundInv, PlaceInv, TryInv
    <2>3. FirstInv' /\ PlaceInv' /\ TryInv'
      BY <1>1, <1>3, <1>6, <2>1, <2>2 DEF FirstInv, PlaceInv, TryInv
    <2>4. QED BY <1>2, <1>4, <2>1, <2>3 DEF RoundInv
  <1>16. CASE Allow \/ Forbid
    <2>1. /\ result.pc \in {"allow", "forbid"} /\ result'.pc = "idle"
          /\ result'.x = None /\ UNCHANGED <<index, sent, tries>>
          /\ try_again' = 1 => result.pc = "allow"
      BY <1>16 DEF Allow, Forbid, Idle
    <2>2. result.pc = "allow" => tries <= 1
      BY <1>2 DEF RoundInv, TryInv
    <2>3. FirstInv' /\ PlaceInv' /\ TryInv'
      BY <1>1, <1>6, <1>7, <2>1, <2>2 DEF FirstInv, PlaceInv, TryInv
    <2>4. QED BY <1>2, <1>4, <2>1, <2>3 DEF RoundInv
  <1>17. CASE Failure
    <2>1. /\ result.pc = "failure" /\ UNCHANGED <<index, try_again, sent, tries>>
          /\ result'.x \in Points \cup {None}
          /\ \/ result'.pc = "again" /\ try_again = 1
             \/ result'.pc \in {"skip", "idle"}
      BY <1>3, <1>5, <1>17 DEF Failure, Idle, At, Quiet, attrs
    <2>2. FirstInv' /\ PlaceInv' /\ TryInv'
      BY <1>1, <1>6, <1>7, <2>1 DEF FirstInv, PlaceInv, TryInv
    <2>3. QED BY <1>2, <1>4, <2>1, <2>2 DEF RoundInv
  <1>18. CASE Again
    <2>1. result.pc = "again" /\ UNCHANGED <<index, try_again, sent, tries>>
      BY <1>18 DEF Again, Quiet, attrs
    <2>2. index > 0 /\ index \in DOMAIN markers /\ try_again = 1
      BY <1>2, <1>3, <1>6, <2>1 DEF RoundInv, TryInv
    <2>3. result'.pc = "resend" /\ result'.x = markers[index]
      <3>1. index # 0
        BY <1>3, <2>2
      <3>2. result' = [result EXCEPT !.pc = "resend", !.x = markers[index]]
        BY <1>18, <2>2, <3>1 DEF Again
      <3>3. QED BY <1>3, <3>2
    <2>4. result'.x \in Points
      BY <1>2, <2>2, <2>3 DEF RoundInv, MarkerInv
    <2>5. FirstInv' /\ PlaceInv' /\ TryInv'
      BY <1>1, <1>6, <1>7, <2>1, <2>2, <2>3 DEF FirstInv, PlaceInv, TryInv
    <2>6. QED BY <1>2, <1>4, <2>4, <2>5 DEF RoundInv
  <1>19. CASE Resend
    <2>1. /\ result.pc = "resend" /\ result'.pc = "forbid" /\ result'.x = result.x
          /\ sent' = result.x /\ UNCHANGED <<index, try_again>>
          /\ tries' = IF tries < 3 THEN tries + 1 ELSE 3
      BY <1>3, <1>19 DEF Resend, At, PubTargetPoint, attrs
    <2>2. result.x = markers[index] /\ try_again = 1
      BY <1>2, <1>6, <2>1 DEF RoundInv, PlaceInv, TryInv
    <2>3. tries' <= 2
      BY <1>3, <1>7, <2>1, <2>2
    <2>4. FirstInv' /\ PlaceInv' /\ TryInv'
      BY <1>1, <1>6, <2>1, <2>2, <2>3 DEF FirstInv, PlaceInv, TryInv
    <2>5. QED BY <1>2, <1>4, <1>5, <2>1, <2>4 DEF RoundInv
  <1>20. CASE Skip
    <2>1. /\ result.pc = "skip" /\ result'.pc = "next" /\ result'.x = result.x
          /\ index' = IF index = count THEN 0 ELSE index
          /\ UNCHANGED <<try_again, sent, tries>>
      BY <1>3, <1>20 DEF Skip
    <2>2. index' < count
      BY <1>3, <1>6, <2>1
    <2>3. FirstInv' /\ PlaceInv' /\ TryInv'
      BY <1>1, <1>3, <1>6, <1>7, <2>1, <2>2 DEF FirstInv, PlaceInv, TryInv
    <2>4. QED BY <1>2, <1>4, <1>5, <2>1, <2>3 DEF RoundInv
  <1>21. QED
    BY <1>8, <1>9, <1>10, <1>11, <1>12, <1>13, <1>14, <1>15, <1>16, <1>17, <1>18,
       <1>19, <1>20
       DEF ResultSteps

LEMMA CruiseStep ==
  ASSUME CruiseInv, [Next]_vars
  PROVE  CruiseInv'
  <1>1. TypeOK /\ ThreadInv /\ RoundInv
    BY DEF CruiseInv, RoundInv
  <1>2. CASE UNCHANGED vars
    BY <1>2 DEF vars, CruiseInv, TypeOK, ThreadInv, ClearInv, MarkerInv, FirstInv,
                PlaceInv, TryInv, Calm
  <1>3. CASE Next
    <2>1. TypeOK' /\ ThreadInv'
      BY <1>1, <1>3, PressTypes, ClearTypes, ResultTypes, BaseTypes DEF Next
    <2>2. CASE raced'
      <3>1. RoundInv'
        BY <2>2 DEF RoundInv, ClearInv, MarkerInv, FirstInv, PlaceInv, TryInv, Calm
      <3>2. QED BY <2>1, <3>1 DEF CruiseInv, RoundInv
    <2>3. CASE ~raced'
      <3>1. RoundInv'
        BY <1>1, <1>3, <2>3, PressRound, ClearRound, ResultRound, BaseRound DEF Next
      <3>2. QED BY <2>1, <3>1 DEF CruiseInv, RoundInv
    <2>4. QED BY <2>2, <2>3
  <1>4. QED BY <1>2, <1>3

(* The attributes, topics and callbacks of the cruise keep their types,     *)
(* whatever the callbacks interrupt.                                        *)
THEOREM CruiseTypes == Spec => []TypeOK
  <1>1. CruiseInv => TypeOK
    BY DEF CruiseInv
  <1>2. QED BY <1>1, CruiseInit, CruiseStep, PTL DEF Spec

(* Between callbacks every marker is counted and index stands behind the    *)
(* marker of the goal last sent; within the result callback no marker is    *)
(* read that is not there: unless cancel_marker has run into a callback.    *)
THEOREM ConsistentCorrect == Spec => []Consistent
  <1>1. CruiseInv => Consistent
    <2> SUFFICES ASSUME CruiseInv, Calm
                 PROVE  /\ press.pc = "idle" /\ result.pc = "idle" =>
                             /\ count = Len(markers) /\ index <= count
                             /\ count > 0 => index > 0 /\ sent = markers[index]
                        /\ result.pc = "next" => index < Len(markers)
                        /\ result.pc = "again" => index \in DOMAIN markers
                        /\ result.x # DeleteAll
      BY DEF Consistent
    <2>1. /\ markers \in Seq(Markers) /\ count \in Nat /\ index \in Nat
          /\ Len(markers) = IF press.pc = "idle" THEN count ELSE count + 1
      BY DEF CruiseInv, TypeOK, MarkerInv
    <2>2. press.pc = "idle" /\ result.pc = "idle" =>
            /\ count = Len(markers) /\ index <= count
            /\ count > 0 => index > 0 /\ sent = markers[index]
      BY <2>1 DEF CruiseInv, FirstInv, PlaceInv
    <2>3. /\ result.pc = "next" => index < Len(markers)
          /\ result.pc = "again" => index \in DOMAIN markers
      BY <2>1 DEF CruiseInv, FirstInv, PlaceInv
    <2>4. result.x # DeleteAll
      BY DeleteAllAssumption DEF CruiseInv, MarkerInv
    <2>5. QED BY <2>2, <2>3, <2>4
  <1>2. QED BY <1>1, CruiseInit, CruiseStep, PTL DEF Spec

(* A point that cannot be reached is tried twice and no more, also when     *)
(* results of cancelled goals arrive late.                                  *)
THEOREM TriedTwiceCorrect == Spec => []TriedTwice
  <1>1. CruiseInv => TriedTwice
    BY DEF CruiseInv, TryInv, TriedTwice
  <1>2. QED BY <1>1, CruiseInit, CruiseStep, PTL DEF Spec
===============================================================================
