----------------------------- MODULE PavsReports -----------------------------
(***************************************************************************)
(* The periodic reports of the PAVS controller (speed, IMU, attitude,      *)
(* encoders).  The receive thread assigns the attributes of one report one *)
(* by one while the client's thread reads them one by one, or clears them, *)
(* without a lock.  Attributes are numbered in the order the receive       *)
(* thread assigns them, and hold the number of the report they come from   *)
(* (0: initial or cleared).                                                *)
(***************************************************************************)
EXTENDS Integers

CONSTANTS
  K,          \* number of attributes in a report
  ReadOrder,  \* the order in which the client reads them
  ClearOrder, \* the order in which clear_auto_report_data clears them
  MaxReports  \* bound: number of reports

Attributes == 1..K

IsOrder(o) ==
  /\ o \in [Attributes -> Attributes]
  /\ \A i, j \in Attributes : o[i] = o[j] => i = j
  /\ \A a \in Attributes : \E i \in Attributes : o[i] = a

ASSUME KAssumption == K \in Nat \ {0} /\ MaxReports \in Nat
ASSUME OrderAssumption == IsOrder(ReadOrder) /\ IsOrder(ClearOrder)

VARIABLES
  n,       \* reports received so far
  next,    \* the attribute of report n assigned next; K+1: all are assigned
  val,     \* the attributes
  doing,   \* what the client's thread does: "nothing", "read" or "clear"
  step,    \* how many attributes it has read or cleared
  reading, \* what it has read (0 where it has not read yet)
  seen     \* history: reports received when it read each

reportsVars == <<n, next, val, doing, step, reading, seen>>

ReportsInit ==
  /\ n = 0 /\ next = K + 1
  /\ val = [a \in Attributes |-> 0]
  /\ doing = "nothing" /\ step = 0
  /\ reading = [a \in Attributes |-> 0] /\ seen = reading

(* The next report of this type: its frame is taken from the link ...      *)
Report ==
  /\ next = K + 1
  /\ n < MaxReports
  /\ n' = n + 1 /\ next' = 1
  /\ UNCHANGED <<val, doing, step, reading, seen>>

BadAssign ==
  /\ next <= K
  /\ val' = [val EXCEPT ![K + 1 - next] = n]
  /\ next' = next + 1
  /\ UNCHANGED <<n, doing, step, reading, seen>>

(* ... and its attributes are assigned in order.                           *)
Assign ==
  /\ next <= K
  /\ val' = [val EXCEPT ![next] = n]
  /\ next' = next + 1
  /\ UNCHANGED <<n, doing, step, reading, seen>>

Start(what) ==
  /\ doing = "nothing"
  /\ doing' = what /\ step' = 0
  /\ reading' = [a \in Attributes |-> 0] /\ seen' = reading'
  /\ UNCHANGED <<n, next, val>>

ReadOne ==
  /\ doing = "read" /\ step < K
  /\ LET a == ReadOrder[step + 1]
     IN reading' = [reading EXCEPT ![a] = val[a]] /\ seen' = [seen EXCEPT ![a] = n]
  /\ step' = step + 1
  /\ UNCHANGED <<n, next, val, doing>>

ClearOne ==
  /\ doing = "clear" /\ step < K
  /\ val' = [val EXCEPT ![ClearOrder[step + 1]] = 0]
  /\ step' = step + 1
  /\ UNCHANGED <<n, next, doing, reading, seen>>

Stop ==
  /\ doing # "nothing" /\ step = K
  /\ doing' = "nothing" /\ step' = 0
  /\ UNCHANGED <<n, next, val, reading, seen>>

ReportsNext ==
  \/ Report \/ Assign
  \/ \E what \in {"read", "clear"} : Start(what)
  \/ ReadOne \/ ClearOne \/ Stop

ReportsSpec == ReportsInit /\ [][ReportsNext]_reportsVars

-----------------------------------------------------------------------------
ReportsTypeOK ==
  /\ n \in Nat /\ next \in 1..(K + 1)
  /\ val \in [Attributes -> Nat]
  /\ reading \in [Attributes -> Nat] /\ seen \in [Attributes -> Nat]
  /\ doing \in {"nothing", "read", "clear"} /\ step \in 0..K

(* The client read a before it read b.                                     *)
ReadBefore(a, b) ==
  \E i, j \in 1..step : i < j /\ ReadOrder[i] = a /\ ReadOrder[j] = b

(* When a is read before b, b is newer than a by the reports received in   *)
(* between, give or take one, unless either was cleared: two values of a   *)
(* message are at most one report apart if no report comes while it is     *)
(* filled in, and at most two if one does.  b is never older than a if the *)
(* receive thread assigns b first.                                         *)
SkewBounded ==
  doing = "read" =>
    \A a, b \in Attributes :
      ReadBefore(a, b) /\ reading[a] # 0 /\ reading[b] # 0 =>
        LET newer == reading[b] - reading[a]
            came == seen[b] - seen[a]
        IN came - 1 <= newer /\ newer <= came + 1 /\ (b < a => newer >= 0)
=============================================================================
