------------------------------- MODULE FrameLink -------------------------------
(***************************************************************************)
(* What the receive thread promises of the serial line: while it is in     *)
(* step with the board it parses every sound frame, once, in order and     *)
(* unchanged, and drops every damaged one.  Out of step nothing is         *)
(* promised.                                                               *)
(***************************************************************************)
EXTENDS Naturals, Sequences

CONSTANT Frames

VARIABLES
  queue,    \* [frame, damaged]: sent, and not wholly read yet
  got,      \* the frame parsed last, and a bit that tells it from the one before
  sync      \* in step with the board

linkVars == <<queue, got, sync>>

LinkInit == queue \in Seq([frame : Frames, damaged : BOOLEAN]) /\ sync \in BOOLEAN

SendFrame ==
  /\ \E f \in Frames : queue' = Append(queue, [frame |-> f, damaged |-> FALSE])
  /\ UNCHANGED <<got, sync>>

Damage ==
  /\ \E i \in DOMAIN queue : queue' = [queue EXCEPT ![i].damaged = TRUE]
  /\ UNCHANGED <<got, sync>>

Deliver ==
  /\ sync /\ queue # <<>> /\ ~Head(queue).damaged
  /\ got' = [frame |-> Head(queue).frame, bit |-> 1 - got.bit]
  /\ queue' = Tail(queue) /\ sync' = sync

Drop ==
  /\ sync /\ queue # <<>> /\ Head(queue).damaged
  /\ queue' = Tail(queue) /\ UNCHANGED <<got, sync>>

(* A byte is lost on the line, or one of a header or length was altered.   *)
Slip ==
  /\ sync /\ ~sync' /\ got' = got
  /\ queue' = queue \/ (queue # <<>> /\ queue' = Tail(queue))

OutOfStep ==
  /\ ~sync
  /\ queue' = queue \/ (queue # <<>> /\ queue' = Tail(queue))

LinkNext == SendFrame \/ Damage \/ Deliver \/ Drop \/ Slip \/ OutOfStep

LinkSpec == LinkInit /\ [][LinkNext]_linkVars
=============================================================================
