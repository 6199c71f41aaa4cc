------------------------------- MODULE Spinner -------------------------------
(***************************************************************************)
(* The main thread of the camera process: "ros::spin()" takes subscription *)
(* callbacks and service calls from one queue and runs them one after the  *)
(* other.  A handler that needs several steps keeps its place in "at".     *)
(***************************************************************************)
EXTENDS Naturals, Sequences

CONSTANT MaxQueue     \* bound: callbacks waiting for the spinner

ASSUME QueueAssumption == MaxQueue \in Nat \ {0}

VARIABLES
  queue,    \* the callbacks waiting, oldest first
  call, at, \* the one being run and the place its handler has reached
  dead      \* "no", or why the process was aborted

spinnerVars == <<queue, call, at, dead>>

NoCall == [do |-> "nothing", on |-> "nothing"]

SpinnerInit == queue = << >> /\ call = NoCall /\ at = "idle" /\ dead = "no"

(* A subscriber, an unsubscriber or a client of a service turns up.        *)
Queue(do, on) ==
  /\ Len(queue) < MaxQueue
  /\ queue' = Append(queue, [do |-> do, on |-> on])
  /\ UNCHANGED <<call, at, dead>>

Take ==
  /\ at = "idle" /\ queue # << >>
  /\ call' = Head(queue) /\ queue' = Tail(queue) /\ at' = "begun"
  /\ UNCHANGED dead

(* What a handler does to the spinner: it returns, goes on, or dies.       *)
Return == at' = "idle" /\ call' = NoCall /\ UNCHANGED <<queue, dead>>
GoOn(place) == at' = place /\ UNCHANGED <<queue, call, dead>>
Die(why) == dead' = why /\ UNCHANGED <<queue, call, at>>

(* A callback of this kind is waiting or being run.                        *)
Pending(do, on) ==
  \/ call = [do |-> do, on |-> on]
  \/ \E i \in DOMAIN queue : queue[i] = [do |-> do, on |-> on]
=============================================================================
