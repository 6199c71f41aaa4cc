----------------------------- MODULE CameraNode -----------------------------
(***************************************************************************)
(* A camera node with its OpenNI streams and its UVC camera: one spinner   *)
(* runs the callbacks of both, and the node's destructor destroys the UVC  *)
(* camera after the streams.                                               *)
(***************************************************************************)
EXTENDS CameraStreams, UvcCamera

vars == <<spinnerVars, cameraVars, uvcVars>>

Init == SpinnerInit /\ StreamsInit /\ UvcInit(uvc)

(* The UVC camera has clients until its members are destroyed.             *)
Outside ==
  \/ Clients /\ UNCHANGED uvcVars
  \/ (uvc /\ shut # "closed" /\ UvcClients /\ UNCHANGED cameraVars)
  \/ CleanBegin /\ UNCHANGED uvcVars

SpinnerThread ==
  \/ Take /\ UNCHANGED <<cameraVars, uvcVars>>
  \/ Callback /\ UNCHANGED uvcVars
  \/ uvc /\ UvcCallback /\ UNCHANGED cameraVars

PollThread == Poll /\ UNCHANGED uvcVars

FrameCallback == (FrameLocks \/ FramePublished) /\ UNCHANGED cameraVars

WithoutUvc ==
  LET kept[i \in 0..Len(queue)] ==
        IF i = 0 THEN << >>
        ELSE IF queue[i].on # "uvc" THEN Append(kept[i - 1], queue[i]) ELSE kept[i - 1]
  IN kept[Len(queue)]

(* The UVC camera's members wait for a callback of theirs under way and    *)
(* drop the others.                                                        *)
UvcGone ==
  /\ node = "uvc" /\ shut = "closed" /\ call.on # "uvc"
  /\ node' = "cleaned"
  /\ queue' = WithoutUvc
  /\ UNCHANGED <<call, at, dead, nodeVars, streamVars, watchers, pollVars, uvcVars>>

(* The thread that runs the destructor of the node.                        *)
Destructor ==
  \/ (CleanStreams \/ MembersGone) /\ UNCHANGED uvcVars
  \/ node = "uvc" /\ Shut /\ UNCHANGED cameraVars
  \/ UvcGone

Threads == SpinnerThread \/ PollThread \/ FrameCallback \/ Destructor

Next ==
  /\ dead = "no"
  /\ Outside \/ (FrameComes /\ UNCHANGED cameraVars) \/ Threads

Spec == Init /\ [][Next]_vars

Alive(thread) == dead = "no" /\ thread

(* Every thread goes on, and so does a frame's callback.  A frame comes    *)
(* every 33 milliseconds and does not keep the lock: who waits for it gets *)
(* it in the end, and a queue is emptied between two callbacks.            *)
FairSpec ==
  /\ Spec
  /\ SF_vars(Alive(SpinnerThread))
  /\ WF_vars(Alive(PollThread))
  /\ WF_vars(Alive(FrameCallback))
  /\ SF_vars(Alive(Destructor))

-----------------------------------------------------------------------------
Callbacks ==
  [do : {"subscribed", "unsubscribed", "on", "off"}, on : Streams \cup {"uvc"}]
    \cup {[do |-> "reconfigure", on |-> "node"]}

TypeOK ==
  /\ queue \in Seq(Callbacks) /\ Len(queue) <= MaxQueue
  /\ call \in Callbacks \cup {NoCall} /\ (at = "idle" <=> call = NoCall)
  /\ at \in {"idle", "begun", "start", "mode", "open", "buffer", "stop", "joining"}
  /\ at \notin {"idle", "begun"} => call.on = "uvc"
  /\ dead \in {"no", "mode", "stream", "handle", "buffer"}
  /\ uvc \in BOOLEAN /\ pro \in BOOLEAN
  /\ offered \subseteq Streams /\ enable \subseteq offered /\ streams \subseteq offered
  /\ modes \subseteq offered /\ started \subseteq modes
  /\ failed \subseteq Streams /\ forced \subseteq Streams
  /\ watchers \in [Streams -> 0..MaxWatchers] /\ viewers \in 0..MaxViewers
  /\ node \in {"up", "joining", "uvc", "cleaned", "gone"}
  /\ poll \in {"look", "wait", "ended"} /\ polled \subseteq Streams
  /\ {handle, streaming, usb, buffer, refused} \subseteq BOOLEAN
  /\ frame \in {"between", "checked", "converted"}
  /\ holder \in {"nobody", "spinner", "frame", "closer"}
  /\ shut \in {"no", "closing", "closed"}
  /\ at \in {"buffer", "joining"} => holder = "spinner"
  /\ frame = "converted" <=> holder = "frame"
  /\ shut = "closing" <=> holder = "closer"

(* An enabled stream runs when somebody watches it and only then, but for  *)
(* a callback still to come and a start the driver has refused.  A stream  *)
(* that is switched off while it runs goes on running.                     *)
RunsAsWatched ==
  node = "up" /\ dead = "no" =>
    \A s \in enable :
      /\ s \in started /\ watchers[s] = 0 => Pending("unsubscribed", s)
      /\ Startable(s) /\ s \notin started /\ watchers[s] > 0 =>
           s \in failed \/ Pending("subscribed", s)

(* The poll thread, which takes no lock, never waits for a stream that has *)
(* been destroyed, and no frame is converted without its buffer.           *)
MemorySafe ==
  /\ poll = "wait" => polled \subseteq streams
  /\ frame = "converted" => buffer /\ handle

(* What the process can die of: a service that enabled a stream without a  *)
(* video mode, a callback the destructor has overtaken, a UVC mode or      *)
(* start that was refused, or a frame that comes before its buffer.        *)
DiesOnlyOf ==
  /\ dead = "mode" => forced # {}
  /\ dead = "stream" => node = "cleaned"
  /\ dead = "handle" => refused \/ shut = "closed"
  /\ dead = "buffer" => at = "buffer"

(* The thread of the library waits for the lock, and who holds the lock    *)
(* waits for that thread.                                                  *)
Crossed == frame = "checked" /\ (at = "joining" \/ shut = "closing")

(* Every callback of the spinner returns and the node's destructor ends,   *)
(* unless the process dies or a frame has crossed the stop of the stream.  *)
CallsEnd ==
  /\ at # "idle" ~> at = "idle" \/ dead # "no" \/ Crossed
  /\ node = "joining" ~> node = "gone" \/ dead # "no" \/ Crossed
=============================================================================
