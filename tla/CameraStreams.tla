---------------------------- MODULE CameraStreams ----------------------------
(***************************************************************************)
(* The OpenNI streams of a camera node (class OBCameraNode) once its       *)
(* constructor has returned: the callbacks of the spinner that start and   *)
(* stop them, the thread that polls their frames, and the destructor.      *)
(*                                                                         *)
(* A callback holds device_lock_ from its first to its last statement and  *)
(* is one step; the destructor holds it from "joining" to "cleaned".  The  *)
(* poll thread takes no lock.  Maps from streams to flags are sets of      *)
(* streams, frames and video modes are left out.                           *)
(***************************************************************************)
EXTENDS Spinner

CONSTANTS
  Streams,     \* the image streams: depth, infrared, colour
  Setups,      \* kinds of camera: the values of uvc, pro and offered
  MaxWatchers  \* bound: subscribers of the image topics together

ASSUME StreamsAssumption == Streams \subseteq {"DEPTH", "INFRA1", "COLOR"}
ASSUME SetupsAssumption ==
  Setups \subseteq [uvc : BOOLEAN, pro : BOOLEAN, offered : SUBSET Streams]
ASSUME WatchersAssumption == MaxWatchers \in Nat

VARIABLES
  uvc, pro,  \* does the colour come from a UVC camera?  is it an Astra Pro?
  offered,   \* the streams that were enabled and there when the node was set up
  enable,    \* enable_: those still enabled
  modes,     \* stream_video_mode_: those with a video mode
  streams,   \* streams_: those with a stream object
  started,   \* stream_started_
  watchers,  \* subscribers of each stream's topic
  node,      \* how far the destructor has got
  poll, polled,    \* the poll thread and the streams it waits for
  failed, forced   \* history: watched but refused; switched on without a mode

nodeVars == <<uvc, pro, offered>>
streamVars == <<enable, modes, streams, started, failed, forced>>
pollVars == <<poll, polled>>
cameraVars == <<nodeVars, streamVars, watchers, node, pollVars>>

-----------------------------------------------------------------------------
(* Colour is not taken from OpenNI when there is a UVC camera.             *)
Ours(s) == ~(uvc /\ s = "COLOR")
Startable(s) == Ours(s) /\ ~(pro /\ s = "COLOR")

(* setupVideoMode: infrared and colour exclude each other, and a stream    *)
(* whose size and rate the sensor does not support is disabled.            *)
Compatible(on) ==
  IF ~uvc /\ {"INFRA1", "COLOR"} \subseteq on THEN on \ {"INFRA1"} ELSE on
Fitting(on, fits) == {s \in Compatible(on) : s \in fits}
StillEnabled(on, fits) == {s \in Compatible(on) : Ours(s) => s \in fits}

(* The constructor: the video modes are set up from the parameters, and    *)
(* once more when the reconfigure server calls back while it is created.   *)
StreamsInit ==
  /\ \E c \in Setups : uvc = c.uvc /\ pro = c.pro /\ offered = c.offered
  /\ \E first, again \in SUBSET Streams :
       /\ enable = StillEnabled(StillEnabled(offered, first), again)
       /\ modes = {s \in Fitting(offered, first)
                         \cup Fitting(StillEnabled(offered, first), again) : Ours(s)}
  /\ streams = {s \in offered : Ours(s)}
  /\ started = {} /\ failed = {} /\ forced = {}
  /\ watchers = [s \in Streams |-> 0]
  /\ node = "up" /\ poll = "look" /\ polled = {}

-----------------------------------------------------------------------------
WatchersOf(s) == IF s \in Streams THEN watchers[s] ELSE 0
Watched == WatchersOf("DEPTH") + WatchersOf("INFRA1") + WatchersOf("COLOR")

(* Clients of the node: subscribers of the images, callers of its services.*)
Subscribe(s) ==
  /\ s \in offered /\ node # "gone" /\ Watched < MaxWatchers
  /\ watchers' = [watchers EXCEPT ![s] = @ + 1]
  /\ Queue("subscribed", s)
  /\ UNCHANGED <<nodeVars, streamVars, node, pollVars>>

Unsubscribe(s) ==
  /\ node # "gone" /\ watchers[s] > 0
  /\ watchers' = [watchers EXCEPT ![s] = @ - 1]
  /\ failed' = IF watchers[s] = 1 THEN failed \ {s} ELSE failed
  /\ Queue("unsubscribed", s)
  /\ UNCHANGED <<nodeVars, enable, modes, streams, started, forced, node, pollVars>>

CallToggle(s, do) ==
  /\ s \in offered /\ node # "gone" /\ do \in {"on", "off"}
  /\ Queue(do, s)
  /\ UNCHANGED cameraVars

CallReconfigure ==
  /\ node # "gone"
  /\ Queue("reconfigure", "node")
  /\ UNCHANGED cameraVars

-----------------------------------------------------------------------------
(* The spinner's callbacks.  Once the destructor has returned the lock one *)
(* that has been waiting for it still runs.                                *)
Handling(dos) ==
  /\ at = "begun" /\ call.do \in dos
  /\ node \in {"up", "cleaned"}

ForStream(dos) == Handling(dos) /\ call.on \in offered

(* startStream, for those streams that it does not turn down.              *)
Due(on, running) ==
  {s \in on \ running : node = "up" /\ Startable(s) /\ watchers[s] > 0}

(* The driver may refuse to start any of them.                             *)
Started(due, running) ==
  /\ \E no \in SUBSET due :
       started' = running \cup (due \ no) /\ failed' = (failed \ due) \cup no
  /\ Return

(* A stream without a video mode aborts the process (CHECK).               *)
Start(due, running) ==
  \/ due \subseteq modes /\ Started(due, running)
  \/ ~(due \subseteq modes) /\ Die("mode") /\ UNCHANGED <<started, failed>>

ImageSubscribed ==
  /\ ForStream({"subscribed"})
  /\ Start(Due(enable, started) \cap {call.on}, started)
  /\ UNCHANGED <<nodeVars, enable, modes, streams, forced, watchers, node, pollVars>>

BadImageUnsubscribed ==
  /\ ForStream({"unsubscribed"})
  /\ started' = started \ (enable \cap {call.on})
  /\ Return
  /\ UNCHANGED <<nodeVars, enable, modes, streams, failed, forced, watchers, node,
                 pollVars>>

(* A stream without subscribers is stopped, unless it is disabled.         *)
ImageUnsubscribed ==
  /\ ForStream({"unsubscribed"})
  /\ started' = IF watchers[call.on] = 0 THEN started \ (enable \cap {call.on})
                                         ELSE started
  /\ Return
  /\ UNCHANGED <<nodeVars, enable, modes, streams, failed, forced, watchers, node,
                 pollVars>>

(* stopStreams stops what is started and enabled, through its object.      *)
Stoppable(on) == started \cap on \subseteq streams

(* toggleSensor: the flag is set first, so that switching a stream off     *)
(* leaves it running; then everything is stopped and started again.        *)
Toggle ==
  /\ ForStream({"on", "off"})
  /\ enable' = IF call.do = "on" THEN enable \cup {call.on} ELSE enable \ {call.on}
  /\ forced' = forced \cup {s \in enable' \ modes : Startable(s)}
  /\ \/ /\ Stoppable(enable')
        /\ Start(Due(enable', started \ enable'), started \ enable')
     \/ ~Stoppable(enable') /\ Die("stream") /\ UNCHANGED <<started, failed>>
  /\ UNCHANGED <<nodeVars, modes, streams, watchers, node, pollVars>>

(* reconfigureCallback: stop, set up the video modes asked for, start those *)
(* still enabled, which then have a mode.                                   *)
Reconfigure ==
  /\ Handling({"reconfigure"})
  /\ \E fits \in SUBSET Streams :
       /\ enable' = StillEnabled(enable, fits)
       /\ modes' = modes \cup {s \in Fitting(enable, fits) : Ours(s)}
       /\ \/ /\ {s \in Compatible(enable) : Ours(s)} \subseteq streams
             /\ Started(Due(enable', started \ enable), started \ enable)
          \/ /\ ~({s \in Compatible(enable) : Ours(s)} \subseteq streams)
             /\ Die("stream") /\ UNCHANGED <<started, failed>>
  /\ UNCHANGED <<nodeVars, streams, forced, watchers, node, pollVars>>

-----------------------------------------------------------------------------
(* pollFrame: while the node is up it waits for a stream to be started and *)
(* lists the enabled ones.                                                 *)
Listed == IF started # {} THEN poll' = "wait" /\ polled' = enable \cap streams
                          ELSE UNCHANGED pollVars

BadPollLook ==
  /\ poll = "look"
  /\ Listed
  /\ UNCHANGED <<spinnerVars, nodeVars, streamVars, watchers, node>>

PollLook ==
  /\ poll = "look"
  /\ IF node = "up" THEN Listed ELSE poll' = "ended" /\ polled' = {}
  /\ UNCHANGED <<spinnerVars, nodeVars, streamVars, watchers, node>>

(* waitForAnyStream names a stream that has a frame, which is read and      *)
(* published, or nothing in time.                                           *)
PollWait ==
  /\ poll = "wait"
  /\ poll' = "look" /\ polled' = {}
  /\ UNCHANGED <<spinnerVars, nodeVars, streamVars, watchers, node>>

Poll == PollLook \/ PollWait

-----------------------------------------------------------------------------
(* The destructor takes the lock and tells the poll thread to end ...      *)
CleanBegin ==
  /\ node = "up" /\ node' = "joining"
  /\ UNCHANGED <<spinnerVars, nodeVars, streamVars, watchers, pollVars>>

BadCleanStreams ==
  /\ node = "joining"
  /\ started' = started \ enable /\ streams' = {}
  /\ node' = IF uvc THEN "uvc" ELSE "cleaned"
  /\ UNCHANGED <<spinnerVars, nodeVars, enable, modes, failed, forced, watchers, pollVars>>

(* ... stops and destroys the streams when it has ended ...                *)
CleanStreams ==
  /\ node = "joining" /\ poll = "ended"
  /\ started' = started \ enable /\ streams' = {}
  /\ node' = IF uvc THEN "uvc" ELSE "cleaned"
  /\ UNCHANGED <<spinnerVars, nodeVars, enable, modes, failed, forced, watchers, pollVars>>

(* ... and returns the lock.  The publishers and services are members:     *)
(* their destructors wait for a callback under way and drop the others.    *)
MembersGone ==
  /\ node = "cleaned" /\ at = "idle"
  /\ node' = "gone" /\ queue' = << >>
  /\ UNCHANGED <<call, at, dead, nodeVars, streamVars, watchers, pollVars>>

Callback == ImageSubscribed \/ ImageUnsubscribed \/ Toggle \/ Reconfigure

Clients ==
  \/ \E s \in Streams : Subscribe(s) \/ Unsubscribe(s)
  \/ \E s \in Streams, do \in {"on", "off"} : CallToggle(s, do)
  \/ CallReconfigure
=============================================================================
