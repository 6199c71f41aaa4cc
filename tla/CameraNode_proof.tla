--------------------------- MODULE CameraNode_proof ---------------------------
(***************************************************************************)
(* For any streams, cameras and numbers of clients: the threads that take   *)
(* no lock, or look before they take it, use nothing that is gone; the      *)
(* process dies of the four things DiesOnlyOf names and of nothing else;    *)
(* every variable keeps its type; and an enabled stream runs as it is       *)
(* watched.                                                                 *)
(***************************************************************************)
EXTENDS CameraNode, WellFoundedInduction, TLAPS

(* What is enabled and can be started has a video mode, unless a service    *)
(* enabled it; as long as the node is up it has a stream object.            *)
StreamInv ==
  /\ poll = "wait" => polled \subseteq streams
  /\ \A s \in enable : Startable(s) => s \in modes \cup forced
  /\ enable \subseteq offered
  /\ node = "up" => started \subseteq streams /\ streams = {s \in offered : Ours(s)}

(* There is a buffer only while the camera streams, and a frame's callback  *)
(* only while there is a buffer: stopping joins it before freeing.          *)
BufferInv ==
  /\ handle \in BOOLEAN /\ streaming \in BOOLEAN /\ usb \in BOOLEAN
  /\ buffer \in BOOLEAN
  /\ buffer => streaming /\ handle
  /\ frame # "between" => buffer
  /\ usb => buffer \/ at = "buffer"
  /\ at \in {"mode", "open", "buffer"} => ~streaming
  /\ at = "joining" => ~usb

(* Who holds device_lock_, and what the destructor leaves behind.           *)
LockInv ==
  /\ at = "buffer" => handle
  /\ at \in {"buffer", "joining"} => holder = "spinner"
  /\ frame = "converted" => holder = "frame"
  /\ shut \in {"no", "closing", "closed"}
  /\ shut = "closing" => holder = "closer"
  /\ shut # "no" => ~usb
  /\ shut = "closed" => ~handle
  /\ uvc /\ ~handle => refused \/ shut = "closed"

UvcInv == BufferInv /\ LockInv
IInv == StreamInv /\ UvcInv /\ DiesOnlyOf

LEMMA IInvMemory == IInv => MemorySafe
  BY DEF IInv, StreamInv, UvcInv, BufferInv, MemorySafe

LEMMA InitIInv == Init => IInv
  <1> SUFFICES ASSUME Init PROVE IInv
    OBVIOUS
  <1>1. StreamInv
    <2>1. PICK c \in Setups : uvc = c.uvc /\ pro = c.pro /\ offered = c.offered
      BY DEF Init, StreamsInit
    <2>2. PICK first \in SUBSET Streams, again \in SUBSET Streams :
            /\ enable = StillEnabled(StillEnabled(offered, first), again)
            /\ modes = {s \in Fitting(offered, first)
                              \cup Fitting(StillEnabled(offered, first), again) : Ours(s)}
      BY DEF Init, StreamsInit
    <2>3. /\ streams = {s \in offered : Ours(s)}
          /\ started = {} /\ poll = "look" /\ node = "up"
      BY DEF Init, StreamsInit
    <2>4. enable \subseteq offered
      BY <2>2 DEF StillEnabled, Compatible
    <2>5. \A s \in enable : Startable(s) => s \in modes
      BY <2>2 DEF StillEnabled, Fitting, Startable
    <2>6. QED BY <2>3, <2>4, <2>5 DEF StreamInv
  <1>2. UvcInv
    <2>1. uvc \in BOOLEAN
      BY SetupsAssumption DEF Init, StreamsInit
    <2>2. QED BY <2>1 DEF Init, SpinnerInit, UvcInit, UvcInv, BufferInv, LockInv
  <1>3. DiesOnlyOf
    BY DEF Init, SpinnerInit, DiesOnlyOf
  <1>4. QED BY <1>1, <1>2, <1>3 DEF IInv

-----------------------------------------------------------------------------
(* Steps of one part leave the other's invariant alone.                     *)

LEMMA UvcKept ==
  ASSUME UvcInv, UNCHANGED <<uvc, uvcVars>>,
         at' = at \/ (at \in {"idle", "begun"} /\ at' \in {"idle", "begun"})
  PROVE  UvcInv'
  BY DEF UvcInv, BufferInv, LockInv, uvcVars

LEMMA StreamKept ==
  ASSUME StreamInv, UNCHANGED cameraVars
  PROVE  StreamInv'
  BY DEF StreamInv, cameraVars, nodeVars, streamVars, pollVars, Startable, Ours

LEMMA DeathKept ==
  ASSUME dead = "no", dead' = "no"
  PROVE  DiesOnlyOf'
  BY DEF DiesOnlyOf

-----------------------------------------------------------------------------
(* The OpenNI streams.                                                      *)

LEMMA CallbackStream ==
  ASSUME StreamInv, Callback, dead = "no"
  PROVE  StreamInv' /\ DiesOnlyOf'
  <1>1. CASE ImageSubscribed
    <2>1. UNCHANGED <<nodeVars, enable, modes, streams, forced, node, pollVars>>
      BY <1>1 DEF ImageSubscribed
    <2> DEFINE due == Due(enable, started) \cap {call.on}
    <2>2. \A s \in due : s \in enable /\ Startable(s) /\ node = "up"
      BY DEF Due
    <2>3. Start(due, started)
      BY <1>1 DEF ImageSubscribed
    <2>4. CASE due \subseteq modes /\ Started(due, started)
      <3>1. started' \subseteq started \cup due /\ dead' = dead
        BY <2>4 DEF Started, Return
      <3>2. node = "up" => due \subseteq streams
        BY <2>2 DEF StreamInv, Startable
      <3>3. StreamInv'
        BY <2>1, <3>1, <3>2 DEF StreamInv, nodeVars, pollVars, Startable, Ours
      <3>4. QED BY <3>1, <3>3, DeathKept
    <2>5. CASE ~(due \subseteq modes) /\ Die("mode") /\ UNCHANGED <<started, failed>>
      <3>1. forced # {}
        BY <2>2, <2>5 DEF StreamInv
      <3>2. DiesOnlyOf'
        BY <2>1, <2>5, <3>1 DEF DiesOnlyOf, Die
      <3>3. QED BY <2>1, <2>5, <3>2 DEF StreamInv, nodeVars, pollVars, Startable, Ours
    <2>6. QED BY <2>3, <2>4, <2>5 DEF Start
  <1>2. CASE ImageUnsubscribed
    <2>1. /\ UNCHANGED <<nodeVars, enable, modes, streams, forced, node, pollVars>>
          /\ started' \subseteq started /\ dead' = dead
      BY <1>2 DEF ImageUnsubscribed, Return
    <2>2. StreamInv'
      BY <2>1 DEF StreamInv, nodeVars, pollVars, Startable, Ours
    <2>3. QED BY <2>1, <2>2, DeathKept
  <1>3. CASE Toggle
    <2>1. /\ UNCHANGED <<nodeVars, modes, streams, node, pollVars>>
          /\ enable' \subseteq enable \cup {call.on} /\ call.on \in offered
          /\ forced' = forced \cup {s \in enable' \ modes : Startable(s)}
          /\ node \in {"up", "cleaned"}
      BY <1>3 DEF Toggle, ForStream, Handling
    <2>2. \A s \in enable' : Startable(s) => s \in modes \cup forced'
      BY <2>1
    <2>3. enable' \subseteq offered
      BY <2>1 DEF StreamInv
    <2>4. \A s : Startable(s)' <=> Startable(s)
      BY <2>1 DEF nodeVars, Startable, Ours
    <2>5. \A s : Ours(s)' <=> Ours(s)
      BY <2>1 DEF nodeVars, Ours
    <2> DEFINE due == Due(enable', started \ enable')
    <2>6. \A s \in due : s \in enable' /\ Startable(s) /\ node = "up"
      BY DEF Due
    <2>7. node = "up" => due \subseteq streams
      BY <2>3, <2>6 DEF StreamInv, Startable
    <2>8. CASE Stoppable(enable') /\ due \subseteq modes /\ Started(due, started \ enable')
      <3>1. started' \subseteq started \cup due /\ dead' = dead
        BY <2>8 DEF Started, Return
      <3>2. StreamInv'
        BY <2>1, <2>2, <2>3, <2>4, <2>5, <2>7, <3>1 DEF StreamInv, nodeVars, pollVars
      <3>3. QED BY <3>1, <3>2, DeathKept
    <2>9. CASE UNCHANGED started /\ Die("mode") /\ ~(due \subseteq modes)
      <3>1. forced' # {}
        BY <2>2, <2>6, <2>9
      <3>2. DiesOnlyOf'
        BY <2>9, <3>1 DEF DiesOnlyOf, Die
      <3>3. QED
        BY <2>1, <2>2, <2>3, <2>4, <2>5, <2>9, <3>2 DEF StreamInv, nodeVars, pollVars
    <2>10. CASE UNCHANGED started /\ Die("stream") /\ ~Stoppable(enable')
      <3>1. node = "cleaned"
        BY <2>1, <2>10 DEF StreamInv, Stoppable
      <3>2. DiesOnlyOf'
        BY <2>1, <2>10, <3>1 DEF DiesOnlyOf, Die
      <3>3. QED
        BY <2>1, <2>2, <2>3, <2>4, <2>5, <2>10, <3>2 DEF StreamInv, nodeVars, pollVars
    <2>11. QED BY <1>3, <2>8, <2>9, <2>10 DEF Toggle, Start
  <1>4. CASE Reconfigure
    <2>1. /\ UNCHANGED <<nodeVars, streams, forced, node, pollVars>>
          /\ node \in {"up", "cleaned"}
      BY <1>4 DEF Reconfigure, Handling
    <2>2. PICK fits \in SUBSET Streams :
            /\ enable' = StillEnabled(enable, fits)
            /\ modes' = modes \cup {s \in Fitting(enable, fits) : Ours(s)}
            /\ \/ Started(Due(enable', started \ enable), started \ enable)
               \/ /\ ~({s \in Compatible(enable) : Ours(s)} \subseteq streams)
                  /\ Die("stream") /\ UNCHANGED <<started, failed>>
      BY <1>4 DEF Reconfigure
    <2>3. enable' \subseteq enable
      BY <2>2 DEF StillEnabled, Compatible
    <2>4. \A s \in enable' : Startable(s) => s \in modes'
      BY <2>2 DEF StillEnabled, Fitting, Startable
    <2>5. \A s : (Startable(s)' <=> Startable(s)) /\ (Ours(s)' <=> Ours(s))
      BY <2>1 DEF nodeVars, Startable, Ours
    <2>6. CASE Started(Due(enable', started \ enable), started \ enable)
      <3>1. started' \subseteq started \cup Due(enable', started \ enable) /\ dead' = dead
        BY <2>6 DEF Started, Return
      <3>2. node = "up" => Due(enable', started \ enable) \subseteq streams
        BY <2>3 DEF Due, StreamInv, Startable
      <3>3. StreamInv'
        BY <2>1, <2>3, <2>4, <2>5, <3>1, <3>2 DEF StreamInv, nodeVars, pollVars
      <3>4. QED BY <3>1, <3>3, DeathKept
    <2>7. CASE /\ ~({s \in Compatible(enable) : Ours(s)} \subseteq streams)
               /\ Die("stream") /\ UNCHANGED <<started, failed>>
      <3>1. node = "cleaned"
        BY <2>1, <2>7 DEF StreamInv, Compatible
      <3>2. DiesOnlyOf'
        BY <2>1, <2>7, <3>1 DEF DiesOnlyOf, Die
      <3>3. QED
        BY <2>1, <2>3, <2>4, <2>5, <2>7, <3>2 DEF StreamInv, nodeVars, pollVars
    <2>8. QED BY <2>2, <2>6, <2>7
  <1>5. QED BY <1>1, <1>2, <1>3, <1>4 DEF Callback

LEMMA CallbackPlace ==
  ASSUME Callback
  PROVE  at = "begun" /\ at' \in {"idle", "begun"} /\ uvc' = uvc
  <1>1. at = "begun" /\ uvc' = uvc
    BY DEF Callback, ImageSubscribed, ImageUnsubscribed, Toggle, Reconfigure,
           ForStream, Handling, nodeVars
  <1>2. at' = "idle" \/ at' = at
    BY DEF Callback, ImageSubscribed, ImageUnsubscribed, Toggle, Reconfigure,
           Start, Started, Return, Die
  <1>3. QED BY <1>1, <1>2

(* Clients, the poll thread and the first steps of the destructor.          *)
LEMMA OtherStream ==
  ASSUME StreamInv, dead = "no",
         Clients \/ Poll \/ CleanBegin \/ CleanStreams \/ MembersGone
  PROVE  StreamInv' /\ DiesOnlyOf' /\ at' = at /\ uvc' = uvc
  <1>1. CASE Clients
    <2>1. /\ UNCHANGED <<nodeVars, enable, modes, streams, started, forced, node, pollVars>>
          /\ dead' = dead /\ at' = at
      BY <1>1 DEF Clients, Subscribe, Unsubscribe, CallToggle, CallReconfigure, Queue,
                  cameraVars, streamVars
    <2>2. StreamInv'
      BY <2>1 DEF StreamInv, nodeVars, pollVars, Startable, Ours
    <2>3. QED BY <2>1, <2>2, DeathKept DEF nodeVars
  <1>2. CASE Poll
    <2>1. /\ UNCHANGED <<nodeVars, streamVars, node>> /\ dead' = dead /\ at' = at
          /\ poll' = "wait" => polled' \subseteq streams
      BY <1>2 DEF Poll, PollLook, PollWait, Listed, spinnerVars, pollVars, StreamInv
    <2>2. StreamInv'
      BY <2>1 DEF StreamInv, nodeVars, streamVars, Startable, Ours
    <2>3. QED BY <2>1, <2>2, DeathKept DEF nodeVars
  <1>3. CASE CleanBegin \/ CleanStreams
    <2>1. /\ UNCHANGED <<nodeVars, enable, modes, forced, pollVars>>
          /\ dead' = dead /\ at' = at /\ node' # "up"
          /\ UNCHANGED streams \/ poll = "ended"
      BY <1>3 DEF CleanBegin, CleanStreams, spinnerVars, streamVars
    <2>2. StreamInv'
      BY <2>1 DEF StreamInv, nodeVars, pollVars, Startable, Ours
    <2>3. QED BY <2>1, <2>2, DeathKept DEF nodeVars
  <1>4. CASE MembersGone
    <2>1. /\ UNCHANGED <<nodeVars, streamVars, pollVars>>
          /\ dead' = dead /\ at' = at /\ node' = "gone"
      BY <1>4 DEF MembersGone
    <2>2. StreamInv'
      BY <2>1 DEF StreamInv, nodeVars, streamVars, pollVars, Startable, Ours
    <2>3. QED BY <2>1, <2>2, DeathKept DEF nodeVars
  <1>5. QED BY <1>1, <1>2, <1>3, <1>4

-----------------------------------------------------------------------------
(* The UVC camera.                                                          *)

LEMMA SpinnerUvc ==
  ASSUME UvcInv, UvcCallback, uvc, uvc' = uvc, dead = "no"
  PROVE  UvcInv' /\ DiesOnlyOf'
  <1>1. CASE Enter
    BY <1>1, DeathKept DEF Enter, Here, Leave, Lockable, GoOn, Return, UvcInv, BufferInv, LockInv
  <1>2. CASE StartStreaming
    BY <1>2 DEF StartStreaming, Here, Leave, GoOn, Return, Die, UvcInv, BufferInv, LockInv,
                DiesOnlyOf
  <1>3. CASE SetVideoMode
    <2>1. /\ at = "mode"
          /\ UNCHANGED <<streaming, usb, buffer, frame, holder, viewers, shut>>
      BY <1>3 DEF SetVideoMode, Here
    <2>2. CASE ~handle /\ Die("handle") /\ UNCHANGED <<handle, refused>>
      <3>1. at' = at /\ (refused \/ shut = "closed") /\ dead' = "handle"
        BY <2>2 DEF Die, UvcInv, LockInv
      <3>2. DiesOnlyOf'
        BY <2>1, <2>2, <3>1 DEF DiesOnlyOf
      <3>3. QED BY <2>1, <2>2, <3>1, <3>2 DEF UvcInv, BufferInv, LockInv
    <2>3. CASE /\ handle /\ GoOn("open")
               /\ (UNCHANGED <<handle, refused>> \/ (handle' = FALSE /\ refused' = TRUE))
      <3>1. at' = "open" /\ dead' = dead
        BY <2>3 DEF GoOn
      <3>2. ~buffer /\ ~streaming
        BY <2>1 DEF UvcInv, BufferInv
      <3>3. BufferInv'
        BY <2>1, <2>3, <3>1, <3>2 DEF UvcInv, BufferInv
      <3>4. LockInv'
        BY <2>1, <2>3, <3>1, <3>2 DEF UvcInv, LockInv
      <3>5. QED BY <3>1, <3>3, <3>4, DeathKept DEF UvcInv
    <2>4. QED BY <1>3, <2>2, <2>3 DEF SetVideoMode
  <1>4. CASE OpenStream
    <2>1. /\ at = "open" /\ Lockable /\ UNCHANGED <<streaming, buffer, frame, viewers, shut>>
      BY <1>4 DEF OpenStream, Here
    <2>2. ~buffer /\ ~streaming /\ frame = "between"
      BY <2>1 DEF UvcInv, BufferInv
    <2>3. CASE ~handle /\ Die("handle") /\ UNCHANGED <<handle, usb, holder, refused>>
      <3>1. at' = at /\ (refused \/ shut = "closed") /\ dead' = "handle"
        BY <2>3 DEF Die, UvcInv, LockInv
      <3>2. DiesOnlyOf'
        BY <2>1, <2>3, <3>1 DEF DiesOnlyOf
      <3>3. QED BY <2>1, <2>3, <3>1, <3>2 DEF UvcInv, BufferInv, LockInv
    <2>4. CASE /\ handle
               /\ GoOn("buffer") /\ holder' = "spinner"
               /\ usb' = TRUE /\ UNCHANGED <<handle, refused>>
      <3>1. at' = "buffer" /\ dead' = dead
        BY <2>4 DEF GoOn
      <3>2. shut = "no"
        BY <2>1, <2>4 DEF UvcInv, LockInv, Lockable
      <3>3. BufferInv'
        BY <2>1, <2>2, <2>4, <3>1 DEF UvcInv, BufferInv
      <3>4. LockInv'
        BY <2>1, <2>2, <2>4, <3>1, <3>2 DEF UvcInv, LockInv
      <3>5. QED BY <3>1, <3>3, <3>4, DeathKept DEF UvcInv
    <2>5. CASE /\ handle
               /\ Leave
               /\ handle' = FALSE /\ refused' = TRUE /\ UNCHANGED usb
      <3>1. at' = "idle" /\ dead' = dead /\ (holder = "spinner" \/ holder' = holder)
        BY <2>5 DEF Leave, Return
      <3>2. BufferInv'
        BY <2>1, <2>2, <2>5, <3>1 DEF UvcInv, BufferInv
      <3>3. LockInv'
        BY <2>1, <2>2, <2>5, <3>1 DEF UvcInv, LockInv
      <3>4. QED BY <3>1, <3>2, <3>3, DeathKept DEF UvcInv
    <2>6. QED BY <1>4, <2>3, <2>4, <2>5 DEF OpenStream
  <1>5. CASE AllocateBuffer
    BY <1>5, DeathKept DEF AllocateBuffer, Here, Leave, Return, UvcInv, BufferInv, LockInv
  <1>6. CASE StopStreaming
    <2>1. at = "stop" /\ UNCHANGED <<handle, streaming, buffer, frame, viewers, shut, refused>>
      BY <1>6 DEF StopStreaming, Here
    <2>2. CASE ~streaming /\ Leave /\ UNCHANGED usb
      <3>1. at' = "idle" /\ dead' = dead /\ (holder = "spinner" \/ holder' = holder)
        BY <2>2 DEF Leave, Return
      <3>2. BufferInv'
        BY <2>1, <2>2, <3>1 DEF UvcInv, BufferInv
      <3>3. LockInv'
        BY <2>1, <2>2, <3>1 DEF UvcInv, LockInv
      <3>4. QED BY <3>1, <3>2, <3>3, DeathKept DEF UvcInv
    <2>3. CASE ~handle /\ Die("handle") /\ UNCHANGED <<usb, holder>>
      <3>1. at' = at /\ (refused \/ shut = "closed") /\ dead' = "handle"
        BY <2>3 DEF Die, UvcInv, LockInv
      <3>2. DiesOnlyOf'
        BY <2>1, <2>3, <3>1 DEF DiesOnlyOf
      <3>3. QED BY <2>1, <2>3, <3>1, <3>2 DEF UvcInv, BufferInv, LockInv
    <2>4. CASE /\ streaming /\ Lockable
               /\ GoOn("joining") /\ holder' = "spinner" /\ usb' = FALSE
      <3>1. at' = "joining" /\ dead' = dead
        BY <2>4 DEF GoOn
      <3>2. frame # "converted" /\ shut # "closing"
        BY <2>4 DEF UvcInv, LockInv, Lockable
      <3>3. BufferInv'
        BY <2>1, <2>4, <3>1 DEF UvcInv, BufferInv
      <3>4. LockInv'
        BY <2>1, <2>4, <3>1, <3>2 DEF UvcInv, LockInv
      <3>5. QED BY <3>1, <3>3, <3>4, DeathKept DEF UvcInv
    <2>5. QED BY <1>6, <2>2, <2>3, <2>4 DEF StopStreaming
  <1>7. CASE StopJoined
    BY <1>7, DeathKept DEF StopJoined, Here, Leave, Return, UvcInv, BufferInv, LockInv
  <1>8. QED BY <1>1, <1>2, <1>3, <1>4, <1>5, <1>6, <1>7 DEF UvcCallback

LEMMA OtherUvc ==
  ASSUME UvcInv, uvc' = uvc, dead = "no",
         UvcClients \/ FrameComes \/ FrameLocks \/ FramePublished \/ Shut
  PROVE  UvcInv' /\ DiesOnlyOf'
  <1>1. CASE UvcClients
    <2>1. /\ UNCHANGED <<handle, streaming, usb, buffer, frame, holder, shut, refused>>
          /\ UNCHANGED <<at, dead>>
      BY <1>1 DEF UvcClients, View, Unview, CallToggleUvc, Queue, uvcVars
    <2>2. QED BY <2>1, DeathKept DEF UvcInv, BufferInv, LockInv
  <1>2. CASE FrameComes
    BY <1>2 DEF FrameComes, Die, spinnerVars, UvcInv, BufferInv, LockInv, DiesOnlyOf
  <1>3. CASE FrameLocks \/ FramePublished
    BY <1>3, DeathKept DEF FrameLocks, FramePublished, spinnerVars, UvcInv, BufferInv, LockInv
  <1>4. CASE Shut
    <2>1. UNCHANGED <<at, dead, streaming, frame, refused>>
      BY <1>4 DEF Shut, spinnerVars
    <2>2. CASE /\ shut = "no" /\ holder = "nobody" /\ UNCHANGED <<handle, buffer>>
               /\ shut' = "closing" /\ holder' = "closer" /\ usb' = FALSE
      <3>1. BufferInv'
        BY <2>1, <2>2 DEF UvcInv, BufferInv
      <3>2. LockInv'
        BY <2>1, <2>2 DEF UvcInv, LockInv
      <3>3. QED BY <2>1, <3>1, <3>2, DeathKept DEF UvcInv
    <2>3. CASE /\ shut = "closing" /\ frame = "between" /\ UNCHANGED usb
               /\ shut' = "closed" /\ holder' = "nobody" /\ handle' = FALSE /\ buffer' = FALSE
      <3>1. ~usb /\ at \notin {"buffer", "joining"}
        BY <2>3 DEF UvcInv, LockInv
      <3>2. BufferInv'
        BY <2>1, <2>3, <3>1 DEF UvcInv, BufferInv
      <3>3. LockInv'
        BY <2>1, <2>3, <3>1 DEF UvcInv, LockInv
      <3>4. QED BY <2>1, <3>2, <3>3, DeathKept DEF UvcInv
    <2>4. QED BY <1>4, <2>2, <2>3 DEF Shut
  <1>5. QED BY <1>1, <1>2, <1>3, <1>4

-----------------------------------------------------------------------------
LEMMA IInvInductive == IInv /\ [Next]_vars => IInv'
  <1> SUFFICES ASSUME IInv, [Next]_vars PROVE IInv'
    OBVIOUS
  <1> USE DEF IInv
  <1>1. CASE Next
    <2>1. dead = "no"
      BY <1>1 DEF Next
    <2>2. CASE /\ Clients \/ CleanBegin \/ Poll \/ CleanStreams \/ MembersGone
               /\ UNCHANGED uvcVars
      BY <2>1, <2>2, OtherStream, UvcKept
    <2>3. CASE Callback /\ UNCHANGED uvcVars
      BY <2>1, <2>3, CallbackStream, CallbackPlace, UvcKept
    <2>4. CASE uvc /\ UvcCallback /\ UNCHANGED cameraVars
      <3>1. uvc' = uvc
        BY <2>4 DEF cameraVars, nodeVars
      <3>2. QED BY <2>1, <2>4, <3>1, SpinnerUvc, StreamKept
    <2>5. CASE /\ UvcClients \/ FrameComes \/ FrameLocks \/ FramePublished \/ Shut
               /\ UNCHANGED cameraVars
      <3>1. uvc' = uvc
        BY <2>5 DEF cameraVars, nodeVars
      <3>2. QED BY <2>1, <2>5, <3>1, OtherUvc, StreamKept
    <2>6. CASE Take /\ UNCHANGED <<cameraVars, uvcVars>>
      <3>1. at = "idle" /\ at' = "begun" /\ dead' = dead /\ uvc' = uvc
        BY <2>6 DEF Take, cameraVars, nodeVars
      <3>2. QED BY <2>1, <2>6, <3>1, UvcKept, StreamKept, DeathKept
    <2>7. CASE UvcGone
      <3>1. /\ UNCHANGED <<at, dead, nodeVars, streamVars, watchers, pollVars, uvcVars>>
            /\ node' = "cleaned"
        BY <2>7 DEF UvcGone
      <3>2. StreamInv'
        BY <3>1 DEF StreamInv, nodeVars, streamVars, pollVars, Startable, Ours
      <3>3. UvcInv'
        BY <3>1, UvcKept DEF nodeVars
      <3>4. QED BY <2>1, <3>1, <3>2, <3>3, DeathKept
    <2>8. QED
      BY <1>1, <2>2, <2>3, <2>4, <2>5, <2>6, <2>7
         DEF Next, Outside, Threads, SpinnerThread, PollThread, FrameCallback, Destructor
  <1>2. CASE UNCHANGED vars
    <2>1. UNCHANGED <<cameraVars, uvcVars, at, dead, uvc>>
      BY <1>2 DEF vars, spinnerVars, cameraVars, nodeVars
    <2>2. DiesOnlyOf'
      BY <2>1 DEF DiesOnlyOf, cameraVars, streamVars, uvcVars
    <2>3. QED BY <2>1, <2>2, StreamKept, UvcKept
  <1>3. QED BY <1>1, <1>2

(* The poll thread, which takes no lock, is joined before the streams are   *)
(* destroyed (ob_camera_node.cpp 41-50), and a frame's callback before its  *)
(* buffer is freed (uvc_camera_driver.cpp 320-325), for any clients.        *)
THEOREM MemoryCorrect == Spec => []MemorySafe
  BY IInvMemory, InitIInv, IInvInductive, PTL DEF Spec

(* Whatever the clients, the driver and the destructor do, the process dies *)
(* of the four things DiesOnlyOf names and of nothing else.                 *)
THEOREM DeathCorrect == Spec => []DiesOnlyOf
  <1>1. IInv => DiesOnlyOf
    BY DEF IInv
  <1>2. QED BY <1>1, InitIInv, IInvInductive, PTL DEF Spec

-----------------------------------------------------------------------------
(* Types.  One part of TypeOK for each of the modules CameraNode is made of.*)

SpinnerTypes ==
  /\ queue \in Seq(Callbacks) /\ Len(queue) <= MaxQueue
  /\ call \in Callbacks \cup {NoCall} /\ (at = "idle" <=> call = NoCall)
  /\ at \in {"idle", "begun", "start", "mode", "open", "buffer", "stop", "joining"}
  /\ at \notin {"idle", "begun"} => call.on = "uvc"
  /\ dead \in {"no", "mode", "stream", "handle", "buffer"}

StreamTypes ==
  /\ uvc \in BOOLEAN /\ pro \in BOOLEAN
  /\ offered \subseteq Streams /\ enable \subseteq offered /\ streams \subseteq offered
  /\ modes \subseteq offered /\ started \subseteq modes
  /\ failed \subseteq Streams /\ forced \subseteq Streams
  /\ watchers \in [Streams -> 0..MaxWatchers]
  /\ node \in {"up", "joining", "uvc", "cleaned", "gone"}
  /\ poll \in {"look", "wait", "ended"} /\ polled \subseteq Streams

UvcTypes ==
  /\ viewers \in 0..MaxViewers
  /\ {handle, streaming, usb, buffer, refused} \subseteq BOOLEAN
  /\ frame \in {"between", "checked", "converted"}
  /\ holder \in {"nobody", "spinner", "frame", "closer"}
  /\ shut \in {"no", "closing", "closed"}
  /\ at \in {"buffer", "joining"} => holder = "spinner"
  /\ frame = "converted" <=> holder = "frame"
  /\ shut = "closing" <=> holder = "closer"

Types == SpinnerTypes /\ StreamTypes /\ UvcTypes

LEMMA TypesAreTypeOK == Types <=> TypeOK
  BY DEF Types, SpinnerTypes, StreamTypes, UvcTypes, TypeOK

LEMMA InitTypes == Init => Types
  <1> SUFFICES ASSUME Init PROVE Types
    OBVIOUS
  <1>1. SpinnerTypes
    BY QueueAssumption DEF Init, SpinnerInit, SpinnerTypes, NoCall
  <1>2. StreamTypes
    <2>1. uvc \in BOOLEAN /\ pro \in BOOLEAN /\ offered \subseteq Streams
      BY SetupsAssumption DEF Init, StreamsInit
    <2>2. enable \subseteq offered /\ modes \subseteq offered
      BY DEF Init, StreamsInit, StillEnabled, Fitting, Compatible
    <2>3. watchers \in [Streams -> 0..MaxWatchers]
      BY WatchersAssumption DEF Init, StreamsInit
    <2>4. QED BY <2>1, <2>2, <2>3 DEF Init, StreamsInit, StreamTypes
  <1>3. UvcTypes
    <2>1. /\ handle = uvc /\ streaming = FALSE /\ usb = FALSE /\ buffer = FALSE
          /\ refused = FALSE /\ frame = "between" /\ holder = "nobody" /\ viewers = 0
          /\ shut = "no" /\ at = "idle"
      BY DEF Init, SpinnerInit, UvcInit
    <2>2. {handle, streaming, usb, buffer, refused} \subseteq BOOLEAN
      <3>1. uvc \in BOOLEAN
        BY <1>2 DEF StreamTypes
      <3>2. QED BY <2>1, <3>1, Zenon
    <2>3. viewers \in 0..MaxViewers
      BY <2>1, ViewersAssumption
    <2>4. QED BY <2>1, <2>2, <2>3 DEF UvcTypes
  <1>4. QED BY <1>1, <1>2, <1>3 DEF Types

-----------------------------------------------------------------------------
(* What a handler and a client do to the spinner.                           *)

LEMMA CallbackFields ==
  /\ \A c \in Callbacks : c.do # "nothing"
  /\ NoCall \notin Callbacks
  <1>1. \A c \in Callbacks : c.do # "nothing"
    BY DEF Callbacks
  <1>2. NoCall.do = "nothing"
    BY DEF NoCall
  <1>3. QED BY <1>1, <1>2

LEMMA QueueTypes ==
  ASSUME SpinnerTypes, NEW do, NEW on, Queue(do, on), [do |-> do, on |-> on] \in Callbacks
  PROVE  SpinnerTypes'
  <1>1. /\ queue' = Append(queue, [do |-> do, on |-> on])
        /\ Len(queue) < MaxQueue /\ UNCHANGED <<call, at, dead>>
    BY DEF Queue
  <1>2. queue' \in Seq(Callbacks) /\ Len(queue') <= MaxQueue
    <2>1. queue' \in Seq(Callbacks) /\ Len(queue') = Len(queue) + 1
      BY <1>1 DEF SpinnerTypes
    <2>2. QED BY <1>1, <2>1, QueueAssumption DEF SpinnerTypes
  <1>3. QED BY <1>1, <1>2 DEF SpinnerTypes

LEMMA TakeTypes ==
  ASSUME SpinnerTypes, Take
  PROVE  SpinnerTypes'
  <1>1. /\ Head(queue) \in Callbacks /\ Tail(queue) \in Seq(Callbacks)
        /\ Len(Tail(queue)) = Len(queue) - 1
    BY DEF SpinnerTypes, Take
  <1>2. QED BY <1>1, CallbackFields, QueueAssumption DEF SpinnerTypes, Take

LEMMA HandlerTypes ==
  ASSUME SpinnerTypes, at # "idle",
         \/ Return
         \/ /\ call.on = "uvc"
            /\ \E place \in {"start", "mode", "open", "buffer", "stop", "joining"} : GoOn(place)
         \/ \E why \in {"mode", "stream", "handle", "buffer"} : Die(why)
  PROVE  SpinnerTypes'
  BY DEF SpinnerTypes, Return, GoOn, Die

LEMMA SpinnerKept ==
  ASSUME UNCHANGED spinnerVars
  PROVE  SpinnerTypes <=> SpinnerTypes'
  BY DEF SpinnerTypes, spinnerVars

LEMMA StreamTypesKept ==
  ASSUME StreamTypes, UNCHANGED cameraVars
  PROVE  StreamTypes'
  BY DEF StreamTypes, cameraVars, nodeVars, streamVars, pollVars

LEMMA UvcTypesKept ==
  ASSUME UvcTypes, UNCHANGED uvcVars,
         at' = at \/ (at \in {"idle", "begun"} /\ at' \in {"idle", "begun"})
  PROVE  UvcTypes'
  BY DEF UvcTypes, uvcVars

-----------------------------------------------------------------------------
(* Each action keeps the types.                                             *)

LEMMA OneMoreWatcher ==
  ASSUME StreamTypes, Watched < MaxWatchers
  PROVE  \A s \in Streams : watchers[s] < MaxWatchers
  <1>1. \A t \in {"DEPTH", "INFRA1", "COLOR"} : WatchersOf(t) \in Nat
    BY WatchersAssumption DEF StreamTypes, WatchersOf
  <1>2. SUFFICES ASSUME NEW s \in Streams PROVE watchers[s] < MaxWatchers
    OBVIOUS
  <1>3. watchers[s] = WatchersOf(s) /\ s \in {"DEPTH", "INFRA1", "COLOR"}
    BY StreamsAssumption DEF WatchersOf
  <1>4. WatchersOf(s) <= Watched
    BY <1>1, <1>3 DEF Watched
  <1>5. QED BY <1>1, <1>3, <1>4, WatchersAssumption DEF Watched

LEMMA ClientsTypes ==
  ASSUME SpinnerTypes, StreamTypes, Clients
  PROVE  SpinnerTypes' /\ StreamTypes'
  <1>1. ASSUME NEW s \in Streams, Subscribe(s)
        PROVE  SpinnerTypes' /\ StreamTypes'
    <2>1. watchers' \in [Streams -> 0..MaxWatchers]
      <3>1. watchers[s] + 1 \in 0..MaxWatchers
        BY <1>1, OneMoreWatcher, WatchersAssumption DEF Subscribe, StreamTypes
      <3>2. QED BY <1>1, <3>1 DEF Subscribe, StreamTypes
    <2>2. StreamTypes'
      BY <1>1, <2>1 DEF Subscribe, StreamTypes, nodeVars, streamVars, pollVars
    <2>3. [do |-> "subscribed", on |-> s] \in Callbacks
      BY DEF Callbacks
    <2>4. QED BY <1>1, <2>2, <2>3, QueueTypes DEF Subscribe
  <1>2. ASSUME NEW s \in Streams, Unsubscribe(s)
        PROVE  SpinnerTypes' /\ StreamTypes'
    <2>1. watchers' \in [Streams -> 0..MaxWatchers]
      <3>1. watchers[s] - 1 \in 0..MaxWatchers
        BY <1>2, WatchersAssumption DEF Unsubscribe, StreamTypes
      <3>2. QED BY <1>2, <3>1 DEF Unsubscribe, StreamTypes
    <2>2. StreamTypes'
      BY <1>2, <2>1 DEF Unsubscribe, StreamTypes, nodeVars, pollVars
    <2>3. [do |-> "unsubscribed", on |-> s] \in Callbacks
      BY DEF Callbacks
    <2>4. QED BY <1>2, <2>2, <2>3, QueueTypes DEF Unsubscribe
  <1>3. ASSUME NEW s \in Streams, NEW do \in {"on", "off"}, CallToggle(s, do)
        PROVE  SpinnerTypes' /\ StreamTypes'
    <2>1. [do |-> do, on |-> s] \in Callbacks
      BY DEF Callbacks
    <2>2. QED BY <1>3, <2>1, QueueTypes, StreamTypesKept DEF CallToggle
  <1>4. CASE CallReconfigure
    <2>1. [do |-> "reconfigure", on |-> "node"] \in Callbacks
      BY DEF Callbacks
    <2>2. QED BY <1>4, <2>1, QueueTypes, StreamTypesKept DEF CallReconfigure
  <1>5. QED BY <1>1, <1>2, <1>3, <1>4 DEF Clients

(* What startStream and the driver make of the streams that are due.        *)
LEMMA StartTypes ==
  ASSUME StreamTypes, SpinnerTypes, at # "idle", NEW due, NEW running,
         due \subseteq Streams, running \subseteq modes, modes \subseteq modes',
         \/ due \subseteq modes' /\ Started(due, running)
         \/ UNCHANGED <<started, failed>> /\ \E why \in {"mode", "stream"} : Die(why)
  PROVE  /\ started' \subseteq modes' /\ failed' \subseteq Streams
         /\ SpinnerTypes'
  <1>1. started' \subseteq modes' /\ failed' \subseteq Streams
    BY DEF StreamTypes, Started
  <1>2. SpinnerTypes'
    BY HandlerTypes DEF Started
  <1>3. QED BY <1>1, <1>2

LEMMA CallbackTypes ==
  ASSUME SpinnerTypes, StreamTypes, Callback
  PROVE  SpinnerTypes' /\ StreamTypes'
  <1>1. at # "idle"
    BY CallbackPlace
  <1>2. CASE ImageSubscribed
    <2>1. UNCHANGED <<nodeVars, enable, modes, streams, forced, watchers, node, pollVars>>
      BY <1>2 DEF ImageSubscribed
    <2> DEFINE due == Due(enable, started) \cap {call.on}
    <2>2. due \subseteq Streams
      BY DEF Due, StreamTypes
    <2>3. /\ started' \subseteq modes' /\ failed' \subseteq Streams
          /\ SpinnerTypes'
      <3>1. started \subseteq modes /\ modes \subseteq modes'
        BY <2>1 DEF StreamTypes
      <3>2. \/ due \subseteq modes' /\ Started(due, started)
            \/ UNCHANGED <<started, failed>> /\ Die("mode")
        BY <1>2, <2>1 DEF ImageSubscribed, Start
      <3> HIDE DEF due
      <3>3. QED BY <1>1, <2>2, <3>1, <3>2, StartTypes
    <2>4. QED BY <2>1, <2>3 DEF StreamTypes, nodeVars, pollVars
  <1>3. CASE ImageUnsubscribed
    <2>1. /\ UNCHANGED <<nodeVars, enable, modes, streams, failed, forced, watchers, node,
                         pollVars>>
          /\ started' \subseteq started /\ Return
      BY <1>3 DEF ImageUnsubscribed
    <2>2. SpinnerTypes'
      BY <1>1, <2>1, HandlerTypes
    <2>3. QED BY <2>1, <2>2 DEF StreamTypes, nodeVars, pollVars
  <1>4. CASE Toggle
    <2>1. /\ UNCHANGED <<nodeVars, modes, streams, watchers, node, pollVars>>
          /\ call.on \in offered
      BY <1>4 DEF Toggle, ForStream
    <2>2. enable' \subseteq offered
      BY <1>4, <2>1 DEF Toggle, StreamTypes
    <2>3. forced' \subseteq Streams
      BY <1>4, <2>2 DEF Toggle, StreamTypes
    <2> DEFINE running == started \ enable'
    <2> DEFINE due == Due(enable', running)
    <2>4. /\ started' \subseteq modes' /\ failed' \subseteq Streams
          /\ SpinnerTypes'
      <3>1. due \subseteq Streams /\ running \subseteq modes /\ modes \subseteq modes'
        BY <2>1, <2>2 DEF StreamTypes, Due
      <3>2. \/ due \subseteq modes' /\ Started(due, running)
            \/ UNCHANGED <<started, failed>> /\ \E why \in {"mode", "stream"} : Die(why)
        BY <1>4, <2>1 DEF Toggle, Start
      <3> HIDE DEF due, running
      <3>3. QED BY <1>1, <3>1, <3>2, StartTypes
    <2>5. QED BY <2>1, <2>2, <2>3, <2>4 DEF StreamTypes, nodeVars, pollVars
  <1>5. CASE Reconfigure
    <2>1. UNCHANGED <<nodeVars, streams, forced, watchers, node, pollVars>>
      BY <1>5 DEF Reconfigure
    <2>2. PICK fits \in SUBSET Streams :
            /\ enable' = StillEnabled(enable, fits)
            /\ modes' = modes \cup {s \in Fitting(enable, fits) : Ours(s)}
            /\ \/ Started(Due(enable', started \ enable), started \ enable)
               \/ Die("stream") /\ UNCHANGED <<started, failed>>
      BY <1>5 DEF Reconfigure
    <2>3. enable' \subseteq offered /\ modes' \subseteq offered /\ modes \subseteq modes'
      BY <2>2 DEF StillEnabled, Fitting, Compatible, StreamTypes
    <2> DEFINE running == started \ enable
    <2> DEFINE due == Due(enable', running)
    <2>4. due \subseteq modes' /\ due \subseteq Streams /\ running \subseteq modes
      BY <2>2, <2>3 DEF Due, Startable, StillEnabled, Fitting, StreamTypes
    <2>5. /\ started' \subseteq modes' /\ failed' \subseteq Streams
          /\ SpinnerTypes'
      <3>1. \/ due \subseteq modes' /\ Started(due, running)
            \/ UNCHANGED <<started, failed>> /\ Die("stream")
        BY <2>2, <2>4
      <3> HIDE DEF due, running
      <3>2. QED BY <1>1, <2>3, <2>4, <3>1, StartTypes
    <2>6. QED BY <2>1, <2>3, <2>5 DEF StreamTypes, nodeVars, pollVars
  <1>6. QED BY <1>2, <1>3, <1>4, <1>5 DEF Callback

LEMMA UvcClientsTypes ==
  ASSUME SpinnerTypes, UvcTypes, UvcClients
  PROVE  SpinnerTypes' /\ UvcTypes'
  <1>1. \A do \in {"subscribed", "unsubscribed", "on", "off"} :
          [do |-> do, on |-> "uvc"] \in Callbacks
    BY DEF Callbacks
  <1>2. PICK do \in {"subscribed", "unsubscribed", "on", "off"} : Queue(do, "uvc")
    BY DEF UvcClients, View, Unview, CallToggleUvc
  <1>3. SpinnerTypes'
    BY <1>1, <1>2, QueueTypes
  <1>4. /\ UNCHANGED <<at, handle, streaming, usb, buffer, frame, holder, shut, refused>>
        /\ viewers' \in 0..MaxViewers
    BY <1>2, ViewersAssumption
       DEF UvcClients, View, Unview, CallToggleUvc, uvcVars, UvcTypes, Queue
  <1>5. QED BY <1>3, <1>4 DEF UvcTypes

LEMMA UvcCallbackTypes ==
  ASSUME SpinnerTypes, UvcTypes, UvcCallback
  PROVE  SpinnerTypes' /\ UvcTypes'
  <1>1. at # "idle" /\ call.on = "uvc"
    BY DEF UvcCallback, Enter, StartStreaming, SetVideoMode, OpenStream, AllocateBuffer,
           StopStreaming, StopJoined, Here
  <1>2. SpinnerTypes'
    <2>1. \/ Return
          \/ \E place \in {"start", "mode", "open", "buffer", "stop", "joining"} : GoOn(place)
          \/ \E why \in {"mode", "stream", "handle", "buffer"} : Die(why)
      BY DEF UvcCallback, Enter, StartStreaming, SetVideoMode, OpenStream, AllocateBuffer,
             StopStreaming, StopJoined, Leave
    <2>2. QED BY <1>1, <2>1, HandlerTypes
  <1>3. UvcTypes'
    <2>1. UNCHANGED <<frame, viewers, shut>>
      BY DEF UvcCallback, Enter, StartStreaming, SetVideoMode, OpenStream, AllocateBuffer,
             StopStreaming, StopJoined
    <2>2. {handle', streaming', usb', buffer', refused'} \subseteq BOOLEAN
      <3>1. /\ handle' \in {handle, FALSE} /\ streaming' \in {streaming, TRUE, FALSE}
            /\ usb' \in {usb, TRUE, FALSE} /\ buffer' \in {buffer, TRUE, FALSE}
            /\ refused' \in {refused, TRUE}
        BY DEF UvcCallback, Enter, StartStreaming, SetVideoMode, OpenStream, AllocateBuffer,
               StopStreaming, StopJoined
      <3>2. {handle, streaming, usb, buffer, refused} \subseteq BOOLEAN
        BY DEF UvcTypes
      <3>3. QED BY <3>1, <3>2, Zenon
    <2>3. /\ holder' \in {holder, "spinner", "nobody"}
          /\ holder' # holder => holder \in {"nobody", "spinner"}
          /\ at' \in {"buffer", "joining"} => holder' = "spinner"
      BY DEF UvcCallback, Enter, StartStreaming, SetVideoMode, OpenStream, AllocateBuffer,
             StopStreaming, StopJoined, Here, Leave, Lockable, Return, GoOn, Die, UvcTypes
    <2>4. QED BY <2>1, <2>2, <2>3 DEF UvcTypes
  <1>4. QED BY <1>2, <1>3

LEMMA FrameTypes ==
  ASSUME SpinnerTypes, UvcTypes, FrameComes \/ FrameLocks \/ FramePublished \/ Shut
  PROVE  SpinnerTypes' /\ UvcTypes'
  <1>1. UNCHANGED <<queue, call, at, viewers>> /\ dead' \in {dead, "buffer"}
    BY DEF FrameComes, FrameLocks, FramePublished, Shut, spinnerVars, Die
  <1>2. SpinnerTypes'
    BY <1>1 DEF SpinnerTypes
  <1>3. {handle', streaming', usb', buffer', refused'} \subseteq BOOLEAN
    <2>1. /\ handle' \in {handle, FALSE} /\ streaming' = streaming
          /\ usb' \in {usb, FALSE} /\ buffer' \in {buffer, FALSE} /\ refused' = refused
      BY DEF FrameComes, FrameLocks, FramePublished, Shut
    <2>2. {handle, streaming, usb, buffer, refused} \subseteq BOOLEAN
      BY DEF UvcTypes
    <2>3. QED BY <2>1, <2>2, Zenon
  <1>4. /\ frame' \in {"between", "checked", "converted"}
        /\ holder' \in {"nobody", "spinner", "frame", "closer"}
        /\ shut' \in {"no", "closing", "closed"}
        /\ at' \in {"buffer", "joining"} => holder' = "spinner"
        /\ frame' = "converted" <=> holder' = "frame"
        /\ shut' = "closing" <=> holder' = "closer"
    BY <1>1 DEF FrameComes, FrameLocks, FramePublished, Shut, UvcTypes
  <1>5. QED BY <1>1, <1>2, <1>3, <1>4 DEF UvcTypes

-----------------------------------------------------------------------------
(* The callbacks left in the queue, taken from it one after the other.      *)

(* Induction, in terms of a set: what holds of 0, and of each number if it   *)
(* holds of the one before, holds of m.                                     *)
LEMMA UpTo ==
  ASSUME NEW m \in Nat, NEW S, 0 \in S, \A i \in 1..m : i - 1 \in S => i \in S
  PROVE  m \in S
  <1> DEFINE Out == {i \in 0..m : i \notin S}
  <1> DEFINE R == OpToRel(<, Nat)
  <1>1. SUFFICES ASSUME m \notin S PROVE FALSE
    OBVIOUS
  <1>2. R = {ss \in Nat \X Nat : ss[1] < ss[2]}
    BY DEF OpToRel
  <1>3. IsWellFoundedOn(R, Nat)
    BY NatLessThanWellFounded
  <1>4. PICK least \in Out : \A k \in Out : <<k, least>> \notin R
    <2>1. Out \subseteq Nat /\ Out # {}
      BY <1>1
    <2> HIDE DEF R, Out
    <2>2. QED BY <1>3, <2>1, WFMin
  <1> HIDE DEF R
  <1>5. least \in 1..m /\ least \notin S
    OBVIOUS
  <1>6. <<least - 1, least>> \in R /\ least - 1 \in 0..m
    BY <1>2, <1>5
  <1>7. least - 1 \in S
    BY <1>4, <1>6
  <1>8. QED BY <1>5, <1>7

(* A first value in T, and the step to each of the n values after it.       *)
Steps(n, T, c, G) == n \in Nat /\ c \in T /\ G \in [1..n -> [T -> T]]
Follows(f, n, T, c, G) ==
  f \in [0..n -> T] /\ f[0] = c /\ \A i \in 1..n : f[i] = G[i][f[i - 1]]

(* They determine a function on 0..n.                                       *)
LEMMA RecursionExists ==
  ASSUME NEW n, NEW T, NEW c, NEW G, Steps(n, T, c, G)
  PROVE  \E f : Follows(f, n, T, c, G)
  <1>1. n \in Nat /\ c \in T /\ G \in [1..n -> [T -> T]]
    BY DEF Steps
  <1> DEFINE S == {m \in 0..n : \E f : Follows(f, m, T, c, G)}
  <1>2. 0 \in S
    <2>1. Follows([i \in 0..0 |-> c], 0, T, c, G)
      BY <1>1 DEF Follows
    <2>2. QED BY <1>1, <2>1
  <1>3. ASSUME NEW m \in 1..n, m - 1 \in S
        PROVE  m \in S
    <2>1. PICK f : Follows(f, m - 1, T, c, G)
      BY <1>3
    <2> DEFINE g == [i \in 0..m |-> IF i = m THEN G[m][f[m - 1]] ELSE f[i]]
    <2>2. G[m][f[m - 1]] \in T
      BY <1>1, <2>1 DEF Follows
    <2>3. g \in [0..m -> T]
      <3>1. \A i \in 0..m : i # m => i \in 0..m - 1
        BY <1>1
      <3>2. QED BY <2>1, <2>2, <3>1 DEF Follows
    <2>4. g[0] = c
      BY <1>1, <2>1 DEF Follows
    <2>5. ASSUME NEW i \in 1..m PROVE g[i] = G[i][g[i - 1]]
      <3>1. g[i - 1] = f[i - 1]
        BY <1>1
      <3>2. CASE i = m
        BY <1>1, <3>1, <3>2
      <3>3. CASE i # m
        <4>1. i \in 1..m - 1 /\ g[i] = f[i]
          BY <1>1, <3>3
        <4>2. QED BY <2>1, <3>1, <4>1 DEF Follows
      <3>4. QED BY <3>2, <3>3
    <2>6. Follows(g, m, T, c, G)
      BY <2>3, <2>4, <2>5 DEF Follows
    <2>7. QED BY <1>1, <2>6
  <1>4. n \in S
    <2> HIDE DEF S
    <2>1. \A m \in 1..n : m - 1 \in S => m \in S
      BY <1>3
    <2>2. QED BY <1>1, <1>2, <2>1, UpTo
  <1>5. QED BY <1>4

(* What is left in the queue are callbacks, and not more than there were.   *)
LEMMA WithoutUvcTypes ==
  ASSUME queue \in Seq(Callbacks)
  PROVE  WithoutUvc \in Seq(Callbacks) /\ Len(WithoutUvc) <= Len(queue)
  <1> DEFINE N == Len(queue)
  <1> DEFINE T == Seq(Callbacks)
  <1> DEFINE Kept == CHOOSE f : f = [i \in 0..N |->
                       IF i = 0 THEN << >>
                       ELSE IF queue[i].on # "uvc" THEN Append(f[i - 1], queue[i])
                                                   ELSE f[i - 1]]
  <1>1. WithoutUvc = Kept[N]
    BY DEF WithoutUvc
  <1>2. N \in Nat /\ \A i \in 1..N : queue[i] \in Callbacks
    OBVIOUS
  <1> DEFINE G == [i \in 1..N |-> [v \in T |->
                    IF queue[i].on # "uvc" THEN Append(v, queue[i]) ELSE v]]
  <1>3. G \in [1..N -> [T -> T]]
    BY <1>2
  <1>4. PICK f : Follows(f, N, T, << >>, G)
    <2>1. Steps(N, T, << >>, G)
      <3>1. << >> \in T
        OBVIOUS
      <3>2. QED BY <1>2, <1>3, <3>1 DEF Steps
    <2> HIDE DEF G, T, N
    <2>2. QED BY <2>1, RecursionExists
  <1>5. \A i \in 1..N : f[i] = IF queue[i].on # "uvc" THEN Append(f[i - 1], queue[i])
                                                      ELSE f[i - 1]
    <2>1. \A i \in 1..N : f[i - 1] \in T
      <3> HIDE DEF T, N, G
      <3>1. QED BY <1>2, <1>4 DEF Follows
    <2>2. QED BY <1>4, <2>1 DEF Follows
  <1>6. f = [i \in 0..N |-> IF i = 0 THEN << >>
                            ELSE IF queue[i].on # "uvc" THEN Append(f[i - 1], queue[i])
                                                        ELSE f[i - 1]]
    <2>1. \A i \in 0..N : i # 0 => i \in 1..N
      BY <1>2
    <2>2. QED BY <1>4, <1>5, <2>1 DEF Follows
  <1>7. Kept = [i \in 0..N |-> IF i = 0 THEN << >>
                               ELSE IF queue[i].on # "uvc" THEN Append(Kept[i - 1], queue[i])
                                                           ELSE Kept[i - 1]]
    BY <1>6
  <1> DEFINE Short(i) == Kept[i] \in T /\ Len(Kept[i]) <= i
  <1> DEFINE S == {i \in 0..N : Short(i)}
  <1> HIDE DEF Kept, G
  <1>8. 0 \in S
    BY <1>2, <1>7
  <1>9. ASSUME NEW i \in 1..N, i - 1 \in S
        PROVE  i \in S
    <2>1. i \in 0..N /\ i # 0 /\ queue[i] \in Callbacks
      BY <1>2
    <2>2. Kept[i] = IF queue[i].on # "uvc" THEN Append(Kept[i - 1], queue[i])
                                           ELSE Kept[i - 1]
      BY <1>7, <2>1
    <2>3. Kept[i - 1] \in T /\ Len(Kept[i - 1]) <= i - 1
      BY <1>9
    <2>4. Short(i)
      BY <2>1, <2>2, <2>3
    <2>5. QED BY <2>1, <2>4
  <1>10. N \in S
    <2> HIDE DEF S, N
    <2>1. \A i \in 1..N : i - 1 \in S => i \in S
      BY <1>9
    <2>2. QED BY <1>2, <1>8, <2>1, UpTo
  <1>11. QED BY <1>1, <1>10

-----------------------------------------------------------------------------
LEMMA TypesInductive == Types /\ [Next]_vars => Types'
  <1> SUFFICES ASSUME Types, [Next]_vars PROVE Types'
    OBVIOUS
  <1> USE DEF Types
  <1>1. CASE Clients /\ UNCHANGED uvcVars
    <2>1. at' = at
      BY <1>1 DEF Clients, Subscribe, Unsubscribe, CallToggle, CallReconfigure, Queue
    <2>2. QED BY <1>1, <2>1, ClientsTypes, UvcTypesKept
  <1>2. CASE Callback /\ UNCHANGED uvcVars
    <2>1. UvcTypes'
      BY <1>2, CallbackPlace, UvcTypesKept
    <2>2. QED BY <1>2, <2>1, CallbackTypes
  <1>3. CASE UvcClients /\ UNCHANGED cameraVars
    BY <1>3, UvcClientsTypes, StreamTypesKept
  <1>4. CASE UvcCallback /\ UNCHANGED cameraVars
    BY <1>4, UvcCallbackTypes, StreamTypesKept
  <1>5. CASE /\ FrameComes \/ FrameLocks \/ FramePublished \/ Shut
             /\ UNCHANGED cameraVars
    BY <1>5, FrameTypes, StreamTypesKept
  <1>6. CASE Take /\ UNCHANGED <<cameraVars, uvcVars>>
    <2>1. at = "idle" /\ at' = "begun"
      BY <1>6 DEF Take
    <2>2. QED BY <1>6, <2>1, TakeTypes, StreamTypesKept, UvcTypesKept
  <1>7. CASE (CleanBegin \/ Poll \/ CleanStreams) /\ UNCHANGED uvcVars
    <2>1. /\ UNCHANGED <<nodeVars, enable, modes, failed, forced, watchers>>
          /\ UNCHANGED spinnerVars
          /\ started' \subseteq started /\ streams' \subseteq streams
          /\ node' \in {node, "joining", "uvc", "cleaned"}
      BY <1>7 DEF CleanBegin, Poll, PollLook, PollWait, CleanStreams, streamVars
    <2>2. poll' \in {"look", "wait", "ended"} /\ polled' \subseteq Streams
      BY <1>7 DEF CleanBegin, Poll, PollLook, PollWait, Listed, CleanStreams, pollVars,
                  StreamTypes
    <2>3. StreamTypes'
      BY <2>1, <2>2 DEF StreamTypes, nodeVars
    <2>4. SpinnerTypes' /\ UvcTypes'
      BY <1>7, <2>1, SpinnerKept, UvcTypesKept DEF spinnerVars
    <2>5. QED BY <2>3, <2>4
  <1>8. CASE (MembersGone \/ UvcGone) /\ UNCHANGED uvcVars
    <2>1. /\ UNCHANGED <<call, at, dead, nodeVars, streamVars, watchers, pollVars>>
          /\ node' \in {"gone", "cleaned"}
      BY <1>8 DEF MembersGone, UvcGone
    <2>2. queue' \in Seq(Callbacks) /\ Len(queue') <= Len(queue)
      <3>1. queue \in Seq(Callbacks)
        BY DEF SpinnerTypes
      <3>2. queue' = << >> \/ queue' = WithoutUvc
        BY <1>8 DEF MembersGone, UvcGone
      <3>3. << >> \in Seq(Callbacks) /\ Len(<< >>) <= Len(queue)
        BY <3>1
      <3>4. QED BY <3>1, <3>2, <3>3, WithoutUvcTypes
    <2>3. SpinnerTypes'
      BY <2>1, <2>2, QueueAssumption DEF SpinnerTypes
    <2>4. StreamTypes'
      BY <2>1 DEF StreamTypes, nodeVars, streamVars, pollVars
    <2>5. QED BY <1>8, <2>1, <2>3, <2>4, UvcTypesKept
  <1>9. CASE UNCHANGED vars
    <2>1. UNCHANGED <<spinnerVars, cameraVars, uvcVars>>
      BY <1>9 DEF vars
    <2>2. at' = at
      BY <2>1 DEF spinnerVars
    <2>3. QED BY <2>1, <2>2, SpinnerKept, StreamTypesKept, UvcTypesKept
  <1>10. QED
    <2>1. UvcGone => UNCHANGED uvcVars
      BY DEF UvcGone
    <2>2. QED
      BY <1>1, <1>2, <1>3, <1>4, <1>5, <1>6, <1>7, <1>8, <1>9, <2>1
         DEF Next, Outside, Threads, SpinnerThread, PollThread, FrameCallback, Destructor

-----------------------------------------------------------------------------
(* Enabled streams run as they are watched.                                 *)

(* What RunsAsWatched says of one stream.                                   *)
RunsRight(s) ==
  /\ s \in started /\ watchers[s] = 0 => Pending("unsubscribed", s)
  /\ Startable(s) /\ s \notin started /\ watchers[s] > 0 =>
       s \in failed \/ Pending("subscribed", s)

(* A callback still to come stays so until it is run.                       *)
LEMMA StillPending ==
  ASSUME SpinnerTypes, NEW do, NEW on, do # "nothing", Pending(do, on),
         \/ UNCHANGED <<queue, call>>
         \/ Take
         \/ \E d, o : Queue(d, o)
         \/ Return /\ call # [do |-> do, on |-> on]
  PROVE  Pending(do, on)'
  <1>1. CASE UNCHANGED <<queue, call>>
    BY <1>1 DEF Pending
  <1>2. CASE Take
    <2>1. call # [do |-> do, on |-> on]
      <3>1. call = NoCall
        BY <1>2 DEF Take, SpinnerTypes
      <3>2. QED BY <3>1 DEF NoCall
    <2>2. PICK i \in DOMAIN queue : queue[i] = [do |-> do, on |-> on]
      BY <2>1 DEF Pending
    <2>3. CASE i = 1
      BY <1>2, <2>2, <2>3 DEF Take, Pending
    <2>4. CASE i # 1
      <3>1. i - 1 \in DOMAIN queue' /\ queue'[i - 1] = queue[i]
        BY <1>2, <2>4 DEF Take, SpinnerTypes
      <3>2. QED BY <2>2, <3>1 DEF Pending
    <2>5. QED BY <2>3, <2>4
  <1>3. ASSUME NEW d, NEW o, Queue(d, o)
        PROVE  Pending(do, on)'
    <2>1. /\ call' = call
          /\ \A i \in DOMAIN queue : i \in DOMAIN queue' /\ queue'[i] = queue[i]
      BY <1>3 DEF Queue, SpinnerTypes
    <2>2. QED BY <2>1 DEF Pending
  <1>4. CASE Return /\ call # [do |-> do, on |-> on]
    BY <1>4 DEF Return, Pending
  <1>5. QED BY <1>1, <1>2, <1>3, <1>4

(* A client's call waits once it is queued.                                 *)
LEMMA QueuedIsPending ==
  ASSUME SpinnerTypes, NEW do, NEW on, Queue(do, on)
  PROVE  Pending(do, on)'
  <1>1. /\ queue' = Append(queue, [do |-> do, on |-> on]) /\ queue \in Seq(Callbacks)
    BY DEF Queue, SpinnerTypes
  <1>2. /\ Len(queue) + 1 \in DOMAIN queue'
        /\ queue'[Len(queue) + 1] = [do |-> do, on |-> on]
    BY <1>1
  <1>3. QED BY <1>2 DEF Pending

(* Nothing but the spinner's calls changes.                                 *)
LEMMA RunsRightKept ==
  ASSUME SpinnerTypes, NEW s, RunsRight(s),
         UNCHANGED <<nodeVars, started, watchers, failed>>,
         \/ UNCHANGED <<queue, call>>
         \/ Take
         \/ \E d, o : Queue(d, o)
         \/ Return /\ call.on # s
  PROVE  RunsRight(s)'
  <1>1. \A do \in {"subscribed", "unsubscribed"} : Pending(do, s) => Pending(do, s)'
    BY StillPending
  <1>2. Startable(s)' <=> Startable(s)
    BY DEF nodeVars, Startable, Ours
  <1>3. QED BY <1>1, <1>2 DEF RunsRight

LEMMA ClientsRun ==
  ASSUME SpinnerTypes, StreamTypes, Clients, NEW s \in enable, RunsRight(s)
  PROVE  RunsRight(s)'
  <1>1. ASSUME NEW t \in Streams, Subscribe(t)
        PROVE  RunsRight(s)'
    <2>1. UNCHANGED <<nodeVars, started, failed>> /\ Queue("subscribed", t)
      BY <1>1 DEF Subscribe, streamVars
    <2>2. CASE s = t
      <3>1. watchers'[s] # 0
        BY <1>1, <2>2 DEF Subscribe, StreamTypes
      <3>2. Pending("subscribed", s)'
        BY <2>1, <2>2, QueuedIsPending
      <3>3. QED BY <3>1, <3>2 DEF RunsRight
    <2>3. CASE s # t
      <3>1. watchers'[s] = watchers[s]
        BY <1>1, <2>3 DEF Subscribe, StreamTypes
      <3>2. \A do \in {"subscribed", "unsubscribed"} : Pending(do, s) => Pending(do, s)'
        BY <2>1, StillPending
      <3>3. QED BY <2>1, <3>1, <3>2 DEF RunsRight, nodeVars, Startable, Ours
    <2>4. QED BY <2>2, <2>3
  <1>2. ASSUME NEW t \in Streams, Unsubscribe(t)
        PROVE  RunsRight(s)'
    <2>1. UNCHANGED <<nodeVars, started>> /\ Queue("unsubscribed", t)
      BY <1>2 DEF Unsubscribe
    <2>2. \A do \in {"subscribed", "unsubscribed"} : Pending(do, s) => Pending(do, s)'
      BY <2>1, StillPending
    <2>3. Startable(s)' <=> Startable(s)
      BY <2>1 DEF nodeVars, Startable, Ours
    <2>4. CASE s = t
      <3>1. watchers'[s] > 0 => watchers[s] > 0 /\ failed' = failed
        BY <1>2, <2>4 DEF Unsubscribe, StreamTypes
      <3>2. Pending("unsubscribed", s)'
        BY <2>1, <2>4, QueuedIsPending
      <3>3. QED BY <2>1, <2>2, <2>3, <3>1, <3>2 DEF RunsRight
    <2>5. CASE s # t
      <3>1. watchers'[s] = watchers[s] /\ (s \in failed => s \in failed')
        BY <1>2, <2>5 DEF Unsubscribe, StreamTypes
      <3>2. QED BY <2>1, <2>2, <2>3, <3>1 DEF RunsRight
    <2>6. QED BY <2>4, <2>5
  <1>3. ASSUME NEW t \in Streams, NEW do \in {"on", "off"}, CallToggle(t, do)
        PROVE  RunsRight(s)'
    BY <1>3, RunsRightKept DEF CallToggle, cameraVars, streamVars
  <1>4. CASE CallReconfigure
    BY <1>4, RunsRightKept DEF CallReconfigure, cameraVars, streamVars
  <1>5. QED BY <1>1, <1>2, <1>3, <1>4 DEF Clients

(* toggleSensor and the reconfigure callback stop every enabled stream and  *)
(* start those that somebody watches.                                       *)
LEMMA RestartedRun ==
  ASSUME StreamTypes, node = "up", UNCHANGED <<nodeVars, watchers>>, NEW running,
         enable' \cap running = {}, enable' \subseteq Streams,
         Started(Due(enable', running), running),
         NEW s \in enable'
  PROVE  RunsRight(s)'
  <1>1. s \in Due(enable', running) <=> Startable(s) /\ watchers[s] > 0
    BY DEF Due
  <1>2. s \in started' => s \in Due(enable', running)
    BY DEF Started
  <1>3. s \in Due(enable', running) => s \in started' \/ s \in failed'
    BY DEF Started
  <1>4. Startable(s)' <=> Startable(s)
    BY DEF nodeVars, Startable, Ours
  <1>5. QED BY <1>1, <1>2, <1>3, <1>4 DEF RunsRight, StreamTypes

LEMMA CallbackRuns ==
  ASSUME SpinnerTypes, StreamTypes, node = "up", dead' = "no", Callback,
         \A s \in enable : RunsRight(s)
  PROVE  \A s \in enable' : RunsRight(s)'
  <1>1. CASE ImageSubscribed
    <2> DEFINE due == Due(enable, started) \cap {call.on}
    <2>1. UNCHANGED <<nodeVars, enable, watchers>> /\ call.do = "subscribed"
      BY <1>1 DEF ImageSubscribed, ForStream, Handling
    <2>2. PICK no \in SUBSET due :
            started' = started \cup (due \ no) /\ failed' = (failed \ due) \cup no
      BY <1>1 DEF ImageSubscribed, Start, Started, Die
    <2>3. Return
      BY <1>1 DEF ImageSubscribed, Start, Started, Die
    <2>4. SUFFICES ASSUME NEW s \in enable PROVE RunsRight(s)'
      BY <2>1
    <2>5. Startable(s)' <=> Startable(s)
      BY <2>1 DEF nodeVars, Startable, Ours
    <2>6. Pending("unsubscribed", s) => Pending("unsubscribed", s)'
      <3>1. call # [do |-> "unsubscribed", on |-> s]
        BY <2>1
      <3>2. QED BY <2>3, <3>1, StillPending
    <2>7. CASE s # call.on
      <3>1. Pending("subscribed", s) => Pending("subscribed", s)'
        <4>1. call # [do |-> "subscribed", on |-> s]
          BY <2>7
        <4>2. QED BY <2>3, <4>1, StillPending
      <3>2. (s \in started' <=> s \in started) /\ (s \in failed => s \in failed')
        BY <2>2, <2>7
      <3>3. QED BY <2>1, <2>5, <2>6, <3>1, <3>2 DEF RunsRight
    <2>8. CASE s = call.on
      <3>1. s \in due <=> s \notin started /\ Startable(s) /\ watchers[s] > 0
        BY <2>8 DEF Due
      <3>2. s \in started' /\ watchers[s] = 0 => s \in started
        BY <2>2, <3>1 DEF StreamTypes
      <3>3. Startable(s) /\ s \notin started' /\ watchers[s] > 0 => s \in failed'
        BY <2>2, <3>1
      <3>4. QED BY <2>1, <2>5, <2>6, <3>2, <3>3 DEF RunsRight
    <2>9. QED BY <2>7, <2>8
  <1>2. CASE ImageUnsubscribed
    <2>1. /\ UNCHANGED <<nodeVars, enable, failed, watchers>> /\ Return
          /\ call.do = "unsubscribed"
      BY <1>2 DEF ImageUnsubscribed, ForStream, Handling
    <2>2. started' = IF watchers[call.on] = 0 THEN started \ (enable \cap {call.on})
                                              ELSE started
      BY <1>2 DEF ImageUnsubscribed
    <2>3. SUFFICES ASSUME NEW s \in enable PROVE RunsRight(s)'
      BY <2>1
    <2>4. Startable(s)' <=> Startable(s)
      BY <2>1 DEF nodeVars, Startable, Ours
    <2>5. Pending("subscribed", s) => Pending("subscribed", s)'
      <3>1. call # [do |-> "subscribed", on |-> s]
        BY <2>1
      <3>2. QED BY <2>1, <3>1, StillPending
    <2>6. CASE s # call.on
      <3>1. Pending("unsubscribed", s) => Pending("unsubscribed", s)'
        <4>1. call # [do |-> "unsubscribed", on |-> s]
          BY <2>6
        <4>2. QED BY <2>1, <4>1, StillPending
      <3>2. s \in started' <=> s \in started
        BY <2>2, <2>6
      <3>3. QED BY <2>1, <2>4, <2>5, <3>1, <3>2 DEF RunsRight
    <2>7. CASE s = call.on /\ watchers[s] = 0
      BY <2>1, <2>2, <2>7 DEF RunsRight
    <2>8. CASE s = call.on /\ watchers[s] # 0
      BY <2>1, <2>2, <2>4, <2>5, <2>8 DEF RunsRight
    <2>9. QED BY <2>6, <2>7, <2>8
  <1>3. CASE Toggle
    <2>1. /\ UNCHANGED <<nodeVars, watchers>> /\ enable' \subseteq Streams
          /\ Started(Due(enable', started \ enable'), started \ enable')
      BY <1>3 DEF Toggle, ForStream, Start, Die, StreamTypes
    <2>2. QED BY <2>1, RestartedRun
  <1>4. CASE Reconfigure
    <2>1. /\ UNCHANGED <<nodeVars, watchers>> /\ enable' \subseteq enable
          /\ Started(Due(enable', started \ enable), started \ enable)
      BY <1>4 DEF Reconfigure, Die, StillEnabled, Compatible
    <2>2. enable' \subseteq Streams
      BY <2>1 DEF StreamTypes
    <2>3. QED BY <2>1, <2>2, RestartedRun
  <1>5. QED BY <1>1, <1>2, <1>3, <1>4 DEF Callback

LEMMA RunsInductive == Types /\ RunsAsWatched /\ [Next]_vars => RunsAsWatched'
  <1> SUFFICES ASSUME Types, RunsAsWatched, [Next]_vars, node' = "up", dead' = "no"
               PROVE  \A s \in enable' : RunsRight(s)'
    BY DEF RunsAsWatched, RunsRight
  <1> USE DEF Types
  <1>1. node = "up" /\ dead = "no"
    BY DEF Next, Outside, Threads, SpinnerThread, PollThread, FrameCallback, Destructor,
           Clients, Subscribe, Unsubscribe, CallToggle, CallReconfigure, CleanBegin, Poll,
           PollLook, PollWait, Callback, ImageSubscribed, ImageUnsubscribed, Toggle,
           Reconfigure, CleanStreams, MembersGone, UvcGone, cameraVars, vars, spinnerVars
  <1>2. \A s \in enable : RunsRight(s)
    BY <1>1 DEF RunsAsWatched, RunsRight
  <1>3. CASE Clients
    <2>1. enable' = enable
      BY <1>3 DEF Clients, Subscribe, Unsubscribe, CallToggle, CallReconfigure, cameraVars,
                  streamVars
    <2>2. QED BY <1>2, <1>3, <2>1, ClientsRun
  <1>4. CASE Callback
    BY <1>1, <1>2, <1>4, CallbackRuns
  <1>5. CASE /\ UNCHANGED <<nodeVars, enable, started, watchers, failed>>
             /\ \/ UNCHANGED <<queue, call>>
                \/ Take
                \/ \E d, o : Queue(d, o)
                \/ Return /\ call.on = "uvc"
    <2>1. \A s \in enable : s # "uvc"
      BY StreamsAssumption DEF StreamTypes
    <2>2. QED BY <1>2, <1>5, <2>1, RunsRightKept
  <1>6. CASE UvcClients /\ UNCHANGED cameraVars
    BY <1>5, <1>6 DEF UvcClients, View, Unview, CallToggleUvc, cameraVars, streamVars
  <1>7. CASE UvcCallback /\ UNCHANGED cameraVars
    BY <1>5, <1>7 DEF UvcCallback, Enter, StartStreaming, SetVideoMode, OpenStream,
      AllocateBuffer, StopStreaming, StopJoined, Leave, GoOn, Die, Here, Return, cameraVars,
      streamVars
  <1>8. CASE /\ FrameComes \/ FrameLocks \/ FramePublished \/ Shut
             /\ UNCHANGED cameraVars
    BY <1>5, <1>8 DEF FrameComes, FrameLocks, FramePublished, Shut, Die, spinnerVars,
      cameraVars, streamVars
  <1>9. CASE Take /\ UNCHANGED cameraVars
    BY <1>5, <1>9 DEF cameraVars, streamVars
  <1>10. CASE Poll
    BY <1>5, <1>10 DEF Poll, PollLook, PollWait, spinnerVars, streamVars
  <1>11. CASE CleanBegin \/ CleanStreams \/ MembersGone \/ UvcGone
    BY <1>11, <1>1 DEF CleanBegin, CleanStreams, MembersGone, UvcGone
  <1>12. CASE UNCHANGED vars
    BY <1>5, <1>12 DEF vars, spinnerVars, cameraVars, streamVars
  <1>13. QED
    BY <1>3, <1>4, <1>6, <1>7, <1>8, <1>9, <1>10, <1>11, <1>12
       DEF Next, Outside, Threads, SpinnerThread, PollThread, FrameCallback, Destructor

-----------------------------------------------------------------------------
(* Every variable of the camera node keeps its type: no more callbacks wait *)
(* than the bound, a stream is started only with a video mode, and whoever  *)
(* is inside a section of device_lock_ (uvc_camera_driver.cpp) holds it.    *)
THEOREM TypesCorrect == Spec => []TypeOK
  BY InitTypes, TypesInductive, TypesAreTypeOK, PTL DEF Spec

(* While the node is up, an enabled stream runs if somebody watches it and  *)
(* only then, but for a callback still to come and a start the driver has   *)
(* refused (imageSubscribedCallback, imageUnsubscribedCallback and          *)
(* toggleSensor in ob_camera_node.cpp), for any clients.                    *)
THEOREM RunsCorrect == Spec => []RunsAsWatched
  <1>1. Init => RunsAsWatched
    <2> SUFFICES ASSUME Init PROVE RunsAsWatched
      OBVIOUS
    <2>1. enable \subseteq Streams
      BY InitTypes DEF Types, StreamTypes
    <2>2. started = {} /\ watchers = [s \in Streams |-> 0]
      BY DEF Init, StreamsInit
    <2>3. QED BY <2>1, <2>2 DEF RunsAsWatched
  <1>2. QED BY <1>1, InitTypes, TypesInductive, RunsInductive, PTL DEF Spec
=============================================================================
