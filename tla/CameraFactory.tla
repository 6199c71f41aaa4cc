--------------------------- MODULE CameraFactory ---------------------------
(***************************************************************************)
(* The life of the camera processes of the robot: each process has a query *)
(* thread that looks for a device it accepts and starts a camera node on   *)
(* it (OBCameraNodeFactory::queryDevice), a thread of the OpenNI library   *)
(* that reports devices that come and go (Context), and a main thread that *)
(* ends the process.  The processes share one mutex, kept in shared memory *)
(* and initialised by every process that starts; it keeps two processes    *)
(* from opening devices at the same time.                                  *)
(*                                                                         *)
(* Locks: "lock A" is the mutex in shared memory, "lock C" the mutex_ of   *)
(* the Context, "lock D" the device_lock_ of the factory.  The query       *)
(* thread takes A and then D; the library's thread takes C and then D.     *)
(***************************************************************************)
EXTENDS Naturals, Sequences, FiniteSets

CONSTANTS
  Nodes,         \* the camera processes
  Devices,       \* the cameras, each on its own port (its uri)
  Wants,         \* Wants[n]: the cameras whose serial number n accepts
  None,          \* no camera
  AtFirst,       \* the cameras plugged in before any process starts
  MaxBoots,      \* bound: how often a process is started
  MaxTroubles    \* bound: how often a camera is pulled out, a process is
                 \* stopped or killed, or a call of the library fails for no visible reason

ASSUME WantsAssumption == Wants \in [Nodes -> SUBSET Devices]
ASSUME AtFirstAssumption == AtFirst \subseteq Devices
ASSUME NoneAssumption == None \notin Devices \cup Nodes
ASSUME BoundAssumption == MaxBoots \in Nat /\ MaxTroubles \in Nat

VARIABLES
  plugged,    \* the cameras that are plugged in
  holder,     \* holder[d]: the process that has d open, None if nobody
  locked,     \* lock A is taken
  stolen,     \* history: a process initialised lock A while it was taken
  alive,      \* is_alive_
  pc,         \* the place of the query thread; "off": no such process
  list,       \* Context::device_info_list_
  first,      \* Context::first_time_query_
  todo,       \* the rest of the list the query thread goes through
  cur,        \* the camera it tries
  local,      \* the camera behind the local variable device, while it is open
  uri,        \* device_uri_
  handle,     \* device_
  node,       \* ob_camera_node_ exists
  connected,  \* device_connected_
  exc,        \* has_exception_
  events,     \* what the library still has to report
  cb,         \* the library's thread is in onDeviceDisconnected, holding lock C
  boots,      \* how often a process was started
  troubles    \* how often there was trouble

queryVars == <<todo, cur, local>>
nodeVars == <<uri, handle, node, connected, exc>>
contextVars == <<list, first, events, cb>>
sharedVars == <<plugged, holder, locked, stolen, boots, troubles>>
vars == <<sharedVars, alive, pc, contextVars, queryVars, nodeVars>>

Camera == Devices \cup {None}
Event == {"came", "gone"} \X Devices
Places == {"off", "top", "check", "enumerated", "loop", "inA", "opening",
           "starting", "closing", "finishing", "done"}

\* The query thread holds lock D, and lock A, in these places.
HoldsD(n) == pc[n] \in {"opening", "starting", "closing", "finishing"}
HoldsA(n) == HoldsD(n) \/ pc[n] = "inA"
Opening == {n \in Nodes : HoldsA(n)}

\* The library still has to tell n that d has gone.
GonePending(n, d) == \E i \in DOMAIN events[n] : events[n][i] = <<"gone", d>>

\* Process n no longer has camera d open through its object `other'.
Release(n, d, other) ==
  holder' = [c \in Devices |->
               IF c = d /\ holder[c] = n /\ other # d THEN None ELSE holder[c]]

Trouble == troubles < MaxTroubles /\ troubles' = troubles + 1

Init ==
  /\ plugged = AtFirst
  /\ holder = [d \in Devices |-> None]
  /\ locked = FALSE /\ stolen = FALSE
  /\ alive = [n \in Nodes |-> FALSE]
  /\ pc = [n \in Nodes |-> "off"]
  /\ list = [n \in Nodes |-> {}] /\ first = [n \in Nodes |-> TRUE]
  /\ todo = [n \in Nodes |-> {}]
  /\ cur = [n \in Nodes |-> None] /\ local = [n \in Nodes |-> None]
  /\ uri = [n \in Nodes |-> None] /\ handle = [n \in Nodes |-> None]
  /\ node = [n \in Nodes |-> FALSE] /\ connected = [n \in Nodes |-> FALSE]
  /\ exc = [n \in Nodes |-> FALSE]
  /\ events = [n \in Nodes |-> <<>>] /\ cb = [n \in Nodes |-> FALSE]
  /\ boots = 0 /\ troubles = 0

-----------------------------------------------------------------------------
(* The process: the constructor, the destructor, and a kill.               *)

\* Everything process n had in memory is gone, and its cameras are closed.
Forget(n) ==
  /\ alive' = [alive EXCEPT ![n] = FALSE]
  /\ pc' = [pc EXCEPT ![n] = "off"]
  /\ list' = [list EXCEPT ![n] = {}] /\ first' = [first EXCEPT ![n] = TRUE]
  /\ todo' = [todo EXCEPT ![n] = {}]
  /\ cur' = [cur EXCEPT ![n] = None] /\ local' = [local EXCEPT ![n] = None]
  /\ uri' = [uri EXCEPT ![n] = None] /\ handle' = [handle EXCEPT ![n] = None]
  /\ node' = [node EXCEPT ![n] = FALSE]
  /\ connected' = [connected EXCEPT ![n] = FALSE]
  /\ exc' = [exc EXCEPT ![n] = FALSE]
  /\ events' = [events EXCEPT ![n] = <<>>] /\ cb' = [cb EXCEPT ![n] = FALSE]
  /\ holder' = [d \in Devices |-> IF holder[d] = n THEN None ELSE holder[d]]

\* init(): the mutex in shared memory is initialised, whoever holds it; the
\* listeners are registered and the query thread starts.
Boot(n) ==
  /\ pc[n] = "off" /\ boots < MaxBoots
  /\ boots' = boots + 1
  /\ stolen' = (stolen \/ Opening # {})
  /\ locked' = FALSE
  /\ alive' = [alive EXCEPT ![n] = TRUE]
  /\ pc' = [pc EXCEPT ![n] = "top"]
  /\ UNCHANGED <<plugged, holder, troubles, contextVars, queryVars, nodeVars>>

\* The destructor, up to the join of the query thread.
Stop(n) ==
  /\ pc[n] # "off" /\ alive[n] /\ Trouble
  /\ alive' = [alive EXCEPT ![n] = FALSE]
  /\ connected' = [connected EXCEPT ![n] = FALSE]
  /\ UNCHANGED <<plugged, holder, locked, stolen, boots, pc, contextVars,
                 queryVars, uri, handle, node, exc>>

\* The destructor after the join, and the end of the process.
Quit(n) ==
  /\ pc[n] = "done" /\ ~cb[n]
  /\ Forget(n)
  /\ UNCHANGED <<plugged, locked, stolen, boots, troubles>>

\* The process is killed: a mutex it holds stays locked.
Crash(n) ==
  /\ pc[n] # "off" /\ Trouble
  /\ Forget(n)
  /\ UNCHANGED <<plugged, locked, stolen, boots>>

-----------------------------------------------------------------------------
(* The cameras, and the library's thread that reports them.                *)

Tell(kind, d) ==
  events' = [n \in Nodes |-> IF pc[n] = "off" THEN events[n]
                             ELSE Append(events[n], <<kind, d>>)]

Unplug(d) ==
  /\ d \in plugged /\ Trouble
  /\ plugged' = plugged \ {d}
  /\ holder' = [holder EXCEPT ![d] = None]
  /\ Tell("gone", d)
  /\ UNCHANGED <<locked, stolen, boots, alive, pc, list, first, cb, queryVars, nodeVars>>

Plug(d) ==
  /\ d \notin plugged
  /\ plugged' = plugged \cup {d}
  /\ Tell("came", d)
  /\ UNCHANGED <<holder, locked, stolen, boots, troubles, alive, pc, list, first, cb,
                 queryVars, nodeVars>>

\* Mutant of Came: the camera is not entered in the list.
BadCame(n) ==
  /\ events[n] # <<>> /\ Head(events[n])[1] = "came"
  /\ events' = [events EXCEPT ![n] = Tail(@)]
  /\ UNCHANGED <<sharedVars, alive, pc, list, first, cb, queryVars, nodeVars>>

\* Context::onDeviceConnected, under lock C.
Came(n) ==
  /\ events[n] # <<>> /\ Head(events[n])[1] = "came"
  /\ list' = [list EXCEPT ![n] = @ \cup {Head(events[n])[2]}]
  /\ events' = [events EXCEPT ![n] = Tail(@)]
  /\ UNCHANGED <<sharedVars, alive, pc, first, cb, queryVars, nodeVars>>

\* Context::onDeviceDisconnected takes lock C and calls the factory ...
GoneBegin(n) ==
  /\ events[n] # <<>> /\ Head(events[n])[1] = "gone" /\ ~cb[n]
  /\ cb' = [cb EXCEPT ![n] = TRUE]
  /\ UNCHANGED <<sharedVars, alive, pc, list, first, events, queryVars, nodeVars>>

\* Mutant of DropUsed: device_connected_ stays set.
BadDropUsed(n, d) ==
  /\ uri[n] = d
  /\ uri' = [uri EXCEPT ![n] = None]
  /\ node' = [node EXCEPT ![n] = FALSE]
  /\ handle' = [handle EXCEPT ![n] = None]
  /\ Release(n, handle[n], None)
  /\ UNCHANGED connected

\* ... which waits for lock D, ends a node that used the camera, and returns;
\* then the camera leaves the list.
DropUsed(n, d) ==
  /\ uri[n] = d
  /\ uri' = [uri EXCEPT ![n] = None]
  /\ node' = [node EXCEPT ![n] = FALSE]
  /\ handle' = [handle EXCEPT ![n] = None]
  /\ connected' = [connected EXCEPT ![n] = FALSE]
  /\ Release(n, handle[n], None)

DropUnused(n, d) == uri[n] # d /\ UNCHANGED <<uri, node, handle, connected, holder>>

\* Mutant of Gone: the handler does not take lock D.
BadGone(n) ==
  /\ cb[n]
  /\ LET d == Head(events[n])[2] IN
       /\ DropUsed(n, d) \/ DropUnused(n, d)
       /\ list' = [list EXCEPT ![n] = @ \ {d}]
  /\ events' = [events EXCEPT ![n] = Tail(@)]
  /\ cb' = [cb EXCEPT ![n] = FALSE]
  /\ UNCHANGED <<plugged, locked, stolen, boots, troubles, alive, pc, first,
                 queryVars, exc>>

\* Mutant of Gone: the handler waits for lock A, too.
BadGoneLocksA(n) ==
  /\ cb[n] /\ ~HoldsD(n) /\ ~locked
  /\ LET d == Head(events[n])[2] IN
       /\ DropUsed(n, d) \/ DropUnused(n, d)
       /\ list' = [list EXCEPT ![n] = @ \ {d}]
  /\ events' = [events EXCEPT ![n] = Tail(@)]
  /\ cb' = [cb EXCEPT ![n] = FALSE]
  /\ UNCHANGED <<plugged, locked, stolen, boots, troubles, alive, pc, first,
                 queryVars, exc>>

Gone(n) ==
  /\ cb[n] /\ ~HoldsD(n)
  /\ LET d == Head(events[n])[2] IN
       /\ DropUsed(n, d) \/ DropUnused(n, d)
       /\ list' = [list EXCEPT ![n] = @ \ {d}]
  /\ events' = [events EXCEPT ![n] = Tail(@)]
  /\ cb' = [cb EXCEPT ![n] = FALSE]
  /\ UNCHANGED <<plugged, locked, stolen, boots, troubles, alive, pc, first,
                 queryVars, exc>>

-----------------------------------------------------------------------------
(* The query thread.                                                       *)

Goto(n, place) == pc' = [pc EXCEPT ![n] = place]

\* while (is_alive_ ...)
Top(n) ==
  /\ pc[n] = "top"
  /\ Goto(n, IF alive[n] THEN "check" ELSE "done")
  /\ UNCHANGED <<sharedVars, alive, contextVars, queryVars, nodeVars>>

\* The thread goes through the cameras of a list, and then back to the top.
LoopOn(n, cameras) == Goto(n, IF cameras = {} THEN "top" ELSE "loop")

\* if (!device_connected_) the list is asked for, else the thread sleeps.
\* The first time the library enumerates what is plugged in ...
Enumerate(n) ==
  /\ pc[n] = "check" /\ ~connected[n] /\ first[n]
  /\ Goto(n, "enumerated")
  /\ todo' = [todo EXCEPT ![n] = plugged]
  /\ UNCHANGED <<sharedVars, alive, contextVars, cur, local, nodeVars>>

\* ... and the cameras are entered in the list, under lock C;
Enter(n) ==
  /\ pc[n] = "enumerated" /\ ~cb[n]
  /\ list' = [list EXCEPT ![n] = @ \cup todo[n]]
  /\ first' = [first EXCEPT ![n] = FALSE]
  /\ LoopOn(n, todo[n])
  /\ UNCHANGED <<sharedVars, alive, events, cb, queryVars, nodeVars>>

\* later the list is copied under lock C.
Copy(n) ==
  /\ pc[n] = "check" /\ ~connected[n] /\ ~first[n] /\ ~cb[n]
  /\ LoopOn(n, list[n])
  /\ todo' = [todo EXCEPT ![n] = list[n]]
  /\ UNCHANGED <<sharedVars, alive, contextVars, cur, local, nodeVars>>

Sleep(n) ==
  /\ pc[n] = "check" /\ connected[n]
  /\ Goto(n, "top")
  /\ UNCHANGED <<sharedVars, alive, contextVars, queryVars, nodeVars>>

\* Mutant of LockA: the result of a try to lock is not looked at.
BadLockA(n) ==
  /\ pc[n] = "loop"
  /\ locked' = TRUE
  /\ \E d \in todo[n] : /\ cur' = [cur EXCEPT ![n] = d]
                        /\ todo' = [todo EXCEPT ![n] = @ \ {d}]
  /\ Goto(n, "inA")
  /\ UNCHANGED <<plugged, holder, stolen, boots, troubles, alive, contextVars,
                 local, nodeVars>>

\* onDeviceConnected: lock A, ...
LockA(n) ==
  /\ pc[n] = "loop" /\ ~locked
  /\ locked' = TRUE
  /\ \E d \in todo[n] : /\ cur' = [cur EXCEPT ![n] = d]
                        /\ todo' = [todo EXCEPT ![n] = @ \ {d}]
  /\ Goto(n, "inA")
  /\ UNCHANGED <<plugged, holder, stolen, boots, troubles, alive, contextVars,
                 local, nodeVars>>

\* ... then lock D;
LockD(n) ==
  /\ pc[n] = "inA"
  /\ Goto(n, "opening")
  /\ UNCHANGED <<sharedVars, alive, contextVars, queryVars, nodeVars>>

\* device->open: it succeeds only on a camera that is there and that no other
\* process has open.
Openable(n, d) == d \in plugged /\ holder[d] \in {n, None}

OpenFails(n) ==
  /\ pc[n] = "opening"
  /\ \/ ~Openable(n, cur[n]) /\ UNCHANGED troubles
     \/ Openable(n, cur[n]) /\ Trouble
  /\ Goto(n, "closing")
  /\ UNCHANGED <<plugged, holder, locked, stolen, boots, alive, contextVars,
                 queryVars, nodeVars>>

\* The camera is open.
Opened(n) ==
  /\ pc[n] = "opening" /\ Openable(n, cur[n])
  /\ local' = [local EXCEPT ![n] = cur[n]]

\* The serial number cannot be read, or is not the one wanted.
Reject(n) ==
  /\ Opened(n)
  /\ \/ cur[n] \notin Wants[n] /\ UNCHANGED troubles
     \/ cur[n] \in Wants[n] /\ Trouble
  /\ holder' = [holder EXCEPT ![cur[n]] = n]
  /\ Goto(n, "closing")
  /\ UNCHANGED <<plugged, locked, stolen, boots, alive, contextVars, todo, cur,
                 nodeVars>>

\* startDevice: the camera replaces the one of before, whose node is ended,
\* and the constructor of the new node runs.
StartBegins(n) ==
  /\ Opened(n) /\ cur[n] \in Wants[n]
  /\ uri' = [uri EXCEPT ![n] = cur[n]]
  /\ handle' = [handle EXCEPT ![n] = cur[n]]
  /\ node' = [node EXCEPT ![n] = FALSE]
  /\ holder' = [c \in Devices |-> IF c = cur[n] THEN n
                                  ELSE IF c = handle[n] /\ holder[c] = n THEN None
                                  ELSE holder[c]]
  /\ Goto(n, "starting")
  /\ UNCHANGED <<plugged, locked, stolen, boots, troubles, alive, contextVars, todo, cur,
                 connected, exc>>

StartSucceeds(n) ==
  /\ pc[n] = "starting"
  /\ node' = [node EXCEPT ![n] = TRUE]
  /\ connected' = [connected EXCEPT ![n] = TRUE]
  /\ Goto(n, "finishing")
  /\ UNCHANGED <<sharedVars, alive, contextVars, queryVars, uri, handle, exc>>

\* The constructor throws.
StartFails(n) ==
  /\ pc[n] = "starting"
  /\ \/ cur[n] \notin plugged /\ UNCHANGED troubles
     \/ cur[n] \in plugged /\ Trouble
  /\ uri' = [uri EXCEPT ![n] = None]
  /\ connected' = [connected EXCEPT ![n] = FALSE]
  /\ exc' = [exc EXCEPT ![n] = TRUE]
  /\ Goto(n, "finishing")
  /\ UNCHANGED <<plugged, holder, locked, stolen, boots, alive, contextVars,
                 queryVars, handle, node>>

\* The end of onDeviceConnected gives back both locks.
Unlock(n) ==
  /\ locked' = FALSE
  /\ cur' = [cur EXCEPT ![n] = None]
  /\ local' = [local EXCEPT ![n] = None]
  /\ LoopOn(n, todo[n])
  /\ UNCHANGED <<plugged, stolen, boots, troubles, alive, contextVars, todo,
                 uri, node, connected>>

\* After an attempt that did not reach startDevice the local variable was the
\* only one to hold the new object, and its end closes the camera.
Close(n) ==
  /\ pc[n] = "closing"
  /\ exc' = [exc EXCEPT ![n] = @ /\ (connected[n] \/ local[n] = None)]
  /\ Release(n, local[n], handle[n])
  /\ Unlock(n)
  /\ UNCHANGED handle

\* After startDevice device_ holds it too; it is closed if device_connected_ is
\* false and no exception was recorded.
Finish(n) ==
  /\ pc[n] = "finishing"
  /\ exc' = [exc EXCEPT ![n] = @ /\ connected[n]]
  /\ \/ /\ ~connected[n] /\ ~exc[n]
        /\ handle' = [handle EXCEPT ![n] = None]
        /\ Release(n, local[n], None)
     \/ (connected[n] \/ exc[n]) /\ UNCHANGED <<handle, holder>>
  /\ Unlock(n)

-----------------------------------------------------------------------------
QueryStep(n) ==
  \/ Top(n) \/ Enumerate(n) \/ Enter(n) \/ Copy(n) \/ Sleep(n)
  \/ LockD(n) \/ OpenFails(n) \/ Reject(n) \/ StartBegins(n)
  \/ StartSucceeds(n) \/ StartFails(n) \/ Close(n) \/ Finish(n)

LibraryStep(n) == Came(n) \/ GoneBegin(n) \/ Gone(n)

Next ==
  \/ \E n \in Nodes : \/ Boot(n) \/ Stop(n) \/ Quit(n) \/ Crash(n)
                      \/ LibraryStep(n) \/ QueryStep(n) \/ LockA(n)
  \/ \E d \in Devices : Unplug(d) \/ Plug(d)

Spec == Init /\ [][Next]_vars

(* The scheduler lets every thread go on.  The mutexes are not first come, *)
(* first served, but each is let go again and again, and a thread that     *)
(* waits for one gets it in the end.                                       *)
FairSpec ==
  /\ Spec
  /\ \A n \in Nodes : /\ WF_vars(QueryStep(n) \/ Quit(n))
                      /\ SF_vars(LockA(n)) /\ SF_vars(LibraryStep(n))

-----------------------------------------------------------------------------
(* Properties.                                                             *)

TypeOK ==
  /\ plugged \subseteq Devices
  /\ holder \in [Devices -> Nodes \cup {None}]
  /\ locked \in BOOLEAN /\ stolen \in BOOLEAN
  /\ alive \in [Nodes -> BOOLEAN] /\ pc \in [Nodes -> Places]
  /\ list \in [Nodes -> SUBSET Devices] /\ first \in [Nodes -> BOOLEAN]
  /\ todo \in [Nodes -> SUBSET Devices]
  /\ cur \in [Nodes -> Camera] /\ local \in [Nodes -> Camera]
  /\ uri \in [Nodes -> Camera] /\ handle \in [Nodes -> Camera]
  /\ node \in [Nodes -> BOOLEAN] /\ connected \in [Nodes -> BOOLEAN]
  /\ exc \in [Nodes -> BOOLEAN]
  /\ events \in [Nodes -> Seq(Event)] /\ cb \in [Nodes -> BOOLEAN]
  /\ boots \in 0 .. MaxBoots /\ troubles \in 0 .. MaxTroubles

\* Two processes are between the locking and the unlocking of the mutex in
\* shared memory at the same time only after one of the processes, starting up,
\* has initialised the mutex while another held it.
OpensAlone == \A n, m \in Opening : n = m \/ stolen

\* A camera node of a process that is not being ended runs on a camera that
\* this process, and no other, has open; if the camera was pulled out, the
\* report that will end the node is on its way.
DrivesOwnCamera ==
  \A n \in Nodes : node[n] /\ alive[n] =>
    /\ uri[n] # None
    /\ holder[uri[n]] = n \/ GonePending(n, uri[n])

\* A process that is not being ended and whose query thread is not in the
\* middle of an attempt says it is connected exactly when it has a node, and
\* then the node's camera is the one the process holds and would let go.
ConnectedMeansNode ==
  \A n \in Nodes : alive[n] /\ ~HoldsD(n) =>
    /\ connected[n] = node[n]
    /\ node[n] = (uri[n] # None)
    /\ node[n] => handle[n] = uri[n]

\* No process uses a camera that was pulled out for ever: its node is ended, also
\* while another process holds the shared mutex, or has died with it.
NodeGoes == []<>(\A n \in Nodes : uri[n] \in plugged \cup {None})

\* Lock A was left taken by a process that died.
Orphaned == locked /\ Opening = {}

\* While a camera stays plugged in, a process that accepts it goes on, and the
\* shared mutex was neither left taken by a dead process nor initialised while
\* it was taken, again and again some process that accepts the camera has a
\* node.  (Once the mutex was initialised while it was taken, the process that
\* had it gives back what another has taken since, and so on for ever: a process
\* that tries a camera it does not accept can keep it busy each time the other
\* tries.)
NodeComes ==
  \A d \in Devices :
    <>[](d \in plugged /\ ~Orphaned /\ ~stolen
           /\ \E n \in Nodes : alive[n] /\ d \in Wants[n])
      => []<>(\E n \in Nodes : node[n] /\ d \in Wants[n])
=============================================================================
