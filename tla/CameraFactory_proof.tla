------------------------- MODULE CameraFactory_proof -------------------------
(***************************************************************************)
(* For every number of camera processes and cameras, every assignment of   *)
(* serial numbers and every bound: the shared mutex keeps two processes    *)
(* apart until one is initialised under it, and a camera node runs on a    *)
(* camera its process has open, or is about to be ended.                   *)
(***************************************************************************)
EXTENDS CameraFactory, SequenceTheorems, TLAPS

-----------------------------------------------------------------------------
(* The reports of the library.                                             *)

\* A report that waits goes on waiting when another is added, and when another
\* is taken.
LEMMA Reports ==
  ASSUME NEW s \in Seq(Event), NEW x \in Event, NEW y \in Event
  PROVE  /\ Append(s, y) \in Seq(Event)
         /\ (\E i \in DOMAIN s : s[i] = x) => \E i \in DOMAIN Append(s, y) : Append(s, y)[i] = x
         /\ \E i \in DOMAIN Append(s, x) : Append(s, x)[i] = x
         /\ s # << >> => /\ Append(s, y) # << >> /\ Head(Append(s, y)) = Head(s)
                        /\ Head(s) \in Event /\ Tail(s) \in Seq(Event)
  <1>1. Append(s, y) \in Seq(Event) /\ DOMAIN s = 1 .. Len(s) /\ Len(s) \in Nat
    OBVIOUS
  <1>2. DOMAIN Append(s, y) = 1 .. Len(s) + 1 /\ \A i \in 1 .. Len(s) : Append(s, y)[i] = s[i]
    OBVIOUS
  <1>3. (\E i \in DOMAIN s : s[i] = x) => \E i \in DOMAIN Append(s, y) : Append(s, y)[i] = x
    BY <1>1, <1>2
  <1>4. \E i \in DOMAIN Append(s, x) : Append(s, x)[i] = x
    <2>1. Len(s) + 1 \in DOMAIN Append(s, x) /\ Append(s, x)[Len(s) + 1] = x
      OBVIOUS
    <2>2. QED BY <2>1
  <1>5. ASSUME s # << >>
        PROVE  /\ Append(s, y) # << >> /\ Head(Append(s, y)) = Head(s)
               /\ Head(s) \in Event /\ Tail(s) \in Seq(Event)
    BY <1>5
  <1>6. QED BY <1>1, <1>3, <1>4, <1>5

LEMMA TailKeeps ==
  ASSUME NEW s \in Seq(Event), NEW x \in Event, s # << >>, Head(s) # x,
         \E i \in DOMAIN s : s[i] = x
  PROVE  \E i \in DOMAIN Tail(s) : Tail(s)[i] = x
  <1>1. PICK i \in DOMAIN s : s[i] = x
    OBVIOUS
  <1>2. i # 1 /\ i \in 1 .. Len(s)
    BY <1>1
  <1>3. i - 1 \in DOMAIN Tail(s) /\ Tail(s)[i - 1] = x
    BY <1>1, <1>2
  <1>4. QED BY <1>3

-----------------------------------------------------------------------------
(* The inductive invariant, part by part.                                  *)

\* The library's thread handles the report at the head of its queue.
CbInv == \A n \in Nodes : cb[n] => events[n] # << >> /\ Head(events[n])[1] = "gone"

\* A process that does not exist has no node, and one that is not being ended
\* exists; an attempt is at a camera.
OffInv ==
  \A n \in Nodes :
    /\ pc[n] = "off" => /\ ~alive[n] /\ ~node[n] /\ ~connected[n] /\ uri[n] = None
                        /\ ~cb[n] /\ events[n] = << >>
    /\ HoldsA(n) => cur[n] \in Devices

\* The shared mutex is taken by the one process between its locking and its
\* unlocking, until it is initialised while it is taken.
LockInv ==
  \/ stolen
  \/ /\ \A n \in Nodes : HoldsA(n) => locked
     /\ \A n, m \in Nodes : HoldsA(n) /\ HoldsA(m) => n = m

\* What device_connected_, device_uri_, device_ and the node say of each other,
\* at each place of the query thread.
ConnInv ==
  \A n \in Nodes : alive[n] =>
    /\ pc[n] = "starting" => uri[n] = cur[n] /\ handle[n] = cur[n] /\ ~node[n]
    /\ pc[n] # "starting" =>
         /\ connected[n] = node[n] /\ node[n] = (uri[n] # None)
         /\ node[n] => handle[n] = uri[n]
         /\ pc[n] = "finishing" /\ ~connected[n] => exc[n]

\* The camera a process has started on is open, or was pulled out.
UseInv ==
  \A n \in Nodes : alive[n] /\ uri[n] # None =>
    holder[uri[n]] = n \/ GonePending(n, uri[n])

IInv == TypeOK /\ CbInv /\ OffInv /\ LockInv /\ ConnInv /\ UseInv


-----------------------------------------------------------------------------
(* Type correctness.                                                       *)

LEMMA TypeInit == Init => TypeOK
  <1>1. Init => events \in [Nodes -> Seq(Event)]
    <2>1. << >> \in Seq(Event) OBVIOUS
    <2>2. QED BY <2>1 DEF Init
  <1>2. Init => /\ plugged \subseteq Devices /\ holder \in [Devices -> Nodes \cup {None}]
                /\ boots \in 0 .. MaxBoots /\ troubles \in 0 .. MaxTroubles
                /\ locked \in BOOLEAN /\ stolen \in BOOLEAN
    <2>1. 0 \in 0 .. MaxBoots /\ 0 \in 0 .. MaxTroubles
      BY BoundAssumption
    <2>2. Init => holder \in [Devices -> Nodes \cup {None}]
      BY DEF Init
    <2>3. QED BY <2>1, <2>2, AtFirstAssumption DEF Init
  <1>3. Init => /\ alive \in [Nodes -> BOOLEAN] /\ pc \in [Nodes -> Places]
                /\ list \in [Nodes -> SUBSET Devices] /\ first \in [Nodes -> BOOLEAN]
                /\ todo \in [Nodes -> SUBSET Devices]
                /\ node \in [Nodes -> BOOLEAN] /\ connected \in [Nodes -> BOOLEAN]
                /\ exc \in [Nodes -> BOOLEAN] /\ cb \in [Nodes -> BOOLEAN]
    BY DEF Init, Places
  <1>4. Init => /\ cur \in [Nodes -> Camera] /\ local \in [Nodes -> Camera]
                /\ uri \in [Nodes -> Camera] /\ handle \in [Nodes -> Camera]
    BY DEF Init, Camera
  <1>5. QED
    BY <1>1, <1>2, <1>3, <1>4 DEF TypeOK

-----------------------------------------------------------------------------
(* The step; CbInv says that the report being handled is there.            *)

LEMMA TypeNext ==
  ASSUME TypeOK, CbInv, [Next]_vars
  PROVE  TypeOK'
  <1>1. ASSUME NEW n \in Nodes, Boot(n) PROVE TypeOK'
    <2>1. stolen' \in BOOLEAN
      BY <1>1 DEF Boot
    <2>2. boots' \in 0 .. MaxBoots
      BY <1>1, BoundAssumption DEF Boot, TypeOK
    <2>3. QED
      BY <1>1, <2>1, <2>2
      DEF Boot, TypeOK, contextVars, queryVars, nodeVars, Places
  <1>2. ASSUME NEW n \in Nodes, Stop(n) PROVE TypeOK'
    BY <1>2, BoundAssumption
    DEF Stop, TypeOK, sharedVars, contextVars, queryVars, nodeVars, Goto, LoopOn, Trouble
  <1>3. ASSUME NEW n \in Nodes, Quit(n) PROVE TypeOK'
    BY <1>3, BoundAssumption
    DEF Quit, TypeOK, sharedVars, contextVars, queryVars, nodeVars, Goto, LoopOn, Forget, Camera, Places
  <1>4. ASSUME NEW n \in Nodes, Crash(n) PROVE TypeOK'
    BY <1>4, BoundAssumption
    DEF Crash, TypeOK, sharedVars, contextVars, queryVars, nodeVars, Goto, LoopOn, Forget, Trouble, Camera, Places
  <1>5. ASSUME NEW n \in Nodes, Came(n) PROVE TypeOK'
    <2>1. Head(events[n]) \in Event /\ Tail(events[n]) \in Seq(Event) /\ Head(events[n])[2] \in Devices
      BY <1>5 DEF Came, TypeOK, Event
    <2>2. QED BY <1>5, <2>1 DEF Came, TypeOK, sharedVars, queryVars, nodeVars
  <1>6. ASSUME NEW n \in Nodes, GoneBegin(n) PROVE TypeOK'
    BY <1>6, BoundAssumption
    DEF GoneBegin, TypeOK, sharedVars, contextVars, queryVars, nodeVars, Goto, LoopOn, Camera, Places
  <1>7. ASSUME NEW n \in Nodes, Gone(n) PROVE TypeOK'
    <2>1. events[n] # << >>
      BY <1>7 DEF Gone, CbInv
    <2>2. Head(events[n]) \in Event /\ Tail(events[n]) \in Seq(Event) /\ Head(events[n])[2] \in Devices
      BY <2>1 DEF TypeOK, Event
    <2>3. /\ uri' \in [Nodes -> Camera] /\ handle' \in [Nodes -> Camera]
          /\ node' \in [Nodes -> BOOLEAN] /\ connected' \in [Nodes -> BOOLEAN]
          /\ holder' \in [Devices -> Nodes \cup {None}]
      <3>1. CASE DropUsed(n, Head(events[n])[2])
        BY <3>1 DEF DropUsed, Release, TypeOK, Camera
      <3>2. CASE DropUnused(n, Head(events[n])[2])
        BY <3>2 DEF DropUnused, TypeOK
      <3>3. QED BY <1>7, <3>1, <3>2 DEF Gone
    <2>4. /\ list' \in [Nodes -> SUBSET Devices] /\ events' \in [Nodes -> Seq(Event)]
          /\ cb' \in [Nodes -> BOOLEAN]
      BY <1>7, <2>2 DEF Gone, TypeOK
    <2>5. QED
      BY <1>7, <2>3, <2>4 DEF Gone, TypeOK, queryVars
  <1>8. ASSUME NEW n \in Nodes, Top(n) PROVE TypeOK'
    BY <1>8, BoundAssumption
    DEF Top, TypeOK, sharedVars, contextVars, queryVars, nodeVars, Goto, LoopOn, Camera, Places
  <1>9. ASSUME NEW n \in Nodes, Enumerate(n) PROVE TypeOK'
    BY <1>9, BoundAssumption
    DEF Enumerate, TypeOK, sharedVars, contextVars, queryVars, nodeVars, Goto, LoopOn, Camera, Places
  <1>10. ASSUME NEW n \in Nodes, Enter(n) PROVE TypeOK'
    BY <1>10, BoundAssumption
    DEF Enter, TypeOK, sharedVars, contextVars, queryVars, nodeVars, Goto, LoopOn, Camera, Places
  <1>11. ASSUME NEW n \in Nodes, Copy(n) PROVE TypeOK'
    BY <1>11, BoundAssumption
    DEF Copy, TypeOK, sharedVars, contextVars, queryVars, nodeVars, Goto, LoopOn, Camera, Places
  <1>12. ASSUME NEW n \in Nodes, Sleep(n) PROVE TypeOK'
    BY <1>12, BoundAssumption
    DEF Sleep, TypeOK, sharedVars, contextVars, queryVars, nodeVars, Goto, LoopOn, Camera, Places
  <1>13. ASSUME NEW n \in Nodes, LockD(n) PROVE TypeOK'
    BY <1>13, BoundAssumption
    DEF LockD, TypeOK, sharedVars, contextVars, queryVars, nodeVars, Goto, LoopOn, Camera, Places
  <1>14. ASSUME NEW n \in Nodes, OpenFails(n) PROVE TypeOK'
    BY <1>14, BoundAssumption
    DEF OpenFails, TypeOK, sharedVars, contextVars, queryVars, nodeVars, Goto, LoopOn, Trouble, Openable, Places
  <1>15. ASSUME NEW n \in Nodes, Reject(n) PROVE TypeOK'
    BY <1>15, BoundAssumption
    DEF Reject, TypeOK, sharedVars, contextVars, queryVars, nodeVars, Goto, LoopOn, Opened, Trouble, Openable, Camera, Places
  <1>16. ASSUME NEW n \in Nodes, StartBegins(n) PROVE TypeOK'
    BY <1>16, BoundAssumption
    DEF StartBegins, TypeOK, sharedVars, contextVars, queryVars, nodeVars, Goto, LoopOn, Opened, Openable, Camera, Places
  <1>17. ASSUME NEW n \in Nodes, StartSucceeds(n) PROVE TypeOK'
    BY <1>17, BoundAssumption
    DEF StartSucceeds, TypeOK, sharedVars, contextVars, queryVars, nodeVars, Goto, LoopOn, Camera, Places
  <1>18. ASSUME NEW n \in Nodes, StartFails(n) PROVE TypeOK'
    BY <1>18, BoundAssumption
    DEF StartFails, TypeOK, sharedVars, contextVars, queryVars, nodeVars, Goto, LoopOn, Trouble, Camera, Places
  <1>19. ASSUME NEW n \in Nodes, Close(n) PROVE TypeOK'
    BY <1>19, BoundAssumption
    DEF Close, TypeOK, sharedVars, contextVars, queryVars, nodeVars, Goto, LoopOn, Unlock, Release, Camera, Places
  <1>20. ASSUME NEW n \in Nodes, Finish(n) PROVE TypeOK'
    BY <1>20, BoundAssumption
    DEF Finish, TypeOK, sharedVars, contextVars, queryVars, nodeVars, Goto, LoopOn, Unlock, Release, Camera, Places
  <1>21. ASSUME NEW n \in Nodes, LockA(n) PROVE TypeOK'
    BY <1>21, BoundAssumption
    DEF LockA, TypeOK, sharedVars, contextVars, queryVars, nodeVars, Goto, LoopOn, Camera, Places
  <1>22. ASSUME NEW d \in Devices, Unplug(d) PROVE TypeOK'
    <2>1. \A kind \in {"came", "gone"}, n \in Nodes : Append(events[n], <<kind, d>>) \in Seq(Event)
      BY DEF TypeOK, Event
    <2>2. events' \in [Nodes -> Seq(Event)]
      BY <1>22, <2>1 DEF Unplug, Tell, TypeOK
    <2>3. /\ plugged' \subseteq Devices /\ holder' \in [Devices -> Nodes \cup {None}]
          /\ troubles' \in 0 .. MaxTroubles
      BY <1>22, BoundAssumption DEF Unplug, Trouble, TypeOK
    <2>4. QED BY <1>22, <2>2, <2>3 DEF Unplug, TypeOK, queryVars, nodeVars
  <1>23. ASSUME NEW d \in Devices, Plug(d) PROVE TypeOK'
    <2>1. \A kind \in {"came", "gone"}, n \in Nodes : Append(events[n], <<kind, d>>) \in Seq(Event)
      BY DEF TypeOK, Event
    <2>2. events' \in [Nodes -> Seq(Event)]
      BY <1>23, <2>1 DEF Plug, Tell, TypeOK
    <2>3. /\ plugged' \subseteq Devices /\ holder' \in [Devices -> Nodes \cup {None}]
          /\ troubles' \in 0 .. MaxTroubles
      BY <1>23, BoundAssumption DEF Plug, Trouble, TypeOK
    <2>4. QED BY <1>23, <2>2, <2>3 DEF Plug, TypeOK, queryVars, nodeVars
  <1>24. CASE UNCHANGED vars
    BY <1>24 DEF TypeOK, vars, sharedVars, contextVars, queryVars, nodeVars
  <1>25. QED
    BY <1>1, <1>2, <1>3, <1>4, <1>5, <1>6, <1>7, <1>8, <1>9, <1>10, <1>11, <1>12, <1>13, <1>14, <1>15, <1>16, <1>17, <1>18, <1>19, <1>20, <1>21, <1>22, <1>23, <1>24
    DEF Next, QueryStep, LibraryStep

-----------------------------------------------------------------------------
(* The report that is handled stays at the head of the queue.              *)

LEMMA CbNext ==
  ASSUME TypeOK, CbInv, [Next]_vars
  PROVE  CbInv'
  <1>1. ASSUME NEW n \in Nodes, Boot(n) PROVE CbInv'
    BY <1>1
    DEF Boot, CbInv, TypeOK, sharedVars, contextVars, queryVars, nodeVars
  <1>2. ASSUME NEW n \in Nodes, Stop(n) PROVE CbInv'
    BY <1>2
    DEF Stop, CbInv, TypeOK, sharedVars, contextVars, queryVars, nodeVars
  <1>3. ASSUME NEW n \in Nodes, Quit(n) PROVE CbInv'
    BY <1>3
    DEF Quit, CbInv, TypeOK, Forget
  <1>4. ASSUME NEW n \in Nodes, Crash(n) PROVE CbInv'
    BY <1>4
    DEF Crash, CbInv, TypeOK, Forget
  <1>5. ASSUME NEW n \in Nodes, Came(n) PROVE CbInv'
    BY <1>5
    DEF Came, CbInv, TypeOK, sharedVars, contextVars, queryVars, nodeVars
  <1>6. ASSUME NEW n \in Nodes, GoneBegin(n) PROVE CbInv'
    BY <1>6
    DEF GoneBegin, CbInv, TypeOK, sharedVars, contextVars, queryVars, nodeVars
  <1>7. ASSUME NEW n \in Nodes, Gone(n) PROVE CbInv'
    BY <1>7
    DEF Gone, CbInv, TypeOK, sharedVars, contextVars, queryVars, nodeVars
  <1>8. ASSUME NEW n \in Nodes, Top(n) PROVE CbInv'
    BY <1>8
    DEF Top, CbInv, TypeOK, sharedVars, contextVars, queryVars, nodeVars
  <1>9. ASSUME NEW n \in Nodes, Enumerate(n) PROVE CbInv'
    BY <1>9
    DEF Enumerate, CbInv, TypeOK, sharedVars, contextVars, queryVars, nodeVars
  <1>10. ASSUME NEW n \in Nodes, Enter(n) PROVE CbInv'
    BY <1>10
    DEF Enter, CbInv, TypeOK, sharedVars, contextVars, queryVars, nodeVars
  <1>11. ASSUME NEW n \in Nodes, Copy(n) PROVE CbInv'
    BY <1>11
    DEF Copy, CbInv, TypeOK, sharedVars, contextVars, queryVars, nodeVars
  <1>12. ASSUME NEW n \in Nodes, Sleep(n) PROVE CbInv'
    BY <1>12
    DEF Sleep, CbInv, TypeOK, sharedVars, contextVars, queryVars, nodeVars
  <1>13. ASSUME NEW n \in Nodes, LockD(n) PROVE CbInv'
    BY <1>13
    DEF LockD, CbInv, TypeOK, sharedVars, contextVars, queryVars, nodeVars
  <1>14. ASSUME NEW n \in Nodes, OpenFails(n) PROVE CbInv'
    BY <1>14
    DEF OpenFails, CbInv, TypeOK, sharedVars, contextVars, queryVars, nodeVars
  <1>15. ASSUME NEW n \in Nodes, Reject(n) PROVE CbInv'
    BY <1>15
    DEF Reject, CbInv, TypeOK, sharedVars, contextVars, queryVars, nodeVars
  <1>16. ASSUME NEW n \in Nodes, StartBegins(n) PROVE CbInv'
    BY <1>16
    DEF StartBegins, CbInv, TypeOK, sharedVars, contextVars, queryVars, nodeVars
  <1>17. ASSUME NEW n \in Nodes, StartSucceeds(n) PROVE CbInv'
    BY <1>17
    DEF StartSucceeds, CbInv, TypeOK, sharedVars, contextVars, queryVars, nodeVars
  <1>18. ASSUME NEW n \in Nodes, StartFails(n) PROVE CbInv'
    BY <1>18
    DEF StartFails, CbInv, TypeOK, sharedVars, contextVars, queryVars, nodeVars
  <1>19. ASSUME NEW n \in Nodes, Close(n) PROVE CbInv'
    BY <1>19
    DEF Close, CbInv, TypeOK, Unlock, sharedVars, contextVars, queryVars, nodeVars
  <1>20. ASSUME NEW n \in Nodes, Finish(n) PROVE CbInv'
    BY <1>20
    DEF Finish, CbInv, TypeOK, Unlock, sharedVars, contextVars, queryVars, nodeVars
  <1>21. ASSUME NEW n \in Nodes, LockA(n) PROVE CbInv'
    BY <1>21
    DEF LockA, CbInv, TypeOK, sharedVars, contextVars, queryVars, nodeVars
  <1>22. ASSUME NEW d \in Devices, Unplug(d) PROVE CbInv'
    <2>1. ASSUME NEW n \in Nodes, events[n] # << >>, Head(events[n])[1] = "gone"
          PROVE  events'[n] # << >> /\ Head(events'[n])[1] = "gone"
      <3>1. \A x \in Event : /\ Append(events[n], x) # << >>
                             /\ Head(Append(events[n], x)) = Head(events[n])
        BY <2>1, Reports DEF TypeOK
      <3>2. <<"gone", d>> \in Event /\ <<"came", d>> \in Event
        BY DEF Event
      <3>3. QED BY <1>22, <2>1, <3>1, <3>2 DEF Unplug, Tell
    <2>2. QED BY <1>22, <2>1 DEF Unplug, CbInv, TypeOK
  <1>23. ASSUME NEW d \in Devices, Plug(d) PROVE CbInv'
    <2>1. ASSUME NEW n \in Nodes, events[n] # << >>, Head(events[n])[1] = "gone"
          PROVE  events'[n] # << >> /\ Head(events'[n])[1] = "gone"
      <3>1. \A x \in Event : /\ Append(events[n], x) # << >>
                             /\ Head(Append(events[n], x)) = Head(events[n])
        BY <2>1, Reports DEF TypeOK
      <3>2. <<"gone", d>> \in Event /\ <<"came", d>> \in Event
        BY DEF Event
      <3>3. QED BY <1>23, <2>1, <3>1, <3>2 DEF Plug, Tell
    <2>2. QED BY <1>23, <2>1 DEF Plug, CbInv, TypeOK
  <1>24. CASE UNCHANGED vars
    BY <1>24 DEF CbInv, vars, sharedVars, contextVars, queryVars, nodeVars
  <1>25. QED
    BY <1>1, <1>2, <1>3, <1>4, <1>5, <1>6, <1>7, <1>8, <1>9, <1>10, <1>11, <1>12, <1>13, <1>14, <1>15, <1>16, <1>17, <1>18, <1>19, <1>20, <1>21, <1>22, <1>23, <1>24
    DEF Next, QueryStep, LibraryStep

-----------------------------------------------------------------------------
(* A process that does not exist has nothing.                              *)

LEMMA OffNext ==
  ASSUME TypeOK, OffInv, [Next]_vars
  PROVE  OffInv'
  <1>1. ASSUME NEW n \in Nodes, Boot(n) PROVE OffInv'
    BY <1>1
    DEF Boot, OffInv, TypeOK, HoldsA, HoldsD, sharedVars, contextVars, queryVars, nodeVars, Goto, LoopOn
  <1>2. ASSUME NEW n \in Nodes, Stop(n) PROVE OffInv'
    BY <1>2
    DEF Stop, OffInv, TypeOK, HoldsA, HoldsD, sharedVars, contextVars, queryVars, nodeVars, Goto, LoopOn
  <1>3. ASSUME NEW n \in Nodes, Quit(n) PROVE OffInv'
    BY <1>3
    DEF Quit, OffInv, TypeOK, HoldsA, HoldsD, sharedVars, contextVars, queryVars, nodeVars, Goto, LoopOn, Forget
  <1>4. ASSUME NEW n \in Nodes, Crash(n) PROVE OffInv'
    BY <1>4
    DEF Crash, OffInv, TypeOK, HoldsA, HoldsD, sharedVars, contextVars, queryVars, nodeVars, Goto, LoopOn, Forget
  <1>5. ASSUME NEW n \in Nodes, Came(n) PROVE OffInv'
    BY <1>5
    DEF Came, OffInv, TypeOK, HoldsA, HoldsD, sharedVars, contextVars, queryVars, nodeVars, Goto, LoopOn
  <1>6. ASSUME NEW n \in Nodes, GoneBegin(n) PROVE OffInv'
    BY <1>6
    DEF GoneBegin, OffInv, TypeOK, HoldsA, HoldsD, sharedVars, contextVars, queryVars, nodeVars, Goto, LoopOn
  <1>7. ASSUME NEW n \in Nodes, Gone(n) PROVE OffInv'
    BY <1>7
    DEF Gone, OffInv, TypeOK, HoldsA, HoldsD, sharedVars, contextVars, queryVars, nodeVars, Goto, LoopOn, DropUsed, DropUnused
  <1>8. ASSUME NEW n \in Nodes, Top(n) PROVE OffInv'
    BY <1>8
    DEF Top, OffInv, TypeOK, HoldsA, HoldsD, sharedVars, contextVars, queryVars, nodeVars, Goto, LoopOn
  <1>9. ASSUME NEW n \in Nodes, Enumerate(n) PROVE OffInv'
    BY <1>9
    DEF Enumerate, OffInv, TypeOK, HoldsA, HoldsD, sharedVars, contextVars, queryVars, nodeVars, Goto, LoopOn
  <1>10. ASSUME NEW n \in Nodes, Enter(n) PROVE OffInv'
    BY <1>10
    DEF Enter, OffInv, TypeOK, HoldsA, HoldsD, sharedVars, contextVars, queryVars, nodeVars, Goto, LoopOn
  <1>11. ASSUME NEW n \in Nodes, Copy(n) PROVE OffInv'
    BY <1>11
    DEF Copy, OffInv, TypeOK, HoldsA, HoldsD, sharedVars, contextVars, queryVars, nodeVars, Goto, LoopOn
  <1>12. ASSUME NEW n \in Nodes, Sleep(n) PROVE OffInv'
    BY <1>12
    DEF Sleep, OffInv, TypeOK, HoldsA, HoldsD, sharedVars, contextVars, queryVars, nodeVars, Goto, LoopOn
  <1>13. ASSUME NEW n \in Nodes, LockD(n) PROVE OffInv'
    BY <1>13
    DEF LockD, OffInv, TypeOK, HoldsA, HoldsD, sharedVars, contextVars, queryVars, nodeVars, Goto, LoopOn
  <1>14. ASSUME NEW n \in Nodes, OpenFails(n) PROVE OffInv'
    BY <1>14
    DEF OpenFails, OffInv, TypeOK, HoldsA, HoldsD, sharedVars, contextVars, queryVars, nodeVars, Goto, LoopOn
  <1>15. ASSUME NEW n \in Nodes, Reject(n) PROVE OffInv'
    BY <1>15
    DEF Reject, OffInv, TypeOK, HoldsA, HoldsD, sharedVars, contextVars, queryVars, nodeVars, Goto, LoopOn, Opened
  <1>16. ASSUME NEW n \in Nodes, StartBegins(n) PROVE OffInv'
    BY <1>16
    DEF StartBegins, OffInv, TypeOK, HoldsA, HoldsD, sharedVars, contextVars, queryVars, nodeVars, Goto, LoopOn, Opened
  <1>17. ASSUME NEW n \in Nodes, StartSucceeds(n) PROVE OffInv'
    BY <1>17
    DEF StartSucceeds, OffInv, TypeOK, HoldsA, HoldsD, sharedVars, contextVars, queryVars, nodeVars, Goto, LoopOn
  <1>18. ASSUME NEW n \in Nodes, StartFails(n) PROVE OffInv'
    BY <1>18
    DEF StartFails, OffInv, TypeOK, HoldsA, HoldsD, sharedVars, contextVars, queryVars, nodeVars, Goto, LoopOn
  <1>19. ASSUME NEW n \in Nodes, Close(n) PROVE OffInv'
    BY <1>19
    DEF Close, OffInv, TypeOK, HoldsA, HoldsD, sharedVars, contextVars, queryVars, nodeVars, Goto, LoopOn, Unlock
  <1>20. ASSUME NEW n \in Nodes, Finish(n) PROVE OffInv'
    BY <1>20
    DEF Finish, OffInv, TypeOK, HoldsA, HoldsD, sharedVars, contextVars, queryVars, nodeVars, Goto, LoopOn, Unlock
  <1>21. ASSUME NEW n \in Nodes, LockA(n) PROVE OffInv'
    BY <1>21
    DEF LockA, OffInv, TypeOK, HoldsA, HoldsD, sharedVars, contextVars, queryVars, nodeVars, Goto, LoopOn
  <1>22. ASSUME NEW d \in Devices, Unplug(d) PROVE OffInv'
    BY <1>22
    DEF Unplug, OffInv, TypeOK, HoldsA, HoldsD, sharedVars, contextVars, queryVars, nodeVars, Goto, LoopOn, Tell
  <1>23. ASSUME NEW d \in Devices, Plug(d) PROVE OffInv'
    BY <1>23
    DEF Plug, OffInv, TypeOK, HoldsA, HoldsD, sharedVars, contextVars, queryVars, nodeVars, Goto, LoopOn, Tell
  <1>24. CASE UNCHANGED vars
    BY <1>24 DEF OffInv, HoldsA, HoldsD, vars, sharedVars, contextVars, queryVars, nodeVars
  <1>25. QED
    BY <1>1, <1>2, <1>3, <1>4, <1>5, <1>6, <1>7, <1>8, <1>9, <1>10, <1>11, <1>12, <1>13, <1>14, <1>15, <1>16, <1>17, <1>18, <1>19, <1>20, <1>21, <1>22, <1>23, <1>24
    DEF Next, QueryStep, LibraryStep

-----------------------------------------------------------------------------
(* The shared mutex.                                                       *)

LEMMA LockNext ==
  ASSUME TypeOK, LockInv, [Next]_vars
  PROVE  LockInv'
  <1>1. ASSUME NEW n \in Nodes, Boot(n) PROVE LockInv'
    BY <1>1
    DEF Boot, LockInv, TypeOK, HoldsA, HoldsD, sharedVars, contextVars, queryVars, nodeVars, Goto, LoopOn, Opening
  <1>2. ASSUME NEW n \in Nodes, Stop(n) PROVE LockInv'
    BY <1>2
    DEF Stop, LockInv, TypeOK, HoldsA, HoldsD, sharedVars, contextVars, queryVars, nodeVars, Goto, LoopOn
  <1>3. ASSUME NEW n \in Nodes, Quit(n) PROVE LockInv'
    BY <1>3
    DEF Quit, LockInv, TypeOK, HoldsA, HoldsD, sharedVars, contextVars, queryVars, nodeVars, Goto, LoopOn, Forget
  <1>4. ASSUME NEW n \in Nodes, Crash(n) PROVE LockInv'
    BY <1>4
    DEF Crash, LockInv, TypeOK, HoldsA, HoldsD, sharedVars, contextVars, queryVars, nodeVars, Goto, LoopOn, Forget
  <1>5. ASSUME NEW n \in Nodes, Came(n) PROVE LockInv'
    BY <1>5
    DEF Came, LockInv, TypeOK, HoldsA, HoldsD, sharedVars, contextVars, queryVars, nodeVars, Goto, LoopOn
  <1>6. ASSUME NEW n \in Nodes, GoneBegin(n) PROVE LockInv'
    BY <1>6
    DEF GoneBegin, LockInv, TypeOK, HoldsA, HoldsD, sharedVars, contextVars, queryVars, nodeVars, Goto, LoopOn
  <1>7. ASSUME NEW n \in Nodes, Gone(n) PROVE LockInv'
    BY <1>7
    DEF Gone, LockInv, TypeOK, HoldsA, HoldsD, sharedVars, contextVars, queryVars, nodeVars, Goto, LoopOn
  <1>8. ASSUME NEW n \in Nodes, Top(n) PROVE LockInv'
    BY <1>8
    DEF Top, LockInv, TypeOK, HoldsA, HoldsD, sharedVars, contextVars, queryVars, nodeVars, Goto, LoopOn
  <1>9. ASSUME NEW n \in Nodes, Enumerate(n) PROVE LockInv'
    BY <1>9
    DEF Enumerate, LockInv, TypeOK, HoldsA, HoldsD, sharedVars, contextVars, queryVars, nodeVars, Goto, LoopOn
  <1>10. ASSUME NEW n \in Nodes, Enter(n) PROVE LockInv'
    BY <1>10
    DEF Enter, LockInv, TypeOK, HoldsA, HoldsD, sharedVars, contextVars, queryVars, nodeVars, Goto, LoopOn
  <1>11. ASSUME NEW n \in Nodes, Copy(n) PROVE LockInv'
    BY <1>11
    DEF Copy, LockInv, TypeOK, HoldsA, HoldsD, sharedVars, contextVars, queryVars, nodeVars, Goto, LoopOn
  <1>12. ASSUME NEW n \in Nodes, Sleep(n) PROVE LockInv'
    BY <1>12
    DEF Sleep, LockInv, TypeOK, HoldsA, HoldsD, sharedVars, contextVars, queryVars, nodeVars, Goto, LoopOn
  <1>13. ASSUME NEW n \in Nodes, LockD(n) PROVE LockInv'
    BY <1>13
    DEF LockD, LockInv, TypeOK, HoldsA, HoldsD, sharedVars, contextVars, queryVars, nodeVars, Goto, LoopOn
  <1>14. ASSUME NEW n \in Nodes, OpenFails(n) PROVE LockInv'
    BY <1>14
    DEF OpenFails, LockInv, TypeOK, HoldsA, HoldsD, sharedVars, contextVars, queryVars, nodeVars, Goto, LoopOn
  <1>15. ASSUME NEW n \in Nodes, Reject(n) PROVE LockInv'
    BY <1>15
    DEF Reject, LockInv, TypeOK, HoldsA, HoldsD, sharedVars, contextVars, queryVars, nodeVars, Goto, LoopOn, Opened
  <1>16. ASSUME NEW n \in Nodes, StartBegins(n) PROVE LockInv'
    BY <1>16
    DEF StartBegins, LockInv, TypeOK, HoldsA, HoldsD, sharedVars, contextVars, queryVars, nodeVars, Goto, LoopOn, Opened
  <1>17. ASSUME NEW n \in Nodes, StartSucceeds(n) PROVE LockInv'
    BY <1>17
    DEF StartSucceeds, LockInv, TypeOK, HoldsA, HoldsD, sharedVars, contextVars, queryVars, nodeVars, Goto, LoopOn
  <1>18. ASSUME NEW n \in Nodes, StartFails(n) PROVE LockInv'
    BY <1>18
    DEF StartFails, LockInv, TypeOK, HoldsA, HoldsD, sharedVars, contextVars, queryVars, nodeVars, Goto, LoopOn
  <1>19. ASSUME NEW n \in Nodes, Close(n) PROVE LockInv'
    BY <1>19
    DEF Close, LockInv, TypeOK, HoldsA, HoldsD, sharedVars, contextVars, queryVars, nodeVars, Goto, LoopOn, Unlock
  <1>20. ASSUME NEW n \in Nodes, Finish(n) PROVE LockInv'
    BY <1>20
    DEF Finish, LockInv, TypeOK, HoldsA, HoldsD, sharedVars, contextVars, queryVars, nodeVars, Goto, LoopOn, Unlock
  <1>21. ASSUME NEW n \in Nodes, LockA(n) PROVE LockInv'
    BY <1>21
    DEF LockA, LockInv, TypeOK, HoldsA, HoldsD, sharedVars, contextVars, queryVars, nodeVars, Goto, LoopOn
  <1>22. ASSUME NEW d \in Devices, Unplug(d) PROVE LockInv'
    BY <1>22
    DEF Unplug, LockInv, TypeOK, HoldsA, HoldsD, sharedVars, contextVars, queryVars, nodeVars, Goto, LoopOn
  <1>23. ASSUME NEW d \in Devices, Plug(d) PROVE LockInv'
    BY <1>23
    DEF Plug, LockInv, TypeOK, HoldsA, HoldsD, sharedVars, contextVars, queryVars, nodeVars, Goto, LoopOn
  <1>24. CASE UNCHANGED vars
    BY <1>24 DEF LockInv, HoldsA, HoldsD, vars, sharedVars, contextVars, queryVars, nodeVars
  <1>25. QED
    BY <1>1, <1>2, <1>3, <1>4, <1>5, <1>6, <1>7, <1>8, <1>9, <1>10, <1>11, <1>12, <1>13, <1>14, <1>15, <1>16, <1>17, <1>18, <1>19, <1>20, <1>21, <1>22, <1>23, <1>24
    DEF Next, QueryStep, LibraryStep

-----------------------------------------------------------------------------
(* Connected, node, uri and device.                                        *)

LEMMA ConnNext ==
  ASSUME TypeOK, OffInv, ConnInv, [Next]_vars
  PROVE  ConnInv'
  <1>1. ASSUME NEW n \in Nodes, Boot(n) PROVE ConnInv'
    BY <1>1, NoneAssumption
    DEF Boot, ConnInv, OffInv, TypeOK, HoldsA, HoldsD, sharedVars, contextVars, queryVars, nodeVars, Goto, LoopOn
  <1>2. ASSUME NEW n \in Nodes, Stop(n) PROVE ConnInv'
    BY <1>2, NoneAssumption
    DEF Stop, ConnInv, OffInv, TypeOK, HoldsA, HoldsD, sharedVars, contextVars, queryVars, nodeVars, Goto, LoopOn
  <1>3. ASSUME NEW n \in Nodes, Quit(n) PROVE ConnInv'
    BY <1>3, NoneAssumption
    DEF Quit, ConnInv, OffInv, TypeOK, HoldsA, HoldsD, sharedVars, contextVars, queryVars, nodeVars, Goto, LoopOn, Forget
  <1>4. ASSUME NEW n \in Nodes, Crash(n) PROVE ConnInv'
    BY <1>4, NoneAssumption
    DEF Crash, ConnInv, OffInv, TypeOK, HoldsA, HoldsD, sharedVars, contextVars, queryVars, nodeVars, Goto, LoopOn, Forget
  <1>5. ASSUME NEW n \in Nodes, Came(n) PROVE ConnInv'
    BY <1>5, NoneAssumption
    DEF Came, ConnInv, OffInv, TypeOK, HoldsA, HoldsD, sharedVars, contextVars, queryVars, nodeVars, Goto, LoopOn
  <1>6. ASSUME NEW n \in Nodes, GoneBegin(n) PROVE ConnInv'
    BY <1>6, NoneAssumption
    DEF GoneBegin, ConnInv, OffInv, TypeOK, HoldsA, HoldsD, sharedVars, contextVars, queryVars, nodeVars, Goto, LoopOn
  <1>7. ASSUME NEW n \in Nodes, Gone(n) PROVE ConnInv'
    <2>2. CASE DropUsed(n, Head(events[n])[2])
      BY <1>7, <2>2 DEF Gone, HoldsD, ConnInv, DropUsed, TypeOK, queryVars
    <2>3. CASE DropUnused(n, Head(events[n])[2])
      BY <1>7, <2>3 DEF Gone, ConnInv, DropUnused, TypeOK, queryVars
    <2>4. QED BY <1>7, <2>2, <2>3 DEF Gone
  <1>8. ASSUME NEW n \in Nodes, Top(n) PROVE ConnInv'
    BY <1>8, NoneAssumption
    DEF Top, ConnInv, OffInv, TypeOK, HoldsA, HoldsD, sharedVars, contextVars, queryVars, nodeVars, Goto, LoopOn
  <1>9. ASSUME NEW n \in Nodes, Enumerate(n) PROVE ConnInv'
    BY <1>9, NoneAssumption
    DEF Enumerate, ConnInv, OffInv, TypeOK, HoldsA, HoldsD, sharedVars, contextVars, queryVars, nodeVars, Goto, LoopOn
  <1>10. ASSUME NEW n \in Nodes, Enter(n) PROVE ConnInv'
    BY <1>10, NoneAssumption
    DEF Enter, ConnInv, OffInv, TypeOK, HoldsA, HoldsD, sharedVars, contextVars, queryVars, nodeVars, Goto, LoopOn
  <1>11. ASSUME NEW n \in Nodes, Copy(n) PROVE ConnInv'
    BY <1>11, NoneAssumption
    DEF Copy, ConnInv, OffInv, TypeOK, HoldsA, HoldsD, sharedVars, contextVars, queryVars, nodeVars, Goto, LoopOn
  <1>12. ASSUME NEW n \in Nodes, Sleep(n) PROVE ConnInv'
    BY <1>12, NoneAssumption
    DEF Sleep, ConnInv, OffInv, TypeOK, HoldsA, HoldsD, sharedVars, contextVars, queryVars, nodeVars, Goto, LoopOn
  <1>13. ASSUME NEW n \in Nodes, LockD(n) PROVE ConnInv'
    BY <1>13, NoneAssumption
    DEF LockD, ConnInv, OffInv, TypeOK, HoldsA, HoldsD, sharedVars, contextVars, queryVars, nodeVars, Goto, LoopOn
  <1>14. ASSUME NEW n \in Nodes, OpenFails(n) PROVE ConnInv'
    BY <1>14, NoneAssumption
    DEF OpenFails, ConnInv, OffInv, TypeOK, HoldsA, HoldsD, sharedVars, contextVars, queryVars, nodeVars, Goto, LoopOn
  <1>15. ASSUME NEW n \in Nodes, Reject(n) PROVE ConnInv'
    BY <1>15, NoneAssumption
    DEF Reject, ConnInv, OffInv, TypeOK, HoldsA, HoldsD, sharedVars, contextVars, queryVars, nodeVars, Goto, LoopOn, Opened
  <1>16. ASSUME NEW n \in Nodes, StartBegins(n) PROVE ConnInv'
    BY <1>16, NoneAssumption
    DEF StartBegins, ConnInv, OffInv, TypeOK, HoldsA, HoldsD, sharedVars, contextVars, queryVars, nodeVars, Goto, LoopOn, Opened
  <1>17. ASSUME NEW n \in Nodes, StartSucceeds(n) PROVE ConnInv'
    <2>1. cur[n] # None
      BY <1>17, NoneAssumption DEF StartSucceeds, OffInv, HoldsA, HoldsD
    <2>2. alive[n] => uri[n] # None /\ handle[n] = uri[n]
      BY <1>17, <2>1 DEF StartSucceeds, ConnInv
    <2>3. /\ pc' = [pc EXCEPT ![n] = "finishing"]
          /\ node' = [node EXCEPT ![n] = TRUE] /\ connected' = [connected EXCEPT ![n] = TRUE]
          /\ UNCHANGED <<alive, uri, handle, exc, cur>>
      BY <1>17 DEF StartSucceeds, Goto, queryVars
    <2>4. QED
      BY <2>2, <2>3 DEF ConnInv, TypeOK
  <1>18. ASSUME NEW n \in Nodes, StartFails(n) PROVE ConnInv'
    BY <1>18, NoneAssumption
    DEF StartFails, ConnInv, OffInv, TypeOK, HoldsA, HoldsD, sharedVars, contextVars, queryVars, nodeVars, Goto, LoopOn
  <1>19. ASSUME NEW n \in Nodes, Close(n) PROVE ConnInv'
    BY <1>19, NoneAssumption
    DEF Close, ConnInv, OffInv, TypeOK, HoldsA, HoldsD, sharedVars, contextVars, queryVars, nodeVars, Goto, LoopOn, Unlock
  <1>20. ASSUME NEW n \in Nodes, Finish(n) PROVE ConnInv'
    BY <1>20, NoneAssumption
    DEF Finish, ConnInv, OffInv, TypeOK, HoldsA, HoldsD, sharedVars, contextVars, queryVars, nodeVars, Goto, LoopOn, Unlock
  <1>21. ASSUME NEW n \in Nodes, LockA(n) PROVE ConnInv'
    BY <1>21, NoneAssumption
    DEF LockA, ConnInv, OffInv, TypeOK, HoldsA, HoldsD, sharedVars, contextVars, queryVars, nodeVars, Goto, LoopOn
  <1>22. ASSUME NEW d \in Devices, Unplug(d) PROVE ConnInv'
    BY <1>22, NoneAssumption
    DEF Unplug, ConnInv, OffInv, TypeOK, HoldsA, HoldsD, sharedVars, contextVars, queryVars, nodeVars, Goto, LoopOn
  <1>23. ASSUME NEW d \in Devices, Plug(d) PROVE ConnInv'
    BY <1>23, NoneAssumption
    DEF Plug, ConnInv, OffInv, TypeOK, HoldsA, HoldsD, sharedVars, contextVars, queryVars, nodeVars, Goto, LoopOn
  <1>24. CASE UNCHANGED vars
    BY <1>24 DEF ConnInv, vars, sharedVars, contextVars, queryVars, nodeVars
  <1>25. QED
    BY <1>1, <1>2, <1>3, <1>4, <1>5, <1>6, <1>7, <1>8, <1>9, <1>10, <1>11, <1>12, <1>13, <1>14, <1>15, <1>16, <1>17, <1>18, <1>19, <1>20, <1>21, <1>22, <1>23, <1>24
    DEF Next, QueryStep, LibraryStep

-----------------------------------------------------------------------------
(* A step of process n that leaves alone what the others have.               *)

LEMMA OthersKept ==
  ASSUME TypeOK, TypeOK', UseInv, NEW n \in Nodes,
         \A m \in Nodes \ {n} : alive'[m] = alive[m] /\ uri'[m] = uri[m],
         \A m \in Nodes \ {n}, c \in Devices : holder[c] = m => holder'[c] = m,
         \A m \in Nodes \ {n}, c \in Devices : GonePending(m, c) => GonePending(m, c)',
         \A c \in Devices : alive'[n] /\ uri'[n] = c => holder'[c] = n \/ GonePending(n, c)'
  PROVE  UseInv'
  <1>1. ASSUME NEW m \in Nodes, NEW c \in Devices, alive'[m], uri'[m] = c
        PROVE  holder'[c] = m \/ GonePending(m, c)'
    <2>1. CASE m # n
      <3>1. holder[c] = m \/ GonePending(m, c)
        BY <1>1, <2>1, NoneAssumption DEF UseInv
      <3>2. QED BY <2>1, <3>1
    <2>2. QED BY <1>1, <2>1
  <1>2. \A m \in Nodes : uri'[m] \in Devices \cup {None}
    BY DEF TypeOK, Camera
  <1>3. QED BY <1>1, <1>2 DEF UseInv, GonePending

-----------------------------------------------------------------------------
(* The camera of a process that is not being ended.                         *)

LEMMA UseNext ==
  ASSUME TypeOK, TypeOK', CbInv, OffInv, ConnInv, UseInv, [Next]_vars
  PROVE  UseInv'
  <1>1. ASSUME NEW n \in Nodes, Boot(n) PROVE UseInv'
    BY <1>1, NoneAssumption
    DEF Boot, UseInv, TypeOK, GonePending, Goto, LoopOn, sharedVars, contextVars, queryVars, nodeVars, OffInv
  <1>2. ASSUME NEW n \in Nodes, Stop(n) PROVE UseInv'
    BY <1>2, NoneAssumption
    DEF Stop, UseInv, TypeOK, GonePending, Goto, LoopOn, sharedVars, contextVars, queryVars, nodeVars
  <1>3. ASSUME NEW n \in Nodes, Quit(n) PROVE UseInv'
    <2>1. \A m \in Nodes \ {n} : /\ alive'[m] = alive[m] /\ uri'[m] = uri[m]
                                  /\ events'[m] = events[m]
      BY <1>3 DEF Quit, Forget, TypeOK
    <2>2. \A m \in Nodes \ {n}, c \in Devices : holder[c] = m => holder'[c] = m
      BY <1>3 DEF Quit, Forget, TypeOK
    <2>3. ~alive'[n]
      BY <1>3 DEF Quit, Forget, TypeOK
    <2>4. QED BY <2>1, <2>2, <2>3, OthersKept DEF GonePending
  <1>4. ASSUME NEW n \in Nodes, Crash(n) PROVE UseInv'
    <2>1. \A m \in Nodes \ {n} : /\ alive'[m] = alive[m] /\ uri'[m] = uri[m]
                                  /\ events'[m] = events[m]
      BY <1>4 DEF Crash, Forget, TypeOK
    <2>2. \A m \in Nodes \ {n}, c \in Devices : holder[c] = m => holder'[c] = m
      BY <1>4 DEF Crash, Forget, TypeOK
    <2>3. ~alive'[n]
      BY <1>4 DEF Crash, Forget, TypeOK
    <2>4. QED BY <2>1, <2>2, <2>3, OthersKept DEF GonePending
  <1>5. ASSUME NEW n \in Nodes, Came(n) PROVE UseInv'
    <2>1. ASSUME NEW m \in Nodes, NEW c \in Devices, GonePending(m, c) PROVE GonePending(m, c)'
      <3>1. <<"gone", c>> \in Event BY DEF Event
      <3>2. CASE m # n
        BY <1>5, <2>1, <3>2 DEF Came, GonePending, TypeOK
      <3>3. CASE m = n
        <4>1. events[n] # << >> /\ Head(events[n]) # <<"gone", c>>
          BY <1>5 DEF Came
        <4>2. \E i \in DOMAIN Tail(events[n]) : Tail(events[n])[i] = <<"gone", c>>
          <5>1. events[n] \in Seq(Event) /\ \E i \in DOMAIN events[n] : events[n][i] = <<"gone", c>>
            BY <2>1, <3>3 DEF TypeOK, GonePending
          <5>2. QED BY <3>1, <4>1, <5>1, TailKeeps
        <4>3. events'[n] = Tail(events[n])
          BY <1>5 DEF Came, TypeOK
        <4>4. QED BY <3>3, <4>2, <4>3 DEF GonePending
      <3>4. QED BY <3>2, <3>3
    <2>2. QED BY <1>5, <2>1 DEF Came, UseInv, TypeOK, Camera, sharedVars, nodeVars
  <1>6. ASSUME NEW n \in Nodes, GoneBegin(n) PROVE UseInv'
    BY <1>6, NoneAssumption
    DEF GoneBegin, UseInv, TypeOK, GonePending, Goto, LoopOn, sharedVars, contextVars, queryVars, nodeVars
  <1>7. ASSUME NEW n \in Nodes, Gone(n) PROVE UseInv'
    <2> DEFINE d == Head(events[n])[2]
    <2>1. events[n] # << >> /\ Head(events[n])[1] = "gone" /\ Head(events[n]) \in Event
      BY <1>7 DEF Gone, CbInv, TypeOK
    <2>2. Head(events[n]) = <<"gone", d>> /\ d \in Devices
      BY <2>1 DEF Event
    <2>3. ASSUME NEW m \in Nodes, NEW c \in Devices, m # n \/ c # d, GonePending(m, c)
          PROVE  GonePending(m, c)'
      <3>1. CASE m # n
        BY <1>7, <2>3, <3>1 DEF Gone, GonePending, TypeOK
      <3>2. CASE m = n
        <4>1. <<"gone", c>> \in Event /\ Head(events[n]) # <<"gone", c>>
          BY <2>2, <2>3, <3>2 DEF Event
        <4>2. \E i \in DOMAIN Tail(events[n]) : Tail(events[n])[i] = <<"gone", c>>
          <5>1. events[n] \in Seq(Event) /\ \E i \in DOMAIN events[n] : events[n][i] = <<"gone", c>>
            BY <2>3, <3>2 DEF TypeOK, GonePending
          <5>2. QED BY <2>1, <4>1, <5>1, TailKeeps
        <4>3. events'[n] = Tail(events[n])
          BY <1>7 DEF Gone, TypeOK
        <4>4. QED BY <3>2, <4>2, <4>3 DEF GonePending
      <3>3. QED BY <3>1, <3>2
    <2>4. CASE DropUsed(n, d)
      <3>1. uri'[n] = None /\ \A m \in Nodes \ {n} : uri'[m] = uri[m]
        BY <2>4 DEF DropUsed, TypeOK
      <3>2. \A m \in Nodes \ {n}, c \in Devices : holder[c] = m => holder'[c] = m
        BY <2>4 DEF DropUsed, Release, TypeOK
      <3>3. \A m \in Nodes \ {n} : alive'[m] = alive[m] /\ uri'[m] = uri[m]
        BY <1>7, <3>1 DEF Gone
      <3>4. \A m \in Nodes \ {n}, c \in Devices : GonePending(m, c) => GonePending(m, c)'
        BY <2>3
      <3>5. \A c \in Devices : alive'[n] /\ uri'[n] = c => holder'[c] = n \/ GonePending(n, c)'
        BY <3>1, NoneAssumption
      <3>6. QED BY <3>2, <3>3, <3>4, <3>5, OthersKept
    <2>5. CASE DropUnused(n, d)
      BY <1>7, <2>3, <2>5 DEF Gone, DropUnused, UseInv, TypeOK, Camera
    <2>6. QED BY <1>7, <2>4, <2>5 DEF Gone
  <1>8. ASSUME NEW n \in Nodes, Top(n) PROVE UseInv'
    BY <1>8, NoneAssumption
    DEF Top, UseInv, TypeOK, GonePending, Goto, LoopOn, sharedVars, contextVars, queryVars, nodeVars
  <1>9. ASSUME NEW n \in Nodes, Enumerate(n) PROVE UseInv'
    BY <1>9, NoneAssumption
    DEF Enumerate, UseInv, TypeOK, GonePending, Goto, LoopOn, sharedVars, contextVars, queryVars, nodeVars
  <1>10. ASSUME NEW n \in Nodes, Enter(n) PROVE UseInv'
    BY <1>10, NoneAssumption
    DEF Enter, UseInv, TypeOK, GonePending, Goto, LoopOn, sharedVars, contextVars, queryVars, nodeVars
  <1>11. ASSUME NEW n \in Nodes, Copy(n) PROVE UseInv'
    BY <1>11, NoneAssumption
    DEF Copy, UseInv, TypeOK, GonePending, Goto, LoopOn, sharedVars, contextVars, queryVars, nodeVars
  <1>12. ASSUME NEW n \in Nodes, Sleep(n) PROVE UseInv'
    BY <1>12, NoneAssumption
    DEF Sleep, UseInv, TypeOK, GonePending, Goto, LoopOn, sharedVars, contextVars, queryVars, nodeVars
  <1>13. ASSUME NEW n \in Nodes, LockD(n) PROVE UseInv'
    BY <1>13, NoneAssumption
    DEF LockD, UseInv, TypeOK, GonePending, Goto, LoopOn, sharedVars, contextVars, queryVars, nodeVars
  <1>14. ASSUME NEW n \in Nodes, OpenFails(n) PROVE UseInv'
    BY <1>14, NoneAssumption
    DEF OpenFails, UseInv, TypeOK, GonePending, Goto, LoopOn, sharedVars, contextVars, queryVars, nodeVars
  <1>15. ASSUME NEW n \in Nodes, Reject(n) PROVE UseInv'
    <2>1. \A m \in Nodes \ {n} : alive'[m] = alive[m] /\ uri'[m] = uri[m]
      BY <1>15 DEF Reject, TypeOK, nodeVars
    <2>2. \A m \in Nodes, c \in Devices : GonePending(m, c) => GonePending(m, c)'
      BY <1>15 DEF Reject, contextVars, GonePending
    <2>3. cur[n] \in Devices
      BY <1>15 DEF Reject, Opened, OffInv, HoldsA, HoldsD
    <2>4. \A m \in Nodes \ {n}, c \in Devices : holder[c] = m => holder'[c] = m
      BY <1>15, <2>3, NoneAssumption DEF Reject, Opened, Openable, TypeOK
    <2>5. alive'[n] = alive[n] /\ uri'[n] = uri[n] /\ \A c \in Devices : holder[c] = n => holder'[c] = n
      BY <1>15, <2>3 DEF Reject, TypeOK, Camera, nodeVars
    <2>6. \A c \in Devices : alive'[n] /\ uri'[n] = c => holder'[c] = n \/ GonePending(n, c)'
      BY <2>2, <2>5, NoneAssumption DEF UseInv
    <2>7. QED BY <2>1, <2>2, <2>4, <2>6, OthersKept
  <1>16. ASSUME NEW n \in Nodes, StartBegins(n) PROVE UseInv'
    <2>1. \A m \in Nodes \ {n} : alive'[m] = alive[m] /\ uri'[m] = uri[m]
      BY <1>16 DEF StartBegins, TypeOK, nodeVars
    <2>2. \A m \in Nodes, c \in Devices : GonePending(m, c) => GonePending(m, c)'
      BY <1>16 DEF StartBegins, contextVars, GonePending
    <2>3. cur[n] \in Devices
      BY <1>16 DEF StartBegins, Opened, OffInv, HoldsA, HoldsD
    <2>4. \A m \in Nodes \ {n}, c \in Devices : holder[c] = m => holder'[c] = m
      BY <1>16, <2>3, NoneAssumption DEF StartBegins, Opened, Openable, TypeOK
    <2>5. alive'[n] = alive[n] /\ uri'[n] = cur[n] /\ holder'[cur[n]] = n
      BY <1>16, <2>3 DEF StartBegins, TypeOK, Camera, nodeVars
    <2>6. \A c \in Devices : alive'[n] /\ uri'[n] = c => holder'[c] = n \/ GonePending(n, c)'
      BY <2>2, <2>5, NoneAssumption DEF UseInv
    <2>7. QED BY <2>1, <2>2, <2>4, <2>6, OthersKept
  <1>17. ASSUME NEW n \in Nodes, StartSucceeds(n) PROVE UseInv'
    BY <1>17, NoneAssumption
    DEF StartSucceeds, UseInv, TypeOK, GonePending, Goto, LoopOn, sharedVars, contextVars, queryVars, nodeVars
  <1>18. ASSUME NEW n \in Nodes, StartFails(n) PROVE UseInv'
    BY <1>18, NoneAssumption
    DEF StartFails, UseInv, TypeOK, GonePending, Goto, LoopOn, sharedVars, contextVars, queryVars, nodeVars
  <1>19. ASSUME NEW n \in Nodes, Close(n) PROVE UseInv'
    <2>1. \A m \in Nodes, c \in Devices :
            alive[m] /\ uri[m] = c /\ holder[c] = m => holder'[c] = m
      <3>1. alive[n] /\ uri[n] # None => handle[n] = uri[n]
        BY <1>19 DEF Close, ConnInv
      <3>2. QED BY <1>19, <3>1, NoneAssumption DEF Close, Release, TypeOK
    <2>2. QED
      <3>1. UNCHANGED <<alive, uri, events>>
        BY <1>19 DEF Close, Unlock, contextVars
      <3>2. \A m \in Nodes, c \in Devices : GonePending(m, c) => GonePending(m, c)'
        BY <3>1 DEF GonePending
      <3>3. \A m \in Nodes : uri[m] \in Devices \cup {None}
        BY DEF TypeOK, Camera
      <3>4. QED BY <2>1, <3>1, <3>2, <3>3 DEF UseInv
  <1>20. ASSUME NEW n \in Nodes, Finish(n) PROVE UseInv'
    <2>1. \A m \in Nodes, c \in Devices :
            alive[m] /\ uri[m] = c /\ holder[c] = m => holder'[c] = m
      <3>1. alive[n] /\ ~connected[n] => exc[n]
        BY <1>20 DEF Finish, ConnInv
      <3>2. CASE ~connected[n] /\ ~exc[n]
        BY <1>20, <3>1, <3>2 DEF Finish, Release, TypeOK
      <3>3. CASE ~(~connected[n] /\ ~exc[n])
        BY <1>20, <3>3 DEF Finish
      <3>4. QED BY <3>2, <3>3
    <2>2. QED
      <3>1. UNCHANGED <<alive, uri, events>>
        BY <1>20 DEF Finish, Unlock, contextVars
      <3>2. \A m \in Nodes, c \in Devices : GonePending(m, c) => GonePending(m, c)'
        BY <3>1 DEF GonePending
      <3>3. \A m \in Nodes : uri[m] \in Devices \cup {None}
        BY DEF TypeOK, Camera
      <3>4. QED BY <2>1, <3>1, <3>2, <3>3 DEF UseInv
  <1>21. ASSUME NEW n \in Nodes, LockA(n) PROVE UseInv'
    BY <1>21, NoneAssumption
    DEF LockA, UseInv, TypeOK, GonePending, Goto, LoopOn, sharedVars, contextVars, queryVars, nodeVars
  <1>22. ASSUME NEW d \in Devices, Unplug(d) PROVE UseInv'
    <2>1. ASSUME NEW m \in Nodes, NEW c \in Devices, GonePending(m, c) PROVE GonePending(m, c)'
      <3>1. /\ <<"gone", c>> \in Event /\ <<"gone", d>> \in Event /\ <<"came", d>> \in Event
            /\ events[m] \in Seq(Event)
        BY DEF Event, TypeOK
      <3>2. \A y \in Event : \E i \in DOMAIN Append(events[m], y) : Append(events[m], y)[i] = <<"gone", c>>
        BY <2>1, <3>1, Reports DEF GonePending
      <3>3. events'[m] \in {events[m], Append(events[m], <<"gone", d>>), Append(events[m], <<"came", d>>)}
        BY <1>22 DEF Unplug, Tell
      <3>4. QED BY <2>1, <3>1, <3>2, <3>3 DEF GonePending
    <2>2. ASSUME NEW m \in Nodes, alive[m] PROVE GonePending(m, d)'
      <3>1. pc[m] # "off"
        BY <2>2 DEF OffInv
      <3>2. events'[m] = Append(events[m], <<"gone", d>>)
        BY <1>22, <3>1 DEF Unplug, Tell
      <3>3. <<"gone", d>> \in Event /\ events[m] \in Seq(Event)
        BY DEF Event, TypeOK
      <3>4. \E i \in DOMAIN Append(events[m], <<"gone", d>>) :
              Append(events[m], <<"gone", d>>)[i] = <<"gone", d>>
        BY <3>3, Reports
      <3>5. QED BY <3>2, <3>4 DEF GonePending
    <2>3. QED BY <1>22, <2>1, <2>2 DEF Unplug, UseInv, TypeOK, Camera, nodeVars
  <1>23. ASSUME NEW d \in Devices, Plug(d) PROVE UseInv'
    <2>1. ASSUME NEW m \in Nodes, NEW c \in Devices, GonePending(m, c) PROVE GonePending(m, c)'
      <3>1. /\ <<"gone", c>> \in Event /\ <<"gone", d>> \in Event /\ <<"came", d>> \in Event
            /\ events[m] \in Seq(Event)
        BY DEF Event, TypeOK
      <3>2. \A y \in Event : \E i \in DOMAIN Append(events[m], y) : Append(events[m], y)[i] = <<"gone", c>>
        BY <2>1, <3>1, Reports DEF GonePending
      <3>3. events'[m] \in {events[m], Append(events[m], <<"gone", d>>), Append(events[m], <<"came", d>>)}
        BY <1>23 DEF Plug, Tell
      <3>4. QED BY <2>1, <3>1, <3>2, <3>3 DEF GonePending
    <2>2. QED BY <1>23, <2>1 DEF Plug, UseInv, TypeOK, Camera, nodeVars
  <1>24. CASE UNCHANGED vars
    BY <1>24 DEF UseInv, GonePending, vars, sharedVars, contextVars, queryVars, nodeVars
  <1>25. QED
    BY <1>1, <1>2, <1>3, <1>4, <1>5, <1>6, <1>7, <1>8, <1>9, <1>10, <1>11, <1>12, <1>13, <1>14, <1>15, <1>16, <1>17, <1>18, <1>19, <1>20, <1>21, <1>22, <1>23, <1>24
    DEF Next, QueryStep, LibraryStep

-----------------------------------------------------------------------------
(* The theorems.                                                           *)

LEMMA Invariant == Spec => []IInv
  <1>1. Init => IInv
    <2>1. Init => CbInv /\ OffInv /\ LockInv /\ UseInv
      BY DEF Init, CbInv, OffInv, LockInv, UseInv, HoldsA, HoldsD
    <2>2. Init => ConnInv
      BY DEF Init, ConnInv
    <2>3. QED BY <2>1, <2>2, TypeInit DEF IInv
  <1>2. IInv /\ [Next]_vars => IInv'
    BY TypeNext, CbNext, OffNext, LockNext, ConnNext, UseNext DEF IInv
  <1>3. QED BY <1>1, <1>2, PTL DEF Spec

\* The variables keep their types.
THEOREM TypeCorrect == Spec => []TypeOK
  <1>1. IInv => TypeOK
    BY DEF IInv
  <1>2. QED BY <1>1, Invariant, PTL

\* The shared mutex keeps two processes from opening at the same time, until one
\* is started while it is taken.
THEOREM AloneCorrect == Spec => []OpensAlone
  <1>1. IInv => OpensAlone
    BY DEF IInv, LockInv, OpensAlone, Opening
  <1>2. QED BY <1>1, Invariant, PTL

\* A camera node runs on a camera its process has open, or is about to be ended.
THEOREM DrivesCorrect == Spec => []DrivesOwnCamera
  <1>1. IInv => DrivesOwnCamera
    BY DEF IInv, ConnInv, UseInv, DrivesOwnCamera
  <1>2. QED BY <1>1, Invariant, PTL

\* Connected, node, uri and device agree whenever lock D is free.
THEOREM ConnectedCorrect == Spec => []ConnectedMeansNode
  <1>1. IInv => ConnectedMeansNode
    BY DEF IInv, ConnInv, ConnectedMeansNode, HoldsD
  <1>2. QED BY <1>1, Invariant, PTL

=============================================================================
