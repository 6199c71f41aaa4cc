----------------------------- MODULE LidarDriver -----------------------------
(***************************************************************************)
(* The RPLIDAR node: the main thread calls the SDK driver and publishes    *)
(* the scans it grabs; the driver's cache thread reads measurements and    *)
(* assembles scans.  They share _isScanning (no lock), the scan cached     *)
(* under _lock and the auto-reset event _dataEvt.                          *)
(*                                                                         *)
(* Measurements are numbered in the order the lidar sends them; those in   *)
(* Starts carry the sync bit, a turn begins with them.  One capsule holds  *)
(* one measurement.  A driver call is the sequence "todo" of the steps     *)
(* that are left of it; a run of configuration queries is one query.       *)
(***************************************************************************)
EXTENDS Integers, Sequences

CONSTANTS
  Starts,    \* the measurements that begin a turn
  MaxNodes,  \* capacity of a scan (8192 in the code)
  Formats,   \* the formats the lidar may answer a scan request with
  MaxSent,   \* bound: measurements sent
  MaxFaults, \* bound: measurements damaged on the link
  MaxServed  \* bound: calls of the two services

ASSUME StartsAssumption == Starts \subseteq Nat
ASSUME NodesAssumption == MaxNodes \in Nat /\ MaxNodes > 1
ASSUME FormatsAssumption ==
  Formats \subseteq {"normal", "capsule", "dense", "ultra", "hq"}
ASSUME BoundsAssumption == MaxSent \in Nat /\ MaxFaults \in Nat /\ MaxServed \in Nat

VARIABLES
  at, todo, result,         \* the main thread: its place, the call it is in
  support, motor, rotating, \* what it knows of the lidar; is it turning?
  served, got,              \* services called; the last scan published
  scanning, lock, event, cached, interval,  \* shared
  format, thread, previous, synced, local, cur,  \* the cache thread
  sent, faults,             \* the lidar and the link
  lost, garbled, overtaken  \* history: what the reader could not use

call == <<at, todo, result>>
knows == <<support, motor>>
node == <<served, got>>
cache == <<cached, interval>>
reader == <<thread, previous, synced, local, cur>>
link == <<sent, faults>>
history == <<lost, garbled, overtaken>>
vars == <<call, knows, rotating, node, scanning, lock, event, cache, format,
          reader, link, history>>

NoNode == -1
Numbers == 0 .. MaxSent

-----------------------------------------------------------------------------
(* Definitions named Bad... are deliberate defects: none is part of the    *)
(* specification, each shows that some property would notice it.           *)

(* The driver's calls, as the steps they consist of.                       *)
BadDisableUnjoined == <<"disable">>
BadDisableLocked == <<"lock", "disable", "join", "unlock">>
DisableDataGrabbing == <<"disable", "join">>
Locked(step) == <<"lock", step, "unlock">>

GetDeviceInfo == DisableDataGrabbing \o Locked("ask")
GetHealth == DisableDataGrabbing \o Locked("ask")
Connect == Locked("ask") \o DisableDataGrabbing \o Locked("control")
CheckSupportConfigCommands == GetDeviceInfo \o Locked("support")
SetMotorSpeed == Locked("ask") \o <<"spin">>
Stop == DisableDataGrabbing \o Locked("send") \o <<"haltPwm">>
GetTypicalScanMode == CheckSupportConfigCommands \o <<"details">>
GetAllSupportedScanModes == CheckSupportConfigCommands \o <<"details", "select">>
NormalScan ==
  <<"spin">> \o CheckSupportConfigCommands \o <<"details", "idle">> \o Stop
    \o Locked("respin") \o Locked("scan")
ExpressMode ==
  <<"idle">> \o Stop \o CheckSupportConfigCommands \o <<"details", "choose">>
ExpressScan == <<"lock", "spin", "express", "unlock">>
StartScan ==
  <<"spin">> \o CheckSupportConfigCommands \o GetTypicalScanMode \o ExpressMode

Doing(step) == todo # << >> /\ Head(todo) = step
Done == todo' = Tail(todo) /\ UNCHANGED <<at, result>>

(* The rest of the call is given up; AutoLocker releases the lock.         *)
Fail ==
  /\ result' = "fail" /\ at' = at
  /\ todo' = IF lock = "main" THEN <<"unlock">> ELSE << >>

-----------------------------------------------------------------------------
Init ==
  /\ at = "connect" /\ todo = Connect /\ result = "ok"
  /\ support = FALSE /\ motor = "none" /\ rotating = TRUE
  /\ served = 0 /\ got = << >>
  /\ scanning = FALSE /\ lock = "none" /\ event = FALSE
  /\ cached = << >> /\ interval = 0
  /\ format = "normal" /\ thread = "none" /\ previous = NoNode /\ synced = FALSE
  /\ local = << >> /\ cur = NoNode
  /\ sent = 0 /\ faults = 0
  /\ lost = {} /\ garbled = FALSE /\ overtaken = FALSE

-----------------------------------------------------------------------------
(* The steps of a driver call.                                             *)
Disable ==
  /\ Doing("disable") /\ Done
  /\ scanning' = FALSE
  /\ UNCHANGED <<knows, rotating, lock, format, thread, local>>

Join ==
  /\ Doing("join") /\ Done
  /\ thread \in {"none", "ended"}
  /\ UNCHANGED <<scanning, knows, rotating, lock, format, thread, local>>

Lock ==
  /\ Doing("lock") /\ Done
  /\ lock = "none" /\ lock' = "main"
  /\ UNCHANGED <<scanning, knows, rotating, format, thread, local>>

Unlock ==
  /\ Doing("unlock") /\ Done
  /\ lock' = "none"
  /\ UNCHANGED <<scanning, knows, rotating, format, thread, local>>

(* _sendCommand always succeeds; a missing or malformed answer, or one the *)
(* cache thread read away, makes the call fail, and so does bad health.    *)
Ask ==
  /\ \/ (Doing("ask") \/ Doing("send")) /\ Done
     \/ Doing("ask") /\ Fail
  /\ UNCHANGED <<scanning, knows, rotating, lock, format, thread, local>>

(* What the lidar says of itself.  No answer leaves the default, but the   *)
(* flag of the accessory board is read even when its answer is missing.    *)
Learn ==
  /\ \/ Doing("support") /\ support' \in BOOLEAN /\ motor' = motor
     \/ Doing("control") /\ support' = support /\ motor' \in {"none", "pwm", "rpm"}
  /\ Done
  /\ UNCHANGED <<scanning, rotating, lock, format, thread, local>>

(* The mode is queried only from a lidar that supports it.                 *)
Details ==
  /\ Doing("details")
  /\ todo' = IF support THEN Locked("ask") \o Tail(todo) ELSE Tail(todo)
  /\ UNCHANGED <<at, result, scanning, knows, rotating, lock, format, thread, local>>

Turning(on) == rotating' = IF motor = "none" THEN rotating ELSE on

(* setMotorSpeed; without an answer to the query of the desired speed no   *)
(* speed is set.                                                           *)
Motor ==
  /\ \/ Doing("spin") /\ Turning(TRUE)
     \/ Doing("halt") /\ Turning(FALSE)
     \/ Doing("haltPwm") /\ rotating' = (rotating /\ motor # "pwm")
     \/ Doing("respin") /\ (Turning(TRUE) \/ rotating' = rotating)
  /\ Done
  /\ UNCHANGED <<scanning, knows, lock, format, thread, local>>

Idle ==
  /\ Doing("idle")
  /\ todo' = IF scanning THEN << >> ELSE Tail(todo)
  /\ UNCHANGED <<at, result, scanning, knows, rotating, lock, format, thread, local>>

(* A scan mode of the name that is asked for, among those the lidar lists. *)
Select ==
  /\ Doing("select")
  /\ Fail \/ (support /\ Done)
  /\ UNCHANGED <<scanning, knows, rotating, lock, format, thread, local>>

(* Single measurements are asked for with another command than capsules.   *)
Choose ==
  /\ Doing("choose")
  /\ \/ support /\ todo' = NormalScan
     \/ todo' = ExpressScan
  /\ UNCHANGED <<at, result, scanning, knows, rotating, lock, format, thread, local>>

(* The request is confirmed and the cache thread of the answer's format    *)
(* starts; or it is not confirmed, or the thread cannot be created once    *)
(* the flag is set.  Without configuration commands the answer is capsules.*)
Start(f) ==
  /\ IF f = "normal" THEN Doing("scan")
     ELSE Doing("express") /\ (support \/ f = "capsule")
  /\ \/ /\ Done
        /\ scanning' = TRUE /\ thread' = "first" /\ local' = << >>
        /\ format' = f
     \/ /\ Fail
        /\ scanning' \in BOOLEAN
        /\ UNCHANGED <<thread, local, format>>
  /\ support' = FALSE
  /\ UNCHANGED <<motor, rotating, lock>>

Step ==
  /\ \/ Disable \/ Join \/ Lock \/ Unlock \/ Ask \/ Learn \/ Details \/ Motor \/ Idle
     \/ Select \/ Choose
     \/ \E f \in Formats : Start(f)
  /\ UNCHANGED <<node, event, cache, previous, synced, cur, link, history>>

-----------------------------------------------------------------------------
(* The node: where main goes when a call has returned, and the call it     *)
(* makes there.                                                            *)
Following(place) ==
  CASE place = "connect" -> <<"info", GetDeviceInfo>>
    [] place = "info"    -> <<"health", GetHealth>>
    [] place = "health"  -> <<"motor", SetMotorSpeed>>
    [] place = "scan"    -> <<"loop", << >> >>
    [] place = "speed"   -> <<"rescan", StartScan>>
    [] place = "rescan"  -> <<"serve", << >> >>
    [] place = "serve"   -> <<"loop", << >> >>
    [] place = "off"     -> <<"stop", Stop>>
    [] place = "stop"    -> <<"exited", << >> >>

Go(place, steps) == at' = place /\ todo' = steps /\ result' = "ok"
Awake == todo = << >>

(* The results of connect, getDeviceInfo and getHealth are tested, those   *)
(* of the other calls are not.                                             *)
Return ==
  /\ Awake
  /\ at \in {"connect", "info", "health", "scan", "speed", "rescan", "serve", "off", "stop"}
  /\ IF at \in {"connect", "info", "health"} /\ result = "fail"
       THEN Go("exited", << >>)
       ELSE Go(Following(at)[1], Following(at)[2])
  /\ UNCHANGED node

(* scan_mode is given, or the typical mode is used.                        *)
ChooseMode ==
  /\ Awake /\ at = "motor"
  /\ \/ Go("scan", StartScan)
     \/ Go("scan", GetAllSupportedScanModes \o ExpressMode)
  /\ UNCHANGED node

(* ros::ok() turns false at any time.                                      *)
TestOk ==
  /\ at = "loop"
  /\ Go("wait", << >>) \/ Go("off", <<"halt">>)
  /\ UNCHANGED node

(* One of the two services, called from spinOnce.                          *)
Serve ==
  /\ Awake /\ at = "serve" /\ served < MaxServed
  /\ served' = served + 1
  /\ \/ Go("serve", <<"halt">>)
     \/ Go("speed", SetMotorSpeed)
  /\ got' = got

Node ==
  /\ Return \/ ChooseMode \/ TestOk \/ Serve
  /\ UNCHANGED <<knows, rotating, scanning, lock, event, cache, format, reader, link,
                 history>>

(* grabScanDataHq: the event, the test of the count without the lock, the  *)
(* copy under it.  The main loop ends with the first grab that fails.      *)
BadGrabWait ==
  /\ at = "wait"
  /\ event' = event
  /\ \/ event /\ Go("test", << >>)
     \/ ~event /\ Go("off", <<"halt">>)
  /\ UNCHANGED <<lock, cached, got>>

GrabWait ==
  /\ at = "wait"
  /\ event' = FALSE
  /\ \/ event /\ Go("test", << >>)
     \/ ~event /\ Go("off", <<"halt">>)
  /\ UNCHANGED <<lock, cached, got>>

GrabTest ==
  /\ at = "test"
  /\ IF cached = << >> THEN Go("off", <<"halt">>) ELSE Go("copy", << >>)
  /\ UNCHANGED <<event, lock, cached, got>>

BadGrabCopy ==
  /\ at = "copy" /\ lock = "none"
  /\ got' = cached /\ cached' = cached
  /\ Go("serve", << >>)
  /\ UNCHANGED <<event, lock>>

GrabCopy ==
  /\ at = "copy" /\ lock = "none"
  /\ got' = cached /\ cached' = << >>
  /\ Go("serve", << >>)
  /\ UNCHANGED <<event, lock>>

Grab ==
  /\ GrabWait \/ GrabTest \/ GrabCopy
  /\ UNCHANGED <<served, knows, rotating, scanning, interval, format, reader, link,
                 history>>

-----------------------------------------------------------------------------
(* The cache thread.  In the capsule formats the measurement of a capsule  *)
(* is known only when the next one arrives: "previous" holds it.  In the   *)
(* normal format "previous" is what is left in local_buf.                  *)
Delayed == format \in {"capsule", "dense", "ultra"}
Pending == IF Delayed /\ previous # NoNode THEN {previous} ELSE {}
Alone == UNCHANGED <<call, knows, rotating, node, lock, format>>
Sends == rotating /\ sent < MaxSent /\ sent' = sent + 1
Faulty == faults < MaxFaults /\ faults' = faults + 1

(* The first data is discarded; its start bit, a bad checksum and silence  *)
(* all drop the capsule that was kept from an earlier scan.                *)
Discard ==
  /\ thread = "first" /\ thread' = "test"
  /\ \/ Sends /\ previous' = IF format = "normal" THEN sent ELSE NoNode
     \/ sent' = sent /\ previous' = NoNode
  /\ synced' = FALSE
  /\ UNCHANGED <<scanning, event, cache, local, cur, faults, history>>
  /\ Alone

TestScanning ==
  /\ thread = "test"
  /\ thread' = IF scanning THEN "wait" ELSE "ended"
  /\ UNCHANGED <<scanning, event, cache, previous, synced, local, cur, link, history>>
  /\ Alone

Emit(n) == cur' = n /\ thread' = "node"
Skip(n) == cur' = cur /\ thread' = "test" /\ lost' = lost \cup n

(* _capsuleToNormal, its dense and ultra forms, _HqToNormal and convert:   *)
(* the measurements an intact capsule makes known.                         *)
Receive ==
  /\ thread = "wait" /\ Sends
  /\ previous' = sent
  /\ IF ~Delayed
       THEN Emit(sent) /\ UNCHANGED <<lost, synced>>
     ELSE IF previous = NoNode
       THEN Skip({}) /\ synced' = FALSE
     ELSE IF format # "dense" \/ synced \/ previous \in Starts
       THEN Emit(previous) /\ synced' = TRUE /\ lost' = lost
     ELSE Skip({previous}) /\ synced' = synced
  /\ UNCHANGED <<scanning, event, cache, local, faults, garbled, overtaken>>
  /\ Alone

(* A damaged capsule is dropped together with the one before it.  A        *)
(* damaged measurement of the normal format is passed over.                *)
Damaged ==
  /\ thread = "wait" /\ Sends /\ Faulty
  /\ Skip({sent} \cup Pending)
  /\ previous' = IF format = "normal" THEN previous ELSE NoNode
  /\ UNCHANGED <<scanning, event, cache, synced, local, garbled, overtaken>>
  /\ Alone

(* Normal format: no measurement in time although bytes keep arriving is a *)
(* time-out that leaves the count, and the old local_buf is used again; it *)
(* holds anything when the first data was missed too.                      *)
Reuse(n) ==
  /\ thread = "wait" /\ format = "normal" /\ Sends /\ Faulty
  /\ n = previous \/ previous = NoNode
  /\ Emit(n)
  /\ lost' = lost \cup {sent} /\ garbled' = TRUE
  /\ UNCHANGED <<scanning, event, cache, previous, synced, local, overtaken>>
  /\ Alone

(* Silence ends the thread in the normal format; in the others it drops    *)
(* what is pending and the thread waits again.                             *)
Silence ==
  /\ thread = "wait"
  /\ IF format = "normal"
       THEN scanning' = FALSE /\ thread' = "ended" /\ UNCHANGED <<previous, lost, cur>>
       ELSE scanning' = scanning /\ previous' = NoNode /\ Skip(Pending)
  /\ UNCHANGED <<event, cache, synced, local, link, garbled, overtaken>>
  /\ Alone

BadBegins(scan) == scan # << >>
Begins(scan) == scan # << >> /\ scan[1] \in Starts

(* A measurement with the sync bit: the scan before it is published under  *)
(* the lock, if it began with one too.                                     *)
Publish ==
  /\ thread = "node" /\ cur \in Starts
  /\ Begins(local) /\ lock = "none"
  /\ cached' = local /\ event' = TRUE
  /\ overtaken' = (at \in {"test", "copy"})
  /\ local' = <<cur>> /\ cur' = NoNode /\ thread' = "interval"
  /\ UNCHANGED <<scanning, interval, previous, synced, link, lost, garbled>>
  /\ Alone

(* Any other one is appended; at capacity it is overwritten by the next.   *)
Collect ==
  /\ thread = "node" /\ ~(cur \in Starts /\ Begins(local))
  /\ local' = IF cur \in Starts THEN <<cur>>
              ELSE IF Len(local) + 1 < MaxNodes THEN Append(local, cur) ELSE local
  /\ cur' = NoNode /\ thread' = "interval"
  /\ UNCHANGED <<scanning, event, cache, previous, synced, link, history>>
  /\ Alone

BadInterval ==
  /\ thread = "interval" /\ lock = "none"
  /\ interval' = interval + 1
  /\ thread' = "test"
  /\ UNCHANGED <<scanning, event, cached, previous, synced, local, cur, link, history>>
  /\ Alone

Interval ==
  /\ thread = "interval" /\ lock = "none"
  /\ interval' = IF interval + 1 < MaxNodes THEN interval + 1 ELSE interval
  /\ thread' = "test"
  /\ UNCHANGED <<scanning, event, cached, previous, synced, local, cur, link, history>>
  /\ Alone

CacheThread ==
  \/ Discard \/ TestScanning \/ Receive \/ Damaged \/ Silence
  \/ \E n \in Numbers : Reuse(n)
  \/ Publish \/ Collect \/ Interval

Main == Step \/ Node \/ Grab
Next == Main \/ CacheThread

Spec == Init /\ [][Next]_vars
FairSpec == Spec /\ WF_vars(Main) /\ WF_vars(CacheThread)

-----------------------------------------------------------------------------
Steps == {"disable", "join", "lock", "unlock", "ask", "send", "support", "details",
          "control", "spin", "halt", "haltPwm", "respin", "idle", "select", "choose", "scan", "express"}
Places == {"connect", "info", "health", "motor", "scan", "loop", "wait", "test",
           "copy", "serve", "speed", "rescan", "off", "stop", "exited"}

TypeOK ==
  /\ at \in Places /\ todo \in Seq(Steps) /\ result \in {"ok", "fail"}
  /\ support \in BOOLEAN /\ motor \in {"none", "pwm", "rpm"} /\ rotating \in BOOLEAN
  /\ served \in 0 .. MaxServed
  /\ scanning \in BOOLEAN /\ lock \in {"none", "main"} /\ event \in BOOLEAN
  /\ got \in Seq(Numbers) /\ cached \in Seq(Numbers) /\ local \in Seq(Numbers)
  /\ interval \in 0 .. MaxNodes - 1
  /\ format \in Formats \cup {"normal"}
  /\ thread \in {"none", "first", "test", "wait", "node", "interval", "ended"}
  /\ previous \in Numbers \cup {NoNode} /\ cur \in Numbers \cup {NoNode}
  /\ thread = "node" => cur # NoNode
  /\ synced \in BOOLEAN
  /\ sent \in Numbers /\ faults \in 0 .. MaxFaults
  /\ lost \subseteq Numbers /\ garbled \in BOOLEAN /\ overtaken \in BOOLEAN

(* From the measurement a to the later b nothing was received.             *)
Gap(a, b) == a < b /\ (a + 1) .. (b - 1) \subseteq lost

(* "only publish the data when it contains a full 360 degree scan": a scan *)
(* begins with a sync bit, no other one is in it, it leaves out nothing    *)
(* that was received, and it goes on to the next sync bit received, or to  *)
(* the capacity.  Whatever is damaged, lost or restarted - unless the      *)
(* buffer of the normal format was used twice.                             *)
WholeTurn(scan) ==
  /\ scan[1] \in Starts /\ Len(scan) < MaxNodes
  /\ \A i \in 1 .. Len(scan) - 1 : scan[i + 1] \notin Starts /\ Gap(scan[i], scan[i + 1])
  /\ Len(scan) = MaxNodes - 1 \/ \E n \in Starts : Gap(scan[Len(scan)], n)

ScansAreWhole ==
  ~garbled => \A scan \in {cached, got} : scan # << >> => WholeTurn(scan)

(* No scan is given to the node twice, and none out of order: every        *)
(* measurement of a scan it grabs is newer than all of the last one.       *)
NewerEachTime ==
  [][at = "copy" /\ at' # at /\ ~garbled =>
       got = << >> \/ got'[1] > got[Len(got)]]_vars

(* The event promises a scan: a grab that is woken finds none, and so ends *)
(* the node, only if a publication overtook the grab before it.            *)
SignalMeansScan == event => cached # << >> \/ overtaken

(* While the driver is asked something after its data grabbing was         *)
(* disabled, when a cache thread is started and when the driver is         *)
(* deleted, no earlier cache thread is left.                               *)
Asking == at # "speed" /\ todo # << >> /\ Head(todo) \in 
  {"ask", "send", "control", "support", "respin", "scan", "express"}
NoThreadLeft ==
  (Asking \/ at = "exited") => thread \in {"none", "ended"}

(* Every call of the driver returns: main never waits for ever for a lock, *)
(* an answer, or the end of the cache thread.                              *)
CallsReturn == todo # << >> ~> todo = << >>
=============================================================================
