# TLA+ models of ISS-PA

ISS-PA is a ROS workspace for an Ackermann-steered research car (the PAVS).  Its
own code is a serial driver with the nodes that use it, a patrol node, a
multi-point cruise node, a particle-swarm global planner and a number of small
scripts; it contains the drivers of its lidar and its depth camera; the rest is
other vendored code, meshes, launch files and documents.  None
of the program's own logic has automated tests (the files named `test_...` are
build examples).

The interesting behaviour is concurrency.  A rospy node runs the callbacks of
every topic in a thread of its own, the serial driver adds a receive thread, the
planner starts one thread per particle, the lidar driver has a thread that caches
scans, and a camera process has a spinner, a query thread, a poll thread and the
threads of two libraries.  The Python code locks nothing, the C++ drivers lock
some of it.  The models therefore interleave threads between any two
accesses to a shared attribute and abstract the data.

Paths below are relative to the repository's `src/src/` unless they begin
otherwise.  The short names used for the sources:

| short name | file |
|---|---|
| COM    | `isspa/scripts/isspa/pavs_stm32_com.py` (class `PAVS`) |
| CHASSIS | `isspa_chassis/vehicle_bringup/pavs_bringup/scripts/chassis_driver.py` |
| PATROL | `isspa_chassis/vehicle_bringup/pavs_bringup/scripts/patrol_4ROS.py` |
| CRUISE | `isspa_navigation/navigation_stack/scripts/send_mark.py` |
| PSO    | `isspa_navigation/navigation_plugin/pso_global_planner/src/pso.cpp` |
| LIDAR  | `isspa_plugin_devices/rplidar_ros/sdk/src/sl_lidar_driver.cpp` |
| LNODE  | `isspa_plugin_devices/rplidar_ros/src/node.cpp` |
| FACTORY | `isspa_plugin_devices/ros_astra_camera/src/ob_camera_node_factory.cpp` |
| CONTEXT | `isspa_plugin_devices/ros_astra_camera/src/ob_context.cpp` |
| CAMERA | `isspa_plugin_devices/ros_astra_camera/src/ob_camera_node.cpp` |
| SERVICE | `isspa_plugin_devices/ros_astra_camera/src/ros_service.cpp` |
| UVC    | `isspa_plugin_devices/ros_astra_camera/src/uvc_camera_driver.cpp` |

## 1. Inventory

### 1.1 The parts, their state and their operations

**PAVS serial driver (COM).**  State: about forty attributes, one per quantity
the expansion board reports (speed, IMU, attitude, encoders, battery, arm angles,
PID gains, version, car type, default steering angle).  Operations:
`__receive_data` (thread) finds frames in the byte stream; `__parse_data` assigns
the attributes of a frame one by one; about two dozen setters write a command
frame; the *getters that ask* reset some attributes, write a request, poll an
attribute every millisecond and read the others; the *getters that report* only
read; `clear_auto_report_data` zeroes.  Hard: the receive thread and the caller
interleave at every assignment, replies are lost or late, the thread starts in
the middle of a frame and dies of an exception.  Correct when: frames are
recognised again after a fault, an answer is whole, recent and belongs to the
question, and no getter hangs.

**Chassis driver node (CHASSIS).**  State: one `PAVS` object and the topics.
`pub_data` loops: it reads version, battery, IMU, motion and publishes them; the
callbacks for velocity, light and buzzer call the setters.  It imports
`stm32_com.py` beside it, which is the class of COM up to log calls and the
demonstration at its end; what is said of one holds of the other.  Correct when:
a published message does not mix reports that are far apart, the car stops when
the node does.

**Patrol node (PATROL).**  State: the pattern to drive (`Command`,
`command_src`), `Switch`, `SetLoop`, `moving`, `Joy_active`, `warning`, the
velocity publisher.  `process` drives patterns made of legs (`advancing`,
`Spin`); `dynamic_reconfigure_callback`, `JoyStateCallback`, `registerScan` and
the shutdown hook `cancel` change the attributes meanwhile.  Hard: every test of
an attribute is stale when it is acted on.  Correct when: joystick, pause,
obstacle and shutdown stop the car, and the flag `moving`, which suppresses
repeated stops, is right.

**Multi-point cruise node (CRUISE).**  State: `markers`, `count`, `index`,
`try_again`.  `press_callback` adds a point, `goal_result_callback` sends the
next goal, retries or skips, `cancel_marker` clears.  `move_base` answers every
goal with one result, also those replaced or cancelled.  Hard: four attributes
that must agree, three threads, results that arrive after their goal is gone.
Correct when: the attributes agree, no marker is read that does not exist, an
unreachable point costs two attempts, and the cruise goes on.

**PSO global planner (PSO, `global_planner_ros.cpp`,
`trajectoryGeneration.cpp`).**  State: the particles with their personal optima,
`Best_particle`, `GlobalBest_particle_`, the mutex, the particles inherited from
the call before.  `plan` starts a thread per particle in each iteration
(`optimizeParticle`), joins them, extracts the path and keeps the best
particles.  The wrapper turns start and goal into cells and the curve into poses.
Correct when: the answer is the best candidate evaluated, on the right map; every
call returns; keeping particles does not hurt.

**Lidar driver (LIDAR, LNODE).**  State: the connection and what is known of the
lidar, `_isScanning` (written by both threads without a lock), the scan cached
under `_lock`, the auto-reset event `_dataEvt`, and in the cache thread the scan
under assembly and the capsule that is not decoded yet.  The node calls
`connect`, `getDeviceInfo`, `getHealth`, `setMotorSpeed`, `startScan`, then grabs
and publishes scans until a grab fails, and stops; two services stop and start
the motor.  The cache thread (one function for each of five answer formats)
receives measurements, decodes capsules with a delay of one, and publishes a
turn when the next one begins.  Hard: event, count and copy are three accesses;
every query must have the channel for itself; a capsule that is damaged takes
another one with it; the buffers have a capacity.  Correct when: a scan is one
whole turn, given once, no query meets a running cache thread, and no call hangs.

**Depth camera driver, processes and devices (FACTORY, CONTEXT).**  State of
each camera process: the list of cameras, the thread that looks for one it
accepts, `device_`, `device_uri_`, `ob_camera_node_`, `device_connected_`,
`has_exception_`; shared by all processes: one mutex in shared
memory, initialised by every process that starts.  Operations: start, stop, the
query loop, `onDeviceConnected` (open, read the serial number, start a node) and
`onDeviceDisconnected`, called by the library.  Hard: three locks taken in two
orders, a process that is killed with the shared mutex, a camera that is pulled
out while a node is started on it, constructors that throw.  Correct when:
cameras are opened one at a time, a node runs on the camera its process holds,
a pulled-out camera's node ends, and a camera that stays finds its node.

**Depth camera driver, a node and its streams (CAMERA, SERVICE, UVC).**  State:
`enable_`, `stream_video_mode_`, `streams_`, `stream_started_` for each OpenNI
stream, and handle, buffer and `is_streaming_started` of the UVC colour camera.
Operations: subscribers come and go (streams start and stop with them), streams
are toggled and reconfigured, a thread polls frames without a lock, libuvc's
thread delivers frames to a callback that takes the lock, a destructor ends it
all.  Hard: everything the callbacks do under `device_lock_` the poll thread
reads without it; frames come before their buffer; a join under a lock.  Correct
when: a stream runs while it is watched, nothing destroyed is used, callbacks
return and the process survives.

**The others.**  Odometry (`base.cpp`: integrates velocities), turn script and
calibration, joystick and keyboard teleoperation, voice control and single
goals, map savers and scan thinning, simulation scripts, sensor recording:
sequential code with no or little state.  Vendored and not modelled: Velodyne
simulator, object detection.  `PROJECT.json` lists every one with the reason why
it is not modelled.

### 1.2 How the parts interact

* *Bytes*: board -> `__receive_data` -> `__parse_data` -> attributes of `PAVS`;
  setters and requests -> board.
* *Calls*: CHASSIS calls the getters and setters of `PAVS`; `move_base` calls the
  planner through its plug-in interface, holding the cost map's mutex.
* *Topics*: `/cmd_vel` has several publishers (joystick, keyboard, PATROL,
  `move_base`) and one subscriber, CHASSIS; `/JoyState` says that the joystick is
  in charge and is obeyed by PATROL and CRUISE; goals, cancels and results go
  between CRUISE and `move_base`; scans go to PATROL.
* *Driver calls*: LNODE calls LIDAR, whose cache thread hands over scans by a
  buffer, a lock and an event.  FACTORY is called by CONTEXT, which the OpenNI
  library calls; FACTORY constructs and destroys CAMERA, which owns UVC.
* *Between processes*: several camera processes share one mutex in shared memory.
* *Shared attributes without a lock*: everywhere a callback and a thread, or two
  callbacks, belong to one node.

### 1.3 Hazards

`PROJECT.json` lists what is hard to test, each at its line with the properties
that would catch it going wrong, or the reason why none does yet.  In short:
torn and stale reads of the driver's attributes, late and lost replies,
resynchronisation of the byte stream, a flag and a velocity that must agree,
attributes tested before and used after a callback, results that arrive for a
goal that is gone, the ends of an index range, a shared optimum written by many
threads, scans handed over by three accesses, locks left by the dead or taken in
two orders, threads joined under a lock, and cameras that come and go.

## 2. Modules

| module | models | composed with |
|---|---|---|
| `FrameReceiver` | the receive thread, byte by byte, and the line | implements `FrameLink` |
| `FrameLink` | *abstract*: a lossless ordered link that drops damaged frames | |
| `PavsQuery` | getters that ask, and the assignments that answer them | takes the link for granted, frame by frame |
| `PavsReports` | periodic reports, the getters that read them, the clearing | |
| `PatrolNode` | the patrol thread, its callbacks, the parameter server, the hook | |
| `CruiseNode` | the cruise node's callbacks with `move_base` | |
| `PsoSwarm` | the planner's thread, the particle threads, the mutex | implements `BestOfSeen` |
| `BestOfSeen` | *abstract*: answer with the best candidate evaluated | |
| `LidarDriver` | the lidar node's calls and the driver's cache thread | |
| `CameraFactory` | camera processes, their query and library threads, the shared mutex | |
| `Spinner` | the callback queue of a camera process and its one thread | |
| `CameraStreams` | the OpenNI streams: callbacks, poll thread, destructor | extends `Spinner` |
| `UvcCamera` | the UVC camera: callbacks, frame callback, destructor | extends `Spinner` |
| `CameraNode` | a camera node | composes `CameraStreams` and `UvcCamera` on one `Spinner` |
| `MC...` | constants that are functions or sequences, for TLC | |
| `..._proof` | theorems and their proofs | |

The order is that of importance: the driver, on which everything rests, then what
moves the car, then what plans, then the sensors' drivers.  Definitions called
`Bad...` are deliberate defects kept beside what they distort; they are
part of no specification.  Each property is violated when its defect replaces the
original (`PROJECT.json`, "mutants").

### 2.1 FrameReceiver

`wire` is the sequence of frames sent and not wholly read, each with the bytes
that are left of it, so that bytes keep the frame they were sent in; `rx` is the
`read()` of `__receive_data` the thread waits in, and `ext_len`, `ext_type`,
`ext_data`, `check_sum` are its local variables, reset when a frame is done.
`Head1`, `Head2`, `Length`, `Type`, `Data` are the successive `read()` calls
(COM 253-277), `Finish` the comparison of check sums and the call of
`__parse_data`.  A `struct.error`, raised when a known type has fewer bytes than
are unpacked, ends the thread (`rx = "dead"`): nothing catches it, and
`create_receive_threading` starts no other thread.  The board is external.  It
sends whole frames with right check sums; `Lose` takes a byte off the wire,
`Alter` changes any byte: of a header or length, or, once in a frame, of the body
behind them; the latter makes the frame `damaged`.

### 2.2 PavsQuery

Here a frame is delivered whole or not at all, and in order, which is what
`FrameReceiver` is shown to provide.  `asked` numbers the commands written; a data
attribute holds *the number of the request whose reply wrote it*, 0 for its
initial or reset value, so that "whole", "own" and "recent" are comparisons of
numbers.  The client's thread is `Call`, `Reset` (one statement at a time, in
`ResetOrder`), `Request` (whose reply may be lost), `PollReady`, `PollAgain`,
`GiveUp`, `Read` (one attribute at a time), `Finish`, `Return`; the receive
thread is `Receive` and `Parse` (one assignment at a time, in `ParseOrder`).
One table per phase replaces seven nearly equal getters.  `get_version` and
`get_akm_default_angle` ask only until an answer is known (`Call`);
`set_akm_default_angle` and `set_car_type` are commands that change what a later
answer must be.  A reply may come at any time, also after the getter has given up
(the code polls for 20 to 200 milliseconds); `late` records that this happened,
so that what holds only with prompt replies says so.

### 2.3 PavsReports

Attributes are numbered in the order `__parse_data` assigns them and hold the
number of the report they come from.  `Report` and `Assign` are the receive
thread, `Start`, `ReadOne`, `ClearOne`, `Stop` a client that reads in the order of
the getters called by `pub_data`, or clears.  Both orders are parameters.  `seen` is
history: the number of reports that had come when an attribute was read.

### 2.4 PatrolNode

`pc` is the patrol thread's place, one per access to what callbacks change;
`legs` is what remains of the pattern.  `Configure` and `ConfigureStep` are
`dynamic_reconfigure_callback` (the server's mutex admits one at a time, for the
operator or for the node's own `update_configuration`, `Confirm`/`Await`);
`RegisterScan` and `CountRay` set `warning` back to 1 and raise it ray by ray; `late`
counts the moves published since the joystick took over, since the pause, and
since the count of a scan passed the threshold; `ShutDown` and `Cancel`
are the hook, which stops the car before it unregisters the publisher.  `out` is
the last velocity on `/cmd_vel`: "move" or "stop".  Poses, distances and speeds
are left out: a leg may reach its target at any turn of its loop, and the
transform may be missing at any turn, which raises an exception and ends the
thread.  `patrol_a1.py` differs only in the sector of the rays it counts.

### 2.5 CruiseNode

`press`, `result` and `clear` are the three callbacks' threads, with a place per
access to a shared attribute: `Press...` is `press_callback`, `Clear` the seven
statements of `cancel_marker`, the others `goal_result_callback`.  The goal topic
holds one message, which a newer one may replace before it is taken.  `move_base`
is external: `TakeGoal` preempts, `TakeCancel` cancels, `Finish` succeeds or
aborts, and each ends an active goal with exactly one result.  `sent`, `tries`
and `raced` are history.  The callbacks that call `cancel_marker` are taken as
one.  An index beyond the array raises an exception, which rospy logs; Python's
index -1 is the last marker (`Again`).

### 2.6 PsoSwarm

A position stands for a particle's whole sequence of path points, and its fitness
on a map is a parameter, so that the model does not depend on geometry.  `Plan`
sets the swarm up (inherited positions first, if there are any; the others
anywhere), `Spawn` starts the threads, `Move`, `Personal`, `Lock`, `Test`,
`Write`, `Unlock` are `optimizeParticle`, `Join`, `Extract` and `Inherit` finish
an iteration and the call.  The best fitness and the leader are written by the
threads, the best *position* only after the join, as in the code.  The random
generator all threads share without the mutex is absorbed by `Move`, which
permits any position.

### 2.7 LidarDriver

A driver call is the sequence `todo` of the steps that are left of it (`Locked`,
`GetDeviceInfo`, `StartScan`, ... build these sequences from the calls in the
code); `at` is the place in LNODE's main function, `result` what the call
returned.  `Step` does the first step of the call: take or return the lock, ask
and be answered or fail, join, start a thread of the format the lidar answers
with.  A failure gives up the rest of the call and, as `AutoLocker` does, the
lock.  `Return`, `ChooseMode`, `TestOk`, `Serve` are the main loop, `GrabWait`,
`GrabTest`, `GrabCopy` the three accesses of `grabScanDataHq`.  Measurements are
numbered as the lidar sends them and carry a sync bit if they are in `Starts`;
one capsule holds one of them, which keeps the delay of the capsule formats (a
capsule is decoded when the next one is there).  `Receive`, `Damaged`, `Reuse`,
`Silence`, `Publish`, `Collect`, `Interval` are the cache thread's loop, one
definition for its five copies: the formats differ in whether a capsule is
delayed, whether it is aligned to a sync bit, and in what a time-out does.
Five formats become four behaviours: `ultra` is `capsule` with other arithmetic.
`lost`, `garbled`, `overtaken` are history.  Angles, distances and the mode lists
are left out.

### 2.8 CameraFactory

Every attribute is a function of the process: `pc` is the query thread's place, `list`,
`todo`, `cur`, `local` its list, the rest of it, and the camera it tries;
`uri`, `handle`, `node`, `connected`, `exc` are the attributes of FACTORY;
`events` is what the library still has to report and `cb` says that its thread
is in the handler, holding the context's mutex.  `holder` is who has a camera
open (a camera opens for one process; a pulled-out one for none), which is where
`Close` and `Finish` follow the shared pointers: a local device closes when it
leaves its scope unless `device_` holds it too.  `Boot` initialises the shared
mutex whoever has it (FACTORY 76); `Stop` and `Quit` are the destructor, `Crash`
a kill, which leaves the mutex taken.  The OpenNI library and the operating
system are external.

### 2.9 Spinner, CameraStreams, UvcCamera, CameraNode

`Spinner` is the queue of callbacks and the thread that runs them; `at` is the
place of the handler under way.  In `CameraStreams` a callback holds
`device_lock_` throughout and is one step; the poll thread and the destructor
have steps of their own, because they do not or not all the time.  A map from
streams to flags is the set of streams for which it is true.  `Setups` lists
kinds of cameras: with a UVC camera for colour, an Astra Pro, or neither; the
video modes that fit are chosen anew each time they are looked up, in the
constructor twice.  `UvcCamera` goes through `startStreaming` and `stopStreaming`
by statement, because the toggle service does not hold the lock there, and
libuvc's thread may come between any two.  `CameraNode` composes the two: one
spinner, and a destructor that destroys the streams, then the UVC camera, then
the members that own the callbacks.  `dead` says what the process was aborted
by (CHECK, a null handle); it is then one that does nothing more.

## 3. Runs

| run | module, bounds | states | shows |
|---|---|---|---|
| `FrameSync` | `FrameReceiver`; four frames, three on the wire, one fault | 275 345 | in step the thread is a `FrameLink`; it gets into step |
| `Query` | `PavsQuery`; every getter, one servo, 3 commands, 2 polls | 391 225 | an answer is whole, own, recent; what survives late replies; getters return |
| `QueryServoCross` | `PavsQuery`; two servos | violated | finding 1 |
| `ReportsSkew` | `PavsReports`; 3 attributes, 4 reports | 5 404 | what is read later is newer by the reports that came in between, give or take one |
| `Patrol` | `PatrolNode`; Triangle, threshold 1, one near ray | 196 088 | trust in `moving`; joystick, pause, obstacle and death stop the car |
| `PatrolPause` | `PatrolNode`; LengthTest | violated | finding 2 |
| `Cruise` | `CruiseNode`; two points, one goal in flight, one cancel | 764 051 | attributes agree, retries are bounded, a point reached leads to the next goal once the first is counted |
| `CruiseStall` | `CruiseNode`; the same | violated | finding 3 |
| `Swarm` | `PsoSwarm`; three particles, two inherited, one iteration, two maps, any number of plans | 412 886 | the leader leads; `BestOfSeen` is implemented |
| `Lidar` | `LidarDriver`; four formats, capacity 3, turns of one and three measurements, 7 of them sent, one damaged, one service call | about 949 000 | scans are whole, given once, in order; calls return |
| `CameraFactory` | two processes that accept one camera, three starts, two troubles | 326 759 | one opens at a time; nodes follow cameras |
| `CameraNode` | infrared and colour, three kinds of cameras, two watchers, one viewer, one callback waiting | 330 261 | streams run while watched; what the process dies of and what hangs |

### 3.1 What the properties say

*FrameReceiver.*  `FramesAreLinked`: whatever bytes frames are made of, a thread
that is in step parses every sound frame once, in order and unchanged, and drops
every one whose body was altered.  It is the refinement of `FrameLink`, with `InStep` as the
mapping of `sync`: the thread is at the place that the bytes gone from the wire
imply, the bytes it holds followed by those left are the body that was sent (but for
one byte if it was altered), and `check_sum` is the sum of those it holds.
`OnlyFaultsSlip` (proved, section 4): what leads out of step is a lost byte, or an
altered byte of a header or length when it is read, and nothing else.  `GetsInStep`: from
anywhere in a frame, and after a lost or altered byte, the thread gets into step for good
once the frames on the wire contain no byte FF behind the header, unless a
sequence that looked like a frame has killed it.

*PavsQuery.*  As long as no getter has given up before its reply came:
`AnswersCurrent` (six joint angles read one by one are one reply's, and this
call's own, because the flag is assigned last; and the car type is the reply to
this call's request, not what an earlier `set_car_type` replaced),
`AkmNotOlderThanSet` (the steering angle is not older than one set for good),
`VersionKnown` (`get_version` does not answer the initial 0).  In any case:
`AkmNeverPlaceholder`, `CarTypeOnce` (no reply is returned twice or after a newer
one), and `GetterReturns` (every getter comes back even if the receive thread
never runs again).

*PavsReports.*  `SkewBounded`: read `a`, then `b`: `b` is newer than `a` by the number
of reports received in between, give or take one, and never older if the receive
thread assigns it first.  So two values of one published message are at most one
report apart if no report comes while it is filled in, at most two if one does.
How many come in between is a matter of scheduling; nothing in the code limits it.

*PatrolNode.*  `NotMovingIsStopped`: while `moving` is false the last velocity is
a stop, so skipping the repeated stop is right.  `OneLateMove`: after the joystick
takes over, after a pause, or after a scan's count has passed the threshold, at
most one move is published.  `DeadIsStopped`: a patrol thread that has ended, also
of a missing transform, leaves a robot that the hook has stopped.  `JoyYields`: a
joystick that stays in charge, in a patrol that stays on, finds the robot
stopped.  `PauseStops`: a patrol that stays off does (for a pattern that ends
with a spin; for the others see finding 2).

*CruiseNode.*  As long as no `cancel_marker` overlaps another callback (`Calm`):
`Consistent` (the attributes agree between callbacks and `index` stands behind the
goal last sent, and no marker is read that is not there), `TriedTwice` (also when results of cancelled goals
arrive late), `SuccessGoesOn` (a result that says the point is reached leads to the
next goal, whichever callbacks run at the same time, from the test of line 127 on;
a result that finds the first point uncounted is excepted by `FirstUncounted`, see
3.2).  When they overlap, the attributes can disagree
until the next cancel; no document promises otherwise.

*PsoSwarm.*  `LeaderLeads`: after every join the recorded fitness is that of the
recorded position, and nobody's optimum beats it.  `NoWorse`: planning again on
the same map is never worse, thanks to inheritance.  `PlanReturns`.
`AnswersBestOfSeen`: the answer is among the best of *all* positions evaluated, by
any thread, in any order.

*LidarDriver.*  `ScansAreWhole`: a scan that is cached or grabbed begins with a
sync bit, holds no other, leaves out nothing that was received and goes on to the
next sync bit received or to the capacity, whatever is damaged, lost or
restarted; the one exception is the normal format, where a time-out with bytes
still arriving uses the old buffer again (`garbled`).  `NewerEachTime`: scans are
grabbed in order and none twice.  `SignalMeansScan`: a signalled event finds a
scan, unless a publication overtook the grab before; then a grab finds nothing
and ends the node.  `NoThreadLeft`: whenever the lidar is asked something, a
cache thread started or the driver deleted, no earlier cache thread is left
(`setMotorSpeed` of the start service is the exception: it asks while the thread
reads).  `CallsReturn`: no driver call waits for ever.

*CameraFactory.*  `OpensAlone`: one process at a time is inside the shared mutex,
unless a start has initialised it while it was held (`stolen`).
`DrivesOwnCamera`: a node runs on a camera its process has open, or the report
that will end it is under way.  `ConnectedMeansNode`: outside an attempt,
`device_connected_`, node, uri and device agree, also after constructors that
throw.  `NodeGoes`: a node of a camera that is gone ends, also while another
process holds the shared mutex or died with it.  `NodeComes`: a camera that stays
finds a node, while the mutex is neither left behind nor was stolen.

*CameraNode.*  `RunsAsWatched`: an enabled stream runs while it is watched, up to a
callback still to come or a start the driver refused.  `MemorySafe`: the poll
thread, which takes no lock, never waits for a destroyed stream; no frame is
converted without buffer and handle.  `DiesOnlyOf`: the four ways in which the
process is aborted, and no other (see the divergences below).  `CallsEnd`: every
callback returns and the destructor ends, unless the process dies or a frame is
on its way to the lock while the holder joins libuvc's thread.

### 3.2 Findings

1. **A servo's angle may be another's** (`QueryServoCross`, `ServoAngleOwn`).
   `__read_id` is assigned before `__read_val` and polled alone, and neither is
   tied to a request.  TLC's trace: the value of the reply before, assigned after
   the next request's reset, is read together with the new identifier.
2. **A pause may leave the car rolling** (`PatrolPause`, `PauseStops`).
   `advancing` returns without a stop and line 162's stop depends on `Command`
   still being "finish"; a configuration that sets `Command` and turns `Switch` off
   between lines 148 and 161 skips it.
3. **The cruise stops at an unreachable last point** (`CruiseStall`,
   `FailedRoundRestarts`).  `index` equals the number of markers there, the branch
   that would start the next round is not taken, and no goal is sent any more.

Other divergences, seen while modelling and not checked by a run of their own:

* `get_version` polls `version_H`, which is assigned before `version_L`; the
  version kept for good may be "3.0" for 3.1.  A reply that comes after the polls
  have run out leaves the answer 0 (`VersionKnown` therefore asks for prompt
  replies); once `version_H` is set the getter does not ask again.
* `get_motion_pid` polls the index, which is assigned before the gains: an answer
  may mix its own reply, the reset and the reply before.
* A head byte read where the identifier is expected is thrown away with the byte
  before it.  Frames with check sum FF, sent one after the other to a thread that
  is out of step, are never heard.  Without the restriction to tame frames,
  `GetsInStep` is violated in this way.
* Bytes that look like a header, a short length, a known type and a right check
  sum kill the receive thread; the state `rx = "dead"` is reachable in
  `FrameSync`.
* CRUISE 110-112, 127: the first goal is published before its point is counted.  A result
  of it, success or failure, that is handled in between finds `count` 0 and is
  dropped; the cruise stalls, and further points do not start it again since the
  count is no longer 0.  Without `~FirstUncounted` TLC refutes `SuccessGoesOn` in this
  way.
* CHASSIS 68 announces "Always stop the robot when shutting down the node", but the
  hook sends no stop.  Lines 39-41 read speed limits which nothing enforces.
* `base.cpp` 41 starts its clock at 0; the first time step is the time since 1970.
* PATROL 302: the shutdown hook publishes its stop before it unregisters the
  publisher (303), and rospy sets its shutdown flag later still; if the node is
  stopped from outside, the patrol thread may publish a move in between, although
  the comment says "Always stop the robot when shutting down the node"
  (`MayShutDown = TRUE`; `DeadIsStopped` is about the other case).
* PATROL 186: every scan sets the count of near rays back to 1 in the attribute the
  patrol thread reads, so that for a moment an obstacle that is still there is not
  seen; a move may be published in it.
* LNODE 391: one grab that fails ends the node.  A motor stopped by the service is
  such a case after two seconds, so that the start service finds no node.  A
  publication that falls between the reset of the event and the copy is another.
* FACTORY 76 initialises the shared mutex at every start, also while another process
  holds it.  From then on a process may return a mutex that another took, two
  are inside at once, and this can go on; without `~stolen` TLC refutes both
  `OpensAlone` and `NodeComes`.  The camera's README says that a semaphore left
  behind stops the next start
  (`isspa_plugin_devices/ros_astra_camera/README.md` 265, 364); with this
  initialisation the next start works and it is processes already running that
  are stuck.
* FACTORY 148: a process that is killed inside the mutex leaves it taken; every other
  query thread waits until some process starts (`Orphaned`).
* SERVICE 699 enables a stream that was not set up; `startStream` then aborts the
  process for want of a video mode (CAMERA 368).  The camera's README 195 documents
  the toggle services without such a condition.  Toggling a running stream *off* clears the flag
  first, and streams whose flag is clear are not stopped: it goes on running.
* UVC 281: frames start before their buffer is allocated (309); the first frame to
  come in between aborts the process (616).
* UVC 246: a refused video mode closes the camera, but `is_camera_opened_` stays set
  and `startStreaming` goes on with a null handle.
* UVC 320: the library's thread is joined with `device_lock_` held, for which its
  callback (617) may be waiting: neither goes on, nor does any later callback
  (`Crossed`).
* CAMERA 37-68: a callback that waits for `device_lock_` while the destructor holds it
  runs afterwards, on streams that are destroyed.

### 3.3 Bounds

* `PavsQuery`: three commands are what the properties need: one whose reply is
  late, one whose reset it disturbs, one that finds the result.  Two polls give
  "not yet" and "now" (or "given up") both; further polls repeat a state.  Two of
  the six joints show every tearing, since a torn pair exists in any torn array.
* `PavsReports`: three attributes give a pair in order, a pair out of order and
  one in between; a read spans at most the reports of the bound, and four
  reports leave one before and one after a read that spans two.  The theorem drops
  both bounds.
* `PatrolNode`: Triangle has both kinds of legs and ends with the kind for which
  `PauseStops` holds; one near ray with threshold 1 makes obstacle and no obstacle.
  For the invariants the theorems cover the rest.
* `CruiseNode`: two points have a first, a last and a next; with one goal or result
  in flight when a point is added, and one cancel, a late result still meets a new
  goal.
* `PsoSwarm`: three threads give a holder, a waiter and one who is done; one
  iteration suffices because it begins with arbitrary optima and a leader none of
  them beats, which is also all that a second one begins with; two maps that rank the positions in opposite order make inherited optima
  stale.  `MaxIter` bounds one call, not the number of calls.
* `FrameReceiver`: three frames on the wire, for a frame that is swallowed, the
  false frame's end and the next; one fault, of a header, length or body byte, because a
  second one after the first is repaired is the first again.  The four frames are chosen to be nasty: a check
  sum equal to the head byte, and data that hold a header, a length and a type.

* `LidarDriver`: capacity 3 is reached by the turn of three measurements and not by
  the turn of one, whose sync bits are adjacent; seven measurements are three turn
  ends, so that a scan is published, replaced, grabbed and followed; one fault
  strikes at any of them; one service call begins a second scan.  The theorems drop
  the bounds.
* `CameraFactory`: two processes and one camera that both accept make the contest; three
  starts are one for each and one after a kill or with the mutex held; two troubles
  let a kill and a pulled-out camera, or two failing calls, meet.  A camera that a
  process does not accept is permitted by `Wants`, exercised by failing calls only,
  and covered by the theorems.
* `CameraNode`: one waiting callback is the oldest of a queue; with a longer one the
  same callback meets the same handlers later.  Two watchers distinguish the last
  one to leave; infrared and colour are the streams that exclude each other.
* `PavsQuery`'s other getters do not share attributes, so all are in one run.

### 3.4 Fairness

* Getters: `WF(Client)`.  Their threads only compute and sleep.  The receive
  thread gets *no* fairness: getters return without it.
* Patrol: weak fairness of the patrol thread, of callbacks once entered, and of
  the hook; the hook runs at interpreter exit when the thread has ended.  No
  fairness of the operator, the joystick or the scanner.
* Cruise: weak fairness of callbacks, of topic delivery and of `move_base`'s
  answers; none of clicks or cancels.
* Swarm: weak fairness of every thread and of the planner, which is what the
  operating system gives them.  It suffices for the mutex because every thread
  takes it once per iteration.
* Receiver: the thread reads what is there, and the board keeps sending (COM 354:
  every 10 ms).
* Lidar: weak fairness of the main thread and of the cache thread.  The lidar owes
  nothing: silence is an action of the thread, which waits with a time-out.
* Camera processes: weak fairness of the query thread; strong fairness of taking the
  shared mutex and of the library's thread, because these mutexes are not first come,
  first served, and are let go again and again.  No fairness of starts, kills and plugs.
* Camera node: weak fairness of the poll thread and of a frame's callback once it has
  begun; strong fairness of the spinner and the destructor, which wait for a lock that
  a frame takes for a moment every 33 milliseconds.  No fairness of clients or frames.

`CHECK_DEADLOCK FALSE` is said in the six configurations whose system may really
stop: the cruise (twice) with every point added and no goal, result or cancel under
way, a receive thread that died while the wire is full, a lidar node that has
exited, camera processes that have ended with no start left, and a camera node that
has died, is gone, or is crossed.

## 4. Proofs

| theorem | property | for every |
|---|---|---|
| `PavsQuery_proof!TypeCorrect` | `TypeOK`, `ThreadsInv` | set of getters and servos, any bounds |
| `PavsQuery_proof!AkmCorrect` | `AkmNeverPlaceholder` | the same |
| `PavsQuery_proof!CarTypeCorrect` | `CarTypeOnce` | the same |
| `PavsQuery_proof!AnswersCorrect` | `AnswersCurrent` | the same |
| `PavsQuery_proof!AkmSetCorrect` | `AkmNotOlderThanSet` | the same |
| `PavsQuery_proof!VersionCorrect` | `VersionKnown` | the same |
| `PavsReceive_proof!FramesLinked` | `FramesAreLinked` | frames of at most 252 data bytes, types known, bytes lost and altered |
| `PavsReceive_proof!ReceiveTypes` | `FrameReceiver`'s `TypeOK` | the same |
| `PavsReceive_proof!OnlyFaultsSlipCorrect` | `OnlyFaultsSlip`: a step leaves `InStep` only by losing a byte or by reading an altered byte of a header or length | the same |
| `PavsReceive_proof!DamagedSum` | a body with one byte altered never has the right check sum | the same |
| `PavsReceive_proof!ReportsCorrect` | `SkewBounded` | number of attributes and reports, orders of reading and clearing |
| `PatrolNode_proof!MovingCorrect` | `NotMovingIsStopped` | commands, threshold, rays, with shutdown from outside or not |
| `PatrolNode_proof!LateCorrect` | `OneLateMove` | the same |
| `PatrolNode_proof!DeadCorrect` | `DeadIsStopped` | commands, threshold, rays |
| `PatrolNode_proof!TypeCorrect` | its `TypeOK` | the same |
| `PsoSwarm_proof!SwarmCorrect` | `LeaderLeads` | number of particles, inherited particles and iterations, maps, fitness |
| `PsoSwarm_proof!MutualExclusion` | `Exclusion` | the same |
| `PsoSwarm_proof!SwarmTypes` | its `TypeOK` | the same |
| `PsoSwarm_proof!NoWorseCorrect` | `NoWorse` | the same |
| `PsoSwarm_proof!SwarmSearches` | `AnswersBestOfSeen` | the same |
| `CruiseNode_proof!CruiseTypes` | its `TypeOK` | points, bounds, goals that may fail or not |
| `CruiseNode_proof!ConsistentCorrect` | `Consistent` | the same |
| `CruiseNode_proof!TriedTwiceCorrect` | `TriedTwice` | the same |
| `LidarDriver_proof!TypeCorrect` | `TypeOK` | sync bits, capacity above 1, formats, bounds |
| `LidarDriver_proof!WholeCorrect` | `ScansAreWhole` | the same |
| `LidarDriver_proof!NewerCorrect` | `NewerEachTime` | the same |
| `LidarDriver_proof!SignalCorrect` | `SignalMeansScan` | the same |
| `LidarDriver_proof!QuietCorrect` | `NoThreadLeft` | the same |
| `CameraFactory_proof!TypeCorrect` | its `TypeOK` | number of processes and cameras, acceptances, bounds |
| `CameraFactory_proof!AloneCorrect` | `OpensAlone` | the same |
| `CameraFactory_proof!DrivesCorrect` | `DrivesOwnCamera` | the same |
| `CameraFactory_proof!ConnectedCorrect` | `ConnectedMeansNode` | the same |
| `CameraNode_proof!RunsCorrect` | `RunsAsWatched` | streams, kinds of cameras, bounds |
| `CameraNode_proof!TypesCorrect` | its `TypeOK` | the same |
| `CameraNode_proof!MemoryCorrect` | `MemorySafe` | the same |
| `CameraNode_proof!DeathCorrect` | `DiesOnlyOf` | the same |

They rest on the named assumptions of the modules only: sets of getters and
servos (`KindsAssumption`, `ServosAssumption`), natural bounds, that frames are made of
bytes and so short that their length is one (`FramesAssumption`), that the board sends
what `__parse_data` unpacks of a type (`NeedAssumption`; fewer bytes would end the
thread, however sound the frame), that the two orders
are permutations (`OrderAssumption`), that fitness is a natural number
(`FitnessAssumption`) and that there are fewer inherited particles than particles
(`InheritedAssumption`, which the parameter file asks for), that a scan's capacity is
above 1, that the set-ups are records of the known streams, that `None` is no
camera or process, and that what a DELETEALL leaves of a marker is no point
(`DeleteAllAssumption`).  TLC evaluates each in the runs.

None of the invariants is inductive alone:

* `TypeCorrect` needs `ThreadsInv`: every number on the way or being parsed is that
  of a request which was written and is answered, and both threads stay within the
  tables they follow; otherwise `Parse` and `Read` would index beyond them.
* `AkmCorrect` adds that the flag implies an angle, at every place of both threads:
  the angle is assigned first, no other reply writes it, and no reset touches it.
* `CarTypeCorrect` adds that replies are in order of their numbers from the one
  returned last over the attribute and the receive thread to the link, so that the
  attribute, once cleared, can only hold a newer one.
* `AnswersCorrect`, `AkmSetCorrect` and `VersionCorrect` rest on `PromptInv`: while
  no reply has been late, nothing but the end of a reply is on its way outside a
  poll (`CallInv`), a getter's condition is false when its request is written, and
  during the poll only its own reply can come and make it true (`PollInv`).  The end
  of a reply matters: the getters whose condition is about the first attribute a
  reply assigns go on while the rest is still being assigned (`Split`), and no such
  attribute is one of the three answers'.
* `ReceiveTypes` and `FramesLinked`: `ReceiveInv` adds to the types that each frame on
  the wire is what is left of its encoding, but for one byte of the body if it is
  damaged (the header and length bytes may be any), and that nothing has left the
  wire of the frames behind the first (`Sound`).  The steps then follow the thread's place: in step, a header or length
  byte as it was sent is what the thread waits for, another one is a `Slip`, a byte of the body moves from `left` to `ext_data`, and
  the last one finishes the frame with the sum of all the others.  A sound frame is
  parsed since its check sum is right, a damaged one dropped since the sums of the
  two bodies differ by less than 256 (`DamagedSum`).  With `InStep` about places
  alone the refinement is not provable, and false with enough faults: a thread that
  has lost bytes can come to the right place while it holds the wrong bytes.  This is
  why `InStep` speaks of the bytes as well.
* `ReportsCorrect`: `ValFresh` ties an attribute to the receive thread's place (this
  report's or the last one's), `GotFresh` that what was read is from
  the report being received at that time (`seen`) or the one before, and no newer
  than what is assigned; the skew follows attribute by attribute.
* `MovingCorrect` and `LateCorrect`: `HoldInv` says at which places a stop has been
  published and `moving` not yet changed, `LateInv` why no second move follows: the
  thread would have to pass the test that now fails.
* `SwarmCorrect`: `Exclusion` (only the mutex's holder is between lock and unlock),
  `Record` (who has reported does not beat the record, who is about to write
  does, the leader's optimum is at least the record: it may be above it between
  its own improvement and its own report) and `Resting` (no thread runs outside
  `join`, and the position on record is the leader's).
* `NoWorseCorrect`: `WorthInv` follows the positions a plan leaves to the next one: they
  are a sorted permutation of the optima, so the first is at least as good on its map as
  every other, the leader's among them, and the particle that starts from it on the
  same map never falls below it.
* `SwarmSearches`: `SearchInv` accounts for every position that was ever evaluated: it
  is no better than the record, or the particle that evaluated it is about to make it
  its optimum, or to report an optimum at least as good.  Nobody is in such a place
  after the join, so what is returned is the best of all seen: each step of the swarm
  is a step of `BestOfSeen` or a stutter.
* `ConsistentCorrect` and `TriedTwiceCorrect`: `MarkerInv` (the markers are one ahead of
  the count exactly while the callback of a click is between the two),
  `FirstInv` (no result is acted on before the first marker is counted), `PlaceInv`
  (what index and flag are at each place of the result callback), `ClearInv` (only
  `cancel_marker` resets one attribute after the other, and which are reset at each of
  its places) and `TryInv` (a point is given up only after its second failure).
* `DeadCorrect`: once the hook runs, the thread has ended (`DeadInv`), so no move
  follows the stop.  The types of the patrol need that `legs` has a head at every
  place inside a leg's loop (`PlaceType`, `DispatchType`).
* `WholeCorrect`, `NewerCorrect`: `DataOK` says that the scan under assembly is a run of
  what was received from a sync bit up to the reader's edge (`Edge`: the measurement
  in hand, the pending capsule, or the link's next), that everything between is in
  `lost`, and that what is assembled, cached and grabbed are in this order
  (`InOrder`); `CopyOK` keeps the copy from finding nothing.
* `SignalCorrect`: `SignalInv` follows the event through the three accesses of a grab.
* `QuietCorrect`: `CallInv` says what the rest of a call can be at each place of the
  node's thread: unless there is no cache thread, a join comes before whatever asks the
  lidar or starts a thread, and a start is followed by nothing but unlocking.  What
  holds of two rests of calls holds of one after the other (`ConcatCalls`).
* The camera factory's: `LockInv` (unless the mutex was stolen, who is inside is alone
  and the mutex is taken), `ConnInv` (what the attributes are at each place of an
  attempt), `UseInv` (the uri's camera is held, or its report is in `events`),
  `CbInv` (the handler serves the report at the head), `OffInv` (a process that
  has ended has no node and hears no reports).
* The camera node's: `StreamInv` (an enabled stream has a video mode unless a
  service enabled it, a started one has an object while the node is up, a polled one
  as long as it is polled),
  `BufferInv` and `LockInv` (who holds the lock at which place, and when buffer and
  handle are there), together with `DiesOnlyOf` itself.  `RunsAsWatched` is inductive once
  the types are known; what it takes is that a callback which may still start or stop a
  stream stays in the queue, or at its place, until it is served (`StillPending`).

Only model-checked: liveness (`GetterReturns`, `JoyYields`, `PauseStops`,
`SuccessGoesOn`, `PlanReturns`, `GetsInStep`, `CallsReturn`, `NodeGoes`, `NodeComes`,
`CallsEnd`), because the prover handles neither fairness nor ENABLED.  Every invariant
the passing runs check, and both refinements, are theorems.

The recursive functions of the modules that are proved about (`Sum`, `WithoutUvc`)
need induction, and the library's induction theorems take an operator as a parameter,
which the provers cannot instantiate.  `UpTo` is induction about a set, from the
well-foundedness of the naturals; `RecursionExists` builds a function of values
up to a bound from its steps.  From the two follow what is used: `SumAppend`,
`SumAltered`, and `PartialsDrift`, by which two sums differ at the end as they
differed at the byte that was altered.

## 5. Not modelled, and why

* Real-valued data: scaling of reports, odometry, arm angle conversion, path
  geometry and the B-spline, angles and distances of lidar measurements, images,
  transforms and point clouds.  Properties of the models do not tell values apart.
* Data races at the level of memory: Python attributes are assigned atomically, and
  in the planner every shared write but the random generator's is under the mutex.
  In the camera's `reconfigureCallback` an image buffer may be replaced while the
  poll thread fills it; images are left out.
* `PatrolNode` leaves out the distance parameters, so that `ResponseDist = 0` with a
  stale count, and a tolerance narrower than the distance of one turn, are not in
  the model.
* `LidarDriver`: calls no file of the repository makes (`getMotorInfo`,
  `setLidarConf`, `negotiateSerialBaudRate`, `getScanDataWithIntervalHq`), and the
  serial, TCP and UDP channels, which hold no state the driver's logic depends on.
* `CameraStreams`: the services that get or set one property of the device and keep
  nothing; the thread that publishes static transforms; the keep-alive timer.  ROS's
  removal of callbacks from the queue is modelled at the end of the members only;
  the building of the poll thread's list and the reading of a frame are parts of the
  steps before and after the wait.
* `isspa_plugin_devices/ros_astra_camera/include` carries third-party headers
  (`json.hpp`, OpenNI, PS1080: over half of all lines of the implementation), which
  declare or parse and are not the program's own logic.  This is why the map's share
  of all lines is small, and must be.
* Scripts without concurrent state, other vendored code, launch files and documents.

## 6. Plan

Done: modules and theorems above.  Left, in this order:

1. `CmdVel`: the publishers of `/cmd_vel` (joystick, keyboard, patrol, `move_base`)
   composed with the chassis driver and its shutdown: who moves the car last, and
   whether a stop is ever overtaken.
2. An abstract query service that `PavsQuery` implements for the getters whose flag
   is assigned last, and an abstract camera (a node exactly while one is plugged in
   and wanted) that `CameraFactory` implements.
3. `PavsCommands` (widths of the encoded arguments) and the patrol's geometry on a
   line.
