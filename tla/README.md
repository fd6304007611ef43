# TLA+ model of flight_safety

Models, model-checking configurations and proofs for the `flight_safety` ROS package.
Paths below are relative to the repository unless they name a module of this directory.

```
tlc  -config ResponseSessions.cfg MCResponse.tla    # one run; the runs are listed below
tlapm ResponseProofs.tla                            # the proofs of the response node
```

## 1. The system

The package watches a PX4 vehicle and intervenes. Three layers form the flight path; the
rest produces evidence about flights and about the vehicle's configuration.

```
VRPN pose ----+--> [stream self-report, in the VRPN client] --+
              |                                               |  /diagnostics
              +--> [L1 diagnosis: geofence, consistency, -----+--------> [L2 monitor]
local_position+     local_position liveness]                                 | /flight_safety/fault (10 Hz)
                                                                             v
/mavros/state, rc/in, imu/data, local_controller/setpoint_raw ------> [L3 response, 50 Hz]
                                                                             |
                        setpoint_raw/local, set_mode, force-disarm <---------+
/mavros/state --> [recorder] --> rosbag process, webcam and odometry services, runtime manifest, .ready
operator --> [FCU audit receipt] --spawns--> [trace captures], mavparam --> parameters, traces
operator --> [VIO shadow preflight] <-- corrections, identity, hybrid IMU, clock domain
             both write to [append-only evidence]: a run directory and its receipt
```

| Component | Source | State it keeps | Operations | What makes it correct |
|---|---|---|---|---|
| L3 response | `response.py`, `actions.py` | last fault, RC, state; the Normal command and its stamp; IdleHold; admission; force-disarm latch; touchdown latch | 5 subscriber callbacks, 50 Hz tick, termination service | commands rest on what *this* arm/OFFBOARD session received; nothing after the latch; ERROR kills, WARN lands, unadmitted OFFBOARD is handed back; the timer never dies |
| Touchdown detector | `touchdown.py` | start of descent, recent hits, latch | `update` per IMU sample | fires exactly on `confirm` hits within the window after the entry transient |
| L1 diagnosis | `diagnosis/*.py`, `diagnosis_node.py` | last pose, ages of both poses, last pair | input callbacks, one timer that runs three reporters and publishes | a lasting condition becomes its promised level; a VRPN-only outage is never more than WARN |
| Stream self-report | `stream_diagnostic.h` | events since last run, last change | `tick`, `run` under a mutex | silence and repetition are ERROR |
| L2 monitor | `monitor.py`, `monitor_node.py` | last level and stamp per source | record statuses, 10 Hz scan and publish | worst level within each source's authority; dead sources count |
| Recorder | `recorder_node.py` | rosbag process, current bag, armed, webcam/odometry flags | arm/disarm edges, shutdown hook, boot scan | a bag marked ready is final, except where the shutdown hook overlaps a stop of it; its sidecar stays as it is; none is stranded |
| Runtime manifest | `runtime_manifest.py` | document, path, capture thread | start, capture, finish | complete before `.ready`; no snapshot of another session |
| Append-only evidence | `append_only_evidence.py` | files of a run directory, records of them | write, adopt, finalize | nothing rewritten; the receipt lists what lies there |
| FCU audit receipt | `fcu_audit_receipt.py`, CLI | identity taken, outcome of each phase, authorization of the pull | `collect`: some thirty phases, the pull transaction, the rechecks | a PASS describes one deployment and one process, a pull that succeeded on a safe vehicle, parameters and clock as the flight controller had them; no pull behind a failure |
| Trace captures | `fcu_trace_capture.py`, `fcu_timesync_trace_capture.py` | connection, counts, grace period, frozen or not | connect, observe, freeze, time out | ready before the first sample; nothing written after the freeze; a healthy source completes |
| VIO shadow preflight | `vio_shadow.py`, `vio_shadow_preflight.py` | accumulators, cache of the clock publisher | callbacks under a lock, `finish` | a PASS is one session, one clock process, no new fault; a quiet window passes |
| Flight-record client, launch files, configuration manifests, messages | | none | | not modelled (section 8) |

### What is hard

* **Threads without locks.** rospy serves every subscriber, timer and service on its own
  thread. L3 has five subscriber callbacks, a timer and services that share about twenty
  attributes with no lock; L2 scans a dictionary its subscriber writes.
* **Blocking calls in handlers.** `actions.kill` and `set_mode` block the tick; the
  recorder's `_stop` blocks the state callback for many seconds.
* **Time.** Every verdict is about an age; a stamp can be taken after the reader's `now`.
* **Node death.** No launch file respawns anything; a silent node must become a fault.
* **Sessions.** Arm, disarm and leaving OFFBOARD end a control session; nothing received in
  one may act in the next.
* **Late or repeated input.** Poses stop, freeze or disagree in any order; trace messages are
  lost, repeated and delivered per topic.
* **A world that does not stand still.** The audit takes digests, pids and samples one after the
  other while parts may be replaced, processes restarted and the vehicle armed.
* **Evidence after the fact.** Whether the vehicle was safe during the pull is decided later, from
  samples with gaps and ages.

The full list with lines is `hazards` in `PROJECT.json`.

## 2. Modules

| Module | Models |
|---|---|
| `Severity` | the diagnostic levels |
| `Response` | L3: all handlers as threads, one shared attribute per step |
| `ResponseProperties` | its properties, most of them for every overlap of handlers; the refinement mapping |
| `ControlSession` | abstract specification: what L3 promises about a session until handlers overlap |
| `ResponseProofs` | theorems about `Response`, in every interleaving of its handlers |
| `Touchdown`, `TouchdownProofs` | the detector and its declarative definition; their equivalence |
| `Diagnosis` | L1: arrivals, expiry, and the steps of one update |
| `Stream` | the stream self-report |
| `Monitor` | L2: recording, death, scan, publishing |
| `Pipeline` | composition of `Diagnosis`, `Stream` and `Monitor` with the wire between them and node death |
| `PipelineProperties`, `PipelineProofs` | properties and theorems of the composition |
| `Manifest` | the sidecar of a bag and its capture thread |
| `Recorder` | arming edges, shutdown hook, boot scan and crashes of the recorder, with the rosbag process, and renames, kills and markers that fail |
| `RecorderProperties`, `RecorderProofs` | properties and theorems of the recorder |
| `PullPromise` | abstract specification: what `collect` relies on when it calls the pull transaction |
| `Pull`, `PullProperties`, `PullProofs` | the pull transaction, its subscribers, the guard over their traces; the refinement of `PullPromise`; theorems |
| `Audit`, `AuditProperties`, `AuditProofs` | all phases of `collect` and the run directory, in a world of deployments and restarts; theorems |
| `ParamTrace` | the parameter messages of a pull and the verdict on them |
| `Timesync`, `TimesyncProperties` | the timesync capture and the verdict on it |
| `Evidence`, `EvidenceProofs` | the two verdicts one after the other, as `collect` makes them; theorems about both |
| `Shadow`, `ShadowProperties`, `ShadowProofs` | the VIO preflight: callbacks, accumulators, `finish`; theorems |
| `MCResponse`, `MCPipeline`, `MCEvidence` | instances for TLC |

`Recorder` EXTENDS `Manifest` and calls its operations from the steps of `_start` and `_stop`.
`Pipeline` EXTENDS its three parts; each part leaves the variables of the others alone and
`Pipeline` says so action by action. `ControlSession` is instantiated by `ResponseProperties`.
`Audit` EXTENDS `PullPromise` and uses its actions for the call of `pull_runner`: `Pull` is shown to
implement `PullPromise`, so `Audit` need not repeat the transaction. `Evidence` composes `ParamTrace`
and `Timesync`. Operators marked *Slip* or *Mutant of* are changes a programmer could make by mistake;
they are not part of any specification and serve to show that each property can fail.

### Response: state and actions

`self` is the `Response` object. Python `None` and the zero stamp become tags; a Normal
command is represented by the session it was received in: `"live"`, `"past"` or `"none"`.
When `_on_state` decides to reset (`StateEndsSession`) every `"live"` becomes `"past"`,
and from then on the four assignments of `_reset_control_session` are four steps. `tick`, `st`,
`nm`, `imu` and `req[r]` are the threads: a place (`pc`) and the local variables still needed.

* `_tick` (225-281) is the chain `TickStart` ... `TickHolds`; its early returns are the moves
  to `"idle"`. `TickReadsInputs` joins three reads, and a comment there says why it may.
* `_on_state` (139-166) is `OnState`, `StateConnected`, ..., `ResetAdmitted`. The comparison
  with the previous state is taken when the message arrives, because only that thread writes
  `armed` and `mode`.
* `_on_normal` (177-194) is `OnNormal`, `NormalStamped`, `NormalHeld`.
* `_request_termination` (116-134) is `ReqStart` ... `ReqReleases`; each guard is a step.
* Exceptions that end the timer thread lead to `"dead"`: indexing an emptied `names`,
  publishing a `None`.
* Blocking service calls are steps of their own (`TickKillReturns`, `ReqKillReturns`,
  `TickSetModeReturns`) with either outcome.
* Time is the `Expire` actions. A reader that sampled `now` before a stamp was taken is marked
  `ahead`: the code sees a negative age.
* `overlapped` is history: whether an input has come, a stamp has aged or a handler has begun while
  another was at work. What holds only of handlers that follow each other is stated of the time before it.

Setpoint contents, logging, the FlightState layout and `estimator` are left out. The stick
deflection test is commented out in the code and absent from the model.

### Touchdown: state and actions

One action per branch of `update` (37-63). The list `hits` of the code is only filtered by age and counted, so
it is a set of numbered samples. Pruning happens when a hit is appended and only then, as in the code.
`descent` is history: every sample since `land_t0`, which the definition of a burst is about.

### Pipeline: state and actions

Ages are booleans that an `Expire` action ends; local_position has two, because the geofence's
fallback and the liveness reporter have their own timeouts on the same topic. A pose is its
coordinates on the enabled axes. `run` is the timer thread of L1: `GeofenceReadsAxis` once per
enabled axis (the code looks `self.pos` up again for each), the fallback, the pair, and then
`DiagnosisPublishes`, which puts one array on the wire. L2 records it one status at a time
(`RecordStatus`) and scans one source at a time (`ScanReads`), in any interleaving.
`SourceDies` lets a report grow too old only when its node is dead: monitor.yaml:8 asks
for a `stale_s` of at least three publishing intervals, and the model takes that as given.
`Dies` is the death of a node. What the `diagnostic_updater` library publishes by itself (a
status when a task is added) is left out.

### Recorder: state and actions

`node` holds the attributes of `ArmRecorder`, `thread` the places of the two threads that use
them: the callback of `/mavros/state` and the shutdown hook. A session is a bag, and
`None` is `NoBag`. `file`, `mark` and `sidecar` are the disk and survive a crash; so does
`rosbag`, which runs in a session of its own (setsid); `captures`, `starts` and the threads do not.

* `_start` (121-159) is `StartNames`, which sets `self.cur_bag`, then `StartSpawns` or `StartFails`
  (`Popen` raises), `StartManifest`, `StartWebcam`.
* `_stop` (209-266) is the chain `StopWebcam` ... `StopMarks` on either thread, and the two may take their
  steps in any order. What it reads of `self.cur_bag` and `self.proc` it reads when it needs it, as the code
  does; that `self.proc` is taken by a read (`StopTakes`) and a write (`StopClears`) is two steps.
* `StopWaits` joins the wait and the escalation: when it ends the process has ended by one or the other,
  or it has survived kill and is given up (233-239).
* `StopRecovers` is the test for a `.active` that has no bag beside it (243), `StopRenames` the rename (245): it
  succeeds, or fails and `self.cur_bag` becomes the name of the `.active` (248), which is then offered. `node.name` says which
  name `self.cur_bag` is; a name that got the suffix twice, from two stops, is that of no file.
* `StopMarks` creates the marker that `Markers` says, or fails to (287).
* `Exits` is the end of the process after the hook, `Crashes` one without it, `Boots` the
  constructor with the orphan scan, in which any marker, or the scan as a whole, may fail.
* `RosbagOpens`, `RosbagFinalizes`, `RosbagDies` are the process; it may end before it has
  opened a file, so that a session has no bag.
* The camera's start is a thread that may arrive late; start and stop may fail.
* Each step of the manifest may raise, and the sidecar is then what the last write left.

`fate` is history: what befell a bag that the promises then exempt. `missed`: its rosbag was still at work at a boot
scan. `raced`: it was the bag at hand while callback and shutdown hook ran side by side. `unkilled`: its
rosbag survived kill. `unmarked`: its last marker could not be created.

### Pull: state and actions

`pull` is the collector's place in `_default_pull_transaction` (3123-3267) with the ticks it has spent
there, `proc` the three subscriber processes, `trail` what the trace of a safety stream shows.
A trace is not kept as a list: `Extended` updates what `_phase_guard` (763-896) will ask of it (count,
continuity, freshness, whether it covers both ends of the dump), sample by sample.

* `Spawn`, `Look`, `DumpStarts`, `DumpEnds`, `Stop`, `Reap` are the transaction; `Unwind` is an
  exception anywhere in it with the `finally` clause.
* `TraceReady` is the decision before mavparam is run: the *first* sample of each trace, all three
  handshakes and all three processes alive.
* `SubscriberConnects`, `SubscriberDies`, `SampleArrives` are `fcu_trace_capture.py`. A sample arrives
  up to `Age + 1` ticks after its header was stamped, so that one too old occurs.
* `Flip` is the vehicle, which becomes unsafe or safe at any time from the spawn on.

`run`, `past` and `exposed` are history: for how long a stream has been in danger, what it was some
ticks ago, and whether it was unsafe during the dump for longer than `Gap + Age`. That is the
resolution of the evidence: two good samples at most `Gap` apart, the later one up to `Age` late.

### Audit: state and actions

`audit.pc` walks through the phases of `collect` (1622-2023) in their order; each phase ends `"ok"`, in
a `"failure"` or with evidence `"missing"`, and writes its artifacts. Whether a command answers and
whether the answer is well formed is left open. A `GatedPhase` is one that `pull_authorized`
(1736-1744) depends on; the list is the one in the code. What the code *compares* is modelled as the
comparison: versions on disk with versions taken (`SourcesUnchanged`), pids and mapped binaries
(`RuntimeUnchanged`), the bundle with the parts (`Bound`).

* `Hash` per group of labels, `JoinSources`, `BindRuntime`, `CheckBundle`: `_collect_identity`.
  The order helper, bundle, runtime, core is that of the code (2328-2410).
* `ClearHelper` and `RunHelper` are two steps: the helper is hashed again and then run, and may be
  replaced in between.
* `Authorize`, `PullWorks`, `PullReturns`, `JudgePull`: the pull, the judgement of which comes only
  after the post captures. The result of the guard is bound by the promise.
* `PostRuntime`, `PostSources`, `Finalize`; `Raise` is an exception anywhere: no receipt.
* `Deploy` and `Restart` are the world, at any moment between two steps.

A deployment part has a version that only grows, a process a pid that only grows and the version
it has mapped. `used` is history: the versions and pids the evidence really came from.

### ParamTrace, Timesync: state and actions

`ParamTrace`: the flight controller sends each parameter with its number and the count of those in use;
MAVROS keeps and publishes it; the channel to the trace may lose or delay; mavparam dumps what MAVROS
keeps, which may hold names from before (`ParamInit`) or values others wrote (`CacheChanges`). `Pass` is
`_analyze_param_trace` (593-729) conjunct by conjunct. The vehicle may change its parameters while
the pull runs (`Changes`), and `hist.tables` remembers every table it had.

`Timesync`: `Publishes` is one exchange with what each of the two topics says of it; `Observes`,
`ObservesDiagnostic`, `GraceEnds`, `LoopLooks`, `TimesOut` are the capture; `ReportPasses` is
`_timesync_report` with `_timesync_acceptance_report`. The offset of the clocks is represented by a
token that changes exactly when the filter accepts a sample, which is what the residual test of
the code observes: `StatusGate` asks it of the status tail (1457-1478), `LinkageGate` of the accepted one.
There is no clock in the model. `untimely` says which of the limits on time the samples broke: the age of a sample
at its arrival and the gap before it, per topic; the freshness of the last one at the end, per topic
(1297-1303, 1446-1453, and that of the diagnostics); the delay between the two messages of an exchange (1385-1387). Any
sample may break any of them, and each gate asks for the ones the code asks for.

### Shadow: state and actions

One action per callback; `DiagnosticArrives` and `DiagnosticRecorded` are the two halves of the one that
notes its arrival before the lock, `held` what lies between. `seen` holds the accumulators, as
what their `summarize` asks of them; the gates are its conjunctions. `near` stands for the two distances the
linkage bounds (vio_shadow.py:1027, 1033-1035). `Finish` is `finish` by the
duration or by the shutdown hook, the first of which counts. `DomainCallback` reads the pid of
the clock publisher as it is when the callback runs, once for its name. `hist` is history: `clocks` says
which process made each check seen, in order, and `lost` which processes had a check lost.

## 3. Runs

| Run | Checks | Shows |
|---|---|---|
| `ResponseLiveness` | `TerminatedStaysSilent`, `ErrorTerminates`, `WarnStreamsLand`, `UnadmittedIsHandedBack` | lasting conditions are acted upon under fair threads |
| `ResponseSessions` | `TypeOK`, `BusyIsNotLeaked`, `OnlyRunningCallbackLeavesHold`, `OnlyRunningTickLeavesAdmission`, `OnlyRunningSampleStrays`, `ForwardedNormalIsCurrent`, `ImplementsControlSession` | what a session or a descent may leave behind when handlers overlap, and no more; until they do, L3 implements `ControlSession` over all inputs, a service thread and touchdown |
| `PipelineAvailability` | `VrpnAloneLands`, `ExitReachesFault`, `LossReachesFault`, `OrderRestoresOk` | geofence and local_position to the verdict, over two axes |
| `PipelineAgreement` | `MismatchReachesFault` | the comparison of the two estimates |
| `PipelineStream` | `AuthorityIsCapped`, `StopReachesFault` | the VRPN client's report under its cap |
| `Touchdown` | `FiresExactlyOnBurst` | all sample sequences of one descent within the bounds |
| `Recorder` | `TypeOK`, `ReadyIsFinal`, `NothingIsStranded`, `CameraIsOff`, `SidecarIsFrozen`, `StoppedIsQueued` | two sessions with crashes, restarts, overlapping stops and every failure of the processes around the node: what is offered is final and stays as it is, what a stop finds is offered |
| `Pull` | `KeepsPromise`, `PullStartsOnRecentSafety`, `PullEnds` | the transaction gives a clean verdict only for a dump during which the vehicle was safe, to the resolution of the evidence; it does not start on safety older than the handshake; it ends whatever the subscribers do |
| `Audit` | `PassMeansOneDeployment`, `PassMeansCleanPull`, `FailureStopsThePull` | what a receipt that says PASS is worth when parts are replaced and nodes restarted between any two steps |
| `Evidence` | `PassMeansTheirTable`, `GoodPullPasses`, `PassMeansAccepted`, `HealthyCapturePasses` | the two verdicts accept nothing false and refuse nothing healthy, over lost, late, repeated and reordered messages |
| `Shadow` | `PassMeansOneSession`, `PassMeansNoNewFault`, `OneClockProcess`, `QuietWindowPasses` | the same of the preflight's window |
| `ResponseTimerDies` | `TimerAlive` *violated* | finding 1 |

No property of these runs asks that handlers be serial. Where overlapping costs a promise, the property says exactly
what is lost and that no more is: a held position, an admission or a touchdown of the past is left behind
only by a handler that was at work when its session or descent ended, never by a later one; of the recorder's
bags only the one at hand during the overlap. `ResponseTimerDies` and the list in section 5 say what the
cost is. `ImplementsControlSession` is the exception in form: it speaks of the behaviour up to the first overlap.

### Bounds

* Response: two modes (`OFFBOARD`, `POSCTL`) stand for all, since the code only compares with
  `OFFBOARD` and with the empty string; three levels; one service thread (the race of two is about
  `busy` alone, and `BusyIsNotLeaked` is proved for any number). The concurrent runs keep
  constant what their question does not touch: the service and the touchdown in
  `ResponseLiveness`. There are no counters: the state is finite by itself. `ResponseSessions` lets handlers
  follow each other over all inputs, and overlap (`OverlapsInFlight`, an action constraint) in flights without
  termination that are commanded and without fault, or that are not commanded and may land: each of the three
  handlers that can leave something behind then meets the reset or the end of a descent at each of its steps. All
  overlaps at once are beyond TLC; the theorems of section 4 are about all of them.
* Pipeline: each configuration lets L2 watch what its question is about, one or two sources; the
  sources do not interact except in the maximum. Two axes and two positions let a
  scan of the axes straddle a move across a wall. Differences 0, 1, 2 are the three outcomes of
  the comparison.
* Touchdown: `MaxStamp` 6, `MaxSamples` 6, with a window of 2, a transient of 1 and 3 hits to
  confirm: samples before, at and after every edge occur, in bursts and apart.

* Recorder: `MaxBags` 2: a session and the one after it, so that what the first leaves behind
  (a process, a capture, a start of the camera, a bag not queued) meets the second. `MaxMishaps` 1: one
  mishap on record, so that each kind (an overlap, a kill, a marker) meets every crash, restart and second session;
  `RecorderProofs` has no bound. Crashes, restarts, failing renames and services are not bounded.
* Pull: one safety stream (the two are judged apart, by the same function), a gap of two ticks and an
  age of one, so that a sample can be on time, late and too late; a dump of up to four ticks, longer
  than two gaps; two changes of the vehicle, the fewest that hide an interval of danger between
  two safe samples.
* Audit: each part replaced once, each node restarted once, in any order and at any moment. One
  replacement of each part is enough to make any two of them disagree; `AuditProofs` has no bound.
* Evidence: two names, of which any set may be in use; three messages of the flight controller, so that
  one may come again; one change. Four exchanges with a window and a tail of two: a tail that
  begins before, at and after convergence, with two faults among them, so that a loss on
  each topic or a loss and a restart of the clock meet.
* Shadow: three corrections, two clock checks, one fault of any kind: a restart, a reset, a new
  session, a counted fault, a lost message, a readiness that is withdrawn.

`CHECK_DEADLOCK FALSE` in the pipeline runs: with both nodes dead and everything stale the
pipeline's environment may stop; L2's scan itself never does. In `Pull`, `Audit`, `Evidence` and `Shadow`
the program really ends: the transaction, the receipt, the capture and the window.

### Fairness

* Response: weak fairness of the tick's steps (the timer is re-armed after each callback), of
  every started handler, of every pending service call (MAVROS answers or
  the call raises), and of the one-second throttle. None for messages, expiry or faults.
* Pipeline: weak fairness of L1's timer and its steps, the stream's report, recording, the scan,
  and of the ageing of a dead node's report. None for poses, pairs or expiry. A live node is
  always given time to publish; a dead one has no fairness, because `Dies` disables it.
* Recorder: weak fairness of a started callback and of the captures, each of whose commands has a
  timeout. The callback's call of the camera has none (recorder_node.py:200), so a camera that never
  answers holds the stop up; `StoppedIsQueued` begins behind that call. None for rosbag, which may hang, for
  the shutdown hook or for the next boot.
* Pull: weak fairness of the clock and of the collector's own waits, each of which has a deadline or a
  timeout (3150, 3168, 3203, 3217-3227). None for the subscribers, the vehicle or an early end of mavparam.
* Audit, Evidence and Shadow state safety only: whether a command answers is bounded by its timeout
  in the code and by nothing else, and a receipt may always fail to appear (`Raise`).

## 4. What is proved

Every invariant and every safety action property that a passing run checks is a theorem, of the plain specification
and so of every interleaving, for every value of the constants
that satisfies the named assumptions: flags are Boolean, levels are severities, caps are 0, 1 or 2, bounds
are naturals, `Confirm`, `MinCount`, `MinSamples` and the tail and window of the timesync are positive, the
firmware's order names each parameter once. The refinement of `PullPromise` is a theorem too; that of
`ControlSession` is not. The bounds of section 3 are bounds of TLC; no theorem rests on how large they are.

| Theorem | Statement | Argument |
|---|---|---|
| **`ResponseProofs`** | | |
| `TypeCorrect` | `Spec => []TypeOK` | inductive by itself: one lemma per handler |
| `Silence` | `Spec => []TerminatedStaysSilent` | with `TypeOK` and `late => killed`: the latch never opens (`LatchIsTerminal`), a thread's place is moved only by itself (`OthersLeave...`), and each path out of the guard tests the latch |
| `BusyIsHeld` | `Spec => []BusyIsNotLeaked` | the flag is set only by the step that enters the critical section. Two requests may be inside at once; the first to leave clears the flag, which keeps the invariant |
| `CurrentForwarded` | `Spec => ForwardedNormalIsCurrent` | `self.normal = "past"` only while `st.pc = "normal"`, and `self.normal = "none"` makes the forwarding step fail instead of finish |
| `OnlyCallbackLeavesHold`, `OnlyTickLeavesAdmission` | `Spec => OnlyRunningCallbackLeavesHold`, `Spec => OnlyRunningTickLeavesAdmission` | who writes the attribute (`OthersLeaveHold`, `OthersLeaveAdmission`): the reset, and one step of one handler, which has carried what it writes since before |
| `OnlySampleStrays` | `Spec => OnlyRunningSampleStrays` | `OthersLeaveTouchdown`; the tick that ends a descent clears the latch in a step of its own before it can be read |
| **`TouchdownProofs`** | | |
| `FiresOnBurst` | `Spec => []FiresExactlyOnBurst` | `TouchdownInv`, below |
| **`PipelineProofs`** | | |
| `Authority` | `Spec => []AuthorityIsCapped` | `AuthorityIsCapped` is not inductive: `min` with a cap bounds a level only if the level is a number. `DueInv` adds that levels are severities from the reporters through the wire to `last`, and that the verdict in the making is itself due |
| **`RecorderProofs`** | whichever stops overlap | |
| `RecorderTypes` | `Spec => []TypeOK` | not inductive alone: that a sidecar is begun for a bag needs `Threading` |
| `Final` | `Spec => []ReadyIsFinal` | `Files` (a `.bag` and a marker have no writer, `ready` means a `.bag`) needs `Hands`, and `Hands` needs `Sole`, below |
| `Frozen` | `Spec => SidecarIsFrozen` | `Sidecars`: a running capture belongs to an unmarked bag, and a finish that is to come writes at no marked one. `Session`: a capture of the bag at hand is the thread that `finish` joins, and without an active manifest there is none |
| `NoneStranded` | `Spec => []NothingIsStranded` | `Leftovers`: until the hook runs, a rosbag at work or a file without a marker belongs to `cur_bag`, and the node still sees to it, because it is armed or because `_stop` has not ended. A boot scan establishes it anew, but for the bags of `fate` |
| `CameraOff` | `Spec => []CameraIsOff` | `Camera`: the flag goes with the edge, the recording with the call that follows |
| **`PullProofs`** | | |
| `PullTypes` | `Spec => []Types` | inductive by itself |
| `StartsOnRecentSafety` | `Spec => PullStartsOnRecentSafety` | `Bounds`: a first sample that shows safety bounds the danger since by the time polled and the age of a sample |
| `Keeps` | `Spec => KeepsPromise` | `Shows`: an exposure leaves a trace that the guard refuses and that no later sample can mend (`Broken`). As long as a trace is unbroken, the danger is bounded by what lies since its last sample and that sample's age |
| **`AuditProofs`** | | |
| `AuditTypes` | `Spec => []Types` | one lemma per group of phases |
| `Stopped` | `Spec => FailureStopsThePull` | `Gate`: up to the pull, authorized means that nothing has failed and the identity is established |
| `CleanPull` | `Spec => []PassMeansCleanPull` | `Transaction` (what the pull's promise leaves possible at each place), `Gate` and `Directory` (only mavparam's file can lie unlisted, and only behind missing evidence) |
| `OneDeployment` | `Spec => []PassMeansOneDeployment` | brackets, below |
| **`EvidenceProofs`** | | |
| `ParamHolds` | `Spec => []ParamInv` | every numbered message tells of a table the flight controller had; the domains of the tables form a chain |
| `TheirTable` | `Spec => []PassMeansTheirTable` | counting, below |
| `GoodPasses` | `Spec => []GoodPullPasses`, of a pull before which MAVROS kept nothing, and of the modelled gates | `GoodSoFar`: one table, and what MAVROS keeps of it was sent. The converse of the counting, conjunct by conjunct of `Pass` |
| `TimesyncHolds` | `Spec => []TimesyncInv` | `Chained`: in one run of the flight controller's clock, exchanges with the same remote stamp are the same, and neighbours join; `Lossless`: without faults the capture heard them one after another |
| `AcceptedTail` | `Spec => []PassMeansAccepted` | the linkage finds, before each accepted record, the status whose estimate it began with; with `Chained` the two tails are then the same (`SameTails`) |
| `HealthyPasses` | `Spec => []HealthyCapturePasses`, of a capture in which nothing that counts was untimely | `Lossless` makes both captured sequences stretches of one numbering, so the tails' positions can be computed |
| **`ShadowProofs`** | | |
| `ShadowTypes` | `Spec => []Types` | inductive by itself |
| `NoNewFault` | `Spec => []PassMeansNoNewFault` | `Counted`: the counter only grows, so base, mapping and last diagnostic are in the order of what it said, also for the one that waits for the lock |
| `OneProcess` | `Spec => []OneClockProcess` | `Clocks`: each process counts its checks from one, so a process that lost none shows its first check before any other; and a first check after another breaks the sequence |
| `OneSession` | `Spec => []PassMeansOneSession` | `Numbered`: in a session id and sequence of the identity records run in parallel, so records without a gap in sequence have none in id, and the linkage carries that over to the corrections |
| `QuietPasses` | `Spec => []QuietWindowPasses`, of a window whose messages came near each other, and of the modelled gates | `QuietSoFar`: the accumulators of a window without faults, exactly |

**One thread's bag.** The two threads of the recorder share every attribute, and nothing keeps the shutdown hook from
running `_stop` beside the callback. `raced` records for which bag they did. `Sole` says that a bag
without it is in the hands of one thread at most, and `Hands` what that thread may rely on: the
rosbag is held by `self.proc` or by the thread that waits for it, `cur_bag` is the name of the file, and
after the wait there is no writer or one that kill did not end. So what two stops can do to each other
is confined to one bag, although they go on to use the same `proc`, `cur_bag` and
manifest for the next.

**Touchdown.** The detector keeps the hits of one window; a burst speaks of all samples of the descent. `Pruned` relates
them: a hit that was dropped lies more than a window before some sample, stamps never fall
(`Ordered`), so it cannot be in a burst with any later one. Hence a burst that ends in the new sample lies
within what is kept, and what is kept and counts `Confirm` contains a burst (a subset of the
right cardinality). Hits that are too old but not yet dropped, because no hit has come since, are not counted, as the count is taken after pruning.

**The table.** A verdict on the parameters compares counts and numbers: one count C in all numbered messages, the
numbers 0 to C-1 all seen, one message for each number and each name. That makes C names (`NamesCounted`). Each
message tells of a table with C parameters that the flight controller had, and the tables are ordered by inclusion,
because a parameter may come into use but does not leave: those with C parameters have the same names. So the
names of the trace are C of those C: all of them. The values follow name by name, and may be of different tables:
that is what the property says, and no more can be had from this evidence. `GoodPasses` is the converse: a table
numbers its names 0 to C-1, each with a number of its own (`Numbering`).

**The brackets.** `PassMeansOneDeployment` says nothing about the steps on the way and is far from inductive.
`Brackets` adds what holds throughout: versions and pids only grow; nothing is used while the digests
and pids are taken; and what is used later lies *between* what was taken and what is there
now. A recheck that succeeds closes a bracket: taken equals present, so everything in between is
that one version (`RuntimeCloses`, `HelperCloses`). `Closed` keeps what was concluded while
the world moves on. The plugin in the memory of MAVROS needs a case of its own: it may be older than
the disk, but as long as the pid is the one taken it is the one that is mapped now. That the brackets
need a last recheck of the *sources* after the last helper has run, and of the *pid* after the
last sample, is what the order of phases 1925-1940 provides. `SourcesUnchanged` without the
helpers is the mutant that breaks it.

**Only model-checked:** liveness and fairness, which are out of the prover's reach. These are `ErrorTerminates`,
`WarnStreamsLand` and `UnadmittedIsHandedBack` of the response, `VrpnAloneLands`, `ExitReachesFault`,
`LossReachesFault`, `OrderRestoresOk`, `MismatchReachesFault` and `StopReachesFault` of the pipeline, `PullEnds`
and `StoppedIsQueued`. That the operators of the models compute what they are named for over sequences of any length is proved
only where it needs no induction over data: `Touchdown` avoids it because a set replaces the filtered list, `Timesync` and
`Shadow` because their invariants say what each position of a sequence holds.

`ImplementsControlSession` is model-checked too: it speaks of the time before handlers overlap for the first time, which
rospy does not promise to last, so a proof of it would be about a case. What holds beyond that time is
in the theorems about single attributes.

## 5. Where the code disagrees with what is said of it

1. (`ResponseTimerDies`, a counterexample of TLC.) `_publish_state` tests `fault.names` (response.py:309) and
   indexes it (310) while `_on_fault` may replace the message. A fault that clears in between raises
   `IndexError` on the timer thread, which ends it: no further tick, no land, no kill.

Seen while modelling, without a run of their own:

* A touchdown tested under `in_land` (response.py:203) may be latched (204) after the tick has left LAND and
  cleared the latch (235); line 245 then disarms in the NORMAL lane. `OnlyRunningSampleStrays` names this case and
  excludes every other.
* The shutdown hook runs `_stop` while the callback's `_stop` may still wait for rosbag. It finds
  `self.proc` taken (recorder_node.py:212), waits for nothing, renames the `.active` file rosbag
  still writes (245) and marks it ready (264). The properties exempt such a bag, `raced`, and no other.
* The tick latches `killed` (246) before the force-disarm and ignores the result (249); 239 keeps it
  from trying again. One lost call leaves an armed vehicle under ERROR without land setpoint.
* Before the first `/mavros/state` the empty mode counts as OFFBOARD (response.py:210), and a tick
  may command POSCTL (267) to a vehicle whose mode it does not know.
* The orphan scan lists only `*.bag`. A bag that rosbag is still closing when the node comes back,
  or that it left as `.bag.active`, is never queued, although the docstring (recorder_node.py:303-307)
  counts the "SIGINT finalize window" in. These are the bags `NothingIsStranded` exempts.
* `cur_bag` is never cleared: a shutdown after a disarm runs `_stop` on the same bag and marks it
  ready again, also when the host has synced it.
* A session without a bag leaves its manifest active and its capture unjoined (recorder_node.py:265);
  the capture then writes into the next session's document, and may do so after that one was
  offered. `SidecarIsFrozen` names this case.
* A start of the webcam that waits for its service (up to 5 s) may arrive after the stop, and nobody
  stops the camera then.
* State messages beyond a queue of five are dropped while `_stop` blocks (recorder_node.py:106).
* If the rename of a `.active` file fails, the marker is `<base>.bag.ready` (286), not `<base>.ready`. A rosbag that
  survives kill (238) is offered while it may still write, and a marker that cannot be created (287) is only
  logged; the next boot scan tries again if the file is a `.bag`.
* The stop of the camera waits for its answer without a limit (200), before rosbag is stopped.
* With overlapping handlers a reset can hit between the tick's check and its use: `self.normal` is
  `None` at 279 (exception, the timer dies); an admission (261) or a hold (194) written after
  the reset belongs to the ended session. `OnlyRunningTickLeavesAdmission` and `OnlyRunningCallbackLeavesHold` say that
  these are the only ways.
* A stamp taken after the tick's `now` gives a negative age, and the freshest command is taken for
  stale for one tick (172).
* Two termination requests can both pass 125 and both disarm.
* L3 never checks the age of the fault, so the death of L2 leaves its last verdict standing.
* A NaN coordinate is judged INSIDE (geofence.py:72-74). A vehicle outside the box whose VRPN
  then stops drops from ERROR to WARN. A restarted L1 has forgotten that local_position was ever seen.
* The touchdown detector's own latch is reset only by a sample with `in_land` false.
  A stamp that steps back keeps old hits in the window (touchdown.py:57).
* The response table in README.md:86-94 (consistency ERROR lands, approach clamps) describes an
  earlier design; diagnosis.yaml:2-4 and the code agree with each other. The docstring of
  liveness.py:2-4 is as old: it calls consistency neutral on missing input, and the code says WARN (consistency.py:39-50).
* The comment at fcu_audit_receipt.py:1674-1675 says the two safety captures come "immediately before the pull
  authorization decision"; two rechecks of the identity (1710-1735), with commands of their own, lie
  in between. What bounds the age of the safety is the handshake of the transaction instead
  (`PullStartsOnRecentSafety`).
* Before the dump only the *first* sample of each trace is looked at (3173). A vehicle that is armed while
  the third subscriber still connects is pulled from, and the guard says so afterwards.
* The core and `append_only_evidence.py` are hashed from disk (2391) after they were imported. A core
  replaced between import and digest is recorded although another one ran.
* A helper of the pre-pull captures may fail although what it wrote satisfies the guard; the receipt is
  then INCOMPLETE, but the pull goes ahead (`"unheard"` in `PreCapture`).
* The comment in fcu_timesync_trace_capture.py:154 speaks of an "exact paired suffix". The test asks that
  each of the last status samples is *among* the accepted records; one more record may already
  lie behind them, and the report then refuses a healthy capture. `HealthyCapturePasses` names the
  condition (`NotAhead`).
* The preflight keeps the identity of a clock publisher by name (vio_shadow_preflight.py:497), so that a
  restart does not show in it. It shows in the sequence of the measurements, unless a measurement of the new
  process is lost and the first one heard happens to continue the count. `OneClockProcess` names this case.
* The first readiness message is latched, so its `False` is no fault; the preflight hashes its
  sources when it starts (97) and not again at the end.

## 6. Plan

Done: `Response` with `ControlSession`; the pipeline; `Touchdown`; `Recorder` with `Manifest`; `Pull` with
`PullPromise`; `Audit`; `Evidence`; `Shadow`; their theorems. Left, in order of worth:

1. The life of a bag (recording, final, ready, synced) as an abstract specification of `Recorder`, which the
   recorder's invariants then show to be implemented.
2. L2 and L3 composed: the end-to-end response to a lasting condition.
3. `Pull` in the place of `PullPromise` in `Audit`, so that what a PASS says of the vehicle is stated end to end.
4. Rates and gaps of the preflight's streams.

## 7. Assumptions about code outside the repository

rospy runs one thread per subscriber connection, per timer and per service request, and an
exception in a timer callback ends the timer thread; single attribute reads and writes are atomic (CPython).
`diagnostic_updater` collects all statuses of an update and publishes one array. Messages of
one publisher are delivered in order. MAVROS answers a service call or the call raises. The process
that `Popen` starts is the one that writes the bag. The host's watcher replaces `.ready` by `.synced` (recorder_node.py:307),
which to the node is the same (315). A deployment
replaces a file by one with another digest and never by an older one; a restarted process gets another pid; a process
keeps the binary it has mapped, and `/proc/<pid>/maps` shows a replaced file under another name. PX4 numbers the
parameters in use in a fixed order and sends `_HASH_CHECK` without a number; MAVROS publishes every parameter it keeps.

## 8. Not modelled

* `flightrec.py` is a stateless HTTP client. Launch files, configuration manifests and messages are data.
* FCU audit: the contents of the vehicle and estimator reports, of the timesync configuration and of the build
  manifests, the wording of reports and the parameter inventory. Each holds or does not, and both are tried.
* Parameter trace: the order of the stamps and the age of a header at its arrival (695-727), which can only refuse a
  pull. `ReportedExactly` takes the number of parameters reported from the trace, where the code takes it from the
  output of mavparam (683-687).
* Timesync: the values of ages, gaps and delays; `untimely` says which of their limits were broken, and both are tried.
  Round trips and deviations within the limits are a matter of what the filter accepts.
* Preflight: rates, gaps, latencies, freshness, covariances and payload tests of the streams, and the provenance of the
  producer's binaries (`_capture_candidate_provenance`). Gaps and rates relate samples to each other, as do the
  propagation and the arrival link; of these `near` keeps whether the two links held. The rest can only turn a PASS into a FAIL, so
  what a PASS means is not touched, and `QuietWindowPasses` speaks of the modelled gates.
* Runtime manifest: the content of the snapshots.

`docs/flight_safety_architecture.md` is a design draft that differs from the code; the code was followed.
