-------------------------------- MODULE Pull --------------------------------
(***************************************************************************)
(* The forced parameter pull of the FCU audit                              *)
(* (fcu_audit_receipt.py, _default_pull_transaction and what _phase_guard  *)
(* makes of its two safety traces; fcu_trace_capture.py, the subscriber    *)
(* each trace is written by).  Three subscriber processes are started, the *)
(* collector polls their output until each is ready, runs mavparam, waits  *)
(* for a tail and stops them.                                              *)
(*                                                                         *)
(* Time is counted in ticks.  A sample carries what held when its header   *)
(* was stamped, up to Age + 1 ticks before it arrived.  A trace is kept    *)
(* as what the guard asks of it, not as the list of its samples.           *)
(***************************************************************************)
EXTENDS Integers, FiniteSetsExt

CONSTANTS
    Streams,      \* the traces that show whether the vehicle is safe
    Param,        \* the trace of the raw parameter messages
    Startup,      \* trace_startup_s
    PullTimeout,  \* param_timeout_s
    TailTicks,    \* trace_tail_s
    Gap,          \* state_guard.max_gap_s
    Age,          \* state_guard.max_age_s
    MinSamples,   \* state_guard.during_min_samples
    MaxFlips      \* bound: how often the vehicle becomes unsafe or safe

ASSUME PullConstants ==
    /\ Param \notin Streams
    /\ {Startup, PullTimeout, TailTicks, Gap, Age, MinSamples, MaxFlips} \subseteq Nat
    /\ Gap > 0 /\ MinSamples > 0

Traces == Streams \cup {Param}

VARIABLES
    pull,     \* the collector: place, ticks spent there, length of the dump
    proc,     \* the life of each subscriber process
    ready,    \* ready_keys
    trail,    \* what the trace of a stream shows so far
    dump,     \* mavparam
    alive,    \* alive_until_stop
    danger,   \* is the vehicle unsafe, as the stream would report it
    past,     \* the same at the last ticks, latest first
    run,      \* for how many ticks without interruption (history)
    exposed,  \* for too long while mavparam ran (history)
    flips     \* how often it has changed

pullVars == <<pull, proc, ready, trail, dump, alive>>
vehicleVars == <<danger, past, run, exposed, flips>>
vars == <<pullVars, vehicleVars>>

\* The longest interval of danger two samples that show safety can enclose:
\* they arrive at most Gap apart, the second as much as Age late.
Blind == Gap + Age

\* One more than every bound a property states on an interval of danger.
RunCap == Max({Startup, Gap}) + Age + 1

NoTrail == [n |-> 0, first |-> FALSE, good |-> TRUE, covers |-> {},
            since |-> 0, lag |-> 0]

Alive(k) == proc[k] \in {"starting", "ready"}

\* The guard asks for one sample per Gap of the dump and two more
\* (_phase_guard, required_samples); a trail counts no further than that.
Required(span) == Max({MinSamples, (span + Gap - 1) \div Gap + 2})

-----------------------------------------------------------------------------
(* The vehicle, external, and the clock.                                   *)

VehicleInit ==
    /\ danger \in [Streams -> BOOLEAN]
    /\ past = [s \in Streams |-> [i \in 0..Age |-> danger[s]]]
    /\ run = [s \in Streams |-> IF danger[s] THEN RunCap ELSE 0]
    /\ exposed = FALSE
    /\ flips = 0

\* The vehicle is armed or disarmed, leaves the ground or lands.
Flip(s) ==
    /\ flips < MaxFlips
    /\ flips' = flips + 1
    /\ danger' = [danger EXCEPT ![s] = ~@]
    /\ run' = [run EXCEPT ![s] = 0]
    /\ UNCHANGED <<past, exposed>>

VehicleTick ==
    /\ past' = [s \in Streams |->
                  [i \in 0..Age |-> IF i = 0 THEN danger[s] ELSE past[s][i - 1]]]
    /\ run' = [s \in Streams |-> IF danger[s] THEN Min({run[s] + 1, RunCap}) ELSE 0]
    /\ exposed' = (exposed \/ (dump = "running" /\ \E s \in Streams : run'[s] > Blind))
    /\ UNCHANGED <<danger, flips>>

\* How many ticks the collector may stay at a place that waits for time.
Patience == [polling |-> Startup, dumping |-> PullTimeout, tail |-> TailTicks, stopping |-> 1]

\* Which ends of the dump an arrival at this place covers.
Phases(pc) == IF pc \in {"tail", "stopping"} THEN {"end"} ELSE {}

SinceCap == Max({Gap, Age}) + 1

Tick ==
    /\ pull.pc \in DOMAIN Patience /\ pull.timer < Patience[pull.pc]
    /\ pull' = [pull EXCEPT !.timer = @ + 1]
    /\ trail' = [s \in Streams |-> [trail[s] EXCEPT !.since = IF trail[s].good /\ trail[s].n > 0
                                          THEN Min({@ + 1, SinceCap}) ELSE 0]]
    /\ VehicleTick
    /\ UNCHANGED <<proc, ready, dump, alive>>

-----------------------------------------------------------------------------
(* The subscriber processes (fcu_trace_capture.py).                        *)

PullInit ==
    /\ pull = [pc |-> "idle", timer |-> 0, span |-> 0]
    /\ proc = [k \in Traces |-> "none"]
    /\ ready = {}
    /\ trail = [s \in Streams |-> NoTrail]
    /\ dump = "none"
    /\ alive = {}

\* main: a publisher is connected, the ready record is written and from then
\* on callback writes what arrives.
SubscriberConnects(k) ==
    /\ proc[k] = "starting"
    /\ proc' = [proc EXCEPT ![k] = "ready"]
    /\ UNCHANGED <<pull, ready, trail, dump, alive>>

\* The connection times out, or the process ends for any other reason.
SubscriberDies(k) ==
    /\ Alive(k)
    /\ proc' = [proc EXCEPT ![k] = "dead"]
    /\ UNCHANGED <<pull, ready, trail, dump, alive>>

\* Mutant of Extended: the gaps between the arrivals are not judged.
SlipExtended(t, isSafe, lag) ==
    LET good == t.good /\ isSafe /\ lag <= Age
    IN  [n      |-> IF good THEN Min({t.n + 1, Required(PullTimeout)}) ELSE 1,
         first  |-> IF t.n = 0 THEN isSafe /\ lag <= Age ELSE t.first,
         good   |-> good,
         covers |-> IF good THEN t.covers \cup Phases(pull.pc) ELSE {},
         since  |-> 0,
         lag    |-> IF good THEN lag ELSE 0]

\* What a sample that was stamped `lag` ticks ago adds to a trace: the guard
\* (_phase_guard, stamps_ok) asks for gaps of at most Gap between arrivals,
\* for headers in order and none older than Age, and that every sample shows
\* a safe vehicle.  A trace that breaks this once is lost, whatever follows.
Extended(t, isSafe, lag) ==
    LET good == /\ t.good /\ isSafe /\ lag <= Age
                /\ t.n > 0 => t.since <= Gap /\ lag <= t.since + t.lag
    IN  [n      |-> IF good THEN Min({t.n + 1, Required(PullTimeout)}) ELSE 1,
         first  |-> IF t.n = 0 THEN isSafe /\ lag <= Age ELSE t.first,
         good   |-> good,
         covers |-> IF good THEN t.covers \cup Phases(pull.pc) ELSE {},
         since  |-> 0,
         lag    |-> IF good THEN lag ELSE 0]

\* callback: connected, disarmed, on the ground as of the header's time.
SampleArrives(s, lag) ==
    /\ proc[s] = "ready"
    /\ LET isSafe == IF lag = 0 THEN ~danger[s] ELSE lag <= Age /\ ~past[s][lag]
       IN  trail' = [trail EXCEPT ![s] = Extended(@, isSafe, lag)]
    /\ UNCHANGED <<pull, proc, ready, dump, alive>>

Subscribers ==
    /\ \/ \E k \in Traces : SubscriberConnects(k) \/ SubscriberDies(k)
       \/ \E s \in Streams, lag \in 0..(Age + 1) : SampleArrives(s, lag)
    /\ UNCHANGED vehicleVars

-----------------------------------------------------------------------------
(* The collector (_default_pull_transaction).                              *)

Goto(pc) == [pull EXCEPT !.pc = pc, !.timer = 0]

\* Popen of the three subscribers; any of them may fail to start.
Spawn ==
    /\ pull.pc = "idle"
    /\ \E failed \in SUBSET Traces :
         proc' = [k \in Traces |-> IF k \in failed THEN "dead" ELSE "starting"]
    /\ pull' = Goto("polling")
    /\ UNCHANGED <<ready, trail, dump, alive>>

\* One look at the output of a subscriber that still runs.  A key once in
\* ready_keys stays there.
Look(k) ==
    /\ pull.pc = "polling" /\ k \notin ready
    /\ proc[k] = "ready"
    /\ k \in Streams => trail[k].n > 0
    /\ ready' = ready \cup {k}
    /\ UNCHANGED <<pull, proc, trail, dump, alive>>

\* Mutant of SafetySampleReady: any first sample will do.
SlipSafetySampleReady == Streams \subseteq ready

\* The first sample of each safety trace; the later ones are not consulted.
SafetySampleReady == \A s \in Streams : s \in ready /\ trail[s].first

TraceReady == ready = Traces /\ SafetySampleReady /\ \A k \in Traces : Alive(k)

\* Mutant of DumpStarts: without the deadline.
SlipDumpStarts ==
    /\ pull.pc = "polling" /\ ready = Traces
    /\ dump' = IF TraceReady THEN "running" ELSE "skipped"
    /\ trail' = [s \in Streams |->
                   [trail[s] EXCEPT !.covers = IF trail[s].n > 0 /\ trail[s].good
                                               THEN {"start"} ELSE {}]]
    /\ pull' = Goto(IF TraceReady THEN "dumping" ELSE "tail")
    /\ UNCHANGED <<proc, ready, alive>>

\* All ready or the deadline has passed: mavparam is run or skipped.
DumpStarts ==
    /\ pull.pc = "polling"
    /\ ready = Traces \/ pull.timer = Startup
    /\ dump' = IF TraceReady THEN "running" ELSE "skipped"
    /\ trail' = [s \in Streams |->
                   [trail[s] EXCEPT !.covers = IF trail[s].n > 0 /\ trail[s].good
                                               THEN {"start"} ELSE {}]]
    /\ pull' = Goto(IF TraceReady THEN "dumping" ELSE "tail")
    /\ UNCHANGED <<proc, ready, alive>>

\* mavparam ends; when the timeout is reached it is killed.
DumpEnds ==
    /\ pull.pc = "dumping"
    /\ dump' \in IF pull.timer = PullTimeout THEN {"failed"} ELSE {"ok", "failed"}
    /\ pull' = [Goto("tail") EXCEPT !.span = pull.timer]
    /\ UNCHANGED <<proc, ready, trail, alive>>

\* The tail has been slept through; who still runs is terminated.
Stop ==
    /\ pull.pc = "tail" /\ pull.timer = TailTicks
    /\ alive' = {k \in Traces : Alive(k)}
    /\ pull' = Goto("stopping")
    /\ UNCHANGED <<proc, ready, trail, dump>>

\* Waited for, killed if need be, and their output read.
Reap ==
    /\ pull.pc = "stopping"
    /\ proc' = [k \in Traces |-> IF Alive(k) THEN "stopped" ELSE proc[k]]
    /\ pull' = Goto("over")
    /\ UNCHANGED <<ready, trail, dump, alive>>

\* An exception inside the transaction: the finally clause stops the
\* subscribers all the same.
Unwind ==
    /\ pull.pc \in {"polling", "dumping", "tail", "stopping"}
    /\ proc' = [k \in Traces |-> IF Alive(k) THEN "stopped" ELSE proc[k]]
    /\ pull' = Goto("raised")
    /\ UNCHANGED <<ready, trail, dump, alive>>

-----------------------------------------------------------------------------
(* What the collector makes of it.                                         *)

\* results["concurrent"]
Concurrent == ready = Traces /\ SafetySampleReady /\ alive = Traces

\* _phase_guard over one trace with the span of the dump: enough samples,
\* continuous, fresh at the end, before the start and beyond the end of the
\* dump, and every one of them safe.
StreamGuard(t) ==
    /\ t.n >= Required(pull.span)
    /\ t.good
    /\ t.since <= Age
    /\ t.covers = {"start", "end"}

DuringGuard == \A s \in Streams : StreamGuard(trail[s])
-----------------------------------------------------------------------------
\* Before the transaction begins the vehicle may be as it likes (VehicleInit),
\* and after it nothing looks any more.
Vehicle == pull.pc \in DOMAIN Patience /\ (\E s \in Streams : Flip(s)) /\ UNCHANGED pullVars

Transaction ==
    /\ \/ Spawn \/ \E k \in Traces : Look(k)
       \/ DumpStarts \/ DumpEnds \/ Stop \/ Reap \/ Unwind
    /\ UNCHANGED vehicleVars

Init == PullInit /\ VehicleInit
Next == Transaction \/ Subscribers \/ Tick \/ Vehicle

\* Every wait of the transaction is bounded: by its deadline, by the timeout
\* of mavparam, by the tail and by the kill of what does not end.
Fairness ==
    /\ WF_vars(Tick)
    /\ WF_vars((DumpStarts \/ DumpEnds \/ Stop \/ Reap) /\ UNCHANGED vehicleVars)

Spec == Init /\ [][Next]_vars
FairSpec == Spec /\ Fairness
=============================================================================
