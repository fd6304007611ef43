------------------------------- MODULE Shadow -------------------------------
(***************************************************************************)
(* The VIO shadow preflight (vio_shadow_preflight.py) with the             *)
(* accumulators it judges its window by (vio_shadow.py).  The node only    *)
(* listens: callbacks append to the accumulators under a lock until finish *)
(* takes the same lock, whether the duration is over or ROS shuts down.    *)
(*                                                                         *)
(* Around it, external: the estimator, which publishes every correction    *)
(* with an identity record, announces the mapping of its session and       *)
(* resets or begins a new session; the hybrid IMU with its readiness and   *)
(* its fault counter; the process that compares the clocks.  Topics are    *)
(* delivered independently and may lose a message.                         *)
(*                                                                         *)
(* An accumulator is kept as what its summary asks of it.  There is no     *)
(* clock: `near` stands for the distances the linkage bounds.  Rates,      *)
(* gaps, latencies, freshness, payloads, covariances and the sources       *)
(* hashed once at the start are left out: a window that passes here may    *)
(* still fail.                                                             *)
(***************************************************************************)
EXTENDS Integers, Sequences, SequencesExt

CONSTANTS
    MinSamples,      \* identity.min_samples
    MinDiag,         \* ready_diagnostic_samples_before_mapping
    MaxCorrections,  \* bounds of the world
    MaxClockChecks,
    MaxFaults

ASSUME ShadowConstants ==
    {MinSamples, MinDiag, MaxCorrections, MaxClockChecks, MaxFaults} \subseteq Nat \ {0}

VARIABLES
    world,   \* the publishers
    wire,    \* published and not delivered, per topic
    held,    \* the diagnostic whose arrival is noted and that waits for the lock
    seen,    \* the accumulators
    near,    \* each correction came with a propagated header near its own, and
             \* its identity record arrived near it
    cache,   \* clock_publisher_runtime_cache
    window,  \* "open" or the reason of finish
    hist     \* what became of the publishers meanwhile, which processes made
             \* the clock checks seen and which lost one (history)

vars == <<world, wire, held, seen, near, cache, window, hist>>

Topics == {"correction", "identity", "ready", "mapping", "domain"}
None == -1

-----------------------------------------------------------------------------
(* The publishers.                                                         *)

Init ==
    /\ world = [session |-> 0, reset |-> 0, sequence |-> 0, id |-> 0, announced |-> None,
                ready |-> FALSE, count |-> 0, pid |-> 0, check |-> 0, faults |-> 0]
    /\ \E first \in {<<>>, <<FALSE>>} :
         wire = [t \in Topics |-> IF t = "ready" THEN first ELSE <<>>]
    /\ held = <<>>
    /\ seen = [corrections |-> <<>>, identities |-> <<>>,
               ready |-> [first |-> FALSE, dropped |-> FALSE, last |-> FALSE, stable |-> FALSE],
               diag |-> [n |-> 0, before |-> 0, base |-> 0, clean |-> TRUE],
               mapping |-> [session |-> None, stable |-> FALSE],
               domain |-> <<>>]
    /\ near = TRUE /\ cache = None
    /\ window = "open"
    /\ hist = [atMapping |-> None, sinceMapping |-> None, clocks |-> <<>>, lost |-> {}]

\* Nothing listens once the window is closed, and nothing more need happen.
Open == window = "open"

Publish(t, m) == wire' = [wire EXCEPT ![t] = Append(@, m)]
Outside == UNCHANGED <<held, seen, near, cache, window, hist>>

\* A correction and the identity record that belongs to it.
Corrects ==
    /\ Open /\ world.id < MaxCorrections
    /\ world' = [world EXCEPT !.id = @ + 1, !.sequence = @ + 1]
    /\ wire["correction"] = <<>> /\ wire["identity"] = <<>>
    /\ wire' = [wire EXCEPT
         !["correction"] = Append(@, world'.id),
         !["identity"] = Append(@, [id |-> world'.id, session |-> world.session,
                                    reset |-> world.reset, sequence |-> world'.sequence])]
    /\ Outside

\* The mapping of a session is announced once, when the hybrid IMU is ready.
Announces ==
    /\ Open /\ world.announced # world.session /\ wire["mapping"] = <<>>
    /\ world' = [world EXCEPT !.announced = world.session]
    /\ Publish("mapping", world.session)
    /\ Outside

SaysReady(ready) ==
    /\ Open /\ wire["ready"] = <<>>
    /\ world.ready # ready
    /\ ready \/ world.faults < MaxFaults
    /\ world' = [world EXCEPT !.ready = ready, !.faults = IF ready THEN @ ELSE @ + 1]
    /\ Publish("ready", ready)
    /\ Outside

\* The clocks are compared: a measurement in the session as it is.
Compares ==
    /\ Open /\ wire["domain"] = <<>> /\ Len(seen.domain) < MaxClockChecks
    /\ world' = [world EXCEPT !.check = @ + 1]
    /\ Publish("domain", [session |-> world.session, reset |-> world.reset,
                          sequence |-> world'.check, pid |-> world.pid])
    /\ Outside

\* The estimator resets or begins a new session, the hybrid IMU counts a
\* fault, the clock publisher is restarted under its name.
Faults ==
    /\ Open /\ world.faults < MaxFaults
    /\ \/ world' = [world EXCEPT !.faults = @ + 1, !.reset = @ + 1]
       \/ world' = [world EXCEPT !.faults = @ + 1, !.session = @ + 1, !.reset = 0, !.sequence = 0]
       \/ world' = [world EXCEPT !.faults = @ + 1, !.count = @ + 1]
       \/ world' = [world EXCEPT !.faults = @ + 1, !.pid = @ + 1, !.check = 0]
    /\ UNCHANGED wire /\ Outside

\* A message is lost, or was published before the subscriber was connected.
Loses(t) ==
    /\ Open /\ wire[t] # <<>> /\ world.faults < MaxFaults
    /\ wire' = [wire EXCEPT ![t] = Tail(@)]
    /\ world' = [world EXCEPT !.faults = @ + 1]
    /\ hist' = IF t = "domain" THEN [hist EXCEPT !.lost = @ \cup {Head(wire[t]).pid}] ELSE hist
    /\ UNCHANGED <<held, seen, near, cache, window>>

-----------------------------------------------------------------------------
(* The callbacks.                                                          *)

\* Under the lock, and not after finish.
Deliver(t) == Open /\ wire[t] # <<>> /\ wire' = [wire EXCEPT ![t] = Tail(@)]
Message(t) == Head(wire[t])

\* The stamps and arrivals the linkage is judged by may be too far apart.
MayDrift == near' = near \/ (near' = FALSE /\ world.faults < MaxFaults)

\* _stream_callback: LinkageAccumulator.observe_stream.
StreamCallback ==
    /\ Deliver("correction")
    /\ seen' = [seen EXCEPT !.corrections = Append(@, Message("correction"))]
    /\ MayDrift
    /\ UNCHANGED <<world, held, cache, window, hist>>

\* _identity_callback: IdentityAccumulator.observe_join.
IdentityCallback ==
    /\ Deliver("identity")
    /\ seen' = [seen EXCEPT !.identities = Append(@, Message("identity"))]
    /\ MayDrift
    /\ UNCHANGED <<world, held, cache, window, hist>>

\* Mutant of ReadyCallback: a false before the first true is held against it.
SlipReadyCallback ==
    /\ Deliver("ready")
    /\ LET ready == Message("ready")
       IN  seen' = [seen EXCEPT !.ready =
             [first |-> @.first \/ ready, dropped |-> @.dropped \/ ~ready,
              last |-> ready, stable |-> @.stable]]
    /\ UNCHANGED <<world, held, near, cache, window, hist>>

\* _hybrid_ready_callback: the first true latches; a false after it stays
\* known.  Time makes the readiness stable.
ReadyCallback ==
    /\ Deliver("ready")
    /\ LET ready == Message("ready")
       IN  seen' = [seen EXCEPT !.ready =
             [first |-> @.first \/ ready,
              dropped |-> @.dropped \/ (@.first /\ ~ready),
              last |-> ready, stable |-> @.stable]]
    /\ UNCHANGED <<world, held, near, cache, window, hist>>

ReadyIsStable ==
    /\ Open /\ seen.ready.first /\ ~seen.ready.stable
    /\ seen' = [seen EXCEPT !.ready.stable = TRUE]
    /\ UNCHANGED <<world, wire, held, near, cache, window, hist>>

\* The hybrid IMU publishes a diagnostic, and _hybrid_diagnostic_callback notes
\* its arrival before it takes the lock: a record counts as one after ready, or
\* before the mapping, by its arrival and not by when it is recorded.
DiagnosticArrives ==
    /\ Open /\ held = <<>>
    /\ held' = <<[ready |-> world.ready, count |-> world.count,
                  afterReady |-> seen.ready.first,
                  beforeMapping |-> seen.mapping.session = None]>>
    /\ UNCHANGED <<world, wire, seen, near, cache, window, hist>>

DiagCap == MinDiag + 1

\* Mutant of DiagnosticRecorded: the counter must not fall, and may rise.
SlipDiagnosticRecorded ==
    /\ Open /\ held # <<>> /\ held' = <<>>
    /\ LET d == Head(held)
           base == IF seen.diag.n = 0 THEN d.count ELSE seen.diag.base
       IN  IF d.afterReady
           THEN /\ seen' = [seen EXCEPT !.diag =
                     [n      |-> IF @.n < DiagCap THEN @.n + 1 ELSE @.n,
                      before |-> IF d.beforeMapping /\ @.before < MinDiag
                                 THEN @.before + 1 ELSE @.before,
                      base   |-> base,
                      clean  |-> @.clean /\ d.ready /\ d.count >= base]]
                /\ hist' = [hist EXCEPT !.sinceMapping = IF d.beforeMapping THEN None ELSE d.count]
           ELSE UNCHANGED <<seen, hist>>
    /\ UNCHANGED <<world, wire, near, cache, window>>

\* The summary counts the records and compares each with the first.
DiagnosticRecorded ==
    /\ Open /\ held # <<>> /\ held' = <<>>
    /\ LET d == Head(held)
           base == IF seen.diag.n = 0 THEN d.count ELSE seen.diag.base
       IN  IF d.afterReady
           THEN /\ seen' = [seen EXCEPT !.diag =
                     [n      |-> IF @.n < DiagCap THEN @.n + 1 ELSE @.n,
                      before |-> IF d.beforeMapping /\ @.before < MinDiag
                                 THEN @.before + 1 ELSE @.before,
                      base   |-> base,
                      clean  |-> @.clean /\ d.ready /\ d.count = base]]
                /\ hist' = [hist EXCEPT !.sinceMapping = IF d.beforeMapping THEN None ELSE d.count]
           ELSE UNCHANGED <<seen, hist>>
    /\ UNCHANGED <<world, wire, near, cache, window>>

\* _mapping_start_callback: the first one is judged.
MappingCallback ==
    /\ Deliver("mapping")
    /\ IF seen.mapping.session = None
       THEN /\ seen' = [seen EXCEPT !.mapping = [session |-> Message("mapping"),
                                                 stable |-> seen.ready.stable]]
            /\ hist' = [hist EXCEPT !.atMapping = world.count]
       ELSE UNCHANGED <<seen, hist>>
    /\ UNCHANGED <<world, held, near, cache, window>>

\* _timesync_domain_callback asks the master who the publisher is, once for
\* every name (_clock_publisher_runtime_identity).
DomainCallback ==
    /\ Deliver("domain")
    /\ cache' = IF cache = None THEN world.pid ELSE cache
    /\ LET d == Message("domain")
       IN  /\ seen' = [seen EXCEPT !.domain =
                Append(@, [session |-> d.session, reset |-> d.reset,
                           sequence |-> d.sequence, runtime |-> cache'])]
           /\ hist' = [hist EXCEPT !.clocks = Append(@, d.pid)]
    /\ UNCHANGED <<world, held, near, window>>

-----------------------------------------------------------------------------
(* The summaries.                                                          *)

Same(f(_), s) == \A i, j \in DOMAIN s : f(s[i]) = f(s[j])
Contiguous(s) == \A i \in 1..(Len(s) - 1) : s[i + 1].sequence = s[i].sequence + 1

Session(r) == r.session
Reset(r) == r.reset
Runtime(r) == r.runtime

\* IdentityAccumulator: enough records, one session, no reset, none missing.
IdentityGate ==
    LET s == seen.identities
    IN  Len(s) >= MinSamples /\ Same(Session, s) /\ Same(Reset, s) /\ Contiguous(s)

\* Mutant of LinkageGate: that no identity record is left over is not asked for.
SlipLinkageGate ==
    ToSet(seen.corrections) \subseteq {seen.identities[i].id : i \in DOMAIN seen.identities}

\* LinkageAccumulator: one identity record for each correction and none left,
\* and everything that belongs together near enough.
LinkageGate ==
    LET stamps == [i \in DOMAIN seen.identities |-> seen.identities[i].id]
    IN  /\ Len(seen.corrections) = Len(seen.identities)
        /\ IsInjective(seen.corrections) /\ IsInjective(stamps)
        /\ ToSet(seen.corrections) = ToSet(stamps)
        /\ near

\* HybridImuAccumulator: ready once and for all, and from the first
\* diagnostic after it no fault.
ReadyGate == seen.ready.first /\ ~seen.ready.dropped /\ seen.ready.last
DiagnosticGate == seen.diag.n >= 2 /\ seen.diag.clean

\* The mapping began when the readiness was stable and shown by enough
\* diagnostics, in the session of the identity records.
MappingGate ==
    /\ seen.mapping.session # None /\ seen.mapping.stable
    /\ seen.diag.before >= MinDiag
    /\ \A i \in DOMAIN seen.identities : seen.identities[i].session = seen.mapping.session

\* Mutant of DomainGate: the measurements may have gaps.
SlipDomainGate ==
    /\ Len(seen.domain) >= 2
    /\ Same(Runtime, seen.domain)
    /\ \A i \in DOMAIN seen.domain, j \in DOMAIN seen.identities :
         /\ seen.domain[i].session = seen.identities[j].session
         /\ seen.domain[i].reset = seen.identities[j].reset

\* The clock domain: one process, measurements without a gap, in the session
\* and reset of the identity records.
DomainGate ==
    /\ Len(seen.domain) >= 2
    /\ Same(Runtime, seen.domain) /\ Contiguous(seen.domain)
    /\ \A i \in DOMAIN seen.domain, j \in DOMAIN seen.identities :
         /\ seen.domain[i].session = seen.identities[j].session
         /\ seen.domain[i].reset = seen.identities[j].reset

AllPass ==
    IdentityGate /\ LinkageGate /\ ReadyGate /\ DiagnosticGate /\ MappingGate /\ DomainGate

\* finish, under the lock, by spin or by the shutdown hook: the first reason
\* counts, and afterwards nothing is recorded.
Finish(reason) ==
    /\ Open
    /\ window' = reason
    /\ UNCHANGED <<world, wire, held, seen, near, cache, hist>>

\* The status of the receipt, as far as the model goes: what it leaves out of
\* the contract can still turn a PASS into a FAIL.
Passes == window = "duration_complete" /\ AllPass

-----------------------------------------------------------------------------
Publishers ==
    \/ Corrects \/ Announces \/ Compares \/ Faults
    \/ \E ready \in BOOLEAN : SaysReady(ready)
    \/ \E t \in Topics : Loses(t)

Callbacks ==
    \/ StreamCallback \/ IdentityCallback \/ ReadyCallback \/ MappingCallback
    \/ DiagnosticArrives \/ DiagnosticRecorded \/ DomainCallback

Next ==
    \/ Publishers \/ Callbacks \/ ReadyIsStable
    \/ \E reason \in {"duration_complete", "ros_shutdown"} : Finish(reason)

Spec == Init /\ [][Next]_vars
=============================================================================
