-------------------------- MODULE ShadowProperties --------------------------
(***************************************************************************)
(* What a PASS of the shadow window means, and when it can be had.         *)
(***************************************************************************)
EXTENDS Shadow

\* A window that passes has seen every correction the estimator published
\* between the first and the last it saw, all of one session without a reset,
\* the session whose mapping was announced, although corrections, identity
\* records and the announcement are delivered apart, and may be lost
\* (vio_shadow.py, IdentityAccumulator and LinkageAccumulator).
PassMeansOneSession ==
    Passes =>
        LET ids == ToSet(seen.corrections)
        IN  /\ \A i, j \in ids : i..j \subseteq ids
            /\ \A i \in DOMAIN seen.identities :
                 /\ seen.identities[i].session = seen.mapping.session
                 /\ seen.identities[i].reset = seen.identities[1].reset

\* In a window that passes the hybrid IMU counted no fault between the first
\* diagnostic of its readiness, the announcement of the mapping and the last
\* diagnostic, whichever diagnostics were lost and in whatever order the
\* callbacks got the lock (HybridImuAccumulator).
PassMeansNoNewFault ==
    Passes /\ hist.sinceMapping # None =>
        hist.sinceMapping = hist.atMapping /\ hist.atMapping = seen.diag.base

\* The clock comparisons of a window that passes were all made by one process,
\* unless one of a later process was lost: a publisher that is restarted begins
\* to count again, and that shows although it is looked up once for its name
\* and never again (vio_shadow_preflight.py, _clock_publisher_runtime_identity).
OneClockProcess ==
    Passes =>
        \A i, j \in DOMAIN hist.clocks :
            i < j /\ hist.clocks[i] # hist.clocks[j] => hist.clocks[j] \in hist.lost

\* Nothing went wrong, and no message is under way as the window closes.
Quiet ==
    /\ world.faults = 0
    /\ wire = [t \in Topics |-> <<>>] /\ held = <<>>

\* No gate on counts, order, sessions, joins or readiness refuses a quiet
\* window that ran its time, saw enough and whose messages came near each other,
\* whatever the order in which the topics were delivered (the gates of
\* IdentityAccumulator, LinkageAccumulator, HybridImuAccumulator and the clock
\* domain that AllPass names; those on rates, gaps, latencies, freshness and
\* payloads may still refuse it).
QuietWindowPasses ==
    window = "duration_complete" /\ Quiet /\ near
        /\ Len(seen.corrections) >= MinSamples /\ Len(seen.domain) >= 2
        /\ seen.diag.n >= 2 /\ seen.diag.before >= MinDiag /\ seen.mapping.stable
      => Passes
=============================================================================
