------------------------- MODULE TimesyncProperties -------------------------
(***************************************************************************)
(* What a PASS of the timesync evidence means, and when it can be had.     *)
(***************************************************************************)
EXTENDS Timesync

StatusTail == Suffix(status, TailSamples)

\* A report that passes shows a tail in which the filter accepted every
\* sample, in one session, without an accepted exchange left out between two
\* of them, although status and accepted sequence reach the collector
\* separately, either may lose messages and the flight controller may restart
\* its clock (fcu_audit_receipt.py, _timesync_acceptance_report).
PassMeansAccepted ==
    ReportPasses =>
        LET tail == StatusTail
        IN  /\ \A i \in DOMAIN tail : tail[i].ok /\ tail[i].converged
            /\ \A i \in 1..(TailSamples - 1) :
                 /\ tail[i].epoch = tail[i + 1].epoch
                 /\ tail[i + 1].before = tail[i].estimate

\* Nothing was lost, rejected or reset since the world began.
Healthy ==
    /\ source.faults = 0 /\ diag.ok
    /\ \A m \in Range(status) \cup Range(accepts) : m.ok /\ m.converged

\* The accepted sequence has not run ahead of the status.
NotAhead == Last(accepts).remote <= Last(status).remote

\* Every sample came in time, and the two messages of each exchange of the
\* tail not too far apart.
Timely ==
    /\ \A u \in untimely : u[1] = "link"
    /\ \A m \in Range(Suffix(accepts, TailSamples)) : <<"link", m.id>> \notin untimely

\* A healthy source passes whenever a capture completes with more samples
\* than the tail in it, the accepted sequence not ahead of the status and
\* every sample within the configured ages, gaps and arrival delays: with
\* which exchange each stream begins does not matter, nor which of the two
\* messages of an exchange comes first, nor how far apart they came before
\* the tail (fcu_audit_receipt.py, the gates of _timesync_report and
\* _timesync_acceptance_report; the limits of round trip and deviation hold
\* of every exchange the filter accepts).
HealthyCapturePasses ==
    capture.pc = "exit 0" /\ Healthy /\ Timely /\ Len(status) > TailSamples /\ NotAhead
      => ReportPasses
=============================================================================
