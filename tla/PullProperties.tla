--------------------------- MODULE PullProperties ---------------------------
(***************************************************************************)
(* What the forced pull owes the audit.                                    *)
(***************************************************************************)
EXTENDS Pull

Stage == CASE pull.pc = "idle" -> "idle"
           [] pull.pc \in {"over", "raised"} -> pull.pc
           [] OTHER -> "open"

Verdict == IF pull.pc # "over" THEN "none"
           ELSE IF dump = "ok" /\ Concurrent /\ DuringGuard THEN "clean" ELSE "unclean"

Promise == INSTANCE PullPromise WITH stage <- Stage, verdict <- Verdict

\* The transaction implements its promise.  In particular, when the dump, the
\* handshakes and the guard over both traces are all good, the vehicle was at
\* no time during the dump unsafe for longer than two samples that show
\* safety can hide (_phase_guard, stamps_ok).
KeepsPromise == Promise!PromiseSpec

\* A vehicle that has been unsafe since before the subscribers were started,
\* or for longer than the deadline of the handshake and the age of a sample,
\* is never pulled from, although the collector looks at the first sample of
\* each trace only and at no later one.
PullStartsOnRecentSafety ==
    [][dump # "running" /\ dump' = "running" =>
         \A s \in Streams : run[s] <= Startup + Age]_vars

\* Subscribers that never connect, send nothing or die do not keep the
\* transaction from ending, and an ended transaction leaves none behind.
PullEnds == (pull.pc = "polling") ~> (\A k \in Traces : ~Alive(k))
=============================================================================
