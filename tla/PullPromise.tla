---------------------------- MODULE PullPromise -----------------------------
(***************************************************************************)
(* What collect (fcu_audit_receipt.py) relies on when it calls the pull    *)
(* transaction: mavparam is run at most once, and a clean verdict is given *)
(* only when it succeeded and the vehicle was not unsafe for long while it *)
(* ran.  Module Pull keeps this promise; module Audit is built on it.      *)
(***************************************************************************)
VARIABLES
    stage,    \* "idle", "open", "over", "raised"
    dump,     \* "none", "skipped", "running", "ok", "failed"
    exposed,  \* was the vehicle unsafe for too long while mavparam ran
    verdict   \* "none", "clean", "unclean"

promiseVars == <<stage, dump, exposed, verdict>>

PromiseInit == stage = "idle" /\ dump = "none" /\ exposed = FALSE /\ verdict = "none"

Begin ==
    /\ stage = "idle" /\ stage' = "open"
    /\ UNCHANGED <<dump, exposed, verdict>>

RunOrSkip ==
    /\ stage = "open" /\ dump = "none"
    /\ dump' \in {"running", "skipped"}
    /\ UNCHANGED <<stage, exposed, verdict>>

Expose ==
    /\ stage = "open" /\ dump = "running" /\ exposed' = TRUE
    /\ UNCHANGED <<stage, dump, verdict>>

EndDump ==
    /\ stage = "open" /\ dump = "running" /\ dump' \in {"ok", "failed"}
    /\ UNCHANGED <<stage, exposed, verdict>>

Return ==
    /\ stage = "open" /\ dump \notin {"none", "running"}
    /\ stage' = "over"
    /\ verdict' \in IF dump = "ok" /\ ~exposed THEN {"clean", "unclean"} ELSE {"unclean"}
    /\ UNCHANGED <<dump, exposed>>

RaiseInPull ==
    /\ stage = "open" /\ stage' = "raised"
    /\ UNCHANGED <<dump, exposed, verdict>>

PromiseNext == Begin \/ RunOrSkip \/ Expose \/ EndDump \/ Return \/ RaiseInPull
PromiseSpec == PromiseInit /\ [][PromiseNext]_promiseVars
=============================================================================
