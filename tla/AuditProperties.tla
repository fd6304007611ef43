-------------------------- MODULE AuditProperties ---------------------------
(***************************************************************************)
(* What a receipt is worth.                                                *)
(***************************************************************************)
EXTENDS Audit

Passed == audit.status = "PASS"

\* A receipt that says PASS describes one deployment and one process.  Every
\* trace helper, mavparam and the plugin the MAVROS process had mapped when it
\* served the pull were of the versions in the receipt, those versions belong
\* together, and the process the evidence came from is the one it names,
\* although the digests are taken one by one, the helpers are hashed and then
\* run, and parts are replaced and nodes restarted at any moment
\* (fcu_audit_receipt.py, _source_identity_unchanged,
\* _runtime_identity_unchanged).
PassMeansOneDeployment ==
    Passed =>
        /\ used.helper \subseteq {known.version["helper"]}
        /\ used.runtime \subseteq {known.version["runtime"]}
        /\ used.pid \subseteq {known.pid["mavros"]}
        /\ \A p, q \in Parts \ {"bundle"} : known.version[p] = known.version[q]

\* A receipt that says PASS comes from a pull that was run, succeeded and was
\* not run while the vehicle was unsafe, and lists every file that lies in its
\* directory (collect, AppendOnlyRun.finalize).
PassMeansCleanPull ==
    Passed =>
        /\ dump = "ok" /\ ~exposed /\ used.runtime # {}
        /\ store.disk = store.listed

\* mavparam is not run when a phase before it has failed
\* (collect, pull_authorized).
FailureStopsThePull ==
    [][stage = "idle" /\ stage' = "open" => ~audit.failures /\ known.ok]_vars
=============================================================================
