------------------------------- MODULE Audit --------------------------------
(***************************************************************************)
(* FcuAuditCollector.collect (fcu_audit_receipt.py) with the run directory *)
(* it writes (append_only_evidence.py): the phases in their order, each    *)
(* ending well, in a failure or in missing evidence, around the forced     *)
(* pull, of which collect knows what module PullPromise promises.          *)
(*                                                                         *)
(* Meanwhile the world goes on.  A part of the deployment is its version,  *)
(* a process its pid and the version of the binary it has mapped; replacing*)
(* a part always makes a new version and a restart a new pid.  Whether a   *)
(* command answers, and whether what it answers is well formed, is left    *)
(* open.                                                                   *)
(***************************************************************************)
EXTENDS PullPromise, Integers

CONSTANTS
    MaxVersion,  \* bound: how often each part is replaced
    MaxPid       \* bound: how often each node is restarted

ASSUME AuditConstants == {MaxVersion, MaxPid} \subseteq Nat

\* "core": the collector and its entry point; "helper": the trace helpers;
\* "runtime": MAVROS, mavparam and the publisher of the accepted sequence;
\* "bundle": the manifest that binds the other three.
Parts == {"core", "helper", "runtime", "bundle"}
Nodes == {"mavros", "acceptance"}

VARIABLES
    audit,   \* place of collect and what it has found so far
    known,   \* identity_report: digests and pids as they were taken
    store,   \* AppendOnlyRun: what lies in the directory, what is listed
    world,   \* versions on disk, pids, what each process has mapped
    used     \* what the evidence really came from (history)

auditVars == <<audit, known, store, used>>
vars == <<auditVars, world, promiseVars>>

None == -1

-----------------------------------------------------------------------------
(* The world, external.                                                    *)

Over == audit.pc \in {"done", "aborted"}

Deploy(part) ==
    /\ ~Over /\ world.version[part] < MaxVersion
    /\ world' = [world EXCEPT !.version[part] = @ + 1]
    /\ UNCHANGED <<auditVars, promiseVars>>

Restart(n) ==
    /\ ~Over /\ world.pid[n] < MaxPid
    /\ world' = [world EXCEPT !.pid[n] = @ + 1, !.mapped[n] = world.version["runtime"]]
    /\ UNCHANGED <<auditVars, promiseVars>>

-----------------------------------------------------------------------------
(* The run directory (append_only_evidence.py).                            *)

\* write_bytes: a file created exclusively and its record.
Written(files) == [store EXCEPT !.disk = @ \cup files, !.listed = @ \cup files]

\* Mutant of Adopted: the file is used where it lies.
SlipAdopted(files) == store

\* adopt_existing: the record of a regular file that a command has left.
Adopted(files) == [store EXCEPT !.listed = @ \cup files]

-----------------------------------------------------------------------------
AuditInit ==
    /\ audit = [pc |-> "open", failures |-> FALSE, incomplete |-> FALSE, status |-> "none",
                authorized |-> TRUE, cleared |-> "no"]
    /\ known = [ok |-> TRUE, version |-> [p \in Parts |-> None], pid |-> [n \in Nodes |-> None]]
    /\ store = [disk |-> {}, listed |-> {}, receipt |-> FALSE]
    /\ world \in [version : {[p \in Parts |-> 0]}, pid : {[n \in Nodes |-> 0]},
                  mapped : [Nodes -> {None, 0}]]
    /\ used = [helper |-> {}, runtime |-> {}, pid |-> {}]

Init == AuditInit /\ PromiseInit

\* A phase of collect: it ends "ok", in a "failure" or with something
\* "missing", and its artifacts are in the store.
Phase(pc, next, outcome) ==
    /\ audit.pc = pc
    /\ audit' = [audit EXCEPT
         !.pc = next, !.cleared = "no",
         !.failures = @ \/ outcome = "failure",
         !.incomplete = @ \/ outcome = "missing"]
    /\ store' = Written({pc})
    /\ UNCHANGED <<world, promiseVars>>

\* Mutant of GatedPhase: a failure is reported and does not stop the pull.
SlipGatedPhase(pc, next, outcome) ==
    /\ audit.pc = pc
    /\ audit' = [audit EXCEPT
         !.pc = next, !.cleared = "no",
         !.failures = @ \/ outcome = "failure",
         !.incomplete = @ \/ outcome \in {"missing", "unheard"},
         !.authorized = @ /\ outcome # "missing"]
    /\ store' = Written({pc})
    /\ UNCHANGED <<world, promiseVars>>

\* A phase whose result pull_authorized depends on.
GatedPhase(pc, next, outcome) ==
    /\ audit.pc = pc
    /\ audit' = [audit EXCEPT
         !.pc = next, !.cleared = "no",
         !.failures = @ \/ outcome = "failure",
         !.incomplete = @ \/ outcome \in {"missing", "unheard"},
         !.authorized = @ /\ outcome \in {"ok", "unheard"}]
    /\ store' = Written({pc})
    /\ UNCHANGED <<world, promiseVars>>

Outcomes == {"ok", "failure", "missing"}

\* AppendOnlyRun refuses a directory that exists; the effective configuration
\* is the first artifact.
Open ==
    /\ Phase("open", "packages", "ok")
    /\ UNCHANGED <<known, used>>

\* Every part of the identity that does not hold is missing evidence.
Identify(pc, next, holds) ==
    /\ Phase(pc, next, IF holds THEN "ok" ELSE "missing")
    /\ UNCHANGED used

\* Package versions and paths, message digests, topic types.
IdentifyPackages ==
    \E holds \in BOOLEAN :
        /\ Identify("packages", "hash helper", holds)
        /\ known' = [known EXCEPT !.ok = @ /\ holds]

\* The digests are taken one label after another from what lies on disk now;
\* for the core too, which has been imported long before.
Hash(part, pc, next) ==
    \E regular \in BOOLEAN :
        /\ Identify(pc, next, regular)
        /\ known' = [known EXCEPT !.version[part] = world.version[part], !.ok = @ /\ regular]

\* The interpreter is asked for the module it imports, the source tree is
\* walked and the build manifests are read, all later than the digests.
JoinSources ==
    \E proper \in BOOLEAN :
        LET joined == proper /\ world.version["runtime"] = known.version["runtime"]
        IN  /\ Identify("join", "graph", joined)
            /\ known' = [known EXCEPT !.ok = @ /\ joined]

\* A replaced binary does not show under its path in the maps of a process
\* that was started from the old one.
MapsWhatIsOnDisk == \A n \in Nodes : world.mapped[n] = world.version["runtime"]

\* Publishers, service providers, pids, process maps and executables.
BindRuntime ==
    \E exact \in BOOLEAN :
        LET bound == exact /\ MapsWhatIsOnDisk
        IN  /\ Identify("graph", "bundle", bound)
            /\ known' = [known EXCEPT !.pid = world.pid, !.ok = @ /\ bound]

\* validate_source_bundle_manifest: the manifest, read again, binds the digest
\* of each part to its role.  The status of the whole identity authorizes the
\* trace helpers.
Bound == \A p \in Parts \ {"bundle"} : known.version[p] = world.version["bundle"]

CheckBundle ==
    \E proper \in BOOLEAN :
        /\ known' = [known EXCEPT !.ok = @ /\ proper /\ Bound]
        /\ GatedPhase("bundle", "clock", IF known'.ok THEN "ok" ELSE "missing")
        /\ UNCHANGED used

\* /use_sim_time must be readable and false.
CheckClock ==
    \E outcome \in Outcomes :
        /\ GatedPhase("clock", "vehicle", outcome)
        /\ UNCHANGED <<known, used>>

\* _vehicle_report: a record that does not satisfy the policy is a failure,
\* no record is missing evidence.
CheckVehicle ==
    \E outcome \in Outcomes :
        /\ GatedPhase("vehicle", "pre state", outcome)
        /\ used' = [used EXCEPT !.pid = @ \cup {world.pid["mavros"]}]
        /\ UNCHANGED known

\* _capture_trace_topic, _capture_identity_bound_helper: the helper is hashed
\* once more and only then run.
Captures == {"pre state", "pre extended", "post state", "post extended", "timesync"}

ClearHelper ==
    /\ audit.pc \in Captures /\ audit.cleared = "no"
    /\ audit' = [audit EXCEPT !.cleared =
                   IF known.ok /\ world.version["helper"] = known.version["helper"]
                   THEN "yes" ELSE "refused"]
    /\ UNCHANGED <<known, store, used, world, promiseVars>>

\* What the helper is when it runs, and who feeds it.
RunHelper(outcome) ==
    /\ audit.cleared # "no"
    /\ IF audit.cleared = "yes"
       THEN used' = [used EXCEPT !.helper = @ \cup {world.version["helper"]},
                                 !.pid = @ \cup {world.pid["mavros"]}]
       ELSE outcome = "missing" /\ UNCHANGED used
    /\ UNCHANGED known

\* A trace of two samples of one stream.  A helper may have failed although
\* what it wrote satisfies the guard: evidence is missing then, and the pull
\* goes ahead all the same ("unheard").
PreCapture(pc, next) ==
    \E outcome \in Outcomes \cup {"unheard"} :
        GatedPhase(pc, next, outcome) /\ RunHelper(outcome)

PostCapture(pc, next) ==
    \E outcome \in Outcomes : Phase(pc, next, outcome) /\ RunHelper(outcome)

\* Mutant of SourcesUnchanged: only what runs is hashed again.
SlipSourcesUnchanged == world.version["runtime"] = known.version["runtime"]

\* _source_identity_unchanged, _runtime_identity_unchanged.
SourcesUnchanged == world.version = known.version
RuntimeUnchanged ==
    /\ world.pid = known.pid
    /\ MapsWhatIsOnDisk
    /\ world.version["runtime"] = known.version["runtime"]

\* A recheck that does not hold is a failure, and only missing evidence when
\* the identity was not established to begin with.
Recheck(holds) ==
    IF known.ok THEN IF holds THEN "ok" ELSE "failure" ELSE "missing"

PreSources ==
    /\ GatedPhase("pre sources", "pre runtime", Recheck(SourcesUnchanged))
    /\ UNCHANGED <<known, used>>

PreRuntime ==
    \E exact \in BOOLEAN :
        /\ GatedPhase("pre runtime", "authorize", Recheck(exact /\ RuntimeUnchanged))
        /\ UNCHANGED <<known, used>>

-----------------------------------------------------------------------------
(* The pull.                                                               *)

\* pull_authorized.  The subscribers are spawned from the helper as it is
\* now; when the pull is skipped, that is missing evidence.
Authorize ==
    /\ audit.pc = "authorize"
    /\ IF audit.authorized
       THEN /\ Begin
            /\ audit' = [audit EXCEPT !.pc = "pull"]
            /\ used' = [used EXCEPT !.helper = @ \cup {world.version["helper"]}]
       ELSE /\ audit' = [audit EXCEPT !.pc = "post state", !.incomplete = TRUE]
            /\ UNCHANGED <<used, promiseVars>>
    /\ UNCHANGED <<known, store, world>>

\* The transaction at work.  mavparam is run from the disk, serves itself from
\* the node that runs then, and may create its file.
PullWorks ==
    /\ audit.pc = "pull"
    /\ RunOrSkip \/ Expose \/ EndDump \/ Return
    /\ used' = IF dump = "none" /\ dump' = "running"
               THEN [used EXCEPT !.runtime = @ \cup {world.version["runtime"],
                                                     world.mapped["mavros"]},
                                 !.pid = @ \cup {world.pid["mavros"]}]
               ELSE used
    /\ \/ UNCHANGED store
       \/ /\ dump = "running" /\ dump' # "running"
          /\ store' = [store EXCEPT !.disk = @ \cup {"parameters"}]
    /\ UNCHANGED <<audit, known, world>>

\* Its four captures are recorded.  That the traces were not ready or did not
\* last is a failure at once.
PullReturns ==
    /\ stage = "over"
    /\ \E concurrent \in BOOLEAN :
         /\ verdict = "clean" => concurrent
         /\ Phase("pull", "post state", IF concurrent THEN "ok" ELSE "failure")
    /\ UNCHANGED <<known, used>>

\* The traces and the dump are analysed only after the post captures, and the
\* file mavparam left is adopted only now.  `guarded` is _phase_guard over the
\* traces of the pull, `proven` the verdict on the parameters.
JudgePull ==
    /\ audit.pc = "judge"
    /\ IF stage = "over"
       THEN \E guarded, proven, regular \in BOOLEAN :
              LET adopted == {"parameters"} \cap IF regular THEN store.disk ELSE {}
              IN  /\ guarded /\ dump = "ok" /\ ~audit.failures => verdict = "clean"
                  /\ verdict = "clean" => guarded
                  /\ proven => adopted # {}
                  /\ store' = Adopted(adopted)
                  /\ audit' = [audit EXCEPT
                       !.pc = "timesync",
                       !.failures = @ \/ ~guarded \/ ~proven,
                       !.incomplete = @ \/ dump # "ok" \/ adopted = {}]
       ELSE UNCHANGED store /\ audit' = [audit EXCEPT !.pc = "timesync"]
    /\ UNCHANGED <<known, used, world, promiseVars>>

-----------------------------------------------------------------------------
(* What follows the pull.                                                  *)

\* _collect_timesync with _timesync_source_config_gate: the file the
\* configuration in force comes from must be the one that was hashed.
CollectTimesync ==
    \E outcome \in Outcomes :
        /\ outcome = "ok" => world.version["runtime"] = known.version["runtime"]
        /\ Phase("timesync", "estimator", outcome)
        /\ RunHelper(outcome)

CollectEstimator ==
    \E outcome \in Outcomes :
        /\ Phase("estimator", "post runtime", outcome)
        /\ used' = [used EXCEPT !.pid = @ \cup {world.pid["mavros"]}]
        /\ UNCHANGED known

PostRuntime ==
    \E exact \in BOOLEAN :
        /\ Phase("post runtime", "post sources", Recheck(exact /\ RuntimeUnchanged))
        /\ UNCHANGED <<known, used>>

PostSources ==
    /\ Phase("post sources", "finalize", Recheck(SourcesUnchanged))
    /\ UNCHANGED <<known, used>>

\* finalize: the receipt lists every artifact but itself.
Finalize ==
    /\ audit.pc = "finalize"
    /\ audit' = [audit EXCEPT
         !.pc = "done",
         !.status = IF audit.failures THEN "FAIL"
                    ELSE IF audit.incomplete THEN "INCOMPLETE" ELSE "PASS"]
    /\ store' = [store EXCEPT !.receipt = TRUE]
    /\ UNCHANGED <<known, used, world, promiseVars>>

\* An exception anywhere (the disk is full, a source vanishes between the test
\* and the digest, a file exists): no receipt and exit code 3.
Raise ==
    /\ ~Over
    /\ audit' = [audit EXCEPT !.pc = "aborted"]
    /\ IF audit.pc = "pull" /\ stage = "open" THEN RaiseInPull ELSE UNCHANGED promiseVars
    /\ UNCHANGED <<known, store, used, world>>

-----------------------------------------------------------------------------
Collect ==
    \/ Open
    \/ IdentifyPackages
    \/ Hash("helper", "hash helper", "hash bundle")
    \/ Hash("bundle", "hash bundle", "hash runtime")
    \/ Hash("runtime", "hash runtime", "hash core")
    \/ Hash("core", "hash core", "join")
    \/ JoinSources
    \/ BindRuntime
    \/ CheckBundle
    \/ CheckClock
    \/ CheckVehicle
    \/ ClearHelper
    \/ PreCapture("pre state", "pre extended")
    \/ PreCapture("pre extended", "pre sources")
    \/ PreSources
    \/ PreRuntime
    \/ Authorize
    \/ PullWorks
    \/ PullReturns
    \/ PostCapture("post state", "post extended")
    \/ PostCapture("post extended", "judge")
    \/ JudgePull
    \/ CollectTimesync
    \/ CollectEstimator
    \/ PostRuntime
    \/ PostSources
    \/ Finalize

World == (\E p \in Parts : Deploy(p)) \/ (\E n \in Nodes : Restart(n))

Next == Collect \/ Raise \/ World

Spec == Init /\ [][Next]_vars
=============================================================================
