------------------------------ MODULE Pipeline ------------------------------
(***************************************************************************)
(* L1 and L2 together: the position streams, the reporters that judge      *)
(* them, the arrays on /diagnostics and the verdict on                     *)
(* /flight_safety/fault.                                                   *)
(*                                                                         *)
(* Nothing is modelled of a node that reports nothing L2 watches.          *)
(***************************************************************************)
EXTENDS Diagnosis, Monitor, Stream

CONSTANT RateBands       \* verdicts on the VRPN rate that occur

VARIABLES
    wire,      \* per publisher, the statuses published and not yet recorded
    alive      \* the reporting nodes that have not died

Publishers == {"diagnosis", "vrpn"}
PublisherOf(source) == IF source = "pure stream" THEN "vrpn" ELSE "diagnosis"
Watched(p) == \E i \in Indices : PublisherOf(Sources[i]) = p

vars == <<diagnosis, monitor, stream, wire, alive>>

Init ==
    /\ DiagnosisInit /\ MonitorInit /\ StreamInit
    /\ wire = [p \in Publishers |-> <<>>]
    /\ alive = Publishers

-----------------------------------------------------------------------------
(* The environment.                                                        *)

Elsewhere == UNCHANGED <<monitor, wire, alive>>

\* The VRPN client publishes a pose and ticks its own stream diagnostic.
VrpnPose(p) ==
    /\ "vrpn" \in alive
    /\ PoseArrives(p)
    /\ IF Watched("vrpn") THEN StreamTicks(p # pose.at) ELSE UNCHANGED stream
    /\ Elsewhere

LocalPose == /\ Watched("diagnosis") /\ "diagnosis" \in alive
             /\ LocalArrives /\ UNCHANGED stream /\ Elsewhere

\* A pair is made of poses that have arrived.
PairUp(e) == /\ Watched("diagnosis") /\ "diagnosis" \in alive
             /\ pose.fresh /\ local.alive
             /\ PairArrives(e) /\ UNCHANGED stream /\ Elsewhere

TimePasses ==
    /\ \/ /\ PoseExpires \/ FallbackExpires \/ LocalExpires \/ PairExpires
          /\ UNCHANGED stream
       \/ /\ Watched("vrpn") /\ StreamFreezes
          /\ UNCHANGED diagnosis
    /\ Elsewhere

\* A node dies, and nothing restarts it (no respawn in the launch files).
Dies(p) ==
    /\ p \in alive /\ Watched(p)
    /\ alive' = alive \ {p}
    /\ run' = IF p = "diagnosis" THEN RunIdle ELSE run
    /\ UNCHANGED <<pose, local, pair, monitor, stream, wire>>

-----------------------------------------------------------------------------
(* The nodes.  An array is recorded before its publisher's next one.       *)

DiagnosisStarts ==
    /\ Watched("diagnosis")
    /\ "diagnosis" \in alive /\ wire["diagnosis"] = <<>>
    /\ RunStarts
    /\ UNCHANGED <<monitor, stream, wire, alive>>

DiagnosisProceeds == RunProceeds /\ UNCHANGED <<monitor, stream, wire, alive>>

DiagnosisPublishes ==
    /\ RunPublishes
    /\ wire' = [wire EXCEPT !["diagnosis"] = Verdicts]
    /\ UNCHANGED <<monitor, stream, alive>>

StreamReports ==
    /\ Watched("vrpn")
    /\ "vrpn" \in alive /\ wire["vrpn"] = <<>>
    /\ \E ok \in RateBands :
         wire' = [wire EXCEPT !["vrpn"] =
                    << [source |-> "pure stream", level |-> StreamVerdict(ok)] >>]
    /\ StreamRuns
    /\ UNCHANGED <<diagnosis, monitor, alive>>

\* One iteration of _on_diag's loop over the statuses of an array.
RecordStatus(p) ==
    /\ wire[p] # <<>>
    /\ Records(Head(wire[p]).source, Head(wire[p]).level)
    /\ wire' = [wire EXCEPT ![p] = Tail(@)]
    /\ UNCHANGED <<diagnosis, stream, alive>>

\* A live node reports at least three times within stale_s, so only the
\* reports of a dead one grow too old.
SourceDies(i) ==
    /\ PublisherOf(Sources[i]) \notin alive
    /\ wire[PublisherOf(Sources[i])] = <<>>
    /\ ReportDies(i)
    /\ UNCHANGED <<diagnosis, stream, wire, alive>>

MonitorProceeds == /\ ScanReads \/ ScanPublishes
                   /\ UNCHANGED <<diagnosis, stream, wire, alive>>

Next ==
    \/ \E p \in Positions : VrpnPose(p)
    \/ LocalPose
    \/ \E e \in Differences : PairUp(e)
    \/ TimePasses
    \/ \E p \in Publishers : Dies(p) \/ RecordStatus(p)
    \/ DiagnosisStarts \/ DiagnosisProceeds \/ DiagnosisPublishes
    \/ StreamReports
    \/ \E i \in Indices : SourceDies(i)
    \/ MonitorProceeds

Spec == Init /\ [][Next]_vars

\* The timers of the nodes keep firing, messages are delivered, and a report
\* that nothing renews grows old.  Poses and the other expiries owe nothing.
FairSpec ==
    /\ Spec
    /\ WF_vars(DiagnosisStarts) /\ WF_vars(DiagnosisProceeds)
    /\ WF_vars(DiagnosisPublishes) /\ WF_vars(StreamReports)
    /\ \A p \in Publishers : WF_vars(RecordStatus(p))
    /\ \A i \in Indices : WF_vars(SourceDies(i))
    /\ WF_vars(MonitorProceeds)
=============================================================================
