--------------------------- MODULE PipelineProofs ---------------------------
(***************************************************************************)
(* For every configuration of L1 and L2: a verdict never exceeds the       *)
(* authority of a source it names, and names a source exactly when it is   *)
(* above OK.  That L2 caps what it reads is not enough: the caps compare   *)
(* levels, so every level must be one, all the way from the reporters.     *)
(***************************************************************************)
EXTENDS PipelineProperties, TLAPS, SequenceTheorems

Tasks == {"geofence", "consistency", "local_position", "pure stream"}
Statuses == [source : Tasks, level : Severities]

\* Levels are severities wherever they are kept.
LevelsAreSeverities ==
    /\ {run.geofence, run.consistency} \subseteq Severities
    /\ wire \in [Publishers -> Seq(Statuses)]
    /\ last \in [Indices -> [seen : BOOLEAN, level : Severities, dead : BOOLEAN]]

\* A verdict is a level with sources that have the authority for it.
Verdict(v) ==
    /\ v.level \in Severities /\ v.names \subseteq Indices
    /\ v.level > OK <=> v.names # {}
    /\ \A i \in v.names : v.level <= MaxLevel[i]

VerdictsAreDue ==
    /\ scan.read \in 0..Len(Sources)
    /\ Verdict(scan) /\ Verdict(fault)

DueInv == LevelsAreSeverities /\ VerdictsAreDue

-----------------------------------------------------------------------------
LEMMA SeveritiesAreNumbers ==
    Severities = {0, 1, 2, 3} /\ OK = 0 /\ WARN = 1 /\ ERROR = 2
BY DEF Severities, OK, WARN, ERROR, STALE

\* What L1 judges is a severity.
LEMMA JudgementsAreSeverities ==
    /\ \A toWall : Zone(toWall) \in Severities
    /\ NoPose \in Severities /\ Agreement \in Severities
    /\ LocalLiveness \in Severities
BY SeveritiesAreNumbers DEF Zone, NoPose, Agreement, LocalLiveness

LEMMA SourcesAreCounted == Len(Sources) \in Nat /\ Indices = 1..Len(Sources)
BY SourcesAreConfigured DEF Indices

\* worst() never reads a level above the cap of its source.
LEMMA LevelsAreCapped ==
    ASSUME LevelsAreSeverities, NEW i \in Indices
    PROVE  LevelOf(i) \in Severities /\ LevelOf(i) <= MaxLevel[i]
<1>1. MaxLevel[i] \in {0, 1, 2}
  BY SourcesAreConfigured, SeveritiesAreNumbers
<1>2. last[i].level \in {0, 1, 2, 3}
  BY SeveritiesAreNumbers DEF LevelsAreSeverities
<1> QED
  BY <1>1, <1>2, SeveritiesAreNumbers DEF LevelOf

\* One more source keeps the verdict in the making due.
LEMMA ScanStaysDue ==
    ASSUME DueInv, ScanReads
    PROVE  VerdictsAreDue'
<1> DEFINE i == scan.read + 1
<1>1. i \in Indices
  BY SourcesAreCounted DEF DueInv, VerdictsAreDue, ScanReads
<1>2. LevelOf(i) \in {0, 1, 2, 3} /\ LevelOf(i) <= MaxLevel[i]
  BY <1>1, LevelsAreCapped, SeveritiesAreNumbers DEF DueInv
<1>3. /\ scan.level \in {0, 1, 2, 3} /\ scan.names \subseteq Indices
      /\ scan.level > 0 <=> scan.names # {}
      /\ \A j \in scan.names : scan.level <= MaxLevel[j]
  BY SeveritiesAreNumbers DEF DueInv, VerdictsAreDue, Verdict
<1>4. scan'.read \in 0..Len(Sources) /\ fault' = fault
  BY SourcesAreCounted DEF DueInv, VerdictsAreDue, ScanReads
<1>5. CASE LevelOf(i) > scan.level
  <2>1. scan'.level = LevelOf(i) /\ scan'.names = {i}
    BY <1>5 DEF ScanReads
  <2> QED
    BY <2>1, <1>1, <1>2, <1>3, <1>4, <1>5, SeveritiesAreNumbers
    DEF DueInv, VerdictsAreDue, Verdict
<1>6. CASE ~(LevelOf(i) > scan.level)
  <2>1. scan'.level = scan.level
    BY <1>6 DEF ScanReads
  <2>2. CASE LevelOf(i) = scan.level /\ LevelOf(i) > 0
    <3>1. scan'.names = scan.names \cup {i}
      BY <1>6, <2>2, SeveritiesAreNumbers DEF ScanReads
    <3> QED
      BY <2>1, <2>2, <3>1, <1>1, <1>2, <1>3, <1>4, SeveritiesAreNumbers
      DEF DueInv, VerdictsAreDue, Verdict
  <2>3. CASE ~(LevelOf(i) = scan.level /\ LevelOf(i) > 0)
    <3>1. scan'.names = scan.names
      BY <1>6, <2>3, SeveritiesAreNumbers DEF ScanReads
    <3> QED
      BY <2>1, <3>1, <1>3, <1>4, SeveritiesAreNumbers
      DEF DueInv, VerdictsAreDue, Verdict
  <2> QED
    BY <2>2, <2>3
<1> QED
  BY <1>5, <1>6

LEMMA ArraysAreStatuses ==
    ASSUME LevelsAreSeverities
    PROVE  Verdicts \in Seq(Statuses)
<1>1. \A source \in Tasks : \A level \in Severities :
        Report(source, level) \in Seq(Statuses)
  <2> TAKE source \in Tasks
  <2> TAKE level \in Severities
  <2>1. [source |-> source, level |-> level] \in Statuses
    BY DEF Statuses
  <2>2. << [source |-> source, level |-> level] >> \in Seq(Statuses)
    BY <2>1
  <2>3. <<>> \in Seq(Statuses)
    OBVIOUS
  <2> QED
    BY <2>2, <2>3 DEF Report
<1>2. run.geofence \in Severities /\ run.consistency \in Severities
  BY DEF LevelsAreSeverities
<1>3. LocalLiveness \in Severities
  BY JudgementsAreSeverities
<1>4. Report("geofence", run.geofence) \in Seq(Statuses)
  BY <1>1, <1>2 DEF Tasks
<1>5. Report("consistency", run.consistency) \in Seq(Statuses)
  BY <1>1, <1>2 DEF Tasks
<1>6. Report("local_position", LocalLiveness) \in Seq(Statuses)
  BY <1>1, <1>3 DEF Tasks
<1> QED
  BY <1>4, <1>5, <1>6 DEF Verdicts

-----------------------------------------------------------------------------
LEMMA InitIsDue == Init => DueInv
BY SourcesAreCounted, SeveritiesAreNumbers
DEF Init, DiagnosisInit, MonitorInit, StreamInit, RunIdle, ScanIdle, DueInv,
    LevelsAreSeverities, VerdictsAreDue, Verdict, Statuses

\* The steps that change neither the verdicts nor what they are made of.
LEMMA ElsewhereIsDue ==
    ASSUME DueInv, UNCHANGED <<monitor, wire>>,
           run' = run \/ run' = RunIdle
                      \/ {run'.geofence, run'.consistency} \subseteq Severities
    PROVE  DueInv'
<1>1. LevelsAreSeverities'
  BY SeveritiesAreNumbers DEF DueInv, LevelsAreSeverities, RunIdle, monitor
<1>2. VerdictsAreDue'
  BY DEF DueInv, VerdictsAreDue, Verdict, monitor
<1> QED
  BY <1>1, <1>2 DEF DueInv

\* The reporters' own steps.
LEMMA RunKeepsSeverities ==
    ASSUME LevelsAreSeverities, RunProceeds \/ RunStarts \/ RunPublishes
    PROVE  {run'.geofence, run'.consistency} \subseteq Severities
<1>1. RunIdle.geofence \in Severities /\ RunIdle.consistency \in Severities
  BY SeveritiesAreNumbers DEF RunIdle
<1>2. CASE GeofenceReadsAxis
  BY <1>1, <1>2, JudgementsAreSeverities
  DEF GeofenceReadsAxis, RunStep, LevelsAreSeverities, RunIdle
<1>3. CASE GeofenceReadsFallback
  BY <1>1, <1>3, JudgementsAreSeverities
  DEF GeofenceReadsFallback, RunStep, RunIdle
<1>4. CASE ConsistencyReadsPair
  BY <1>4, JudgementsAreSeverities
  DEF ConsistencyReadsPair, RunStep, LevelsAreSeverities
<1>5. CASE RunStarts
  BY <1>1, <1>5 DEF RunStarts, RunStep, RunIdle
<1>6. CASE RunPublishes
  BY <1>1, <1>6 DEF RunPublishes, RunStep
<1> QED
  BY <1>2, <1>3, <1>4, <1>5, <1>6 DEF RunProceeds

LEMMA RecordStaysDue ==
    ASSUME DueInv, NEW p \in Publishers, RecordStatus(p)
    PROVE  DueInv'
<1>1. wire[p] \in Seq(Statuses) /\ wire[p] # <<>>
  BY DEF DueInv, LevelsAreSeverities, RecordStatus
<1>2. Head(wire[p]) \in Statuses /\ Tail(wire[p]) \in Seq(Statuses)
  BY <1>1
<1>3. Head(wire[p]).level \in Severities
  BY <1>2 DEF Statuses
<1>4. wire' \in [Publishers -> Seq(Statuses)]
  BY <1>2 DEF DueInv, LevelsAreSeverities, RecordStatus
<1>5. last' \in [Indices -> [seen : BOOLEAN, level : Severities, dead : BOOLEAN]]
  BY <1>3 DEF DueInv, LevelsAreSeverities, RecordStatus, Records
<1>6. LevelsAreSeverities'
  BY <1>4, <1>5 DEF DueInv, LevelsAreSeverities, RecordStatus, diagnosis
<1>7. VerdictsAreDue'
  BY DEF DueInv, VerdictsAreDue, Verdict, RecordStatus, Records
<1> QED
  BY <1>6, <1>7 DEF DueInv

LEMMA NextStaysDue ==
    ASSUME DueInv, Next
    PROVE  DueInv'
<1>1. ASSUME NEW q \in Positions, VrpnPose(q) PROVE DueInv'
  BY <1>1, ElsewhereIsDue DEF VrpnPose, PoseArrives, Elsewhere
<1>2. CASE LocalPose
  BY <1>2, ElsewhereIsDue DEF LocalPose, LocalArrives, Elsewhere
<1>3. ASSUME NEW e \in Differences, PairUp(e) PROVE DueInv'
  BY <1>3, ElsewhereIsDue DEF PairUp, PairArrives, Elsewhere
<1>4. CASE TimePasses
  BY <1>4, ElsewhereIsDue
  DEF TimePasses, PoseExpires, FallbackExpires, LocalExpires, PairExpires,
      StreamFreezes, diagnosis, Elsewhere
<1>5. ASSUME NEW p \in Publishers, Dies(p) PROVE DueInv'
  BY <1>5, ElsewhereIsDue DEF Dies
<1>6. ASSUME NEW p \in Publishers, RecordStatus(p) PROVE DueInv'
  BY <1>6, RecordStaysDue
<1>7. CASE DiagnosisStarts
  BY <1>7, RunKeepsSeverities, ElsewhereIsDue DEF DiagnosisStarts, DueInv
<1>8. CASE DiagnosisProceeds
  BY <1>8, RunKeepsSeverities, ElsewhereIsDue DEF DiagnosisProceeds, DueInv
<1>9. CASE DiagnosisPublishes
  <2>1. {run'.geofence, run'.consistency} \subseteq Severities
    BY <1>9, RunKeepsSeverities DEF DiagnosisPublishes, DueInv
  <2>2. wire' \in [Publishers -> Seq(Statuses)]
    BY <1>9, ArraysAreStatuses DEF DiagnosisPublishes, DueInv, LevelsAreSeverities
  <2> QED
    BY <1>9, <2>1, <2>2
    DEF DiagnosisPublishes, DueInv, LevelsAreSeverities, VerdictsAreDue,
        Verdict, monitor
<1>10. CASE StreamReports
  <2>1. PICK ok \in RateBands :
          wire' = [wire EXCEPT !["vrpn"] =
                     << [source |-> "pure stream", level |-> StreamVerdict(ok)] >>]
    BY <1>10 DEF StreamReports
  <2>2. StreamVerdict(ok) \in Severities
    BY SeveritiesAreNumbers DEF StreamVerdict
  <2> DEFINE status == [source |-> "pure stream", level |-> StreamVerdict(ok)]
             array == << status >>
  <2>3. status \in Statuses
    BY <2>2 DEF Statuses, Tasks
  <2>4. array \in Seq(Statuses)
    <3> HIDE DEF status
    <3> QED
      BY <2>3
  <2>5. wire \in [Publishers -> Seq(Statuses)]
    BY DEF DueInv, LevelsAreSeverities
  <2> HIDE DEF array
  <2>6. wire' \in [Publishers -> Seq(Statuses)]
    <3>1. wire' = [wire EXCEPT !["vrpn"] = array]
      BY <2>1 DEF array
    <3> QED
      BY <3>1, <2>4, <2>5
  <2> QED
    BY <1>10, <2>6
    DEF StreamReports, DueInv, LevelsAreSeverities, VerdictsAreDue, Verdict,
        monitor, diagnosis
<1>11. ASSUME NEW i \in Indices, SourceDies(i) PROVE DueInv'
  BY <1>11 DEF SourceDies, ReportDies, DueInv, LevelsAreSeverities,
               VerdictsAreDue, Verdict, diagnosis
<1>12. CASE MonitorProceeds /\ ScanReads
  BY <1>12, ScanStaysDue
  DEF MonitorProceeds, ScanReads, DueInv, LevelsAreSeverities, diagnosis
<1>13. CASE MonitorProceeds /\ ScanPublishes
  BY <1>13, SourcesAreCounted, SeveritiesAreNumbers
  DEF MonitorProceeds, ScanPublishes, ScanIdle, DueInv, LevelsAreSeverities,
      VerdictsAreDue, Verdict, diagnosis
<1> QED
  BY <1>1, <1>2, <1>3, <1>4, <1>5, <1>6, <1>7, <1>8, <1>9, <1>10, <1>11,
     <1>12, <1>13
  DEF Next, MonitorProceeds

\* No verdict L2 publishes, or is putting together, is above the max_level of
\* a source it names; a verdict above OK always names one, and one at OK none
\* (monitor.py:35-56).
THEOREM Authority == Spec => []AuthorityIsCapped
<1>1. Init => DueInv
  BY InitIsDue
<1>2. DueInv /\ [Next]_vars => DueInv'
  <2> SUFFICES ASSUME DueInv, [Next]_vars PROVE DueInv'
    OBVIOUS
  <2>1. CASE Next
    BY <2>1, NextStaysDue
  <2>2. CASE UNCHANGED vars
    BY <2>2, ElsewhereIsDue DEF vars, diagnosis
  <2> QED
    BY <2>1, <2>2
<1>3. DueInv => AuthorityIsCapped
  BY DEF DueInv, VerdictsAreDue, Verdict, AuthorityIsCapped
<1> QED
  BY <1>1, <1>2, <1>3, PTL DEF Spec
=============================================================================
