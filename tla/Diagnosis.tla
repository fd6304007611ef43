----------------------------- MODULE Diagnosis -----------------------------
(***************************************************************************)
(* L1: the flight_safety_diagnosis node (scripts/diagnosis_node.py and     *)
(* src/src/flight_safety/diagnosis/).  One timer thread runs the three     *)
(* reporters in turn and publishes their verdicts as one array, while      *)
(* subscriber threads keep replacing what the reporters look at.           *)
(*                                                                         *)
(* Time is abstracted to the comparisons the code makes: an arrival is     *)
(* young enough for a reporter until an Expire action ends its youth.      *)
(* What was never received is not young, and only liveness tells the two   *)
(* apart.  A pose is reduced to the coordinates of the enabled axes.       *)
(***************************************************************************)
EXTENDS Integers, Sequences, Severity

CONSTANTS
    Reporters,          \* the reporters that have a parameter block; liveness
                        \* is that of local_position
    Axes,               \* geofence/enabled_axes, in the order of _AXES
    Lo, Hi,             \* geofence/box, per axis
    Margin,             \* geofence/margin_m
    Positions,          \* the VRPN positions that occur, axis -> coordinate
    Differences,        \* the VRPN-to-local_position errors that occur
    WarnAbove,          \* consistency/warn_m
    ErrorAbove          \* consistency/error_m

AxisSet == {Axes[i] : i \in 1..Len(Axes)}

ASSUME ReportersAreKnown ==
    Reporters \subseteq {"geofence", "consistency", "local_position"}

ASSUME BoxIsValid ==
    /\ Len(Axes) > 0
    /\ \A a \in AxisSet : Lo[a] \in Int /\ Hi[a] \in Int /\ Lo[a] < Hi[a]
    /\ Positions \subseteq [AxisSet -> Int]

VARIABLES
    pose,      \* GeofenceDiag: pos, and last_rx within pose_timeout_s
    local,     \* local_position: last_fallback_rx within fallback_timeout_s,
               \* TopicLiveness.last_rx within stale_s, and not None
    pair,      \* ConsistencyDiag: err, and last_pair within pair_timeout_s
    run        \* the timer thread: its place and the verdicts so far

diagnosis == <<pose, local, pair, run>>

\* toWall is the margin over the axes read so far; it starts at inf.
Inf == 1 + (CHOOSE m \in {Hi[a] - Lo[a] : a \in AxisSet} :
              \A a \in AxisSet : Hi[a] - Lo[a] <= m)
RunIdle == [pc |-> "idle", axis |-> 1, toWall |-> Inf, geofence |-> OK,
            consistency |-> OK]

DiagnosisInit ==
    /\ \E p \in Positions : pose = [at |-> p, fresh |-> FALSE]
    /\ local = [fallback |-> FALSE, alive |-> FALSE, seen |-> FALSE]
    /\ pair = [err |-> 0, fresh |-> FALSE]
    /\ run = RunIdle

-----------------------------------------------------------------------------
(* Arrivals and the passage of time.  _on_pose and _on_pair assign the     *)
(* value before the time of arrival and the reporters read them the other  *)
(* way round, so each callback is one step.                                *)

PoseArrives(p) == /\ pose' = [at |-> p, fresh |-> TRUE]
                  /\ UNCHANGED <<local, pair, run>>

\* One topic, two subscribers: the geofence's fallback and the liveness check.
LocalArrives == /\ local' = [fallback |-> "geofence" \in Reporters,
                              alive |-> TRUE, seen |-> TRUE]
                /\ UNCHANGED <<pose, pair, run>>

\* The synchronizer found two poses within its slop of each other.
PairArrives(e) == /\ pair' = [err |-> e, fresh |-> TRUE]
                  /\ UNCHANGED <<pose, local, run>>

PoseExpires == /\ pose.fresh /\ pose' = [pose EXCEPT !.fresh = FALSE]
               /\ UNCHANGED <<local, pair, run>>
FallbackExpires == /\ local.fallback /\ local' = [local EXCEPT !.fallback = FALSE]
                   /\ UNCHANGED <<pose, pair, run>>
LocalExpires == /\ local.alive /\ local' = [local EXCEPT !.alive = FALSE]
                /\ UNCHANGED <<pose, pair, run>>
PairExpires == /\ pair.fresh /\ pair' = [pair EXCEPT !.fresh = FALSE]
               /\ UNCHANGED <<pose, local, run>>

-----------------------------------------------------------------------------
(* One update of the reporters.  A reporter looks at an age and then at    *)
(* the value it is about; what arrives in between only makes both younger, *)
(* so the two looks are one step.                                          *)

RunStep(from, next) ==
    /\ run.pc = from
    /\ run' = next
    /\ UNCHANGED <<pose, local, pair>>

AfterGeofence == IF "consistency" \in Reporters THEN "pair" ELSE "liveness"
RunStarts == RunStep("idle", [RunIdle EXCEPT
    !.pc = IF "geofence" \in Reporters THEN "geofence" ELSE AfterGeofence])

Lesser(a, b) == IF a <= b THEN a ELSE b
ToWall(a) == Lesser(pose.at[a] - Lo[a], Hi[a] - pose.at[a])

\* Slip: the margin itself taken for the wall.
ZoneIgnoresWall(toWall) == IF toWall < Margin THEN WARN ELSE OK

Zone(toWall) == IF toWall < 0 THEN ERROR
                ELSE IF toWall < Margin THEN WARN ELSE OK

\* The next axis; a pose that was fresh for the first one is not asked again,
\* but self.pos is: two axes may come from two poses.
GeofenceReadsAxis ==
    LET toWall == Lesser(run.toWall, ToWall(Axes[run.axis]))
    IN  /\ pose.fresh \/ run.axis > 1
        /\ RunStep("geofence",
               IF run.axis < Len(Axes)
               THEN [run EXCEPT !.toWall = toWall, !.axis = @ + 1]
               ELSE [RunIdle EXCEPT !.pc = AfterGeofence, !.geofence = Zone(toWall)])

\* Slip: the geofence without its fallback.
NoPoseKills == ERROR

\* A stale VRPN pose is WARN while local_position is fresh.
NoPose == IF local.fallback THEN WARN ELSE ERROR

GeofenceReadsFallback ==
    /\ ~pose.fresh /\ run.axis = 1
    /\ RunStep("geofence", [RunIdle EXCEPT !.pc = AfterGeofence, !.geofence = NoPose])

\* Slip: the age of the pair is not looked at.
AgreementWithoutAge == IF pair.err > ErrorAbove THEN ERROR
                       ELSE IF pair.err > WarnAbove THEN WARN ELSE OK

Agreement == IF ~pair.fresh THEN WARN
             ELSE IF pair.err > ErrorAbove THEN ERROR
             ELSE IF pair.err > WarnAbove THEN WARN ELSE OK

ConsistencyReadsPair ==
    RunStep("pair", [run EXCEPT !.pc = "liveness", !.consistency = Agreement])

\* Slip: a topic that has gone silent taken for one that is not up yet.
LocalLivenessNeutral == OK

\* Never seen is neutral.
LocalLiveness == IF local.seen /\ ~local.alive THEN ERROR ELSE OK

\* TopicLiveness is the last reporter; then the array of all goes out.
Report(source, level) ==
    IF source \in Reporters THEN << [source |-> source, level |-> level] >>
    ELSE <<>>
Verdicts == Report("geofence", run.geofence)
            \o Report("consistency", run.consistency)
            \o Report("local_position", LocalLiveness)

RunPublishes == RunStep("liveness", RunIdle)

RunProceeds ==
    GeofenceReadsAxis \/ GeofenceReadsFallback \/ ConsistencyReadsPair
=============================================================================
