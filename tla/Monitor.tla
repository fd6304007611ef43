------------------------------ MODULE Monitor ------------------------------
(***************************************************************************)
(* L2: the flight_safety_monitor node (src/src/flight_safety/monitor.py,   *)
(* scripts/monitor_node.py).  Subscriber threads record the level of each  *)
(* watched source; the 10 Hz timer thread looks the sources up one after   *)
(* the other, without a lock, and publishes the worst.                     *)
(*                                                                         *)
(* A status is represented by the watched source whose match string its    *)
(* name contains.  A report is dead once it is older than the source's     *)
(* stale_s.                                                                *)
(***************************************************************************)
EXTENDS Integers, Sequences, Severity

CONSTANTS
    Sources,      \* the watched sources, in the order of the configuration
    MaxLevel      \* max_level, per position in Sources

Indices == 1..Len(Sources)

ASSUME SourcesAreConfigured ==
    /\ Sources \in Seq(STRING)
    /\ MaxLevel \in [Indices -> {OK, WARN, ERROR}]

VARIABLES
    last,     \* Monitor.last, per position in Sources
    scan,     \* worst(): sources read so far, their worst level, and which
              \* of them are at it
    fault     \* level and named sources of the last /flight_safety/fault

monitor == <<last, scan, fault>>

ScanIdle == [read |-> 0, level |-> OK, names |-> {}]

MonitorInit ==
    /\ last = [i \in Indices |-> [seen |-> FALSE, level |-> OK, dead |-> FALSE]]
    /\ scan = ScanIdle
    /\ fault = [level |-> OK, names |-> {}]

\* _on_diag, for one status of an array.
Records(source, level) ==
    /\ last' = [i \in Indices |->
                  IF Sources[i] = source
                  THEN [seen |-> TRUE, level |-> level, dead |-> FALSE]
                  ELSE last[i]]
    /\ UNCHANGED <<scan, fault>>

ReportDies(i) ==
    /\ last[i].seen /\ ~last[i].dead
    /\ last' = [last EXCEPT ![i].dead = TRUE]
    /\ UNCHANGED <<scan, fault>>

-----------------------------------------------------------------------------
(* worst().                                                                *)

\* Slip: death beyond the cap.
LevelOfUncapped(i) ==
    IF ~last[i].seen THEN WARN
    ELSE IF last[i].dead THEN ERROR
    ELSE IF last[i].level > MaxLevel[i] THEN MaxLevel[i] ELSE last[i].level

\* Never seen is WARN and dead is ERROR; then the cap.
LevelOf(i) ==
    LET reported == IF ~last[i].seen THEN WARN
                    ELSE IF last[i].dead THEN ERROR
                    ELSE last[i].level
    IN  IF reported > MaxLevel[i] THEN MaxLevel[i] ELSE reported

\* The sources at the worst level; none at OK.
ScanReads ==
    /\ scan.read < Len(Sources)
    /\ LET i == scan.read + 1
           level == LevelOf(i)
       IN  scan' = [read |-> i,
                    level |-> IF level > scan.level THEN level ELSE scan.level,
                    names |-> IF level > scan.level THEN {i}
                              ELSE IF level = scan.level /\ level > OK
                              THEN scan.names \cup {i}
                              ELSE scan.names]
    /\ UNCHANGED <<last, fault>>

\* Slip: the worst level outlives its scan.
ScanNeverForgets ==
    /\ scan.read = Len(Sources)
    /\ fault' = [level |-> scan.level, names |-> scan.names]
    /\ scan' = [scan EXCEPT !.read = 0]
    /\ UNCHANGED last

ScanPublishes ==
    /\ scan.read = Len(Sources)
    /\ fault' = [level |-> scan.level, names |-> scan.names]
    /\ scan' = ScanIdle
    /\ UNCHANGED last
=============================================================================
