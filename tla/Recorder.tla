------------------------------ MODULE Recorder ------------------------------
(***************************************************************************)
(* The arm-triggered recorder (src/scripts/recorder_node.py): /mavros/state*)
(* starts and stops a rosbag process, the webcam and the sidecar; a bag    *)
(* that is final gets a .ready marker, for which a watcher on the host     *)
(* waits.                                                                  *)
(*                                                                         *)
(* Two threads share the attributes: the subscriber's, which runs _start   *)
(* and _stop at the arming edges, and the shutdown hook's, which runs      *)
(* _stop.  They take no lock and may run side by side.  The odometry       *)
(* history is driven by a copy of the webcam's three methods (174-195) and *)
(* left out.  The rename to the webcam's name (268-281) keeps the identity *)
(* of a bag; where it gives a .active its final name after all it does     *)
(* what the rename before it (245) failed to do, and counts as that.       *)
(***************************************************************************)
EXTENDS Manifest

CONSTANT MaxMishaps      \* bound: mishaps on record at one time
ASSUME MaxMishapsIsCount == MaxMishaps \in Nat

VARIABLES
    file,      \* per bag: "none", the ".active" being written, the ".bag"
    rosbag,    \* per bag, its process: "none" while its name is unused,
               \* "running", "dead" when there is none (any more)
    mark,      \* per bag, the markers created for it: "ready" beside a .bag,
               \* "asis" beside a .active; the host's .synced, by which it
               \* replaces a .ready, is to the node the same as that
    node,      \* up, and the attributes of ArmRecorder
    thread,    \* per thread, its place and the local variable proc
    webcam,    \* "on" once a start has reached the camera in time, until its stop
               \* is tried or the node ends; whether it then stops is not said
    starts,    \* how many calls to start the webcam are on their way
    fate       \* auxiliary: per bag, what befell it, one of Fates

\* Its rosbag outlived the node into the last boot; callback and hook ran
\* side by side while it was the bag at hand; its rosbag survived _stop's
\* attempts to kill it; its last marker could not be created.
Fates == {"missed", "raced", "unkilled", "unmarked"}

vars == <<manifestVars, file, rosbag, mark, node, thread, webcam, starts, fate>>

Threads == {"state", "hook"}
Idle == [pc |-> "idle", proc |-> NoBag]
\* name is what self.cur_bag says of the file: the bag's name, that with
\* ".active" appended, or with more, which no file has.
Fresh == [up |-> TRUE, armed |-> FALSE, proc |-> NoBag, curBag |-> NoBag,
          name |-> "bag", webcamOn |-> FALSE, manifestActive |-> FALSE]

Init ==
    /\ ManifestInit
    /\ file = [b \in Bags |-> "none"]
    /\ rosbag = [b \in Bags |-> "none"]
    /\ mark = [b \in Bags |-> {}]
    /\ node = Fresh
    /\ thread = [c \in Threads |-> Idle]
    /\ webcam = "off" /\ starts = 0
    /\ fate = [b \in Bags |-> {}]

Places == {"idle", "spawn", "popen", "manifest", "camera", "webcam", "call",
           "take", "clear", "wait", "recover", "rename", "save", "join", "finish", "ready",
           "done"}
ThreadType == [pc : Places, proc : Bags \cup {NoBag}]
NodeType == [up : BOOLEAN, armed : BOOLEAN, proc : Bags \cup {NoBag},
             curBag : Bags \cup {NoBag}, name : {"bag", "active", "neither"},
             webcamOn : BOOLEAN, manifestActive : BOOLEAN]

TypeOK ==
    /\ ManifestTypeOK
    /\ file \in [Bags -> {"none", "active", "bag"}]
    /\ rosbag \in [Bags -> {"none", "running", "dead"}]
    /\ mark \in [Bags -> SUBSET {"ready", "asis"}]
    /\ node \in NodeType
    /\ thread \in [Threads -> ThreadType]
    /\ webcam \in {"off", "on"} /\ starts \in Nat
    /\ fate \in [Bags -> SUBSET Fates]

Alive(b) == rosbag[b] = "running"
At(c, place) == node.up /\ thread[c].pc = place
Goto(c, place) == thread' = [thread EXCEPT ![c].pc = place]

Busy(c) == thread[c].pc \notin {"idle", "done"}

\* The bound MaxMishaps is met here.
Mishaps == {p \in Bags \X (Fates \ {"missed"}) : p[2] \in fate[p[1]]}
MayFail == Cardinality(Mishaps) < MaxMishaps

\* The history of a bag that a second thread gets its hands on.
RacedIf(busy, b) ==
    IF busy /\ b # NoBag
    THEN /\ MayFail \/ "raced" \in fate[b]
         /\ fate' = [fate EXCEPT ![b] = @ \cup {"raced"}]
    ELSE UNCHANGED fate

disk == <<file, rosbag, mark>>
camera == <<webcam, starts>>

-----------------------------------------------------------------------------
(* _on_state: the arming edges.  A message that comes while a handler runs *)
(* waits or is dropped; the edge is then seen later or not at all.         *)

\* The bound MaxBags is met here: there is a bag left to arm for.
OnState(armed) ==
    /\ At("state", "idle") /\ armed # node.armed
    /\ armed => \E b \in Bags : rosbag[b] = "none"
    /\ node' = [node EXCEPT !.armed = armed]
    /\ Goto("state", IF ~armed THEN "webcam"
                     ELSE IF node.proc # NoBag /\ Alive(node.proc) THEN "idle" ELSE "spawn")
    /\ RacedIf(Busy("hook"), node.curBag)
    /\ UNCHANGED <<manifestVars, disk, camera>>

\* _start names the bag after the time, a name not used before.
StartNames(b) ==
    /\ At("state", "spawn")
    /\ rosbag[b] = "none" /\ \A a \in 1..(b - 1) : rosbag[a] # "none"
    /\ rosbag' = [rosbag EXCEPT ![b] = "dead"]
    /\ node' = [node EXCEPT !.curBag = b, !.name = "bag"]
    /\ Goto("state", "popen")
    /\ RacedIf(Busy("hook"), b)
    /\ UNCHANGED <<manifestVars, file, mark, camera>>

StartSpawns ==
    /\ At("state", "popen")
    /\ rosbag' = [rosbag EXCEPT ![node.curBag] = "running"]
    /\ node' = [node EXCEPT !.proc = node.curBag]
    /\ Goto("state", "manifest")
    /\ UNCHANGED <<manifestVars, file, mark, camera, fate>>

\* Popen raises, which ends the callback.
StartFails ==
    /\ At("state", "popen")
    /\ Goto("state", "idle")
    /\ UNCHANGED <<manifestVars, disk, node, camera, fate>>

StartManifest ==
    /\ At("state", "manifest")
    /\ \/ /\ Begins(node.curBag)
          /\ node' = [node EXCEPT !.manifestActive = TRUE]
       \/ /\ BeginsWithoutFile(node.curBag)
          /\ node' = [node EXCEPT !.manifestActive = FALSE]
    /\ Goto("state", "camera")
    /\ UNCHANGED <<disk, camera, fate>>

\* _webcam_start: the call is made by a thread of its own.
StartWebcam ==
    /\ At("state", "camera")
    /\ starts' = IF node.webcamOn THEN starts ELSE starts + 1
    /\ node' = [node EXCEPT !.webcamOn = TRUE]
    /\ Goto("state", "idle")
    /\ UNCHANGED <<manifestVars, disk, webcam, fate>>

\* That call reaches the camera or fails; it may come after the stop.
WebcamStarts ==
    /\ starts > 0
    /\ starts' = starts - 1
    /\ webcam' \in {webcam, IF node.webcamOn THEN "on" ELSE webcam}
    /\ UNCHANGED <<manifestVars, disk, node, thread, fate>>

-----------------------------------------------------------------------------
(* _stop, on the thread c.                                                 *)

\* Slip: the camera is stopped with a rosbag that runs, and only with it.
StopWebcamWithRosbag(c) ==
    /\ At(c, "webcam")
    /\ Goto(c, IF node.webcamOn /\ node.proc # NoBag /\ Alive(node.proc) THEN "call" ELSE "take")
    /\ node' = [node EXCEPT !.webcamOn = FALSE]
    /\ UNCHANGED <<manifestVars, disk, camera, fate>>

\* _webcam_stop
StopWebcam(c) ==
    /\ At(c, "webcam")
    /\ Goto(c, IF node.webcamOn THEN "call" ELSE "take")
    /\ node' = [node EXCEPT !.webcamOn = FALSE]
    /\ UNCHANGED <<manifestVars, disk, camera, fate>>

\* The answer of the service is used for the name of the bag, or ignored.
StopCalls(c) ==
    /\ At(c, "call")
    /\ webcam' = "off"
    /\ Goto(c, "take")
    /\ UNCHANGED <<manifestVars, disk, node, starts, fate>>

\* The process is taken from self: read, then cleared.  It is sent SIGINT, on
\* which rosbag closes its file, as it may at any time.
StopTakes(c) ==
    /\ At(c, "take")
    /\ thread' = [thread EXCEPT ![c] = [pc |-> "clear", proc |-> node.proc]]
    /\ UNCHANGED <<manifestVars, disk, node, camera, fate>>

StopClears(c) ==
    /\ At(c, "clear")
    /\ node' = [node EXCEPT !.proc = NoBag]
    /\ Goto(c, IF thread[c].proc = NoBag THEN "recover" ELSE "wait")
    /\ UNCHANGED <<manifestVars, disk, camera, fate>>

\* Slip: the bag is finalized without waiting for the process to end.
StopDoesNotWait(c) ==
    /\ At(c, "wait")
    /\ Goto(c, "recover")
    /\ UNCHANGED <<manifestVars, disk, node, camera, fate>>

\* proc.wait(), after stop_settle seconds terminate, then kill; a process that
\* is still there after that is given up (238).
StopWaits(c) ==
    /\ At(c, "wait")
    /\ \/ /\ rosbag' = [rosbag EXCEPT ![thread[c].proc] = "dead"]
          /\ UNCHANGED fate
       \/ /\ Alive(thread[c].proc) /\ MayFail
          /\ fate' = [fate EXCEPT ![thread[c].proc] = @ \cup {"unkilled"}]
          /\ UNCHANGED rosbag
    /\ thread' = [thread EXCEPT ![c] = [pc |-> "recover", proc |-> NoBag]]
    /\ UNCHANGED <<manifestVars, file, mark, node, camera>>

\* The end of _stop is the end of a callback, or of the shutdown hook.
Ends(c) == Goto(c, IF c = "hook" THEN "done" ELSE "idle")

\* Whether a file has the name self.cur_bag.
Exists(b) == b # NoBag /\ node.name = file[b]

\* Slip: what rosbag left as .active is not a bag to save.
StopLeavesActive(c) ==
    /\ At(c, "recover")
    /\ Goto(c, "save")
    /\ UNCHANGED <<manifestVars, disk, node, camera, fate>>

\* Only a .active is there: it is to be renamed.
StopRecovers(c) ==
    /\ At(c, "recover")
    /\ Goto(c, IF node.name = "bag" /\ node.curBag # NoBag /\ file[node.curBag] = "active"
               THEN "rename" ELSE "save")
    /\ UNCHANGED <<manifestVars, disk, node, camera, fate>>

\* rename() may fail, and does when its source is gone: then cur_bag takes the
\* suffix, and the .active is saved as it is.
StopRenames(c) ==
    /\ At(c, "rename")
    /\ \/ /\ node.name = "bag" /\ file[node.curBag] = "active"
          /\ file' = [file EXCEPT ![node.curBag] = "bag"]
          /\ UNCHANGED node
       \/ /\ node' = [node EXCEPT !.name = IF @ = "bag" THEN "active" ELSE "neither"]
          /\ UNCHANGED file
    /\ Goto(c, "save")
    /\ UNCHANGED <<manifestVars, rosbag, mark, camera, fate>>

\* Without a file nothing is saved.
StopSaves(c) ==
    /\ At(c, "save")
    /\ IF Exists(node.curBag)
       THEN Goto(c, IF node.manifestActive THEN "join" ELSE "ready")
       ELSE Ends(c)
    /\ UNCHANGED <<manifestVars, disk, node, camera, fate>>

StopJoins(c) ==
    /\ At(c, "join")
    /\ Joins
    /\ Goto(c, "finish")
    /\ UNCHANGED <<disk, node, camera, fate>>

\* A finish that raises leaves the sidecar as it was.
StopFinishes(c) ==
    /\ At(c, "finish")
    /\ Finishes(node.curBag) \/ UNCHANGED manifestVars
    /\ node' = [node EXCEPT !.manifestActive = FALSE]
    /\ Goto(c, "ready")
    /\ UNCHANGED <<disk, camera, fate>>

\* The marker _mark_ready puts beside a file of this name; one beside the name
\* of no file is of no bag.
Markers(name) == CASE name = "bag" -> {"ready"} [] name = "active" -> {"asis"} [] OTHER -> {}

\* A marker that cannot be written is only logged.
StopMarks(c) ==
    /\ At(c, "ready")
    /\ \/ /\ mark' = [mark EXCEPT ![node.curBag] = @ \cup Markers(node.name)]
          /\ fate' = [fate EXCEPT ![node.curBag] = @ \ {"unmarked"}]
       \/ /\ MayFail
          /\ fate' = [fate EXCEPT ![node.curBag] = @ \cup {"unmarked"}]
          /\ UNCHANGED mark
    /\ Ends(c)
    /\ UNCHANGED <<manifestVars, file, rosbag, node, camera>>

StopProceeds(c) ==
    \/ StopWebcam(c) \/ StopCalls(c) \/ StopTakes(c) \/ StopClears(c) \/ StopWaits(c)
    \/ StopRecovers(c) \/ StopRenames(c) \/ StopSaves(c) \/ StopJoins(c) \/ StopFinishes(c) \/ StopMarks(c)

StateProceeds ==
    \/ \E b \in Bags : StartNames(b)
    \/ StartSpawns \/ StartFails \/ StartManifest \/ StartWebcam
    \/ StopProceeds("state")

-----------------------------------------------------------------------------
(* The end of the node, and the next one.                                  *)

\* rospy.on_shutdown(self._stop): subscribers are still served meanwhile.
HookStarts ==
    /\ At("hook", "idle")
    /\ Goto("hook", "webcam")
    /\ RacedIf(Busy("state"), node.curBag)
    /\ UNCHANGED <<manifestVars, disk, node, camera>>

\* rosbag lives on: it is in a session of its own (os.setsid).
ProcessEnds ==
    /\ ManifestLost
    /\ node' = [Fresh EXCEPT !.up = FALSE]
    /\ thread' = [c \in Threads |-> Idle]
    /\ starts' = 0
    /\ webcam' = "off"
    /\ UNCHANGED <<disk, fate>>

Exits == At("hook", "done") /\ ProcessEnds

Crashes == node.up /\ ProcessEnds

\* Slip: only the bag of a complete sidecar is an orphan.
OrphansWithSidecar == {b \in Bags : file[b] = "bag" /\ "ready" \notin mark[b]
                                    /\ sidecar[b] = "complete"}

\* The files named *.bag at this moment that have neither marker.
Orphans == {b \in Bags : file[b] = "bag" /\ "ready" \notin mark[b]}

\* _recover_orphans marks them; the scan, or any of the markers, may fail.
RecoverOrphans ==
    \E lost \in SUBSET Orphans :
        /\ lost # {} => MayFail
        /\ mark' = [b \in Bags |-> IF b \in Orphans \ lost THEN mark[b] \cup {"ready"} ELSE mark[b]]
        /\ fate' = [b \in Bags |->
                      (fate[b] \ ({"missed"} \cup IF b \in Orphans THEN {"unmarked"} ELSE {}))
                          \cup (IF Alive(b) THEN {"missed"} ELSE {})
                          \cup (IF b \in lost THEN {"unmarked"} ELSE {})]

Boots ==
    /\ ~node.up
    /\ node' = Fresh
    /\ RecoverOrphans
    /\ UNCHANGED <<manifestVars, file, rosbag, thread, camera>>

-----------------------------------------------------------------------------
(* The processes outside the node.                                         *)

RosbagOpens(b) ==
    /\ Alive(b) /\ file[b] = "none"
    /\ file' = [file EXCEPT ![b] = "active"]
    /\ UNCHANGED <<manifestVars, rosbag, mark, node, thread, camera, fate>>

\* It closes its file and leaves: after SIGINT, or shut down from elsewhere.
RosbagFinalizes(b) ==
    /\ Alive(b)
    /\ file' = [file EXCEPT ![b] = IF @ = "active" THEN "bag" ELSE @]
    /\ rosbag' = [rosbag EXCEPT ![b] = "dead"]
    /\ UNCHANGED <<manifestVars, mark, node, thread, camera, fate>>

\* It dies with its file unfinished.
RosbagDies(b) ==
    /\ Alive(b)
    /\ rosbag' = [rosbag EXCEPT ![b] = "dead"]
    /\ UNCHANGED <<manifestVars, file, mark, node, thread, camera, fate>>

CaptureDone(b) ==
    CaptureEnds(b) /\ UNCHANGED <<disk, node, thread, camera, fate>>

-----------------------------------------------------------------------------
Next ==
    \/ \E armed \in BOOLEAN : OnState(armed)
    \/ StateProceeds
    \/ HookStarts \/ StopProceeds("hook") \/ Exits
    \/ Crashes \/ Boots
    \/ WebcamStarts
    \/ \E b \in Bags : \/ CaptureDone(b)
                       \/ RosbagOpens(b) \/ RosbagFinalizes(b) \/ RosbagDies(b)

Spec == Init /\ [][Next]_vars

\* A started callback runs to its end, the camera's answer included, for which
\* it waits without a limit (200); the commands of captures time out.  Nothing
\* is asked of rosbag, of a start of the camera, the hook or the next boot.
FairSpec ==
    /\ Spec
    /\ WF_vars(StateProceeds)
    /\ WF_vars(\E b \in Bags : CaptureDone(b))
=============================================================================
