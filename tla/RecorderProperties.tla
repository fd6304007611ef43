------------------------- MODULE RecorderProperties -------------------------
(***************************************************************************)
(* What the recorder promises about a bag, its sidecar and the camera.     *)
(*                                                                         *)
(* Where a callback and the shutdown hook run side by side the first two   *)
(* promises are lost for the bag at hand, "raced", and for no other.       *)
(***************************************************************************)
EXTENDS Recorder

\* A bag is offered to the host only when no rosbag writes it any more, and
\* under the name of a bag only when its file has that name: through crashes,
\* orphans, rosbag processes that outlive the node, renames and markers that
\* fail, and overlapping stops of another bag.  A .active that cannot be
\* renamed is offered as such, on purpose (248); a process that survives
\* kill() is given up and its bag offered all the same (238)
\* (recorder_node.py 209-266, 283-322).
ReadyIsFinal ==
    \A b \in Bags : "raced" \notin fate[b] =>
        /\ mark[b] # {} => rosbag[b] = "dead" \/ "unkilled" \in fate[b]
        /\ "ready" \in mark[b] => file[b] = "bag"

\* Once a bag is offered its sidecar is not written again: bag and sidecar
\* travel as a coherent pair, whatever stops of other bags overlap.  Only a
\* capture left over from a session that had no bag can still write at the
\* path of this one (recorder_node.py 255-264, finish of runtime_manifest.py
\* 117-159 with the thread it joins).
SidecarIsFrozen ==
    [][\A b \in Bags :
        "raced" \notin fate[b] /\ mark[b] # {} /\ sidecar'[b] # sidecar[b] =>
           \E a \in captures \ captures' : a # b]_vars

Resting == node.up /\ \A c \in Threads : thread[c].pc = "idle"

\* While the node rests, disarmed, every finished bag is offered, whatever the
\* processes before this one did to it, except one whose rosbag was still at
\* work at the last boot or survived its stop, and one whose marker could not
\* be created (recorder_node.py 240-264, 287 and the orphan scan 302-322).
NothingIsStranded ==
    Resting /\ ~node.armed =>
        \A b \in Bags : file[b] = "bag" =>
            \/ "ready" \in mark[b]
            \/ fate[b] \cap {"missed", "unkilled", "unmarked"} # {}

\* While the node rests, disarmed, no camera records whose stop was not tried:
\* every end of a session stops it, also one whose rosbag failed.  A stop that
\* failed, and a start that came after the stop, leave it on for all that
\* (recorder_node.py 161-172, 209-211).
CameraIsOff == Resting /\ ~node.armed => webcam # "on"

\* A stop that finds something recorded, once the camera has answered, ends in a
\* marker, whatever fails on its way: rosbag, the sidecar, the rename; unless the
\* marker itself cannot be created, which is only logged (287), the rosbag
\* survives the stop or the shutdown hook steps in (recorder_node.py 212-264).
StoppedIsQueued ==
    \A b \in Bags :
        (At("state", "take") /\ node.curBag = b /\ file[b] # "none")
            ~> \/ mark[b] # {} \/ ~node.up
               \/ fate[b] \cap {"unmarked", "unkilled", "raced"} # {}
=============================================================================
