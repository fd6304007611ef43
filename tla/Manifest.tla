------------------------------ MODULE Manifest ------------------------------
(***************************************************************************)
(* RuntimeManifestRecorder (src/src/flight_safety/runtime_manifest.py):    *)
(* the YAML sidecar of a bag, begun when the vehicle arms, supplemented by *)
(* a capture thread, finished when it disarms.                             *)
(*                                                                         *)
(* Of a document only capture_status is kept, and "complete" stands for    *)
(* "complete_with_errors" too; every write of a sidecar is                 *)
(* atomic (_write_atomic).  A bag and its sidecar are renamed together and *)
(* keep one identity here.                                                 *)
(***************************************************************************)
EXTENDS Naturals, FiniteSets

CONSTANT MaxBags         \* bound: arming sessions
ASSUME MaxBagsIsCount == MaxBags \in Nat

Bags == 1..MaxBags
NoBag == 0               \* None

VARIABLES
    sidecar,   \* per bag, the capture_status of the file beside it
    manifest,  \* the bag of self._path and self._document; that of self._thread
    captures   \* the bags whose _capture_start is still running

manifestVars == <<sidecar, manifest, captures>>

NoManifest == [bag |-> NoBag, thread |-> NoBag]

ManifestInit ==
    /\ sidecar = [b \in Bags |-> "none"]
    /\ manifest = NoManifest
    /\ captures = {}

ManifestTypeOK ==
    /\ sidecar \in [Bags -> {"none", "capturing_start", "recording", "complete"}]
    /\ manifest \in [bag : Bags \cup {NoBag}, thread : Bags \cup {NoBag}]
    /\ captures \subseteq Bags

\* start(): the first document is on disk before the capture thread runs.
Begins(b) ==
    /\ sidecar' = [sidecar EXCEPT ![b] = "capturing_start"]
    /\ manifest' = [bag |-> b, thread |-> b]
    /\ captures' = captures \cup {b}

\* start() raises while it writes: the document and path are set by then.
BeginsWithoutFile(b) ==
    /\ manifest' = [manifest EXCEPT !.bag = b]
    /\ UNCHANGED <<sidecar, captures>>

\* Slip: a capture_status that no reader of sidecars knows.
CaptureEndsUnknown(b) ==
    /\ b \in captures
    /\ captures' = captures \ {b}
    /\ sidecar' = [sidecar EXCEPT ![manifest.bag] = "captured"]
    /\ UNCHANGED manifest

\* _capture_start: a thread writes at whatever self._path is when it ends.
CaptureEnds(b) ==
    /\ b \in captures
    /\ captures' = captures \ {b}
    /\ sidecar' = [sidecar EXCEPT ![manifest.bag] = "recording"]
    /\ UNCHANGED manifest

\* Slip: the sidecar is finished beside a capture that still runs.
JoinsNothing == manifest' = [manifest EXCEPT !.thread = NoBag]
                /\ UNCHANGED <<sidecar, captures>>

\* finish(): self._thread.join()
Joins ==
    /\ manifest.thread \notin captures
    /\ manifest' = [manifest EXCEPT !.thread = NoBag]
    /\ UNCHANGED <<sidecar, captures>>

\* finish(): the complete document replaces the one kept under the arm name.
Finishes(b) ==
    /\ sidecar' = [a \in Bags |-> IF a = b THEN "complete"
                                  ELSE IF a = manifest.bag THEN "none" ELSE sidecar[a]]
    /\ manifest' = [manifest EXCEPT !.bag = b]
    /\ UNCHANGED captures

\* The process is gone, its threads with it.
ManifestLost == manifest' = NoManifest /\ captures' = {} /\ UNCHANGED sidecar
=============================================================================
