--------------------------- MODULE RecorderProofs ---------------------------
(***************************************************************************)
(* What is proved of the recorder for any number of sessions, crashes and  *)
(* mishaps, whichever stops overlap.                                       *)
(***************************************************************************)
EXTENDS RecorderProperties, TLAPS

\* A bag that no two threads had at hand at the same time.
Clean(b) == b \in Bags /\ "raced" \notin fate[b]

\* A rosbag that is gone, or was given up.
Over(b) == rosbag[b] = "dead" \/ "unkilled" \in fate[b]

\* The places of _start after the edge, and of _stop after the process was
\* waited for.
Starting == {"spawn", "popen", "manifest", "camera"}
Named == {"popen", "manifest", "camera"}
Saving == {"recover", "rename", "save", "join", "finish", "ready"}

\* What holds of the threads whatever overlaps.
Threading ==
    /\ ~node.up => \A c \in Threads : thread[c].pc = "idle"
    /\ thread["hook"].pc \notin Starting
    /\ thread["state"].pc # "done"
    /\ thread["state"].pc \in Named => node.curBag # NoBag
    /\ \A c \in Threads :
           /\ thread[c].pc \in {"rename", "join", "finish", "ready"} => node.curBag # NoBag
           /\ thread[c].pc = "wait" => thread[c].proc # NoBag

\* Bags not named yet; the bag at hand, if clean, is one thread's.
Names ==
    /\ \A b \in Bags : rosbag[b] = "none" =>
           file[b] = "none" /\ mark[b] = {} /\ fate[b] = {} /\ b \notin captures
    /\ node.curBag # NoBag => rosbag[node.curBag] # "none"

Sole == Clean(node.curBag) => \E c \in Threads : ~Busy(c)

\* A clean bag: only final files are offered, and without a writer.
Files ==
    \A b \in Bags : Clean(b) =>
        /\ file[b] = "bag" => Over(b)
        /\ "ready" \in mark[b] => file[b] = "bag"
        /\ mark[b] # {} => Over(b)

\* The clean bag at hand: its rosbag is held until _stop has waited for it, and
\* its name is that of the file.
Hands ==
    Clean(node.curBag) =>
        /\ Over(node.curBag) \/ node.proc = node.curBag
               \/ \E c \in Threads : thread[c].pc = "wait" /\ thread[c].proc = node.curBag
        /\ node.name = "bag" \/ (node.name = "active"
               /\ ("unkilled" \in fate[node.curBag]
                     \/ (file[node.curBag] = "active" /\ rosbag[node.curBag] = "dead")))
        /\ thread["state"].pc = "popen" =>
               /\ file[node.curBag] = "none" /\ mark[node.curBag] = {}
               /\ rosbag[node.curBag] = "dead"
        /\ \A c \in Threads :
               /\ thread[c].pc = "clear" => thread[c].proc = node.proc
               /\ thread[c].pc \in Saving \cup {"wait"} => node.proc = NoBag
               /\ thread[c].pc \in Saving => Over(node.curBag)
               /\ thread[c].pc = "rename" =>
                      node.name = "bag" /\ (file[node.curBag] = "active"
                                              \/ "unkilled" \in fate[node.curBag])
               /\ thread[c].pc \in {"join", "finish", "ready"} =>
                      (node.name = "bag" => file[node.curBag] = "bag")

Inv == TypeOK /\ Threading /\ Names /\ Sole /\ Files /\ Hands

-----------------------------------------------------------------------------
(* Types.                                                                  *)

LEMMA GotoType ==
    ASSUME thread \in [Threads -> ThreadType], NEW c \in Threads,
           NEW place \in Places, Goto(c, place)
    PROVE  thread' \in [Threads -> ThreadType]
BY DEF Goto, ThreadType

LEMMA RacedIfType ==
    ASSUME TypeOK, NEW busy, NEW b \in Bags \cup {NoBag}, RacedIf(busy, b)
    PROVE  fate' \in [Bags -> SUBSET Fates]
BY DEF TypeOK, RacedIf, Fates

LEMMA NoBagIsNone == NoBag \notin Bags
BY MaxBagsIsCount DEF Bags, NoBag

LEMMA TypeInit == Init => TypeOK
BY MaxBagsIsCount DEF Init, TypeOK, ManifestInit, ManifestTypeOK, NoManifest, Idle, Fresh,
   NodeType, ThreadType, Places, NoBag

LEMMA StateTypes ==
    ASSUME TypeOK, Threading,
           \/ \E armed \in BOOLEAN : OnState(armed)
           \/ \E b \in Bags : StartNames(b)
           \/ StartSpawns \/ StartFails \/ StartManifest \/ StartWebcam
    PROVE  TypeOK'
<1> USE DEF manifestVars, disk, camera
<1>0. "state" \in Threads
  BY DEF Threads
<1>1. ASSUME NEW armed \in BOOLEAN, OnState(armed) PROVE TypeOK'
  <2>1. thread' \in [Threads -> ThreadType]
    BY <1>0, <1>1, GotoType DEF TypeOK, OnState, Places
  <2>2. node' \in NodeType
    BY <1>1 DEF TypeOK, OnState, NodeType
  <2>3. fate' \in [Bags -> SUBSET Fates]
    BY <1>1, RacedIfType DEF TypeOK, OnState, NodeType
  <2> QED BY <1>1, <2>1, <2>2, <2>3 DEF TypeOK, ManifestTypeOK, OnState
<1>2. ASSUME NEW b \in Bags, StartNames(b) PROVE TypeOK'
  <2>1. thread' \in [Threads -> ThreadType]
    BY <1>0, <1>2, GotoType DEF TypeOK, StartNames, Places
  <2>2. node' \in NodeType
    BY <1>2 DEF TypeOK, StartNames, NodeType
  <2>3. fate' \in [Bags -> SUBSET Fates]
    BY <1>2, RacedIfType DEF StartNames
  <2> QED BY <1>2, <2>1, <2>2, <2>3 DEF TypeOK, ManifestTypeOK, StartNames
<1>3. CASE StartSpawns
  <2>1. thread' \in [Threads -> ThreadType]
    BY <1>0, <1>3, GotoType DEF TypeOK, StartSpawns, Places
  <2>2. node' \in NodeType
    BY <1>3 DEF TypeOK, StartSpawns, NodeType
  <2> QED BY <1>3, <2>1, <2>2 DEF TypeOK, ManifestTypeOK, StartSpawns
<1>4. CASE StartFails
  <2>1. thread' \in [Threads -> ThreadType]
    BY <1>0, <1>4, GotoType DEF TypeOK, StartFails, Places
  <2> QED BY <1>4, <2>1 DEF TypeOK, ManifestTypeOK, StartFails
<1>5. CASE StartManifest
  <2>1. thread' \in [Threads -> ThreadType]
    BY <1>0, <1>5, GotoType DEF TypeOK, StartManifest, Places
  <2>2. node' \in NodeType
    BY <1>5 DEF TypeOK, StartManifest, NodeType
  <2>3. ManifestTypeOK'
    <3>1. node.curBag \in Bags
      BY <1>5 DEF TypeOK, NodeType, Threading, Named, StartManifest, At
    <3> QED BY <1>5, <3>1 DEF TypeOK, ManifestTypeOK, StartManifest, Begins, BeginsWithoutFile
  <2> QED BY <1>5, <2>1, <2>2, <2>3 DEF TypeOK, StartManifest
<1>6. CASE StartWebcam
  <2>1. thread' \in [Threads -> ThreadType]
    BY <1>0, <1>6, GotoType DEF TypeOK, StartWebcam, Places
  <2>2. node' \in NodeType
    BY <1>6 DEF TypeOK, StartWebcam, NodeType
  <2>3. starts' \in Nat
    BY <1>6 DEF TypeOK, StartWebcam
  <2> QED BY <1>6, <2>1, <2>2, <2>3 DEF TypeOK, ManifestTypeOK, StartWebcam
<1> QED BY <1>1, <1>2, <1>3, <1>4, <1>5, <1>6

LEMMA StopTypes ==
    ASSUME TypeOK, Threading, NEW c \in Threads, StopProceeds(c)
    PROVE  TypeOK'
<1> USE DEF manifestVars, disk, camera
<1>1. CASE StopWebcam(c)
  <2>1. thread' \in [Threads -> ThreadType]
    BY <1>1, GotoType DEF TypeOK, StopWebcam, Places
  <2>2. node' \in NodeType
    BY <1>1 DEF TypeOK, StopWebcam, NodeType
  <2> QED BY <1>1, <2>1, <2>2 DEF TypeOK, ManifestTypeOK, StopWebcam
<1>2. CASE StopCalls(c)
  <2>1. thread' \in [Threads -> ThreadType]
    BY <1>2, GotoType DEF TypeOK, StopCalls, Places
  <2> QED BY <1>2, <2>1 DEF TypeOK, ManifestTypeOK, StopCalls
<1>3. CASE StopTakes(c)
  <2>1. thread' \in [Threads -> ThreadType]
    BY <1>3 DEF TypeOK, StopTakes, Places, ThreadType, NodeType
  <2> QED BY <1>3, <2>1 DEF TypeOK, ManifestTypeOK, StopTakes
<1>4. CASE StopClears(c)
  <2>1. thread' \in [Threads -> ThreadType]
    BY <1>4, GotoType DEF TypeOK, StopClears, Places
  <2>2. node' \in NodeType
    BY <1>4 DEF TypeOK, StopClears, NodeType
  <2> QED BY <1>4, <2>1, <2>2 DEF TypeOK, ManifestTypeOK, StopClears
<1>5. CASE StopWaits(c)
  <2>1. thread' \in [Threads -> ThreadType]
    BY <1>5 DEF TypeOK, StopWaits, Places, ThreadType
  <2>2. fate' \in [Bags -> SUBSET Fates]
    BY <1>5 DEF TypeOK, StopWaits, Fates
  <2>3. rosbag' \in [Bags -> {"none", "running", "dead"}]
    BY <1>5 DEF TypeOK, StopWaits
  <2> QED BY <1>5, <2>1, <2>2, <2>3 DEF TypeOK, ManifestTypeOK, StopWaits
<1>6. CASE StopRecovers(c)
  <2>1. thread' \in [Threads -> ThreadType]
    BY <1>6, GotoType DEF TypeOK, StopRecovers, Places
  <2> QED BY <1>6, <2>1 DEF TypeOK, ManifestTypeOK, StopRecovers
<1>7. CASE StopRenames(c)
  <2>1. thread' \in [Threads -> ThreadType]
    BY <1>7, GotoType DEF TypeOK, StopRenames, Places
  <2>2. node' \in NodeType
    BY <1>7 DEF TypeOK, StopRenames, NodeType
  <2> QED BY <1>7, <2>1, <2>2 DEF TypeOK, ManifestTypeOK, StopRenames
<1>8. CASE StopSaves(c)
  <2>1. thread' \in [Threads -> ThreadType]
    BY <1>8, GotoType DEF TypeOK, StopSaves, Ends, Places
  <2> QED BY <1>8, <2>1 DEF TypeOK, ManifestTypeOK, StopSaves
<1>9. CASE StopJoins(c)
  <2>1. thread' \in [Threads -> ThreadType]
    BY <1>9, GotoType DEF TypeOK, StopJoins, Places
  <2> QED BY <1>9, <2>1 DEF TypeOK, ManifestTypeOK, StopJoins, Joins, NoBag
<1>10. CASE StopFinishes(c)
  <2>1. thread' \in [Threads -> ThreadType]
    BY <1>10, GotoType DEF TypeOK, StopFinishes, Places
  <2>2. node' \in NodeType
    BY <1>10 DEF TypeOK, StopFinishes, NodeType
  <2>3. ManifestTypeOK'
    BY <1>10 DEF TypeOK, NodeType, ManifestTypeOK, StopFinishes, Finishes
  <2> QED BY <1>10, <2>1, <2>2, <2>3 DEF TypeOK, StopFinishes
<1>11. CASE StopMarks(c)
  <2>1. thread' \in [Threads -> ThreadType]
    BY <1>11, GotoType DEF TypeOK, StopMarks, Ends, Places
  <2>2. fate' \in [Bags -> SUBSET Fates]
    BY <1>11 DEF TypeOK, StopMarks, Fates
  <2>3. mark' \in [Bags -> SUBSET {"ready", "asis"}]
    BY <1>11 DEF TypeOK, StopMarks, Markers
  <2> QED BY <1>11, <2>1, <2>2, <2>3 DEF TypeOK, ManifestTypeOK, StopMarks
<1> QED BY <1>1, <1>2, <1>3, <1>4, <1>5, <1>6, <1>7, <1>8, <1>9, <1>10, <1>11 DEF StopProceeds

LEMMA OtherTypes ==
    ASSUME TypeOK,
           \/ HookStarts \/ Exits \/ Crashes \/ Boots \/ WebcamStarts
           \/ \E b \in Bags : \/ CaptureDone(b)
                              \/ RosbagOpens(b) \/ RosbagFinalizes(b) \/ RosbagDies(b)
    PROVE  TypeOK'
<1> USE DEF manifestVars, disk, camera
<1>1. CASE HookStarts
  <2>1. thread' \in [Threads -> ThreadType]
    BY <1>1, GotoType DEF TypeOK, HookStarts, Places, Threads
  <2>2. fate' \in [Bags -> SUBSET Fates]
    BY <1>1, RacedIfType DEF TypeOK, HookStarts, NodeType
  <2> QED BY <1>1, <2>1, <2>2 DEF TypeOK, ManifestTypeOK, HookStarts
<1>2. CASE ProcessEnds
  BY <1>2 DEF TypeOK, ManifestTypeOK, ProcessEnds, ManifestLost, NoManifest, NoBag, Fresh,
     NodeType, Idle, ThreadType, Places
<1>3. CASE Boots
  <2>1. mark' \in [Bags -> SUBSET {"ready", "asis"}]
    BY <1>3 DEF TypeOK, Boots, RecoverOrphans
  <2>2. fate' \in [Bags -> SUBSET Fates]
    BY <1>3 DEF TypeOK, Boots, RecoverOrphans, Fates
  <2> QED BY <1>3, <2>1, <2>2 DEF TypeOK, ManifestTypeOK, Boots, Fresh, NodeType, NoBag
<1>4. CASE WebcamStarts
  BY <1>4 DEF TypeOK, ManifestTypeOK, WebcamStarts
<1>5. ASSUME NEW b \in Bags,
             \/ CaptureDone(b)
             \/ RosbagOpens(b) \/ RosbagFinalizes(b) \/ RosbagDies(b)
      PROVE  TypeOK'
  BY <1>5 DEF TypeOK, ManifestTypeOK, CaptureDone, CaptureEnds,
     RosbagOpens, RosbagFinalizes, RosbagDies
<1> QED BY <1>1, <1>2, <1>3, <1>4, <1>5 DEF Exits, Crashes

LEMMA TypeStep == ASSUME TypeOK, Threading, [Next]_vars PROVE TypeOK'
<1>1. CASE StateProceeds
  BY <1>1, StateTypes, StopTypes DEF StateProceeds, Threads
<1>2. CASE StopProceeds("hook")
  BY <1>2, StopTypes DEF Threads
<1>3. CASE UNCHANGED vars
  BY <1>3 DEF vars, manifestVars, TypeOK, ManifestTypeOK
<1> QED BY <1>1, <1>2, <1>3, StateTypes, OtherTypes DEF Next

LEMMA InitInv == Init => Inv
<1> SUFFICES ASSUME Init PROVE Inv
  OBVIOUS
<1>1. TypeOK
  BY TypeInit
<1>2. Threading
  BY DEF Init, Threading, Idle, Fresh, Threads, Starting, Named
<1>3. Names
  BY DEF Init, Names, Fresh, ManifestInit
<1>4. Sole /\ Hands
  BY NoBagIsNone DEF Init, Sole, Hands, Clean, Fresh
<1>5. Files
  BY DEF Init, Files, Clean
<1> QED BY <1>1, <1>2, <1>3, <1>4, <1>5 DEF Inv

-----------------------------------------------------------------------------
(* What steps leave alone.                                                 *)

\* A bag that was raced for stays so.
LEMMA CleanStays ==
    ASSUME TypeOK, [Next]_vars, NEW b \in Bags, Clean(b)'
    PROVE  Clean(b)
<1> SUFFICES ASSUME "raced" \in fate[b] PROVE "raced" \in fate'[b]
  BY DEF Clean
<1> USE DEF TypeOK
<1>1. ASSUME NEW c \in Threads, StopProceeds(c) PROVE "raced" \in fate'[b]
  BY <1>1 DEF StopProceeds, StopWebcam, StopCalls, StopTakes, StopClears, StopWaits,
     StopRecovers, StopRenames, StopSaves, StopJoins, StopFinishes, StopMarks
<1>2. CASE StateProceeds
  <2>1. CASE \E a \in Bags : StartNames(a)
    BY <2>1 DEF StartNames, RacedIf
  <2>2. CASE StartSpawns \/ StartFails \/ StartManifest \/ StartWebcam
    BY <2>2 DEF StartSpawns, StartFails, StartManifest, StartWebcam
  <2> QED BY <1>1, <1>2, <2>1, <2>2 DEF StateProceeds, Threads
<1>3. CASE (\E armed \in BOOLEAN : OnState(armed)) \/ HookStarts
  BY <1>3 DEF OnState, HookStarts, RacedIf
<1>4. CASE StopProceeds("hook")
  BY <1>1, <1>4 DEF Threads
<1>5. CASE Exits \/ Crashes \/ WebcamStarts
  BY <1>5 DEF Exits, Crashes, ProcessEnds, WebcamStarts
<1>6. CASE Boots
  BY <1>6 DEF Boots, RecoverOrphans
<1>7. CASE \E a \in Bags : \/ CaptureDone(a)
                          \/ RosbagOpens(a) \/ RosbagFinalizes(a) \/ RosbagDies(a)
  BY <1>7 DEF CaptureDone, RosbagOpens, RosbagFinalizes, RosbagDies
<1>8. CASE UNCHANGED vars
  BY <1>8 DEF vars
<1> QED BY <1>2, <1>3, <1>4, <1>5, <1>6, <1>7, <1>8 DEF Next

LEMMA ThreadingStep == ASSUME Inv, [Next]_vars PROVE Threading'
<1> USE DEF Inv, TypeOK, Threading, ThreadType, NodeType, Goto, At, Starting, Named
<1>1. ASSUME NEW armed \in BOOLEAN, OnState(armed) PROVE Threading'
  BY <1>1 DEF OnState, Threads
<1>2. ASSUME NEW b \in Bags, StartNames(b) PROVE Threading'
  BY <1>2, NoBagIsNone DEF StartNames, Threads
<1>3. CASE StartSpawns \/ StartFails \/ StartManifest \/ StartWebcam
  BY <1>3 DEF StartSpawns, StartFails, StartManifest, StartWebcam, Threads
<1>4. ASSUME NEW c \in Threads, StopProceeds(c) PROVE Threading'
  <2>1. CASE StopWebcam(c) \/ StopCalls(c)
    BY <1>4, <2>1 DEF StopWebcam, StopCalls, Threads
  <2>2. CASE StopTakes(c) \/ StopClears(c)
    BY <1>4, <2>2 DEF StopTakes, StopClears, Threads
  <2>3. CASE StopWaits(c)
    BY <1>4, <2>3 DEF StopWaits, Threads
  <2>4. CASE StopRecovers(c) \/ StopRenames(c)
    BY <1>4, <2>4 DEF StopRecovers, StopRenames, Threads
  <2>5. CASE StopSaves(c)
    BY <1>4, <2>5 DEF StopSaves, Ends, Exists, Threads
  <2>6. CASE StopJoins(c) \/ StopFinishes(c)
    BY <1>4, <2>6 DEF StopJoins, StopFinishes, Threads
  <2>7. CASE StopMarks(c)
    BY <1>4, <2>7 DEF StopMarks, Ends, Threads
  <2> QED BY <1>4, <2>1, <2>2, <2>3, <2>4, <2>5, <2>6, <2>7 DEF StopProceeds
<1>5. CASE HookStarts
  BY <1>5 DEF HookStarts, Threads
<1>6. CASE ProcessEnds
  BY <1>6 DEF ProcessEnds, Idle, Fresh, Threads
<1>7. CASE Boots
  BY <1>7 DEF Boots, Fresh, Threads
<1>8. CASE UNCHANGED <<node, thread>>
  BY <1>8
<1> QED
  BY <1>1, <1>2, <1>3, <1>4, <1>5, <1>6, <1>7, <1>8
  DEF Next, StateProceeds, Threads, Exits, Crashes, vars, WebcamStarts, CaptureDone,
      RosbagOpens, RosbagFinalizes, RosbagDies

LEMMA NamesStep == ASSUME Inv, [Next]_vars PROVE Names'
<1> USE DEF Inv, Names, TypeOK, ManifestTypeOK, NodeType, manifestVars, disk
<1>1. ASSUME NEW armed \in BOOLEAN, OnState(armed) PROVE Names'
  BY <1>1, NoBagIsNone DEF OnState, RacedIf
<1>2. ASSUME NEW b \in Bags, StartNames(b) PROVE Names'
  BY <1>2, NoBagIsNone DEF StartNames, RacedIf
<1>3. CASE StartSpawns
  BY <1>3 DEF StartSpawns, At, Threading, Named
<1>4. CASE StartFails \/ StartWebcam \/ WebcamStarts
  BY <1>4 DEF StartFails, StartWebcam, WebcamStarts
<1>5. CASE StartManifest
  BY <1>5 DEF StartManifest, Begins, BeginsWithoutFile, At, Threading, Named
<1>6. ASSUME NEW c \in Threads, StopProceeds(c) PROVE Names'
  <2>1. CASE StopWebcam(c) \/ StopCalls(c) \/ StopTakes(c) \/ StopClears(c)
             \/ StopRecovers(c) \/ StopSaves(c)
    BY <2>1 DEF StopWebcam, StopCalls, StopTakes, StopClears, StopRecovers, StopSaves
  <2>2. CASE StopWaits(c)
    BY <2>2, NoBagIsNone DEF StopWaits, Alive
  <2>3. CASE StopRenames(c)
    BY <2>3 DEF StopRenames
  <2>4. CASE StopJoins(c) \/ StopFinishes(c)
    BY <2>4 DEF StopJoins, StopFinishes, Joins, Finishes
  <2>5. CASE StopMarks(c)
    BY <2>5 DEF StopMarks, At, Threading
  <2> QED BY <1>6, <2>1, <2>2, <2>3, <2>4, <2>5 DEF StopProceeds
<1>7. CASE HookStarts
  BY <1>7, NoBagIsNone DEF HookStarts, RacedIf
<1>8. CASE ProcessEnds
  BY <1>8 DEF ProcessEnds, ManifestLost, Fresh
<1>9. CASE Boots
  BY <1>9 DEF Boots, RecoverOrphans, Orphans, Alive, Fresh
<1>10. ASSUME NEW b \in Bags,
              \/ CaptureDone(b)
              \/ RosbagOpens(b) \/ RosbagFinalizes(b) \/ RosbagDies(b)
       PROVE  Names'
  BY <1>10 DEF CaptureDone, CaptureEnds, RosbagOpens, RosbagFinalizes, RosbagDies, Alive
<1>11. CASE UNCHANGED vars
  BY <1>11 DEF vars
<1> QED
  BY <1>1, <1>2, <1>3, <1>4, <1>5, <1>6, <1>7, <1>8, <1>9, <1>10, <1>11
  DEF Next, StateProceeds, Threads, Exits, Crashes

LEMMA SoleStep == ASSUME Inv, [Next]_vars PROVE Sole'
<1> SUFFICES ASSUME Clean(node.curBag)' PROVE (\E c \in Threads : ~Busy(c))'
  BY DEF Sole
<1> DEFINE b == node'.curBag
<1>0. b \in Bags /\ Clean(b)
  BY CleanStays DEF Clean, Inv
<1> USE DEF Inv, TypeOK, ThreadType, NodeType, Goto, At, Busy, Threads
<1>1. ASSUME NEW armed \in BOOLEAN, OnState(armed) PROVE (\E c \in Threads : ~Busy(c))'
  BY <1>1, <1>0, NoBagIsNone DEF OnState, RacedIf, Clean
<1>2. ASSUME NEW a \in Bags, StartNames(a) PROVE (\E c \in Threads : ~Busy(c))'
  BY <1>2, <1>0, NoBagIsNone DEF StartNames, RacedIf, Clean
<1>3. CASE HookStarts
  BY <1>3, <1>0, NoBagIsNone DEF HookStarts, RacedIf, Clean
<1>4. CASE ProcessEnds \/ Boots
  BY <1>0, <1>4, NoBagIsNone DEF ProcessEnds, Boots, Fresh
<1>5. ASSUME b = node.curBag, \A c \in Threads : ~Busy(c) => ~Busy(c)'
      PROVE  (\E c \in Threads : ~Busy(c))'
  BY <1>0, <1>5 DEF Sole
<1>6. CASE StartSpawns \/ StartFails \/ StartManifest \/ StartWebcam
  BY <1>5, <1>6 DEF StartSpawns, StartFails, StartManifest, StartWebcam
<1>7. ASSUME NEW c \in Threads, StopProceeds(c)
      PROVE  b = node.curBag /\ \A d \in Threads : ~Busy(d) => ~Busy(d)'
  <2>1. CASE StopWebcam(c) \/ StopCalls(c) \/ StopTakes(c) \/ StopClears(c)
    BY <2>1 DEF StopWebcam, StopCalls, StopTakes, StopClears
  <2>2. CASE StopWaits(c)
    BY <2>2 DEF StopWaits
  <2>3. CASE StopRecovers(c) \/ StopRenames(c) \/ StopSaves(c)
    BY <2>3 DEF StopRecovers, StopRenames, StopSaves, Ends
  <2>4. CASE StopJoins(c) \/ StopFinishes(c)
    BY <2>4 DEF StopJoins, StopFinishes
  <2>5. CASE StopMarks(c)
    BY <2>5 DEF StopMarks, Ends
  <2> QED BY <1>7, <2>1, <2>2, <2>3, <2>4, <2>5 DEF StopProceeds
<1>8. CASE UNCHANGED <<node, thread>>
  BY <1>5, <1>8
<1> QED
  BY <1>1, <1>2, <1>3, <1>4, <1>5, <1>6, <1>7, <1>8
  DEF Next, StateProceeds, Exits, Crashes, vars, WebcamStarts, CaptureDone,
      RosbagOpens, RosbagFinalizes, RosbagDies

LEMMA FilesStep == ASSUME Inv, [Next]_vars PROVE Files'
<1> DEFINE Filed(b) == /\ file[b] = "bag" => Over(b)
                       /\ "ready" \in mark[b] => file[b] = "bag"
                       /\ mark[b] # {} => Over(b)
<1> SUFFICES ASSUME NEW b \in Bags, Clean(b)' PROVE Filed(b)'
  BY DEF Files
<1>0. Clean(b) /\ Filed(b)
  BY CleanStays DEF Inv, Files
<1> USE <1>0 DEF Over, TypeOK, NodeType, ThreadType, Goto, At, Threads, disk
<1>1. CASE UNCHANGED <<file, rosbag, mark, fate>>
  BY <1>1
<1>2. ASSUME NEW c, NEW a, RacedIf(c, a), UNCHANGED <<file, rosbag, mark>> PROVE Filed(b)'
  BY <1>2 DEF RacedIf, Inv
<1>3. ASSUME NEW a \in Bags, StartNames(a) PROVE Filed(b)'
  BY <1>3 DEF StartNames, RacedIf, Inv, Names
<1>4. CASE StartSpawns
  BY <1>4 DEF StartSpawns, Inv, Hands
<1>5. ASSUME NEW c \in Threads, StopProceeds(c) PROVE Filed(b)'
  <2>1. CASE StopWebcam(c) \/ StopCalls(c) \/ StopTakes(c) \/ StopClears(c)
             \/ StopRecovers(c) \/ StopSaves(c) \/ StopJoins(c) \/ StopFinishes(c)
    BY <2>1, <1>1 DEF StopWebcam, StopCalls, StopTakes, StopClears, StopRecovers, StopSaves,
       StopJoins, StopFinishes
  <2>2. CASE StopWaits(c)
    BY <2>2 DEF StopWaits, Inv
  <2>3. CASE StopRenames(c)
    BY <2>3 DEF StopRenames, Inv, Hands, Saving
  <2>4. CASE StopMarks(c)
    <3>1. node.curBag \in Bags
      BY <2>4 DEF StopMarks, Inv, Threading
    <3>2. CASE b # node.curBag
      BY <2>4, <3>1, <3>2 DEF StopMarks, Inv
    <3>3. CASE b = node.curBag
      <4>1. Over(b) /\ (node.name = "bag" => file[b] = "bag")
        BY <2>4, <3>3 DEF StopMarks, Inv, Hands, Saving
      <4>2. "ready" \in Markers(node.name) => node.name = "bag"
        BY <2>4 DEF Markers, Inv
      <4> QED BY <2>4, <3>1, <3>3, <4>1, <4>2 DEF StopMarks, Inv
    <3> QED BY <3>2, <3>3
  <2> QED BY <1>5, <2>1, <2>2, <2>3, <2>4 DEF StopProceeds
<1>6. CASE Boots
  BY <1>6 DEF Boots, RecoverOrphans, Orphans, Inv
<1>7. ASSUME NEW a \in Bags,
             \/ CaptureDone(a)
             \/ RosbagOpens(a) \/ RosbagFinalizes(a) \/ RosbagDies(a)
      PROVE  Filed(b)'
  BY <1>7 DEF CaptureDone, CaptureEnds, RosbagOpens, RosbagFinalizes, RosbagDies, Inv
<1>8. CASE (\E armed \in BOOLEAN : OnState(armed)) \/ HookStarts
  BY <1>2, <1>8 DEF OnState, HookStarts
<1> HIDE DEF Filed
<1> QED
  BY <1>1, <1>3, <1>4, <1>5, <1>6, <1>7, <1>8
  DEF Next, StateProceeds, StartFails, StartManifest, StartWebcam, WebcamStarts, Exits, Crashes,
      ProcessEnds, vars

LEMMA HandsStep == ASSUME Inv, [Next]_vars PROVE Hands'
<1> SUFFICES ASSUME NEW b \in Bags, b = node'.curBag, Clean(b)' PROVE Hands'
  BY DEF Hands, Clean
<1>0. b = node'.curBag /\ Clean(b)
  BY CleanStays DEF Inv
<1> USE DEF Over, Goto, At, Threads, disk, Saving
<1>1. ASSUME NEW armed \in BOOLEAN, OnState(armed) PROVE Hands'
  BY <1>0, <1>1 DEF OnState, RacedIf, Inv, TypeOK, NodeType, ThreadType, Hands
<1>2. ASSUME NEW a \in Bags, StartNames(a) PROVE Hands'
  BY <1>0, <1>2, NoBagIsNone
  DEF StartNames, RacedIf, Inv, TypeOK, NodeType, ThreadType, Hands, Names, Busy, Clean
<1>3. CASE StartSpawns
  BY <1>0, <1>3 DEF StartSpawns, Inv, TypeOK, NodeType, ThreadType, Hands, Sole, Busy
<1>4. CASE StartFails \/ StartManifest \/ StartWebcam
  BY <1>0, <1>4
  DEF StartFails, StartManifest, StartWebcam, Inv, TypeOK, NodeType, ThreadType, Hands
<1>5. ASSUME NEW c \in Threads, StopProceeds(c) PROVE Hands'
  <2>0. ASSUME b = node.curBag, Busy(c)
        PROVE  \A d \in Threads : d # c => thread[d].pc \in {"idle", "done"}
    BY <1>0, <2>0 DEF Inv, Sole, Busy
  <2>1. CASE StopWebcam(c) \/ StopCalls(c)
    BY <1>0, <2>1 DEF StopWebcam, StopCalls, Inv, TypeOK, NodeType, ThreadType, Hands
  <2>2. CASE StopTakes(c)
    BY <1>0, <2>2 DEF StopTakes, Inv, TypeOK, NodeType, ThreadType, Hands
  <2>3. CASE StopClears(c)
    <3>1. b = node.curBag /\ UNCHANGED disk /\ UNCHANGED fate /\ node'.name = node.name
      BY <2>3 DEF StopClears, Inv, TypeOK, NodeType
    <3>2. \A d \in Threads : d # c => thread'[d].pc \in {"idle", "done"}
      BY <2>0, <2>3, <3>1 DEF StopClears, Busy, Inv, TypeOK, ThreadType
    <3>3. /\ thread'[c].pc = IF thread[c].proc = NoBag THEN "recover" ELSE "wait"
          /\ thread'[c].proc = thread[c].proc /\ node'.proc = NoBag
      BY <2>3 DEF StopClears, Inv, TypeOK, ThreadType, NodeType
    <3>4. Over(b) \/ thread[c].proc = b
      BY <1>0, <2>0, <2>3, <3>1 DEF StopClears, Busy, Inv, Hands
    <3> QED BY <1>0, <3>1, <3>2, <3>3, <3>4, NoBagIsNone DEF Inv, Hands
  <2>4. CASE StopWaits(c)
    <3>1. b = node.curBag /\ UNCHANGED <<file, mark, node>>
      BY <2>4 DEF StopWaits
    <3>2. \A d \in Threads : d # c => thread'[d].pc \in {"idle", "done"}
      BY <2>0, <2>4, <3>1 DEF StopWaits, Busy, Inv, TypeOK, ThreadType
    <3>3. thread'[c].pc = "recover"
      BY <2>4 DEF StopWaits, Inv, TypeOK, ThreadType
    <3>4. Over(b) \/ thread[c].proc = b
      BY <1>0, <2>0, <2>4, <3>1, NoBagIsNone DEF StopWaits, Busy, Inv, Hands
    <3>5. Over(b)' /\ (rosbag[b] = "dead" => rosbag'[b] = "dead")
                   /\ ("unkilled" \in fate[b] => "unkilled" \in fate'[b])
      <4>1. CASE UNCHANGED rosbag
        BY <1>0, <2>4, <3>4, <4>1 DEF StopWaits, Inv, TypeOK
      <4>2. CASE UNCHANGED fate /\ rosbag' = [rosbag EXCEPT ![thread[c].proc] = "dead"]
        BY <1>0, <3>4, <4>2 DEF Inv, TypeOK
      <4> QED BY <2>4, <4>1, <4>2 DEF StopWaits
    <3>6. node.proc = NoBag
      BY <1>0, <2>4, <3>1 DEF StopWaits, Inv, Hands
    <3> QED BY <1>0, <3>1, <3>2, <3>3, <3>5, <3>6 DEF Inv, Hands
  <2>5. CASE StopRecovers(c)
    BY <1>0, <2>5 DEF StopRecovers, Inv, TypeOK, NodeType, ThreadType, Hands
  <2>6. CASE StopRenames(c)
    BY <1>0, <2>6 DEF StopRenames, Inv, TypeOK, NodeType, ThreadType, Hands, Sole, Busy
  <2>7. CASE StopSaves(c)
    BY <1>0, <2>7 DEF StopSaves, Exists, Ends, Inv, TypeOK, NodeType, ThreadType, Hands
  <2>8. CASE StopJoins(c) \/ StopFinishes(c)
    BY <1>0, <2>8 DEF StopJoins, StopFinishes, Inv, TypeOK, NodeType, ThreadType, Hands
  <2>9. CASE StopMarks(c)
    <3>1. b = node.curBag /\ UNCHANGED <<file, rosbag, node>>
      BY <2>9 DEF StopMarks
    <3>2. \A d \in Threads : thread'[d].pc \in {"idle", "done"}
      BY <2>0, <2>9, <3>1 DEF StopMarks, Ends, Busy, Inv, TypeOK, ThreadType
    <3>3. "unkilled" \in fate[b] => "unkilled" \in fate'[b]
      BY <1>0, <2>9 DEF StopMarks, Inv, TypeOK
    <3>4. Over(b)
      BY <1>0, <2>9, <3>1 DEF StopMarks, Inv, Hands
    <3> QED BY <1>0, <3>1, <3>2, <3>3, <3>4 DEF Inv, Hands
  <2> QED BY <1>5, <2>1, <2>2, <2>3, <2>4, <2>5, <2>6, <2>7, <2>8, <2>9 DEF StopProceeds
<1>6. CASE HookStarts
  BY <1>0, <1>6 DEF HookStarts, RacedIf, Inv, TypeOK, NodeType, ThreadType, Hands
<1>7. CASE ProcessEnds \/ Boots
  BY <1>0, <1>7, NoBagIsNone DEF ProcessEnds, Boots, Fresh
<1>8. CASE WebcamStarts \/ UNCHANGED vars
  BY <1>0, <1>8 DEF WebcamStarts, vars, Inv, Hands
<1>9. ASSUME NEW a \in Bags,
             \/ CaptureDone(a)
             \/ RosbagOpens(a) \/ RosbagFinalizes(a) \/ RosbagDies(a)
      PROVE  Hands'
  <2>1. CASE CaptureDone(a)
    BY <1>0, <2>1 DEF CaptureDone, Inv, Hands
  <2>2. CASE RosbagOpens(a)
    BY <1>0, <2>2 DEF RosbagOpens, Alive, Inv, TypeOK, Hands
  <2>3. CASE RosbagFinalizes(a)
    BY <1>0, <2>3 DEF RosbagFinalizes, Alive, Inv, TypeOK, Hands
  <2>4. CASE RosbagDies(a)
    BY <1>0, <2>4 DEF RosbagDies, Alive, Inv, TypeOK, Hands
  <2> QED BY <1>9, <2>1, <2>2, <2>3, <2>4
<1> QED
  BY <1>1, <1>2, <1>3, <1>4, <1>5, <1>6, <1>7, <1>8, <1>9 DEF Next, StateProceeds, Exits, Crashes

LEMMA InvStep == Inv /\ [Next]_vars => Inv'
BY TypeStep, ThreadingStep, NamesStep, SoleStep, FilesStep, HandsStep DEF Inv

\* The types of the recorder, for any number of sessions and mishaps.
THEOREM RecorderTypes == Spec => []TypeOK
<1>1. Inv => TypeOK
  BY DEF Inv
<1> QED BY InitInv, InvStep, <1>1, PTL DEF Spec

LEMMA FilesAreFinal == Inv => ReadyIsFinal
BY DEF Inv, Files, Clean, Over, ReadyIsFinal

\* A bag is offered only when its writer is gone, and as a bag only under its
\* final name, whatever crashes, restarts, mishaps and overlapping stops of
\* other bags came before (recorder_node.py 209-266, 283-322).
THEOREM Final == Spec => []ReadyIsFinal
BY InitInv, InvStep, FilesAreFinal, PTL DEF Spec

-----------------------------------------------------------------------------
(* The sidecar: who may still write at the path of a bag.                  *)

\* A bag is not offered while its own capture runs, nor while a finish is to
\* come that would write at its path or move it away.
Sidecars ==
    /\ ~node.up => captures = {} /\ manifest.bag = NoBag /\ ~node.manifestActive
    /\ \A b \in captures : Clean(b) => mark[b] = {}
    /\ Clean(manifest.bag)
         /\ (node.manifestActive \/ \E c \in Threads : thread[c].pc \in {"join", "finish"})
       => mark[manifest.bag] = {}

\* The clean bag at hand: its capture is the one that finish joins.
Session ==
    Clean(node.curBag) =>
        /\ node.curBag \in captures => node.manifestActive /\ manifest.thread = node.curBag
        /\ node.manifestActive => mark[node.curBag] = {}
        /\ thread["state"].pc \in {"popen", "manifest"} =>
               mark[node.curBag] = {} /\ node.curBag \notin captures
        /\ \A c \in Threads :
               /\ thread[c].pc \in {"finish", "ready"} => node.curBag \notin captures
               /\ thread[c].pc \in {"join", "finish"} => node.manifestActive
               /\ thread[c].pc = "ready" => ~node.manifestActive

LEMMA SidecarsInit == Init => Sidecars /\ Session
BY NoBagIsNone DEF Init, ManifestInit, NoManifest, Fresh, Sidecars, Session, Clean

LEMMA SessionStep == ASSUME Inv, Sidecars, Session, [Next]_vars PROVE Session'
<1> SUFFICES ASSUME NEW b \in Bags, b = node'.curBag, Clean(b)' PROVE Session'
  BY DEF Session, Clean
<1>0. b = node'.curBag /\ Clean(b)
  BY CleanStays DEF Inv
<1> USE DEF Goto, At, Threads, disk, manifestVars
<1>1. ASSUME NEW armed \in BOOLEAN, OnState(armed) PROVE Session'
  BY <1>0, <1>1 DEF OnState, Inv, TypeOK, NodeType, ThreadType, Session
<1>2. ASSUME NEW a \in Bags, StartNames(a) PROVE Session'
  BY <1>0, <1>2, NoBagIsNone
  DEF StartNames, RacedIf, Inv, TypeOK, NodeType, ThreadType, Session, Names, Busy, Clean
<1>3. CASE StartSpawns \/ StartFails \/ StartWebcam
  BY <1>0, <1>3
  DEF StartSpawns, StartFails, StartWebcam, Inv, TypeOK, NodeType, ThreadType, Session
<1>4. CASE StartManifest
  BY <1>0, <1>4
  DEF StartManifest, Begins, BeginsWithoutFile, Inv, TypeOK, ManifestTypeOK, NodeType, ThreadType,
      Session, Sole, Busy
<1>5. ASSUME NEW c \in Threads, StopProceeds(c) PROVE Session'
  <2>0. ASSUME b = node.curBag, Busy(c)
        PROVE  \A d \in Threads : d # c => thread[d].pc \in {"idle", "done"}
    BY <1>0, <2>0 DEF Inv, Sole, Busy
  <2>1. CASE StopWebcam(c) \/ StopCalls(c)
    BY <1>0, <2>1 DEF StopWebcam, StopCalls, Inv, TypeOK, NodeType, ThreadType, Session
  <2>2. CASE StopTakes(c) \/ StopClears(c)
    BY <1>0, <2>2 DEF StopTakes, StopClears, Inv, TypeOK, NodeType, ThreadType, Session
  <2>3. CASE StopWaits(c)
    BY <1>0, <2>3 DEF StopWaits, Inv, TypeOK, NodeType, ThreadType, Session
  <2>4. CASE StopRecovers(c) \/ StopRenames(c)
    BY <1>0, <2>4 DEF StopRecovers, StopRenames, Inv, TypeOK, NodeType, ThreadType, Session
  <2>5. CASE StopSaves(c)
    BY <1>0, <2>5 DEF StopSaves, Exists, Ends, Inv, TypeOK, NodeType, ThreadType, Session
  <2>6. CASE StopJoins(c)
    BY <1>0, <2>0, <2>6
    DEF StopJoins, Joins, Busy, Inv, TypeOK, ManifestTypeOK, NodeType, ThreadType, Session
  <2>7. CASE StopFinishes(c)
    BY <1>0, <2>0, <2>7
    DEF StopFinishes, Finishes, Busy, Inv, TypeOK, ManifestTypeOK, NodeType, ThreadType, Session
  <2>8. CASE StopMarks(c)
    BY <1>0, <2>0, <2>8
    DEF StopMarks, Ends, Busy, Inv, TypeOK, NodeType, ThreadType, Session
  <2> QED BY <1>5, <2>1, <2>2, <2>3, <2>4, <2>5, <2>6, <2>7, <2>8 DEF StopProceeds
<1>6. CASE HookStarts
  BY <1>0, <1>6 DEF HookStarts, Inv, TypeOK, NodeType, ThreadType, Session
<1>7. CASE ProcessEnds \/ Boots
  BY <1>0, <1>7, NoBagIsNone DEF ProcessEnds, Boots, Fresh
<1>8. CASE WebcamStarts \/ UNCHANGED vars
  BY <1>0, <1>8 DEF WebcamStarts, vars, Session
<1>9. ASSUME NEW a \in Bags,
             \/ CaptureDone(a)
             \/ RosbagOpens(a) \/ RosbagFinalizes(a) \/ RosbagDies(a)
      PROVE  Session'
  BY <1>0, <1>9
  DEF CaptureDone, CaptureEnds, RosbagOpens, RosbagFinalizes, RosbagDies, Session
<1> QED
  BY <1>1, <1>2, <1>3, <1>4, <1>5, <1>6, <1>7, <1>8, <1>9 DEF Next, StateProceeds, Exits, Crashes

LEMMA SidecarsStep == ASSUME Inv, Sidecars, Session, [Next]_vars PROVE Sidecars'
<1> USE DEF Goto, At, Threads, disk, manifestVars
<1>0. \A b \in Bags : Clean(b)' => Clean(b)
  BY CleanStays DEF Inv
<1>1. ASSUME NEW armed \in BOOLEAN, OnState(armed) PROVE Sidecars'
  BY <1>0, <1>1 DEF OnState, Inv, TypeOK, ManifestTypeOK, NodeType, ThreadType, Sidecars, Clean
<1>2. ASSUME NEW a \in Bags, StartNames(a) PROVE Sidecars'
  BY <1>0, <1>2 DEF StartNames, Inv, TypeOK, ManifestTypeOK, NodeType, ThreadType, Sidecars, Clean
<1>3. CASE StartSpawns \/ StartFails \/ StartWebcam
  BY <1>0, <1>3
  DEF StartSpawns, StartFails, StartWebcam, Inv, TypeOK, ManifestTypeOK, NodeType, ThreadType,
      Sidecars, Clean
<1>4. CASE StartManifest
  BY <1>0, <1>4
  DEF StartManifest, Begins, BeginsWithoutFile, Inv, TypeOK, ManifestTypeOK, NodeType, ThreadType,
      Sidecars, Session, Clean
<1>5. ASSUME NEW c \in Threads, StopProceeds(c) PROVE Sidecars'
  <2>1. CASE StopWebcam(c) \/ StopCalls(c)
    BY <1>0, <2>1
    DEF StopWebcam, StopCalls, Inv, TypeOK, ManifestTypeOK, NodeType, ThreadType, Sidecars, Clean
  <2>2. CASE StopTakes(c) \/ StopClears(c)
    BY <1>0, <2>2
    DEF StopTakes, StopClears, Inv, TypeOK, ManifestTypeOK, NodeType, ThreadType, Sidecars, Clean
  <2>3. CASE StopWaits(c)
    BY <1>0, <2>3 DEF StopWaits, Inv, TypeOK, ManifestTypeOK, NodeType, ThreadType, Sidecars, Clean
  <2>4. CASE StopRecovers(c) \/ StopRenames(c)
    BY <1>0, <2>4
    DEF StopRecovers, StopRenames, Inv, TypeOK, ManifestTypeOK, NodeType, ThreadType, Sidecars, Clean
  <2>5. CASE StopSaves(c)
    BY <1>0, <2>5
    DEF StopSaves, Ends, Inv, TypeOK, ManifestTypeOK, NodeType, ThreadType, Sidecars, Clean
  <2>6. CASE StopJoins(c)
    BY <1>0, <2>6
    DEF StopJoins, Joins, Inv, TypeOK, ManifestTypeOK, NodeType, ThreadType, Sidecars, Clean
  <2>7. CASE StopFinishes(c)
    BY <1>0, <2>7
    DEF StopFinishes, Finishes, Inv, TypeOK, ManifestTypeOK, NodeType, ThreadType, Sidecars, Session,
        Sole, Busy, Clean
  <2>8. CASE StopMarks(c)
    BY <1>0, <2>8
    DEF StopMarks, Ends, Inv, TypeOK, ManifestTypeOK, NodeType, ThreadType, Sidecars, Session,
        Sole, Busy, Clean
  <2> QED BY <1>5, <2>1, <2>2, <2>3, <2>4, <2>5, <2>6, <2>7, <2>8 DEF StopProceeds
<1>6. CASE HookStarts
  BY <1>0, <1>6 DEF HookStarts, Inv, TypeOK, ManifestTypeOK, NodeType, ThreadType, Sidecars, Clean
<1>7. CASE ProcessEnds
  BY <1>7, NoBagIsNone DEF ProcessEnds, ManifestLost, NoManifest, Fresh, Sidecars, Clean
<1>8. CASE Boots
  BY <1>8, NoBagIsNone DEF Boots, Fresh, Sidecars, Clean
<1>9. CASE WebcamStarts \/ UNCHANGED vars
  BY <1>9 DEF WebcamStarts, vars, Sidecars, Clean
<1>10. ASSUME NEW a \in Bags,
              \/ CaptureDone(a)
              \/ RosbagOpens(a) \/ RosbagFinalizes(a) \/ RosbagDies(a)
       PROVE  Sidecars'
  BY <1>0, <1>10
  DEF CaptureDone, CaptureEnds, RosbagOpens, RosbagFinalizes, RosbagDies, Sidecars, Clean
<1> QED
  BY <1>1, <1>2, <1>3, <1>4, <1>5, <1>6, <1>7, <1>8, <1>9, <1>10
  DEF Next, StateProceeds, Exits, Crashes

LEMMA FrozenStep ==
    ASSUME Inv, Sidecars, Session, [Next]_vars,
           NEW b \in Bags, Clean(b), mark[b] # {}, sidecar'[b] # sidecar[b]
    PROVE  \E a \in captures \ captures' : a # b
<1> USE DEF At, Threads, disk, manifestVars, Inv, TypeOK, ManifestTypeOK, NodeType
<1>1. CASE StartManifest
  BY <1>1 DEF StartManifest, Begins, BeginsWithoutFile, Session
<1>2. ASSUME NEW a \in Bags, CaptureDone(a) PROVE \E d \in captures \ captures' : d # b
  BY <1>2 DEF CaptureDone, CaptureEnds, Sidecars
<1>3. ASSUME NEW c \in Threads, StopFinishes(c) PROVE FALSE
  BY <1>3 DEF StopFinishes, Finishes, Sidecars, Session
<1>4. ASSUME NEW c \in Threads, StopProceeds(c) PROVE FALSE
  BY <1>3, <1>4 DEF StopProceeds, StopWebcam, StopCalls, StopTakes, StopClears, StopWaits,
     StopRecovers, StopRenames, StopSaves, StopJoins, Joins, StopMarks
<1>5. CASE UNCHANGED sidecar
  BY <1>5
<1> QED
  BY <1>1, <1>2, <1>4, <1>5
  DEF Next, StateProceeds, OnState, StartNames, StartSpawns, StartFails, StartWebcam, HookStarts,
      Exits, Crashes, ProcessEnds, ManifestLost, Boots, WebcamStarts, RosbagOpens, RosbagFinalizes,
      RosbagDies, vars

\* The sidecar of an offered bag is not written again but by the capture of
\* another session, whatever stops of other bags overlap (recorder_node.py
\* 255-264, runtime_manifest.py 117-159).
THEOREM Frozen == Spec => SidecarIsFrozen
<1>1. Inv /\ Sidecars /\ Session /\ [Next]_vars
        => [\A b \in Bags :
              "raced" \notin fate[b] /\ mark[b] # {} /\ sidecar'[b] # sidecar[b] =>
                 \E a \in captures \ captures' : a # b]_vars
  BY FrozenStep DEF Clean
<1>2. Inv /\ Sidecars /\ Session /\ [Next]_vars => (Inv /\ Sidecars /\ Session)'
  BY InvStep, SidecarsStep, SessionStep
<1> QED BY InitInv, SidecarsInit, <1>1, <1>2, PTL DEF Spec, SidecarIsFrozen

-----------------------------------------------------------------------------
(* What the node leaves behind when it rests: until the shutdown hook runs, *)
(* its one thread sees to the bag at hand and to the camera.               *)

Doomed(b) == fate[b] \cap {"missed", "unkilled", "unmarked"} # {}

Unfinished(b) == Alive(b) \/ (file[b] = "bag" /\ "ready" \notin mark[b])

Stopping == {"webcam", "call", "take", "clear", "wait"} \cup Saving

\* The rosbag at hand has its stop before it, or is in it.
SeenTo == (node.armed /\ thread["state"].pc # "spawn") \/ thread["state"].pc \in Stopping

Leftovers ==
    node.up /\ thread["hook"].pc = "idle" =>
        /\ thread["state"].pc \in Starting => node.armed
        /\ node.curBag \in Bags => Clean(node.curBag)
        /\ \A b \in Bags : Unfinished(b) => Doomed(b) \/ (b = node.curBag /\ SeenTo)

Camera ==
    /\ ~node.up => ~node.webcamOn /\ webcam = "off"
    /\ node.up /\ thread["hook"].pc = "idle" =>
           /\ node.webcamOn => node.armed \/ thread["state"].pc = "webcam"
           /\ webcam = "on" => node.webcamOn \/ thread["state"].pc = "call"

LEMMA LeftoversInit == Init => Leftovers /\ Camera
BY NoBagIsNone DEF Init, Fresh, Idle, Threads, Leftovers, Camera, Unfinished, Alive, Starting

LEMMA LeftoversStep == ASSUME Inv, Leftovers, [Next]_vars PROVE Leftovers'
<1> SUFFICES ASSUME node'.up, thread'["hook"].pc = "idle"
             PROVE  /\ thread'["state"].pc \in Starting => node'.armed
                    /\ node'.curBag \in Bags => Clean(node.curBag)'
                    /\ \A b \in Bags : Unfinished(b)' =>
                           Doomed(b)' \/ (b = node'.curBag /\ SeenTo')
  BY DEF Leftovers
<1> USE DEF Goto, At, Threads, disk, Unfinished, Alive, Doomed, SeenTo, Stopping, Starting, Saving,
        Clean
<1>1. ASSUME NEW armed \in BOOLEAN, OnState(armed) PROVE Leftovers'
  BY <1>1 DEF OnState, RacedIf, Busy, Inv, TypeOK, NodeType, ThreadType, Leftovers
<1>2. ASSUME NEW a \in Bags, StartNames(a) PROVE Leftovers'
  BY <1>2 DEF StartNames, RacedIf, Busy, Inv, TypeOK, NodeType, ThreadType, Names, Leftovers
<1>3. CASE StartSpawns
  BY <1>3 DEF StartSpawns, Inv, TypeOK, NodeType, ThreadType, Leftovers
<1>4. CASE StartFails \/ StartManifest \/ StartWebcam
  BY <1>4 DEF StartFails, StartManifest, StartWebcam, Inv, TypeOK, NodeType, ThreadType, Leftovers
<1>5. ASSUME NEW c \in Threads, StopProceeds(c) PROVE Leftovers'
  <2>0. c = "state"
    BY <1>5 DEF StopProceeds, StopWebcam, StopCalls, StopTakes, StopClears, StopWaits, StopRecovers,
       StopRenames, StopSaves, StopJoins, StopFinishes, StopMarks, Ends, Inv, TypeOK, ThreadType
  <2> DEFINE bag == node.curBag
  <2>a. /\ bag \in Bags => Clean(bag)
        /\ \A b \in Bags : Unfinished(b) => Doomed(b) \/ (b = bag /\ SeenTo)
    <3>1. node.up /\ thread["hook"].pc = "idle"
      BY <1>5, <2>0 DEF StopProceeds, StopWebcam, StopCalls, StopTakes, StopClears, StopWaits,
         StopRecovers, StopRenames, StopSaves, StopJoins, StopFinishes, StopMarks, Ends, Inv, TypeOK,
         ThreadType
    <3> QED BY <3>1 DEF Leftovers
  <2>1. CASE StopWebcam(c) \/ StopCalls(c)
    BY <2>0, <2>1 DEF StopWebcam, StopCalls, Inv, TypeOK, NodeType, ThreadType, Leftovers
  <2>2. CASE StopTakes(c) \/ StopClears(c)
    BY <2>0, <2>2 DEF StopTakes, StopClears, Inv, TypeOK, NodeType, ThreadType, Leftovers
  <2>3. CASE StopWaits(c)
    BY <2>0, <2>3 DEF StopWaits, Inv, TypeOK, NodeType, ThreadType, Leftovers
  <2>4. CASE StopRecovers(c) \/ StopRenames(c)
    BY <2>0, <2>4 DEF StopRecovers, StopRenames, Inv, TypeOK, NodeType, ThreadType, Leftovers
  <2>5. CASE StopSaves(c)
    <3>1. UNCHANGED <<disk, node, fate>> /\ thread'["state"].pc \in {"join", "ready", "idle"}
      BY <2>0, <2>5 DEF StopSaves, Ends, Inv, TypeOK, ThreadType
    <3>2. CASE Exists(bag)
      <4>1. thread'["state"].pc \in {"join", "ready"}
        BY <2>0, <2>5, <3>2 DEF StopSaves, Inv, TypeOK, ThreadType
      <4> QED BY <2>a, <3>1, <4>1 DEF Leftovers
    <3>3. CASE ~Exists(bag)
      <4>1. ASSUME bag \in Bags, Unfinished(bag) PROVE Doomed(bag)
        <5>1. Over(bag) /\ (node.name = "active" => file[bag] = "active" \/ "unkilled" \in fate[bag])
                       /\ node.name \in {"bag", "active"}
          BY <2>0, <2>5, <2>a, <4>1 DEF StopSaves, Inv, Hands, Over
        <5>2. node.name # file[bag]
          BY <3>3, <4>1, NoBagIsNone DEF Exists
        <5> QED BY <4>1, <5>1, <5>2 DEF Over
      <4> QED BY <2>a, <3>1, <4>1 DEF Leftovers
    <3> QED BY <3>2, <3>3
  <2>6. CASE StopJoins(c) \/ StopFinishes(c)
    BY <2>0, <2>6 DEF StopJoins, StopFinishes, Inv, TypeOK, NodeType, ThreadType, Leftovers
  <2>7. CASE StopMarks(c)
    <3>1. bag \in Bags /\ thread'["state"].pc = "idle" /\ UNCHANGED <<file, rosbag, node>>
      BY <2>0, <2>7 DEF StopMarks, Ends, Inv, TypeOK, NodeType, ThreadType, Threading
    <3>2. "raced" \notin fate'[bag]
      BY <2>7, <2>a, <3>1 DEF StopMarks, Inv, TypeOK
    <3>3. ASSUME NEW b \in Bags, b # bag PROVE mark'[b] = mark[b] /\ fate'[b] = fate[b]
      BY <2>7, <3>3 DEF StopMarks, Inv, TypeOK
    <3>4. "unkilled" \in fate[bag] => "unkilled" \in fate'[bag]
      BY <2>7, <3>1 DEF StopMarks, Inv, TypeOK
    <3>5. "unmarked" \in fate'[bag] \/ mark'[bag] = mark[bag] \cup Markers(node.name)
      BY <2>7, <3>1 DEF StopMarks, Inv, TypeOK
    <3>6. Over(bag) /\ (node.name = "active" => file[bag] = "active" \/ "unkilled" \in fate[bag])
                   /\ node.name \in {"bag", "active"}
      BY <2>0, <2>7, <2>a, <3>1 DEF StopMarks, Inv, Hands, Over
    <3>7. file[bag] = "bag" => "ready" \in mark'[bag] \/ Doomed(bag)'
      BY <3>1, <3>4, <3>5, <3>6 DEF Markers
    <3>8. Doomed(bag)' \/ ~Unfinished(bag)'
      BY <3>1, <3>4, <3>6, <3>7 DEF Over
    <3> QED BY <2>a, <3>1, <3>2, <3>3, <3>8 DEF Leftovers
  <2> QED BY <1>5, <2>1, <2>2, <2>3, <2>4, <2>5, <2>6, <2>7 DEF StopProceeds
<1>6. CASE HookStarts \/ ProcessEnds
  BY <1>6 DEF HookStarts, ProcessEnds, Fresh, Inv, TypeOK, ThreadType
<1>7. CASE Boots
  <2>1. thread'["state"].pc = "idle" /\ node'.curBag \notin Bags
    BY <1>7, NoBagIsNone DEF Boots, Fresh, Inv, Threading
  <2>2. ASSUME NEW b \in Bags, Unfinished(b)' PROVE Doomed(b)'
    <3>1. CASE Alive(b)
      BY <1>7, <3>1 DEF Boots, RecoverOrphans
    <3>2. CASE ~Alive(b)
      <4>1. b \in Orphans /\ "ready" \notin mark'[b]
        BY <1>7, <2>2, <3>2 DEF Boots, RecoverOrphans, Orphans, Inv, TypeOK
      <4> QED BY <1>7, <4>1 DEF Boots, RecoverOrphans
    <3> QED BY <3>1, <3>2
  <2> QED BY <2>1, <2>2
<1>8. CASE WebcamStarts \/ UNCHANGED vars
  BY <1>8 DEF WebcamStarts, vars, Leftovers
<1>9. ASSUME NEW a \in Bags,
             \/ CaptureDone(a)
             \/ RosbagOpens(a) \/ RosbagFinalizes(a) \/ RosbagDies(a)
      PROVE  Leftovers'
  BY <1>9
  DEF CaptureDone, CaptureEnds, RosbagOpens, RosbagFinalizes, RosbagDies, Inv, TypeOK, Leftovers
<1> QED
  BY <1>1, <1>2, <1>3, <1>4, <1>5, <1>6, <1>7, <1>8, <1>9
  DEF Next, StateProceeds, Exits, Crashes, Leftovers
LEMMA CameraStep == ASSUME Inv, Leftovers, Camera, [Next]_vars PROVE Camera'
<1> USE DEF Goto, At, Threads, disk, camera, Starting
<1>1. ASSUME NEW armed \in BOOLEAN, OnState(armed) PROVE Camera'
  BY <1>1 DEF OnState, Inv, TypeOK, NodeType, ThreadType, Camera
<1>2. ASSUME NEW a \in Bags, StartNames(a) PROVE Camera'
  BY <1>2 DEF StartNames, Inv, TypeOK, NodeType, ThreadType, Camera
<1>3. CASE StartSpawns \/ StartFails \/ StartManifest
  BY <1>3 DEF StartSpawns, StartFails, StartManifest, Inv, TypeOK, NodeType, ThreadType, Camera
<1>4. CASE StartWebcam
  BY <1>4 DEF StartWebcam, Inv, TypeOK, NodeType, ThreadType, Camera, Leftovers
<1>5. ASSUME NEW c \in Threads, StopProceeds(c) PROVE Camera'
  <2>1. CASE StopWebcam(c)
    BY <2>1 DEF StopWebcam, Inv, TypeOK, NodeType, ThreadType, Camera
  <2>2. CASE StopCalls(c)
    BY <2>2 DEF StopCalls, Inv, TypeOK, NodeType, ThreadType, Camera
  <2>3. CASE StopTakes(c) \/ StopClears(c) \/ StopWaits(c)
    BY <2>3 DEF StopTakes, StopClears, StopWaits, Inv, TypeOK, NodeType, ThreadType, Camera
  <2>4. CASE StopRecovers(c) \/ StopRenames(c) \/ StopSaves(c)
    BY <2>4
    DEF StopRecovers, StopRenames, StopSaves, Ends, Inv, TypeOK, NodeType, ThreadType, Camera
  <2>5. CASE StopJoins(c) \/ StopFinishes(c) \/ StopMarks(c)
    BY <2>5
    DEF StopJoins, StopFinishes, StopMarks, Ends, Inv, TypeOK, NodeType, ThreadType, Camera
  <2> QED BY <1>5, <2>1, <2>2, <2>3, <2>4, <2>5 DEF StopProceeds
<1>6. CASE HookStarts
  BY <1>6 DEF HookStarts, Inv, TypeOK, ThreadType, Camera
<1>7. CASE ProcessEnds \/ Boots
  BY <1>7 DEF ProcessEnds, Boots, Fresh, Camera
<1>8. CASE WebcamStarts
  BY <1>8 DEF WebcamStarts, Camera
<1>9. CASE UNCHANGED <<node, thread, webcam>>
  BY <1>9 DEF Camera
<1> QED
  BY <1>1, <1>2, <1>3, <1>4, <1>5, <1>6, <1>7, <1>8, <1>9
  DEF Next, StateProceeds, Exits, Crashes, vars, CaptureDone, RosbagOpens, RosbagFinalizes, RosbagDies

LEMMA RestStep ==
    Inv /\ Leftovers /\ Camera /\ [Next]_vars => (Inv /\ Leftovers /\ Camera)'
BY InvStep, LeftoversStep, CameraStep

\* A node at rest has offered every finished bag but those that a mishap
\* exempts, for any number of sessions, crashes and restarts (recorder_node.py
\* 240-264, 302-322).
THEOREM NoneStranded == Spec => []NothingIsStranded
<1>1. Leftovers => NothingIsStranded
  BY DEF Leftovers, NothingIsStranded, Resting, Threads, Unfinished, Doomed, SeenTo, Stopping, Saving
<1> QED BY InitInv, LeftoversInit, RestStep, <1>1, PTL DEF Spec

\* A node at rest has tried to stop every camera that a start has reached
\* (recorder_node.py 161-172, 209-211).
THEOREM CameraOff == Spec => []CameraIsOff
<1>1. Camera => CameraIsOff
  BY DEF Camera, CameraIsOff, Resting, Threads
<1> QED BY InitInv, LeftoversInit, RestStep, <1>1, PTL DEF Spec
=============================================================================
