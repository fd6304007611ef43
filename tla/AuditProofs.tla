----------------------------- MODULE AuditProofs -----------------------------
(***************************************************************************)
(* What is proved of the audit for any number of replacements and of       *)
(* restarts.  The argument is one of brackets: digests and pids are taken  *)
(* before any evidence and taken again after the last, versions and pids   *)
(* only grow, so what was used lies between the two, and when they agree   *)
(* it is what they say.                                                    *)
(***************************************************************************)
EXTENDS AuditProperties, TLAPS

\* The places of collect: before evidence is taken, before the pull, after it
\* and behind the verdict on it.
Early == {"open", "packages", "hash helper", "hash bundle", "hash runtime", "hash core",
          "join", "graph", "bundle"}
Before == {"clock", "vehicle", "pre state", "pre extended", "pre sources", "pre runtime",
           "authorize"}
AfterPull == {"post state", "post extended", "judge"}
Late == {"timesync", "estimator", "post runtime", "post sources", "finalize", "done"}
Places == Early \cup Before \cup {"pull"} \cup AfterPull \cup Late \cup {"aborted"}

Versions == 0..MaxVersion
Pids == 0..MaxPid
Artifacts == Places \cup {"parameters"}

AuditType == [pc : Places, failures : BOOLEAN, incomplete : BOOLEAN,
              status : {"none", "FAIL", "INCOMPLETE", "PASS"},
              authorized : BOOLEAN, cleared : {"no", "yes", "refused"}]
KnownType == [ok : BOOLEAN, version : [Parts -> Versions \cup {None}],
              pid : [Nodes -> Pids \cup {None}]]
StoreType == [disk : SUBSET Artifacts, listed : SUBSET Artifacts, receipt : BOOLEAN]
WorldType == [version : [Parts -> Versions], pid : [Nodes -> Pids],
              mapped : [Nodes -> Versions \cup {None}]]
UsedType == [helper : SUBSET Versions, runtime : SUBSET (Versions \cup {None}),
             pid : SUBSET Pids]

\* The variables of collect and of the world around it have their types.
Types ==
    /\ audit \in AuditType /\ known \in KnownType /\ store \in StoreType
    /\ world \in WorldType /\ used \in UsedType

\* What collect may take from the transaction, and where it is when.
Transaction ==
    /\ stage \in {"idle", "open", "over", "raised"}
    /\ dump \in {"none", "skipped", "running", "ok", "failed"}
    /\ exposed \in BOOLEAN
    /\ audit.pc \in Early \cup Before => stage = "idle"
    /\ audit.pc = "pull" => stage \in {"open", "over"}
    /\ audit.pc \in AfterPull \cup Late => stage \in {"idle", "over"}
    /\ stage = "idle" => dump = "none" /\ verdict = "none"
    /\ stage = "open" => verdict = "none"
    /\ verdict = "clean" => dump = "ok" /\ exposed = FALSE
    /\ dump \in {"running", "ok", "failed"} => used.runtime # {}

\* Up to the pull, authorized means that nothing has failed and that the
\* identity is established; without it there is no pull, and evidence is
\* missing.
Gate ==
    /\ audit.pc \in Early \cup Before /\ audit.authorized => ~audit.failures
    /\ audit.pc \in Before /\ audit.authorized => known.ok
    /\ audit.pc \in AfterPull /\ stage # "over" => audit.incomplete
    /\ audit.pc \in Late /\ ~audit.failures /\ ~audit.incomplete => verdict = "clean"

\* At most the file of mavparam lies unlisted in the directory, and not behind
\* a verdict that missed nothing.
Directory ==
    /\ store.listed \subseteq store.disk
    /\ store.disk \subseteq store.listed \cup {"parameters"}
    /\ audit.pc \in Late /\ ~audit.incomplete => "parameters" \in store.listed

Between(lo, x, hi) == lo <= x /\ x <= hi

\* The brackets: nothing has been used when the digests and the pids are
\* taken, and what is used later is no older than they are.  The plugin in the
\* memory of the process is the one it has now, unless it was restarted.
Brackets ==
    /\ \A p \in Parts : known.version[p] <= world.version[p]
    /\ \A n \in Nodes : known.pid[n] <= world.pid[n]
    /\ audit.pc \in Early => used = [helper |-> {}, runtime |-> {}, pid |-> {}]
    /\ \A v \in used.helper :
           Between(known.version["helper"], v, world.version["helper"])
    /\ \A i \in used.pid : Between(known.pid["mavros"], i, world.pid["mavros"])
    /\ world.pid["mavros"] = known.pid["mavros"] =>
         \A v \in used.runtime :
             \/ v = world.mapped["mavros"]
             \/ Between(known.version["runtime"], v, world.version["runtime"])

OneVersion == \A p, q \in Parts \ {"bundle"} : known.version[p] = known.version[q]
RuntimeIsKnown ==
    /\ known.ok
    /\ used.runtime \subseteq {known.version["runtime"]}
    /\ used.pid \subseteq {known.pid["mavros"]}
HelperIsKnown == used.helper \subseteq {known.version["helper"]}

\* What the closing of each bracket leaves behind.
Closed ==
    /\ audit.pc \notin Early /\ audit.pc # "aborted" /\ known.ok => OneVersion
    /\ ~audit.failures /\ ~audit.incomplete =>
         /\ audit.pc \in {"post sources", "finalize", "done"} => RuntimeIsKnown
         /\ audit.pc \in {"finalize", "done"} => HelperIsKnown
    /\ audit.status # "none" => audit.pc = "done"
    /\ Passed => ~audit.failures /\ ~audit.incomplete

Inv == Types /\ Transaction /\ Gate /\ Directory /\ Brackets /\ Closed

-----------------------------------------------------------------------------
(* Types.                                                                  *)

LEMMA PhaseTypes ==
    ASSUME Types, NEW pc, NEW next \in Places, NEW outcome,
           Phase(pc, next, outcome) \/ GatedPhase(pc, next, outcome), pc \in Places
    PROVE  audit' \in AuditType /\ store' \in StoreType /\ world' \in WorldType
<1>1. audit.failures \in BOOLEAN /\ audit.incomplete \in BOOLEAN /\ audit.authorized \in BOOLEAN
  BY DEF Types, AuditType
<1>2. audit' \in AuditType
  <2> DEFINE failures == audit.failures \/ outcome = "failure"
             incomplete == audit.incomplete \/ outcome = "missing"
             unheard == audit.incomplete \/ outcome \in {"missing", "unheard"}
             authorized == audit.authorized /\ outcome \in {"ok", "unheard"}
  <2>1. failures \in BOOLEAN /\ incomplete \in BOOLEAN /\ unheard \in BOOLEAN
            /\ authorized \in BOOLEAN
    OBVIOUS
  <2>2. CASE Phase(pc, next, outcome)
    <3>1. audit' = [audit EXCEPT !.pc = next, !.cleared = "no", !.failures = failures,
                                 !.incomplete = incomplete]
      BY <2>2 DEF Phase
    <3> HIDE DEF failures, incomplete, unheard, authorized
    <3> QED BY <3>1, <2>1 DEF Types, AuditType
  <2>3. CASE GatedPhase(pc, next, outcome)
    <3>1. audit' = [audit EXCEPT !.pc = next, !.cleared = "no", !.failures = failures,
                                 !.incomplete = unheard, !.authorized = authorized]
      BY <2>3 DEF GatedPhase
    <3> HIDE DEF failures, incomplete, unheard, authorized
    <3> QED BY <3>1, <2>1 DEF Types, AuditType
  <2> QED BY <2>2, <2>3
<1>3. store' \in StoreType
  <2>1. store' = Written({pc})
    BY DEF Phase, GatedPhase
  <2> QED BY <2>1 DEF Types, Written, StoreType, Artifacts
<1>4. world' = world
  BY DEF Phase, GatedPhase
<1> QED BY <1>2, <1>3, <1>4 DEF Types

LEMMA HelperTypes ==
    ASSUME Types, NEW outcome, RunHelper(outcome)
    PROVE  known' \in KnownType /\ used' \in UsedType
<1>1. world.version["helper"] \in Versions /\ world.pid["mavros"] \in Pids
  BY DEF Types, WorldType, Parts, Nodes
<1>2. known' = known
  BY DEF RunHelper
<1>3. used' = used \/ used' = [used EXCEPT !.helper = @ \cup {world.version["helper"]},
                                         !.pid = @ \cup {world.pid["mavros"]}]
  BY DEF RunHelper
<1> QED BY <1>1, <1>2, <1>3 DEF Types, UsedType

LEMMA IdentifyTypes ==
    ASSUME Types, \/ IdentifyPackages \/ JoinSources \/ BindRuntime \/ CheckBundle
                  \/ \E part \in Parts, pc \in Places, next \in Places : Hash(part, pc, next)
    PROVE  Types'
<1>1. CASE IdentifyPackages
  BY <1>1, PhaseTypes DEF IdentifyPackages, Identify, Places, Early, Types, KnownType
<1>2. CASE JoinSources
  BY <1>2, PhaseTypes DEF JoinSources, Identify, Places, Early, Types, KnownType
<1>3. CASE BindRuntime
  BY <1>3, PhaseTypes DEF BindRuntime, Identify, Places, Early, Types, KnownType, WorldType
<1>4. CASE CheckBundle
  BY <1>4, PhaseTypes DEF CheckBundle, Places, Early, Before, Types, KnownType
<1>5. ASSUME NEW part \in Parts, NEW pc \in Places, NEW next \in Places, Hash(part, pc, next)
      PROVE  Types'
  <2>1. PICK regular \in BOOLEAN :
          /\ Identify(pc, next, regular)
          /\ known' = [known EXCEPT !.version[part] = world.version[part],
                                   !.ok = @ /\ regular]
    BY <1>5 DEF Hash
  <2>2. known' \in KnownType
    <3> DEFINE ok == known.ok /\ regular
    <3>1. ok \in BOOLEAN /\ world.version[part] \in Versions
      BY DEF Types, WorldType
    <3>2. known' = [known EXCEPT !.version[part] = world.version[part], !.ok = ok]
      BY <2>1
    <3> HIDE DEF ok
    <3> QED BY <3>1, <3>2 DEF Types, KnownType
  <2> QED BY <2>1, <2>2, PhaseTypes DEF Identify, Types
<1> QED BY <1>1, <1>2, <1>3, <1>4, <1>5

LEMMA PhasesTypes ==
    ASSUME Types,
           \/ Open \/ CheckClock \/ CheckVehicle \/ PreSources \/ PreRuntime
           \/ PullReturns \/ CollectTimesync \/ CollectEstimator \/ PostRuntime \/ PostSources
           \/ \E pc \in Places, next \in Places : PreCapture(pc, next) \/ PostCapture(pc, next)
    PROVE  Types'
<1>0. world.pid["mavros"] \in Pids
  BY DEF Types, WorldType, Nodes
<1> USE DEF Places, Early, Before, AfterPull, Late
<1>1. CASE Open \/ CheckClock \/ PreSources \/ PreRuntime
  BY <1>1, PhaseTypes DEF Open, CheckClock, PreSources, PreRuntime, Types
<1>2. CASE PullReturns \/ PostRuntime \/ PostSources
  BY <1>2, PhaseTypes DEF PullReturns, PostRuntime, PostSources, Types
<1>3. CASE CheckVehicle \/ CollectEstimator
  <2>1. used' = [used EXCEPT !.pid = @ \cup {world.pid["mavros"]}] /\ known' = known
    BY <1>3 DEF CheckVehicle, CollectEstimator
  <2>2. used' \in UsedType
    BY <1>0, <2>1 DEF Types, UsedType
  <2> QED BY <1>3, <2>1, <2>2, PhaseTypes DEF CheckVehicle, CollectEstimator, Types
<1>4. CASE CollectTimesync
  BY <1>4, PhaseTypes, HelperTypes DEF CollectTimesync, Types
<1>5. ASSUME NEW pc \in Places, NEW next \in Places,
             PreCapture(pc, next) \/ PostCapture(pc, next)
      PROVE  Types'
  BY <1>5, PhaseTypes, HelperTypes DEF PreCapture, PostCapture, Types
<1> QED BY <1>1, <1>2, <1>3, <1>4, <1>5

LEMMA PullTypes ==
    ASSUME Types, Authorize \/ PullWorks \/ JudgePull
    PROVE  Types'
<1>0. /\ world.version["helper"] \in Versions /\ world.version["runtime"] \in Versions
      /\ world.mapped["mavros"] \in Versions \cup {None} /\ world.pid["mavros"] \in Pids
  BY DEF Types, WorldType, Parts, Nodes
<1>1. CASE Authorize
  <2>1. used' \in UsedType
    BY <1>0, <1>1 DEF Authorize, Types, UsedType
  <2>2. audit' \in AuditType
    BY <1>1 DEF Authorize, Types, AuditType, Places, AfterPull
  <2> QED BY <1>1, <2>1, <2>2 DEF Authorize, Types
<1>2. CASE PullWorks
  <2>1. \/ used' = used
        \/ used' = [used EXCEPT !.runtime = @ \cup {world.version["runtime"],
                                                  world.mapped["mavros"]},
                              !.pid = @ \cup {world.pid["mavros"]}]
    BY <1>2 DEF PullWorks
  <2>2. used' \in UsedType
    <3>1. /\ used.runtime \cup {world.version["runtime"], world.mapped["mavros"]}
               \in SUBSET (Versions \cup {None})
          /\ used.pid \cup {world.pid["mavros"]} \in SUBSET Pids
      BY <1>0 DEF Types, UsedType
    <3> QED BY <2>1, <3>1 DEF Types, UsedType
  <2>3. store' = store \/ store' = [store EXCEPT !.disk = @ \cup {"parameters"}]
    BY <1>2 DEF PullWorks
  <2>4. store' \in StoreType
    BY <2>3 DEF Types, StoreType, Artifacts
  <2>5. audit' = audit /\ known' = known /\ world' = world
    BY <1>2 DEF PullWorks
  <2> QED BY <2>2, <2>4, <2>5 DEF Types
<1>3. CASE JudgePull
  <2>1. known' = known /\ world' = world /\ used' = used
    BY <1>3 DEF JudgePull
  <2>2. store' = store \/ \E adopted \in SUBSET {"parameters"} : store' = Adopted(adopted)
    BY <1>3 DEF JudgePull
  <2>3. store' \in StoreType
    BY <2>2 DEF Adopted, Types, StoreType, Artifacts
  <2>4. \/ audit' = [audit EXCEPT !.pc = "timesync"]
        \/ \E f, i \in BOOLEAN : audit' = [audit EXCEPT !.pc = "timesync", !.failures = f,
                                                       !.incomplete = i]
    <3>1. CASE stage = "over"
      <4>1. PICK guarded \in BOOLEAN, proven \in BOOLEAN, regular \in BOOLEAN :
              LET adopted == {"parameters"} \cap IF regular THEN store.disk ELSE {}
              IN  audit' = [audit EXCEPT
                       !.pc = "timesync",
                       !.failures = @ \/ ~guarded \/ ~proven,
                       !.incomplete = @ \/ dump # "ok" \/ adopted = {}]
        BY <1>3, <3>1 DEF JudgePull
      <4> QED BY <4>1
    <3>2. CASE stage # "over"
      BY <1>3, <3>2 DEF JudgePull
    <3> QED BY <3>1, <3>2
  <2>5. audit' \in AuditType
    BY <2>4 DEF Types, AuditType, Places, Late
  <2> QED BY <2>1, <2>3, <2>5 DEF Types
<1> QED BY <1>1, <1>2, <1>3

LEMMA OtherTypes ==
    ASSUME Types, ClearHelper \/ Finalize \/ Raise \/ World
    PROVE  Types'
<1>1. CASE ClearHelper
  <2>1. audit' \in AuditType
    BY <1>1 DEF ClearHelper, Types, AuditType
  <2> QED BY <1>1, <2>1 DEF ClearHelper, Types
<1>2. CASE Finalize
  <2>1. audit' \in AuditType
    BY <1>2 DEF Finalize, Types, AuditType, Places, Late
  <2>2. store' \in StoreType
    BY <1>2 DEF Finalize, Types, StoreType
  <2> QED BY <1>2, <2>1, <2>2 DEF Finalize, Types
<1>3. CASE Raise
  <2>1. audit' \in AuditType
    BY <1>3 DEF Raise, Types, AuditType, Places
  <2> QED BY <1>3, <2>1 DEF Raise, Types
<1>4. CASE World
  <2>1. world' \in WorldType
    <3>1. ASSUME NEW p \in Parts, Deploy(p) PROVE world' \in WorldType
      <4>1. world.version[p] + 1 \in Versions
        BY <3>1, AuditConstants DEF Deploy, Types, WorldType, Versions
      <4> QED BY <3>1, <4>1 DEF Deploy, Types, WorldType
    <3>2. ASSUME NEW n \in Nodes, Restart(n) PROVE world' \in WorldType
      <4>1. /\ world.pid[n] + 1 \in Pids
            /\ world.version["runtime"] \in Versions
        BY <3>2, AuditConstants DEF Restart, Types, WorldType, Pids, Parts
      <4> QED BY <3>2, <4>1 DEF Restart, Types, WorldType
    <3> QED BY <1>4, <3>1, <3>2 DEF World
  <2>2. UNCHANGED auditVars
    BY <1>4 DEF World, Deploy, Restart
  <2> QED BY <2>1, <2>2 DEF Types, auditVars
<1> QED BY <1>1, <1>2, <1>3, <1>4

LEMMA TypesStep == ASSUME Types, [Next]_vars PROVE Types'
<1>1. CASE Collect
  BY <1>1, IdentifyTypes, PhasesTypes, PullTypes, OtherTypes
     DEF Collect, Parts, Places, Early, Before, AfterPull, Late
<1>2. CASE Raise \/ World
  BY <1>2, OtherTypes
<1>3. CASE UNCHANGED vars
  BY <1>3 DEF vars, auditVars, Types
<1> QED BY <1>1, <1>2, <1>3 DEF Next

LEMMA TypesInit == Init => Types
<1> SUFFICES ASSUME Init PROVE Types
  OBVIOUS
<1>1. 0 \in Versions /\ 0 \in Pids
  BY AuditConstants DEF Versions, Pids
<1>2. audit \in AuditType
  BY DEF Init, AuditInit, AuditType, Places, Early
<1>3. known \in KnownType /\ store \in StoreType /\ used \in UsedType
  BY DEF Init, AuditInit, KnownType, StoreType, UsedType
<1>4. world \in WorldType
  BY <1>1 DEF Init, AuditInit, WorldType
<1> QED BY <1>2, <1>3, <1>4 DEF Types

\* Whatever collect has found, known, stored and used has its type, for any
\* number of replacements and restarts.
THEOREM AuditTypes == Spec => []Types
BY TypesInit, TypesStep, PTL DEF Spec

-----------------------------------------------------------------------------
(* What the phases of each stretch of collect have in common.              *)

Identification ==
    \/ Open \/ IdentifyPackages
    \/ Hash("helper", "hash helper", "hash bundle") \/ Hash("bundle", "hash bundle", "hash runtime")
    \/ Hash("runtime", "hash runtime", "hash core") \/ Hash("core", "hash core", "join")
    \/ JoinSources \/ BindRuntime \/ CheckBundle
Preparation ==
    \/ CheckClock \/ CheckVehicle
    \/ PreCapture("pre state", "pre extended") \/ PreCapture("pre extended", "pre sources")
    \/ PreSources \/ PreRuntime
FollowUp ==
    PostCapture("post state", "post extended") \/ PostCapture("post extended", "judge")
Closing == CollectTimesync \/ CollectEstimator \/ PostRuntime \/ PostSources

LEMMA CollectSplit ==
    Collect => \/ Identification \/ Preparation \/ FollowUp \/ Closing
               \/ ClearHelper \/ Authorize \/ PullWorks \/ PullReturns \/ JudgePull \/ Finalize
BY DEF Collect, Identification, Preparation, FollowUp, Closing

\* The world and the transaction stand still.
Calm == /\ world' = world
        /\ stage' = stage /\ dump' = dump /\ exposed' = exposed /\ verdict' = verdict
Worsens == /\ audit.failures => audit'.failures
           /\ audit.incomplete => audit'.incomplete
           /\ audit'.status = audit.status
Uses == /\ used'.runtime = used.runtime
        /\ used'.helper \subseteq used.helper \cup {world.version["helper"]}
        /\ used'.pid \subseteq used.pid \cup {world.pid["mavros"]}

LEMMA PhaseMoves ==
    ASSUME Types, NEW pc, NEW next, NEW outcome, Phase(pc, next, outcome)
    PROVE  /\ audit.pc = pc /\ audit'.pc = next /\ Worsens /\ Calm
           /\ store' = Written({pc})
           /\ audit'.failures <=> audit.failures \/ outcome = "failure"
           /\ audit'.incomplete <=> audit.incomplete \/ outcome = "missing"
           /\ audit'.authorized <=> audit.authorized
<1>1. Calm
  BY DEF Phase, Calm, promiseVars
<1> QED BY <1>1 DEF Phase, Types, AuditType, Worsens

LEMMA GatedMoves ==
    ASSUME Types, NEW pc, NEW next, NEW outcome, GatedPhase(pc, next, outcome)
    PROVE  /\ audit.pc = pc /\ audit'.pc = next /\ Worsens /\ Calm
           /\ store' = Written({pc})
           /\ audit'.failures <=> audit.failures \/ outcome = "failure"
           /\ audit'.authorized <=> audit.authorized /\ outcome \in {"ok", "unheard"}
<1>1. Calm
  BY DEF GatedPhase, Calm, promiseVars
<1> QED BY <1>1 DEF GatedPhase, Types, AuditType, Worsens

LEMMA HelperMoves ==
    ASSUME Types, NEW outcome, RunHelper(outcome)
    PROVE  known' = known /\ Uses
<1>1. \/ used' = used
      \/ used' = [used EXCEPT !.helper = @ \cup {world.version["helper"]},
                            !.pid = @ \cup {world.pid["mavros"]}]
  BY DEF RunHelper
<1> QED BY <1>1 DEF RunHelper, Types, UsedType, Uses

\* Digests and pids are what the world is when they are taken.
Reads == /\ \A p \in Parts : known'.version[p] \in {known.version[p], world.version[p]}
         /\ known'.pid \in {known.pid, world.pid}

LEMMA IdentificationMoves ==
    ASSUME Types, Identification
    PROVE  /\ audit.pc \in Early /\ audit'.pc \in Early \cup {"clock"}
           /\ Worsens /\ Calm /\ Reads /\ used' = used
           /\ store' = Written({audit.pc})
           /\ audit'.failures <=> audit.failures
           /\ audit'.authorized => audit.authorized
           /\ audit'.pc = "clock" =>
                (audit'.authorized => known'.ok) /\ (known'.ok => OneVersion')
<1> DEFINE Goal ==
           /\ audit.pc \in Early /\ audit'.pc \in Early \cup {"clock"}
           /\ Worsens /\ Calm /\ Reads /\ used' = used
           /\ store' = Written({audit.pc})
           /\ audit'.failures <=> audit.failures
           /\ audit'.authorized => audit.authorized
           /\ audit'.pc = "clock" =>
                (audit'.authorized => known'.ok) /\ (known'.ok => OneVersion')
<1>1. ASSUME Open \/ IdentifyPackages \/ JoinSources PROVE Goal
  <2>1. Reads
    BY <1>1 DEF Open, IdentifyPackages, JoinSources, Reads, Types, KnownType
  <2>2. used' = used
    BY <1>1 DEF Open, IdentifyPackages, JoinSources, Identify
  <2>3. \E pc \in Early, next \in Early, outcome \in {"ok", "missing"} :
            Phase(pc, next, outcome)
    BY <1>1 DEF Open, IdentifyPackages, JoinSources, Identify, Early
  <2> QED BY <2>1, <2>2, <2>3, PhaseMoves DEF Early
<1>2. ASSUME NEW part \in Parts, NEW pc \in Early, NEW next \in Early, Hash(part, pc, next)
      PROVE  Goal
  <2>1. PICK regular \in BOOLEAN :
          /\ Identify(pc, next, regular)
          /\ known' = [known EXCEPT !.version[part] = world.version[part],
                                   !.ok = @ /\ regular]
    BY <1>2 DEF Hash
  <2>2. Reads
    BY <2>1 DEF Reads, Types, KnownType
  <2>3. used' = used /\ \E outcome \in {"ok", "missing"} : Phase(pc, next, outcome)
    BY <2>1 DEF Identify
  <2> QED BY <2>2, <2>3, PhaseMoves DEF Early
<1>3. ASSUME BindRuntime PROVE Goal
  <2>1. Reads
    BY <1>3 DEF BindRuntime, Reads, Types, KnownType
  <2>2. used' = used
    BY <1>3 DEF BindRuntime, Identify
  <2>3. PICK outcome \in {"ok", "missing"} : Phase("graph", "bundle", outcome)
    BY <1>3 DEF BindRuntime, Identify
  <2>4. /\ audit.pc = "graph" /\ audit'.pc = "bundle"
        /\ Worsens /\ Calm /\ store' = Written({audit.pc})
        /\ audit'.failures <=> audit.failures
        /\ audit'.authorized <=> audit.authorized
    BY <2>3, PhaseMoves
  <2> QED BY <2>1, <2>2, <2>4 DEF Early
<1>4. ASSUME CheckBundle PROVE Goal
  <2>1. PICK proper \in BOOLEAN : known' = [known EXCEPT !.ok = @ /\ proper /\ Bound]
    BY <1>4 DEF CheckBundle
  <2>2. Reads
    BY <2>1 DEF Reads, Types, KnownType
  <2>3. known'.ok => OneVersion'
    BY <2>1 DEF Bound, OneVersion, Types, KnownType
  <2>4. used' = used /\ GatedPhase("bundle", "clock", IF known'.ok THEN "ok" ELSE "missing")
    BY <1>4 DEF CheckBundle
  <2>5. /\ audit.pc = "bundle" /\ audit'.pc = "clock"
        /\ Worsens /\ Calm /\ store' = Written({audit.pc})
        /\ audit'.failures <=> audit.failures
        /\ audit'.authorized => audit.authorized /\ known'.ok
    <3>1. PICK outcome \in {"ok", "missing"} :
            GatedPhase("bundle", "clock", outcome) /\ (outcome = "ok" => known'.ok)
      BY <2>4
    <3> QED BY <3>1, GatedMoves
  <2> QED BY <2>2, <2>3, <2>4, <2>5 DEF Early
<1> HIDE DEF Goal
<1>5. Goal
  BY <1>1, <1>2, <1>3, <1>4 DEF Identification, Parts, Early
<1> QED BY <1>5 DEF Goal

LEMMA PreparationMoves ==
    ASSUME Types, Preparation
    PROVE  /\ audit.pc \in Before \ {"authorize"} /\ audit'.pc \in Before
           /\ Worsens /\ Calm /\ Uses /\ known' = known
           /\ store' = Written({audit.pc})
           /\ audit'.authorized => audit.authorized /\ (audit'.failures => audit.failures)
<1>1. PICK pc \in Before \ {"authorize"}, next \in Before,
           outcome \in {"ok", "failure", "missing", "unheard"} : GatedPhase(pc, next, outcome)
  BY DEF Preparation, CheckClock, CheckVehicle, PreCapture, PreSources, PreRuntime, Recheck,
         Before, Outcomes
<1>2. known' = known /\ Uses
  <2>1. CASE CheckClock \/ PreSources \/ PreRuntime
    BY <2>1 DEF CheckClock, PreSources, PreRuntime, Uses
  <2>2. CASE CheckVehicle
    BY <2>2 DEF CheckVehicle, Uses, Types, UsedType
  <2>3. ASSUME NEW pc1, NEW next1, PreCapture(pc1, next1) PROVE known' = known /\ Uses
    BY <2>3, HelperMoves DEF PreCapture
  <2> QED BY <2>1, <2>2, <2>3 DEF Preparation
<1> QED BY <1>1, <1>2, GatedMoves

LEMMA FollowUpMoves ==
    ASSUME Types, FollowUp
    PROVE  /\ audit.pc \in AfterPull /\ audit'.pc \in AfterPull
           /\ Worsens /\ Calm /\ Uses /\ known' = known
           /\ store' = Written({audit.pc})
<1>1. PICK pc \in AfterPull, next \in AfterPull, outcome \in Outcomes :
          Phase(pc, next, outcome) /\ RunHelper(outcome)
  BY DEF FollowUp, PostCapture, AfterPull
<1> QED BY <1>1, PhaseMoves, HelperMoves

LEMMA ClosingMoves ==
    ASSUME Types, Closing
    PROVE  /\ audit.pc \in Late \ {"finalize", "done"} /\ audit'.pc \in Late \ {"done"}
           /\ Worsens /\ Calm /\ Uses /\ known' = known
           /\ store' = Written({audit.pc})
           /\ audit'.pc \in {"post sources", "finalize"} => used' = used
           /\ audit'.pc = "finalize" => audit.pc = "post sources"
           /\ audit'.pc = "post sources" /\ ~audit'.failures /\ ~audit'.incomplete =>
                known.ok /\ RuntimeUnchanged
           /\ audit'.pc = "finalize" /\ ~audit'.failures /\ ~audit'.incomplete =>
                known.ok /\ SourcesUnchanged
<1>1. CASE CollectTimesync
  <2>1. PICK outcome \in Outcomes : Phase("timesync", "estimator", outcome) /\ RunHelper(outcome)
    BY <1>1 DEF CollectTimesync
  <2>4. /\ audit.pc = "timesync" /\ audit'.pc = "estimator"
        /\ Worsens /\ Calm /\ store' = Written({audit.pc})
    BY <2>1, PhaseMoves
  <2> QED BY <2>1, <2>4, HelperMoves DEF Late
<1>2. CASE CollectEstimator
  <2>1. PICK outcome \in Outcomes : Phase("estimator", "post runtime", outcome)
    BY <1>2 DEF CollectEstimator
  <2>2. Uses /\ known' = known
    BY <1>2 DEF CollectEstimator, Uses, Types, UsedType
  <2>4. /\ audit.pc = "estimator" /\ audit'.pc = "post runtime"
        /\ Worsens /\ Calm /\ store' = Written({audit.pc})
    BY <2>1, PhaseMoves
  <2> QED BY <2>2, <2>4 DEF Late
<1>3. CASE PostRuntime
  <2>1. PICK outcome \in Outcomes :
          /\ Phase("post runtime", "post sources", outcome)
          /\ outcome = "ok" => known.ok /\ RuntimeUnchanged
    BY <1>3 DEF PostRuntime, Recheck, Outcomes
  <2>2. used' = used /\ known' = known /\ Uses
    BY <1>3 DEF PostRuntime, Uses
  <2>3. ~audit'.failures /\ ~audit'.incomplete => outcome = "ok"
    BY <2>1, PhaseMoves DEF Outcomes
  <2>4. /\ audit.pc = "post runtime" /\ audit'.pc = "post sources"
        /\ Worsens /\ Calm /\ store' = Written({audit.pc})
    BY <2>1, PhaseMoves
  <2> QED BY <2>1, <2>2, <2>3, <2>4 DEF Late
<1>4. CASE PostSources
  <2>1. PICK outcome \in Outcomes :
          /\ Phase("post sources", "finalize", outcome)
          /\ outcome = "ok" => known.ok /\ SourcesUnchanged
    BY <1>4 DEF PostSources, Recheck, Outcomes
  <2>2. used' = used /\ known' = known /\ Uses
    BY <1>4 DEF PostSources, Uses
  <2>3. ~audit'.failures /\ ~audit'.incomplete => outcome = "ok"
    BY <2>1, PhaseMoves DEF Outcomes
  <2>4. /\ audit.pc = "post sources" /\ audit'.pc = "finalize"
        /\ Worsens /\ Calm /\ store' = Written({audit.pc})
    BY <2>1, PhaseMoves
  <2> QED BY <2>1, <2>2, <2>3, <2>4 DEF Late
<1> QED BY <1>1, <1>2, <1>3, <1>4 DEF Closing

LEMMA ClearHelperMoves ==
    ASSUME Types, ClearHelper
    PROVE  /\ audit'.pc = audit.pc /\ audit'.status = audit.status
           /\ audit'.failures <=> audit.failures
           /\ audit'.incomplete <=> audit.incomplete
           /\ audit'.authorized <=> audit.authorized
           /\ Calm /\ known' = known /\ store' = store /\ used' = used
<1>1. Calm
  BY DEF ClearHelper, Calm, promiseVars
<1> QED BY <1>1 DEF ClearHelper, Types, AuditType

LEMMA WorldMoves ==
    ASSUME Types, World
    PROVE  /\ audit' = audit /\ known' = known /\ store' = store /\ used' = used
           /\ stage' = stage /\ dump' = dump /\ exposed' = exposed /\ verdict' = verdict
           /\ \A p \in Parts : world.version[p] <= world'.version[p]
           /\ \A n \in Nodes :
                /\ world.pid[n] <= world'.pid[n]
                /\ world'.pid[n] = world.pid[n] => world'.mapped[n] = world.mapped[n]
<1>1. /\ world.version \in [Parts -> Int] /\ world.pid \in [Nodes -> Int]
  BY AuditConstants DEF Types, WorldType, Versions, Pids
<1> DEFINE Forward ==
           /\ \A p \in Parts : world.version[p] <= world'.version[p]
           /\ \A n \in Nodes :
                /\ world.pid[n] <= world'.pid[n]
                /\ world'.pid[n] = world.pid[n] => world'.mapped[n] = world.mapped[n]
<1>2. ASSUME NEW p \in Parts, Deploy(p) PROVE Forward
  <2>1. /\ world'.version = [world.version EXCEPT ![p] = @ + 1]
        /\ world'.pid = world.pid /\ world'.mapped = world.mapped
    BY <1>2 DEF Deploy, Types, WorldType
  <2> QED BY <1>1, <2>1
<1>3. ASSUME NEW n \in Nodes, Restart(n) PROVE Forward
  <2>1. /\ world'.version = world.version
        /\ world'.pid = [world.pid EXCEPT ![n] = @ + 1]
        /\ \A other \in Nodes : other # n => world'.mapped[other] = world.mapped[other]
    BY <1>3 DEF Restart, Types, WorldType
  <2> QED BY <1>1, <2>1
<1>4. Forward
  BY <1>2, <1>3 DEF World
<1>5. UNCHANGED auditVars /\ UNCHANGED promiseVars
  BY DEF World, Deploy, Restart
<1> QED BY <1>4, <1>5 DEF auditVars, promiseVars

LEMMA PullReturnsMoves ==
    ASSUME Types, PullReturns
    PROVE  /\ audit.pc = "pull" /\ audit'.pc = "post state" /\ stage = "over"
           /\ Worsens /\ Calm /\ store' = Written({"pull"})
           /\ known' = known /\ used' = used
<1>1. PICK outcome : Phase("pull", "post state", outcome)
  BY DEF PullReturns
<1> QED BY <1>1, PhaseMoves DEF PullReturns

LEMMA PullWorksMoves ==
    ASSUME Types, PullWorks
    PROVE  /\ audit.pc = "pull" /\ audit' = audit /\ known' = known /\ world' = world
           /\ stage = "open"
           /\ RunOrSkip \/ Expose \/ EndDump \/ Return
           /\ used'.helper = used.helper
           /\ used'.runtime \subseteq used.runtime \cup {world.version["runtime"],
                                                       world.mapped["mavros"]}
           /\ used'.pid \subseteq used.pid \cup {world.pid["mavros"]}
           /\ used.runtime # {} \/ (dump = "none" /\ dump' = "running") => used'.runtime # {}
           /\ store'.listed = store.listed /\ store.disk \subseteq store'.disk
           /\ store'.disk \subseteq store.disk \cup {"parameters"}
<1>1. CASE dump = "none" /\ dump' = "running"
  <2>1. used' = [used EXCEPT !.runtime = @ \cup {world.version["runtime"],
                                                world.mapped["mavros"]},
                             !.pid = @ \cup {world.pid["mavros"]}]
    BY <1>1 DEF PullWorks
  <2>2. /\ used'.helper = used.helper
        /\ used'.runtime = used.runtime \cup {world.version["runtime"], world.mapped["mavros"]}
        /\ used'.pid = used.pid \cup {world.pid["mavros"]}
    BY <2>1 DEF Types, UsedType
  <2>3. store' = store
    BY <1>1 DEF PullWorks
  <2>4. /\ audit.pc = "pull" /\ audit' = audit /\ known' = known /\ world' = world
        /\ RunOrSkip \/ Expose \/ EndDump \/ Return
    BY DEF PullWorks
  <2> QED BY <2>2, <2>3, <2>4 DEF RunOrSkip, Expose, EndDump, Return
<1>2. CASE ~(dump = "none" /\ dump' = "running")
  <2>1. used' = used
    BY <1>2 DEF PullWorks
  <2>2. store' = store \/ store' = [store EXCEPT !.disk = @ \cup {"parameters"}]
    BY DEF PullWorks
  <2>3. /\ store'.listed = store.listed /\ store.disk \subseteq store'.disk
        /\ store'.disk \subseteq store.disk \cup {"parameters"}
    BY <2>2 DEF Types, StoreType
  <2>4. /\ audit.pc = "pull" /\ audit' = audit /\ known' = known /\ world' = world
        /\ RunOrSkip \/ Expose \/ EndDump \/ Return
    BY DEF PullWorks
  <2> QED BY <1>2, <2>1, <2>3, <2>4 DEF RunOrSkip, Expose, EndDump, Return
<1> QED BY <1>1, <1>2

LEMMA AuthorizeMoves ==
    ASSUME Types, Authorize
    PROVE  /\ audit.pc = "authorize" /\ Worsens
           /\ known' = known /\ store' = store /\ world' = world
           /\ dump' = dump /\ exposed' = exposed /\ verdict' = verdict
           /\ Uses
           /\ \/ audit.authorized /\ audit'.pc = "pull" /\ stage = "idle" /\ stage' = "open"
              \/ ~audit.authorized /\ audit'.pc = "post state" /\ audit'.incomplete
                  /\ stage' = stage
<1>1. CASE audit.authorized
  BY <1>1 DEF Authorize, Begin, Types, AuditType, UsedType, Worsens, Uses
<1>2. CASE ~audit.authorized
  BY <1>2 DEF Authorize, promiseVars, Types, AuditType, UsedType, Worsens, Uses
<1> QED BY <1>1, <1>2

LEMMA JudgeMoves ==
    ASSUME Types, JudgePull
    PROVE  /\ audit.pc = "judge" /\ audit'.pc = "timesync" /\ Worsens /\ Calm
           /\ known' = known /\ used' = used
           /\ store'.disk = store.disk /\ store.listed \subseteq store'.listed
           /\ store'.listed \subseteq store.listed \cup store.disk
           /\ stage # "over" => store' = store
           /\ stage = "over" /\ ~audit'.incomplete => "parameters" \in store'.listed
           /\ stage = "over" /\ ~audit'.failures /\ ~audit'.incomplete => verdict = "clean"
<1>0. Calm /\ known' = known /\ used' = used /\ audit.pc = "judge"
  BY DEF JudgePull, Calm, promiseVars
<1>1. CASE stage = "over"
  <2>1. PICK guarded \in BOOLEAN, proven \in BOOLEAN, regular \in BOOLEAN :
          LET adopted == {"parameters"} \cap IF regular THEN store.disk ELSE {}
          IN  /\ guarded /\ dump = "ok" /\ ~audit.failures => verdict = "clean"
              /\ store' = Adopted(adopted)
              /\ audit' = [audit EXCEPT
                   !.pc = "timesync",
                   !.failures = @ \/ ~guarded \/ ~proven,
                   !.incomplete = @ \/ dump # "ok" \/ adopted = {}]
    BY <1>1 DEF JudgePull
  <2> DEFINE adopted == {"parameters"} \cap IF regular THEN store.disk ELSE {}
  <2>2. /\ audit'.pc = "timesync" /\ Worsens
        /\ audit'.failures <=> audit.failures \/ ~guarded \/ ~proven
        /\ audit'.incomplete <=> audit.incomplete \/ dump # "ok" \/ adopted = {}
    BY <2>1 DEF Types, AuditType, Worsens
  <2>3. store'.disk = store.disk /\ store'.listed = store.listed \cup adopted
    BY <2>1 DEF Adopted, Types, StoreType
  <2>4. adopted \subseteq store.disk \cap {"parameters"}
    OBVIOUS
  <2> HIDE DEF adopted
  <2> QED BY <1>0, <1>1, <2>1, <2>2, <2>3, <2>4
<1>2. CASE stage # "over"
  BY <1>0, <1>2 DEF JudgePull, Types, AuditType, Worsens
<1> QED BY <1>1, <1>2

LEMMA FinalizeMoves ==
    ASSUME Types, Finalize
    PROVE  /\ audit.pc = "finalize" /\ audit'.pc = "done" /\ Calm
           /\ known' = known /\ used' = used
           /\ audit'.failures <=> audit.failures
           /\ audit'.incomplete <=> audit.incomplete
           /\ audit'.status = "PASS" => ~audit.failures /\ ~audit.incomplete
           /\ store'.disk = store.disk /\ store'.listed = store.listed
<1>1. Calm
  BY DEF Finalize, Calm, promiseVars
<1> QED BY <1>1 DEF Finalize, Types, AuditType, StoreType

LEMMA RaiseMoves ==
    ASSUME Types, Raise
    PROVE  /\ audit.pc \notin {"done", "aborted"} /\ audit'.pc = "aborted"
           /\ audit'.status = audit.status
           /\ known' = known /\ store' = store /\ used' = used /\ world' = world
           /\ dump' = dump /\ exposed' = exposed /\ verdict' = verdict
           /\ stage' = stage \/ (audit.pc = "pull" /\ stage = "open" /\ stage' = "raised")
<1>1. /\ dump' = dump /\ exposed' = exposed /\ verdict' = verdict
      /\ stage' = stage \/ (audit.pc = "pull" /\ stage = "open" /\ stage' = "raised")
  BY DEF Raise, RaiseInPull, promiseVars
<1> QED BY <1>1 DEF Raise, Over, Types, AuditType

\* Every step is of one of these kinds.
LEMMA Kinds ==
    [Next]_vars => \/ Identification \/ Preparation \/ FollowUp \/ Closing
                   \/ ClearHelper \/ Authorize \/ PullWorks \/ PullReturns \/ JudgePull
                   \/ Finalize \/ Raise \/ World \/ UNCHANGED vars
BY CollectSplit DEF Next

-----------------------------------------------------------------------------
(* The steps of the invariant.                                             *)

LEMMA TransactionStep == ASSUME Types, Transaction, [Next]_vars PROVE Transaction'
<1> USE DEF Transaction, Early, Before, AfterPull, Late
<1>1. CASE Identification
  BY <1>1, IdentificationMoves DEF Calm
<1>2. CASE Preparation
  BY <1>2, PreparationMoves DEF Calm, Uses
<1>3. CASE FollowUp
  BY <1>3, FollowUpMoves DEF Calm, Uses
<1>4. CASE Closing
  BY <1>4, ClosingMoves DEF Calm, Uses
<1>5. CASE ClearHelper
  BY <1>5, ClearHelperMoves DEF Calm
<1>6. CASE Authorize
  BY <1>6, AuthorizeMoves DEF Uses
<1>7. CASE PullWorks
  BY <1>7, PullWorksMoves DEF RunOrSkip, Expose, EndDump, Return
<1>8. CASE PullReturns
  BY <1>8, PullReturnsMoves DEF Calm
<1>9. CASE JudgePull
  BY <1>9, JudgeMoves DEF Calm
<1>10. CASE Finalize
  BY <1>10, FinalizeMoves DEF Calm
<1>11. CASE Raise
  BY <1>11, RaiseMoves
<1>12. CASE World
  BY <1>12, WorldMoves
<1>13. CASE UNCHANGED vars
  BY <1>13 DEF vars, auditVars, promiseVars
<1> QED BY <1>1, <1>2, <1>3, <1>4, <1>5, <1>6, <1>7, <1>8, <1>9, <1>10, <1>11, <1>12, <1>13,
           Kinds

LEMMA GateStep == ASSUME Types, Transaction, Gate, [Next]_vars PROVE Gate'
<1> USE DEF Gate, Early, Before, AfterPull, Late
<1>1. CASE Identification
  BY <1>1, IdentificationMoves DEF Calm
<1>2. CASE Preparation
  BY <1>2, PreparationMoves DEF Calm
<1>3. CASE FollowUp
  BY <1>3, FollowUpMoves DEF Calm, Worsens
<1>4. CASE Closing
  BY <1>4, ClosingMoves DEF Calm, Worsens
<1>5. CASE ClearHelper
  BY <1>5, ClearHelperMoves DEF Calm
<1>6. CASE Authorize
  BY <1>6, AuthorizeMoves
<1>7. CASE PullWorks
  BY <1>7, PullWorksMoves
<1>8. CASE PullReturns
  BY <1>8, PullReturnsMoves DEF Calm
<1>9. CASE JudgePull
  BY <1>9, JudgeMoves DEF Calm, Worsens
<1>10. CASE Finalize
  BY <1>10, FinalizeMoves DEF Calm
<1>11. CASE Raise
  BY <1>11, RaiseMoves
<1>12. CASE World
  BY <1>12, WorldMoves
<1>13. CASE UNCHANGED vars
  BY <1>13 DEF vars, auditVars, promiseVars
<1> QED BY <1>1, <1>2, <1>3, <1>4, <1>5, <1>6, <1>7, <1>8, <1>9, <1>10, <1>11, <1>12, <1>13,
           Kinds

LEMMA WrittenLists ==
    ASSUME Types, NEW files, store' = Written(files)
    PROVE  store'.disk = store.disk \cup files /\ store'.listed = store.listed \cup files
BY DEF Written, Types, StoreType

LEMMA DirectoryStep ==
    ASSUME Types, Transaction, Gate, Directory, [Next]_vars PROVE Directory'
<1> USE DEF Directory, Early, Before, AfterPull, Late
<1>1. CASE Identification
  BY <1>1, IdentificationMoves, WrittenLists
<1>2. CASE Preparation
  BY <1>2, PreparationMoves, WrittenLists
<1>3. CASE FollowUp
  BY <1>3, FollowUpMoves, WrittenLists
<1>4. CASE Closing
  BY <1>4, ClosingMoves, WrittenLists DEF Worsens
<1>5. CASE ClearHelper
  BY <1>5, ClearHelperMoves
<1>6. CASE Authorize
  BY <1>6, AuthorizeMoves
<1>7. CASE PullWorks
  BY <1>7, PullWorksMoves
<1>8. CASE PullReturns
  BY <1>8, PullReturnsMoves, WrittenLists
<1>9. CASE JudgePull
  BY <1>9, JudgeMoves DEF Worsens, Gate
<1>10. CASE Finalize
  BY <1>10, FinalizeMoves
<1>11. CASE Raise
  BY <1>11, RaiseMoves
<1>12. CASE World
  BY <1>12, WorldMoves
<1>13. CASE UNCHANGED vars
  BY <1>13 DEF vars, auditVars
<1> QED BY <1>1, <1>2, <1>3, <1>4, <1>5, <1>6, <1>7, <1>8, <1>9, <1>10, <1>11, <1>12, <1>13,
           Kinds

\* Versions and pids are integers, as the provers need to know to order them.
LEMMA Ordered ==
    ASSUME Types
    PROVE  /\ \A p \in Parts : known.version[p] \in Int /\ world.version[p] \in Int
           /\ \A n \in Nodes : known.pid[n] \in Int /\ world.pid[n] \in Int
           /\ used.helper \subseteq Int /\ used.runtime \subseteq Int /\ used.pid \subseteq Int
           /\ {"helper", "runtime"} \subseteq Parts /\ "mavros" \in Nodes
<1>1. Versions \subseteq Int /\ Pids \subseteq Int /\ None \in Int
  BY AuditConstants DEF Versions, Pids, None
<1> QED BY <1>1 DEF Types, KnownType, WorldType, UsedType, Parts, Nodes

\* What is used at a step lies in the brackets of that step.
LEMMA UsesStayBetween ==
    ASSUME Types, Brackets, audit'.pc \notin Early, known' = known, world' = world,
           used'.helper \subseteq used.helper \cup {world.version["helper"]},
           used'.runtime \subseteq used.runtime \cup {world.version["runtime"],
                                                    world.mapped["mavros"]},
           used'.pid \subseteq used.pid \cup {world.pid["mavros"]}
    PROVE  Brackets'
BY Ordered DEF Brackets, Between

LEMMA BracketsStep == ASSUME Types, Brackets, [Next]_vars PROVE Brackets'
<1> USE DEF Early, Before, AfterPull, Late
<1>1. CASE Identification
  <2>1. used' = used /\ world' = world /\ used = [helper |-> {}, runtime |-> {}, pid |-> {}]
    BY <1>1, IdentificationMoves DEF Calm, Brackets
  <2>2. ASSUME NEW p \in Parts PROVE known'.version[p] <= world.version[p]
    <3>1. known'.version[p] \in {known.version[p], world.version[p]}
      BY <1>1, IdentificationMoves DEF Reads
    <3>2. known.version[p] <= world.version[p]
      BY DEF Brackets
    <3>3. world.version[p] \in Int
      BY Ordered
    <3> QED BY <3>1, <3>2, <3>3
  <2>3. ASSUME NEW n \in Nodes PROVE known'.pid[n] <= world.pid[n]
    <3>1. known'.pid \in {known.pid, world.pid}
      BY <1>1, IdentificationMoves DEF Reads
    <3>2. known.pid[n] <= world.pid[n]
      BY DEF Brackets
    <3>3. world.pid[n] \in Int
      BY Ordered
    <3> QED BY <3>1, <3>2, <3>3
  <2> QED BY <2>1, <2>2, <2>3 DEF Brackets
<1>2. CASE Preparation
  BY <1>2, PreparationMoves, UsesStayBetween DEF Calm, Uses
<1>3. CASE FollowUp
  BY <1>3, FollowUpMoves, UsesStayBetween DEF Calm, Uses
<1>4. CASE Closing
  BY <1>4, ClosingMoves, UsesStayBetween DEF Calm, Uses
<1>5. CASE ClearHelper
  BY <1>5, ClearHelperMoves DEF Calm, Brackets
<1>6. CASE Authorize
  BY <1>6, AuthorizeMoves, UsesStayBetween DEF Uses
<1>7. CASE PullWorks
  BY <1>7, PullWorksMoves, UsesStayBetween
<1>8. CASE PullReturns
  BY <1>8, PullReturnsMoves DEF Calm, Brackets
<1>9. CASE JudgePull
  BY <1>9, JudgeMoves DEF Calm, Brackets
<1>10. CASE Finalize
  BY <1>10, FinalizeMoves DEF Calm, Brackets
<1>11. CASE Raise
  BY <1>11, RaiseMoves DEF Brackets
<1>12. CASE World
  <2>1. Types'
    BY TypesStep
  <2>2. \A p \in Parts : world.version[p] <= world'.version[p] /\ world'.version[p] \in Int
    BY <1>12, <2>1, WorldMoves, AuditConstants DEF Types, WorldType, Versions
  <2>3. \A n \in Nodes : world.pid[n] <= world'.pid[n] /\ world'.pid[n] \in Int
    BY <1>12, <2>1, WorldMoves, AuditConstants DEF Types, WorldType, Pids
  <2>4. audit' = audit /\ known' = known /\ used' = used
    BY <1>12, WorldMoves
  <2>5. /\ \A p \in Parts : /\ known.version[p] <= world.version[p]
                             /\ known.version[p] \in Int /\ world.version[p] \in Int
        /\ \A n \in Nodes : /\ known.pid[n] <= world.pid[n]
                             /\ known.pid[n] \in Int /\ world.pid[n] \in Int
        /\ used.helper \subseteq Int /\ used.pid \subseteq Int /\ used.runtime \subseteq Int
        /\ {"helper", "runtime"} \subseteq Parts /\ "mavros" \in Nodes
    BY Ordered DEF Brackets
  <2>6. /\ \A p \in Parts : known.version[p] <= world'.version[p]
        /\ \A n \in Nodes : known.pid[n] <= world'.pid[n]
    BY <2>2, <2>3, <2>5
  <2>7. /\ \A v \in used.helper :
               Between(known.version["helper"], v, world'.version["helper"])
        /\ \A i \in used.pid : Between(known.pid["mavros"], i, world'.pid["mavros"])
    <3>1. /\ \A v \in used.helper :
                 Between(known.version["helper"], v, world.version["helper"])
          /\ \A i \in used.pid : Between(known.pid["mavros"], i, world.pid["mavros"])
      BY DEF Brackets
    <3> QED BY <2>2, <2>3, <2>5, <3>1 DEF Between
  <2>8. ASSUME world'.pid["mavros"] = known.pid["mavros"], NEW v \in used.runtime
        PROVE  \/ v = world'.mapped["mavros"]
               \/ Between(known.version["runtime"], v, world'.version["runtime"])
    <3>1. world'.pid["mavros"] = world.pid["mavros"]
      BY <2>3, <2>5, <2>8
    <3>2. world'.mapped["mavros"] = world.mapped["mavros"]
      BY <1>12, <2>5, <3>1, WorldMoves
    <3>3. \/ v = world.mapped["mavros"]
          \/ Between(known.version["runtime"], v, world.version["runtime"])
      BY <2>8, <3>1 DEF Brackets
    <3> QED BY <2>2, <2>5, <3>2, <3>3 DEF Between
  <2> QED BY <2>4, <2>6, <2>7, <2>8 DEF Brackets
<1>13. CASE UNCHANGED vars
  BY <1>13 DEF vars, auditVars, Brackets
<1> QED BY <1>1, <1>2, <1>3, <1>4, <1>5, <1>6, <1>7, <1>8, <1>9, <1>10, <1>11, <1>12, <1>13,
           Kinds

\* The recheck of the runtime closes the bracket on mavparam, on the plugin
\* MAVROS has mapped and on the process.
LEMMA RuntimeCloses ==
    ASSUME Types, Brackets, known.ok, RuntimeUnchanged PROVE RuntimeIsKnown
<1>1. /\ world.pid["mavros"] = known.pid["mavros"]
      /\ world.version["runtime"] = known.version["runtime"]
      /\ world.mapped["mavros"] = known.version["runtime"]
  BY DEF RuntimeUnchanged, MapsWhatIsOnDisk, Nodes
<1>2. \A v \in used.runtime : v = known.version["runtime"]
  BY <1>1, Ordered DEF Brackets, Between
<1>3. \A i \in used.pid : i = known.pid["mavros"]
  BY <1>1, Ordered DEF Brackets, Between
<1> QED BY <1>2, <1>3 DEF RuntimeIsKnown

\* The recheck of the sources closes the bracket on the helpers.
LEMMA HelperCloses ==
    ASSUME Types, Brackets, SourcesUnchanged PROVE HelperIsKnown
<1>1. \A v \in used.helper : v = known.version["helper"]
  BY Ordered DEF Brackets, Between, SourcesUnchanged
<1> QED BY <1>1 DEF HelperIsKnown

LEMMA ClosedStep == ASSUME Types, Brackets, Closed, [Next]_vars PROVE Closed'
<1> USE DEF Early, Before, AfterPull, Late
<1>1. CASE Identification
  BY <1>1, IdentificationMoves DEF Closed, Worsens, Passed
<1>2. CASE Preparation
  <2>1. known.ok => OneVersion
    BY <1>2, PreparationMoves DEF Closed
  <2> QED BY ZenonT(60), <1>2, <2>1, PreparationMoves DEF Closed, Worsens, Passed, OneVersion
<1>3. CASE FollowUp
  BY <1>3, FollowUpMoves DEF Closed, Worsens, Passed, OneVersion
<1>4. CASE Closing
  <2>1. known.ok => OneVersion
    BY <1>4, ClosingMoves DEF Closed
  <2>2. audit'.pc = "post sources" /\ ~audit'.failures /\ ~audit'.incomplete => RuntimeIsKnown
    BY <1>4, ClosingMoves, RuntimeCloses
  <2>3. audit'.pc = "finalize" /\ ~audit'.failures /\ ~audit'.incomplete =>
            RuntimeIsKnown /\ HelperIsKnown
    BY <1>4, ClosingMoves, HelperCloses DEF Closed, Worsens
  <2>4. /\ audit'.pc \notin {"done", "aborted"} /\ audit'.status = "none" /\ known' = known
        /\ audit'.pc \in {"post sources", "finalize"} => used' = used
    BY <1>4, ClosingMoves DEF Closed, Worsens, Types, AuditType
  <2> QED BY <2>1, <2>2, <2>3, <2>4
          DEF Closed, Passed, OneVersion, RuntimeIsKnown, HelperIsKnown
<1>5. CASE ClearHelper
  BY ZenonT(60), <1>5, ClearHelperMoves
     DEF Closed, Passed, OneVersion, RuntimeIsKnown, HelperIsKnown
<1>6. CASE Authorize
  BY ZenonT(60), <1>6, AuthorizeMoves DEF Closed, Worsens, Passed, OneVersion
<1>7. CASE PullWorks
  <2>1. audit' = audit /\ known' = known /\ audit.pc = "pull"
    BY <1>7, PullWorksMoves
  <2> QED BY <2>1 DEF Closed, Passed, OneVersion
<1>8. CASE PullReturns
  <2>1. /\ audit.pc = "pull" /\ audit'.pc = "post state" /\ audit'.status = audit.status
        /\ known' = known
    BY <1>8, PullReturnsMoves DEF Worsens
  <2> QED BY <2>1 DEF Closed, Passed, OneVersion
<1>9. CASE JudgePull
  <2>1. /\ audit.pc = "judge" /\ audit'.pc = "timesync" /\ audit'.status = audit.status
        /\ known' = known
    BY <1>9, JudgeMoves DEF Worsens
  <2> QED BY <2>1 DEF Closed, Passed, OneVersion
<1>10. CASE Finalize
  <2>1. /\ audit.pc = "finalize" /\ audit'.pc = "done" /\ known' = known /\ used' = used
        /\ audit'.failures <=> audit.failures
        /\ audit'.incomplete <=> audit.incomplete
        /\ audit'.status = "PASS" => ~audit.failures /\ ~audit.incomplete
    BY <1>10, FinalizeMoves
  <2> QED BY <2>1 DEF Closed, Passed, OneVersion, RuntimeIsKnown, HelperIsKnown
<1>11. CASE Raise
  BY <1>11, RaiseMoves DEF Closed, Passed
<1>12. CASE World
  <2>1. audit' = audit /\ known' = known /\ used' = used
    BY <1>12, WorldMoves
  <2> QED BY <2>1 DEF Closed, Passed, OneVersion, RuntimeIsKnown, HelperIsKnown
<1>13. CASE UNCHANGED vars
  BY <1>13 DEF vars, auditVars, Closed, Passed, OneVersion, RuntimeIsKnown, HelperIsKnown
<1> QED BY <1>1, <1>2, <1>3, <1>4, <1>5, <1>6, <1>7, <1>8, <1>9, <1>10, <1>11, <1>12, <1>13,
           Kinds

LEMMA InvStep == ASSUME Inv, [Next]_vars PROVE Inv'
BY TypesStep, TransactionStep, GateStep, DirectoryStep, BracketsStep, ClosedStep DEF Inv

LEMMA InvInit == Init => Inv
<1> SUFFICES ASSUME Init PROVE Inv
  OBVIOUS
<1>1. Types
  BY TypesInit
<1>2. Transaction /\ Gate /\ Directory /\ Closed
  BY DEF Init, AuditInit, PromiseInit, Transaction, Gate, Directory, Closed, Passed,
         Early, Before, AfterPull, Late
<1>3. Brackets
  <2>1. /\ \A p \in Parts : known.version[p] = None /\ world.version[p] = 0
        /\ \A n \in Nodes : known.pid[n] = None /\ world.pid[n] = 0
        /\ used = [helper |-> {}, runtime |-> {}, pid |-> {}]
    BY DEF Init, AuditInit
  <2> QED BY <2>1 DEF Brackets, None
<1> QED BY <1>1, <1>2, <1>3 DEF Inv

LEMMA Invariance == Spec => []Inv
BY InvInit, InvStep, PTL DEF Spec

-----------------------------------------------------------------------------
(* The results.                                                            *)

\* A pull is opened by Authorize and by nothing else.
LEMMA OnlyAuthorizeOpens ==
    ASSUME Inv, [Next]_vars, stage = "idle", stage' = "open"
    PROVE  ~audit.failures /\ known.ok
<1> USE DEF Inv
<1>1. CASE Authorize
  BY <1>1, AuthorizeMoves DEF Gate, Before
<1>2. CASE Identification \/ Preparation \/ FollowUp \/ Closing
  BY <1>2, IdentificationMoves, PreparationMoves, FollowUpMoves, ClosingMoves DEF Calm
<1>3. CASE ClearHelper \/ PullReturns \/ JudgePull \/ Finalize
  BY <1>3, ClearHelperMoves, PullReturnsMoves, JudgeMoves, FinalizeMoves DEF Calm
<1>4. CASE PullWorks \/ Raise \/ World
  BY <1>4, PullWorksMoves, RaiseMoves, WorldMoves
<1>5. CASE UNCHANGED vars
  BY <1>5 DEF vars, promiseVars
<1> QED BY <1>1, <1>2, <1>3, <1>4, <1>5, Kinds

\* The parameters are never pulled behind a phase that has failed or without
\* an established identity, whatever the world does meanwhile (collect,
\* pull_authorized).
THEOREM Stopped == Spec => FailureStopsThePull
<1>1. Inv /\ [Next]_vars => [stage = "idle" /\ stage' = "open" => ~audit.failures /\ known.ok]_vars
  BY OnlyAuthorizeOpens
<1> QED BY <1>1, Invariance, PTL DEF Spec, FailureStopsThePull

LEMMA PassedIsDone ==
    ASSUME Inv, Passed PROVE audit.pc = "done" /\ ~audit.failures /\ ~audit.incomplete
BY DEF Inv, Closed, Passed

\* PASS comes from a pull that ran, succeeded and was not exposed, and the
\* receipt lists every file of the directory (collect, AppendOnlyRun.finalize).
THEOREM CleanPull == Spec => []PassMeansCleanPull
<1>1. Inv => PassMeansCleanPull
  <2> SUFFICES ASSUME Inv, Passed
               PROVE  /\ dump = "ok" /\ ~exposed /\ used.runtime # {}
                      /\ store.disk = store.listed
    BY DEF PassMeansCleanPull
  <2>1. dump = "ok" /\ exposed = FALSE /\ used.runtime # {}
    BY PassedIsDone DEF Inv, Gate, Transaction, Late
  <2>2. store.disk = store.listed
    BY PassedIsDone DEF Inv, Directory, Late
  <2> QED BY <2>1, <2>2
<1> QED BY <1>1, Invariance, PTL

\* PASS describes one deployment and one process, for any number of
\* replacements and restarts at any moment (_source_identity_unchanged,
\* _runtime_identity_unchanged).
THEOREM OneDeployment == Spec => []PassMeansOneDeployment
<1>1. Inv => PassMeansOneDeployment
  <2> SUFFICES ASSUME Inv, Passed
               PROVE  /\ used.helper \subseteq {known.version["helper"]}
                      /\ used.runtime \subseteq {known.version["runtime"]}
                      /\ used.pid \subseteq {known.pid["mavros"]}
                      /\ \A p, q \in Parts \ {"bundle"} : known.version[p] = known.version[q]
    BY DEF PassMeansOneDeployment
  <2>1. RuntimeIsKnown /\ HelperIsKnown
    BY PassedIsDone DEF Inv, Closed
  <2>2. OneVersion
    BY <2>1, PassedIsDone DEF Inv, Closed, Early, RuntimeIsKnown
  <2> QED BY <2>1, <2>2 DEF RuntimeIsKnown, HelperIsKnown, OneVersion
<1> QED BY <1>1, Invariance, PTL
=============================================================================
