--------------------------- MODULE ResponseProofs ---------------------------
(***************************************************************************)
(* Theorems about the L3 response node, for every value of its constants.  *)
(***************************************************************************)
EXTENDS ResponseProperties, TLAPS

-----------------------------------------------------------------------------
(* Type correctness.                                                       *)

LEMMA OKIsASeverity == OK \in Severities
  BY DEF OK, STALE, Severities

LEMMA InitType == Init => TypeOK
<1> SUFFICES ASSUME Init PROVE TypeOK
  OBVIOUS
<1> USE OKIsASeverity
<1>1. self \in Attributes
  BY DEF Init, Attributes, Tags
<1>2. tick = TickIdle /\ st = StIdle /\ nm = NmIdle /\ imu = "idle"
        /\ req = [r \in Requests |-> ReqIdle] /\ disarmed = FALSE
  BY DEF Init
<1>3. TickIdle \in TickType /\ StIdle \in StType /\ NmIdle \in NmType
        /\ ReqIdle \in ReqType
  BY DEF TickType, StType, NmType, ReqType, Tags, TickPcs, StPcs, ReqPcs,
         TickIdle, StIdle, NmIdle, ReqIdle
<1>4. QED
  BY <1>1, <1>2, <1>3 DEF TypeOK

\* The single-assignment callbacks and the passage of time.
LEMMA InputsKeepType ==
  ASSUME TypeOK, OnFault \/ OnRc \/ NormalExpires \/ FcuExpires \/ ThrottleExpires
  PROVE  TypeOK'
<1> USE InputsAreTyped DEF InputsAreTyped
<1>1. self' \in Attributes
  <2>1. CASE OnFault
    BY <2>1 DEF OnFault, TypeOK, Attributes
  <2>2. CASE OnRc
    BY <2>2 DEF OnRc, TypeOK, Attributes
  <2>3. CASE NormalExpires
    BY <2>3 DEF NormalExpires, TypeOK, Attributes
  <2>4. CASE FcuExpires
    BY <2>4 DEF FcuExpires, TypeOK, Attributes
  <2>5. CASE ThrottleExpires
    BY <2>5 DEF ThrottleExpires, TypeOK, Attributes
  <2>6. QED
    BY <2>1, <2>2, <2>3, <2>4, <2>5
<1>2. ThreadsRest
  BY DEF OnFault, OnRc, NormalExpires, FcuExpires, ThrottleExpires
<1>3. QED
  BY <1>1, <1>2 DEF TypeOK, ThreadsRest

\* _on_state.
LEMMA OnStateKeepsType == ASSUME TypeOK, OnState PROVE TypeOK'
<1> USE InputsAreTyped DEF InputsAreTyped
<1>1. self' \in Attributes
  BY DEF OnState, TypeOK, Attributes
<1>2. st' \in StType
  <2>1. self.initialized \in BOOLEAN /\ self.armed \in BOOLEAN
    BY DEF TypeOK, Attributes
  <2>2. \A a \in BOOLEAN, m \in Modes : SessionEnds(a, m) \in BOOLEAN
    BY <2>1 DEF SessionEnds
  <2>3. QED
    BY <2>2 DEF OnState, StType, StPcs
<1>3. req' \in [Requests -> ReqType]
  BY DEF OnState, TypeOK, ReqType, ReqPcs
<1>4. QED
  BY <1>1, <1>2, <1>3 DEF OnState, TypeOK

LEMMA StateKeepsType == ASSUME TypeOK, StateProceeds PROVE TypeOK'
<1>1. CASE StateEndsSession
  <2>1. self' \in Attributes
    <3>1. Ended(self.normal) \in Tags /\ Ended(self.hold) \in Tags
            /\ Ended(self.admitted) \in Tags
      BY DEF TypeOK, Attributes, Ended, Tags
    <3>2. self' = [self EXCEPT !.initialized = TRUE,
                               !.normal = Ended(self.normal),
                               !.hold = Ended(self.hold),
                               !.admitted = Ended(self.admitted)]
      BY <1>1 DEF StateEndsSession, StStep
    <3>3. QED
      BY <3>1, <3>2 DEF TypeOK, Attributes
  <2>2. st' \in StType
    BY <1>1 DEF StateEndsSession, StStep, StIdle, StType, StPcs
  <2>3. tick' \in TickType
    BY <1>1 DEF StateEndsSession, TypeOK, TickType, Ended, Tags
  <2>4. nm' \in NmType
    BY <1>1 DEF StateEndsSession, TypeOK, NmType, Ended, Tags
  <2>5. QED
    BY <1>1, <2>1, <2>2, <2>3, <2>4 DEF StateEndsSession, StStep, TypeOK
<1>2. CASE StateConnected \/ StateArmed \/ StateMode \/ StateKeepsSession
             \/ ResetNormal \/ ResetStamp \/ ResetHold \/ ResetAdmitted
  <2> USE DEF StStep
  <2>1. st' \in StType
    <3> USE DEF TypeOK, StType, StPcs, StIdle
    <3>1. CASE StateConnected \/ StateArmed \/ StateMode
      BY <3>1 DEF StateConnected, StateArmed, StateMode
    <3>2. CASE StateKeepsSession \/ ResetAdmitted
      <4>1. st' = StIdle
        BY <3>2 DEF StateKeepsSession, ResetAdmitted
      <4>2. QED
        BY <4>1
    <3>3. CASE ResetNormal \/ ResetStamp \/ ResetHold
      BY <3>3 DEF ResetNormal, ResetStamp, ResetHold
    <3>4. QED
      BY <1>2, <3>1, <3>2, <3>3
  <2>2. self' \in Attributes
    <3>1. CASE StateConnected \/ StateArmed \/ StateMode
      BY <3>1 DEF StateConnected, StateArmed, StateMode, TypeOK, Attributes,
                  StType
    <3>2. CASE StateKeepsSession
      BY <3>2 DEF StateKeepsSession, TypeOK, Attributes
    <3>3. CASE ResetNormal \/ ResetStamp
      BY ZenonT(60), <3>3 DEF ResetNormal, ResetStamp, TypeOK, Attributes, Tags
    <3>4. CASE ResetHold \/ ResetAdmitted
      BY <3>4 DEF ResetHold, ResetAdmitted, TypeOK, Attributes, Tags
    <3>5. QED
      BY <1>2, <3>1, <3>2, <3>3, <3>4
  <2>3. UNCHANGED <<disarmed, tick, nm, imu, req>>
    BY <1>2 DEF StateConnected, StateArmed, StateMode, StateKeepsSession,
                ResetNormal, ResetStamp, ResetHold, ResetAdmitted
  <2>4. QED
    BY <2>1, <2>2, <2>3 DEF TypeOK
<1>3. QED
  BY <1>1, <1>2 DEF StateProceeds

\* _on_normal and _on_imu.
LEMMA NormalKeepsType == ASSUME TypeOK, OnNormal \/ NormalProceeds PROVE TypeOK'
<1>1. CASE OnNormal
  <2>1. self' \in Attributes
    BY <1>1 DEF OnNormal, TypeOK, Attributes, Tags
  <2>2. nm' \in NmType
    BY <1>1 DEF OnNormal, NmType, Tags
  <2>3. QED
    BY <1>1, <2>1, <2>2 DEF OnNormal, TypeOK
<1>2. CASE NormalStamped
  <2>1. self' \in Attributes
    BY <1>2 DEF NormalStamped, TypeOK, Attributes
  <2>2. tick' \in TickType
    BY <1>2 DEF NormalStamped, TypeOK, TickType
  <2>3. nm' \in NmType
    BY <1>2 DEF NormalStamped, TypeOK, NmType, NmIdle, Tags
  <2>4. req' \in [Requests -> ReqType]
    BY <1>2 DEF NormalStamped, TypeOK, ReqType
  <2>5. QED
    BY <1>2, <2>1, <2>2, <2>3, <2>4 DEF NormalStamped, TypeOK
<1>3. CASE NormalHeld
  <2>1. self' \in Attributes
    BY <1>3 DEF NormalHeld, TypeOK, Attributes, NmType
  <2>2. nm' \in NmType
    BY <1>3 DEF NormalHeld, NmType, NmIdle, Tags
  <2>3. QED
    BY <1>3, <2>1, <2>2 DEF NormalHeld, TypeOK
<1>4. QED
  BY <1>1, <1>2, <1>3 DEF NormalProceeds

LEMMA ImuKeepsType == ASSUME TypeOK, OnImu \/ ImuLatches PROVE TypeOK'
<1>1. self' \in Attributes
  BY ZenonT(60) DEF OnImu, ImuLatches, TypeOK, Attributes
<1>2. imu' \in {"idle", "latch"}
  BY DEF OnImu, ImuLatches
<1>3. QED
  BY <1>1, <1>2 DEF OnImu, ImuLatches, TypeOK

\* _tick: a step that writes no attribute only has to produce a tick.
LEMMA TickWritesKeepType ==
  ASSUME TypeOK, Tick PROVE self' \in Attributes /\ disarmed' \in BOOLEAN
<1> USE DEF TickReads, TickWrites, TickStep
<1>1. CASE TickStart \/ TickReadsNormal \/ TickReadsStamp \/ TickReadsInputs
             \/ TickPicksLane \/ TickPublishesState \/ TickNamesWorst
             \/ TickTerminated \/ TickOwned \/ TickReadsTouchdown
             \/ TickPublishesLand \/ TickWasAdmitted \/ TickRejects
             \/ TickForwards \/ TickHolds
  <2>1. self' = self /\ disarmed' = disarmed
    BY <1>1 DEF TickStart, TickReadsNormal, TickReadsStamp, TickReadsInputs,
                TickPicksLane, TickPublishesState, TickNamesWorst,
                TickTerminated, TickOwned, TickReadsTouchdown,
                TickPublishesLand, TickWasAdmitted, TickRejects, TickForwards,
                TickHolds
  <2>2. QED
    BY <2>1 DEF TypeOK
<1>2. CASE TickArmsDetector
  <2>1. (tick.lane = "LAND" /\ self.armed) \in BOOLEAN
    OBVIOUS
  <2>2. QED
    BY <1>2, <2>1 DEF TickArmsDetector, TypeOK, Attributes
<1>3. CASE TickClearsTouchdown
  BY <1>3 DEF TickClearsTouchdown, TypeOK, Attributes
<1>4. CASE TickLatchesKill
  BY <1>4 DEF TickLatchesKill, TypeOK, Attributes
<1>5. CASE TickKillReturns
  BY <1>5 DEF TickKillReturns, TypeOK
<1>6. CASE TickAdmits
  BY <1>6 DEF TickAdmits, TypeOK, Attributes, TickType
<1>7. CASE TickSetModeReturns
  BY <1>7 DEF TickSetModeReturns, TypeOK, Attributes
<1>8. QED
  BY <1>1, <1>2, <1>3, <1>4, <1>5, <1>6, <1>7 DEF Tick

LEMMA TickKeepsType == ASSUME TypeOK, Tick PROVE TypeOK'
<1>1. self' \in Attributes /\ disarmed' \in BOOLEAN
  BY TickWritesKeepType
<1>2. UNCHANGED <<st, nm, imu, req>>
  BY DEF Tick, TickStart, TickReadsNormal, TickReadsStamp, TickReadsInputs,
         TickPicksLane, TickArmsDetector, TickClearsTouchdown,
         TickPublishesState, TickNamesWorst, TickTerminated, TickOwned,
         TickReadsTouchdown, TickLatchesKill, TickKillReturns,
         TickPublishesLand, TickAdmits, TickWasAdmitted, TickRejects,
         TickSetModeReturns, TickForwards, TickHolds, TickReads, TickWrites,
         TickStep
<1>3. tick' \in TickType
  <2>0. TickIdle \in TickType
    BY OKIsASeverity DEF TickIdle, TickType, TickPcs, Tags
  <2>1. \A pc \in TickPcs : Goto(pc) \in TickType
    BY DEF Goto, TypeOK, TickType
  <2> USE DEF TickReads, TickWrites, TickStep
  <2>2. CASE TickStart
    <3>1. self.killed \in BOOLEAN
      BY DEF TypeOK, Attributes
    <3>2. QED
      BY <2>0, <2>2, <3>1 DEF TickStart, TickType, TickPcs
  <2>3. CASE TickReadsNormal
    <3>1. self.normal \in Tags /\ (tick.ahead /\ self.normal # "none") \in BOOLEAN
      BY DEF TypeOK, Attributes, TickType
    <3>2. QED
      BY <2>3, <3>1 DEF TickReadsNormal, TypeOK, TickType, TickPcs
  <2>4. CASE TickReadsStamp
    <3>1. self.normal \in Tags /\ tick.fresh \in Tags /\ "none" \in Tags
      BY DEF TypeOK, Attributes, TickType, Tags
    <3>2. QED
      BY <2>4, <3>1 DEF TickReadsStamp, TypeOK, TickType, TickPcs
  <2>5. CASE TickReadsInputs
    <3>1. self.level \in Severities /\ self.killSwitch \in BOOLEAN
            /\ Manual(self.mode) \in BOOLEAN
      BY DEF TypeOK, Attributes, Manual
    <3>2. QED
      BY <2>5, <3>1 DEF TickReadsInputs, TypeOK, TickType, TickPcs
  <2>6. CASE TickPicksLane
    <3>1. \A k, m, l : Lane(k, m, l) \in {"NORMAL", "LAND", "KILL", "MANUAL"}
      BY DEF Lane
    <3>2. QED
      BY <2>6, <3>1 DEF TickPicksLane, TypeOK, TickType, TickPcs
  <2>7. CASE TickArmsDetector \/ TickClearsTouchdown \/ TickPublishesState
               \/ TickNamesWorst \/ TickTerminated
    BY <2>0, <2>1, <2>7 DEF TickArmsDetector, TickClearsTouchdown, TickPublishesState,
                TickNamesWorst, TickTerminated, Goto, TickPcs
  <2>8. CASE TickOwned \/ TickReadsTouchdown \/ TickLatchesKill
               \/ TickKillReturns \/ TickPublishesLand
    BY <2>0, <2>1, <2>8 DEF TickOwned, TickReadsTouchdown, TickLatchesKill,
                TickKillReturns, TickPublishesLand, Goto, TickPcs
  <2>9. CASE TickAdmits \/ TickWasAdmitted \/ TickRejects
               \/ TickSetModeReturns
    BY <2>0, <2>1, <2>9 DEF TickAdmits, TickWasAdmitted, TickRejects, TickSetModeReturns,
                Goto, TickPcs
  <2>10. CASE TickForwards \/ TickHolds
    BY <2>0, <2>1, <2>10 DEF TickForwards, TickHolds, Published, Goto, TickPcs
  <2>11. QED
    BY <2>2, <2>3, <2>4, <2>5, <2>6, <2>7, <2>8, <2>9, <2>10 DEF Tick
<1>4. QED
  BY <1>1, <1>2, <1>3 DEF TypeOK

\* _request_termination.
LEMMA RequestKeepsType ==
  ASSUME TypeOK, NEW r \in Requests, ReqStart(r) \/ ReqProceeds(r)
  PROVE  TypeOK'
<1> USE DEF ReqStep, ReqGuard
<1>1. ReqIdle \in ReqType /\ \A pc \in ReqPcs : [req[r] EXCEPT !.pc = pc] \in ReqType
  BY DEF ReqIdle, ReqType, ReqPcs, TypeOK
<1>2. UNCHANGED <<tick, st, nm, imu>>
  BY DEF ReqStart, ReqProceeds, ReqChecks, ReqClaims, ReqKillReturns,
         ReqLatchesKill, ReqReleases
<1>3. self' \in Attributes /\ disarmed' \in BOOLEAN
  <2>1. CASE ReqStart(r) \/ ReqChecks(r)
    BY <2>1 DEF ReqStart, ReqChecks, TypeOK
  <2>2. CASE ReqClaims(r)
    BY <2>2 DEF ReqClaims, TypeOK, Attributes
  <2>3. CASE ReqKillReturns(r)
    BY <2>3 DEF ReqKillReturns, TypeOK
  <2>4. CASE ReqLatchesKill(r)
    BY <2>4 DEF ReqLatchesKill, TypeOK, Attributes
  <2>5. CASE ReqReleases(r)
    BY <2>5 DEF ReqReleases, TypeOK, Attributes
  <2>6. QED
    BY <2>1, <2>2, <2>3, <2>4, <2>5 DEF ReqProceeds
<1>4. req' \in [Requests -> ReqType]
  <2>1. PICK next : req' = [req EXCEPT ![r] = next] /\ next \in ReqType
    <3>1. CASE ReqStart(r)
      <4>1. [ReqIdle EXCEPT !.pc = "fcu", !.late = self.killed] \in ReqType
        BY DEF ReqIdle, ReqType, ReqPcs, TypeOK, Attributes
      <4>2. QED
        BY <3>1, <4>1 DEF ReqStart
    <3>2. CASE ReqChecks(r)
      BY <1>1, <3>2 DEF ReqChecks, ReqPcs
    <3>3. CASE ReqClaims(r) \/ ReqKillReturns(r) \/ ReqLatchesKill(r)
                 \/ ReqReleases(r)
      BY <1>1, <3>3 DEF ReqClaims, ReqKillReturns, ReqLatchesKill, ReqReleases,
                        ReqPcs
    <3>4. QED
      BY <3>1, <3>2, <3>3 DEF ReqProceeds
  <2>2. QED
    BY <2>1 DEF TypeOK
<1>5. QED
  BY <1>2, <1>3, <1>4 DEF TypeOK

\* Every step keeps the attributes and the threads' locals within their types.
THEOREM TypeCorrect == Spec => []TypeOK
<1>1. TypeOK /\ [Next]_vars => TypeOK'
  <2> SUFFICES ASSUME TypeOK, [Next]_vars PROVE TypeOK'
    OBVIOUS
  <2>1. CASE UNCHANGED vars
    BY <2>1 DEF vars, TypeOK
  <2>2. CASE Next
    BY <2>2, InputsKeepType, OnStateKeepsType, StateKeepsType, NormalKeepsType,
       ImuKeepsType, TickKeepsType, RequestKeepsType DEF Next
  <2>3. QED
    BY <2>1, <2>2
<1>2. QED
  BY InitType, <1>1, PTL DEF Spec

-----------------------------------------------------------------------------
(* What each step leaves alone; cited wherever a step cannot disturb a     *)
(* conjunct.                                                               *)

\* No step takes the force-disarm latch back.
LEMMA LatchIsTerminal == ASSUME TypeOK, [Next]_vars PROVE self.killed => self'.killed
<1>1. CASE UNCHANGED vars
  BY <1>1 DEF vars
<1>2. CASE OnFault \/ OnRc \/ NormalExpires \/ FcuExpires \/ ThrottleExpires
  BY <1>2 DEF OnFault, OnRc, NormalExpires, FcuExpires, ThrottleExpires, TypeOK,
              Attributes
<1>3. CASE OnState \/ StateProceeds
  BY <1>3 DEF OnState, StateProceeds, StateConnected, StateArmed, StateMode,
              StateKeepsSession, StateEndsSession, ResetNormal, ResetStamp,
              ResetHold, ResetAdmitted, StStep, TypeOK, Attributes
<1>4. CASE OnNormal \/ NormalProceeds \/ OnImu \/ ImuLatches
  BY <1>4 DEF OnNormal, NormalProceeds, NormalStamped, NormalHeld, OnImu,
              ImuLatches, TypeOK, Attributes
<1>5. CASE Tick
  BY <1>5 DEF Tick, TickStart, TickReadsNormal, TickReadsStamp, TickReadsInputs,
              TickPicksLane, TickArmsDetector, TickClearsTouchdown,
              TickPublishesState, TickNamesWorst, TickTerminated, TickOwned,
              TickReadsTouchdown, TickLatchesKill, TickKillReturns,
              TickPublishesLand, TickAdmits, TickWasAdmitted, TickRejects,
              TickSetModeReturns, TickForwards, TickHolds, TickReads,
              TickWrites, TickStep, TypeOK, Attributes
<1>6. ASSUME NEW r \in Requests, ReqStart(r) \/ ReqProceeds(r)
      PROVE  self.killed => self'.killed
  BY <1>6 DEF ReqStart, ReqProceeds, ReqChecks, ReqClaims, ReqKillReturns,
              ReqLatchesKill, ReqReleases, ReqStep, ReqGuard, TypeOK, Attributes
<1>7. QED
  BY <1>1, <1>2, <1>3, <1>4, <1>5, <1>6 DEF Next

\* Outside their own handlers the locals of the tick and of a request change
\* only by what other threads do to the commands and stamps they look at.
LEMMA OthersLeaveTickPlace ==
  ASSUME TypeOK, [Next]_vars, ~Tick
  PROVE  tick'.pc = tick.pc /\ tick'.late = tick.late
<1>1. CASE UNCHANGED vars
  BY <1>1 DEF vars
<1>2. CASE OnFault \/ OnRc \/ NormalExpires \/ FcuExpires \/ ThrottleExpires
  BY <1>2 DEF OnFault, OnRc, NormalExpires, FcuExpires, ThrottleExpires,
              ThreadsRest
<1>3. CASE OnState \/ StateProceeds
  BY <1>3 DEF OnState, StateProceeds, StateConnected, StateArmed, StateMode,
              StateKeepsSession, StateEndsSession, ResetNormal, ResetStamp,
              ResetHold, ResetAdmitted, TypeOK, TickType
<1>4. CASE OnNormal \/ NormalProceeds \/ OnImu \/ ImuLatches
  BY <1>4 DEF OnNormal, NormalProceeds, NormalStamped, NormalHeld, OnImu,
              ImuLatches, TypeOK, TickType
<1>5. ASSUME NEW r \in Requests, ReqStart(r) \/ ReqProceeds(r)
      PROVE  tick' = tick
  BY <1>5 DEF ReqStart, ReqProceeds, ReqChecks, ReqClaims, ReqKillReturns,
              ReqLatchesKill, ReqReleases, ReqStep, ReqGuard
<1>6. QED
  BY <1>1, <1>2, <1>3, <1>4, <1>5 DEF Next

LEMMA OthersLeaveRequestPlace ==
  ASSUME TypeOK, [Next]_vars, NEW r \in Requests, ~(ReqStart(r) \/ ReqProceeds(r))
  PROVE  req'[r].pc = req[r].pc /\ req'[r].late = req[r].late
<1>1. CASE UNCHANGED vars
  BY <1>1 DEF vars
<1>2. CASE OnFault \/ OnRc \/ NormalExpires \/ FcuExpires \/ ThrottleExpires
  BY <1>2 DEF OnFault, OnRc, NormalExpires, FcuExpires, ThrottleExpires,
              ThreadsRest
<1>3. CASE OnState
  BY <1>3 DEF OnState, TypeOK, ReqType
<1>4. CASE StateProceeds
  BY <1>4 DEF StateProceeds, StateConnected, StateArmed, StateMode,
              StateKeepsSession, StateEndsSession, ResetNormal, ResetStamp,
              ResetHold, ResetAdmitted, StStep
<1>5. CASE OnNormal \/ NormalHeld \/ OnImu \/ ImuLatches
  BY <1>5 DEF OnNormal, NormalHeld, OnImu, ImuLatches
<1>6. CASE NormalStamped
  BY <1>6 DEF NormalStamped, TypeOK, ReqType
<1>7. CASE Tick
  BY <1>7 DEF Tick, TickStart, TickReadsNormal, TickReadsStamp, TickReadsInputs,
              TickPicksLane, TickArmsDetector, TickClearsTouchdown,
              TickPublishesState, TickNamesWorst, TickTerminated, TickOwned,
              TickReadsTouchdown, TickLatchesKill, TickKillReturns,
              TickPublishesLand, TickAdmits, TickWasAdmitted, TickRejects,
              TickSetModeReturns, TickForwards, TickHolds, TickReads,
              TickWrites, TickStep
<1>8. ASSUME NEW q \in Requests, q # r, ReqStart(q) \/ ReqProceeds(q)
      PROVE  req'[r] = req[r]
  BY <1>8 DEF ReqStart, ReqProceeds, ReqChecks, ReqClaims, ReqKillReturns,
              ReqLatchesKill, ReqReleases, ReqStep, ReqGuard, TypeOK
<1>9. QED
  BY <1>1, <1>2, <1>3, <1>4, <1>5, <1>6, <1>7, <1>8 DEF Next, NormalProceeds

-----------------------------------------------------------------------------
(* Terminated stays silent.                                                *)

Acting == {"rc", "busy", "claim", "disarm", "latch", "release"}

\* What makes the property inductive: whoever began after the latch began
\* with it set, and it never clears, so the test of self.killed ahead of the
\* commanding steps still finds it.
SilenceInv ==
    /\ TerminatedStaysSilent
    /\ tick.late => self.killed
    /\ \A r \in Requests : req[r].late => self.killed

LEMMA TickKeepsSilence ==
  ASSUME TypeOK, SilenceInv, [Next]_vars
  PROVE  tick'.late => self'.killed /\ tick'.pc \notin Actuating
<1>1. CASE ~Tick
  BY <1>1, OthersLeaveTickPlace, LatchIsTerminal DEF SilenceInv,
     TerminatedStaysSilent
<1> USE DEF TickReads, TickWrites, TickStep, Goto
<1>2. CASE TickStart
  <2>1. tick' = [TickIdle EXCEPT !.pc = "normal", !.late = self.killed]
          /\ self' = self
    BY <1>2 DEF TickStart
  <2>2. tick'.late = self.killed /\ tick'.pc = "normal"
    BY <2>1 DEF TickIdle
  <2>3. QED
    BY <2>1, <2>2 DEF Actuating
<1>3. CASE TickTerminated
  <2>1. self' = self /\ tick.pc = "terminated"
    BY <1>3 DEF TickTerminated
  <2>2. CASE self.killed \/ tick.kill
    BY <1>3, <2>2 DEF TickTerminated, TickIdle
  <2>3. CASE ~(self.killed \/ tick.kill)
    <3>1. tick'.late = tick.late
      BY <1>3, <2>3 DEF TickTerminated, TypeOK, TickType
    <3>2. QED
      BY <2>1, <2>3, <3>1 DEF SilenceInv
  <2>4. QED
    BY <2>2, <2>3
<1>4. CASE TickReadsNormal \/ TickReadsStamp \/ TickReadsInputs \/ TickPicksLane
             \/ TickArmsDetector \/ TickClearsTouchdown \/ TickPublishesState
             \/ TickNamesWorst
  <2>1. tick'.late = tick.late /\ tick'.pc \notin Actuating
    BY ZenonT(60), <1>4 DEF TickReadsNormal, TickReadsStamp, TickReadsInputs, TickPicksLane,
                TickArmsDetector, TickClearsTouchdown, TickPublishesState,
                TickNamesWorst, TypeOK, TickType, Actuating
  <2>2. QED
    BY <2>1, LatchIsTerminal DEF SilenceInv
<1>5. CASE TickOwned \/ TickReadsTouchdown \/ TickLatchesKill \/ TickKillReturns
             \/ TickPublishesLand \/ TickAdmits \/ TickWasAdmitted
             \/ TickRejects \/ TickSetModeReturns \/ TickForwards \/ TickHolds
  <2>1. tick.pc \in Actuating
    BY <1>5 DEF TickOwned, TickReadsTouchdown, TickLatchesKill, TickKillReturns,
                TickPublishesLand, TickAdmits, TickWasAdmitted, TickRejects,
                TickSetModeReturns, TickForwards, TickHolds, Actuating
  <2>2. ~tick.late
    BY <2>1 DEF SilenceInv, TerminatedStaysSilent
  <2>3. ~tick'.late
    BY <1>5, <2>2 DEF TickOwned, TickReadsTouchdown, TickLatchesKill,
                TickKillReturns, TickPublishesLand, TickAdmits, TickWasAdmitted,
                TickRejects, TickSetModeReturns, TickForwards, TickHolds,
                Published, TickIdle, TypeOK, TickType
  <2>4. QED
    BY <2>3
<1>6. QED
  BY <1>1, <1>2, <1>3, <1>4, <1>5 DEF Tick

LEMMA RequestsKeepSilence ==
  ASSUME TypeOK, SilenceInv, [Next]_vars, NEW r \in Requests
  PROVE  req'[r].late => self'.killed /\ req'[r].pc \notin Acting
<1>1. CASE ~(ReqStart(r) \/ ReqProceeds(r))
  BY <1>1, OthersLeaveRequestPlace, LatchIsTerminal
     DEF SilenceInv, TerminatedStaysSilent, Acting
<1>2. CASE ReqStart(r)
  <2>1. req'[r] = [ReqIdle EXCEPT !.pc = "fcu", !.late = self.killed]
          /\ self' = self
    BY <1>2 DEF ReqStart, ReqStep, TypeOK
  <2>2. req'[r].late = self.killed /\ req'[r].pc = "fcu"
    BY <2>1 DEF ReqIdle
  <2>3. QED
    BY <2>1, <2>2 DEF Acting
<1>3. CASE ReqProceeds(r)
  <2>1. CASE ~req[r].late
    <3>1. ~req'[r].late
      BY <1>3, <2>1 DEF ReqProceeds, ReqChecks, ReqClaims, ReqKillReturns,
                        ReqLatchesKill, ReqReleases, ReqStep, ReqGuard, ReqIdle,
                        TypeOK, ReqType
    <3>2. QED
      BY <3>1
  <2>2. CASE req[r].late
    <3>1. self.killed /\ req[r].pc \notin Acting
      BY <2>2 DEF SilenceInv, TerminatedStaysSilent, Acting
    <3>2. req'[r].pc \notin Acting
      BY <1>3, <3>1 DEF ReqProceeds, ReqChecks, ReqClaims, ReqKillReturns,
                        ReqLatchesKill, ReqReleases, ReqStep, ReqGuard, ReqIdle,
                        TypeOK, ReqType, Acting
    <3>3. QED
      BY <3>1, <3>2, LatchIsTerminal
  <2>3. QED
    BY <2>1, <2>2
<1>4. QED
  BY <1>1, <1>2, <1>3

\* A tick or a termination request that begins after the force-disarm latch is
\* set commands nothing (response.py:239, response.py:125).
THEOREM Silence == Spec => []TerminatedStaysSilent
<1>1. Init => SilenceInv
  BY DEF Init, SilenceInv, TerminatedStaysSilent, TickIdle, ReqIdle, Actuating
<1>2. TypeOK /\ SilenceInv /\ [Next]_vars => SilenceInv'
  BY TickKeepsSilence, RequestsKeepSilence
     DEF SilenceInv, TerminatedStaysSilent, Acting
<1>3. SilenceInv => TerminatedStaysSilent
  BY DEF SilenceInv
<1>4. QED
  BY TypeCorrect, <1>1, <1>2, <1>3, PTL DEF Spec

-----------------------------------------------------------------------------
(* termination_busy.                                                       *)

\* While termination_busy is set some request is in its critical section
\* (response.py:127-134), whatever number of requests run at a time.
THEOREM BusyIsHeld == Spec => []BusyIsNotLeaked
<1>1. Init => BusyIsNotLeaked
  BY DEF Init, BusyIsNotLeaked
<1>2. TypeOK /\ BusyIsNotLeaked /\ [Next]_vars => BusyIsNotLeaked'
  <2> SUFFICES ASSUME TypeOK, BusyIsNotLeaked, [Next]_vars, self'.busy
               PROVE  \E r \in Requests :
                        req'[r].pc \in {"disarm", "latch", "release"}
    BY DEF BusyIsNotLeaked
  <2>1. ASSUME NEW q \in Requests, ReqStart(q) \/ ReqProceeds(q)
        PROVE  \E r \in Requests : req'[r].pc \in {"disarm", "latch", "release"}
    <3>1. CASE ReqClaims(q)
      BY <3>1 DEF ReqClaims, ReqStep, TypeOK, ReqType
    <3>2. CASE ReqReleases(q)
      <4>1. self' = [self EXCEPT !.busy = FALSE] /\ self \in Attributes
        BY <3>2 DEF ReqReleases, ReqStep, TypeOK
      <4>2. QED
        BY <4>1 DEF Attributes
    <3>3. CASE ReqKillReturns(q)
      BY <3>3 DEF ReqKillReturns, ReqStep, TypeOK, ReqType
    <3>4. CASE ReqLatchesKill(q)
      BY <3>4 DEF ReqLatchesKill, ReqStep, TypeOK, ReqType
    <3>5. CASE ReqStart(q) \/ ReqChecks(q)
      <4>1. self' = self
              /\ req[q].pc \notin {"disarm", "latch", "release"}
        BY <3>5 DEF ReqStart, ReqChecks, ReqGuard, ReqStep
      <4>2. PICK r \in Requests : req[r].pc \in {"disarm", "latch", "release"}
        BY <4>1 DEF BusyIsNotLeaked
      <4>3. req'[r] = req[r]
        BY <3>5, <4>1, <4>2 DEF ReqStart, ReqChecks, ReqGuard, ReqStep, TypeOK
      <4>4. QED
        BY <4>2, <4>3
    <3>6. QED
      BY <2>1, <3>1, <3>2, <3>3, <3>4, <3>5 DEF ReqProceeds
  <2>2. CASE \A q \in Requests : ~(ReqStart(q) \/ ReqProceeds(q))
    <3>1. self.busy
      BY <2>2 DEF Next, vars, OnFault, OnRc, NormalExpires, FcuExpires,
         ThrottleExpires, OnState, StateProceeds, StateConnected, StateArmed,
         StateMode, StateKeepsSession, StateEndsSession, ResetNormal, ResetStamp,
         ResetHold, ResetAdmitted, StStep, OnNormal, NormalProceeds,
         NormalStamped, NormalHeld, OnImu, ImuLatches, Tick, TickStart,
         TickReadsNormal, TickReadsStamp, TickReadsInputs, TickPicksLane,
         TickArmsDetector, TickClearsTouchdown, TickPublishesState,
         TickNamesWorst, TickTerminated, TickOwned, TickReadsTouchdown,
         TickLatchesKill, TickKillReturns, TickPublishesLand, TickAdmits,
         TickWasAdmitted, TickRejects, TickSetModeReturns, TickForwards,
         TickHolds, TickReads, TickWrites, TickStep, TypeOK, Attributes
    <3>2. \A r \in Requests : req'[r].pc = req[r].pc
      BY <2>2, OthersLeaveRequestPlace
    <3>3. QED
      BY <3>1, <3>2 DEF BusyIsNotLeaked
  <2>3. QED
    BY <2>1, <2>2
<1>3. QED
  BY TypeCorrect, <1>1, <1>2, PTL DEF Spec

-----------------------------------------------------------------------------
(* A command of an ended session.                                          *)

\* Once its session has ended a command stays in self.normal only until
\* _reset_control_session overwrites it.
PastIsBeingReset == self.normal = "past" => st.pc = "normal"

\* A tick forwards a Normal command of an ended session only between
\* _on_state's decision to reset and its first assignment (response.py:162).
THEOREM CurrentForwarded == Spec => ForwardedNormalIsCurrent
<1>1. Init => PastIsBeingReset
  BY DEF Init, PastIsBeingReset
<1>2. TypeOK /\ PastIsBeingReset /\ [Next]_vars => PastIsBeingReset'
  <2> SUFFICES ASSUME TypeOK, PastIsBeingReset, [Next]_vars
               PROVE  PastIsBeingReset'
    OBVIOUS
  <2> USE DEF PastIsBeingReset
  <2>1. CASE StateEndsSession
    BY <2>1 DEF StateEndsSession, StStep, StIdle
  <2>2. CASE ResetNormal
    BY <2>2 DEF ResetNormal, StStep, TypeOK, Attributes
  <2>3. CASE OnNormal
    BY <2>3 DEF OnNormal, TypeOK, Attributes
  <2>4. CASE OnState
    BY <2>4 DEF OnState, TypeOK, Attributes
  <2>5. CASE StateConnected \/ StateArmed \/ StateMode \/ StateKeepsSession
               \/ ResetStamp \/ ResetHold \/ ResetAdmitted
    BY <2>5 DEF StateConnected, StateArmed, StateMode, StateKeepsSession,
                ResetStamp, ResetHold, ResetAdmitted, StStep, TypeOK, Attributes
  <2>6. CASE OnFault \/ OnRc \/ NormalExpires \/ FcuExpires \/ ThrottleExpires
    BY <2>6 DEF OnFault, OnRc, NormalExpires, FcuExpires, ThrottleExpires,
                ThreadsRest, TypeOK, Attributes
  <2>7. CASE NormalProceeds \/ OnImu \/ ImuLatches
    BY <2>7 DEF NormalProceeds, NormalStamped, NormalHeld, OnImu, ImuLatches,
                TypeOK, Attributes
  <2>8. CASE Tick
    BY <2>8 DEF Tick, TickStart, TickReadsNormal, TickReadsStamp,
         TickReadsInputs, TickPicksLane, TickArmsDetector, TickClearsTouchdown,
         TickPublishesState, TickNamesWorst, TickTerminated, TickOwned,
         TickReadsTouchdown, TickLatchesKill, TickKillReturns,
         TickPublishesLand, TickAdmits, TickWasAdmitted, TickRejects,
         TickSetModeReturns, TickForwards, TickHolds, TickReads, TickWrites,
         TickStep, TypeOK, Attributes
  <2>9. ASSUME NEW r \in Requests, ReqStart(r) \/ ReqProceeds(r)
        PROVE  PastIsBeingReset'
    BY <2>9 DEF ReqStart, ReqProceeds, ReqChecks, ReqClaims, ReqKillReturns,
                ReqLatchesKill, ReqReleases, ReqStep, ReqGuard, TypeOK,
                Attributes
  <2>10. CASE UNCHANGED vars
    BY <2>10 DEF vars
  <2>11. QED
    BY <2>1, <2>2, <2>3, <2>4, <2>5, <2>6, <2>7, <2>8, <2>9, <2>10
       DEF Next, StateProceeds
<1>3. TypeOK /\ PastIsBeingReset /\ [Next]_vars
        => [tick.pc = "forward" /\ tick.fresh # "none" /\ tick'.pc = "idle"
              => self.normal = "live" \/ st.pc = "normal"]_vars
  <2> SUFFICES ASSUME TypeOK, PastIsBeingReset, [Next]_vars,
                      tick.pc = "forward", tick.fresh # "none",
                      tick'.pc = "idle"
               PROVE  self.normal = "live" \/ st.pc = "normal"
    OBVIOUS
  <2>1. TickForwards
    <3>1. Tick
      BY OthersLeaveTickPlace
    <3>2. QED
      BY <3>1 DEF Tick, TickStart, TickReadsNormal, TickReadsStamp,
         TickReadsInputs, TickPicksLane, TickArmsDetector, TickClearsTouchdown,
         TickPublishesState, TickNamesWorst, TickTerminated, TickOwned,
         TickReadsTouchdown, TickLatchesKill, TickKillReturns,
         TickPublishesLand, TickAdmits, TickWasAdmitted, TickRejects,
         TickSetModeReturns, TickHolds, TickReads, TickWrites, TickStep
  <2>2. self.normal # "none"
    BY <2>1 DEF TickForwards, TickReads, TickStep, Published, Goto, TypeOK,
                TickType
  <2>3. self.normal \in {"live", "past"}
    BY <2>2 DEF TypeOK, Attributes, Tags
  <2>4. QED
    BY <2>3 DEF PastIsBeingReset
<1>4. QED
  BY TypeCorrect, <1>1, <1>2, <1>3, PTL DEF Spec, ForwardedNormalIsCurrent

-----------------------------------------------------------------------------
(* What a handler that was at work may leave behind.                       *)

\* Steps of no tick leave the tick's place and the detector's window alone;
\* those of no sample leave touchdown_fired to the tick.
LEMMA OthersLeaveTouchdown ==
  ASSUME TypeOK, [Next]_vars, ~Tick, ~ImuLatches
  PROVE  /\ tick'.pc = tick.pc
         /\ self'.fired = self.fired
         /\ self'.inLand = self.inLand
<1>1. tick'.pc = tick.pc
  BY OthersLeaveTickPlace
<1>2. CASE OnFault \/ OnRc \/ NormalExpires \/ FcuExpires \/ ThrottleExpires
  BY <1>1, <1>2 DEF OnFault, OnRc, NormalExpires, FcuExpires, ThrottleExpires,
     TypeOK, Attributes
<1>3. CASE OnState \/ StateProceeds
  BY <1>1, <1>3 DEF OnState, StateProceeds, StateConnected, StateArmed, StateMode,
     StateKeepsSession, StateEndsSession, ResetNormal, ResetStamp, ResetHold,
     ResetAdmitted, StStep, TypeOK, Attributes
<1>4. CASE OnNormal \/ NormalProceeds \/ OnImu
  BY <1>1, <1>4 DEF OnNormal, NormalProceeds, NormalStamped, NormalHeld, OnImu,
     TypeOK, Attributes
<1>5. ASSUME NEW r \in Requests, ReqStart(r) \/ ReqProceeds(r)
      PROVE  self'.fired = self.fired /\ self'.inLand = self.inLand
  BY <1>5 DEF ReqStart, ReqProceeds, ReqChecks, ReqClaims, ReqKillReturns,
     ReqLatchesKill, ReqReleases, ReqStep, ReqGuard, TypeOK, Attributes
<1>6. CASE UNCHANGED vars
  BY <1>6 DEF vars
<1>7. QED
  BY <1>1, <1>2, <1>3, <1>4, <1>5, <1>6 DEF Next

\* A touchdown outlives its descent only as the last act of an IMU callback.
THEOREM OnlySampleStrays == Spec => OnlyRunningSampleStrays
<1>1. TypeOK /\ [Next]_vars
        => [~StrayTouchdown /\ StrayTouchdown' => imu = "latch" /\ imu' = "idle"]_vars
  <2> SUFFICES ASSUME TypeOK, [Next]_vars, ~StrayTouchdown, StrayTouchdown'
               PROVE  imu = "latch" /\ imu' = "idle"
    OBVIOUS
  <2>1. CASE ImuLatches
    BY <2>1 DEF ImuLatches
  <2>2. CASE Tick
    <3>1. CASE TickArmsDetector
      BY <3>1 DEF TickArmsDetector, TickWrites, TickStep, StrayTouchdown,
         TypeOK, Attributes, TickType
    <3>2. CASE TickClearsTouchdown
      BY <3>2 DEF TickClearsTouchdown, TickWrites, TickStep, StrayTouchdown,
         TypeOK, Attributes, TickType
    <3>3. CASE \/ TickPublishesState \/ TickNamesWorst \/ TickTerminated
               \/ TickOwned
      BY <3>3 DEF TickPublishesState, TickNamesWorst, TickTerminated, TickOwned,
         TickReads, TickStep, Goto, StrayTouchdown, TypeOK, TickType
    <3>4. CASE \/ TickStart \/ TickReadsNormal \/ TickReadsStamp
               \/ TickReadsInputs \/ TickPicksLane
      <4>1. CASE TickStart
        BY <4>1 DEF TickStart, TickStep, TickIdle, StrayTouchdown
      <4>2. CASE TickReadsNormal
        BY <4>2 DEF TickReadsNormal, TickReads, TickStep, StrayTouchdown, TypeOK,
           TickType
      <4>3. CASE TickReadsStamp
        BY <4>3 DEF TickReadsStamp, TickReads, TickStep, StrayTouchdown, TypeOK,
           TickType
      <4>4. CASE TickReadsInputs
        BY <4>4 DEF TickReadsInputs, TickReads, TickStep, StrayTouchdown, TypeOK,
           TickType
      <4>5. CASE TickPicksLane
        BY <4>5 DEF TickPicksLane, TickReads, TickStep, StrayTouchdown, TypeOK,
           TickType
      <4>6. QED
        BY <3>4, <4>1, <4>2, <4>3, <4>4, <4>5
    <3>5. CASE \/ TickReadsTouchdown \/ TickLatchesKill \/ TickKillReturns
               \/ TickPublishesLand
      BY <3>5 DEF TickReadsTouchdown, TickLatchesKill, TickKillReturns,
         TickPublishesLand, TickReads, TickWrites, TickStep, TickIdle, Goto,
         StrayTouchdown, TypeOK, TickType
    <3>6. CASE \/ TickAdmits \/ TickWasAdmitted \/ TickRejects
               \/ TickSetModeReturns \/ TickForwards \/ TickHolds
      BY <3>6 DEF TickAdmits, TickWasAdmitted, TickRejects, TickSetModeReturns,
         TickForwards, TickHolds, Published, TickReads, TickWrites, TickStep,
         TickIdle, Goto, StrayTouchdown, TypeOK, TickType
    <3>7. QED
      BY <2>2, <3>1, <3>2, <3>3, <3>4, <3>5, <3>6 DEF Tick
  <2>3. CASE ~Tick /\ ~ImuLatches
    BY <2>3, OthersLeaveTouchdown DEF StrayTouchdown
  <2>4. QED
    BY <2>1, <2>2, <2>3
<1>2. QED
  BY TypeCorrect, <1>1, PTL DEF Spec, OnlyRunningSampleStrays

\* Who writes the position to hold: the Normal callback and the /mavros/state
\* callback, nobody else.
LEMMA OthersLeaveHold ==
  ASSUME TypeOK, [Next]_vars, ~StateProceeds, ~NormalHeld
  PROVE  /\ self'.hold = self.hold
         /\ st'.pc = st.pc \/ st.pc = "idle"
<1>1. CASE OnFault \/ OnRc \/ NormalExpires \/ FcuExpires \/ ThrottleExpires
  BY <1>1 DEF OnFault, OnRc, NormalExpires, FcuExpires, ThrottleExpires,
     ThreadsRest, TypeOK, Attributes
<1>2. CASE OnState
  BY <1>2 DEF OnState, TypeOK, Attributes
<1>3. CASE OnNormal \/ NormalStamped \/ OnImu \/ ImuLatches
  BY <1>3 DEF OnNormal, NormalStamped, OnImu, ImuLatches, TypeOK, Attributes
<1>4. CASE Tick
  BY <1>4 DEF Tick, TickStart, TickReadsNormal, TickReadsStamp, TickReadsInputs,
     TickPicksLane, TickArmsDetector, TickClearsTouchdown, TickPublishesState,
     TickNamesWorst, TickTerminated, TickOwned, TickReadsTouchdown,
     TickLatchesKill, TickKillReturns, TickPublishesLand, TickAdmits,
     TickWasAdmitted, TickRejects, TickSetModeReturns, TickForwards, TickHolds,
     TickReads, TickWrites, TickStep, TypeOK, Attributes
<1>5. ASSUME NEW r \in Requests, ReqStart(r) \/ ReqProceeds(r)
      PROVE  self'.hold = self.hold /\ st'.pc = st.pc
  BY <1>5 DEF ReqStart, ReqProceeds, ReqChecks, ReqClaims, ReqKillReturns,
     ReqLatchesKill, ReqReleases, ReqStep, ReqGuard, TypeOK, Attributes
<1>6. CASE UNCHANGED vars
  BY <1>6 DEF vars
<1>7. QED
  BY <1>1, <1>2, <1>3, <1>4, <1>5, <1>6 DEF Next, NormalProceeds

\* A position of an ended session is left only by a Normal callback that the
\* end of the session overtook.
THEOREM OnlyCallbackLeavesHold == Spec => OnlyRunningCallbackLeavesHold
<1>1. TypeOK /\ [Next]_vars
        => [~LeftHold /\ LeftHold'
              => nm.pc = "hold" /\ nm.tag = "past" /\ nm'.pc = "idle"]_vars
  <2> SUFFICES ASSUME TypeOK, [Next]_vars, ~LeftHold, LeftHold'
               PROVE  nm.pc = "hold" /\ nm.tag = "past" /\ nm'.pc = "idle"
    OBVIOUS
  <2>1. CASE NormalHeld
    BY <2>1 DEF NormalHeld, LeftHold, NmIdle, TypeOK, Attributes
  <2>2. CASE StateEndsSession \/ ResetNormal \/ ResetStamp
    BY <2>2 DEF StateEndsSession, ResetNormal, ResetStamp, StStep, StIdle,
       LeftHold, TypeOK, StType
  <2>3. CASE ResetHold
    BY <2>3 DEF ResetHold, StStep, LeftHold, TypeOK, Attributes
  <2>4. CASE \/ StateConnected \/ StateArmed \/ StateMode \/ StateKeepsSession
             \/ ResetAdmitted
    BY <2>4 DEF StateConnected, StateArmed, StateMode, StateKeepsSession,
       ResetAdmitted, StStep, LeftHold, TypeOK, Attributes
  <2>5. CASE ~StateProceeds /\ ~NormalHeld
    BY <2>5, OthersLeaveHold DEF LeftHold
  <2>6. QED
    BY <2>1, <2>2, <2>3, <2>4, <2>5 DEF StateProceeds
<1>2. QED
  BY TypeCorrect, <1>1, PTL DEF Spec, OnlyRunningCallbackLeavesHold

\* Who writes _offboard_admitted: a tick and the /mavros/state callback.
LEMMA OthersLeaveAdmission ==
  ASSUME TypeOK, [Next]_vars, ~StateProceeds, ~TickAdmits
  PROVE  /\ self'.admitted = self.admitted
         /\ st'.pc = st.pc \/ st.pc = "idle"
<1>1. CASE OnFault \/ OnRc \/ NormalExpires \/ FcuExpires \/ ThrottleExpires
  BY <1>1 DEF OnFault, OnRc, NormalExpires, FcuExpires, ThrottleExpires,
     ThreadsRest, TypeOK, Attributes
<1>2. CASE OnState
  BY <1>2 DEF OnState, TypeOK, Attributes
<1>3. CASE OnNormal \/ NormalProceeds \/ OnImu \/ ImuLatches
  BY <1>3 DEF OnNormal, NormalProceeds, NormalStamped, NormalHeld, OnImu,
     ImuLatches, TypeOK, Attributes
<1>4. CASE Tick
  BY <1>4 DEF Tick, TickStart, TickReadsNormal, TickReadsStamp, TickReadsInputs,
     TickPicksLane, TickArmsDetector, TickClearsTouchdown, TickPublishesState,
     TickNamesWorst, TickTerminated, TickOwned, TickReadsTouchdown,
     TickLatchesKill, TickKillReturns, TickPublishesLand,
     TickWasAdmitted, TickRejects, TickSetModeReturns, TickForwards, TickHolds,
     TickReads, TickWrites, TickStep, TypeOK, Attributes
<1>5. ASSUME NEW r \in Requests, ReqStart(r) \/ ReqProceeds(r)
      PROVE  self'.admitted = self.admitted /\ st'.pc = st.pc
  BY <1>5 DEF ReqStart, ReqProceeds, ReqChecks, ReqClaims, ReqKillReturns,
     ReqLatchesKill, ReqReleases, ReqStep, ReqGuard, TypeOK, Attributes
<1>6. CASE UNCHANGED vars
  BY <1>6 DEF vars
<1>7. QED
  BY <1>1, <1>2, <1>3, <1>4, <1>5, <1>6 DEF Next

\* An admission of an ended session is left only by a tick that the end of the
\* session overtook.
THEOREM OnlyTickLeavesAdmission == Spec => OnlyRunningTickLeavesAdmission
<1>1. TypeOK /\ [Next]_vars
        => [~LeftAdmission /\ LeftAdmission'
              => tick.pc = "admit" /\ tick.fresh = "past" /\ tick'.pc = "forward"]_vars
  <2> SUFFICES ASSUME TypeOK, [Next]_vars, ~LeftAdmission, LeftAdmission'
               PROVE  /\ tick.pc = "admit" /\ tick.fresh = "past"
                      /\ tick'.pc = "forward"
    OBVIOUS
  <2> USE DEF LeftAdmission, Resetting
  <2>1. CASE TickAdmits
    BY <2>1 DEF TickAdmits, TickWrites, TickStep, TypeOK, Attributes, TickType
  <2>2. CASE StateEndsSession \/ ResetNormal \/ ResetStamp \/ ResetHold
    BY <2>2 DEF StateEndsSession, ResetNormal, ResetStamp, ResetHold, StStep,
       StIdle, TypeOK, StType
  <2>3. CASE ResetAdmitted
    BY <2>3 DEF ResetAdmitted, StStep, TypeOK, Attributes
  <2>4. CASE \/ StateConnected \/ StateArmed \/ StateMode \/ StateKeepsSession
    BY <2>4 DEF StateConnected, StateArmed, StateMode, StateKeepsSession,
       StStep, TypeOK, Attributes
  <2>5. CASE ~StateProceeds /\ ~TickAdmits
    BY <2>5, OthersLeaveAdmission
  <2>6. QED
    BY <2>1, <2>2, <2>3, <2>4, <2>5 DEF StateProceeds
<1>2. QED
  BY TypeCorrect, <1>1, PTL DEF Spec, OnlyRunningTickLeavesAdmission
=============================================================================
