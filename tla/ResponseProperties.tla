------------------------- MODULE ResponseProperties -------------------------
(***************************************************************************)
(* What the L3 response node guarantees, whichever of its handlers overlap, *)
(* and what it promises as long as none do.                                *)
(***************************************************************************)
EXTENDS Response

-----------------------------------------------------------------------------
(* Safety.                                                                 *)

\* The steps of a tick that lie behind its "if self.killed or kill: return".
Actuating == {"owned", "touchdown", "latch", "disarm", "descend", "admit",
              "setmode", "forward", "hold"}

\* A tick or a termination request that begins after the force-disarm latch
\* is set never reaches a step that commands the vehicle, whatever the other
\* threads do meanwhile (response.py:239, response.py:125).
TerminatedStaysSilent ==
    /\ tick.late => tick.pc \notin Actuating
    /\ \A r \in Requests :
         req[r].late => req[r].pc \notin {"rc", "busy", "claim", "disarm",
                                          "latch", "release"}

\* A tick forwards a Normal command of an ended session only in the window in
\* which _on_state has decided to reset and has not yet cleared it
\* (response.py:278, response.py:162).
ForwardedNormalIsCurrent ==
    [][tick.pc = "forward" /\ tick.fresh # "none" /\ tick'.pc = "idle"
         => self.normal = "live" \/ st.pc = "normal"]_vars

Resetting == st.pc \in {"normal", "stamp", "hold", "admitted"}

\* A position of an ended session that the reset has passed by.
LeftHold == self.hold = "past" /\ st.pc \notin {"normal", "stamp", "hold"}

\* Whatever handlers overlap, the end of an arm/OFFBOARD session forgets the
\* position IdleHold would hold, except for one that a Normal callback writes
\* after the reset and that it had been given before it: no tick, no later
\* callback and no further session brings an old position back (comment at
\* response.py:84, _on_normal 191-194).
OnlyRunningCallbackLeavesHold ==
    [][~LeftHold /\ LeftHold' => nm.pc = "hold" /\ nm.tag = "past" /\ nm'.pc = "idle"]_vars

\* An admission of an ended session that the reset has passed by.
LeftAdmission == self.admitted = "past" /\ ~Resetting

\* Whatever handlers overlap, the end of a session withdraws its admission to
\* OFFBOARD, except for one that a tick writes after the reset and that it had
\* found justified before it (comment at response.py:255, _tick 261).
OnlyRunningTickLeavesAdmission ==
    [][~LeftAdmission /\ LeftAdmission'
         => tick.pc = "admit" /\ tick.fresh = "past" /\ tick'.pc = "forward"]_vars

\* A touchdown on which a tick may act although the vehicle is not landing.
StrayTouchdown ==
    /\ self.fired /\ ~self.inLand
    /\ tick.pc \in {"state", "names", "terminated", "owned", "touchdown"}

\* Whatever handlers overlap, a touchdown does not outlive its descent, except
\* for one that an IMU callback confirms while the tick that ended the descent,
\* or a later one, is at work: no touchdown latched before is acted on
\* (response.py:200-204, 217-221).
OnlyRunningSampleStrays ==
    [][~StrayTouchdown /\ StrayTouchdown' => imu = "latch" /\ imu' = "idle"]_vars

\* While termination_busy is set some request is in its critical section: a
\* flag left behind would refuse every later one (response.py:127-134).
BusyIsNotLeaked ==
    self.busy => \E r \in Requests : req[r].pc \in {"disarm", "latch", "release"}

\* The claim that the timer publishes the state every tick (response.py:14): it
\* does until an exception ends its thread, and a fault or a reset between a
\* test and the use of what was tested raises one (309/310, 279, 281).
TimerAlive == tick.pc # "dead"

-----------------------------------------------------------------------------
(* Liveness.                                                               *)

Owned == /\ self.armed /\ self.mode = "OFFBOARD"
         /\ ~self.killSwitch /\ ~self.killed
         /\ TimerAlive

\* An ERROR that lasts while flight_safety owns an armed vehicle ends in the
\* force-disarm latch (response.py:245).
ErrorTerminates == (Owned /\ self.level >= ERROR)
                     ~> ~(Owned /\ self.level >= ERROR)

\* A WARN that lasts while flight_safety owns an armed vehicle is answered by
\* a land setpoint again and again, until a touchdown (response.py:251).
WarnStreamsLand == (Owned /\ self.level = WARN)
                     ~> (tick.pc = "descend" \/ ~(Owned /\ self.level = WARN))

Unadmitted == /\ Owned /\ self.level = OK
              /\ self.normal = "none" /\ self.admitted = "none"

\* OFFBOARD without a Normal command in the session is handed back to the
\* pilot's mode (response.py:267).
UnadmittedIsHandedBack == Unadmitted ~> (tick.pc = "setmode" \/ ~Unadmitted)

-----------------------------------------------------------------------------
(* The abstract control session.                                           *)

Commanded ==
    CASE tick.pc = "descend" -> "land"
      [] tick.pc = "setmode" -> "handback"
      [] tick.pc = "hold" -> "hold"
      [] tick.pc = "forward" /\ tick.fresh # "none" -> "normal"
      [] OTHER -> "none"

CS == INSTANCE ControlSession WITH
        offered <- self.normal # "none" /\ ~Resetting,
        held <- self.hold # "none" /\ ~Resetting,
        admitted <- self.admitted # "none" /\ ~Resetting,
        terminated <- self.killed,
        act <- Commanded

\* From the start until handlers overlap for the first time, every step is one
\* of the abstract control session: over all inputs, lanes, sessions,
\* touchdowns and termination requests (response.py:139-281).
ImplementsControlSession == CS!Init /\ [][CS!Next \/ overlapped']_(CS!vars)
=============================================================================
