------------------------------ MODULE Response ------------------------------
(***************************************************************************)
(* L3 response node (src/src/flight_safety/response.py, actions.py).       *)
(*                                                                         *)
(* rospy runs every subscriber callback, the 50 Hz timer and every service *)
(* request on a thread of its own, and the node takes no lock.  Each       *)
(* handler is therefore a sequence of steps, and one step reads or writes  *)
(* at most one attribute that another thread also uses.                    *)
(*                                                                         *)
(* Time is abstracted to the comparisons the code makes: a stamp is young  *)
(* enough or not (an Expire action ends its youth), and a stamp taken      *)
(* after the reader sampled its own "now" gives a negative age.            *)
(*                                                                         *)
(* A setpoint is represented by the control session it was received in:    *)
(* "live" for the present one, "past" for one that has ended, "none" for   *)
(* Python's None.  A session ends where _on_state decides to reset it.     *)
(***************************************************************************)
EXTENDS Naturals, Severity

CONSTANTS
    RequireArmed,       \* ~require_armed
    IdleHold,           \* ~idle_hold
    AllowExternal,      \* ~allow_external_termination
    Touchdown,          \* ~touchdown/enabled
    Levels,             \* severities L2 publishes
    Modes,              \* PX4 navigation modes /mavros/state reports
    KillPositions,      \* verdicts of the RC kill channel that occur
    Links,              \* values of State.connected that occur
    Holdable,           \* whether the Normal commands that occur carry a
                        \* local-frame position
    Requests            \* threads that serve ~request_termination

\* self.mode before the first state message: the empty string.
NoMode == "unset"

ASSUME ParametersAreFlags ==
    /\ RequireArmed \in BOOLEAN /\ IdleHold \in BOOLEAN
    /\ AllowExternal \in BOOLEAN /\ Touchdown \in BOOLEAN

ASSUME InputsAreTyped ==
    /\ Levels \subseteq Severities
    /\ NoMode \notin Modes
    /\ KillPositions \subseteq BOOLEAN
    /\ Links \subseteq BOOLEAN
    /\ Holdable \subseteq BOOLEAN

VARIABLES
    self,         \* the attributes of the Response object
    disarmed,     \* the FCU has acknowledged a force-disarm
    tick,         \* the timer thread
    st,           \* the /mavros/state thread
    nm,           \* the normal_in thread
    imu,          \* the IMU thread
    req,          \* the service threads
    overlapped    \* an input came, a stamp aged or a handler began while another
                  \* handler was at work (history)

vars == <<self, disarmed, tick, st, nm, imu, req, overlapped>>

Tags == {"none", "live", "past"}

\* level stands for self.fault, whose names are empty exactly at OK;
\* killSwitch for _kill()'s verdict on self.rc; fcuFresh for a fcu_received
\* younger than 2 s; stampFresh for a normal_stamp younger than
\* normal_timeout; throttled for a _last_manual of at most 1 s; detected for
\* the touchdown detector's own latch.  admitted is _offboard_admitted, with
\* the session of the Normal command that justified it ("none" when False).
Attributes ==
    [level : Severities, killSwitch : BOOLEAN, fcuFresh : BOOLEAN,
     connected : BOOLEAN, armed : BOOLEAN, mode : Modes \cup {NoMode},
     initialized : BOOLEAN, normal : Tags, stampFresh : BOOLEAN, hold : Tags,
     admitted : Tags, killed : BOOLEAN, busy : BOOLEAN, inLand : BOOLEAN,
     fired : BOOLEAN, detected : BOOLEAN, throttled : BOOLEAN]

TickPcs == {"idle", "normal", "stamp", "inputs", "lane", "land", "clear",
            "state", "names", "terminated", "owned", "touchdown",
            "latch", "disarm", "descend", "admit", "setmode", "forward",
            "hold", "dead"}
StPcs == {"idle", "connected", "armed", "mode", "decide", "normal", "stamp",
          "hold", "admitted"}
ReqPcs == {"idle", "fcu", "connected", "armed", "mode", "admitted", "normal",
           "stamp", "killed", "rc", "busy", "claim", "disarm", "latch",
           "release"}

\* A thread keeps the values it read while it needs them; late records that
\* it began after the latch.
TickIdle == [pc |-> "idle", fresh |-> "none", ahead |-> FALSE, level |-> OK,
             kill |-> FALSE, manual |-> FALSE, lane |-> "NORMAL",
             late |-> FALSE]
StIdle == [pc |-> "idle", armed |-> FALSE, mode |-> NoMode, connected |-> FALSE,
           reset |-> FALSE]
NmIdle == [pc |-> "idle", tag |-> "none"]
ReqIdle == [pc |-> "idle", ahead |-> {}, late |-> FALSE]

TickType == [pc : TickPcs, fresh : Tags, ahead : BOOLEAN, level : Severities,
             kill : BOOLEAN, manual : BOOLEAN,
             lane : {"NORMAL", "LAND", "KILL", "MANUAL"}, late : BOOLEAN]
StType == [pc : StPcs, armed : BOOLEAN, mode : Modes \cup {NoMode},
           connected : BOOLEAN, reset : BOOLEAN]
NmType == [pc : {"idle", "stamp", "hold"}, tag : Tags]
ReqType == [pc : ReqPcs, ahead : SUBSET {"fcu", "normal"}, late : BOOLEAN]

TypeOK ==
    /\ self \in Attributes
    /\ disarmed \in BOOLEAN
    /\ tick \in TickType
    /\ st \in StType
    /\ nm \in NmType
    /\ imu \in {"idle", "latch"}
    /\ req \in [Requests -> ReqType]

Init ==
    /\ self = [level |-> OK, killSwitch |-> FALSE, fcuFresh |-> FALSE,
               connected |-> FALSE, armed |-> FALSE, mode |-> NoMode,
               initialized |-> FALSE, normal |-> "none", stampFresh |-> FALSE,
               hold |-> "none", admitted |-> "none", killed |-> FALSE,
               busy |-> FALSE, inLand |-> FALSE, fired |-> FALSE,
               detected |-> FALSE, throttled |-> FALSE]
    /\ disarmed = FALSE
    /\ tick = TickIdle
    /\ st = StIdle
    /\ nm = NmIdle
    /\ imu = "idle"
    /\ req = [r \in Requests |-> ReqIdle]
    /\ overlapped = FALSE

\* Whatever comes from outside may come while a handler is at work.
AtWork ==
    \/ tick.pc \notin {"idle", "dead"} \/ st.pc # "idle" \/ nm.pc # "idle" \/ imu # "idle"
    \/ \E r \in Requests : req[r].pc # "idle"
Comes == overlapped' = (overlapped \/ AtWork)

-----------------------------------------------------------------------------
(* Single-assignment callbacks and the passage of time.                    *)

ThreadsRest == UNCHANGED <<disarmed, tick, st, nm, imu, req>> /\ Comes

OnFault == \E l \in Levels : self' = [self EXCEPT !.level = l] /\ ThreadsRest
OnRc == \E k \in KillPositions :
            self' = [self EXCEPT !.killSwitch = k] /\ ThreadsRest

\* Between its sample of "now" and its read of the stamp a reader compares
\* with the sample, so the time that passes there ages nothing it sees.
TickJudges == tick.pc \in {"normal", "stamp"}
ReqJudges(r) == req[r].pc \in {"fcu", "connected", "armed", "mode",
                               "admitted", "normal", "stamp"}

NormalExpires ==
    /\ self.stampFresh
    /\ ~TickJudges /\ \A r \in Requests : ~ReqJudges(r)
    /\ self' = [self EXCEPT !.stampFresh = FALSE]
    /\ ThreadsRest

\* Only _request_termination reads the age of the last state message.
FcuExpires ==
    /\ AllowExternal /\ self.fcuFresh
    /\ \A r \in Requests : req[r].pc # "fcu"
    /\ self' = [self EXCEPT !.fcuFresh = FALSE]
    /\ ThreadsRest

ThrottleExpires ==
    /\ self.throttled
    /\ self' = [self EXCEPT !.throttled = FALSE]
    /\ ThreadsRest

-----------------------------------------------------------------------------
(* _on_state and _reset_control_session.                                   *)

\* The tag of a command once the session it belongs to has ended.
Ended(tag) == IF tag = "live" THEN "past" ELSE tag

\* Only this thread writes armed and mode, so its comparison of the two
\* states is already determined when the message arrives.
SessionEnds(a, m) ==
    IF ~self.initialized THEN a
    ELSE a # self.armed \/ (self.mode = "OFFBOARD" /\ m # "OFFBOARD")

OnState ==
    /\ st.pc = "idle"
    /\ \E a \in BOOLEAN, m \in Modes, c \in Links :
         st' = [pc |-> "connected", armed |-> a, mode |-> m, connected |-> c,
                reset |-> SessionEnds(a, m)]
    /\ self' = [self EXCEPT !.fcuFresh = TRUE]
    /\ req' = [r \in Requests |->
                 IF req[r].pc = "fcu"
                 THEN [req[r] EXCEPT !.ahead = @ \cup {"fcu"}] ELSE req[r]]
    /\ UNCHANGED <<disarmed, tick, nm, imu>> /\ Comes

StStep(from, next, attributes) ==
    /\ st.pc = from
    /\ st' = next
    /\ self' = attributes
    /\ UNCHANGED <<disarmed, imu, req, overlapped>>

StateConnected ==
    /\ StStep("connected", [st EXCEPT !.pc = "armed", !.connected = FALSE],
              [self EXCEPT !.connected = st.connected])
    /\ UNCHANGED <<tick, nm>>
StateArmed ==
    /\ StStep("armed", [st EXCEPT !.pc = "mode", !.armed = FALSE],
              [self EXCEPT !.armed = st.armed])
    /\ UNCHANGED <<tick, nm>>
StateMode ==
    /\ StStep("mode", [st EXCEPT !.pc = "decide", !.mode = NoMode],
              [self EXCEPT !.mode = st.mode])
    /\ UNCHANGED <<tick, nm>>
StateKeepsSession ==
    /\ ~st.reset
    /\ StStep("decide", StIdle, [self EXCEPT !.initialized = TRUE])
    /\ UNCHANGED <<tick, nm>>

\* A slip, for the mutants of the runs: the session ends without a reset.
SessionEndsUnnoticed ==
    /\ st.reset
    /\ StStep("decide", StIdle,
              [self EXCEPT !.initialized = TRUE, !.normal = Ended(@),
                           !.hold = Ended(@), !.admitted = Ended(@)])
    /\ tick' = [tick EXCEPT !.fresh = Ended(@)]
    /\ nm' = [nm EXCEPT !.tag = Ended(@)]

\* The end of a session: every command received so far is from now on "past".
StateEndsSession ==
    /\ st.reset
    /\ StStep("decide", [StIdle EXCEPT !.pc = "normal"],
              [self EXCEPT !.initialized = TRUE, !.normal = Ended(@),
                           !.hold = Ended(@), !.admitted = Ended(@)])
    /\ tick' = [tick EXCEPT !.fresh = Ended(@)]
    /\ nm' = [nm EXCEPT !.tag = Ended(@)]

\* Slips a change of the code could make, for the mutants of the runs: a
\* reset that forgets one attribute.
ResetHoldForgotten ==
    /\ StStep("hold", [st EXCEPT !.pc = "admitted"], self)
    /\ UNCHANGED <<tick, nm>>
ResetAdmittedForgotten ==
    /\ StStep("admitted", StIdle, self)
    /\ UNCHANGED <<tick, nm>>

ResetNormal ==
    /\ StStep("normal", [st EXCEPT !.pc = "stamp"],
              [self EXCEPT !.normal = "none"])
    /\ UNCHANGED <<tick, nm>>
ResetStamp ==
    /\ StStep("stamp", [st EXCEPT !.pc = "hold"],
              [self EXCEPT !.stampFresh = FALSE])
    /\ UNCHANGED <<tick, nm>>
ResetHold ==
    /\ StStep("hold", [st EXCEPT !.pc = "admitted"],
              [self EXCEPT !.hold = "none"])
    /\ UNCHANGED <<tick, nm>>
ResetAdmitted ==
    /\ StStep("admitted", StIdle, [self EXCEPT !.admitted = "none"])
    /\ UNCHANGED <<tick, nm>>

-----------------------------------------------------------------------------
(* _on_normal: the command, its stamp, and the position held from it.      *)

OnNormal ==
    /\ nm.pc = "idle"
    /\ self' = [self EXCEPT !.normal = "live"]
    /\ \E position \in Holdable :
         nm' = [pc |-> "stamp", tag |-> IF position THEN "live" ELSE "none"]
    /\ UNCHANGED <<disarmed, tick, st, imu, req>> /\ Comes

NormalStamped ==
    /\ nm.pc = "stamp"
    /\ self' = [self EXCEPT !.stampFresh = TRUE]
    /\ tick' = IF TickJudges THEN [tick EXCEPT !.ahead = TRUE] ELSE tick
    /\ req' = [r \in Requests |->
                 IF ReqJudges(r)
                 THEN [req[r] EXCEPT !.ahead = @ \cup {"normal"}] ELSE req[r]]
    /\ nm' = IF nm.tag = "none" THEN NmIdle ELSE [nm EXCEPT !.pc = "hold"]
    /\ UNCHANGED <<disarmed, st, imu, overlapped>>

NormalHeld ==
    /\ nm.pc = "hold"
    /\ self' = [self EXCEPT !.hold = nm.tag]
    /\ nm' = NmIdle
    /\ UNCHANGED <<disarmed, tick, st, imu, req, overlapped>>

-----------------------------------------------------------------------------
(* _on_imu: the detector runs while in_land and fires once per descent;    *)
(* which samples confirm an impact is the subject of module Touchdown.     *)

OnImu ==
    /\ Touchdown
    /\ imu = "idle"
    /\ self.inLand => ~self.detected
    /\ self' = [self EXCEPT !.detected = self.inLand]
    /\ imu' = IF self.inLand THEN "latch" ELSE "idle"
    /\ UNCHANGED <<disarmed, tick, st, nm, req>> /\ Comes

ImuLatches ==
    /\ imu = "latch"
    /\ self' = [self EXCEPT !.fired = TRUE]
    /\ imu' = "idle"
    /\ UNCHANGED <<disarmed, tick, st, nm, req, overlapped>>

-----------------------------------------------------------------------------
(* _tick.                                                                  *)

TickStep(from, next, attributes) ==
    /\ tick.pc = from
    /\ tick' = next
    /\ self' = attributes
    /\ UNCHANGED <<st, nm, imu, req>>

TickReads(from, next) == TickStep(from, next, self) /\ UNCHANGED <<disarmed, overlapped>>
TickWrites(from, to, attributes) ==
    /\ TickStep(from, [tick EXCEPT !.pc = to], attributes)
    /\ UNCHANGED <<disarmed, overlapped>>
Goto(pc) == [tick EXCEPT !.pc = pc]

Manual(m) == m \notin {NoMode, "OFFBOARD"}

\* Slip: a default lane that _RESP does not know.
LaneUnmapped(kill, manual, level) ==
    IF kill THEN "KILL" ELSE IF manual THEN "MANUAL" ELSE "UNKNOWN"

Lane(kill, manual, level) ==
    IF kill THEN "KILL"
    ELSE IF manual THEN "MANUAL"
    ELSE CASE level = WARN -> "LAND"
           [] level = ERROR -> "KILL"
           [] OTHER -> "NORMAL"

TickStart ==
    /\ TickStep("idle", [TickIdle EXCEPT !.pc = "normal", !.late = self.killed], self)
    /\ UNCHANGED disarmed /\ Comes

\* _normal_is_fresh reads self.normal, then self.normal_stamp; the command it
\* judges is taken to be the newest one the two reads can be about.
TickReadsNormal ==
    TickReads("normal", [tick EXCEPT
        !.pc = IF self.normal = "none" THEN "inputs" ELSE "stamp",
        !.ahead = @ /\ self.normal # "none",
        !.fresh = self.normal])

TickReadsStamp ==
    TickReads("stamp", [tick EXCEPT
        !.pc = "inputs",
        !.ahead = FALSE,
        !.fresh = IF ~self.stampFresh \/ tick.ahead THEN "none"
                  ELSE IF self.normal = "none" THEN @ ELSE self.normal])

\* The fault and RC callbacks write nothing else and no other step depends on
\* their order, so a write that falls between these reads may as well follow
\* them: the three reads are one step.
TickReadsInputs ==
    TickReads("inputs", [tick EXCEPT !.pc = "lane", !.level = self.level,
                                     !.kill = self.killSwitch,
                                     !.manual = Manual(self.mode)])
TickPicksLane ==
    TickReads("lane", [tick EXCEPT !.pc = "land",
        !.lane = Lane(tick.kill \/ self.killed, tick.manual, tick.level)])

TickArmsDetector ==
    LET landing == tick.lane = "LAND" /\ self.armed
    IN  TickWrites("land", IF landing THEN "state" ELSE "clear",
                   [self EXCEPT !.inLand = landing])
\* Slip: a touchdown kept beyond the descent.
TickKeepsTouchdown == TickWrites("clear", "state", self)

TickClearsTouchdown ==
    TickWrites("clear", "state", [self EXCEPT !.fired = FALSE])

\* _publish_state tests self.fault.names and then indexes it (and so for the
\* messages): a fault without names arriving in between is an IndexError,
\* which ends the timer thread.
TickPublishesState ==
    TickReads("state", Goto(IF self.level = OK THEN "terminated" ELSE "names"))
TickNamesWorst ==
    TickReads("names", Goto(IF self.level = OK THEN "dead" ELSE "terminated"))

\* Slip: only the pilot's kill switch ends the tick.
TickIgnoresLatch ==
    TickReads("terminated", IF tick.kill THEN TickIdle
                            ELSE Goto(IF tick.manual THEN "forward" ELSE "owned"))

TickTerminated ==
    TickReads("terminated",
              IF self.killed \/ tick.kill THEN TickIdle
              ELSE Goto(IF tick.manual THEN "forward" ELSE "owned"))

\* Slips: a severity compared with > instead of >=.
TickOwnedAboveError ==
    TickReads("owned", Goto(IF ~self.armed /\ RequireArmed THEN "admit"
                            ELSE IF tick.level > ERROR THEN "latch"
                            ELSE "touchdown"))
TickTouchdownAboveWarn ==
    TickReads("touchdown", Goto(IF self.fired THEN "latch"
                                ELSE IF tick.level > WARN THEN "descend"
                                ELSE "admit"))

TickOwned ==
    TickReads("owned", Goto(IF ~self.armed /\ RequireArmed THEN "admit"
                            ELSE IF tick.level >= ERROR THEN "latch"
                            ELSE "touchdown"))
TickReadsTouchdown ==
    TickReads("touchdown", Goto(IF self.fired THEN "latch"
                                ELSE IF tick.level >= WARN THEN "descend"
                                ELSE "admit"))
TickLatchesKill ==
    TickWrites("latch", "disarm", [self EXCEPT !.killed = TRUE])

\* actions.kill(): the thread is blocked in the call; its result is ignored.
TickKillReturns ==
    /\ TickStep("disarm", TickIdle, self)
    /\ \E ack \in BOOLEAN : disarmed' = (disarmed \/ ack)
    /\ UNCHANGED overlapped

TickPublishesLand == TickReads("descend", TickIdle)

\* Slip: admission without a fresh Normal command.
TickAdmitsAnything ==
    /\ self.admitted = "none"
    /\ TickWrites("admit", "forward", [self EXCEPT !.admitted = "live"])

TickAdmits ==
    /\ self.admitted = "none" /\ tick.fresh # "none"
    /\ TickWrites("admit", "forward", [self EXCEPT !.admitted = tick.fresh])
TickWasAdmitted ==
    /\ self.admitted # "none"
    /\ TickReads("admit", Goto("forward"))

\* Slip: a throttle that never opens.
TickNeverRejects ==
    /\ self.admitted = "none" /\ tick.fresh = "none"
    /\ TickReads("admit", TickIdle)

\* _to_manual, at most once a second.
TickRejects ==
    /\ self.admitted = "none" /\ tick.fresh = "none"
    /\ TickReads("admit", IF self.throttled THEN TickIdle ELSE Goto("setmode"))

\* actions.set_mode(): blocked in the call; a failure is only logged.
TickSetModeReturns ==
    /\ TickStep("setmode", TickIdle, [self EXCEPT !.throttled = TRUE])
    /\ UNCHANGED <<disarmed, overlapped>>

\* Publishing None raises AttributeError, which ends the timer thread.
Published(sp) == IF sp = "none" THEN Goto("dead") ELSE TickIdle

TickForwards ==
    TickReads("forward",
              IF tick.fresh # "none" THEN Published(self.normal)
              ELSE IF IdleHold /\ self.hold # "none" THEN Goto("hold")
              ELSE TickIdle)
TickHolds == TickReads("hold", Published(self.hold))

Tick ==
    \/ TickStart \/ TickReadsNormal \/ TickReadsStamp \/ TickReadsInputs
    \/ TickPicksLane
    \/ TickArmsDetector \/ TickClearsTouchdown
    \/ TickPublishesState \/ TickNamesWorst \/ TickTerminated
    \/ TickOwned \/ TickReadsTouchdown \/ TickLatchesKill \/ TickKillReturns
    \/ TickPublishesLand
    \/ TickAdmits \/ TickWasAdmitted \/ TickRejects \/ TickSetModeReturns
    \/ TickForwards \/ TickHolds

-----------------------------------------------------------------------------
(* _request_termination, on service thread r.                              *)

ReqStep(r, from, next, attributes) ==
    /\ req[r].pc = from
    /\ req' = [req EXCEPT ![r] = next]
    /\ self' = attributes
    /\ UNCHANGED <<tick, st, nm, imu>>

\* A guard that reads one attribute: go on, or refuse.
ReqGuard(r, from, to, holds) ==
    /\ ReqStep(r, from, IF holds THEN [req[r] EXCEPT !.pc = to] ELSE ReqIdle,
               self)
    /\ UNCHANGED <<disarmed, overlapped>>

ReqStart(r) ==
    /\ AllowExternal
    /\ ReqStep(r, "idle", [ReqIdle EXCEPT !.pc = "fcu", !.late = self.killed],
               self)
    /\ UNCHANGED disarmed /\ Comes

ReqChecks(r) ==
    \/ ReqGuard(r, "fcu", "connected",
                self.fcuFresh /\ "fcu" \notin req[r].ahead)
    \/ ReqGuard(r, "connected", "armed", self.connected)
    \/ ReqGuard(r, "armed", "mode", self.armed)
    \/ ReqGuard(r, "mode", "admitted",
                self.mode = "OFFBOARD" /\ ~Manual(self.mode))
    \/ ReqGuard(r, "admitted", "normal", self.admitted # "none")
    \/ ReqGuard(r, "normal", "stamp", self.normal # "none")
    \/ ReqGuard(r, "stamp", "killed",
                self.stampFresh /\ "normal" \notin req[r].ahead)
    \/ ReqGuard(r, "killed", "rc", ~self.killed)
    \/ ReqGuard(r, "rc", "busy", ~self.killSwitch)
    \/ ReqGuard(r, "busy", "claim", ~self.busy)

ReqClaims(r) ==
    /\ ReqStep(r, "claim", [req[r] EXCEPT !.pc = "disarm"],
               [self EXCEPT !.busy = TRUE])
    /\ UNCHANGED <<disarmed, overlapped>>

\* Slip: no finally, so that a refused request leaves termination_busy set.
ReqRefusedKeepsBusy(r) ==
    \E ack \in BOOLEAN :
      /\ ReqStep(r, "disarm",
                 IF ack THEN [req[r] EXCEPT !.pc = "latch"] ELSE ReqIdle, self)
      /\ disarmed' = (disarmed \/ ack)
      /\ UNCHANGED overlapped

\* actions.kill(): blocked in the call, then acknowledged or not.
ReqKillReturns(r) ==
    \E ack \in BOOLEAN :
      /\ ReqStep(r, "disarm",
                 [req[r] EXCEPT !.pc = IF ack THEN "latch" ELSE "release"],
                 self)
      /\ disarmed' = (disarmed \/ ack)
      /\ UNCHANGED overlapped

ReqLatchesKill(r) ==
    /\ ReqStep(r, "latch", [req[r] EXCEPT !.pc = "release"],
               [self EXCEPT !.killed = TRUE])
    /\ UNCHANGED <<disarmed, overlapped>>

\* finally: termination_busy = False
ReqReleases(r) ==
    /\ ReqStep(r, "release", ReqIdle, [self EXCEPT !.busy = FALSE])
    /\ UNCHANGED <<disarmed, overlapped>>

ReqProceeds(r) == \/ ReqChecks(r) \/ ReqClaims(r) \/ ReqKillReturns(r)
                  \/ ReqLatchesKill(r) \/ ReqReleases(r)

-----------------------------------------------------------------------------
StateProceeds ==
    \/ StateConnected \/ StateArmed \/ StateMode
    \/ StateKeepsSession \/ StateEndsSession
    \/ ResetNormal \/ ResetStamp \/ ResetHold \/ ResetAdmitted

NormalProceeds == NormalStamped \/ NormalHeld

Next ==
    \/ OnFault \/ OnRc
    \/ NormalExpires \/ FcuExpires \/ ThrottleExpires
    \/ OnState \/ StateProceeds
    \/ OnNormal \/ NormalProceeds
    \/ OnImu \/ ImuLatches
    \/ Tick
    \/ \E r \in Requests : ReqStart(r) \/ ReqProceeds(r)

Spec == Init /\ [][Next]_vars

\* The timer keeps firing, a started handler keeps running and every service
\* call returns, and the second of the set_mode throttle passes; arrivals and
\* the other expiries owe nothing.
Fairness ==
    /\ WF_vars(Tick)
    /\ WF_vars(StateProceeds)
    /\ WF_vars(NormalProceeds)
    /\ WF_vars(ImuLatches)
    /\ WF_vars(ThrottleExpires)
    /\ \A r \in Requests : WF_vars(ReqProceeds(r))

FairSpec == Spec /\ Fairness
=============================================================================
