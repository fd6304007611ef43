----------------------------- MODULE MCResponse -----------------------------
(* Instances of the response node for TLC. *)
EXTENDS ResponseProperties

CONSTANT r1

MCModes == {"OFFBOARD", "POSCTL"}
AllLevels == {OK, WARN, ERROR}
SomeLevels == {OK, WARN}
NoRequests == {}
OneRequest == {r1}

\* Nothing terminates the vehicle, and the flight controller is heard.
Linked ==
    /\ ~self.killSwitch /\ ~self.killed /\ ~tick.kill /\ tick.lane # "KILL"
    /\ self.fcuFresh /\ self.connected /\ (st.pc = "connected" => st.connected)
    /\ \A r \in Requests : req[r].pc = "idle"

\* A flight that is commanded and has no fault.
Commanding ==
    /\ self.level = OK /\ tick.level = OK
    /\ ~self.inLand /\ ~self.fired /\ ~self.detected /\ imu = "idle"

\* A flight that is not commanded and may have to land.
Landing ==
    /\ self.level <= WARN /\ nm.pc = "idle"
    /\ {self.normal, self.hold, self.admitted, tick.fresh} = {"none"} /\ ~self.stampFresh

\* Handlers follow each other in every flight, and overlap in these.
OverlapsInFlight == overlapped' => Linked' /\ (Commanding' \/ Landing')
=============================================================================
