------------------------- MODULE PipelineProperties -------------------------
(***************************************************************************)
(* What L1 and L2 owe L3.  A condition of the flight that lasts must       *)
(* become, and stay, the verdict the configuration promises for it, and    *)
(* nothing else may.                                                       *)
(***************************************************************************)
EXTENDS Pipeline

Reported == \A i \in Indices : last[i].seen

\* None of the conditions for which a configured reporter promises a kill.
NothingCritical ==
    /\ "diagnosis" \in alive \/ Reporters = {}
    /\ "local_position" \in Reporters => (local.seen => local.alive)
    /\ "geofence" \in Reporters =>
         IF pose.fresh THEN \A a \in AxisSet : ToWall(a) >= 0
                       ELSE local.fallback
    /\ "consistency" \in Reporters => (pair.fresh => pair.err <= ErrorAbove)

\* Losing the VRPN, being near a wall or lacking pairs lands the vehicle and
\* never goes on killing it: when nothing critical lasts, the fault sinks
\* below ERROR and stays there, whatever was reported before
\* (diagnosis.yaml:2-4, monitor.yaml:11-14).
VrpnAloneLands == <>[]NothingCritical => <>[](fault.level < ERROR)

\* A vehicle that stays beyond a wall the VRPN can see is killed, once every
\* source has reported.
ExitReachesFault ==
    \A a \in AxisSet :
        <>[](pose.fresh /\ ToWall(a) < 0 /\ Reported)
            => <>[](fault.level >= ERROR)

\* local_position seen and then silent reaches the fault as ERROR even though
\* the fallback, the geofence and the consistency check each tolerate it, and
\* so does the death of the node that would have said so.
LossReachesFault ==
    /\ <>[](local.seen /\ ~local.alive /\ Reported)
           => <>[](fault.level >= ERROR)
    /\ <>[]("diagnosis" \notin alive /\ Reported) => <>[](fault.level >= ERROR)

InOrder ==
    /\ alive = Publishers
    /\ pose.fresh /\ \A a \in AxisSet : ToWall(a) >= Margin
    /\ local.alive /\ local.fallback

\* A fault is not sticky: once everything that bears on the availability
\* reporters is in order, the verdict returns to OK.
OrderRestoresOk ==
    <>[]InOrder => <>[](fault.level = OK)

\* Two estimates that keep disagreeing by more than error_m are a kill; no
\* pair to compare is a landing at least, and no more than one when nothing
\* else is wrong, however far apart the last pair was (diagnosis.yaml:23).
MismatchReachesFault ==
    /\ <>[](pair.fresh /\ pair.err > ErrorAbove /\ Reported)
           => <>[](fault.level >= ERROR)
    /\ <>[](~pair.fresh) => <>[](fault.level >= WARN)
    /\ <>[](~pair.fresh /\ NothingCritical) => <>[](fault.level < ERROR)

\* A VRPN client that dies, sends nothing or repeats one sample cannot be
\* overlooked: the fault is at least WARN.
StopReachesFault ==
    /\ <>[](~stream.events \/ (stream.havePos /\ stream.frozen))
           => <>[](fault.level >= WARN)
    /\ <>[]("vrpn" \notin alive) => <>[](fault.level >= WARN)

\* max_level is authority: no source is named in a verdict above its cap, and
\* every verdict above OK, published or in the making, names the sources it
\* is due to (monitor.py:35-38, monitor.yaml:11-14).
AuthorityIsCapped ==
    \A v \in {scan, fault} :
        /\ v.level > OK <=> v.names # {}
        /\ \A i \in v.names : v.level <= MaxLevel[i]
=============================================================================
