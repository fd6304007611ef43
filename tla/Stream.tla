------------------------------- MODULE Stream -------------------------------
(***************************************************************************)
(* The self-report a stream's own node embeds                              *)
(* (src/include/flight_safety/stream_diagnostic.h); here that of the VRPN  *)
(* pose.  Its mutex makes a tick and a run one step each.  Whether the     *)
(* rate lies within its band is left open.                                 *)
(***************************************************************************)
EXTENDS Severity

VARIABLE stream      \* events since the last run; have_pos; the payload has
                     \* not changed for longer than freeze_window

StreamInit == stream = [events |-> FALSE, havePos |-> FALSE, frozen |-> FALSE]

\* tick(x, y, z)
StreamTicks(changed) ==
    stream' = [events |-> TRUE, havePos |-> TRUE,
               frozen |-> stream.frozen /\ stream.havePos /\ ~changed]

StreamFreezes == ~stream.frozen /\ stream' = [stream EXCEPT !.frozen = TRUE]

\* Slip: a sample that keeps repeating taken for data.
StreamVerdictWithoutFreeze(rateInBand) ==
    IF ~stream.events THEN ERROR ELSE IF rateInBand THEN OK ELSE WARN

StreamVerdict(rateInBand) ==
    IF ~stream.events \/ (stream.havePos /\ stream.frozen) THEN ERROR
    ELSE IF rateInBand THEN OK ELSE WARN

StreamRuns == stream' = [stream EXCEPT !.events = FALSE]
=============================================================================
