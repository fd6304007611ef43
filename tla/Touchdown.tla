----------------------------- MODULE Touchdown -----------------------------
(***************************************************************************)
(* The touchdown detector of the L3 node (src/src/flight_safety/           *)
(* touchdown.py): one update per IMU sample, armed while in_land.          *)
(*                                                                         *)
(* A sample is its stamp and whether it is an impact hit, that is, whether *)
(* its world-vertical force and its rotation rate pass the thresholds.     *)
(* Stamps are integers that never go back.  The list of the hits is only   *)
(* ever filtered and counted, so it is modelled as a set; the number of    *)
(* its sample tells a hit from another one with the same stamp.            *)
(***************************************************************************)
EXTENDS Integers, Sequences, FiniteSets

CONSTANTS
    MinLand,      \* min_land_s
    Confirm,      \* confirm
    Window,       \* window_s
    MaxStamp,     \* bound: the last stamp that occurs
    MaxSamples    \* bound: samples in one descent

ASSUME TouchdownConstants ==
    /\ Confirm \in Nat \ {0}
    /\ {MinLand, Window, MaxStamp, MaxSamples} \subseteq Int

VARIABLES
    landT0,       \* land_t0: <<>> for None, <<t>> once the descent has begun
    hits,         \* hits: the recent hits, each with its stamp
    fired,        \* fired
    now,          \* the stamp of the last sample
    descent       \* history: the samples of this descent

detector == <<landT0, hits, fired>>
vars == <<detector, now, descent>>

Init == /\ landT0 = <<>> /\ hits = {} /\ fired = FALSE
        /\ now = 0 /\ descent = <<>>

\* Outside the descent everything is forgotten.
UpdateIdle ==
    /\ landT0' = <<>> /\ hits' = {} /\ fired' = FALSE
    /\ descent' = <<>>

Began(t) == IF landT0 = <<>> THEN t ELSE landT0[1]
Settling(t) == fired \/ t - Began(t) < MinLand

Noted(t) == hits \cup {[sample |-> Len(descent) + 1, t |-> t]}

\* Slip: the hits of a window that has passed are kept.
RecentForever(t) == Noted(t)

Recent(t) == {h \in Noted(t) : t - h.t <= Window}

UpdateLanding(t, hit) ==
    /\ landT0' = <<Began(t)>>
    /\ hits' = IF hit /\ ~Settling(t) THEN Recent(t) ELSE hits
    /\ fired' = (fired \/ (hit /\ ~Settling(t) /\ Cardinality(Recent(t)) >= Confirm))
    /\ descent' = Append(descent, [t |-> t, hit |-> hit])

\* update(t, vert, gyro_mag, in_land)
Update(t, hit, inLand) ==
    /\ IF inLand THEN Len(descent) < MaxSamples /\ UpdateLanding(t, hit)
                 ELSE UpdateIdle
    /\ now' = t

Next == \E t \in now..MaxStamp, hit \in BOOLEAN, inLand \in BOOLEAN :
          Update(t, hit, inLand)

Spec == Init /\ [][Next]_vars

-----------------------------------------------------------------------------
\* A burst is Confirm hits no further apart than the window, none of them in
\* the entry transient.
Burst(s) ==
    /\ Cardinality(s) = Confirm
    /\ \A i \in s : descent[i].hit /\ descent[i].t - descent[1].t >= MinLand
    /\ \A i, j \in s : descent[i].t - descent[j].t <= Window

\* The touchdown latch is set in a descent exactly when its samples so far
\* contain a burst (touchdown.py:16-19): pruning the hits only when a new one
\* arrives loses none and keeps none too long.
FiresExactlyOnBurst == fired <=> \E s \in SUBSET DOMAIN descent : Burst(s)
=============================================================================
