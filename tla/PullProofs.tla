----------------------------- MODULE PullProofs -----------------------------
(***************************************************************************)
(* What is proved of the forced pull for any number of streams and any     *)
(* deadlines.  The argument is one of bounds: a sample that shows safety   *)
(* bounds the danger there can have been since, and as long as a trace is  *)
(* unbroken that bound is no older than its last gap.                      *)
(***************************************************************************)
EXTENDS PullProperties, TLAPS

Waiting == {"polling", "dumping", "tail", "stopping"}
Places == Waiting \cup {"idle", "over", "raised"}

TrailType == [n : Nat, first : BOOLEAN, good : BOOLEAN, covers : SUBSET {"start", "end"},
              since : Nat, lag : Nat]

\* The variables of the transaction and of the vehicle have their types.
Types ==
    /\ pull \in [pc : Places, timer : Nat, span : Nat]
    /\ proc \in [Traces -> {"none", "starting", "ready", "dead", "stopped"}]
    /\ ready \subseteq Traces
    /\ trail \in [Streams -> TrailType]
    /\ dump \in {"none", "skipped", "running", "ok", "failed"}
    /\ alive \subseteq Traces
    /\ danger \in [Streams -> BOOLEAN]
    /\ past \in [Streams -> [0..Age -> BOOLEAN]]
    /\ run \in [Streams -> Nat]
    /\ exposed \in BOOLEAN
    /\ flips \in Nat

\* What each place of the collector says of the dump and the processes.
Course ==
    /\ pull.pc = "idle" => \A k \in Traces : proc[k] = "none"
    /\ pull.pc \in {"over", "raised"} => \A k \in Traces : ~Alive(k)
    /\ pull.pc \in {"idle", "polling"} => dump = "none"
    /\ pull.pc = "dumping" <=> dump = "running" /\ pull.pc # "raised"
    /\ pull.pc \in {"tail", "stopping", "over"} => dump \notin {"none", "running"}
    /\ pull.pc = "polling" => pull.timer <= Startup
    /\ pull.pc \in {"idle", "polling"} => exposed = FALSE
    /\ pull.pc = "idle" => \A s \in Streams : trail[s].n = 0

\* A vehicle seen safe i ticks ago has not been in danger for longer.
History ==
    \A s \in Streams : /\ ~danger[s] => run[s] = 0
                       /\ \A i \in 0..Age : ~past[s][i] => run[s] <= i

\* The first sample bounds the danger while the collector polls; the last one
\* bounds it while the trace is unbroken and not overdue.
Bounds ==
    \A s \in Streams :
        /\ s \in ready => trail[s].n > 0
        /\ pull.pc = "polling" /\ trail[s].n > 0 /\ trail[s].first =>
               run[s] <= pull.timer + Age
        /\ trail[s].lag <= Age
        /\ trail[s].since <= SinceCap
        /\ trail[s].good /\ trail[s].n > 0 /\ trail[s].since <= Gap =>
               run[s] <= trail[s].since + trail[s].lag
        /\ "start" \in trail[s].covers => trail[s].n > 0
        /\ "end" \in trail[s].covers => pull.pc \notin {"idle", "polling", "dumping"}

\* A trace the guard will not accept, whatever still arrives.
Broken(t) ==
    \/ ~t.good
    \/ "start" \notin t.covers
    \/ t.since > Gap /\ "end" \notin t.covers

\* Exposure shows in the trace of a stream.
Shows == exposed => \E s \in Streams : Broken(trail[s])

PullInv == Types /\ Course /\ History /\ Bounds /\ Shows

-----------------------------------------------------------------------------
(* Operators.                                                              *)

LEMMA MinOfTwo ==
    ASSUME NEW x \in Int, NEW y \in Int
    PROVE  Min({x, y}) \in {x, y} /\ Min({x, y}) <= x /\ Min({x, y}) <= y
<1>1. \E m \in {x, y} : \A z \in {x, y} : m <= z
  <2>1. CASE x <= y  BY <2>1
  <2>2. CASE y <= x  BY <2>2
  <2> QED BY <2>1, <2>2
<1>2. \A z \in {x, y} : Min({x, y}) <= z
  BY <1>1 DEF Min
<1>3. Min({x, y}) \in {x, y}
  BY <1>1 DEF Min
<1> QED BY <1>2, <1>3

LEMMA MaxOfTwo ==
    ASSUME NEW x \in Int, NEW y \in Int
    PROVE  Max({x, y}) \in {x, y} /\ Max({x, y}) >= x /\ Max({x, y}) >= y
<1>1. \E m \in {x, y} : \A z \in {x, y} : m >= z
  <2>1. CASE x >= y  BY <2>1
  <2>2. CASE y >= x  BY <2>2
  <2> QED BY <2>1, <2>2
<1>2. \A z \in {x, y} : Max({x, y}) >= z
  BY <1>1 DEF Max
<1>3. Max({x, y}) \in {x, y}
  BY <1>1 DEF Max
<1> QED BY <1>2, <1>3

LEMMA Constants ==
    /\ Startup \in Nat /\ PullTimeout \in Nat /\ TailTicks \in Nat /\ Gap \in Nat
    /\ Age \in Nat /\ MinSamples \in Nat /\ MaxFlips \in Nat
    /\ Gap > 0 /\ MinSamples > 0
BY PullConstants

LEMMA Caps ==
    /\ RunCap \in Nat /\ RunCap > 0
    /\ SinceCap \in Nat /\ SinceCap > Gap /\ SinceCap > Age
<1> USE Constants
<1>1. Max({Startup, Gap}) \in Nat /\ Max({Gap, Age}) \in Nat /\ Max({Gap, Age}) >= Gap
      /\ Max({Gap, Age}) >= Age
  <2>1. Max({Startup, Gap}) \in {Startup, Gap}
    BY MaxOfTwo
  <2>2. Max({Gap, Age}) \in {Gap, Age} /\ Max({Gap, Age}) >= Gap /\ Max({Gap, Age}) >= Age
    BY MaxOfTwo
  <2> QED BY <2>1, <2>2
<1> QED BY <1>1 DEF RunCap, SinceCap

\* The guard always asks for a sample, and its demand is a number.
LEMMA Demand ==
    ASSUME NEW span \in Nat
    PROVE  Required(span) \in Nat /\ Required(span) > 0
<1> USE Constants
<1>1. (span + Gap - 1) \div Gap \in Nat
  OBVIOUS
<1> DEFINE d == (span + Gap - 1) \div Gap + 2
<1>2. d \in Nat /\ d > 0
  BY <1>1
<1> HIDE DEF d
<1>3. Max({MinSamples, d}) \in {MinSamples, d}
  BY <1>2, MaxOfTwo
<1>4. Required(span) = Max({MinSamples, d})
  BY DEF Required, d
<1> QED BY <1>2, <1>3, <1>4

\* What a sample makes of a trace.
LEMMA Extends ==
    ASSUME NEW t \in TrailType, NEW isSafe \in BOOLEAN, NEW lag \in 0..(Age + 1),
           t.lag <= Age
    PROVE  LET u == Extended(t, isSafe, lag)
           IN  /\ u \in TrailType
               /\ u.n > 0 /\ u.since = 0 /\ u.lag <= Age
               /\ u.good => isSafe /\ lag <= Age /\ u.lag = lag /\ t.good
               /\ u.good /\ t.n > 0 => t.since <= Gap
               /\ u.covers \subseteq t.covers \cup Phases(pull.pc)
               /\ u.first => IF t.n = 0 THEN isSafe /\ lag <= Age ELSE t.first
<1> USE Constants
<1>1. Required(PullTimeout) \in Nat /\ Required(PullTimeout) > 0
  BY Demand
<1> DEFINE m == Min({t.n + 1, Required(PullTimeout)})
<1>2. m \in Nat /\ m > 0
  <2>1. t.n + 1 \in Nat /\ t.n + 1 > 0
    BY DEF TrailType
  <2> DEFINE a == t.n + 1
             b == Required(PullTimeout)
  <2> HIDE DEF a, b
  <2>0. a \in Int /\ b \in Int
    BY <1>1, <2>1 DEF a, b
  <2>2. Min({a, b}) \in {a, b}
    BY <2>0, MinOfTwo
  <2>3. m \in {t.n + 1, Required(PullTimeout)}
    BY <2>2 DEF a, b
  <2> QED BY <1>1, <2>1, <2>3
<1> HIDE DEF m
<1> DEFINE good == /\ t.good /\ isSafe /\ lag <= Age
                   /\ t.n > 0 => t.since <= Gap /\ lag <= t.since + t.lag
           u == Extended(t, isSafe, lag)
<1>3. /\ u.n = (IF good THEN m ELSE 1)
      /\ u.first = (IF t.n = 0 THEN isSafe /\ lag <= Age ELSE t.first)
      /\ u.good = good
      /\ u.covers = (IF good THEN t.covers \cup Phases(pull.pc) ELSE {})
      /\ u.since = 0
      /\ u.lag = (IF good THEN lag ELSE 0)
  BY DEF Extended, m
<1>4. u = [n |-> u.n, first |-> u.first, good |-> u.good, covers |-> u.covers,
           since |-> u.since, lag |-> u.lag]
  BY DEF Extended
<1> HIDE DEF u
<1>5. u.n \in Nat /\ u.n > 0
  BY <1>2, <1>3
<1>6. u.covers \in SUBSET {"start", "end"} /\ u.covers \subseteq t.covers \cup Phases(pull.pc)
  BY <1>3 DEF Phases, TrailType
<1>7. u.lag \in Nat /\ u.lag <= Age
  BY <1>3
<1>8. u.good \in BOOLEAN /\ u.first \in BOOLEAN
  BY <1>3 DEF TrailType
<1>9. u \in TrailType
  <2>1. u.since \in Nat
    BY <1>3
  <2>2. [n |-> u.n, first |-> u.first, good |-> u.good, covers |-> u.covers,
         since |-> u.since, lag |-> u.lag] \in TrailType
    BY <1>5, <1>6, <1>7, <1>8, <2>1 DEF TrailType
  <2> QED BY <1>4, <2>2
<1>10. /\ u.good => isSafe /\ lag <= Age /\ u.lag = lag /\ t.good
       /\ u.good /\ t.n > 0 => t.since <= Gap
       /\ u.first => IF t.n = 0 THEN isSafe /\ lag <= Age ELSE t.first
  BY <1>3
<1> QED BY <1>3, <1>5, <1>6, <1>7, <1>9, <1>10 DEF u

-----------------------------------------------------------------------------
(* The steps.                                                              *)

LEMMA InitInv == Init => PullInv
<1> SUFFICES ASSUME Init PROVE PullInv
  OBVIOUS
<1> USE Constants, Caps DEF Init, PullInit, VehicleInit, NoTrail
<1>1. run \in [Streams -> Nat] /\ trail \in [Streams -> TrailType]
  BY DEF TrailType
<1>2. Types
  BY <1>1 DEF Types, Places
<1>3. Course
  BY DEF Course, Alive
<1>4. History
  BY DEF History
<1>5. Bounds
  BY DEF Bounds
<1> QED BY <1>2, <1>3, <1>4, <1>5 DEF PullInv, Shows

\* The trace of a stream as a sample makes it, and all that a sample touches.
LEMMA SampleKeeps ==
    ASSUME PullInv, UNCHANGED vehicleVars,
           NEW s \in Streams, NEW lag \in 0..(Age + 1), SampleArrives(s, lag)
    PROVE  PullInv'
<1> USE Constants
<1> DEFINE isSafe == IF lag = 0 THEN ~danger[s] ELSE lag <= Age /\ ~past[s][lag]
           u == Extended(trail[s], isSafe, lag)
<1>1. UNCHANGED <<pull, proc, ready, dump, alive, danger, past, run, exposed, flips>>
  BY DEF SampleArrives, vehicleVars
<1>2. isSafe \in BOOLEAN /\ (isSafe /\ lag <= Age => run[s] <= lag)
  <2>1. lag = 0 \/ (lag \in 0..Age /\ lag # 0) \/ (~(lag <= Age) /\ lag # 0)
    OBVIOUS
  <2>2. CASE lag = 0
    BY <2>2 DEF PullInv, Types, History
  <2>3. CASE lag \in 0..Age /\ lag # 0
    <3>1. isSafe <=> ~past[s][lag]
      BY <2>3
    <3>2. past[s][lag] \in BOOLEAN
      BY <2>3 DEF PullInv, Types
    <3> HIDE DEF isSafe
    <3> QED BY <2>3, <3>1, <3>2 DEF PullInv, History, isSafe
  <2>4. CASE ~(lag <= Age) /\ lag # 0
    BY <2>4
  <2> QED BY <2>1, <2>2, <2>3, <2>4
<1>3. trail[s] \in TrailType /\ trail[s].lag <= Age
  BY DEF PullInv, Types, Bounds
<1>4. trail' = [trail EXCEPT ![s] = u]
  BY DEF SampleArrives
<1> HIDE DEF isSafe
<1>5. /\ u \in TrailType
      /\ u.n > 0 /\ u.since = 0 /\ u.lag <= Age
      /\ u.good => isSafe /\ lag <= Age /\ u.lag = lag /\ trail[s].good
      /\ u.good /\ trail[s].n > 0 => trail[s].since <= Gap
      /\ u.covers \subseteq trail[s].covers \cup Phases(pull.pc)
      /\ u.first => IF trail[s].n = 0 THEN isSafe /\ lag <= Age ELSE trail[s].first
  BY <1>2, <1>3, Extends
<1> HIDE DEF u
<1>6. trail'[s] = u /\ \A r \in Streams : r # s => trail'[r] = trail[r]
  BY <1>4 DEF PullInv, Types
<1>7. Types'
  BY <1>1, <1>4, <1>5 DEF PullInv, Types
<1>8. Course'
  <2>1. pull.pc # "idle"
    BY DEF SampleArrives, PullInv, Course, Traces
  <2> QED BY <1>1, <2>1 DEF PullInv, Course, Alive
<1>9. History'
  BY <1>1 DEF PullInv, History
<1>10. Bounds'
  <2>1. "end" \in u.covers => pull.pc \notin {"idle", "polling", "dumping"}
    BY <1>5 DEF PullInv, Bounds, Phases
  <2>2. pull.pc = "polling" /\ u.first => run[s] <= pull.timer + Age
    <3>1. run[s] \in Nat /\ pull.timer \in Nat /\ trail[s].n \in Nat
      BY <1>3 DEF PullInv, Types, TrailType
    <3>2. CASE trail[s].n = 0
      BY <1>2, <1>5, <3>1, <3>2
    <3>3. CASE trail[s].n > 0
      BY <1>5, <3>1, <3>3 DEF PullInv, Bounds
    <3> QED BY <3>1, <3>2, <3>3
  <2>3. u.good => run[s] <= u.lag
    BY <1>2, <1>5
  <2>4. u.since <= SinceCap
    BY <1>5, Caps
  <2>5. run[s] \in Nat /\ u.lag \in Nat
    BY <1>5 DEF PullInv, Types, TrailType
  <2> QED BY <1>1, <1>5, <1>6, <2>1, <2>2, <2>3, <2>4, <2>5 DEF PullInv, Bounds
<1>11. Shows'
  <2>1. Broken(trail[s]) => Broken(u)
    <3>1. CASE ~trail[s].good
      BY <1>5, <3>1 DEF Broken
    <3>2. CASE "start" \notin trail[s].covers
      BY <1>5, <3>2 DEF Broken, Phases
    <3>3. CASE trail[s].since > Gap /\ "start" \in trail[s].covers
      <4>1. trail[s].n > 0 /\ trail[s].since \in Nat
        BY <1>3, <3>3 DEF PullInv, Bounds, TrailType
      <4> QED BY <1>5, <3>3, <4>1 DEF Broken
    <3> QED BY <3>1, <3>2, <3>3 DEF Broken
  <2> QED BY <1>1, <1>6, <2>1 DEF PullInv, Shows
<1> QED BY <1>7, <1>8, <1>9, <1>10, <1>11 DEF PullInv

\* Connections and deaths touch nothing but the processes.
LEMMA ProcessKeeps ==
    ASSUME PullInv, UNCHANGED vehicleVars,
           NEW k \in Traces, SubscriberConnects(k) \/ SubscriberDies(k)
    PROVE  PullInv'
<1>1. UNCHANGED <<pull, ready, trail, dump, alive, danger, past, run, exposed, flips>>
  BY DEF SubscriberConnects, SubscriberDies, vehicleVars
<1>2. Types'
  BY <1>1 DEF PullInv, Types, SubscriberConnects, SubscriberDies
<1>3. Course'
  <2>1. pull.pc \notin {"idle", "over", "raised"}
    <3>1. proc[k] \in {"starting", "ready"} \/ Alive(k)
      BY DEF SubscriberConnects, SubscriberDies
    <3> QED BY <3>1 DEF PullInv, Course, Alive
  <2> QED BY <1>1, <2>1 DEF PullInv, Course
<1>4. History' /\ Bounds' /\ Shows'
  BY <1>1 DEF PullInv, History, Bounds, Shows
<1> QED BY <1>2, <1>3, <1>4 DEF PullInv

LEMMA FlipKeeps ==
    ASSUME PullInv, UNCHANGED pullVars, pull.pc \in Waiting, NEW s \in Streams, Flip(s)
    PROVE  PullInv'
<1> USE Constants DEF pullVars
<1>1. /\ run'[s] = 0 /\ \A r \in Streams : r # s => run'[r] = run[r] /\ danger'[r] = danger[r]
      /\ UNCHANGED <<past, exposed>>
  BY DEF Flip, PullInv, Types
<1>2. Types'
  BY DEF PullInv, Types, Flip
<1>3. Course'
  BY <1>1 DEF PullInv, Course, Alive
<1>4. History'
  BY <1>1 DEF PullInv, History
<1>5. Bounds'
  <2>1. pull.timer \in Nat /\ trail[s].since \in Nat /\ trail[s].lag \in Nat
    BY DEF PullInv, Types, TrailType
  <2> QED BY <1>1, <2>1 DEF PullInv, Bounds
<1>6. Shows'
  BY <1>1 DEF PullInv, Shows
<1> QED BY <1>2, <1>3, <1>4, <1>5, <1>6 DEF PullInv

\* A tick ages every trace and lengthens the danger; what it lengthens beyond
\* Blind has outlasted a gap of the trace.
LEMMA TickKeeps == ASSUME PullInv, Tick PROVE PullInv'
<1> USE Constants, Caps
<1>1. /\ pull.pc \in Waiting
      /\ pull' = [pull EXCEPT !.timer = @ + 1] /\ pull'.pc = pull.pc
      /\ pull'.timer = pull.timer + 1
      /\ pull.pc = "polling" => pull.timer < Startup
      /\ UNCHANGED <<proc, ready, dump, alive, danger, flips>>
  BY DEF Tick, Patience, Waiting, VehicleTick, PullInv, Types
<1>2. ASSUME NEW s \in Streams
      PROVE  /\ run'[s] \in Nat
             /\ run'[s] <= run[s] + 1
             /\ ~danger[s] => run'[s] = 0
  <2>1. run[s] \in Nat
    BY DEF PullInv, Types
  <2>2. run'[s] = IF danger[s] THEN Min({run[s] + 1, RunCap}) ELSE 0
    BY DEF Tick, VehicleTick
  <2>3. run[s] + 1 \in Int /\ RunCap \in Int
    BY <2>1
  <2>4. Min({run[s] + 1, RunCap}) \in {run[s] + 1, RunCap} /\ Min({run[s] + 1, RunCap}) <= run[s] + 1
    BY <2>3, MinOfTwo
  <2> QED BY <2>1, <2>2, <2>4
<1>3. ASSUME NEW s \in Streams
      PROVE  /\ past'[s] \in [0..Age -> BOOLEAN]
             /\ past'[s][0] = danger[s]
             /\ \A i \in 1..Age : past'[s][i] = past[s][i - 1]
  <2>1. past'[s] = [i \in 0..Age |-> IF i = 0 THEN danger[s] ELSE past[s][i - 1]]
    BY DEF Tick, VehicleTick
  <2>2. \A i \in 0..Age : i # 0 => past[s][i - 1] \in BOOLEAN
    BY DEF PullInv, Types
  <2>3. danger[s] \in BOOLEAN
    BY DEF PullInv, Types
  <2> QED BY <2>1, <2>2, <2>3
<1>4. ASSUME NEW s \in Streams
      PROVE  /\ trail'[s] = [trail[s] EXCEPT !.since = trail'[s].since]
             /\ trail'[s].n = trail[s].n /\ trail'[s].first = trail[s].first
             /\ trail'[s].good = trail[s].good /\ trail'[s].covers = trail[s].covers
             /\ trail'[s].lag = trail[s].lag
             /\ trail'[s].since \in Nat /\ trail'[s].since <= SinceCap
             /\ trail[s].good /\ trail[s].n > 0 =>
                    \/ trail'[s].since = trail[s].since + 1
                    \/ trail'[s].since = SinceCap
  <2>1. trail[s] \in TrailType
    BY DEF PullInv, Types
  <2>2. trail'[s] = [trail[s] EXCEPT !.since = IF trail[s].good /\ trail[s].n > 0
                                               THEN Min({trail[s].since + 1, SinceCap}) ELSE 0]
    BY DEF Tick
  <2>3. trail[s].since + 1 \in Int /\ SinceCap \in Int
    BY <2>1 DEF TrailType
  <2>4. /\ Min({trail[s].since + 1, SinceCap}) \in {trail[s].since + 1, SinceCap}
        /\ Min({trail[s].since + 1, SinceCap}) <= SinceCap
    BY <2>3, MinOfTwo
  <2>5. Min({trail[s].since + 1, SinceCap}) \in Nat
    BY <2>1, <2>4 DEF TrailType
  <2> QED BY <2>1, <2>2, <2>4, <2>5 DEF TrailType
<1>5. Types'
  <2>1. pull' \in [pc : Places, timer : Nat, span : Nat]
    <3>1. pull \in [pc : Places, timer : Nat, span : Nat]
      BY DEF PullInv, Types
    <3>2. pull.timer + 1 \in Nat /\ pull' = [pull EXCEPT !.timer = pull.timer + 1]
      BY <1>1, <3>1
    <3> QED BY <3>1, <3>2
  <2>2. trail' \in [Streams -> TrailType]
    <3>1. \A s \in Streams : trail'[s] \in TrailType
      BY <1>4 DEF PullInv, Types, TrailType
    <3> QED BY <3>1 DEF Tick
  <2>3. run' \in [Streams -> Nat] /\ past' \in [Streams -> [0..Age -> BOOLEAN]]
    BY <1>2, <1>3 DEF Tick, VehicleTick
  <2>4. exposed' \in BOOLEAN
    BY DEF Tick, VehicleTick, PullInv, Types
  <2> QED BY <1>1, <2>1, <2>2, <2>3, <2>4 DEF PullInv, Types
<1>6. Course'
  BY <1>1 DEF PullInv, Course, Alive, Waiting, Tick, VehicleTick, Types
<1>7. History'
  <2> SUFFICES ASSUME NEW s \in Streams
               PROVE  /\ ~danger'[s] => run'[s] = 0
                      /\ \A i \in 0..Age : ~past'[s][i] => run'[s] <= i
    BY DEF History
  <2>1. run[s] \in Nat
    BY DEF PullInv, Types
  <2>2. ~past'[s][0] => run'[s] <= 0
    BY <1>2, <1>3
  <2>3. ASSUME NEW i \in 1..Age, ~past'[s][i] PROVE run'[s] <= i
    <3>1. run[s] <= i - 1
      BY <1>3, <2>3 DEF PullInv, History
    <3> QED BY <1>2, <2>1, <3>1
  <2> QED BY <1>1, <1>2, <2>2, <2>3
<1>8. Bounds'
  <2> SUFFICES ASSUME NEW s \in Streams
               PROVE  /\ s \in ready' => trail'[s].n > 0
                      /\ pull'.pc = "polling" /\ trail'[s].n > 0 /\ trail'[s].first =>
                             run'[s] <= pull'.timer + Age
                      /\ trail'[s].lag <= Age
                      /\ trail'[s].since <= SinceCap
                      /\ trail'[s].good /\ trail'[s].n > 0 /\ trail'[s].since <= Gap =>
                             run'[s] <= trail'[s].since + trail'[s].lag
                      /\ "start" \in trail'[s].covers => trail'[s].n > 0
                      /\ "end" \in trail'[s].covers => pull'.pc \notin {"idle", "polling", "dumping"}
    BY DEF Bounds
  <2>1. run[s] \in Nat /\ pull.timer \in Nat /\ trail[s].since \in Nat /\ trail[s].lag \in Nat
    BY DEF PullInv, Types, TrailType
  <2>2. pull'.pc = "polling" /\ trail'[s].n > 0 /\ trail'[s].first => run'[s] <= pull'.timer + Age
    <3> SUFFICES ASSUME pull'.pc = "polling", trail'[s].n > 0, trail'[s].first
                 PROVE  run'[s] <= pull'.timer + Age
      OBVIOUS
    <3>1. run[s] <= pull.timer + Age
      BY <1>1, <1>4 DEF PullInv, Bounds
    <3> QED BY <1>1, <1>2, <2>1, <3>1
  <2>3. trail'[s].good /\ trail'[s].n > 0 /\ trail'[s].since <= Gap =>
            run'[s] <= trail'[s].since + trail'[s].lag
    <3> SUFFICES ASSUME trail'[s].good, trail'[s].n > 0, trail'[s].since <= Gap
                 PROVE  run'[s] <= trail'[s].since + trail'[s].lag
      OBVIOUS
    <3>0. /\ trail'[s].n = trail[s].n /\ trail'[s].good = trail[s].good
          /\ trail'[s].lag = trail[s].lag
          /\ trail[s].good /\ trail[s].n > 0 =>
                 trail'[s].since = trail[s].since + 1 \/ trail'[s].since = SinceCap
      BY <1>4
    <3>1. trail[s].good /\ trail[s].n > 0 /\ trail'[s].since = trail[s].since + 1
      BY <3>0
    <3>2. trail[s].since <= Gap
      BY <2>1, <3>1
    <3>3. run[s] <= trail[s].since + trail[s].lag
      BY <3>1, <3>2 DEF PullInv, Bounds
    <3> QED BY <1>2, <2>1, <3>0, <3>1, <3>3
  <2> QED BY <1>1, <1>4, <2>2, <2>3 DEF PullInv, Bounds
<1>9. Shows'
  <2> SUFFICES ASSUME exposed' PROVE \E s \in Streams : Broken(trail'[s])
    BY DEF Shows
  <2>1. CASE exposed
    <3>1. PICK s \in Streams : Broken(trail[s])
      BY <2>1 DEF PullInv, Shows
    <3>2. trail[s].since \in Nat /\ trail[s].n \in Nat
      BY DEF PullInv, Types, TrailType
    <3>3. "start" \in trail[s].covers => trail[s].n > 0
      BY DEF PullInv, Bounds
    <3>4. /\ trail'[s].good = trail[s].good /\ trail'[s].covers = trail[s].covers
          /\ trail'[s].since \in Nat
          /\ trail[s].good /\ trail[s].n > 0 =>
                 trail'[s].since = trail[s].since + 1 \/ trail'[s].since = SinceCap
      BY <1>4
    <3>5. Broken(trail'[s])
      BY <3>1, <3>2, <3>3, <3>4 DEF Broken
    <3> QED BY <3>5
  <2>2. CASE ~exposed
    <3>1. PICK s \in Streams : run'[s] > Blind
      BY <2>2 DEF Tick, VehicleTick
    <3>2. pull.pc = "dumping"
      BY <1>1, <2>2 DEF Tick, VehicleTick, PullInv, Course, Waiting
    <3>3. /\ trail'[s].good /\ trail'[s].n > 0 /\ trail'[s].since <= Gap =>
                 run'[s] <= trail'[s].since + trail'[s].lag
          /\ trail'[s].lag <= Age
          /\ "start" \in trail'[s].covers => trail'[s].n > 0
          /\ "end" \notin trail'[s].covers
      BY <1>1, <1>8, <3>2 DEF Bounds
    <3>4. run'[s] \in Nat /\ trail'[s].since \in Nat /\ trail'[s].lag \in Nat
      BY <1>5 DEF Types, TrailType
    <3> QED BY <3>1, <3>3, <3>4 DEF Broken, Blind
  <2> QED BY <2>1, <2>2
<1> QED BY <1>5, <1>6, <1>7, <1>8, <1>9 DEF PullInv

LEMMA GotoIs ==
    ASSUME pull \in [pc : Places, timer : Nat, span : Nat], NEW pc \in Places
    PROVE  /\ Goto(pc) \in [pc : Places, timer : Nat, span : Nat]
           /\ Goto(pc).pc = pc /\ Goto(pc).timer = 0
BY DEF Goto

LEMMA TransactionKeeps == ASSUME PullInv, Transaction PROVE PullInv'
<1> USE Constants DEF vehicleVars
<1>0. /\ UNCHANGED <<danger, past, run, exposed, flips>>
      /\ pull \in [pc : Places, timer : Nat, span : Nat]
  BY DEF Transaction, PullInv, Types
<1>1. CASE Spawn
  <2>1. pull' = Goto("polling") /\ "polling" \in Places
    BY <1>1 DEF Spawn, Places, Waiting
  <2>2. /\ pull.pc = "idle" /\ pull'.pc = "polling" /\ pull'.timer = 0
        /\ pull' \in [pc : Places, timer : Nat, span : Nat]
        /\ UNCHANGED <<ready, trail, dump, alive>>
    BY <1>0, <1>1, <2>1, GotoIs DEF Spawn
  <2>3. Types'
    BY <1>0, <1>1, <2>2 DEF Spawn, PullInv, Types
  <2>4. Course' /\ History' /\ Shows'
    BY <1>0, <2>2 DEF PullInv, Course, History, Shows
  <2>5. Bounds'
    BY <1>0, <2>2 DEF PullInv, Bounds, Course
  <2> QED BY <2>3, <2>4, <2>5 DEF PullInv
<1>2. ASSUME NEW k \in Traces, Look(k) PROVE PullInv'
  <2>1. UNCHANGED <<pull, proc, trail, dump, alive>> /\ ready' = ready \cup {k}
        /\ (k \in Streams => trail[k].n > 0)
    BY <1>2 DEF Look
  <2>2. Types' /\ Course' /\ History' /\ Shows'
    BY <1>0, <2>1 DEF PullInv, Types, Course, History, Shows, Alive
  <2>3. Bounds'
    BY <1>0, <2>1 DEF PullInv, Bounds
  <2> QED BY <2>2, <2>3 DEF PullInv
<1>3. CASE DumpStarts
  <2> DEFINE place == IF TraceReady THEN "dumping" ELSE "tail"
  <2>1. place \in Places /\ pull' = Goto(place)
    BY <1>3 DEF DumpStarts, Places, Waiting
  <2>2. /\ pull.pc = "polling" /\ pull'.pc = place
        /\ pull' \in [pc : Places, timer : Nat, span : Nat]
        /\ UNCHANGED <<proc, ready, alive>>
        /\ dump' = IF TraceReady THEN "running" ELSE "skipped"
    BY <1>0, <1>3, <2>1, GotoIs DEF DumpStarts
  <2>3. ASSUME NEW s \in Streams
        PROVE  /\ trail'[s] \in TrailType
               /\ trail'[s].n = trail[s].n /\ trail'[s].good = trail[s].good
               /\ trail'[s].since = trail[s].since /\ trail'[s].lag = trail[s].lag
               /\ trail'[s].covers = IF trail[s].n > 0 /\ trail[s].good THEN {"start"} ELSE {}
    <3>1. trail'[s] = [trail[s] EXCEPT !.covers = IF trail[s].n > 0 /\ trail[s].good
                                                  THEN {"start"} ELSE {}]
      BY <1>3 DEF DumpStarts
    <3>2. trail[s] \in TrailType
      BY DEF PullInv, Types
    <3> QED BY <3>1, <3>2 DEF TrailType
  <2>4. trail' \in [Streams -> TrailType]
    BY <1>3, <2>3 DEF DumpStarts
  <2>5. Types'
    BY <1>0, <2>2, <2>4 DEF PullInv, Types
  <2>6. Course' /\ History'
    BY <1>0, <2>2 DEF PullInv, Course, History
  <2>7. Bounds'
    BY <1>0, <2>2, <2>3 DEF PullInv, Bounds
  <2>8. Shows'
    BY <1>0, <2>2 DEF PullInv, Course, Shows
  <2> QED BY <2>5, <2>6, <2>7, <2>8 DEF PullInv
<1>4. CASE DumpEnds
  <2>1. pull' = [Goto("tail") EXCEPT !.span = pull.timer] /\ "tail" \in Places
    BY <1>4 DEF DumpEnds, Places, Waiting
  <2>2. /\ pull.pc = "dumping" /\ pull'.pc = "tail"
        /\ pull' \in [pc : Places, timer : Nat, span : Nat]
        /\ UNCHANGED <<proc, ready, trail, alive>>
        /\ dump' \in {"ok", "failed"}
    BY <1>0, <1>4, <2>1, GotoIs DEF DumpEnds
  <2>3. Types' /\ Course' /\ History' /\ Shows'
    BY <1>0, <2>2 DEF PullInv, Types, Course, History, Shows
  <2>4. Bounds'
    BY <1>0, <2>2 DEF PullInv, Bounds
  <2> QED BY <2>3, <2>4 DEF PullInv
<1>5. CASE Stop
  <2>1. pull' = Goto("stopping") /\ "stopping" \in Places
    BY <1>5 DEF Stop, Places, Waiting
  <2>2. /\ pull.pc = "tail" /\ pull'.pc = "stopping"
        /\ pull' \in [pc : Places, timer : Nat, span : Nat]
        /\ UNCHANGED <<proc, ready, trail, dump>> /\ alive' \subseteq Traces
    BY <1>0, <1>5, <2>1, GotoIs DEF Stop
  <2>3. Types' /\ Course' /\ History' /\ Shows'
    BY <1>0, <2>2 DEF PullInv, Types, Course, History, Shows
  <2>4. Bounds'
    BY <1>0, <2>2 DEF PullInv, Bounds
  <2> QED BY <2>3, <2>4 DEF PullInv
<1>6. CASE Reap \/ Unwind
  <2>1. \E pc \in {"over", "raised"} :
            /\ pull' = Goto(pc) /\ pc \in Places
            /\ pc = "over" => pull.pc = "stopping"
    BY <1>6 DEF Reap, Unwind, Places, Waiting
  <2>2. /\ pull'.pc \in {"over", "raised"}
        /\ pull'.pc = "over" => pull.pc = "stopping"
        /\ pull.pc \in Waiting
        /\ pull' \in [pc : Places, timer : Nat, span : Nat]
        /\ UNCHANGED <<ready, trail, dump, alive>>
    BY <1>0, <1>6, <2>1, GotoIs DEF Reap, Unwind, Waiting
  <2>3. \A k \in Traces : proc'[k] = IF Alive(k) THEN "stopped" ELSE proc[k]
    BY <1>6 DEF Reap, Unwind
  <2>4. proc' \in [Traces -> {"none", "starting", "ready", "dead", "stopped"}]
    BY <1>6 DEF Reap, Unwind, PullInv, Types
  <2>5. Types' /\ History' /\ Shows'
    BY <1>0, <2>2, <2>4 DEF PullInv, Types, History, Shows
  <2>6. \A k \in Traces : proc'[k] \notin {"starting", "ready"}
    BY <2>3 DEF Alive
  <2>7. Course'
    BY <1>0, <2>2, <2>6 DEF PullInv, Course, Alive, Waiting
  <2>8. Bounds'
    BY <1>0, <2>2 DEF PullInv, Bounds, Waiting
  <2> QED BY <2>5, <2>7, <2>8 DEF PullInv
<1> QED BY <1>1, <1>2, <1>3, <1>4, <1>5, <1>6 DEF Transaction

LEMMA SubscribersKeep == ASSUME PullInv, Subscribers PROVE PullInv'
<1>1. ASSUME NEW s \in Streams, NEW lag \in 0..(Age + 1), SampleArrives(s, lag) PROVE PullInv'
  BY <1>1, SampleKeeps DEF Subscribers
<1>2. ASSUME NEW k \in Traces, SubscriberConnects(k) \/ SubscriberDies(k) PROVE PullInv'
  BY <1>2, ProcessKeeps DEF Subscribers
<1> QED BY <1>1, <1>2 DEF Subscribers

LEMMA InvStep == ASSUME PullInv, [Next]_vars PROVE PullInv'
<1>1. CASE Vehicle
  <2>1. pull.pc \in Waiting
    BY <1>1 DEF Vehicle, Patience, Waiting
  <2> QED BY <1>1, <2>1, FlipKeeps DEF Vehicle
<1>2. CASE UNCHANGED vars
  BY <1>2 DEF vars, pullVars, vehicleVars, PullInv, Types, Course, Alive, History, Bounds, Shows
<1> QED BY <1>1, <1>2, TransactionKeeps, SubscribersKeep, TickKeeps DEF Next

LEMMA Pulls == Spec => []PullInv
BY InitInv, InvStep, PTL DEF Spec

\* Every variable of the transaction and of the vehicle keeps its type, for any
\* number of traces and any deadlines.
THEOREM PullTypes == Spec => []Types
<1>1. PullInv => Types
  BY DEF PullInv
<1> QED BY <1>1, Pulls, PTL

-----------------------------------------------------------------------------
(* Promises.                                                               *)

\* mavparam is started only beside a vehicle that was seen safe no longer ago
\* than the deadline of the handshake and the age of a sample, although only
\* the first sample of a trace is consulted (_default_pull_transaction).
THEOREM StartsOnRecentSafety == Spec => PullStartsOnRecentSafety
<1>1. ASSUME PullInv, [Next]_vars, dump # "running", dump' = "running",
             NEW s \in Streams
      PROVE  run[s] <= Startup + Age
  <2>1. DumpStarts /\ TraceReady
    <3>1. CASE DumpStarts
      BY <1>1, <3>1 DEF DumpStarts
    <3>2. CASE UNCHANGED dump
      BY <1>1, <3>2
    <3>3. CASE DumpEnds
      BY <1>1, <3>3 DEF DumpEnds
    <3> QED BY <1>1, <3>1, <3>2, <3>3
            DEF Next, Transaction, Subscribers, Vehicle, pullVars, vars, Spawn, Look, Stop, Reap,
                Unwind, Tick, SubscriberConnects, SubscriberDies, SampleArrives
  <2>2. pull.pc = "polling" /\ s \in ready /\ trail[s].first
    BY <2>1 DEF DumpStarts, TraceReady, SafetySampleReady
  <2>3. run[s] <= pull.timer + Age /\ pull.timer <= Startup
    BY <1>1, <2>2 DEF PullInv, Bounds, Course
  <2>4. run[s] \in Nat /\ pull.timer \in Nat
    BY <1>1 DEF PullInv, Types
  <2> QED BY <2>3, <2>4, Constants
<1>2. PullInv /\ [Next]_vars =>
        [dump # "running" /\ dump' = "running" =>
            \A s \in Streams : run[s] <= Startup + Age]_vars
  BY <1>1
<1> QED BY <1>2, Pulls, PTL DEF Spec, PullStartsOnRecentSafety

\* An ended transaction is not looked at again: its verdict stands.
LEMMA OverStays ==
    ASSUME PullInv, [Next]_vars, pull.pc \in {"over", "raised"}
    PROVE  UNCHANGED vars
<1>1. \A k \in Traces : proc[k] \notin {"starting", "ready"}
  BY DEF PullInv, Course, Alive
<1>2. Streams \subseteq Traces
  BY DEF Traces
<1> QED BY <1>1, <1>2 DEF Next, Transaction, Spawn, Look, DumpStarts, DumpEnds, Stop, Reap,
        Unwind, Subscribers, SubscriberConnects, SubscriberDies, SampleArrives, Alive, Tick,
        Vehicle, Patience

LEMMA PromiseStep ==
    ASSUME PullInv, PullInv', [Next]_vars
    PROVE  [Promise!PromiseNext]_<<Stage, dump, exposed, Verdict>>
<1> USE DEF Promise!PromiseNext
<1>1. CASE Spawn /\ UNCHANGED vehicleVars
  BY <1>1 DEF Spawn, Goto, vehicleVars, Promise!Begin, Stage, Verdict, PullInv, Types
<1>2. CASE DumpStarts /\ UNCHANGED vehicleVars
  BY <1>2 DEF DumpStarts, Goto, vehicleVars, Promise!RunOrSkip, Stage, Verdict, PullInv, Types, Course
<1>3. CASE DumpEnds /\ UNCHANGED vehicleVars
  BY <1>3 DEF DumpEnds, Goto, vehicleVars, Promise!EndDump, Stage, Verdict, PullInv, Types, Course
<1>4. CASE Reap /\ UNCHANGED vehicleVars
  <2>1. /\ pull.pc = "stopping" /\ pull'.pc = "over" /\ UNCHANGED <<dump, exposed>>
        /\ dump \notin {"none", "running"}
    BY <1>4 DEF Reap, Goto, vehicleVars, PullInv, Types, Course
  <2>2. Verdict' = "clean" => dump' = "ok" /\ ~exposed'
    <3>1. DuringGuard' => ~exposed'
      BY DEF PullInv, Shows, DuringGuard, StreamGuard, Broken
    <3> QED BY <3>1 DEF Verdict
  <2>3. Stage = "open" /\ Stage' = "over" /\ Verdict' \in {"clean", "unclean"}
    BY <2>1 DEF Stage, Verdict
  <2> QED BY <2>1, <2>2, <2>3 DEF Promise!Return, PullInv, Types, Verdict
<1>5. CASE Unwind /\ UNCHANGED vehicleVars
  BY <1>5 DEF Unwind, Goto, vehicleVars, Promise!RaiseInPull, Stage, Verdict, PullInv, Types
<1>6. CASE Tick
  <2>1. pull.pc \in Waiting /\ pull'.pc = pull.pc /\ dump' = dump
    BY <1>6 DEF Tick, Patience, Waiting, PullInv, Types
  <2>2. Stage = "open" /\ Stage' = "open" /\ Verdict = "none" /\ Verdict' = "none"
    BY <2>1 DEF Stage, Verdict, Waiting
  <2>3. exposed' = exposed \/ (dump = "running" /\ exposed' = TRUE)
    BY <1>6 DEF Tick, VehicleTick, PullInv, Types
  <2> QED BY <2>1, <2>2, <2>3 DEF Promise!Expose
<1>7. CASE UNCHANGED vars
  <2>1. UNCHANGED <<pull, dump, exposed, ready, alive, trail>>
    BY <1>7 DEF vars, pullVars, vehicleVars
  <2>2. UNCHANGED <<Stage, Verdict>>
    BY <2>1 DEF Stage, Verdict, Concurrent, SafetySampleReady, DuringGuard, StreamGuard
  <2> QED BY <2>1, <2>2
<1>8. CASE pull.pc \in {"over", "raised"}
  BY <1>7, <1>8, OverStays
<1>9. CASE /\ pull.pc \notin {"over", "raised"}
           /\ UNCHANGED <<pull, dump, exposed>>
  BY <1>9 DEF Stage, Verdict
<1> QED
  <2>1. CASE Subscribers \/ Vehicle \/ \E k \in Traces : Look(k) /\ UNCHANGED vehicleVars
    <3>1. UNCHANGED <<pull, dump, exposed>>
      BY <2>1 DEF Subscribers, Vehicle, Flip, Look, SubscriberConnects, SubscriberDies,
         SampleArrives, pullVars, vehicleVars
    <3> QED BY <1>8, <1>9, <3>1
  <2>2. CASE Transaction
    <3>1. CASE Stop /\ UNCHANGED vehicleVars
      BY <3>1 DEF Stop, Goto, vehicleVars, Stage, Verdict, PullInv, Types
    <3>2. UNCHANGED vehicleVars
      BY <2>2 DEF Transaction
    <3> QED BY <1>1, <1>2, <1>3, <1>4, <1>5, <2>1, <2>2, <3>1, <3>2 DEF Transaction
  <2> QED BY <1>6, <1>7, <2>1, <2>2 DEF Next

\* The transaction implements its promise, for any number of streams and any
\* deadlines: mavparam runs at most once, and a clean verdict means that it
\* succeeded beside a vehicle that was at no time unsafe for longer than a gap
\* and an age (_default_pull_transaction, _phase_guard).
THEOREM Keeps == Spec => KeepsPromise
<1>1. Init => Promise!PromiseInit
  BY DEF Init, PullInit, VehicleInit, Promise!PromiseInit, Stage, Verdict
<1>2. PullInv /\ PullInv' /\ [Next]_vars => [Promise!PromiseNext]_(Promise!promiseVars)
  BY PromiseStep DEF Promise!promiseVars
<1> QED BY <1>1, <1>2, Pulls, PTL DEF Spec, KeepsPromise, Promise!PromiseSpec
=============================================================================
