---------------------------- MODULE ShadowProofs ----------------------------
(***************************************************************************)
(* What is proved of the shadow window for any number of corrections,      *)
(* checks and faults.  Each property has an invariant of its own, over the *)
(* part of the accumulators it is about; all rest on the types.            *)
(***************************************************************************)
EXTENDS ShadowProperties, SequenceTheorems, TLAPS

WorldType ==
    [session : Nat, reset : Nat, sequence : Nat, id : Nat, announced : Nat \cup {None},
     ready : BOOLEAN, count : Nat, pid : Nat, check : Nat, faults : Nat]
IdentityType == [id : Nat, session : Nat, reset : Nat, sequence : Nat]
CheckType == [session : Nat, reset : Nat, sequence : Nat, pid : Nat]
DomainType == [session : Nat, reset : Nat, sequence : Nat, runtime : Nat]
DiagnosticType == [ready : BOOLEAN, count : Nat, afterReady : BOOLEAN, beforeMapping : BOOLEAN]
SeenType ==
    [corrections : Seq(Nat), identities : Seq(IdentityType),
     ready : [first : BOOLEAN, dropped : BOOLEAN, last : BOOLEAN, stable : BOOLEAN],
     diag : [n : Nat, before : Nat, base : Nat, clean : BOOLEAN],
     mapping : [session : Nat \cup {None}, stable : BOOLEAN],
     domain : Seq(DomainType)]
HistType == [atMapping : Nat \cup {None}, sinceMapping : Nat \cup {None},
             clocks : Seq(Nat), lost : SUBSET Nat]

\* At most one message of a topic, and one diagnostic, is under way.
Short(s) == Len(s) <= 1

WireTypes ==
    /\ DOMAIN wire = Topics
    /\ wire["correction"] \in Seq(Nat) /\ Short(wire["correction"])
    /\ wire["identity"] \in Seq(IdentityType) /\ Short(wire["identity"])
    /\ wire["ready"] \in Seq(BOOLEAN) /\ Short(wire["ready"])
    /\ wire["mapping"] \in Seq(Nat) /\ Short(wire["mapping"])
    /\ wire["domain"] \in Seq(CheckType) /\ Short(wire["domain"])

\* The publishers, the topics, the accumulators and the history have their types.
Types ==
    /\ world \in WorldType
    /\ WireTypes
    /\ held \in Seq(DiagnosticType) /\ Short(held)
    /\ seen \in SeenType
    /\ cache \in Nat \cup {None}
    /\ window \in {"open", "duration_complete", "ros_shutdown"}
    /\ hist \in HistType

\* The counter only grows, so the first diagnostic, the mapping and the last
\* diagnostic are in the order of what it said.
Counted ==
    /\ seen.diag.n > 0 => seen.diag.base <= world.count
    /\ seen.diag.before > 0 => seen.diag.n > 0
    /\ seen.mapping.session = None <=> hist.atMapping = None
    /\ hist.atMapping # None => hist.atMapping <= world.count
    /\ hist.atMapping # None /\ seen.diag.before > 0 => seen.diag.base <= hist.atMapping
    /\ hist.sinceMapping # None =>
           /\ hist.atMapping # None /\ hist.atMapping <= hist.sinceMapping
           /\ seen.diag.n > 0 /\ (seen.diag.clean => hist.sinceMapping = seen.diag.base)
    /\ held # <<>> =>
           /\ held[1].count <= world.count
           /\ seen.diag.n > 0 => seen.diag.base <= held[1].count
           /\ held[1].beforeMapping /\ hist.atMapping # None => held[1].count <= hist.atMapping
           /\ ~held[1].beforeMapping =>
                  hist.atMapping # None /\ hist.atMapping <= held[1].count

\* The first check of process p is among those seen up to the n-th.
Begun(p, n) ==
    \E i \in 1..n : hist.clocks[i] = p /\ seen.domain[i].sequence = 1

\* Every process counts its checks from one, so one that lost none of them
\* shows its first before any other.
Shown ==
    /\ Len(hist.clocks) = Len(seen.domain)
    /\ \A i \in DOMAIN hist.clocks :
           /\ hist.clocks[i] <= world.pid
           /\ seen.domain[i].sequence > 0
           /\ hist.clocks[i] \notin hist.lost => Begun(hist.clocks[i], i)

Rising ==
    /\ \A i, j \in DOMAIN hist.clocks : i < j => hist.clocks[i] <= hist.clocks[j]
    /\ \A p \in hist.lost : p <= world.pid

UnderWay ==
    wire["domain"] # <<>> =>
        LET m == wire["domain"][1]
        IN  /\ m.pid <= world.pid /\ m.sequence > 0
            /\ \A i \in DOMAIN hist.clocks : hist.clocks[i] <= m.pid
            /\ m.pid \notin hist.lost => m.sequence = 1 \/ Begun(m.pid, Len(hist.clocks))

Current ==
    world.check > 0 /\ world.pid \notin hist.lost =>
        \/ Begun(world.pid, Len(hist.clocks))
        \/ /\ wire["domain"] # <<>>
           /\ wire["domain"][1].pid = world.pid /\ wire["domain"][1].sequence = 1

Clocks == Shown /\ Rising /\ UnderWay /\ Current

\* In a session the sequence of the identity records runs beside the id, and
\* records without a gap count up from the first.
Beside(r, s) == r.session = s.session => r.id - r.sequence = s.id - s.sequence

Numbered ==
    /\ \A i, j \in DOMAIN seen.identities : Beside(seen.identities[i], seen.identities[j])
    /\ \A i \in DOMAIN seen.identities :
           Beside(seen.identities[i], world) /\ seen.identities[i].session <= world.session
    /\ wire["identity"] # <<>> =>
           /\ \A i \in DOMAIN seen.identities : Beside(seen.identities[i], wire["identity"][1])
           /\ Beside(wire["identity"][1], world) /\ wire["identity"][1].session <= world.session
    /\ Contiguous(seen.identities) =>
           \A i \in DOMAIN seen.identities :
               seen.identities[i].sequence = seen.identities[1].sequence + i - 1

\* What the window looks like as long as nothing has gone wrong.
Calm ==
    /\ world.session = 0 /\ world.reset = 0 /\ world.count = 0 /\ world.pid = 0
    /\ world.sequence = world.id
Corrected ==
    /\ Len(seen.corrections) + Len(wire["correction"]) = world.id
    /\ \A i \in DOMAIN seen.corrections : seen.corrections[i] = i
    /\ wire["correction"] # <<>> => wire["correction"][1] = world.id
Identified ==
    /\ Len(seen.identities) + Len(wire["identity"]) = world.id
    /\ \A i \in DOMAIN seen.identities :
           seen.identities[i] = [id |-> i, session |-> 0, reset |-> 0, sequence |-> i]
    /\ wire["identity"] # <<>> =>
           wire["identity"][1] = [id |-> world.id, session |-> 0, reset |-> 0, sequence |-> world.id]
Compared ==
    /\ Len(seen.domain) + Len(wire["domain"]) = world.check
    /\ \A i \in DOMAIN seen.domain :
           seen.domain[i] = [session |-> 0, reset |-> 0, sequence |-> i, runtime |-> 0]
    /\ wire["domain"] # <<>> =>
           wire["domain"][1] = [session |-> 0, reset |-> 0, sequence |-> world.check, pid |-> 0]
    /\ cache \in {None, 0}
Readied ==
    /\ ~seen.ready.dropped /\ (seen.ready.stable => seen.ready.first)
    /\ seen.ready.first => world.ready /\ wire["ready"] = <<>> /\ seen.ready.last
    /\ world.ready => seen.ready.first \/ (wire["ready"] # <<>> /\ wire["ready"][1])
    /\ wire["ready"] # <<>> /\ wire["ready"][1] => world.ready
Diagnosed ==
    /\ seen.diag.clean /\ seen.diag.base = 0
    /\ held # <<>> => held[1].count = 0 /\ (held[1].afterReady => held[1].ready)
Mapped ==
    /\ seen.mapping.session \in {None, 0}
    /\ seen.mapping.stable => seen.mapping.session = 0 /\ seen.ready.first
    /\ wire["mapping"] # <<>> => wire["mapping"][1] = 0

Undisturbed == Calm /\ Corrected /\ Identified /\ Compared /\ Readied /\ Diagnosed /\ Mapped

QuietSoFar == world.faults = 0 => Undisturbed

-----------------------------------------------------------------------------
(* Topics.                                                                 *)

LEMMA Constants ==
    /\ MinSamples \in Nat /\ MinSamples > 0 /\ MinDiag \in Nat /\ MinDiag > 0
    /\ DiagCap \in Nat /\ DiagCap > 0
BY ShadowConstants DEF DiagCap

LEMMA One ==
    ASSUME NEW T, NEW s \in Seq(T), Short(s), s # <<>>
    PROVE  /\ Len(s) = 1 /\ Head(s) = s[1] /\ s[1] \in T /\ Tail(s) = <<>>
<1>1. Len(s) = 1 /\ s[1] \in T
  BY EmptySeq, ElementOfSeq DEF Short
<1>2. Tail(s) \in Seq(T) /\ Len(Tail(s)) = 0
  BY <1>1, HeadTailProperties
<1>3. Tail(s) = <<>>
  BY <1>2, EmptySeq
<1> QED BY <1>1, <1>3

LEMMA Appended ==
    ASSUME NEW T, NEW s \in Seq(T), NEW m \in T
    PROVE  LET u == Append(s, m)
           IN  /\ u \in Seq(T) /\ u # <<>> /\ Len(u) = Len(s) + 1
               /\ DOMAIN s = 1..Len(s) /\ DOMAIN u = 1..(Len(s) + 1)
               /\ u[Len(s) + 1] = m
               /\ \A i \in 1..Len(s) : u[i] = s[i]
               /\ s = <<>> => Len(u) = 1 /\ Short(u) /\ u[1] = m
<1>1. s = <<>> => Len(s) = 0
  OBVIOUS
<1> QED BY <1>1, AppendProperties, LenProperties DEF Short

\* What an accumulator's append leaves of a sequence's elements.
LEMMA Received ==
    ASSUME DOMAIN wire = Topics, NEW t \in Topics, NEW T, wire[t] \in Seq(T), Short(wire[t]),
           Deliver(t)
    PROVE  /\ Open /\ wire[t] # <<>> /\ Len(wire[t]) = 1
           /\ Message(t) = wire[t][1] /\ wire[t][1] \in T
           /\ DOMAIN wire' = Topics /\ wire'[t] = <<>>
           /\ \A u \in Topics : u # t => wire'[u] = wire[u]
BY One DEF Deliver, Message

LEMMA Published ==
    ASSUME DOMAIN wire = Topics, NEW t \in Topics, NEW T, NEW m \in T, wire[t] = <<>>,
           Publish(t, m)
    PROVE  /\ DOMAIN wire' = Topics /\ wire'[t] \in Seq(T) /\ wire'[t] # <<>>
           /\ Short(wire'[t]) /\ Len(wire'[t]) = 1 /\ wire'[t][1] = m
           /\ \A u \in Topics : u # t => wire'[u] = wire[u]
<1>1. <<>> \in Seq(T) /\ Len(<<>>) = 0
  BY EmptySeq
<1>2. wire'[t] = Append(<<>>, m) /\ DOMAIN wire' = Topics
      /\ \A u \in Topics : u # t => wire'[u] = wire[u]
  BY DEF Publish
<1>3. Append(<<>>, m) \in Seq(T) /\ Append(<<>>, m) # <<>> /\ Len(Append(<<>>, m)) = 1
      /\ Short(Append(<<>>, m)) /\ Append(<<>>, m)[1] = m
  BY <1>1, AppendProperties DEF Short
<1> QED BY <1>2, <1>3
-----------------------------------------------------------------------------
(* Types.                                                                  *)

LEMMA TypeInit == Init => Types
<1> SUFFICES ASSUME Init PROVE Types
  OBVIOUS
<1> USE DEF Init
<1>1. world \in WorldType /\ held \in Seq(DiagnosticType) /\ Short(held)
  BY DEF WorldType, Short, None
<1>2. WireTypes
  <2>1. \A T : <<>> \in Seq(T) /\ Short(<<>>)
    BY EmptySeq DEF Short
  <2>2. <<FALSE>> \in Seq(BOOLEAN) /\ Short(<<FALSE>>)
    BY DEF Short
  <2>3. /\ DOMAIN wire = Topics
        /\ wire["ready"] \in {<<>>, <<FALSE>>}
        /\ \A t \in Topics : t # "ready" => wire[t] = <<>>
    <3>1. PICK first \in {<<>>, <<FALSE>>} :
              wire = [t \in Topics |-> IF t = "ready" THEN first ELSE <<>>]
      OBVIOUS
    <3> QED BY <3>1 DEF Topics
  <2> QED BY <2>1, <2>2, <2>3 DEF WireTypes, Topics
<1>3. seen \in SeenType
  BY DEF SeenType, None
<1>4. hist \in HistType
  BY DEF HistType, None
<1> QED BY <1>1, <1>2, <1>3, <1>4 DEF Types, None

\* Each action below: what it makes of the variables, and that the types stay.
LEMMA CorrectsDoes ==
    ASSUME Types, Corrects
    PROVE  LET m == [id |-> world'.id, session |-> world.session, reset |-> world.reset,
                     sequence |-> world'.sequence]
           IN  /\ Types' /\ UNCHANGED <<held, seen, cache, window, hist>>
               /\ world'.id = world.id + 1 /\ world'.sequence = world.sequence + 1
               /\ world'.session = world.session /\ world'.reset = world.reset
               /\ world'.count = world.count /\ world'.pid = world.pid
               /\ world'.check = world.check /\ world'.faults = world.faults
               /\ world'.ready = world.ready
               /\ wire["correction"] = <<>> /\ wire["identity"] = <<>>
               /\ Len(wire'["correction"]) = 1 /\ wire'["correction"][1] = world'.id
               /\ Len(wire'["identity"]) = 1 /\ wire'["identity"][1] = m
               /\ \A t \in Topics \ {"correction", "identity"} : wire'[t] = wire[t]
<1> DEFINE m == [id |-> world'.id, session |-> world.session, reset |-> world.reset,
                 sequence |-> world'.sequence]
<1>1. UNCHANGED <<held, seen, cache, window, hist>>
  BY DEF Corrects, Outside
<1>2. /\ world' = [world EXCEPT !.id = world.id + 1, !.sequence = world.sequence + 1]
      /\ world \in WorldType
  BY DEF Corrects, Types
<1>3. /\ world' \in WorldType
      /\ world'.id = world.id + 1 /\ world'.sequence = world.sequence + 1
      /\ world'.session = world.session /\ world'.reset = world.reset
      /\ world'.count = world.count /\ world'.pid = world.pid
      /\ world'.check = world.check /\ world'.faults = world.faults
      /\ world'.ready = world.ready
  <2>1. world.id + 1 \in Nat /\ world.sequence + 1 \in Nat
    BY <1>2 DEF WorldType
  <2>2. world' \in WorldType
    BY <1>2, <2>1 DEF WorldType
  <2> QED BY <1>2, <2>2 DEF WorldType
<1>4. world'.id \in Nat /\ m \in IdentityType
  BY <1>2, <1>3 DEF WorldType, IdentityType
<1> HIDE DEF m
<1>5. /\ DOMAIN wire' = Topics
      /\ wire["correction"] = <<>> /\ wire["identity"] = <<>>
      /\ wire'["correction"] = Append(<<>>, world'.id)
      /\ wire'["identity"] = Append(<<>>, m)
      /\ \A t \in Topics \ {"correction", "identity"} : wire'[t] = wire[t]
  BY DEF Corrects, Types, WireTypes, Topics, m
<1>6. /\ Append(<<>>, world'.id) \in Seq(Nat) /\ Len(Append(<<>>, world'.id)) = 1
      /\ Append(<<>>, world'.id)[1] = world'.id
  BY <1>4, EmptySeq, AppendProperties
<1>7. /\ Append(<<>>, m) \in Seq(IdentityType) /\ Len(Append(<<>>, m)) = 1
      /\ Append(<<>>, m)[1] = m
  BY <1>4, EmptySeq, AppendProperties
<1>8. WireTypes'
  BY <1>5, <1>6, <1>7 DEF Types, WireTypes, Topics, Short
<1>9. Types'
  BY <1>1, <1>3, <1>8 DEF Types
<1> QED BY <1>1, <1>3, <1>5, <1>6, <1>7, <1>9 DEF m

LEMMA AnnouncesDoes ==
    ASSUME Types, Announces
    PROVE  /\ Types' /\ UNCHANGED <<held, seen, cache, window, hist>>
           /\ world' = [world EXCEPT !.announced = world.session]
           /\ Len(wire'["mapping"]) = 1 /\ wire'["mapping"][1] = world.session
           /\ \A t \in Topics \ {"mapping"} : wire'[t] = wire[t]
<1>1. /\ UNCHANGED <<held, seen, cache, window, hist>>
      /\ world' = [world EXCEPT !.announced = world.session]
  BY DEF Announces, Outside
<1>2. world' \in WorldType /\ world.session \in Nat
  BY <1>1 DEF Types, WorldType
<1>3. /\ DOMAIN wire' = Topics /\ wire'["mapping"] \in Seq(Nat)
      /\ Short(wire'["mapping"]) /\ Len(wire'["mapping"]) = 1 /\ wire'["mapping"][1] = world.session
      /\ \A t \in Topics : t # "mapping" => wire'[t] = wire[t]
  <2>1. DOMAIN wire = Topics /\ "mapping" \in Topics /\ wire["mapping"] = <<>>
        /\ Publish("mapping", world.session)
    BY DEF Announces, Types, WireTypes, Topics
  <2> QED BY <1>2, <2>1, Published
<1>4. WireTypes'
  BY <1>3 DEF Types, WireTypes, Topics
<1>5. Types'
  BY <1>1, <1>2, <1>4 DEF Types
<1> QED BY <1>1, <1>3, <1>5

LEMMA SaysReadyDoes ==
    ASSUME Types, NEW ready \in BOOLEAN, SaysReady(ready)
    PROVE  /\ Types' /\ UNCHANGED <<held, seen, cache, window, hist>>
           /\ world' = [world EXCEPT !.ready = ready,
                                     !.faults = IF ready THEN world.faults ELSE world.faults + 1]
           /\ wire["ready"] = <<>>
           /\ Len(wire'["ready"]) = 1 /\ wire'["ready"][1] = ready
           /\ \A t \in Topics \ {"ready"} : wire'[t] = wire[t]
<1>1. /\ UNCHANGED <<held, seen, cache, window, hist>>
      /\ world' = [world EXCEPT !.ready = ready,
                                !.faults = IF ready THEN world.faults ELSE world.faults + 1]
      /\ wire["ready"] = <<>>
  BY DEF SaysReady, Outside
<1>2. world' \in WorldType
  <2>1. (IF ready THEN world.faults ELSE world.faults + 1) \in Nat /\ world \in WorldType
    BY DEF Types, WorldType
  <2> QED BY <1>1, <2>1 DEF WorldType
<1>3. /\ DOMAIN wire' = Topics /\ wire'["ready"] \in Seq(BOOLEAN)
      /\ Short(wire'["ready"]) /\ Len(wire'["ready"]) = 1 /\ wire'["ready"][1] = ready
      /\ \A t \in Topics : t # "ready" => wire'[t] = wire[t]
  <2>1. DOMAIN wire = Topics /\ "ready" \in Topics /\ Publish("ready", ready)
    BY DEF SaysReady, Types, WireTypes, Topics
  <2> QED BY <1>1, <2>1, Published
<1>4. WireTypes'
  BY <1>3 DEF Types, WireTypes, Topics
<1>5. Types'
  BY <1>1, <1>2, <1>4 DEF Types
<1> QED BY <1>1, <1>3, <1>5

LEMMA ComparesDoes ==
    ASSUME Types, Compares
    PROVE  LET m == [session |-> world.session, reset |-> world.reset,
                     sequence |-> world'.check, pid |-> world.pid]
           IN  /\ Types' /\ UNCHANGED <<held, seen, cache, window, hist>>
               /\ world' = [world EXCEPT !.check = world.check + 1]
               /\ world'.check = world.check + 1
               /\ wire["domain"] = <<>>
               /\ Len(wire'["domain"]) = 1 /\ wire'["domain"][1] = m
               /\ \A t \in Topics \ {"domain"} : wire'[t] = wire[t]
<1> DEFINE m == [session |-> world.session, reset |-> world.reset,
                 sequence |-> world'.check, pid |-> world.pid]
<1>1. /\ UNCHANGED <<held, seen, cache, window, hist>>
      /\ world' = [world EXCEPT !.check = world.check + 1]
      /\ wire["domain"] = <<>>
  BY DEF Compares, Outside
<1>2. world' \in WorldType /\ world'.check = world.check + 1 /\ m \in CheckType
  BY SMTT(30), <1>1 DEF Types, WorldType, CheckType
<1>3. Publish("domain", m)
  BY DEF Compares
<1> HIDE DEF m
<1>4. /\ DOMAIN wire' = Topics /\ wire'["domain"] \in Seq(CheckType)
      /\ Short(wire'["domain"]) /\ Len(wire'["domain"]) = 1 /\ wire'["domain"][1] = m
      /\ \A t \in Topics : t # "domain" => wire'[t] = wire[t]
  <2>1. DOMAIN wire = Topics /\ "domain" \in Topics
    BY DEF Types, WireTypes, Topics
  <2> QED BY <1>1, <1>2, <1>3, <2>1, Published
<1>5. WireTypes'
  BY <1>4 DEF Types, WireTypes, Topics
<1>6. Types'
  BY <1>1, <1>2, <1>5 DEF Types
<1> QED BY <1>1, <1>2, <1>4, <1>6 DEF m

LEMMA FaultsDoes ==
    ASSUME Types, Faults
    PROVE  /\ Types' /\ UNCHANGED <<wire, held, seen, cache, window, hist>>
           /\ world'.faults = world.faults + 1
           /\ \/ world' = [world EXCEPT !.faults = @ + 1, !.reset = @ + 1]
              \/ world' = [world EXCEPT !.faults = @ + 1, !.session = @ + 1, !.reset = 0, !.sequence = 0]
              \/ world' = [world EXCEPT !.faults = @ + 1, !.count = @ + 1]
              \/ world' = [world EXCEPT !.faults = @ + 1, !.pid = @ + 1, !.check = 0]
<1>1. world' \in WorldType /\ world'.faults = world.faults + 1
  <2>1. /\ world \in WorldType
        /\ \A f \in {"reset", "session", "count", "pid", "faults"} : world[f] + 1 \in Nat
    BY SMTT(30) DEF Types, WorldType
  <2>2. CASE world' = [world EXCEPT !.faults = @ + 1, !.reset = @ + 1]
    BY <2>1, <2>2 DEF WorldType
  <2>3. CASE world' = [world EXCEPT !.faults = @ + 1, !.session = @ + 1, !.reset = 0, !.sequence = 0]
    BY <2>1, <2>3 DEF WorldType
  <2>4. CASE world' = [world EXCEPT !.faults = @ + 1, !.count = @ + 1]
    BY <2>1, <2>4 DEF WorldType
  <2>5. CASE world' = [world EXCEPT !.faults = @ + 1, !.pid = @ + 1, !.check = 0]
    BY <2>1, <2>5 DEF WorldType
  <2> QED BY <2>2, <2>3, <2>4, <2>5 DEF Faults
<1> QED BY <1>1 DEF Faults, Outside, Types, WireTypes

LEMMA LosesDoes ==
    ASSUME Types, NEW t \in Topics, Loses(t)
    PROVE  /\ Types' /\ UNCHANGED <<held, seen, cache, window>>
           /\ world' = [world EXCEPT !.faults = world.faults + 1]
           /\ wire[t] # <<>> /\ wire'[t] = <<>> /\ Len(wire'[t]) = 0
           /\ \A u \in Topics : u # t => wire'[u] = wire[u]
           /\ hist' = IF t = "domain" THEN [hist EXCEPT !.lost = @ \cup {wire[t][1].pid}] ELSE hist
           /\ t = "domain" => wire[t][1] \in CheckType
<1>1. /\ UNCHANGED <<held, seen, cache, window>>
      /\ world' = [world EXCEPT !.faults = world.faults + 1]
      /\ wire[t] # <<>> /\ DOMAIN wire' = Topics
      /\ wire'[t] = Tail(wire[t]) /\ \A u \in Topics : u # t => wire'[u] = wire[u]
      /\ hist' = IF t = "domain" THEN [hist EXCEPT !.lost = @ \cup {Head(wire[t]).pid}] ELSE hist
  BY DEF Loses, Types, WireTypes
<1>2. /\ Tail(wire[t]) = <<>> /\ Head(wire[t]) = wire[t][1]
      /\ t = "domain" => wire[t][1] \in CheckType
  BY <1>1, One DEF Types, WireTypes, Topics
<1>3. world' \in WorldType
  BY SMTT(30), <1>1 DEF Types, WorldType
<1>4. hist' \in HistType
  BY <1>1, <1>2 DEF Types, HistType, CheckType
<1>5. WireTypes'
  <2>1. \A T : <<>> \in Seq(T) /\ Short(<<>>)
    BY EmptySeq DEF Short
  <2> QED BY <1>1, <1>2, <2>1 DEF Types, WireTypes, Topics
<1>6. Types'
  BY <1>1, <1>3, <1>4, <1>5 DEF Types
<1>7. hist' = IF t = "domain" THEN [hist EXCEPT !.lost = @ \cup {wire[t][1].pid}] ELSE hist
  BY <1>1, <1>2
<1>8. Len(wire'[t]) = 0
  BY <1>1, <1>2, EmptySeq
<1> QED BY <1>1, <1>2, <1>6, <1>7, <1>8

LEMMA StreamDoes ==
    ASSUME Types, StreamCallback
    PROVE  /\ Types' /\ UNCHANGED <<world, held, cache, window, hist>>
           /\ Len(wire["correction"]) = 1 /\ wire'["correction"] = <<>>
           /\ \A t \in Topics \ {"correction"} : wire'[t] = wire[t]
           /\ seen' = [seen EXCEPT !.corrections = Append(seen.corrections, wire["correction"][1])]
           /\ Len(seen'.corrections) = Len(seen.corrections) + 1
           /\ seen'.corrections[Len(seen.corrections) + 1] = wire["correction"][1]
           /\ \A i \in DOMAIN seen.corrections : seen'.corrections[i] = seen.corrections[i]
<1> DEFINE m == wire["correction"][1]
<1>1. UNCHANGED <<world, held, cache, window, hist>> /\ Deliver("correction")
      /\ seen' = [seen EXCEPT !.corrections = Append(seen.corrections, Message("correction"))]
  BY DEF StreamCallback
<1>2. /\ Len(wire["correction"]) = 1 /\ Message("correction") = m /\ m \in Nat
      /\ DOMAIN wire' = Topics /\ wire'["correction"] = <<>>
      /\ \A u \in Topics : u # "correction" => wire'[u] = wire[u]
  <2>1. DOMAIN wire = Topics /\ "correction" \in Topics /\ wire["correction"] \in Seq(Nat)
        /\ Short(wire["correction"])
    BY DEF Types, WireTypes, Topics
  <2> QED BY <1>1, <2>1, Received
<1>3. seen.corrections \in Seq(Nat) /\ seen \in SeenType
  BY DEF Types, SeenType
<1> HIDE DEF m
<1>4. LET u == Append(seen.corrections, m)
      IN  /\ u \in Seq(Nat) /\ Len(u) = Len(seen.corrections) + 1
          /\ u[Len(seen.corrections) + 1] = m
          /\ \A i \in DOMAIN seen.corrections : u[i] = seen.corrections[i]
  BY <1>2, <1>3, Appended
<1>5. seen' \in SeenType /\ seen'.corrections = Append(seen.corrections, m)
  BY <1>1, <1>2, <1>3, <1>4 DEF SeenType
<1>6. WireTypes'
  BY <1>2, EmptySeq DEF Types, WireTypes, Topics, Short
<1>7. Types'
  BY <1>1, <1>5, <1>6 DEF Types
<1> QED BY <1>1, <1>2, <1>4, <1>5, <1>7 DEF m

LEMMA IdentityDoes ==
    ASSUME Types, IdentityCallback
    PROVE  /\ Types' /\ UNCHANGED <<world, held, cache, window, hist>>
           /\ Len(wire["identity"]) = 1 /\ wire["identity"] # <<>> /\ wire'["identity"] = <<>>
           /\ wire["identity"][1] \in IdentityType
           /\ \A t \in Topics \ {"identity"} : wire'[t] = wire[t]
           /\ seen' = [seen EXCEPT !.identities = Append(seen.identities, wire["identity"][1])]
           /\ Len(seen'.identities) = Len(seen.identities) + 1
           /\ seen'.identities[Len(seen.identities) + 1] = wire["identity"][1]
           /\ \A i \in DOMAIN seen.identities : seen'.identities[i] = seen.identities[i]
<1> DEFINE m == wire["identity"][1]
<1>1. UNCHANGED <<world, held, cache, window, hist>> /\ Deliver("identity")
      /\ seen' = [seen EXCEPT !.identities = Append(seen.identities, Message("identity"))]
  BY DEF IdentityCallback
<1>2. /\ wire["identity"] # <<>> /\ Len(wire["identity"]) = 1
      /\ Message("identity") = m /\ m \in IdentityType
      /\ DOMAIN wire' = Topics /\ wire'["identity"] = <<>>
      /\ \A u \in Topics : u # "identity" => wire'[u] = wire[u]
  <2>1. DOMAIN wire = Topics /\ "identity" \in Topics /\ wire["identity"] \in Seq(IdentityType)
        /\ Short(wire["identity"])
    BY DEF Types, WireTypes, Topics
  <2> QED BY <1>1, <2>1, Received
<1>3. seen.identities \in Seq(IdentityType) /\ seen \in SeenType
  BY DEF Types, SeenType
<1> HIDE DEF m
<1>4. LET u == Append(seen.identities, m)
      IN  /\ u \in Seq(IdentityType) /\ Len(u) = Len(seen.identities) + 1
          /\ u[Len(seen.identities) + 1] = m
          /\ \A i \in DOMAIN seen.identities : u[i] = seen.identities[i]
  BY <1>2, <1>3, Appended
<1>5. seen' \in SeenType /\ seen'.identities = Append(seen.identities, m)
  BY <1>1, <1>2, <1>3, <1>4 DEF SeenType
<1>6. WireTypes'
  BY <1>2, EmptySeq DEF Types, WireTypes, Topics, Short
<1>7. Types'
  BY <1>1, <1>5, <1>6 DEF Types
<1> QED BY <1>1, <1>2, <1>4, <1>5, <1>7 DEF m

LEMMA ReadyDoes ==
    ASSUME Types, ReadyCallback
    PROVE  LET ready == wire["ready"][1]
           IN  /\ Types' /\ UNCHANGED <<world, held, cache, window, hist>>
               /\ ready \in BOOLEAN
               /\ wire["ready"] # <<>> /\ wire'["ready"] = <<>>
               /\ \A t \in Topics \ {"ready"} : wire'[t] = wire[t]
               /\ seen' = [seen EXCEPT !.ready = seen'.ready]
               /\ seen'.ready.first <=> seen.ready.first \/ ready
               /\ seen'.ready.dropped <=> seen.ready.dropped \/ (seen.ready.first /\ ~ready)
               /\ seen'.ready.last <=> ready
               /\ seen'.ready.stable <=> seen.ready.stable
<1> DEFINE m == wire["ready"][1]
<1>1. UNCHANGED <<world, held, cache, window, hist>> /\ Deliver("ready")
  BY DEF ReadyCallback
<1>2. /\ wire["ready"] # <<>> /\ Message("ready") = m /\ m \in BOOLEAN
      /\ DOMAIN wire' = Topics /\ wire'["ready"] = <<>>
      /\ \A u \in Topics : u # "ready" => wire'[u] = wire[u]
  <2>1. DOMAIN wire = Topics /\ "ready" \in Topics /\ wire["ready"] \in Seq(BOOLEAN)
        /\ Short(wire["ready"])
    BY DEF Types, WireTypes, Topics
  <2> QED BY <1>1, <2>1, Received
<1>3. seen \in SeenType
  BY DEF Types
<1> HIDE DEF m
<1> DEFINE f == seen.ready.first \/ Message("ready")
           d == seen.ready.dropped \/ (seen.ready.first /\ ~Message("ready"))
           r == [first |-> f, dropped |-> d, last |-> Message("ready"), stable |-> seen.ready.stable]
<1>4. seen' = [seen EXCEPT !.ready = r]
  BY DEF ReadyCallback
<1>5. /\ r \in [first : BOOLEAN, dropped : BOOLEAN, last : BOOLEAN, stable : BOOLEAN]
      /\ r.first <=> seen.ready.first \/ m
      /\ r.dropped <=> seen.ready.dropped \/ (seen.ready.first /\ ~m)
      /\ r.last <=> m
      /\ r.stable <=> seen.ready.stable
  <2>1. seen.ready.stable \in BOOLEAN /\ Message("ready") = m
    BY <1>2, <1>3 DEF SeenType
  <2>2. /\ f \in BOOLEAN /\ d \in BOOLEAN
        /\ f <=> seen.ready.first \/ m
        /\ d <=> seen.ready.dropped \/ (seen.ready.first /\ ~m)
    BY <2>1
  <2> HIDE DEF f, d
  <2> QED BY <1>2, <2>1, <2>2
<1> HIDE DEF r, f, d
<1>6. seen' \in SeenType /\ seen'.ready = r /\ seen' = [seen EXCEPT !.ready = seen'.ready]
  BY <1>3, <1>4, <1>5 DEF SeenType
<1>7. WireTypes'
  BY <1>2, EmptySeq DEF Types, WireTypes, Topics, Short
<1>8. Types'
  BY <1>1, <1>6, <1>7 DEF Types
<1> QED BY <1>1, <1>2, <1>5, <1>6, <1>8 DEF m

LEMMA StableDoes ==
    ASSUME Types, ReadyIsStable
    PROVE  /\ Types' /\ UNCHANGED <<world, wire, held, cache, window, hist>>
           /\ seen.ready.first
           /\ seen' = [seen EXCEPT !.ready = seen'.ready]
           /\ seen'.ready = [seen.ready EXCEPT !.stable = TRUE]
<1>1. /\ seen' = [seen EXCEPT !.ready.stable = TRUE] /\ seen \in SeenType
      /\ UNCHANGED <<world, wire, held, cache, window, hist>> /\ seen.ready.first
  BY DEF ReadyIsStable, Types
<1>2. seen' = [seen EXCEPT !.ready = [seen.ready EXCEPT !.stable = TRUE]]
  BY <1>1
<1>3. [seen.ready EXCEPT !.stable = TRUE]
        \in [first : BOOLEAN, dropped : BOOLEAN, last : BOOLEAN, stable : BOOLEAN]
  BY <1>1 DEF SeenType
<1>4. seen' \in SeenType /\ seen'.ready = [seen.ready EXCEPT !.stable = TRUE]
  BY <1>1, <1>2, <1>3 DEF SeenType
<1> QED BY <1>1, <1>2, <1>4 DEF Types, WireTypes

LEMMA ArrivesDoes ==
    ASSUME Types, DiagnosticArrives
    PROVE  /\ Types' /\ UNCHANGED <<world, wire, seen, cache, window, hist>>
           /\ held = <<>> /\ held' # <<>>
           /\ held'[1].ready = world.ready /\ held'[1].count = world.count
           /\ held'[1].afterReady = seen.ready.first
           /\ held'[1].beforeMapping <=> seen.mapping.session = None
<1> DEFINE d == [ready |-> world.ready, count |-> world.count, afterReady |-> seen.ready.first,
                 beforeMapping |-> seen.mapping.session = None]
<1>1. held' = <<d>> /\ held = <<>> /\ UNCHANGED <<world, wire, seen, cache, window, hist>>
  BY DEF DiagnosticArrives
<1>2. d \in DiagnosticType
  BY DEF Types, WorldType, SeenType, DiagnosticType
<1>3. /\ d.ready = world.ready /\ d.count = world.count /\ d.afterReady = seen.ready.first
      /\ d.beforeMapping <=> seen.mapping.session = None
  OBVIOUS
<1> HIDE DEF d
<1>4. held' \in Seq(DiagnosticType) /\ Short(held') /\ held' # <<>> /\ held'[1] = d
  BY <1>1, <1>2 DEF Short
<1> QED BY <1>1, <1>3, <1>4 DEF Types, WireTypes

LEMMA RecordedDoes ==
    ASSUME Types, DiagnosticRecorded
    PROVE  LET d == held[1]
               base == IF seen.diag.n = 0 THEN d.count ELSE seen.diag.base
           IN  /\ Types' /\ UNCHANGED <<world, wire, cache, window>>
               /\ held # <<>> /\ held' = <<>> /\ d \in DiagnosticType
               /\ ~d.afterReady => UNCHANGED <<seen, hist>>
               /\ d.afterReady =>
                    /\ seen' = [seen EXCEPT !.diag = seen'.diag]
                    /\ seen'.diag.n > 0 /\ seen'.diag.base = base
                    /\ seen'.diag.before > 0 => seen.diag.before > 0 \/ d.beforeMapping
                    /\ seen'.diag.clean <=> seen.diag.clean /\ d.ready /\ d.count = base
                    /\ hist' = [hist EXCEPT !.sinceMapping = IF d.beforeMapping THEN None ELSE d.count]
<1> DEFINE d == held[1]
           base == IF seen.diag.n = 0 THEN d.count ELSE seen.diag.base
           n == IF seen.diag.n < DiagCap THEN seen.diag.n + 1 ELSE seen.diag.n
           before == IF d.beforeMapping /\ seen.diag.before < MinDiag
                     THEN seen.diag.before + 1 ELSE seen.diag.before
           clean == seen.diag.clean /\ d.ready /\ d.count = base
           g == [n |-> n, before |-> before, base |-> base, clean |-> clean]
           since == IF d.beforeMapping THEN None ELSE d.count
<1>1. UNCHANGED <<world, wire, cache, window>> /\ held # <<>> /\ held' = <<>>
  BY DEF DiagnosticRecorded
<1>2. Head(held) = d /\ d \in DiagnosticType
  BY <1>1, One DEF Types
<1>3. /\ ~d.afterReady => UNCHANGED <<seen, hist>>
      /\ d.afterReady => /\ seen' = [seen EXCEPT !.diag = g]
                         /\ hist' = [hist EXCEPT !.sinceMapping = since]
  BY <1>2 DEF DiagnosticRecorded
<1>4. /\ base \in Nat /\ n \in Nat /\ n > 0 /\ before \in Nat /\ clean \in BOOLEAN
      /\ before > 0 => seen.diag.before > 0 \/ d.beforeMapping
      /\ since \in Nat \cup {None}
  <2>1. seen.diag \in [n : Nat, before : Nat, base : Nat, clean : BOOLEAN]
    BY DEF Types, SeenType
  <2>2. d.count \in Nat
    BY <1>2 DEF DiagnosticType
  <2> HIDE DEF d
  <2> QED BY <2>1, <2>2, Constants
<1> HIDE DEF base, n, before, clean, since, d
<1>5. g \in [n : Nat, before : Nat, base : Nat, clean : BOOLEAN]
      /\ g.n = n /\ g.before = before /\ g.base = base /\ (g.clean <=> clean)
  BY <1>4
<1> HIDE DEF g
<1>6. ASSUME d.afterReady
      PROVE  /\ seen' \in SeenType /\ seen'.diag = g /\ seen' = [seen EXCEPT !.diag = seen'.diag]
             /\ hist' \in HistType
  BY <1>3, <1>4, <1>5, <1>6 DEF Types, SeenType, HistType
<1>7. held' \in Seq(DiagnosticType) /\ Short(held')
  BY <1>1, EmptySeq DEF Short
<1>8. Types'
  BY <1>1, <1>3, <1>6, <1>7 DEF Types, WireTypes
<1>9. d.afterReady =>
          /\ seen' = [seen EXCEPT !.diag = seen'.diag]
          /\ seen'.diag.n > 0 /\ seen'.diag.base = base
          /\ seen'.diag.before > 0 => seen.diag.before > 0 \/ d.beforeMapping
          /\ seen'.diag.clean <=> clean
          /\ hist' = [hist EXCEPT !.sinceMapping = since]
  BY <1>3, <1>4, <1>5, <1>6
<1> QED BY <1>1, <1>2, <1>3, <1>8, <1>9 DEF d, base, clean, since

LEMMA MappingDoes ==
    ASSUME Types, MappingCallback
    PROVE  /\ Types' /\ UNCHANGED <<world, held, cache, window>>
           /\ wire["mapping"] # <<>> /\ wire'["mapping"] = <<>> /\ wire["mapping"][1] \in Nat
           /\ \A t \in Topics \ {"mapping"} : wire'[t] = wire[t]
           /\ seen.mapping.session # None => UNCHANGED <<seen, hist>>
           /\ seen.mapping.session = None =>
                /\ seen' = [seen EXCEPT !.mapping = seen'.mapping]
                /\ seen'.mapping = [session |-> wire["mapping"][1], stable |-> seen.ready.stable]
                /\ hist' = [hist EXCEPT !.atMapping = world.count]
<1> DEFINE m == wire["mapping"][1]
<1>1. /\ UNCHANGED <<world, held, cache, window>> /\ Deliver("mapping")
      /\ seen.mapping.session # None => UNCHANGED <<seen, hist>>
      /\ seen.mapping.session = None =>
           /\ seen' = [seen EXCEPT !.mapping = [session |-> Message("mapping"),
                                                stable |-> seen.ready.stable]]
           /\ hist' = [hist EXCEPT !.atMapping = world.count]
  BY DEF MappingCallback
<1>2. /\ wire["mapping"] # <<>> /\ Message("mapping") = m /\ m \in Nat
      /\ DOMAIN wire' = Topics /\ wire'["mapping"] = <<>>
      /\ \A u \in Topics : u # "mapping" => wire'[u] = wire[u]
  <2>1. DOMAIN wire = Topics /\ "mapping" \in Topics /\ wire["mapping"] \in Seq(Nat)
        /\ Short(wire["mapping"])
    BY DEF Types, WireTypes, Topics
  <2> QED BY <1>1, <2>1, Received
<1> HIDE DEF m
<1>3. ASSUME seen.mapping.session = None
      PROVE  /\ seen' \in SeenType /\ hist' \in HistType
             /\ seen' = [seen EXCEPT !.mapping = seen'.mapping]
             /\ seen'.mapping = [session |-> m, stable |-> seen.ready.stable]
             /\ hist' = [hist EXCEPT !.atMapping = world.count]
  <2>1. /\ seen' = [seen EXCEPT !.mapping = [session |-> m, stable |-> seen.ready.stable]]
        /\ hist' = [hist EXCEPT !.atMapping = world.count]
    BY <1>1, <1>2, <1>3
  <2>2. [session |-> m, stable |-> seen.ready.stable] \in [session : Nat \cup {None}, stable : BOOLEAN]
    BY <1>2 DEF Types, SeenType
  <2>3. seen \in SeenType /\ hist \in HistType /\ world.count \in Nat
    BY DEF Types, WorldType
  <2> QED BY <2>1, <2>2, <2>3 DEF SeenType, HistType
<1>4. WireTypes'
  BY <1>2, EmptySeq DEF Types, WireTypes, Topics, Short
<1>5. Types'
  BY <1>1, <1>3, <1>4 DEF Types
<1> QED BY <1>1, <1>2, <1>3, <1>5 DEF m

LEMMA DomainDoes ==
    ASSUME Types, DomainCallback
    PROVE  LET m == wire["domain"][1]
           IN  /\ Types' /\ UNCHANGED <<world, held, window>>
               /\ wire["domain"] # <<>> /\ Len(wire["domain"]) = 1 /\ wire'["domain"] = <<>>
               /\ m \in CheckType
               /\ \A t \in Topics \ {"domain"} : wire'[t] = wire[t]
               /\ cache' = IF cache = None THEN world.pid ELSE cache
               /\ seen' = [seen EXCEPT !.domain = seen'.domain]
               /\ Len(seen'.domain) = Len(seen.domain) + 1
               /\ seen'.domain[Len(seen.domain) + 1] =
                      [session |-> m.session, reset |-> m.reset, sequence |-> m.sequence,
                       runtime |-> cache']
               /\ \A i \in DOMAIN seen.domain : seen'.domain[i] = seen.domain[i]
               /\ hist' = [hist EXCEPT !.clocks = hist'.clocks]
               /\ Len(hist'.clocks) = Len(hist.clocks) + 1
               /\ hist'.clocks[Len(hist.clocks) + 1] = m.pid
               /\ \A i \in DOMAIN hist.clocks : hist'.clocks[i] = hist.clocks[i]
<1> DEFINE m == wire["domain"][1]
           e == [session |-> m.session, reset |-> m.reset, sequence |-> m.sequence,
                 runtime |-> cache']
<1>1. /\ UNCHANGED <<world, held, window>> /\ Deliver("domain")
      /\ cache' = IF cache = None THEN world.pid ELSE cache
  BY DEF DomainCallback
<1>2. /\ wire["domain"] # <<>> /\ Len(wire["domain"]) = 1
      /\ Message("domain") = m /\ m \in CheckType
      /\ DOMAIN wire' = Topics /\ wire'["domain"] = <<>>
      /\ \A u \in Topics : u # "domain" => wire'[u] = wire[u]
  <2>1. DOMAIN wire = Topics /\ "domain" \in Topics /\ wire["domain"] \in Seq(CheckType)
        /\ Short(wire["domain"])
    BY DEF Types, WireTypes, Topics
  <2> QED BY <1>1, <2>1, Received
<1>3. /\ seen' = [seen EXCEPT !.domain = Append(seen.domain, e)]
      /\ hist' = [hist EXCEPT !.clocks = Append(hist.clocks, m.pid)]
  BY <1>2 DEF DomainCallback
<1>4. /\ cache' \in Nat \cup {None} /\ (cache' \in Nat)
      /\ seen \in SeenType /\ hist \in HistType
  BY <1>1 DEF Types, WorldType
<1>5. e \in DomainType /\ m.pid \in Nat
  BY <1>2, <1>4 DEF CheckType, DomainType
<1>6. seen.domain \in Seq(DomainType) /\ hist.clocks \in Seq(Nat)
  BY <1>4 DEF SeenType, HistType
<1> HIDE DEF m, e
<1>7. LET u == Append(seen.domain, e)
      IN  /\ u \in Seq(DomainType) /\ Len(u) = Len(seen.domain) + 1
          /\ u[Len(seen.domain) + 1] = e
          /\ \A i \in DOMAIN seen.domain : u[i] = seen.domain[i]
  BY <1>5, <1>6, Appended
<1>8. LET u == Append(hist.clocks, m.pid)
      IN  /\ u \in Seq(Nat) /\ Len(u) = Len(hist.clocks) + 1
          /\ u[Len(hist.clocks) + 1] = m.pid
          /\ \A i \in DOMAIN hist.clocks : u[i] = hist.clocks[i]
  BY <1>5, <1>6, Appended
<1>9. /\ seen' \in SeenType /\ seen'.domain = Append(seen.domain, e)
      /\ seen' = [seen EXCEPT !.domain = seen'.domain]
  BY <1>3, <1>4, <1>7 DEF SeenType
<1>10. /\ hist' \in HistType /\ hist'.clocks = Append(hist.clocks, m.pid)
       /\ hist' = [hist EXCEPT !.clocks = hist'.clocks]
  BY <1>3, <1>4, <1>8 DEF HistType
<1>11. WireTypes'
  BY <1>2, EmptySeq DEF Types, WireTypes, Topics, Short
<1>12. Types'
  BY <1>1, <1>4, <1>9, <1>10, <1>11 DEF Types
<1> QED BY <1>1, <1>2, <1>7, <1>8, <1>9, <1>10, <1>12 DEF m, e

LEMMA FinishDoes ==
    ASSUME Types, NEW reason \in {"duration_complete", "ros_shutdown"}, Finish(reason)
    PROVE  Types' /\ UNCHANGED <<world, wire, held, seen, cache, hist>>
BY DEF Finish, Types, WireTypes

LEMMA TypeStep == ASSUME Types, [Next]_vars PROVE Types'
<1>1. CASE UNCHANGED vars
  BY <1>1 DEF vars, Types, WireTypes
<1> QED BY <1>1, CorrectsDoes, AnnouncesDoes, SaysReadyDoes, ComparesDoes, FaultsDoes, LosesDoes,
           StreamDoes, IdentityDoes, ReadyDoes, StableDoes, ArrivesDoes, RecordedDoes,
           MappingDoes, DomainDoes, FinishDoes
        DEF Next, Publishers, Callbacks

\* The publishers, every topic, every accumulator and the history keep their types,
\* for any number of corrections, checks and faults.
THEOREM ShadowTypes == Spec => []Types
BY TypeInit, TypeStep, PTL DEF Spec

-----------------------------------------------------------------------------
(* The fault counter.                                                      *)

LEMMA HeldType ==
    ASSUME Types, held # <<>>
    PROVE  held[1] \in DiagnosticType /\ held[1].count \in Nat
<1>1. held[1] \in DiagnosticType
  BY One DEF Types
<1> QED BY <1>1 DEF DiagnosticType

\* What an action must leave alone to leave the fault counter's story alone.
CounterIdle ==
    /\ held' = held /\ seen'.diag = seen.diag /\ seen'.mapping = seen.mapping
    /\ hist'.atMapping = hist.atMapping /\ hist'.sinceMapping = hist.sinceMapping
    /\ world'.count >= world.count

LEMMA CountedFrame == ASSUME Types, Types', Counted, CounterIdle PROVE Counted'
<1>1. /\ world.count \in Nat /\ world'.count \in Nat /\ seen.diag.base \in Nat
      /\ hist.atMapping \in Nat \cup {None}
  BY DEF Types, WorldType, SeenType, HistType
<1>2. held # <<>> => held[1].count \in Nat
  BY HeldType
<1> QED BY <1>1, <1>2 DEF CounterIdle, Counted, None

LEMMA CounterIdles ==
    ASSUME Types, Types',
           \/ Corrects \/ Announces \/ Compares \/ Faults \/ StreamCallback \/ IdentityCallback
           \/ ReadyCallback \/ ReadyIsStable \/ DomainCallback
           \/ \E ready \in BOOLEAN : SaysReady(ready)
           \/ \E t \in Topics : Loses(t)
           \/ \E reason \in {"duration_complete", "ros_shutdown"} : Finish(reason)
           \/ UNCHANGED vars
    PROVE  CounterIdle
<1> USE DEF CounterIdle, WorldType, SeenType, HistType
<1>1. /\ world \in WorldType /\ seen \in SeenType /\ hist \in HistType /\ world.count \in Nat
  BY DEF Types
<1>2. CASE Corrects  BY <1>1, <1>2 DEF Corrects, Outside
<1>3. CASE Announces  BY <1>1, <1>3 DEF Announces, Outside
<1>4. CASE Compares  BY <1>1, <1>4 DEF Compares, Outside
<1>5. CASE Faults
  <2>1. world'.count \in {world.count, world.count + 1}
    BY <1>1, <1>5 DEF Faults
  <2> QED BY SMTT(30), <1>1, <1>5, <2>1 DEF Faults, Outside
<1>6. CASE StreamCallback  BY <1>1, <1>6 DEF StreamCallback
<1>7. CASE IdentityCallback  BY <1>1, <1>7 DEF IdentityCallback
<1>8. CASE ReadyCallback  BY <1>1, <1>8 DEF ReadyCallback
<1>9. CASE ReadyIsStable  BY <1>1, <1>9 DEF ReadyIsStable
<1>10. CASE DomainCallback  BY <1>1, <1>10 DEF DomainCallback
<1>11. ASSUME NEW ready \in BOOLEAN, SaysReady(ready) PROVE CounterIdle
  <2>1. world' = [world EXCEPT !.ready = ready, !.faults = IF ready THEN @ ELSE @ + 1]
    BY <1>11 DEF SaysReady
  <2>2. world'.count = world.count
    BY <1>1, <2>1
  <2>3. UNCHANGED <<held, seen, hist>>
    BY <1>11 DEF SaysReady, Outside
  <2> QED BY <1>1, <2>2, <2>3
<1>12. ASSUME NEW t \in Topics, Loses(t) PROVE CounterIdle
  <2>1. \/ hist' = hist
        \/ hist' = [hist EXCEPT !.lost = @ \cup {Head(wire[t]).pid}]
    BY <1>12 DEF Loses
  <2>2. hist'.atMapping = hist.atMapping /\ hist'.sinceMapping = hist.sinceMapping
    BY <1>1, <2>1
  <2>3. world' = [world EXCEPT !.faults = world.faults + 1] /\ UNCHANGED <<held, seen>>
    BY <1>12 DEF Loses
  <2>4. world'.count = world.count
    BY <1>1, <2>3
  <2> QED BY <1>1, <2>2, <2>3, <2>4
<1>13. ASSUME NEW reason, Finish(reason) PROVE CounterIdle
  BY <1>1, <1>13 DEF Finish
<1>14. CASE UNCHANGED vars  BY <1>1, <1>14 DEF vars
<1> QED BY <1>2, <1>3, <1>4, <1>5, <1>6, <1>7, <1>8, <1>9, <1>10, <1>11, <1>12, <1>13, <1>14

LEMMA CountedStep == ASSUME Types, Types', Counted, [Next]_vars PROVE Counted'
<1>1. /\ world \in WorldType /\ world' \in WorldType
      /\ seen \in SeenType /\ seen' \in SeenType /\ hist \in HistType /\ hist' \in HistType
  BY DEF Types
<1>2. world.count \in Nat /\ world'.count \in Nat
  BY <1>1 DEF WorldType
<1>13. CASE DiagnosticArrives
  BY <1>1, <1>2, <1>13, ArrivesDoes DEF Counted, None
<1>14. CASE DiagnosticRecorded
  <2>1. held[1].count \in Nat /\ held # <<>> /\ held' = <<>> /\ UNCHANGED world
    BY <1>14, RecordedDoes DEF DiagnosticType
  <2>2. CASE ~held[1].afterReady
    BY <1>14, <2>1, <2>2, RecordedDoes DEF Counted
  <2>3. CASE held[1].afterReady
    <3>1. /\ seen' = [seen EXCEPT !.diag = seen'.diag]
          /\ seen'.diag.n > 0
          /\ seen'.diag.base = IF seen.diag.n = 0 THEN held[1].count ELSE seen.diag.base
          /\ seen'.diag.before > 0 => seen.diag.before > 0 \/ held[1].beforeMapping
          /\ seen'.diag.clean <=> seen.diag.clean /\ held[1].ready /\ held[1].count = seen'.diag.base
          /\ hist' = [hist EXCEPT !.sinceMapping =
                        IF held[1].beforeMapping THEN None ELSE held[1].count]
      BY <1>14, <2>3, RecordedDoes
    <3>2. seen'.mapping = seen.mapping /\ hist'.atMapping = hist.atMapping
          /\ hist'.sinceMapping = IF held[1].beforeMapping THEN None ELSE held[1].count
      BY <1>1, <3>1 DEF SeenType, HistType
    <3>3. /\ seen.diag.n \in Nat /\ seen.diag.base \in Nat /\ hist.atMapping \in Nat \cup {None}
      BY <1>1 DEF SeenType, HistType
    <3>4. seen'.diag.base <= held[1].count
      BY <2>1, <3>1, <3>3 DEF Counted
    <3>5. hist.atMapping # None /\ seen'.diag.before > 0 => seen'.diag.base <= hist.atMapping
      <4>1. CASE held[1].beforeMapping
        <5>1. hist.atMapping # None => held[1].count <= hist.atMapping
          BY <2>1, <4>1 DEF Counted
        <5>2. seen'.diag.base \in Nat
          BY <2>1, <3>1, <3>3
        <5> QED BY <2>1, <3>3, <3>4, <5>1, <5>2 DEF None
      <4>2. CASE ~held[1].beforeMapping
        BY <3>1, <3>3, <4>2 DEF Counted, None
      <4> QED BY <4>1, <4>2
    <3>6. hist'.sinceMapping # None =>
              /\ ~held[1].beforeMapping /\ hist'.sinceMapping = held[1].count
              /\ hist.atMapping # None /\ hist.atMapping <= held[1].count
      BY <2>1, <3>2 DEF Counted
    <3> QED BY <1>1, <1>2, <2>1, <3>1, <3>2, <3>3, <3>4, <3>5, <3>6 DEF Counted
  <2> QED BY <2>2, <2>3
<1>15. CASE MappingCallback
  <2>1. held # <<>> => held[1].count \in Nat
    BY HeldType
  <2>2. UNCHANGED <<held, world>>
    BY <1>15, MappingDoes
  <2>3. CASE seen.mapping.session # None
    BY <1>15, <2>2, <2>3, MappingDoes DEF Counted
  <2>4. CASE seen.mapping.session = None
    <3>1. /\ seen'.diag = seen.diag /\ seen'.mapping.session # None
          /\ hist'.atMapping = world.count /\ hist'.sinceMapping = hist.sinceMapping
      <4>1. /\ seen' = [seen EXCEPT !.mapping = seen'.mapping]
            /\ seen'.mapping = [session |-> wire["mapping"][1], stable |-> seen.ready.stable]
            /\ hist' = [hist EXCEPT !.atMapping = world.count] /\ wire["mapping"][1] \in Nat
        BY <1>15, <2>4, MappingDoes
      <4>2. seen'.diag = seen.diag
        BY <1>1, <4>1 DEF SeenType
      <4>3. hist'.atMapping = world.count /\ hist'.sinceMapping = hist.sinceMapping
        BY <1>1, <4>1 DEF HistType
      <4>4. seen'.mapping.session # None
        BY <4>1 DEF None
      <4> QED BY <4>2, <4>3, <4>4
    <3> QED BY <1>2, <2>1, <2>2, <2>4, <3>1 DEF Counted, None
  <2> QED BY <2>3, <2>4
<1> QED BY <1>13, <1>14, <1>15, CounterIdles, CountedFrame DEF Next, Publishers, Callbacks

\* No fault of the hybrid IMU was counted between the first diagnostic, the mapping
\* and the last diagnostic of a window that passes: for any number of diagnostics and
\* faults, and any order of the callbacks at the lock (HybridImuAccumulator).
THEOREM NoNewFault == Spec => []PassMeansNoNewFault
<1>1. Init => Counted
  BY DEF Init, Counted, None
<1>2. Types /\ Counted => PassMeansNoNewFault
  <2> SUFFICES ASSUME Types, Counted, Passes, hist.sinceMapping # None
               PROVE  hist.sinceMapping = hist.atMapping /\ hist.atMapping = seen.diag.base
    BY DEF PassMeansNoNewFault
  <2>1. seen.diag.before > 0 /\ seen.diag.clean
    <3>1. seen.diag.before >= MinDiag /\ seen.diag.before \in Nat
      BY DEF Passes, AllPass, MappingGate, Types, SeenType
    <3> QED BY <3>1, Constants DEF Passes, AllPass, DiagnosticGate
  <2>2. /\ hist.sinceMapping \in Nat /\ hist.atMapping \in Nat /\ seen.diag.base \in Nat
    BY DEF Types, HistType, SeenType, Counted
  <2> QED BY <2>1, <2>2 DEF Counted
<1>3. Types /\ Counted /\ [Next]_vars => (Types /\ Counted)'
  BY TypeStep, CountedStep
<1> QED BY <1>1, <1>2, <1>3, TypeInit, PTL DEF Spec

-----------------------------------------------------------------------------
(* The clock processes.                                                    *)

ClockIdle ==
    /\ world'.pid = world.pid /\ world'.check = world.check
    /\ wire'["domain"] = wire["domain"] /\ seen'.domain = seen.domain
    /\ hist'.clocks = hist.clocks /\ hist'.lost = hist.lost

LEMMA ClockFrame == ASSUME Clocks, ClockIdle PROVE Clocks'
BY DEF ClockIdle, Clocks, Shown, Rising, UnderWay, Current, Begun

LEMMA ClockIdles ==
    ASSUME Types,
           \/ Corrects \/ Announces \/ StreamCallback \/ IdentityCallback
           \/ ReadyCallback \/ ReadyIsStable \/ DiagnosticArrives \/ DiagnosticRecorded
           \/ MappingCallback
           \/ \E ready \in BOOLEAN : SaysReady(ready)
           \/ \E t \in Topics \ {"domain"} : Loses(t)
           \/ \E reason \in {"duration_complete", "ros_shutdown"} : Finish(reason)
           \/ UNCHANGED vars
    PROVE  ClockIdle
<1> USE DEF ClockIdle
<1>1. world \in WorldType /\ seen \in SeenType /\ hist \in HistType /\ "domain" \in Topics
  BY DEF Types, Topics
<1>2. CASE Corrects
  <2>1. UNCHANGED <<seen, hist>> /\ world'.pid = world.pid /\ world'.check = world.check
        /\ wire'["domain"] = wire["domain"]
    BY <1>1, <1>2, CorrectsDoes
  <2> QED BY <2>1
<1>3. CASE Announces
  <2>1. UNCHANGED <<seen, hist>> /\ wire'["domain"] = wire["domain"]
        /\ world' = [world EXCEPT !.announced = world.session]
    BY <1>1, <1>3, AnnouncesDoes
  <2> QED BY <1>1, <2>1 DEF WorldType
<1>4. CASE StreamCallback
  <2>1. UNCHANGED <<world, hist>> /\ wire'["domain"] = wire["domain"]
        /\ seen' = [seen EXCEPT !.corrections = Append(seen.corrections, wire["correction"][1])]
    BY <1>1, <1>4, StreamDoes
  <2> QED BY <1>1, <2>1 DEF SeenType
<1>5. CASE IdentityCallback
  <2>1. UNCHANGED <<world, hist>> /\ wire'["domain"] = wire["domain"]
        /\ seen' = [seen EXCEPT !.identities = Append(seen.identities, wire["identity"][1])]
    BY <1>1, <1>5, IdentityDoes
  <2> QED BY <1>1, <2>1 DEF SeenType
<1>6. CASE ReadyCallback
  <2>1. UNCHANGED <<world, hist>> /\ wire'["domain"] = wire["domain"]
        /\ seen' = [seen EXCEPT !.ready = seen'.ready]
    BY <1>1, <1>6, ReadyDoes
  <2> QED BY <1>1, <2>1 DEF SeenType
<1>7. CASE ReadyIsStable
  <2>1. UNCHANGED <<world, wire, hist>> /\ seen' = [seen EXCEPT !.ready = seen'.ready]
    BY <1>7, StableDoes
  <2> QED BY <1>1, <2>1 DEF SeenType
<1>8. CASE DiagnosticArrives
  BY <1>8 DEF DiagnosticArrives
<1>9. CASE DiagnosticRecorded
  <2>1. UNCHANGED <<world, wire>>
        /\ (UNCHANGED <<seen, hist>> \/ /\ seen' = [seen EXCEPT !.diag = seen'.diag]
                                         /\ hist' = [hist EXCEPT !.sinceMapping = hist'.sinceMapping])
    <3>1. CASE ~held[1].afterReady
      BY <1>9, <3>1, RecordedDoes
    <3>2. CASE held[1].afterReady
      <4>1. hist' = [hist EXCEPT !.sinceMapping = IF held[1].beforeMapping THEN None ELSE held[1].count]
        BY <1>9, <3>2, RecordedDoes
      <4>2. hist' = [hist EXCEPT !.sinceMapping = hist'.sinceMapping]
        BY <1>1, <4>1 DEF HistType
      <4> QED BY <1>9, <3>2, <4>2, RecordedDoes
    <3> QED BY <3>1, <3>2
  <2> QED BY <1>1, <2>1 DEF SeenType, HistType
<1>10. CASE MappingCallback
  <2>1. UNCHANGED world /\ wire'["domain"] = wire["domain"]
        /\ (UNCHANGED <<seen, hist>> \/ /\ seen' = [seen EXCEPT !.mapping = seen'.mapping]
                                         /\ hist' = [hist EXCEPT !.atMapping = world.count])
    BY <1>1, <1>10, MappingDoes
  <2> QED BY <1>1, <2>1 DEF SeenType, HistType
<1>11. ASSUME NEW ready \in BOOLEAN, SaysReady(ready) PROVE ClockIdle
  <2>1. UNCHANGED <<seen, hist>> /\ wire'["domain"] = wire["domain"]
        /\ world' = [world EXCEPT !.ready = ready,
                                  !.faults = IF ready THEN world.faults ELSE world.faults + 1]
    BY <1>1, <1>11, SaysReadyDoes
  <2>2. world'.pid = world.pid /\ world'.check = world.check
    BY <1>1, <2>1 DEF WorldType
  <2> QED BY <2>1, <2>2
<1>12. ASSUME NEW t \in Topics, t # "domain", Loses(t) PROVE ClockIdle
  <2>1. UNCHANGED <<seen, hist>> /\ wire'["domain"] = wire["domain"]
        /\ world' = [world EXCEPT !.faults = world.faults + 1]
    BY <1>1, <1>12, LosesDoes
  <2> QED BY <1>1, <2>1 DEF WorldType
<1>13. ASSUME NEW reason, Finish(reason) PROVE ClockIdle
  BY <1>13 DEF Finish
<1>14. CASE UNCHANGED vars
  BY <1>14 DEF vars
<1> QED BY <1>2, <1>3, <1>4, <1>5, <1>6, <1>7, <1>8, <1>9, <1>10, <1>11, <1>12, <1>13, <1>14

LEMMA ClockTypes ==
    ASSUME Types
    PROVE  /\ world.pid \in Nat /\ world.check \in Nat
           /\ hist.clocks \in Seq(Nat) /\ seen.domain \in Seq(DomainType)
           /\ Len(hist.clocks) \in Nat /\ DOMAIN hist.clocks = 1..Len(hist.clocks)
           /\ DOMAIN seen.domain = 1..Len(seen.domain)
           /\ \A i \in DOMAIN hist.clocks : hist.clocks[i] \in Nat
           /\ \A i \in DOMAIN seen.domain : seen.domain[i].sequence \in Nat
           /\ wire["domain"] # <<>> =>
                 wire["domain"][1].pid \in Nat /\ wire["domain"][1].sequence \in Nat
<1>1. world.pid \in Nat /\ world.check \in Nat
  BY DEF Types, WorldType
<1>2. hist.clocks \in Seq(Nat) /\ seen.domain \in Seq(DomainType)
  BY DEF Types, HistType, SeenType
<1>3. \A i \in DOMAIN seen.domain : seen.domain[i] \in DomainType
  BY <1>2
<1>4. wire["domain"] # <<>> => wire["domain"][1] \in CheckType
  BY One DEF Types, WireTypes
<1> QED BY SMTT(30), <1>1, <1>2, <1>3, <1>4 DEF DomainType, CheckType

\* What is shown stays shown while no check is seen and processes only get older.
LEMMA ShownStays ==
    ASSUME Types, Clocks, hist'.clocks = hist.clocks, seen'.domain = seen.domain,
           hist.lost \subseteq hist'.lost, world'.pid \in Nat, world.pid <= world'.pid,
           \A p \in hist'.lost : p <= world'.pid
    PROVE  Shown' /\ Rising'
<1> USE ClockTypes DEF Clocks
<1>1. ASSUME NEW i \in DOMAIN hist.clocks
      PROVE  /\ hist.clocks[i] <= world'.pid /\ seen.domain[i].sequence > 0
             /\ hist.clocks[i] \notin hist'.lost =>
                    \E k \in 1..i : /\ hist.clocks[k] = hist.clocks[i]
                                   /\ seen.domain[k].sequence = 1
  <2>1. hist.clocks[i] \in Nat /\ hist.clocks[i] <= world.pid /\ seen.domain[i].sequence > 0
    BY <1>1 DEF Shown
  <2>2. hist.clocks[i] \notin hist.lost => Begun(hist.clocks[i], i)
    BY <1>1 DEF Shown
  <2>3. hist.clocks[i] <= world'.pid
    BY <2>1
  <2> QED BY <2>1, <2>2, <2>3 DEF Begun
<1>2. Shown'
  BY <1>1 DEF Shown, Begun
<1>3. Rising'
  BY DEF Rising
<1> QED BY <1>2, <1>3

LEMMA ComparesClocks == ASSUME Types, Clocks, Compares PROVE Clocks'
<1> USE ClockTypes DEF Clocks
<1>1. /\ UNCHANGED <<seen, hist>> /\ wire["domain"] = <<>> /\ Len(wire'["domain"]) = 1
      /\ wire'["domain"][1] = [session |-> world.session, reset |-> world.reset,
                               sequence |-> world'.check, pid |-> world.pid]
      /\ world' = [world EXCEPT !.check = world.check + 1]
      /\ world'.check = world.check + 1
  BY ComparesDoes
<1>2. world'.pid = world.pid
  BY <1>1 DEF Types, WorldType
<1>3. wire'["domain"] # <<>>
  BY <1>1, EmptySeq
<1>4. wire'["domain"][1].pid = world.pid /\ wire'["domain"][1].sequence = world.check + 1
  BY <1>1
<1>5. Shown' /\ Rising'
  <2>1. \A p \in hist.lost : p <= world.pid
    BY DEF Rising
  <2> QED BY <1>1, <1>2, <2>1, ShownStays
<1>6. UnderWay'
  BY <1>1, <1>2, <1>4 DEF Shown, UnderWay, Current, Begun
<1>7. Current'
  BY <1>1, <1>2, <1>3, <1>4 DEF Current, Begun
<1> QED BY <1>5, <1>6, <1>7

LEMMA FaultsClocks == ASSUME Types, Clocks, Faults PROVE Clocks'
<1> USE ClockTypes DEF Clocks
<1>1. UNCHANGED <<wire, seen, hist>>
  BY FaultsDoes
<1>2. \/ world'.pid = world.pid /\ world'.check = world.check
      \/ world'.pid = world.pid + 1 /\ world'.check = 0
  <2>1. world \in WorldType
    BY DEF Types
  <2>2. CASE world' = [world EXCEPT !.faults = @ + 1, !.pid = @ + 1, !.check = 0]
    <3>1. world'.pid = world.pid + 1 /\ world'.check = 0
      BY <2>1, <2>2 DEF WorldType
    <3> QED BY <3>1
  <2>3. CASE \/ world' = [world EXCEPT !.faults = @ + 1, !.reset = @ + 1]
             \/ world' = [world EXCEPT !.faults = @ + 1, !.session = @ + 1, !.reset = 0,
                                       !.sequence = 0]
             \/ world' = [world EXCEPT !.faults = @ + 1, !.count = @ + 1]
    <3>1. world'.pid = world.pid /\ world'.check = world.check
      BY <2>1, <2>3 DEF WorldType
    <3> QED BY <3>1
  <2> QED BY <2>2, <2>3 DEF Faults
<1>3. CASE world'.pid = world.pid /\ world'.check = world.check
  BY <1>1, <1>3, ClockFrame DEF ClockIdle
<1>4. CASE world'.pid = world.pid + 1 /\ world'.check = 0
  <2>1. world.pid <= world'.pid /\ world'.pid \in Nat
    BY <1>4
  <2>2. Shown' /\ Rising'
    <3>1. ASSUME NEW p \in hist.lost PROVE p <= world'.pid
      <4>1. p \in Nat /\ p <= world.pid
        BY <3>1 DEF Types, HistType, Rising
      <4> QED BY <1>4, <4>1
    <3> QED BY <1>1, <2>1, <3>1, ShownStays
  <2>3. UnderWay' /\ Current'
    BY <1>1, <1>4 DEF UnderWay, Current, Begun
  <2> QED BY <2>2, <2>3
<1> QED BY <1>2, <1>3, <1>4

LEMMA LosesClocks == ASSUME Types, Clocks, Loses("domain") PROVE Clocks'
<1> USE ClockTypes DEF Clocks
<1>1. /\ UNCHANGED seen /\ wire["domain"] # <<>> /\ wire'["domain"] = <<>>
      /\ hist' = [hist EXCEPT !.lost = @ \cup {wire["domain"][1].pid}]
      /\ world' = [world EXCEPT !.faults = world.faults + 1]
  BY LosesDoes DEF Topics
<1>2. /\ hist'.clocks = hist.clocks /\ hist'.lost = hist.lost \cup {wire["domain"][1].pid}
  BY <1>1 DEF Types, HistType
<1>3. world'.pid = world.pid /\ world'.check = world.check
  BY <1>1 DEF Types, WorldType
<1>4. Shown' /\ Rising'
  <2>1. wire["domain"][1].pid <= world.pid
    BY <1>1 DEF UnderWay
  <2>2. \A p \in hist'.lost : p <= world'.pid
    BY <1>2, <1>3, <2>1 DEF Rising
  <2> QED BY <1>1, <1>2, <1>3, <2>2, ShownStays
<1>5. UnderWay' /\ Current'
  BY <1>1, <1>2, <1>3 DEF UnderWay, Current, Begun
<1> QED BY <1>4, <1>5

LEMMA DomainClocks == ASSUME Types, Clocks, DomainCallback PROVE Clocks'
<1> USE ClockTypes DEF Clocks
<1> DEFINE m == wire["domain"][1]
           n == Len(hist.clocks)
           Now(p, k) == \E i \in 1..k : hist'.clocks[i] = p /\ seen'.domain[i].sequence = 1
<1>1. /\ UNCHANGED world /\ wire["domain"] # <<>> /\ wire'["domain"] = <<>>
      /\ Len(seen'.domain) = Len(seen.domain) + 1
      /\ \A i \in DOMAIN seen.domain : seen'.domain[i] = seen.domain[i]
      /\ Len(hist'.clocks) = n + 1 /\ hist'.clocks[n + 1] = m.pid
      /\ \A i \in DOMAIN hist.clocks : hist'.clocks[i] = hist.clocks[i]
  BY DomainDoes
<1>2. hist'.lost = hist.lost
  <2>1. hist' = [hist EXCEPT !.clocks = hist'.clocks]
    BY DomainDoes
  <2> QED BY <2>1 DEF Types, HistType
<1>3. seen'.domain[Len(seen.domain) + 1].sequence = m.sequence
  <2>1. seen'.domain[Len(seen.domain) + 1] =
            [session |-> m.session, reset |-> m.reset, sequence |-> m.sequence, runtime |-> cache']
    BY DomainDoes
  <2> QED BY <2>1
<1>4. Len(seen.domain) = n /\ n \in Nat /\ DOMAIN hist.clocks = 1..n /\ DOMAIN seen.domain = 1..n
  BY DEF Shown
<1>5. DOMAIN hist'.clocks = 1..(n + 1)
  <2>1. hist'.clocks \in Seq(Nat)
    BY DomainDoes DEF Types, HistType
  <2> QED BY <1>1, <2>1
<1>6. /\ m.pid \in Nat /\ m.sequence \in Nat /\ m.sequence > 0 /\ m.pid <= world.pid
      /\ \A i \in 1..n : hist.clocks[i] <= m.pid
      /\ m.pid \notin hist.lost => m.sequence = 1 \/ Begun(m.pid, n)
  BY <1>1, <1>4 DEF UnderWay
<1> HIDE DEF m, n
<1>7. ASSUME NEW p, NEW k \in 0..n, Begun(p, k) PROVE Now(p, k) /\ Now(p, n + 1)
  <2>1. PICK i \in 1..k : hist.clocks[i] = p /\ seen.domain[i].sequence = 1
    BY <1>7 DEF Begun
  <2>2. i \in 1..n
    BY <1>4, <2>1
  <2>3. hist'.clocks[i] = hist.clocks[i] /\ seen'.domain[i] = seen.domain[i]
    BY <1>1, <1>4, <2>2
  <2> QED BY SMTT(30), <1>4, <2>1, <2>2, <2>3
<1>8. m.pid \notin hist.lost => Now(m.pid, n + 1)
  <2>1. CASE m.sequence = 1
    BY <1>1, <1>3, <1>4, <2>1
  <2>2. CASE Begun(m.pid, n)
    BY <1>4, <1>7, <2>2
  <2> QED BY <1>6, <2>1, <2>2
<1>9. Shown'
  <2>1. ASSUME NEW i \in 1..(n + 1)
        PROVE  /\ hist'.clocks[i] <= world'.pid
               /\ seen'.domain[i].sequence > 0
               /\ hist'.clocks[i] \notin hist'.lost => Now(hist'.clocks[i], i)
    <3>1. CASE i = n + 1
      BY <1>1, <1>2, <1>3, <1>4, <1>6, <1>8, <3>1
    <3>2. CASE i \in 1..n
      <4>1. /\ hist'.clocks[i] = hist.clocks[i] /\ seen'.domain[i] = seen.domain[i]
            /\ hist.clocks[i] <= world.pid /\ seen.domain[i].sequence > 0
            /\ hist.clocks[i] \notin hist.lost => Begun(hist.clocks[i], i)
        BY <1>1, <1>4, <3>2 DEF Shown
      <4>2. hist.clocks[i] \notin hist.lost => Now(hist.clocks[i], i)
        <5>1. i \in 0..n
          BY <1>4, <3>2
        <5> HIDE DEF Now
        <5> QED BY <1>7, <4>1, <5>1
      <4> QED BY <1>1, <1>2, <4>1, <4>2
    <3> QED BY <1>4, <3>1, <3>2
  <2> QED BY <1>1, <1>4, <1>5, <2>1 DEF Shown, Begun
<1>10. Rising'
  <2>1. ASSUME NEW i \in 1..(n + 1), NEW j \in 1..(n + 1), i < j
        PROVE  hist'.clocks[i] <= hist'.clocks[j]
    <3>1. i \in 1..n /\ hist'.clocks[i] = hist.clocks[i]
      BY SMTT(30), <1>1, <1>4, <2>1
    <3>2. CASE j = n + 1
      BY <1>1, <1>6, <3>1, <3>2
    <3>3. CASE j \in 1..n
      BY <1>1, <1>4, <2>1, <3>1, <3>3 DEF Rising
    <3> QED BY <1>4, <3>2, <3>3
  <2> QED BY <1>1, <1>2, <1>5, <2>1 DEF Rising
<1>11. UnderWay'
  BY <1>1 DEF UnderWay
<1>12. Current'
  <2> SUFFICES ASSUME world'.check > 0, world'.pid \notin hist'.lost
               PROVE  Now(world.pid, n + 1)
    BY <1>1 DEF Current, Begun
  <2>1. CASE Begun(world.pid, n)
    <3>1. n \in 0..n
      BY <1>4
    <3> QED BY <1>7, <2>1, <3>1
  <2>2. CASE m.pid = world.pid
    BY <1>1, <1>2, <1>8, <2>2
  <2> QED BY <1>1, <1>2, <2>1, <2>2 DEF Current, m, n
<1> QED BY <1>9, <1>10, <1>11, <1>12

LEMMA ClocksStep == ASSUME Types, Clocks, [Next]_vars PROVE Clocks'
<1>1. ASSUME NEW t \in Topics, Loses(t) PROVE Clocks'
  BY <1>1, LosesClocks, ClockIdles, ClockFrame
<1>2. ASSUME NEW reason \in {"duration_complete", "ros_shutdown"}, Finish(reason) PROVE Clocks'
  BY <1>2, ClockIdles, ClockFrame
<1>3. ASSUME NEW ready \in BOOLEAN, SaysReady(ready) PROVE Clocks'
  BY <1>3, ClockIdles, ClockFrame
<1> QED BY <1>1, <1>2, <1>3, ComparesClocks, FaultsClocks, DomainClocks, ClockIdles, ClockFrame
        DEF Next, Publishers, Callbacks

\* A window that passes compared the clocks of one process, unless a check of a
\* later one was lost: for any number of checks, losses and restarts
\* (DomainAccumulator, _clock_publisher_runtime_identity).
THEOREM OneProcess == Spec => []OneClockProcess
<1>1. Init => Clocks
  BY DEF Init, Clocks, Shown, Rising, UnderWay, Current, Topics
<1>2. Types /\ Clocks => OneClockProcess
  <2> SUFFICES ASSUME Types, Clocks, Passes, NEW i \in DOMAIN hist.clocks,
                      NEW j \in DOMAIN hist.clocks, i < j, hist.clocks[i] # hist.clocks[j],
                      hist.clocks[j] \notin hist.lost
               PROVE  FALSE
    BY DEF OneClockProcess
  <2>1. PICK k \in 1..j : hist.clocks[k] = hist.clocks[j] /\ seen.domain[k].sequence = 1
    BY ClockTypes DEF Clocks, Shown, Begun
  <2>2. k \in DOMAIN hist.clocks /\ hist.clocks[i] < hist.clocks[j]
    BY SMTT(30), <2>1, ClockTypes DEF Clocks, Rising
  <2>3. i < k
    <3>1. \A a, b \in DOMAIN hist.clocks : a < b => hist.clocks[a] <= hist.clocks[b]
      BY DEF Clocks, Rising
    <3>2. k < i => hist.clocks[k] <= hist.clocks[i]
      BY <2>2, <3>1
    <3>3. /\ hist.clocks[i] \in Nat /\ hist.clocks[j] \in Nat
          /\ i \in 1..Len(hist.clocks) /\ k \in 1..Len(hist.clocks) /\ Len(hist.clocks) \in Nat
      BY <2>2, ClockTypes
    <3>4. k # i /\ ~(hist.clocks[k] <= hist.clocks[i])
      BY <2>1, <2>2, <3>3
    <3>5. i \in Nat /\ k \in Nat
      BY <3>3
    <3> QED BY <3>2, <3>4, <3>5
  <2>4. k - 1 \in 1..(Len(seen.domain) - 1) /\ k - 1 \in DOMAIN hist.clocks
    BY SMTT(30), <2>2, <2>3, ClockTypes DEF Clocks, Shown
  <2>5. seen.domain[(k - 1) + 1].sequence = seen.domain[k - 1].sequence + 1
    BY <2>4 DEF Passes, AllPass, DomainGate, Contiguous
  <2>6. seen.domain[k - 1].sequence > 0 /\ seen.domain[k - 1].sequence \in Nat
    BY <2>4, ClockTypes DEF Clocks, Shown
  <2>7. (k - 1) + 1 = k
    BY <2>2, ClockTypes
  <2>8. seen.domain[(k - 1) + 1].sequence = 1
    BY <2>1, <2>7
  <2>9. PICK x \in Nat : x = seen.domain[k - 1].sequence
    BY <2>6
  <2>10. x > 0 /\ x + 1 = 1
    BY <2>5, <2>6, <2>8, <2>9
  <2> QED BY <2>10
<1>3. Types /\ Clocks /\ [Next]_vars => (Types /\ Clocks)'
  BY TypeStep, ClocksStep
<1> QED BY <1>1, <1>2, <1>3, TypeInit, PTL DEF Spec

-----------------------------------------------------------------------------
(* The identity records.                                                   *)

NumberIdle ==
    /\ world'.session = world.session /\ world'.id = world.id /\ world'.sequence = world.sequence
    /\ wire'["identity"] = wire["identity"] /\ seen'.identities = seen.identities

LEMMA NumberFrame == ASSUME Numbered, NumberIdle PROVE Numbered'
<1>1. \A m : /\ Beside(m, world)' <=> Beside(m, world)
             /\ m.session <= world'.session <=> m.session <= world.session
  BY DEF NumberIdle, Beside
<1>2. seen'.identities = seen.identities /\ wire'["identity"] = wire["identity"]
  BY DEF NumberIdle
<1>3. \A i, j \in DOMAIN seen'.identities : Beside(seen'.identities[i], seen'.identities[j])
  BY <1>2 DEF Numbered
<1>4. \A i \in DOMAIN seen'.identities :
          /\ Beside(seen.identities[i], world)'
          /\ seen'.identities[i].session <= world'.session
  BY <1>1, <1>2 DEF Numbered
<1>5. wire'["identity"] # <<>> =>
          /\ \A i \in DOMAIN seen'.identities : Beside(seen'.identities[i], wire'["identity"][1])
          /\ Beside(wire["identity"][1], world)' /\ wire'["identity"][1].session <= world'.session
  BY <1>1, <1>2 DEF Numbered
<1>6. Contiguous(seen'.identities) =>
          \A i \in DOMAIN seen'.identities :
              seen'.identities[i].sequence = seen'.identities[1].sequence + i - 1
  BY <1>2 DEF Numbered
<1> QED BY <1>3, <1>4, <1>5, <1>6 DEF Numbered

LEMMA NumberIdles ==
    ASSUME Types,
           \/ Announces \/ Compares \/ StreamCallback
           \/ ReadyCallback \/ ReadyIsStable \/ DiagnosticArrives \/ DiagnosticRecorded
           \/ MappingCallback \/ DomainCallback
           \/ \E ready \in BOOLEAN : SaysReady(ready)
           \/ \E t \in Topics \ {"identity"} : Loses(t)
           \/ \E reason \in {"duration_complete", "ros_shutdown"} : Finish(reason)
           \/ UNCHANGED vars
    PROVE  NumberIdle
<1> USE DEF NumberIdle
<1>1. world \in WorldType /\ seen \in SeenType /\ "identity" \in Topics
  BY DEF Types, Topics
<1>2. CASE Announces
  <2>1. UNCHANGED seen /\ wire'["identity"] = wire["identity"]
        /\ world' = [world EXCEPT !.announced = world.session]
    BY <1>1, <1>2, AnnouncesDoes
  <2> QED BY <1>1, <2>1 DEF WorldType
<1>3. CASE Compares
  <2>1. UNCHANGED seen /\ wire'["identity"] = wire["identity"]
        /\ world' = [world EXCEPT !.check = world.check + 1]
    BY <1>1, <1>3, ComparesDoes
  <2> QED BY <1>1, <2>1 DEF WorldType
<1>4. CASE StreamCallback
  <2>1. UNCHANGED world /\ wire'["identity"] = wire["identity"]
        /\ seen' = [seen EXCEPT !.corrections = Append(seen.corrections, wire["correction"][1])]
    BY <1>1, <1>4, StreamDoes
  <2> QED BY <1>1, <2>1 DEF SeenType
<1>5. CASE ReadyCallback
  <2>1. UNCHANGED world /\ wire'["identity"] = wire["identity"]
        /\ seen' = [seen EXCEPT !.ready = seen'.ready]
    BY <1>1, <1>5, ReadyDoes
  <2> QED BY <1>1, <2>1 DEF SeenType
<1>6. CASE ReadyIsStable
  <2>1. UNCHANGED <<world, wire>> /\ seen' = [seen EXCEPT !.ready = seen'.ready]
    BY <1>6, StableDoes
  <2> QED BY <1>1, <2>1 DEF SeenType
<1>7. CASE DiagnosticArrives
  BY <1>7 DEF DiagnosticArrives
<1>8. CASE DiagnosticRecorded
  <2>1. UNCHANGED <<world, wire>>
        /\ (seen' = seen \/ seen' = [seen EXCEPT !.diag = seen'.diag])
    BY <1>8, RecordedDoes
  <2> QED BY <1>1, <2>1 DEF SeenType
<1>9. CASE MappingCallback
  <2>1. UNCHANGED world /\ wire'["identity"] = wire["identity"]
        /\ (seen' = seen \/ seen' = [seen EXCEPT !.mapping = seen'.mapping])
    BY <1>1, <1>9, MappingDoes
  <2> QED BY <1>1, <2>1 DEF SeenType
<1>10. CASE DomainCallback
  <2>1. UNCHANGED world /\ wire'["identity"] = wire["identity"]
        /\ seen' = [seen EXCEPT !.domain = seen'.domain]
    BY <1>1, <1>10, DomainDoes
  <2> QED BY <1>1, <2>1 DEF SeenType
<1>11. ASSUME NEW ready \in BOOLEAN, SaysReady(ready) PROVE NumberIdle
  <2>1. UNCHANGED seen /\ wire'["identity"] = wire["identity"]
        /\ world' = [world EXCEPT !.ready = ready,
                                  !.faults = IF ready THEN world.faults ELSE world.faults + 1]
    BY <1>1, <1>11, SaysReadyDoes
  <2>2. /\ world'.session = world.session /\ world'.id = world.id
        /\ world'.sequence = world.sequence
    BY <1>1, <2>1 DEF WorldType
  <2> QED BY <2>1, <2>2
<1>12. ASSUME NEW t \in Topics, t # "identity", Loses(t) PROVE NumberIdle
  <2>1. UNCHANGED seen /\ wire'["identity"] = wire["identity"]
        /\ world' = [world EXCEPT !.faults = world.faults + 1]
    BY <1>1, <1>12, LosesDoes
  <2> QED BY <1>1, <2>1 DEF WorldType
<1>13. ASSUME NEW reason, Finish(reason) PROVE NumberIdle
  BY <1>13 DEF Finish
<1>14. CASE UNCHANGED vars
  BY <1>14 DEF vars
<1> QED BY <1>2, <1>3, <1>4, <1>5, <1>6, <1>7, <1>8, <1>9, <1>10, <1>11, <1>12, <1>13, <1>14

LEMMA NumberTypes ==
    ASSUME Types
    PROVE  /\ world.session \in Nat /\ world.id \in Nat /\ world.sequence \in Nat
           /\ seen.identities \in Seq(IdentityType)
           /\ Len(seen.identities) \in Nat /\ DOMAIN seen.identities = 1..Len(seen.identities)
           /\ \A i \in DOMAIN seen.identities :
                 /\ seen.identities[i].session \in Nat /\ seen.identities[i].id \in Nat
                 /\ seen.identities[i].sequence \in Nat
           /\ wire["identity"] # <<>> =>
                 /\ wire["identity"][1].session \in Nat /\ wire["identity"][1].id \in Nat
                 /\ wire["identity"][1].sequence \in Nat
<1>1. world.session \in Nat /\ world.id \in Nat /\ world.sequence \in Nat
  BY DEF Types, WorldType
<1>2. seen.identities \in Seq(IdentityType)
  BY DEF Types, SeenType
<1>3. \A i \in DOMAIN seen.identities : seen.identities[i] \in IdentityType
  BY <1>2
<1>4. wire["identity"] # <<>> => wire["identity"][1] \in IdentityType
  BY One DEF Types, WireTypes
<1>5. \A r \in IdentityType : r.session \in Nat /\ r.id \in Nat /\ r.sequence \in Nat
  BY DEF IdentityType
<1>6. Len(seen.identities) \in Nat /\ DOMAIN seen.identities = 1..Len(seen.identities)
  BY <1>2
<1> QED BY <1>1, <1>2, <1>3, <1>4, <1>5, <1>6

LEMMA CorrectsNumber == ASSUME Types, Numbered, Corrects PROVE Numbered'
<1> USE NumberTypes
<1> DEFINE m == wire'["identity"][1]
<1>1. /\ seen' = seen /\ world'.session = world.session
      /\ world'.id = world.id + 1 /\ world'.sequence = world.sequence + 1
      /\ m.session = world.session /\ m.id = world'.id /\ m.sequence = world'.sequence
  BY CorrectsDoes
<1> HIDE DEF m
<1>2. ASSUME NEW i \in DOMAIN seen.identities
      PROVE  /\ seen.identities[i].session = world.session =>
                    seen.identities[i].id - seen.identities[i].sequence = world'.id - world'.sequence
             /\ seen.identities[i].session <= world'.session
             /\ seen.identities[i].session = m.session =>
                    seen.identities[i].id - seen.identities[i].sequence = m.id - m.sequence
  <2>1. PICK r : r = seen.identities[i]
    OBVIOUS
  <2>2. r.session \in Nat /\ r.id \in Nat /\ r.sequence \in Nat
    BY <2>1
  <2>3. Beside(r, world) /\ r.session <= world.session
    BY <2>1 DEF Numbered
  <2>4. r.session = world.session => r.id - r.sequence = world'.id - world'.sequence
    BY SMTT(30), <1>1, <2>2, <2>3 DEF Beside
  <2> QED BY <1>1, <2>1, <2>3, <2>4
<1>3. /\ \A i, j \in DOMAIN seen.identities : Beside(seen.identities[i], seen.identities[j])
      /\ Contiguous(seen.identities) =>
             \A i \in DOMAIN seen.identities :
                 seen.identities[i].sequence = seen.identities[1].sequence + i - 1
  BY DEF Numbered
<1>4. m.session = world'.session /\ m.id - m.sequence = world'.id - world'.sequence
      /\ m.session <= world'.session
  BY <1>1
<1>5. \A i \in DOMAIN seen'.identities :
         Beside(seen'.identities[i], world') /\ seen'.identities[i].session <= world'.session
  BY <1>1, <1>2 DEF Beside
<1>6. \A i \in DOMAIN seen'.identities : Beside(seen'.identities[i], m)
  BY <1>1, <1>2 DEF Beside
<1>7. Beside(m, world')
  BY <1>4 DEF Beside
<1>8. /\ \A i, j \in DOMAIN seen'.identities :
             Beside(seen'.identities[i], seen'.identities[j])
      /\ Contiguous(seen'.identities) =>
             \A i \in DOMAIN seen'.identities :
                 seen'.identities[i].sequence = seen'.identities[1].sequence + i - 1
  <2>1. seen'.identities = seen.identities
    BY <1>1
  <2> QED BY <1>3, <2>1
<1>9. /\ \A i \in DOMAIN seen'.identities :
             Beside(seen'.identities[i], wire'["identity"][1])
      /\ Beside(wire'["identity"][1], world') /\ wire'["identity"][1].session <= world'.session
  BY <1>4, <1>6, <1>7 DEF m
<1> QED BY <1>5, <1>8, <1>9 DEF Numbered, Beside, Contiguous

LEMMA FaultsNumber == ASSUME Types, Numbered, Faults PROVE Numbered'
<1> USE NumberTypes
<1>1. UNCHANGED <<wire, seen>>
  BY FaultsDoes
<1>2. \/ world'.session = world.session /\ world'.id = world.id /\ world'.sequence = world.sequence
      \/ world'.session = world.session + 1
  BY DEF Faults, Types, WorldType
<1>3. CASE world'.session = world.session + 1
  <2>1. ASSUME NEW i \in DOMAIN seen.identities
        PROVE  /\ seen.identities[i].session # world'.session
               /\ seen.identities[i].session <= world'.session
    <3>1. seen.identities[i].session \in Nat /\ seen.identities[i].session <= world.session
      BY <2>1 DEF Numbered
    <3> QED BY <1>3, <3>1
  <2>2. wire["identity"] # <<>> =>
            /\ wire["identity"][1].session # world'.session
            /\ wire["identity"][1].session <= world'.session
    BY <1>3 DEF Numbered
  <2>3. /\ \A i \in DOMAIN seen.identities : Beside(seen.identities[i], world')
        /\ wire["identity"] # <<>> => Beside(wire["identity"][1], world')
    BY <2>1, <2>2 DEF Beside
  <2>4. /\ \A i, j \in DOMAIN seen.identities : Beside(seen.identities[i], seen.identities[j])
        /\ wire["identity"] # <<>> =>
               \A i \in DOMAIN seen.identities : Beside(seen.identities[i], wire["identity"][1])
        /\ Contiguous(seen.identities) =>
             \A i \in DOMAIN seen.identities :
                 seen.identities[i].sequence = seen.identities[1].sequence + i - 1
    BY DEF Numbered
  <2> HIDE NumberTypes
  <2> QED BY <1>1, <2>1, <2>2, <2>3, <2>4 DEF Numbered, Beside, Contiguous
<1> QED BY <1>1, <1>2, <1>3, NumberFrame DEF NumberIdle

LEMMA LosesNumber == ASSUME Types, Numbered, Loses("identity") PROVE Numbered'
<1>1. /\ UNCHANGED seen /\ wire'["identity"] = <<>>
      /\ world' = [world EXCEPT !.faults = world.faults + 1]
  BY LosesDoes DEF Topics
<1>2. world'.session = world.session /\ world'.id = world.id /\ world'.sequence = world.sequence
  BY <1>1 DEF Types, WorldType
<1> QED BY <1>1, <1>2 DEF Numbered, Beside, Contiguous

LEMMA IdentityNumber == ASSUME Types, Numbered, IdentityCallback PROVE Numbered'
<1> USE NumberTypes
<1> DEFINE m == wire["identity"][1]
           s == seen.identities
           n == Len(seen.identities)
           u == Append(seen.identities, m)
<1>1. /\ UNCHANGED world /\ wire["identity"] # <<>> /\ wire'["identity"] = <<>>
      /\ seen' = [seen EXCEPT !.identities = u]
  BY IdentityDoes
<1>2. seen'.identities = u
  BY <1>1 DEF Types, SeenType
<1>3. m \in IdentityType /\ s \in Seq(IdentityType)
  BY <1>1, One DEF Types, WireTypes
<1>4. /\ n \in Nat /\ DOMAIN s = 1..n /\ DOMAIN u = 1..(n + 1) /\ u[n + 1] = m
      /\ \A i \in 1..n : u[i] = s[i]
      /\ Len(u) = n + 1
  BY <1>3, Appended
<1>5. /\ m.session <= world.session /\ Beside(m, world)
      /\ \A i \in 1..n : Beside(s[i], m) /\ Beside(s[i], world) /\ s[i].session <= world.session
      /\ \A i, j \in 1..n : Beside(s[i], s[j])
  BY <1>1, <1>4 DEF Numbered
<1>6. /\ \A i \in 1..n : s[i].sequence \in Nat /\ Beside(m, s[i])
      /\ m.sequence \in Nat /\ Beside(m, m)
  BY <1>1, <1>4, <1>5 DEF Beside
<1>7. (\A i \in 1..(n - 1) : s[i + 1].sequence = s[i].sequence + 1) =>
          \A i \in 1..n : s[i].sequence = s[1].sequence + i - 1
  BY <1>4 DEF Numbered, Contiguous
<1> HIDE DEF m, n, s, u
<1>8. \A i, j \in 1..(n + 1) : Beside(u[i], u[j])
  <2>1. ASSUME NEW i \in 1..(n + 1), NEW j \in 1..(n + 1) PROVE Beside(u[i], u[j])
    <3>1. (i \in 1..n \/ i = n + 1) /\ (j \in 1..n \/ j = n + 1)
      BY <1>4
    <3> QED BY <1>4, <1>5, <1>6, <3>1
  <2> QED BY <2>1
<1>9. \A i \in 1..(n + 1) : Beside(u[i], world) /\ u[i].session <= world.session
  <2>1. ASSUME NEW i \in 1..(n + 1) PROVE Beside(u[i], world) /\ u[i].session <= world.session
    <3>1. i \in 1..n \/ i = n + 1
      BY <1>4
    <3> QED BY <1>4, <1>5, <3>1
  <2> QED BY <2>1
<1>10. ASSUME \A i \in 1..n : u[i + 1].sequence = u[i].sequence + 1, NEW i \in 1..(n + 1)
       PROVE  u[i].sequence = u[1].sequence + i - 1
  <2>1. ASSUME NEW k \in 1..(n - 1) PROVE s[k + 1].sequence = s[k].sequence + 1
    <3>1. k \in 1..n /\ k + 1 \in 1..n
      BY <1>4
    <3>2. u[k] = s[k] /\ u[k + 1] = s[k + 1]
      BY <1>4, <3>1
    <3> QED BY <1>10, <3>1, <3>2
  <2>2. \A k \in 1..n : s[k].sequence = s[1].sequence + k - 1
    BY <1>7, <2>1
  <2>3. CASE n = 0
    BY <1>4, <1>6, <2>3
  <2>4. CASE n > 0
    <3>1. 1 \in 1..n /\ n \in 1..n
      BY <1>4, <2>4
    <3>2. u[1] = s[1] /\ u[n] = s[n] /\ s[1].sequence \in Nat /\ s[n].sequence \in Nat
      BY <1>4, <1>6, <3>1
    <3>3. CASE i = n + 1
      <4>1. u[n + 1].sequence = u[n].sequence + 1
        BY <1>10, <3>1
      <4>2. s[n].sequence = s[1].sequence + n - 1
        BY <2>2, <3>1
      <4> QED BY <1>4, <3>2, <3>3, <4>1, <4>2
    <3>4. CASE i \in 1..n
      <4>1. s[i].sequence = s[1].sequence + i - 1
        BY <2>2, <3>4
      <4> QED BY <1>4, <3>2, <3>4, <4>1
    <3> QED BY <1>4, <3>3, <3>4
  <2> QED BY <1>4, <2>3, <2>4
<1>11. Contiguous(u) => \A i \in 1..n : u[i + 1].sequence = u[i].sequence + 1
  <2>1. (n + 1) - 1 = n
    BY <1>4
  <2> QED BY <1>4, <2>1 DEF Contiguous
<1>12. Contiguous(u) => \A i \in 1..(n + 1) : u[i].sequence = u[1].sequence + i - 1
  BY <1>10, <1>11
<1>13. /\ \A i, j \in DOMAIN seen'.identities :
             Beside(seen'.identities[i], seen'.identities[j])
       /\ \A i \in DOMAIN seen'.identities :
             Beside(seen'.identities[i], world') /\ seen'.identities[i].session <= world'.session
  BY <1>1, <1>2, <1>4, <1>8, <1>9
<1>14. Contiguous(seen'.identities) =>
           \A i \in DOMAIN seen'.identities :
               seen'.identities[i].sequence = seen'.identities[1].sequence + i - 1
  BY <1>2, <1>4, <1>12
<1> QED BY <1>1, <1>13, <1>14 DEF Numbered, Beside, Contiguous

LEMMA NumberStep == ASSUME Types, Numbered, [Next]_vars PROVE Numbered'
<1>1. ASSUME NEW t \in Topics, Loses(t) PROVE Numbered'
  BY <1>1, LosesNumber, NumberIdles, NumberFrame
<1>2. ASSUME NEW reason \in {"duration_complete", "ros_shutdown"}, Finish(reason) PROVE Numbered'
  BY <1>2, NumberIdles, NumberFrame
<1>3. ASSUME NEW ready \in BOOLEAN, SaysReady(ready) PROVE Numbered'
  BY <1>3, NumberIdles, NumberFrame
<1> QED BY <1>1, <1>2, <1>3, CorrectsNumber, FaultsNumber, IdentityNumber, NumberIdles, NumberFrame
        DEF Next, Publishers, Callbacks

\* A window that passes saw every correction between the first and the last of one
\* session without a reset, whose mapping was announced: for any number of
\* corrections, losses and faults (IdentityAccumulator, LinkageAccumulator).
THEOREM OneSession == Spec => []PassMeansOneSession
<1>1. Init => Numbered
  BY DEF Init, Numbered, Topics
<1>2. Types /\ Numbered => PassMeansOneSession
  <2> SUFFICES ASSUME Types, Numbered, Passes PROVE PassMeansOneSession
    BY DEF PassMeansOneSession
  <2> USE NumberTypes
  <2> DEFINE s == seen.identities
             n == Len(seen.identities)
             stamps == [i \in DOMAIN seen.identities |-> seen.identities[i].id]
  <2>1. IdentityGate /\ LinkageGate /\ MappingGate
    BY DEF Passes, AllPass
  <2>2. n > 0 /\ n \in Nat /\ 1 \in 1..n /\ DOMAIN s = 1..n
    BY <2>1, Constants DEF IdentityGate
  <2>3. \A i, j \in 1..n : s[i].session = s[j].session /\ s[i].reset = s[j].reset
    BY <2>1, <2>2 DEF IdentityGate, Same, Session, Reset
  <2>4. \A i \in 1..n : s[i].session = seen.mapping.session
    BY <2>1, <2>2 DEF MappingGate
  <2>5. ASSUME NEW i \in 1..n PROVE s[i].id = s[1].id + i - 1 /\ s[i].id \in Nat
    <3>1. Beside(s[i], s[1]) /\ s[i].session = s[1].session
      BY <2>2, <2>3, <2>5 DEF Numbered
    <3>2. s[i].id - s[i].sequence = s[1].id - s[1].sequence
      BY <3>1 DEF Beside
    <3>3. s[i].sequence = s[1].sequence + i - 1
      BY <2>1, <2>2, <2>5 DEF Numbered, IdentityGate
    <3>4. PICK a \in Nat, b \in Nat, c \in Nat, d \in Nat :
              a = s[i].id /\ b = s[1].id /\ c = s[i].sequence /\ d = s[1].sequence
      BY <2>2, <2>5
    <3>5. a - c = b - d /\ c = d + i - 1
      BY <3>2, <3>3, <3>4
    <3>6. i \in Nat
      BY <2>2, <2>5
    <3>7. \A p, q, r, t, k \in Nat : p - r = q - t /\ r = t + k - 1 => p = q + k - 1
      OBVIOUS
    <3>8. a = b + i - 1
      BY <3>5, <3>6, <3>7
    <3> QED BY <3>4, <3>8
  <2>6. ToSet(seen.corrections) = {s[i].id : i \in 1..n}
    BY <2>1, <2>2 DEF LinkageGate, ToSet
  <2> HIDE DEF n, s
  <2>7. ASSUME NEW i \in {s[k].id : k \in 1..n}, NEW j \in {s[k].id : k \in 1..n}, NEW x \in i..j
        PROVE  x \in {s[k].id : k \in 1..n}
    <3>1. PICK a \in 1..n, b \in 1..n : i = s[a].id /\ j = s[b].id
      BY <2>7
    <3>2. PICK f \in Nat : f = s[1].id
      BY <2>2, <2>5
    <3>3. i = f + a - 1 /\ j = f + b - 1
      BY <2>5, <3>1, <3>2
    <3>4. i \in Nat /\ j \in Nat /\ x \in Int /\ i <= x /\ x <= j
      BY <2>2, <2>5, <2>7, <3>1
    <3>5. PICK k \in 1..n : x = f + k - 1
      <4>1. x - f + 1 \in 1..n /\ x = f + (x - f + 1) - 1
        BY <2>2, <3>3, <3>4
      <4> QED BY <4>1
    <3>6. s[k].id = f + k - 1
      BY <2>5, <3>2
    <3> QED BY <3>5, <3>6
  <2>8. \A i, j \in ToSet(seen.corrections) : i..j \subseteq ToSet(seen.corrections)
    BY <2>6, <2>7
  <2> QED BY <2>2, <2>3, <2>4, <2>8 DEF PassMeansOneSession, n, s
<1>3. Types /\ Numbered /\ [Next]_vars => (Types /\ Numbered)'
  BY TypeStep, NumberStep
<1> QED BY <1>1, <1>2, <1>3, TypeInit, PTL DEF Spec

-----------------------------------------------------------------------------
(* The quiet window.                                                       *)

\* What each part of a quiet window is about.
CalmIdle ==
    /\ world'.session = world.session /\ world'.reset = world.reset /\ world'.count = world.count
    /\ world'.pid = world.pid /\ world'.sequence = world.sequence /\ world'.id = world.id
CorrectionIdle ==
    /\ world'.id = world.id /\ wire'["correction"] = wire["correction"]
    /\ seen'.corrections = seen.corrections
IdentityIdle ==
    /\ world'.id = world.id /\ wire'["identity"] = wire["identity"]
    /\ seen'.identities = seen.identities
CompareIdle ==
    /\ world'.check = world.check /\ wire'["domain"] = wire["domain"]
    /\ seen'.domain = seen.domain /\ cache' = cache
ReadyIdle ==
    /\ world'.ready = world.ready /\ wire'["ready"] = wire["ready"] /\ seen'.ready = seen.ready
DiagnosticIdle == held' = held /\ seen'.diag = seen.diag
MappingIdle ==
    /\ wire'["mapping"] = wire["mapping"] /\ seen'.mapping = seen.mapping
    /\ seen.ready.first => seen'.ready.first

LEMMA QuietFrame ==
    /\ Calm /\ CalmIdle => Calm'
    /\ Corrected /\ CorrectionIdle => Corrected'
    /\ Identified /\ IdentityIdle => Identified'
    /\ Compared /\ CompareIdle => Compared'
    /\ Readied /\ ReadyIdle => Readied'
    /\ Diagnosed /\ DiagnosticIdle => Diagnosed'
    /\ Mapped /\ MappingIdle => Mapped'
<1>1. Calm /\ CalmIdle => Calm'  BY DEF Calm, CalmIdle
<1>2. Corrected /\ CorrectionIdle => Corrected'  BY DEF Corrected, CorrectionIdle
<1>3. Identified /\ IdentityIdle => Identified'  BY DEF Identified, IdentityIdle
<1>4. Compared /\ CompareIdle => Compared'  BY DEF Compared, CompareIdle
<1>5. Readied /\ ReadyIdle => Readied'  BY DEF Readied, ReadyIdle
<1>6. Diagnosed /\ DiagnosticIdle => Diagnosed'  BY DEF Diagnosed, DiagnosticIdle
<1>7. Mapped /\ MappingIdle => Mapped'  BY DEF Mapped, MappingIdle
<1> QED BY <1>1, <1>2, <1>3, <1>4, <1>5, <1>6, <1>7

\* Topics enumerated, for the steps that say which of them are left alone.
LEMMA QuietTopics ==
    /\ Topics = {"correction", "identity", "ready", "mapping", "domain"}
    /\ Types => world \in WorldType /\ seen \in SeenType
BY DEF Topics, Types

LEMMA CorrectsQuiet == ASSUME Types, Undisturbed, Corrects PROVE Undisturbed'
<1> USE DEF Undisturbed
<1>1. /\ UNCHANGED <<held, seen, cache>>
      /\ world'.id = world.id + 1 /\ world'.sequence = world.sequence + 1
      /\ world'.session = world.session /\ world'.reset = world.reset
      /\ world'.count = world.count /\ world'.pid = world.pid
      /\ world'.check = world.check /\ world'.ready = world.ready
      /\ wire["correction"] = <<>> /\ wire["identity"] = <<>>
      /\ Len(wire'["correction"]) = 1 /\ wire'["correction"][1] = world'.id
      /\ Len(wire'["identity"]) = 1
      /\ wire'["identity"][1] = [id |-> world'.id, session |-> world.session,
                                 reset |-> world.reset, sequence |-> world'.sequence]
      /\ wire'["ready"] = wire["ready"] /\ wire'["mapping"] = wire["mapping"]
      /\ wire'["domain"] = wire["domain"]
  BY CorrectsDoes, QuietTopics
<1>2. world.id \in Nat /\ Len(seen.corrections) \in Nat /\ Len(seen.identities) \in Nat
  BY LenProperties DEF Types, WorldType, SeenType
<1>3. Len(seen.corrections) = world.id /\ Len(seen.identities) = world.id
  <2>1. Len(wire["correction"]) = 0 /\ Len(wire["identity"]) = 0
    BY <1>1, EmptySeq
  <2> QED BY <1>2, <2>1 DEF Corrected, Identified
<1>4. Calm'
  BY <1>1 DEF Calm
<1>5. Corrected'
  <2>1. Len(seen'.corrections) + Len(wire'["correction"]) = world'.id
    BY <1>1, <1>2, <1>3
  <2> QED BY <1>1, <2>1 DEF Corrected
<1>6. Identified'
  <2>1. Len(seen'.identities) + Len(wire'["identity"]) = world'.id
    BY <1>1, <1>2, <1>3
  <2>2. wire'["identity"][1] = [id |-> world'.id, session |-> 0, reset |-> 0, sequence |-> world'.id]
    BY <1>1 DEF Calm
  <2> QED BY <1>1, <2>1, <2>2 DEF Identified
<1>7. Compared' /\ Readied' /\ Diagnosed' /\ Mapped'
  BY <1>1, QuietFrame DEF CompareIdle, ReadyIdle, DiagnosticIdle, MappingIdle
<1> QED BY <1>4, <1>5, <1>6, <1>7

LEMMA AnnouncesQuiet == ASSUME Types, Undisturbed, Announces PROVE Undisturbed'
<1> USE DEF Undisturbed
<1>1. /\ UNCHANGED <<held, seen, cache>> /\ world' = [world EXCEPT !.announced = world.session]
      /\ wire'["mapping"][1] = world.session
      /\ wire'["correction"] = wire["correction"] /\ wire'["identity"] = wire["identity"]
      /\ wire'["domain"] = wire["domain"] /\ wire'["ready"] = wire["ready"]
  BY AnnouncesDoes, QuietTopics
<1>2. CalmIdle /\ world'.check = world.check /\ world'.ready = world.ready
  BY <1>1, QuietTopics DEF WorldType, CalmIdle
<1>3. Mapped'
  BY <1>1 DEF Mapped, Calm
<1>4. /\ CorrectionIdle /\ IdentityIdle /\ CompareIdle /\ ReadyIdle /\ DiagnosticIdle
  BY <1>1, <1>2 DEF CalmIdle, CorrectionIdle, IdentityIdle, CompareIdle, ReadyIdle, DiagnosticIdle
<1> QED BY <1>2, <1>3, <1>4, QuietFrame

LEMMA ReadyQuiet == ASSUME Types, Undisturbed, SaysReady(TRUE) PROVE Undisturbed'
<1> USE DEF Undisturbed
<1>1. /\ UNCHANGED <<held, seen, cache>>
      /\ world' = [world EXCEPT !.ready = TRUE,
                                !.faults = IF TRUE THEN world.faults ELSE world.faults + 1]
      /\ wire["ready"] = <<>> /\ Len(wire'["ready"]) = 1 /\ wire'["ready"][1] = TRUE
      /\ wire'["correction"] = wire["correction"] /\ wire'["identity"] = wire["identity"]
      /\ wire'["domain"] = wire["domain"] /\ wire'["mapping"] = wire["mapping"]
  BY SaysReadyDoes, QuietTopics
<1>2. CalmIdle /\ world'.check = world.check /\ world'.ready = TRUE
  BY <1>1, QuietTopics DEF WorldType, CalmIdle
<1>3. ~world.ready
  BY QuietTopics DEF SaysReady, WorldType
<1>4. Readied'
  <2>1. ~seen.ready.first
    BY <1>3 DEF Readied
  <2>2. wire'["ready"] # <<>>
    BY <1>1, EmptySeq
  <2> QED BY <1>1, <1>2, <2>1, <2>2 DEF Readied
<1>5. /\ CorrectionIdle /\ IdentityIdle /\ CompareIdle /\ DiagnosticIdle /\ MappingIdle
  BY <1>1, <1>2 DEF CalmIdle, CorrectionIdle, IdentityIdle, CompareIdle, DiagnosticIdle, MappingIdle
<1> QED BY <1>2, <1>4, <1>5, QuietFrame

LEMMA ComparesQuiet == ASSUME Types, Undisturbed, Compares PROVE Undisturbed'
<1> USE DEF Undisturbed
<1>1. /\ UNCHANGED <<held, seen, cache>> /\ world' = [world EXCEPT !.check = world.check + 1]
      /\ world'.check = world.check + 1
      /\ wire["domain"] = <<>> /\ Len(wire'["domain"]) = 1
      /\ wire'["domain"][1] = [session |-> world.session, reset |-> world.reset,
                               sequence |-> world'.check, pid |-> world.pid]
      /\ wire'["correction"] = wire["correction"] /\ wire'["identity"] = wire["identity"]
      /\ wire'["ready"] = wire["ready"] /\ wire'["mapping"] = wire["mapping"]
  BY ComparesDoes, QuietTopics
<1>2. CalmIdle /\ world'.ready = world.ready
  BY <1>1, QuietTopics DEF WorldType, CalmIdle
<1>3. Compared'
  <2>1. Len(wire["domain"]) = 0 /\ Len(seen.domain) \in Nat /\ world.check \in Nat
    BY <1>1, EmptySeq, LenProperties DEF Types, WorldType, SeenType
  <2>2. Len(seen'.domain) + Len(wire'["domain"]) = world'.check
    BY <1>1, <2>1 DEF Compared
  <2>3. wire'["domain"][1] = [session |-> 0, reset |-> 0, sequence |-> world'.check, pid |-> 0]
    BY <1>1 DEF Calm
  <2> QED BY <1>1, <2>2, <2>3 DEF Compared
<1>4. /\ CorrectionIdle /\ IdentityIdle /\ ReadyIdle /\ DiagnosticIdle /\ MappingIdle
  BY <1>1, <1>2 DEF CalmIdle, CorrectionIdle, IdentityIdle, ReadyIdle, DiagnosticIdle, MappingIdle
<1> QED BY <1>2, <1>3, <1>4, QuietFrame

LEMMA StreamQuiet == ASSUME Types, Undisturbed, StreamCallback PROVE Undisturbed'
<1> USE DEF Undisturbed
<1> DEFINE n == Len(seen.corrections)
           m == wire["correction"][1]
           u == Append(seen.corrections, m)
<1>1. /\ UNCHANGED <<world, held, cache>> /\ seen' = [seen EXCEPT !.corrections = u]
      /\ Len(wire["correction"]) = 1 /\ wire'["correction"] = <<>>
      /\ wire'["identity"] = wire["identity"] /\ wire'["domain"] = wire["domain"]
      /\ wire'["ready"] = wire["ready"] /\ wire'["mapping"] = wire["mapping"]
  BY StreamDoes, QuietTopics
<1>2. /\ seen'.corrections = u /\ seen'.identities = seen.identities
      /\ seen'.domain = seen.domain /\ seen'.ready = seen.ready /\ seen'.diag = seen.diag
      /\ seen'.mapping = seen.mapping
  BY <1>1, QuietTopics DEF SeenType
<1>3. /\ n \in Nat /\ DOMAIN seen.corrections = 1..n /\ DOMAIN u = 1..(n + 1) /\ Len(u) = n + 1
      /\ u[n + 1] = m /\ \A i \in 1..n : u[i] = seen.corrections[i]
  <2>1. seen.corrections \in Seq(Nat) /\ m \in Nat
    BY SMTT(30), <1>1, One, EmptySeq DEF Types, WireTypes, SeenType
  <2> QED BY <2>1, Appended, LenProperties
<1>4. n + 1 = world.id /\ m = world.id
  <2>1. wire["correction"] # <<>>
    BY SMTT(30), <1>1, EmptySeq
  <2> QED BY <1>1, <2>1 DEF Corrected
<1> HIDE DEF n, m, u
<1>5. Corrected'
  <2>1. \A i \in 1..(n + 1) : u[i] = i
    <3>1. \A i \in 1..n : seen.corrections[i] = i
      BY <1>3 DEF Corrected
    <3>2. \A i \in 1..(n + 1) : i \in 1..n \/ i = n + 1
      BY <1>3
    <3> QED BY <1>3, <1>4, <3>1, <3>2
  <2>2. Len(u) + Len(<<>>) = world.id
    BY <1>3, <1>4, EmptySeq
  <2> QED BY <1>1, <1>2, <1>3, <2>1, <2>2 DEF Corrected
<1>6. CalmIdle /\ IdentityIdle /\ CompareIdle /\ ReadyIdle /\ DiagnosticIdle /\ MappingIdle
  BY <1>1, <1>2 DEF CalmIdle, IdentityIdle, CompareIdle, ReadyIdle, DiagnosticIdle, MappingIdle
<1> QED BY <1>5, <1>6, QuietFrame

LEMMA IdentityQuiet == ASSUME Types, Undisturbed, IdentityCallback PROVE Undisturbed'
<1> USE DEF Undisturbed
<1> DEFINE n == Len(seen.identities)
           m == wire["identity"][1]
           u == Append(seen.identities, m)
<1>1. /\ UNCHANGED <<world, held, cache>> /\ seen' = [seen EXCEPT !.identities = u]
      /\ Len(wire["identity"]) = 1 /\ wire["identity"] # <<>> /\ wire'["identity"] = <<>>
      /\ m \in IdentityType
      /\ wire'["correction"] = wire["correction"] /\ wire'["domain"] = wire["domain"]
      /\ wire'["ready"] = wire["ready"] /\ wire'["mapping"] = wire["mapping"]
  BY IdentityDoes, QuietTopics
<1>2. /\ seen'.identities = u /\ seen'.corrections = seen.corrections
      /\ seen'.domain = seen.domain /\ seen'.ready = seen.ready /\ seen'.diag = seen.diag
      /\ seen'.mapping = seen.mapping
  BY <1>1, QuietTopics DEF SeenType
<1>3. /\ n \in Nat /\ DOMAIN seen.identities = 1..n /\ DOMAIN u = 1..(n + 1) /\ Len(u) = n + 1
      /\ u[n + 1] = m /\ \A i \in 1..n : u[i] = seen.identities[i]
  <2>1. seen.identities \in Seq(IdentityType)
    BY DEF Types, SeenType
  <2> QED BY <1>1, <2>1, Appended, LenProperties
<1>4. /\ n + 1 = world.id
      /\ m = [id |-> world.id, session |-> 0, reset |-> 0, sequence |-> world.id]
  BY <1>1 DEF Identified
<1> HIDE DEF n, m, u
<1>5. Identified'
  <2>1. \A i \in 1..(n + 1) : u[i] = [id |-> i, session |-> 0, reset |-> 0, sequence |-> i]
    <3>1. \A i \in 1..n :
              seen.identities[i] = [id |-> i, session |-> 0, reset |-> 0, sequence |-> i]
      BY <1>3 DEF Identified
    <3>2. \A i \in 1..(n + 1) : i \in 1..n \/ i = n + 1
      BY <1>3
    <3> QED BY <1>3, <1>4, <3>1, <3>2
  <2>2. Len(u) + Len(<<>>) = world.id
    BY <1>3, <1>4, EmptySeq
  <2> QED BY <1>1, <1>2, <1>3, <2>1, <2>2 DEF Identified
<1>6. CalmIdle /\ CorrectionIdle /\ CompareIdle /\ ReadyIdle /\ DiagnosticIdle /\ MappingIdle
  BY <1>1, <1>2 DEF CalmIdle, CorrectionIdle, CompareIdle, ReadyIdle, DiagnosticIdle, MappingIdle
<1> QED BY <1>5, <1>6, QuietFrame

LEMMA DomainQuiet == ASSUME Types, Undisturbed, DomainCallback PROVE Undisturbed'
<1> USE DEF Undisturbed
<1> DEFINE n == Len(seen.domain)
           m == wire["domain"][1]
<1>1. /\ UNCHANGED <<world, held>> /\ seen' = [seen EXCEPT !.domain = seen'.domain]
      /\ wire["domain"] # <<>> /\ Len(wire["domain"]) = 1 /\ wire'["domain"] = <<>>
      /\ wire'["correction"] = wire["correction"] /\ wire'["identity"] = wire["identity"]
      /\ wire'["ready"] = wire["ready"] /\ wire'["mapping"] = wire["mapping"]
      /\ cache' = IF cache = None THEN world.pid ELSE cache
      /\ Len(seen'.domain) = n + 1
      /\ seen'.domain[n + 1] = [session |-> m.session, reset |-> m.reset,
                               sequence |-> m.sequence, runtime |-> cache']
      /\ \A i \in DOMAIN seen.domain : seen'.domain[i] = seen.domain[i]
  BY DomainDoes, QuietTopics
<1>2. /\ seen'.corrections = seen.corrections /\ seen'.identities = seen.identities
      /\ seen'.ready = seen.ready /\ seen'.diag = seen.diag /\ seen'.mapping = seen.mapping
  BY <1>1, QuietTopics DEF SeenType
<1>3. n \in Nat /\ DOMAIN seen.domain = 1..n /\ DOMAIN seen'.domain = 1..(n + 1)
  <2>1. seen.domain \in Seq(DomainType) /\ seen'.domain \in Seq(DomainType)
    BY DomainDoes DEF Types, SeenType
  <2> QED BY <1>1, <2>1, LenProperties
<1>4. /\ n + 1 = world.check /\ cache' = 0
      /\ m = [session |-> 0, reset |-> 0, sequence |-> world.check, pid |-> 0]
  BY <1>1 DEF Compared, Calm
<1>5. seen'.domain[n + 1] = [session |-> 0, reset |-> 0, sequence |-> n + 1, runtime |-> 0]
  BY <1>1, <1>4
<1> HIDE DEF n, m
<1>6. Compared'
  <2>1. \A i \in 1..(n + 1) :
            seen'.domain[i] = [session |-> 0, reset |-> 0, sequence |-> i, runtime |-> 0]
    <3>1. \A i \in 1..n :
              seen.domain[i] = [session |-> 0, reset |-> 0, sequence |-> i, runtime |-> 0]
      BY <1>3 DEF Compared
    <3>2. \A i \in 1..(n + 1) : i \in 1..n \/ i = n + 1
      BY <1>3
    <3> QED BY <1>1, <1>3, <1>5, <3>1, <3>2
  <2>2. Len(seen'.domain) + Len(<<>>) = world.check
    BY <1>1, <1>3, <1>4, EmptySeq
  <2> QED BY <1>1, <1>3, <1>4, <2>1, <2>2 DEF Compared
<1>7. CalmIdle /\ CorrectionIdle /\ IdentityIdle /\ ReadyIdle /\ DiagnosticIdle /\ MappingIdle
  BY <1>1, <1>2 DEF CalmIdle, CorrectionIdle, IdentityIdle, ReadyIdle, DiagnosticIdle, MappingIdle
<1> QED BY <1>6, <1>7, QuietFrame

LEMMA ReadyCallbackQuiet ==
    ASSUME Types, Undisturbed, ReadyCallback \/ ReadyIsStable PROVE Undisturbed'
<1> USE DEF Undisturbed
<1>1. /\ UNCHANGED <<world, held, cache>> /\ seen' = [seen EXCEPT !.ready = seen'.ready]
      /\ wire'["correction"] = wire["correction"] /\ wire'["identity"] = wire["identity"]
      /\ wire'["domain"] = wire["domain"] /\ wire'["mapping"] = wire["mapping"]
  <2>1. CASE ReadyCallback  BY <2>1, ReadyDoes, QuietTopics
  <2>2. CASE ReadyIsStable  BY <2>2, StableDoes
  <2> QED BY <2>1, <2>2
<1>2. /\ seen'.corrections = seen.corrections /\ seen'.identities = seen.identities
      /\ seen'.domain = seen.domain /\ seen'.diag = seen.diag /\ seen'.mapping = seen.mapping
  BY <1>1, QuietTopics DEF SeenType
<1>3. Readied' /\ (seen.ready.first => seen'.ready.first)
  <2>1. CASE ReadyCallback
    <3>1. /\ wire["ready"][1] \in BOOLEAN /\ wire["ready"] # <<>> /\ wire'["ready"] = <<>>
          /\ seen'.ready.first <=> seen.ready.first \/ wire["ready"][1]
          /\ seen'.ready.dropped <=> seen.ready.dropped \/ (seen.ready.first /\ ~wire["ready"][1])
          /\ seen'.ready.last <=> wire["ready"][1]
          /\ seen'.ready.stable <=> seen.ready.stable
      BY <2>1, ReadyDoes
    <3> QED BY <1>1, <3>1, Zenon DEF Readied
  <2>2. CASE ReadyIsStable
    <3>1. wire' = wire /\ seen.ready.first /\ seen'.ready = [seen.ready EXCEPT !.stable = TRUE]
      BY <2>2, StableDoes
    <3>2. /\ seen'.ready.first = seen.ready.first /\ seen'.ready.last = seen.ready.last
          /\ seen'.ready.dropped = seen.ready.dropped
      BY <3>1, QuietTopics DEF SeenType
    <3> QED BY <1>1, <3>1, <3>2, Zenon DEF Readied
  <2> QED BY <2>1, <2>2
<1>4. /\ CalmIdle /\ CorrectionIdle /\ IdentityIdle /\ CompareIdle /\ DiagnosticIdle
      /\ MappingIdle
  BY <1>1, <1>2, <1>3
     DEF CalmIdle, CorrectionIdle, IdentityIdle, CompareIdle, DiagnosticIdle, MappingIdle
<1> QED BY <1>3, <1>4, QuietFrame

LEMMA DiagnosticQuiet ==
    ASSUME Types, Undisturbed, DiagnosticArrives \/ DiagnosticRecorded PROVE Undisturbed'
<1> USE DEF Undisturbed
<1>1. UNCHANGED <<world, wire, cache>> /\ (seen' = seen \/ seen' = [seen EXCEPT !.diag = seen'.diag])
  <2>1. CASE DiagnosticArrives  BY <2>1, ArrivesDoes
  <2>2. CASE DiagnosticRecorded  BY <2>2, RecordedDoes
  <2> QED BY <2>1, <2>2
<1>2. /\ seen'.corrections = seen.corrections /\ seen'.identities = seen.identities
      /\ seen'.domain = seen.domain /\ seen'.ready = seen.ready /\ seen'.mapping = seen.mapping
  BY <1>1, QuietTopics DEF SeenType
<1>3. Diagnosed'
  <2>1. CASE DiagnosticArrives
    <3>1. /\ seen' = seen /\ held'[1].ready = world.ready /\ held'[1].count = world.count
          /\ held'[1].afterReady = seen.ready.first
      BY <2>1, ArrivesDoes
    <3> QED BY <3>1, Zenon DEF Diagnosed, Readied, Calm
  <2>2. CASE DiagnosticRecorded
    <3>1. held # <<>> /\ held' = <<>> /\ (~held[1].afterReady => seen' = seen)
      BY <2>2, RecordedDoes
    <3>2. held[1].afterReady =>
             /\ seen'.diag.base = IF seen.diag.n = 0 THEN held[1].count ELSE seen.diag.base
             /\ seen'.diag.clean <=>
                    seen.diag.clean /\ held[1].ready /\ held[1].count = seen'.diag.base
      BY <2>2, RecordedDoes
    <3>3. held[1].count = 0 /\ (held[1].afterReady => held[1].ready)
      BY <3>1 DEF Diagnosed
    <3>4. CASE held[1].afterReady
      <4>1. seen'.diag.base = 0
        BY <3>2, <3>3, <3>4 DEF Diagnosed
      <4> QED BY <3>1, <3>2, <3>3, <3>4, <4>1, Zenon DEF Diagnosed
    <3> QED BY <3>1, <3>4, Zenon DEF Diagnosed
  <2> QED BY <2>1, <2>2
<1>4. CalmIdle /\ CorrectionIdle /\ IdentityIdle /\ CompareIdle /\ ReadyIdle /\ MappingIdle
  BY <1>1, <1>2 DEF CalmIdle, CorrectionIdle, IdentityIdle, CompareIdle, ReadyIdle, MappingIdle
<1> QED BY <1>3, <1>4, QuietFrame

LEMMA MappingQuiet == ASSUME Types, Undisturbed, MappingCallback PROVE Undisturbed'
<1> USE DEF Undisturbed
<1>1. /\ UNCHANGED <<world, held, cache>>
      /\ wire["mapping"] # <<>> /\ wire'["mapping"] = <<>>
      /\ wire'["correction"] = wire["correction"] /\ wire'["identity"] = wire["identity"]
      /\ wire'["domain"] = wire["domain"] /\ wire'["ready"] = wire["ready"]
      /\ \/ seen' = seen
         \/ /\ seen' = [seen EXCEPT !.mapping = seen'.mapping]
            /\ seen'.mapping = [session |-> wire["mapping"][1], stable |-> seen.ready.stable]
  BY MappingDoes, QuietTopics
<1>2. /\ seen'.corrections = seen.corrections /\ seen'.identities = seen.identities
      /\ seen'.domain = seen.domain /\ seen'.ready = seen.ready /\ seen'.diag = seen.diag
  BY <1>1, QuietTopics DEF SeenType
<1>3. Mapped'
  <2>1. CASE seen' = seen
    BY <1>1, <2>1 DEF Mapped
  <2>2. CASE seen'.mapping = [session |-> wire["mapping"][1], stable |-> seen.ready.stable]
    <3>1. seen'.mapping.session = wire["mapping"][1] /\ seen'.mapping.stable = seen.ready.stable
      BY <2>2
    <3>2. wire["mapping"][1] = 0
      BY <1>1 DEF Mapped
    <3> QED BY <1>1, <1>2, <3>1, <3>2, Zenon DEF Mapped, Readied
  <2> QED BY <1>1, <2>1, <2>2
<1>4. CalmIdle /\ CorrectionIdle /\ IdentityIdle /\ CompareIdle /\ ReadyIdle /\ DiagnosticIdle
  BY <1>1, <1>2 DEF CalmIdle, CorrectionIdle, IdentityIdle, CompareIdle, ReadyIdle, DiagnosticIdle
<1> QED BY <1>3, <1>4, QuietFrame

LEMMA FaultCount ==
    ASSUME Types
    PROVE  /\ ReadyCallback \/ StreamCallback \/ IdentityCallback \/ DomainCallback
                  \/ MappingCallback \/ DiagnosticArrives \/ DiagnosticRecorded \/ ReadyIsStable
              => world'.faults = world.faults
           /\ Corrects \/ Announces \/ Compares \/ SaysReady(TRUE) => world'.faults = world.faults
           /\ Faults \/ SaysReady(FALSE) \/ (\E t \in Topics : Loses(t)) => world'.faults # 0
<1> USE DEF WorldType
<1>1. world \in WorldType /\ world.faults \in Nat
  BY DEF Types
<1>2. /\ ReadyCallback \/ StreamCallback \/ IdentityCallback \/ DomainCallback
            \/ MappingCallback \/ DiagnosticArrives \/ DiagnosticRecorded \/ ReadyIsStable
        => world'.faults = world.faults
  BY DEF ReadyCallback, StreamCallback, IdentityCallback, DomainCallback, MappingCallback,
         DiagnosticArrives, DiagnosticRecorded, ReadyIsStable
<1>3. Corrects => world'.faults = world.faults
  BY CorrectsDoes
<1>4. Announces => world'.faults = world.faults
  BY <1>1 DEF Announces
<1>5. Compares => world'.faults = world.faults
  BY <1>1 DEF Compares
<1>6. SaysReady(TRUE) => world'.faults = world.faults
  BY <1>1 DEF SaysReady
<1>7. SaysReady(FALSE) => world'.faults # 0
  BY <1>1 DEF SaysReady
<1>8. Faults => world'.faults # 0
  BY <1>1, FaultsDoes
<1>9. ASSUME NEW t \in Topics, Loses(t) PROVE world'.faults # 0
  BY <1>1, <1>9 DEF Loses
<1> QED BY <1>2, <1>3, <1>4, <1>5, <1>6, <1>7, <1>8, <1>9

LEMMA QuietStep == ASSUME Types, QuietSoFar, [Next]_vars PROVE QuietSoFar'
<1> SUFFICES ASSUME world'.faults = 0 PROVE Undisturbed'
  BY DEF QuietSoFar
<1>1. ASSUME NEW reason \in {"duration_complete", "ros_shutdown"}, Finish(reason)
      PROVE  UNCHANGED <<world, wire, held, seen, cache>>
  BY <1>1 DEF Finish
<1>2. CASE UNCHANGED <<world, wire, held, seen, cache>>
  BY ZenonT(60), <1>2 DEF QuietSoFar, Undisturbed, Calm, Corrected, Identified, Compared, Readied, Diagnosed,
              Mapped
<1>3. UNCHANGED vars => UNCHANGED <<world, wire, held, seen, cache>>
  BY DEF vars
<1>4. ASSUME NEW ready \in BOOLEAN, SaysReady(ready) PROVE Undisturbed'
  <2>1. CASE ready = TRUE
    <3>1. SaysReady(TRUE)
      BY <1>4, <2>1
    <3> QED BY <3>1, FaultCount, ReadyQuiet DEF QuietSoFar
  <2>2. CASE ready = FALSE
    <3>1. SaysReady(FALSE)
      BY <1>4, <2>2
    <3> QED BY <3>1, FaultCount
  <2> QED BY <2>1, <2>2
<1> QED BY <1>1, <1>2, <1>3, <1>4, FaultCount, CorrectsQuiet, AnnouncesQuiet, ComparesQuiet,
           StreamQuiet, IdentityQuiet, DomainQuiet, ReadyCallbackQuiet, DiagnosticQuiet, MappingQuiet
        DEF QuietSoFar, Next, Publishers, Callbacks

\* No modelled gate refuses a quiet window that ran its time, saw enough and
\* whose messages came near each other, whatever the order in which the topics
\* were delivered: for any number of corrections, checks and diagnostics
\* (vio_shadow_preflight.py, finish).
THEOREM QuietPasses == Spec => []QuietWindowPasses
<1>1. Init => QuietSoFar
  <2> SUFFICES ASSUME Init PROVE Undisturbed
    BY DEF QuietSoFar
  <2>1. PICK first \in {<<>>, <<FALSE>>} :
            wire = [t \in Topics |-> IF t = "ready" THEN first ELSE <<>>]
    BY DEF Init
  <2>2. /\ wire["correction"] = <<>> /\ wire["identity"] = <<>> /\ wire["domain"] = <<>>
        /\ wire["mapping"] = <<>> /\ (wire["ready"] # <<>> => wire["ready"][1] = FALSE)
    <3>1. first # <<>> => first[1] = FALSE
      <4>1. first # <<>> => first = <<FALSE>>
        OBVIOUS
      <4>2. <<FALSE>>[1] = FALSE
        OBVIOUS
      <4> QED BY <4>1, <4>2, Zenon
    <3>2. \A t \in Topics : wire[t] = IF t = "ready" THEN first ELSE <<>>
      BY <2>1
    <3>3. wire["ready"] = first
      BY <3>2 DEF Topics
    <3>4. /\ wire["correction"] = <<>> /\ wire["identity"] = <<>> /\ wire["domain"] = <<>>
          /\ wire["mapping"] = <<>>
      BY <3>2 DEF Topics
    <3> QED BY <3>1, <3>3, <3>4
  <2>3. Len(<<>>) = 0
    BY EmptySeq
  <2> QED BY <2>2, <2>3
          DEF Init, Undisturbed, Calm, Corrected, Identified, Compared, Readied, Diagnosed, Mapped
<1>2. Types /\ QuietSoFar => QuietWindowPasses
  <2> SUFFICES ASSUME Types, Undisturbed, window = "duration_complete", Quiet, near,
                      Len(seen.corrections) >= MinSamples, Len(seen.domain) >= 2,
                      seen.diag.n >= 2, seen.diag.before >= MinDiag, seen.mapping.stable
               PROVE  AllPass
    BY DEF QuietWindowPasses, QuietSoFar, Quiet, Passes
  <2> USE DEF Undisturbed
  <2> DEFINE n == world.id
             k == world.check
  <2>1. /\ wire["correction"] = <<>> /\ wire["identity"] = <<>> /\ wire["domain"] = <<>>
    BY DEF Quiet, Topics
  <2>2. n \in Nat /\ k \in Nat /\ Len(seen.corrections) \in Nat /\ Len(seen.identities) \in Nat
        /\ Len(seen.domain) \in Nat /\ DOMAIN seen.corrections = 1..Len(seen.corrections)
        /\ DOMAIN seen.identities = 1..Len(seen.identities)
        /\ DOMAIN seen.domain = 1..Len(seen.domain)
    BY LenProperties DEF Types, WorldType, SeenType
  <2>3. Len(seen.corrections) = n /\ Len(seen.identities) = n /\ Len(seen.domain) = k
    <3>1. Len(<<>>) = 0
      BY EmptySeq
    <3> QED BY <2>1, <2>2, <3>1 DEF Corrected, Identified, Compared
  <2>4. /\ \A i \in 1..n : seen.corrections[i] = i
        /\ \A i \in 1..n :
               seen.identities[i] = [id |-> i, session |-> 0, reset |-> 0, sequence |-> i]
        /\ \A i \in 1..k :
               seen.domain[i] = [session |-> 0, reset |-> 0, sequence |-> i, runtime |-> 0]
    BY <2>2, <2>3 DEF Corrected, Identified, Compared
  <2>5. seen.mapping.session = 0 /\ seen.ready.first
    BY DEF Mapped
  <2> HIDE DEF n, k
  <2>11. \A i \in 1..n : /\ seen.identities[i].id = i /\ seen.identities[i].session = 0
                        /\ seen.identities[i].reset = 0 /\ seen.identities[i].sequence = i
    <3>1. ASSUME NEW i \in 1..n
          PROVE  /\ seen.identities[i].id = i /\ seen.identities[i].session = 0
                 /\ seen.identities[i].reset = 0 /\ seen.identities[i].sequence = i
      <4>1. seen.identities[i] = [id |-> i, session |-> 0, reset |-> 0, sequence |-> i]
        BY <2>4, <3>1
      <4> QED BY <4>1
    <3> QED BY <3>1
  <2>12. \A i \in 1..k : /\ seen.domain[i].session = 0 /\ seen.domain[i].reset = 0
                        /\ seen.domain[i].sequence = i /\ seen.domain[i].runtime = 0
    <3>1. ASSUME NEW i \in 1..k
          PROVE  /\ seen.domain[i].session = 0 /\ seen.domain[i].reset = 0
                 /\ seen.domain[i].sequence = i /\ seen.domain[i].runtime = 0
      <4>1. seen.domain[i] = [session |-> 0, reset |-> 0, sequence |-> i, runtime |-> 0]
        BY <2>4, <3>1
      <4> QED BY <4>1
    <3> QED BY <3>1
  <2>6. IdentityGate
    <3>1. Same(Session, seen.identities) /\ Same(Reset, seen.identities)
      BY <2>2, <2>3, <2>11 DEF Same, Session, Reset
    <3>2. ASSUME NEW i \in 1..(n - 1)
          PROVE  seen.identities[i + 1].sequence = seen.identities[i].sequence + 1
      <4>1. i \in 1..n /\ i + 1 \in 1..n
        BY <2>2
      <4> QED BY <2>11, <4>1
    <3>3. Contiguous(seen.identities) /\ Len(seen.identities) >= MinSamples
      BY <2>2, <2>3, <3>2 DEF Contiguous
    <3> QED BY <3>1, <3>3 DEF IdentityGate
  <2>7. LinkageGate
    <3> DEFINE stamps == [i \in DOMAIN seen.identities |-> seen.identities[i].id]
    <3>1. DOMAIN stamps = 1..n /\ \A i \in 1..n : stamps[i] = i
      BY <2>2, <2>3, <2>11
    <3> HIDE DEF stamps
    <3>2. IsInjective(seen.corrections) /\ IsInjective(stamps)
      BY <2>2, <2>3, <2>4, <3>1 DEF IsInjective
    <3>3. ToSet(seen.corrections) = 1..n /\ ToSet(stamps) = 1..n
      BY <2>2, <2>3, <2>4, <3>1 DEF ToSet
    <3>4. Len(seen.corrections) = Len(seen.identities) /\ ToSet(seen.corrections) = ToSet(stamps)
      BY <2>3, <3>3
    <3> QED BY <3>2, <3>4, Zenon DEF LinkageGate, stamps
  <2>8. ReadyGate /\ DiagnosticGate
    BY <2>5, Zenon DEF ReadyGate, DiagnosticGate, Readied, Diagnosed
  <2>9. MappingGate
    BY <2>2, <2>3, <2>5, <2>11 DEF MappingGate, None
  <2>10. DomainGate
    BY <2>2, <2>3, <2>11, <2>12 DEF DomainGate, Same, Runtime, Contiguous
  <2> QED BY <2>6, <2>7, <2>8, <2>9, <2>10 DEF AllPass
<1>3. Types /\ QuietSoFar /\ [Next]_vars => (Types /\ QuietSoFar)'
  BY TypeStep, QuietStep
<1> QED BY <1>1, <1>2, <1>3, TypeInit, PTL DEF Spec
=============================================================================
