--------------------------- MODULE EvidenceProofs ---------------------------
(***************************************************************************)
(* What is proved of the two verdicts of collect, for any number of        *)
(* parameters, messages, exchanges and faults.  The parameters and the     *)
(* timesync have an invariant each; neither mentions the other's state.    *)
(***************************************************************************)
EXTENDS Evidence, SequenceTheorems, FiniteSetTheorems, TLAPS

-----------------------------------------------------------------------------
(* The timesync: its types.                                                *)

TopicNames == {"status", "accepts"}
ExchangeType ==
    [id : Nat, epoch : Nat, remote : Nat, ok : BOOLEAN, sequence : Nat, converged : BOOLEAN,
     before : Nat \X Nat, estimate : Nat \X Nat]
SourceType == [id : Nat, epoch : Nat, remote : Nat, accepted : Nat, faults : Nat]
CaptureType ==
    [pc : {"connecting", "capturing", "complete", "exit 0", "exit 3"},
     grace : {"none", "running", "over"}]

\* The filter, the topics, the captured samples and the process have their types.
TimesyncTypes ==
    /\ source \in SourceType
    /\ wire \in [TopicNames -> Seq(ExchangeType)]
    /\ status \in Seq(ExchangeType) /\ accepts \in Seq(ExchangeType)
    /\ diag \in [n : Nat, ok : BOOLEAN]
    /\ capture \in CaptureType

Published ==
    Range(status) \cup Range(accepts) \cup Range(wire["status"]) \cup Range(wire["accepts"])

\* Within one run of the flight controller's clock a remote stamp names an
\* exchange, and an exchange begins with the offset the one before it left.
Dated(m) ==
    /\ m.epoch <= source.epoch /\ (m.epoch = source.epoch => m.remote < source.remote)
    /\ m.before[1] = m.epoch /\ m.estimate[1] = m.epoch
    /\ m.converged <=> m.sequence >= Window
    /\ m.epoch = source.epoch /\ m.remote + 1 = source.remote =>
           m.estimate = <<source.epoch, source.accepted>> /\ m.sequence = source.accepted
Follows(m, o) ==
    m.epoch = o.epoch =>
        /\ m.remote = o.remote => m = o
        /\ o.remote = m.remote + 1 =>
               /\ o.before = m.estimate
               /\ o.sequence = m.sequence + (IF o.ok THEN 1 ELSE 0)
Chained ==
    /\ \A m \in Published : Dated(m)
    /\ \A m, o \in Published : Follows(m, o)

\* A capture that lost nothing and saw no reset heard, per topic, the exchanges
\* one after another, up to those under way.
Heard(t) == IF t = "status" THEN status ELSE accepts
Consecutive(s) == \A i \in 1..Len(s) : s[i].remote = s[1].remote + i - 1
Lossless ==
    source.faults = 0 =>
        /\ source.epoch = 0 /\ source.id + 1 = source.remote
        /\ \A m \in Published : m.epoch = 0 /\ m.id + 1 = m.remote
        /\ \A t \in TopicNames :
             /\ \A i \in 1..Len(wire[t]) :
                    wire[t][i].remote + Len(wire[t]) + 1 = source.remote + i
             /\ Consecutive(Heard(t))
             /\ capture.pc = "capturing" /\ Heard(t) # <<>> =>
                    Heard(t)[Len(Heard(t))].remote + Len(wire[t]) + 1 = source.remote

\* What the process knew when it ended holds of what it captured.
Judging ==
    /\ capture.pc = "connecting" => status = <<>> /\ accepts = <<>>
    /\ capture.grace # "none" => Enough(status, accepts, diag.n)
    /\ capture.pc \in {"complete", "exit 0"} => capture.grace = "over" /\ Paired(status, accepts)

TimesyncInv == TimesyncTypes /\ Chained /\ Lossless /\ Judging

LEMMA WindowType == /\ MinStatus \in Nat /\ TailSamples \in Nat /\ MinDiag \in Nat /\ Window \in Nat
                    /\ MinStatus > 0 /\ TailSamples > 0 /\ MinDiag > 0 /\ Window > 0
                    /\ MaxFaults \in Nat
BY TimesyncConstants

LEMMA InRange ==
    ASSUME NEW T, NEW s \in Seq(T)
    PROVE  /\ Len(s) \in Nat /\ DOMAIN s = 1..Len(s) /\ Range(s) \subseteq T
           /\ \A i \in 1..Len(s) : s[i] \in Range(s) /\ s[i] \in T
           /\ \A m \in Range(s) : \E i \in 1..Len(s) : s[i] = m
BY LenProperties, RangeOfSeq, RangeEquality

\* What Append and Tail make of a sequence and of its range.
LEMMA Longer ==
    ASSUME NEW T, NEW s \in Seq(T), NEW m \in T
    PROVE  LET u == Append(s, m)
           IN  /\ u \in Seq(T) /\ Len(u) = Len(s) + 1 /\ u # <<>>
               /\ u[Len(s) + 1] = m /\ \A i \in 1..Len(s) : u[i] = s[i]
               /\ Range(u) = Range(s) \cup {m}
<1> DEFINE u == Append(s, m)
<1>1. /\ u \in Seq(T) /\ Len(u) = Len(s) + 1 /\ u # <<>>
      /\ u[Len(s) + 1] = m /\ \A i \in 1..Len(s) : u[i] = s[i]
  BY AppendProperties
<1>2. Len(s) \in Nat
  BY LenProperties
<1>3. Range(u) = {u[i] : i \in 1..Len(u)} /\ Range(s) = {s[i] : i \in 1..Len(s)}
  BY <1>1, RangeEquality
<1> HIDE DEF u
<1>4. Range(u) = Range(s) \cup {m}
  <2>1. \A i \in 1..(Len(s) + 1) : i \in 1..Len(s) \/ i = Len(s) + 1
    BY <1>2
  <2>2. \A i \in 1..Len(s) : i \in 1..(Len(s) + 1)
    BY <1>2
  <2>3. Len(s) + 1 \in 1..(Len(s) + 1)
    BY <1>2
  <2> QED BY <1>1, <1>3, <2>1, <2>2, <2>3
<1> QED BY <1>1, <1>4 DEF u

LEMMA Shorter ==
    ASSUME NEW T, NEW s \in Seq(T), s # <<>>
    PROVE  /\ Head(s) \in T /\ Head(s) = s[1] /\ Head(s) \in Range(s)
           /\ Tail(s) \in Seq(T) /\ Len(Tail(s)) = Len(s) - 1 /\ Len(s) \in Nat /\ Len(s) > 0
           /\ \A i \in 1..(Len(s) - 1) : Tail(s)[i] = s[i + 1]
           /\ Range(Tail(s)) \subseteq Range(s)
<1>1. Len(s) \in Nat /\ Len(s) > 0
  BY EmptySeq, LenProperties
<1>2. /\ Tail(s) \in Seq(T) /\ Len(Tail(s)) = Len(s) - 1
      /\ \A i \in 1..(Len(s) - 1) : Tail(s)[i] = s[i + 1]
  BY HeadTailProperties
<1>3. Head(s) = s[1] /\ s[1] \in T
  BY <1>1, ElementOfSeq
<1>4. Range(s) = {s[i] : i \in 1..Len(s)}
  BY RangeEquality
<1>5. Range(Tail(s)) = {Tail(s)[i] : i \in 1..(Len(s) - 1)}
  BY <1>2, RangeEquality
<1>6. Range(Tail(s)) \subseteq Range(s)
  <2>1. \A i \in 1..(Len(s) - 1) : i + 1 \in 1..Len(s)
    BY <1>1
  <2> QED BY <1>2, <1>4, <1>5, <2>1
<1>7. s[1] \in Range(s)
  BY <1>1, <1>4
<1> QED BY <1>1, <1>2, <1>3, <1>6, <1>7

\* The last n elements.
LEMMA LastOnes ==
    ASSUME NEW T, NEW s \in Seq(T), NEW n \in Nat, n > 0, n <= Len(s)
    PROVE  LET u == Suffix(s, n)
           IN  /\ u \in Seq(T) /\ Len(u) = n /\ DOMAIN u = 1..n
               /\ \A i \in 1..n : u[i] = s[Len(s) - n + i] /\ Len(s) - n + i \in 1..Len(s)
               /\ Range(u) \subseteq Range(s)
<1>1. Len(s) \in Nat /\ DOMAIN s = 1..Len(s)
  BY LenProperties
<1> DEFINE k == Len(s)
           u == SubSeq(s, k - n + 1, k)
<1>2. \A i \in (k - n + 1)..k : s[i] \in T
  BY <1>1, ElementOfSeq
<1>3. /\ u \in Seq(T) /\ Len(u) = IF k - n + 1 <= k THEN k - (k - n + 1) + 1 ELSE 0
      /\ \A i \in 1..(k - (k - n + 1) + 1) : u[i] = s[(k - n + 1) + i - 1]
  BY <1>1, <1>2, SubSeqProperties
<1> HIDE DEF u
<1>4. Len(u) = n /\ \A i \in 1..n : u[i] = s[k - n + i] /\ k - n + i \in 1..k
  <2>1. k - n + 1 <= k /\ k - (k - n + 1) + 1 = n
    BY <1>1
  <2>2. \A i \in 1..n : (k - n + 1) + i - 1 = k - n + i /\ k - n + i \in 1..k
    BY <1>1
  <2> QED BY <1>3, <2>1, <2>2
<1>5. DOMAIN u = 1..n
  BY <1>3, <1>4, LenProperties
<1>6. Range(u) \subseteq Range(s)
  BY <1>3, <1>4, <1>5, RangeEquality
<1> QED BY <1>3, <1>4, <1>5, <1>6 DEF Suffix, u

\* Each action below: what it makes of the samples, and that the types stay.
LEMMA ExchangeDoes ==
    ASSUME TimesyncTypes, NEW ok \in BOOLEAN
    PROVE  LET m == Exchange(ok)
               after == IF ok THEN source.accepted + 1 ELSE source.accepted
           IN  /\ m \in ExchangeType
               /\ m.id = source.id /\ m.epoch = source.epoch /\ m.remote = source.remote
               /\ m.ok = ok /\ m.sequence = after /\ (m.converged <=> m.sequence >= Window)
               /\ m.before = <<source.epoch, source.accepted>> /\ m.before[1] = source.epoch
               /\ m.estimate = <<source.epoch, after>> /\ m.estimate[1] = source.epoch
<1> DEFINE after == IF ok THEN source.accepted + 1 ELSE source.accepted
<1>1. /\ source.id \in Nat /\ source.epoch \in Nat /\ source.remote \in Nat
      /\ source.accepted \in Nat
  BY DEF TimesyncTypes, SourceType
<1>2. after \in Nat
  BY <1>1
<1>3. Exchange(ok) =
        [id |-> source.id, epoch |-> source.epoch, remote |-> source.remote, ok |-> ok,
         sequence |-> after, converged |-> after >= Window,
         before |-> <<source.epoch, source.accepted>>, estimate |-> <<source.epoch, after>>]
  BY DEF Exchange
<1> HIDE DEF after
<1>4. /\ <<source.epoch, source.accepted>> \in Nat \X Nat /\ <<source.epoch, after>> \in Nat \X Nat
      /\ <<source.epoch, source.accepted>>[1] = source.epoch /\ <<source.epoch, after>>[1] = source.epoch
      /\ (after >= Window) \in BOOLEAN
  BY <1>1, <1>2, WindowType
<1>5. Exchange(ok) \in ExchangeType
  BY <1>1, <1>2, <1>3, <1>4 DEF ExchangeType
<1>6. /\ Exchange(ok).id = source.id /\ Exchange(ok).epoch = source.epoch
      /\ Exchange(ok).remote = source.remote /\ Exchange(ok).ok = ok
      /\ Exchange(ok).sequence = after /\ Exchange(ok).converged = (after >= Window)
      /\ Exchange(ok).before = <<source.epoch, source.accepted>>
      /\ Exchange(ok).estimate = <<source.epoch, after>>
  BY <1>3
<1>7. Exchange(ok).before[1] = source.epoch /\ Exchange(ok).estimate[1] = source.epoch
  BY <1>4, <1>6
<1> QED BY <1>5, <1>6, <1>7 DEF after

LEMMA PublishesDoes ==
    ASSUME TimesyncTypes, Publishes
    PROVE  /\ TimesyncTypes' /\ UNCHANGED <<status, accepts, diag, capture>>
           /\ \E ok \in BOOLEAN, heard \in SUBSET TopicNames :
                /\ \A t \in TopicNames :
                     wire'[t] = IF t \in heard THEN Append(wire[t], Exchange(ok)) ELSE wire[t]
                /\ Published' \subseteq Published \cup {Exchange(ok)}
                /\ source'.epoch = source.epoch /\ source'.id = source.id + 1
                /\ source'.remote = source.remote + 1
                /\ source'.accepted = IF ok THEN source.accepted + 1 ELSE source.accepted
                /\ source'.faults = 0 => source.faults = 0 /\ heard = TopicNames
<1>1. PICK ok \in BOOLEAN, heard \in SUBSET TopicNames :
         /\ wire' = [t \in TopicNames |->
                       IF t \in heard THEN Append(wire[t], Exchange(ok)) ELSE wire[t]]
         /\ source' = [source EXCEPT !.id = @ + 1, !.remote = @ + 1,
                         !.accepted = IF ok THEN @ + 1 ELSE @,
                         !.faults = IF heard = TopicNames THEN @ ELSE @ + 1]
  BY DEF Publishes, TopicNames
<1>2. UNCHANGED <<status, accepts, diag, capture>>
  BY DEF Publishes
<1>3. Exchange(ok) \in ExchangeType
  BY ExchangeDoes
<1> DEFINE m == Exchange(ok)
<1>4. source \in SourceType /\ \A t \in TopicNames : wire[t] \in Seq(ExchangeType)
  BY DEF TimesyncTypes
<1>5. /\ source'.epoch = source.epoch /\ source'.id = source.id + 1
      /\ source'.remote = source.remote + 1
      /\ source'.accepted = IF ok THEN source.accepted + 1 ELSE source.accepted
      /\ source'.faults = IF heard = TopicNames THEN source.faults ELSE source.faults + 1
      /\ source' \in SourceType
  <2> DEFINE a == IF ok THEN source.accepted + 1 ELSE source.accepted
             f == IF heard = TopicNames THEN source.faults ELSE source.faults + 1
  <2>1. /\ source.id \in Nat /\ source.remote \in Nat /\ source.accepted \in Nat
        /\ source.faults \in Nat
    BY <1>4 DEF SourceType
  <2>2. a \in Nat /\ f \in Nat /\ source.id + 1 \in Nat /\ source.remote + 1 \in Nat
    BY <2>1
  <2>3. source' = [source EXCEPT !.id = source.id + 1, !.remote = source.remote + 1,
                                 !.accepted = a, !.faults = f]
    BY <1>1
  <2> HIDE DEF a, f
  <2>4. /\ source' \in SourceType /\ source'.epoch = source.epoch
        /\ source'.id = source.id + 1 /\ source'.remote = source.remote + 1
        /\ source'.accepted = a /\ source'.faults = f
    BY <1>4, <2>2, <2>3 DEF SourceType
  <2> QED BY <2>4 DEF a, f
<1>6. source'.faults = 0 => source.faults = 0 /\ heard = TopicNames
  BY <1>4, <1>5 DEF SourceType
<1> HIDE DEF m
<1>7. ASSUME NEW t \in TopicNames
      PROVE  /\ wire'[t] = IF t \in heard THEN Append(wire[t], m) ELSE wire[t]
             /\ wire'[t] \in Seq(ExchangeType) /\ Range(wire'[t]) \subseteq Range(wire[t]) \cup {m}
  <2>1. Append(wire[t], m) \in Seq(ExchangeType) /\ Range(Append(wire[t], m)) = Range(wire[t]) \cup {m}
    BY <1>3, <1>4, Longer DEF m
  <2>2. wire'[t] = IF t \in heard THEN Append(wire[t], m) ELSE wire[t]
    BY <1>1 DEF m
  <2> QED BY <1>4, <2>1, <2>2
<1>8. wire' \in [TopicNames -> Seq(ExchangeType)]
  <2>1. DOMAIN wire' = TopicNames /\ wire' = [t \in TopicNames |-> wire'[t]]
    BY <1>1
  <2> QED BY <1>7, <2>1
<1>9. TimesyncTypes'
  BY <1>2, <1>5, <1>8 DEF TimesyncTypes
<1>10. Published' \subseteq Published \cup {m}
  BY <1>2, <1>7 DEF Published, TopicNames
<1> QED BY <1>2, <1>5, <1>6, <1>7, <1>9, <1>10 DEF m

LEMMA ResetsDoes ==
    ASSUME TimesyncTypes, Resets
    PROVE  /\ TimesyncTypes' /\ UNCHANGED <<wire, status, accepts, diag, capture>>
           /\ Published' = Published
           /\ source'.epoch = source.epoch + 1 /\ source'.remote = 1 /\ source'.accepted = 0
           /\ source'.faults # 0
<1>1. /\ UNCHANGED <<wire, status, accepts, diag, capture>> /\ source \in SourceType
      /\ source' = [source EXCEPT !.epoch = source.epoch + 1, !.remote = 1, !.accepted = 0,
                                  !.faults = source.faults + 1]
  BY DEF Resets, TimesyncTypes
<1>2. source' \in SourceType /\ source'.epoch = source.epoch + 1 /\ source'.remote = 1
      /\ source'.accepted = 0 /\ source'.faults # 0
  <2>1. source.epoch + 1 \in Nat /\ source.faults + 1 \in Nat /\ source.faults + 1 # 0
    BY <1>1 DEF SourceType
  <2>2. /\ source'.epoch = source.epoch + 1 /\ source'.remote = 1
        /\ source'.accepted = 0 /\ source'.faults = source.faults + 1
    BY <1>1 DEF SourceType
  <2> QED BY <1>1, <2>1, <2>2 DEF SourceType
<1> QED BY <1>1, <1>2 DEF TimesyncTypes, Published

LEMMA ObservesDoes ==
    ASSUME TimesyncTypes, NEW t \in TopicNames, Observes(t)
    PROVE  LET m == wire[t][1]
           IN  /\ TimesyncTypes' /\ UNCHANGED <<source, diag>> /\ Published' \subseteq Published
               /\ Runs /\ Len(wire[t]) > 0 /\ Len(wire[t]) \in Nat /\ m \in Published
               /\ Len(wire'[t]) = Len(wire[t]) - 1
               /\ \A i \in 1..(Len(wire[t]) - 1) : wire'[t][i] = wire[t][i + 1]
               /\ \A u \in TopicNames : u # t => wire'[u] = wire[u]
               /\ capture.pc # "capturing" => UNCHANGED <<status, accepts, capture>>
               /\ capture.pc = "capturing" =>
                    /\ status' = IF t = "status" THEN Append(status, m) ELSE status
                    /\ accepts' = IF t = "accepts" THEN Append(accepts, m) ELSE accepts
                    /\ capture' = AfterSample(status', accepts', diag.n)
<1> DEFINE m == wire[t][1]
<1>1. wire[t] \in Seq(ExchangeType) /\ wire[t] # <<>> /\ DOMAIN wire = TopicNames
      /\ status \in Seq(ExchangeType) /\ accepts \in Seq(ExchangeType) /\ capture \in CaptureType
  BY DEF TimesyncTypes, Observes
<1>2. /\ Head(wire[t]) = m /\ m \in ExchangeType /\ m \in Range(wire[t])
      /\ Tail(wire[t]) \in Seq(ExchangeType) /\ Len(Tail(wire[t])) = Len(wire[t]) - 1
      /\ Len(wire[t]) \in Nat /\ Len(wire[t]) > 0
      /\ \A i \in 1..(Len(wire[t]) - 1) : Tail(wire[t])[i] = wire[t][i + 1]
      /\ Range(Tail(wire[t])) \subseteq Range(wire[t])
  BY <1>1, Shorter
<1>3. /\ wire' = [wire EXCEPT ![t] = Tail(wire[t])] /\ UNCHANGED <<source, diag>> /\ Runs
      /\ capture.pc # "capturing" => UNCHANGED <<status, accepts, capture>>
  BY DEF Observes
<1>4. capture.pc = "capturing" =>
         /\ status' = IF t = "status" THEN Append(status, m) ELSE status
         /\ accepts' = IF t = "accepts" THEN Append(accepts, m) ELSE accepts
         /\ capture' = AfterSample(status', accepts', diag.n)
  BY <1>2 DEF Observes
<1> HIDE DEF m
<1>5. /\ wire'[t] = Tail(wire[t]) /\ \A u \in TopicNames : u # t => wire'[u] = wire[u]
      /\ wire' \in [TopicNames -> Seq(ExchangeType)]
  BY <1>1, <1>2, <1>3 DEF TimesyncTypes
<1>6. /\ Append(status, m) \in Seq(ExchangeType) /\ Range(Append(status, m)) = Range(status) \cup {m}
      /\ Append(accepts, m) \in Seq(ExchangeType) /\ Range(Append(accepts, m)) = Range(accepts) \cup {m}
  BY <1>1, <1>2, Longer
<1>7. /\ status' \in Seq(ExchangeType) /\ accepts' \in Seq(ExchangeType)
      /\ Range(status') \subseteq Range(status) \cup {m}
      /\ Range(accepts') \subseteq Range(accepts) \cup {m}
  <2>1. CASE capture.pc = "capturing"
    BY <1>1, <1>4, <1>6, <2>1
  <2>2. CASE capture.pc # "capturing"
    BY <1>1, <1>3, <2>2
  <2> QED BY <2>1, <2>2
<1>8. capture' \in CaptureType
  <2>1. AfterSample(status', accepts', diag.n) \in CaptureType
    BY <1>1 DEF AfterSample, CaptureType
  <2> QED BY <1>1, <1>3, <1>4, <2>1
<1>9. TimesyncTypes'
  BY <1>3, <1>5, <1>7, <1>8 DEF TimesyncTypes
<1>10. m \in Published
  BY <1>2 DEF Published, TopicNames
<1>11. \A u \in TopicNames : Range(wire'[u]) \subseteq Range(wire[u])
  BY <1>2, <1>5
<1>12. Published' \subseteq Published
  BY <1>7, <1>10, <1>11 DEF Published, TopicNames
<1> QED BY <1>2, <1>3, <1>4, <1>5, <1>9, <1>10, <1>12 DEF m

LEMMA OthersDo ==
    ASSUME TimesyncTypes,
           Connects \/ ObservesDiagnostic \/ GraceEnds \/ LoopLooks \/ TimesOut
    PROVE  TimesyncTypes' /\ UNCHANGED <<source, wire, status, accepts>> /\ Published' = Published
<1>1. UNCHANGED <<source, wire, status, accepts>>
  BY DEF Connects, ObservesDiagnostic, GraceEnds, LoopLooks, TimesOut
<1>2. capture \in CaptureType /\ diag \in [n : Nat, ok : BOOLEAN]
  BY DEF TimesyncTypes
<1>3. ASSUME NEW n PROVE AfterSample(status, accepts, n) \in CaptureType
  BY <1>2 DEF AfterSample, CaptureType
<1>4. CASE Connects
  BY <1>1, <1>2, <1>4 DEF Connects, CaptureType, TimesyncTypes, Published
<1>5. CASE GraceEnds
  BY <1>1, <1>2, <1>5 DEF GraceEnds, CaptureType, TimesyncTypes, Published
<1>6. CASE LoopLooks
  BY <1>1, <1>2, <1>6 DEF LoopLooks, CaptureType, TimesyncTypes, Published
<1>7. CASE TimesOut
  BY <1>1, <1>2, <1>7 DEF TimesOut, CaptureType, TimesyncTypes, Published
<1>8. CASE ObservesDiagnostic
  <2>1. PICK ok \in BOOLEAN :
            diag' = [n |-> IF diag.n = MinDiag THEN MinDiag ELSE diag.n + 1, ok |-> diag.ok /\ ok]
    BY <1>8 DEF ObservesDiagnostic
  <2>2. (IF diag.n = MinDiag THEN MinDiag ELSE diag.n + 1) \in Nat /\ (diag.ok /\ ok) \in BOOLEAN
    BY <1>2, WindowType
  <2>3. diag' \in [n : Nat, ok : BOOLEAN]
    BY <2>1, <2>2
  <2>4. capture' \in CaptureType
    BY <1>3, <1>8 DEF ObservesDiagnostic
  <2> QED BY <1>1, <2>3, <2>4 DEF TimesyncTypes, Published
<1> QED BY <1>4, <1>5, <1>6, <1>7, <1>8

-----------------------------------------------------------------------------
(* The chain of the exchanges.                                             *)

LEMMA PublishedTypes ==
    ASSUME TimesyncTypes
    PROVE  /\ \A m \in Published : /\ m \in ExchangeType
                                   /\ m.id \in Nat /\ m.epoch \in Nat /\ m.remote \in Nat
                                   /\ m.sequence \in Nat /\ m.ok \in BOOLEAN
                                   /\ m.converged \in BOOLEAN
           /\ source.epoch \in Nat /\ source.remote \in Nat /\ source.accepted \in Nat
           /\ source.id \in Nat /\ source.faults \in Nat
<1>1. Published \subseteq ExchangeType
  <2>1. \A t \in TopicNames : wire[t] \in Seq(ExchangeType)
    BY DEF TimesyncTypes
  <2>2. /\ Range(status) \subseteq ExchangeType /\ Range(accepts) \subseteq ExchangeType
        /\ \A t \in TopicNames : Range(wire[t]) \subseteq ExchangeType
    BY <2>1, RangeOfSeq DEF TimesyncTypes
  <2> QED BY <2>2 DEF Published, TopicNames
<1>2. \A m \in ExchangeType : /\ m.id \in Nat /\ m.epoch \in Nat /\ m.remote \in Nat
                              /\ m.sequence \in Nat /\ m.ok \in BOOLEAN /\ m.converged \in BOOLEAN
  BY DEF ExchangeType
<1>3. /\ source.epoch \in Nat /\ source.remote \in Nat /\ source.accepted \in Nat
      /\ source.id \in Nat /\ source.faults \in Nat
  BY DEF TimesyncTypes, SourceType
<1> QED BY <1>1, <1>2, <1>3

LEMMA ChainedPublishes == ASSUME TimesyncTypes, Chained, Publishes PROVE Chained'
<1>1. PICK ok \in BOOLEAN :
         /\ Published' \subseteq Published \cup {Exchange(ok)}
         /\ source'.epoch = source.epoch /\ source'.remote = source.remote + 1
         /\ source'.accepted = IF ok THEN source.accepted + 1 ELSE source.accepted
  BY PublishesDoes
<1>9. PICK x : x = Exchange(ok)
  OBVIOUS
<1>2. /\ x.epoch = source.epoch /\ x.remote = source.remote /\ x.ok = ok
      /\ x.sequence = IF ok THEN source.accepted + 1 ELSE source.accepted
      /\ (x.converged <=> x.sequence >= Window)
      /\ x.before = <<source.epoch, source.accepted>> /\ x.before[1] = source.epoch
      /\ x.estimate = <<source.epoch, x.sequence>> /\ x.estimate[1] = source.epoch
  BY <1>9, ExchangeDoes
<1>3. /\ source.epoch \in Nat /\ source.remote \in Nat /\ source.accepted \in Nat
      /\ \A m \in Published : m.epoch \in Nat /\ m.remote \in Nat /\ m.sequence \in Nat
  BY PublishedTypes
<1>4. ASSUME NEW m \in Published
      PROVE  /\ m.epoch <= source'.epoch
             /\ m.epoch = source'.epoch => m.remote < source'.remote /\ m.remote + 1 # source'.remote
             /\ m.before[1] = m.epoch /\ m.estimate[1] = m.epoch
             /\ m.converged <=> m.sequence >= Window
  <2>1. /\ m.epoch <= source.epoch /\ (m.epoch = source.epoch => m.remote < source.remote)
        /\ m.before[1] = m.epoch /\ m.estimate[1] = m.epoch
        /\ m.converged <=> m.sequence >= Window
    BY <1>4 DEF Chained, Dated
  <2>2. m.remote \in Nat
    BY <1>3, <1>4
  <2> QED BY <1>1, <1>3, <2>1, <2>2
<1>5. \A m \in Published' : Dated(m)'
  <2>1. ASSUME NEW m \in Published PROVE Dated(m)'
    BY <1>4, <2>1 DEF Dated
  <2>2. x.epoch <= source'.epoch /\ x.remote < source'.remote
    BY <1>1, <1>2, <1>3
  <2>3. Dated(x)'
    <3>1. x.estimate = <<source'.epoch, source'.accepted>> /\ x.sequence = source'.accepted
      BY <1>1, <1>2
    <3> QED BY <1>2, <2>2, <3>1 DEF Dated
  <2> QED BY <1>1, <1>9, <2>1, <2>3
<1>6. \A m \in Published : Follows(m, x) /\ Follows(x, m)
  <2>1. ASSUME NEW m \in Published PROVE Follows(m, x) /\ Follows(x, m)
    <3>1. m.remote \in Nat /\ m.sequence \in Nat
      BY <1>3, <2>1
    <3>2. m.epoch = source.epoch => m.remote < source.remote
      BY <2>1 DEF Chained, Dated
    <3>3. m.epoch = source.epoch /\ m.remote + 1 = source.remote =>
              m.estimate = <<source.epoch, source.accepted>> /\ m.sequence = source.accepted
      BY <2>1 DEF Chained, Dated
    <3>4. m.epoch = source.epoch => m.remote # source.remote /\ m.remote # source.remote + 1
      BY <1>3, <3>1, <3>2
    <3>5. Follows(x, m)
      BY <1>2, <3>4 DEF Follows
    <3>6. m.epoch = source.epoch /\ source.remote = m.remote + 1 =>
              x.before = m.estimate /\ x.sequence = m.sequence + (IF ok THEN 1 ELSE 0)
      BY <1>2, <1>3, <3>3
    <3> QED BY <1>2, <3>4, <3>5, <3>6 DEF Follows
  <2> QED BY <2>1
<1>7. Follows(x, x)
  <2>1. x.remote # x.remote + 1
    BY <1>2, <1>3
  <2> QED BY <2>1 DEF Follows
<1>8. \A m, o \in Published' : Follows(m, o)
  <2>1. \A m, o \in Published : Follows(m, o)
    BY DEF Chained
  <2>2. Published' \subseteq Published \cup {x}
    BY <1>1, <1>9
  <2> QED BY <1>6, <1>7, <2>1, <2>2
<1> QED BY <1>5, <1>8 DEF Chained, Follows

LEMMA ChainedStep == ASSUME TimesyncTypes, Chained, TimesyncNext PROVE Chained'
<1>1. CASE Resets
  <2>1. Published' = Published /\ source'.epoch = source.epoch + 1
    BY <1>1, ResetsDoes
  <2>2. ASSUME NEW m \in Published PROVE m.epoch <= source'.epoch /\ m.epoch # source'.epoch
    <3>1. m.epoch \in Nat /\ source.epoch \in Nat /\ m.epoch <= source.epoch
      BY <2>2, PublishedTypes DEF Chained, Dated
    <3> QED BY <2>1, <3>1
  <2> QED BY <2>1, <2>2 DEF Chained, Dated, Follows
<1>2. CASE UNCHANGED source /\ Published' \subseteq Published
  BY <1>2 DEF Chained, Dated, Follows
<1>3. ASSUME NEW t \in TopicNames, Observes(t) PROVE Chained'
  BY <1>2, <1>3, ObservesDoes
<1> QED BY <1>1, <1>2, <1>3, ChainedPublishes, OthersDo DEF TimesyncNext, TopicNames

-----------------------------------------------------------------------------
(* What the process knew when it ended.                                    *)

LEMMA EnoughStays ==
    ASSUME NEW st, NEW ac, NEW n \in Nat, NEW s2, NEW a2, NEW n2 \in Nat,
           Len(st) \in Nat, Len(ac) \in Nat, Len(s2) \in Nat, Len(a2) \in Nat,
           Enough(st, ac, n), Len(st) <= Len(s2), Len(ac) <= Len(a2), n <= n2
    PROVE  Enough(s2, a2, n2)
BY WindowType DEF Enough

LEMMA JudgingAgain ==
    ASSUME capture'.pc = "connecting" => status' = <<>> /\ accepts' = <<>>,
           capture'.grace # "none" => Enough(status', accepts', diag'.n),
           capture'.pc \in {"complete", "exit 0"} =>
               capture'.grace = "over" /\ Paired(status', accepts')
    PROVE  Judging'
BY DEF Judging, Enough, Paired, Suffix, Remotes

LEMMA JudgingAfter ==
    ASSUME TimesyncTypes, Judging, capture.pc = "capturing", TimesyncTypes',
           capture' = AfterSample(status', accepts', diag'.n),
           Len(status) <= Len(status'), Len(accepts) <= Len(accepts'), diag.n <= diag'.n
    PROVE  Judging'
<1>1. /\ Len(status) \in Nat /\ Len(accepts) \in Nat /\ diag.n \in Nat
      /\ Len(status') \in Nat /\ Len(accepts') \in Nat /\ diag'.n \in Nat
  BY LenProperties DEF TimesyncTypes
<1>2. /\ capture'.pc = IF capture.grace = "over" /\ Paired(status', accepts')
                       THEN "complete" ELSE "capturing"
      /\ capture'.grace = IF capture.grace = "none" /\ Enough(status', accepts', diag'.n)
                          THEN "running" ELSE capture.grace
  BY DEF AfterSample
<1>3. capture.grace # "none" => Enough(status', accepts', diag'.n)
  BY <1>1, EnoughStays DEF Judging
<1>4. capture'.grace # "none" => Enough(status', accepts', diag'.n)
  BY <1>2, <1>3
<1>5. capture'.pc \in {"complete", "exit 0"} => capture'.grace = "over" /\ Paired(status', accepts')
  BY <1>2
<1>6. capture'.pc # "connecting"
  BY <1>2
<1> QED BY <1>4, <1>5, <1>6, JudgingAgain

LEMMA JudgingStep == ASSUME TimesyncTypes, Judging, TimesyncNext PROVE Judging'
<1>1. CASE Publishes \/ Resets
  <2>1. UNCHANGED <<status, accepts, diag, capture>>
    BY <1>1, PublishesDoes, ResetsDoes
  <2> QED BY <2>1, JudgingAgain DEF Judging
<1>2. capture \in CaptureType
  BY DEF TimesyncTypes
<1>3. CASE Connects \/ GraceEnds \/ LoopLooks \/ TimesOut
  <2>1. UNCHANGED <<status, accepts, diag>>
    BY <1>3 DEF Connects, GraceEnds, LoopLooks, TimesOut
  <2>2. /\ capture'.pc # "connecting"
        /\ capture'.grace # "none" => capture.grace # "none"
        /\ capture'.pc \in {"complete", "exit 0"} =>
               \/ capture'.grace = capture.grace /\ capture.pc = "complete"
               \/ capture'.grace = "over" /\ Paired(status, accepts)
    <3>1. CASE Connects  BY <1>2, <3>1 DEF Connects, CaptureType
    <3>2. CASE GraceEnds  BY <1>2, <3>2 DEF GraceEnds, CaptureType
    <3>3. CASE LoopLooks  BY <1>2, <3>3 DEF LoopLooks, CaptureType
    <3>4. CASE TimesOut  BY <1>2, <3>4 DEF TimesOut, CaptureType
    <3> QED BY <1>3, <3>1, <3>2, <3>3, <3>4
  <2> QED BY <2>1, <2>2, JudgingAgain DEF Judging
<1>4. CASE ObservesDiagnostic
  <2>1. PICK ok \in BOOLEAN :
            diag' = [n |-> IF diag.n = MinDiag THEN MinDiag ELSE diag.n + 1, ok |-> diag.ok /\ ok]
    BY <1>4 DEF ObservesDiagnostic
  <2>2. diag.n <= diag'.n /\ diag.n \in Nat
    BY <2>1, WindowType DEF TimesyncTypes
  <2>3. /\ UNCHANGED <<status, accepts>> /\ capture.pc = "capturing"
        /\ capture' = AfterSample(status', accepts', diag'.n)
    BY <1>4 DEF ObservesDiagnostic
  <2>4. Len(status) <= Len(status') /\ Len(accepts) <= Len(accepts')
    BY <2>3, LenProperties DEF TimesyncTypes
  <2>5. TimesyncTypes'
    BY <1>4, OthersDo
  <2> QED BY <2>2, <2>3, <2>4, <2>5, JudgingAfter
<1>5. ASSUME NEW t \in TopicNames, Observes(t) PROVE Judging'
  <2>1. CASE capture.pc # "capturing"
    <3>1. UNCHANGED <<status, accepts, capture, diag>>
      BY <1>5, <2>1, ObservesDoes
    <3> QED BY <3>1, JudgingAgain DEF Judging
  <2>2. CASE capture.pc = "capturing"
    <3> DEFINE m == wire[t][1]
    <3>1. /\ UNCHANGED diag /\ TimesyncTypes' /\ m \in Published
          /\ status' = IF t = "status" THEN Append(status, m) ELSE status
          /\ accepts' = IF t = "accepts" THEN Append(accepts, m) ELSE accepts
          /\ capture' = AfterSample(status', accepts', diag.n)
      BY <1>5, <2>2, ObservesDoes
    <3> HIDE DEF m
    <3>2. /\ Len(Append(status, m)) = Len(status) + 1 /\ Len(status) \in Nat
          /\ Len(Append(accepts, m)) = Len(accepts) + 1 /\ Len(accepts) \in Nat
      BY <3>1, PublishedTypes, LenProperties, AppendProperties DEF TimesyncTypes
    <3>3. Len(status) <= Len(status') /\ Len(accepts) <= Len(accepts')
      BY <3>1, <3>2
    <3>4. diag.n <= diag'.n /\ capture' = AfterSample(status', accepts', diag'.n)
      BY <3>1 DEF TimesyncTypes
    <3> QED BY <2>2, <3>1, <3>3, <3>4, JudgingAfter
  <2> QED BY <2>1, <2>2
<1> QED BY <1>1, <1>3, <1>4, <1>5 DEF TimesyncNext, TopicNames

-----------------------------------------------------------------------------
(* The capture that lost nothing.                                          *)

\* What Lossless says of a topic.
Unbroken(w, h, remote, open) ==
    /\ \A i \in 1..Len(w) : w[i].remote + Len(w) + 1 = remote + i
    /\ Consecutive(h)
    /\ open /\ h # <<>> => h[Len(h)].remote + Len(w) + 1 = remote
FirstRun ==
    /\ source.epoch = 0 /\ source.id + 1 = source.remote
    /\ \A m \in Published : m.epoch = 0 /\ m.id + 1 = m.remote

LEMMA RemoteTypes ==
    ASSUME NEW w \in Seq(ExchangeType)
    PROVE  \A i \in 1..Len(w) : w[i] \in ExchangeType /\ w[i].remote \in Nat
<1>1. \A i \in 1..Len(w) : w[i] \in ExchangeType
  BY ElementOfSeq
<1> QED BY <1>1 DEF ExchangeType

\* An exchange is published to the topic.
LEMMA UnbrokenPublish ==
    ASSUME NEW w \in Seq(ExchangeType), NEW h, NEW remote \in Nat, NEW open \in BOOLEAN,
           NEW x \in ExchangeType, x.remote = remote, h # <<>> => h[Len(h)].remote \in Nat,
           Unbroken(w, h, remote, open)
    PROVE  Unbroken(Append(w, x), h, remote + 1, open)
<1> DEFINE u == Append(w, x)
<1>1. /\ Len(w) \in Nat /\ Len(u) = Len(w) + 1 /\ u[Len(w) + 1] = x
      /\ \A i \in 1..Len(w) : u[i] = w[i]
  BY Longer, LenProperties
<1> HIDE DEF u
<1>2. \A i \in 1..Len(w) : w[i].remote \in Nat
  BY RemoteTypes
<1>3. ASSUME NEW i \in 1..Len(u) PROVE u[i].remote + Len(u) + 1 = (remote + 1) + i
  <2>1. i \in 1..Len(w) \/ i = Len(w) + 1
    BY <1>1
  <2>2. CASE i \in 1..Len(w)
    <3>1. u[i].remote = w[i].remote /\ w[i].remote \in Nat /\ w[i].remote + Len(w) + 1 = remote + i
      BY <1>1, <1>2, <2>2 DEF Unbroken
    <3> QED BY <1>1, <2>2, <3>1
  <2>3. CASE i = Len(w) + 1
    BY <1>1, <2>3
  <2> QED BY <2>1, <2>2, <2>3
<1>4. open /\ h # <<>> => h[Len(h)].remote + Len(u) + 1 = remote + 1
  BY SMTT(30), <1>1 DEF Unbroken
<1> QED BY <1>3, <1>4 DEF Unbroken, u

\* The first message is taken from the topic, and heard or not.
LEMMA UnbrokenTake ==
    ASSUME NEW w \in Seq(ExchangeType), NEW h \in Seq(ExchangeType), NEW remote \in Nat, w # <<>>,
           NEW v, Len(v) = Len(w) - 1, \A i \in 1..(Len(w) - 1) : v[i] = w[i + 1],
           NEW open \in BOOLEAN, Unbroken(w, h, remote, open)
    PROVE  /\ Unbroken(v, h, remote, FALSE)
           /\ h = <<>> => Unbroken(v, h, remote, TRUE)
           /\ open => Unbroken(v, Append(h, w[1]), remote, TRUE)
<1> DEFINE x == w[1]
           n == Len(h)
           u == Append(h, x)
<1>1. Len(w) \in Nat /\ Len(w) > 0 /\ n \in Nat /\ x \in ExchangeType /\ x.remote \in Nat
      /\ (h # <<>> => n > 0)
  <2>1. Len(w) \in Nat /\ Len(w) > 0 /\ n \in Nat /\ (h # <<>> => n > 0)
    BY EmptySeq, LenProperties
  <2> QED BY <2>1, RemoteTypes
<1>2. /\ \A i \in 1..Len(w) : w[i].remote \in Nat
      /\ \A i \in 1..n : h[i].remote \in Nat
  BY RemoteTypes
<1>3. ASSUME NEW i \in 1..Len(v) PROVE v[i].remote + Len(v) + 1 = remote + i
  <2>1. i \in 1..(Len(w) - 1) /\ i + 1 \in 1..Len(w) /\ v[i] = w[i + 1]
    BY <1>1
  <2>2. w[i + 1].remote \in Nat /\ w[i + 1].remote + Len(w) + 1 = remote + (i + 1)
    BY <1>2, <2>1 DEF Unbroken
  <2>3. PICK a \in Nat, k \in Nat : a = v[i].remote /\ k = Len(w)
    BY <1>1, <2>1, <2>2
  <2>4. i \in Nat /\ a + k + 1 = remote + (i + 1) /\ Len(v) = k - 1
    BY <1>1, <2>1, <2>2, <2>3
  <2>5. a + (k - 1) + 1 = remote + i
    BY <2>4
  <2> QED BY <2>3, <2>4, <2>5
<1>4. Unbroken(v, h, remote, FALSE) /\ (h = <<>> => Unbroken(v, h, remote, TRUE))
  BY <1>3 DEF Unbroken
<1>5. ASSUME open PROVE Unbroken(v, u, remote, TRUE)
  <2>1. /\ Len(u) = n + 1 /\ u[n + 1] = x /\ \A i \in 1..n : u[i] = h[i]
    BY <1>1, Longer
  <2>2. x.remote + Len(w) + 1 = remote + 1
    <3>1. 1 \in 1..Len(w)
      BY <1>1
    <3> QED BY <3>1 DEF Unbroken
  <2>3. n > 0 => h[n].remote + Len(w) + 1 = remote /\ h[n].remote = h[1].remote + n - 1
    <3>1. n > 0 => h # <<>> /\ n \in 1..n
      BY <1>1, EmptySeq
    <3> QED BY <1>5, <3>1 DEF Unbroken, Consecutive
  <2> HIDE DEF u, x, n
  <2>4. ASSUME NEW i \in 1..(n + 1) PROVE u[i].remote = u[1].remote + i - 1
    <3>1. i \in 1..n \/ i = n + 1
      BY <1>1
    <3>2. CASE n = 0
      BY <1>1, <2>1, <3>1, <3>2
    <3>3. CASE n > 0
      <4>1. 1 \in 1..n /\ n \in 1..n /\ u[1] = h[1] /\ h[1].remote \in Nat /\ h[n].remote \in Nat
        BY <1>1, <1>2, <2>1, <3>3 DEF n
      <4>2. CASE i \in 1..n
        BY <2>1, <4>1, <4>2 DEF Unbroken, Consecutive, n
      <4>3. CASE i = n + 1
        <5>1. x.remote = h[n].remote + 1
          <6>1. PICK a \in Nat, b \in Nat, k \in Nat : a = x.remote /\ b = h[n].remote /\ k = Len(w)
            BY <1>1, <4>1
          <6>2. a + k + 1 = remote + 1 /\ b + k + 1 = remote
            BY <2>2, <2>3, <3>3, <6>1
          <6>3. a = b + 1
            BY <6>2
          <6> QED BY <6>1, <6>3
        <5> QED BY SMTT(30), <1>1, <2>1, <2>3, <3>3, <4>1, <4>3, <5>1
      <4> QED BY <3>1, <4>2, <4>3
    <3> QED BY <1>1, <3>2, <3>3
  <2>5. u[Len(u)].remote + Len(v) + 1 = remote
    <3>1. u[Len(u)] = x
      BY <1>1, <2>1
    <3>2. PICK a \in Nat, k \in Nat : a = x.remote /\ k = Len(w)
      BY <1>1
    <3>3. a + k + 1 = remote + 1 /\ Len(v) = k - 1
      BY <2>2, <3>2
    <3>4. a + (k - 1) + 1 = remote
      BY <3>3
    <3> QED BY <3>1, <3>2, <3>3, <3>4
  <2> QED BY <1>3, <2>1, <2>4, <2>5 DEF Unbroken, Consecutive
<1> QED BY <1>4, <1>5 DEF u, x

Capturing == capture.pc = "capturing"
Unlost ==
    /\ Unbroken(wire["status"], status, source.remote, Capturing)
    /\ Unbroken(wire["accepts"], accepts, source.remote, Capturing)

LEMMA LosslessMeans == Lossless <=> (source.faults = 0 => FirstRun /\ Unlost)
BY DEF Lossless, FirstRun, Unlost, Unbroken, Heard, TopicNames, Capturing

LEMMA LosslessPublishes == ASSUME TimesyncTypes, FirstRun, Unlost, Publishes, source'.faults = 0
                           PROVE  (FirstRun /\ Unlost)'
<1>1. /\ UNCHANGED <<status, accepts, diag, capture>>
      /\ \E ok \in BOOLEAN :
           /\ \A t \in TopicNames : wire'[t] = Append(wire[t], Exchange(ok))
           /\ Published' \subseteq Published \cup {Exchange(ok)}
           /\ source'.epoch = source.epoch /\ source'.id = source.id + 1
           /\ source'.remote = source.remote + 1
  BY PublishesDoes
<1>2. PICK x \in {Exchange(ok) : ok \in BOOLEAN} :
         /\ \A t \in TopicNames : wire'[t] = Append(wire[t], x)
         /\ Published' \subseteq Published \cup {x}
         /\ source'.epoch = source.epoch /\ source'.id = source.id + 1
         /\ source'.remote = source.remote + 1
  BY <1>1
<1>3. x \in ExchangeType /\ x.remote = source.remote /\ x.id = source.id /\ x.epoch = source.epoch
  BY <1>2, ExchangeDoes
<1>4. source.remote \in Nat /\ source.id \in Nat
  BY PublishedTypes
<1>5. FirstRun'
  <2>1. \A m \in Published' : m.epoch = 0 /\ m.id + 1 = m.remote
    BY <1>2, <1>3 DEF FirstRun
  <2>2. source'.epoch = 0 /\ source'.id + 1 = source'.remote
    BY <1>2, <1>4 DEF FirstRun
  <2> QED BY <2>1, <2>2 DEF FirstRun
<1>6. /\ wire["status"] \in Seq(ExchangeType) /\ wire["accepts"] \in Seq(ExchangeType)
      /\ wire'["status"] = Append(wire["status"], x) /\ wire'["accepts"] = Append(wire["accepts"], x)
      /\ status \in Seq(ExchangeType) /\ accepts \in Seq(ExchangeType) /\ Capturing \in BOOLEAN
  BY <1>2 DEF TimesyncTypes, TopicNames, Capturing
<1>7. /\ status # <<>> => status[Len(status)].remote \in Nat
      /\ accepts # <<>> => accepts[Len(accepts)].remote \in Nat
  <2>1. ASSUME NEW h \in Seq(ExchangeType), h # <<>> PROVE h[Len(h)].remote \in Nat
    <3>1. Len(h) \in 1..Len(h)
      BY <2>1, EmptySeq, LenProperties
    <3> QED BY <3>1, RemoteTypes
  <2> QED BY <1>6, <2>1
<1>8. /\ Unbroken(Append(wire["status"], x), status, source.remote + 1, Capturing)
      /\ Unbroken(Append(wire["accepts"], x), accepts, source.remote + 1, Capturing)
  BY <1>3, <1>4, <1>6, <1>7, UnbrokenPublish DEF Unlost
<1>9. Unlost'
  <2>1. Capturing' = Capturing
    BY <1>1 DEF Capturing
  <2>2. /\ Unbroken(wire'["status"], status', source'.remote, Capturing')
        /\ Unbroken(wire'["accepts"], accepts', source'.remote, Capturing')
    BY <1>1, <1>2, <1>6, <1>8, <2>1
  <2> QED BY <2>2 DEF Unlost, Unbroken, Consecutive
<1> QED BY <1>5, <1>9

LEMMA LosslessObserves ==
    ASSUME TimesyncTypes, Judging, FirstRun, Unlost, NEW t \in TopicNames, Observes(t)
    PROVE  (FirstRun /\ Unlost)'
<1> DEFINE m == wire[t][1]
<1>1. /\ UNCHANGED <<source, diag>> /\ Published' \subseteq Published
      /\ Len(wire'[t]) = Len(wire[t]) - 1 /\ Len(wire[t]) > 0
      /\ \A i \in 1..(Len(wire[t]) - 1) : wire'[t][i] = wire[t][i + 1]
      /\ \A u \in TopicNames : u # t => wire'[u] = wire[u]
      /\ capture.pc # "capturing" => UNCHANGED <<status, accepts, capture>>
      /\ capture.pc = "capturing" =>
                    /\ status' = IF t = "status" THEN Append(status, m) ELSE status
                    /\ accepts' = IF t = "accepts" THEN Append(accepts, m) ELSE accepts
  BY ObservesDoes
<1>2. FirstRun'
  BY <1>1 DEF FirstRun
<1>3. /\ \A u \in TopicNames : wire[u] \in Seq(ExchangeType)
      /\ status \in Seq(ExchangeType) /\ accepts \in Seq(ExchangeType) /\ source.remote \in Nat
      /\ Capturing \in BOOLEAN /\ Capturing' \in BOOLEAN
  BY PublishedTypes DEF TimesyncTypes, Capturing
<1>4. wire[t] # <<>>
  BY <1>1, EmptySeq
<1>5. Capturing' => Capturing
  BY <1>1 DEF Capturing
<1> HIDE DEF m
\* The other topic.
<1>6. ASSUME NEW w, NEW h, Unbroken(w, h, source.remote, Capturing)
      PROVE  Unbroken(w, h, source.remote, Capturing')
  BY <1>5, <1>6 DEF Unbroken
\* This one.
<1>7. ASSUME NEW h \in Seq(ExchangeType), Unbroken(wire[t], h, source.remote, Capturing)
      PROVE  Unbroken(wire'[t], IF Capturing THEN Append(h, m) ELSE h, source.remote, Capturing')
  <2>1. /\ Unbroken(wire'[t], h, source.remote, FALSE)
        /\ Capturing => Unbroken(wire'[t], Append(h, m), source.remote, TRUE)
    <3>1. /\ wire[t] \in Seq(ExchangeType) /\ source.remote \in Nat /\ Capturing \in BOOLEAN
      BY <1>3
    <3>2. PICK v : v = wire'[t]
      OBVIOUS
    <3>3. Len(v) = Len(wire[t]) - 1 /\ \A i \in 1..(Len(wire[t]) - 1) : v[i] = wire[t][i + 1]
      BY <1>1, <3>2
    <3>4. /\ Unbroken(v, h, source.remote, FALSE)
          /\ Capturing => Unbroken(v, Append(h, wire[t][1]), source.remote, TRUE)
      BY <1>4, <1>7, <3>1, <3>3, UnbrokenTake
    <3> QED BY <3>2, <3>4 DEF m
  <2>2. CASE Capturing
    BY <2>1, <2>2 DEF Unbroken
  <2>3. CASE ~Capturing
    BY <1>5, <2>1, <2>3 DEF Unbroken
  <2> QED BY <2>2, <2>3
<1>8. /\ Unbroken(wire'["status"], status', source.remote, Capturing')
      /\ Unbroken(wire'["accepts"], accepts', source.remote, Capturing')
  <2>1. CASE t = "status"
    <3>1. /\ status' = IF Capturing THEN Append(status, m) ELSE status
          /\ accepts' = accepts /\ wire'["accepts"] = wire["accepts"]
      BY <1>1, <2>1 DEF Capturing, TopicNames
    <3> QED BY <1>3, <1>6, <1>7, <2>1, <3>1 DEF Unlost
  <2>2. CASE t = "accepts"
    <3>1. /\ accepts' = IF Capturing THEN Append(accepts, m) ELSE accepts
          /\ status' = status /\ wire'["status"] = wire["status"]
      BY <1>1, <2>2 DEF Capturing, TopicNames
    <3> QED BY <1>3, <1>6, <1>7, <2>2, <3>1 DEF Unlost
  <2> QED BY <2>1, <2>2 DEF TopicNames
<1>9. Unlost'
  BY <1>1, <1>8 DEF Unlost, Unbroken, Consecutive
<1> QED BY <1>2, <1>9

LEMMA LosslessStep == ASSUME TimesyncTypes, Judging, Lossless, TimesyncNext PROVE Lossless'
<1>1. (source'.faults = 0 => (FirstRun /\ Unlost)') => Lossless'
  BY DEF Lossless, FirstRun, Unlost, Unbroken, Consecutive, Heard, TopicNames, Capturing
<1>2. CASE Publishes
  <2>1. source'.faults = 0 => source.faults = 0
    BY <1>2, PublishesDoes
  <2> QED BY <1>1, <1>2, <2>1, LosslessMeans, LosslessPublishes
<1>3. CASE Resets
  BY <1>1, <1>3, ResetsDoes
<1>4. ASSUME NEW t \in TopicNames, Observes(t) PROVE Lossless'
  <2>1. source' = source
    BY <1>4, ObservesDoes
  <2> QED BY <1>1, <1>4, <2>1, LosslessMeans, LosslessObserves
<1>5. CASE Connects \/ ObservesDiagnostic \/ GraceEnds \/ LoopLooks \/ TimesOut
  <2>1. UNCHANGED <<source, wire, status, accepts>> /\ Published' = Published
    BY <1>5, OthersDo
  <2>2. capture'.pc = "capturing" =>
            capture.pc = "capturing" \/ (status = <<>> /\ accepts = <<>>)
    BY <1>5 DEF Connects, ObservesDiagnostic, GraceEnds, LoopLooks, TimesOut, Judging,
                TimesyncTypes, CaptureType
  <2> SUFFICES ASSUME source'.faults = 0 PROVE (FirstRun /\ Unlost)'
    BY <1>1
  <2>3. FirstRun /\ Unlost
    BY <2>1, LosslessMeans
  <2>4. FirstRun'
    BY <2>1, <2>3 DEF FirstRun
  <2>5. Unlost'
    BY <2>1, <2>2, <2>3 DEF Unlost, Unbroken, Consecutive, Capturing
  <2> QED BY <2>4, <2>5
<1> QED BY <1>2, <1>3, <1>4, <1>5 DEF TimesyncNext, TopicNames

LEMMA TimesyncStep == ASSUME TimesyncInv, TimesyncNext PROVE TimesyncInv'
<1>1. TimesyncTypes'
  <2>1. ASSUME NEW t \in TopicNames, Observes(t) PROVE TimesyncTypes'
    BY <2>1, ObservesDoes DEF TimesyncInv
  <2> QED BY <2>1, PublishesDoes, ResetsDoes, OthersDo DEF TimesyncInv, TimesyncNext, TopicNames
<1> QED BY <1>1, ChainedStep, LosslessStep, JudgingStep DEF TimesyncInv

LEMMA TimesyncStart == TimesyncInit => TimesyncInv
<1> SUFFICES ASSUME TimesyncInit PROVE TimesyncInv
  OBVIOUS
<1>1. /\ \A t \in TopicNames : wire[t] = <<>>
      /\ wire \in [TopicNames -> {<<>>}] /\ wire["status"] = <<>> /\ wire["accepts"] = <<>>
      /\ status = <<>> /\ accepts = <<>>
  BY DEF TimesyncInit, TopicNames
<1>2. <<>> \in Seq(ExchangeType) /\ Len(<<>>) = 0 /\ Range(<<>>) = {}
  <2>1. <<>> \in Seq(ExchangeType) /\ Len(<<>>) = 0
    BY EmptySeq
  <2>2. Range(<<>>) = {<<>>[i] : i \in 1..Len(<<>>)}
    BY <2>1, RangeEquality
  <2>3. 1..Len(<<>>) = {}
    BY <2>1
  <2> QED BY <2>1, <2>2, <2>3
<1>3. TimesyncTypes
  <2>1. source \in SourceType /\ diag \in [n : Nat, ok : BOOLEAN] /\ capture \in CaptureType
    BY DEF TimesyncInit, SourceType, CaptureType
  <2>2. wire \in [TopicNames -> Seq(ExchangeType)]
    BY <1>1, <1>2
  <2> QED BY <1>1, <1>2, <2>1, <2>2 DEF TimesyncTypes
<1>4. Published = {}
  BY <1>1, <1>2 DEF Published
<1>5. Chained
  BY <1>4 DEF Chained
<1>6. Lossless
  <2>1. FirstRun
    BY <1>4 DEF TimesyncInit, FirstRun
  <2>2. Unlost
    BY <1>1, <1>2 DEF Unlost, Unbroken, Consecutive
  <2> QED BY <2>1, <2>2, LosslessMeans
<1>7. Judging
  BY <1>1 DEF TimesyncInit, Judging
<1> QED BY <1>3, <1>5, <1>6, <1>7 DEF TimesyncInv

LEMMA TimesyncRests == ASSUME TimesyncInv, UNCHANGED timesyncVars PROVE TimesyncInv'
<1>1. UNCHANGED <<source, wire, status, accepts, diag, capture>>
  BY DEF timesyncVars
<1>2. TimesyncTypes'
  BY <1>1 DEF TimesyncInv, TimesyncTypes
<1>3. Chained'
  BY <1>1 DEF TimesyncInv, Chained, Dated, Follows, Published
<1>4. Lossless'
  BY <1>1 DEF TimesyncInv, Lossless, Published, Consecutive, Heard
<1>5. Judging'
  BY <1>1, JudgingAgain DEF TimesyncInv, Judging
<1> QED BY <1>2, <1>3, <1>4, <1>5 DEF TimesyncInv

\* The captured samples are what was published, in one unbroken chain for every run
\* of the flight controller's clock: for any number of exchanges, losses and resets.
THEOREM TimesyncHolds == Spec => []TimesyncInv
<1>1. Init => TimesyncInv
  BY TimesyncStart DEF Init
<1>2. TimesyncInv /\ [Next]_vars => TimesyncInv'
  BY TimesyncStep, TimesyncRests DEF Next, vars, Reports
<1> QED BY <1>1, <1>2, PTL DEF Spec

LEMMA Captured ==
    ASSUME TimesyncTypes
    PROVE  /\ Len(status) \in Nat /\ Len(accepts) \in Nat
           /\ DOMAIN status = 1..Len(status) /\ DOMAIN accepts = 1..Len(accepts)
           /\ \A i \in 1..Len(status) : status[i] \in Published
           /\ \A i \in 1..Len(accepts) : accepts[i] \in Published /\ accepts[i] \in Range(accepts)
BY InRange DEF TimesyncTypes, Published

\* The two tails of a report that passes are the same exchanges.
LEMMA SameTails ==
    ASSUME TimesyncTypes, Chained, ReportPasses
    PROVE  LET n == Len(status) - TailSamples
               k == Len(accepts) - TailSamples
           IN  /\ Len(status) > TailSamples /\ Len(accepts) >= TailSamples
               /\ \A i \in 1..TailSamples :
                    /\ n + i \in 2..Len(status) /\ k + i \in 1..Len(accepts)
                    /\ status[n + i] = accepts[k + i]
                    /\ status[n + i - 1].estimate = accepts[k + i].before
<1> DEFINE n == Len(status) - TailSamples
           k == Len(accepts) - TailSamples
           tail == Suffix(accepts, TailSamples)
<1>1. StatusGate /\ SequenceGate /\ LinkageGate
  BY DEF ReportPasses
<1>2. /\ Len(status) > TailSamples /\ Len(accepts) >= TailSamples
      /\ Len(status) \in Nat /\ Len(accepts) \in Nat /\ TailSamples \in Nat /\ TailSamples > 0
  BY <1>1, Captured, WindowType DEF StatusGate, SequenceGate
<1>3. \A i \in 1..TailSamples : tail[i] = accepts[k + i] /\ k + i \in 1..Len(accepts)
  BY <1>2, LastOnes DEF TimesyncTypes
<1>4. ASSUME NEW i \in 1..TailSamples
      PROVE  LET j == Len(status) - TailSamples + i
             IN  /\ {l \in 1..Len(status) : status[l].remote = tail[i].remote} = {j}
                 /\ j > 1 /\ status[j - 1].estimate = tail[i].before
  BY <1>1 DEF LinkageGate
<1> HIDE DEF tail
<1>5. ASSUME NEW i \in 1..TailSamples
      PROVE  /\ n + i \in 2..Len(status) /\ k + i \in 1..Len(accepts)
             /\ status[n + i] = accepts[k + i]
             /\ status[n + i - 1].estimate = accepts[k + i].before
  <2>1. PICK j \in Int : j = n + i
    BY <1>2
  <2>2. PICK l \in 1..Len(accepts) : l = k + i
    BY <1>3
  <2>3. /\ {o \in 1..Len(status) : status[o].remote = tail[i].remote} = {j}
        /\ j > 1 /\ status[j - 1].estimate = tail[i].before
    BY <1>4, <2>1
  <2>4. /\ j \in 1..Len(status) /\ status[j].remote = accepts[l].remote
        /\ status[j - 1].estimate = accepts[l].before
    <3>1. tail[i] = accepts[l]
      BY <1>3, <2>2
    <3>2. j \in {o \in 1..Len(status) : status[o].remote = tail[i].remote}
      BY <2>3
    <3> QED BY <2>3, <3>1, <3>2
  <2>5. j \in (Len(status) - TailSamples + 1)..Len(status) /\ j - 1 \in 1..Len(status)
    BY <1>2, <2>1, <2>3, <2>4
  <2>6. status[j].epoch = status[j - 1].estimate[1]
    BY <1>1, <2>5 DEF StatusGate
  <2>7. status[j] \in Published /\ accepts[l] \in Published
    BY <2>2, <2>4, Captured
  <2>8. accepts[l].before[1] = accepts[l].epoch
    BY <2>7 DEF Chained, Dated
  <2>9. status[j].epoch = accepts[l].epoch
    BY <2>4, <2>6, <2>8
  <2>10. status[j] = accepts[l]
    BY <2>4, <2>7, <2>9 DEF Chained, Follows
  <2> QED BY <1>2, <2>1, <2>2, <2>3, <2>4, <2>10
<1> QED BY <1>2, <1>5

\* A report that passes shows a tail the filter accepted, in one session and with no
\* accepted exchange left out: for any number of exchanges, losses and resets
\* (_timesync_acceptance_report).
THEOREM AcceptedTail == Spec => []PassMeansAccepted
<1>1. TimesyncInv => PassMeansAccepted
  <2> SUFFICES ASSUME TimesyncTypes, Chained, ReportPasses PROVE PassMeansAccepted
    BY DEF TimesyncInv, PassMeansAccepted
  <2> DEFINE n == Len(status) - TailSamples
             k == Len(accepts) - TailSamples
             tail == Suffix(accepts, TailSamples)
  <2>1. /\ Len(status) > TailSamples /\ Len(accepts) >= TailSamples
        /\ Len(status) \in Nat /\ Len(accepts) \in Nat /\ TailSamples \in Nat /\ TailSamples > 0
    BY SameTails, Captured, WindowType
  <2>2. /\ DOMAIN StatusTail = 1..TailSamples
        /\ \A i \in 1..TailSamples : StatusTail[i] = status[n + i]
    BY <2>1, LastOnes DEF TimesyncTypes, StatusTail
  <2>3. /\ DOMAIN tail = 1..TailSamples
        /\ \A i \in 1..TailSamples : tail[i] = accepts[k + i]
    BY <2>1, LastOnes DEF TimesyncTypes
  <2>4. /\ \A i \in DOMAIN tail : tail[i].ok /\ tail[i].converged
        /\ \A m, o \in Range(accepts) : m.epoch = o.epoch
    BY DEF ReportPasses, ConvergenceGate, SequenceGate
  <2> HIDE DEF tail
  <2>5. ASSUME NEW i \in 1..TailSamples
        PROVE  /\ StatusTail[i] = accepts[k + i] /\ k + i \in 1..Len(accepts)
               /\ status[n + i - 1].estimate = accepts[k + i].before
    BY <2>2, SameTails
  <2>6. \A i \in DOMAIN StatusTail : StatusTail[i].ok /\ StatusTail[i].converged
    BY <2>2, <2>3, <2>4, <2>5
  <2>7. ASSUME NEW i \in 1..(TailSamples - 1)
        PROVE  /\ StatusTail[i].epoch = StatusTail[i + 1].epoch
               /\ StatusTail[i + 1].before = StatusTail[i].estimate
    <3>1. i \in 1..TailSamples /\ i + 1 \in 1..TailSamples /\ n + (i + 1) - 1 = n + i
      BY <2>1
    <3>2. StatusTail[i].epoch = StatusTail[i + 1].epoch
      BY <2>4, <2>5, <3>1, Captured
    <3>3. status[n + i].estimate = accepts[k + (i + 1)].before
      BY <2>5, <3>1
    <3> QED BY <2>2, <2>5, <3>1, <3>2, <3>3
  <2> QED BY <2>6, <2>7 DEF PassMeansAccepted
<1> QED BY <1>1, TimesyncHolds, PTL

\* Consecutive samples, counted from the last one.
LEMMA CountedBack ==
    ASSUME NEW s \in Seq(ExchangeType), Consecutive(s), s # <<>>
    PROVE  /\ Last(s) = s[Len(s)] /\ Len(s) \in 1..Len(s) /\ Len(s) \in Nat /\ Last(s).remote \in Nat
           /\ \A i \in 1..Len(s) : s[i].remote \in Nat /\ s[i].remote + Len(s) = Last(s).remote + i
<1>1. Len(s) \in Nat /\ Len(s) > 0
  BY EmptySeq, LenProperties
<1>2. Last(s) = s[Len(s)]
  BY DEF Last
<1>3. \A i \in 1..Len(s) : s[i].remote \in Nat
  BY RemoteTypes
<1>4. Len(s) \in 1..Len(s) /\ 1 \in 1..Len(s)
  BY <1>1
<1>5. ASSUME NEW i \in 1..Len(s) PROVE s[i].remote + Len(s) = Last(s).remote + i
  <2>1. PICK a \in Nat, b \in Nat, f \in Nat, k \in Nat :
            a = s[i].remote /\ b = s[Len(s)].remote /\ f = s[1].remote /\ k = Len(s)
    BY <1>1, <1>3, <1>4
  <2>2. a = f + i - 1 /\ b = f + k - 1
    BY <1>4, <2>1 DEF Consecutive
  <2>3. a + k = b + i
    BY <2>2
  <2> QED BY <1>2, <2>1, <2>3
<1> QED BY <1>1, <1>2, <1>3, <1>4, <1>5

\* What is known of a healthy capture that completed.
HealthyEnd ==
    capture.pc = "exit 0" /\ Healthy /\ Timely /\ Len(status) > TailSamples /\ NotAhead

LEMMA HealthyKnown ==
    ASSUME TimesyncInv, HealthyEnd
    PROVE  /\ Enough(status, accepts, diag.n) /\ Paired(status, accepts)
           /\ Consecutive(status) /\ Consecutive(accepts)
           /\ status # <<>> /\ accepts # <<>>
           /\ Last(status).remote = Last(accepts).remote
           /\ \A m \in Published : m.epoch = 0 /\ m.id + 1 = m.remote
           /\ \A i \in 1..Len(status) : status[i].ok /\ status[i].converged
           /\ \A i \in 1..Len(accepts) : accepts[i].ok /\ accepts[i].converged
<1>1. TimesyncTypes /\ Lossless /\ Judging
  BY DEF TimesyncInv
<1>2. Enough(status, accepts, diag.n) /\ Paired(status, accepts)
  BY <1>1 DEF HealthyEnd, Judging
<1>3. FirstRun /\ Unlost
  BY <1>1, LosslessMeans DEF HealthyEnd, Healthy
<1>4. Consecutive(status) /\ Consecutive(accepts)
  BY <1>3 DEF Unlost, Unbroken
<1>5. /\ status \in Seq(ExchangeType) /\ accepts \in Seq(ExchangeType)
      /\ Len(status) \in Nat /\ Len(accepts) \in Nat
      /\ \A i \in 1..Len(status) : status[i] \in Range(status)
      /\ \A i \in 1..Len(accepts) : accepts[i] \in Range(accepts)
  BY <1>1, InRange DEF TimesyncTypes
<1>6. /\ Len(status) >= TailSamples /\ Len(accepts) >= TailSamples
      /\ Len(status) > 0 /\ Len(accepts) > 0 /\ status # <<>> /\ accepts # <<>>
  <2>1. Len(status) > TailSamples
    BY DEF HealthyEnd
  <2>2. Len(accepts) >= TailSamples
    BY <1>2 DEF Enough
  <2>3. /\ Len(status) >= TailSamples /\ Len(accepts) >= TailSamples
        /\ Len(status) > 0 /\ Len(accepts) > 0
    BY <1>5, <2>1, <2>2, WindowType
  <2> QED BY <1>5, <2>3, EmptySeq
<1>7. Last(status).remote <= Last(accepts).remote
  <2>1. Last(status).remote \in Remotes(Suffix(status, TailSamples))
    <3>1. /\ TailSamples \in DOMAIN Suffix(status, TailSamples)
          /\ Suffix(status, TailSamples)[TailSamples] = status[Len(status) - TailSamples + TailSamples]
      <4>1. TailSamples \in 1..TailSamples /\ TailSamples \in Nat /\ TailSamples > 0
        BY WindowType
      <4> QED BY <1>5, <1>6, <4>1, LastOnes
    <3>2. Len(status) - TailSamples + TailSamples = Len(status)
      BY <1>5, WindowType
    <3>3. Suffix(status, TailSamples)[TailSamples] = Last(status)
      BY <1>4, <1>5, <1>6, <3>1, <3>2, CountedBack
    <3> QED BY <3>1, <3>3 DEF Remotes
  <2>2. Last(status).remote \in Remotes(accepts)
    BY <1>2, <2>1 DEF Paired
  <2>3. PICK i \in 1..Len(accepts) : accepts[i].remote = Last(status).remote
    BY <1>5, <2>2, LenProperties DEF Remotes
  <2>4. PICK a \in Nat, b \in Nat, k \in Nat :
            a = accepts[i].remote /\ b = Last(accepts).remote /\ k = Len(accepts)
    BY <1>4, <1>5, <1>6, CountedBack
  <2>5. a + k = b + i
    BY <1>4, <1>5, <1>6, <2>4, CountedBack
  <2>6. a <= b
    BY <2>4, <2>5
  <2> QED BY <2>3, <2>4, <2>6
<1>8. Last(status).remote = Last(accepts).remote
  <2>1. Last(accepts).remote <= Last(status).remote
    BY DEF HealthyEnd, NotAhead
  <2>2. Last(accepts).remote \in Nat /\ Last(status).remote \in Nat
    BY <1>4, <1>5, <1>6, CountedBack
  <2> QED BY <1>7, <2>1, <2>2
<1>9. \A m \in Range(status) \cup Range(accepts) : m.ok /\ m.converged
  BY DEF HealthyEnd, Healthy
<1> QED BY <1>2, <1>3, <1>4, <1>5, <1>6, <1>8, <1>9 DEF FirstRun

\* Two samples next to each other in a healthy capture.
LEMMA HealthyNeighbours ==
    ASSUME TimesyncInv, HealthyEnd, NEW m \in Published, NEW o \in Published,
           o.remote = m.remote + 1
    PROVE  /\ o.before = m.estimate /\ o.epoch = m.estimate[1]
           /\ o.sequence = m.sequence + (IF o.ok THEN 1 ELSE 0)
           /\ m.id < o.id
<1>1. m.epoch = 0 /\ o.epoch = 0 /\ m.id + 1 = m.remote /\ o.id + 1 = o.remote
  BY HealthyKnown
<1>2. Follows(m, o) /\ m.estimate[1] = m.epoch
  BY DEF TimesyncInv, Chained, Dated
<1>3. m.id < o.id
  <2>1. m.id \in Nat /\ o.id \in Nat
    BY PublishedTypes DEF TimesyncInv
  <2> QED BY <1>1, <2>1
<1> QED BY <1>1, <1>2, <1>3 DEF Follows

\* A healthy source passes whenever a capture completes with more samples than the
\* tail in it and the accepted sequence not ahead of the status: for any number of
\* exchanges and whatever the two topics missed at their start.
THEOREM HealthyPasses == Spec => []HealthyCapturePasses
<1>1. ASSUME TimesyncInv, HealthyEnd PROVE ReportPasses
  <2> DEFINE n == Len(status)
             k == Len(accepts)
             tail == Suffix(accepts, TailSamples)
  <2>1. /\ Enough(status, accepts, diag.n)
        /\ \A m \in Published : m.epoch = 0 /\ m.id + 1 = m.remote
        /\ \A i \in 1..n : status[i].ok /\ status[i].converged
        /\ \A i \in 1..k : accepts[i].ok /\ accepts[i].converged
    BY <1>1, HealthyKnown
  <2>2. /\ n \in Nat /\ k \in Nat /\ DOMAIN accepts = 1..k
        /\ \A i \in 1..n : status[i] \in Published
        /\ \A i \in 1..k : accepts[i] \in Published
        /\ \A m \in Range(accepts) : m \in Published
    BY <1>1, Captured DEF TimesyncInv, Published
  <2>3. /\ n > TailSamples /\ k >= TailSamples /\ n >= MinStatus /\ diag.n >= MinDiag /\ diag.ok
        /\ TailSamples \in Nat /\ TailSamples > 0
    BY <1>1, <2>1, WindowType DEF HealthyEnd, Healthy, Enough
  <2>4. PICK r \in Nat : r = Last(status).remote /\ r = Last(accepts).remote
    BY <1>1, HealthyKnown, CountedBack DEF TimesyncInv, TimesyncTypes
  <2>5. /\ \A i \in 1..n : status[i].remote \in Nat /\ status[i].remote + n = r + i
        /\ \A i \in 1..k : accepts[i].remote \in Nat /\ accepts[i].remote + k = r + i
    BY <1>1, <2>4, HealthyKnown, CountedBack DEF TimesyncInv, TimesyncTypes
  <2>6. \A i \in 1..TailSamples : tail[i] = accepts[k - TailSamples + i]
                                  /\ k - TailSamples + i \in 1..k
    BY <1>1, <2>2, <2>3, LastOnes DEF TimesyncInv, TimesyncTypes
  <2>7. DOMAIN tail = 1..TailSamples /\ Len(tail) = TailSamples
    BY <1>1, <2>2, <2>3, LastOnes DEF TimesyncInv, TimesyncTypes
  <2> HIDE DEF n, k, tail
  <2>8. ASSUME NEW i \in 1..(n - 1)
        PROVE  /\ status[i].remote < status[i + 1].remote
               /\ status[i + 1].epoch = status[i].estimate[1]
    <3>1. i \in 1..n /\ i + 1 \in 1..n
      BY <2>2
    <3>2. status[i + 1].remote = status[i].remote + 1
      <4>1. PICK a \in Nat, b \in Nat : a = status[i].remote /\ b = status[i + 1].remote
        BY <2>5, <3>1
      <4>2. a + n = r + i /\ b + n = r + (i + 1)
        BY <2>5, <3>1, <4>1
      <4>3. b = a + 1
        BY <2>2, <3>1, <4>2
      <4> QED BY <4>1, <4>3
    <3>3. status[i + 1].epoch = status[i].estimate[1]
      BY <1>1, <2>2, <3>1, <3>2, HealthyNeighbours
    <3> QED BY <2>5, <3>1, <3>2, <3>3
  <2>9. ASSUME NEW i \in 1..(k - 1)
        PROVE  /\ accepts[i].id < accepts[i + 1].id
               /\ accepts[i + 1].sequence = accepts[i].sequence + 1 /\ accepts[i].sequence \in Nat
               /\ accepts[i + 1].sequence =
                      accepts[i].sequence + (IF accepts[i + 1].ok THEN 1 ELSE 0)
    <3>1. i \in 1..k /\ i + 1 \in 1..k
      BY <2>2
    <3>2. accepts[i + 1].remote = accepts[i].remote + 1
      <4>1. PICK a \in Nat, b \in Nat : a = accepts[i].remote /\ b = accepts[i + 1].remote
        BY <2>5, <3>1
      <4>2. a + k = r + i /\ b + k = r + (i + 1)
        BY <2>5, <3>1, <4>1
      <4>3. b = a + 1
        BY <2>2, <3>1, <4>2
      <4> QED BY <4>1, <4>3
    <3>3. accepts[i] \in Published /\ accepts[i + 1] \in Published
      BY <2>2, <3>1
    <3>4. /\ accepts[i + 1].sequence = accepts[i].sequence + (IF accepts[i + 1].ok THEN 1 ELSE 0)
          /\ accepts[i].id < accepts[i + 1].id
      BY <1>1, <3>2, <3>3, HealthyNeighbours
    <3>5. accepts[i + 1].ok
      BY <2>1, <3>1 DEF k
    <3>6. accepts[i].sequence \in Nat
      BY <1>1, <3>3, PublishedTypes DEF TimesyncInv
    <3> QED BY <3>4, <3>5, <3>6
  <2> DEFINE timely == \A topic \in {"status", "accepts", "diag"} : InTime(topic)
  <2>15. timely /\ \A m \in Range(tail) : <<"link", m.id>> \notin untimely
    <3>1. Timely
      BY <1>1 DEF HealthyEnd
    <3>2. ASSUME NEW topic \in {"status", "accepts", "diag"} PROVE InTime(topic)
      <4>1. <<"stamps", topic>>[1] = "stamps" /\ <<"end", topic>>[1] = "end"
        OBVIOUS
      <4> QED BY <3>1, <4>1 DEF Timely, InTime
    <3> QED BY <3>1, <3>2 DEF Timely, tail
  <2>16. \A i \in 1..TailSamples : <<"link", tail[i].id>> \notin untimely
    BY <2>7, <2>15 DEF Range
  <2> HIDE DEF timely
  <2>10. StatusGate
    <3>1. ASSUME NEW j \in (n - TailSamples + 1)..n PROVE status[j].epoch = status[j - 1].estimate[1]
      <4>1. PICK i \in 1..(n - 1) : i = j - 1 /\ i + 1 = j
        BY <2>2, <2>3
      <4> QED BY <2>8, <4>1
    <3> QED BY <2>3, <2>8, <2>15, <3>1 DEF StatusGate, Increasing, Remote, n, timely
  <2>11. SequenceGate
    BY <2>1, <2>2, <2>3, <2>9, <2>15 DEF SequenceGate, Increasing, Observation, k, timely
  <2>12. ConvergenceGate
    <3>1. \A i \in DOMAIN tail : tail[i].ok /\ tail[i].converged
      BY <2>1, <2>6, <2>7 DEF k
    <3>2. tail[1].sequence >= Window
      <4>1. 1 \in 1..TailSamples /\ tail[1] \in Published
        BY <2>2, <2>3, <2>6
      <4> QED BY <1>1, <2>7, <3>1, <4>1 DEF TimesyncInv, Chained, Dated
    <3>3. ASSUME NEW i \in 1..(TailSamples - 1) PROVE tail[i].sequence < tail[i + 1].sequence
      <4>1. PICK l \in 1..(k - 1) : l = k - TailSamples + i
        BY <2>2, <2>3
      <4>2. i \in 1..TailSamples /\ i + 1 \in 1..TailSamples /\ k - TailSamples + (i + 1) = l + 1
        BY <2>2, <2>3, <4>1
      <4>3. tail[i] = accepts[l] /\ tail[i + 1] = accepts[l + 1]
        BY <2>6, <4>1, <4>2
      <4> QED BY <2>9, <4>3
    <3>4. \A i \in 1..(Len(tail) - 1) : Sequence(tail[i]) < Sequence(tail[i + 1])
      BY <2>7, <3>3 DEF Sequence
    <3> QED BY <3>1, <3>2, <3>4 DEF ConvergenceGate, Increasing, tail
  <2>13. ASSUME NEW i \in 1..TailSamples
         PROVE  LET j == n - TailSamples + i
                IN  /\ {l \in 1..n : status[l].remote = tail[i].remote} = {j}
                    /\ j > 1 /\ status[j - 1].estimate = tail[i].before
    <3>1. PICK j \in 1..n : j = n - TailSamples + i /\ j > 1 /\ j - 1 \in 1..n
      BY <2>2, <2>3
    <3>2. PICK l \in 1..k : l = k - TailSamples + i /\ tail[i] = accepts[l]
      BY <2>6
    <3>3. PICK a \in Nat : a = accepts[l].remote
      BY <2>5
    <3>4. a + TailSamples = r + i
      <4>1. a + k = r + l
        BY <2>5, <3>3
      <4> QED BY <2>2, <2>3, <3>2, <4>1
    <3>5. ASSUME NEW o \in 1..n PROVE status[o].remote = a <=> o = j
      <4>1. PICK b \in Nat : b = status[o].remote
        BY <2>5
      <4>2. b + n = r + o
        BY <2>5, <4>1
      <4>3. b = a <=> o = j
        BY <2>2, <2>3, <3>1, <3>4, <4>2
      <4> QED BY <4>1, <4>3
    <3>6. tail[i].remote = status[j - 1].remote + 1
      <4>1. PICK b \in Nat : b = status[j - 1].remote
        BY <2>5, <3>1
      <4>2. b + n = r + (j - 1)
        BY <2>5, <3>1, <4>1
      <4>3. a = b + 1
        BY <2>2, <2>3, <3>1, <3>4, <4>2
      <4> QED BY <3>2, <3>3, <4>1, <4>3
    <3>7. status[j - 1] \in Published /\ tail[i] \in Published
      BY <2>2, <3>1, <3>2 DEF n, k
    <3>8. status[j - 1].estimate = tail[i].before
      BY <1>1, <3>6, <3>7, HealthyNeighbours
    <3>9. {o \in 1..n : status[o].remote = tail[i].remote} = {j}
      BY <3>2, <3>3, <3>5
    <3> QED BY <3>1, <3>8, <3>9
  <2>14. LinkageGate
    BY <2>13, <2>16 DEF LinkageGate, n, tail
  <2> QED BY <1>1, <2>3, <2>10, <2>11, <2>12, <2>14, <2>15 DEF ReportPasses, DiagGate, HealthyEnd, timely
<1>2. TimesyncInv => HealthyCapturePasses
  BY <1>1 DEF HealthyCapturePasses, HealthyEnd
<1> QED BY <1>2, TimesyncHolds, PTL

-----------------------------------------------------------------------------
(* The parameters.                                                         *)

IndexIn(t, name) ==
    Cardinality({i \in DOMAIN Order : /\ Order[i] \in DOMAIN t
                                      /\ \E j \in DOMAIN Order : Order[j] = name /\ i < j})
IsTable(t) == DOMAIN t \subseteq Names /\ t \in [DOMAIN t -> Values]
MessageType == [name : Names \cup {Hash}, index : Int, value : Values \cup {0}, count : Nat]
SampleType == [message : MessageType, inside : BOOLEAN]

\* What the flight controller, MAVROS and the trace hold, while it matters.
ParamTypes ==
    /\ place \in {"pull", "tail", "judged", "reported"}
    /\ channel \in Seq(MessageType) /\ trace \in Seq(SampleType)
    /\ place # "reported" => IsTable(fcu) /\ IsTable(kept) /\ \A t \in hist.tables : IsTable(t)
    /\ hist.good \in BOOLEAN
    /\ DOMAIN hist = {"tables", "good"}

Sent == Messages \cup Range(channel)

\* A numbered message tells of a table the flight controller had.
Says(t, m) ==
    /\ m.name \in DOMAIN t /\ m.value = t[m.name]
    /\ m.count = Cardinality(DOMAIN t) /\ m.index = IndexIn(t, m.name)
FromTables ==
    place # "reported" =>
        /\ \A t, u \in hist.tables : DOMAIN t \subseteq DOMAIN u \/ DOMAIN u \subseteq DOMAIN t
        /\ \A t \in hist.tables : DOMAIN t \subseteq DOMAIN fcu
        /\ place = "pull" => fcu \in hist.tables
        /\ \A m \in Sent : m.index = NoIndex \/ \E t \in hist.tables : Says(t, m)

\* A good pull has one table, and what MAVROS keeps of it was sent.
GoodOne(t) ==
    /\ hist.tables = {t}
    /\ place = "pull" => fcu = t
    /\ \A n \in DOMAIN kept :
           /\ n \in DOMAIN t /\ kept[n] = t[n]
           /\ \E m \in Sent : m.name = n /\ m.index # NoIndex
    /\ \A m \in Sent : m.index = NoIndex =>
           m.name = Hash /\ m.count \in {Cardinality(DOMAIN t), Cardinality(DOMAIN t) + 1}
    /\ \A i \in DOMAIN trace : trace[i].inside
    /\ place # "pull" => channel = <<>> /\ dump = kept /\ DOMAIN kept = DOMAIN t
GoodSoFar == hist.good /\ place # "reported" => \E t \in hist.tables : GoodOne(t)

ParamInv == ParamTypes /\ FromTables /\ GoodSoFar

\* Every name the firmware knows has one place.
Place(name) == CHOOSE j \in DOMAIN Order : Order[j] = name

LEMMA Places ==
    /\ DOMAIN Order = 1..Len(Order) /\ Len(Order) \in Nat /\ DOMAIN Order \subseteq Nat
    /\ IsFiniteSet(DOMAIN Order) /\ IsFiniteSet(Names)
    /\ \A name \in Names : Place(name) \in DOMAIN Order /\ Order[Place(name)] = name
    /\ \A i \in DOMAIN Order : Order[i] \in Names /\ Place(Order[i]) = i
<1>1. /\ DOMAIN Order = 1..Len(Order) /\ Len(Order) \in Nat
      /\ Order \in Seq(Range(Order))
  BY ParamConstants, LenProperties
<1>2. /\ \A i, j \in DOMAIN Order : Order[i] = Order[j] => i = j
      /\ Range(Order) = {Order[i] : i \in DOMAIN Order}
  BY ParamConstants DEF Range
<1>3. IsFiniteSet(DOMAIN Order)
  BY <1>1, FS_Interval
<1>4. \A name \in Names : Place(name) \in DOMAIN Order /\ Order[Place(name)] = name
  BY <1>2 DEF Place, Names
<1>5. \A i \in DOMAIN Order : Order[i] \in Names /\ Place(Order[i]) = i
  BY <1>2, <1>4 DEF Names
<1>6. IsFiniteSet(Names)
  <2>1. Order \in Surjection(DOMAIN Order, Names)
    <3>1. Order = [i \in DOMAIN Order |-> Order[i]]
      BY <1>1
    <3>2. Order \in [DOMAIN Order -> Names]
      BY <1>5, <3>1
    <3> QED BY <1>4, <3>2 DEF Surjection
  <2> QED BY <1>3, <2>1, FS_Surjection
<1> QED BY <1>1, <1>3, <1>4, <1>5, <1>6

LEMMA TableFinite ==
    ASSUME NEW t, IsTable(t)
    PROVE  IsFiniteSet(DOMAIN t) /\ Cardinality(DOMAIN t) \in Nat
<1>1. DOMAIN t \in SUBSET Names
  BY DEF IsTable
<1> QED BY <1>1, Places, FS_Subset, FS_CardinalityType

\* The places in use, and those of them before a name.
InUse(t) == {i \in DOMAIN Order : Order[i] \in DOMAIN t}
Before(t, name) == {i \in InUse(t) : i < Place(name)}

LEMMA IndexIsBefore ==
    ASSUME NEW t, IsTable(t), NEW name \in DOMAIN t
    PROVE  /\ IndexIn(t, name) = Cardinality(Before(t, name))
           /\ IsFiniteSet(InUse(t)) /\ Before(t, name) \subseteq InUse(t)
           /\ Place(name) \in InUse(t) \ Before(t, name)
           /\ IsFiniteSet(Before(t, name)) /\ IndexIn(t, name) \in Nat
<1>1. name \in Names
  BY DEF IsTable
<1>2. ASSUME NEW i \in DOMAIN Order
      PROVE  (\E j \in DOMAIN Order : Order[j] = name /\ i < j) <=> i < Place(name)
  BY <1>1, Places
<1>3. {i \in DOMAIN Order : /\ Order[i] \in DOMAIN t
                            /\ \E j \in DOMAIN Order : Order[j] = name /\ i < j}
        = Before(t, name)
  BY <1>2 DEF Before, InUse
<1>4. IsFiniteSet(InUse(t)) /\ IsFiniteSet(Before(t, name))
  <2>1. InUse(t) \in SUBSET DOMAIN Order /\ Before(t, name) \in SUBSET DOMAIN Order
    BY DEF InUse, Before
  <2> QED BY <2>1, Places, FS_Subset
<1>5. Place(name) \in InUse(t) /\ ~(Place(name) < Place(name))
  BY <1>1, Places DEF InUse
<1> QED BY <1>3, <1>4, <1>5, FS_CardinalityType DEF IndexIn, Before

\* A table with n names numbers them 0..n-1, each with a number of its own.
LEMMA Numbering ==
    ASSUME NEW t, IsTable(t)
    PROVE  /\ \A m, o \in DOMAIN t : IndexIn(t, m) = IndexIn(t, o) => m = o
           /\ {IndexIn(t, m) : m \in DOMAIN t} = 0..(Cardinality(DOMAIN t) - 1)
<1>1. Cardinality(InUse(t)) = Cardinality(DOMAIN t)
  <2> DEFINE f == [i \in InUse(t) |-> Order[i]]
  <2>1. f \in [InUse(t) -> DOMAIN t]
    BY DEF InUse
  <2>2. \A i, j \in InUse(t) : f[i] = f[j] => i = j
    BY ParamConstants DEF InUse
  <2>3. \A m \in DOMAIN t : \E i \in InUse(t) : f[i] = m
    <3>1. ASSUME NEW m \in DOMAIN t PROVE Place(m) \in InUse(t) /\ Order[Place(m)] = m
      BY Places DEF IsTable, InUse
    <3> QED BY <3>1
  <2> HIDE DEF f
  <2>4. f \in Bijection(InUse(t), DOMAIN t)
    BY <2>1, <2>2, <2>3 DEF Bijection, Injection, Surjection, IsInjective
  <2>5. IsFiniteSet(InUse(t))
    <3>1. InUse(t) \in SUBSET DOMAIN Order
      BY DEF InUse
    <3> QED BY <3>1, Places, FS_Subset
  <2>6. ExistsBijection(InUse(t), DOMAIN t)
    BY <2>4 DEF ExistsBijection
  <2> QED BY <2>5, <2>6, FS_Bijection
<1>2. \A m \in DOMAIN t : IndexIn(t, m) \in 0..(Cardinality(DOMAIN t) - 1)
  <2>1. ASSUME NEW m \in DOMAIN t PROVE IndexIn(t, m) \in 0..(Cardinality(DOMAIN t) - 1)
    <3>1. /\ IndexIn(t, m) = Cardinality(Before(t, m)) /\ IsFiniteSet(InUse(t))
          /\ Before(t, m) \in SUBSET InUse(t) /\ Before(t, m) # InUse(t) /\ IndexIn(t, m) \in Nat
      BY <2>1, IndexIsBefore
    <3>2. /\ Cardinality(Before(t, m)) <= Cardinality(InUse(t))
          /\ Cardinality(Before(t, m)) # Cardinality(InUse(t))
      BY <3>1, FS_Subset
    <3> QED BY <1>1, <3>1, <3>2, TableFinite
  <2> QED BY <2>1
<1>3. ASSUME NEW m \in DOMAIN t, NEW o \in DOMAIN t, Place(m) < Place(o)
      PROVE  IndexIn(t, m) # IndexIn(t, o)
  <2>1. /\ IndexIn(t, m) = Cardinality(Before(t, m)) /\ IndexIn(t, o) = Cardinality(Before(t, o))
        /\ IsFiniteSet(Before(t, o)) /\ Place(m) \in InUse(t) \ Before(t, m)
    BY <1>3, IndexIsBefore
  <2>2. Place(m) \in Before(t, o)
    BY <1>3, <2>1 DEF Before
  <2>3. Before(t, m) \in SUBSET Before(t, o)
    <3>1. Place(m) \in Nat /\ Place(o) \in Nat /\ InUse(t) \subseteq Nat
      BY <1>3, Places DEF IsTable, InUse
    <3> QED BY <1>3, <3>1 DEF Before
  <2>4. Before(t, m) # Before(t, o)
    BY <2>1, <2>2
  <2> QED BY <2>1, <2>3, <2>4, FS_Subset
<1>4. \A m, o \in DOMAIN t : IndexIn(t, m) = IndexIn(t, o) => m = o
  <2>1. ASSUME NEW m \in DOMAIN t, NEW o \in DOMAIN t, IndexIn(t, m) = IndexIn(t, o) PROVE m = o
    <3>1. /\ Place(m) \in Nat /\ Place(o) \in Nat
          /\ Order[Place(m)] = m /\ Order[Place(o)] = o
      BY Places DEF IsTable
    <3>2. ~(Place(m) < Place(o)) /\ ~(Place(o) < Place(m))
      BY <1>3, <2>1
    <3>3. Place(m) = Place(o)
      BY <3>1, <3>2
    <3> QED BY <3>1, <3>3
  <2> QED BY <2>1
<1>5. {IndexIn(t, m) : m \in DOMAIN t} = 0..(Cardinality(DOMAIN t) - 1)
  <2> DEFINE g == [m \in DOMAIN t |-> IndexIn(t, m)]
             n == Cardinality(DOMAIN t)
  <2>1. n \in Nat /\ IsFiniteSet(DOMAIN t)
    BY TableFinite
  <2>2. IsFiniteSet(0..(n - 1)) /\ Cardinality(0..(n - 1)) = n
    <3>1. IsFiniteSet(0..(n - 1)) /\ Cardinality(0..(n - 1)) = IF 0 > n - 1 THEN 0 ELSE (n - 1) - 0 + 1
      BY SMTT(30), <2>1, FS_Interval
    <3> QED BY <2>1, <3>1
  <2>3. g \in [DOMAIN t -> 0..(n - 1)] /\ \A m, o \in DOMAIN t : g[m] = g[o] => m = o
    BY <1>2, <1>4
  <2> HIDE DEF g, n
  <2>4. g \in Injection(DOMAIN t, 0..(n - 1))
    BY <2>3 DEF Injection, IsInjective
  <2>5. g \in Surjection(DOMAIN t, 0..(n - 1))
    BY <2>2, <2>4, FS_Injection DEF n
  <2>6. \A i \in 0..(n - 1) : \E m \in DOMAIN t : g[m] = i
    BY <2>5 DEF Surjection
  <2> QED BY <1>2, <2>6 DEF g, n
<1> QED BY <1>4, <1>5

-----------------------------------------------------------------------------
(* The invariant of the parameters.                                        *)

LEMMA SentIs == ASSUME ParamTypes
                PROVE  /\ Messages \subseteq MessageType /\ Range(channel) \subseteq MessageType
                       /\ \A i \in DOMAIN trace : trace[i].message \in Sent
                       /\ \A m \in Sent : m \in MessageType
<1>1. trace \in Seq(SampleType) /\ channel \in Seq(MessageType)
  BY DEF ParamTypes
<1>2. \A i \in DOMAIN trace : trace[i] \in SampleType
  BY <1>1, InRange
<1>3. \A i \in DOMAIN trace : trace[i].message \in MessageType /\ trace[i].message \in Messages
  BY <1>2 DEF SampleType, Messages
<1>4. Range(channel) \subseteq MessageType
  BY <1>1, InRange
<1> QED BY <1>3, <1>4 DEF Messages, Sent

\* What a step makes of the messages: one is published, received or lost.
LEMMA PublishedOne ==
    ASSUME ParamTypes, NEW m \in MessageType, channel' = Append(channel, m), trace' = trace
    PROVE  Sent' = Sent \cup {m} /\ channel' \in Seq(MessageType)
<1>1. channel' \in Seq(MessageType) /\ Range(channel') = Range(channel) \cup {m}
  BY Longer DEF ParamTypes
<1>2. Messages' = Messages
  BY DEF Messages
<1> QED BY <1>1, <1>2 DEF Sent

LEMMA TakenOne ==
    ASSUME ParamTypes, channel # <<>>, channel' = Tail(channel)
    PROVE  /\ channel' \in Seq(MessageType) /\ Head(channel) \in MessageType
           /\ trace' = trace => Sent' \subseteq Sent /\ trace' \in Seq(SampleType)
           /\ \A inside \in BOOLEAN :
                trace' = Append(trace, [message |-> Head(channel), inside |-> inside]) =>
                   /\ Sent' = Sent /\ trace' \in Seq(SampleType)
                   /\ (\A i \in DOMAIN trace : trace[i].inside) /\ inside =>
                          \A i \in DOMAIN trace' : trace'[i].inside
<1>1. channel \in Seq(MessageType) /\ trace \in Seq(SampleType)
  BY DEF ParamTypes
<1>2. /\ channel' \in Seq(MessageType) /\ Head(channel) \in MessageType
      /\ Head(channel) \in Range(channel) /\ Head(channel) = channel[1]
      /\ Range(channel') \subseteq Range(channel)
      /\ Len(channel') = Len(channel) - 1 /\ Len(channel) \in Nat /\ Len(channel) > 0
      /\ \A i \in 1..(Len(channel) - 1) : channel'[i] = channel[i + 1]
  BY <1>1, Shorter
<1>3. Range(channel) \subseteq Range(channel') \cup {Head(channel)}
  <2>1. /\ \A x \in Range(channel) : \E i \in 1..Len(channel) : channel[i] = x
        /\ \A i \in 1..Len(channel') : channel'[i] \in Range(channel')
    <3>1. PICK c \in Seq(MessageType) : c = channel'
      BY <1>2
    <3>2. \A i \in 1..Len(c) : c[i] \in Range(c)
      BY <3>1, InRange
    <3>3. \A x \in Range(channel) : \E i \in 1..Len(channel) : channel[i] = x
      BY <1>1, InRange
    <3> QED BY <3>1, <3>2, <3>3
  <2>2. ASSUME NEW i \in 1..Len(channel) PROVE channel[i] \in Range(channel') \cup {Head(channel)}
    <3>1. CASE i = 1
      BY <1>2, <3>1
    <3>2. CASE i # 1
      <4>1. PICK j \in 1..(Len(channel) - 1) : i = j + 1
        BY <1>2, <3>2
      <4> QED BY <1>2, <2>1, <4>1
    <3> QED BY <3>1, <3>2
  <2> QED BY <2>1, <2>2
<1>4. trace' = trace => Sent' \subseteq Sent /\ trace' \in Seq(SampleType)
  BY <1>1, <1>2 DEF Sent, Messages
<1>5. ASSUME NEW inside \in BOOLEAN,
             trace' = Append(trace, [message |-> Head(channel), inside |-> inside])
      PROVE  /\ Sent' = Sent /\ trace' \in Seq(SampleType)
             /\ (\A i \in DOMAIN trace : trace[i].inside) /\ inside =>
                    \A i \in DOMAIN trace' : trace'[i].inside
  <2> DEFINE s == [message |-> Head(channel), inside |-> inside]
  <2>1. s \in SampleType /\ s.message = Head(channel) /\ s.inside = inside
    BY <1>2 DEF SampleType
  <2> HIDE DEF s
  <2>2. /\ trace' \in Seq(SampleType) /\ Len(trace') = Len(trace) + 1 /\ trace'[Len(trace) + 1] = s
        /\ \A i \in 1..Len(trace) : trace'[i] = trace[i]
    BY <1>1, <1>5, <2>1, Longer DEF s
  <2>3. /\ DOMAIN trace = 1..Len(trace) /\ Len(trace) \in Nat
        /\ DOMAIN trace' = 1..(Len(trace) + 1)
    BY <1>1, <2>2, InRange
  <2>4. /\ \A i \in DOMAIN trace' : i \in DOMAIN trace \/ i = Len(trace) + 1
        /\ DOMAIN trace \subseteq DOMAIN trace' /\ Len(trace) + 1 \in DOMAIN trace'
    BY <2>3
  <2>5. Messages' = Messages \cup {Head(channel)}
    BY <2>1, <2>2, <2>3, <2>4 DEF Messages
  <2>6. Sent' = Sent
    BY <1>2, <1>3, <2>5 DEF Sent
  <2> QED BY <2>1, <2>2, <2>3, <2>4, <2>6
<1> QED BY <1>2, <1>4, <1>5

LEMMA ParamStart == ASSUME ParamInit PROVE ParamInv
<1>1. /\ \E used \in SUBSET Names : fcu \in [used -> Values]
      /\ \E left \in SUBSET Names : kept \in [left -> Values]
      /\ channel = <<>> /\ trace = <<>> /\ place = "pull"
      /\ hist = [tables |-> {fcu}, good |-> DOMAIN kept = {}]
  BY DEF ParamInit
<1>2. IsTable(fcu) /\ IsTable(kept)
  BY <1>1 DEF IsTable
<1>3. hist.tables = {fcu} /\ hist.good = (DOMAIN kept = {}) /\ DOMAIN hist = {"tables", "good"}
  BY <1>1
<1>4. /\ <<>> \in Seq(MessageType) /\ <<>> \in Seq(SampleType) /\ DOMAIN trace = {}
      /\ Range(channel) = {}
  <2>1. <<>> \in Seq(MessageType) /\ <<>> \in Seq(SampleType) /\ Len(<<>>) = 0
    BY EmptySeq
  <2>2. DOMAIN trace = 1..Len(<<>>) /\ Range(channel) = {<<>>[i] : i \in 1..Len(<<>>)}
    <3>1. DOMAIN <<>> = 1..Len(<<>>)
      BY <2>1, LenProperties
    <3>2. Range(<<>>) = {<<>>[i] : i \in 1..Len(<<>>)}
      BY <2>1, RangeEquality
    <3> QED BY <1>1, <3>1, <3>2
  <2>3. 1..Len(<<>>) = {}
    BY <2>1
  <2> QED BY <2>1, <2>2, <2>3
<1>5. Sent = {}
  BY <1>4 DEF Sent, Messages
<1>6. ParamTypes
  BY <1>1, <1>2, <1>3, <1>4 DEF ParamTypes
<1>7. FromTables
  BY <1>1, <1>3, <1>5 DEF FromTables
<1>8. GoodSoFar
  BY <1>1, <1>3, <1>4, <1>5 DEF GoodSoFar, GoodOne
<1> QED BY <1>6, <1>7, <1>8 DEF ParamInv

LEMMA SendsKeeps == ASSUME ParamInv, NEW name \in Names, Sends(name) PROVE ParamInv'
<1> DEFINE m == Message(name)
<1>1. /\ place = "pull" /\ name \in DOMAIN fcu
      /\ kept' = [n \in DOMAIN kept \cup {name} |-> IF n = name THEN fcu[n] ELSE kept[n]]
      /\ channel' = Append(channel, m) /\ UNCHANGED <<fcu, trace, place, dump, hist>>
  BY DEF Sends
<1>2. ParamTypes /\ FromTables /\ GoodSoFar
  BY DEF ParamInv
<1>3. IsTable(fcu) /\ IsTable(kept) /\ fcu \in hist.tables
  BY <1>1, <1>2 DEF ParamTypes, FromTables
<1>4. /\ m = [name |-> name, index |-> IndexIn(fcu, name), value |-> fcu[name],
              count |-> Cardinality(DOMAIN fcu)]
  BY DEF Message, Index, IndexIn
<1>5. /\ IndexIn(fcu, name) \in Nat /\ Cardinality(DOMAIN fcu) \in Nat /\ fcu[name] \in Values
      /\ IndexIn(fcu, name) # NoIndex
  <2>1. IndexIn(fcu, name) \in Nat
    BY <1>1, <1>3, IndexIsBefore
  <2> QED BY <1>1, <1>3, <2>1, TableFinite DEF IsTable, NoIndex
<1>6. m \in MessageType /\ Says(fcu, m) /\ m.index # NoIndex /\ m.name = name
  BY <1>1, <1>4, <1>5 DEF MessageType, Says
<1> HIDE DEF m
<1>7. PICK x : x = m
  OBVIOUS
<1>8. Sent' = Sent \cup {x} /\ channel' \in Seq(MessageType)
  BY <1>1, <1>2, <1>6, <1>7, PublishedOne
<1>9. IsTable(kept')
  BY <1>1, <1>3, <1>5 DEF IsTable
<1>10. ParamTypes'
  BY <1>1, <1>2, <1>8, <1>9 DEF ParamTypes, IsTable
<1>11. FromTables'
  <2>1. \A y \in Sent' : y.index = NoIndex \/ \E t \in hist.tables : Says(t, y)
    BY <1>1, <1>2, <1>3, <1>6, <1>7, <1>8 DEF FromTables
  <2> QED BY <1>1, <1>2, <2>1 DEF FromTables, Says, IndexIn
<1>12. GoodSoFar'
  <2> SUFFICES ASSUME hist.good PROVE \E t \in hist.tables : GoodOne(t)'
    BY <1>1 DEF GoodSoFar, GoodOne
  <2>1. PICK t \in hist.tables : GoodOne(t)
    BY <1>1, <1>2 DEF GoodSoFar
  <2>2. t = fcu
    BY <1>1, <2>1 DEF GoodOne
  <2>3. \A n \in DOMAIN kept' :
          /\ n \in DOMAIN t /\ kept'[n] = t[n]
          /\ \E y \in Sent' : y.name = n /\ y.index # NoIndex
    BY <1>1, <1>6, <1>7, <1>8, <2>1, <2>2 DEF GoodOne
  <2>4. \A y \in Sent' : y.index = NoIndex =>
           y.name = Hash /\ y.count \in {Cardinality(DOMAIN t), Cardinality(DOMAIN t) + 1}
    BY <1>6, <1>7, <1>8, <2>1 DEF GoodOne
  <2>5. GoodOne(t)'
    BY <1>1, <2>1, <2>3, <2>4 DEF GoodOne
  <2> QED BY <2>5
<1> QED BY <1>10, <1>11, <1>12 DEF ParamInv

LEMMA SendsHashKeeps == ASSUME ParamInv, SendsHash PROVE ParamInv'
<1>1. PICK x \in {HashMessage(Cardinality(DOMAIN fcu) + extra) : extra \in 0..1} :
         channel' = Append(channel, x)
  BY DEF SendsHash
<1>2. place = "pull" /\ UNCHANGED <<fcu, kept, trace, place, dump, hist>>
  BY DEF SendsHash
<1>3. ParamTypes /\ FromTables /\ GoodSoFar
  BY DEF ParamInv
<1>4. Cardinality(DOMAIN fcu) \in Nat
  BY <1>2, <1>3, TableFinite DEF ParamTypes
<1>5. /\ x \in MessageType /\ x.index = NoIndex /\ x.name = Hash
      /\ x.count \in {Cardinality(DOMAIN fcu), Cardinality(DOMAIN fcu) + 1}
  <2>1. PICK extra \in 0..1 :
          x = [name |-> Hash, index |-> NoIndex, value |-> 0,
               count |-> Cardinality(DOMAIN fcu) + extra]
    BY <1>1 DEF HashMessage
  <2>2. Cardinality(DOMAIN fcu) + extra \in Nat /\ NoIndex \in Int
    BY <1>4 DEF NoIndex
  <2>3. x \in MessageType
    BY <2>1, <2>2 DEF MessageType
  <2>4. x.count = Cardinality(DOMAIN fcu) + extra
    BY <2>1
  <2> QED BY <1>4, <2>1, <2>3, <2>4
<1>6. Sent' = Sent \cup {x} /\ channel' \in Seq(MessageType)
  BY <1>1, <1>3, <1>2, <1>5, PublishedOne
<1>7. ParamTypes'
  BY <1>2, <1>3, <1>6 DEF ParamTypes, IsTable
<1>8. FromTables'
  BY <1>2, <1>3, <1>5, <1>6 DEF FromTables, Says, IndexIn
<1>9. GoodSoFar'
  <2> SUFFICES ASSUME hist.good PROVE \E t \in hist.tables : GoodOne(t)'
    BY <1>2 DEF GoodSoFar, GoodOne
  <2>1. PICK t \in hist.tables : GoodOne(t)
    BY <1>2, <1>3 DEF GoodSoFar
  <2>2. t = fcu
    BY <1>2, <2>1 DEF GoodOne
  <2>3. \A n \in DOMAIN kept' :
          /\ n \in DOMAIN t /\ kept'[n] = t[n]
          /\ \E y \in Sent' : y.name = n /\ y.index # NoIndex
    BY <1>2, <1>6, <2>1 DEF GoodOne
  <2>4. \A y \in Sent' : y.index = NoIndex =>
           y.name = Hash /\ y.count \in {Cardinality(DOMAIN t), Cardinality(DOMAIN t) + 1}
    BY <1>5, <1>6, <2>1, <2>2 DEF GoodOne
  <2>5. GoodOne(t)'
    BY <1>2, <2>1, <2>3, <2>4 DEF GoodOne
  <2> QED BY <2>5
<1> QED BY <1>7, <1>8, <1>9 DEF ParamInv

LEMMA ChangesKeeps == ASSUME ParamInv, Changes PROVE ParamInv'
<1>1. /\ place \in {"pull", "tail"} /\ UNCHANGED <<kept, channel, trace, place, dump>>
      /\ hist' = [tables |-> IF place = "pull" THEN hist.tables \cup {fcu'} ELSE hist.tables,
                  good |-> hist.good /\ place # "pull"]
  BY DEF Changes
<1>2. PICK name \in Names, v \in Values :
         fcu' = [n \in DOMAIN fcu \cup {name} |-> IF n = name THEN v ELSE fcu[n]]
  BY DEF Changes
<1>3. ParamTypes /\ FromTables /\ GoodSoFar
  BY DEF ParamInv
<1>4. IsTable(fcu) /\ IsTable(kept) /\ \A t \in hist.tables : IsTable(t)
  BY <1>1, <1>3 DEF ParamTypes
<1>5. IsTable(fcu)' /\ DOMAIN fcu \subseteq DOMAIN fcu'
  BY <1>2, <1>4 DEF IsTable
<1>6. /\ hist'.tables = IF place = "pull" THEN hist.tables \cup {fcu'} ELSE hist.tables
      /\ hist'.good = (hist.good /\ place # "pull") /\ DOMAIN hist' = {"tables", "good"}
  BY <1>1
<1>7. Sent' = Sent
  BY <1>1 DEF Sent, Messages
<1>8. ParamTypes'
  <2>1. \A t \in hist'.tables : IsTable(t)
    BY <1>4, <1>5, <1>6 DEF IsTable
  <2> QED BY <1>1, <1>3, <1>4, <1>5, <1>6, <2>1 DEF ParamTypes, IsTable
<1>9. FromTables'
  <2> DEFINE T == hist.tables
  <2>1. /\ \A t, u \in T : DOMAIN t \subseteq DOMAIN u \/ DOMAIN u \subseteq DOMAIN t
        /\ \A t \in T : DOMAIN t \subseteq DOMAIN fcu
        /\ \A m \in Sent : m.index = NoIndex \/ \E t \in T : Says(t, m)
    BY <1>1, <1>3 DEF FromTables
  <2>2. \A t \in T : DOMAIN t \subseteq DOMAIN fcu'
    BY <1>5, <2>1
  <2>3. T \subseteq hist'.tables /\ hist'.tables \subseteq T \cup {fcu'}
        /\ (place = "pull" => fcu' \in hist'.tables)
    BY <1>6
  <2>4. \A t, u \in hist'.tables : DOMAIN t \subseteq DOMAIN u \/ DOMAIN u \subseteq DOMAIN t
    BY <2>1, <2>2, <2>3
  <2>5. \A t \in hist'.tables : DOMAIN t \subseteq DOMAIN fcu'
    BY <2>2, <2>3
  <2>6. \A m \in Sent' : m.index = NoIndex \/ \E t \in hist'.tables : Says(t, m)
    BY <1>7, <2>1, <2>3
  <2> QED BY <1>1, <2>3, <2>4, <2>5, <2>6 DEF FromTables, Says, IndexIn
<1>10. GoodSoFar'
  <2> SUFFICES ASSUME hist.good, place # "pull" PROVE \E t \in hist'.tables : GoodOne(t)'
    BY <1>1, <1>6 DEF GoodSoFar, GoodOne
  <2>1. PICK t \in hist.tables : GoodOne(t)
    BY <1>1, <1>3 DEF GoodSoFar
  <2>2. GoodOne(t)'
    BY <1>1, <1>6, <1>7, <2>1 DEF GoodOne
  <2> QED BY <1>6, <2>1, <2>2
<1> QED BY <1>8, <1>9, <1>10 DEF ParamInv

\* What becomes of the messages, of the cache and of a good pull in the other steps.
LEMMA OtherParamSteps ==
    ASSUME ParamInv, place # "reported", place' \in {"pull", "tail", "judged"},
           UNCHANGED fcu, hist'.tables = hist.tables, DOMAIN hist' = DOMAIN hist,
           hist'.good \in BOOLEAN, place' = "pull" => place = "pull",
           channel' \in Seq(MessageType), trace' \in Seq(SampleType), Sent' \subseteq Sent,
           IsTable(kept'),
           ASSUME NEW t \in hist.tables, GoodOne(t), hist.good, hist'.good PROVE GoodOne(t)',
           hist'.good => hist.good
    PROVE  ParamInv'
<1>1. ParamTypes /\ FromTables /\ GoodSoFar
  BY DEF ParamInv
<1>2. ParamTypes'
  BY <1>1 DEF ParamTypes, IsTable
<1>3. FromTables'
  BY <1>1 DEF FromTables, Says, IndexIn
<1>4. GoodSoFar'
  <2> SUFFICES ASSUME hist'.good PROVE \E t \in hist.tables : GoodOne(t)'
    BY DEF GoodSoFar, GoodOne
  <2>1. PICK t \in hist.tables : GoodOne(t)
    BY <1>1 DEF GoodSoFar
  <2> QED BY <2>1
<1> QED BY <1>2, <1>3, <1>4 DEF ParamInv

LEMMA OthersKeep ==
    ASSUME ParamInv, CacheChanges \/ Receives \/ Loses \/ DumpEnds \/ Judge
    PROVE  ParamInv'
<1>1. ParamTypes
  BY DEF ParamInv
<1>2. /\ channel \in Seq(MessageType) /\ trace \in Seq(SampleType)
      /\ hist.good \in BOOLEAN /\ DOMAIN hist = {"tables", "good"}
      /\ place # "reported" => IsTable(kept)
  BY <1>1 DEF ParamTypes
<1>3. CASE CacheChanges
  <2>1. /\ place = "pull" /\ UNCHANGED <<fcu, channel, trace, place, dump>>
        /\ hist' = [hist EXCEPT !.good = FALSE]
        /\ \E name \in DOMAIN kept, v \in Values : kept' = [kept EXCEPT ![name] = v]
    BY <1>3 DEF CacheChanges
  <2>2. hist'.tables = hist.tables /\ hist'.good = FALSE /\ DOMAIN hist' = DOMAIN hist
    BY <1>2, <2>1
  <2>3. IsTable(kept')
    BY <1>2, <2>1 DEF IsTable
  <2>4. Sent' = Sent
    BY <2>1 DEF Sent, Messages
  <2> QED BY <1>2, <2>1, <2>2, <2>3, <2>4, OtherParamSteps
<1>4. CASE Receives
  <2>1. /\ place \in {"pull", "tail"} /\ channel # <<>> /\ channel' = Tail(channel)
        /\ trace' = Append(trace, [message |-> Head(channel), inside |-> place = "pull"])
        /\ hist' = [hist EXCEPT !.good = hist.good /\ place = "pull"]
        /\ UNCHANGED <<fcu, kept, place, dump>>
    BY <1>4 DEF Receives
  <2>2. /\ hist'.tables = hist.tables /\ hist'.good = (hist.good /\ place = "pull")
        /\ DOMAIN hist' = DOMAIN hist
    BY <1>2, <2>1
  <2>3. (place = "pull") \in BOOLEAN
    OBVIOUS
  <2>4. /\ channel' \in Seq(MessageType) /\ Sent' = Sent /\ trace' \in Seq(SampleType)
        /\ (\A i \in DOMAIN trace : trace[i].inside) /\ place = "pull" =>
               \A i \in DOMAIN trace' : trace'[i].inside
    BY <1>1, <2>1, <2>3, TakenOne
  <2>5. ASSUME NEW t \in hist.tables, GoodOne(t), hist'.good PROVE GoodOne(t)'
    BY <2>1, <2>2, <2>4, <2>5 DEF GoodOne
  <2> QED BY <1>2, <2>1, <2>2, <2>4, <2>5, OtherParamSteps
<1>5. CASE Loses
  <2>1. /\ place \in {"pull", "tail"} /\ channel # <<>> /\ channel' = Tail(channel)
        /\ hist' = [hist EXCEPT !.good = FALSE] /\ UNCHANGED <<fcu, kept, trace, place, dump>>
    BY <1>5 DEF Loses
  <2>2. hist'.tables = hist.tables /\ hist'.good = FALSE /\ DOMAIN hist' = DOMAIN hist
    BY <1>2, <2>1
  <2>3. channel' \in Seq(MessageType) /\ Sent' \subseteq Sent /\ trace' \in Seq(SampleType)
    BY <1>1, <2>1, TakenOne
  <2> QED BY <1>2, <2>1, <2>2, <2>3, OtherParamSteps
<1>6. CASE DumpEnds
  <2>1. /\ place = "pull" /\ place' = "tail" /\ dump' = kept
        /\ hist' = [hist EXCEPT !.good = hist.good /\ DOMAIN kept = DOMAIN fcu /\ channel = <<>>]
        /\ UNCHANGED <<fcu, kept, channel, trace>>
    BY <1>6 DEF DumpEnds
  <2>2. /\ hist'.tables = hist.tables /\ DOMAIN hist' = DOMAIN hist
        /\ hist'.good = (hist.good /\ DOMAIN kept = DOMAIN fcu /\ channel = <<>>)
    BY <1>2, <2>1
  <2>3. Sent' = Sent
    BY <2>1 DEF Sent, Messages
  <2>4. ASSUME NEW t \in hist.tables, GoodOne(t), hist'.good PROVE GoodOne(t)'
    BY <2>1, <2>2, <2>3, <2>4 DEF GoodOne
  <2> QED BY <1>2, <2>1, <2>2, <2>3, <2>4, OtherParamSteps
<1>7. CASE Judge
  <2>1. /\ place = "tail" /\ place' = "judged"
        /\ UNCHANGED <<fcu, kept, channel, trace, dump, hist>>
    BY <1>7 DEF Judge
  <2>2. Sent' = Sent
    BY <2>1 DEF Sent, Messages
  <2>3. ASSUME NEW t \in hist.tables, GoodOne(t) PROVE GoodOne(t)'
    BY <2>1, <2>2, <2>3 DEF GoodOne
  <2> QED BY <1>2, <2>1, <2>2, <2>3, OtherParamSteps
<1> QED BY <1>3, <1>4, <1>5, <1>6, <1>7

LEMMA ReportsKeeps == ASSUME ParamInv, Reports PROVE ParamInv'
<1>1. /\ place' = "reported" /\ channel' = <<>> /\ trace' = <<>>
      /\ hist' = [tables |-> {}, good |-> FALSE]
  BY DEF Reports
<1>2. <<>> \in Seq(MessageType) /\ <<>> \in Seq(SampleType)
  BY EmptySeq
<1>3. hist'.good = FALSE /\ DOMAIN hist' = {"tables", "good"}
  BY <1>1
<1>4. ParamTypes'
  BY <1>1, <1>2, <1>3 DEF ParamTypes
<1> QED BY <1>1, <1>4 DEF ParamInv, FromTables, GoodSoFar

LEMMA ParamRests == ASSUME ParamInv, UNCHANGED paramVars PROVE ParamInv'
<1>1. UNCHANGED <<fcu, kept, channel, trace, place, dump, hist>>
  BY DEF paramVars
<1>2. Sent' = Sent
  BY <1>1 DEF Sent, Messages
<1>3. ParamTypes' /\ FromTables'
  BY <1>1, <1>2 DEF ParamInv, ParamTypes, FromTables, IsTable, Says, IndexIn
<1>4. GoodSoFar'
  BY <1>1, <1>2 DEF ParamInv, GoodSoFar, GoodOne
<1> QED BY <1>3, <1>4 DEF ParamInv

\* What was sent tells of tables the flight controller had during the pull, and a
\* good pull of one alone: for any firmware and any number of messages and changes.
THEOREM ParamHolds == Spec => []ParamInv
<1>1. Init => ParamInv
  BY ParamStart DEF Init
<1>2. ASSUME ParamInv, [Next]_vars PROVE ParamInv'
  <2>1. CASE ParamNext
    <3>1. ASSUME NEW name \in Names, Sends(name) PROVE ParamInv'
      BY <1>2, <3>1, SendsKeeps
    <3> QED BY <1>2, <2>1, <3>1, SendsHashKeeps, ChangesKeeps, OthersKeep DEF ParamNext
  <2>2. CASE Reports
    BY <1>2, <2>2, ReportsKeeps
  <2>3. CASE UNCHANGED paramVars
    BY <1>2, <2>3, ParamRests
  <2> QED BY <1>2, <2>1, <2>2, <2>3 DEF Next, vars
<1> QED BY <1>1, <1>2, PTL DEF Spec

-----------------------------------------------------------------------------
(* The verdict on the parameters.                                          *)

LEMMA RealIs ==
    ASSUME ParamTypes, FromTables, place = "judged"
    PROVE  /\ \A m \in Real : /\ m \in MessageType /\ m \in Sent /\ m \in Messages
                              /\ m.index # NoIndex
                              /\ \E t \in hist.tables : IsTable(t) /\ Says(t, m)
           /\ \A t, u \in hist.tables : DOMAIN t \subseteq DOMAIN u \/ DOMAIN u \subseteq DOMAIN t
<1>1. \A m \in Real : m \in MessageType /\ m \in Sent /\ m \in Messages /\ m.index # NoIndex
  BY SentIs DEF Real, Sent
<1>2. \A t \in hist.tables : IsTable(t)
  BY DEF ParamTypes
<1> QED BY <1>1, <1>2 DEF FromTables

\* The names a trace that passes tells of: as many as it advertises.
LEMMA NamesCounted ==
    ASSUME ParamTypes, FromTables, place = "judged", Stable, Complete
    PROVE  LET D == {m.name : m \in Real}
           IN  /\ Advertised \in Nat /\ Advertised >= MinCount /\ MinCount > 0
               /\ \A m \in Real : m.count = Advertised
               /\ IsFiniteSet(D) /\ Cardinality(D) = Advertised
<1> DEFINE N == Advertised
           D == {m.name : m \in Real}
<1>1. N \in Counts /\ \A m \in Real : m.count = N
  <2>1. Counts # {}
    BY FS_EmptySet DEF Complete
  <2>2. N \in Counts
    BY <2>1 DEF Advertised
  <2>3. \A c \in Counts : c = N
    <3>1. \E x : Counts = {x}
      <4>1. IsFiniteSet(Counts)
        <5>1. ASSUME NEW m \in Real
              PROVE  \E t \in hist.tables : IsTable(t) /\ m.count = Cardinality(DOMAIN t)
                                            /\ m.index \in 0..(N - 1)
          BY <5>1, RealIs DEF Complete, Says
        <5>2. IsFiniteSet(0..(N - 1))
          <6>1. N \in Nat
            BY <2>2, <5>1, TableFinite DEF Counts
          <6> QED BY <6>1, FS_Interval
        <5> DEFINE f == [i \in 0..(N - 1) |-> (CHOOSE m \in Real : m.index = i).count]
        <5>3. \A i \in 0..(N - 1) : \E m \in Real : m.index = i
          BY DEF Complete
        <5>4. f \in [0..(N - 1) -> Counts]
          BY <5>3 DEF Counts
        <5>5. \A c \in Counts : \E i \in 0..(N - 1) : f[i] = c
          <6>1. ASSUME NEW m \in Real PROVE \E i \in 0..(N - 1) : f[i] = m.count
            <7>1. PICK i \in 0..(N - 1) : i = m.index
              BY <5>1, <6>1
            <7>2. \A o \in Real : o.index = i => o = m
              BY <6>1, <7>1 DEF Stable
            <7>3. (CHOOSE o \in Real : o.index = i) = m
              BY <6>1, <7>1, <7>2
            <7> QED BY <7>3
          <6> QED BY <6>1 DEF Counts
        <5> HIDE DEF f, N
        <5>6. f \in Surjection(0..(N - 1), Counts)
          BY <5>4, <5>5 DEF Surjection
        <5> QED BY <5>2, <5>6, FS_Surjection
      <4>2. Cardinality(Counts) = 1
        BY DEF Complete
      <4> QED BY <4>1, <4>2, FS_Singleton
    <3> QED BY <2>2, <3>1
  <2> QED BY <2>2, <2>3 DEF Counts
<1>2. N \in Nat /\ N >= MinCount /\ MinCount > 0
  <2>1. N \in Nat
    <3>1. PICK m \in Real : m.count = N
      BY <1>1 DEF Counts
    <3>2. m.count \in Nat
      BY RealIs DEF MessageType
    <3> QED BY <3>1, <3>2
  <2>2. N >= MinCount
    BY DEF Complete
  <2> QED BY <2>1, <2>2, ParamConstants
<1>3. /\ \A i \in 0..(N - 1) : \E m \in Real : m.index = i
      /\ \A m \in Real : m.index \in 0..(N - 1)
      /\ \A m, o \in Real : m.index = o.index \/ m.name = o.name => m = o
  BY DEF Complete, Stable
<1> HIDE DEF N
<1> DEFINE f == [i \in 0..(N - 1) |-> (CHOOSE m \in Real : m.index = i).name]
<1>4. ASSUME NEW m \in Real PROVE f[m.index] = m.name
  <2>1. (CHOOSE o \in Real : o.index = m.index) = m
    BY <1>3, <1>4
  <2> QED BY <1>3, <1>4, <2>1
<1> HIDE DEF f
<1>5. f \in [0..(N - 1) -> D]
  <2>1. f = [i \in 0..(N - 1) |-> f[i]]
    BY DEF f
  <2>2. \A i \in 0..(N - 1) : f[i] \in D
    BY <1>3, <1>4
  <2> QED BY <2>1, <2>2
<1>6. f \in Bijection(0..(N - 1), D)
  <2>1. ASSUME NEW i \in 0..(N - 1), NEW j \in 0..(N - 1), f[i] = f[j] PROVE i = j
    BY <1>3, <1>4, <2>1
  <2>2. \A n \in D : \E i \in 0..(N - 1) : f[i] = n
    BY <1>3, <1>4
  <2> QED BY <1>5, <2>1, <2>2 DEF Bijection, Injection, Surjection, IsInjective
<1>7. IsFiniteSet(0..(N - 1)) /\ Cardinality(0..(N - 1)) = N
  <2>1. /\ IsFiniteSet(0..(N - 1))
        /\ Cardinality(0..(N - 1)) = IF 0 > N - 1 THEN 0 ELSE (N - 1) - 0 + 1
    BY <1>2, FS_Interval
  <2> QED BY <1>2, <2>1
<1>8. IsFiniteSet(D) /\ Cardinality(D) = N
  <2>1. ExistsBijection(0..(N - 1), D)
    BY <1>6 DEF ExistsBijection
  <2> QED BY <1>7, <2>1, FS_Bijection
<1> QED BY <1>1, <1>2, <1>8 DEF N

\* A pull that passes wrote a table the flight controller had: for any firmware and
\* any number of messages, losses and changes (_analyze_param_trace).
THEOREM TheirTable == Spec => []PassMeansTheirTable
<1>1. ASSUME ParamInv, place = "judged", Pass
      PROVE  /\ \E t \in hist.tables : DOMAIN t = DOMAIN dump
             /\ \A n \in DOMAIN dump : \E t \in hist.tables : n \in DOMAIN t /\ t[n] = dump[n]
             /\ Cardinality(DOMAIN dump) >= MinCount
  <2> DEFINE D == {m.name : m \in Real}
  <2>1. /\ ParamTypes /\ FromTables /\ Stable /\ Complete
        /\ DOMAIN dump = D /\ \A m \in Real : dump[m.name] = m.value
    BY <1>1 DEF ParamInv, Pass, DumpIsTraced
  <2>2. /\ Advertised \in Nat /\ Advertised >= MinCount /\ MinCount > 0
        /\ \A m \in Real : m.count = Advertised
        /\ IsFiniteSet(D) /\ Cardinality(D) = Advertised
    BY <1>1, <2>1, NamesCounted
  <2>3. ASSUME NEW m \in Real, NEW o \in Real, NEW t \in hist.tables, NEW u \in hist.tables,
               IsTable(t), Says(t, m), IsTable(u), Says(u, o)
        PROVE  DOMAIN t = DOMAIN u
    <3>1. Cardinality(DOMAIN t) = Cardinality(DOMAIN u)
      BY <2>2, <2>3 DEF Says
    <3>2. IsFiniteSet(DOMAIN t) /\ IsFiniteSet(DOMAIN u)
      BY <2>3, TableFinite
    <3>3. DOMAIN t \subseteq DOMAIN u \/ DOMAIN u \subseteq DOMAIN t
      BY <1>1, <2>1, RealIs
    <3> QED BY <3>1, <3>2, <3>3, FS_Subset
  <2>4. Real # {}
    <3>1. D # {}
      <4> HIDE DEF D
      <4>1. Cardinality(D) # 0
        BY <2>2, ParamConstants
      <4> QED BY <4>1, FS_EmptySet
    <3> QED BY <3>1
  <2>5. PICK m \in Real, t \in hist.tables : IsTable(t) /\ Says(t, m)
    BY <1>1, <2>1, <2>4, RealIs
  <2>6. D \subseteq DOMAIN t
    <3>1. ASSUME NEW o \in Real PROVE o.name \in DOMAIN t
      <4>1. PICK u \in hist.tables : IsTable(u) /\ Says(u, o)
        BY <1>1, <2>1, <3>1, RealIs
      <4>2. DOMAIN t = DOMAIN u
        BY <2>3, <2>5, <3>1, <4>1
      <4> QED BY <4>1, <4>2 DEF Says
    <3> QED BY <3>1
  <2>7. D = DOMAIN t
    <3>1. Cardinality(DOMAIN t) = Cardinality(D)
      BY <2>2, <2>5 DEF Says
    <3> QED BY <2>5, <2>6, <3>1, TableFinite, FS_Subset
  <2>8. ASSUME NEW n \in DOMAIN dump PROVE \E u \in hist.tables : n \in DOMAIN u /\ u[n] = dump[n]
    <3>1. PICK o \in Real : o.name = n
      BY <2>1, <2>8
    <3>2. PICK u \in hist.tables : Says(u, o)
      BY <1>1, <2>1, <3>1, RealIs
    <3> QED BY <2>1, <3>1, <3>2 DEF Says
  <2> QED BY <2>1, <2>2, <2>5, <2>7, <2>8
<1>2. ParamInv => PassMeansTheirTable
  BY <1>1 DEF PassMeansTheirTable
<1> QED BY <1>2, ParamHolds, PTL

\* No modelled gate refuses a pull during which nothing was lost, late or changed
\* and before which MAVROS kept nothing: for any firmware and
\* any number of messages, sent again or not.
THEOREM GoodPasses == Spec => []GoodPullPasses
<1>1. ASSUME ParamInv, place = "judged", hist.good, Cardinality(DOMAIN dump) >= MinCount,
             Cardinality(Pseudo) <= 1
      PROVE  Pass
  <2>1. ParamTypes /\ FromTables /\ GoodSoFar
    BY <1>1 DEF ParamInv
  <2>2. PICK t \in hist.tables : GoodOne(t)
    BY <1>1, <2>1 DEF GoodSoFar
  <2> DEFINE N == Cardinality(DOMAIN t)
  <2>3. IsTable(t) /\ hist.tables = {t}
    BY <1>1, <2>1, <2>2 DEF ParamTypes, GoodOne
  <2>4. /\ channel = <<>> /\ DOMAIN dump = DOMAIN t /\ \A n \in DOMAIN dump : dump[n] = t[n]
        /\ \A n \in DOMAIN t : \E m \in Sent : m.name = n /\ m.index # NoIndex
        /\ \A i \in DOMAIN trace : trace[i].inside
    BY <1>1, <2>2 DEF GoodOne
  <2>5. Sent = Messages
    <3>1. Range(channel) = {}
      <4>1. channel \in Seq(MessageType) /\ Len(channel) = 0
        BY <2>1, <2>4, EmptySeq DEF ParamTypes
      <4>2. \A x \in Range(channel) : \E i \in 1..Len(channel) : channel[i] = x
        BY <4>1, InRange
      <4>3. 1..Len(channel) = {}
        BY <4>1
      <4> QED BY <4>2, <4>3
    <3> QED BY <3>1 DEF Sent
  <2>6. N \in Nat /\ N > 0 /\ N >= MinCount /\ IsFiniteSet(DOMAIN t)
    <3>1. N \in Nat /\ IsFiniteSet(DOMAIN t)
      BY <2>3, TableFinite
    <3>2. N >= MinCount
      BY <1>1, <2>4
    <3> QED BY <3>1, <3>2, ParamConstants
  <2>7. \A n \in DOMAIN t : \E m \in Real : m.name = n
    BY <2>4, <2>5 DEF Real
  <2>8. ASSUME NEW m \in Real
        PROVE  /\ m \in MessageType /\ m.name \in DOMAIN t /\ m.value = t[m.name] /\ m.count = N
               /\ m.index = IndexIn(t, m.name)
    <3>1. m \in MessageType /\ Says(t, m)
      BY <1>1, <2>1, <2>3, RealIs
    <3> QED BY <3>1 DEF Says
  <2> HIDE DEF N
  <2>9. PICK n0 \in DOMAIN t : TRUE
    <3>1. DOMAIN t # {}
      BY <2>6, FS_EmptySet DEF N
    <3> QED BY <3>1
  <2>10. PICK m0 \in Real : m0.name = n0
    BY <2>7, <2>9
  <2>11. trace # <<>>
    <3>1. PICK i \in DOMAIN trace : trace[i].message = m0
      BY <2>10 DEF Real, Messages
    <3>2. trace \in Seq(SampleType) /\ i \in 1..Len(trace)
      BY <2>1, <3>1, LenProperties DEF ParamTypes
    <3>3. Len(trace) # 0
      BY <3>2, LenProperties
    <3> QED BY <3>2, <3>3, EmptySeq
  <2>12. Stable
    <3>1. ASSUME NEW m \in Real, NEW o \in Real, m.index = o.index \/ m.name = o.name PROVE m = o
      <4>1. m.name = o.name
        BY <2>3, <2>8, <3>1, Numbering
      <4>2. m.value = o.value /\ m.count = o.count /\ m.index = o.index
        BY <2>8, <3>1, <4>1
      <4>3. m \in MessageType /\ o \in MessageType
        BY <2>8, <3>1
      <4> QED BY <4>1, <4>2, <4>3 DEF MessageType
    <3> QED BY <3>1 DEF Stable
  <2>13. Counts = {N} /\ Advertised = N
    <3>1. Counts = {N}
      BY <2>8, <2>10 DEF Counts
    <3> QED BY <3>1 DEF Advertised
  <2>14. Complete
    <3>1. {m.index : m \in Real} = {IndexIn(t, n) : n \in DOMAIN t}
      BY <2>7, <2>8
    <3>2. {IndexIn(t, n) : n \in DOMAIN t} = 0..(N - 1)
      BY <2>3, Numbering DEF N
    <3>3. Cardinality(Counts) = 1
      BY <2>13, FS_Singleton
    <3> QED BY <2>6, <2>13, <3>1, <3>2, <3>3 DEF Complete
  <2>15. PseudoAllowed
    <3>1. ASSUME NEW i \in Pseudo
          PROVE  trace[i].message.name = Hash /\ trace[i].message.count \in {N, N + 1}
      <4>1. trace[i].message \in Sent /\ trace[i].message.index = NoIndex
        BY <2>1, SentIs DEF Pseudo
      <4> QED BY <2>2, <4>1 DEF GoodOne, N
    <3>2. \A m \in Real : m.name # Hash
      BY <2>3, <2>8, ParamConstants DEF IsTable, Names
    <3> QED BY <1>1, <2>13, <3>1, <3>2 DEF PseudoAllowed
  <2>16. DumpIsTraced
    <3>1. {m.name : m \in Real} = DOMAIN t
      BY <2>7, <2>8
    <3>2. \A m \in Real : dump[m.name] = m.value
      BY <2>4, <2>8
    <3> QED BY <2>4, <3>1, <3>2 DEF DumpIsTraced
  <2>17. ReportedExactly
    <3>1. IsFiniteSet(Pseudo)
      <4>1. DOMAIN trace = 1..Len(trace) /\ Len(trace) \in Nat
        BY <2>1, LenProperties DEF ParamTypes
      <4>2. Pseudo \in SUBSET (1..Len(trace)) /\ IsFiniteSet(1..Len(trace))
        BY <4>1, FS_Interval DEF Pseudo
      <4> QED BY <4>2, FS_Subset
    <3>2. /\ Cardinality(Pseudo) \in Nat
          /\ Cardinality(Pseudo) = 0 <=> Pseudo = {}
      BY <3>1, FS_CardinalityType, FS_EmptySet
    <3>3. Cardinality(Pseudo) = IF Pseudo # {} THEN 1 ELSE 0
      BY <1>1, <3>2
    <3>4. Cardinality(DOMAIN dump) = N
      BY <2>4 DEF N
    <3> QED BY <2>13, <3>3, <3>4 DEF ReportedExactly, Reported
  <2> QED BY <2>4, <2>11, <2>12, <2>14, <2>15, <2>16, <2>17 DEF Pass, ArrivedInside
<1>2. ParamInv => GoodPullPasses
  BY <1>1 DEF GoodPullPasses
<1> QED BY <1>2, ParamHolds, PTL
=============================================================================
