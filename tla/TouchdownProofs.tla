-------------------------- MODULE TouchdownProofs --------------------------
(***************************************************************************)
(* The touchdown latch is set exactly when the descent contains a burst,   *)
(* for every value of the thresholds and any number of samples.            *)
(***************************************************************************)
EXTENDS Touchdown, SequenceTheorems, FiniteSetTheorems, TLAPS

SampleType == [t : Int, hit : BOOLEAN]
\* The same of any descent d.
SettledIn(d, i) == d[i].hit /\ d[i].t - d[1].t >= MinLand
BurstIn(d, s) ==
    /\ Cardinality(s) = Confirm
    /\ \A i \in s : SettledIn(d, i)
    /\ \A i, j \in s : d[i].t - d[j].t <= Window
Settled(i) == SettledIn(descent, i)

\* The stamps of a descent never fall, and it began with its first sample.
Ordered ==
    /\ descent \in Seq(SampleType) /\ now \in Int /\ fired \in BOOLEAN
    /\ \A i, j \in 1..Len(descent) : i <= j => descent[i].t <= descent[j].t
    /\ \A i \in 1..Len(descent) : descent[i].t <= now
    /\ landT0 = IF descent = <<>> THEN <<>> ELSE <<descent[1].t>>

\* The hits kept are those of settled samples, and one that is not kept lies too
\* far before a later hit to belong to a burst with any sample still to come.
Pruned ==
    /\ \A h \in hits : /\ h.sample \in 1..Len(descent) /\ h.t = descent[h.sample].t
                       /\ Settled(h.sample) /\ h = [sample |-> h.sample, t |-> h.t]
    /\ \A i \in 1..Len(descent) :
         Settled(i) => \/ [sample |-> i, t |-> descent[i].t] \in hits
                       \/ fired
                       \/ \E j \in 1..Len(descent) : descent[j].t - descent[i].t > Window

Latched == fired <=> \E s \in SUBSET (1..Len(descent)) : Burst(s)

TouchdownInv == Ordered /\ Pruned /\ Latched

-----------------------------------------------------------------------------
LEMMA Constants ==
    /\ Confirm \in Nat /\ Confirm > 0
    /\ MinLand \in Int /\ Window \in Int /\ MaxStamp \in Int
BY TouchdownConstants

\* A finite set has a subset of every smaller size.
LEMMA SomeOf ==
    ASSUME NEW S, IsFiniteSet(S), NEW k \in Nat, k <= Cardinality(S)
    PROVE  \E T \in SUBSET S : Cardinality(T) = k
<1>1. PICK f : f \in Bijection(1..Cardinality(S), S)
  BY FS_CardinalityType DEF ExistsBijection
<1>2. Cardinality(S) \in Nat
  BY FS_CardinalityType
<1> DEFINE T == {f[i] : i \in 1..k}
           g == [i \in 1..k |-> f[i]]
<1>3. 1..k \subseteq 1..Cardinality(S)
  BY <1>2
<1>4. /\ f \in [1..Cardinality(S) -> S]
      /\ \A i, j \in 1..Cardinality(S) : f[i] = f[j] => i = j
  BY <1>1 DEF Bijection, Injection, IsInjective
<1>5. T \in SUBSET S
  BY <1>3, <1>4
<1>6. g \in Bijection(1..k, T)
  <2>1. g \in [1..k -> T] /\ \A i, j \in 1..k : g[i] = g[j] => i = j
    BY <1>3, <1>4
  <2>2. \A x \in T : \E i \in 1..k : g[i] = x
    OBVIOUS
  <2> HIDE DEF g, T
  <2> QED BY <2>1, <2>2 DEF Bijection, Injection, Surjection, IsInjective
<1> HIDE DEF g, T
<1>7. IsFiniteSet(1..k) /\ Cardinality(1..k) = k
  <2>1. IsFiniteSet(1..k) /\ Cardinality(1..k) = IF 1 > k THEN 0 ELSE k - 1 + 1
    BY FS_Interval
  <2> QED BY <2>1
<1>8. Cardinality(T) = k
  <2>1. ExistsBijection(1..k, T)
    BY <1>6 DEF ExistsBijection
  <2> QED BY <1>7, <2>1, FS_Bijection
<1> QED BY <1>5, <1>8

\* The samples of kept hits.
Kept(H) == {h.sample : h \in H}

LEMMA KeptCounts ==
    ASSUME NEW H, NEW n \in Nat, NEW d, \A h \in H : h.sample \in 1..n /\ h.t = d[h.sample].t
           /\ h = [sample |-> h.sample, t |-> h.t]
    PROVE  /\ IsFiniteSet(H) /\ Kept(H) \in SUBSET (1..n)
           /\ IsFiniteSet(Kept(H)) /\ Cardinality(Kept(H)) = Cardinality(H)
<1>1. Kept(H) \in SUBSET (1..n) /\ IsFiniteSet(1..n)
  BY FS_Interval DEF Kept
<1>2. IsFiniteSet(Kept(H))
  BY <1>1, FS_Subset
<1> DEFINE f == [i \in Kept(H) |-> [sample |-> i, t |-> d[i].t]]
<1>3. \A h \in H : h.sample \in Kept(H) /\ f[h.sample] = h
  <2>1. ASSUME NEW h \in H PROVE h.sample \in Kept(H) /\ f[h.sample] = h
    <3>1. h.sample \in Kept(H)
      BY DEF Kept
    <3>2. f[h.sample] = [sample |-> h.sample, t |-> d[h.sample].t]
      BY <3>1
    <3> QED BY <3>1, <3>2
  <2> QED BY <2>1
<1>4. f \in [Kept(H) -> H]
  BY <1>3 DEF Kept
<1>5. \A i, j \in Kept(H) : f[i] = f[j] => i = j
  OBVIOUS
<1> HIDE DEF f
<1>6. f \in Bijection(Kept(H), H)
  BY <1>3, <1>4, <1>5 DEF Bijection, Injection, Surjection, IsInjective
<1>7. ExistsBijection(Kept(H), H)
  BY <1>6 DEF ExistsBijection
<1> QED BY <1>1, <1>2, <1>7, FS_Bijection

LEMMA SameBurst == \A s : Burst(s) <=> BurstIn(descent, s)
BY DEF Burst, BurstIn, SettledIn

\* What one more sample changes: nothing about the samples before it.
LEMMA OneMore ==
    ASSUME NEW d \in Seq(SampleType), NEW m \in SampleType, NEW e, e = Append(d, m)
    PROVE  /\ e \in Seq(SampleType) /\ Len(e) = Len(d) + 1 /\ Len(d) \in Nat
           /\ e[Len(d) + 1] = m /\ e # <<>>
           /\ \A i \in 1..Len(d) : e[i] = d[i] /\ (SettledIn(e, i) <=> SettledIn(d, i))
           /\ \A i \in 1..Len(e) : i \in 1..Len(d) \/ i = Len(d) + 1
           /\ \A s \in SUBSET (1..Len(d)) : BurstIn(e, s) <=> BurstIn(d, s)
           /\ e[1] = IF d = <<>> THEN m ELSE d[1]
<1>1. Len(d) \in Nat /\ (d = <<>> <=> Len(d) = 0)
  BY EmptySeq, LenProperties
<1>2. /\ e \in Seq(SampleType) /\ Len(e) = Len(d) + 1 /\ e # <<>>
      /\ e[Len(d) + 1] = m /\ \A i \in 1..Len(d) : e[i] = d[i]
  BY AppendProperties
<1>3. ASSUME NEW i \in 1..Len(d)
      PROVE  1 \in 1..Len(d) /\ (SettledIn(e, i) <=> SettledIn(d, i))
  <2>1. 1 \in 1..Len(d)
    BY <1>1
  <2> QED BY <1>2, <2>1 DEF SettledIn
<1>4. \A s \in SUBSET (1..Len(d)) : BurstIn(e, s) <=> BurstIn(d, s)
  BY <1>2, <1>3 DEF BurstIn
<1>5. \A i \in 1..Len(e) : i \in 1..Len(d) \/ i = Len(d) + 1
  BY <1>1, <1>2
<1>6. e[1] = IF d = <<>> THEN m ELSE d[1]
  <2>1. CASE d = <<>>
    BY <1>1, <1>2, <2>1
  <2>2. CASE d # <<>>
    <3>1. 1 \in 1..Len(d)
      BY <1>1, <2>2
    <3> QED BY <1>2, <2>2, <3>1
  <2> QED BY <2>1, <2>2
<1> QED BY <1>1, <1>2, <1>3, <1>4, <1>5, <1>6

\* What a sample of the descent does, with the descent before and after it.
LEMMA Landing ==
    ASSUME TouchdownInv, NEW t \in Int, now <= t, NEW hit \in BOOLEAN, now' = t,
           UpdateLanding(t, hit)
    PROVE  TouchdownInv'
<1>1. Ordered /\ Pruned /\ Latched
  BY DEF TouchdownInv
<1>2. PICK d, e, n : d = descent /\ e = descent' /\ n = Len(d) + 1
  OBVIOUS
<1>3. PICK m \in SampleType : /\ m.t = t /\ m.hit = hit
                               /\ d \in Seq(SampleType) /\ e = Append(d, m)
  <2>1. [t |-> t, hit |-> hit] \in SampleType
    BY DEF SampleType
  <2>2. [t |-> t, hit |-> hit].t = t /\ [t |-> t, hit |-> hit].hit = hit
    OBVIOUS
  <2>3. d \in Seq(SampleType) /\ e = Append(d, [t |-> t, hit |-> hit])
    BY <1>1, <1>2 DEF UpdateLanding, Ordered
  <2> QED BY <2>1, <2>2, <2>3
<1>4. /\ e \in Seq(SampleType) /\ Len(e) = n /\ Len(d) \in Nat /\ n = Len(d) + 1
      /\ e[n].t = t /\ e[n].hit = hit /\ e # <<>>
      /\ \A i \in 1..Len(d) : e[i] = d[i] /\ (SettledIn(e, i) <=> SettledIn(d, i))
      /\ \A i \in 1..n : i \in 1..Len(d) \/ i = n
      /\ 1..Len(d) \subseteq 1..n /\ n \in 1..n
      /\ \A s \in SUBSET (1..Len(d)) : BurstIn(e, s) <=> BurstIn(d, s)
      /\ e[1].t = IF d = <<>> THEN t ELSE d[1].t
  <2>1. /\ e \in Seq(SampleType) /\ Len(e) = Len(d) + 1 /\ Len(d) \in Nat
        /\ e[Len(d) + 1] = m /\ e # <<>>
        /\ \A i \in 1..Len(d) : e[i] = d[i] /\ (SettledIn(e, i) <=> SettledIn(d, i))
        /\ \A i \in 1..Len(e) : i \in 1..Len(d) \/ i = Len(d) + 1
        /\ \A s \in SUBSET (1..Len(d)) : BurstIn(e, s) <=> BurstIn(d, s)
        /\ e[1] = IF d = <<>> THEN m ELSE d[1]
    <3>1. d \in Seq(SampleType) /\ m \in SampleType /\ e = Append(d, m)
      BY <1>3
    <3>2. /\ e \in Seq(SampleType) /\ Len(e) = Len(d) + 1 /\ Len(d) \in Nat
          /\ e[Len(d) + 1] = m /\ e # <<>>
      BY <3>1, OneMore
    <3>3. \A i \in 1..Len(d) : e[i] = d[i]
      BY <3>1, OneMore
    <3>4. \A i \in 1..Len(d) : SettledIn(e, i) <=> SettledIn(d, i)
      BY <3>1, OneMore
    <3>5. \A i \in 1..Len(e) : i \in 1..Len(d) \/ i = Len(d) + 1
      BY <3>1, OneMore
    <3>6. \A s \in SUBSET (1..Len(d)) : BurstIn(e, s) <=> BurstIn(d, s)
      BY <3>1, OneMore
    <3>7. e[1] = IF d = <<>> THEN m ELSE d[1]
      BY <3>1, OneMore
    <3> QED BY <3>2, <3>3, <3>4, <3>5, <3>6, <3>7
  <2>2. 1..Len(d) \subseteq 1..(Len(d) + 1) /\ Len(d) + 1 \in 1..(Len(d) + 1)
    BY <2>1
  <2> QED BY <1>2, <1>3, <2>1, <2>2
<1>5. \A i \in 1..n : e[i].t \in Int /\ e[i].t <= t
  <2>1. \A i \in 1..n : e[i] \in SampleType
    BY <1>4, ElementOfSeq
  <2>2. ASSUME NEW i \in 1..n PROVE e[i].t \in Int /\ e[i].t <= t
    <3>1. e[i].t \in Int
      BY <2>1 DEF SampleType
    <3>2. i \in 1..Len(d) => e[i].t <= now
      BY <1>1, <1>2, <1>4 DEF Ordered
    <3> QED BY <1>1, <1>4, <3>1, <3>2 DEF Ordered
  <2> QED BY <2>2
<1>6. Began(t) = e[1].t
  <2>1. landT0 = IF d = <<>> THEN <<>> ELSE <<d[1].t>>
    BY <1>1, <1>2 DEF Ordered
  <2>2. landT0 = <<>> <=> d = <<>>
    BY <2>1
  <2>3. d # <<>> => landT0[1] = d[1].t
    BY <2>1
  <2> QED BY <1>4, <2>2, <2>3 DEF Began
<1>7. SettledIn(e, n) <=> hit /\ t - Began(t) >= MinLand
  BY <1>4, <1>6 DEF SettledIn
<1>8. Ordered'
  <2>1. \A i, j \in 1..n : i <= j => e[i].t <= e[j].t
    <3>1. ASSUME NEW i \in 1..n, NEW j \in 1..n, i <= j PROVE e[i].t <= e[j].t
      <4>1. CASE j = n
        BY <1>4, <1>5, <4>1
      <4>2. CASE j # n
        <5>1. i \in 1..Len(d) /\ j \in 1..Len(d)
          BY <1>4, <3>1, <4>2
        <5> QED BY <1>1, <1>2, <1>4, <3>1, <5>1 DEF Ordered
      <4> QED BY <4>1, <4>2
    <3> QED BY <3>1
  <2>2. landT0' = <<e[1].t>> /\ fired' \in BOOLEAN
    BY <1>6 DEF UpdateLanding
  <2> QED BY <1>2, <1>4, <1>5, <2>1, <2>2 DEF Ordered
<1>9. /\ \A h \in hits : /\ h.sample \in 1..Len(d) /\ h.t = d[h.sample].t
                         /\ SettledIn(d, h.sample) /\ h = [sample |-> h.sample, t |-> h.t]
      /\ \A i \in 1..Len(d) :
           SettledIn(d, i) => \/ [sample |-> i, t |-> d[i].t] \in hits
                              \/ fired
                              \/ \E j \in 1..Len(d) : d[j].t - d[i].t > Window
      /\ fired <=> \E s \in SUBSET (1..Len(d)) : BurstIn(d, s)
  BY <1>1, <1>2, SameBurst DEF Pruned, Latched, Settled
<1>10. ASSUME
         \A h \in hits' : /\ h.sample \in 1..n /\ h.t = e[h.sample].t
                          /\ SettledIn(e, h.sample) /\ h = [sample |-> h.sample, t |-> h.t],
         \A i \in 1..n :
           SettledIn(e, i) => \/ [sample |-> i, t |-> e[i].t] \in hits'
                              \/ fired'
                              \/ \E j \in 1..n : e[j].t - e[i].t > Window,
         fired' <=> \E s \in SUBSET (1..n) : BurstIn(e, s)
       PROVE TouchdownInv'
  <2>1. Pruned'
    BY <1>2, <1>4, <1>10 DEF Pruned, Settled, SettledIn
  <2>2. Latched'
    BY <1>2, <1>4, <1>10 DEF Latched, Burst, BurstIn, SettledIn
  <2> QED BY <1>8, <2>1, <2>2 DEF TouchdownInv
\* A sample that is no hit, in the entry transient or after the latch.
<1>11. CASE ~(hit /\ ~Settling(t))
  <2>1. hits' = hits /\ fired' = fired
    <3>1. fired \in BOOLEAN
      BY <1>1 DEF Ordered
    <3> QED BY <1>11, <3>1 DEF UpdateLanding
  <2>2. SettledIn(e, n) => fired
    <3>1. t - Began(t) \in Int
      BY <1>4, <1>5, <1>6
    <3> QED BY <1>7, <1>11, <3>1, Constants DEF Settling
  <2>3. \A h \in hits : /\ h.sample \in 1..n /\ h.t = e[h.sample].t
                        /\ SettledIn(e, h.sample) /\ h = [sample |-> h.sample, t |-> h.t]
    BY <1>4, <1>9
  <2>4. \A i \in 1..n :
           SettledIn(e, i) => \/ [sample |-> i, t |-> e[i].t] \in hits
                              \/ fired
                              \/ \E j \in 1..n : e[j].t - e[i].t > Window
    BY <1>4, <1>9, <2>2
  <2>5. ASSUME NEW s \in SUBSET (1..n), BurstIn(e, s) PROVE fired
    <3>1. CASE n \in s
      BY <2>2, <2>5, <3>1 DEF BurstIn
    <3>2. CASE n \notin s
      <4>1. s \in SUBSET (1..Len(d))
        BY <1>4, <3>2
      <4> QED BY <1>4, <1>9, <2>5, <4>1
    <3> QED BY <3>1, <3>2
  <2>6. fired => \E s \in SUBSET (1..n) : BurstIn(e, s)
    BY <1>4, <1>9
  <2> QED BY <1>10, <2>1, <2>3, <2>4, <2>5, <2>6
\* A hit.
<1>12. CASE hit /\ ~Settling(t)
  <2> DEFINE new == [sample |-> n, t |-> t]
  <2>1. PICK R : /\ R = {h \in hits \cup {new} : t - h.t <= Window} /\ hits' = R
                 /\ fired' = (fired \/ Cardinality(R) >= Confirm)
    BY <1>2, <1>12 DEF UpdateLanding, Recent, Noted
  <2>2. ~fired /\ SettledIn(e, n)
    <3>1. t - Began(t) \in Int
      BY <1>4, <1>5, <1>6
    <3> QED BY <1>7, <1>12, <3>1, Constants DEF Settling
  <2>3. new.sample = n /\ new.t = t /\ new = [sample |-> new.sample, t |-> new.t]
    OBVIOUS
  <2> HIDE DEF new
  <2>4. \A h \in hits \cup {new} :
           /\ h.sample \in 1..n /\ h.t = e[h.sample].t
           /\ SettledIn(e, h.sample) /\ h = [sample |-> h.sample, t |-> h.t]
    BY <1>4, <1>9, <2>2, <2>3
  <2>5. \A h \in R : /\ h.sample \in 1..n /\ h.t = e[h.sample].t /\ t - h.t <= Window
                     /\ SettledIn(e, h.sample) /\ h = [sample |-> h.sample, t |-> h.t]
    BY <2>1, <2>4
  <2>6. ASSUME NEW i \in 1..n, SettledIn(e, i)
        PROVE  \/ [sample |-> i, t |-> e[i].t] \in R
               \/ \E j \in 1..n : e[j].t - e[i].t > Window
    <3>1. CASE i = n
      <4>1. [sample |-> i, t |-> e[i].t] = new
        BY <1>4, <3>1 DEF new
      <4>2. new \in R \/ t - t > Window
        BY <2>1, <2>3, Constants
      <4> QED BY <1>4, <3>1, <4>1, <4>2
    <3>2. CASE i \in 1..Len(d)
      <4>1. \/ [sample |-> i, t |-> e[i].t] \in hits
            \/ \E j \in 1..n : e[j].t - e[i].t > Window
        BY <1>4, <1>9, <2>2, <2>6, <3>2
      <4>2. [sample |-> i, t |-> e[i].t] \in hits =>
              [sample |-> i, t |-> e[i].t] \in R \/ t - e[i].t > Window
        <5>1. [sample |-> i, t |-> e[i].t].t = e[i].t
          OBVIOUS
        <5> QED BY <1>5, <2>1, <5>1, Constants
      <4> QED BY <1>4, <4>1, <4>2
    <3> QED BY <1>4, <3>1, <3>2
  <2>7. /\ IsFiniteSet(R) /\ Kept(R) \in SUBSET (1..n)
        /\ IsFiniteSet(Kept(R)) /\ Cardinality(Kept(R)) = Cardinality(R)
    <3>1. n \in Nat
      BY <1>4
    <3> QED BY <2>5, <3>1, KeptCounts
  <2>8. Cardinality(R) \in Nat
    BY <2>7, FS_CardinalityType
  <2>9. fired' => \E s \in SUBSET (1..n) : BurstIn(e, s)
    <3> SUFFICES ASSUME Cardinality(R) >= Confirm PROVE \E s \in SUBSET (1..n) : BurstIn(e, s)
      BY <2>1, <2>2
    <3>1. PICK s \in SUBSET Kept(R) : Cardinality(s) = Confirm
      BY <2>7, <2>8, SomeOf, Constants
    <3>2. \A i \in s : i \in 1..n /\ SettledIn(e, i) /\ t - e[i].t <= Window
      BY <2>5, <3>1 DEF Kept
    <3>3. ASSUME NEW i \in s, NEW j \in s PROVE e[i].t - e[j].t <= Window
      <4>1. /\ e[i].t \in Int /\ e[j].t \in Int /\ e[i].t <= t /\ t - e[j].t <= Window
        BY <1>5, <3>2
      <4> QED BY <4>1, Constants
    <3>4. s \in SUBSET (1..n)
      BY <3>2
    <3> QED BY <3>1, <3>2, <3>3, <3>4 DEF BurstIn
  <2>10. ASSUME NEW s \in SUBSET (1..n), BurstIn(e, s) PROVE fired'
    <3>1. n \in s
      <4>1. n \notin s => s \in SUBSET (1..Len(d))
        BY <1>4
      <4> QED BY <1>4, <1>9, <2>2, <2>10, <4>1
    <3>2. ASSUME NEW i \in s PROVE i \in Kept(R)
      <4>1. i \in 1..n /\ SettledIn(e, i) /\ t - e[i].t <= Window
        BY <1>4, <2>10, <3>1 DEF BurstIn
      <4>2. ~\E j \in 1..n : e[j].t - e[i].t > Window
        <5>1. ASSUME NEW j \in 1..n PROVE ~(e[j].t - e[i].t > Window)
          <6>1. e[j].t \in Int /\ e[i].t \in Int /\ e[j].t <= t
            BY <1>5, <4>1
          <6> QED BY <4>1, <6>1, Constants
        <5> QED BY <5>1
      <4>3. [sample |-> i, t |-> e[i].t] \in R
        BY <2>6, <4>1, <4>2
      <4>4. [sample |-> i, t |-> e[i].t].sample = i
        OBVIOUS
      <4> QED BY <4>3, <4>4 DEF Kept
    <3>3. s \in SUBSET Kept(R) /\ Cardinality(s) = Confirm
      BY <2>10, <3>2 DEF BurstIn
    <3>4. Cardinality(s) <= Cardinality(Kept(R))
      BY <2>7, <3>3, FS_Subset
    <3> QED BY <2>1, <2>7, <2>8, <3>3, <3>4, Constants
  <2> QED BY <1>10, <2>1, <2>5, <2>6, <2>9, <2>10
<1> QED BY <1>11, <1>12

\* Outside the descent, and before the first.
LEMMA Forgotten ==
    ASSUME descent' = <<>>, hits' = {}, fired' = FALSE, landT0' = <<>>, now' \in Int
    PROVE  TouchdownInv'
<1>1. <<>> \in Seq(SampleType) /\ Len(<<>>) = 0 /\ 1..Len(<<>>) = {}
  <2>1. <<>> \in Seq(SampleType) /\ Len(<<>>) = 0
    BY EmptySeq
  <2> QED BY <2>1
<1>2. Ordered'
  BY <1>1 DEF Ordered
<1>3. Pruned'
  BY <1>1 DEF Pruned
<1>4. Latched'
  <2>1. ASSUME NEW s \in SUBSET {}, Burst(s)' PROVE FALSE
    <3>1. s = {} /\ Cardinality(s) = Confirm
      BY <2>1 DEF Burst
    <3> QED BY <3>1, FS_EmptySet, Constants
  <2> QED BY <1>1, <2>1 DEF Latched
<1> QED BY <1>2, <1>3, <1>4 DEF TouchdownInv

LEMMA Begin == Init => TouchdownInv
<1> SUFFICES ASSUME Init PROVE TouchdownInv
  OBVIOUS
<1>1. <<>> \in Seq(SampleType) /\ Len(<<>>) = 0 /\ 1..Len(<<>>) = {}
  <2>1. <<>> \in Seq(SampleType) /\ Len(<<>>) = 0
    BY EmptySeq
  <2> QED BY <2>1
<1>2. Ordered
  <2>1. descent = <<>> /\ now = 0 /\ fired = FALSE /\ landT0 = <<>>
    BY DEF Init
  <2>2. now \in Int
    BY <2>1
  <2>3. fired \in BOOLEAN
    BY <2>1
  <2>4. descent \in Seq(SampleType) /\ 1..Len(descent) = {}
    BY <1>1, <2>1
  <2>5. landT0 = IF descent = <<>> THEN <<>> ELSE <<descent[1].t>>
    BY <2>1
  <2> QED BY <2>2, <2>3, <2>4, <2>5 DEF Ordered
<1>3. Pruned
  BY <1>1 DEF Init, Pruned
<1>4. Latched
  <2>1. ASSUME NEW s \in SUBSET {}, Burst(s) PROVE FALSE
    <3>1. s = {} /\ Cardinality(s) = Confirm
      BY <2>1 DEF Burst
    <3> QED BY <3>1, FS_EmptySet, Constants
  <2> QED BY <1>1, <2>1 DEF Init, Latched
<1> QED BY <1>2, <1>3, <1>4 DEF TouchdownInv

\* The touchdown latch is set in a descent exactly when its samples so far contain a
\* burst, for every value of the thresholds and any number of samples: pruning the
\* hits only when a new one arrives loses none and keeps none too long (update).
THEOREM FiresOnBurst == Spec => []FiresExactlyOnBurst
<1>1. TouchdownInv /\ [Next]_vars => TouchdownInv'
  <2> SUFFICES ASSUME TouchdownInv, [Next]_vars PROVE TouchdownInv'
    OBVIOUS
  <2>1. CASE UNCHANGED vars
    BY <2>1 DEF vars, detector, TouchdownInv, Ordered, Pruned, Latched, Settled, SettledIn, Burst
  <2>2. ASSUME NEW t \in now..MaxStamp, NEW hit \in BOOLEAN, NEW inLand \in BOOLEAN,
               Update(t, hit, inLand)
        PROVE  TouchdownInv'
    <3>1. t \in Int /\ now <= t /\ now' = t
      BY <2>2, Constants DEF TouchdownInv, Ordered, Update
    <3>2. CASE inLand
      BY <2>2, <3>1, <3>2, Landing DEF Update
    <3>3. CASE ~inLand
      BY <2>2, <3>1, <3>3, Forgotten DEF Update, UpdateIdle
    <3> QED BY <3>2, <3>3
  <2> QED BY <2>1, <2>2 DEF Next
<1>2. TouchdownInv => FiresExactlyOnBurst
  <2> SUFFICES ASSUME TouchdownInv PROVE FiresExactlyOnBurst
    OBVIOUS
  <2>1. DOMAIN descent = 1..Len(descent)
    BY LenProperties DEF TouchdownInv, Ordered
  <2> QED BY <2>1 DEF TouchdownInv, Latched, FiresExactlyOnBurst
<1> QED BY Begin, <1>1, <1>2, PTL DEF Spec
=============================================================================
