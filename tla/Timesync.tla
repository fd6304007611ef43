------------------------------ MODULE Timesync ------------------------------
(***************************************************************************)
(* The evidence that MAVROS keeps time with the flight controller: the     *)
(* capture of three topics by one process (fcu_timesync_trace_capture.py)  *)
(* and the verdict on what it captured (fcu_audit_receipt.py,              *)
(* _timesync_report with _timesync_acceptance_report).                     *)
(*                                                                         *)
(* For every exchange with the flight controller MAVROS publishes a status *)
(* and another node, external like MAVROS, says whether the filter         *)
(* accepted it.  The topics are delivered independently of each other, and *)
(* each message may be lost.  The clock of the flight controller starts    *)
(* again when it reboots.                                                  *)
(*                                                                         *)
(* There is no clock: which samples were out of time, when each of them    *)
(* may be, is what `untimely` says.                                        *)
(***************************************************************************)
EXTENDS Integers, Sequences, FiniteSets, SequencesExt

CONSTANTS
    MinStatus,     \* samples
    TailSamples,   \* tail_samples, acceptance_samples
    MinDiag,       \* diagnostic_samples
    Window,        \* time/convergence_window
    MaxExchanges,  \* bounds of the world
    MaxFaults

ASSUME TimesyncConstants ==
    /\ {MinStatus, TailSamples, MinDiag, Window} \subseteq Nat \ {0}
    /\ {MaxExchanges, MaxFaults} \subseteq Nat

VARIABLES
    source,   \* the filter of MAVROS and the clock of the flight controller
    wire,     \* published and not delivered, per topic
    status,   \* captured samples of timesync_status
    accepts,  \* captured records of the accepted sequence
    diag,     \* captured diagnostics that qualify, and were they all OK and in time
    capture,  \* place of the process and its grace period
    untimely  \* what of the captured samples was out of time:
              \* <<"stamps", topic>>  one came too old, or too long after the one before it
              \* <<"end", topic>>     the last one was too old when the capture ended
              \* <<"link", id>>       the two messages of an exchange came too far apart

timesyncVars == <<source, wire, status, accepts, diag, capture, untimely>>

-----------------------------------------------------------------------------
(* MAVROS and the publisher of the accepted sequence.                      *)

\* Does the capture still run?  After it nobody listens.
Runs == capture.pc \notin {"exit 0", "exit 3"}

\* An exchange, with what each topic says of it.  `estimate` and `before` are
\* the offset of the clocks after and before it: rejected exchanges do not
\* change it, and no two sessions share one.
Exchange(ok) ==
    LET after == IF ok THEN source.accepted + 1 ELSE source.accepted
    IN  [id |-> source.id, epoch |-> source.epoch, remote |-> source.remote, ok |-> ok,
         sequence |-> after, converged |-> after >= Window,
         before |-> <<source.epoch, source.accepted>>, estimate |-> <<source.epoch, after>>]

Publishes ==
    /\ Runs /\ source.id < MaxExchanges
    /\ \E ok \in BOOLEAN, heard \in SUBSET {"status", "accepts"} :
         /\ source.faults + (IF heard = {"status", "accepts"} THEN 0 ELSE 1) <= MaxFaults
         /\ wire' = [t \in {"status", "accepts"} |->
                       IF t \in heard THEN Append(wire[t], Exchange(ok)) ELSE wire[t]]
         /\ source' = [source EXCEPT !.id = @ + 1, !.remote = @ + 1,
                         !.accepted = IF ok THEN @ + 1 ELSE @,
                         !.faults = IF heard = {"status", "accepts"} THEN @ ELSE @ + 1]
    /\ UNCHANGED <<status, accepts, diag, capture, untimely>>

\* The flight controller reboots or its clock jumps: the filter starts again.
Resets ==
    /\ Runs /\ source.faults < MaxFaults /\ source.id < MaxExchanges
    /\ source' = [source EXCEPT !.epoch = @ + 1, !.remote = 1, !.accepted = 0, !.faults = @ + 1]
    /\ UNCHANGED <<wire, status, accepts, diag, capture, untimely>>

-----------------------------------------------------------------------------
(* The capture (fcu_timesync_trace_capture.py).                            *)

TimesyncInit ==
    /\ source = [id |-> 0, epoch |-> 0, remote |-> 1, accepted |-> 0, faults |-> 0]
    /\ wire = [t \in {"status", "accepts"} |-> <<>>]
    /\ status = <<>> /\ accepts = <<>>
    /\ diag = [n |-> 0, ok |-> TRUE]
    /\ capture = [pc |-> "connecting", grace |-> "none"]
    /\ untimely = {}

Suffix(s, n) == SubSeq(s, Len(s) - n + 1, Len(s))
Remotes(s) == {s[i].remote : i \in DOMAIN s}

\* minimum_gate
Enough(st, ac, n) == Len(st) >= MinStatus /\ Len(ac) >= TailSamples /\ n >= MinDiag

\* pair_gate: the last samples of the status are different and the accepted
\* sequence knows each of them.
Paired(st, ac) ==
    /\ Len(st) >= TailSamples
    /\ LET tail == Suffix(st, TailSamples)
       IN  IsInjective([i \in DOMAIN tail |-> tail[i].remote]) /\ Remotes(tail) \subseteq Remotes(ac)

\* Under the lock, after a sample has been written: the grace period begins
\* when every stream has its minimum, and once it is over the first paired
\* suffix ends the capture.
AfterSample(st, ac, n) ==
    [pc    |-> IF capture.grace = "over" /\ Paired(st, ac) THEN "complete" ELSE "capturing",
     grace |-> IF capture.grace = "none" /\ Enough(st, ac, n) THEN "running" ELSE capture.grace]

\* Any of these may be out of time, within the bound.
MayBeUntimely(marks) ==
    \E late \in SUBSET marks :
      /\ untimely' = untimely \cup late
      /\ late # {} => source.faults + Cardinality(untimely') <= MaxFaults

\* The barrier: all three publishers are connected.  Earlier messages were
\* dropped by observe.
Connects ==
    /\ capture.pc = "connecting"
    /\ capture' = [capture EXCEPT !.pc = "capturing"]
    /\ UNCHANGED <<source, wire, status, accepts, diag, untimely>>

\* observe, once per topic.  After the capture is frozen nothing is written.
Observes(topic) ==
    /\ Runs /\ wire[topic] # <<>>
    /\ wire' = [wire EXCEPT ![topic] = Tail(@)]
    /\ IF capture.pc = "capturing"
       THEN LET m == Head(wire[topic])
                    other == IF topic = "status" THEN accepts ELSE status
                    heard == \E o \in Range(other) : o.id = m.id
                IN  /\ MayBeUntimely({<<"stamps", topic>>}
                          \cup IF heard THEN {<<"link", m.id>>} ELSE {})
                    /\ status' = IF topic = "status" THEN Append(status, m) ELSE status
                    /\ accepts' = IF topic = "accepts" THEN Append(accepts, m) ELSE accepts
                    /\ capture' = AfterSample(status', accepts', diag.n)
       ELSE UNCHANGED <<status, accepts, capture, untimely>>
    /\ UNCHANGED <<source, diag>>

ObservesDiagnostic ==
    /\ capture.pc = "capturing"
    /\ \E ok \in BOOLEAN : diag' = [n |-> IF diag.n = MinDiag THEN MinDiag ELSE diag.n + 1,
                                    ok |-> diag.ok /\ ok]
    /\ capture' = AfterSample(status, accepts, diag'.n)
    /\ UNCHANGED <<source, wire, status, accepts, untimely>>

GraceEnds ==
    /\ capture.pc = "capturing" /\ capture.grace = "running"
    /\ capture' = [capture EXCEPT !.grace = "over"]
    /\ UNCHANGED <<source, wire, status, accepts, diag, untimely>>

\* The loop of main looks by itself, too.
LoopLooks ==
    /\ \/ /\ capture.pc = "capturing" /\ capture.grace = "over" /\ Paired(status, accepts)
          /\ capture' = [capture EXCEPT !.pc = "complete"]
          /\ UNCHANGED untimely
       \/ /\ capture.pc = "complete"
          /\ capture' = [capture EXCEPT !.pc = "exit 0"]
          /\ MayBeUntimely({"end"} \X {"status", "accepts", "diag"})
    /\ UNCHANGED <<source, wire, status, accepts, diag>>

\* No connection, or not enough samples, in time.
TimesOut ==
    /\ Runs
    /\ capture' = [capture EXCEPT !.pc = "exit 3"]
    /\ UNCHANGED <<source, wire, status, accepts, diag, untimely>>

-----------------------------------------------------------------------------
(* The verdict (fcu_audit_receipt.py).                                     *)

Increasing(f(_), s) == \A i \in 1..(Len(s) - 1) : f(s[i]) < f(s[i + 1])

Remote(m) == m.remote
Sequence(m) == m.sequence
Observation(m) == m.id

\* The age of each message at its arrival, the gaps between their stamps and
\* the age of the last one at the end.
InTime(topic) == <<"stamps", topic>> \notin untimely /\ <<"end", topic>> \notin untimely

\* _timesync_report: the status alone.  Each offset of the tail is near the
\* estimate before it; after a restart of the clock it is not.
StatusGate ==
    /\ Len(status) >= MinStatus /\ Len(status) > TailSamples /\ InTime("status")
    /\ Increasing(Remote, status)
    /\ \A j \in (Len(status) - TailSamples + 1)..Len(status) :
         status[j].epoch = status[j - 1].estimate[1]

\* _diagnostic_status
DiagGate == diag.n >= MinDiag /\ diag.ok /\ InTime("diag")

\* _timesync_acceptance_report: one session without a reset, records in order
\* and none that counts differently from its predecessor.
SequenceGate ==
    /\ Len(accepts) >= TailSamples /\ InTime("accepts")
    /\ \A m, o \in Range(accepts) : m.epoch = o.epoch
    /\ Increasing(Observation, accepts)
    /\ \A i \in 1..(Len(accepts) - 1) :
         accepts[i + 1].sequence = accepts[i].sequence + (IF accepts[i + 1].ok THEN 1 ELSE 0)

\* Mutant of ConvergenceGate: that the sequence grows is taken as proof that
\* the samples were accepted.
SlipConvergenceGate ==
    LET tail == Suffix(accepts, TailSamples)
    IN  tail[1].sequence >= Window /\ Increasing(Sequence, tail)

\* The last records: all accepted, one after another, and converged.
ConvergenceGate ==
    LET tail == Suffix(accepts, TailSamples)
    IN  /\ \A i \in DOMAIN tail : tail[i].ok /\ tail[i].converged
        /\ tail[1].sequence >= Window
        /\ Increasing(Sequence, tail)

\* Mutant of LinkageGate: both topics are taken to begin with the same sample.
SlipLinkageGate ==
    LET tail == Suffix(accepts, TailSamples)
    IN  \A i \in 1..TailSamples :
          LET j == Len(accepts) - TailSamples + i
          IN  /\ j \in 2..Len(status) /\ status[j].remote = tail[i].remote
              /\ status[j - 1].estimate = tail[i].before

\* Each of them stands for the status at its place from the end, and for no
\* other, its deviation is what the status before that one implies, and the
\* two did not come too far apart.
LinkageGate ==
    LET n == Len(status)
        tail == Suffix(accepts, TailSamples)
        links(m) == {j \in 1..n : status[j].remote = m.remote}
    IN  \A i \in 1..TailSamples :
          LET j == n - TailSamples + i
          IN  /\ links(tail[i]) = {j} /\ j > 1 /\ status[j - 1].estimate = tail[i].before
              /\ <<"link", tail[i].id>> \notin untimely

ReportPasses ==
    capture.pc = "exit 0" /\ StatusGate /\ DiagGate /\ SequenceGate
      /\ ConvergenceGate /\ LinkageGate

-----------------------------------------------------------------------------
TimesyncNext ==
    \/ Publishes \/ Resets
    \/ Connects
    \/ \E topic \in {"status", "accepts"} : Observes(topic)
    \/ ObservesDiagnostic \/ GraceEnds \/ LoopLooks \/ TimesOut
=============================================================================
