----------------------------- MODULE ParamTrace -----------------------------
(***************************************************************************)
(* The parameters of one forced pull and the verdict on them               *)
(* (fcu_audit_receipt.py, _analyze_param_trace).  The flight controller    *)
(* numbers its parameters 0..N-1 and sends each with its number and N;     *)
(* MAVROS keeps what it hears and publishes it to the trace; mavparam      *)
(* writes what MAVROS keeps to a file.                                     *)
(*                                                                         *)
(* The flight controller, MAVROS and mavparam are external: what MAVROS    *)
(* keeps may be left over from before or changed behind its back, a        *)
(* message may reach the trace late, twice or never, and while the pull    *)
(* lasts another station may set a parameter and the firmware may bring    *)
(* one into use.                                                           *)
(***************************************************************************)
EXTENDS Integers, Sequences, FiniteSets, Functions

CONSTANTS
    Order,        \* every name the firmware knows, in the order it numbers them
    Hash,         \* the pseudo parameter, sent without a number
    Values,       \* values of a parameter
    MinCount,     \* min_param_count
    MaxMessages,  \* bound: messages the flight controller sends
    MaxChanges    \* bound: parameters set, brought into use or changed meanwhile

ASSUME ParamConstants ==
    /\ Order \in Seq(Range(Order))
    /\ \A i, j \in DOMAIN Order : Order[i] = Order[j] => i = j
    /\ Hash \notin Range(Order)
    /\ MinCount \in Nat \ {0} /\ {MaxMessages, MaxChanges} \subseteq Nat

Names == Range(Order)
NoIndex == -1      \* UINT16_MAX on the wire

VARIABLES
    fcu,      \* what each parameter in use is set to
    kept,     \* what MAVROS keeps of them
    channel,  \* published and not yet received by the trace
    trace,    \* the samples of the trace
    place,    \* "pull", "tail", "judged", and "reported" when done with
    dump,     \* the file mavparam wrote
    budget,   \* messages and changes left
    hist      \* what the parameters were at any time of the pull (history),
              \* and whether the pull was a good one

paramVars == <<fcu, kept, channel, trace, place, dump, budget, hist>>

-----------------------------------------------------------------------------
(* The flight controller and MAVROS.                                       *)

\* The number of a parameter: how many in use come before it.
Index(name) ==
    Cardinality({i \in DOMAIN Order : /\ Order[i] \in DOMAIN fcu
                                      /\ \E j \in DOMAIN Order : Order[j] = name /\ i < j})

Message(name) ==
    [name |-> name, index |-> Index(name), value |-> fcu[name], count |-> Cardinality(DOMAIN fcu)]

HashMessage(count) == [name |-> Hash, index |-> NoIndex, value |-> 0, count |-> count]

ParamInit ==
    /\ \E used \in SUBSET Names : fcu \in [used -> Values]
    /\ \E left \in SUBSET Names : kept \in [left -> Values]
    /\ channel = <<>> /\ trace = <<>>
    /\ place = "pull"
    /\ dump = <<>>
    /\ budget = [messages |-> MaxMessages, changes |-> MaxChanges]
    /\ hist = [tables |-> {fcu}, good |-> DOMAIN kept = {}]

\* A parameter is sent: because the list was requested, because it was
\* missing or because it was set.  MAVROS keeps and publishes it.
Sends(name) ==
    /\ budget.messages > 0 /\ place = "pull" /\ name \in DOMAIN fcu
    /\ kept' = [n \in DOMAIN kept \cup {name} |-> IF n = name THEN fcu[n] ELSE kept[n]]
    /\ channel' = Append(channel, Message(name))
    /\ budget' = [budget EXCEPT !.messages = @ - 1]
    /\ UNCHANGED <<fcu, trace, place, dump, hist>>

\* PX4 closes the list with a checksum of the parameters in use, and counts
\* it or does not.
SendsHash ==
    /\ budget.messages > 0 /\ place = "pull" /\ fcu # <<>>
    /\ \E extra \in 0..1 : channel' = Append(channel, HashMessage(Cardinality(DOMAIN fcu) + extra))
    /\ budget' = [budget EXCEPT !.messages = @ - 1]
    /\ UNCHANGED <<fcu, kept, trace, place, dump, hist>>

Changes ==
    /\ budget.changes > 0 /\ place \in {"pull", "tail"}
    /\ \E name \in Names, v \in Values :
         fcu' = [n \in DOMAIN fcu \cup {name} |-> IF n = name THEN v ELSE fcu[n]]
    /\ fcu' # fcu
    /\ budget' = [budget EXCEPT !.changes = @ - 1]
    /\ hist' = [tables |-> IF place = "pull" THEN hist.tables \cup {fcu'} ELSE hist.tables,
                good |-> hist.good /\ place # "pull"]
    /\ UNCHANGED <<kept, channel, trace, place, dump>>

\* What MAVROS keeps is a cache on the ROS parameter server, where any node can
\* write.
CacheChanges ==
    /\ budget.changes > 0 /\ place = "pull"
    /\ \E name \in DOMAIN kept, v \in Values : kept' = [kept EXCEPT ![name] = v]
    /\ kept' # kept
    /\ budget' = [budget EXCEPT !.changes = @ - 1]
    /\ hist' = [hist EXCEPT !.good = FALSE]
    /\ UNCHANGED <<fcu, channel, trace, place, dump>>

\* The subscriber of the trace receives a message, or it is lost.
Receives ==
    /\ channel # <<>> /\ place \in {"pull", "tail"}
    /\ trace' = Append(trace, [message |-> Head(channel), inside |-> place = "pull"])
    /\ channel' = Tail(channel)
    /\ hist' = [hist EXCEPT !.good = @ /\ place = "pull"]
    /\ UNCHANGED <<fcu, kept, place, dump, budget>>

Loses ==
    /\ channel # <<>> /\ place \in {"pull", "tail"}
    /\ channel' = Tail(channel)
    /\ hist' = [hist EXCEPT !.good = FALSE]
    /\ UNCHANGED <<fcu, kept, trace, place, dump, budget>>

\* mavparam writes what MAVROS keeps, whether all of it came in this pull or
\* not.
DumpEnds ==
    /\ place = "pull"
    /\ place' = "tail"
    /\ dump' = kept
    /\ hist' = [hist EXCEPT !.good = @ /\ DOMAIN kept = DOMAIN fcu /\ channel = <<>>]
    /\ UNCHANGED <<fcu, kept, channel, trace, budget>>

Judge ==
    /\ place = "tail" /\ place' = "judged"
    /\ UNCHANGED <<fcu, kept, channel, trace, dump, budget, hist>>

-----------------------------------------------------------------------------
(* _analyze_param_trace.                                                   *)

Messages == {trace[i].message : i \in DOMAIN trace}
Real == {m \in Messages : m.index # NoIndex}
Pseudo == {i \in DOMAIN trace : trace[i].message.index = NoIndex}
Counts == {m.count : m \in Real}
Advertised == CHOOSE n \in Counts : TRUE

\* Mutant of Stable: no parameter may be sent twice.
SlipStable ==
    /\ \A m, o \in Real : m.index = o.index \/ m.name = o.name => m = o
    /\ \A i, j \in DOMAIN trace :
         trace[i].message = trace[j].message /\ trace[i].message \in Real => i = j

\* A number, and a name, stand for one record throughout; the same record may
\* come again.
Stable == \A m, o \in Real : m.index = o.index \/ m.name = o.name => m = o

\* One count, not too small, and the numbers are exactly 0..N-1.
Complete ==
    /\ Cardinality(Counts) = 1
    /\ Advertised >= MinCount
    /\ {m.index : m \in Real} = 0..(Advertised - 1)

\* At most one message without a number, and it is the checksum of PX4.
PseudoAllowed ==
    /\ Cardinality(Pseudo) <= 1
    /\ \A i \in Pseudo : /\ trace[i].message.name = Hash
                         /\ trace[i].message.count \in {Advertised, Advertised + 1}
    /\ \A m \in Real : m.name # Hash

\* Mutant of DumpIsTraced: the values are not compared.
SlipDumpIsTraced == DOMAIN dump = {m.name : m \in Real}

\* The file names what the trace names and says of it what the trace says.
DumpIsTraced ==
    /\ DOMAIN dump = {m.name : m \in Real}
    /\ \A m \in Real : dump[m.name] = m.value

\* The count mavparam reports, external: what it wrote, and the checksum when
\* one came.
Reported == Cardinality(DOMAIN dump) + Cardinality(Pseudo)
ReportedExactly == Reported = Advertised + (IF Pseudo # {} THEN 1 ELSE 0)

ArrivedInside == \A i \in DOMAIN trace : trace[i].inside

Pass ==
    /\ trace # <<>>
    /\ Stable /\ Complete /\ PseudoAllowed /\ DumpIsTraced /\ ReportedExactly
    /\ ArrivedInside

-----------------------------------------------------------------------------
ParamNext ==
    \/ \E name \in Names : Sends(name)
    \/ SendsHash \/ Changes \/ CacheChanges \/ Receives \/ Loses \/ DumpEnds \/ Judge

-----------------------------------------------------------------------------
\* A pull that passes wrote a table the flight controller had: exactly the
\* parameters that were in use at one moment of the pull, and each with a
\* value it had during the pull, although MAVROS may keep others from before,
\* its cache may be written by others and mavparam reports success all the
\* same (_analyze_param_trace).
PassMeansTheirTable ==
    place = "judged" /\ Pass =>
        /\ \E t \in hist.tables : DOMAIN t = DOMAIN dump
        /\ \A n \in DOMAIN dump : \E t \in hist.tables : n \in DOMAIN t /\ t[n] = dump[n]
        /\ Cardinality(DOMAIN dump) >= MinCount

\* No gate on names, indices, counts, values or arrivals within the dump refuses
\* a pull during which nothing was lost, late or changed and before which MAVROS
\* kept nothing, however often parameters were sent again and wherever the
\* checksum came (_analyze_param_trace; its gates on the order of the stamps and
\* the age of a header at its arrival, 689-722, may still refuse it).
GoodPullPasses ==
    place = "judged" /\ hist.good /\ Cardinality(DOMAIN dump) >= MinCount
        /\ Cardinality(Pseudo) <= 1
      => Pass
=============================================================================
