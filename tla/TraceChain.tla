--------------------------- MODULE TraceChain ---------------------------
(***************************************************************************)
(* CryptographicTracer: spans linked by hashes in the secure-state column  *)
(* family, under keys ordered by wall clock.  The API holds one tracer and *)
(* calls log_span from the threads of its request handlers, with no lock,  *)
(* so log_span is a step per read and write of what the threads share.     *)
(*                                                                         *)
(* SHA-256 is taken as injective: the hash of a payload after a hash is    *)
(* the sequence of every payload hashed so far.                            *)
(***************************************************************************)
EXTENDS Integers, Sequences

CONSTANTS
    Writers,       \* threads that log spans
    Payloads,      \* what a span says: execution, agent, action and data
    MaxSpans,      \* bound: no span is begun once the log has this many
    MaxRestarts,   \* bound: how often the process or the machine stops
    MaxFailures,   \* bound: how many puts raise
    MaxStepBacks,  \* bound: how often the wall clock is set back
    MaxChanges     \* bound: how many stored spans are altered in place

ASSUME PayloadsAssumption == Payloads # {}
ASSUME BoundsAssumption ==
    {MaxSpans, MaxRestarts, MaxFailures, MaxStepBacks, MaxChanges} \subseteq Nat

VARIABLES
    head,       \* previous_hash, in memory
    pc,         \* where each writer is in log_span
    span,       \* the span each writer is building
    wal,        \* the spans put, in the order they were put
    logged,     \* history: the spans as they were put
    durable,    \* length of wal that survives a power loss for certain
    clock,      \* the wall clock
    overlapped, \* history: two writers have been in log_span at once
    restarts, failures, stepBacks, changes

chainVars == <<head, pc, span, overlapped>>
storeVars == <<wal, logged, durable>>
faultVars == <<restarts, failures, stepBacks, changes>>
vars == <<chainVars, storeVars, clock, faultVars>>

Genesis == <<>>
Hash(payload, previous) == Append(previous, payload)
Hashes == Seq(Payloads)

\* A stamp is a nanosecond, and the number of times the clock was set back
\* before: two spans of one nanosecond are ordered by it.
Stamps == Int \X Nat
\* The timestamp is compared with nothing: the one taken in log_span, or another.
Dates == {"logged", "other"}
Span == [timestamp: Dates, time: Stamps, payload: Payloads, hash: Hashes, parent: Hashes]
Steps == {"idle", "hashed", "linked", "stamped", "stored"}

\* The order of the keys trace:{time_ns}:{hash}.
Earlier(s, t) ==
    \/ s.time[1] < t.time[1]
    \/ s.time[1] = t.time[1] /\ s.time[2] < t.time[2]

\* The spans of a log that trace_log lists before the one put as number i.
Before(log, i) == {j \in DOMAIN log : Earlier(log[j], log[i])}

\* Of some spans of a log, the one listed last.
Last(log, S) == {j \in S : \A k \in S : ~Earlier(log[j], log[k])}

\* The hash of the span listed last (the genesis hash if there is none), as
\* the singleton of it.
LastHash(log, S) == IF S = {} THEN {Genesis} ELSE {log[j].hash : j \in Last(log, S)}

\* The genesis hash and the hashes of the first n spans of a log.
Known(log, n) == {Genesis} \cup {log[j].hash : j \in 1..n}

\* verify_trace_integrity: every hash is that of its payload after the hash
\* of the span listed before it.  Timestamps and parent hashes are not read.
Verify(log) ==
    \A i \in DOMAIN log :
        \E h \in LastHash(log, Before(log, i)) : log[i].hash = Hash(log[i].payload, h)

-------------------------------------------------------------------------
\* The locals of a thread that is not in log_span.
NoSpan == [timestamp |-> "logged", time |-> <<0, 0>>, payload |-> CHOOSE p \in Payloads : TRUE,
           hash |-> Genesis, parent |-> Genesis]

\* The tracer of a fresh process over an empty log.
Init ==
    /\ head = Genesis
    /\ pc = [w \in Writers |-> "idle"]
    /\ span = [w \in Writers |-> NoSpan]
    /\ wal = <<>>
    /\ logged = <<>>
    /\ durable = 0
    /\ clock = 0
    /\ overlapped = FALSE
    /\ restarts = 0
    /\ failures = 0
    /\ stepBacks = 0
    /\ changes = 0

Go(w, from, to) == pc[w] = from /\ pc' = [pc EXCEPT ![w] = to]

\* Mutant: the new hash becomes the head before its span is put.
HashPayloadAdvancing(w) ==
    /\ Len(wal) < MaxSpans
    /\ Go(w, "idle", "hashed")
    /\ \E p \in Payloads :
           /\ span' = [span EXCEPT ![w].payload = p, ![w].hash = Hash(p, head)]
           /\ head' = Hash(p, head)
    /\ overlapped' = (overlapped \/ \E v \in Writers : pc[v] # "idle")
    /\ UNCHANGED <<storeVars, clock, faultVars>>

\* The span is dated and its hash computed from the chain's head ...
HashPayload(w) ==
    /\ Len(wal) < MaxSpans
    /\ Go(w, "idle", "hashed")
    /\ \E p \in Payloads :
           span' = [span EXCEPT ![w].payload = p, ![w].hash = Hash(p, head)]
    /\ overlapped' = (overlapped \/ \E v \in Writers : pc[v] # "idle")
    /\ UNCHANGED <<head, storeVars, clock, faultVars>>

\* ... which is read again for the span's parent_hash ...
LinkParent(w) ==
    /\ Go(w, "hashed", "linked")
    /\ span' = [span EXCEPT ![w].parent = head]
    /\ UNCHANGED <<head, overlapped, storeVars, clock, faultVars>>

\* ... the clock is read for the key ...
Stamp(w) ==
    /\ Go(w, "linked", "stamped")
    /\ clock' = clock + 1
    /\ span' = [span EXCEPT ![w].time = <<clock + 1, stepBacks>>]
    /\ UNCHANGED <<head, overlapped, storeVars, faultVars>>

\* ... the span is put ...
PutSpan(w) ==
    /\ Go(w, "stamped", "stored")
    /\ wal' = Append(wal, span[w])
    /\ logged' = Append(logged, span[w])
    /\ UNCHANGED <<head, overlapped, span, durable, clock, faultVars>>

\* ... and becomes the head.
AdvanceHead(w) ==
    /\ Go(w, "stored", "idle")
    /\ head' = span[w].hash
    /\ span' = [span EXCEPT ![w] = NoSpan]
    /\ UNCHANGED <<overlapped, storeVars, clock, faultVars>>

\* Mutant: the head moves although the put raised.
PutFailsAfterAdvance(w) ==
    /\ failures < MaxFailures
    /\ failures' = failures + 1
    /\ Go(w, "stamped", "idle")
    /\ head' = span[w].hash
    /\ span' = [span EXCEPT ![w] = NoSpan]
    /\ UNCHANGED <<overlapped, storeVars, clock, restarts, stepBacks, changes>>

\* The put raises: log_span ends and the head stays.
PutFails(w) ==
    /\ failures < MaxFailures
    /\ failures' = failures + 1
    /\ Go(w, "stamped", "idle")
    /\ span' = [span EXCEPT ![w] = NoSpan]
    /\ UNCHANGED <<head, overlapped, storeVars, clock, restarts, stepBacks, changes>>

\* Mutant: a new process starts a chain of its own.
ReloadFromGenesis ==
    /\ restarts < MaxRestarts
    /\ restarts' = restarts + 1
    /\ pc' = [w \in Writers |-> "idle"]
    /\ \E n \in durable..Len(wal) :
           /\ wal' = SubSeq(wal, 1, n)
           /\ logged' = SubSeq(logged, 1, n)
           /\ durable' = n
    /\ head' = Genesis
    /\ span' = [w \in Writers |-> NoSpan]
    /\ UNCHANGED <<overlapped, clock, failures, stepBacks, changes>>

\* The process is killed, or the machine loses the unsynced end of the log,
\* and a new tracer takes its head from the last span of the scan.
Reload ==
    /\ restarts < MaxRestarts
    /\ restarts' = restarts + 1
    /\ pc' = [w \in Writers |-> "idle"]
    /\ \E n \in durable..Len(wal) :
           /\ wal' = SubSeq(wal, 1, n)
           /\ logged' = SubSeq(logged, 1, n)
           /\ durable' = n
    /\ head' \in LastHash(wal', DOMAIN wal')
    /\ span' = [w \in Writers |-> NoSpan]
    /\ UNCHANGED <<overlapped, clock, failures, stepBacks, changes>>

ClockSetBack ==
    /\ stepBacks < MaxStepBacks
    /\ stepBacks' = stepBacks + 1
    /\ \E t \in 0..(clock - 1) : clock' = t
    /\ UNCHANGED <<chainVars, storeVars, restarts, failures, changes>>

\* One field of a stored span changes in place: what it says, its timestamp or
\* its parent_hash.  Its key and its hash stay.
SpanChanged ==
    /\ changes < MaxChanges
    /\ changes' = changes + 1
    /\ \E i \in DOMAIN wal :
           \/ \E p \in Payloads \ {wal[i].payload} : wal' = [wal EXCEPT ![i].payload = p]
           \/ \E d \in Dates \ {wal[i].timestamp} : wal' = [wal EXCEPT ![i].timestamp = d]
           \/ \E h \in Known(wal, Len(wal)) \ {wal[i].parent} : wal' = [wal EXCEPT ![i].parent = h]
    /\ UNCHANGED <<chainVars, logged, durable, clock, restarts, failures, stepBacks>>

LogSpan(w) ==
    \/ HashPayload(w)
    \/ LinkParent(w)
    \/ Stamp(w)
    \/ PutSpan(w)
    \/ AdvanceHead(w)
    \/ PutFails(w)

Next == (\E w \in Writers : LogSpan(w)) \/ Reload \/ ClockSetBack \/ SpanChanged

Spec == Init /\ [][Next]_vars

-------------------------------------------------------------------------
(* Properties of any number of writers. *)

\* Every variable has its type.
TypeOK ==
    /\ head \in Hashes
    /\ pc \in [Writers -> Steps]
    /\ span \in [Writers -> Span]
    /\ wal \in Seq(Span)
    /\ logged \in Seq(Span)
    /\ Len(logged) = Len(wal)
    /\ durable \in 0..Len(wal)
    /\ clock \in Int
    /\ overlapped \in BOOLEAN
    /\ restarts \in Nat /\ failures \in Nat /\ stepBacks \in Nat /\ changes \in Nat

\* No link of the chain dangles: the parent a span was put with, and the hash
\* its own was computed from, are the genesis hash or those of a span put before
\* it - whatever the interleaving, after failed puts, restarts and a lost end of
\* the log, however the clock moves, and with altered spans in the log.
LinksResolve ==
    \A i \in DOMAIN wal :
        /\ logged[i].parent \in Known(wal, i - 1)
        /\ \E h \in Known(wal, i - 1) : wal[i].hash = Hash(logged[i].payload, h)

\* A span under way links to spans already put, and so does the head.
HeadKnown == head \in Known(wal, Len(wal))

SpansKnown ==
    \A w \in Writers :
        /\ pc[w] \in {"hashed", "linked", "stamped"} =>
               \E h \in Known(wal, Len(wal)) : span[w].hash = Hash(span[w].payload, h)
        /\ pc[w] \in {"linked", "stamped"} => span[w].parent \in Known(wal, Len(wal))
        /\ pc[w] = "stored" => span[w].hash \in Known(wal, Len(wal))

\* What makes LinksResolve inductive: nothing in memory links to a span that
\* is not in the store.
LinkInv == TypeOK /\ HeadKnown /\ SpansKnown

-------------------------------------------------------------------------
(* Properties of writers that take turns, with a clock that is never set    *)
(* back.                                                                    *)

Orderly == ~overlapped /\ stepBacks = 0

\* Every stored span says what it was logged with: execution, agent, action and
\* data.
SaysAsLogged == \A i \in DOMAIN wal : wal[i].payload = logged[i].payload

\* The audit is exact about what the spans say, and about nothing else: it passes
\* if and only if every span in the store says what it was logged with.
\* Restarts, failed puts and a lost end of the log cause no false alarm, and no
\* later span hides an altered one.  By the same equivalence an altered
\* timestamp, an altered parent_hash and a lost end go unnoticed.
AuditExact == Orderly => (Verify(wal) <=> SaysAsLogged)

\* The docstring of verify_trace_integrity, for any writers and clock: the
\* audit answers whether data was tampered with, so a log of which no field
\* changed passes.
UnalteredLogVerifies == wal = logged => Verify(wal)

\* The hash of the span put as number n; the genesis hash comes before all.
HashAt(log, n) == IF n = 0 THEN Genesis ELSE log[n].hash

\* The scan lists the spans in the order they were put, none is stamped later
\* than the clock, and each is hashed after the one put before it.
InOrder ==
    /\ \A i, j \in DOMAIN wal : i < j => wal[i].time[1] < wal[j].time[1]
    /\ \A i \in DOMAIN wal : wal[i].time[1] <= clock
    /\ \A i \in DOMAIN wal : wal[i].hash = Hash(logged[i].payload, HashAt(wal, i - 1))

\* At most one writer is in log_span, and it continues the chain where the
\* log ends.
WriterInOrder ==
    /\ \A v, w \in Writers : pc[v] # "idle" /\ pc[w] # "idle" => v = w
    /\ (\A w \in Writers : pc[w] # "stored") => head = HashAt(wal, Len(wal))
    /\ \A w \in Writers :
        /\ pc[w] = "stored" => span[w].hash = HashAt(wal, Len(wal))
        /\ pc[w] \in {"hashed", "linked", "stamped"} =>
               span[w].hash = Hash(span[w].payload, head)
        /\ pc[w] = "stamped" =>
               /\ span[w].time[1] <= clock
               /\ \A i \in DOMAIN wal : wal[i].time[1] < span[w].time[1]

\* What makes AuditExact inductive: the order of the keys is the order of the
\* chain, and the writer is about to extend its end.
OrderInv == Orderly => InOrder /\ WriterInOrder
=========================================================================
