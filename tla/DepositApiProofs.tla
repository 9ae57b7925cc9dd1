------------------------ MODULE DepositApiProofs ------------------------
(***************************************************************************)
(* Proofs about DepositApi and the log handler in it, for any calls that   *)
(* come in together, any strata and routes, and any buffer size.           *)
(***************************************************************************)
EXTENDS DepositApi, ReasoningMeshProofs, WellFoundedInduction

-------------------------------------------------------------------------
(* The log handler, alone. *)

\* The sets of records are finite and their sizes are numbers.
LEMMA LogFinite ==
    ASSUME LogTypeOK
    PROVE  /\ IsFiniteSet(buffer) /\ Cardinality(buffer) \in Nat
           /\ IsFiniteSet(records) /\ Cardinality(records) \in Nat
           /\ IsFiniteSet(lost) /\ Cardinality(lost) \in Nat
<1>1. IsFiniteSet(1..emitted)
    BY FS_Interval DEF LogTypeOK
<1>2. IsFiniteSet(buffer) /\ IsFiniteSet(records) /\ IsFiniteSet(lost)
    BY <1>1, FS_Subset DEF LogTypeOK
<1> QED
    BY <1>2, FS_CardinalityType

\* One exception more pays for a batch more.
LEMMA LossPaid ==
    ASSUME NEW n \in Nat, NEW m \in Nat, NEW e \in Nat,
           n <= MaxBufferSize * e, m <= MaxBufferSize
    PROVE  n + m <= MaxBufferSize * (e + 1)
<1>1. MaxBufferSize \in Nat
    BY BufferAssumption
<1>2. MaxBufferSize * (e + 1) = MaxBufferSize * e + MaxBufferSize /\ MaxBufferSize * e \in Nat
    BY <1>1
<1>. DEFINE paid == MaxBufferSize * e
<1>3. paid \in Nat /\ n <= paid /\ MaxBufferSize * (e + 1) = paid + MaxBufferSize
    BY <1>2
<1>. HIDE DEF paid
<1> QED
    BY <1>1, <1>3

LEMMA InitLogInv == LogInit => LogInv
<1> SUFFICES ASSUME LogInit PROVE LogInv
    OBVIOUS
<1>1. Cardinality({}) = 0 /\ MaxBufferSize \in Nat /\ MaxBufferSize * 0 = 0
    BY FS_EmptySet, BufferAssumption
<1>2. LogTypeOK
    BY DEF LogInit, LogTypeOK
<1>3. RecordsKept
    BY <1>1 DEF LogInit, RecordsKept
<1>4. BufferBounded
    BY <1>1, BufferAssumption DEF LogInit, BufferBounded
<1> QED
    BY <1>2, <1>3, <1>4 DEF LogInv

\* A record added to a buffer that was not full fills it at most, and one that
\* is dropped is the only loss of its exception.
LEMMA EmitPreserves ==
    ASSUME LogInv, NEW t \in Loggers, Emit(t)
    PROVE  LogInv'
<1> USE DEF LogInv
<1>0. /\ IsFiniteSet(buffer) /\ Cardinality(buffer) \in Nat
      /\ IsFiniteSet(lost) /\ Cardinality(lost) \in Nat
      /\ Cardinality({}) = 0
    BY LogFinite, FS_EmptySet
<1>1. /\ emitted' = emitted + 1
      /\ 1..(emitted + 1) = (1..emitted) \cup {emitted + 1} /\ emitted + 1 \notin 1..emitted
    BY DEF Emit, LogTypeOK
<1>2. emitted + 1 \notin buffer \cup records \cup loki \cup stdout \cup lost
    BY <1>1 DEF RecordsKept
<1>3. Cardinality(buffer) < MaxBufferSize /\ records = {}
    BY DEF BufferBounded, Emit
<1>4. CASE Buffer(t)
  <2>1. Cardinality(buffer') = Cardinality(buffer) + 1
    BY <1>0, <1>1, <1>2, <1>4, FS_AddElement DEF Buffer
  <2>2. LogTypeOK'
    BY <1>4 DEF Emit, Buffer, LogTypeOK
  <2>3. RecordsKept'
    BY <1>1, <1>2, <1>4 DEF Emit, Buffer, RecordsKept
  <2>4. BufferBounded'
    <3>1. Cardinality(buffer') <= MaxBufferSize
      BY <1>0, <1>3, <2>1, BufferAssumption
    <3>2. PICK stale \in BOOLEAN :
              holder' = IF Cardinality(buffer') >= MaxBufferSize \/ stale THEN t ELSE Nobody
      BY <1>4 DEF Buffer
    <3>3. holder' = Nobody => Cardinality(buffer') < MaxBufferSize
      BY <3>2, <1>0, <2>1, BufferAssumption, NobodyAssumption
    <3>4. buffer' # {} /\ records' = {} /\ ~closed' /\ Cardinality(records') <= MaxBufferSize
      BY <1>0, <1>3, <1>4, BufferAssumption DEF Emit, Buffer
    <3> QED
      BY <3>1, <3>3, <3>4 DEF BufferBounded
  <2> QED
    BY <2>2, <2>3, <2>4
<1>5. CASE Drop
  <2>1. Cardinality(lost') = Cardinality(lost) + 1
    BY <1>0, <1>1, <1>2, <1>5, FS_AddElement DEF Drop
  <2>2. Cardinality(lost') <= MaxBufferSize * errors'
    BY <1>0, <1>5, <2>1, LossPaid, BufferAssumption DEF Drop, RecordsKept, LogTypeOK
  <2>3. LogTypeOK'
    BY <1>5 DEF Emit, Drop, LogTypeOK
  <2>4. RecordsKept'
    BY <1>1, <1>2, <1>5, <2>2 DEF Emit, Drop, RecordsKept
  <2>5. BufferBounded'
    BY <1>5 DEF Emit, Drop, BufferBounded
  <2> QED
    BY <2>3, <2>4, <2>5
<1> QED
    BY <1>4, <1>5 DEF Emit

\* A flush moves the buffer on, and whichever way it ends a record is lost only
\* with the batch of an exception.
LEMMA FlushPreserves ==
    ASSUME LogInv, NEW t \in Loggers, Flush(t)
    PROVE  LogInv'
<1> USE DEF LogInv
<1>0. /\ Cardinality({}) = 0 /\ Cardinality({}) < MaxBufferSize /\ Cardinality({}) <= MaxBufferSize
      /\ IsFiniteSet(records) /\ Cardinality(records) \in Nat /\ Cardinality(records) <= MaxBufferSize
      /\ IsFiniteSet(lost) /\ Cardinality(lost) \in Nat /\ Cardinality(lost) <= MaxBufferSize * errors
      /\ errors \in Nat
    BY FS_EmptySet, LogFinite, BufferAssumption DEF BufferBounded, RecordsKept, LogTypeOK
<1>1. CASE Take(t)
  <2>1. records = {}
    BY <1>1, NobodyAssumption DEF Take, BufferBounded
  <2>2. LogTypeOK'
    BY <1>1 DEF Take, LogTypeOK
  <2>3. RecordsKept'
    BY <1>1, <2>1 DEF Take, RecordsKept
  <2>4. BufferBounded'
    BY <1>0, <1>1, BufferAssumption, NobodyAssumption DEF Take, BufferBounded
  <2> QED
    BY <2>2, <2>3, <2>4
\* What is lost of a batch is a part of it.
<1>2. ASSUME NEW L \in SUBSET records
      PROVE  Cardinality(lost \cup L) <= MaxBufferSize * (errors + 1)
  <2>1. IsFiniteSet(L) /\ Cardinality(L) \in Nat /\ Cardinality(L) <= MaxBufferSize
    <3>1. IsFiniteSet(L) /\ Cardinality(L) <= Cardinality(records)
      BY <1>0, FS_Subset
    <3> QED
      BY <1>0, <3>1, FS_CardinalityType, BufferAssumption
  <2>2. lost \cap L = {}
    BY DEF RecordsKept
  <2>3. Cardinality(lost \cup L) = Cardinality(lost) + Cardinality(L)
    <3>1. Cardinality(lost \cup L) = Cardinality(lost) + Cardinality(L) - Cardinality(lost \cap L)
      BY <1>0, <2>1, FS_Union
    <3>2. Cardinality(lost \cap L) = 0
      BY <1>0, <2>2
    <3> QED
      BY <1>0, <2>1, <3>1, <3>2
  <2> QED
    BY <1>0, <2>1, <2>3, LossPaid
<1>3. CASE PostReturns(t)
  <2>1. buffer = {}
    BY <1>3, NobodyAssumption DEF PostReturns, BufferBounded
  <2>2. LogTypeOK'
    BY <1>3 DEF PostReturns, LogTypeOK
  <2>3. RecordsKept'
    BY <1>3 DEF PostReturns, RecordsKept
  <2>4. BufferBounded'
    BY <1>0, <1>3, <2>1, BufferAssumption DEF PostReturns, BufferBounded
  <2> QED
    BY <2>2, <2>3, <2>4
<1>4. CASE BuildRaises(t)
  <2>1. buffer = {}
    BY <1>4, NobodyAssumption DEF BuildRaises, BufferBounded
  <2>2. LogTypeOK'
    BY <1>4 DEF BuildRaises, LogTypeOK
  <2>3. Cardinality(lost') <= MaxBufferSize * errors'
    BY <1>2, <1>4 DEF BuildRaises
  <2>4. RecordsKept'
    BY <1>4, <2>3 DEF BuildRaises, RecordsKept
  <2>5. BufferBounded'
    BY <1>0, <1>4, <2>1, BufferAssumption DEF BuildRaises, BufferBounded
  <2> QED
    BY <2>2, <2>4, <2>5
<1>5. CASE PostRaises(t)
  <2>1. buffer = {} /\ buffer' = {} /\ records' = {} /\ emitted' = emitted /\ holder' = Nobody
    BY <1>5, NobodyAssumption DEF PostRaises, BufferBounded
  <2>2. PICK accepted \in {{}, records}, printed \in SUBSET records :
            /\ loki' = loki \cup accepted
            /\ stdout' = stdout \cup printed
            /\ doubled' = doubled \cup (accepted \cap printed)
            /\ lost' = lost \cup (records \ (accepted \cup printed))
            /\ errors' = IF printed = records THEN errors ELSE errors + 1
    BY <1>5 DEF PostRaises
  <2>3. accepted \subseteq records
    OBVIOUS
  <2>4. LogTypeOK'
    <3>1. errors' \in Nat
      BY <1>0, <2>2
    <3>2. lost' \subseteq 1..emitted
      BY <2>2 DEF LogTypeOK
    <3> QED
      BY <1>5, <2>1, <3>1, <3>2 DEF PostRaises, LogTypeOK
  <2>5. Cardinality(lost') <= MaxBufferSize * errors'
    <3>1. CASE printed = records
      <4>1. lost' = lost /\ errors' = errors
        BY <2>2, <3>1
      <4> QED
        BY <1>0, <4>1
    <3>2. CASE printed # records
      BY <1>2, <2>2, <3>2
    <3> QED
      BY <3>1, <3>2
  <2>6. RecordsKept'
    <3>1. (buffer \cup records \cup loki \cup stdout \cup lost)' = 1..emitted'
      BY <2>1, <2>2, <2>3 DEF RecordsKept
    <3>2. lost' \cap (loki \cup stdout)' = {} /\ loki' \cap stdout' = doubled'
      BY <2>2, <2>3 DEF RecordsKept
    <3> QED
      BY <2>1, <2>5, <3>1, <3>2 DEF RecordsKept
  <2>7. BufferBounded'
    BY <1>0, <1>5, <2>1, BufferAssumption DEF PostRaises, BufferBounded
  <2> QED
    BY <2>4, <2>6, <2>7
<1> QED
    BY <1>1, <1>3, <1>4, <1>5 DEF Flush

LEMMA ClosePreserves ==
    ASSUME LogInv, NEW t \in Loggers, Close(t)
    PROVE  LogInv'
<1>1. LogTypeOK'
    BY DEF LogInv, Close, LogTypeOK
<1>2. RecordsKept'
    BY DEF LogInv, Close, RecordsKept
<1>3. BufferBounded'
    BY NobodyAssumption DEF LogInv, Close, BufferBounded
<1> QED
    BY <1>1, <1>2, <1>3 DEF LogInv

\* For every buffer size, a record is lost only to an exception of the handler,
\* at most a buffer of them to each, and doubled only by a late answer, however
\* posts fail; the buffer stays within its size and nothing is left at the end.
THEOREM LogSafety == LogSpec => []LogInv
<1>1. LogInit => LogInv
    BY InitLogInv
<1>2. LogInv /\ [LogNext]_logVars => LogInv'
  <2> SUFFICES ASSUME LogInv, [LogNext]_logVars PROVE LogInv'
    OBVIOUS
  <2>1. CASE LogNext
    BY <2>1, EmitPreserves, FlushPreserves, ClosePreserves DEF LogNext
  <2>2. CASE UNCHANGED logVars
    BY <2>2 DEF logVars, LogInv, LogTypeOK, RecordsKept, BufferBounded
  <2> QED
    BY <2>1, <2>2
<1> QED
    BY <1>1, <1>2, PTL DEF LogSpec
-------------------------------------------------------------------------
(* The log handler in the API. *)

\* Only a warning, a flush under way and the end of the server reach the log
\* handler, each as a step of its own.
LEMMA ApiStepLogs ==
    ASSUME [ApiNext]_allVars
    PROVE  [LogNext]_logVars
<1>1. CASE UNCHANGED allVars
  BY <1>1 DEF allVars
<1>2. ASSUME NEW r \in Runs, Warn(r) \/ FlushLog(r) \/ Close(r)  PROVE LogNext
  BY <1>2, LoggersAssumption DEF Warn, FlushLog, LogNext
<1>3. ASSUME NEW r \in Runs,
             \/ Admit(r) \/ Invert(r) \/ Validate(r) \/ Trace(r) \/ Invoke(r) \/ Evaluate(r)
             \/ Raise(r) \/ ListCheckpoints(r)
      PROVE  UNCHANGED logVars
  BY <1>3 DEF Admit, Invert, Validate, Trace, Invoke, Evaluate, Raise, ListCheckpoints
<1>4. ASSUME NEW o \in Others, Begin(o) \/ ReadLatest(o)  PROVE UNCHANGED logVars
  BY <1>4 DEF Begin, ReadLatest
<1>5. ASSUME NEW c \in Callers, StampSpan(c) \/ PutSpan(c)  PROVE UNCHANGED logVars
  BY <1>5 DEF StampSpan, PutSpan
<1>. QED  BY <1>1, <1>2, <1>3, <1>4, <1>5 DEF ApiNext, ShutDown

\* The API uses the log handler as its specification allows ...
THEOREM ApiLogs == ApiSpec => LogSpec
<1>1. ApiInit => LogInit
  BY DEF ApiInit
<1>. QED  BY <1>1, ApiStepLogs, PTL DEF ApiSpec, LogSpec

\* ... so a warning of a blocked handoff is kept whatever the posts do, or its
\* loss is an exception of the handler.
THEOREM ApiLogSafety == ApiSpec => []LogInv
BY ApiLogs, LogSafety, PTL
-------------------------------------------------------------------------
(* Greatest elements: of the risks of a deposit, of the times of the spans *)
(* and of the places where one key was put.                                *)

\* A finite set has an element at which f is greatest: of the sets of elements
\* where f is greater than at some element, one has no strict subset among them.
LEMMA GreatestAt ==
    ASSUME NEW S, IsFiniteSet(S), S # {}, NEW f, \A x \in S : f[x] \in Int
    PROVE  \E x \in S : \A y \in S : f[y] <= f[x]
<1>. DEFINE Above(x) == {y \in S : f[y] > f[x]}
            Sets == {Above(x) : x \in S}
<1>1. Sets \subseteq FiniteSubsetsOf(S)
  <2>1. \A x \in S : Above(x) \subseteq S /\ IsFiniteSet(Above(x))
    BY FS_Subset
  <2>. QED  BY <2>1 DEF FiniteSubsetsOf
<1>2. Sets # {}
  OBVIOUS
<1>3. PICK b \in Sets : \A c \in Sets : ~(<<c, b>> \in StrictSubsetOrdering(S))
  <2>. HIDE DEF Sets
  <2>. QED  BY <1>1, <1>2, FS_StrictSubsetOrderingWellFounded, WFMin, Zenon
<1>4. PICK x \in S : b = Above(x)
  BY <1>3
<1>5. ASSUME NEW y \in S, f[y] > f[x]  PROVE FALSE
  <2>1. y \in Above(x) /\ y \notin Above(y)
    BY <1>5
  <2>2. Above(y) \subseteq Above(x)
    BY <1>5
  <2>3. <<Above(y), b>> \in StrictSubsetOrdering(S)
    BY <1>4, <2>1, <2>2 DEF StrictSubsetOrdering
  <2>. QED  BY <1>3, <2>3
<1>. QED  BY <1>5

\* The values of a function over a finite set are finitely many.
LEMMA ImageFinite ==
    ASSUME NEW S, IsFiniteSet(S), NEW f, f = [x \in S |-> f[x]]
    PROVE  IsFiniteSet({f[x] : x \in S})
<1>. DEFINE T == {f[x] : x \in S}
<1>1. f \in Surjection(S, T)
  BY DEF Surjection
<1>. HIDE DEF T
<1>2. IsFiniteSet(T)
  BY <1>1, FS_Surjection
<1>. QED  BY <1>2 DEF T

-------------------------------------------------------------------------
(* The trace log. *)

\* The steps that the spans see: a clock read, a put, a read of the log; any
\* other step only moves a call between phases in which it has no span.
SpanStep == (\E c \in Callers : StampSpan(c) \/ PutSpan(c)) \/ (\E o \in Others : ReadLatest(o))

Unspanned == {"new", "admitted", "refused", "inverted", "tracing", "evaluating", "warning", "raised", "logging"}

LEMMA ApiStepSpans ==
    ASSUME ApiTypeOK, [ApiNext]_allVars
    PROVE  \/ SpanStep
           \/ /\ UNCHANGED traceVars
              /\ \A c \in Callers : phase'[c] = phase[c] \/ (phase[c] \in Unspanned /\ phase'[c] \in Unspanned)
<1>0. phase = [c \in Callers |-> phase[c]]
  BY DEF ApiTypeOK
<1>1. CASE UNCHANGED <<traceVars, phase>>
  BY <1>1
<1>2. CASE UNCHANGED allVars
  BY <1>1, <1>2 DEF allVars, apiVars
<1>3. ASSUME NEW r \in Runs, Trace(r) \/ Evaluate(r) \/ FlushLog(r)  PROVE UNCHANGED <<traceVars, phase>>
  BY <1>3 DEF Trace, Evaluate, FlushLog, apiVars
<1>4. ASSUME ShutDown  PROVE UNCHANGED <<traceVars, phase>>
  BY <1>4 DEF ShutDown, apiVars
<1>5. ASSUME NEW c \in Callers, NEW from \in Unspanned, NEW to \in Unspanned, Turn(c, from, to)
      PROVE  \A b \in Callers : phase'[b] = phase[b] \/ (phase[b] \in Unspanned /\ phase'[b] \in Unspanned)
  BY <1>0, <1>5 DEF Turn
<1>6. ASSUME NEW r \in Runs,
             Admit(r) \/ Invert(r) \/ Validate(r) \/ Invoke(r) \/ Warn(r) \/ Raise(r) \/ ListCheckpoints(r)
      PROVE  /\ UNCHANGED traceVars
             /\ \E from \in Unspanned, to \in Unspanned : Turn(r, from, to)
  BY <1>6 DEF Admit, Invert, Validate, Invoke, Warn, Raise, ListCheckpoints, Unspanned
<1>7. ASSUME NEW o \in Others, Begin(o)
      PROVE  /\ UNCHANGED traceVars
             /\ \E from \in Unspanned, to \in Unspanned : Turn(o, from, to)
  BY <1>7 DEF Begin, Unspanned
<1>. QED  BY <1>1, <1>2, <1>3, <1>4, <1>5, <1>6, <1>7 DEF ApiNext, SpanStep, Callers

\* The last key is that of a span no other is stamped after.
LEMMA LastKeyGreatest ==
    ASSUME SpansSettled, NEW k \in DOMAIN spans
    PROVE  /\ \E i \in DOMAIN spans : spans[i] = LastKey
           /\ LastKey \in Callers
           /\ stamp[spans[k]] <= stamp[LastKey]
<1>1. DOMAIN spans = 1..Len(spans) /\ Len(spans) \in Nat /\ \A i \in DOMAIN spans : spans[i] \in Callers
  BY DEF SpansSettled
<1>2. IsFiniteSet(DOMAIN spans)
  BY <1>1, FS_Interval
<1>. DEFINE f == [i \in DOMAIN spans |-> stamp[spans[i]]]
<1>3. \A i \in DOMAIN spans : f[i] \in Int
  BY <1>1 DEF SpansSettled
<1>4. PICK i \in DOMAIN spans : \A j \in DOMAIN spans : f[j] <= f[i]
  <2>. HIDE DEF f
  <2>. QED  BY <1>2, <1>3, GreatestAt
<1>5. \E c \in {spans[j] : j \in DOMAIN spans} : \A j \in DOMAIN spans : stamp[spans[j]] <= stamp[c]
  BY <1>4
<1>6. /\ LastKey \in {spans[j] : j \in DOMAIN spans}
      /\ \A j \in DOMAIN spans : stamp[spans[j]] <= stamp[LastKey]
  BY <1>5 DEF LastKey
<1>. QED  BY <1>1, <1>6

LEMMA StampSpanPreserves ==
    ASSUME ApiTypeOK, SpansInv, NEW c \in Callers, StampSpan(c)
    PROVE  SpansInv'
<1>1. /\ phase = [b \in Callers |-> phase[b]] /\ phase[c] = "logging"
      /\ phase' = [phase EXCEPT ![c] = "stamped"]
      /\ stamp' = [stamp EXCEPT ![c] = clock + 1] /\ clock' = clock + 1
      /\ UNCHANGED <<spans, latest>>
  BY DEF ApiTypeOK, StampSpan, Turn
<1>2. /\ clock \in Nat /\ stamp \in [Callers -> Nat] /\ spans \in Seq(Callers)
      /\ DOMAIN spans = 1..Len(spans) /\ \A i \in DOMAIN spans : spans[i] \in Callers /\ spans[i] # c
  <2>1. clock \in Nat /\ stamp \in [Callers -> Nat] /\ spans \in Seq(Callers)
    BY DEF SpansInv, SpansSettled
  <2>2. DOMAIN spans = 1..Len(spans) /\ \A i \in DOMAIN spans : spans[i] \in Callers
    BY <2>1
  <2>3. \A i \in DOMAIN spans : phase[spans[i]] # "logging"
    BY DEF SpansInv, SpansSettled
  <2>. QED  BY <1>1, <2>1, <2>2, <2>3
<1>3. SpansSettled'
  <2>1. \A i \in DOMAIN spans : phase'[spans[i]] = phase[spans[i]]
    BY <1>1, <1>2
  <2>2. clock' \in Nat /\ stamp' \in [Callers -> Nat] /\ spans' \in Seq(Callers)
    BY <1>1, <1>2
  <2>3. \A o \in Others : phase'[o] = "reading" => phase[o] = "reading"
    BY <1>1 DEF Callers
  <2>. QED  BY <1>1, <2>1, <2>2, <2>3 DEF SpansInv, SpansSettled
<1>4. \A o \in Others : phase'[o] = "answered" <=> phase[o] = "answered"
  BY <1>1 DEF Callers
<1>5. LatestSettled'
  BY <1>1, <1>4 DEF SpansInv, LatestSettled
<1>6. LatestTraceFresh'
  <2>. SUFFICES ASSUME NEW o \in Others, phase'[o] = "answered"  PROVE stamp'[latest'[o]] >= stamp'[o]
    BY DEF LatestTraceFresh
  <2>1. o # c /\ o \in Callers
    BY <1>1, <1>4 DEF Callers
  <2>2. latest[o] # c /\ latest[o] \in Callers
    BY <1>2, <2>1 DEF SpansInv, LatestSettled
  <2>3. stamp[latest[o]] >= stamp[o]
    BY <1>4 DEF SpansInv, LatestTraceFresh
  <2>. QED  BY <1>1, <1>2, <2>1, <2>2, <2>3
<1>. QED  BY <1>3, <1>5, <1>6 DEF SpansInv

LEMMA PutSpanPreserves ==
    ASSUME ApiTypeOK, SpansInv, NEW c \in Callers, PutSpan(c)
    PROVE  SpansInv'
<1>0. /\ phase = [b \in Callers |-> phase[b]] /\ phase[c] = "stamped"
      /\ UNCHANGED <<clock, stamp, latest>>
      /\ stamp \in [Callers -> Nat] /\ spans \in Seq(Callers)
      /\ DOMAIN spans = 1..Len(spans) /\ Len(spans) \in Nat
      /\ \A i \in DOMAIN spans : spans[i] \in Callers
  BY DEF ApiTypeOK, PutSpan, Turn, SpansInv, SpansSettled
<1>1. CASE phase' = [phase EXCEPT ![c] = "raised"] /\ spans' = spans
  <2>1. \A b \in Callers : phase'[b] = phase[b] \/ (phase[b] = "stamped" /\ phase'[b] = "raised")
    BY <1>0, <1>1
  <2>2. SpansSettled'
    <3>1. \A i \in DOMAIN spans : phase'[spans[i]] \in {"reading", "answered"}
      BY <1>0, <2>1 DEF SpansInv, SpansSettled
    <3>2. \A o \in Others : phase'[o] = "reading" => phase[o] = "reading"
      BY <2>1 DEF Callers
    <3>. QED  BY <1>0, <1>1, <3>1, <3>2 DEF SpansInv, SpansSettled
  <2>3. LatestSettled' /\ LatestTraceFresh'
    <3>1. \A o \in Others : phase'[o] = "answered" <=> phase[o] = "answered"
      BY <2>1 DEF Callers
    <3>2. LatestSettled'
      BY <1>0, <1>1, <3>1 DEF SpansInv, LatestSettled
    <3>3. LatestTraceFresh'
      BY <1>0, <1>1, <3>1 DEF SpansInv, LatestTraceFresh
    <3>. QED  BY <3>2, <3>3
  <2>. QED  BY <2>2, <2>3 DEF SpansInv
<1>2. CASE /\ \E to \in {"reading", "answered"} : phase' = [phase EXCEPT ![c] = to]
           /\ spans' = Append(spans, c)
  <2>1. \A b \in Callers : b # c => phase'[b] = phase[b]
    BY <1>0, <1>2
  <2>2. phase'[c] \in {"reading", "answered"}
    BY <1>0, <1>2
  <2>3. /\ DOMAIN spans' = DOMAIN spans \cup {Len(spans) + 1} /\ spans' \in Seq(Callers)
        /\ \A i \in DOMAIN spans : spans'[i] = spans[i]
        /\ spans'[Len(spans) + 1] = c
    BY <1>0, <1>2
  <2>4. SpansSettled'
    <3>1. \A i \in DOMAIN spans' : phase'[spans'[i]] \in {"reading", "answered"}
      <4>1. \A i \in DOMAIN spans : phase[spans[i]] \in {"reading", "answered"} /\ spans[i] \in Callers
        BY <1>0 DEF SpansInv, SpansSettled
      <4>. QED  BY <2>1, <2>2, <2>3, <4>1
    <3>2. \A o \in Others : phase'[o] = "reading" => \E i \in DOMAIN spans' : spans'[i] = o
      BY <2>1, <2>3 DEF SpansInv, SpansSettled, Callers
    <3>. QED  BY <1>0, <2>3, <3>1, <3>2 DEF SpansInv, SpansSettled
  <2>5. LatestSettled'
    <3>1. \A o \in Others : o # c => phase'[o] = phase[o]
      BY <2>1 DEF Callers
    <3>2. c \in Others => latest[c] = c
      BY <1>0 DEF SpansInv, LatestSettled
    <3>3. \A x \in Callers : (\E i \in DOMAIN spans : spans[i] = x) => \E i \in DOMAIN spans' : spans'[i] = x
      BY <2>3
    <3>. QED  BY <1>0, <3>1, <3>2, <3>3 DEF SpansInv, LatestSettled
  <2>6. LatestTraceFresh'
    <3>. SUFFICES ASSUME NEW o \in Others, phase'[o] = "answered"  PROVE stamp[latest[o]] >= stamp[o]
      BY <1>0 DEF LatestTraceFresh
    <3>1. CASE o = c
      <4>1. latest[o] = o /\ stamp[o] \in Nat
        BY <1>0, <3>1 DEF SpansInv, LatestSettled, Callers
      <4>. QED  BY <4>1
    <3>2. CASE o # c
      BY <2>1, <3>2 DEF SpansInv, LatestTraceFresh, Callers
    <3>. QED  BY <3>1, <3>2
  <2>. QED  BY <2>4, <2>5, <2>6 DEF SpansInv
<1>3. \/ phase' = [phase EXCEPT ![c] = "raised"] /\ spans' = spans
      \/ /\ \E to \in {"reading", "answered"} : phase' = [phase EXCEPT ![c] = to]
         /\ spans' = Append(spans, c)
  BY DEF PutSpan, Turn
<1>. QED  BY <1>1, <1>2, <1>3

LEMMA ReadLatestPreserves ==
    ASSUME ApiTypeOK, SpansInv, NEW o \in Others, ReadLatest(o)
    PROVE  SpansInv'
<1>0. /\ phase = [b \in Callers |-> phase[b]] /\ phase[o] = "reading" /\ o \in Callers
      /\ phase' = [phase EXCEPT ![o] = "answered"]
      /\ UNCHANGED <<clock, stamp, spans>>
      /\ latest \in [Others -> Callers] /\ latest' = [latest EXCEPT ![o] = LastKey]
  BY DEF ApiTypeOK, ReadLatest, Turn, SpansInv, LatestSettled, Callers
<1>1. \A b \in Callers : b # o => phase'[b] = phase[b]
  BY <1>0
<1>2. phase'[o] = "answered"
  BY <1>0
<1>3. PICK k \in DOMAIN spans : spans[k] = o
  BY <1>0 DEF SpansInv, SpansSettled
<1>4. /\ \E i \in DOMAIN spans : spans[i] = LastKey
      /\ LastKey \in Callers
      /\ stamp[o] <= stamp[LastKey] /\ stamp[o] \in Nat /\ stamp[LastKey] \in Nat
  BY <1>3, <1>0, LastKeyGreatest DEF SpansInv, SpansSettled
<1>5. SpansSettled'
  <2>1. \A i \in DOMAIN spans : phase'[spans[i]] \in {"reading", "answered"}
    <3>1. \A i \in DOMAIN spans : spans[i] \in Callers
      BY DEF SpansInv, SpansSettled
    <3>. QED  BY <1>1, <1>2, <3>1 DEF SpansInv, SpansSettled
  <2>2. \A p \in Others : phase'[p] = "reading" => phase[p] = "reading"
    BY <1>1, <1>2 DEF Callers
  <2>. QED  BY <1>0, <2>1, <2>2 DEF SpansInv, SpansSettled
<1>6. LatestSettled'
  <2>1. latest' \in [Others -> Callers] /\ latest'[o] = LastKey
        /\ \A p \in Others : p # o => latest'[p] = latest[p] /\ phase'[p] = phase[p]
    BY <1>0, <1>1, <1>4 DEF Callers
  <2>. QED  BY <1>0, <1>2, <1>4, <2>1 DEF SpansInv, LatestSettled
<1>7. LatestTraceFresh'
  <2>. SUFFICES ASSUME NEW p \in Others, phase'[p] = "answered"  PROVE stamp[latest'[p]] >= stamp[p]
    BY <1>0 DEF LatestTraceFresh
  <2>1. CASE p = o
    BY <1>0, <1>4, <2>1
  <2>2. CASE p # o
    BY <1>0, <1>1, <2>2 DEF SpansInv, LatestTraceFresh, Callers
  <2>. QED  BY <2>1, <2>2
<1>. QED  BY <1>5, <1>6, <1>7 DEF SpansInv

LEMMA InitSpans == ApiInit => SpansInv
<1>. SUFFICES ASSUME ApiInit  PROVE SpansInv
  OBVIOUS
<1>1. /\ spans = <<>> /\ clock = 0 /\ stamp = [c \in Callers |-> 0] /\ latest = [o \in Others |-> o]
      /\ \A c \in Callers : phase[c] = "new"
  BY DEF ApiInit
<1>2. SpansSettled
  BY <1>1 DEF SpansSettled, Callers
<1>3. LatestSettled /\ LatestTraceFresh
  BY <1>1 DEF LatestSettled, LatestTraceFresh, Callers
<1>. QED  BY <1>2, <1>3 DEF SpansInv

LEMMA NextSpans == ApiTypeOK /\ SpansInv /\ [ApiNext]_allVars => SpansInv'
<1>. SUFFICES ASSUME ApiTypeOK, SpansInv, [ApiNext]_allVars  PROVE SpansInv'
  OBVIOUS
<1>1. CASE SpanStep
  BY <1>1, StampSpanPreserves, PutSpanPreserves, ReadLatestPreserves DEF SpanStep
<1>2. CASE /\ UNCHANGED traceVars
           /\ \A c \in Callers : phase'[c] = phase[c] \/ (phase[c] \in Unspanned /\ phase'[c] \in Unspanned)
  <2>1. UNCHANGED <<clock, stamp, spans, latest>> /\ \A i \in DOMAIN spans : spans[i] \in Callers
    BY <1>2 DEF traceVars, SpansInv, SpansSettled
  <2>2. \A c \in Callers : phase'[c] \in {"reading", "answered"} \/ phase[c] \in {"reading", "answered"} => phase'[c] = phase[c]
    BY <1>2 DEF Unspanned
  <2>3. SpansSettled'
    BY <2>1, <2>2 DEF SpansInv, SpansSettled, Callers
  <2>4. LatestSettled' /\ LatestTraceFresh'
    BY <2>1, <2>2 DEF SpansInv, LatestSettled, LatestTraceFresh, Callers
  <2>. QED  BY <2>3, <2>4 DEF SpansInv
<1>. QED  BY <1>1, <1>2, ApiStepSpans

-------------------------------------------------------------------------
(* Bodies, risks and what the mesh is called with. *)

LEMMA BodyTyped ==
    ASSUME HandlerInv, NEW r \in Runs
    PROVE  /\ request[r].start \in Int
           /\ IsFiniteSet(DOMAIN request[r].assays)
BY CallsAssumption DEF HandlerInv

\* The mesh's requests hold what the API calls it with, so a risk is an integer.
LEMMA InvocationTyped ==
    ASSUME HandlerInv, NEW r \in Runs, Accepted(request[r]),
           NEW risk \in {0} \cup RisksOf(Elements(request[r].assays))
    PROVE  /\ Invocation(request[r], risk) \in Deposits
           /\ FiguresAt(request[r], risk) \in DepositFigures
           /\ risk \in Int
<1>1. Invocation(request[r], risk) \in Deposits
  BY InvocationsAssumption DEF HandlerInv, Accepted
<1>2. Invocation(request[r], risk).figures \in DepositFigures
  BY <1>1, DepositAssumption DEF Request
<1>3. FiguresAt(request[r], risk) \in DepositFigures
  BY <1>2 DEF Invocation
<1>4. FiguresAt(request[r], risk).supply_risk \in Int
  BY <1>3 DEF DepositFigures
<1>. QED  BY <1>1, <1>3, <1>4 DEF FiguresAt

\* A set of a deposit's risks has a highest.
LEMMA HighestRiskOf ==
    ASSUME HandlerInv, NEW r \in Runs, Accepted(request[r]),
           NEW risks, risks \subseteq {0} \cup RisksOf(Elements(request[r].assays))
    PROVE  /\ HighestRisk(risks) \in risks \cup {0}
           /\ \A l \in risks : l <= HighestRisk(risks)
<1>. DEFINE assays == request[r].assays
            f == [n \in DOMAIN assays |-> ConcentrationRisk(Routes[Canonical(n)])]
            all == {f[n] : n \in DOMAIN assays}
<1>1. RisksOf(Elements(assays)) = all
  BY DEF RisksOf, Elements
<1>2. IsFiniteSet(all)
  <2>1. IsFiniteSet(DOMAIN assays) /\ f = [n \in DOMAIN assays |-> f[n]]
    BY BodyTyped
  <2>. HIDE DEF f
  <2>. QED  BY <2>1, ImageFinite
<1>3. IsFiniteSet(all \cup {0})
  <2>. HIDE DEF all
  <2>. QED  BY <1>2, FS_AddElement
<1>4. IsFiniteSet(risks \cup {0}) /\ \A l \in risks \cup {0} : l \in Int
  <2>1. risks \cup {0} \subseteq all \cup {0}
    BY <1>1
  <2>2. \A l \in risks \cup {0} : l \in Int
    BY InvocationTyped
  <2>. HIDE DEF all
  <2>. QED  BY <1>3, <2>1, <2>2, FS_Subset
<1>5. \E k \in risks \cup {0} : \A l \in risks \cup {0} : l <= k
  <2>. DEFINE id == [l \in risks \cup {0} |-> l]
  <2>1. \A l \in risks \cup {0} : id[l] = l
    OBVIOUS
  <2>2. \E k \in risks \cup {0} : \A l \in risks \cup {0} : id[l] <= id[k]
    <3>1. \A l \in risks \cup {0} : id[l] \in Int
      BY <1>4
    <3>. HIDE DEF id
    <3>. QED  BY <1>4, <3>1, GreatestAt
  <2>. HIDE DEF id
  <2>. QED  BY <2>1, <2>2
<1>. QED  BY <1>5 DEF HighestRisk

LEMMA TracedRisks ==
    ASSUME HandlerInv, NEW r \in Runs
    PROVE  {s.risk : s \in supply[r]} \subseteq {0} \cup RisksOf(Elements(request[r].assays))
BY DEF HandlerInv, SupplyTraced, RisksOf

-------------------------------------------------------------------------
(* The handlers. *)

LEMMA EvaluateCases ==
    ASSUME NEW r \in Runs, Start(r) \/ Advance(r)
    PROVE  AgentAction(r) \/ PutAction(r) \/ StageAction(r)
BY DEF Advance, AgentAction, PutAction, StageAction, HandoffGeochemist, HandoffStructural

\* An evaluation touches its own stage only, and no request.
LEMMA EvaluateFrame ==
    ASSUME TypeInv, NEW r \in Runs, Start(r) \/ Advance(r)
    PROVE  /\ UNCHANGED <<input, struck>>
           /\ \A q \in Runs : q # r => stage'[q] = stage[q]
           /\ stage[r] # "idle" => stage'[r] # "idle"
<1>0. stage \in [Runs -> Stages]
  BY DEF TypeInv, TypeOK
<1>1. CASE AgentAction(r)
  BY <1>0, <1>1 DEF AgentAction, Start, BeginAssessment, Unwind, AgentReturns, AgentRaises, ThreadEnds, Enter
<1>2. CASE StageAction(r)
  BY <1>0, <1>2 DEF StageAction, RefuseInsideLoop, GatherReturns, AssessmentReturns, PutFails, ThreadsJoined,
                    HandoffGeochemist, HandoffStructural, Block, Enter
<1>3. CASE PutAction(r)
  <2>1. stage'[r] # "idle"
    BY <1>0, <1>3 DEF PutAction, CheckpointGeochemist, CheckpointStructural, CheckpointEconomic, Checkpoint,
                      StoreVoxel, StoreShippingAudit, StoreVerdict, Deliver, HandoffGeochemist,
                      HandoffStructural, Enter
  <2>. QED  BY <1>3, <2>1, PutFrame
<1>. QED  BY <1>1, <1>2, <1>3, EvaluateCases

\* Where a handler may go without invoking the mesh.
HandlerMove(r) ==
    /\ phase'[r] \notin {"new", "evaluating", "reading"}
    /\ phase'[r] \in {"admitted", "refused", "inverted", "tracing"} => stage[r] = "idle"
    /\ phase'[r] = "warning" => stage[r] = "blocked"
    /\ phase'[r] \in {"logging", "stamped", "answered"} => stage[r] = "returned"
    /\ phase'[r] \in {"inverted", "tracing"} => request[r].end > request[r].start
    /\ phase'[r] = "tracing" => Valid(request[r])

LEMMA MovePreserves ==
    ASSUME HandlerInv, UNCHANGED <<input, stage, request, handler, supply>>,
           \A r \in Runs : phase'[r] = phase[r] \/ HandlerMove(r)
    PROVE  HandlerInv'
<1>1. HandlersInStep'
  BY DEF HandlerInv, HandlersInStep, HandlerMove
<1>2. BodiesChecked'
  BY DEF HandlerInv, BodiesChecked, HandlerMove
<1>3. SupplyTraced'
  BY DEF HandlerInv, SupplyTraced
<1>4. Invoked'
  BY DEF HandlerInv, Invoked, HandlerMove, Traced
<1>. QED  BY <1>1, <1>2, <1>3, <1>4 DEF HandlerInv

\* The handlers' moves are of this kind ...
LEMMA HandlerMoves ==
    ASSUME ApiTypeOK, HandlerInv, NEW c \in Callers,
           \/ /\ c \in Runs
              /\ \/ Admit(c) \/ Invert(c) \/ Validate(c) \/ Warn(c) \/ Raise(c) \/ ListCheckpoints(c)
           \/ c \in Others /\ (Begin(c) \/ ReadLatest(c))
           \/ StampSpan(c) \/ PutSpan(c)
    PROVE  /\ UNCHANGED <<vars, request, handler, supply>>
           /\ \A r \in Runs : phase'[r] = phase[r] \/ HandlerMove(r)
<1>0. phase = [b \in Callers |-> phase[b]] /\ Runs \subseteq Callers
  BY DEF ApiTypeOK, Callers
<1>1. ASSUME c \in Runs, NEW from, NEW to, Turn(c, from, to),
             \/ from = "new" /\ to \in {"admitted", "refused"}
             \/ to = "raised"
             \/ from = "admitted" /\ to = "inverted" /\ request[c].end > request[c].start
             \/ from = "inverted" /\ to = "tracing" /\ Valid(request[c])
             \/ to = "warning" /\ stage[c] = "blocked"
             \/ to = "logging" /\ stage[c] = "returned"
             \/ from = "logging" /\ to = "stamped"
             \/ from = "stamped" /\ to = "answered"
      PROVE  \A r \in Runs : phase'[r] = phase[r] \/ HandlerMove(r)
  <2>1. phase[c] = from /\ phase'[c] = to /\ \A r \in Runs : r # c => phase'[r] = phase[r]
    BY <1>0, <1>1 DEF Turn
  <2>2. HandlerMove(c)
    BY <1>1, <2>1 DEF HandlerMove, HandlerInv, HandlersInStep, BodiesChecked
  <2>. QED  BY <2>1, <2>2
<1>2. ASSUME c \in Others, NEW from, NEW to, Turn(c, from, to)
      PROVE  \A r \in Runs : phase'[r] = phase[r]
  BY <1>0, <1>2, OthersAssumption DEF Turn
<1>3. CASE c \in Runs /\ (Admit(c) \/ Invert(c) \/ Validate(c))
  <2>1. UNCHANGED <<vars, request, handler, supply>>
    BY <1>3 DEF Admit, Invert, Validate
  <2>. QED  BY <1>1, <1>3, <2>1 DEF Admit, Invert, Validate
<1>4. CASE c \in Runs /\ (Warn(c) \/ Raise(c) \/ ListCheckpoints(c))
  <2>1. UNCHANGED <<vars, request, handler, supply>>
    BY <1>4 DEF Warn, Raise, ListCheckpoints
  <2>. QED  BY <1>1, <1>4, <2>1 DEF Warn, Raise, ListCheckpoints
<1>5. CASE c \in Others /\ (Begin(c) \/ ReadLatest(c))
  BY <1>2, <1>5 DEF Begin, ReadLatest
<1>6. CASE StampSpan(c) \/ PutSpan(c)
  <2>1. UNCHANGED <<vars, request, handler, supply>>
    BY <1>6 DEF StampSpan, PutSpan
  <2>2. CASE c \in Others
    BY <1>2, <1>6, <2>1, <2>2 DEF StampSpan, PutSpan
  <2>3. CASE c \in Runs
    BY <1>1, <1>6, <2>1, <2>3, OthersAssumption DEF StampSpan, PutSpan
  <2>. QED  BY <2>2, <2>3 DEF Callers
<1>. QED  BY <1>3, <1>4, <1>5, <1>6

\* ... and every step is one, a trace, an invocation, a step of an evaluation
\* or one of the log handler's alone.
LEMMA ApiStepCases ==
    ASSUME ApiTypeOK, HandlerInv, [ApiNext]_allVars
    PROVE  \/ /\ UNCHANGED <<vars, request, handler, supply>>
              /\ \A r \in Runs : phase'[r] = phase[r] \/ HandlerMove(r)
           \/ \E r \in Runs : Trace(r) \/ Invoke(r) \/ Evaluate(r)
<1>1. CASE UNCHANGED allVars
  BY <1>1 DEF allVars, apiVars
<1>2. ASSUME NEW r \in Runs, FlushLog(r)  PROVE UNCHANGED <<vars, request, handler, supply, phase>>
  BY <1>2 DEF FlushLog, apiVars
<1>3. ASSUME ShutDown  PROVE UNCHANGED <<vars, request, handler, supply, phase>>
  BY <1>3 DEF ShutDown, apiVars
<1>4. Runs \subseteq Callers /\ Others \subseteq Callers
  BY DEF Callers
<1>. QED  BY <1>1, <1>2, <1>3, <1>4, HandlerMoves DEF ApiNext

LEMMA TracePreserves ==
    ASSUME HandlerInv, NEW r \in Runs, Trace(r)
    PROVE  HandlerInv'
<1>1. /\ phase[r] = "tracing"
      /\ UNCHANGED <<input, stage, request, handler, phase>>
  BY DEF Trace, vars
<1>2. PICK e \in Elements(request[r].assays), answers \in BOOLEAN :
          supply' = [supply EXCEPT ![r] = @ \cup {Impact(e, answers)}]
  BY DEF Trace
<1>3. stage[r] = "idle"
  BY <1>1 DEF HandlerInv, HandlersInStep
<1>4. /\ supply'[r] = supply[r] \cup {Impact(e, answers)}
      /\ \A q \in Runs : q # r => supply'[q] = supply[q]
      /\ DOMAIN supply' = Runs
  BY <1>2 DEF HandlerInv, SupplyTraced
<1>5. SupplyTraced'
  <2>1. Impact(e, answers).mineral = e /\ Impact(e, answers).risk \in {0, ConcentrationRisk(Routes[e])}
    BY DEF Impact
  <2>. QED  BY <1>1, <1>4, <2>1 DEF HandlerInv, SupplyTraced
<1>6. Invoked'
  BY <1>1, <1>3, <1>4 DEF HandlerInv, Invoked, Traced
<1>7. HandlersInStep' /\ BodiesChecked'
  BY <1>1 DEF HandlerInv, HandlersInStep, BodiesChecked
<1>. QED  BY <1>1, <1>5, <1>6, <1>7 DEF HandlerInv

LEMMA InvokePreserves ==
    ASSUME TypeOK, ApiTypeOK, HandlerInv, NEW r \in Runs, Invoke(r)
    PROVE  /\ HandlerInv'
           /\ input' \in [Runs -> Deposits]
           /\ input'[r].voxels = <<>>
           /\ \A q \in Runs : q # r => input'[q] = input[q]
           /\ stage[r] = "idle"
<1>. DEFINE risk == HighestRisk({s.risk : s \in supply[r]})
<1>0. /\ phase = [b \in Callers |-> phase[b]] /\ r \in Callers /\ Runs \subseteq Callers
      /\ input \in [Runs -> Deposits]
  BY DEF ApiTypeOK, TypeOK, Callers
<1>1. /\ phase[r] = "tracing" /\ phase' = [phase EXCEPT ![r] = "evaluating"]
      /\ Traced(r) = Elements(request[r].assays)
      /\ input' = [input EXCEPT ![r] = Invocation(request[r], risk)]
      /\ UNCHANGED <<stage, request, handler, supply>>
  BY DEF Invoke, Turn
<1>2. stage[r] = "idle" /\ Accepted(request[r])
  BY <1>1 DEF HandlerInv, HandlersInStep, BodiesChecked, Accepted
<1>3. risk \in {0} \cup RisksOf(Elements(request[r].assays))
  BY <1>2, TracedRisks, HighestRiskOf
<1>4. Invocation(request[r], risk) \in Deposits
  BY <1>2, <1>3, InvocationTyped
<1>. HIDE DEF risk
<1>5. /\ input' \in [Runs -> Deposits]
      /\ input'[r] = Invocation(request[r], risk)
      /\ \A q \in Runs : q # r => input'[q] = input[q] /\ phase'[q] = phase[q]
      /\ phase'[r] = "evaluating"
  BY <1>0, <1>1, <1>4
<1>6. Invoked'
  <2>. SUFFICES ASSUME NEW q \in Runs, phase'[q] = "evaluating" \/ stage[q] # "idle"
                PROVE  /\ Accepted(request[q])
                       /\ Traced(q) = Elements(request[q].assays)
                       /\ input'[q] = Invocation(request[q], HighestRisk({s.risk : s \in supply[q]}))
    BY <1>1 DEF Invoked, Traced
  <2>1. CASE q = r
    BY <1>1, <1>2, <1>5, <2>1 DEF risk
  <2>2. CASE q # r
    BY <1>5, <2>2 DEF HandlerInv, Invoked
  <2>. QED  BY <2>1, <2>2
<1>7. HandlersInStep' /\ BodiesChecked'
  BY <1>1, <1>5 DEF HandlerInv, HandlersInStep, BodiesChecked
<1>8. SupplyTraced'
  BY <1>1 DEF HandlerInv, SupplyTraced
<1>9. HandlerInv'
  BY <1>1, <1>6, <1>7, <1>8 DEF HandlerInv
<1>. QED  BY <1>2, <1>5, <1>9 DEF Invocation

-------------------------------------------------------------------------
(* The mesh in the API: its invariants hold although a request is set when *)
(* the mesh is called, because nothing was stored for the run before.      *)

LEMMA RecordRuns ==
    ASSUME TypeOK
    PROVE  /\ DOMAIN wal = 1..Len(wal) /\ Len(wal) \in Nat
           /\ \A i \in DOMAIN wal : wal[i] \in Record /\ wal[i].run \in Runs
<1>1. DOMAIN wal = 1..Len(wal) /\ Len(wal) \in Nat /\ \A i \in DOMAIN wal : wal[i] \in Record
  BY ElementOfSeq, LenProperties DEF TypeOK
<1>. QED  BY <1>1 DEF Record

LEMMA InvokeMesh ==
    ASSUME ApiTypeOK, HandlerInv, MeshInv, NEW r \in Runs, Invoke(r)
    PROVE  MeshInv'
<1>. USE DEF MeshInv
<1>0. UNCHANGED <<stage, agent, voxel, wal, durable, gauge, violations, crashes, struck>>
  BY DEF Invoke
<1>1. /\ input' \in [Runs -> Deposits] /\ input'[r].voxels = <<>>
      /\ \A q \in Runs : q # r => input'[q] = input[q]
      /\ stage[r] = "idle"
  BY InvokePreserves DEF TypeInv
<1>2. \A i \in DOMAIN wal : wal[i].run \in Runs /\ wal[i].run # r
  BY <1>1, RecordRuns DEF OutcomesStored, TypeInv
<1>3. TypeInv'
  <2>1. voxel[r] = 0
    BY <1>1 DEF TypeInv, VoxelsCounted
  <2>2. \A q \in Runs : voxel[q] <= Len(input'[q].voxels)
    BY <1>1, <2>1 DEF TypeInv, TypeOK
  <2>3. TypeOK'
    BY <1>0, <1>1, <2>2 DEF TypeInv, TypeOK
  <2>4. VoxelsCounted'
    BY <1>0, <1>1 DEF TypeInv, VoxelsCounted
  <2>. QED  BY <1>0, <2>3, <2>4 DEF TypeInv, IdleAgents, ActiveAgentsBalanced, MetricCounts,
                                                  ThreadsWaitedFor, Awaited
<1>4. EvidenceInv'
  <2>1. RunsBacked'
    BY <1>0, <1>1 DEF EvidenceInv, RunsBacked, LiveStages
  <2>2. RecordsBacked'
    BY <1>0, <1>1, <1>2 DEF EvidenceInv, RecordsBacked
  <2>3. HypothesesByAgents'
    BY <1>0 DEF EvidenceInv, HypothesesByAgents
  <2>. QED  BY <2>1, <2>2, <2>3 DEF EvidenceInv
<1>5. VerdictInv'
  BY <1>0, <1>1, <1>2 DEF VerdictInv, VerdictsReturned, ReturnedRecorded
<1>6. OutcomesStored'
  BY <1>0, <1>1, <1>2 DEF OutcomesStored
<1>. QED  BY <1>0, <1>3, <1>4, <1>5, <1>6

\* What an evaluation stores for the API is one of its six outcomes.
LEMMA EvaluateStores ==
    ASSUME HandlerInv, TypeInv, OutcomesStored, NEW r \in Runs, Evaluate(r)
    PROVE  /\ stage'[r] \notin {"voxels", "audit"}
           /\ \/ UNCHANGED wal
              \/ \E o \in Outcomes(r, input[r]) : wal' = Append(wal, o) /\ stage'[r] # "idle"
<1>1. input[r].voxels = <<>> /\ input[r].figures.corridor = "not_requested"
  <2>1. PICK risk : input[r] = Invocation(request[r], risk)
    BY DEF HandlerInv, Invoked, Evaluate
  <2>. QED  BY <2>1 DEF Invocation, FiguresAt
<1>2. stage \in [Runs -> Stages] /\ stage[r] \notin {"voxels", "audit"}
  BY DEF TypeInv, TypeOK, OutcomesStored
<1>3. CASE AgentAction(r)
  BY <1>2, <1>3 DEF AgentAction, Start, BeginAssessment, Unwind, AgentReturns, AgentRaises, ThreadEnds, Enter
<1>4. CASE StageAction(r)
  BY <1>1, <1>2, <1>4 DEF StageAction, RefuseInsideLoop, GatherReturns, AssessmentReturns, PutFails, ThreadsJoined,
                          HandoffGeochemist, HandoffStructural, Block, Enter
<1>5. CASE CheckpointGeochemist(r) \/ CheckpointStructural(r) \/ CheckpointEconomic(r)
  <2>1. PICK a \in AgentIds : wal' = Append(wal, Outcome(r, "hypothesis", a, ConfidenceOf(r, a)))
    BY <1>5, AgentNames DEF CheckpointGeochemist, CheckpointStructural, CheckpointEconomic, Checkpoint,
                            Put, Outcome
  <2>2. stage'[r] \notin {"voxels", "audit", "idle"}
    BY <1>1, <1>2, <1>5 DEF CheckpointGeochemist, CheckpointStructural, CheckpointEconomic, Checkpoint, Enter
  <2>. QED  BY <2>1, <2>2 DEF Outcomes, ConfidenceOf
<1>6. CASE StoreVoxel(r) \/ StoreShippingAudit(r)
  BY <1>2, <1>6 DEF StoreVoxel, StoreShippingAudit
<1>7. CASE StoreVerdict(r)
  BY <1>2, <1>7 DEF StoreVerdict, Put, Enter, Outcomes, Outcome, ConfidenceOf
<1>8. CASE \/ HandoffGeochemist(r) /\ Deliver(r, Geochemist, "checkpoint_structural")
           \/ HandoffStructural(r) /\ Deliver(r, StructuralGeologist, "checkpoint_economic")
  BY <1>2, <1>8 DEF Deliver, Put, Enter, Outcomes, Outcome, ConfidenceOf
<1>. QED  BY <1>3, <1>4, <1>5, <1>6, <1>7, <1>8, EvaluateCases DEF Evaluate, PutAction

\* The log after a step of an evaluation: what it was, or one outcome longer.
LEMMA EvaluateAppends ==
    ASSUME HandlerInv, TypeInv, OutcomesStored, NEW r \in Runs, Evaluate(r)
    PROVE  \A i \in DOMAIN wal' :
               \/ i \in DOMAIN wal /\ wal'[i] = wal[i]
               \/ wal'[i].run = r /\ wal'[i] \in Outcomes(r, input[r]) /\ stage'[r] # "idle"
<1>1. wal \in Seq(Record)
  BY DEF TypeInv, TypeOK
<1>2. ASSUME NEW o \in Outcomes(r, input[r]), wal' = Append(wal, o)
      PROVE  o.run = r /\ \A i \in DOMAIN wal' : (i \in DOMAIN wal /\ wal'[i] = wal[i]) \/ wal'[i] = o
  <2>1. o.run = r
    BY DEF Outcomes, Outcome
  <2>. QED  BY <1>1, <1>2, <2>1
<1>. QED  BY <1>2, EvaluateStores

LEMMA EvaluateOutcomes ==
    ASSUME HandlerInv, TypeInv, OutcomesStored, NEW r \in Runs, Evaluate(r)
    PROVE  OutcomesStored'
<1>1. /\ UNCHANGED input /\ \A q \in Runs : q # r => stage'[q] = stage[q]
      /\ stage[r] # "idle" => stage'[r] # "idle"
  BY EvaluateFrame DEF Evaluate
<1>2. \A i \in DOMAIN wal : wal[i].run \in Runs
  BY RecordRuns DEF TypeInv
<1>3. \A i \in DOMAIN wal : stage'[wal[i].run] # "idle" /\ wal[i] \in Outcomes(wal[i].run, input[wal[i].run])
  BY <1>1, <1>2 DEF OutcomesStored
<1>4. \A i \in DOMAIN wal' :
          stage'[wal'[i].run] # "idle" /\ wal'[i] \in Outcomes(wal'[i].run, input[wal'[i].run])
  BY <1>3, EvaluateAppends
<1>. QED  BY <1>1, <1>4, EvaluateStores DEF OutcomesStored

LEMMA EvaluateMesh ==
    ASSUME HandlerInv, MeshInv, NEW r \in Runs, Evaluate(r)
    PROVE  MeshInv'
<1>1. Next
  BY DEF Evaluate, Next
<1>2. TypeInv'
  BY <1>1, NextTypeInv DEF MeshInv
<1>3. EvidenceInv'
  BY <1>1, <1>2, NextEvidence DEF MeshInv
<1>4. VerdictInv'
  BY <1>1, <1>2, NextVerdict DEF MeshInv
<1>5. OutcomesStored'
  BY EvaluateOutcomes DEF MeshInv
<1>6. struck' = {}
  BY EvaluateFrame DEF Evaluate, MeshInv
<1>. QED  BY <1>2, <1>3, <1>4, <1>5, <1>6 DEF MeshInv

LEMMA MeshUnchanged ==
    ASSUME MeshInv, UNCHANGED vars
    PROVE  MeshInv'
<1>1. TypeInv' /\ EvidenceInv'
  BY NextTypeInv, NextEvidence DEF MeshInv
<1>2. VerdictInv'
  BY <1>1, NextVerdict DEF MeshInv
<1>3. OutcomesStored'
  BY DEF MeshInv, vars, OutcomesStored
<1>. QED  BY <1>1, <1>2, <1>3 DEF MeshInv, vars

\* The handlers and the mesh keep each other's invariant.
LEMMA NextHandlers ==
    ApiTypeOK /\ HandlerInv /\ MeshInv /\ [ApiNext]_allVars => HandlerInv' /\ MeshInv'
<1>. SUFFICES ASSUME ApiTypeOK, HandlerInv, MeshInv, [ApiNext]_allVars  PROVE HandlerInv' /\ MeshInv'
  OBVIOUS
<1>1. CASE /\ UNCHANGED <<vars, request, handler, supply>>
           /\ \A r \in Runs : phase'[r] = phase[r] \/ HandlerMove(r)
  BY <1>1, MovePreserves, MeshUnchanged DEF vars
<1>2. ASSUME NEW r \in Runs, Trace(r)  PROVE HandlerInv' /\ MeshInv'
  BY <1>2, TracePreserves, MeshUnchanged DEF Trace
<1>3. ASSUME NEW r \in Runs, Invoke(r)  PROVE HandlerInv' /\ MeshInv'
  BY <1>3, InvokePreserves, InvokeMesh DEF MeshInv, TypeInv
<1>4. ASSUME NEW r \in Runs, Evaluate(r)  PROVE HandlerInv' /\ MeshInv'
  <2>1. UNCHANGED <<phase, request, handler, supply, input>> /\ phase[r] = "evaluating"
    BY <1>4, EvaluateFrame DEF Evaluate, apiVars, MeshInv
  <2>2. \A q \in Runs : q # r => stage'[q] = stage[q]
    BY <1>4, EvaluateFrame DEF Evaluate, MeshInv
  <2>3. HandlersInStep'
    BY <2>1, <2>2 DEF HandlerInv, HandlersInStep
  <2>4. BodiesChecked' /\ SupplyTraced'
    BY <2>1 DEF HandlerInv, BodiesChecked, SupplyTraced
  <2>5. Invoked'
    BY <2>1, <2>2 DEF HandlerInv, Invoked, Traced
  <2>6. HandlerInv'
    BY <2>1, <2>3, <2>4, <2>5 DEF HandlerInv
  <2>. QED  BY <1>4, <2>6, EvaluateMesh
<1>. QED  BY <1>1, <1>2, <1>3, <1>4, ApiStepCases

LEMMA InitHandlers == ApiInit => HandlerInv /\ MeshInv
<1>. SUFFICES ASSUME ApiInit  PROVE HandlerInv /\ MeshInv
  OBVIOUS
<1>1. /\ Init /\ \A r \in Runs : stage[r] = "idle" /\ wal = <<>>
      /\ struck = {}
      /\ \E c \in Calls : request = c.request /\ handler = c.handler
      /\ phase = [c \in Callers |-> "new"]
      /\ supply = [r \in Runs |-> {}]
  BY DEF ApiInit, Init
<1>2. \A r \in Runs : phase[r] = "new" /\ supply[r] = {}
  BY <1>1 DEF Callers
<1>3. HandlersInStep /\ BodiesChecked /\ SupplyTraced /\ Invoked
  BY <1>1, <1>2 DEF HandlersInStep, BodiesChecked, SupplyTraced, Invoked
<1>4. DOMAIN wal = {}
  BY DEF ApiInit, Init
<1>5. OutcomesStored
  BY <1>1, <1>4 DEF OutcomesStored
<1>. QED  BY <1>1, <1>3, <1>5, InitTypeInv, InitEvidence, InitVerdict DEF HandlerInv, MeshInv

-------------------------------------------------------------------------
(* The keys an answer lists. *)

LEMMA SameKeyEquivalence ==
    ASSUME NEW p, NEW q, SameKey(p, q)
    PROVE  SameKey(q, p) /\ \A s : SameKey(q, s) => SameKey(p, s)
BY DEF SameKey

\* Every key that was put reads as some record: the last of those under it.
LEMMA KeyReads ==
    ASSUME TypeOK, NEW i \in DOMAIN wal
    PROVE  \E j \in DOMAIN wal : Readable(j) /\ SameKey(wal[i], wal[j])
<1>. DEFINE S == {j \in DOMAIN wal : SameKey(wal[i], wal[j])}
            id == [j \in S |-> j]
<1>1. DOMAIN wal = 1..Len(wal) /\ Len(wal) \in Nat
  BY RecordRuns
<1>2. IsFiniteSet(S)
  <2>1. S \subseteq 1..Len(wal)
    BY <1>1
  <2>2. IsFiniteSet(1..Len(wal))
    BY <1>1, FS_Interval
  <2>. HIDE DEF S
  <2>. QED  BY <2>1, <2>2, FS_Subset
<1>3. i \in S
  BY DEF SameKey
<1>4. \A j \in S : id[j] = j /\ id[j] \in Int
  BY <1>1
<1>5. PICK j \in S : \A k \in S : id[k] <= id[j]
  <2>. HIDE DEF S, id
  <2>. QED  BY <1>2, <1>3, <1>4, GreatestAt
<1>6. ASSUME NEW k \in DOMAIN wal, k > j, SameKey(wal[j], wal[k])  PROVE FALSE
  <2>1. k \in S
    BY <1>6, SameKeyEquivalence
  <2>. QED  BY <1>1, <1>4, <1>5, <1>6, <2>1
<1>. QED  BY <1>6 DEF Readable

LEMMA Six ==
    ASSUME NEW a, NEW b, NEW c, NEW d, NEW e, NEW f,
           a # b, a # c, a # d, a # e, a # f, b # c, b # d, b # e, b # f,
           c # d, c # e, c # f, d # e, d # f, e # f
    PROVE  Cardinality({a, b, c, d, e, f}) = 6
<1>1. IsFiniteSet({a}) /\ Cardinality({a}) = 1
  BY FS_Singleton
<1>2. IsFiniteSet({a} \cup {b}) /\ Cardinality({a} \cup {b}) = 2
  BY <1>1, FS_AddElement
<1>3. IsFiniteSet({a, b} \cup {c}) /\ Cardinality({a, b} \cup {c}) = 3
  <2>1. {a} \cup {b} = {a, b}
    OBVIOUS
  <2>. QED  BY <1>2, <2>1, FS_AddElement
<1>4. IsFiniteSet({a, b, c} \cup {d}) /\ Cardinality({a, b, c} \cup {d}) = 4
  <2>1. {a, b} \cup {c} = {a, b, c}
    OBVIOUS
  <2>. QED  BY <1>3, <2>1, FS_AddElement
<1>5. IsFiniteSet({a, b, c, d} \cup {e}) /\ Cardinality({a, b, c, d} \cup {e}) = 5
  <2>1. {a, b, c} \cup {d} = {a, b, c, d}
    OBVIOUS
  <2>. QED  BY <1>4, <2>1, FS_AddElement
<1>6. Cardinality({a, b, c, d, e} \cup {f}) = 6
  <2>1. {a, b, c, d} \cup {e} = {a, b, c, d, e}
    OBVIOUS
  <2>. QED  BY <1>5, <2>1, FS_AddElement
<1>7. {a, b, c, d, e} \cup {f} = {a, b, c, d, e, f}
  OBVIOUS
<1>. QED  BY <1>6, <1>7

LEMMA OutcomesCount ==
    ASSUME NEW r, NEW d
    PROVE  Cardinality(Outcomes(r, d)) = 6
<1>. DEFINE h(a) == Outcome(r, "hypothesis", a, Confidence(a, d.figures))
            k(a) == Outcome(r, "handoff", a, Confidence(a, d.figures))
            v == Outcome(r, "verdict", Verdict(d.figures), Confidence(EconomicAssessor, d.figures))
<1>1. Outcomes(r, d) = {h(Geochemist), h(StructuralGeologist), h(EconomicAssessor),
                        k(Geochemist), k(StructuralGeologist), v}
  BY DEF Outcomes, AgentIds
<1>2. /\ \A a, b : h(a) # k(b) /\ h(a) # v /\ k(a) # v
      /\ \A a, b : a # b => h(a) # h(b) /\ k(a) # k(b)
  BY DEF Outcome
<1>. HIDE DEF h, k, v
<1>3. /\ h(Geochemist) # h(StructuralGeologist)
      /\ h(Geochemist) # h(EconomicAssessor)
      /\ h(StructuralGeologist) # h(EconomicAssessor)
      /\ k(Geochemist) # k(StructuralGeologist)
  BY <1>2, AgentNames
<1>4. Cardinality({h(Geochemist), h(StructuralGeologist), h(EconomicAssessor),
                   k(Geochemist), k(StructuralGeologist), v}) = 6
  BY <1>2, <1>3, Six
<1>. QED  BY <1>1, <1>4

\* An outcome is known by its kind and its agent, and its record by its key.
LEMMA OutcomeKeys ==
    ASSUME NEW r, NEW d, NEW o \in Outcomes(r, d), NEW p \in Outcomes(r, d),
           o.kind = p.kind, o.kind = "verdict" \/ o.ref = p.ref
    PROVE  o = p
BY DEF Outcomes, Outcome

LEMMA OutcomeKinds ==
    ASSUME NEW r, NEW d, NEW o \in Outcomes(r, d)
    PROVE  /\ o.run = r
           /\ o.kind \in {"hypothesis", "handoff", "verdict"}
           /\ o.kind = "hypothesis" => o.ref \in AgentIds
           /\ o.kind = "handoff" => o.ref \in {Geochemist, StructuralGeologist}
BY DEF Outcomes, Outcome

\* An evaluation that returned has every outcome in the store.
LEMMA EveryOutcome ==
    ASSUME MeshInv, NEW r \in Runs, stage[r] = "returned", NEW o \in Outcomes(r, input[r])
    PROVE  \E i \in DOMAIN wal : wal[i] = o
<1>1. PICK v \in DOMAIN wal : wal[v].run = r /\ wal[v].kind = "verdict"
  BY VerdictsStand DEF MeshInv, AcknowledgedVerdictStored
<1>2. \A e \in Evidence(input[r]) :
          \E j \in DOMAIN wal : wal[j].run = r /\ wal[j].kind = e[1] /\ wal[j].ref = e[2]
  BY <1>1, EvidenceStands DEF MeshInv, VerdictHasEvidence
<1>3. /\ DOMAIN wal = 1..Len(wal) /\ Len(wal) \in Nat
      /\ \A i \in DOMAIN wal : wal[i].run = r => wal[i] \in Outcomes(r, input[r])
  BY RecordRuns DEF MeshInv, TypeInv, OutcomesStored
<1>4. ASSUME o.kind # "verdict"
      PROVE  \E i \in DOMAIN wal : wal[i].run = r /\ wal[i].kind = o.kind /\ wal[i].ref = o.ref
  <2>1. <<o.kind, o.ref>> \in Evidence(input[r])
    BY <1>4, OutcomeKinds DEF Evidence
  <2>. QED  BY <1>2, <2>1
<1>5. \E i \in DOMAIN wal : wal[i].run = r /\ wal[i].kind = o.kind /\ (o.kind = "verdict" \/ wal[i].ref = o.ref)
  BY <1>1, <1>4
<1>. QED  BY <1>3, <1>5, OutcomeKeys

\* The scan of a task has every key its evaluation wrote ...
LEMMA ScanHasKeys ==
    ASSUME MeshInv, NEW r \in Runs, NEW i \in DOMAIN wal, wal[i].run = r
    PROVE  \E k \in ScanUnder(TaskOf[r]) : SameKey(k, wal[i])
<1>1. PICK j \in DOMAIN wal : Readable(j) /\ SameKey(wal[i], wal[j])
  BY KeyReads DEF MeshInv, TypeInv
<1>2. wal[i].kind \in {"hypothesis", "handoff", "verdict"}
  BY OutcomeKinds DEF MeshInv, OutcomesStored
<1>3. wal[j].kind = wal[i].kind /\ TaskOf[wal[j].run] = TaskOf[r]
  BY <1>1, <1>2 DEF SameKey
<1>4. wal[j] \in ScanUnder(TaskOf[r])
  BY <1>1, <1>2, <1>3 DEF ScanUnder, Under
<1>. QED  BY <1>1, <1>4, SameKeyEquivalence

\* ... and the six outcomes when no other evaluation wrote under its prefix.
LEMMA ScanHasSix ==
    ASSUME MeshInv, NEW r \in Runs, stage[r] = "returned",
           \A i \in DOMAIN wal : TaskOf[wal[i].run] \in Under(TaskOf[r]) => wal[i].run = r
    PROVE  Cardinality(ScanUnder(TaskOf[r])) = 6
<1>1. \A i \in DOMAIN wal : wal[i].run = r => wal[i] \in Outcomes(r, input[r])
  BY DEF MeshInv, OutcomesStored
<1>2. ScanUnder(TaskOf[r]) \subseteq Outcomes(r, input[r])
  BY <1>1 DEF ScanUnder
<1>3. ASSUME NEW o \in Outcomes(r, input[r])  PROVE o \in ScanUnder(TaskOf[r])
  <2>1. PICK i \in DOMAIN wal : wal[i] = o
    BY EveryOutcome
  <2>2. o.run = r /\ o.kind \in {"hypothesis", "handoff", "verdict"}
    BY OutcomeKinds
  <2>3. PICK k \in ScanUnder(TaskOf[r]) : SameKey(k, wal[i])
    BY <2>1, <2>2, ScanHasKeys
  <2>4. k.kind = o.kind /\ (o.kind = "verdict" \/ k.ref = o.ref)
    BY <2>1, <2>2, <2>3 DEF SameKey
  <2>. QED  BY <1>2, <2>3, <2>4, OutcomeKeys
<1>4. ScanUnder(TaskOf[r]) = Outcomes(r, input[r])
  BY <1>2, <1>3
<1>. QED  BY <1>4, OutcomesCount

\* A run passes to an answer by listing its keys, which no other step sets.
Ahead == {"logging", "stamped", "answered"}

LEMMA KeysStep ==
    ASSUME ApiTypeOK, HandlerInv, [ApiNext]_allVars
    PROVE  \/ \E r \in Runs : ListCheckpoints(r)
           \/ UNCHANGED keys /\ \A r \in Runs : phase'[r] \in Ahead => phase[r] \in Ahead
<1>0. phase = [b \in Callers |-> phase[b]] /\ Runs \subseteq Callers
  BY DEF ApiTypeOK, Callers
<1>1. CASE UNCHANGED <<keys, phase>>
  BY <1>1
<1>2. CASE UNCHANGED allVars
  BY <1>1, <1>2 DEF allVars, apiVars
<1>3. ASSUME NEW r \in Runs, Trace(r) \/ Evaluate(r) \/ FlushLog(r)  PROVE UNCHANGED <<keys, phase>>
  BY <1>3 DEF Trace, Evaluate, FlushLog, apiVars
<1>4. ASSUME ShutDown  PROVE UNCHANGED <<keys, phase>>
  BY <1>4 DEF ShutDown, apiVars
<1>5. ASSUME NEW c \in Callers, NEW from, NEW to, Turn(c, from, to),
             c \in Others \/ to \notin Ahead \/ from \in Ahead
      PROVE  \A r \in Runs : phase'[r] \in Ahead => phase[r] \in Ahead
  BY <1>0, <1>5, OthersAssumption DEF Turn
<1>6. ASSUME NEW r \in Runs, Admit(r) \/ Invert(r) \/ Validate(r) \/ Invoke(r) \/ Warn(r) \/ Raise(r)
      PROVE  UNCHANGED keys /\ \E from, to : Turn(r, from, to) /\ to \notin Ahead
  BY <1>6 DEF Admit, Invert, Validate, Invoke, Warn, Raise, Ahead
<1>7. ASSUME NEW o \in Others, Begin(o) \/ ReadLatest(o)
      PROVE  UNCHANGED keys /\ \E from, to : Turn(o, from, to)
  BY <1>7 DEF Begin, ReadLatest
<1>8. ASSUME NEW c \in Callers, StampSpan(c) \/ PutSpan(c)
      PROVE  UNCHANGED keys /\ \E from, to : Turn(c, from, to) /\ from \in Ahead
  BY <1>8 DEF StampSpan, PutSpan, Ahead
<1>9. Others \subseteq Callers
  BY DEF Callers
<1>. QED  BY <1>0, <1>1, <1>2, <1>3, <1>4, <1>5, <1>6, <1>7, <1>8, <1>9 DEF ApiNext

LEMMA NextKeys ==
    /\ ApiTypeOK /\ HandlerInv /\ MeshInv /\ KeysReported
    /\ HandlerInv' /\ MeshInv' /\ [ApiNext]_allVars
    => KeysReported'
<1>. SUFFICES ASSUME ApiTypeOK, HandlerInv, MeshInv, KeysReported, HandlerInv', MeshInv',
                     [ApiNext]_allVars, NEW r \in Runs, stage'[r] = "returned", phase'[r] \in Ahead
              PROVE  /\ \A i \in DOMAIN wal' : wal'[i].run = r => \E k \in keys'[r] : SameKey(k, wal'[i])
                     /\ (\A i \in DOMAIN wal' : TaskOf[wal'[i].run] \in Under(TaskOf[r]) => wal'[i].run = r)
                            => Cardinality(keys'[r]) = 6
  BY DEF KeysReported, Passed, Ahead
<1>0. phase = [b \in Callers |-> phase[b]] /\ Runs \subseteq Callers /\ DOMAIN keys = Runs
  BY DEF ApiTypeOK, Callers
<1>1. CASE ListCheckpoints(r)
  <2>1. stage[r] = "returned" /\ keys'[r] = ScanUnder(TaskOf[r]) /\ UNCHANGED wal
    BY <1>0, <1>1 DEF ListCheckpoints, vars
  <2>. QED  BY <2>1, ScanHasKeys, ScanHasSix
<1>2. CASE ~ListCheckpoints(r)
  <2>1. keys'[r] = keys[r] /\ phase[r] \in Ahead
    <3>1. CASE \E q \in Runs : ListCheckpoints(q)
      BY <1>0, <1>2, <3>1 DEF ListCheckpoints, Turn
    <3>2. CASE UNCHANGED keys /\ \A q \in Runs : phase'[q] \in Ahead => phase[q] \in Ahead
      BY <3>2
    <3>. QED  BY <3>1, <3>2, KeysStep
  <2>2. stage[r] = "returned" /\ phase[r] # "evaluating" /\ phase[r] # "tracing"
    BY <2>1 DEF Ahead, HandlerInv, HandlersInStep
  <2>3. /\ \A i \in DOMAIN wal : wal[i].run = r => \E k \in keys[r] : SameKey(k, wal[i])
        /\ (\A i \in DOMAIN wal : TaskOf[wal[i].run] \in Under(TaskOf[r]) => wal[i].run = r)
               => Cardinality(keys[r]) = 6
    BY <2>1, <2>2 DEF KeysReported, Passed, Ahead
  <2>4. CASE UNCHANGED wal
    BY <2>1, <2>3, <2>4
  <2>5. ASSUME NEW q \in Runs, Evaluate(q)
        PROVE  /\ \A i \in DOMAIN wal' : wal'[i].run = r => i \in DOMAIN wal /\ wal'[i] = wal[i]
               /\ \A i \in DOMAIN wal : i \in DOMAIN wal' /\ wal'[i] = wal[i]
    <3>1. q # r
      BY <2>2, <2>5 DEF Evaluate
    <3>2. \A i \in DOMAIN wal' : wal'[i].run = r => i \in DOMAIN wal /\ wal'[i] = wal[i]
      BY <2>5, <3>1, EvaluateAppends DEF MeshInv
    <3>3. wal \in Seq(Record)
      BY DEF MeshInv, TypeInv, TypeOK
    <3>4. UNCHANGED wal \/ \E o \in Outcomes(q, input[q]) : wal' = Append(wal, o)
      BY <2>5, EvaluateStores DEF MeshInv
    <3>. QED  BY <3>2, <3>3, <3>4
  <2>6. UNCHANGED wal \/ \E q \in Runs : Evaluate(q)
    BY ApiStepCases DEF Trace, Invoke, vars
  <2>. QED  BY <2>1, <2>3, <2>4, <2>5, <2>6
<1>. QED  BY <1>1, <1>2

LEMMA NextApiType == ApiTypeOK /\ MeshInv /\ MeshInv' /\ [ApiNext]_allVars => ApiTypeOK'
<1>. SUFFICES ASSUME ApiTypeOK, MeshInv, MeshInv', [ApiNext]_allVars  PROVE ApiTypeOK'
  OBVIOUS
<1>. DEFINE Phases == {"new", "admitted", "refused", "inverted", "tracing", "evaluating",
                       "warning", "raised", "logging", "stamped", "reading", "answered"}
<1>0. /\ phase \in [Callers -> Phases] /\ impedance \subseteq Tasks
      /\ DOMAIN keys = Runs /\ \A r \in Runs : keys[r] \subseteq Record
      /\ Runs \subseteq Callers /\ Others \subseteq Callers
  BY DEF ApiTypeOK, Callers
<1>1. ASSUME NEW c \in Callers, NEW from, NEW to \in Phases, Turn(c, from, to)
      PROVE  phase' \in [Callers -> Phases]
  BY <1>0, <1>1 DEF Turn
<1>2. phase' \in [Callers -> Phases]
  <2>1. CASE UNCHANGED phase
    BY <1>0, <2>1
  <2>2. ASSUME NEW r \in Runs, Admit(r) \/ Invert(r) \/ Validate(r) \/ Invoke(r) \/ Warn(r) \/ Raise(r)
                                  \/ ListCheckpoints(r)
        PROVE  \E from : \E to \in Phases : Turn(r, from, to)
    BY <2>2 DEF Admit, Invert, Validate, Invoke, Warn, Raise, ListCheckpoints
  <2>3. ASSUME NEW o \in Others, Begin(o) \/ ReadLatest(o)
        PROVE  \E from : \E to \in Phases : Turn(o, from, to)
    BY <2>3 DEF Begin, ReadLatest
  <2>4. ASSUME NEW c \in Callers, StampSpan(c) \/ PutSpan(c)
        PROVE  \E from : \E to \in Phases : Turn(c, from, to)
    BY <2>4 DEF StampSpan, PutSpan
  <2>5. ASSUME NEW r \in Runs, Trace(r) \/ Evaluate(r) \/ FlushLog(r)  PROVE UNCHANGED phase
    BY <2>5 DEF Trace, Evaluate, FlushLog, apiVars
  <2>6. ShutDown \/ UNCHANGED allVars => UNCHANGED phase
    BY DEF ShutDown, allVars, apiVars
  <2>. HIDE DEF Phases
  <2>. QED  BY <1>0, <1>1, <2>1, <2>2, <2>3, <2>4, <2>5, <2>6 DEF ApiNext
<1>3. impedance' \subseteq Tasks
  <2>1. ASSUME NEW r \in Runs, Invert(r)  PROVE impedance' \subseteq Tasks
    BY <1>0, <2>1, TaskAssumption DEF Invert
  <2>2. UNCHANGED impedance \/ \E r \in Runs : Invert(r)
    BY DEF ApiNext, Admit, Validate, Trace, Invoke, Evaluate, Warn, FlushLog, Raise, ListCheckpoints, Begin,
           ReadLatest, StampSpan, PutSpan, ShutDown, allVars, apiVars
  <2>. QED  BY <1>0, <2>1, <2>2
<1>4. DOMAIN keys' = Runs /\ \A r \in Runs : keys'[r] \subseteq Record
  <2>1. ASSUME NEW r \in Runs, ListCheckpoints(r)  PROVE DOMAIN keys' = Runs /\ \A q \in Runs : keys'[q] \subseteq Record
    <3>1. ScanUnder(TaskOf[r]) \subseteq Record
      BY RecordRuns DEF ScanUnder, ApiTypeOK
    <3>. QED  BY <1>0, <2>1, <3>1 DEF ListCheckpoints
  <2>2. UNCHANGED keys \/ \E r \in Runs : ListCheckpoints(r)
    BY DEF ApiNext, Admit, Invert, Validate, Trace, Invoke, Evaluate, Warn, FlushLog, Raise, Begin,
           ReadLatest, StampSpan, PutSpan, ShutDown, allVars, apiVars
  <2>. QED  BY <1>0, <2>1, <2>2
<1>. QED  BY <1>2, <1>3, <1>4 DEF ApiTypeOK, MeshInv, TypeInv

LEMMA InitApiType == ApiInit => ApiTypeOK /\ KeysReported
<1>. SUFFICES ASSUME ApiInit  PROVE ApiTypeOK /\ KeysReported
  OBVIOUS
<1>1. TypeOK
  BY InitTypeInv DEF ApiInit, TypeInv
<1>2. ApiTypeOK
  BY <1>1 DEF ApiInit, ApiTypeOK
<1>3. \A r \in Runs : stage[r] = "idle"
  BY DEF ApiInit, Init
<1>. QED  BY <1>2, <1>3 DEF KeysReported, Passed

-------------------------------------------------------------------------
(* The evaluations the supervisor blocks. *)

\* A handoff is blocked below the threshold.
LEMMA BlockBelow ==
    ASSUME TypeInv, NEW r \in Runs, Evaluate(r), stage[r] # "blocked", stage'[r] = "blocked"
    PROVE  \E a \in {Geochemist, StructuralGeologist} :
               ~EvaluateHandoff(ConfidenceOf(r, a), MinimumConfidence)
<1>0. stage \in [Runs -> Stages]
  BY DEF TypeInv, TypeOK
<1>1. CASE AgentAction(r)
  BY <1>0, <1>1 DEF AgentAction, Start, BeginAssessment, Unwind, AgentReturns, AgentRaises, ThreadEnds, Enter
<1>2. CASE StageAction(r)
  BY <1>0, <1>2 DEF StageAction, RefuseInsideLoop, GatherReturns, AssessmentReturns, PutFails, ThreadsJoined,
                    HandoffGeochemist, HandoffStructural, Block, Enter
<1>3. CASE PutAction(r)
  BY <1>0, <1>3 DEF PutAction, CheckpointGeochemist, CheckpointStructural, CheckpointEconomic, Checkpoint,
                    StoreVoxel, StoreShippingAudit, StoreVerdict, Deliver, HandoffGeochemist,
                    HandoffStructural, Enter
<1>. QED  BY <1>1, <1>2, <1>3, EvaluateCases DEF Evaluate

LEMMA IntervalsPositive ==
    ASSUME NEW body
    PROVE  Intervals(body) \in Nat /\ Intervals(body) > 0
<1>. DEFINE stored == QueryBoreholeStrata(Strata, body.start, body.end)
<1>1. stored \subseteq Strata
  BY DEF QueryBoreholeStrata
<1>2. Intervals(body) = IF stored = {} THEN 1 ELSE Cardinality(stored)
  BY DEF Intervals
<1>. HIDE DEF stored
<1>3. IsFiniteSet(stored)
  BY <1>1, StrataAssumption, FS_Subset
<1>4. Cardinality(stored) \in Nat /\ (Cardinality(stored) = 0 <=> stored = {})
  BY <1>3, FS_CardinalityType, FS_EmptySet
<1>. QED  BY <1>2, <1>4

LEMMA BlockedStep ==
    ASSUME MinimumConfidence <= 60, HandlerInv, TypeInv, NEW r \in Runs, Evaluate(r),
           stage[r] # "blocked", stage'[r] = "blocked"
    PROVE  DOMAIN request[r].assays = {}
<1>. DEFINE body == request[r]  assays == body.assays
<1>1. PICK risk : input[r] = Invocation(body, risk)
  BY DEF HandlerInv, Invoked, Evaluate
<1>2. input[r].figures.elements = Cardinality(Elements(assays)) /\ input[r].figures.intervals = Intervals(body)
  BY <1>1 DEF Invocation, FiguresAt
<1>3. MinimumConfidence \in Int
  BY ThresholdAssumption DEF Percent
<1>4. ConfidenceOf(r, StructuralGeologist) = 60
  BY <1>2, IntervalsPositive, AgentNames DEF ConfidenceOf, Confidence, StructuralConfidence
<1>5. ~(GeochemistConfidence(input[r].figures) >= MinimumConfidence)
  <2>1. ConfidenceOf(r, Geochemist) = GeochemistConfidence(input[r].figures)
    BY AgentNames DEF ConfidenceOf, Confidence
  <2>. QED  BY <1>3, <1>4, <2>1, BlockBelow DEF EvaluateHandoff
<1>6. IsFiniteSet(Elements(assays))
  <2>. DEFINE f == [n \in DOMAIN assays |-> Canonical(n)]
  <2>1. Elements(assays) = {f[n] : n \in DOMAIN assays}
    BY DEF Elements
  <2>2. f = [n \in DOMAIN assays |-> f[n]] /\ IsFiniteSet(DOMAIN assays)
    BY BodyTyped
  <2>. HIDE DEF f
  <2>. QED  BY <2>1, <2>2, ImageFinite
<1>7. Cardinality(Elements(assays)) = 0
  <2>1. Cardinality(Elements(assays)) \in Nat
    BY <1>6, FS_CardinalityType
  <2>2. ASSUME Cardinality(Elements(assays)) > 0  PROVE GeochemistConfidence(input[r].figures) >= 60
    BY <1>2, <2>1, <2>2 DEF GeochemistConfidence, Least
  <2>3. GeochemistConfidence(input[r].figures) \in Int
    BY <1>2, <2>1 DEF GeochemistConfidence, Least
  <2>. QED  BY <1>3, <1>5, <2>1, <2>2, <2>3
<1>8. Elements(assays) = {}
  BY <1>6, <1>7, FS_EmptySet
<1>. QED  BY <1>8 DEF Elements

LEMMA NextBlocked ==
    ASSUME MinimumConfidence <= 60
    PROVE  /\ ApiTypeOK /\ HandlerInv /\ MeshInv /\ BlockedWithoutAssays /\ [ApiNext]_allVars
           => BlockedWithoutAssays'
<1>. SUFFICES ASSUME ApiTypeOK, HandlerInv, MeshInv, BlockedWithoutAssays, [ApiNext]_allVars,
                     NEW r \in Runs, stage'[r] = "blocked"
              PROVE  DOMAIN request'[r].assays = {}
  BY DEF BlockedWithoutAssays
<1>1. UNCHANGED request
  BY ApiStepCases DEF Trace, Invoke, Evaluate, apiVars
<1>2. CASE stage[r] = "blocked"
  BY <1>1, <1>2 DEF BlockedWithoutAssays
<1>3. CASE stage[r] # "blocked"
  <2>1. PICK q \in Runs : Evaluate(q)
    BY <1>3, ApiStepCases DEF Trace, Invoke, vars
  <2>2. q = r
    BY <1>3, <2>1, EvaluateFrame DEF Evaluate, MeshInv
  <2>. QED  BY <1>1, <1>3, <2>1, <2>2, BlockedStep DEF MeshInv
<1>. QED  BY <1>2, <1>3

-------------------------------------------------------------------------
(* Risks that an outage hides. *)

\* What is viable at a risk is viable at a lower one.
LEMMA LowerRiskViable ==
    ASSUME NEW d \in DepositFigures, NEW e \in DepositFigures,
           RawViability(d) = RawViability(e), Clamp(e.supply_risk) <= Clamp(d.supply_risk), Viable(d)
    PROVE  Viable(e)
<1>1. RawViability(d) \in Nat
  BY DEF RawViability, Least, Clamp, DepositFigures
<1>2. 400 - Clamp(d.supply_risk) \in Int /\ 400 - Clamp(e.supply_risk) \in Int
      /\ 400 - Clamp(d.supply_risk) <= 400 - Clamp(e.supply_risk)
  BY DEF Clamp, Least, DepositFigures
<1>3. \A n \in Nat, x, y \in Int : x <= y => n * x <= n * y /\ n * x \in Int /\ n * y \in Int
  OBVIOUS
<1>4. /\ RawViability(d) * (400 - Clamp(d.supply_risk)) <= RawViability(d) * (400 - Clamp(e.supply_risk))
      /\ RawViability(d) * (400 - Clamp(d.supply_risk)) \in Int
      /\ RawViability(d) * (400 - Clamp(e.supply_risk)) \in Int
  BY <1>1, <1>2, <1>3
<1>5. ViabilityScore(d) <= ViabilityScore(e) /\ ViabilityScore(d) \in Int /\ ViabilityScore(e) \in Int
  BY <1>4 DEF ViabilityScore
<1>6. HalfScore \in Int
  BY DEF HalfScore
<1>. QED  BY <1>5, <1>6 DEF Viable

LEMMA OutagesHideRisk == HandlerInv => OutageOptimistic
<1>. SUFFICES ASSUME HandlerInv, NEW r \in Runs, Passed(r),
                     Viable(FiguresAt(request[r], HighestRisk(RisksOf(Elements(request[r].assays)))))
              PROVE  Verdict(input[r].figures) = "commercially_viable"
  BY DEF OutageOptimistic
<1>. DEFINE body == request[r]
            every == RisksOf(Elements(body.assays))
            traced == {s.risk : s \in supply[r]}
            d == FiguresAt(body, HighestRisk(every))
            e == FiguresAt(body, HighestRisk(traced))
<1>1. Accepted(body) /\ input[r] = Invocation(body, HighestRisk(traced))
  BY DEF Passed, HandlerInv, Invoked
<1>2. /\ HighestRisk(every) \in {0} \cup every
      /\ \A l \in every : l <= HighestRisk(every)
  BY <1>1, HighestRiskOf
<1>3. HighestRisk(traced) \in {0} \cup every
  BY <1>1, HighestRiskOf, TracedRisks
<1>4. /\ d \in DepositFigures /\ e \in DepositFigures
      /\ HighestRisk(every) \in Int /\ HighestRisk(traced) \in Int
  BY <1>1, <1>2, <1>3, InvocationTyped
<1>5. Clamp(HighestRisk(traced)) <= Clamp(HighestRisk(every))
  BY <1>2, <1>3, <1>4 DEF Clamp, Least
<1>6. /\ d.supply_risk = HighestRisk(every) /\ e.supply_risk = HighestRisk(traced)
      /\ RawViability(d) = RawViability(e)
      /\ e.corridor = "not_requested"
  BY DEF FiguresAt, RawViability
<1>7. Viable(e)
  BY <1>4, <1>5, <1>6, LowerRiskViable
<1>8. input[r].figures = e
  BY <1>1 DEF Invocation
<1>. QED  BY <1>6, <1>7, <1>8 DEF Verdict

-------------------------------------------------------------------------
(* The theorems about the API. *)

LEMMA ApiInvariant == ApiSpec => []ApiInv
<1>1. ApiInit => ApiInv
  BY InitApiType, InitHandlers, InitSpans DEF ApiInv
<1>2. ApiInv /\ [ApiNext]_allVars => ApiInv'
  <2>. SUFFICES ASSUME ApiInv, [ApiNext]_allVars  PROVE ApiInv'
    OBVIOUS
  <2>1. ApiTypeOK /\ HandlerInv /\ MeshInv /\ KeysReported /\ SpansInv
    BY DEF ApiInv
  <2>2. HandlerInv' /\ MeshInv'
    BY <2>1, NextHandlers
  <2>3. ApiTypeOK' /\ KeysReported' /\ SpansInv'
    BY <2>1, <2>2, NextApiType, NextKeys, NextSpans
  <2>. QED  BY <2>2, <2>3 DEF ApiInv
<1>. QED  BY <1>1, <1>2, PTL DEF ApiSpec

\* However calls overlap, a simulation is answered with its own span or with
\* one stamped later.
THEOREM LatestTracesFresh == ApiSpec => []LatestTraceFresh
<1>1. ApiInv => LatestTraceFresh
  BY DEF ApiInv, SpansInv
<1>. QED  BY <1>1, ApiInvariant, PTL

\* Whichever elements a failing graph gives no answer for, a deposit that is
\* viable at its true concentration risk gets that verdict.
THEOREM OutagesOptimistic == ApiSpec => []OutageOptimistic
<1>1. ApiInv => OutageOptimistic
  BY OutagesHideRisk DEF ApiInv
<1>. QED  BY <1>1, ApiInvariant, PTL

\* For any evaluations over one store, under any task ids, one the prefix of
\* another among them, an answer lists every key its evaluation wrote, and the
\* six of it alone when nobody else wrote under its prefix; and up to the mesh's default threshold, which the API keeps, the
\* supervisor blocks only an evaluation without assays.
THEOREM ResponsesComplete ==
    ASSUME MinimumConfidence <= 60
    PROVE  ApiSpec => []ResponseInv
<1>1. ApiInit => BlockedWithoutAssays
  BY DEF ApiInit, Init, BlockedWithoutAssays
<1>2. ApiInv /\ BlockedWithoutAssays /\ [ApiNext]_allVars => BlockedWithoutAssays'
  BY NextBlocked DEF ApiInv
<1>3. ApiInv /\ BlockedWithoutAssays => ResponseInv
  BY DEF ApiInv, ResponseInv
<1>. QED  BY <1>1, <1>2, <1>3, ApiInvariant, PTL DEF ApiSpec

\* The API keeps what the mesh promises alone, although its evaluations share
\* task ids: a verdict's evidence and an acknowledged verdict read under their
\* keys or as the later records of another evaluation of the task, the gate
\* holds, and the awaited agents are counted.
THEOREM ApiKeepsMesh ==
    ApiSpec => [](VerdictHasEvidence /\ NoAmplification /\ AcknowledgedVerdictStored /\ ActiveAgentsBalanced)
<1>1. ApiInv => VerdictHasEvidence /\ NoAmplification /\ AcknowledgedVerdictStored /\ ActiveAgentsBalanced
  BY EvidenceStands, VerdictsStand, HandoffsBeforeHypotheses DEF ApiInv, MeshInv, TypeInv
<1>. QED  BY <1>1, ApiInvariant, PTL
=========================================================================
