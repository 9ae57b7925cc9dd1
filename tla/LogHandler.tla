-------------------------- MODULE LogHandler --------------------------
(***************************************************************************)
(* LokiJSONLogHandler.  The standard library calls emit under a lock of    *)
(* the handler, which the thread whose record makes the buffer full, or    *)
(* old, keeps while it posts to Loki: the others' records wait for it.  A  *)
(* record is the number it was emitted as.  Nothing flushes a buffer that  *)
(* no record reaches any more before the handler is closed.                *)
(***************************************************************************)
EXTENDS Integers, FiniteSets

CONSTANTS
    Loggers,        \* threads that log
    Nobody,         \* no thread
    MaxBufferSize   \* max_buffer_size

ASSUME BufferAssumption == MaxBufferSize \in Nat \ {0}
ASSUME NobodyAssumption == Nobody \notin Loggers

VARIABLES
    emitted,   \* history: records emitted so far
    holder,    \* the thread in flush, which holds the handler's lock
    buffer,    \* _buffer
    records,   \* the records flush took from the buffer
    loki,      \* records Loki accepted
    stdout,    \* records printed
    doubled,   \* history: records printed although Loki had accepted them
    lost,      \* history: records that went nowhere
    errors,    \* history: exceptions the handler swallowed in handleError, or let out of close
    closed     \* the interpreter has shut logging down

logVars == <<emitted, holder, buffer, records, loki, stdout, doubled, lost, errors, closed>>

LogInit ==
    /\ emitted = 0
    /\ holder = Nobody
    /\ buffer = {} /\ records = {} /\ loki = {} /\ stdout = {} /\ doubled = {} /\ lost = {}
    /\ errors = 0
    /\ closed = FALSE

\* Mutant: the buffer may hold one record too many.
BufferLate(t) ==
    /\ buffer' = buffer \cup {emitted'}
    /\ \E stale \in BOOLEAN :
           holder' = IF Cardinality(buffer') > MaxBufferSize \/ stale THEN t ELSE Nobody
    /\ UNCHANGED <<lost, errors>>

\* The record is buffered; a buffer that is full, or was not flushed for
\* flush_interval, is flushed.
Buffer(t) ==
    /\ buffer' = buffer \cup {emitted'}
    /\ \E stale \in BOOLEAN :
           holder' = IF Cardinality(buffer') >= MaxBufferSize \/ stale THEN t ELSE Nobody
    /\ UNCHANGED <<lost, errors>>

\* A record whose message cannot be formatted goes to handleError.
Drop ==
    /\ lost' = lost \cup {emitted'}
    /\ errors' = errors + 1
    /\ UNCHANGED <<buffer, holder>>

Emit(t) ==
    /\ holder = Nobody /\ ~closed
    /\ emitted' = emitted + 1
    /\ Buffer(t) \/ Drop
    /\ UNCHANGED <<records, loki, stdout, doubled, closed>>

\* flush takes the buffer ...
Take(t) ==
    /\ holder = t /\ buffer # {}
    /\ records' = buffer
    /\ buffer' = {}
    /\ UNCHANGED <<emitted, holder, loki, stdout, doubled, lost, errors, closed>>

\* ... and makes the payload of it, outside its try: a record json cannot
\* encode takes the rest of the batch with it ...
BuildRaises(t) ==
    /\ holder = t /\ records # {}
    /\ lost' = lost \cup records
    /\ errors' = errors + 1
    /\ records' = {}
    /\ holder' = Nobody
    /\ UNCHANGED <<emitted, buffer, loki, stdout, doubled, closed>>

\* ... posts it ...
PostReturns(t) ==
    /\ holder = t /\ records # {}
    /\ loki' = loki \cup records
    /\ records' = {}
    /\ holder' = Nobody
    /\ UNCHANGED <<emitted, buffer, stdout, doubled, lost, errors, closed>>

\* Mutant: a post that raises is left at that.
PostRaisesQuietly(t) ==
    /\ holder = t /\ records # {}
    /\ records' = {}
    /\ holder' = Nobody
    /\ UNCHANGED <<emitted, buffer, loki, stdout, doubled, lost, errors, closed>>

\* ... or prints it if the post raises, as it does when Loki accepts the
\* records and answers after the timeout.  A print that raises loses the
\* records not printed yet, unless Loki has them.
PostRaises(t) ==
    /\ holder = t /\ records # {}
    /\ \E accepted \in {{}, records}, last \in 0..emitted :
           LET printed == {n \in records : n <= last}
           IN  /\ loki' = loki \cup accepted
               /\ stdout' = stdout \cup printed
               /\ doubled' = doubled \cup (accepted \cap printed)
               /\ lost' = lost \cup (records \ (accepted \cup printed))
               /\ errors' = IF printed = records THEN errors ELSE errors + 1
    /\ records' = {}
    /\ holder' = Nobody
    /\ UNCHANGED <<emitted, buffer, closed>>

Flush(t) == Take(t) \/ BuildRaises(t) \/ PostReturns(t) \/ PostRaises(t)

\* close flushes what is left, in thread t.
Close(t) ==
    /\ holder = Nobody /\ ~closed
    /\ closed' = TRUE
    /\ holder' = IF buffer = {} THEN Nobody ELSE t
    /\ UNCHANGED <<emitted, buffer, records, loki, stdout, doubled, lost, errors>>

LogNext == \E t \in Loggers : Emit(t) \/ Flush(t) \/ Close(t)

LogSpec == LogInit /\ [][LogNext]_logVars

-----------------------------------------------------------------------
LogTypeOK ==
    /\ emitted \in Nat
    /\ holder \in Loggers \cup {Nobody}
    /\ buffer \subseteq 1..emitted
    /\ records \subseteq 1..emitted
    /\ lost \subseteq 1..emitted
    /\ errors \in Nat
    /\ closed \in BOOLEAN

\* A failing Loki loses no record and doubles none that was not doubled by a
\* late answer: each is in the buffer, taken, posted, printed, or lost to an
\* exception of the handler's own, and one exception loses at most a buffer of
\* them.
RecordsKept ==
    /\ buffer \cup records \cup loki \cup stdout \cup lost = 1..emitted
    /\ buffer \cap (records \cup loki \cup stdout \cup lost) = {}
    /\ records \cap (loki \cup stdout \cup lost) = {}
    /\ lost \cap (loki \cup stdout) = {}
    /\ loki \cap stdout = doubled
    /\ Cardinality(lost) <= MaxBufferSize * errors

\* A kill loses less than a full buffer, unless a post was under way; and
\* when logging is shut down nothing stays behind.
BufferBounded ==
    /\ Cardinality(buffer) <= MaxBufferSize /\ Cardinality(records) <= MaxBufferSize
    /\ holder = Nobody => Cardinality(buffer) < MaxBufferSize /\ records = {}
    /\ holder # Nobody => (buffer = {}) # (records = {})
    /\ closed /\ holder = Nobody => buffer = {}

LogInv == LogTypeOK /\ RecordsKept /\ BufferBounded
=======================================================================
