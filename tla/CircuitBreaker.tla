------------------------ MODULE CircuitBreaker ------------------------
(***************************************************************************)
(* APICircuitBreaker.execute, called by several threads.  Nothing is       *)
(* locked, so each read and each write of failures, last_failure_time and  *)
(* state is a step of its own.  A count only ever meets the threshold and  *)
(* a time only the recovery timeout, so both are kept up to where that     *)
(* comparison is decided: age is time.time() - last_failure_time, which is *)
(* past every timeout before the first failure.                            *)
(***************************************************************************)
EXTENDS Integers

CONSTANTS
    Threads,          \* callers of execute
    Threshold,        \* failure_threshold
    RecoveryTimeout   \* recovery_timeout, in clock ticks

ASSUME ThresholdAssumption == Threshold \in Nat \ {0}
ASSUME TimeoutAssumption == RecoveryTimeout \in Nat

VARIABLES
    state, failures, age,
    pc,          \* where each caller is in execute
    seen,        \* the failures each caller read in failures += 1
    healthy,     \* whether calls of the API succeed
    failed,      \* history: calls that failed, counted up to Threshold
    overlapped   \* history: two callers have been in execute at once

breakerVars == <<state, failures, age>>
vars == <<breakerVars, pc, seen, healthy, failed, overlapped>>

Steps == {"idle", "opened", "probing", "calling", "closing",
          "counting", "stamping", "judging", "tripping"}

Upto(bound, n) == IF n < bound THEN n ELSE bound

Init ==
    /\ state = "CLOSED"
    /\ failures = 0
    /\ age = RecoveryTimeout + 1
    /\ pc = [t \in Threads |-> "idle"]
    /\ seen = [t \in Threads |-> 0]
    /\ healthy \in BOOLEAN
    /\ failed = 0
    /\ overlapped = FALSE

Go(t, from, to) == pc[t] = from /\ pc' = [pc EXCEPT ![t] = to]

Enter(t) ==
    /\ Go(t, "idle", IF state = "OPEN" THEN "opened" ELSE "calling")
    /\ overlapped' = (overlapped \/ \E u \in Threads : pc[u] # "idle")
    /\ UNCHANGED <<breakerVars, seen, healthy, failed>>

\* Mutant: the recovery timeout is not compared.
RecoverAlways(t) ==
    /\ Go(t, "opened", "probing")
    /\ UNCHANGED <<breakerVars, seen, healthy, failed, overlapped>>

\* An open breaker is probed after the timeout; before, the backup answers.
Recover(t) ==
    /\ Go(t, "opened", IF age > RecoveryTimeout THEN "probing" ELSE "idle")
    /\ UNCHANGED <<breakerVars, seen, healthy, failed, overlapped>>

Probe(t) ==
    /\ Go(t, "probing", "calling")
    /\ state' = "HALF_OPEN"
    /\ UNCHANGED <<failures, age, seen, healthy, failed, overlapped>>

\* The call returns, and _reset writes failures ...
CallSucceeds(t) ==
    /\ healthy
    /\ Go(t, "calling", "closing")
    /\ failures' = 0
    /\ UNCHANGED <<state, age, seen, healthy, failed, overlapped>>

\* Mutant: a success clears the count, but leaves the breaker half open.
CloseCountOnly(t) ==
    /\ Go(t, "closing", "idle")
    /\ UNCHANGED <<breakerVars, seen, healthy, failed, overlapped>>

\* ... and then state.
Close(t) ==
    /\ Go(t, "closing", "idle")
    /\ state' = "CLOSED"
    /\ UNCHANGED <<failures, age, seen, healthy, failed, overlapped>>

\* The call raises, and _record_failure reads failures ...
CallFails(t) ==
    /\ ~healthy
    /\ Go(t, "calling", "counting")
    /\ seen' = [seen EXCEPT ![t] = failures]
    /\ failed' = Upto(Threshold, failed + 1)
    /\ UNCHANGED <<breakerVars, healthy, overlapped>>

\* Mutant: a failure is counted twice.
CountTwice(t) ==
    /\ Go(t, "counting", "stamping")
    /\ failures' = Upto(Threshold, seen[t] + 2)
    /\ UNCHANGED <<state, age, seen, healthy, failed, overlapped>>

\* ... writes it ...
Count(t) ==
    /\ Go(t, "counting", "stamping")
    /\ failures' = Upto(Threshold, seen[t] + 1)
    /\ UNCHANGED <<state, age, seen, healthy, failed, overlapped>>

\* ... writes last_failure_time ...
StampFailure(t) ==
    /\ Go(t, "stamping", "judging")
    /\ age' = 0
    /\ UNCHANGED <<state, failures, seen, healthy, failed, overlapped>>

\* Mutant: the count has to exceed the threshold, which it is kept up to.
JudgeBeyond(t) ==
    /\ Go(t, "judging", "idle")
    /\ UNCHANGED <<breakerVars, seen, healthy, failed, overlapped>>

\* ... reads failures again ...
Judge(t) ==
    /\ Go(t, "judging", IF failures >= Threshold THEN "tripping" ELSE "idle")
    /\ UNCHANGED <<breakerVars, seen, healthy, failed, overlapped>>

\* ... and writes state.
Trip(t) ==
    /\ Go(t, "tripping", "idle")
    /\ state' = "OPEN"
    /\ UNCHANGED <<failures, age, seen, healthy, failed, overlapped>>

Execute(t) ==
    \/ Enter(t) \/ Recover(t) \/ Probe(t)
    \/ CallSucceeds(t) \/ Close(t)
    \/ CallFails(t) \/ Count(t) \/ StampFailure(t) \/ Judge(t) \/ Trip(t)

Tick ==
    /\ age' = Upto(RecoveryTimeout + 1, age + 1)
    /\ UNCHANGED <<state, failures, pc, seen, healthy, failed, overlapped>>

\* The API goes down or comes back.
HealthChanges ==
    /\ healthy' = ~healthy
    /\ UNCHANGED <<breakerVars, pc, seen, failed, overlapped>>

Next == (\E t \in Threads : Execute(t)) \/ Tick \/ HealthChanges

\* Threads are scheduled, somebody keeps calling, and time passes.
Fairness == (\A t \in Threads : WF_vars(Execute(t))) /\ WF_vars(Tick)

Spec == Init /\ [][Next]_vars
FairSpec == Spec /\ Fairness

-----------------------------------------------------------------------
TypeOK ==
    /\ state \in {"CLOSED", "OPEN", "HALF_OPEN"}
    /\ failures \in 0..Threshold
    /\ age \in 0..(RecoveryTimeout + 1)
    /\ pc \in [Threads -> Steps]
    /\ seen \in [Threads -> 0..Threshold]
    /\ healthy \in BOOLEAN
    /\ failed \in 0..Threshold
    /\ overlapped \in BOOLEAN

\* Lost updates and late resets never make up failures: however execute's
\* callers interleave, the breaker leaves CLOSED, or is about to, only after
\* Threshold calls have failed.
OpenEarned ==
    /\ failures <= failed
    /\ \A t \in Threads : pc[t] = "counting" => Upto(Threshold, seen[t] + 1) <= failed
    /\ state # "CLOSED" => failed = Threshold
    /\ (\E t \in Threads : pc[t] \in {"opened", "probing", "tripping"}) => failed = Threshold

\* What OpenEarned leaves out: while callers take turns, each finds the state
\* and the count as the caller before it left them.
TurnsTaken ==
    ~overlapped =>
        /\ \A t, u \in Threads : pc[t] # "idle" /\ pc[u] # "idle" => t = u
        /\ \A t \in Threads :
            /\ pc[t] \in {"opened", "probing"} => state = "OPEN"
            /\ pc[t] = "probing" => age > RecoveryTimeout
            /\ pc[t] \in {"calling", "counting", "closing"} => state # "OPEN"
            /\ pc[t] = "counting" => seen[t] = failures
            /\ pc[t] = "closing" => failures = 0
            /\ pc[t] = "tripping" => failures = Threshold
        /\ state # "CLOSED" => failures = Threshold \/ \E t \in Threads : pc[t] = "closing"

BreakerInv == TypeOK /\ OpenEarned /\ TurnsTaken

\* A call that failed has taken effect once it is counted, one that succeeded
\* once the count is cleared; what _record_failure and _reset still have to
\* write is read as written.
Recording == \E t \in Threads : pc[t] \in {"stamping", "judging", "tripping"}

PromisedState ==
    IF \E t \in Threads : pc[t] = "closing" THEN "CLOSED"
    ELSE IF Recording /\ failures >= Threshold THEN "OPEN"
    ELSE state

PromisedAge == IF \E t \in Threads : pc[t] = "stamping" THEN 0 ELSE age

Contract == INSTANCE BreakerContract
    WITH state <- PromisedState, streak <- failures, age <- PromisedAge

\* As long as no two calls overlap, execute implements the breaker its
\* comment describes: CLOSED healthy, OPEN broken, HALF_OPEN testing recovery.
ImplementsContract == Contract!Spec

\* The counter's lost updates delay the opening and do not prevent it: under
\* an API that stays down the breaker is OPEN again and again.
OutageOpens == <>[]~healthy => []<>(state = "OPEN")

\* No interleaving wedges the breaker: an API that stays up gets its calls
\* back, and a breaker that late writers left OPEN or HALF_OPEN closes for good.
RecoveryCloses == <>[]healthy => <>[](state = "CLOSED")
=======================================================================
