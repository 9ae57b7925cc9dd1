------------------------ MODULE BreakerContract ------------------------
(***************************************************************************)
(* What a circuit breaker promises to callers that take turns: a call is   *)
(* one step, Threshold failures in a row open it, an open breaker is       *)
(* probed only after the recovery timeout, one success closes it and one   *)
(* failure of a probe opens it again.  Calls that overlap void the         *)
(* promise.                                                                *)
(***************************************************************************)
EXTENDS Integers

CONSTANTS
    Threshold,        \* failures in a row that open the breaker
    RecoveryTimeout   \* clock ticks an open breaker rests

VARIABLES
    state,       \* "CLOSED", "OPEN" or "HALF_OPEN"
    streak,      \* failures in a row, counted up to Threshold
    age,         \* ticks since the last failure, counted up to RecoveryTimeout + 1
    overlapped   \* two calls have been in flight at once

vars == <<state, streak, age, overlapped>>

Init == state = "CLOSED" /\ streak = 0 /\ overlapped = FALSE

Upto(bound, n) == IF n < bound THEN n ELSE bound

Succeed ==
    /\ state # "OPEN"
    /\ state' = "CLOSED"
    /\ streak' = 0
    /\ UNCHANGED <<age, overlapped>>

Fail ==
    /\ state # "OPEN"
    /\ streak' = Upto(Threshold, streak + 1)
    /\ state' = IF state = "HALF_OPEN" \/ streak' = Threshold THEN "OPEN" ELSE "CLOSED"
    /\ age' = 0
    /\ UNCHANGED overlapped

Probe ==
    /\ state = "OPEN"
    /\ age > RecoveryTimeout
    /\ state' = "HALF_OPEN"
    /\ UNCHANGED <<streak, age, overlapped>>

Tick ==
    /\ age' = Upto(RecoveryTimeout + 1, age + 1)
    /\ UNCHANGED <<state, streak, overlapped>>

Next == Succeed \/ Fail \/ Probe \/ Tick \/ overlapped'

Spec == Init /\ [][Next]_vars
========================================================================
