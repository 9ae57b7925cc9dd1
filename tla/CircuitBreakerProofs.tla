--------------------- MODULE CircuitBreakerProofs ---------------------
(***************************************************************************)
(* Theorems about CircuitBreaker, for any callers, threshold and timeout:  *)
(* the breaker opens only after enough failures however its callers        *)
(* interleave, and implements BreakerContract while they take turns.       *)
(***************************************************************************)
EXTENDS CircuitBreaker, TLAPS

LEMMA UptoBounds ==
  ASSUME NEW bound \in Nat, NEW m \in 0..bound, NEW n \in 0..bound, m <= n
  PROVE  /\ Upto(bound, m + 1) \in 0..bound
         /\ Upto(bound, m + 1) <= Upto(bound, n + 1)
         /\ n <= Upto(bound, n + 1)
  BY DEF Upto

\* What a caller's move leaves of the program counters.
LEMMA GoMoves ==
  ASSUME TypeOK, NEW t \in Threads, NEW from, NEW to \in Steps, Go(t, from, to)
  PROVE  /\ pc' \in [Threads -> Steps]
         /\ pc[t] = from /\ pc'[t] = to
         /\ \A u \in Threads : u # t => pc'[u] = pc[u]
  BY DEF Go, TypeOK

-----------------------------------------------------------------------
(* Types and the failures behind an open breaker. *)

Earned == TypeOK /\ OpenEarned

LEMMA InitInv == Init => BreakerInv
  <1> SUFFICES ASSUME Init PROVE BreakerInv
    OBVIOUS
  <1>1. TypeOK
    <2>1. /\ 0 \in 0..Threshold /\ RecoveryTimeout + 1 \in 0..(RecoveryTimeout + 1)
          /\ "idle" \in Steps
      BY ThresholdAssumption, TimeoutAssumption DEF Steps
    <2>2. healthy \in BOOLEAN /\ overlapped \in BOOLEAN
      BY Zenon DEF Init
    <2>3. /\ pc \in [Threads -> Steps] /\ seen \in [Threads -> 0..Threshold]
          /\ state \in {"CLOSED", "OPEN", "HALF_OPEN"}
      BY <2>1 DEF Init
    <2>4. failures \in 0..Threshold /\ failed \in 0..Threshold /\ age \in 0..(RecoveryTimeout + 1)
      BY <2>1 DEF Init
    <2>5. QED BY <2>2, <2>3, <2>4, Zenon DEF TypeOK
  <1>2. OpenEarned
    BY DEF Init, OpenEarned
  <1>3. TurnsTaken
    BY DEF Init, TurnsTaken
  <1>4. QED BY <1>1, <1>2, <1>3 DEF BreakerInv

LEMMA EnterEarned == ASSUME Earned, NEW t \in Threads, Enter(t) PROVE Earned'
  <1>1. PICK to \in {"opened", "calling"} : Go(t, "idle", to) /\ (to = "opened" => state = "OPEN")
    BY DEF Enter
  <1>2. to \in Steps
    BY DEF Steps
  <1>3. TypeOK'
    BY <1>1, <1>2, GoMoves DEF Earned, TypeOK, Enter, breakerVars
  <1>4. OpenEarned'
    BY <1>1, <1>2, GoMoves DEF Earned, OpenEarned, Enter, breakerVars
  <1>5. QED BY <1>3, <1>4 DEF Earned

LEMMA RecoverEarned == ASSUME Earned, NEW t \in Threads, Recover(t) PROVE Earned'
  <1>1. PICK to \in {"probing", "idle"} : Go(t, "opened", to)
    BY DEF Recover
  <1>2. to \in Steps
    BY DEF Steps
  <1>3. TypeOK'
    BY <1>1, <1>2, GoMoves DEF Earned, TypeOK, Recover, breakerVars
  <1>4. OpenEarned'
    BY <1>1, <1>2, GoMoves DEF Earned, OpenEarned, Recover, breakerVars
  <1>5. QED BY <1>3, <1>4 DEF Earned

LEMMA ProbeEarned == ASSUME Earned, NEW t \in Threads, Probe(t) PROVE Earned'
  <1>1. Go(t, "probing", "calling") /\ "calling" \in Steps
    BY DEF Probe, Steps
  <1>2. TypeOK'
    BY <1>1, GoMoves DEF Earned, TypeOK, Probe
  <1>3. OpenEarned'
    BY <1>1, GoMoves DEF Earned, OpenEarned, Probe
  <1>4. QED BY <1>2, <1>3 DEF Earned

LEMMA CallSucceedsEarned == ASSUME Earned, NEW t \in Threads, CallSucceeds(t) PROVE Earned'
  <1>1. Go(t, "calling", "closing") /\ "closing" \in Steps
    BY DEF CallSucceeds, Steps
  <1>2. TypeOK'
    BY <1>1, GoMoves, ThresholdAssumption DEF Earned, TypeOK, CallSucceeds
  <1>3. OpenEarned'
    BY <1>1, GoMoves DEF Earned, OpenEarned, CallSucceeds, TypeOK
  <1>4. QED BY <1>2, <1>3 DEF Earned

LEMMA CloseEarned == ASSUME Earned, NEW t \in Threads, Close(t) PROVE Earned'
  <1>1. Go(t, "closing", "idle") /\ "idle" \in Steps
    BY DEF Close, Steps
  <1>2. TypeOK'
    BY <1>1, GoMoves DEF Earned, TypeOK, Close
  <1>3. OpenEarned'
    BY <1>1, GoMoves DEF Earned, OpenEarned, Close
  <1>4. QED BY <1>2, <1>3 DEF Earned

\* A failure's count, taken from what was read, stays behind the calls that failed.
LEMMA CallFailsEarned == ASSUME Earned, NEW t \in Threads, CallFails(t) PROVE Earned'
  <1>1. Go(t, "calling", "counting") /\ "counting" \in Steps
    BY DEF CallFails, Steps
  <1>2. /\ Threshold \in Nat /\ failures \in 0..Threshold /\ failed \in 0..Threshold
        /\ failures <= failed
    BY ThresholdAssumption DEF Earned, TypeOK, OpenEarned
  <1>3. /\ failed' = Upto(Threshold, failed + 1) /\ failed' \in 0..Threshold
        /\ failed <= failed' /\ Upto(Threshold, failures + 1) <= failed'
        /\ (failed = Threshold => failed' = Threshold)
    BY <1>2, UptoBounds DEF CallFails, Upto
  <1>4. seen' \in [Threads -> 0..Threshold] /\ seen'[t] = failures
        /\ \A u \in Threads : u # t => seen'[u] = seen[u]
    BY <1>2 DEF CallFails, Earned, TypeOK
  <1>5. TypeOK'
    BY <1>1, <1>3, <1>4, GoMoves DEF Earned, TypeOK, CallFails, breakerVars
  <1>6. failures' <= failed'
    BY <1>2, <1>3 DEF CallFails, breakerVars
  <1>7. ASSUME NEW u \in Threads, pc'[u] = "counting"
        PROVE  Upto(Threshold, seen'[u] + 1) <= failed'
    <2>1. CASE u = t
      BY <2>1, <1>3, <1>4
    <2>2. CASE u # t
      <3>1. pc[u] = "counting" /\ seen'[u] = seen[u] /\ seen[u] \in 0..Threshold
        BY <2>2, <1>1, <1>4, <1>7, GoMoves DEF Earned, TypeOK
      <3>2. Upto(Threshold, seen[u] + 1) <= failed
        BY <3>1 DEF Earned, OpenEarned
      <3>3. QED BY <3>1, <3>2, <1>2, <1>3 DEF Upto
    <2>3. QED BY <2>1, <2>2
  <1>8. state' # "CLOSED" => failed' = Threshold
    BY <1>3 DEF Earned, OpenEarned, CallFails, breakerVars
  <1>9. (\E u \in Threads : pc'[u] \in {"opened", "probing", "tripping"}) => failed' = Threshold
    BY <1>1, <1>3, GoMoves DEF Earned, OpenEarned
  <1>10. OpenEarned'
    BY <1>6, <1>7, <1>8, <1>9 DEF OpenEarned
  <1>11. QED BY <1>5, <1>10 DEF Earned

LEMMA CountEarned == ASSUME Earned, NEW t \in Threads, Count(t) PROVE Earned'
  <1>1. Go(t, "counting", "stamping") /\ "stamping" \in Steps /\ pc[t] = "counting"
    BY DEF Count, Go, Steps
  <1>2. /\ failures' = Upto(Threshold, seen[t] + 1) /\ failures' <= failed
        /\ failures' \in 0..Threshold
    BY <1>1, UptoBounds, ThresholdAssumption DEF Count, Earned, OpenEarned, TypeOK
  <1>3. TypeOK'
    BY <1>1, <1>2, GoMoves DEF Earned, TypeOK, Count
  <1>4. OpenEarned'
    BY <1>1, <1>2, GoMoves DEF Earned, OpenEarned, Count
  <1>5. QED BY <1>3, <1>4 DEF Earned

LEMMA StampFailureEarned == ASSUME Earned, NEW t \in Threads, StampFailure(t) PROVE Earned'
  <1>1. Go(t, "stamping", "judging") /\ "judging" \in Steps
    BY DEF StampFailure, Steps
  <1>2. TypeOK'
    BY <1>1, GoMoves, TimeoutAssumption DEF Earned, TypeOK, StampFailure
  <1>3. OpenEarned'
    BY <1>1, GoMoves DEF Earned, OpenEarned, StampFailure
  <1>4. QED BY <1>2, <1>3 DEF Earned

\* The count read again has reached the threshold, so have the calls that failed.
LEMMA JudgeEarned == ASSUME Earned, NEW t \in Threads, Judge(t) PROVE Earned'
  <1>1. PICK to \in {"tripping", "idle"} :
            Go(t, "judging", to) /\ (to = "tripping" => failures >= Threshold)
    BY DEF Judge
  <1>2. to \in Steps
    BY DEF Steps
  <1>3. TypeOK'
    BY <1>1, <1>2, GoMoves DEF Earned, TypeOK, Judge, breakerVars
  <1>4. to = "tripping" => failed = Threshold
    BY <1>1, ThresholdAssumption DEF Earned, TypeOK, OpenEarned
  <1>5. OpenEarned'
    BY <1>1, <1>2, <1>4, GoMoves DEF Earned, OpenEarned, Judge, breakerVars
  <1>6. QED BY <1>3, <1>5 DEF Earned

LEMMA TripEarned == ASSUME Earned, NEW t \in Threads, Trip(t) PROVE Earned'
  <1>1. Go(t, "tripping", "idle") /\ "idle" \in Steps /\ pc[t] = "tripping"
    BY DEF Trip, Go, Steps
  <1>2. TypeOK'
    BY <1>1, GoMoves DEF Earned, TypeOK, Trip
  <1>3. OpenEarned'
    BY <1>1, GoMoves DEF Earned, OpenEarned, Trip
  <1>4. QED BY <1>2, <1>3 DEF Earned

LEMMA TickEarned == ASSUME Earned, Tick PROVE Earned'
  <1>1. age' \in 0..(RecoveryTimeout + 1)
    BY TimeoutAssumption DEF Tick, Upto, Earned, TypeOK
  <1>2. QED BY <1>1 DEF Tick, Earned, TypeOK, OpenEarned

LEMMA HealthChangesEarned == ASSUME Earned, HealthChanges PROVE Earned'
  BY DEF HealthChanges, Earned, TypeOK, OpenEarned, breakerVars

LEMMA NextEarned == Earned /\ [Next]_vars => Earned'
  <1> SUFFICES ASSUME Earned, [Next]_vars PROVE Earned'
    OBVIOUS
  <1>1. ASSUME NEW t \in Threads, Execute(t) PROVE Earned'
    BY <1>1, EnterEarned, RecoverEarned, ProbeEarned, CallSucceedsEarned, CloseEarned,
       CallFailsEarned, CountEarned, StampFailureEarned, JudgeEarned, TripEarned DEF Execute
  <1>2. CASE UNCHANGED vars
    BY <1>2 DEF vars, breakerVars, Earned, TypeOK, OpenEarned
  <1>3. QED BY <1>1, <1>2, TickEarned, HealthChangesEarned DEF Next

-----------------------------------------------------------------------
(* While callers take turns. *)

\* The caller that moves is the only one in execute.
LEMMA OthersIdle ==
  ASSUME TurnsTaken, ~overlapped, NEW t \in Threads, pc[t] # "idle"
  PROVE  \A u \in Threads : u # t => pc[u] = "idle"
  BY DEF TurnsTaken

\* What one caller's step has to establish.
LEMMA TurnTaken ==
  ASSUME TypeOK, NEW t \in Threads, NEW from, NEW to \in Steps, Go(t, from, to),
         \A u \in Threads : u # t => pc[u] = "idle",
         to \in {"opened", "probing"} => state' = "OPEN",
         to = "probing" => age' > RecoveryTimeout,
         to \in {"calling", "counting", "closing"} => state' # "OPEN",
         to = "counting" => seen'[t] = failures',
         to = "closing" => failures' = 0,
         to = "tripping" => failures' = Threshold,
         state' # "CLOSED" => failures' = Threshold \/ to = "closing"
  PROVE  TurnsTaken'
  <1>1. pc'[t] = to /\ \A u \in Threads : u # t => pc'[u] = "idle"
    BY GoMoves
  <1>2. \A u \in Threads : pc'[u] # "idle" => u = t
    BY <1>1
  <1>3. QED BY <1>1, <1>2 DEF TurnsTaken

LEMMA EnterTurn == ASSUME Earned, TurnsTaken, NEW t \in Threads, Enter(t) PROVE TurnsTaken'
  <1>1. CASE overlapped'
    BY <1>1 DEF TurnsTaken
  <1>2. CASE ~overlapped'
    <2>1. ~overlapped /\ \A u \in Threads : pc[u] = "idle"
      BY <1>2, Zenon DEF Enter
    <2>2. state # "CLOSED" => failures = Threshold
      BY <2>1 DEF TurnsTaken
    <2>3. PICK to \in {"opened", "calling"} :
              /\ Go(t, "idle", to)
              /\ to = "opened" => state = "OPEN"
              /\ to = "calling" => state # "OPEN"
      BY DEF Enter
    <2>4. to \in Steps
      BY DEF Steps
    <2>5. state' = state /\ failures' = failures /\ seen' = seen
      BY DEF Enter, breakerVars
    <2>6. QED BY <2>1, <2>2, <2>3, <2>4, <2>5, TurnTaken DEF Earned
  <1>3. QED BY <1>1, <1>2

LEMMA RecoverTurn == ASSUME Earned, TurnsTaken, NEW t \in Threads, Recover(t) PROVE TurnsTaken'
  <1>1. CASE overlapped'
    BY <1>1 DEF TurnsTaken
  <1>2. CASE ~overlapped'
    <2>1. PICK to \in {"probing", "idle"} :
              Go(t, "opened", to) /\ (to = "probing" => age > RecoveryTimeout)
      BY DEF Recover
    <2>2. ~overlapped /\ pc[t] = "opened" /\ to \in Steps
      BY <1>2, <2>1 DEF Recover, Go, Steps
    <2>3. \A u \in Threads : u # t => pc[u] = "idle"
      BY <2>2, OthersIdle
    <2>4. state = "OPEN" /\ failures = Threshold
      BY <2>2, <2>3 DEF TurnsTaken
    <2>5. state' = state /\ failures' = failures /\ age' = age /\ seen' = seen
      BY DEF Recover, breakerVars
    <2>6. QED BY <2>1, <2>2, <2>3, <2>4, <2>5, TurnTaken DEF Earned
  <1>3. QED BY <1>1, <1>2

LEMMA ProbeTurn == ASSUME Earned, TurnsTaken, NEW t \in Threads, Probe(t) PROVE TurnsTaken'
  <1>1. CASE overlapped'
    BY <1>1 DEF TurnsTaken
  <1>2. CASE ~overlapped'
    <2>1. Go(t, "probing", "calling") /\ "calling" \in Steps /\ pc[t] = "probing" /\ ~overlapped
      BY <1>2 DEF Probe, Go, Steps
    <2>2. \A u \in Threads : u # t => pc[u] = "idle"
      BY <2>1, OthersIdle
    <2>3. failures = Threshold
      BY <2>1, <2>2 DEF TurnsTaken
    <2>4. state' = "HALF_OPEN" /\ failures' = failures
      BY DEF Probe
    <2>5. QED BY <2>1, <2>2, <2>3, <2>4, TurnTaken DEF Earned
  <1>3. QED BY <1>1, <1>2

LEMMA CallSucceedsTurn ==
  ASSUME Earned, TurnsTaken, NEW t \in Threads, CallSucceeds(t) PROVE TurnsTaken'
  <1>1. CASE overlapped'
    BY <1>1 DEF TurnsTaken
  <1>2. CASE ~overlapped'
    <2>1. Go(t, "calling", "closing") /\ "closing" \in Steps /\ pc[t] = "calling" /\ ~overlapped
      BY <1>2 DEF CallSucceeds, Go, Steps
    <2>2. \A u \in Threads : u # t => pc[u] = "idle"
      BY <2>1, OthersIdle
    <2>3. state' # "OPEN" /\ failures' = 0
      BY <2>1 DEF TurnsTaken, CallSucceeds
    <2>4. QED BY <2>1, <2>2, <2>3, TurnTaken DEF Earned
  <1>3. QED BY <1>1, <1>2

LEMMA CloseTurn == ASSUME Earned, TurnsTaken, NEW t \in Threads, Close(t) PROVE TurnsTaken'
  <1>1. CASE overlapped'
    BY <1>1 DEF TurnsTaken
  <1>2. CASE ~overlapped'
    <2>1. Go(t, "closing", "idle") /\ "idle" \in Steps /\ pc[t] = "closing" /\ ~overlapped
      BY <1>2 DEF Close, Go, Steps
    <2>2. \A u \in Threads : u # t => pc[u] = "idle"
      BY <2>1, OthersIdle
    <2>3. state' = "CLOSED"
      BY DEF Close
    <2>4. QED BY <2>1, <2>2, <2>3, TurnTaken DEF Earned
  <1>3. QED BY <1>1, <1>2

LEMMA CallFailsTurn == ASSUME Earned, TurnsTaken, NEW t \in Threads, CallFails(t) PROVE TurnsTaken'
  <1>1. CASE overlapped'
    BY <1>1 DEF TurnsTaken
  <1>2. CASE ~overlapped'
    <2>1. Go(t, "calling", "counting") /\ "counting" \in Steps /\ pc[t] = "calling" /\ ~overlapped
      BY <1>2 DEF CallFails, Go, Steps
    <2>2. \A u \in Threads : u # t => pc[u] = "idle"
      BY <2>1, OthersIdle
    <2>3. state' # "OPEN" /\ (state' # "CLOSED" => failures' = Threshold)
      BY <2>1, <2>2 DEF TurnsTaken, CallFails, breakerVars
    <2>4. seen'[t] = failures'
      BY DEF CallFails, breakerVars, Earned, TypeOK
    <2>5. QED BY <2>1, <2>2, <2>3, <2>4, TurnTaken DEF Earned
  <1>3. QED BY <1>1, <1>2

\* A half open breaker was full before its probe failed and is full after.
LEMMA CountTurn == ASSUME Earned, TurnsTaken, NEW t \in Threads, Count(t) PROVE TurnsTaken'
  <1>1. CASE overlapped'
    BY <1>1 DEF TurnsTaken
  <1>2. CASE ~overlapped'
    <2>1. Go(t, "counting", "stamping") /\ "stamping" \in Steps /\ pc[t] = "counting" /\ ~overlapped
      BY <1>2 DEF Count, Go, Steps
    <2>2. \A u \in Threads : u # t => pc[u] = "idle"
      BY <2>1, OthersIdle
    <2>3. seen[t] = failures /\ (state # "CLOSED" => failures = Threshold)
      BY <2>1, <2>2 DEF TurnsTaken
    <2>4. state' # "CLOSED" => failures' = Threshold
      BY <2>3, ThresholdAssumption DEF Count, Upto
    <2>5. QED BY <2>1, <2>2, <2>4, TurnTaken DEF Earned
  <1>3. QED BY <1>1, <1>2

LEMMA StampFailureTurn ==
  ASSUME Earned, TurnsTaken, NEW t \in Threads, StampFailure(t) PROVE TurnsTaken'
  <1>1. CASE overlapped'
    BY <1>1 DEF TurnsTaken
  <1>2. CASE ~overlapped'
    <2>1. Go(t, "stamping", "judging") /\ "judging" \in Steps /\ pc[t] = "stamping" /\ ~overlapped
      BY <1>2 DEF StampFailure, Go, Steps
    <2>2. \A u \in Threads : u # t => pc[u] = "idle"
      BY <2>1, OthersIdle
    <2>3. state' # "CLOSED" => failures' = Threshold
      BY <2>1, <2>2 DEF TurnsTaken, StampFailure
    <2>4. QED BY <2>1, <2>2, <2>3, TurnTaken DEF Earned
  <1>3. QED BY <1>1, <1>2

LEMMA JudgeTurn == ASSUME Earned, TurnsTaken, NEW t \in Threads, Judge(t) PROVE TurnsTaken'
  <1>1. CASE overlapped'
    BY <1>1 DEF TurnsTaken
  <1>2. CASE ~overlapped'
    <2>1. PICK to \in {"tripping", "idle"} :
              Go(t, "judging", to) /\ (to = "tripping" => failures >= Threshold)
      BY DEF Judge
    <2>2. to \in Steps /\ pc[t] = "judging" /\ ~overlapped
      BY <1>2, <2>1 DEF Judge, Go, Steps
    <2>3. \A u \in Threads : u # t => pc[u] = "idle"
      BY <2>2, OthersIdle
    <2>4. to = "tripping" => failures = Threshold
      BY <2>1, ThresholdAssumption DEF Earned, TypeOK
    <2>5. state # "CLOSED" => failures = Threshold
      BY <2>2, <2>3 DEF TurnsTaken
    <2>6. state' = state /\ failures' = failures
      BY DEF Judge, breakerVars
    <2>7. QED BY <2>1, <2>2, <2>3, <2>4, <2>5, <2>6, TurnTaken DEF Earned
  <1>3. QED BY <1>1, <1>2

LEMMA TripTurn == ASSUME Earned, TurnsTaken, NEW t \in Threads, Trip(t) PROVE TurnsTaken'
  <1>1. CASE overlapped'
    BY <1>1 DEF TurnsTaken
  <1>2. CASE ~overlapped'
    <2>1. Go(t, "tripping", "idle") /\ "idle" \in Steps /\ pc[t] = "tripping" /\ ~overlapped
      BY <1>2 DEF Trip, Go, Steps
    <2>2. \A u \in Threads : u # t => pc[u] = "idle"
      BY <2>1, OthersIdle
    <2>3. failures' = Threshold
      BY <2>1 DEF TurnsTaken, Trip
    <2>4. QED BY <2>1, <2>2, <2>3, TurnTaken DEF Earned
  <1>3. QED BY <1>1, <1>2

LEMMA TickTurn == ASSUME Earned, TurnsTaken, Tick PROVE TurnsTaken'
  <1>1. age > RecoveryTimeout => age' > RecoveryTimeout
    BY TimeoutAssumption DEF Tick, Upto, Earned, TypeOK
  <1>2. QED BY <1>1 DEF Tick, TurnsTaken

LEMMA NextInv == BreakerInv /\ [Next]_vars => BreakerInv'
  <1> SUFFICES ASSUME BreakerInv, [Next]_vars PROVE BreakerInv'
    OBVIOUS
  <1>1. Earned /\ TurnsTaken /\ Earned'
    BY NextEarned DEF BreakerInv, Earned
  <1>2. ASSUME NEW t \in Threads, Execute(t) PROVE TurnsTaken'
    BY <1>1, <1>2, EnterTurn, RecoverTurn, ProbeTurn, CallSucceedsTurn, CloseTurn,
       CallFailsTurn, CountTurn, StampFailureTurn, JudgeTurn, TripTurn DEF Execute
  <1>3. HealthChanges => TurnsTaken'
    BY <1>1 DEF HealthChanges, breakerVars, TurnsTaken
  <1>4. UNCHANGED vars => TurnsTaken'
    BY <1>1 DEF vars, breakerVars, TurnsTaken
  <1>5. TurnsTaken'
    BY <1>1, <1>2, <1>3, <1>4, TickTurn DEF Next
  <1>6. QED BY <1>1, <1>5 DEF BreakerInv, Earned

\* For any number of callers, lost updates and late writers never open the
\* breaker on fewer failed calls than the threshold.
THEOREM BreakerSafety == Spec => []BreakerInv
  <1>1. QED BY InitInv, NextInv, PTL DEF Spec

-----------------------------------------------------------------------
(* The refinement: a caller's first step that decides the call's outcome   *)
(* is the contract's step, every other step of execute is a stutter.       *)

\* While one caller is in execute the promised values are read off its step.
LEMMA Promised ==
  ASSUME NEW t \in Threads, \A u \in Threads : u # t => pc[u] = "idle"
  PROVE  /\ PromisedState = IF pc[t] = "closing" THEN "CLOSED"
                            ELSE IF pc[t] \in {"stamping", "judging", "tripping"} /\ failures >= Threshold
                                 THEN "OPEN" ELSE state
         /\ PromisedAge = IF pc[t] = "stamping" THEN 0 ELSE age
  BY DEF PromisedState, PromisedAge, Recording

\* The same of the values after its step.
LEMMA PromisedNext ==
  ASSUME TypeOK, NEW t \in Threads, \A u \in Threads : u # t => pc[u] = "idle",
         NEW from, NEW to \in Steps, Go(t, from, to)
  PROVE  /\ PromisedState' = IF to = "closing" THEN "CLOSED"
                             ELSE IF to \in {"stamping", "judging", "tripping"} /\ failures' >= Threshold
                                  THEN "OPEN" ELSE state'
         /\ PromisedAge' = IF to = "stamping" THEN 0 ELSE age'
  <1>1. pc'[t] = to /\ \A u \in Threads : u # t => pc'[u] = "idle"
    BY GoMoves
  <1>2. QED BY <1>1 DEF PromisedState, PromisedAge, Recording

Alone(t) == ~overlapped' /\ ~overlapped /\ \A u \in Threads : u # t => pc[u] = "idle"

LEMMA StepAlone ==
  ASSUME BreakerInv, NEW t \in Threads, Execute(t), ~overlapped'
  PROVE  Alone(t)
  <1>1. CASE Enter(t)
    <2>1. ~overlapped /\ \A u \in Threads : pc[u] = "idle"
      BY <1>1, Zenon DEF Enter
    <2>2. QED BY <2>1 DEF Alone
  <1>2. CASE ~Enter(t)
    <2>1. pc[t] # "idle"
      BY <1>2 DEF Execute, Recover, Probe, CallSucceeds, Close, CallFails, Count, StampFailure,
                  Judge, Trip, Go
    <2>2. overlapped' = overlapped
      BY <1>2, Zenon DEF Execute, Recover, Probe, CallSucceeds, Close, CallFails, Count, StampFailure,
                  Judge, Trip
    <2>3. QED BY <2>1, <2>2, OthersIdle DEF BreakerInv, Alone
  <1>3. QED BY <1>1, <1>2

Stutter == UNCHANGED <<PromisedState, failures, PromisedAge, overlapped>>

LEMMA EnterStutters ==
  ASSUME BreakerInv, NEW t \in Threads, Alone(t), Enter(t) PROVE Stutter
  <1>1. PICK to \in {"opened", "calling"} : Go(t, "idle", to)
    BY DEF Enter
  <1>2. to \in Steps /\ pc[t] = "idle"
    BY <1>1 DEF Steps, Go
  <1>3. state' = state /\ failures' = failures /\ age' = age
    BY DEF Enter, breakerVars
  <1>4. PromisedState' = PromisedState /\ PromisedAge' = PromisedAge
    BY <1>1, <1>2, <1>3, Promised, PromisedNext DEF Alone, BreakerInv
  <1>5. overlapped' = overlapped
    <2>1. overlapped \in BOOLEAN /\ overlapped' \in BOOLEAN
      BY EnterEarned, Zenon DEF BreakerInv, Earned, TypeOK
    <2>2. QED BY <2>1, Zenon DEF Alone
  <1>6. QED BY <1>3, <1>4, <1>5, Zenon DEF Stutter

LEMMA RecoverStutters ==
  ASSUME BreakerInv, NEW t \in Threads, Alone(t), Recover(t) PROVE Stutter
  <1>1. PICK to \in {"probing", "idle"} : Go(t, "opened", to)
    BY DEF Recover
  <1>2. to \in Steps /\ pc[t] = "opened"
    BY <1>1 DEF Steps, Go
  <1>3. state' = state /\ failures' = failures /\ age' = age
    BY DEF Recover, breakerVars
  <1>4. PromisedState' = PromisedState /\ PromisedAge' = PromisedAge
    BY <1>1, <1>2, <1>3, Promised, PromisedNext DEF Alone, BreakerInv
  <1>5. overlapped' = overlapped
    BY Zenon DEF Recover
  <1>6. QED BY <1>3, <1>4, <1>5, Zenon DEF Stutter

LEMMA ProbeProbes ==
  ASSUME BreakerInv, NEW t \in Threads, Alone(t), Probe(t) PROVE Contract!Probe
  <1>1. Go(t, "probing", "calling") /\ "calling" \in Steps /\ pc[t] = "probing" /\ ~overlapped
    BY DEF Probe, Go, Steps, Alone
  <1>2. state = "OPEN" /\ age > RecoveryTimeout
    BY <1>1 DEF BreakerInv, TurnsTaken
  <1>3. state' = "HALF_OPEN" /\ failures' = failures /\ age' = age
    BY DEF Probe
  <1>4. /\ PromisedState = "OPEN" /\ PromisedAge > RecoveryTimeout
        /\ PromisedState' = "HALF_OPEN" /\ PromisedAge' = PromisedAge
    BY <1>1, <1>2, <1>3, Promised, PromisedNext DEF Alone, BreakerInv
  <1>5. overlapped' = overlapped
    BY Zenon DEF Probe
  <1>6. QED BY <1>3, <1>4, <1>5, Zenon DEF Contract!Probe

LEMMA CallSucceedsSucceeds ==
  ASSUME BreakerInv, NEW t \in Threads, Alone(t), CallSucceeds(t) PROVE Contract!Succeed
  <1>1. Go(t, "calling", "closing") /\ "closing" \in Steps /\ pc[t] = "calling" /\ ~overlapped
    BY DEF CallSucceeds, Go, Steps, Alone
  <1>2. state # "OPEN"
    BY <1>1 DEF BreakerInv, TurnsTaken
  <1>3. failures' = 0 /\ age' = age
    BY DEF CallSucceeds
  <1>4. /\ PromisedState # "OPEN" /\ PromisedState' = "CLOSED" /\ PromisedAge' = PromisedAge
    BY <1>1, <1>2, <1>3, Promised, PromisedNext DEF Alone, BreakerInv
  <1>5. overlapped' = overlapped
    BY Zenon DEF CallSucceeds
  <1>6. QED BY <1>3, <1>4, <1>5, Zenon DEF Contract!Succeed

LEMMA CloseStutters ==
  ASSUME BreakerInv, NEW t \in Threads, Alone(t), Close(t) PROVE Stutter
  <1>1. Go(t, "closing", "idle") /\ "idle" \in Steps /\ pc[t] = "closing"
    BY DEF Close, Go, Steps
  <1>2. state' = "CLOSED" /\ failures' = failures /\ age' = age
    BY DEF Close
  <1>3. PromisedState' = PromisedState /\ PromisedAge' = PromisedAge
    BY <1>1, <1>2, Promised, PromisedNext DEF Alone, BreakerInv
  <1>4. overlapped' = overlapped
    BY Zenon DEF Close
  <1>5. QED BY <1>2, <1>3, <1>4, Zenon DEF Stutter

LEMMA CallFailsStutters ==
  ASSUME BreakerInv, NEW t \in Threads, Alone(t), CallFails(t) PROVE Stutter
  <1>1. Go(t, "calling", "counting") /\ "counting" \in Steps /\ pc[t] = "calling"
    BY DEF CallFails, Go, Steps
  <1>2. state' = state /\ failures' = failures /\ age' = age
    BY DEF CallFails, breakerVars
  <1>3. PromisedState' = PromisedState /\ PromisedAge' = PromisedAge
    BY <1>1, <1>2, Promised, PromisedNext DEF Alone, BreakerInv
  <1>4. overlapped' = overlapped
    BY Zenon DEF CallFails
  <1>5. QED BY <1>2, <1>3, <1>4, Zenon DEF Stutter

\* The failure counts where the count is written.
LEMMA CountFails ==
  ASSUME BreakerInv, NEW t \in Threads, Alone(t), Count(t) PROVE Contract!Fail
  <1>1. Go(t, "counting", "stamping") /\ "stamping" \in Steps /\ pc[t] = "counting" /\ ~overlapped
    BY DEF Count, Go, Steps, Alone
  <1>2. /\ state \in {"CLOSED", "HALF_OPEN"} /\ seen[t] = failures
        /\ state = "HALF_OPEN" => failures = Threshold
    <2>1. state # "OPEN" /\ seen[t] = failures
      BY <1>1 DEF BreakerInv, TurnsTaken
    <2>2. state # "CLOSED" => failures = Threshold
      BY <1>1 DEF BreakerInv, TurnsTaken, Alone
    <2>3. state \in {"CLOSED", "OPEN", "HALF_OPEN"}
      BY DEF BreakerInv, TypeOK
    <2>4. QED BY <2>1, <2>2, <2>3
  <1>3. failures' = Upto(Threshold, failures + 1) /\ state' = state
    BY <1>2 DEF Count
  <1>4. failures' >= Threshold <=> failures' = Threshold
    BY <1>3, ThresholdAssumption DEF Upto, BreakerInv, TypeOK
  <1>5. state = "HALF_OPEN" => failures' = Threshold
    BY <1>2, <1>3, ThresholdAssumption DEF Upto
  <1>6. PromisedState = state
    BY <1>1, Promised DEF Alone
  <1>7. /\ PromisedState' = IF failures' >= Threshold THEN "OPEN" ELSE state'
        /\ PromisedAge' = 0
    BY <1>1, PromisedNext DEF Alone, BreakerInv
  <1>8. PromisedState' = IF PromisedState = "HALF_OPEN" \/ failures' = Threshold
                         THEN "OPEN" ELSE "CLOSED"
    BY <1>2, <1>3, <1>4, <1>5, <1>6, <1>7
  <1>9. failures' = Contract!Upto(Threshold, failures + 1)
    BY <1>3 DEF Upto, Contract!Upto
  <1>10. overlapped' = overlapped /\ PromisedState # "OPEN"
    BY <1>2, <1>6, Zenon DEF Count
  <1>11. QED BY <1>7, <1>8, <1>9, <1>10, Zenon DEF Contract!Fail

LEMMA StampFailureStutters ==
  ASSUME BreakerInv, NEW t \in Threads, Alone(t), StampFailure(t) PROVE Stutter
  <1>1. Go(t, "stamping", "judging") /\ "judging" \in Steps /\ pc[t] = "stamping"
    BY DEF StampFailure, Go, Steps
  <1>2. state' = state /\ failures' = failures /\ age' = 0
    BY DEF StampFailure
  <1>3. PromisedState' = PromisedState /\ PromisedAge' = PromisedAge
    BY <1>1, <1>2, Promised, PromisedNext DEF Alone, BreakerInv
  <1>4. overlapped' = overlapped
    BY Zenon DEF StampFailure
  <1>5. QED BY <1>2, <1>3, <1>4, Zenon DEF Stutter

LEMMA JudgeStutters ==
  ASSUME BreakerInv, NEW t \in Threads, Alone(t), Judge(t) PROVE Stutter
  <1>1. PICK to \in {"tripping", "idle"} :
            /\ Go(t, "judging", to)
            /\ to = "tripping" <=> failures >= Threshold
    BY DEF Judge
  <1>2. to \in Steps /\ pc[t] = "judging"
    BY <1>1 DEF Steps, Go
  <1>3. state' = state /\ failures' = failures /\ age' = age
    BY DEF Judge, breakerVars
  <1>4. PromisedState' = PromisedState /\ PromisedAge' = PromisedAge
    BY <1>1, <1>2, <1>3, Promised, PromisedNext DEF Alone, BreakerInv
  <1>5. overlapped' = overlapped
    BY Zenon DEF Judge
  <1>6. QED BY <1>3, <1>4, <1>5, Zenon DEF Stutter

LEMMA TripStutters ==
  ASSUME BreakerInv, NEW t \in Threads, Alone(t), Trip(t) PROVE Stutter
  <1>1. Go(t, "tripping", "idle") /\ "idle" \in Steps /\ pc[t] = "tripping" /\ ~overlapped
    BY DEF Trip, Go, Steps, Alone
  <1>2. state' = "OPEN" /\ failures' = failures /\ age' = age /\ failures >= Threshold
    BY <1>1, ThresholdAssumption DEF Trip, BreakerInv, TurnsTaken
  <1>3. PromisedState' = PromisedState /\ PromisedAge' = PromisedAge
    BY <1>1, <1>2, Promised, PromisedNext DEF Alone, BreakerInv
  <1>4. overlapped' = overlapped
    BY Zenon DEF Trip
  <1>5. QED BY <1>2, <1>3, <1>4, Zenon DEF Stutter

\* The clock goes on, but not for a failure whose time is about to be written.
LEMMA TickTicks == ASSUME BreakerInv, Tick PROVE Contract!Tick \/ Stutter
  <1>1. /\ state' = state /\ failures' = failures /\ pc' = pc
        /\ age' = Contract!Upto(RecoveryTimeout + 1, age + 1)
    BY DEF Tick, Upto, Contract!Upto
  <1>2. overlapped' = overlapped
    BY Zenon DEF Tick
  <1>3. PromisedState' = PromisedState
    BY <1>1 DEF PromisedState, Recording
  <1>4. CASE \E t \in Threads : pc[t] = "stamping"
    <2>1. PromisedAge' = PromisedAge
      BY <1>1, <1>4 DEF PromisedAge
    <2>2. QED BY <1>1, <1>2, <1>3, <2>1, Zenon DEF Stutter
  <1>5. CASE ~\E t \in Threads : pc[t] = "stamping"
    <2>1. PromisedAge' = Contract!Upto(RecoveryTimeout + 1, PromisedAge + 1)
      BY <1>1, <1>5 DEF PromisedAge
    <2>2. QED BY <1>1, <1>2, <1>3, <2>1, Zenon DEF Contract!Tick
  <1>6. QED BY <1>4, <1>5

LEMMA StepImplements ==
  ASSUME BreakerInv, NEW t \in Threads, Execute(t)
  PROVE  Contract!Next \/ Stutter
  <1>1. CASE overlapped'
    BY <1>1, Zenon DEF Contract!Next
  <1>2. CASE ~overlapped'
    <2>1. Alone(t)
      BY <1>2, StepAlone
    <2>2. Contract!Probe \/ Contract!Succeed \/ Contract!Fail \/ Stutter
      BY <2>1, EnterStutters, RecoverStutters, ProbeProbes, CallSucceedsSucceeds, CloseStutters,
         CallFailsStutters, CountFails, StampFailureStutters, JudgeStutters, TripStutters, Zenon
         DEF Execute
    <2>3. QED BY <2>2, Zenon DEF Contract!Next
  <1>3. QED BY <1>1, <1>2

LEMMA NextImplements == BreakerInv /\ [Next]_vars => [Contract!Next]_Contract!vars
  <1> SUFFICES ASSUME BreakerInv, [Next]_vars PROVE Contract!Next \/ Stutter
    BY Zenon DEF Contract!vars, Stutter
  <1>1. CASE \E t \in Threads : Execute(t)
    BY <1>1, StepImplements, Zenon
  <1>2. CASE Tick
    BY <1>2, TickTicks, Zenon DEF Contract!Next
  <1>3. CASE HealthChanges \/ UNCHANGED vars
    <2>1. state' = state /\ failures' = failures /\ age' = age /\ pc' = pc
      BY <1>3 DEF HealthChanges, vars, breakerVars
    <2>2. overlapped' = overlapped
      BY <1>3, Zenon DEF HealthChanges, vars
    <2>3. PromisedState' = PromisedState /\ PromisedAge' = PromisedAge
      BY <2>1 DEF PromisedState, PromisedAge, Recording
    <2>4. QED BY <2>1, <2>2, <2>3, Zenon DEF Stutter
  <1>4. QED BY <1>1, <1>2, <1>3, Zenon DEF Next

LEMMA InitImplements == Init => Contract!Init
  <1> SUFFICES ASSUME Init PROVE Contract!Init
    OBVIOUS
  <1>1. PromisedState = "CLOSED" /\ failures = 0
    BY DEF Init, PromisedState, Recording
  <1>2. overlapped = FALSE
    BY Zenon DEF Init
  <1>3. QED BY <1>1, <1>2, Zenon DEF Contract!Init

\* execute implements the circuit breaker its comment describes, for any
\* number of callers, as long as no two calls overlap.
THEOREM Refinement == Spec => ImplementsContract
  <1>1. Init => Contract!Init
    BY InitImplements
  <1>2. BreakerInv /\ [Next]_vars => [Contract!Next]_Contract!vars
    BY NextImplements
  <1>3. Spec => []BreakerInv
    BY BreakerSafety
  <1>4. QED BY <1>1, <1>2, <1>3, PTL DEF Spec, ImplementsContract, Contract!Spec
=======================================================================
