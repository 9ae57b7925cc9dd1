----------------------- MODULE RateLimiterProofs -----------------------
(***************************************************************************)
(* Theorems about RateLimiter, for any limit, window and delay, and any    *)
(* number of calls, processes, outages and restarts: neither Redis nor a   *)
(* process without it admits too much, and no denial is unearned.          *)
(***************************************************************************)
EXTENDS RateLimiter, FiniteSetTheorems, TLAPS

LEMMA Parameters == Limit \in Nat /\ WindowSeconds \in Nat /\ WindowSeconds > 0 /\ MaxDelay \in Nat
  BY WindowAssumption

LEMMA CallSets == ASSUME NEW S \in SUBSET Calls PROVE IsFiniteSet(S) /\ Cardinality(S) \in Nat
  <1>1. IsFiniteSet(S)
    BY CallsAssumption, FS_Subset
  <1>2. QED BY <1>1, FS_CardinalityType

LEMMA Monotone ==
  ASSUME NEW T \in SUBSET Calls, NEW S \in SUBSET T
  PROVE  Cardinality(S) <= Cardinality(T)
  BY CallSets, FS_Subset

\* A deque without repetitions has as many calls as entries.
LEMMA RangeCount ==
  ASSUME NEW s \in Seq(Calls), \A i, j \in DOMAIN s : i < j => s[i] # s[j]
  PROVE  Cardinality({s[i] : i \in DOMAIN s}) = Len(s)
  <1> DEFINE R == {s[i] : i \in DOMAIN s}
  <1>1. s \in Bijection(1..Len(s), R)
    <2>1. \A i, j \in 1..Len(s) : s[i] = s[j] => i = j
      OBVIOUS
    <2>2. s \in [1..Len(s) -> R]
      OBVIOUS
    <2>3. \A y \in R : \E i \in 1..Len(s) : s[i] = y
      OBVIOUS
    <2>4. QED BY <2>1, <2>2, <2>3 DEF Bijection, Injection, Surjection, IsInjective
  <1>2. ExistsBijection(1..Len(s), R)
    BY <1>1 DEF ExistsBijection
  <1>3. QED BY <1>2, FS_CountingElements

-------------------------------------------------------------------------

LEMMA TypeInit == Init => TypeOK
  <1> SUFFICES ASSUME Init PROVE TypeOK
    OBVIOUS
  <1>1. up \in BOOLEAN /\ connected \in [Processes -> BOOLEAN]
    BY Zenon DEF Init
  <1>2. time \in Nat /\ era \in Nat /\ remote \subseteq Calls /\ expiry \in Nat /\ changes \in Nat
        /\ window \in [Processes -> Seq(Calls)] /\ lives \in [Processes -> Nat] /\ restarts \in Nat
    BY DEF Init
  <1>3. pc \in [Calls -> {"idle", "remote", "local", "admitted", "denied", "lost"}]
        /\ now \in [Calls -> Nat] /\ member \in [Calls -> Calls] /\ at \in [Calls -> Nat]
        /\ by \in [Calls -> {"none", "redis", "window"}] /\ term \in [Calls -> Nat] /\ sent \subseteq Calls
    BY DEF Init
  <1>4. QED BY <1>1, <1>2, <1>3 DEF TypeOK

LEMMA DecideType ==
  ASSUME TypeOK, NEW c \in Calls, NEW source \in {"redis", "window"}, NEW n \in Nat,
         NEW admitted \in BOOLEAN, Decide(c, source, n, admitted)
  PROVE  /\ pc' \in [Calls -> {"idle", "remote", "local", "admitted", "denied", "lost"}]
         /\ at' \in [Calls -> Nat] /\ by' \in [Calls -> {"none", "redis", "window"}]
         /\ term' \in [Calls -> Nat]
  BY DEF TypeOK, Decide

LEMMA EvaluateType ==
  ASSUME TypeOK, NEW c \in Calls, Evaluate(c)
  PROVE  /\ up' = up /\ era' \in Nat /\ remote' \subseteq Calls /\ expiry' \in Nat /\ sent' \subseteq Calls
         /\ time' \in Nat /\ window' \in [Processes -> Seq(Calls)] /\ lives' \in [Processes -> Nat]
         /\ restarts' \in Nat /\ now' \in [Calls -> Nat] /\ member' \in [Calls -> Calls]
  BY Parameters DEF TypeOK, Evaluate, Live, readVars

\* What is left of a window once its oldest k calls have gone, and what the
\* call does with it.
LocalStep(c, k, rest) ==
    LET w == window[ProcessOf[c]] IN
    /\ k \in 0..Len(w) /\ Popped(w, now[c] - WindowSeconds, k)
    /\ Len(rest) = Len(w) - k /\ \A i \in 1..Len(rest) : rest[i] = w[k + i]
    /\ Decide(c, "window", lives[ProcessOf[c]], Len(rest) < Limit)
    /\ window' = [window EXCEPT ![ProcessOf[c]] = IF Len(rest) < Limit THEN Append(rest, c) ELSE rest]

LEMMA LocalSteps ==
  ASSUME TypeOK, NEW c \in Calls, DecideLocally(c)
  PROVE  \E k \in Nat, rest \in Seq(Calls) : LocalStep(c, k, rest)
  <1> DEFINE w == window[ProcessOf[c]]
  <1>1. PICK k \in 0..Len(w) :
          /\ Popped(w, now[c] - WindowSeconds, k)
          /\ \E rest \in {SubSeq(w, k + 1, Len(w))} :
               /\ Decide(c, "window", lives[ProcessOf[c]], Len(rest) < Limit)
               /\ window' = [window EXCEPT ![ProcessOf[c]] = IF Len(rest) < Limit THEN Append(rest, c) ELSE rest]
    BY DEF DecideLocally
  <1> DEFINE rest == SubSeq(w, k + 1, Len(w))
  <1>2. w \in Seq(Calls)
    BY CallsAssumption DEF TypeOK
  <1>3. rest \in Seq(Calls) /\ Len(rest) = Len(w) - k /\ \A i \in 1..Len(rest) : rest[i] = w[k + i]
    BY <1>2
  <1>4. k \in Nat
    BY <1>2
  <1>5. LocalStep(c, k, rest)
    BY <1>1, <1>3 DEF LocalStep
  <1> HIDE DEF rest
  <1>6. QED BY <1>3, <1>4, <1>5

LEMMA TypeNext == TypeOK /\ [Next]_vars => TypeOK'
  <1> SUFFICES ASSUME TypeOK, [Next]_vars PROVE TypeOK'
    OBVIOUS
  <1>p. \A c \in Calls : ProcessOf[c] \in Processes
    BY CallsAssumption
  <1>b. up \in BOOLEAN /\ connected \in [Processes -> BOOLEAN]
    BY Zenon DEF TypeOK
  <1>1. ASSUME NEW c \in Calls, ReadClock(c) PROVE TypeOK'
    <2>1. up' \in BOOLEAN /\ connected' \in [Processes -> BOOLEAN]
      BY Zenon, <1>1, <1>b DEF ReadClock, redisVars, processVars
    <2>2. pc' \in [Calls -> {"idle", "remote", "local", "admitted", "denied", "lost"}]
      BY <1>1 DEF TypeOK, ReadClock
    <2>3. now' \in [Calls -> Nat]
      BY <1>1 DEF TypeOK, ReadClock
    <2>4. member' \in [Calls -> Calls]
      BY <1>1 DEF TypeOK, ReadClock, Members, ReadAt
    <2>5. QED BY <1>1, <2>1, <2>2, <2>3, <2>4 DEF TypeOK, ReadClock, redisVars, processVars, historyVars
  <1>2. ASSUME NEW c \in Calls, AskRedis(c) PROVE TypeOK'
    <2>1. Evaluate(c) /\ Decide(c, "redis", era, Cardinality(remote') <= Limit)
          /\ changes' = changes /\ connected' = connected
      BY <1>2 DEF AskRedis
    <2>2. era \in Nat /\ (Cardinality(remote') <= Limit) \in BOOLEAN
      BY DEF TypeOK
    <2>3. /\ pc' \in [Calls -> {"idle", "remote", "local", "admitted", "denied", "lost"}]
          /\ at' \in [Calls -> Nat] /\ by' \in [Calls -> {"none", "redis", "window"}]
          /\ term' \in [Calls -> Nat]
      BY <2>1, <2>2, DecideType
    <2>4. QED BY Zenon, <2>1, <2>3, <1>b, EvaluateType DEF TypeOK
  <1>3. ASSUME NEW c \in Calls, LoseRedis(c) PROVE TypeOK'
    <2>1. connected' \in [Processes -> BOOLEAN]
      BY Zenon, <1>3, <1>b DEF LoseRedis
    <2>2. QED BY <1>3, <2>1 DEF TypeOK, LoseRedis, redisVars, readVars, historyVars
  <1>4. ASSUME NEW c \in Calls, LoseReply(c) PROVE TypeOK'
    <2>1. connected' \in [Processes -> BOOLEAN]
      BY Zenon, <1>4, <1>b DEF LoseReply
    <2>2. changes' \in Nat /\ pc' \in [Calls -> {"idle", "remote", "local", "admitted", "denied", "lost"}]
      BY <1>4 DEF TypeOK, LoseReply
    <2>3. Evaluate(c) /\ at' = at /\ by' = by /\ term' = term
      BY <1>4 DEF LoseReply
    <2>4. QED BY Zenon, <2>1, <2>2, <2>3, <1>b, EvaluateType DEF TypeOK
  <1>5. ASSUME NEW c \in Calls, DecideLocally(c) PROVE TypeOK'
    <2>1. PICK k \in Nat, rest \in Seq(Calls) : LocalStep(c, k, rest)
      BY <1>5, LocalSteps
    <2>2. /\ Decide(c, "window", lives[ProcessOf[c]], Len(rest) < Limit)
          /\ window' = [window EXCEPT ![ProcessOf[c]] = IF Len(rest) < Limit THEN Append(rest, c) ELSE rest]
      BY <2>1 DEF LocalStep
    <2>3. window' \in [Processes -> Seq(Calls)]
      <3>1. Append(rest, c) \in Seq(Calls)
        OBVIOUS
      <3>2. (IF Len(rest) < Limit THEN Append(rest, c) ELSE rest) \in Seq(Calls)
        BY <3>1
      <3>3. window \in [Processes -> Seq(Calls)]
        BY DEF TypeOK
      <3>4. QED BY <2>2, <3>2, <3>3
    <2>4. lives[ProcessOf[c]] \in Nat /\ (Len(rest) < Limit) \in BOOLEAN
      BY <1>p DEF TypeOK
    <2>5. /\ pc' \in [Calls -> {"idle", "remote", "local", "admitted", "denied", "lost"}]
          /\ at' \in [Calls -> Nat] /\ by' \in [Calls -> {"none", "redis", "window"}]
          /\ term' \in [Calls -> Nat]
      BY <2>2, <2>4, DecideType
    <2>6. QED BY Zenon, <1>5, <2>3, <2>5, <1>b DEF TypeOK, DecideLocally, redisVars, readVars
  <1>6. CASE Tick
    BY <1>6 DEF TypeOK, Tick, redisVars, processVars, readVars, historyVars
  <1>7. CASE RedisChanges
    <2>1. up' \in BOOLEAN
      BY Zenon, <1>7, <1>b DEF RedisChanges
    <2>2. era' \in Nat /\ remote' \subseteq Calls /\ expiry' \in Nat /\ changes' \in Nat
      BY <1>7 DEF TypeOK, RedisChanges
    <2>3. QED BY Zenon, <1>7, <2>1, <2>2 DEF TypeOK, RedisChanges, processVars, readVars, historyVars
  <1>8. ASSUME NEW p \in Processes, Restart(p) PROVE TypeOK'
    <2>1. connected' \in [Processes -> BOOLEAN]
      BY Zenon, <1>8, <1>b DEF Restart
    <2>2. restarts' \in Nat /\ lives' \in [Processes -> Nat]
      BY <1>8 DEF TypeOK, Restart
    <2>3. window' \in [Processes -> Seq(Calls)]
      BY <1>8 DEF TypeOK, Restart
    <2>4. pc' \in [Calls -> {"idle", "remote", "local", "admitted", "denied", "lost"}]
      BY <1>8 DEF TypeOK, Restart
    <2>5. QED BY Zenon, <1>8, <2>1, <2>2, <2>3, <2>4 DEF TypeOK, Restart, redisVars, readVars, historyVars
  <1>9. CASE UNCHANGED vars
    BY Zenon, <1>9 DEF TypeOK, vars, redisVars, processVars, readVars, historyVars
  <1>10. QED BY <1>1, <1>2, <1>3, <1>4, <1>5, <1>6, <1>7, <1>8, <1>9 DEF Next, Allow

\* Type correctness of the limiters, Redis and the calls.
THEOREM TypeInvariant == Spec => []TypeOK
  BY TypeInit, TypeNext, PTL DEF Spec

-------------------------------------------------------------------------

LEMMA ClockInit == Init => ClockInv
  BY DEF Init, ClockInv, Pending

\* A call that has read the clock keeps what it read, and is decided no sooner
\* than it read it and no later than the delay allows.
LEMMA ClockDecided ==
  ASSUME TypeOK, ClockInv, NEW c \in Calls, Pending(c), NEW source, NEW n, NEW admitted \in BOOLEAN,
         Decide(c, source, n, admitted), UNCHANGED <<time, readVars>>
  PROVE  ClockInv'
  <1> SUFFICES ASSUME NEW x \in Calls
               PROVE  /\ now'[x] <= time'
                      /\ pc'[x] # "idle" => pc'[member'[x]] # "idle" /\ now'[member'[x]] = now'[x]
                      /\ Pending(x)' => time' <= now'[x] + MaxDelay
                      /\ pc'[x] \in {"admitted", "denied"} =>
                           now'[x] <= at'[x] /\ at'[x] <= now'[x] + MaxDelay /\ at'[x] <= time'
    BY DEF ClockInv
  <1>1. member[x] \in Calls /\ time \in Nat /\ now[x] \in Nat /\ at[x] \in Nat
    BY DEF TypeOK
  <1>2. now' = now /\ member' = member /\ time' = time
    BY DEF readVars
  <1>3. \A y \in Calls : pc'[y] = "idle" <=> pc[y] = "idle"
    BY DEF TypeOK, Decide, Pending
  <1>4. CASE x = c
    <2>1. at'[x] = time /\ pc'[x] \in {"admitted", "denied"}
      BY <1>4 DEF TypeOK, Decide
    <2>2. time <= now[x] + MaxDelay /\ now[x] <= time /\ pc[x] # "idle"
      BY <1>4 DEF ClockInv, Pending
    <2>3. QED BY <1>1, <1>2, <1>3, <2>1, <2>2 DEF ClockInv, Pending
  <1>5. CASE x # c
    <2>1. at'[x] = at[x] /\ pc'[x] = pc[x]
      BY <1>5 DEF TypeOK, Decide
    <2>2. QED BY <1>1, <1>2, <1>3, <2>1 DEF ClockInv, Pending
  <1>6. QED BY <1>4, <1>5

\* Nor is what it read touched by a call that goes on to its own window.
LEMMA ClockMoved ==
  ASSUME TypeOK, ClockInv, NEW c \in Calls, Pending(c), pc' = [pc EXCEPT ![c] = "local"],
         UNCHANGED <<time, readVars, at>>
  PROVE  ClockInv'
  BY DEF TypeOK, ClockInv, Pending, readVars

LEMMA ClockNext == TypeOK /\ ClockInv /\ [Next]_vars => ClockInv'
  <1> SUFFICES ASSUME TypeOK, ClockInv, [Next]_vars PROVE ClockInv'
    OBVIOUS
  <1>1. ASSUME NEW c \in Calls, ReadClock(c) PROVE ClockInv'
    <2>1. PICK m \in {c} \cup Members(ReadAt(time)) : member' = [member EXCEPT ![c] = m]
      BY <1>1 DEF ReadClock
    <2>2. pc[c] = "idle" /\ now' = [now EXCEPT ![c] = time] /\ time' = time /\ at' = at
          /\ pc' = [pc EXCEPT ![c] = IF connected[ProcessOf[c]] THEN "remote" ELSE "local"]
      BY <1>1 DEF ReadClock, historyVars
    <2>3. m = c \/ (m \in Calls /\ pc[m] # "idle" /\ now[m] = time)
      BY <2>1 DEF Members, ReadAt, ClockInv, TypeOK
    <2>4. pc'[c] \in {"remote", "local"} /\ \A x \in Calls : x # c => pc'[x] = pc[x]
      BY <2>2 DEF TypeOK
    <2>5. QED BY <2>1, <2>2, <2>3, <2>4, Parameters DEF TypeOK, ClockInv, Pending
  <1>2. ASSUME NEW c \in Calls, AskRedis(c) PROVE ClockInv'
    <2>1. (Cardinality(remote') <= Limit) \in BOOLEAN
      OBVIOUS
    <2>2. Pending(c) /\ Decide(c, "redis", era, Cardinality(remote') <= Limit) /\ UNCHANGED <<time, readVars>>
      BY <1>2 DEF AskRedis, Evaluate, Pending
    <2>3. QED BY <2>1, <2>2, ClockDecided
  <1>3. ASSUME NEW c \in Calls, LoseRedis(c) PROVE ClockInv'
    BY <1>3, ClockMoved DEF LoseRedis, Pending, historyVars
  <1>4. ASSUME NEW c \in Calls, LoseReply(c) PROVE ClockInv'
    BY <1>4, ClockMoved DEF LoseReply, Evaluate, Pending
  <1>5. ASSUME NEW c \in Calls, DecideLocally(c) PROVE ClockInv'
    <2>1. PICK k \in Nat, rest \in Seq(Calls) : LocalStep(c, k, rest)
      BY <1>5, LocalSteps
    <2>2. (Len(rest) < Limit) \in BOOLEAN
      OBVIOUS
    <2>3. Pending(c) /\ UNCHANGED <<time, readVars>>
      BY <1>5 DEF DecideLocally, Pending
    <2>4. Decide(c, "window", lives[ProcessOf[c]], Len(rest) < Limit)
      BY <2>1 DEF LocalStep
    <2>5. QED BY <2>2, <2>3, <2>4, ClockDecided
  <1>6. CASE Tick
    BY <1>6, Parameters DEF TypeOK, ClockInv, Pending, Tick, readVars, historyVars
  <1>7. CASE RedisChanges
    BY <1>7 DEF ClockInv, Pending, RedisChanges, readVars, historyVars
  <1>8. ASSUME NEW p \in Processes, Restart(p) PROVE ClockInv'
    BY <1>8 DEF TypeOK, ClockInv, Pending, Restart, readVars, historyVars
  <1>9. CASE UNCHANGED vars
    BY <1>9 DEF ClockInv, Pending, vars, readVars, historyVars
  <1>10. QED BY <1>1, <1>2, <1>3, <1>4, <1>5, <1>6, <1>7, <1>8, <1>9 DEF Next, Allow

-------------------------------------------------------------------------

LEMMA RemoteInit == Init => RemoteInv
  BY DEF Init, RemoteInv, Members, AdmittedByRedis

\* The script drops nothing that was admitted recently: every call the set is
\* asked about read the clock before the present.
LEMMA EvaluateKeeps ==
  ASSUME TypeOK, ClockInv, RemoteInv, NEW c \in Calls, Pending(c), Evaluate(c)
  PROVE  /\ remote' \subseteq Members(sent)' /\ sent' = sent \cup {c} /\ time' = time /\ era' = era
         /\ member' = member /\ now' = now
         /\ expiry' = time + WindowSeconds
         /\ \A x \in AdmittedByRedis : at[x] + WindowSeconds <= expiry' /\ (Recent(x) => member[x] \in remote')
         /\ member[c] \in remote'
         /\ \A m \in remote' : now[m] > now[c] - WindowSeconds
  <1>1. /\ remote' = Live(now[c] - WindowSeconds) \cup {member[c]} /\ expiry' = time + WindowSeconds
        /\ sent' = sent \cup {c} /\ time' = time /\ era' = era /\ member' = member /\ now' = now
    BY DEF Evaluate, readVars
  <1>2. remote' \subseteq Members(sent)'
    BY <1>1 DEF RemoteInv, Live, Members
  <1>3. ASSUME NEW x \in AdmittedByRedis
        PROVE  at[x] + WindowSeconds <= expiry' /\ (Recent(x) => member[x] \in remote')
    <2>1. x \in Calls /\ member[x] \in Calls /\ at[x] \in Nat /\ now[x] \in Nat /\ now[c] \in Nat /\ time \in Nat
          /\ expiry \in Nat
      BY DEF TypeOK, AdmittedByRedis
    <2>2. at[x] <= now[x] + MaxDelay /\ at[x] <= time /\ now[member[x]] = now[x] /\ now[c] <= time
      BY <2>1 DEF ClockInv, AdmittedByRedis
    <2>3. at[x] + WindowSeconds <= expiry /\ (Recent(x) => member[x] \in remote)
      BY DEF RemoteInv
    <2>4. ASSUME Recent(x) PROVE time < expiry /\ now[member[x]] > now[c] - WindowSeconds
      BY <2>1, <2>2, <2>3, <2>4, Parameters DEF Recent
    <2>5. Recent(x) => member[x] \in remote'
      BY <1>1, <2>3, <2>4 DEF Live
    <2>6. at[x] + WindowSeconds <= expiry'
      BY <1>1, <2>1, <2>2, Parameters
    <2>7. QED BY <2>5, <2>6
  <1>4. \A m \in remote' : now[m] > now[c] - WindowSeconds
    <2>1. now[c] \in Nat /\ now[member[c]] = now[c]
      BY DEF TypeOK, ClockInv, Pending
    <2>2. now[member[c]] > now[c] - WindowSeconds
      BY <2>1, Parameters
    <2>3. QED BY <1>1, <2>2 DEF Live
  <1>5. QED BY <1>1, <1>2, <1>3, <1>4

\* A step that sends Redis nothing and admits nothing by it.
LEMMA RemoteKept ==
  ASSUME TypeOK, RemoteInv, UNCHANGED <<era, remote, expiry, historyVars>>, time' \in Nat, time <= time',
         \A x \in Calls : pc[x] # "idle" => member'[x] = member[x] /\ pc'[x] # "idle",
         \A x \in Calls : pc'[x] = "admitted" => pc[x] = "admitted"
  PROVE  RemoteInv'
  <1>1. era' = era /\ remote' = remote /\ expiry' = expiry /\ at' = at /\ by' = by /\ term' = term /\ sent' = sent
    BY DEF historyVars
  <1>2. Members(sent)' = Members(sent)
    BY <1>1 DEF Members, RemoteInv, TypeOK
  <1>3. ASSUME NEW x \in AdmittedByRedis'
        PROVE  at'[x] + WindowSeconds <= expiry' /\ (Recent(x)' => member'[x] \in remote')
    <2>1. x \in AdmittedByRedis /\ x \in Calls /\ member'[x] = member[x]
      BY <1>1, <1>3 DEF AdmittedByRedis
    <2>2. at[x] \in Nat /\ time \in Nat
      BY <2>1 DEF TypeOK
    <2>3. Recent(x)' => Recent(x)
      BY <1>1, <2>2, Parameters DEF Recent
    <2>4. QED BY <1>1, <2>1, <2>3 DEF RemoteInv
  <1>4. QED BY <1>1, <1>2, <1>3 DEF RemoteInv, TypeOK

LEMMA RemoteNext == TypeOK /\ ClockInv /\ RemoteInv /\ [Next]_vars => RemoteInv'
  <1> SUFFICES ASSUME TypeOK, ClockInv, RemoteInv, [Next]_vars PROVE RemoteInv'
    OBVIOUS
  <1>t. time \in Nat
    BY DEF TypeOK
  <1>1. ASSUME NEW c \in Calls, ReadClock(c) PROVE RemoteInv'
    <2>1. UNCHANGED <<time, era, remote, expiry, historyVars>>
      BY <1>1 DEF ReadClock, redisVars
    <2>2. \A x \in Calls : x # c => pc'[x] = pc[x] /\ member'[x] = member[x]
      BY <1>1 DEF ReadClock, TypeOK
    <2>3. pc[c] = "idle" /\ pc'[c] \in {"remote", "local"}
      BY <1>1 DEF ReadClock, TypeOK
    <2>4. time' \in Nat /\ time <= time'
      BY <2>1, <1>t
    <2>5. \A x \in Calls : pc[x] # "idle" => member'[x] = member[x] /\ pc'[x] # "idle"
      BY <2>2, <2>3
    <2>6. \A x \in Calls : pc'[x] = "admitted" => pc[x] = "admitted"
      BY <2>2, <2>3
    <2>7. QED BY <2>1, <2>4, <2>5, <2>6, RemoteKept
  <1>2. ASSUME NEW c \in Calls, AskRedis(c) PROVE RemoteInv'
    <2>1. Pending(c) /\ Evaluate(c) /\ Decide(c, "redis", era, Cardinality(remote') <= Limit)
      BY <1>2 DEF AskRedis, Pending
    <2>2. /\ at' = [at EXCEPT ![c] = time] /\ by' = [by EXCEPT ![c] = "redis"] /\ term' = [term EXCEPT ![c] = era]
          /\ pc'[c] # "idle"
          /\ \A x \in Calls : x # c => pc'[x] = pc[x]
      BY <2>1 DEF Decide, TypeOK
    <2>3. \A x \in Calls : by'[x] = "redis" => term'[x] <= era'
      BY <2>1, <2>2, EvaluateKeeps DEF RemoteInv, TypeOK
    <2>4. ASSUME NEW x \in AdmittedByRedis'
          PROVE  at'[x] + WindowSeconds <= expiry' /\ (Recent(x)' => member'[x] \in remote')
      <3>1. CASE x = c
        BY <3>1, <2>1, <2>2, <1>t, EvaluateKeeps, Parameters DEF TypeOK
      <3>2. CASE x # c
        <4>1. x \in Calls
          BY DEF AdmittedByRedis
        <4>2. x \in AdmittedByRedis /\ at'[x] = at[x]
          BY <3>2, <4>1, <2>1, <2>2, EvaluateKeeps DEF AdmittedByRedis, TypeOK
        <4>3. QED BY <4>1, <4>2, <2>1, EvaluateKeeps DEF Recent
      <3>3. QED BY <3>1, <3>2
    <2>5. \A x \in sent' : pc'[x] # "idle"
      <3>1. sent' = sent \cup {c}
        BY <2>1 DEF Evaluate
      <3>2. sent \subseteq Calls /\ \A x \in sent : pc[x] # "idle"
        BY DEF RemoteInv, TypeOK
      <3>3. QED BY <3>1, <3>2, <2>2
    <2>6. QED BY <2>1, <2>3, <2>4, <2>5, EvaluateKeeps DEF RemoteInv
  <1>3. ASSUME NEW c \in Calls, LoseRedis(c) PROVE RemoteInv'
    BY <1>3, <1>t, RemoteKept DEF LoseRedis, redisVars, readVars, TypeOK
  <1>4. ASSUME NEW c \in Calls, LoseReply(c) PROVE RemoteInv'
    <2>1. Pending(c) /\ Evaluate(c) /\ at' = at /\ by' = by /\ term' = term
          /\ pc' = [pc EXCEPT ![c] = "local"] /\ pc[c] = "remote"
      BY <1>4 DEF LoseReply, Pending
    <2>2. \A x \in Calls : (pc'[x] = "admitted" => pc[x] = "admitted") /\ (pc'[x] = "idle" => pc[x] = "idle")
      BY <2>1 DEF TypeOK
    <2>3. ASSUME NEW x \in AdmittedByRedis'
          PROVE  at'[x] + WindowSeconds <= expiry' /\ (Recent(x)' => member'[x] \in remote')
      <3>1. x \in AdmittedByRedis
        BY <2>1, <2>2, EvaluateKeeps DEF AdmittedByRedis
      <3>2. QED BY <3>1, <2>1, EvaluateKeeps DEF Recent
    <2>4. \A x \in sent' : pc'[x] # "idle"
      BY <2>1, EvaluateKeeps DEF RemoteInv, TypeOK
    <2>5. QED BY <2>1, <2>3, <2>4, EvaluateKeeps DEF RemoteInv
  <1>5. ASSUME NEW c \in Calls, DecideLocally(c) PROVE RemoteInv'
    <2>1. PICK k \in Nat, rest \in Seq(Calls) : LocalStep(c, k, rest)
      BY <1>5, LocalSteps
    <2>2. Decide(c, "window", lives[ProcessOf[c]], Len(rest) < Limit)
      BY <2>1 DEF LocalStep
    <2>3. by'[c] = "window" /\ \A x \in Calls : x # c => at'[x] = at[x] /\ by'[x] = by[x] /\ term'[x] = term[x] /\ pc'[x] = pc[x]
      BY <2>2 DEF Decide, TypeOK
    <2>4. UNCHANGED <<time, era, remote, expiry, sent, now, member>> /\ pc'[c] # "idle"
      BY <1>5, <2>2 DEF DecideLocally, redisVars, readVars, Decide, TypeOK
    <2>5. AdmittedByRedis' \subseteq AdmittedByRedis /\ c \notin AdmittedByRedis'
      BY <2>3, <2>4 DEF AdmittedByRedis
    <2>6. ASSUME NEW x \in AdmittedByRedis'
          PROVE  at'[x] + WindowSeconds <= expiry' /\ (Recent(x)' => member'[x] \in remote')
      <3>1. x \in AdmittedByRedis /\ at'[x] = at[x]
        BY <2>3, <2>5 DEF AdmittedByRedis
      <3>2. QED BY <3>1, <2>4 DEF Recent, RemoteInv
    <2>7. Members(sent)' = Members(sent)
      BY <2>4 DEF Members
    <2>8. \A x \in sent' : pc'[x] # "idle"
      BY <2>3, <2>4 DEF RemoteInv, TypeOK
    <2>9. \A x \in Calls : by'[x] = "redis" => term'[x] <= era'
      BY <2>3, <2>4 DEF RemoteInv
    <2>10. QED BY <2>4, <2>6, <2>7, <2>8, <2>9 DEF RemoteInv
  <1>6. CASE Tick
    <2>1. time' \in Nat /\ time <= time'
      BY <1>6, <1>t DEF Tick
    <2>2. QED BY <1>6, <2>1, RemoteKept DEF Tick, redisVars, readVars
  <1>7. CASE RedisChanges
    <2>1. CASE UNCHANGED <<era, remote, expiry>>
      BY <1>7, <2>1, <1>t, RemoteKept DEF RedisChanges, readVars
    <2>2. CASE era' = era + 1 /\ remote' = {} /\ expiry' = 0
      <3>1. UNCHANGED <<pc, at, by, term, sent>>
        BY <1>7 DEF RedisChanges, historyVars
      <3>2. AdmittedByRedis' = {}
        BY <2>2, <3>1 DEF AdmittedByRedis, RemoteInv, TypeOK
      <3>3. QED BY <2>2, <3>1, <3>2 DEF RemoteInv, TypeOK
    <2>3. QED BY <1>7, <2>1, <2>2 DEF RedisChanges
  <1>8. ASSUME NEW p \in Processes, Restart(p) PROVE RemoteInv'
    <2>1. \A x \in Calls : (pc'[x] = "admitted" => pc[x] = "admitted") /\ (pc'[x] = "idle" => pc[x] = "idle")
      BY <1>8 DEF Restart, TypeOK
    <2>2. QED BY <1>8, <2>1, <1>t, RemoteKept DEF Restart, redisVars, readVars
  <1>9. CASE UNCHANGED vars
    BY <1>9, <1>t, RemoteKept DEF vars, redisVars, readVars
  <1>10. QED BY <1>1, <1>2, <1>3, <1>4, <1>5, <1>6, <1>7, <1>8, <1>9 DEF Next, Allow

\* Redis holds every member it admitted recently, and nothing it was not sent.
THEOREM RemoteInvariant == Spec => []RemoteInv
  <1>1. Init => TypeOK /\ ClockInv /\ RemoteInv
    BY TypeInit, ClockInit, RemoteInit
  <1>2. TypeOK /\ ClockInv /\ RemoteInv /\ [Next]_vars => (TypeOK /\ ClockInv /\ RemoteInv)'
    BY TypeNext, ClockNext, RemoteNext
  <1>3. QED BY <1>1, <1>2, PTL DEF Spec

-------------------------------------------------------------------------

RecentRedis == {c \in AdmittedByRedis : Recent(c)}

\* A set of calls and the set of their members.
LEMMA MemberSets ==
  ASSUME TypeOK, NEW S \in SUBSET Calls
  PROVE  Members(S) \in SUBSET Calls
  BY DEF Members, TypeOK

LEMMA BoundInit == Init => RedisBound
  <1> SUFFICES ASSUME Init PROVE RedisBound
    OBVIOUS
  <1>1. Members({c \in AdmittedByRedis : Recent(c)}) = {}
    BY DEF Init, Members, AdmittedByRedis
  <1>2. QED BY <1>1, FS_EmptySet, Parameters DEF RedisBound

\* A step by which Redis admits no call.
LEMMA BoundKept ==
  ASSUME TypeOK, TypeOK', RedisBound, time <= time',
         \A x \in AdmittedByRedis' : x \in AdmittedByRedis /\ at'[x] = at[x] /\ member'[x] = member[x]
  PROVE  RedisBound'
  <1>1. RecentRedis' \subseteq RecentRedis
    <2>1. ASSUME NEW x \in RecentRedis' PROVE x \in RecentRedis
      <3>1. x \in AdmittedByRedis /\ at'[x] = at[x] /\ Recent(x)'
        BY DEF RecentRedis
      <3>2. at[x] \in Nat /\ time \in Nat /\ time' \in Nat
        BY <3>1 DEF AdmittedByRedis, TypeOK
      <3>3. Recent(x)
        BY <3>1, <3>2, Parameters DEF Recent
      <3>4. QED BY <3>1, <3>3 DEF RecentRedis
    <2>2. QED BY <2>1
  <1>2. Members(RecentRedis)' \subseteq Members(RecentRedis)
    BY <1>1 DEF Members, RecentRedis
  <1>3. RecentRedis \subseteq Calls
    BY DEF RecentRedis, AdmittedByRedis
  <1>4. Cardinality(Members(RecentRedis)') <= Cardinality(Members(RecentRedis))
    BY <1>2, <1>3, MemberSets, Monotone
  <1>5. Cardinality(Members(RecentRedis)) \in Nat /\ Cardinality(Members(RecentRedis)') \in Nat
    BY <1>2, <1>3, MemberSets, CallSets
  <1>6. QED BY <1>4, <1>5, Parameters DEF RedisBound, RecentRedis

LEMMA BoundNext ==
  TypeOK /\ TypeOK' /\ ClockInv /\ RemoteInv /\ RemoteInv' /\ RedisBound /\ [Next]_vars => RedisBound'
  <1> SUFFICES ASSUME TypeOK, TypeOK', ClockInv, RemoteInv, RemoteInv', RedisBound, [Next]_vars
               PROVE  RedisBound'
    OBVIOUS
  <1>t. time \in Nat
    BY DEF TypeOK
  <1>1. ASSUME NEW c \in Calls, ReadClock(c) PROVE RedisBound'
    <2>1. UNCHANGED <<time, era, at, by, term>>
      BY <1>1 DEF ReadClock, redisVars, historyVars
    <2>2. \A x \in Calls : x # c => pc'[x] = pc[x] /\ member'[x] = member[x]
      BY <1>1 DEF ReadClock, TypeOK
    <2>3. pc'[c] \in {"remote", "local"}
      BY <1>1 DEF ReadClock, TypeOK
    <2>4. \A x \in AdmittedByRedis' : x \in AdmittedByRedis /\ at'[x] = at[x] /\ member'[x] = member[x]
      BY <2>1, <2>2, <2>3 DEF AdmittedByRedis
    <2>5. QED BY <2>1, <2>4, <1>t, BoundKept
  <1>2. ASSUME NEW c \in Calls, AskRedis(c) PROVE RedisBound'
    <2>1. Pending(c) /\ Evaluate(c) /\ Decide(c, "redis", era, Cardinality(remote') <= Limit)
      BY <1>2 DEF AskRedis, Pending
    <2>2. UNCHANGED <<time, era, member>>
      BY <2>1 DEF Evaluate, readVars
    <2>3. \A x \in Calls : x # c => pc'[x] = pc[x] /\ at'[x] = at[x] /\ by'[x] = by[x] /\ term'[x] = term[x]
      BY <2>1 DEF Decide, TypeOK
    <2>4. CASE Cardinality(remote') <= Limit
      <3>1. Members(RecentRedis)' \subseteq remote'
        BY DEF RemoteInv, Members, RecentRedis
      <3>2. remote' \in SUBSET Calls
        BY DEF TypeOK
      <3>3. Cardinality(Members(RecentRedis)') <= Cardinality(remote')
        BY <3>1, <3>2, Monotone
      <3>4. Cardinality(Members(RecentRedis)') \in Nat /\ Cardinality(remote') \in Nat
        BY <3>1, <3>2, CallSets
      <3>5. QED BY <2>4, <3>3, <3>4, Parameters DEF RedisBound, RecentRedis
    <2>5. CASE ~(Cardinality(remote') <= Limit)
      <3>1. pc'[c] = "denied"
        BY <2>1, <2>5 DEF Decide, TypeOK
      <3>2. \A x \in AdmittedByRedis' : x \in AdmittedByRedis /\ at'[x] = at[x] /\ member'[x] = member[x]
        BY <2>2, <2>3, <3>1 DEF AdmittedByRedis
      <3>3. QED BY <2>2, <3>2, <1>t, BoundKept
    <2>6. QED BY <2>4, <2>5
  <1>3. ASSUME NEW c \in Calls, LoseRedis(c) \/ LoseReply(c) PROVE RedisBound'
    <2>1. UNCHANGED <<time, era, at, by, term, member>> /\ pc' = [pc EXCEPT ![c] = "local"]
      BY <1>3 DEF LoseRedis, LoseReply, Evaluate, redisVars, readVars, historyVars
    <2>2. \A x \in AdmittedByRedis' : x \in AdmittedByRedis
      BY <2>1 DEF AdmittedByRedis, TypeOK
    <2>3. QED BY <2>1, <2>2, <1>t, BoundKept
  <1>4. ASSUME NEW c \in Calls, DecideLocally(c) PROVE RedisBound'
    <2>1. PICK k \in Nat, rest \in Seq(Calls) : LocalStep(c, k, rest)
      BY <1>4, LocalSteps
    <2>2. Decide(c, "window", lives[ProcessOf[c]], Len(rest) < Limit)
      BY <2>1 DEF LocalStep
    <2>3. by'[c] = "window" /\ \A x \in Calls : x # c => at'[x] = at[x] /\ by'[x] = by[x] /\ term'[x] = term[x] /\ pc'[x] = pc[x]
      BY <2>2 DEF Decide, TypeOK
    <2>4. UNCHANGED <<time, era, member>>
      BY <1>4 DEF DecideLocally, redisVars, readVars
    <2>5. \A x \in AdmittedByRedis' : x \in AdmittedByRedis /\ at'[x] = at[x] /\ member'[x] = member[x]
      BY <2>3, <2>4 DEF AdmittedByRedis
    <2>6. QED BY <2>4, <2>5, <1>t, BoundKept
  <1>5. CASE Tick
    <2>1. UNCHANGED <<era, at, by, term, member, pc>> /\ time <= time'
      BY <1>5, <1>t DEF Tick, redisVars, readVars, historyVars
    <2>2. QED BY <2>1, BoundKept DEF AdmittedByRedis
  <1>6. CASE RedisChanges
    <2>1. UNCHANGED <<time, at, by, term, member, pc>>
      BY <1>6 DEF RedisChanges, readVars, historyVars
    <2>2. era' = era \/ era' = era + 1
      BY <1>6 DEF RedisChanges
    <2>3. \A x \in AdmittedByRedis' : x \in AdmittedByRedis
      BY <2>1, <2>2 DEF AdmittedByRedis, RemoteInv, TypeOK
    <2>4. QED BY <2>1, <2>3, <1>t, BoundKept
  <1>7. ASSUME NEW p \in Processes, Restart(p) PROVE RedisBound'
    <2>1. UNCHANGED <<time, era, at, by, term, member>>
      BY <1>7 DEF Restart, redisVars, readVars, historyVars
    <2>2. \A x \in Calls : pc'[x] = "admitted" => pc[x] = "admitted"
      BY <1>7 DEF Restart, TypeOK
    <2>3. \A x \in AdmittedByRedis' : x \in AdmittedByRedis
      BY <2>1, <2>2 DEF AdmittedByRedis
    <2>4. QED BY <2>1, <2>3, <1>t, BoundKept
  <1>8. CASE UNCHANGED vars
    <2>1. UNCHANGED <<time, era, at, by, term, member, pc>>
      BY <1>8 DEF vars, redisVars, readVars, historyVars
    <2>2. QED BY <2>1, <1>t, BoundKept DEF AdmittedByRedis
  <1>9. QED BY <1>1, <1>2, <1>3, <1>4, <1>5, <1>6, <1>7, <1>8 DEF Next, Allow

\* The processes together have at most Limit members admitted by Redis in any
\* window, less the delay, of an era of Redis.
THEOREM RedisNeverAdmitsTooMuch == Spec => []RedisBound
  <1>1. Init => TypeOK /\ ClockInv /\ RemoteInv /\ RedisBound
    BY TypeInit, ClockInit, RemoteInit, BoundInit
  <1>2. TypeOK /\ ClockInv /\ RemoteInv /\ RedisBound /\ [Next]_vars => (TypeOK /\ ClockInv /\ RemoteInv /\ RedisBound)'
    BY TypeNext, ClockNext, RemoteNext, BoundNext
  <1>3. QED BY <1>1, <1>2, PTL DEF Spec

-------------------------------------------------------------------------

LEMMA WindowInit == Init => WindowInv
  <1> SUFFICES ASSUME Init PROVE WindowInv
    OBVIOUS
  <1>1. \A c \in Calls : by[c] # "window" /\ pc[c] = "idle"
    BY DEF Init
  <1>2. ASSUME NEW p \in Processes PROVE WindowKept(p)
    <2>1. window[p] = <<>> /\ AdmittedByWindow(p, lives[p]) = {}
      BY <1>1 DEF Init, AdmittedByWindow
    <2>2. QED BY <2>1, Parameters DEF WindowKept
  <1>3. QED BY <1>1, <1>2 DEF WindowInv

\* A process whose window a step does not touch, and which admits nothing by it.
LEMMA WindowStays ==
  ASSUME TypeOK, time' \in Nat, time <= time', NEW p \in Processes, WindowKept(p),
         window'[p] = window[p], lives'[p] = lives[p],
         \A x \in AdmittedByWindow(p, lives[p]) : at'[x] = at[x],
         AdmittedByWindow(p, lives[p])' = AdmittedByWindow(p, lives[p])
  PROVE  WindowKept(p)'
  <1>1. ASSUME NEW x \in AdmittedByWindow(p, lives[p]), Recent(x)' PROVE Recent(x)
    <2>1. at[x] \in Nat /\ time \in Nat
      BY DEF AdmittedByWindow, TypeOK
    <2>2. QED BY <1>1, <2>1, Parameters DEF Recent
  <1>2. \A i \in DOMAIN window[p] : window[p][i] \in AdmittedByWindow(p, lives[p])
    BY DEF WindowKept
  <1>3. QED BY <1>1, <1>2 DEF WindowKept

\* A step that leaves the windows, the decisions and the lives alone.
LEMMA WindowsStay ==
  ASSUME TypeOK, WindowInv, UNCHANGED <<window, lives, at, by, term>>, time' \in Nat, time <= time',
         \A x \in Calls : pc'[x] = "admitted" <=> pc[x] = "admitted"
  PROVE  WindowInv'
  <1>1. ASSUME NEW p \in Processes PROVE WindowKept(p)'
    <2>1. AdmittedByWindow(p, lives[p])' = AdmittedByWindow(p, lives[p])
      BY DEF AdmittedByWindow
    <2>2. QED BY <2>1, WindowStays DEF WindowInv
  <1>2. QED BY <1>1 DEF WindowInv

\* What is left of a window of calls no older than the cutoff, with the call
\* that is admitted behind them.
LEMMA WindowStep ==
  ASSUME TypeOK, ClockInv, WindowInv, NEW c \in Calls, Pending(c), NEW k \in Nat, NEW rest \in Seq(Calls),
         LocalStep(c, k, rest), UNCHANGED <<time, lives>>
  PROVE  WindowKept(ProcessOf[c])'
  <1> DEFINE p == ProcessOf[c]
             w == window[p]
             A == AdmittedByWindow(p, lives[p])
  <1>p. p \in Processes
    BY CallsAssumption
  <1>w. w \in Seq(Calls) /\ Len(w) \in Nat /\ time \in Nat
    BY <1>p DEF TypeOK
  <1>1. Len(rest) = Len(w) - k /\ \A i \in 1..Len(rest) : rest[i] = w[k + i]
    BY DEF LocalStep
  <1>2. \A i \in 1..Len(rest) : k + i \in DOMAIN w
    BY <1>1, <1>w
  <1>3. WindowKept(p)
    BY <1>p DEF WindowInv
  <1>4. /\ \A x \in Calls : x # c => pc'[x] = pc[x] /\ at'[x] = at[x] /\ by'[x] = by[x] /\ term'[x] = term[x]
        /\ by'[c] = "window" /\ term'[c] = lives[p] /\ at'[c] = time
        /\ pc'[c] = IF Len(rest) < Limit THEN "admitted" ELSE "denied"
    BY DEF LocalStep, Decide, TypeOK
  <1>5. \A x \in A : x \in Calls /\ x # c /\ at'[x] = at[x] /\ at[x] <= time
    BY <1>4 DEF AdmittedByWindow, Pending, ClockInv
  <1>6. A \subseteq AdmittedByWindow(p, lives[p])'
    BY <1>4, <1>5 DEF AdmittedByWindow
  <1>7. AdmittedByWindow(p, lives[p])' \subseteq A \cup {c}
    BY <1>4 DEF AdmittedByWindow
  <1>8. \A i \in 1..Len(rest) : rest[i] \in A
    BY <1>1, <1>2, <1>3 DEF WindowKept
  <1>9. \A i, j \in 1..Len(rest) : i < j => rest[i] # rest[j] /\ at'[rest[i]] <= at'[rest[j]]
    <2>1. ASSUME NEW i \in 1..Len(rest), NEW j \in 1..Len(rest), i < j
          PROVE  rest[i] # rest[j] /\ at'[rest[i]] <= at'[rest[j]]
      <3>1. k + i \in DOMAIN w /\ k + j \in DOMAIN w /\ k + i < k + j
        BY <1>2, <2>1
      <3>2. w[k + i] # w[k + j] /\ at[w[k + i]] <= at[w[k + j]]
        BY <3>1, <1>3 DEF WindowKept
      <3>3. QED BY <3>2, <1>1, <1>5, <1>8
    <2>2. QED BY <2>1
  <1>10. ASSUME NEW x \in A, Recent(x) PROVE \E i \in 1..Len(rest) : rest[i] = x
    <2>1. PICK n \in DOMAIN w : w[n] = x
      BY <1>3, <1>10 DEF WindowKept
    <2>2. x \in Calls /\ now[x] \in Nat /\ at[x] \in Nat /\ now[c] \in Nat
      BY DEF AdmittedByWindow, TypeOK
    <2>3. at[x] <= now[x] + MaxDelay /\ now[c] <= time
      BY <2>2 DEF AdmittedByWindow, ClockInv
    <2>4. now[x] > now[c] - WindowSeconds
      BY <1>10, <2>2, <2>3, <1>w, Parameters DEF Recent
    <2>5. n \in 1..Len(w) /\ ~(n \in 1..k)
      <3>1. \A i \in 1..k : now[w[i]] <= now[c] - WindowSeconds
        BY DEF LocalStep, Popped
      <3>2. ~(now[x] <= now[c] - WindowSeconds)
        BY <2>2, <2>4, Parameters
      <3>3. n \in 1..Len(w)
        BY <2>1, <1>w
      <3>4. QED BY Zenon, <3>1, <3>2, <3>3, <2>1
    <2>6. n - k \in 1..Len(rest) /\ k + (n - k) = n
      BY <2>5, <1>1, <1>w
    <2>7. QED BY <2>1, <2>6, <1>1
  <1>11. \A x \in Calls : Recent(x)' /\ x # c => Recent(x)
    BY <1>4 DEF Recent
  <1>12. CASE Len(rest) < Limit
    <2> DEFINE new == Append(rest, c)
    <2>1. window'[p] = new
      BY <1>12, <1>p DEF LocalStep, TypeOK
    <2>2. /\ Len(new) = Len(rest) + 1 /\ new[Len(rest) + 1] = c
          /\ \A i \in 1..Len(rest) : new[i] = rest[i]
          /\ DOMAIN new = 1..(Len(rest) + 1)
      OBVIOUS
    <2>3. c \in AdmittedByWindow(p, lives[p])'
      BY <1>4, <1>12 DEF AdmittedByWindow
    <2>4. Len(new) <= Limit
      BY <2>2, <1>12, Parameters
    <2>5. \A i \in DOMAIN new : new[i] \in AdmittedByWindow(p, lives[p])'
      BY <2>2, <2>3, <1>6, <1>8
    <2>6. ASSUME NEW i \in DOMAIN new, NEW j \in DOMAIN new, i < j
          PROVE  new[i] # new[j] /\ at'[new[i]] <= at'[new[j]]
      <3>1. i \in 1..Len(rest)
        BY <2>2, <2>6
      <3>2. CASE j \in 1..Len(rest)
        BY <3>1, <3>2, <2>2, <2>6, <1>9
      <3>3. CASE j = Len(rest) + 1
        BY <3>1, <3>3, <2>2, <1>4, <1>5, <1>8
      <3>4. QED BY <3>2, <3>3, <2>2
    <2>7. ASSUME NEW x \in AdmittedByWindow(p, lives[p])', Recent(x)'
          PROVE  \E i \in DOMAIN new : new[i] = x
      <3>1. CASE x = c
        BY <3>1, <2>2
      <3>2. CASE x # c
        <4>1. x \in A /\ Recent(x)
          BY <3>2, <2>7, <1>5, <1>7, <1>11
        <4>2. QED BY <4>1, <1>10, <2>2
      <3>3. QED BY <3>1, <3>2
    <2> HIDE DEF new
    <2>8. QED BY <2>1, <2>4, <2>5, <2>6, <2>7 DEF WindowKept
  <1>13. CASE ~(Len(rest) < Limit)
    <2>1. window'[p] = rest
      BY <1>13, <1>p DEF LocalStep, TypeOK
    <2>2. c \notin AdmittedByWindow(p, lives[p])'
      BY <1>4, <1>13 DEF AdmittedByWindow
    <2>3. Len(rest) <= Limit
      BY <1>1, <1>3, <1>w, Parameters DEF WindowKept
    <2>4. \A i \in DOMAIN rest : rest[i] \in AdmittedByWindow(p, lives[p])'
      BY <1>6, <1>8
    <2>5. \A x \in AdmittedByWindow(p, lives[p])' : Recent(x)' => \E i \in DOMAIN rest : rest[i] = x
      BY <2>2, <1>5, <1>7, <1>10, <1>11
    <2>6. \A i, j \in DOMAIN rest : i < j => rest[i] # rest[j] /\ at'[rest[i]] <= at'[rest[j]]
      BY <1>9
    <2>7. QED BY <2>1, <2>3, <2>4, <2>5, <2>6 DEF WindowKept
  <1>14. QED BY <1>12, <1>13

LEMMA WindowNext == TypeOK /\ TypeOK' /\ ClockInv /\ WindowInv /\ [Next]_vars => WindowInv'
  <1> SUFFICES ASSUME TypeOK, TypeOK', ClockInv, WindowInv, [Next]_vars PROVE WindowInv'
    OBVIOUS
  <1>t. time \in Nat /\ time' \in Nat
    BY DEF TypeOK
  <1>p. \A c \in Calls : ProcessOf[c] \in Processes
    BY CallsAssumption
  <1>1. ASSUME NEW c \in Calls, ReadClock(c) PROVE WindowInv'
    <2>1. UNCHANGED <<time, window, lives, at, by, term>>
      BY <1>1 DEF ReadClock, processVars, historyVars
    <2>2. \A x \in Calls : pc'[x] = "admitted" <=> pc[x] = "admitted"
      BY <1>1 DEF ReadClock, TypeOK
    <2>3. QED BY <2>1, <2>2, <1>t, WindowsStay
  <1>2. ASSUME NEW c \in Calls, AskRedis(c) PROVE WindowInv'
    <2>1. Pending(c) /\ Evaluate(c) /\ Decide(c, "redis", era, Cardinality(remote') <= Limit)
      BY <1>2 DEF AskRedis, Pending
    <2>2. UNCHANGED <<time, window, lives>>
      BY <2>1 DEF Evaluate
    <2>3. by'[c] = "redis" /\ \A x \in Calls : x # c => at'[x] = at[x] /\ by'[x] = by[x] /\ term'[x] = term[x] /\ pc'[x] = pc[x]
      BY <2>1 DEF Decide, TypeOK
    <2>4. ASSUME NEW p \in Processes PROVE WindowKept(p)'
      <3>1. AdmittedByWindow(p, lives[p])' = AdmittedByWindow(p, lives[p])
        BY <2>1, <2>2, <2>3 DEF AdmittedByWindow, Pending
      <3>2. \A x \in AdmittedByWindow(p, lives[p]) : at'[x] = at[x]
        BY <2>1, <2>3 DEF AdmittedByWindow, Pending
      <3>3. QED BY <3>1, <3>2, <2>2, <1>t, WindowStays DEF WindowInv
    <2>5. \A x \in Calls : by'[x] = "window" => term'[x] <= lives'[ProcessOf[x]]
      BY <2>2, <2>3 DEF WindowInv
    <2>6. QED BY <2>4, <2>5 DEF WindowInv
  <1>3. ASSUME NEW c \in Calls, LoseRedis(c) \/ LoseReply(c) PROVE WindowInv'
    <2>1. UNCHANGED <<time, window, lives, at, by, term>>
      BY <1>3 DEF LoseRedis, LoseReply, Evaluate, historyVars
    <2>2. \A x \in Calls : pc'[x] = "admitted" <=> pc[x] = "admitted"
      BY <1>3 DEF LoseRedis, LoseReply, TypeOK
    <2>3. QED BY <2>1, <2>2, <1>t, WindowsStay
  <1>4. ASSUME NEW c \in Calls, DecideLocally(c) PROVE WindowInv'
    <2>1. PICK k \in Nat, rest \in Seq(Calls) : LocalStep(c, k, rest)
      BY <1>4, LocalSteps
    <2>2. UNCHANGED <<time, lives>> /\ Pending(c)
      BY <1>4 DEF DecideLocally, Pending
    <2>3. /\ by'[c] = "window" /\ term'[c] = lives[ProcessOf[c]]
          /\ \A x \in Calls : x # c => at'[x] = at[x] /\ by'[x] = by[x] /\ term'[x] = term[x] /\ pc'[x] = pc[x]
      BY <2>1 DEF LocalStep, Decide, TypeOK
    <2>4. ASSUME NEW p \in Processes, p # ProcessOf[c] PROVE WindowKept(p)'
      <3>1. window'[p] = window[p]
        BY <2>1, <2>4, <1>p DEF LocalStep, TypeOK
      <3>2. AdmittedByWindow(p, lives[p])' = AdmittedByWindow(p, lives[p])
        BY <2>2, <2>3, <2>4 DEF AdmittedByWindow
      <3>3. \A x \in AdmittedByWindow(p, lives[p]) : at'[x] = at[x]
        BY <2>3, <2>4 DEF AdmittedByWindow
      <3>4. QED BY <3>1, <3>2, <3>3, <2>2, <1>t, WindowStays DEF WindowInv
    <2>5. WindowKept(ProcessOf[c])'
      BY <2>1, <2>2, WindowStep
    <2>6. \A x \in Calls : by'[x] = "window" => term'[x] <= lives'[ProcessOf[x]]
      <3>1. lives[ProcessOf[c]] \in Nat
        BY <1>p DEF TypeOK
      <3>2. QED BY <3>1, <2>2, <2>3 DEF WindowInv
    <2>7. QED BY <2>4, <2>5, <2>6 DEF WindowInv
  <1>5. CASE Tick
    <2>1. UNCHANGED <<window, lives, at, by, term, pc>> /\ time <= time'
      BY <1>5, <1>t DEF Tick, processVars, historyVars
    <2>2. QED BY <2>1, <1>t, WindowsStay
  <1>6. CASE RedisChanges
    <2>1. UNCHANGED <<time, window, lives, at, by, term, pc>>
      BY <1>6 DEF RedisChanges, processVars, historyVars
    <2>2. QED BY <2>1, <1>t, WindowsStay
  <1>7. ASSUME NEW q \in Processes, Restart(q) PROVE WindowInv'
    <2>1. UNCHANGED <<time, at, by, term>>
      BY <1>7 DEF Restart, historyVars
    <2>2. \A x \in Calls : pc'[x] = "admitted" <=> pc[x] = "admitted"
      BY <1>7 DEF Restart, Pending, TypeOK
    <2>3. /\ window'[q] = <<>> /\ lives'[q] = lives[q] + 1
          /\ \A p \in Processes : p # q => window'[p] = window[p] /\ lives'[p] = lives[p]
      BY <1>7 DEF Restart, TypeOK
    <2>4. \A p \in Processes : lives[p] \in Nat
      BY DEF TypeOK
    <2>5. \A x \in Calls : by'[x] = "window" => term'[x] <= lives'[ProcessOf[x]]
      <3>1. ASSUME NEW x \in Calls, by'[x] = "window" PROVE term'[x] <= lives'[ProcessOf[x]]
        <4>1. term[x] <= lives[ProcessOf[x]] /\ term[x] \in Nat /\ ProcessOf[x] \in Processes
          BY <3>1, <2>1, <1>p DEF WindowInv, TypeOK
        <4>2. lives'[ProcessOf[x]] = lives[ProcessOf[x]] \/ lives'[ProcessOf[x]] = lives[ProcessOf[x]] + 1
          BY <4>1, <2>3
        <4>3. QED BY <4>1, <4>2, <2>1, <2>4
      <3>2. QED BY <3>1
    <2>6. ASSUME NEW p \in Processes, p # q PROVE WindowKept(p)'
      <3>1. AdmittedByWindow(p, lives[p])' = AdmittedByWindow(p, lives[p])
        BY <2>1, <2>2, <2>3, <2>6 DEF AdmittedByWindow
      <3>2. QED BY <3>1, <2>1, <2>3, <2>6, <1>t, WindowStays DEF WindowInv
    <2>7. WindowKept(q)'
      <3>1. AdmittedByWindow(q, lives[q])' = {}
        <4>1. \A x \in Calls : by[x] = "window" /\ ProcessOf[x] = q => term[x] \in Nat /\ term[x] <= lives[q]
          BY DEF WindowInv, TypeOK
        <4>2. \A x \in Calls : by[x] = "window" /\ ProcessOf[x] = q => term[x] # lives[q] + 1
          BY <4>1, <2>4
        <4>3. QED BY <4>2, <2>1, <2>3 DEF AdmittedByWindow
      <3>2. QED BY <3>1, <2>3, Parameters DEF WindowKept
    <2>8. QED BY <2>5, <2>6, <2>7 DEF WindowInv
  <1>8. CASE UNCHANGED vars
    <2>1. UNCHANGED <<time, window, lives, at, by, term, pc>>
      BY <1>8 DEF vars, processVars, historyVars
    <2>2. QED BY <2>1, <1>t, WindowsStay
  <1>9. QED BY <1>1, <1>2, <1>3, <1>4, <1>5, <1>6, <1>7, <1>8 DEF Next, Allow

\* Every window holds what its process admitted recently, at most Limit calls,
\* in the order of their decisions.
THEOREM WindowInvariant == Spec => []WindowInv
  <1>1. Init => TypeOK /\ ClockInv /\ WindowInv
    BY TypeInit, ClockInit, WindowInit
  <1>2. TypeOK /\ ClockInv /\ WindowInv /\ [Next]_vars => (TypeOK /\ ClockInv /\ WindowInv)'
    BY TypeNext, ClockNext, WindowNext
  <1>3. QED BY <1>1, <1>2, PTL DEF Spec

\* What the windows hold bounds what was admitted.
LEMMA WindowsBound == ASSUME TypeOK, WindowInv PROVE LocalBound
  <1> SUFFICES ASSUME NEW p \in Processes
               PROVE  Cardinality({c \in AdmittedByWindow(p, lives[p]) : Recent(c)}) <= Limit
    BY DEF LocalBound
  <1> DEFINE w == window[p]
             R == {w[i] : i \in DOMAIN w}
             S == {c \in AdmittedByWindow(p, lives[p]) : Recent(c)}
  <1>1. w \in Seq(Calls) /\ R \in SUBSET Calls
    BY DEF TypeOK
  <1>2. WindowKept(p)
    BY DEF WindowInv
  <1>3. S \subseteq R
    BY <1>2 DEF WindowKept
  <1>4. Cardinality(R) = Len(w)
    BY <1>1, <1>2, RangeCount DEF WindowKept
  <1>5. Cardinality(S) <= Cardinality(R)
    BY <1>1, <1>3, Monotone
  <1>6. Cardinality(S) \in Nat /\ Cardinality(R) \in Nat
    BY <1>1, <1>3, CallSets
  <1>7. Len(w) <= Limit
    BY <1>2 DEF WindowKept
  <1> HIDE DEF S, R, w
  <1>8. Cardinality(S) <= Limit
    BY <1>4, <1>5, <1>6, <1>7, Parameters
  <1>9. QED BY <1>8 DEF S

\* A process without Redis admits at most Limit calls in any window less the
\* delay, although late calls stand behind newer ones in its deque.
THEOREM WindowNeverAdmitsTooMuch == Spec => []LocalBound
  <1>1. TypeOK /\ WindowInv => LocalBound
    BY WindowsBound
  <1>2. QED BY <1>1, TypeInvariant, WindowInvariant, PTL

-------------------------------------------------------------------------

LEMMA EarnedInit == Init => DenialsEarned
  BY DEF Init, DenialsEarned

\* A denial stays earned: nothing that was sent or admitted is undone.
LEMMA EarnedStays ==
  ASSUME TypeOK, TypeOK', ClockInv, RemoteInv, NEW c \in Calls, pc[c] = "denied",
         IF by[c] = "redis" THEN RedisDenialEarned(c) ELSE LocalDenialEarned(c),
         by'[c] = by[c], term'[c] = term[c], now'[c] = now[c], sent \subseteq sent',
         \A x \in Calls : pc[x] # "idle" => now'[x] = now[x] /\ member'[x] = member[x],
         \A x \in Calls : pc[x] = "admitted" =>
             pc'[x] = "admitted" /\ at'[x] = at[x] /\ by'[x] = by[x] /\ term'[x] = term[x]
  PROVE  IF by'[c] = "redis" THEN RedisDenialEarned(c)' ELSE LocalDenialEarned(c)'
  <1>1. CASE by[c] = "redis"
    <2> DEFINE S == Members({d \in sent : now[d] > now[c] - WindowSeconds})
    <2>1. S \subseteq S'
      BY DEF Members, RemoteInv, TypeOK
    <2>2. S \in SUBSET Calls /\ S' \in SUBSET Calls
      <3>1. \A d \in sent : member[d] \in Calls
        BY DEF TypeOK
      <3>2. \A d \in sent' : member'[d] \in Calls
        BY DEF TypeOK
      <3>3. QED BY <3>1, <3>2 DEF Members
    <2>3. Cardinality(S) <= Cardinality(S') /\ Cardinality(S) \in Nat /\ Cardinality(S') \in Nat
      BY <2>1, <2>2, Monotone, CallSets
    <2>4. Cardinality(S) > Limit
      BY <1>1 DEF RedisDenialEarned
    <2> HIDE DEF S
    <2>5. Cardinality(S') > Limit
      BY <2>3, <2>4, Parameters
    <2>6. QED BY <1>1, <2>5 DEF RedisDenialEarned, S
  <1>2. CASE by[c] # "redis"
    <2> DEFINE S == {d \in AdmittedByWindow(ProcessOf[c], term[c]) : at[d] > now[c] - WindowSeconds}
    <2>1. S \subseteq S'
      BY DEF AdmittedByWindow
    <2>2. S \in SUBSET Calls /\ S' \in SUBSET Calls
      BY DEF AdmittedByWindow
    <2>3. Cardinality(S) <= Cardinality(S') /\ Cardinality(S) \in Nat /\ Cardinality(S') \in Nat
      BY <2>1, <2>2, Monotone, CallSets
    <2>4. Cardinality(S) >= Limit
      BY <1>2 DEF LocalDenialEarned
    <2> HIDE DEF S
    <2>5. Cardinality(S') >= Limit
      BY <2>3, <2>4, Parameters
    <2>6. QED BY <1>2, <2>5 DEF LocalDenialEarned, S
  <1>3. QED BY <1>1, <1>2

\* A step that denies no call.
LEMMA NoneDenied ==
  ASSUME TypeOK, TypeOK', ClockInv, RemoteInv, DenialsEarned, UNCHANGED <<at, by, term>>, sent \subseteq sent',
         \A x \in Calls : pc[x] # "idle" => now'[x] = now[x] /\ member'[x] = member[x],
         \A x \in Calls : pc'[x] = "denied" => pc[x] = "denied",
         \A x \in Calls : pc[x] = "admitted" => pc'[x] = "admitted"
  PROVE  DenialsEarned'
  <1> SUFFICES ASSUME NEW c \in Calls, pc'[c] = "denied"
               PROVE  IF by'[c] = "redis" THEN RedisDenialEarned(c)' ELSE LocalDenialEarned(c)'
    BY DEF DenialsEarned
  <1>1. pc[c] = "denied"
    OBVIOUS
  <1>2. IF by[c] = "redis" THEN RedisDenialEarned(c) ELSE LocalDenialEarned(c)
    BY <1>1 DEF DenialsEarned
  <1>3. QED BY <1>1, <1>2, EarnedStays

\* A call that Redis denies finds in the set only what it was sent in time.
LEMMA RedisDenies ==
  ASSUME TypeOK, TypeOK', ClockInv, ClockInv', RemoteInv, NEW c \in Calls, AskRedis(c), pc'[c] = "denied"
  PROVE  by'[c] = "redis" /\ RedisDenialEarned(c)'
  <1>1. Pending(c) /\ Evaluate(c) /\ Decide(c, "redis", era, Cardinality(remote') <= Limit)
    BY DEF AskRedis, Pending
  <1>2. by'[c] = "redis" /\ ~(Cardinality(remote') <= Limit)
    BY <1>1 DEF Decide, TypeOK
  <1> DEFINE S == {d \in sent : now[d] > now[c] - WindowSeconds}
  <1>3. remote' \subseteq Members(S)'
    <2>1. ASSUME NEW m \in remote' PROVE m \in Members(S)'
      <3>1. PICK d \in sent' : m = member'[d]
        BY <1>1, EvaluateKeeps DEF Members
      <3>2. now'[m] = now'[d]
        <4>1. d \in Calls /\ (d = c \/ d \in sent)
          BY <3>1, <1>1 DEF Evaluate, TypeOK
        <4>2. d # c => pc'[d] = pc[d]
          BY <1>1, <4>1 DEF Decide, TypeOK
        <4>3. pc'[d] # "idle"
          BY <4>1, <4>2 DEF RemoteInv
        <4>4. QED BY <3>1, <4>1, <4>3 DEF ClockInv
      <3>3. now'[m] > now'[c] - WindowSeconds
        BY <1>1, EvaluateKeeps
      <3>4. QED BY <3>1, <3>2, <3>3 DEF Members
    <2>2. QED BY <2>1
  <1>4. Members(S)' \in SUBSET Calls /\ remote' \in SUBSET Calls
    BY DEF Members, TypeOK
  <1>5. Cardinality(remote') <= Cardinality(Members(S)')
        /\ Cardinality(remote') \in Nat /\ Cardinality(Members(S)') \in Nat
    BY <1>3, <1>4, Monotone, CallSets
  <1>6. Cardinality(Members(S)') > Limit
    BY <1>2, <1>5, Parameters
  <1>7. QED BY <1>2, <1>6 DEF RedisDenialEarned

\* A call denied by a full window: all of it was decided after its oldest
\* entry had read the clock.
LEMMA WindowDenies ==
  ASSUME TypeOK, TypeOK', ClockInv, WindowInv, NEW c \in Calls, DecideLocally(c), pc'[c] = "denied"
  PROVE  by'[c] = "window" /\ LocalDenialEarned(c)'
  <1> DEFINE p == ProcessOf[c]
             w == window[p]
  <1>1. PICK k \in Nat, rest \in Seq(Calls) : LocalStep(c, k, rest)
    BY LocalSteps
  <1>p. p \in Processes /\ w \in Seq(Calls) /\ Len(w) \in Nat /\ now[c] \in Nat
    BY CallsAssumption DEF TypeOK
  <1>2. /\ by'[c] = "window" /\ term'[c] = lives[p] /\ ~(Len(rest) < Limit)
        /\ \A x \in Calls : x # c => pc'[x] = pc[x] /\ at'[x] = at[x] /\ by'[x] = by[x] /\ term'[x] = term[x]
    BY <1>1 DEF LocalStep, Decide, TypeOK
  <1>3. now' = now /\ pc[c] = "local"
    BY DEF DecideLocally, readVars
  <1>4. Len(rest) = Len(w) - k /\ \A i \in 1..Len(rest) : rest[i] = w[k + i] /\ k + i \in DOMAIN w
    BY <1>1, <1>p DEF LocalStep
  <1>5. WindowKept(p)
    BY <1>p DEF WindowInv
  <1> DEFINE R == {rest[i] : i \in DOMAIN rest}
             S == {d \in AdmittedByWindow(p, term[c]) : at[d] > now[c] - WindowSeconds}
  <1>6. ASSUME NEW i \in 1..Len(rest) PROVE rest[i] \in S'
    <2>1. rest[i] = w[k + i] /\ k + i \in DOMAIN w /\ k + 1 \in DOMAIN w /\ k < Len(w)
      BY <1>4, <1>p
    <2> DEFINE x == w[k + i]
               y == w[k + 1]
    <2>2. x \in AdmittedByWindow(p, lives[p]) /\ y \in AdmittedByWindow(p, lives[p])
      BY <2>1, <1>5 DEF WindowKept
    <2>3. x \in Calls /\ x # c /\ y \in Calls
      BY <2>2, <1>3 DEF AdmittedByWindow
    <2>4. at[x] \in Nat /\ at[y] \in Nat /\ now[y] \in Nat
      BY <2>3 DEF TypeOK
    <2>5. at[y] <= at[x]
      <3>1. CASE i = 1
        BY <3>1, <2>4
      <3>2. CASE i # 1
        <4>1. k + 1 < k + i
          BY <3>2
        <4>2. QED BY <4>1, <2>1, <1>5 DEF WindowKept
      <3>3. QED BY <3>1, <3>2
    <2>6. now[y] > now[c] - WindowSeconds
      BY <1>1, <2>1 DEF LocalStep, Popped
    <2>7. now[y] <= at[y]
      BY <2>2, <2>3 DEF AdmittedByWindow, ClockInv
    <2> HIDE DEF x, y
    <2>8. at[x] > now[c] - WindowSeconds
      BY <2>4, <2>5, <2>6, <2>7, <1>p, Parameters
    <2>9. x \in AdmittedByWindow(p, term[c])' /\ at'[x] = at[x]
      BY <2>2, <2>3, <1>2 DEF AdmittedByWindow
    <2>10. QED BY <2>1, <2>8, <2>9, <1>3 DEF x
  <1>7. Cardinality(R) = Len(rest)
    <2>1. ASSUME NEW i \in 1..Len(rest), NEW j \in 1..Len(rest), i < j PROVE rest[i] # rest[j]
      <3>1. k + i \in DOMAIN w /\ k + j \in DOMAIN w /\ k + i < k + j
        BY <1>4, <2>1
      <3>2. w[k + i] # w[k + j]
        BY <3>1, <1>5 DEF WindowKept
      <3>3. rest[i] = w[k + i] /\ rest[j] = w[k + j]
        BY <1>4
      <3>4. QED BY <3>2, <3>3
    <2>2. DOMAIN rest = 1..Len(rest)
      OBVIOUS
    <2>3. QED BY <2>1, <2>2, RangeCount
  <1>8. R \subseteq S' /\ S' \in SUBSET Calls
    BY <1>6 DEF AdmittedByWindow
  <1>9. Cardinality(R) <= Cardinality(S') /\ Cardinality(S') \in Nat
    BY <1>8, Monotone, CallSets
  <1> HIDE DEF R, S
  <1>10. Cardinality(S') >= Limit
    BY <1>2, <1>7, <1>9, Parameters
  <1>11. QED BY <1>2, <1>10 DEF LocalDenialEarned, S

LEMMA EarnedNext ==
  TypeOK /\ TypeOK' /\ ClockInv /\ ClockInv' /\ RemoteInv /\ WindowInv /\ DenialsEarned /\ [Next]_vars
    => DenialsEarned'
  <1> SUFFICES ASSUME TypeOK, TypeOK', ClockInv, ClockInv', RemoteInv, WindowInv, DenialsEarned, [Next]_vars
               PROVE  DenialsEarned'
    OBVIOUS
  <1>1. ASSUME NEW c \in Calls, ReadClock(c) PROVE DenialsEarned'
    <2>1. UNCHANGED <<at, by, term, sent>>
      BY <1>1 DEF ReadClock, historyVars
    <2>2. pc[c] = "idle" /\ pc'[c] \in {"remote", "local"}
          /\ \A x \in Calls : x # c => pc'[x] = pc[x] /\ now'[x] = now[x] /\ member'[x] = member[x]
      BY <1>1 DEF ReadClock, TypeOK
    <2>3. \A x \in Calls : pc[x] # "idle" => now'[x] = now[x] /\ member'[x] = member[x]
      BY <2>2
    <2>4. \A x \in Calls : pc'[x] = "denied" => pc[x] = "denied"
      BY <2>2
    <2>5. \A x \in Calls : pc[x] = "admitted" => pc'[x] = "admitted"
      BY <2>2
    <2>6. QED BY <2>1, <2>3, <2>4, <2>5, NoneDenied
  <1>2. ASSUME NEW c \in Calls, AskRedis(c) \/ DecideLocally(c) PROVE DenialsEarned'
    <2>1. PICK source \in {"redis", "window"}, n \in Nat, admitted \in BOOLEAN : Decide(c, source, n, admitted)
      <3>1. CASE AskRedis(c)
        <4>1. era \in Nat /\ (Cardinality(remote') <= Limit) \in BOOLEAN
          BY DEF TypeOK
        <4>2. QED BY <3>1, <4>1 DEF AskRedis
      <3>2. CASE DecideLocally(c)
        <4>1. PICK k \in Nat, rest \in Seq(Calls) : LocalStep(c, k, rest)
          BY <3>2, LocalSteps
        <4>2. lives[ProcessOf[c]] \in Nat /\ (Len(rest) < Limit) \in BOOLEAN
          BY CallsAssumption DEF TypeOK
        <4>3. QED BY <4>1, <4>2 DEF LocalStep
      <3>3. QED BY <1>2, <3>1, <3>2
    <2>2. /\ Pending(c) /\ sent \subseteq sent' /\ now' = now /\ member' = member
      BY <1>2 DEF AskRedis, DecideLocally, Evaluate, readVars, Pending
    <2>3. \A x \in Calls : x # c => pc'[x] = pc[x] /\ at'[x] = at[x] /\ by'[x] = by[x] /\ term'[x] = term[x]
      BY <2>1 DEF Decide, TypeOK
    <2>4. ASSUME NEW x \in Calls, pc'[x] = "denied"
          PROVE  IF by'[x] = "redis" THEN RedisDenialEarned(x)' ELSE LocalDenialEarned(x)'
      <3>1. CASE x = c
        BY <1>2, <2>4, <3>1, RedisDenies, WindowDenies
      <3>2. CASE x # c
        <4>1. pc[x] = "denied" /\ by'[x] = by[x] /\ term'[x] = term[x] /\ now'[x] = now[x]
          BY <2>2, <2>3, <2>4, <3>2
        <4>2. IF by[x] = "redis" THEN RedisDenialEarned(x) ELSE LocalDenialEarned(x)
          BY <4>1 DEF DenialsEarned
        <4>3. \A y \in Calls : pc[y] = "admitted" =>
                 pc'[y] = "admitted" /\ at'[y] = at[y] /\ by'[y] = by[y] /\ term'[y] = term[y]
          BY <2>2, <2>3 DEF Pending
        <4>4. \A y \in Calls : pc[y] # "idle" => now'[y] = now[y] /\ member'[y] = member[y]
          BY <2>2
        <4>5. QED BY <2>2, <4>1, <4>2, <4>3, <4>4, EarnedStays
      <3>3. QED BY <3>1, <3>2
    <2>5. QED BY <2>4 DEF DenialsEarned
  <1>3. ASSUME NEW c \in Calls, LoseRedis(c) \/ LoseReply(c) PROVE DenialsEarned'
    <2>1. UNCHANGED <<at, by, term, now, member>> /\ sent \subseteq sent'
      BY <1>3 DEF LoseRedis, LoseReply, Evaluate, readVars, historyVars
    <2>2. \A x \in Calls : pc'[x] = "denied" => pc[x] = "denied"
      BY <1>3 DEF LoseRedis, LoseReply, TypeOK
    <2>3. \A x \in Calls : pc[x] = "admitted" => pc'[x] = "admitted"
      BY <1>3 DEF LoseRedis, LoseReply, TypeOK
    <2>4. QED BY <2>1, <2>2, <2>3, NoneDenied
  <1>4. CASE Tick \/ RedisChanges \/ UNCHANGED vars
    <2>1. UNCHANGED <<at, by, term, now, member, sent, pc>>
      BY <1>4 DEF Tick, RedisChanges, vars, readVars, historyVars
    <2>2. QED BY <2>1, NoneDenied
  <1>5. ASSUME NEW p \in Processes, Restart(p) PROVE DenialsEarned'
    <2>1. UNCHANGED <<at, by, term, now, member, sent>>
      BY <1>5 DEF Restart, readVars, historyVars
    <2>2. \A x \in Calls : pc'[x] = "denied" => pc[x] = "denied"
      BY <1>5 DEF Restart, TypeOK
    <2>3. \A x \in Calls : pc[x] = "admitted" => pc'[x] = "admitted"
      BY <1>5 DEF Restart, Pending, TypeOK
    <2>4. QED BY <2>1, <2>2, <2>3, NoneDenied
  <1>6. QED BY <1>1, <1>2, <1>3, <1>4, <1>5 DEF Next, Allow

\* Every denial is for calls in the window of the denied call, counted by the
\* one that denied it.
THEOREM DenialsAreEarned == Spec => []DenialsEarned
  <1>1. Init => TypeOK /\ ClockInv /\ RemoteInv /\ WindowInv /\ DenialsEarned
    BY TypeInit, ClockInit, RemoteInit, WindowInit, EarnedInit
  <1>2. TypeOK /\ ClockInv /\ RemoteInv /\ WindowInv /\ DenialsEarned /\ [Next]_vars
          => (TypeOK /\ ClockInv /\ RemoteInv /\ WindowInv /\ DenialsEarned)'
    BY TypeNext, ClockNext, RemoteNext, WindowNext, EarnedNext
  <1>3. QED BY <1>1, <1>2, PTL DEF Spec
=========================================================================
