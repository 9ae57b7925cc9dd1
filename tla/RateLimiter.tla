-------------------------- MODULE RateLimiter --------------------------
(***************************************************************************)
(* RateLimiter: DistributedRateLimiter.allow for one identifier, called by *)
(* threads of several processes.  A call reads the clock, then asks Redis, *)
(* which runs the script as one step on a sorted set all processes share;  *)
(* once a call to Redis has failed, its process decides by a window of its *)
(* own, under a lock.  What a call read and when it is decided differ by   *)
(* up to MaxDelay.  Windows of different identifiers share nothing.        *)
(***************************************************************************)
EXTENDS Integers, Sequences, FiniteSets

CONSTANTS
    Processes,
    Calls,            \* calls of allow
    ProcessOf,        \* the process each is made in
    Limit,
    WindowSeconds,
    MaxDelay,         \* how long a call may take, at most
    MaxTime,          \* bound: the clock
    MaxRedisChanges,  \* bound: outages, recoveries and lost replies of Redis
    MaxRestarts       \* bound: restarts of a process

ASSUME CallsAssumption == ProcessOf \in [Calls -> Processes] /\ IsFiniteSet(Calls)
ASSUME WindowAssumption == {Limit, MaxDelay} \subseteq Nat /\ WindowSeconds \in Nat \ {0}
ASSUME BoundsAssumption == {MaxTime, MaxRedisChanges, MaxRestarts} \subseteq Nat

VARIABLES
    time,
    up,        \* Redis answers
    era,       \* how often Redis has come back without its data
    remote,    \* the sorted set: the calls its members name, each scored by what it read
    expiry,    \* when Redis drops the set
    changes,
    connected, \* which processes have a Redis client left
    window,    \* each process's deque, in the order of its lock
    lives,     \* how often each process has been restarted
    restarts,
    pc,        \* where each call is
    now,       \* the time it read
    member,    \* the call its member names: itself, or one that read the same instant
    at,        \* history: when it was decided
    by,        \* history: what decided it
    term,      \* history: in which era of Redis, or life of its process
    sent       \* history: the calls whose script Redis has run

redisVars == <<up, era, remote, expiry, changes>>
processVars == <<connected, window, lives, restarts>>
readVars == <<now, member>>
historyVars == <<at, by, term, sent>>
vars == <<time, redisVars, processVars, pc, readVars, historyVars>>

Pending(c) == pc[c] \in {"remote", "local"}

\* The calls that read the clock at t.
ReadAt(t) == {c \in Calls : pc[c] # "idle" /\ now[c] = t}

Members(S) == {member[c] : c \in S}

\* The sorted set once expired members, and an expired set, are dropped.
Live(cutoff) == {c \in remote : time < expiry /\ now[c] > cutoff}

-------------------------------------------------------------------------

Init ==
    /\ time = 0
    /\ up \in BOOLEAN
    /\ era = 0 /\ remote = {} /\ expiry = 0 /\ changes = 0
    /\ connected = [p \in Processes |-> up]
    /\ window = [p \in Processes |-> <<>>]
    /\ lives = [p \in Processes |-> 0]
    /\ restarts = 0
    /\ pc = [c \in Calls |-> "idle"]
    /\ now = [c \in Calls |-> 0]
    /\ member = [c \in Calls |-> c]
    /\ at = [c \in Calls |-> 0]
    /\ by = [c \in Calls |-> "none"]
    /\ term = [c \in Calls |-> 0]
    /\ sent = {}

\* Mutant: the call keeps the cutoff, not the time.
ReadCutoff(c) ==
    /\ pc[c] = "idle"
    /\ pc' = [pc EXCEPT ![c] = IF connected[ProcessOf[c]] THEN "remote" ELSE "local"]
    /\ now' = [now EXCEPT ![c] = time - WindowSeconds]
    /\ \E m \in {c} \cup Members(ReadAt(time)) : member' = [member EXCEPT ![c] = m]
    /\ UNCHANGED <<time, redisVars, processVars, historyVars>>

\* The call reads the clock, then whether there is a client.  A member is the
\* time read and id(self): two threads may read one instant, and limiters of
\* two processes may have one id.
ReadClock(c) ==
    /\ pc[c] = "idle"
    /\ pc' = [pc EXCEPT ![c] = IF connected[ProcessOf[c]] THEN "remote" ELSE "local"]
    /\ now' = [now EXCEPT ![c] = time]
    /\ \E m \in {c} \cup Members(ReadAt(time)) : member' = [member EXCEPT ![c] = m]
    /\ UNCHANGED <<time, redisVars, processVars, historyVars>>

\* A call is decided, by Redis in an era or by a life of its process.
Decide(c, source, n, admitted) ==
    /\ pc' = [pc EXCEPT ![c] = IF admitted THEN "admitted" ELSE "denied"]
    /\ at' = [at EXCEPT ![c] = time]
    /\ by' = [by EXCEPT ![c] = source]
    /\ term' = [term EXCEPT ![c] = n]

\* Mutant: the set is given its time only when it is made.
EvaluateProlongsNot(c) ==
    /\ up
    /\ remote' = Live(now[c] - WindowSeconds) \cup {member[c]}
    /\ expiry' = IF time < expiry THEN expiry ELSE time + WindowSeconds
    /\ sent' = sent \cup {c}
    /\ UNCHANGED <<time, up, era, window, lives, restarts, readVars>>

\* Mutant: the cutoff is a second late.
EvaluateDropsEarly(c) ==
    /\ up
    /\ remote' = Live(now[c] - WindowSeconds + 1) \cup {member[c]}
    /\ expiry' = time + WindowSeconds
    /\ sent' = sent \cup {c}
    /\ UNCHANGED <<time, up, era, window, lives, restarts, readVars>>

\* The script: drop, add, prolong, count.  A denied call is added too.
Evaluate(c) ==
    /\ up
    /\ remote' = Live(now[c] - WindowSeconds) \cup {member[c]}
    /\ expiry' = time + WindowSeconds
    /\ sent' = sent \cup {c}
    /\ UNCHANGED <<time, up, era, window, lives, restarts, readVars>>

\* Redis answers, to a client that another thread may have given up since.
AskRedis(c) ==
    /\ pc[c] = "remote"
    /\ Evaluate(c)
    /\ Decide(c, "redis", era, Cardinality(remote') <= Limit)
    /\ UNCHANGED <<changes, connected>>

\* The process gives its client up for good: Redis is away, or another thread
\* has given it up already.
LoseRedis(c) ==
    /\ pc[c] = "remote"
    /\ ~up \/ ~connected[ProcessOf[c]]
    /\ pc' = [pc EXCEPT ![c] = "local"]
    /\ connected' = [connected EXCEPT ![ProcessOf[c]] = FALSE]
    /\ UNCHANGED <<time, redisVars, window, lives, restarts, readVars, historyVars>>

\* The script ran, and its answer is lost.
LoseReply(c) ==
    /\ pc[c] = "remote"
    /\ changes < MaxRedisChanges
    /\ changes' = changes + 1
    /\ Evaluate(c)
    /\ pc' = [pc EXCEPT ![c] = "local"]
    /\ connected' = [connected EXCEPT ![ProcessOf[c]] = FALSE]
    /\ UNCHANGED <<at, by, term>>

\* Mutant: an entry as old as the cutoff stays.
PoppedOlder(w, cutoff, k) ==
    /\ \A i \in 1..k : now[w[i]] < cutoff
    /\ k < Len(w) => now[w[k + 1]] >= cutoff

\* Mutant: the whole deque is dropped for one old entry.
PoppedAll(w, cutoff, k) ==
    k = IF \E i \in DOMAIN w : now[w[i]] <= cutoff THEN Len(w) ELSE 0

\* k is how many calls leave the head of a window, up to the first that is not
\* older than the cutoff.
Popped(w, cutoff, k) ==
    /\ \A i \in 1..k : now[w[i]] <= cutoff
    /\ k < Len(w) => now[w[k + 1]] > cutoff

\* Mutant: a full window takes one more.
DecideLocallyOneMore(c) ==
    /\ pc[c] = "local"
    /\ \E p \in {ProcessOf[c]} : \E k \in 0..Len(window[p]) :
        /\ Popped(window[p], now[c] - WindowSeconds, k)
        /\ \E rest \in {SubSeq(window[p], k + 1, Len(window[p]))} :
            /\ Decide(c, "window", lives[p], Len(rest) <= Limit)
            /\ window' = [window EXCEPT ![p] = IF Len(rest) <= Limit THEN Append(rest, c) ELSE rest]
    /\ UNCHANGED <<time, redisVars, connected, lives, restarts, readVars, sent>>

\* Under the lock: old entries leave the head; the call is denied if the window
\* is full, or else appended.
DecideLocally(c) ==
    /\ pc[c] = "local"
    /\ \E p \in {ProcessOf[c]} : \E k \in 0..Len(window[p]) :
        /\ Popped(window[p], now[c] - WindowSeconds, k)
        /\ \E rest \in {SubSeq(window[p], k + 1, Len(window[p]))} :
            /\ Decide(c, "window", lives[p], Len(rest) < Limit)
            /\ window' = [window EXCEPT ![p] = IF Len(rest) < Limit THEN Append(rest, c) ELSE rest]
    /\ UNCHANGED <<time, redisVars, connected, lives, restarts, readVars, sent>>

\* No call takes longer than MaxDelay.
Tick ==
    /\ time < MaxTime
    /\ \A c \in Calls : Pending(c) => time < now[c] + MaxDelay
    /\ time' = time + 1
    /\ UNCHANGED <<redisVars, processVars, pc, readVars, historyVars>>

\* Redis goes away, or comes back with its data; or it has restarted without,
\* which a client that asks nothing meanwhile does not notice.
RedisChanges ==
    /\ changes < MaxRedisChanges
    /\ changes' = changes + 1
    /\ \/ up' = ~up /\ UNCHANGED <<era, remote, expiry>>
       \/ up' = TRUE /\ era' = era + 1 /\ remote' = {} /\ expiry' = 0
    /\ UNCHANGED <<time, processVars, pc, readVars, historyVars>>

\* A process restarts: its calls and its window are gone, and it connects to
\* Redis if that answers.
Restart(p) ==
    /\ restarts < MaxRestarts
    /\ restarts' = restarts + 1
    /\ lives' = [lives EXCEPT ![p] = @ + 1]
    /\ connected' = [connected EXCEPT ![p] = up]
    /\ window' = [window EXCEPT ![p] = <<>>]
    /\ pc' = [c \in Calls |-> IF ProcessOf[c] = p /\ Pending(c) THEN "lost" ELSE pc[c]]
    /\ UNCHANGED <<time, redisVars, readVars, historyVars>>

Allow(c) ==
    \/ ReadClock(c)
    \/ AskRedis(c)
    \/ LoseRedis(c)
    \/ LoseReply(c)
    \/ DecideLocally(c)

Next ==
    \/ \E c \in Calls : Allow(c)
    \/ Tick
    \/ RedisChanges
    \/ \E p \in Processes : Restart(p)

Spec == Init /\ [][Next]_vars

-------------------------------------------------------------------------

\* The type of every variable: DistributedRateLimiter's fields, the sorted set
\* and where each call of allow is.
TypeOK ==
    /\ time \in Nat
    /\ up \in BOOLEAN /\ era \in Nat /\ remote \subseteq Calls /\ expiry \in Nat /\ changes \in Nat
    /\ connected \in [Processes -> BOOLEAN]
    /\ window \in [Processes -> Seq(Calls)]
    /\ lives \in [Processes -> Nat]
    /\ restarts \in Nat
    /\ pc \in [Calls -> {"idle", "remote", "local", "admitted", "denied", "lost"}]
    /\ now \in [Calls -> Nat]
    /\ member \in [Calls -> Calls]
    /\ at \in [Calls -> Nat]
    /\ by \in [Calls -> {"none", "redis", "window"}]
    /\ term \in [Calls -> Nat]
    /\ sent \subseteq Calls

\* The time in which a source admits no more than Limit: a call may have read
\* the clock MaxDelay before it was decided.
Recent(c) == at[c] > time - (WindowSeconds - MaxDelay)

AdmittedByRedis == {c \in Calls : pc[c] = "admitted" /\ by[c] = "redis" /\ term[c] = era}

AdmittedByWindow(p, n) ==
    {c \in Calls : pc[c] = "admitted" /\ by[c] = "window" /\ ProcessOf[c] = p /\ term[c] = n}

\* While Redis keeps its data the processes together have at most Limit members
\* admitted in any window, whatever order their delayed calls reach Redis in
\* and whichever of them fail over (two calls of one member count once).
RedisBound == Cardinality(Members({c \in AdmittedByRedis : Recent(c)})) <= Limit

\* A process without Redis admits at most Limit calls in any window, although
\* its deque is not in the order of the times in it.
LocalBound ==
    \A p \in Processes : Cardinality({c \in AdmittedByWindow(p, lives[p]) : Recent(c)}) <= Limit

\* Redis denies a call only for more than Limit members it was sent in the
\* window of that call, denied ones included.
RedisDenialEarned(c) ==
    Cardinality(Members({d \in sent : now[d] > now[c] - WindowSeconds})) > Limit

\* A process without Redis denies a call only for Limit calls that it admitted
\* itself, in the same life, since the window of that call began.
LocalDenialEarned(c) ==
    Cardinality({d \in AdmittedByWindow(ProcessOf[c], term[c]) : at[d] > now[c] - WindowSeconds}) >= Limit

\* No caller is denied for calls that have left the window, stay behind a newer
\* one in the deque, or were decided by somebody else.
DenialsEarned ==
    \A c \in Calls : pc[c] = "denied" =>
        IF by[c] = "redis" THEN RedisDenialEarned(c) ELSE LocalDenialEarned(c)

-------------------------------------------------------------------------

\* What a call has read is not after the present, nor more than the longest
\* delay before its decision; its member read the same time.
ClockInv ==
    \A c \in Calls :
        /\ now[c] <= time
        /\ pc[c] # "idle" => pc[member[c]] # "idle" /\ now[member[c]] = now[c]
        /\ Pending(c) => time <= now[c] + MaxDelay
        /\ pc[c] \in {"admitted", "denied"} => now[c] <= at[c] /\ at[c] <= now[c] + MaxDelay /\ at[c] <= time

\* Redis still holds what it admitted recently, and only what it was sent.
RemoteInv ==
    /\ remote \subseteq Members(sent)
    /\ \A c \in sent : pc[c] # "idle"
    /\ \A c \in Calls : by[c] = "redis" => term[c] <= era
    /\ \A c \in AdmittedByRedis : at[c] + WindowSeconds <= expiry /\ (Recent(c) => member[c] \in remote)

\* A deque holds each call once, in the order of their decisions, all of them
\* admitted in this life, the recent ones among them, and at most Limit.
WindowKept(p) ==
    /\ Len(window[p]) <= Limit
    /\ \A i \in DOMAIN window[p] : window[p][i] \in AdmittedByWindow(p, lives[p])
    /\ \A i, j \in DOMAIN window[p] :
        i < j => window[p][i] # window[p][j] /\ at[window[p][i]] <= at[window[p][j]]
    /\ \A c \in AdmittedByWindow(p, lives[p]) :
        Recent(c) => \E i \in DOMAIN window[p] : window[p][i] = c

\* No decision is of a life to come, and every deque is as it should be.
WindowInv ==
    /\ \A c \in Calls : by[c] = "window" => term[c] <= lives[ProcessOf[c]]
    /\ \A p \in Processes : WindowKept(p)
=========================================================================
