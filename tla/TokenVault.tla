--------------------------- MODULE TokenVault ---------------------------
(***************************************************************************)
(* TokenVault: redact_and_tokenize replaces the sensitive values of a text *)
(* by numbered tokens, and rehydrate puts them back.  Numbers and tokens   *)
(* come from a Redis shared by the vaults of all processes, or, once a     *)
(* vault's Redis call has failed, from its own RocksDB store.  Requests    *)
(* run in threads of one process with no lock: each Redis or store call is *)
(* a step.  All vaults read one key file, so encryption is left out.       *)
(***************************************************************************)
EXTENDS Integers, Sequences, FiniteSets

CONSTANTS
    Vaults,           \* one per process
    Jobs,             \* calls of redact_and_tokenize
    VaultOf,          \* the vault each is called on
    Values,           \* sensitive values
    EntityTypes,
    TypeOf,           \* the pattern each value matches
    TextOf,           \* the values a job's text holds, in the order matched
    Inside,           \* the pairs <<x, y>> of values with x's text in y's
    MaxRedisChanges,  \* bound: outages, recoveries and lost replies of Redis
    MaxRestarts       \* bound: restarts of a process

ASSUME JobsAssumption == VaultOf \in [Jobs -> Vaults] /\ TextOf \in [Jobs -> Seq(Values)]
ASSUME TypesAssumption == TypeOf \in [Values -> EntityTypes] /\ Inside \subseteq Values \X Values
ASSUME BoundsAssumption == {MaxRedisChanges, MaxRestarts} \subseteq Nat

VARIABLES
    up,        \* Redis answers
    counter,   \* tensormesh:token_counter in Redis
    shared,    \* the tokens in Redis, each with its value
    connected, \* which vaults have a Redis client left
    store,     \* the tokens in each vault's own store
    pc,        \* where each job is
    match,     \* how many matches of its text a job has replaced
    drawn,     \* the number drawn for the next one
    pieces,    \* per value of the text, the tokens in its place: of which value, and
               \* their number
    overlapped, \* history: whose calls have run two at once
    changes, restarts

redisVars == <<up, counter, shared, changes>>
jobVars == <<pc, match, drawn, pieces, overlapped>>
vars == <<redisVars, connected, store, jobVars, restarts>>

Token == EntityTypes \X Nat

Positions(j) == DOMAIN TextOf[j]

\* The value a job is about to replace.
Current(j) == TextOf[j][match[j] + 1]

TokenOf(x, n) == <<TypeOf[x], n>>

\* The tokens that stand in a job's text.
Standing(j) == UNION {pieces[j][k] : k \in Positions(j)}

\* A key-value map after a put.
Assign(f, key, x) == [k \in DOMAIN f \cup {key} |-> IF k = key THEN x ELSE f[k]]

Active == {j \in Jobs : pc[j] \in {"draw", "put"}}

-------------------------------------------------------------------------
Init ==
    /\ up \in BOOLEAN
    /\ counter = 0
    /\ shared = <<>>
    /\ connected = [v \in Vaults |-> up]
    /\ store = [v \in Vaults |-> <<>>]
    /\ pc = [j \in Jobs |-> "idle"]
    /\ match = [j \in Jobs |-> 0]
    /\ drawn = [j \in Jobs |-> 0]
    /\ pieces = [j \in Jobs |-> [k \in Positions(j) |-> {}]]
    /\ overlapped = [v \in Vaults |-> FALSE]
    /\ changes = 0
    /\ restarts = 0

Go(j, from, to) == pc[j] = from /\ pc' = [pc EXCEPT ![j] = to]

\* The first pattern is scanned for; a text with no match is returned as it is.
Begin(j) ==
    /\ Go(j, "idle", IF TextOf[j] = <<>> THEN "done" ELSE "draw")
    /\ overlapped' = [overlapped EXCEPT ![VaultOf[j]] = @ \/ \E i \in Active : VaultOf[i] = VaultOf[j]]
    /\ UNCHANGED <<redisVars, connected, store, match, drawn, pieces, restarts>>

\* Mutant: one is taken off twice.
DrawFromRedisLessTwo(j) ==
    /\ connected[VaultOf[j]] /\ up
    /\ Go(j, "draw", "put")
    /\ drawn' = [drawn EXCEPT ![j] = counter - 1]
    /\ counter' = counter + 1
    /\ UNCHANGED <<up, shared, changes, connected, store, match, pieces, overlapped, restarts>>

\* Mutant: Redis too is asked how many tokens it has.
DrawWithoutIncrement(j) ==
    /\ connected[VaultOf[j]] /\ up
    /\ Go(j, "draw", "put")
    /\ drawn' = [drawn EXCEPT ![j] = Cardinality(DOMAIN shared)]
    /\ UNCHANGED <<redisVars, connected, store, match, pieces, overlapped, restarts>>

\* INCR, minus one.
DrawFromRedis(j) ==
    /\ connected[VaultOf[j]] /\ up
    /\ Go(j, "draw", "put")
    /\ drawn' = [drawn EXCEPT ![j] = counter]
    /\ counter' = counter + 1
    /\ UNCHANGED <<up, shared, changes, connected, store, match, pieces, overlapped, restarts>>

\* Mutant: one too few, once the store has a token.
DrawLengthLessOne(j) ==
    /\ ~connected[VaultOf[j]]
    /\ Go(j, "draw", "put")
    /\ drawn' = [drawn EXCEPT ![j] =
           IF store[VaultOf[j]] = <<>> THEN 0 ELSE Cardinality(DOMAIN store[VaultOf[j]]) - 1]
    /\ UNCHANGED <<redisVars, connected, store, match, pieces, overlapped, restarts>>

\* The number of tokens the store has.
DrawFromStore(j) ==
    /\ ~connected[VaultOf[j]]
    /\ Go(j, "draw", "put")
    /\ drawn' = [drawn EXCEPT ![j] = Cardinality(DOMAIN store[VaultOf[j]])]
    /\ UNCHANGED <<redisVars, connected, store, match, pieces, overlapped, restarts>>

\* The text of x is that of y, or inside it.
Holds(y, x) == x = y \/ <<x, y>> \in Inside

\* Every occurrence of the current value x becomes its token, numbered n: where the
\* text holds x, and inside the longer values that hold it, of which the rest
\* stays.  Where such a value is already broken by another one, x may or may not
\* be left in it.  A value that was broken is matched all the same, and its token
\* replaces nothing.  Then the next match is taken up.
Replace(j, x, n) ==
    /\ \E again \in SUBSET {k \in Positions(j) :
                             /\ <<x, TextOf[j][k]>> \in Inside
                             /\ \A p \in pieces[j][k] : p[1] \notin {x, TextOf[j][k]}} :
           pieces' = [pieces EXCEPT ![j] = [k \in Positions(j) |->
               IF k \in again \/ (@[k] = {} /\ Holds(TextOf[j][k], x))
               THEN @[k] \cup {<<x, n>>} ELSE @[k]]]
    /\ match' = [match EXCEPT ![j] = @ + 1]
    /\ Go(j, "put", IF match[j] + 1 = Len(TextOf[j]) THEN "done" ELSE "draw")
    /\ UNCHANGED <<drawn, overlapped, restarts>>

\* Mutant: the text is redacted although Redis was never written.
PutInRedisLost(j, x, n) ==
    /\ connected[VaultOf[j]] /\ up
    /\ Replace(j, x, n)
    /\ UNCHANGED <<redisVars, connected, store>>

PutInRedis(j, x, n) ==
    /\ connected[VaultOf[j]] /\ up
    /\ shared' = Assign(shared, TokenOf(x, n), x)
    /\ Replace(j, x, n)
    /\ UNCHANGED <<up, counter, changes, connected, store>>

\* Mutant: the text is redacted although the store was never written.
PutInStoreLost(j, x, n) ==
    /\ ~connected[VaultOf[j]]
    /\ Replace(j, x, n)
    /\ UNCHANGED <<redisVars, connected, store>>

PutInStore(j, x, n) ==
    /\ ~connected[VaultOf[j]]
    /\ store' = [store EXCEPT ![VaultOf[j]] = Assign(@, TokenOf(x, n), x)]
    /\ Replace(j, x, n)
    /\ UNCHANGED <<redisVars, connected>>

\* Mutant: the exception is swallowed and the text returned.
StoreFailsQuietly(j) ==
    /\ ~connected[VaultOf[j]]
    /\ Go(j, "put", "done")
    /\ UNCHANGED <<redisVars, connected, store, match, drawn, pieces, overlapped, restarts>>

\* The store's put raises, and redact_and_tokenize with it.
StoreFails(j) ==
    /\ ~connected[VaultOf[j]]
    /\ Go(j, "put", "failed")
    /\ UNCHANGED <<redisVars, connected, store, match, drawn, pieces, overlapped, restarts>>

\* A Redis call raises: the vault gives up Redis for good, and the call goes
\* on with the store.
LoseRedis(j) ==
    /\ pc[j] \in {"draw", "put"}
    /\ connected[VaultOf[j]] /\ ~up
    /\ connected' = [connected EXCEPT ![VaultOf[j]] = FALSE]
    /\ UNCHANGED <<redisVars, store, jobVars, restarts>>

\* The same, of a call whose reply was lost after Redis had performed it.
LoseReply(j) ==
    /\ changes < MaxRedisChanges
    /\ changes' = changes + 1
    /\ connected[VaultOf[j]] /\ up
    /\ connected' = [connected EXCEPT ![VaultOf[j]] = FALSE]
    /\ \/ pc[j] = "draw" /\ counter' = counter + 1 /\ UNCHANGED shared
       \/ /\ pc[j] = "put"
          /\ \E x \in {Current(j)}, n \in {drawn[j]} : shared' = Assign(shared, TokenOf(x, n), x)
          /\ UNCHANGED counter
    /\ UNCHANGED <<up, store, jobVars, restarts>>

\* rehydrate finds Redis unreachable, and its vault gives it up.
RehydrateLosesRedis(v) ==
    /\ connected[v] /\ ~up
    /\ \E j \in Jobs : pc[j] = "done"
    /\ connected' = [connected EXCEPT ![v] = FALSE]
    /\ UNCHANGED <<redisVars, store, jobVars, restarts>>

RedisChanges ==
    /\ changes < MaxRedisChanges
    /\ changes' = changes + 1
    /\ up' = ~up
    /\ UNCHANGED <<counter, shared, connected, store, jobVars, restarts>>

\* A process restarts over its store, and connects to Redis if it answers.
RestartVault(v) ==
    /\ restarts < MaxRestarts
    /\ restarts' = restarts + 1
    /\ connected' = [connected EXCEPT ![v] = up]
    /\ pc' = [j \in Jobs |-> IF VaultOf[j] = v /\ j \in Active THEN "failed" ELSE pc[j]]
    /\ UNCHANGED <<redisVars, store, match, drawn, pieces, overlapped>>

Redact(j) ==
    \/ Begin(j)
    \/ DrawFromRedis(j)
    \/ DrawFromStore(j)
    \/ pc[j] = "put" /\ \E x \in {Current(j)}, n \in {drawn[j]} : PutInRedis(j, x, n) \/ PutInStore(j, x, n)
    \/ StoreFails(j)
    \/ LoseRedis(j)
    \/ LoseReply(j)

Next ==
    \/ \E j \in Jobs : Redact(j)
    \/ \E v \in Vaults : RestartVault(v) \/ RehydrateLosesRedis(v)
    \/ RedisChanges

Spec == Init /\ [][Next]_vars

-------------------------------------------------------------------------
(* Properties. *)

IsTokenMap(f) ==
    /\ DOMAIN f \subseteq Token
    /\ IsFiniteSet(DOMAIN f)
    /\ \A t \in DOMAIN f : f[t] \in Values

\* Every variable has its type.
TypeOK ==
    /\ up \in BOOLEAN
    /\ counter \in Nat
    /\ IsTokenMap(shared)
    /\ connected \in [Vaults -> BOOLEAN]
    /\ DOMAIN store = Vaults /\ \A v \in Vaults : IsTokenMap(store[v])
    /\ pc \in [Jobs -> {"idle", "draw", "put", "done", "failed"}]
    /\ match \in [Jobs -> Nat]
    /\ drawn \in [Jobs -> Nat]
    /\ DOMAIN pieces = Jobs
    /\ \A j \in Jobs : pieces[j] \in [Positions(j) -> SUBSET (Values \X Nat)]
    /\ overlapped \in [Vaults -> BOOLEAN]
    /\ changes \in Nat /\ restarts \in Nat

\* rehydrate: the value a token reads as in vault v, Redis before the store,
\* or nothing if neither has the token.
Rehydrated(v, t) ==
    IF connected[v] /\ up /\ t \in DOMAIN shared THEN {shared[t]}
    ELSE IF t \in DOMAIN store[v] THEN {store[v][t]} ELSE {}

Restores(v, j) == \A p \in Standing(j) : Rehydrated(v, TokenOf(p[1], p[2])) = {p[1]}

\* Redis has answered every call so far; or it was never there.
RedisSteady == up /\ changes = 0
OnlyFallback == ~up /\ changes = 0

\* While Redis answers, every vault restores every redacted text exactly, with
\* any number of calls under way in any number of processes that restart.
RoundTripAnywhere ==
    RedisSteady => \A j \in Jobs, v \in Vaults : pc[j] = "done" => Restores(v, j)

\* With the fallback alone, a vault whose calls never overlapped restores its
\* own texts exactly, through failed calls and restarts.
RoundTripHome ==
    OnlyFallback =>
        \A j \in Jobs : pc[j] = "done" /\ ~overlapped[VaultOf[j]] => Restores(VaultOf[j], j)

\* A token stands for the whole value, or for another value that is inside it
\* and was matched earlier.
Covered(j, k) ==
    /\ pieces[j][k] # {}
    /\ \/ \A p \in pieces[j][k] : p[1] = TextOf[j][k]
       \/ \E i \in 1..(k - 1) : <<TextOf[j][i], TextOf[j][k]>> \in Inside

\* No sensitive value is left as it was in a returned text, whatever fails, and
\* it is wholly a token unless an earlier match lies inside it: of "$1,000"
\* after "$1" the text keeps ",000".
NothingUnredacted ==
    \A j \in Jobs : pc[j] = "done" => \A k \in Positions(j) : Covered(j, k)

\* A token is recorded before it stands in a text, in Redis or in the store,
\* in the middle of any failover.
NoTokenDangles ==
    \A j \in Jobs : \A p \in Standing(j) :
        TokenOf(p[1], p[2]) \in DOMAIN shared \cup DOMAIN store[VaultOf[j]]

\* The docstring of rehydrate: tokens become their original values, so no
\* token becomes the value of another.
NoWrongValue ==
    \A j \in Jobs : pc[j] = "done" =>
        \A p \in Standing(j) : Rehydrated(VaultOf[j], TokenOf(p[1], p[2])) \subseteq {p[1]}

\* What makes NothingUnredacted inductive: the matches done so far are covered.
MatchesReplaced ==
    \A j \in Jobs :
        /\ pc[j] = "idle" => match[j] = 0
        /\ pc[j] \in {"draw", "put"} => match[j] < Len(TextOf[j])
        /\ pc[j] = "done" => match[j] = Len(TextOf[j])
        /\ \A k \in Positions(j) : k <= match[j] \/ pieces[j][k] # {} => Covered(j, k)

\* What makes RoundTripAnywhere inductive: Redis has handed out every number in
\* use once, to a token it has recorded or to one call that will record it.
NumbersUnique ==
    /\ \A t \in DOMAIN shared : t[2] < counter
    /\ \A j \in Jobs : pc[j] = "put" =>
           drawn[j] < counter /\ \A t \in DOMAIN shared : t[2] # drawn[j]
    /\ \A i, j \in Jobs : i # j /\ pc[i] = "put" /\ pc[j] = "put" => drawn[i] # drawn[j]

TokensRecorded ==
    \A j \in Jobs : \A p \in Standing(j) :
        TokenOf(p[1], p[2]) \in DOMAIN shared /\ shared[TokenOf(p[1], p[2])] = p[1]

SharedInv ==
    RedisSteady => (\A v \in Vaults : connected[v]) /\ NumbersUnique /\ TokensRecorded

\* What makes RoundTripHome inductive: a store of n tokens has numbered them
\* below n, and the one call under way has drawn n.
StoreNumbered(v) ==
    /\ \A t \in DOMAIN store[v] : t[2] < Cardinality(DOMAIN store[v])
    /\ \A j \in Jobs : VaultOf[j] = v /\ pc[j] = "put" => drawn[j] = Cardinality(DOMAIN store[v])
    /\ \A i, j \in Active : VaultOf[i] = v /\ VaultOf[j] = v => i = j

StoreRecorded(v) ==
    \A j \in Jobs : VaultOf[j] = v =>
        \A p \in Standing(j) :
            TokenOf(p[1], p[2]) \in DOMAIN store[v] /\ store[v][TokenOf(p[1], p[2])] = p[1]

FallbackInv ==
    OnlyFallback => \A v \in Vaults :
        ~connected[v] /\ (~overlapped[v] => StoreNumbered(v) /\ StoreRecorded(v))
=========================================================================
