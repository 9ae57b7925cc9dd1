------------------------ MODULE TokenVaultProofs ------------------------
(***************************************************************************)
(* Theorems about TokenVault, for any number of vaults, calls and values:  *)
(* no value is left unredacted in a returned text, its tokens are recorded *)
(* whatever fails; and while Redis answers every vault restores it.        *)
(***************************************************************************)
EXTENDS TokenVault, FiniteSetTheorems, TLAPS

LEMMA AssignType ==
  ASSUME NEW f, IsTokenMap(f), NEW t \in Token, NEW x \in Values
  PROVE  IsTokenMap(Assign(f, t, x))
  <1>1. DOMAIN Assign(f, t, x) = DOMAIN f \cup {t}
    BY DEF Assign
  <1>2. IsFiniteSet(DOMAIN f \cup {t})
    BY FS_AddElement DEF IsTokenMap
  <1>3. QED BY <1>1, <1>2 DEF IsTokenMap, Assign

LEMMA SizeType == ASSUME NEW f, IsTokenMap(f) PROVE Cardinality(DOMAIN f) \in Nat
  BY FS_CardinalityType DEF IsTokenMap

\* The value a job is about to replace is one of its text's.
LEMMA CurrentType ==
  ASSUME NEW j \in Jobs, TypeOK, match[j] < Len(TextOf[j])
  PROVE  Current(j) \in Values /\ match[j] + 1 \in Positions(j) /\ Current(j) = TextOf[j][match[j] + 1]
  BY JobsAssumption DEF TypeOK, Current, Positions

LEMMA TokenType == ASSUME NEW x \in Values, NEW n \in Nat PROVE TokenOf(x, n) \in Token
  BY TypesAssumption DEF TokenOf, Token

\* MatchesReplaced goes with the types: it bounds what a job may still replace.
Typed == TypeOK /\ MatchesReplaced

\* What a replacement does to a position: nothing, or it adds the token of the
\* current value, at the value itself or inside a longer one that is not a token.
LEMMA ReplacePieces ==
  ASSUME Typed, NEW j \in Jobs, Replace(j, Current(j), drawn[j])
  PROVE  /\ DOMAIN pieces' = Jobs
         /\ \A i \in Jobs : i # j => pieces'[i] = pieces[i]
         /\ pieces'[j] = [k \in Positions(j) |-> pieces'[j][k]]
         /\ \A k \in Positions(j) :
                \/ /\ pieces'[j][k] = pieces[j][k]
                   /\ TextOf[j][k] = Current(j) => pieces[j][k] # {}
                \/ /\ pieces'[j][k] = pieces[j][k] \cup {<<Current(j), drawn[j]>>}
                   /\ \A p \in pieces[j][k] : p[1] # TextOf[j][k]
                   /\ \/ TextOf[j][k] = Current(j) /\ pieces[j][k] = {}
                      \/ <<Current(j), TextOf[j][k]>> \in Inside
  <1> DEFINE x == Current(j)
             Left == {k \in Positions(j) : /\ <<x, TextOf[j][k]>> \in Inside
                                          /\ \A p \in pieces[j][k] : p[1] \notin {x, TextOf[j][k]}}
  <1>1. PICK again \in SUBSET Left :
            pieces' = [pieces EXCEPT ![j] = [k \in Positions(j) |->
                IF k \in again \/ (pieces[j][k] = {} /\ Holds(TextOf[j][k], x))
                THEN pieces[j][k] \cup {<<x, drawn[j]>>} ELSE pieces[j][k]]]
    BY DEF Replace
  <1>2. DOMAIN pieces = Jobs
    BY DEF Typed, TypeOK
  <1>3. pieces'[j] = [k \in Positions(j) |->
                IF k \in again \/ (pieces[j][k] = {} /\ Holds(TextOf[j][k], x))
                THEN pieces[j][k] \cup {<<x, drawn[j]>>} ELSE pieces[j][k]]
    BY <1>1, <1>2
  <1>4. ASSUME NEW k \in Positions(j)
        PROVE  \/ /\ pieces'[j][k] = pieces[j][k]
                  /\ TextOf[j][k] = x => pieces[j][k] # {}
               \/ /\ pieces'[j][k] = pieces[j][k] \cup {<<x, drawn[j]>>}
                  /\ \A p \in pieces[j][k] : p[1] # TextOf[j][k]
                  /\ \/ TextOf[j][k] = x /\ pieces[j][k] = {}
                     \/ <<x, TextOf[j][k]>> \in Inside
    <2>1. CASE k \in again
      BY <1>3, <2>1
    <2>2. CASE k \notin again
      BY <1>3, <2>2 DEF Holds
    <2>3. QED BY <2>1, <2>2
  <1>5. pieces'[j] = [k \in Positions(j) |-> pieces'[j][k]]
    BY <1>3
  <1>6. DOMAIN pieces' = Jobs /\ \A i \in Jobs : i # j => pieces'[i] = pieces[i]
    BY <1>1, <1>2
  <1>7. QED BY <1>4, <1>5, <1>6

\* A replacement leaves no match done uncovered.
LEMMA ReplaceCovers ==
  ASSUME Typed, NEW j \in Jobs, pc[j] = "put", Replace(j, Current(j), drawn[j]),
         NEW k \in Positions(j), k <= match[j] + 1 \/ pieces'[j][k] # {}
  PROVE  Covered(j, k)'
  <1>1. /\ match[j] \in Nat /\ match[j] + 1 \in Positions(j) /\ k \in Nat \ {0}
        /\ Current(j) = TextOf[j][match[j] + 1]
    BY JobsAssumption DEF Typed, TypeOK, MatchesReplaced, Positions, Current
  <1>2. \/ /\ pieces'[j][k] = pieces[j][k]
           /\ TextOf[j][k] = Current(j) => pieces[j][k] # {}
        \/ /\ pieces'[j][k] = pieces[j][k] \cup {<<Current(j), drawn[j]>>}
           /\ \A p \in pieces[j][k] : p[1] # TextOf[j][k]
           /\ \/ TextOf[j][k] = Current(j) /\ pieces[j][k] = {}
              \/ <<Current(j), TextOf[j][k]>> \in Inside
    BY ReplacePieces
  <1>3. CASE pieces[j][k] # {}
    <2>1. Covered(j, k)
      BY <1>3 DEF Typed, MatchesReplaced
    <2>2. CASE pieces'[j][k] = pieces[j][k]
      BY <2>1, <2>2 DEF Covered
    <2>3. CASE \A p \in pieces[j][k] : p[1] # TextOf[j][k]
      BY <1>2, <1>3, <2>1, <2>3 DEF Covered
    <2>4. QED BY <1>2, <2>2, <2>3
  <1>4. CASE pieces[j][k] = {}
    <2>1. k > match[j]
      BY <1>1, <1>4 DEF Typed, MatchesReplaced, Covered
    <2>2. pieces'[j][k] = {<<Current(j), drawn[j]>>}
      <3>1. CASE k = match[j] + 1
        BY <1>1, <1>2, <1>4, <3>1
      <3>2. CASE k # match[j] + 1
        BY <1>1, <1>2, <1>4, <2>1, <3>2
      <3>3. QED BY <3>1, <3>2
    <2>3. CASE TextOf[j][k] = Current(j)
      BY <2>2, <2>3 DEF Covered
    <2>4. CASE TextOf[j][k] # Current(j)
      <3>1. <<TextOf[j][match[j] + 1], TextOf[j][k]>> \in Inside
        BY <1>1, <1>2, <1>4, <2>2, <2>4
      <3>2. match[j] + 1 \in 1..(k - 1)
        BY <1>1, <2>1, <2>4
      <3>3. QED BY <2>2, <3>1, <3>2 DEF Covered
    <2>5. QED BY <2>3, <2>4
  <1>5. QED BY <1>3, <1>4

\* What the put of job j's current value does to the text and the job.
LEMMA ReplaceKeeps ==
  ASSUME Typed, NEW j \in Jobs, Replace(j, Current(j), drawn[j])
  PROVE  /\ pc' \in [Jobs -> {"idle", "draw", "put", "done", "failed"}]
         /\ match' \in [Jobs -> Nat]
         /\ drawn' = drawn /\ restarts' = restarts /\ overlapped' = overlapped
         /\ DOMAIN pieces' = Jobs
         /\ \A i \in Jobs : pieces'[i] \in [Positions(i) -> SUBSET (Values \X Nat)]
         /\ MatchesReplaced'
  <1>1. /\ pc[j] = "put"
        /\ pc' = [pc EXCEPT ![j] = IF match[j] + 1 = Len(TextOf[j]) THEN "done" ELSE "draw"]
        /\ match' = [match EXCEPT ![j] = @ + 1]
        /\ drawn' = drawn /\ restarts' = restarts /\ overlapped' = overlapped
    BY DEF Replace, Go
  <1>2. match[j] < Len(TextOf[j]) /\ match[j] \in Nat /\ Len(TextOf[j]) \in Nat /\ drawn[j] \in Nat
    BY <1>1, JobsAssumption DEF Typed, MatchesReplaced, TypeOK
  <1>3. <<Current(j), drawn[j]>> \in Values \X Nat
    BY <1>2, CurrentType DEF Typed
  <1>4. /\ DOMAIN pieces' = Jobs /\ pieces'[j] = [k \in Positions(j) |-> pieces'[j][k]]
        /\ \A i \in Jobs : i # j => pieces'[i] = pieces[i] /\ pc'[i] = pc[i] /\ match'[i] = match[i]
    BY <1>1, ReplacePieces DEF Typed, TypeOK
  <1>5. ASSUME NEW i \in Jobs PROVE pieces'[i] \in [Positions(i) -> SUBSET (Values \X Nat)]
    <2>1. pieces[i] \in [Positions(i) -> SUBSET (Values \X Nat)]
      BY DEF Typed, TypeOK
    <2>2. CASE i # j
      BY <1>4, <2>1, <2>2
    <2>3. CASE i = j
      <3>1. ASSUME NEW k \in Positions(j) PROVE pieces'[j][k] \subseteq Values \X Nat
        <4>1. pieces[j][k] \subseteq Values \X Nat
          BY <2>1, <2>3
        <4>2. \/ pieces'[j][k] = pieces[j][k]
              \/ pieces'[j][k] = pieces[j][k] \cup {<<Current(j), drawn[j]>>}
          BY ReplacePieces
        <4>3. QED BY <1>3, <4>1, <4>2
      <3>2. QED BY <1>4, <2>3, <3>1
    <2>4. QED BY <2>2, <2>3
  <1>6. pc'[j] \in {"draw", "done"} /\ match'[j] = match[j] + 1
        /\ (pc'[j] = "done" <=> match[j] + 1 = Len(TextOf[j]))
    BY <1>1 DEF Typed, TypeOK
  <1>7. \A k \in Positions(j) : k <= match[j] + 1 \/ pieces'[j][k] # {} => Covered(j, k)'
    BY <1>1, ReplaceCovers
  <1>8. ASSUME NEW i \in Jobs
        PROVE  /\ pc'[i] = "idle" => match'[i] = 0
               /\ pc'[i] \in {"draw", "put"} => match'[i] < Len(TextOf[i])
               /\ pc'[i] = "done" => match'[i] = Len(TextOf[i])
               /\ \A k \in Positions(i) : k <= match'[i] \/ pieces'[i][k] # {} => Covered(i, k)'
    <2>1. CASE i = j
      BY <1>2, <1>6, <1>7, <2>1
    <2>2. CASE i # j
      BY <1>4, <2>2 DEF Typed, MatchesReplaced, Covered
    <2>3. QED BY <2>1, <2>2
  <1>9. MatchesReplaced'
    BY <1>8 DEF MatchesReplaced, Positions
  <1>10. QED BY <1>1, <1>4, <1>5, <1>9 DEF Typed, TypeOK

LEMMA TypedInit == Init => Typed
  <1> SUFFICES ASSUME Init PROVE Typed
    OBVIOUS
  <1>1. IsTokenMap(<<>>)
    BY FS_EmptySet DEF IsTokenMap
  <1>2. TypeOK
    BY <1>1 DEF Init, TypeOK
  <1>3. \A j \in Jobs : Positions(j) = 1..Len(TextOf[j])
    BY JobsAssumption DEF Positions
  <1>4. MatchesReplaced
    BY <1>3 DEF Init, MatchesReplaced
  <1>5. QED BY <1>2, <1>4 DEF Typed

\* A step of job j to a state of pc with its text left alone.
LEMMA MatchesKept ==
  ASSUME Typed, UNCHANGED <<match, pieces>>, NEW j \in Jobs,
         \/ pc[j] \in {"draw", "put"} /\ \E s \in {"draw", "put", "failed"} : pc' = [pc EXCEPT ![j] = s]
         \/ pc' = pc
  PROVE  MatchesReplaced'
  BY DEF Typed, TypeOK, MatchesReplaced, Covered, Positions

LEMMA TypedNext == Typed /\ [Next]_vars => Typed'
  <1> SUFFICES ASSUME Typed, [Next]_vars PROVE TypeOK' /\ MatchesReplaced'
    BY DEF Typed
  <1>t. TypeOK
    BY DEF Typed
  <1>1. ASSUME NEW j \in Jobs, Begin(j) PROVE TypeOK' /\ MatchesReplaced'
    <2>1. /\ UNCHANGED <<redisVars, connected, store, match, drawn, pieces, restarts>>
          /\ pc[j] = "idle"
          /\ pc' = [pc EXCEPT ![j] = IF TextOf[j] = <<>> THEN "done" ELSE "draw"]
      BY <1>1 DEF Begin, Go
    <2>o. overlapped' \in [Vaults -> BOOLEAN]
      BY <1>t, <1>1, JobsAssumption DEF Begin, TypeOK
    <2>2. TypeOK'
      BY <1>t, <2>1, <2>o DEF TypeOK, redisVars
    <2>3. \A i \in Jobs : Len(TextOf[i]) \in Nat /\ Positions(i) = 1..Len(TextOf[i])
      BY JobsAssumption DEF Positions
    <2>4. match[j] = 0
      BY <2>1 DEF Typed, MatchesReplaced
    <2>5. TextOf[j] # <<>> => match[j] < Len(TextOf[j])
      BY <2>4, JobsAssumption
    <2>6. TextOf[j] = <<>> => match[j] = Len(TextOf[j])
      BY <2>4
    <2>7. MatchesReplaced'
      BY <1>t, <2>1, <2>3, <2>5, <2>6 DEF Typed, MatchesReplaced, Covered, TypeOK
    <2>8. QED BY <2>2, <2>7
  <1>2. ASSUME NEW j \in Jobs, DrawFromRedis(j) PROVE TypeOK' /\ MatchesReplaced'
    <2>1. TypeOK'
      BY <1>t, <1>2 DEF DrawFromRedis, Go, TypeOK
    <2>2. QED BY <1>2, <2>1, MatchesKept DEF DrawFromRedis, Go
  <1>3. ASSUME NEW j \in Jobs, DrawFromStore(j) PROVE TypeOK' /\ MatchesReplaced'
    <2>1. Cardinality(DOMAIN store[VaultOf[j]]) \in Nat
      BY <1>t, SizeType, JobsAssumption DEF TypeOK
    <2>2. TypeOK'
      BY <1>t, <1>3, <2>1 DEF DrawFromStore, Go, TypeOK, redisVars
    <2>3. QED BY <1>3, <2>2, MatchesKept DEF DrawFromStore, Go
  <1>4. ASSUME NEW j \in Jobs, pc[j] = "put", PutInRedis(j, Current(j), drawn[j])
        PROVE  TypeOK' /\ MatchesReplaced'
    <2>1. Current(j) \in Values /\ TokenOf(Current(j), drawn[j]) \in Token
      BY <1>t, <1>4, CurrentType, TokenType DEF Typed, MatchesReplaced, TypeOK
    <2>2. IsTokenMap(shared')
      BY <1>t, <1>4, <2>1, AssignType DEF PutInRedis, TypeOK
    <2>3. QED BY <1>t, <1>4, <2>2, ReplaceKeeps DEF PutInRedis, TypeOK
  <1>5. ASSUME NEW j \in Jobs, pc[j] = "put", PutInStore(j, Current(j), drawn[j])
        PROVE  TypeOK' /\ MatchesReplaced'
    <2>1. Current(j) \in Values /\ TokenOf(Current(j), drawn[j]) \in Token
      BY <1>t, <1>5, CurrentType, TokenType DEF Typed, MatchesReplaced, TypeOK
    <2>2. DOMAIN store' = Vaults /\ \A v \in Vaults : IsTokenMap(store'[v])
      <3>1. store' = [store EXCEPT ![VaultOf[j]] =
                          Assign(store[VaultOf[j]], TokenOf(Current(j), drawn[j]), Current(j))]
        BY <1>5 DEF PutInStore
      <3>2. VaultOf[j] \in Vaults
        BY JobsAssumption
      <3>3. IsTokenMap(Assign(store[VaultOf[j]], TokenOf(Current(j), drawn[j]), Current(j)))
        BY <1>t, <2>1, <3>2, AssignType DEF TypeOK
      <3>4. QED BY <1>t, <3>1, <3>2, <3>3 DEF TypeOK
    <2>3. QED BY <1>t, <1>5, <2>2, ReplaceKeeps DEF PutInStore, TypeOK, redisVars
  <1>6. ASSUME NEW j \in Jobs, StoreFails(j) PROVE TypeOK' /\ MatchesReplaced'
    <2>1. TypeOK'
      BY <1>t, <1>6 DEF StoreFails, Go, TypeOK, redisVars
    <2>2. QED BY <1>6, <2>1, MatchesKept DEF StoreFails, Go
  <1>7. ASSUME NEW j \in Jobs, LoseRedis(j) PROVE TypeOK' /\ MatchesReplaced'
    <2>1. TypeOK'
      BY <1>t, <1>7 DEF LoseRedis, TypeOK, redisVars, jobVars
    <2>2. QED BY <1>7, <2>1, MatchesKept DEF LoseRedis, jobVars
  <1>8. ASSUME NEW j \in Jobs, LoseReply(j) PROVE TypeOK' /\ MatchesReplaced'
    <2>1. IsTokenMap(shared')
      <3>1. CASE pc[j] = "put"
        <4>1. Current(j) \in Values /\ TokenOf(Current(j), drawn[j]) \in Token
          BY <1>t, <3>1, CurrentType, TokenType DEF Typed, MatchesReplaced, TypeOK
        <4>2. IsTokenMap(Assign(shared, TokenOf(Current(j), drawn[j]), Current(j)))
          BY <1>t, <4>1, AssignType DEF TypeOK
        <4>3. QED BY <1>8, <3>1, <4>2 DEF LoseReply
      <3>2. CASE pc[j] # "put"
        BY <1>t, <1>8, <3>2 DEF LoseReply, TypeOK
      <3>3. QED BY <3>1, <3>2
    <2>2. counter' \in Nat
      BY <1>t, <1>8 DEF LoseReply, TypeOK
    <2>a. /\ UNCHANGED <<up, store, pc, match, drawn, pieces, overlapped, restarts>>
          /\ changes' = changes + 1 /\ connected' = [connected EXCEPT ![VaultOf[j]] = FALSE]
      BY <1>8 DEF LoseReply, jobVars
    <2>b. connected' \in [Vaults -> BOOLEAN]
      BY <1>t, <2>a DEF TypeOK
    <2>c. changes' \in Nat
      BY <1>t, <2>a DEF TypeOK
    <2>3. TypeOK'
      BY <1>t, <2>1, <2>2, <2>a, <2>b, <2>c DEF TypeOK
    <2>4. QED BY <1>8, <2>3, MatchesKept DEF LoseReply, jobVars
  <1>9. ASSUME NEW v \in Vaults, RehydrateLosesRedis(v) PROVE TypeOK' /\ MatchesReplaced'
    BY <1>t, <1>9 DEF RehydrateLosesRedis, TypeOK, Typed, MatchesReplaced, Covered, redisVars, jobVars, Positions
  <1>10. ASSUME NEW v \in Vaults, RestartVault(v) PROVE TypeOK' /\ MatchesReplaced'
    <2>1. TypeOK'
      BY <1>t, <1>10 DEF RestartVault, TypeOK, redisVars
    <2>2. \A i \in Jobs : pc'[i] \in {pc[i], "failed"}
      BY <1>t, <1>10 DEF RestartVault, TypeOK
    <2>3. UNCHANGED <<match, pieces>>
      BY <1>10 DEF RestartVault
    <2>4. MatchesReplaced'
      BY <2>2, <2>3 DEF Typed, MatchesReplaced, Covered, Positions
    <2>5. QED BY <2>1, <2>4
  <1>11. ASSUME RedisChanges PROVE TypeOK' /\ MatchesReplaced'
    <2>1. TypeOK'
      BY <1>t, <1>11 DEF RedisChanges, TypeOK, jobVars
    <2>2. UNCHANGED <<pc, match, pieces>>
      BY <1>11 DEF RedisChanges, jobVars
    <2>3. QED BY <2>1, <2>2 DEF Typed, MatchesReplaced, Covered, Positions
  <1>12. ASSUME UNCHANGED vars PROVE TypeOK' /\ MatchesReplaced'
    <2>1. TypeOK'
      BY <1>t, <1>12 DEF vars, redisVars, jobVars, TypeOK
    <2>2. UNCHANGED <<pc, match, pieces>>
      BY <1>12 DEF vars, jobVars
    <2>3. QED BY <2>1, <2>2 DEF Typed, MatchesReplaced, Covered, Positions
  <1>13. QED
    BY <1>1, <1>2, <1>3, <1>4, <1>5, <1>6, <1>7, <1>8, <1>9, <1>10, <1>11, <1>12 DEF Next, Redact

\* Type correctness, for every value of the constants.
THEOREM TypeInvariant == Spec => []TypeOK
  <1>1. Typed => TypeOK
    BY DEF Typed
  <1>2. QED BY <1>1, TypedInit, TypedNext, PTL DEF Spec

\* In a text that redact_and_tokenize returns no sensitive value is left as it
\* was, and only one with an earlier match inside it is not wholly a token,
\* through outages of Redis in the middle of a call, failed puts and restarts.
THEOREM NothingStaysUnredacted == Spec => []NothingUnredacted
  <1>1. Typed => NothingUnredacted
    BY JobsAssumption DEF Typed, MatchesReplaced, NothingUnredacted, Positions, TypeOK
  <1>2. QED BY <1>1, TypedInit, TypedNext, PTL DEF Spec

-------------------------------------------------------------------------

\* A put adds no token to a text but the one just recorded.
LEMMA ReplaceAdds ==
  ASSUME Typed, NEW j \in Jobs, Replace(j, Current(j), drawn[j]), NEW i \in Jobs, NEW p \in Standing(i)'
  PROVE  p \in Standing(i) \/ (i = j /\ p = <<Current(j), drawn[j]>>)
  <1>1. PICK k \in Positions(i) : p \in pieces'[i][k]
    BY DEF Standing, Positions
  <1>2. CASE i = j
    <2>1. \/ pieces'[j][k] = pieces[j][k]
          \/ pieces'[j][k] = pieces[j][k] \cup {<<Current(j), drawn[j]>>}
      BY <1>2, ReplacePieces
    <2>2. QED BY <1>1, <1>2, <2>1 DEF Standing
  <1>3. CASE i # j
    <2>1. pieces'[i] = pieces[i]
      BY <1>3, ReplacePieces
    <2>2. QED BY <1>1, <2>1 DEF Standing
  <1>4. QED BY <1>2, <1>3

\* No step but a put touches a text or takes a token away.
LEMMA TokensStay ==
  ASSUME NoTokenDangles, pieces' = pieces,
         DOMAIN shared \subseteq DOMAIN shared',
         \A v \in Vaults : DOMAIN store[v] \subseteq DOMAIN store'[v]
  PROVE  NoTokenDangles'
  <1>1. \A j \in Jobs : VaultOf[j] \in Vaults
    BY JobsAssumption
  <1>2. QED BY <1>1 DEF NoTokenDangles, Standing, Positions

LEMMA DanglesNext == Typed /\ NoTokenDangles /\ [Next]_vars => NoTokenDangles'
  <1> SUFFICES ASSUME Typed, NoTokenDangles, [Next]_vars PROVE NoTokenDangles'
    OBVIOUS
  <1>1. ASSUME NEW j \in Jobs, pc[j] = "put", PutInRedis(j, Current(j), drawn[j])
        PROVE  NoTokenDangles'
    <2>1. /\ DOMAIN shared' = DOMAIN shared \cup {TokenOf(Current(j), drawn[j])}
          /\ store' = store /\ Replace(j, Current(j), drawn[j])
      BY <1>1 DEF PutInRedis, Assign
    <2>2. ASSUME NEW i \in Jobs, NEW p \in Standing(i)'
          PROVE  TokenOf(p[1], p[2]) \in DOMAIN shared' \cup DOMAIN store'[VaultOf[i]]
      <3>1. CASE p \in Standing(i)
        BY <2>1, <3>1 DEF NoTokenDangles
      <3>2. CASE i = j /\ p = <<Current(j), drawn[j]>>
        BY <2>1, <3>2
      <3>3. QED BY <2>1, <2>2, <3>1, <3>2, ReplaceAdds
    <2>3. QED BY <2>2 DEF NoTokenDangles
  <1>2. ASSUME NEW j \in Jobs, pc[j] = "put", PutInStore(j, Current(j), drawn[j])
        PROVE  NoTokenDangles'
    <2>1. store' = [store EXCEPT ![VaultOf[j]] =
                        Assign(store[VaultOf[j]], TokenOf(Current(j), drawn[j]), Current(j))]
      BY <1>2 DEF PutInStore
    <2>2. VaultOf \in [Jobs -> Vaults] /\ DOMAIN store = Vaults
      BY JobsAssumption DEF Typed, TypeOK
    <2>3. DOMAIN store'[VaultOf[j]] = DOMAIN store[VaultOf[j]] \cup {TokenOf(Current(j), drawn[j])}
      BY <2>1, <2>2 DEF Assign
    <2>4. \A v \in Vaults : DOMAIN store[v] \subseteq DOMAIN store'[v]
      BY <2>1, <2>2, <2>3
    <2>5. shared' = shared /\ Replace(j, Current(j), drawn[j])
      BY <1>2 DEF PutInStore, redisVars
    <2>6. ASSUME NEW i \in Jobs, NEW p \in Standing(i)'
          PROVE  TokenOf(p[1], p[2]) \in DOMAIN shared' \cup DOMAIN store'[VaultOf[i]]
      <3>1. CASE p \in Standing(i)
        BY <2>2, <2>4, <2>5, <3>1 DEF NoTokenDangles
      <3>2. CASE i = j /\ p = <<Current(j), drawn[j]>>
        BY <2>3, <3>2
      <3>3. QED BY <2>5, <2>6, <3>1, <3>2, ReplaceAdds
    <2>7. QED BY <2>6 DEF NoTokenDangles
  <1>3. ASSUME NEW j \in Jobs, LoseReply(j) PROVE NoTokenDangles'
    <2>1. pieces' = pieces /\ store' = store
      BY <1>3 DEF LoseReply, jobVars
    <2>2. DOMAIN shared \subseteq DOMAIN shared'
      BY <1>3 DEF LoseReply, Assign
    <2>3. QED BY <2>1, <2>2, TokensStay
  <1>4. ASSUME NEW j \in Jobs,
               Begin(j) \/ DrawFromRedis(j) \/ DrawFromStore(j) \/ StoreFails(j) \/ LoseRedis(j)
        PROVE  NoTokenDangles'
    BY <1>4, TokensStay
       DEF Begin, DrawFromRedis, DrawFromStore, StoreFails, LoseRedis, redisVars, jobVars
  <1>5. ASSUME RedisChanges \/ UNCHANGED vars \/ \E v \in Vaults : RestartVault(v) \/ RehydrateLosesRedis(v)
        PROVE  NoTokenDangles'
    BY <1>5, TokensStay
       DEF RedisChanges, vars, RestartVault, RehydrateLosesRedis, redisVars, jobVars
  <1>6. QED BY <1>1, <1>2, <1>3, <1>4, <1>5 DEF Next, Redact

\* No token stands in a text at first.
LEMMA NoneStands == Init => \A j \in Jobs : Standing(j) = {}
  BY DEF Init, Standing, Positions

LEMMA DanglesInit == Init => NoTokenDangles
  BY NoneStands DEF NoTokenDangles

\* Every token in a text is recorded, in Redis or in the store of the vault
\* that put it there, at every moment of any failover.
THEOREM TokensNeverDangle == Spec => []NoTokenDangles
  <1>1. QED BY TypedInit, TypedNext, DanglesInit, DanglesNext, PTL DEF Spec

-------------------------------------------------------------------------
(* While Redis answers, and while it was never there. *)

\* Redis neither goes nor comes back while it is steady, nor while it is absent.
LEMMA ChangesGrow ==
  ASSUME Typed, [Next]_vars
  PROVE  /\ RedisSteady' => RedisSteady
         /\ OnlyFallback' => OnlyFallback
         /\ changes' = 0 => changes = 0 /\ up' = up
  <1>t. changes \in Nat
    BY DEF Typed, TypeOK
  <1>1. \/ changes' = changes + 1
        \/ changes' = changes /\ up' = up
    <2>1. ASSUME NEW j \in Jobs, NEW x, NEW n, PutInRedis(j, x, n) \/ PutInStore(j, x, n)
          PROVE  changes' = changes /\ up' = up
      BY <2>1 DEF PutInRedis, PutInStore, redisVars
    <2>2. ASSUME NEW j \in Jobs,
                 Begin(j) \/ DrawFromRedis(j) \/ DrawFromStore(j) \/ StoreFails(j) \/ LoseRedis(j)
          PROVE  changes' = changes /\ up' = up
      BY <2>2 DEF Begin, DrawFromRedis, DrawFromStore, StoreFails, LoseRedis, redisVars
    <2>3. ASSUME NEW j \in Jobs, LoseReply(j) PROVE changes' = changes + 1
      BY <2>3 DEF LoseReply
    <2>4. ASSUME NEW v \in Vaults, RestartVault(v) \/ RehydrateLosesRedis(v)
          PROVE  changes' = changes /\ up' = up
      BY <2>4 DEF RestartVault, RehydrateLosesRedis, redisVars
    <2>5. RedisChanges => changes' = changes + 1
      BY DEF RedisChanges
    <2>6. UNCHANGED vars => changes' = changes /\ up' = up
      BY DEF vars, redisVars
    <2>7. QED BY <2>1, <2>2, <2>3, <2>4, <2>5, <2>6 DEF Next, Redact
  <1>2. changes' = 0 => changes = 0 /\ up' = up
    BY <1>t, <1>1
  <1>3. QED BY <1>2 DEF RedisSteady, OnlyFallback

AllConnected == \A v \in Vaults : connected[v]

LEMMA SharedInit == Init => SharedInv
  <1> SUFFICES ASSUME Init, RedisSteady PROVE SharedInv
    BY DEF SharedInv
  <1>1. \A v \in Vaults : connected[v]
    BY Zenon DEF Init, RedisSteady
  <1>2. NumbersUnique /\ TokensRecorded
    BY NoneStands DEF Init, NumbersUnique, TokensRecorded
  <1>3. QED BY <1>1, <1>2 DEF SharedInv

\* A step after which Redis holds the same and no call has drawn a number.
LEMMA SharedKept ==
  ASSUME NumbersUnique, TokensRecorded, UNCHANGED <<counter, shared, drawn, pieces>>,
         \A j \in Jobs : pc'[j] = "put" => pc[j] = "put"
  PROVE  NumbersUnique' /\ TokensRecorded'
  BY DEF NumbersUnique, TokensRecorded, Standing, Positions

\* The steps a vault that has Redis can take while it is steady.
LEMMA SteadySteps ==
  ASSUME Typed, AllConnected, RedisSteady, [Next]_vars, changes' = 0
  PROVE  \/ \E j \in Jobs : Begin(j) \/ DrawFromRedis(j)
         \/ \E j \in Jobs : pc[j] = "put" /\ PutInRedis(j, Current(j), drawn[j])
         \/ \E v \in Vaults : RestartVault(v)
         \/ UNCHANGED vars
  <1>t. changes = 0 /\ up = TRUE /\ 0 + 1 # 0 /\ \A j \in Jobs : VaultOf[j] \in Vaults
    BY JobsAssumption DEF RedisSteady, Typed, TypeOK
  <1>c. \A j \in Jobs : connected[VaultOf[j]]
    BY <1>t DEF AllConnected
  <1>1. ASSUME NEW j \in Jobs PROVE ~DrawFromStore(j) /\ ~StoreFails(j) /\ \A x, n : ~PutInStore(j, x, n)
    BY <1>c DEF DrawFromStore, StoreFails, PutInStore
  <1>2. ASSUME NEW j \in Jobs PROVE ~LoseRedis(j)
    BY <1>t DEF LoseRedis
  <1>3. ASSUME NEW j \in Jobs PROVE ~LoseReply(j)
    BY <1>t DEF LoseReply
  <1>4. ~RedisChanges /\ \A v \in Vaults : ~RehydrateLosesRedis(v)
    BY <1>t DEF RedisChanges, RehydrateLosesRedis
  <1>5. QED BY <1>1, <1>2, <1>3, <1>4 DEF Next, Redact

LEMMA SharedNext == Typed /\ SharedInv /\ [Next]_vars => SharedInv'
  <1> SUFFICES ASSUME Typed, SharedInv, [Next]_vars, RedisSteady'
               PROVE  AllConnected' /\ NumbersUnique' /\ TokensRecorded'
    BY DEF SharedInv, AllConnected
  <1>s. RedisSteady /\ up' = up /\ changes' = 0
    BY ChangesGrow DEF RedisSteady
  <1>i. AllConnected /\ NumbersUnique /\ TokensRecorded
    BY <1>s DEF SharedInv, AllConnected
  <1>t. counter \in Nat /\ drawn \in [Jobs -> Nat] /\ pc \in [Jobs -> {"idle", "draw", "put", "done", "failed"}]
    BY DEF Typed, TypeOK
  <1>n. \A t \in DOMAIN shared : t \in Token /\ t[2] \in Nat
    BY DEF Typed, TypeOK, IsTokenMap, Token
  <1>1. ASSUME NEW j \in Jobs, DrawFromRedis(j) PROVE AllConnected' /\ NumbersUnique' /\ TokensRecorded'
    <2>1. /\ pc' = [pc EXCEPT ![j] = "put"] /\ drawn' = [drawn EXCEPT ![j] = counter]
          /\ counter' = counter + 1 /\ UNCHANGED <<shared, pieces>>
      BY <1>1 DEF DrawFromRedis, Go
    <2>2. \A t \in DOMAIN shared : t[2] < counter' /\ t[2] # counter
      BY <1>i, <1>t, <1>n, <2>1 DEF NumbersUnique
    <2>3. \A i \in Jobs : i # j /\ pc'[i] = "put" =>
              pc[i] = "put" /\ drawn'[i] = drawn[i] /\ drawn'[i] < counter /\ drawn'[i] \in Nat
      BY <1>i, <1>t, <2>1 DEF NumbersUnique
    <2>4. drawn'[j] = counter
      BY <1>t, <2>1
    <2>5. NumbersUnique'
      <3>1. \A t \in DOMAIN shared' : t[2] < counter'
        BY <2>1, <2>2
      <3>2. ASSUME NEW i \in Jobs, pc'[i] = "put"
            PROVE  drawn'[i] < counter' /\ \A t \in DOMAIN shared' : t[2] # drawn'[i]
        <4>1. CASE i = j
          BY <1>t, <2>1, <2>2, <2>4, <4>1
        <4>2. CASE i # j
          BY <1>i, <1>t, <2>1, <2>3, <3>2, <4>2 DEF NumbersUnique
        <4>3. QED BY <4>1, <4>2
      <3>3. ASSUME NEW i \in Jobs, NEW k \in Jobs, i # k, pc'[i] = "put", pc'[k] = "put"
            PROVE  drawn'[i] # drawn'[k]
        <4>1. CASE i = j
          BY <1>t, <2>3, <2>4, <3>3, <4>1
        <4>2. CASE k = j
          BY <1>t, <2>3, <2>4, <3>3, <4>2
        <4>3. CASE i # j /\ k # j
          BY <1>i, <2>3, <3>3, <4>3 DEF NumbersUnique
        <4>4. QED BY <4>1, <4>2, <4>3
      <3>4. QED BY <3>1, <3>2, <3>3 DEF NumbersUnique
    <2>6. TokensRecorded'
      BY <1>i, <2>1 DEF TokensRecorded, Standing, Positions
    <2>c. connected' = connected
      BY <1>1 DEF DrawFromRedis
    <2>7. QED BY <1>i, <2>5, <2>6, <2>c DEF AllConnected
  <1>2. ASSUME NEW j \in Jobs, pc[j] = "put", PutInRedis(j, Current(j), drawn[j]) PROVE AllConnected' /\ NumbersUnique' /\ TokensRecorded'
    <2> DEFINE t0 == TokenOf(Current(j), drawn[j])
    <2>1. /\ DOMAIN shared' = DOMAIN shared \cup {t0}
          /\ shared'[t0] = Current(j)
          /\ \A t \in DOMAIN shared : t # t0 => shared'[t] = shared[t]
          /\ counter' = counter
      BY <1>2 DEF PutInRedis, Assign
    <2>2. /\ Replace(j, Current(j), drawn[j]) /\ drawn' = drawn
          /\ pc' = [pc EXCEPT ![j] = IF match[j] + 1 = Len(TextOf[j]) THEN "done" ELSE "draw"]
      BY <1>2 DEF PutInRedis, Replace, Go
    <2>3. /\ t0[2] = drawn[j] /\ drawn[j] < counter
          /\ \A t \in DOMAIN shared : t[2] # drawn[j]
      BY <1>i, <1>2 DEF NumbersUnique, TokenOf
    <2>4. t0 \notin DOMAIN shared
      BY <2>3
    <2>5. \A i \in Jobs : pc'[i] = "put" => i # j /\ pc[i] = "put"
      BY <1>t, <2>2
    <2>6. NumbersUnique'
      BY <1>i, <1>2, <2>1, <2>2, <2>3, <2>5 DEF NumbersUnique
    <2>7. ASSUME NEW i \in Jobs, NEW p \in Standing(i)'
          PROVE  TokenOf(p[1], p[2]) \in DOMAIN shared' /\ shared'[TokenOf(p[1], p[2])] = p[1]
      <3>1. CASE p \in Standing(i)
        BY <1>i, <2>1, <2>4, <3>1 DEF TokensRecorded
      <3>2. CASE i = j /\ p = <<Current(j), drawn[j]>>
        BY <2>1, <3>2
      <3>3. QED BY <2>2, <2>7, <3>1, <3>2, ReplaceAdds
    <2>8. TokensRecorded'
      BY <2>7 DEF TokensRecorded
    <2>c. connected' = connected
      BY <1>2 DEF PutInRedis
    <2>9. QED BY <1>i, <2>6, <2>8, <2>c DEF AllConnected
  <1>3. ASSUME NEW j \in Jobs, Begin(j) PROVE AllConnected' /\ NumbersUnique' /\ TokensRecorded'
    <2>1. NumbersUnique' /\ TokensRecorded'
      BY <1>3, <1>i, <1>t, SharedKept DEF Begin, Go, redisVars
    <2>2. connected' = connected
      BY <1>3 DEF Begin
    <2>3. QED BY <1>i, <2>1, <2>2 DEF AllConnected
  <1>4. ASSUME NEW v \in Vaults, RestartVault(v) PROVE AllConnected' /\ NumbersUnique' /\ TokensRecorded'
    <2>1. NumbersUnique' /\ TokensRecorded'
      BY <1>4, <1>i, <1>t, SharedKept DEF RestartVault, redisVars
    <2>2. \A w \in Vaults : connected'[w] = (IF w = v THEN up ELSE connected[w])
      BY <1>4 DEF RestartVault, Typed, TypeOK
    <2>3. QED BY <1>i, <1>s, <2>1, <2>2 DEF AllConnected, RedisSteady
  <1>5. ASSUME UNCHANGED vars PROVE AllConnected' /\ NumbersUnique' /\ TokensRecorded'
    <2>1. NumbersUnique' /\ TokensRecorded'
      BY <1>5, <1>i, SharedKept DEF vars, redisVars, jobVars
    <2>2. QED BY <1>5, <1>i, <2>1 DEF AllConnected, vars
  <1>6. QED BY <1>s, <1>i, <1>1, <1>2, <1>3, <1>4, <1>5, SteadySteps

\* While it answers, Redis hands out every number once, and every token in a
\* text is recorded there with its value.
THEOREM SharedInvariant == Spec => []SharedInv
  <1>1. QED BY TypedInit, TypedNext, SharedInit, SharedNext, PTL DEF Spec

\* While Redis answers, every vault restores every redacted text exactly, for
\* any number of processes, threads and restarts.
THEOREM RoundTripWithRedis == Spec => []RoundTripAnywhere
  <1>1. Typed /\ SharedInv => RoundTripAnywhere
    <2> SUFFICES ASSUME Typed, SharedInv, RedisSteady,
                        NEW j \in Jobs, NEW v \in Vaults, pc[j] = "done", NEW p \in Standing(j)
                 PROVE  Rehydrated(v, TokenOf(p[1], p[2])) = {p[1]}
      BY DEF RoundTripAnywhere, Restores
    <2>1. connected[v] /\ up
      BY DEF SharedInv, RedisSteady
    <2>2. QED BY <2>1 DEF Rehydrated, SharedInv, TokensRecorded
  <1>2. QED BY <1>1, TypedInit, TypedNext, SharedInit, SharedNext, PTL DEF Spec

-------------------------------------------------------------------------
(* While Redis was never there. *)

\* The steps a vault without Redis can take.
LEMMA FallbackSteps ==
  ASSUME Typed, \A v \in Vaults : ~connected[v], OnlyFallback, [Next]_vars, changes' = 0
  PROVE  \/ \E j \in Jobs : Begin(j) \/ DrawFromStore(j) \/ StoreFails(j)
         \/ \E j \in Jobs : pc[j] = "put" /\ PutInStore(j, Current(j), drawn[j])
         \/ \E v \in Vaults : RestartVault(v)
         \/ UNCHANGED vars
  <1>t. changes = 0 /\ ~up /\ 0 + 1 # 0 /\ \A j \in Jobs : ~connected[VaultOf[j]]
    BY JobsAssumption DEF OnlyFallback
  <1>1. ASSUME NEW j \in Jobs
        PROVE  ~DrawFromRedis(j) /\ ~LoseRedis(j) /\ ~LoseReply(j) /\ \A x, n : ~PutInRedis(j, x, n)
    BY <1>t DEF DrawFromRedis, LoseRedis, LoseReply, PutInRedis
  <1>2. ~RedisChanges /\ \A v \in Vaults : ~RehydrateLosesRedis(v)
    BY <1>t DEF RedisChanges, RehydrateLosesRedis
  <1>3. QED BY <1>1, <1>2 DEF Next, Redact

\* A step of a call that records nothing and draws nothing.
LEMMA NumberedKept ==
  ASSUME NEW v \in Vaults, StoreNumbered(v), store' = store, drawn' = drawn,
         \A j \in Jobs : VaultOf[j] = v => pc'[j] \in {pc[j], "done", "failed"}
  PROVE  StoreNumbered(v)'
  BY DEF StoreNumbered, Active

LEMMA RecordedKept ==
  ASSUME NEW v \in Vaults, StoreRecorded(v), store' = store, pieces' = pieces
  PROVE  StoreRecorded(v)'
  BY DEF StoreRecorded, Standing, Positions

\* A store with one token more, numbered by how many it had.
LEMMA StoreGrows ==
  ASSUME NEW f, IsTokenMap(f), NEW x \in Values, NEW n, n = Cardinality(DOMAIN f),
         \A t \in DOMAIN f : t[2] < n
  PROVE  LET g == Assign(f, TokenOf(x, n), x)
         IN  /\ TokenOf(x, n) \notin DOMAIN f
             /\ DOMAIN g = DOMAIN f \cup {TokenOf(x, n)}
             /\ g[TokenOf(x, n)] = x /\ \A t \in DOMAIN f : g[t] = f[t]
             /\ Cardinality(DOMAIN g) = n + 1
             /\ \A t \in DOMAIN g : t[2] < n + 1
  <1> DEFINE t0 == TokenOf(x, n)  g == Assign(f, t0, x)
  <1>1. n \in Nat /\ \A t \in DOMAIN f : t[2] \in Nat
    BY SizeType DEF IsTokenMap, Token
  <1>2. t0[2] = n
    BY DEF TokenOf
  <1>3. t0 \notin DOMAIN f
    BY <1>1, <1>2
  <1>4. DOMAIN g = DOMAIN f \cup {t0} /\ g[t0] = x /\ \A t \in DOMAIN f : g[t] = f[t]
    BY <1>3 DEF Assign
  <1>5. Cardinality(DOMAIN f \cup {t0}) = n + 1
    BY <1>3, FS_AddElement DEF IsTokenMap
  <1>6. \A t \in DOMAIN g : t[2] < n + 1
    BY <1>1, <1>2, <1>4
  <1>7. QED BY <1>3, <1>4, <1>5, <1>6

LEMMA FallbackInit == Init => FallbackInv
  <1> SUFFICES ASSUME Init, ~up, NEW v \in Vaults
               PROVE  ~connected[v] /\ StoreNumbered(v) /\ StoreRecorded(v)
    BY DEF FallbackInv, OnlyFallback
  <1>1. ~connected[v]
    BY Zenon DEF Init
  <1>2. QED BY <1>1, NoneStands DEF Init, StoreNumbered, StoreRecorded, Active

LEMMA FallbackNext == Typed /\ FallbackInv /\ [Next]_vars => FallbackInv'
  <1> SUFFICES ASSUME Typed, FallbackInv, [Next]_vars, OnlyFallback', NEW v \in Vaults
               PROVE  ~connected'[v] /\ (~overlapped'[v] => StoreNumbered(v)' /\ StoreRecorded(v)')
    BY DEF FallbackInv
  <1>s. OnlyFallback /\ ~up /\ changes' = 0
    BY ChangesGrow DEF OnlyFallback
  <1>i. /\ \A w \in Vaults : ~connected[w]
        /\ ~overlapped[v] => StoreNumbered(v) /\ StoreRecorded(v)
    BY <1>s DEF FallbackInv
  <1>t. /\ VaultOf \in [Jobs -> Vaults]
        /\ pc \in [Jobs -> {"idle", "draw", "put", "done", "failed"}] /\ drawn \in [Jobs -> Nat]
        /\ connected \in [Vaults -> BOOLEAN] /\ overlapped \in [Vaults -> BOOLEAN]
        /\ DOMAIN store = Vaults /\ \A w \in Vaults : IsTokenMap(store[w])
    BY JobsAssumption DEF Typed, TypeOK
  <1>1. ASSUME NEW j \in Jobs, Begin(j)
        PROVE  ~connected'[v] /\ (~overlapped'[v] => StoreNumbered(v)' /\ StoreRecorded(v)')
    <2>1. /\ pc[j] = "idle" /\ pc' = [pc EXCEPT ![j] = IF TextOf[j] = <<>> THEN "done" ELSE "draw"]
          /\ UNCHANGED <<connected, store, drawn, pieces>>
          /\ overlapped' = [overlapped EXCEPT ![VaultOf[j]] = @ \/ \E i \in Active : VaultOf[i] = VaultOf[j]]
      BY <1>1 DEF Begin, Go
    <2>2. ~overlapped'[v] => ~overlapped[v] /\ (VaultOf[j] = v => \A i \in Active : VaultOf[i] # v)
      <3>1. CASE VaultOf[j] = v
        BY <1>t, <2>1, <3>1
      <3>2. CASE VaultOf[j] # v
        BY <1>t, <2>1, <3>2
      <3>3. QED BY <3>1, <3>2
    <2>3. \A i \in Jobs : i # j => pc'[i] = pc[i]
      BY <1>t, <2>1
    <2>4. pc'[j] \in {"done", "draw"}
      BY <1>t, <2>1
    <2>5. ASSUME ~overlapped'[v] PROVE StoreNumbered(v)'
      <3>1. StoreNumbered(v)
        BY <1>i, <2>2, <2>5
      <3>2. \A i \in Jobs : VaultOf[i] = v /\ pc'[i] = "put" => drawn'[i] = Cardinality(DOMAIN store'[v])
        BY <2>1, <2>3, <2>4, <3>1 DEF StoreNumbered
      <3>3. ASSUME NEW i \in Jobs, NEW k \in Jobs, pc'[i] \in {"draw", "put"}, pc'[k] \in {"draw", "put"},
                   VaultOf[i] = v, VaultOf[k] = v
            PROVE  i = k
        BY <2>2, <2>3, <2>5, <3>1, <3>3 DEF StoreNumbered, Active
      <3>4. QED BY <2>1, <3>1, <3>2, <3>3 DEF StoreNumbered, Active
    <2>6. QED BY <1>i, <2>1, <2>2, <2>5, RecordedKept
  <1>2. ASSUME NEW j \in Jobs, DrawFromStore(j)
        PROVE  ~connected'[v] /\ (~overlapped'[v] => StoreNumbered(v)' /\ StoreRecorded(v)')
    <2>1. /\ pc[j] = "draw" /\ pc' = [pc EXCEPT ![j] = "put"]
          /\ drawn' = [drawn EXCEPT ![j] = Cardinality(DOMAIN store[VaultOf[j]])]
          /\ UNCHANGED <<connected, store, pieces, overlapped>>
      BY <1>2 DEF DrawFromStore, Go
    <2>2. \A i \in Jobs : i # j => pc'[i] = pc[i] /\ drawn'[i] = drawn[i]
      BY <1>t, <2>1
    <2>3. pc'[j] = "put" /\ drawn'[j] = Cardinality(DOMAIN store[VaultOf[j]])
      BY <1>t, <2>1
    <2>4. StoreNumbered(v) => StoreNumbered(v)'
      BY <2>1, <2>2, <2>3 DEF StoreNumbered, Active
    <2>5. QED BY <1>i, <2>1, <2>4, RecordedKept
  <1>3. ASSUME NEW j \in Jobs, StoreFails(j)
        PROVE  ~connected'[v] /\ (~overlapped'[v] => StoreNumbered(v)' /\ StoreRecorded(v)')
    <2>1. pc' = [pc EXCEPT ![j] = "failed"] /\ UNCHANGED <<connected, store, drawn, pieces, overlapped>>
      BY <1>3 DEF StoreFails, Go
    <2>2. \A i \in Jobs : pc'[i] \in {pc[i], "done", "failed"}
      BY <1>t, <2>1
    <2>3. QED BY <1>i, <2>1, <2>2, NumberedKept, RecordedKept
  <1>4. ASSUME NEW j \in Jobs, pc[j] = "put", PutInStore(j, Current(j), drawn[j])
        PROVE  ~connected'[v] /\ (~overlapped'[v] => StoreNumbered(v)' /\ StoreRecorded(v)')
    <2>1. /\ Replace(j, Current(j), drawn[j]) /\ UNCHANGED <<connected, drawn, overlapped>>
          /\ store' = [store EXCEPT ![VaultOf[j]] =
                           Assign(store[VaultOf[j]], TokenOf(Current(j), drawn[j]), Current(j))]
      BY <1>4 DEF PutInStore, Replace
    <2>2. /\ \A i \in Jobs : i # j => pc'[i] = pc[i]
          /\ pc'[j] \in {"draw", "done"}
      BY <1>t, <2>1 DEF Replace, Go
    <2>3. CASE VaultOf[j] # v
      <3>1. store'[v] = store[v]
        BY <1>t, <2>1, <2>3
      <3>2. StoreNumbered(v) => StoreNumbered(v)'
        BY <2>1, <2>2, <2>3, <3>1 DEF StoreNumbered, Active
      <3>3. ASSUME StoreRecorded(v) PROVE StoreRecorded(v)'
        <4>1. ASSUME NEW i \in Jobs, VaultOf[i] = v, NEW p \in Standing(i)' PROVE p \in Standing(i)
          BY <2>1, <2>3, <4>1, ReplaceAdds
        <4>2. QED BY <3>1, <3>3, <4>1 DEF StoreRecorded
      <3>4. QED BY <1>i, <2>1, <3>2, <3>3
    <2>4. CASE VaultOf[j] = v
      <3> SUFFICES ASSUME ~overlapped[v], StoreNumbered(v), StoreRecorded(v)
                   PROVE  StoreNumbered(v)' /\ StoreRecorded(v)'
        BY <1>i, <2>1
      <3> DEFINE f == store[v]  n == Cardinality(DOMAIN f)  t0 == TokenOf(Current(j), n)
      <3>1. drawn[j] = n /\ j \in Active
        BY <1>4, <2>4 DEF StoreNumbered, Active
      <3>2. Current(j) \in Values
        BY <1>4, CurrentType DEF Typed, MatchesReplaced, TypeOK
      <3>3. store'[v] = Assign(f, t0, Current(j))
        BY <1>t, <2>1, <2>4, <3>1
      <3>4. \A t \in DOMAIN f : t[2] < n
        BY DEF StoreNumbered
      <3>5. /\ t0 \notin DOMAIN f
            /\ DOMAIN store'[v] = DOMAIN f \cup {t0}
            /\ store'[v][t0] = Current(j) /\ \A t \in DOMAIN f : store'[v][t] = f[t]
            /\ Cardinality(DOMAIN store'[v]) = n + 1
            /\ \A t \in DOMAIN store'[v] : t[2] < n + 1
        <4>1. IsTokenMap(f)
          BY <1>t
        <4>2. QED BY <3>2, <3>3, <3>4, <4>1, StoreGrows
      <3>6. \A i \in Jobs : VaultOf[i] = v => pc'[i] # "put"
        BY <2>2, <2>4, <3>1 DEF StoreNumbered, Active
      <3>7. \A i, k \in Active' : VaultOf[i] = v /\ VaultOf[k] = v => i = k
        BY <2>2, <3>1 DEF StoreNumbered, Active
      <3>8. StoreNumbered(v)'
        BY <3>5, <3>6, <3>7 DEF StoreNumbered
      <3>9. ASSUME NEW i \in Jobs, VaultOf[i] = v, NEW p \in Standing(i)'
            PROVE  TokenOf(p[1], p[2]) \in DOMAIN store'[v] /\ store'[v][TokenOf(p[1], p[2])] = p[1]
        <4>1. CASE p \in Standing(i)
          BY <3>5, <3>9, <4>1 DEF StoreRecorded
        <4>2. CASE i = j /\ p = <<Current(j), drawn[j]>>
          BY <3>1, <3>5, <4>2
        <4>3. QED BY <2>1, <3>9, <4>1, <4>2, ReplaceAdds
      <3>10. StoreRecorded(v)'
        BY <3>9 DEF StoreRecorded
      <3>11. QED BY <3>8, <3>10
    <2>5. QED BY <1>i, <2>1, <2>3, <2>4
  <1>5. ASSUME NEW w \in Vaults, RestartVault(w)
        PROVE  ~connected'[v] /\ (~overlapped'[v] => StoreNumbered(v)' /\ StoreRecorded(v)')
    <2>1. UNCHANGED <<store, drawn, pieces, overlapped>>
      BY <1>5 DEF RestartVault
    <2>2. \A i \in Jobs : pc'[i] \in {pc[i], "failed"}
      BY <1>t, <1>5 DEF RestartVault
    <2>3. connected' = [connected EXCEPT ![w] = up]
      BY <1>5 DEF RestartVault
    <2>4. ~connected'[v]
      BY <1>s, <1>i, <1>t, <2>3
    <2>5. QED BY <1>i, <2>1, <2>2, <2>4, NumberedKept, RecordedKept
  <1>6. ASSUME UNCHANGED vars
        PROVE  ~connected'[v] /\ (~overlapped'[v] => StoreNumbered(v)' /\ StoreRecorded(v)')
    <2>1. UNCHANGED <<connected, store, drawn, pieces, overlapped, pc>>
      BY <1>6 DEF vars, jobVars
    <2>2. QED BY <1>i, <2>1, NumberedKept, RecordedKept
  <1>7. QED BY <1>s, <1>i, <1>1, <1>2, <1>3, <1>4, <1>5, <1>6, FallbackSteps

\* Without Redis, the one call of a vault that is under way has drawn a number
\* above every token of the store, which has every token of its texts.
THEOREM FallbackInvariant == Spec => []FallbackInv
  <1>1. QED BY TypedInit, TypedNext, FallbackInit, FallbackNext, PTL DEF Spec

\* The fallback restores the texts of a vault whose calls do not overlap,
\* through failed puts and restarts.
THEOREM RoundTripWithoutRedis == Spec => []RoundTripHome
  <1>1. Typed /\ FallbackInv => RoundTripHome
    <2> SUFFICES ASSUME Typed, FallbackInv, OnlyFallback,
                        NEW j \in Jobs, pc[j] = "done", ~overlapped[VaultOf[j]], NEW p \in Standing(j)
                 PROVE  Rehydrated(VaultOf[j], TokenOf(p[1], p[2])) = {p[1]}
      BY DEF RoundTripHome, Restores
    <2>1. VaultOf[j] \in Vaults
      BY JobsAssumption
    <2>2. ~connected[VaultOf[j]] /\ StoreRecorded(VaultOf[j])
      BY <2>1 DEF FallbackInv
    <2>3. QED BY <2>2 DEF Rehydrated, StoreRecorded
  <1>2. QED BY <1>1, TypedInit, TypedNext, FallbackInit, FallbackNext, PTL DEF Spec
=========================================================================
