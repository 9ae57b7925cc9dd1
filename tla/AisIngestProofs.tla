------------------------ MODULE AisIngestProofs ------------------------
(***************************************************************************)
(* Theorems about AisIngest, for any topic, gap and number of restarts: no *)
(* commit moves past a ping that a restart would lose, unless the restart  *)
(* finds a vessel's sessions half written, or the store has retained the   *)
(* ping's session no longer.                                               *)
(***************************************************************************)
EXTENDS AisIngest, FiniteSetTheorems, TLAPS

Counted == offset \in Nat /\ committed \in Nat /\ committed <= offset

KeptInv == Counted /\ PingsKept /\ CacheAhead

LEMMA InitKept == Init => KeptInv
  BY DEF Init, KeptInv, Counted, PingsKept, CacheAhead, Held, Gone

\* A ping of other cargo is none of the pings to keep.
LEMMA PassOverKeeps == ASSUME KeptInv, PassOver PROVE KeptInv'
  <1>1. /\ offset' = offset + 1 /\ ~Topic[offset + 1].rare_earth
        /\ UNCHANGED <<committed, store, changelog, dirty, partway, late, torn, expired>>
    BY DEF PassOver, storeVars, historyVars, expiryVars
  <1>2. Counted' /\ \A p \in 1..offset' : p \in 1..offset \/ p = offset + 1
    BY <1>1 DEF KeptInv, Counted
  <1>3. PingsKept'
    BY <1>1 DEF KeptInv, PingsKept, Gone
  <1>4. CacheAhead'
    BY <1>1, <1>2 DEF KeptInv, CacheAhead, Held, Gone
  <1>5. QED BY <1>2, <1>3, <1>4 DEF KeptInv

\* The aggregated ping is late or in the merged session, with all that the
\* sessions it joins held.
LEMMA AggregateKeeps == ASSUME KeptInv, Aggregate PROVE KeptInv'
  <1> DEFINE q == offset + 1
             near == {s \in store : Near(q, s)}
             session == Merged(q, near)
  <1>1. /\ offset' = q /\ UNCHANGED <<committed, changelog, partway, torn, expired>>
        /\ \/ late' = late \cup {q} /\ UNCHANGED <<store, dirty>>
           \/ /\ store' = (store \ near) \cup {session}
              /\ dirty' = dirty \cup {Key(s) : s \in near \cup {session}}
              /\ late' = late
    BY DEF Aggregate, storeVars, expiryVars
  <1>2. session.mmsi = Topic[q].mmsi /\ session.waypoints = {q} \cup UNION {s.waypoints : s \in near}
    BY DEF Merged
  <1>8. \A s \in near : s.mmsi = Topic[q].mmsi
    BY DEF Near
  <1> HIDE DEF session, near
  <1>3. Counted' /\ \A p \in 1..offset' : p \in 1..offset \/ p = q
    BY <1>1 DEF KeptInv, Counted
  <1>4. PingsKept'
    <2>1. late \subseteq late'
      BY <1>1
    <2>2. QED BY <1>1, <2>1 DEF KeptInv, PingsKept, Gone
  <1>5. late \cup Held \cup {q} \subseteq (late \cup Held)'
    <2>1. CASE late' = late \cup {q} /\ UNCHANGED <<store, dirty>>
      BY <2>1 DEF Held
    <2>2. CASE store' = (store \ near) \cup {session} /\ late' = late
      <3>1. q \in Held'
        BY <1>2, <2>2 DEF Held
      <3>2. ASSUME NEW s \in store, NEW p \in s.waypoints PROVE p \in Held'
        <4>1. CASE s \in near
          BY <1>2, <2>2, <3>2, <4>1 DEF Held
        <4>2. CASE s \notin near
          BY <2>2, <3>2, <4>2 DEF Held
        <4>3. QED BY <4>1, <4>2
      <3>3. QED BY <2>2, <3>1, <3>2 DEF Held
    <2>3. QED BY <1>1, <2>1, <2>2
  <1>6. CacheAhead'
    <2>1. \A p \in 1..offset' : Topic[p].rare_earth =>
                                   p \in (late \cup Held \cup Gone)' \/ Topic[p].mmsi \in torn'
      BY <1>1, <1>3, <1>5 DEF KeptInv, CacheAhead, Gone
    <2>2. \A s \in store' : Key(s) \in dirty' \/ s \in changelog'
      BY <1>1 DEF KeptInv, CacheAhead
    <2>3. ASSUME NEW s \in (store \cup changelog \cup expired)', NEW p \in s.waypoints
          PROVE  Topic[p].mmsi = s.mmsi
      <3>1. CASE s \in store \cup changelog \cup expired
        BY <2>3, <3>1 DEF KeptInv, CacheAhead
      <3>2. CASE s = session
        <4>1. near \subseteq store
          BY DEF near
        <4>2. QED BY <1>2, <1>8, <2>3, <3>2, <4>1 DEF KeptInv, CacheAhead
      <3>3. QED BY <1>1, <3>1, <3>2
    <2>4. QED BY <2>1, <2>2, <2>3 DEF CacheAhead
  <1>7. QED BY <1>3, <1>4, <1>6 DEF KeptInv

\* A key the cache lets go of changes its vessel's sessions only, and the
\* last one of a vessel brings the changelog up to the aggregation.
LEMMA FlushKeeps == ASSUME KeptInv, NEW k \in dirty, Flush(k) PROVE KeptInv'
  <1> DEFINE current == {s \in store : Key(s) = k}
             others == {d \in dirty \ {k} : d[1] = k[1]}
  <1>1. /\ dirty' = dirty \ {k}
        /\ changelog' = {s \in changelog : Key(s) # k} \cup current
        /\ partway' = IF others = {} THEN partway \ {k[1]} ELSE partway \cup {k[1]}
        /\ UNCHANGED <<offset, committed, store, late, torn, expired>>
    BY DEF Flush, streamVars, historyVars, expiryVars
  <1>2. \A s : Key(s) = k => s.mmsi = k[1]
    BY DEF Key
  <1>3. \A s \in store : Key(s) \in dirty' \/ s \in changelog'
    BY <1>1 DEF KeptInv, CacheAhead
  <1>4. CacheAhead'
    BY <1>1, <1>3 DEF KeptInv, CacheAhead, Held, Gone
  <1>5. ASSUME NEW p \in 1..committed, Topic[p].rare_earth,
               p \notin (late \cup Gone \cup UNION {s.waypoints : s \in changelog'}),
               Topic[p].mmsi \notin partway' \cup torn
        PROVE  FALSE
    <2>1. CASE Topic[p].mmsi = k[1]
      <3>1. others = {}
        BY <1>1, <1>5, <2>1
      <3>2. p \in 1..offset
        BY DEF KeptInv, Counted
      <3>3. PICK s \in store : p \in s.waypoints
        BY <1>1, <1>5, <3>2 DEF KeptInv, CacheAhead, Held
      <3>4. s.mmsi = k[1]
        BY <2>1, <3>3 DEF KeptInv, CacheAhead
      <3>5. Key(s) \notin dirty'
        BY <1>1, <3>1, <3>4 DEF Key
      <3>6. QED BY <1>3, <1>5, <3>3, <3>5
    <2>2. CASE Topic[p].mmsi # k[1]
      <3>1. Topic[p].mmsi \notin partway \cup torn
        BY <1>1, <1>5, <2>2
      <3>2. PICK s \in changelog : p \in s.waypoints
        BY <1>1, <1>5, <3>1 DEF KeptInv, PingsKept
      <3>3. s.mmsi # k[1]
        BY <2>2, <3>2 DEF KeptInv, CacheAhead
      <3>4. s \in changelog'
        BY <1>1, <1>2, <3>3
      <3>5. QED BY <1>5, <3>2, <3>4
    <2>3. QED BY <2>1, <2>2
  <1>6. PingsKept'
    BY <1>1, <1>5 DEF PingsKept, Gone
  <1>7. Counted'
    BY <1>1 DEF KeptInv, Counted
  <1>8. QED BY <1>4, <1>6, <1>7 DEF KeptInv

\* With an empty cache the changelog holds what the aggregation holds.
LEMMA CommitKeeps == ASSUME KeptInv, Commit PROVE KeptInv'
  <1>1. /\ committed' = offset /\ dirty = {}
        /\ UNCHANGED <<offset, store, changelog, dirty, partway, late, torn, expired>>
    BY DEF Commit, storeVars, historyVars, expiryVars
  <1>2. store \subseteq changelog
    BY <1>1 DEF KeptInv, CacheAhead
  <1>3. PingsKept'
    BY <1>1, <1>2 DEF KeptInv, CacheAhead, Held, Gone, PingsKept
  <1>4. CacheAhead'
    BY <1>1 DEF KeptInv, CacheAhead, Held, Gone
  <1>5. Counted'
    BY <1>1 DEF KeptInv, Counted
  <1>6. QED BY <1>3, <1>4, <1>5 DEF KeptInv

\* An expired session's pings are among those gone.
LEMMA ExpireKeeps == ASSUME KeptInv, NEW e \in store, Expire(e) PROVE KeptInv'
  <1>1. /\ store' = store \ {e} /\ changelog' = changelog \ {e} /\ expired' = expired \cup {e}
        /\ UNCHANGED <<offset, committed, dirty, partway, late, torn>>
    BY DEF Expire, streamVars
  <1>2. Gone' = Gone \cup e.waypoints
    BY <1>1 DEF Gone
  <1>3. Held \subseteq Held' \cup e.waypoints
    BY <1>1 DEF Held
  <1>4. PingsKept'
    BY <1>1, <1>2 DEF KeptInv, PingsKept
  <1>5. CacheAhead'
    <2>1. \A p \in 1..offset' : Topic[p].rare_earth =>
                                   p \in (late \cup Held \cup Gone)' \/ Topic[p].mmsi \in torn'
      BY <1>1, <1>2, <1>3 DEF KeptInv, CacheAhead
    <2>2. QED BY <1>1, <2>1 DEF KeptInv, CacheAhead
  <1>6. QED BY <1>1, <1>4, <1>5 DEF KeptInv, Counted

\* A stop leaves what the changelog holds of the committed pings.
LEMMA StopKeeps == ASSUME KeptInv, Stop PROVE KeptInv'
  <1>1. /\ offset' = committed /\ committed' = committed /\ store' = changelog
        /\ changelog' = changelog /\ dirty' = {} /\ partway' = {} /\ torn' = torn \cup partway
        /\ late' = late /\ expired' = expired
    BY DEF Stop
  <1>2. PingsKept'
    BY <1>1 DEF KeptInv, PingsKept, Gone
  <1>3. CacheAhead'
    BY <1>1 DEF KeptInv, PingsKept, CacheAhead, Held, Gone
  <1>4. Counted'
    BY <1>1 DEF KeptInv, Counted
  <1>5. QED BY <1>2, <1>3, <1>4 DEF KeptInv

\* For any topic and any restarts: a ping the commit has moved past was late,
\* is in a session a restart finds or was in one that expired, or its vessel
\* was being rewritten.
THEOREM NoPingLost == Spec => [](PingsKept /\ CacheAhead)
  <1>1. KeptInv /\ [Next]_vars => KeptInv'
    <2> SUFFICES ASSUME KeptInv, [Next]_vars PROVE KeptInv'
      OBVIOUS
    <2>1. CASE Answer \/ Start \/ (\E c \in Callers : Service(c)) \/ UNCHANGED vars
      <3>1. UNCHANGED <<offset, committed, store, changelog, dirty, partway, late, torn, expired>>
        BY <2>1 DEF Answer, Start, Service, vars, streamVars, storeVars, historyVars, expiryVars
      <3>2. QED BY <3>1 DEF KeptInv, Counted, PingsKept, CacheAhead, Held, Gone
    <2>2. QED BY <2>1, PassOverKeeps, AggregateKeeps, FlushKeeps, CommitKeeps, ExpireKeeps, StopKeeps
              DEF Next, FlushSome, ExpireSome
  <1>2. KeptInv => PingsKept /\ CacheAhead
    BY DEF KeptInv
  <1>3. QED BY <1>1, <1>2, InitKept, PTL DEF Spec

-----------------------------------------------------------------------
(* Least and greatest elements, by which sessions are merged. *)

\* Every non-empty set of naturals has a least element: of the initial
\* segments below its elements, one has no strict subset among them.
LEMMA LeastNat == ASSUME NEW T \in SUBSET Nat, T # {} PROVE \E x \in T : \A y \in T : x <= y
  <1> DEFINE Below == {0..(x - 1) : x \in T}
  <1>1. Below \subseteq FiniteSubsetsOf(Nat)
    <2>1. \A x \in T : IsFiniteSet(0..(x - 1))
      BY FS_Interval
    <2>2. \A x \in T : 0..(x - 1) \subseteq Nat
      OBVIOUS
    <2>3. QED BY <2>1, <2>2 DEF FiniteSubsetsOf
  <1>2. Below # {}
    OBVIOUS
  <1>3. PICK b \in Below : \A c \in Below : ~(<<c, b>> \in StrictSubsetOrdering(Nat))
    BY <1>1, <1>2, FS_StrictSubsetOrderingWellFounded, WFMin, Zenon
  <1>4. PICK x \in T : b = 0..(x - 1)
    BY <1>3
  <1>5. ASSUME NEW y \in T, y < x PROVE FALSE
    <2>1. 0..(y - 1) \in SUBSET Nat /\ b \in SUBSET Nat
      BY <1>4
    <2>2. 0..(y - 1) \subseteq b /\ 0..(y - 1) # b
      <3>1. y \in b /\ y \notin 0..(y - 1)
        BY <1>4, <1>5
      <3>2. 0..(y - 1) \subseteq b
        BY <1>4, <1>5
      <3>3. QED BY <3>1, <3>2
    <2>3. <<0..(y - 1), b>> \in StrictSubsetOrdering(Nat)
      BY <2>1, <2>2 DEF StrictSubsetOrdering
    <2>4. QED BY <1>3, <2>3
  <1>6. QED BY <1>5

\* A set of naturals with a bound has a greatest element: the least distance
\* to the bound is its.
LEMMA GreatestNat ==
  ASSUME NEW T \in SUBSET Nat, T # {}, NEW b \in Nat, \A x \in T : x <= b
  PROVE  \E x \in T : \A y \in T : y <= x
  <1> DEFINE D == {b - x : x \in T}
  <1>1. D \in SUBSET Nat
    <2>1. \A x \in T : b - x \in Nat
      OBVIOUS
    <2>2. QED BY <2>1
  <1>2. PICK d \in D : \A e \in D : d <= e
    <2>1. D # {}
      OBVIOUS
    <2>2. QED BY <1>1, <2>1, LeastNat
  <1>3. PICK x \in T : d = b - x
    BY <1>2
  <1>4. ASSUME NEW y \in T PROVE y <= x
    <2>1. b - x <= b - y
      BY <1>2, <1>3
    <2>2. x \in Nat /\ y \in Nat
      OBVIOUS
    <2>3. QED BY <2>1, <2>2
  <1>5. QED BY <1>4

LEMMA TopicTyped == Len(Topic) \in Nat /\ \A p \in Pings : Topic[p].time \in Nat /\ Topic[p].mmsi \in Vessels
  <1> DEFINE S == [mmsi : Vessels, time : Nat, rare_earth : BOOLEAN]
  <1>1. Topic \in Seq(S)
    BY TopicAssumption
  <1>2. \A x \in S : x.time \in Nat /\ x.mmsi \in Vessels
    OBVIOUS
  <1> HIDE DEF S
  <1>3. Len(Topic) \in Nat /\ \A p \in 1..Len(Topic) : Topic[p] \in S
    BY <1>1
  <1>4. QED BY <1>2, <1>3 DEF Pings

\* The topic is finite, so its times have a bound: a least length without one
\* would follow a length that has one.
LEMMA TimesBounded == \E b \in Nat : \A p \in Pings : Topic[p].time <= b
  <1> DEFINE Bounded(n) == \E b \in Nat : \A p \in 1..n : Topic[p].time <= b
             T == {n \in Nat : n <= Len(Topic) /\ ~Bounded(n)}
  <1>1. Len(Topic) \in Nat /\ \A p \in 1..Len(Topic) : Topic[p].time \in Nat
    BY TopicTyped DEF Pings
  <1>2. SUFFICES ASSUME T # {} PROVE FALSE
    <2>1. CASE T = {}
      <3>1. Len(Topic) \notin T
        BY <2>1
      <3>2. QED BY <1>1, <3>1 DEF Pings
    <2>2. QED BY <2>1
  <1>3. PICK n \in T : \A m \in T : n <= m
    <2>1. T \in SUBSET Nat
      OBVIOUS
    <2> HIDE DEF T
    <2>2. QED BY <1>2, <2>1, LeastNat
  <1>4. n # 0
    <2>1. 0 \in Nat /\ 1..0 = {}
      OBVIOUS
    <2>2. Bounded(0)
      BY <2>1
    <2>3. 0 \notin T
      BY <2>2
    <2>4. QED BY <1>3, <2>3
  <1>5. n - 1 \in Nat /\ n - 1 <= Len(Topic) /\ n - 1 \notin T
    <2>1. n \in Nat /\ n <= Len(Topic)
      BY <1>3
    <2>2. n - 1 \in Nat /\ n - 1 <= Len(Topic) /\ ~(n <= n - 1)
      BY <1>1, <1>4, <2>1
    <2> HIDE DEF T
    <2>3. QED BY <1>3, <2>2
  <1>6. PICK b \in Nat : \A p \in 1..(n - 1) : Topic[p].time <= b
    BY <1>5
  <1>7. /\ \A p \in 1..n : Topic[p].time \in Nat /\ (p \in 1..(n - 1) \/ p = n)
        /\ Topic[n].time \in Nat
    <2>1. n \in Nat \ {0} /\ n <= Len(Topic)
      BY <1>3, <1>4
    <2>2. n \in 1..Len(Topic)
      BY <1>1, <2>1
    <2>3. \A p \in 1..n : p \in 1..Len(Topic)
      BY <1>1, <2>1
    <2>4. \A p \in 1..n : p \in 1..(n - 1) \/ p = n
      BY <2>1
    <2> HIDE DEF T
    <2>5. QED BY <1>1, <2>2, <2>3, <2>4
  <1>8. CASE Topic[n].time <= b
    <2>1. Bounded(n)
      BY <1>6, <1>7, <1>8
    <2>2. QED BY <1>3, <2>1
  <1>9. CASE ~(Topic[n].time <= b)
    <2>1. \A p \in 1..n : Topic[p].time <= Topic[n].time
      <3>1. TAKE p \in 1..n
      <3>2. Topic[p].time \in Nat /\ (p \in 1..(n - 1) => Topic[p].time <= b)
        BY <1>6, <1>7
      <3>3. p = n \/ Topic[p].time <= b
        BY <1>7, <3>2
      <3> HIDE DEF T
      <3>4. QED BY <1>7, <1>9, <3>2, <3>3
    <2>2. Bounded(n)
      BY <1>7, <2>1
    <2>3. QED BY <1>3, <2>2
  <1>10. QED BY <1>8, <1>9

LEMMA EarliestIs ==
  ASSUME NEW p \in Pings, NEW near, \A s \in near : s.first \in Nat
  PROVE  /\ Earliest(p, near) = Topic[p].time \/ \E s \in near : Earliest(p, near) = s.first
         /\ Earliest(p, near) \in Nat
         /\ Earliest(p, near) <= Topic[p].time
         /\ \A s \in near : Earliest(p, near) <= s.first
  <1> DEFINE T == {Topic[p].time} \cup {s.first : s \in near}
             Least(t) == \A s \in near : t <= s.first /\ t <= Topic[p].time
  <1>1. T \in SUBSET Nat /\ T # {}
    BY TopicTyped
  <1>2. PICK t \in T : \A u \in T : t <= u
    <2> HIDE DEF T
    <2>1. QED BY <1>1, LeastNat
  <1>3. Least(t)
    BY <1>2
  <1>4. Earliest(p, near) = CHOOSE u \in T : Least(u)
    BY DEF Earliest
  <1> HIDE DEF Least
  <1>5. Earliest(p, near) \in T /\ Least(Earliest(p, near))
    <2> HIDE DEF T
    <2>1. QED BY <1>2, <1>3, <1>4
  <1>6. CASE near = {}
    BY <1>1, <1>5, <1>6
  <1>7. CASE near # {}
    BY <1>1, <1>5, <1>7 DEF Least
  <1>8. QED BY <1>6, <1>7

LEMMA LatestIs ==
  ASSUME NEW p \in Pings, NEW near, \A s \in near : \E q \in Pings : s.last = Topic[q].time
  PROVE  /\ Latest(p, near) = Topic[p].time \/ \E s \in near : Latest(p, near) = s.last
         /\ Latest(p, near) \in Nat
         /\ Latest(p, near) >= Topic[p].time
         /\ \A s \in near : Latest(p, near) >= s.last
  <1> DEFINE T == {Topic[p].time} \cup {s.last : s \in near}
             Most(t) == \A s \in near : t >= s.last /\ t >= Topic[p].time
  <1>1. T \in SUBSET Nat /\ T # {}
    BY TopicTyped
  <1>2. PICK b \in Nat : \A q \in Pings : Topic[q].time <= b
    BY TimesBounded
  <1>3. \A u \in T : u <= b
    BY <1>2
  <1>4. PICK t \in T : \A u \in T : u <= t
    <2> HIDE DEF T
    <2>1. QED BY <1>1, <1>3, GreatestNat
  <1>5. Most(t)
    <2>1. TAKE s \in near
    <2>2. s.last \in T /\ Topic[p].time \in T
      OBVIOUS
    <2>3. QED BY <1>1, <1>4, <2>2
  <1>6. Latest(p, near) = CHOOSE u \in T : Most(u)
    BY DEF Latest
  <1> HIDE DEF Most
  <1>7. Latest(p, near) \in T /\ Most(Latest(p, near))
    <2> HIDE DEF T
    <2>1. QED BY <1>4, <1>5, <1>6
  <1>8. CASE near = {}
    BY <1>1, <1>7, <1>8
  <1>9. CASE near # {}
    BY <1>1, <1>7, <1>9 DEF Most
  <1>10. QED BY <1>8, <1>9

-----------------------------------------------------------------------
(* Merging keeps sessions the voyages of their vessels. *)

\* The sessions that Aggregate merges with ping p.
NearTo(p) == {s \in store : Near(p, s)}

LEMMA NeededEarlier ==
  ASSUME NEW s, NEW m \in Nat, NEW n \in Nat, m <= n, Needed(s, n)
  PROVE  Needed(s, m)
  <1>1. PICK p \in Pings : p > n /\ Near(p, s)
    BY DEF Needed
  <1>2. p \in Nat
    BY TopicTyped DEF Pings
  <1>3. QED BY <1>1, <1>2 DEF Needed

\* A session with its times, waypoints and vessel.
Sound(s) ==
  /\ s \in Session
  /\ Spans(s)
  /\ Connected(s.waypoints)
  /\ \A p \in s.waypoints : Topic[p].mmsi = s.mmsi

LEMMA SessionTyped ==
  ASSUME NEW s \in Session
  PROVE  s.mmsi \in Vessels /\ s.first \in Nat /\ s.last \in Nat /\ s.waypoints \subseteq Pings
         /\ s.several \in BOOLEAN
  BY DEF Session

\* A session near a ping has a waypoint within the gap of it: its first one,
\* its last one, or one of the two that connect what is earlier with the rest.
LEMMA NearIsLinked ==
  ASSUME NEW q \in Pings, NEW s, Sound(s), s.mmsi = Topic[q].mmsi,
         s.last >= Topic[q].time - Gap, s.first <= Topic[q].time + Gap
  PROVE  \E x \in s.waypoints : Linked(q, x)
  <1> DEFINE time == Topic[q].time
             v == {x \in s.waypoints : Topic[x].time <= time}
  <1>1. /\ Gap \in Nat /\ time \in Nat /\ s.first \in Nat /\ s.last \in Nat
        /\ \A x \in s.waypoints : x \in Pings /\ Topic[x].time \in Nat
    BY GapAssumption, TopicTyped, SessionTyped DEF Sound
  <1>2. PICK a, b \in s.waypoints : Topic[a].time = s.first /\ Topic[b].time = s.last
    BY DEF Sound, Spans
  <1>3. \A x \in s.waypoints : Topic[x].mmsi = Topic[q].mmsi
    BY DEF Sound
  <1>4. CASE s.first >= time
    <2>1. time - Topic[a].time \in -Gap..Gap
      BY <1>1, <1>2, <1>4
    <2>2. QED BY <1>2, <1>3, <2>1 DEF Linked
  <1>5. CASE s.last <= time
    <2>1. time - Topic[b].time \in -Gap..Gap
      BY <1>1, <1>2, <1>5
    <2>2. QED BY <1>2, <1>3, <2>1 DEF Linked
  <1>6. CASE s.first < time /\ time < s.last
    <2>1. a \in v /\ b \notin v /\ v \in SUBSET s.waypoints
      BY <1>1, <1>2, <1>6
    <2>2. PICK x \in v, y \in s.waypoints \ v : Linked(x, y)
      BY <1>2, <2>1 DEF Sound, Connected
    <2>3. time - Topic[x].time \in -Gap..Gap
      BY <1>1, <2>2 DEF Linked
    <2>4. QED BY <1>3, <2>2, <2>3 DEF Linked
  <1>7. QED BY <1>1, <1>4, <1>5, <1>6

LEMMA LinkedBothWays ==
  ASSUME NEW p \in Pings, NEW q \in Pings, Linked(p, q)
  PROVE  Linked(q, p)
  BY GapAssumption, TopicTyped DEF Linked

\* A ping and connected sessions near it are connected: a part that no gap
\* connects with the rest would hold each session whole or not at all, and the
\* ping with all of them or with none.
LEMMA MergedConnected ==
  ASSUME NEW q \in Pings, NEW near,
         \A s \in near : /\ s.waypoints \subseteq Pings
                         /\ Connected(s.waypoints)
                         /\ \E x \in s.waypoints : Linked(q, x)
  PROVE  Connected({q} \cup UNION {s.waypoints : s \in near})
  <1> DEFINE w == {q} \cup UNION {s.waypoints : s \in near}
  <1>1. SUFFICES ASSUME NEW v \in SUBSET w, v # {}, v # w,
                        \A x \in v, y \in w \ v : ~Linked(x, y)
                 PROVE  FALSE
    BY DEF Connected
  <1>2. w \subseteq Pings
    OBVIOUS
  <1>3. \A s \in near : s.waypoints \subseteq w
    OBVIOUS
  <1>4. ASSUME NEW s \in near PROVE s.waypoints \cap v = {} \/ s.waypoints \subseteq v
    <2>1. SUFFICES ASSUME s.waypoints \cap v # {}, s.waypoints \cap v # s.waypoints PROVE FALSE
      OBVIOUS
    <2>2. PICK x \in s.waypoints \cap v, y \in s.waypoints \ (s.waypoints \cap v) : Linked(x, y)
      BY <2>1 DEF Connected
    <2>3. QED BY <1>1, <1>3, <2>2
  <1>5. CASE q \in v
    <2>1. PICK y \in w : y \notin v
      BY <1>1
    <2>2. PICK s \in near : y \in s.waypoints
      BY <1>5, <2>1
    <2>3. PICK x \in s.waypoints : Linked(q, x)
      BY <2>2
    <2>4. x \notin v
      BY <1>4, <2>1, <2>2, <2>3
    <2>5. QED BY <1>1, <1>3, <1>5, <2>2, <2>3, <2>4
  <1>6. CASE q \notin v
    <2>1. PICK y \in v : TRUE
      BY <1>1
    <2>2. PICK s \in near : y \in s.waypoints
      BY <1>6, <2>1
    <2>3. PICK x \in s.waypoints : Linked(q, x)
      BY <2>2
    <2>4. x \in v
      BY <1>4, <2>1, <2>2, <2>3
    <2>5. Linked(x, q)
      BY <1>2, <1>3, <2>2, <2>3, LinkedBothWays
    <2>6. QED BY <1>1, <1>6, <2>4, <2>5
  <1>7. QED BY <1>5, <1>6

LEMMA SoundSessions ==
  ASSUME TypeOK, CacheAhead, SessionsSound
  PROVE  \A s \in store \cup changelog \cup expired : Sound(s)
  BY DEF TypeOK, CacheAhead, SessionsSound, Sound

\* What merging makes of a rare-earth ping and the sessions near it.
LEMMA MergedSound ==
  ASSUME TypeOK, CacheAhead, SessionsSound, NEW p \in Pings, Topic[p].rare_earth
  PROVE  LET m == Merged(p, NearTo(p))
         IN  /\ Sound(m)
             /\ m.mmsi = Topic[p].mmsi
             /\ p \in m.waypoints
             /\ m.first <= Topic[p].time /\ Topic[p].time <= m.last
             /\ \A s \in NearTo(p) : m.first <= s.first /\ s.last <= m.last
             /\ m.first = Topic[p].time \/ \E s \in NearTo(p) : m.first = s.first
             /\ m.last = Topic[p].time \/ \E s \in NearTo(p) : m.last = s.last
  <1> DEFINE near == NearTo(p)
             m == Merged(p, near)
  <1>1. /\ m.mmsi = Topic[p].mmsi /\ m.first = Earliest(p, near) /\ m.last = Latest(p, near)
        /\ m.waypoints = {p} \cup UNION {s.waypoints : s \in near}
        /\ m.several = (near # {})
        /\ m = [mmsi |-> Topic[p].mmsi, first |-> Earliest(p, near), last |-> Latest(p, near),
                waypoints |-> {p} \cup UNION {s.waypoints : s \in near}, several |-> near # {}]
    BY DEF Merged
  <1>2. \A s \in near : /\ s \in store /\ Sound(s) /\ s.mmsi = Topic[p].mmsi
                        /\ s.last >= Topic[p].time - Gap /\ s.first <= Topic[p].time + Gap
    BY SoundSessions DEF NearTo, Near
  <1> HIDE DEF near
  <1>3. \A s \in near : /\ s.first \in Nat /\ s.last \in Nat /\ s.waypoints \subseteq Pings
                        /\ \E x \in s.waypoints : Topic[x].time = s.first
                        /\ \E x \in s.waypoints : Topic[x].time = s.last
    BY <1>2, SessionTyped DEF Sound, Spans
  <1>4. \A s \in near : \E q \in Pings : s.last = Topic[q].time
    BY <1>3
  <1>5. /\ Earliest(p, near) = Topic[p].time \/ \E s \in near : Earliest(p, near) = s.first
        /\ Earliest(p, near) \in Nat
        /\ Earliest(p, near) <= Topic[p].time
        /\ \A s \in near : Earliest(p, near) <= s.first
    BY <1>3, EarliestIs
  <1>6. /\ Latest(p, near) = Topic[p].time \/ \E s \in near : Latest(p, near) = s.last
        /\ Latest(p, near) \in Nat
        /\ Latest(p, near) >= Topic[p].time
        /\ \A s \in near : Latest(p, near) >= s.last
    BY <1>4, LatestIs
  <1>7. m \in Session
    <2>1. m.waypoints \subseteq Pings
      BY <1>1, <1>3
    <2>2. QED BY <1>1, <1>5, <1>6, <2>1, TopicTyped DEF Session
  <1> HIDE DEF m
  <1>8. Connected(m.waypoints)
    <2>1. \A s \in near : \E x \in s.waypoints : Linked(p, x)
      BY <1>2, NearIsLinked
    <2>2. \A s \in near : Connected(s.waypoints)
      BY <1>2 DEF Sound
    <2>3. QED BY <1>1, <1>3, <2>1, <2>2, MergedConnected
  <1>9. Spans(m)
    <2>1. ASSUME NEW x \in m.waypoints
          PROVE  Topic[x].rare_earth /\ Topic[x].time \in m.first..m.last
      <3>1. CASE x = p
        BY <1>1, <1>5, <1>6, <3>1, TopicTyped
      <3>2. CASE x # p
        <4>1. PICK s \in near : x \in s.waypoints
          BY <1>1, <3>2
        <4>2. Topic[x].rare_earth /\ Topic[x].time \in s.first..s.last
          BY <1>2, <4>1 DEF Sound, Spans
        <4>3. s.first \in Nat /\ s.last \in Nat /\ m.first \in Nat /\ m.last \in Nat
              /\ m.first <= s.first /\ s.last <= m.last
          BY <1>1, <1>3, <1>5, <1>6
        <4>4. QED BY <4>2, <4>3
      <3>3. QED BY <3>1, <3>2
    <2>2. \E x \in m.waypoints : Topic[x].time = m.first
      BY <1>1, <1>3, <1>5
    <2>3. \E x \in m.waypoints : Topic[x].time = m.last
      BY <1>1, <1>3, <1>6
    <2>4. QED BY <2>1, <2>2, <2>3 DEF Spans
  <1>10. \A x \in m.waypoints : Topic[x].mmsi = m.mmsi
    BY <1>1, <1>2 DEF Sound
  <1>11. m.first <= Topic[p].time /\ Topic[p].time <= m.last
    BY <1>1, <1>5, <1>6, TopicTyped
  <1>12. \A s \in near : m.first <= s.first /\ s.last <= m.last
    BY <1>1, <1>3, <1>5, <1>6
  <1>13. /\ m.first = Topic[p].time \/ \E s \in near : m.first = s.first
         /\ m.last = Topic[p].time \/ \E s \in near : m.last = s.last
    BY <1>1, <1>5, <1>6
  <1>14. p \in m.waypoints
    BY <1>1
  <1>15. QED BY <1>1, <1>7, <1>8, <1>9, <1>10, <1>11, <1>12, <1>13, <1>14 DEF Sound, near, m

\* A session of the vessel, expired or not, that is not near the ping is apart
\* from what the ping and the sessions near it make.
LEMMA MergedApart ==
  ASSUME TypeOK, CacheAhead, SessionsSound, NEW p \in Pings, Topic[p].rare_earth,
         NEW t \in store \cup expired, ~Near(p, t),
         t.mmsi = Topic[p].mmsi, t.mmsi \notin torn \cup lapsed
  PROVE  Apart(Merged(p, NearTo(p)), t)
  <1> DEFINE near == NearTo(p)
             m == Merged(p, near)
             time == Topic[p].time
  <1>1. /\ m \in Session
        /\ m.first <= time /\ time <= m.last
        /\ m.first = time \/ \E s \in near : m.first = s.first
        /\ m.last = time \/ \E s \in near : m.last = s.last
    BY MergedSound DEF Sound
  <1>2. m.first \in Nat /\ m.last \in Nat /\ time \in Nat /\ Gap \in Nat /\ t.first \in Nat /\ t.last \in Nat
    BY <1>1, SessionTyped, TopicTyped, GapAssumption DEF TypeOK
  <1>3. t.first <= t.last /\ \A s \in near : s.first <= s.last
    <2>1. \A s \in store \cup expired : s.first \in Nat /\ s.last \in Nat
      BY SessionTyped DEF TypeOK
    <2>2. \A s \in store \cup expired : \E x \in s.waypoints : Topic[x].time \in s.first..s.last
      BY DEF SessionsSound, Spans
    <2>3. \A s \in store \cup expired : s.first <= s.last
      BY <2>1, <2>2
    <2>4. QED BY <2>3 DEF NearTo
  <1>4. \A s \in near : /\ s.first \in Nat /\ s.last \in Nat
                        /\ s.last >= time - Gap /\ s.first <= time + Gap
                        /\ s.last + Gap < t.first \/ t.last + Gap < s.first
    <2>1. TAKE s \in near
    <2>2. s \in store /\ s # t /\ s.mmsi = t.mmsi /\ s.mmsi \notin torn \cup lapsed
      BY DEF NearTo, Near
    <2>3. Apart(s, t)
      BY <2>2 DEF SessionsSound, AllApart
    <2>4. QED BY <2>2, <2>3, SessionTyped DEF TypeOK, NearTo, Near, Apart
  <1>5. t.last < time - Gap \/ t.first > time + Gap
    BY <1>2 DEF Near
  <1> HIDE DEF near, m, time
  <1>6. CASE t.last < time - Gap
    <2>1. \A s \in near : t.last + Gap < s.first
      BY <1>2, <1>3, <1>4, <1>6
    <2>2. t.last + Gap < m.first
      BY <1>1, <1>2, <1>6, <2>1
    <2>3. QED BY <2>2 DEF Apart, m, near
  <1>7. CASE t.first > time + Gap
    <2>1. \A s \in near : s.last + Gap < t.first
      BY <1>2, <1>3, <1>4, <1>7
    <2>2. m.last + Gap < t.first
      BY <1>1, <1>2, <1>7, <2>1
    <2>3. QED BY <2>2 DEF Apart, m, near
  <1>8. QED BY <1>5, <1>6, <1>7

-----------------------------------------------------------------------
(* What each step of the stream and of the service keeps. *)

VInv == KeptInv /\ TypeOK /\ SessionsSound /\ AuditsOwed

LEMMA InitVoyages == Init => VInv
  <1> SUFFICES ASSUME Init PROVE VInv
    OBVIOUS
  <1>1. KeptInv
    BY InitKept
  <1>2. 0 \in Callers /\ MaxRestarts \in Nat /\ Len(Topic) \in Nat /\ MaxNow \in Nat
    BY CallersAssumption, RestartsAssumption, IdleAssumption, TopicTyped
  <1>3. TypeOK
    BY <1>2 DEF Init, ServiceInit, TypeOK
  <1>4. SessionsSound
    BY DEF Init, SessionsSound, AllApart, OneToAKey
  <1>5. AuditsOwed
    BY DEF Init, AuditsOwed, Observed, ChangedSinceCommit, CallUnderWay, MissingOwed
  <1>6. QED BY <1>1, <1>3, <1>4, <1>5 DEF VInv

LEMMA PassOverVoyages == ASSUME VInv, PassOver PROVE VInv'
  <1>1. /\ calling = Idle /\ offset < Len(Topic) /\ ~Topic[offset + 1].rare_earth
        /\ offset' = offset + 1
        /\ UNCHANGED <<committed, streamTime, store, changelog, dirty, partway, calling, running,
                       restarts, late, torn, expired, lapsed, now, handler, live_ais, collided>>
    BY DEF PassOver, Working, storeVars, clientVars, historyVars, expiryVars, serviceVars
  <1>2. KeptInv'
    BY PassOverKeeps DEF VInv
  <1>3. TypeOK'
    BY <1>1, TopicTyped DEF VInv, TypeOK
  <1>4. SessionsSound'
    <2>1. \A s : Needed(s, offset') => Needed(s, offset)
      BY <1>1, NeededEarlier DEF VInv, KeptInv, Counted
    <2>2. QED BY <1>1, <2>1 DEF VInv, SessionsSound, AllApart, OneToAKey
  <1>5. AuditsOwed'
    <2>1. offset \in Nat /\ committed \in Nat /\ streamTime \in Int
      BY TopicTyped DEF VInv, TypeOK
    <2>2. Observed'
      <3>1. \A q \in (committed + 1)..offset' : q \in (committed + 1)..offset \/ q = offset + 1
        BY <1>1, <2>1
      <3>2. QED BY <1>1, <3>1 DEF VInv, AuditsOwed, Observed
    <2>3. \A p \in 1..offset : p \in 1..offset'
      BY <1>1, <2>1
    <2>4. ChangedSinceCommit'
      BY <1>1, <2>3 DEF VInv, AuditsOwed, ChangedSinceCommit, Replayed
    <2>5. CallUnderWay'
      BY <1>1 DEF CallUnderWay
    <2>6. ASSUME NEW s \in changelog, NEW p \in Pings, Replayed(p, s), p > offset
          PROVE  p > offset'
      <3>1. Topic[p].rare_earth
        BY <2>6 DEF Replayed, VInv, SessionsSound, Spans
      <3>2. p # offset + 1 /\ p \in Nat
        BY <1>1, <3>1, TopicTyped DEF Pings
      <3>3. QED BY <1>1, <2>1, <2>6, <3>2
    <2>7. MissingOwed'
      <3>1. SUFFICES ASSUME NEW s \in changelog, s.several, ~Audited(s) PROVE Owed(s)'
        BY <1>1 DEF VInv, AuditsOwed, MissingOwed, Audited
      <3>2. PICK p \in Pings : /\ Replayed(p, s)
                               /\ \/ Key(s) \in dirty
                                  \/ calling = Call(s)
                                  \/ p > offset /\ streamTime <= s.last + Gap
        BY <3>1 DEF VInv, AuditsOwed, MissingOwed, Owed
      <3>3. QED BY <1>1, <2>6, <3>2 DEF Owed, Replayed
    <2>8. QED BY <2>2, <2>4, <2>5, <2>7 DEF AuditsOwed
  <1>6. QED BY <1>2, <1>3, <1>4, <1>5 DEF VInv

\* The ping that is read next, and the session it makes.
Upcoming == offset + 1
Joint == Merged(Upcoming, NearTo(Upcoming))

LEMMA AggregateIs ==
  ASSUME TypeOK, Aggregate
  PROVE  /\ Upcoming \in Pings /\ Topic[Upcoming].rare_earth /\ calling = Idle
         /\ offset' = Upcoming
         /\ streamTime' \in Int /\ streamTime' >= streamTime /\ streamTime' >= Topic[Upcoming].time
         /\ streamTime' = streamTime \/ streamTime' = Topic[Upcoming].time
         /\ UNCHANGED <<committed, changelog, partway, calling, running, restarts, torn,
                        expired, lapsed, serviceVars>>
         /\ \/ /\ Joint.last < streamTime' - Gap
               /\ UNCHANGED <<store, dirty>>
            \/ /\ ~(Joint.last < streamTime' - Gap)
               /\ store' = (store \ NearTo(Upcoming)) \cup {Joint}
               /\ dirty' = dirty \cup {Key(s) : s \in NearTo(Upcoming) \cup {Joint}}
  <1> DEFINE time == Topic[offset + 1].time
             observed == IF time > streamTime THEN time ELSE streamTime
             near == {s \in store : Near(offset + 1, s)}
             session == Merged(offset + 1, near)
  <1>1. offset \in Nat /\ streamTime \in Int
    BY TopicTyped DEF TypeOK
  <1>2. offset < Len(Topic) /\ Topic[offset + 1].rare_earth /\ calling = Idle /\ offset' = offset + 1
        /\ streamTime' = observed
        /\ UNCHANGED <<committed, changelog, partway, calling, running, restarts, torn,
                       expired, lapsed, serviceVars>>
        /\ IF session.last < observed - Gap
           THEN UNCHANGED <<store, dirty>>
           ELSE /\ store' = (store \ near) \cup {session}
                /\ dirty' = dirty \cup {Key(s) : s \in near \cup {session}}
    BY DEF Aggregate, Working, storeVars, clientVars, expiryVars
  <1>3. Upcoming \in Pings
    BY <1>1, <1>2, TopicTyped DEF Upcoming, Pings
  <1>4. time \in Nat
    BY <1>3, TopicTyped DEF Upcoming
  <1>5. near = NearTo(Upcoming) /\ session = Joint
    BY DEF Joint, Upcoming, NearTo
  <1>6. /\ observed \in Int /\ observed >= streamTime /\ observed >= time
        /\ observed = streamTime \/ observed = time
    BY <1>1, <1>4
  <1> HIDE DEF observed, near, session, time
  <1>7. CASE session.last < observed - Gap
    <2>1. Joint.last < streamTime' - Gap
      BY <1>2, <1>5, <1>7
    <2>2. QED BY <1>2, <1>3, <1>6, <1>7, <2>1 DEF Upcoming, time
  <1>8. CASE ~(session.last < observed - Gap)
    <2>1. ~(Joint.last < streamTime' - Gap)
      BY <1>2, <1>5, <1>8 
    <2>2. QED BY <1>2, <1>3, <1>5, <1>6, <1>8, <2>1 DEF Upcoming, time
  <1>9. QED BY <1>7, <1>8

LEMMA KeyIs ==
  ASSUME NEW s, NEW t, Key(s) = Key(t)
  PROVE  s.mmsi = t.mmsi /\ s.first = t.first /\ s.last = t.last
  BY DEF Key

LEMMA JointIs ==
  ASSUME KeptInv, TypeOK, SessionsSound, Aggregate
  PROVE  /\ Sound(Joint)
         /\ Joint.mmsi = Topic[Upcoming].mmsi /\ Upcoming \in Joint.waypoints
         /\ Joint.first \in Nat /\ Joint.last \in Nat
         /\ Joint.first <= Topic[Upcoming].time /\ Topic[Upcoming].time <= Joint.last
         /\ \A s \in NearTo(Upcoming) : Joint.first <= s.first /\ s.last <= Joint.last
  <1>1. Upcoming \in Pings /\ Topic[Upcoming].rare_earth
    BY AggregateIs
  <1>2. Sound(Joint)
    BY <1>1, MergedSound DEF KeptInv, Joint
  <1>3. Joint.first \in Nat /\ Joint.last \in Nat
    BY <1>2, SessionTyped DEF Sound
  <1>4. QED BY <1>1, <1>2, <1>3, MergedSound DEF KeptInv, Joint

\* No session the aggregation keeps beside the joint one has its key, or that
\* of a session it joined.
LEMMA JointKeys ==
  ASSUME KeptInv, TypeOK, SessionsSound, Aggregate, NEW t \in store, t \notin NearTo(Upcoming),
         NEW s \in NearTo(Upcoming) \cup {Joint}
  PROVE  Key(t) # Key(s)
  <1> SUFFICES ASSUME Key(t) = Key(s) PROVE FALSE
    OBVIOUS
  <1>1. t.mmsi = s.mmsi /\ t.first = s.first /\ t.last = s.last
    BY KeyIs
  <1>2. CASE s \in NearTo(Upcoming)
    BY <1>1, <1>2 DEF NearTo, Near
  <1>3. CASE s = Joint
    <2>1. /\ t.mmsi = Topic[Upcoming].mmsi
          /\ t.first <= Topic[Upcoming].time /\ Topic[Upcoming].time <= t.last
          /\ t.first \in Nat /\ t.last \in Nat
      BY <1>1, <1>3, JointIs
    <2>2. Topic[Upcoming].time \in Nat /\ Gap \in Nat
      BY AggregateIs, TopicTyped, GapAssumption
    <2>3. t.last >= Topic[Upcoming].time - Gap /\ t.first <= Topic[Upcoming].time + Gap
      BY <2>1, <2>2
    <2>4. QED BY <2>1, <2>3 DEF NearTo, Near
  <1>4. QED BY <1>2, <1>3

LEMMA AggregateTyped == ASSUME KeptInv, TypeOK, SessionsSound, Aggregate PROVE TypeOK'
  <1>1. offset' \in 0..Len(Topic)
    BY AggregateIs, TopicTyped DEF Pings
  <1>2. committed' \in 0..offset'
    BY AggregateIs, TopicTyped DEF TypeOK, Upcoming
  <1>3. \A s \in store' \cup changelog' \cup expired' : s \in Session
    <2>1. Joint \in Session
      BY JointIs DEF Sound
    <2>2. store' \cup changelog' \cup expired' \subseteq store \cup changelog \cup expired \cup {Joint}
      BY AggregateIs
    <2>3. QED BY <2>1, <2>2 DEF TypeOK
  <1>4. dirty' \subseteq Vessels \X Nat \X Nat
    <2>1. \A s \in NearTo(Upcoming) \cup {Joint} : s \in Session
      BY JointIs DEF Sound, NearTo, TypeOK
    <2>2. \A s \in NearTo(Upcoming) \cup {Joint} : Key(s) \in Vessels \X Nat \X Nat
      BY <2>1, SessionTyped DEF Key
    <2>3. QED BY <2>2, AggregateIs DEF TypeOK
  <1>5. QED BY <1>1, <1>2, <1>3, <1>4, AggregateIs DEF TypeOK, serviceVars

LEMMA AggregateSound == ASSUME KeptInv, TypeOK, SessionsSound, Aggregate PROVE SessionsSound'
  <1>1. UNCHANGED <<changelog, partway, torn, expired, lapsed>>
    BY AggregateIs
  <1>2. offset \in Nat /\ offset' = Upcoming /\ Upcoming = offset + 1 /\ Upcoming \in Pings
    BY AggregateIs DEF KeptInv, Counted, Upcoming
  <1>3. \A s \in expired' : Needed(s, offset') => s.mmsi \in lapsed'
    <2>1. \A s : Needed(s, offset') => Needed(s, offset)
      BY <1>2, NeededEarlier
    <2>2. QED BY <1>1, <2>1 DEF SessionsSound
  <1>4. CASE UNCHANGED <<store, dirty>>
    BY <1>1, <1>3, <1>4 DEF SessionsSound, AllApart, OneToAKey
  <1>5. CASE /\ store' = (store \ NearTo(Upcoming)) \cup {Joint}
             /\ dirty' = dirty \cup {Key(s) : s \in NearTo(Upcoming) \cup {Joint}}
    <2>1. \A s \in store' \cup changelog' \cup expired' : Spans(s) /\ Connected(s.waypoints)
      BY <1>1, <1>5, JointIs DEF SessionsSound, Sound
    <2>2. ASSUME NEW t \in (store \ NearTo(Upcoming)) \cup expired, t.mmsi = Joint.mmsi,
                 t.mmsi \notin torn \cup lapsed
          PROVE  Apart(Joint, t) /\ Apart(t, Joint)
      <3>1. Topic[Upcoming].rare_earth /\ t.mmsi = Topic[Upcoming].mmsi
        BY <2>2, AggregateIs, JointIs
      <3>2. ~Near(Upcoming, t)
        <4>1. CASE t \in store \ NearTo(Upcoming)
          BY <4>1 DEF NearTo
        <4>2. CASE t \in expired
          <5>1. ~Needed(t, offset)
            BY <2>2, <4>2 DEF SessionsSound
          <5>2. QED BY <1>2, <5>1 DEF Needed
        <4>3. QED BY <4>1, <4>2
      <3>3. Apart(Joint, t)
        BY <1>2, <2>2, <3>1, <3>2, MergedApart DEF KeptInv, Joint
      <3>4. QED BY <3>3 DEF Apart
    <2>3. AllApart(store' \cup expired', torn' \cup lapsed')
      BY <1>1, <1>5, <2>2 DEF SessionsSound, AllApart
    <2>4. OneToAKey(store')
      BY <1>5, JointKeys DEF SessionsSound, OneToAKey
    <2>5. \A s \in changelog' : Key(s) \in dirty' \/ s \in store'
      BY <1>1, <1>5 DEF SessionsSound
    <2>6. AllApart(changelog' \cup expired', torn' \cup lapsed' \cup partway') /\ OneToAKey(changelog')
      BY <1>1 DEF SessionsSound
    <2>7. QED BY <1>3, <2>1, <2>3, <2>4, <2>5, <2>6 DEF SessionsSound, AllApart, OneToAKey
  <1>6. QED BY <1>4, <1>5, AggregateIs

LEMMA AggregateOwed == ASSUME VInv, Aggregate PROVE AuditsOwed'
  <1> USE DEF VInv
  <1>1. /\ offset \in Nat /\ committed \in Nat /\ committed <= offset /\ streamTime \in Int
        /\ Upcoming = offset + 1 /\ Gap \in Nat /\ Topic[Upcoming].time \in Nat
        /\ \A s \in store \cup changelog : s.last \in Nat
    BY TopicTyped, AggregateIs, GapAssumption, SessionTyped DEF TypeOK, Upcoming
  <1>2. Observed'
    <2>1. \A q \in (committed' + 1)..offset' : q \in (committed + 1)..offset \/ q = Upcoming
      BY <1>1, AggregateIs
    <2>2. \A q \in (committed + 1)..offset : q \in Pings
      BY <1>1, TopicTyped, AggregateIs DEF Pings
    <2>3. \A q \in (committed + 1)..offset : Topic[q].rare_earth => Topic[q].time <= streamTime'
      BY <1>1, <2>2, AggregateIs, TopicTyped DEF AuditsOwed, Observed
    <2>4. QED BY <2>1, <2>3, AggregateIs DEF Observed
  <1>3. ChangedSinceCommit'
    <2>1. CASE UNCHANGED <<store, dirty>>
      <3>1. \A p \in 1..offset : p \in 1..offset'
        BY <1>1, AggregateIs
      <3>2. QED BY <2>1, <3>1, AggregateIs DEF AuditsOwed, ChangedSinceCommit, Replayed
    <2>2. CASE /\ ~(Joint.last < streamTime' - Gap)
               /\ store' = (store \ NearTo(Upcoming)) \cup {Joint}
               /\ dirty' = dirty \cup {Key(s) : s \in NearTo(Upcoming) \cup {Joint}}
      <3>1. Replayed(Upcoming, Joint)
        <4>1. streamTime' <= Joint.last + Gap
          BY <1>1, <2>2, AggregateIs, JointIs
        <4>2. \A q \in (committed + 1)..Upcoming : Topic[q].rare_earth => Topic[q].time <= streamTime'
          BY <1>2, AggregateIs DEF Observed
        <4>3. \A q \in (committed + 1)..Upcoming : q \in Pings
          BY <1>1, TopicTyped, AggregateIs DEF Pings
        <4>4. \A q \in (committed + 1)..Upcoming : Topic[q].rare_earth => Topic[q].time <= Joint.last + Gap
          BY <1>1, <4>1, <4>2, <4>3, AggregateIs, JointIs, TopicTyped
        <4>5. Upcoming > committed /\ Upcoming \in Joint.waypoints
          BY <1>1, JointIs
        <4>6. QED BY <4>4, <4>5 DEF Replayed
      <3>2. Upcoming \in 1..offset' /\ \A p \in 1..offset : p \in 1..offset'
        BY <1>1, AggregateIs
      <3>3. ASSUME NEW s \in store', Key(s) \in dirty'
            PROVE  \E p \in 1..offset' : Replayed(p, s)
        <4>1. CASE s = Joint
          BY <3>1, <3>2, <4>1
        <4>2. CASE s # Joint
          <5>1. s \in store /\ s \notin NearTo(Upcoming)
            BY <2>2, <4>2
          <5>2. Key(s) \in dirty
            BY <2>2, <3>3, <5>1, JointKeys
          <5>3. QED BY <3>2, <5>1, <5>2 DEF AuditsOwed, ChangedSinceCommit
        <4>3. QED BY <4>1, <4>2
      <3>4. QED BY <3>3, AggregateIs DEF ChangedSinceCommit, Replayed
    <2>3. QED BY <2>1, <2>2, AggregateIs
  <1>4. CallUnderWay'
    BY AggregateIs DEF CallUnderWay
  <1>5. MissingOwed'
    <2>1. SUFFICES ASSUME NEW s \in changelog, s.several, ~Audited(s) PROVE Owed(s)'
      BY AggregateIs DEF AuditsOwed, MissingOwed, Audited, serviceVars
    <2>2. PICK p \in Pings : /\ Replayed(p, s)
                             /\ \/ Key(s) \in dirty
                                \/ calling = Call(s)
                                \/ p > offset /\ streamTime <= s.last + Gap
      BY <2>1 DEF AuditsOwed, MissingOwed, Owed
    <2>3. s \in Session /\ \A q \in s.waypoints : Topic[q].mmsi = s.mmsi
      BY DEF TypeOK, KeptInv, CacheAhead
    <2>4. CASE Key(s) \in dirty
      <3>1. Key(s) \in dirty'
        BY <2>4, AggregateIs
      <3>2. QED BY <2>2, <3>1, AggregateIs DEF Owed, Replayed
    <2>5. CASE calling = Call(s)
      <3>1. Call(s) \in Voyage
        BY <2>3, SessionTyped DEF Call, Voyage
      <3>2. QED BY <2>5, <3>1, AggregateIs, IdleAssumption
    <2>6. CASE p > Upcoming /\ streamTime <= s.last + Gap
      <3>1. Upcoming \in (committed + 1)..p
        BY <1>1, <2>2, <2>6 DEF Pings
      <3>2. Topic[Upcoming].time <= s.last + Gap
        BY <2>2, <3>1, AggregateIs DEF Replayed
      <3>3. streamTime' <= s.last + Gap
        BY <2>6, <3>2, AggregateIs
      <3>4. QED BY <2>2, <2>6, <3>3, AggregateIs DEF Owed, Replayed
    <2>7. CASE p = Upcoming /\ streamTime <= s.last + Gap /\ Key(s) \notin dirty
      <3>1. s \in store
        BY <2>7 DEF SessionsSound
      <3>2. /\ s.mmsi = Topic[Upcoming].mmsi /\ s.first \in Nat /\ s.last \in Nat
            /\ Topic[Upcoming].time \in s.first..s.last
        BY <2>2, <2>3, <2>7, <3>1, SessionTyped DEF Replayed, SessionsSound, Spans
      <3>3. s \in NearTo(Upcoming)
        BY <1>1, <3>1, <3>2 DEF NearTo, Near
      <3>4. streamTime' <= s.last + Gap
        BY <1>1, <2>7, <3>2, AggregateIs
      <3>5. ~(Joint.last < streamTime' - Gap)
        BY <1>1, <3>2, <3>3, <3>4, AggregateIs, JointIs
      <3>6. Key(s) \in dirty'
        BY <3>3, <3>5, AggregateIs
      <3>7. QED BY <2>2, <3>6, AggregateIs DEF Owed, Replayed
    <2>8. p \in Nat
      BY TopicTyped DEF Pings
    <2>9. QED BY <1>1, <2>2, <2>4, <2>5, <2>6, <2>7, <2>8
  <1>6. QED BY <1>2, <1>3, <1>4, <1>5 DEF AuditsOwed

LEMMA AggregateVoyages == ASSUME VInv, Aggregate PROVE VInv'
  BY AggregateKeeps, AggregateTyped, AggregateSound, AggregateOwed DEF VInv

-----------------------------------------------------------------------
(* The cache lets go of a key. *)

LEMMA FlushIs ==
  ASSUME NEW k \in dirty, Flush(k), TypeOK, OneToAKey(store)
  PROVE  LET current == {s \in store : Key(s) = k}
             others == {d \in dirty \ {k} : d[1] = k[1]}
         IN  /\ dirty' = dirty \ {k} /\ calling = Idle
             /\ changelog' = {s \in changelog : Key(s) # k} \cup current
             /\ partway' = IF others = {} THEN partway \ {k[1]} ELSE partway \cup {k[1]}
             /\ UNCHANGED <<offset, committed, streamTime, store, running, restarts, late, torn,
                            expired, lapsed, now, live_ais, collided>>
             /\ calling' \in Voyage \cup {Idle} /\ handler' \in [Callers -> Audit \cup {Idle}]
             /\ \A s \in current : s.several => calling' = Call(s)
             /\ CallUnderWay'
  <1> DEFINE current == {s \in store : Key(s) = k}
             voyages == {s \in current : s.several}
  <1>1. \/ voyages = {} /\ UNCHANGED <<calling, serviceVars>>
        \/ \E s \in voyages : calling' = Call(s) /\ Receive(restarts, s.mmsi, s.waypoints)
    BY DEF Flush
  <1>2. /\ calling = Idle /\ running
        /\ UNCHANGED <<offset, committed, streamTime, store, running, restarts, late, torn,
                       expired, lapsed>>
    BY DEF Flush, Working, streamVars, clientVars, historyVars, expiryVars
  <1>3. CASE voyages = {} /\ UNCHANGED <<calling, serviceVars>>
    BY <1>2, <1>3 DEF Flush, TypeOK, serviceVars, CallUnderWay
  <1>4. ASSUME NEW s \in voyages, calling' = Call(s), Receive(restarts, s.mmsi, s.waypoints)
        PROVE  /\ UNCHANGED <<now, live_ais, collided>>
               /\ calling' \in Voyage \cup {Idle} /\ handler' \in [Callers -> Audit \cup {Idle}]
               /\ \A t \in current : t.several => calling' = Call(t)
               /\ CallUnderWay'
    <2> DEFINE call == [mmsi |-> s.mmsi, waypoints |-> s.waypoints, timestamp |-> -1]
    <2>1. s \in Session
      BY DEF TypeOK
    <2>2. call \in Audit /\ Call(s) \in Voyage
      BY <2>1, SessionTyped, IdleAssumption DEF Audit, Voyage, Call
    <2>3. restarts \in Callers
      BY CallersAssumption DEF TypeOK
    <2>4. handler' = [handler EXCEPT ![restarts] = call] /\ UNCHANGED <<now, live_ais, collided>>
      BY <1>4 DEF Receive
    <2>5. handler' \in [Callers -> Audit \cup {Idle}] /\ handler'[restarts] = call
      BY <2>2, <2>3, <2>4 DEF TypeOK
    <2>6. \A t \in current : t = s
      BY DEF OneToAKey
    <2>7. CallUnderWay'
      <3>1. restarts' = restarts /\ call # Idle
        BY <1>2, <2>2, IdleAssumption
      <3>2. handler'[restarts'] # Idle /\ handler'[restarts'].mmsi = s.mmsi
            /\ handler'[restarts'].waypoints = s.waypoints
        BY <2>5, <3>1
      <3>3. QED BY <1>2, <1>4, <3>2 DEF CallUnderWay, Call
    <2>8. QED BY <1>4, <2>2, <2>4, <2>5, <2>6, <2>7
  <1>5. QED BY <1>1, <1>2, <1>3, <1>4 DEF Flush

LEMMA FlushTyped == ASSUME VInv, NEW k \in dirty, Flush(k) PROVE TypeOK'
  <1> USE DEF VInv
  <1>1. OneToAKey(store)
    BY DEF SessionsSound
  <1>2. k[1] \in Vessels
    BY DEF TypeOK
  <1>3. dirty' \subseteq dirty /\ changelog' \subseteq store \cup changelog /\ partway' \subseteq partway \cup {k[1]}
    BY <1>1, FlushIs
  <1>4. QED BY <1>1, <1>2, <1>3, FlushIs DEF TypeOK

LEMMA FlushSound == ASSUME VInv, NEW k \in dirty, Flush(k) PROVE SessionsSound'
  <1> DEFINE current == {s \in store : Key(s) = k}
             others == {d \in dirty \ {k} : d[1] = k[1]}
  <1> USE DEF VInv
  <1>1. /\ dirty' = dirty \ {k} /\ UNCHANGED <<offset, store, torn, expired, lapsed>>
        /\ changelog' = {s \in changelog : Key(s) # k} \cup current
        /\ partway' = IF others = {} THEN partway \ {k[1]} ELSE partway \cup {k[1]}
    BY FlushIs DEF SessionsSound
  <1>2. \A s \in store' \cup changelog' \cup expired' : Spans(s) /\ Connected(s.waypoints)
    BY <1>1 DEF SessionsSound
  <1>3. \A s \in changelog' : Key(s) \in dirty' \/ s \in store'
    BY <1>1 DEF SessionsSound
  <1>4. ASSUME NEW s \in changelog' \cup expired, NEW t \in changelog' \cup expired,
               s # t, s.mmsi = t.mmsi, s.mmsi \notin torn \cup lapsed \cup partway'
        PROVE  Apart(s, t)
    <2>1. CASE s.mmsi = k[1]
      <3>1. others = {}
        BY <1>1, <1>4, <2>1
      <3>2. \A r : r.mmsi = k[1] => Key(r) \notin dirty'
        BY <1>1, <3>1 DEF Key
      <3>3. s \in store \cup expired /\ t \in store \cup expired
        BY <1>1, <1>3, <1>4, <2>1, <3>2
      <3>4. QED BY <1>4, <3>3 DEF SessionsSound, AllApart
    <2>2. CASE s.mmsi # k[1]
      <3>1. s \in changelog \cup expired /\ t \in changelog \cup expired
        BY <1>1, <1>4, <2>2 DEF Key
      <3>2. s.mmsi \notin partway
        BY <1>1, <1>4, <2>2
      <3>3. QED BY <1>4, <3>1, <3>2 DEF SessionsSound, AllApart
    <2>3. QED BY <2>1, <2>2
  <1>5. AllApart(changelog' \cup expired', torn' \cup lapsed' \cup partway')
    BY <1>1, <1>4 DEF AllApart
  <1>6. OneToAKey(changelog')
    BY <1>1 DEF SessionsSound, OneToAKey
  <1>7. AllApart(store' \cup expired', torn' \cup lapsed') /\ OneToAKey(store')
    BY <1>1 DEF SessionsSound
  <1>8. \A s \in expired' : Needed(s, offset') => s.mmsi \in lapsed'
    BY <1>1 DEF SessionsSound
  <1>9. QED BY <1>2, <1>3, <1>5, <1>6, <1>7, <1>8 DEF SessionsSound, AllApart, OneToAKey

\* A session that comes to the changelog unaudited has been changed since the
\* commit, and its audit is being called.
LEMMA FlushOwed == ASSUME VInv, NEW k \in dirty, Flush(k) PROVE AuditsOwed'
  <1> DEFINE current == {s \in store : Key(s) = k}
  <1> USE DEF VInv
  <1>1. /\ dirty' = dirty \ {k} /\ calling = Idle
        /\ changelog' = {s \in changelog : Key(s) # k} \cup current
        /\ UNCHANGED <<offset, committed, streamTime, store, restarts, expired, lapsed, live_ais, collided>>
        /\ \A s \in current : s.several => calling' = Call(s)
        /\ CallUnderWay'
    BY FlushIs DEF SessionsSound
  <1>2. Observed'
    BY <1>1 DEF AuditsOwed, Observed
  <1>3. ChangedSinceCommit'
    BY <1>1 DEF AuditsOwed, ChangedSinceCommit, Replayed
  <1>4. MissingOwed'
    <2>1. SUFFICES ASSUME NEW s \in changelog', s.several, ~Audited(s) PROVE Owed(s)'
      BY <1>1 DEF AuditsOwed, MissingOwed, Audited
    <2>2. CASE s \in current
      <3>1. PICK p \in 1..offset : Replayed(p, s)
        BY <2>2 DEF AuditsOwed, ChangedSinceCommit
      <3>2. p \in Pings
        BY <3>1, TopicTyped DEF TypeOK, Pings
      <3>3. calling' = Call(s)
        BY <1>1, <2>1, <2>2
      <3>4. QED BY <1>1, <3>1, <3>2, <3>3 DEF Owed, Replayed
    <2>3. CASE s \in changelog /\ Key(s) # k
      <3>1. PICK p \in Pings : /\ Replayed(p, s)
                               /\ \/ Key(s) \in dirty
                                  \/ calling = Call(s)
                                  \/ p > offset /\ streamTime <= s.last + Gap
        BY <2>1, <2>3 DEF AuditsOwed, MissingOwed, Owed
      <3>2. Call(s) # Idle
        <4>1. Call(s) \in Voyage
          BY <2>3, SessionTyped DEF TypeOK, Call, Voyage
        <4>2. QED BY <4>1, IdleAssumption
      <3>3. Key(s) \in dirty' \/ (p > offset /\ streamTime <= s.last + Gap)
        BY <1>1, <2>3, <3>1, <3>2
      <3>4. QED BY <1>1, <3>1, <3>3 DEF Owed, Replayed
    <2>4. QED BY <1>1, <2>1, <2>2, <2>3
  <1>5. QED BY <1>1, <1>2, <1>3, <1>4 DEF AuditsOwed

LEMMA FlushVoyages == ASSUME VInv, NEW k \in dirty, Flush(k) PROVE VInv'
  BY FlushKeeps, FlushTyped, FlushSound, FlushOwed DEF VInv

\* A call returns when its audit has been put.
LEMMA AnswerVoyages == ASSUME VInv, Answer PROVE VInv'
  <1> USE DEF VInv
  <1>1. /\ calling # Idle /\ handler[restarts] = Idle /\ calling' = Idle
        /\ UNCHANGED <<offset, committed, streamTime, store, changelog, dirty, partway, running,
                       restarts, late, torn, expired, lapsed, now, handler, live_ais, collided>>
    BY DEF Answer, streamVars, storeVars, clientVars, historyVars, expiryVars, serviceVars
  <1>2. KeptInv' /\ TypeOK'
    BY <1>1 DEF KeptInv, Counted, PingsKept, CacheAhead, Held, Gone, TypeOK
  <1>3. SessionsSound'
    BY <1>1 DEF SessionsSound
  <1>4. Audited(calling)
    BY <1>1 DEF AuditsOwed, CallUnderWay
  <1>5. Observed' /\ ChangedSinceCommit' /\ CallUnderWay'
    BY <1>1 DEF AuditsOwed, Observed, ChangedSinceCommit, CallUnderWay, Replayed
  <1>6. MissingOwed'
    <2>1. SUFFICES ASSUME NEW s \in changelog, s.several, ~Audited(s) PROVE Owed(s)'
      BY <1>1 DEF AuditsOwed, MissingOwed, Audited
    <2>2. calling # Call(s)
      BY <1>4, <2>1 DEF Audited, Call
    <2>3. PICK p \in Pings : /\ Replayed(p, s)
                             /\ Key(s) \in dirty \/ (p > offset /\ streamTime <= s.last + Gap)
      BY <2>1, <2>2 DEF AuditsOwed, MissingOwed, Owed
    <2>4. QED BY <1>1, <2>3 DEF Owed, Replayed
  <1>7. QED BY <1>2, <1>3, <1>5, <1>6 DEF AuditsOwed

\* The commit waits for the cache and for the call, so what is still missing
\* then is what a ping beyond it brings again.
LEMMA CommitVoyages == ASSUME VInv, Commit PROVE VInv'
  <1> USE DEF VInv
  <1>1. /\ calling = Idle /\ dirty = {} /\ committed' = offset
        /\ UNCHANGED <<offset, streamTime, store, changelog, dirty, partway, calling, running,
                       restarts, late, torn, expired, lapsed, now, handler, live_ais, collided>>
    BY DEF Commit, Working, storeVars, clientVars, historyVars, expiryVars, serviceVars
  <1>2. offset \in Nat /\ committed \in Nat /\ committed <= offset
    BY DEF KeptInv, Counted
  <1>3. KeptInv'
    BY CommitKeeps
  <1>4. TypeOK'
    BY <1>1, <1>2 DEF TypeOK
  <1>5. SessionsSound'
    BY <1>1 DEF SessionsSound
  <1>6. Observed' /\ ChangedSinceCommit' /\ CallUnderWay'
    BY <1>1, <1>2 DEF Observed, ChangedSinceCommit, CallUnderWay
  <1>7. MissingOwed'
    <2>1. SUFFICES ASSUME NEW s \in changelog, s.several, ~Audited(s) PROVE Owed(s)'
      BY <1>1 DEF AuditsOwed, MissingOwed, Audited
    <2>2. calling # Call(s)
      <3>1. Call(s) \in Voyage
        BY SessionTyped DEF TypeOK, Call, Voyage
      <3>2. QED BY <1>1, <3>1, IdleAssumption
    <2>3. PICK p \in Pings : Replayed(p, s) /\ p > offset /\ streamTime <= s.last + Gap
      BY <1>1, <2>1, <2>2 DEF AuditsOwed, MissingOwed, Owed
    <2>4. \A q \in (offset + 1)..p : q \in (committed + 1)..p
      BY <1>2
    <2>5. QED BY <1>1, <2>3, <2>4 DEF Owed, Replayed
  <1>8. QED BY <1>3, <1>4, <1>5, <1>6, <1>7 DEF AuditsOwed

\* A session that expires is apart from the vessel's others, and has its audit
\* unless a ping of its own is to be read again.
LEMMA ExpireVoyages == ASSUME VInv, NEW e \in store, Expire(e) PROVE VInv'
  <1> USE DEF VInv
  <1>1. /\ calling = Idle /\ Key(e) \notin dirty
        /\ store' = store \ {e} /\ changelog' = changelog \ {e} /\ expired' = expired \cup {e}
        /\ lapsed' = IF Needed(e, offset) THEN lapsed \cup {e.mmsi} ELSE lapsed
        /\ UNCHANGED <<offset, committed, streamTime, dirty, partway, calling, running, restarts,
                       late, torn, now, handler, live_ais, collided>>
    BY DEF Expire, Working, streamVars, clientVars, serviceVars
  <1>2. e \in changelog /\ e \in Session /\ lapsed \subseteq lapsed'
    BY <1>1 DEF KeptInv, CacheAhead, TypeOK
  <1>3. KeptInv'
    BY ExpireKeeps
  <1>4. TypeOK'
    BY <1>1, <1>2, SessionTyped DEF TypeOK
  <1>5. SessionsSound'
    <2>1. store' \cup expired' \subseteq store \cup expired
          /\ changelog' \cup expired' \subseteq changelog \cup expired
      BY <1>1, <1>2
    <2>2. AllApart(store' \cup expired', torn' \cup lapsed')
      BY <1>1, <1>2, <2>1 DEF SessionsSound, AllApart
    <2>3. AllApart(changelog' \cup expired', torn' \cup lapsed' \cup partway')
      BY <1>1, <1>2, <2>1 DEF SessionsSound, AllApart
    <2>4. \A s \in expired' : Needed(s, offset') => s.mmsi \in lapsed'
      BY <1>1 DEF SessionsSound
    <2>5. \A s \in store' \cup changelog' \cup expired' : Spans(s) /\ Connected(s.waypoints)
      BY <1>1, <2>1 DEF SessionsSound
    <2>6. OneToAKey(store') /\ OneToAKey(changelog')
          /\ \A s \in changelog' : Key(s) \in dirty' \/ s \in store'
      BY <1>1 DEF SessionsSound, OneToAKey
    <2>7. QED BY <2>2, <2>3, <2>4, <2>5, <2>6 DEF SessionsSound, AllApart, OneToAKey
  <1>6. Observed' /\ ChangedSinceCommit' /\ CallUnderWay'
    BY <1>1 DEF AuditsOwed, Observed, ChangedSinceCommit, CallUnderWay, Replayed
  <1>7. ASSUME e.several, e.mmsi \notin lapsed' PROVE Audited(e)
    <2>1. SUFFICES ASSUME ~Audited(e) PROVE FALSE
      OBVIOUS
    <2>2. calling # Call(e)
      BY <1>1, <1>2, SessionTyped, IdleAssumption DEF Call, Voyage
    <2>3. PICK p \in Pings : Replayed(p, e) /\ p > offset
      BY <1>1, <1>2, <1>7, <2>1, <2>2 DEF AuditsOwed, MissingOwed, Owed
    <2>4. Near(p, e)
      <3>1. p \in e.waypoints /\ Topic[p].mmsi = e.mmsi /\ Topic[p].time \in e.first..e.last
        BY <2>3 DEF Replayed, KeptInv, CacheAhead, SessionsSound, Spans
      <3>2. e.first \in Nat /\ e.last \in Nat /\ Gap \in Nat
        BY <1>2, SessionTyped, GapAssumption
      <3>3. QED BY <3>1, <3>2 DEF Near
    <2>5. Needed(e, offset)
      BY <2>3, <2>4 DEF Needed
    <2>6. QED BY <1>1, <1>7, <2>5
  <1>8. MissingOwed'
    <2>1. \A s : Audited(s) => Audited(s)'
      BY <1>1 DEF Audited
    <2>2. \A s \in expired' : s.several /\ s.mmsi \notin lapsed' => Audited(s)'
      BY <1>1, <1>2, <1>7, <2>1 DEF AuditsOwed, MissingOwed
    <2>3. \A s \in changelog' : s.several /\ ~Audited(s)' => Owed(s)'
      BY <1>1 DEF AuditsOwed, MissingOwed, Audited, Owed, Replayed
    <2>4. QED BY <2>2, <2>3 DEF MissingOwed
  <1>9. QED BY <1>3, <1>4, <1>5, <1>6, <1>8 DEF AuditsOwed

\* After a stop every ping the commit has not moved past is to be read again.
LEMMA StopVoyages == ASSUME VInv, Stop PROVE VInv'
  <1> USE DEF VInv
  <1>1. /\ running' = FALSE
        /\ offset' = committed /\ streamTime' = -1 /\ store' = changelog
        /\ dirty' = {} /\ partway' = {} /\ calling' = Idle /\ torn' = torn \cup partway
        /\ lapsed' = lapsed \cup {s.mmsi : s \in {e \in expired : Needed(e, committed)}}
        /\ UNCHANGED <<committed, changelog, restarts, expired, now, handler, live_ais, collided>>
    BY DEF Stop, serviceVars
  <1>2. offset \in Nat /\ committed \in Nat /\ committed <= offset /\ Gap \in Nat
    BY GapAssumption DEF KeptInv, Counted
  <1>3. KeptInv'
    BY StopKeeps
  <1>4. TypeOK'
    <2>1. lapsed' \subseteq Vessels
      BY <1>1, SessionTyped DEF TypeOK
    <2>2. offset' \in 0..Len(Topic) /\ committed' \in 0..offset'
      BY <1>1, <1>2, TopicTyped DEF TypeOK
    <2>3. partway' \cup torn' \cup lapsed' \subseteq Vessels /\ calling' \in Voyage \cup {Idle}
      BY <1>1, <2>1 DEF TypeOK
    <2>4. \A s \in store' \cup changelog' \cup expired' : s \in Session
      BY <1>1 DEF TypeOK
    <2>5. handler' \in [Callers -> Audit \cup {Idle}] /\ now' \in 0..MaxNow
          /\ dirty' \subseteq Vessels \X Nat \X Nat
      BY <1>1 DEF TypeOK
    <2>6. streamTime' \in Int /\ restarts' \in 0..MaxRestarts
      BY <1>1 DEF TypeOK
    <2>7. running' \in BOOLEAN
      BY <1>1, Zenon
    <2>8. QED BY <2>2, <2>3, <2>4, <2>5, <2>6, <2>7 DEF TypeOK
  <1>5. SessionsSound'
    <2>1. \A s \in expired' : Needed(s, offset') => s.mmsi \in lapsed'
      BY <1>1
    <2>2. lapsed \subseteq lapsed'
      BY <1>1
    <2>3. AllApart(store' \cup expired', torn' \cup lapsed')
      BY <1>1, <2>2 DEF SessionsSound, AllApart
    <2>4. AllApart(changelog' \cup expired', torn' \cup lapsed' \cup partway')
      BY <1>1, <2>2 DEF SessionsSound, AllApart
    <2>5. QED BY <1>1, <2>1, <2>3, <2>4 DEF SessionsSound, AllApart, OneToAKey
  <1>6. Observed' /\ ChangedSinceCommit' /\ CallUnderWay'
    BY <1>1, <1>2 DEF Observed, ChangedSinceCommit, CallUnderWay
  <1>7. MissingOwed'
    <2>1. SUFFICES ASSUME NEW s \in changelog, s.several, ~Audited(s) PROVE Owed(s)'
      BY <1>1 DEF AuditsOwed, MissingOwed, Audited
    <2>2. PICK p \in Pings : Replayed(p, s)
      BY <2>1 DEF AuditsOwed, MissingOwed, Owed
    <2>3. p > offset' /\ streamTime' <= s.last + Gap
      BY <1>1, <1>2, <2>2, SessionTyped DEF Replayed, TypeOK
    <2>4. QED BY <1>1, <2>2, <2>3 DEF Owed, Replayed
  <1>8. QED BY <1>3, <1>4, <1>5, <1>6, <1>7 DEF AuditsOwed

\* No call is out when the application starts.
LEMMA StartVoyages == ASSUME VInv, Start PROVE VInv'
  <1> USE DEF VInv
  <1>1. /\ ~running /\ running' = TRUE /\ restarts < MaxRestarts /\ restarts' = restarts + 1
        /\ UNCHANGED <<offset, committed, streamTime, store, changelog, dirty, partway, calling,
                       late, torn, expired, lapsed, now, handler, live_ais, collided>>
    BY DEF Start, streamVars, storeVars, historyVars, expiryVars, serviceVars
  <1>2. KeptInv'
    BY <1>1 DEF KeptInv, Counted, PingsKept, CacheAhead, Held, Gone
  <1>3. TypeOK'
    BY <1>1, RestartsAssumption DEF TypeOK
  <1>4. SessionsSound'
    BY <1>1 DEF SessionsSound
  <1>5. Observed' /\ ChangedSinceCommit' /\ CallUnderWay'
    BY <1>1 DEF AuditsOwed, Observed, ChangedSinceCommit, CallUnderWay, Replayed
  <1>6. MissingOwed'
    BY <1>1 DEF AuditsOwed, MissingOwed, Audited, Owed, Replayed
  <1>7. QED BY <1>2, <1>3, <1>4, <1>5, <1>6 DEF AuditsOwed

\* The service may be at a call of a client that is gone; what it stores may
\* replace an audit of the same vessel, which then counts as collided.
LEMMA ServiceAudits ==
  ASSUME TypeOK, CallUnderWay, NEW c \in Callers, AuditLiveCorridor(c),
         UNCHANGED <<calling, running, restarts>>
  PROVE  /\ now' \in 0..MaxNow /\ handler' \in [Callers -> Audit \cup {Idle}]
         /\ \A v : Audited(v) => v.mmsi \in collided'
                               \/ \E a \in live_ais' : a.mmsi = v.mmsi /\ a.waypoints = v.waypoints
         /\ CallUnderWay'
  <1>1. handler \in [Callers -> Audit \cup {Idle}] /\ now \in 0..MaxNow /\ restarts \in Callers
    BY CallersAssumption DEF TypeOK
  <1>2. CASE Stamp(c)
    <2>1. handler[c] # Idle /\ now' \in now..MaxNow /\ UNCHANGED <<live_ais, collided>>
          /\ handler' = [handler EXCEPT ![c].timestamp = now']
      BY <1>2 DEF Stamp
    <2>2. now' \in 0..MaxNow
      BY <1>1, <2>1, IdleAssumption
    <2>3. handler[c] \in Audit
      BY <1>1, <2>1
    <2> DEFINE stamped == [handler[c] EXCEPT !.timestamp = now']
    <2>4. stamped \in Audit /\ stamped.mmsi = handler[c].mmsi /\ stamped.waypoints = handler[c].waypoints
      BY <2>2, <2>3, IdleAssumption DEF Audit
    <2>5. handler' = [handler EXCEPT ![c] = stamped]
      BY <2>1
    <2> HIDE DEF stamped
    <2>6. handler' \in [Callers -> Audit \cup {Idle}]
      BY <1>1, <2>4, <2>5
    <2>7. handler[restarts] # Idle =>
            /\ handler'[restarts] # Idle
            /\ handler'[restarts].mmsi = handler[restarts].mmsi
            /\ handler'[restarts].waypoints = handler[restarts].waypoints
      BY <1>1, <2>4, <2>5, IdleAssumption
    <2>8. CallUnderWay'
      BY <2>1, <2>7 DEF CallUnderWay, Audited
    <2>9. QED BY <2>1, <2>2, <2>6, <2>8 DEF Audited
  <1>3. CASE Put(c)
    <2> DEFINE audit == [mmsi |-> handler[c].mmsi, timestamp |-> handler[c].timestamp,
                         waypoints |-> handler[c].waypoints,
                         dfars_compliant |-> Compliant(handler[c].waypoints)]
               replaced == {a \in live_ais : SameKey(a, audit)}
               KeepsAudit(v) == v.mmsi \in collided'
                           \/ \E a \in live_ais' : a.mmsi = v.mmsi /\ a.waypoints = v.waypoints
    <2>1. /\ live_ais' = (live_ais \ replaced) \cup {audit} /\ now' = now
          /\ collided' = IF replaced = {} THEN collided ELSE collided \cup {audit.mmsi}
          /\ handler' = [handler EXCEPT ![c] = Idle] /\ handler[c] # Idle
      BY <1>3 DEF Put
    <2>2. audit.mmsi = handler[c].mmsi /\ audit.waypoints = handler[c].waypoints
      OBVIOUS
    <2> HIDE DEF audit
    <2>3. ASSUME NEW v, Audited(v) PROVE KeepsAudit(v)
      <3>1. CASE v.mmsi \in collided
        BY <2>1, <3>1
      <3>2. CASE \E a \in live_ais : a.mmsi = v.mmsi /\ a.waypoints = v.waypoints
        <4>1. PICK a \in live_ais : a.mmsi = v.mmsi /\ a.waypoints = v.waypoints
          BY <3>2
        <4>2. CASE a \in replaced
          BY <2>1, <4>1, <4>2 DEF SameKey
        <4>3. CASE a \notin replaced
          BY <2>1, <4>1, <4>3
        <4>4. QED BY <4>2, <4>3
      <3>3. QED BY <2>3, <3>1, <3>2 DEF Audited
    <2>4. CallUnderWay'
      <3>1. CASE calling = Idle
        BY <3>1 DEF CallUnderWay
      <3>2. CASE Audited(calling)
        <4>1. KeepsAudit(calling)
          BY <2>3, <3>2
        <4>2. QED BY <4>1 DEF CallUnderWay, Audited
      <3>3. CASE calling # Idle /\ ~Audited(calling)
        <4>1. /\ handler[restarts] # Idle /\ handler[restarts].mmsi = calling.mmsi
              /\ handler[restarts].waypoints = calling.waypoints
          BY <3>3 DEF CallUnderWay
        <4>2. CASE c = restarts
          <5>1. KeepsAudit(calling)
            BY <2>1, <2>2, <4>1, <4>2
          <5>2. QED BY <5>1 DEF CallUnderWay, Audited
        <4>3. CASE c # restarts
          BY <1>1, <2>1, <4>1, <4>3 DEF CallUnderWay
        <4>4. QED BY <4>2, <4>3
      <3>4. QED BY <3>1, <3>2, <3>3
    <2>5. handler' \in [Callers -> Audit \cup {Idle}]
      BY <1>1, <2>1
    <2>6. QED BY <1>1, <2>1, <2>3, <2>4, <2>5
  <1>4. QED BY <1>2, <1>3 DEF AuditLiveCorridor

LEMMA ServiceVoyages == ASSUME VInv, NEW c \in Callers, Service(c) PROVE VInv'
  <1> USE DEF VInv
  <1>1. /\ AuditLiveCorridor(c)
        /\ UNCHANGED <<offset, committed, streamTime, store, changelog, dirty, partway, calling,
                       running, restarts, late, torn, expired, lapsed>>
    BY DEF Service, streamVars, storeVars, clientVars, historyVars, expiryVars
  <1>2. /\ now' \in 0..MaxNow /\ handler' \in [Callers -> Audit \cup {Idle}]
        /\ \A v : Audited(v) => v.mmsi \in collided'
                              \/ \E a \in live_ais' : a.mmsi = v.mmsi /\ a.waypoints = v.waypoints
        /\ CallUnderWay'
    BY <1>1, ServiceAudits DEF AuditsOwed
  <1>3. KeptInv' /\ TypeOK'
    BY <1>1, <1>2 DEF KeptInv, Counted, PingsKept, CacheAhead, Held, Gone, TypeOK
  <1>4. SessionsSound'
    BY <1>1 DEF SessionsSound
  <1>5. Observed' /\ ChangedSinceCommit'
    BY <1>1 DEF AuditsOwed, Observed, ChangedSinceCommit, Replayed
  <1>6. MissingOwed'
    <2>1. SUFFICES ASSUME NEW s \in changelog, s.several, ~Audited(s) PROVE Owed(s)'
      BY <1>1, <1>2 DEF AuditsOwed, MissingOwed, Audited
    <2>2. Owed(s)
      BY <2>1 DEF AuditsOwed, MissingOwed
    <2>3. QED BY <1>1, <2>2 DEF Owed, Replayed
  <1>7. QED BY <1>2, <1>3, <1>4, <1>5, <1>6 DEF AuditsOwed

LEMMA NextVoyages == VInv /\ [Next]_vars => VInv'
  <1> SUFFICES ASSUME VInv, [Next]_vars PROVE VInv'
    OBVIOUS
  <1>1. CASE UNCHANGED vars
    <2>1. UNCHANGED <<offset, committed, streamTime, store, changelog, dirty, partway, calling,
                      running, restarts, late, torn, expired, lapsed, now, handler, live_ais, collided>>
      BY <1>1 DEF vars, streamVars, storeVars, clientVars, historyVars, expiryVars, serviceVars
    <2>2. KeptInv' /\ TypeOK' /\ SessionsSound'
      BY <2>1 DEF VInv, KeptInv, Counted, PingsKept, CacheAhead, Held, Gone, TypeOK, SessionsSound
    <2>3. Observed' /\ ChangedSinceCommit' /\ CallUnderWay' /\ MissingOwed'
      BY <2>1 DEF VInv, AuditsOwed, Observed, ChangedSinceCommit, CallUnderWay, MissingOwed,
                  Owed, Replayed, Audited
    <2>4. QED BY <2>2, <2>3 DEF VInv, AuditsOwed
  <1>2. QED BY <1>1, PassOverVoyages, AggregateVoyages, FlushVoyages, AnswerVoyages, CommitVoyages,
               ExpireVoyages, StopVoyages, StartVoyages, ServiceVoyages DEF Next, FlushSome, ExpireSome

-----------------------------------------------------------------------
\* Sessions that lie apart are voyages, and share no ping.
LEMMA SoundAreVoyages == VInv => SessionsAreVoyages
  <1> SUFFICES ASSUME VInv, NEW s \in store, s.mmsi \notin torn \cup lapsed
               PROVE  /\ IsVoyage(s.waypoints)
                      /\ \A t \in store \ {s} : s.waypoints \cap t.waypoints = {}
    BY DEF SessionsAreVoyages
  <1> USE DEF VInv
  <1>1. ASSUME NEW t \in store \cup expired, t # s, NEW p \in s.waypoints, NEW q \in t.waypoints,
               Topic[p].mmsi = Topic[q].mmsi
        PROVE  p # q /\ ~Linked(p, q)
    <2>1. s.mmsi = Topic[p].mmsi /\ t.mmsi = Topic[q].mmsi
      BY DEF KeptInv, CacheAhead
    <2>2. Apart(s, t)
      BY <1>1, <2>1 DEF SessionsSound, AllApart
    <2>3. Topic[p].time \in s.first..s.last /\ Topic[q].time \in t.first..t.last
      BY DEF SessionsSound, Spans
    <2>4. /\ s.first \in Nat /\ s.last \in Nat /\ t.first \in Nat /\ t.last \in Nat /\ Gap \in Nat
      BY SessionTyped, GapAssumption DEF TypeOK
    <2>5. Topic[p].time - Topic[q].time \notin -Gap..Gap
      BY <2>2, <2>3, <2>4 DEF Apart
    <2>6. Topic[p].time # Topic[q].time
      BY <2>2, <2>3, <2>4 DEF Apart
    <2>7. QED BY <2>5, <2>6 DEF Linked
  <1>2. \A p \in s.waypoints, q \in (Held \cup Gone) \ s.waypoints : ~Linked(p, q)
    <2>1. TAKE p \in s.waypoints, q \in (Held \cup Gone) \ s.waypoints
    <2>2. PICK t \in store \cup expired : q \in t.waypoints
      BY DEF Held, Gone
    <2>3. QED BY <1>1, <2>2 DEF Linked
  <1>3. Connected(s.waypoints)
    BY DEF SessionsSound
  <1>4. QED BY <1>1, <1>2, <1>3 DEF IsVoyage

\* For any topic, gap and number of restarts: in whatever order pings arrive,
\* are merged, flushed, expire and are replayed, the sessions in the store are
\* the voyages of their vessels, unless a restart found a vessel's sessions
\* half written or one of them expired while a ping near it was to be read.
THEOREM VoyagesSafety == Spec => []VoyagesInv
  <1>1. VInv => VoyagesInv
    BY SoundAreVoyages DEF VInv, KeptInv, VoyagesInv
  <1>2. QED BY <1>1, InitVoyages, NextVoyages, PTL DEF Spec

\* A session of two waypoints that a restart would find has the audit of just
\* its waypoints, unless audits of the vessel collided or a restart reads one
\* of its pings again; so has one that expired with no ping near it to come.
THEOREM AuditsSafety == Spec => []NoVoyageUnaudited
  <1>1. VInv => NoVoyageUnaudited
    BY DEF VInv, AuditsOwed, MissingOwed, Owed, Replayed, Audited, NoVoyageUnaudited
  <1>2. QED BY <1>1, InitVoyages, NextVoyages, PTL DEF Spec
=========================================================================
