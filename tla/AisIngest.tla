--------------------------- MODULE AisIngest ---------------------------
(***************************************************************************)
(* The AIS stream: pings of rare-earth carriers are aggregated by vessel   *)
(* and session, and a session that has two waypoints is audited by a       *)
(* blocking call of the corridor service.  Kafka Streams, with the         *)
(* defaults the application leaves, works on one thread, caches the        *)
(* session store, and delivers at least once: the cache lets go of one     *)
(* changed key after the other, in an order the model leaves open, and a   *)
(* commit waits until it has let go of all.  What was written by then      *)
(* survives, until a written session is a gap older than another, which is *)
(* as long as the session store retains it.  A call that raises ends the   *)
(* thread, and with it the application, like a kill does: nothing in the   *)
(* repository handles the exception, or starts the application again.  The *)
(* topic groupBy goes through hands pings on in order and is left out, as  *)
(* are identity strings; of the number of waypoints, which replays raise,  *)
(* it is kept whether it is two or more.                                   *)
(***************************************************************************)
EXTENDS CorridorService, Sequences

CONSTANTS
    Topic,       \* maritime.telemetry.raw: the pings in the topic's order
    Gap,         \* the inactivity gap
    MaxRestarts  \* bound: how often the application is started again

Pings == 1..Len(Topic)
Vessels == {Topic[p].mmsi : p \in Pings}
Voyage == [mmsi : Vessels, waypoints : SUBSET Pings]
Audit == [mmsi : Vessels, waypoints : SUBSET Pings, timestamp : -1..MaxNow]

ASSUME TopicAssumption ==
    Topic \in Seq([mmsi : Vessels, time : Nat, rare_earth : BOOLEAN])
ASSUME GapAssumption == Gap \in Nat
ASSUME RestartsAssumption == MaxRestarts \in Nat
ASSUME CallersAssumption == Callers = 0..MaxRestarts
ASSUME IdleAssumption == MaxNow \in Nat /\ Idle \notin Voyage \cup Audit

VARIABLES
    offset,        \* pings of Topic that were filtered out or aggregated
    committed,     \* the offset last committed
    streamTime,    \* the latest time the aggregation has observed
    store,         \* the sessions as the aggregation sees them
    changelog,     \* the sessions a restart finds
    dirty,         \* keys whose change is only in the cache
    partway,       \* history: vessels with some, not all, of their changes in the changelog
    running,       \* whether the stream thread is
    calling,       \* the session whose audit the thread waits for
    restarts,      \* restarts so far, and the number of the last client
    late,          \* history: pings dropped because their session had closed
    torn,          \* history: vessels a restart found part way
    expired,       \* history: sessions the store retained no longer
    lapsed         \* history: vessels that had a ping near an expired session to be read

streamVars == <<offset, committed, streamTime>>
storeVars == <<store, changelog, dirty, partway>>
clientVars == <<running, restarts>>
expiryVars == <<expired, lapsed>>
historyVars == <<late, torn, expiryVars>>
vars == <<streamVars, storeVars, calling, clientVars, historyVars, serviceVars>>

Key(s) == <<s.mmsi, s.first, s.last>>
Call(s) == [mmsi |-> s.mmsi, waypoints |-> s.waypoints]

Init ==
    /\ offset = 0 /\ committed = 0
    /\ streamTime = -1
    /\ store = {} /\ changelog = {}
    /\ dirty = {} /\ partway = {}
    /\ calling = Idle
    /\ running = TRUE /\ restarts = 0
    /\ late = {} /\ torn = {}
    /\ expired = {} /\ lapsed = {}
    /\ ServiceInit

-----------------------------------------------------------------------
(* The stream thread, which does nothing else while a call is out. *)

Working == running /\ calling = Idle

\* The ping would be merged with the session.
Near(p, s) ==
    /\ s.mmsi = Topic[p].mmsi
    /\ s.last >= Topic[p].time - Gap
    /\ s.first <= Topic[p].time + Gap

Earliest(p, near) == CHOOSE t \in {Topic[p].time} \cup {s.first : s \in near} :
    \A s \in near : t <= s.first /\ t <= Topic[p].time
Latest(p, near) == CHOOSE t \in {Topic[p].time} \cup {s.last : s \in near} :
    \A s \in near : t >= s.last /\ t >= Topic[p].time

\* Mutant: merging starts from the ping and loses what the sessions held.
Restarted(p, near) ==
    [mmsi |-> Topic[p].mmsi, first |-> Earliest(p, near), last |-> Latest(p, near),
     waypoints |-> {p}, several |-> near # {}]

\* VoyageAccumulator::merge of the sessions near a ping, and add of the ping.
Merged(p, near) ==
    [mmsi |-> Topic[p].mmsi, first |-> Earliest(p, near), last |-> Latest(p, near),
     waypoints |-> {p} \cup UNION {s.waypoints : s \in near}, several |-> near # {}]

\* filter: other cargo is passed over.
PassOver ==
    /\ Working
    /\ offset < Len(Topic)
    /\ ~Topic[offset + 1].rare_earth
    /\ offset' = offset + 1
    /\ UNCHANGED <<committed, streamTime, storeVars, calling, clientVars, historyVars, serviceVars>>

\* The session aggregate, with no grace.
Aggregate ==
    LET p == offset + 1
        time == Topic[p].time
        observed == IF time > streamTime THEN time ELSE streamTime
        near == {s \in store : Near(p, s)}
        session == Merged(p, near)
    IN  /\ Working
        /\ offset < Len(Topic)
        /\ Topic[p].rare_earth
        /\ offset' = p
        /\ streamTime' = observed
        /\ IF session.last < observed - Gap
           THEN late' = late \cup {p} /\ UNCHANGED storeVars
           ELSE /\ store' = (store \ near) \cup {session}
                /\ dirty' = dirty \cup {Key(s) : s \in near \cup {session}}
                /\ UNCHANGED <<changelog, partway, late>>
        /\ UNCHANGED <<committed, calling, clientVars, torn, expiryVars, serviceVars>>

\* The cache lets go of a key: its session, or that it has none any more,
\* goes to the changelog and downstream, where a session of two waypoints
\* passes toStream's filter to dispatch, which calls the service and waits.
Flush(k) ==
    LET current == {s \in store : Key(s) = k}
        voyages == {s \in current : s.several}
        others == {d \in dirty \ {k} : d[1] = k[1]}
    IN  /\ Working
        /\ k \in dirty
        /\ dirty' = dirty \ {k}
        /\ changelog' = {s \in changelog : Key(s) # k} \cup current
        /\ partway' = IF others = {} THEN partway \ {k[1]} ELSE partway \cup {k[1]}
        /\ UNCHANGED <<streamVars, store, clientVars, historyVars>>
        /\ \/ voyages = {} /\ UNCHANGED <<calling, serviceVars>>
           \/ \E s \in voyages :
                /\ calling' = Call(s)
                /\ Receive(restarts, s.mmsi, s.waypoints)

\* auditLiveCorridor returns.
Answer ==
    /\ calling # Idle
    /\ handler[restarts] = Idle
    /\ calling' = Idle
    /\ UNCHANGED <<streamVars, storeVars, clientVars, historyVars, serviceVars>>

\* Mutant: offsets are committed before the cache has let go of all keys.
CommitEarly ==
    /\ Working
    /\ committed' = offset
    /\ UNCHANGED <<offset, streamTime, storeVars, calling, clientVars, historyVars, serviceVars>>

Commit ==
    /\ Working
    /\ dirty = {}
    /\ committed' = offset
    /\ UNCHANGED <<offset, streamTime, storeVars, calling, clientVars, historyVars, serviceVars>>

\* Materialized sets no retention, so the session store keeps what it wrote
\* for the gap and the grace only: an older session may be gone any time,
\* for the aggregation and for a restart, while a ping near it is to come.
Needed(s, read) == \E p \in Pings : p > read /\ Near(p, s)

Expire(s) ==
    /\ Working
    /\ Key(s) \notin dirty
    /\ \E t \in changelog : s.last + Gap <= t.last
    /\ store' = store \ {s}
    /\ changelog' = changelog \ {s}
    /\ expired' = expired \cup {s}
    /\ lapsed' = IF Needed(s, offset) THEN lapsed \cup {s.mmsi} ELSE lapsed
    /\ UNCHANGED <<streamVars, dirty, partway, calling, clientVars, late, torn, serviceVars>>

-----------------------------------------------------------------------
\* The call raises, or the process is killed, and the application is down:
\* what is left is the committed offset and the changelog.  A call that was
\* out may still be audited, or not.
Stop ==
    /\ running
    /\ running' = FALSE
    /\ offset' = committed
    /\ streamTime' = -1
    /\ store' = changelog
    /\ dirty' = {} /\ partway' = {}
    /\ calling' = Idle
    /\ torn' = torn \cup partway
    /\ lapsed' = lapsed \cup {s.mmsi : s \in {e \in expired : Needed(e, committed)}}
    /\ UNCHANGED <<committed, changelog, restarts, late, expired, serviceVars>>

\* Somebody starts the application again.
Start ==
    /\ ~running
    /\ restarts < MaxRestarts
    /\ running' = TRUE
    /\ restarts' = restarts + 1
    /\ UNCHANGED <<streamVars, storeVars, calling, historyVars, serviceVars>>

Service(c) == AuditLiveCorridor(c) /\ UNCHANGED <<streamVars, storeVars, calling, clientVars, historyVars>>

FlushSome == \E k \in dirty : Flush(k)
ExpireSome == \E s \in store : Expire(s)

Next ==
    \/ PassOver \/ Aggregate \/ FlushSome \/ Answer \/ Commit \/ ExpireSome
    \/ Stop \/ Start
    \/ \E c \in Callers : Service(c)

\* The thread works on while it runs, the cache is written at every commit
\* interval, and the service finishes a call whose client waits for it.  No
\* fairness says that the application is started again.
Fairness ==
    /\ WF_vars(PassOver) /\ WF_vars(Aggregate) /\ WF_vars(FlushSome) /\ WF_vars(Answer)
    /\ WF_vars(running /\ Service(restarts))

Spec == Init /\ [][Next]_vars
FairSpec == Spec /\ Fairness

-----------------------------------------------------------------------
Session == [mmsi : Vessels, first : Nat, last : Nat,
            waypoints : SUBSET Pings, several : BOOLEAN]

TypeOK ==
    /\ offset \in 0..Len(Topic)
    /\ committed \in 0..offset
    /\ streamTime \in Int
    /\ \A s \in store \cup changelog \cup expired : s \in Session
    /\ running \in BOOLEAN /\ restarts \in 0..MaxRestarts
    /\ partway \cup torn \cup lapsed \subseteq Vessels
    /\ dirty \subseteq Vessels \X Nat \X Nat
    /\ calling \in Voyage \cup {Idle}
    /\ handler \in [Callers -> Audit \cup {Idle}]
    /\ now \in 0..MaxNow

\* The pings of a vessel one gap apart, and those reached from them, are one voyage.
Linked(p, q) ==
    /\ Topic[p].mmsi = Topic[q].mmsi
    /\ Topic[p].time - Topic[q].time \in -Gap..Gap

Held == UNION {s.waypoints : s \in store}
Gone == UNION {s.waypoints : s \in expired}

Connected(w) ==
    \A v \in SUBSET w : v # {} /\ v # w => \E p \in v, q \in w \ v : Linked(p, q)

IsVoyage(w) ==
    /\ \A p \in w, q \in (Held \cup Gone) \ w : ~Linked(p, q)
    /\ Connected(w)

\* In whatever order pings arrive, are merged and replayed, the sessions are
\* the vessels' voyages: each ping is in one session, a session is connected
\* by gaps, and no ping of the vessel that another session holds, or held
\* when it expired, is within the gap.  This is lost to a vessel which a
\* restart found half written, and to one with a session that expired while
\* a ping near it was still to be read, which begins a voyage of its own.
SessionsAreVoyages ==
    \A s \in store : s.mmsi \notin torn \cup lapsed =>
        /\ IsVoyage(s.waypoints)
        /\ \A t \in store \ {s} : s.waypoints \cap t.waypoints = {}

\* A ping the commit has moved past was dropped as late, is in a session a
\* restart finds, or was in one that expired; only while its vessel's
\* sessions are being rewritten is it in none, and a restart just then loses
\* it.
PingsKept ==
    \A p \in 1..committed : Topic[p].rare_earth =>
        \/ p \in late \cup Gone \cup UNION {s.waypoints : s \in changelog}
        \/ Topic[p].mmsi \in partway \cup torn

\* What PingsKept needs to be inductive: the aggregation held every ping up
\* to its offset, what it holds beyond the changelog is in the cache, and a
\* session's pings are its vessel's.
CacheAhead ==
    /\ \A p \in 1..offset : Topic[p].rare_earth =>
         p \in late \cup Held \cup Gone \/ Topic[p].mmsi \in torn
    /\ \A s \in store : Key(s) \in dirty \/ s \in changelog
    /\ \A s \in store \cup changelog \cup expired : \A p \in s.waypoints : Topic[p].mmsi = s.mmsi

\* What SessionsAreVoyages needs to be inductive: a session's times are those
\* of its first and last waypoint, its waypoints are connected, and the
\* sessions of a vessel lie more than a gap apart, from expired ones too and
\* in the changelog too unless it is half written; there is one session to a
\* key, and a ping near an expired one is not to be read.
Spans(s) ==
    /\ \A p \in s.waypoints : Topic[p].rare_earth /\ Topic[p].time \in s.first..s.last
    /\ \E p, q \in s.waypoints : Topic[p].time = s.first /\ Topic[q].time = s.last

Apart(s, t) == s.last + Gap < t.first \/ t.last + Gap < s.first

AllApart(sessions, except) ==
    \A s, t \in sessions : s # t /\ s.mmsi = t.mmsi /\ s.mmsi \notin except => Apart(s, t)

OneToAKey(sessions) == \A s, t \in sessions : Key(s) = Key(t) => s = t

SessionsSound ==
    /\ \A s \in store \cup changelog \cup expired : Spans(s) /\ Connected(s.waypoints)
    /\ AllApart(store \cup expired, torn \cup lapsed)
    /\ AllApart(changelog \cup expired, torn \cup lapsed \cup partway)
    /\ OneToAKey(store) /\ OneToAKey(changelog)
    /\ \A s \in changelog : Key(s) \in dirty \/ s \in store
    /\ \A s \in expired : Needed(s, offset) => s.mmsi \in lapsed

\* What NoVoyageUnaudited needs to be inductive.  A ping the next commit has
\* not moved past is accepted when a restart reads it again, because no ping
\* read before it is more than a gap later than the session it is in.
Audited(v) == v.mmsi \in collided \/ \E a \in live_ais : a.mmsi = v.mmsi /\ a.waypoints = v.waypoints

Replayed(p, s) ==
    /\ p \in s.waypoints
    /\ p > committed
    /\ \A q \in (committed + 1)..p : Topic[q].rare_earth => Topic[q].time <= s.last + Gap

Observed ==
    \A q \in (committed + 1)..offset : Topic[q].rare_earth => Topic[q].time <= streamTime

\* A session the changelog may get next has been changed since the commit.
ChangedSinceCommit ==
    \A s \in store : Key(s) \in dirty => \E p \in 1..offset : Replayed(p, s)

CallUnderWay ==
    calling # Idle =>
        /\ running
        /\ \/ Audited(calling)
           \/ /\ handler[restarts] # Idle
              /\ handler[restarts].mmsi = calling.mmsi
              /\ handler[restarts].waypoints = calling.waypoints

\* An audit that is still missing is under way, or its session is to be
\* rewritten before the next commit, or by the ping that will be read again.
Owed(s) ==
    \E p \in Pings :
       /\ Replayed(p, s)
       /\ \/ Key(s) \in dirty
          \/ calling = Call(s)
          \/ p > offset /\ streamTime <= s.last + Gap

MissingOwed ==
    /\ \A s \in changelog : s.several /\ ~Audited(s) => Owed(s)
    /\ \A s \in expired : s.several /\ s.mmsi \notin lapsed => Audited(s)

AuditsOwed == Observed /\ ChangedSinceCommit /\ CallUnderWay /\ MissingOwed

VoyagesInv == TypeOK /\ SessionsAreVoyages /\ PingsKept /\ CacheAhead /\ SessionsSound /\ AuditsOwed

\* Of a session of two waypoints that a restart would find, the store has the
\* audit of just these waypoints, or a restart reads one of its pings again;
\* an audit of the vessel in the same millisecond may have replaced it.  One
\* that has expired has its audit too, unless a ping near it was still to be
\* read, for which an audit of a voyage cut short may be all there is.
NoVoyageUnaudited ==
    \A s \in changelog \cup {e \in expired : e.mmsi \notin lapsed} : s.several =>
        \/ s.mmsi \in collided
        \/ \E a \in live_ais : a.mmsi = s.mmsi /\ a.waypoints = s.waypoints
        \/ \E p \in s.waypoints : p > committed

Recorded(p) == \E a \in live_ais : p \in a.waypoints /\ ~a.dfars_compliant

\* Unless the application stays down once a call has failed or it was killed,
\* a restricted waypoint of a voyage is recorded as a violation and stays
\* recorded.  Exempt are a vessel two of whose audits fell into one
\* millisecond, of which the later replaces the earlier (service.py:50), one
\* whose sessions a restart found half written, and one that had a session
\* expire while a ping near it was still to be read.
ViolationsRecorded ==
    \A p \in Restricted :
        (\E s \in store : p \in s.waypoints /\ s.several)
            ~> [](\/ Recorded(p) \/ ~running
                  \/ Topic[p].mmsi \in torn \cup collided \cup lapsed)
=======================================================================
