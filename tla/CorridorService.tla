------------------------ MODULE CorridorService ------------------------
(***************************************************************************)
(* MaritimeComplianceServer.AuditLiveCorridor: eight worker threads take   *)
(* calls, so a call whose client has gone may still be running beside the  *)
(* next one.  A waypoint is only ever told apart by the geofence it may    *)
(* lie in, and distances, ports, manifests and hashes are left out.        *)
(***************************************************************************)
EXTENDS Integers

CONSTANTS
    Callers,      \* clients, each with at most one call at a time
    Restricted,   \* waypoints inside a geofence
    Idle,         \* no call
    MaxNow        \* bound: milliseconds the clock advances

VARIABLES
    now,        \* time.time() in milliseconds, as last read
    handler,    \* the call of each client that a worker is at
    live_ais,   \* the audits stored under live_ais:{mmsi}:{timestamp}
    collided    \* history: vessels with two audits in one millisecond

serviceVars == <<now, handler, live_ais, collided>>

ServiceInit ==
    /\ now = 0
    /\ handler = [c \in Callers |-> Idle]
    /\ live_ais = {}
    /\ collided = {}

\* Mutant: only the vessel's last waypoint is compared.
LastOutside(waypoints) ==
    \E w \in waypoints \ Restricted : \A x \in waypoints : x <= w

\* _evaluate_shipping_corridor: any waypoint in any geofence is a violation.
Compliant(waypoints) == waypoints \cap Restricted = {}

Receive(c, mmsi, waypoints) ==
    /\ handler[c] = Idle
    /\ handler' = [handler EXCEPT ![c] = [mmsi |-> mmsi, waypoints |-> waypoints, timestamp |-> -1]]
    /\ UNCHANGED <<now, live_ais, collided>>

\* The audit is made and the clock is read, which may have moved on ...
Stamp(c) ==
    /\ handler[c] # Idle
    /\ handler[c].timestamp = -1
    /\ now' \in now..MaxNow
    /\ handler' = [handler EXCEPT ![c].timestamp = now']
    /\ UNCHANGED <<live_ais, collided>>

SameKey(a, b) == a.mmsi = b.mmsi /\ a.timestamp = b.timestamp

\* ... and the record is put before the call returns.
Put(c) ==
    LET audit == [mmsi |-> handler[c].mmsi, timestamp |-> handler[c].timestamp,
                  waypoints |-> handler[c].waypoints,
                  dfars_compliant |-> Compliant(handler[c].waypoints)]
        replaced == {a \in live_ais : SameKey(a, audit)}
    IN  /\ handler[c] # Idle
        /\ handler[c].timestamp # -1
        /\ live_ais' = (live_ais \ replaced) \cup {audit}
        /\ collided' = IF replaced = {} THEN collided ELSE collided \cup {audit.mmsi}
        /\ handler' = [handler EXCEPT ![c] = Idle]
        /\ UNCHANGED now

AuditLiveCorridor(c) == Stamp(c) \/ Put(c)
=======================================================================
