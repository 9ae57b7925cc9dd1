-------------------------- MODULE MCAisIngest --------------------------
(* A small instance of AisIngest: a vessel's second ping is late, unless a *)
(* restart forgot so; the second vessel's ping comes when the store need   *)
(* no longer retain what the first one's made, a ping of other cargo       *)
(* follows, and the last ping is still near enough to extend the voyage,   *)
(* or joins two sessions, or finds one or both of them expired.            *)
EXTENDS AisIngest

CONSTANTS ore, bulk

Ping(mmsi, time, rare_earth) == [mmsi |-> mmsi, time |-> time, rare_earth |-> rare_earth]

Sea == <<Ping(ore, 4, TRUE), Ping(ore, 0, TRUE), Ping(bulk, 6, TRUE),
         Ping(bulk, 6, FALSE), Ping(ore, 2, TRUE)>>
Geofenced == {1}
Clients == 0..MaxRestarts
=======================================================================
