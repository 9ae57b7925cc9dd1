----------------------- MODULE MCCircuitBreaker -----------------------
(* A small instance of CircuitBreaker. *)
EXTENDS CircuitBreaker

CONSTANTS t1, t2

Pair == {t1, t2}
=======================================================================
