------------------------- MODULE MCRateLimiter -------------------------
(* A small instance of RateLimiter: three calls of one process, one of another. *)
EXTENDS RateLimiter, TLC

CONSTANTS p1, p2, c1, c2, c3, c4

MCProcesses == {p1, p2}
MCCalls == {c1, c2, c3, c4}
MCProcessOf == [c \in Calls |-> IF c = c4 THEN p2 ELSE p1]

\* The calls of one process differ in nothing.
CallSymmetry == Permutations({c1, c2, c3})
=========================================================================
