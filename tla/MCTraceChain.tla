-------------------------- MODULE MCTraceChain --------------------------
(* Small instances of TraceChain. *)
EXTENDS TraceChain, TLC

CONSTANTS w1, w2, p1, p2

Pair == {w1, w2}
MCPayloads == {p1, p2}

Symmetric == Permutations(Pair)
=========================================================================
