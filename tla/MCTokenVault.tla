-------------------------- MODULE MCTokenVault --------------------------
(* Small instances of TokenVault. *)
EXTENDS TokenVault, TLC

CONSTANTS v1, v2, j1, j2, j3, a, b, c, d

OneVault == {v1}
TwoVaults == {v1, v2}
TwoJobs == {j1, j2}
ThreeJobs == {j1, j2, j3}

OneProcess == [j \in Jobs |-> v1]
TwoProcesses == [j \in Jobs |-> IF j = j2 THEN v2 ELSE v1]

MCValues == {a, b, c, d}
MCTypes == {"SUPPLIER", "AMOUNT"}
MCTypeOf == [x \in Values |-> IF x = c THEN "AMOUNT" ELSE "SUPPLIER"]

\* The values inside b, as "Supplier A" is in "Supplier AB".
MCInside == {<<a, b>>, <<d, b>>}

\* A value with the two before it inside, and values that two texts hold.
MCTextOf == [j \in Jobs |->
    IF j = j1 THEN <<a, d, b>> ELSE IF j = j2 THEN <<b, c>> ELSE <<a>>]
=========================================================================
