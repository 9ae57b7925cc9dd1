------------------------- MODULE MCDepositApi -------------------------
(* A small instance of DepositApi: two evaluations, the keys of one below  *)
(* those of the other, beside one call of another handler, at the mesh's   *)
(* threshold of 60.                                                        *)
EXTENDS DepositApi, TLC

CONSTANTS r1, r2, deposit, annex, other

MCRuns == {r1, r2}
MCTasks == {deposit, annex}
MCTaskOf == [r \in MCRuns |-> IF r = r1 THEN deposit ELSE annex]
\* The annex is named as the deposit is, with a colon and more behind it.
MCNested == {<<deposit, annex>>}
MCOthers == {other}

Body(assays, start, end) == [assays |-> assays, start |-> start, end |-> end, samples |-> 200]
\* Two names of one element, and a range without strata.
Rich == Body([li |-> 1000, lithium |-> 900, nd |-> 400], 200, 320)
NoAssays == Body(<<>>, 0, 120)
Negative == Body([li |-> -1], 0, 120)
Inverted == Body([li |-> 1000], 120, 0)
\* An element no route exports.
Cobalt == Body([co |-> 300], 0, 120)

Together(p, q, h) == [request |-> [r \in MCRuns |-> IF r = r1 THEN p ELSE q], handler |-> h]
Alone == [o \in {} |-> "redact_prompt"]
Beside(h) == [o \in MCOthers |-> h]
MCCalls ==
    {Together(Rich, Cobalt, Alone),
     Together(Rich, Inverted, Beside("run_simulation")),
     Together(Rich, NoAssays, Beside("redact_prompt")),
     Together(NoAssays, NoAssays, Beside("trace_supply_chain")),
     Together(Cobalt, Negative, Beside("run_simulation"))}

MCStrata == {[top |-> 0, base |-> 120]}
MCRoutes == [lithium |-> {[source |-> 1, quantity |-> 40], [source |-> 2, quantity |-> 60]},
             neodymium |-> {[source |-> 1, quantity |-> 45], [source |-> 2, quantity |-> 55]},
             cobalt |-> {}]

Plain == [figures |-> FiguresAt(NoAssays, 0), voxels |-> <<>>, raises |-> {}, caller |-> "sync"]
MCDeposits == {[Plain EXCEPT !.figures = FiguresAt(q, k)] : q \in {Rich, Cobalt, NoAssays}, k \in {0, 55, 60}}
=======================================================================
