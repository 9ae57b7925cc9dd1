--------------------------- MODULE McpTools ---------------------------
(***************************************************************************)
(* The MCP tools the deposit API calls, as pure operators.  Names of       *)
(* elements are casefolded; a concentration is whole parts per million and *)
(* a share a whole percent.                                                *)
(***************************************************************************)
EXTENDS Integers, FiniteSets, FiniteSetsExt

\* The intervals of a borehole that touch the range asked for.
QueryBoreholeStrata(intervals, start_depth, end_depth) ==
    {i \in intervals : i.base >= start_depth /\ i.top <= end_depth}

ELEMENT_ALIASES == [li |-> "lithium", co |-> "cobalt", nd |-> "neodymium", ree |-> "rare earth elements"]

Canonical(name) == IF name \in DOMAIN ELEMENT_ALIASES THEN ELEMENT_ALIASES[name] ELSE name

\* DEFAULT_ASSAY_THRESHOLDS, and 500 for every other element.
Threshold(element) == CASE element = "lithium" -> 1000 [] element = "cobalt" -> 300 [] OTHER -> 500

Elements(assays) == {Canonical(n) : n \in DOMAIN assays}

\* evaluate_mineral_assays: the elements whose largest sample reaches the benchmark.
AnomalousElements(assays) ==
    {e \in Elements(assays) : \E n \in DOMAIN assays : Canonical(n) = e /\ assays[n] >= Threshold(e)}

\* The largest of the quantities that sources export, in percent of them all.
ConcentrationRisk(routes) ==
    LET total == MapThenSumSet(LAMBDA r : r.quantity, routes)
    IN  IF total = 0 THEN 0
        ELSE (100 * (CHOOSE q \in {r.quantity : r \in routes} : \A r \in routes : r.quantity <= q)) \div total
=======================================================================
