---------------------------- MODULE Agents ----------------------------
(***************************************************************************)
(* The three reasoning agents and the supervisor's gate, as pure           *)
(* operators.  Floats become integers: a confidence is a whole percent, a  *)
(* viability score a ratio compared by cross multiplication.  Evidence     *)
(* text, means and trajectories are left out: no decision reads them.      *)
(***************************************************************************)
EXTENDS Integers

Geochemist == "geochemist"
StructuralGeologist == "structural_geologist"
EconomicAssessor == "economic_assessor"
AgentIds == {Geochemist, StructuralGeologist, EconomicAssessor}

Verdicts == {"commercially_viable", "requires_further_evaluation", "dfars_violation"}
AuditOutcomes == {"not_requested", "compliant", "non_compliant"}

Percent == 0..100

Least(a, b) == IF a <= b THEN a ELSE b
Clamp(x) == IF x < 0 THEN 0 ELSE Least(100, x)

(***************************************************************************)
(* What the agents read of one evaluation request: the distinct elements   *)
(* assayed and those at or over their benchmark, the strata intervals, the *)
(* voxel volume in units of 100 cubic metres, yield and supply risk in     *)
(* percent, and what the audit of the shipping corridor would say.         *)
(***************************************************************************)
DepositFigures ==
    [elements: Nat, anomalies: Nat, intervals: Nat, volume: Nat,
     extraction_yield: Int, supply_risk: Int, corridor: AuditOutcomes]

\* Every assay names an element, so there are assays iff there are elements.
GeochemistConfidence(d) ==
    Least(100, 55 + (IF d.elements > 0 THEN 10 ELSE 0) + Least(25, 5 * d.elements))

StructuralConfidence(d) == IF d.intervals > 0 THEN 60 ELSE 25

\* In ten-thousandths, before the supply risk is discounted.
RawViability(d) ==
    Least(10000, 2500 * d.anomalies + Least(4000, d.volume) + 40 * Clamp(d.extraction_yield))

\* In four-millionths: the supply risk takes away up to a quarter.
ViabilityScore(d) == RawViability(d) * (400 - Clamp(d.supply_risk))

HalfScore == 5000 * 400

Viable(d) == ViabilityScore(d) >= HalfScore

\* Half, plus the distance of the score from half, rounded down to a percent.
EconomicConfidence(d) ==
    LET distance == IF Viable(d) THEN ViabilityScore(d) - HalfScore
                                 ELSE HalfScore - ViabilityScore(d)
    IN  Least(100, 50 + distance \div 40000)

Verdict(d) ==
    IF d.corridor = "non_compliant" THEN "dfars_violation"
    ELSE IF Viable(d) THEN "commercially_viable" ELSE "requires_further_evaluation"

Confidence(a, d) ==
    CASE a = Geochemist          -> GeochemistConfidence(d)
      [] a = StructuralGeologist -> StructuralConfidence(d)
      [] a = EconomicAssessor    -> EconomicConfidence(d)

\* MultiAgentSupervisor.evaluate_handoff: at the threshold the handoff passes.
EvaluateHandoff(confidence, minimum) == confidence >= minimum

=======================================================================
