------------------------ MODULE MCReasoningMesh ------------------------
(* Small instances of ReasoningMesh. *)
EXTENDS ReasoningMesh, TLC

CONSTANTS r1, r2, t1, t2, v1, v2

MCRuns == {r1, r2}
MCTasks == {t1, t2}
MCVoxels == {v1, v2}

\* Two requests for one deposit, as two calls of the API are.
OneTask == [r \in Runs |-> t1]
\* A task id per evaluation, as the mesh makes when it is given none.
OwnTask == [r \in Runs |-> IF r = r1 THEN t1 ELSE t2]

Figures(elements, intervals, corridor) ==
    [elements |-> elements, anomalies |-> elements, intervals |-> intervals, volume |-> 1000,
     extraction_yield |-> 80, supply_risk |-> 20, corridor |-> corridor]

\* A corridor through a geofence; the geochemist at 75 and the structural
\* geologist at 60 both pass.
Restricted ==
    [figures |-> Figures(2, 1, "non_compliant"), voxels |-> <<v1>>, raises |-> {}, caller |-> "async"]
\* No assays: the geochemist's 55 is blocked, after two voxels.
NoAssays ==
    [figures |-> Figures(0, 1, "not_requested"), voxels |-> <<v2, v1>>, raises |-> {}, caller |-> "sync"]
\* No strata: the structural geologist's 25 is blocked.
NoStrata ==
    [figures |-> Figures(1, 0, "compliant"), voxels |-> <<>>, raises |-> {}, caller |-> "sync"]
Plain == [NoStrata EXCEPT !.figures = Figures(2, 1, "not_requested")]
\* A survey whose depths decrease, from a thread and from a caller's own loop.
BadSurvey == [Plain EXCEPT !.raises = {StructuralGeologist}]
BadSurveyAsync == [BadSurvey EXCEPT !.caller = "async"]
BadEconomics == [Plain EXCEPT !.raises = {EconomicAssessor}]
InsideLoop == [Plain EXCEPT !.caller = "sync_in_loop"]

PassingAndBlocked == {Restricted, NoAssays}
PlainAndFailing == {Plain, NoStrata, BadSurvey, BadSurveyAsync, BadEconomics, InsideLoop}

Symmetric == Permutations({r1, r2})
=========================================================================
