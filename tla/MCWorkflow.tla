-------------------------- MODULE MCWorkflow --------------------------
(* A small instance of Workflow. *)
EXTENDS Workflow

CONSTANTS t1, t2, x1, x2

Pair == {t1, t2}
OneThread == {t1}
MCExecutions == {x1, x2}

ScriptStep(s, a, transitions) == [state |-> s, action |-> a, allowed_transitions |-> transitions]

\* Two anomalies in a row; the first step of TRACE is overridden by a later
\* one, and the last transition leads to a state of no step.
MCScript ==
    <<ScriptStep("TRACE", "GRAPH_ORIGIN_TRACE", <<>>),
      ScriptStep("DETECT", "ANOMALY_DETECTION", <<"RECHECK", "TRACE">>),
      ScriptStep("RECHECK", "ANOMALY_DETECTION", <<"ROUTE">>),
      ScriptStep("TRACE", "GRAPH_ORIGIN_TRACE", <<"DETECT">>)>>
=======================================================================
