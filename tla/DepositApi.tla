-------------------------- MODULE DepositApi --------------------------
(***************************************************************************)
(* The API's handlers, each on a thread of the server's pool, composed     *)
(* with the reasoning mesh, the MCP tools, the log handler a blocked       *)
(* handoff writes to, and the trace log.  The rate limiter's answer is     *)
(* left open, a span is its time and its caller (TraceChain has the rest), *)
(* and the graph is a set of routes that it may fail to answer.  A request *)
(* names its deposit and its borehole by the task id.                      *)
(***************************************************************************)
EXTENDS ReasoningMesh, McpTools, LogHandler

CONSTANTS
    Others,       \* callers of the other handlers
    Calls,        \* bodies and handlers that calls may come in with together
    Strata,       \* the intervals stored for the borehole
    Routes,       \* trade routes of the graph, by element
    Nested        \* <<t, u>>: the task id u goes on where t ends, after a colon

Callers == Runs \cup Others

Valid(body) ==
    /\ body.start >= 0
    /\ \A n \in DOMAIN body.assays : body.assays[n] >= 0

\* Mutant: no interval is made up for a borehole that has none.
IntervalsStored(body) == Cardinality(QueryBoreholeStrata(Strata, body.start, body.end))

\* Where the store has no stratum of the range, one is made up.
Intervals(body) ==
    LET stored == QueryBoreholeStrata(Strata, body.start, body.end)
    IN  IF stored = {} THEN 1 ELSE Cardinality(stored)

FiguresAt(body, risk) ==
    [elements |-> Cardinality(Elements(body.assays)),
     anomalies |-> Cardinality(AnomalousElements(body.assays)),
     intervals |-> Intervals(body), volume |-> ((body.end - body.start) * body.samples) \div 100,
     extraction_yield |-> 80, supply_risk |-> risk, corridor |-> "not_requested"]

\* What the mesh is called with.
Invocation(body, risk) ==
    [figures |-> FiguresAt(body, risk), voxels |-> <<>>, raises |-> {}, caller |-> "sync"]

RisksOf(elements) == {ConcentrationRisk(Routes[e]) : e \in elements}

ASSUME OthersAssumption == Runs \cap Others = {}
ASSUME CallsAssumption ==
    \A c \in Calls :
        /\ \E O \in SUBSET Others :
               c.handler \in [O -> {"redact_prompt", "trace_supply_chain", "run_simulation"}]
        /\ \A r \in Runs : c.request[r].start \in Int /\ IsFiniteSet(DOMAIN c.request[r].assays)
ASSUME StrataAssumption == IsFiniteSet(Strata)
ASSUME NestedAssumption == Nested \subseteq Tasks \X Tasks
ASSUME LoggersAssumption == Loggers = Runs
\* The mesh's requests include those the API makes of a body it accepts.
ASSUME InvocationsAssumption ==
    \A c \in Calls, r \in Runs :
        LET body == c.request[r]
        IN  body.end > body.start /\ Valid(body) =>
                \A risk \in {0} \cup RisksOf(Elements(body.assays)) : Invocation(body, risk) \in Deposits

VARIABLES
    request,     \* the body of each evaluation request
    handler,     \* the handler each other call that comes in is routed to
    phase,       \* where each call is in its handler
    impedance,   \* tasks whose inverted voxel trace is stored
    supply,      \* supply_impact of each evaluation
    keys,        \* checkpoint_keys of each evaluation
    clock,       \* time_ns, as last read
    stamp,       \* the time in the key of each call's span
    spans,       \* the spans' callers, in the order they were put
    latest       \* latest_trace of each simulation: the caller of that span

apiVars == <<request, handler, phase, impedance, supply, keys>>
traceVars == <<clock, stamp, spans, latest>>
allVars == <<vars, logVars, apiVars, traceVars>>

ApiInit ==
    /\ Init /\ LogInit
    /\ input = [r \in Runs |-> CHOOSE d \in Deposits : TRUE]
    /\ \E c \in Calls : request = c.request /\ handler = c.handler
    /\ phase = [c \in Callers |-> "new"]
    /\ impedance = {}
    /\ supply = [r \in Runs |-> {}]
    /\ keys = [r \in Runs |-> {}]
    /\ clock = 0 /\ stamp = [c \in Callers |-> 0] /\ spans = <<>>
    /\ latest = [o \in Others |-> o]

Turn(c, from, to) == phase[c] = from /\ phase' = [phase EXCEPT ![c] = to]

-----------------------------------------------------------------------
(* evaluate_deposit *)

\* enforce_deposit_rate_limit.
Admit(r) ==
    /\ Turn(r, "new", "admitted") \/ Turn(r, "new", "refused")
    /\ UNCHANGED <<vars, logVars, traceVars, request, handler, impedance, supply, keys>>

\* The inverted trace is stored, unless the range is the wrong way round or the
\* put fails ...
Invert(r) ==
    /\ UNCHANGED <<vars, logVars, traceVars, request, handler, supply, keys>>
    /\ \/ /\ Turn(r, "admitted", "raised")
          /\ UNCHANGED impedance
       \/ /\ request[r].end > request[r].start
          /\ Turn(r, "admitted", "inverted")
          /\ impedance' = impedance \cup {TaskOf[r]}

\* ... and then depths and concentrations are validated.
Validate(r) ==
    /\ Turn(r, "inverted", IF Valid(request[r]) THEN "tracing" ELSE "raised")
    /\ UNCHANGED <<vars, logVars, traceVars, request, handler, impedance, supply, keys>>

Traced(r) == {s.mineral : s \in supply[r]}

\* Mutant: a graph that does not answer is the highest risk.
ImpactPessimistic(e, answers) ==
    IF answers THEN [mineral |-> e, risk |-> ConcentrationRisk(Routes[e])]
               ELSE [mineral |-> e, risk |-> 100]

\* An element's supply impact: a graph that does not answer is no risk.
Impact(e, answers) ==
    IF answers THEN [mineral |-> e, risk |-> ConcentrationRisk(Routes[e])]
               ELSE [mineral |-> e, risk |-> 0]

Trace(r) ==
    /\ phase[r] = "tracing"
    /\ \E e \in Elements(request[r].assays) \ Traced(r), answers \in BOOLEAN :
           supply' = [supply EXCEPT ![r] = @ \cup {Impact(e, answers)}]
    /\ UNCHANGED <<vars, logVars, traceVars, request, handler, phase, impedance, keys>>

HighestRisk(risks) == CHOOSE k \in risks \cup {0} : \A l \in risks : l <= k

Invoke(r) ==
    /\ Traced(r) = Elements(request[r].assays)
    /\ Turn(r, "tracing", "evaluating")
    /\ input' = [input EXCEPT ![r] =
           Invocation(request[r], HighestRisk({s.risk : s \in supply[r]}))]
    /\ UNCHANGED <<stage, agent, voxel, wal, durable, gauge, violations, crashes, struck>>
    /\ UNCHANGED <<logVars, traceVars, request, handler, impedance, supply, keys>>

Evaluate(r) ==
    /\ phase[r] = "evaluating"
    /\ Start(r) \/ Advance(r)
    /\ UNCHANGED <<logVars, apiVars, traceVars>>

\* The supervisor that blocked a handoff logs a warning before the mesh raises.
Warn(r) ==
    /\ stage[r] = "blocked"
    /\ Turn(r, "evaluating", "warning")
    /\ Emit(r)
    /\ UNCHANGED <<vars, traceVars, request, handler, impedance, supply, keys>>

FlushLog(r) ==
    /\ Flush(r)
    /\ UNCHANGED <<vars, apiVars, traceVars>>

Raise(r) ==
    /\ \/ holder # r /\ Turn(r, "warning", "raised")
       \/ stage[r] = "failed" /\ Turn(r, "evaluating", "raised")
    /\ UNCHANGED <<vars, logVars, traceVars, request, handler, impedance, supply, keys>>

\* The tasks whose keys begin with the prefix of a task: a deposit id with a
\* colon in it puts its keys under those of the id before the colon.
Under(task) == {task} \cup {u \in Tasks : <<task, u>> \in Nested}

\* Mutant: only the hypotheses' keys are listed.
HypothesesUnder(task) ==
    {wal[i] : i \in {j \in DOMAIN wal :
        Readable(j) /\ TaskOf[wal[j].run] \in Under(task) /\ wal[j].kind = "hypothesis"}}

\* scan_json of the task's prefix; the records stand for their keys.
ScanUnder(task) ==
    {wal[i] : i \in {j \in DOMAIN wal :
        Readable(j) /\ TaskOf[wal[j].run] \in Under(task) /\ wal[j].kind # "voxel"}}

ListCheckpoints(r) ==
    /\ stage[r] = "returned"
    /\ Turn(r, "evaluating", "logging")
    /\ keys' = [keys EXCEPT ![r] = ScanUnder(TaskOf[r])]
    /\ UNCHANGED <<vars, logVars, traceVars, request, handler, impedance, supply>>

-----------------------------------------------------------------------
(* The other handlers, and the span that every handler logs. *)

\* redact_prompt and run_simulation do their work, which may raise;
\* trace_supply_chain hands the tool a dict, which has no attributes.
Begin(o) ==
    /\ o \in DOMAIN handler
    /\ \/ Turn(o, "new", "raised")
       \/ handler[o] # "trace_supply_chain" /\ Turn(o, "new", "logging")
    /\ UNCHANGED <<vars, logVars, traceVars, request, handler, impedance, supply, keys>>

\* log_span reads the clock ...
StampSpan(c) ==
    /\ Turn(c, "logging", "stamped")
    /\ clock' = clock + 1
    /\ stamp' = [stamp EXCEPT ![c] = clock']
    /\ UNCHANGED <<vars, logVars, spans, latest, request, handler, impedance, supply, keys>>

\* ... and puts the span, if it can; run_simulation goes on to read the log.
PutSpan(c) ==
    /\ \/ /\ Turn(c, "stamped", "raised")
          /\ UNCHANGED spans
       \/ /\ Turn(c, "stamped",
                  IF c \in Others /\ handler[c] = "run_simulation" THEN "reading" ELSE "answered")
          /\ spans' = Append(spans, c)
    /\ UNCHANGED <<vars, logVars, clock, stamp, latest, request, handler, impedance, supply, keys>>

\* Mutant: the span that was put last.
LastPut == spans[Len(spans)]

\* trace_log[-1]: the span with the last key.
LastKey ==
    CHOOSE c \in {spans[i] : i \in DOMAIN spans} :
        \A i \in DOMAIN spans : stamp[spans[i]] <= stamp[c]

ReadLatest(o) ==
    /\ Turn(o, "reading", "answered")
    /\ latest' = [latest EXCEPT ![o] = LastKey]
    /\ UNCHANGED <<vars, logVars, clock, stamp, spans, request, handler, impedance, supply, keys>>

Ended == \A c \in Runs \cup DOMAIN handler : phase[c] \in {"answered", "refused", "raised"}

\* The server stops, and the interpreter closes the handler.
ShutDown ==
    /\ Ended
    /\ \E r \in Runs : Close(r)
    /\ UNCHANGED <<vars, apiVars, traceVars>>

ApiNext ==
    \/ \E r \in Runs :
           \/ Admit(r) \/ Invert(r) \/ Validate(r) \/ Trace(r) \/ Invoke(r) \/ Evaluate(r)
           \/ Warn(r) \/ FlushLog(r) \/ Raise(r) \/ ListCheckpoints(r)
    \/ \E o \in Others : Begin(o) \/ ReadLatest(o)
    \/ \E c \in Callers : StampSpan(c) \/ PutSpan(c)
    \/ ShutDown

ApiSpec == ApiInit /\ [][ApiNext]_allVars

-----------------------------------------------------------------------
ApiTypeOK ==
    /\ TypeOK
    /\ phase \in [Callers -> {"new", "admitted", "refused", "inverted", "tracing", "evaluating",
                              "warning", "raised", "logging", "stamped", "reading", "answered"}]
    /\ impedance \subseteq Tasks
    /\ DOMAIN keys = Runs /\ \A r \in Runs : keys[r] \subseteq Record

Passed(r) == stage[r] = "returned" /\ phase[r] \in {"logging", "stamped", "answered"}

\* What an answer lists is what the store has of its evaluation: every key it
\* wrote, however evaluations of the deposit overlap, and the six of the
\* end-to-end test if no other evaluation wrote any under the deposit's prefix.
KeysReported ==
    \A r \in Runs : Passed(r) =>
        /\ \A i \in DOMAIN wal : wal[i].run = r => \E k \in keys[r] : SameKey(k, wal[i])
        /\ (\A i \in DOMAIN wal : TaskOf[wal[i].run] \in Under(TaskOf[r]) => wal[i].run = r)
               => Cardinality(keys[r]) = 6

\* The only evaluation the supervisor blocks is one without assays: whatever
\* the borehole's strata, the mesh is given an interval.
BlockedWithoutAssays ==
    \A r \in Runs : stage[r] = "blocked" => DOMAIN request[r].assays = {}

ResponseInv == ApiTypeOK /\ KeysReported /\ BlockedWithoutAssays

\* A graph that fails, even between two elements, never costs a deposit its
\* verdict: what is viable at its traced risk is viable in the answer.
OutageOptimistic ==
    \A r \in Runs : Passed(r) =>
        LET risk == HighestRisk(RisksOf(Elements(request[r].assays)))
        IN  Viable(FiguresAt(request[r], risk)) => Verdict(input[r].figures) = "commercially_viable"

\* The span a simulation is answered with is its own or one stamped later,
\* although spans are put in another order than they are stamped in.
LatestTraceFresh ==
    \A o \in Others : phase[o] = "answered" => stamp[latest[o]] >= stamp[o]

-----------------------------------------------------------------------
(* The inductive invariant behind the properties. *)

\* The mesh runs for a request only once the handler invoked it, and the
\* handler goes on as the evaluation ended.
HandlersInStep ==
    \A r \in Runs :
        /\ phase[r] \in {"new", "admitted", "refused", "inverted", "tracing"} => stage[r] = "idle"
        /\ phase[r] = "warning" => stage[r] = "blocked"
        /\ phase[r] \in {"logging", "stamped", "answered"} => stage[r] = "returned"
        /\ phase[r] # "reading"

Accepted(body) == body.end > body.start /\ Valid(body)

BodiesChecked ==
    \A r \in Runs :
        /\ phase[r] \in {"inverted", "tracing"} => request[r].end > request[r].start
        /\ phase[r] = "tracing" => Valid(request[r])

\* Only elements of the body are traced, each at its risk or at none.
SupplyTraced ==
    /\ DOMAIN supply = Runs
    /\ \A r \in Runs : \A s \in supply[r] :
           /\ s.mineral \in Elements(request[r].assays)
           /\ s.risk \in {0, ConcentrationRisk(Routes[s.mineral])}

\* What the mesh evaluates is what the handler made of an accepted body.
Invoked ==
    \A r \in Runs : phase[r] = "evaluating" \/ stage[r] # "idle" =>
        /\ Accepted(request[r])
        /\ Traced(r) = Elements(request[r].assays)
        /\ input[r] = Invocation(request[r], HighestRisk({s.risk : s \in supply[r]}))

HandlerInv ==
    /\ \E c \in Calls : request = c.request /\ handler = c.handler
    /\ HandlersInStep /\ BodiesChecked /\ SupplyTraced /\ Invoked

\* What an evaluation of request d that the API asks for stores: three
\* hypotheses, two handoffs and the verdict, and neither voxels nor an audit.
Outcome(r, kind, ref, confidence) == [run |-> r, kind |-> kind, ref |-> ref, confidence |-> confidence]

Outcomes(r, d) ==
    {Outcome(r, "hypothesis", a, Confidence(a, d.figures)) : a \in AgentIds}
        \cup {Outcome(r, "handoff", a, Confidence(a, d.figures)) : a \in {Geochemist, StructuralGeologist}}
        \cup {Outcome(r, "verdict", Verdict(d.figures), Confidence(EconomicAssessor, d.figures))}

OutcomesStored ==
    /\ \A r \in Runs : stage[r] \notin {"voxels", "audit"}
    /\ \A i \in DOMAIN wal :
           stage[wal[i].run] # "idle" /\ wal[i] \in Outcomes(wal[i].run, input[wal[i].run])

MeshInv == TypeInv /\ EvidenceInv /\ VerdictInv /\ OutcomesStored /\ struck = {}

\* A span is in the log from when its put returned, and its time is settled.
SpansSettled ==
    /\ clock \in Nat /\ stamp \in [Callers -> Nat] /\ spans \in Seq(Callers)
    /\ \A i \in DOMAIN spans : phase[spans[i]] \in {"reading", "answered"}
    /\ \A o \in Others : phase[o] = "reading" => \E i \in DOMAIN spans : spans[i] = o

LatestSettled ==
    /\ latest \in [Others -> Callers]
    /\ \A o \in Others :
           latest[o] = o \/ (phase[o] = "answered" /\ \E i \in DOMAIN spans : spans[i] = latest[o])

SpansInv == SpansSettled /\ LatestSettled /\ LatestTraceFresh

\* KeysReported is part of it, BlockedWithoutAssays needs the mesh's threshold,
\* and what an answer's risk was made of is in HandlerInv.
ApiInv == ApiTypeOK /\ HandlerInv /\ MeshInv /\ KeysReported /\ SpansInv
=======================================================================
