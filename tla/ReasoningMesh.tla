------------------------- MODULE ReasoningMesh -------------------------
(***************************************************************************)
(* GeologicalReasoningMesh.evaluate_deposit and the checkpoint column      *)
(* family of the RocksDB store it writes.  Several evaluations run at      *)
(* once, one per thread or coroutine, over one process-wide store; two of  *)
(* them may carry the same task id, as two requests for one deposit do.    *)
(* The store is modelled by its write-ahead log: a key reads as its last   *)
(* record, a killed process keeps the whole log, and a machine that loses  *)
(* power keeps a prefix of it, because puts are not synced.                *)
(***************************************************************************)
EXTENDS Agents, Sequences, FiniteSets

CONSTANTS
    Runs,               \* evaluations, each one call of evaluate_deposit
    Tasks,              \* task ids
    TaskOf,             \* the task id each run is called with
    Voxels,             \* Morton codes
    Deposits,           \* evaluation requests
    MinimumConfidence,  \* the mesh's handoff threshold, in percent
    MaxCrashes          \* bound: how often the process or the machine stops

Request ==
    [figures: DepositFigures, voxels: Seq(Voxels), raises: SUBSET AgentIds,
     caller: {"sync", "async", "sync_in_loop"}]

ASSUME TaskAssumption == TaskOf \in [Runs -> Tasks]
ASSUME DepositAssumption == Deposits \subseteq Request
ASSUME ThresholdAssumption == MinimumConfidence \in Percent
ASSUME CrashAssumption == MaxCrashes \in Nat
ASSUME RunsAssumption == IsFiniteSet(Runs)

VARIABLES
    input,       \* the request of each run
    stage,       \* where each run is in evaluate_deposit_async
    agent,       \* each run's agents
    voxel,       \* voxels each run has stored
    wal,         \* the store's puts, in the order they were made
    durable,     \* length of the log that survives a power loss for certain
    gauge,       \* tensormesh_active_agents, per agent
    violations,  \* tensormesh_dfars_violations_total
    crashes,
    struck       \* runs that had returned when the machine lost power

meshVars == <<stage, agent, voxel, gauge, violations>>
storeVars == <<wal, durable>>
vars == <<input, stage, agent, voxel, wal, durable, gauge, violations, crashes, struck>>

Kinds == {"hypothesis", "voxel", "handoff", "shipping_audit", "verdict"}

LiveStages ==
    {"gather", "checkpoint_geochemist", "voxels", "handoff_geochemist",
     "checkpoint_structural", "assess", "audit", "handoff_structural",
     "checkpoint_economic", "verdict"}
EndStages == {"returned", "blocked", "failed", "crashed"}
Stages == {"idle", "unwinding"} \cup LiveStages \cup EndStages

\* An orphaned agent's coroutine was cancelled, its worker thread runs on.
AgentStates == {"idle", "running", "done", "raised", "orphaned", "cancelled", "killed"}

Refs == AgentIds \cup Voxels \cup AuditOutcomes \cup Verdicts

Record == [run: Runs, kind: Kinds, ref: Refs, confidence: Percent]

-------------------------------------------------------------------------
(* The store. *)

\* put_json under a key built from the run's task id, the kind and the ref.
Put(r, kind, ref, confidence) ==
    wal' = Append(wal, [run |-> r, kind |-> kind, ref |-> ref, confidence |-> confidence])

\* Mutant: hypothesis and verdict keys without the task id.
SameKeyWithoutTask(p, q) == p.kind = q.kind /\ p.ref = q.ref /\ (p.kind = "handoff" => p.run = q.run)

\* Two records under one key.  A handoff's key ends in a fresh uuid, a
\* voxel's is its Morton code with no task id, the others start with the task id.
SameKey(p, q) ==
    /\ p.kind = q.kind
    /\ CASE p.kind = "handoff" -> p.run = q.run /\ p.ref = q.ref
         [] p.kind = "voxel"   -> p.ref = q.ref
         [] p.kind = "verdict" -> TaskOf[p.run] = TaskOf[q.run]
         [] OTHER              -> TaskOf[p.run] = TaskOf[q.run] /\ p.ref = q.ref

\* get: the record at i is the one its key reads as.
Readable(i) ==
    /\ i \in DOMAIN wal
    /\ \A j \in DOMAIN wal : j > i => ~SameKey(wal[i], wal[j])

\* Run r put a record of this kind and ref among the first n of a log.
Written(log, r, kind, ref, n) ==
    \E j \in 1..n : log[j].run = r /\ log[j].kind = kind /\ log[j].ref = ref

-------------------------------------------------------------------------
(* One evaluation. *)

Enter(r, s) == stage' = [stage EXCEPT ![r] = s]

ConfidenceOf(r, a) == Confidence(a, input[r].figures)

\* The worker threads of agent a that still compute.
Working(r, a) == agent[r][a] \in {"running", "orphaned"}

\* Evaluations that have started and have not ended.
Ongoing == LiveStages \cup {"unwinding"}

Init ==
    /\ input \in [Runs -> Deposits]
    /\ stage = [r \in Runs |-> "idle"]
    /\ agent = [r \in Runs |-> [a \in AgentIds |-> "idle"]]
    /\ voxel = [r \in Runs |-> 0]
    /\ wal = <<>>
    /\ durable = 0
    /\ gauge = [a \in AgentIds |-> 0]
    /\ violations = 0
    /\ crashes = 0
    /\ struck = {}

\* Both coroutines of the gather run up to their worker thread in one pass of
\* the event loop, before either can finish.
Start(r) ==
    /\ stage[r] = "idle"
    /\ input[r].caller # "sync_in_loop"
    /\ Enter(r, "gather")
    /\ agent' = [agent EXCEPT ![r][Geochemist] = "running", ![r][StructuralGeologist] = "running"]
    /\ gauge' = [gauge EXCEPT ![Geochemist] = @ + 1, ![StructuralGeologist] = @ + 1]
    /\ UNCHANGED <<input, voxel, wal, durable, violations, crashes, struck>>

\* evaluate_deposit refuses to block a running event loop.
RefuseInsideLoop(r) ==
    /\ stage[r] = "idle"
    /\ input[r].caller = "sync_in_loop"
    /\ Enter(r, "failed")
    /\ UNCHANGED <<input, agent, voxel, wal, durable, gauge, violations, crashes, struck>>

\* The finally block of run_<agent>, whichever way the agent ends.
Leave(r, a, how) ==
    /\ agent[r][a] = "running"
    /\ agent' = [agent EXCEPT ![r][a] = how]
    /\ gauge' = [gauge EXCEPT ![a] = @ - 1]

\* Mutant: an agent that ends after its evaluation failed is not counted down.
AgentReturnsWhileLive(r, a) ==
    /\ stage[r] \in LiveStages
    /\ a \notin input[r].raises
    /\ Leave(r, a, "done")
    /\ UNCHANGED <<input, stage, voxel, wal, durable, violations, crashes, struck>>

AgentReturns(r, a) ==
    /\ a \notin input[r].raises
    /\ Leave(r, a, "done")
    /\ UNCHANGED <<input, stage, voxel, wal, durable, violations, crashes, struck>>

\* Mutant: the decrement after the analysis, not in a finally block.
AgentRaisesUncounted(r, a) ==
    /\ a \in input[r].raises
    /\ agent[r][a] = "running"
    /\ agent' = [agent EXCEPT ![r][a] = "raised"]
    /\ UNCHANGED <<input, stage, voxel, wal, durable, gauge, violations, crashes, struck>>

AgentRaises(r, a) ==
    /\ a \in input[r].raises
    /\ Leave(r, a, "raised")
    /\ UNCHANGED <<input, stage, voxel, wal, durable, violations, crashes, struck>>

\* Mutant: the gather waits for an exception of every agent.
UnwindWhenAllRaised(r) ==
    /\ stage[r] \in {"gather", "assess"}
    /\ \A a \in AgentIds : agent[r][a] = "raised"
    /\ Enter(r, "failed")
    /\ UNCHANGED <<input, agent, voxel, wal, durable, gauge, violations, crashes, struck>>

\* An agent's exception leaves evaluate_deposit_async.  Under asyncio.run the
\* loop cancels the coroutine of an agent that is still running, whose finally
\* block counts it down, and waits for the worker threads; under a caller's own
\* loop the other agent of the gather runs on, to AgentReturns or AgentRaises.
Unwind(r) ==
    LET cancelled == {a \in AgentIds : input[r].caller = "sync" /\ agent[r][a] = "running"}
    IN  /\ stage[r] \in {"gather", "assess"}
        /\ \E a \in AgentIds : agent[r][a] = "raised"
        /\ Enter(r, IF input[r].caller = "sync" THEN "unwinding" ELSE "failed")
        /\ agent' = [agent EXCEPT ![r] =
               [a \in AgentIds |-> IF a \in cancelled THEN "orphaned" ELSE @[a]]]
        /\ gauge' = [a \in AgentIds |-> IF a \in cancelled THEN gauge[a] - 1 ELSE gauge[a]]
        /\ UNCHANGED <<input, voxel, wal, durable, violations, crashes, struck>>

\* A cancelled coroutine does not stop its thread: the analysis runs to its
\* end, and nobody takes the result.
ThreadEnds(r, a) ==
    /\ agent[r][a] = "orphaned"
    /\ agent' = [agent EXCEPT ![r][a] = "cancelled"]
    /\ UNCHANGED <<input, stage, voxel, wal, durable, gauge, violations, crashes, struck>>

\* asyncio.run has shut its executor down, and the exception reaches the caller.
ThreadsJoined(r) ==
    /\ stage[r] = "unwinding"
    /\ \A a \in AgentIds : ~Working(r, a)
    /\ Enter(r, "failed")
    /\ UNCHANGED <<input, agent, voxel, wal, durable, gauge, violations, crashes, struck>>

GatherReturns(r) ==
    /\ stage[r] = "gather"
    /\ agent[r][Geochemist] = "done"
    /\ agent[r][StructuralGeologist] = "done"
    /\ Enter(r, "checkpoint_geochemist")
    /\ UNCHANGED <<input, agent, voxel, wal, durable, gauge, violations, crashes, struck>>

\* _checkpoint(task_id, "hypothesis", ...) of agent a, then on to stage s.
Checkpoint(r, a, s) ==
    /\ Put(r, "hypothesis", a, ConfidenceOf(r, a))
    /\ Enter(r, s)
    /\ UNCHANGED <<input, agent, voxel, durable, gauge, violations, crashes, struck>>

\* Mutant: the voxels are skipped.
CheckpointGeochemistOnly(r) ==
    /\ stage[r] = "checkpoint_geochemist"
    /\ Checkpoint(r, Geochemist, "handoff_geochemist")

CheckpointGeochemist(r) ==
    /\ stage[r] = "checkpoint_geochemist"
    /\ Checkpoint(r, Geochemist, IF input[r].voxels = <<>> THEN "handoff_geochemist" ELSE "voxels")

StoreVoxel(r) ==
    /\ stage[r] = "voxels"
    /\ Put(r, "voxel", input[r].voxels[voxel[r] + 1], 0)
    /\ voxel' = [voxel EXCEPT ![r] = @ + 1]
    /\ Enter(r, IF voxel[r] + 1 = Len(input[r].voxels) THEN "handoff_geochemist" ELSE "voxels")
    /\ UNCHANGED <<input, agent, durable, gauge, violations, crashes, struck>>

\* _handoff of sender a: the supervisor passes it, the router acknowledges it
\* in process, and envelope and acknowledgement are stored as one record.
Deliver(r, a, s) ==
    /\ EvaluateHandoff(ConfidenceOf(r, a), MinimumConfidence)
    /\ Put(r, "handoff", a, ConfidenceOf(r, a))
    /\ Enter(r, s)
    /\ UNCHANGED <<input, agent, voxel, durable, gauge, violations, crashes, struck>>

\* ... or the supervisor blocks it, counts a DFARS violation, and the mesh
\* raises ValueError.
Block(r, a) ==
    /\ ~EvaluateHandoff(ConfidenceOf(r, a), MinimumConfidence)
    /\ violations' = violations + 1
    /\ Enter(r, "blocked")
    /\ UNCHANGED <<input, agent, voxel, wal, durable, gauge, crashes, struck>>

\* Mutant: the gate looks at the recipient's confidence.
HandoffGatedByRecipient(r) ==
    /\ stage[r] = "handoff_geochemist"
    /\ EvaluateHandoff(ConfidenceOf(r, StructuralGeologist), MinimumConfidence)
    /\ Put(r, "handoff", Geochemist, ConfidenceOf(r, Geochemist))
    /\ Enter(r, "checkpoint_structural")
    /\ UNCHANGED <<input, agent, voxel, durable, gauge, violations, crashes, struck>>

HandoffGeochemist(r) ==
    /\ stage[r] = "handoff_geochemist"
    /\ Deliver(r, Geochemist, "checkpoint_structural") \/ Block(r, Geochemist)

CheckpointStructural(r) ==
    /\ stage[r] = "checkpoint_structural"
    /\ Checkpoint(r, StructuralGeologist, "assess")

\* Mutant: the economic assessor is not counted up.
BeginAssessmentUncounted(r) ==
    /\ stage[r] = "assess"
    /\ agent[r][EconomicAssessor] = "idle"
    /\ agent' = [agent EXCEPT ![r][EconomicAssessor] = "running"]
    /\ UNCHANGED <<input, stage, voxel, wal, durable, gauge, violations, crashes, struck>>

BeginAssessment(r) ==
    /\ stage[r] = "assess"
    /\ agent[r][EconomicAssessor] = "idle"
    /\ agent' = [agent EXCEPT ![r][EconomicAssessor] = "running"]
    /\ gauge' = [gauge EXCEPT ![EconomicAssessor] = @ + 1]
    /\ UNCHANGED <<input, stage, voxel, wal, durable, violations, crashes, struck>>

\* Mutant: the audit is stored only for a compliant corridor.
AssessmentReturnsCompliantAudit(r) ==
    /\ stage[r] = "assess"
    /\ agent[r][EconomicAssessor] = "done"
    /\ Enter(r, IF input[r].figures.corridor = "compliant" THEN "audit" ELSE "handoff_structural")
    /\ UNCHANGED <<input, agent, voxel, wal, durable, gauge, violations, crashes, struck>>

\* Only a corridor that was audited has an audit hash to store.
AssessmentReturns(r) ==
    /\ stage[r] = "assess"
    /\ agent[r][EconomicAssessor] = "done"
    /\ Enter(r, IF input[r].figures.corridor = "not_requested" THEN "handoff_structural" ELSE "audit")
    /\ UNCHANGED <<input, agent, voxel, wal, durable, gauge, violations, crashes, struck>>

StoreShippingAudit(r) ==
    /\ stage[r] = "audit"
    /\ Put(r, "shipping_audit", input[r].figures.corridor, 0)
    /\ Enter(r, "handoff_structural")
    /\ UNCHANGED <<input, agent, voxel, durable, gauge, violations, crashes, struck>>

HandoffStructural(r) ==
    /\ stage[r] = "handoff_structural"
    /\ Deliver(r, StructuralGeologist, "checkpoint_economic") \/ Block(r, StructuralGeologist)

CheckpointEconomic(r) ==
    /\ stage[r] = "checkpoint_economic"
    /\ Checkpoint(r, EconomicAssessor, "verdict")

StoreVerdict(r) ==
    /\ stage[r] = "verdict"
    /\ Put(r, "verdict", Verdict(input[r].figures), ConfidenceOf(r, EconomicAssessor))
    /\ Enter(r, "returned")
    /\ UNCHANGED <<input, agent, voxel, durable, gauge, violations, crashes, struck>>

\* Mutant: the verdict's put swallows the exception.
PutFailsQuietly(r) ==
    /\ stage[r] = "verdict"
    /\ Enter(r, "returned")
    /\ UNCHANGED <<input, agent, voxel, wal, durable, gauge, violations, crashes, struck>>

\* The bridge turns a RocksDB status that is not ok into an exception.
PutFails(r) ==
    /\ stage[r] \in {"checkpoint_geochemist", "voxels", "handoff_geochemist", "checkpoint_structural",
                     "audit", "handoff_structural", "checkpoint_economic", "verdict"}
    /\ stage[r] = "handoff_geochemist" => EvaluateHandoff(ConfidenceOf(r, Geochemist), MinimumConfidence)
    /\ stage[r] = "handoff_structural" =>
           EvaluateHandoff(ConfidenceOf(r, StructuralGeologist), MinimumConfidence)
    /\ Enter(r, "failed")
    /\ UNCHANGED <<input, agent, voxel, wal, durable, gauge, violations, crashes, struck>>

Advance(r) ==
    \/ \E a \in AgentIds : AgentReturns(r, a) \/ AgentRaises(r, a) \/ ThreadEnds(r, a)
    \/ Unwind(r)
    \/ ThreadsJoined(r)
    \/ GatherReturns(r)
    \/ CheckpointGeochemist(r)
    \/ StoreVoxel(r)
    \/ HandoffGeochemist(r)
    \/ CheckpointStructural(r)
    \/ BeginAssessment(r)
    \/ AssessmentReturns(r)
    \/ StoreShippingAudit(r)
    \/ HandoffStructural(r)
    \/ CheckpointEconomic(r)
    \/ StoreVerdict(r)
    \/ PutFails(r)

-------------------------------------------------------------------------
(* The process and the machine under it. *)

\* Everything in memory is gone: evaluations under way and the metrics.
Restart ==
    /\ crashes < MaxCrashes
    /\ crashes' = crashes + 1
    /\ stage' = [r \in Runs |-> IF stage[r] \in Ongoing THEN "crashed" ELSE stage[r]]
    /\ agent' = [r \in Runs |-> [a \in AgentIds |->
           IF Working(r, a) THEN "killed" ELSE agent[r][a]]]
    /\ gauge' = [a \in AgentIds |-> 0]
    /\ violations' = 0
    /\ UNCHANGED <<input, voxel>>

\* The log lives in the operating system's page cache.
ProcessCrash ==
    /\ Restart
    /\ UNCHANGED <<wal, durable, struck>>

\* Recovery replays the prefix that had reached the disk, and makes it durable.
PowerLoss ==
    /\ Restart
    /\ \E n \in durable..Len(wal) :
           /\ wal' = SubSeq(wal, 1, n)
           /\ durable' = n
    /\ struck' = struck \cup {r \in Runs : stage[r] = "returned"}

Finished ==
    /\ \A r \in Runs : stage[r] \in EndStages
    /\ \A r \in Runs, a \in AgentIds : ~Working(r, a)
    /\ UNCHANGED vars

Next ==
    \/ \E r \in Runs : Start(r) \/ RefuseInsideLoop(r) \/ Advance(r)
    \/ ProcessCrash
    \/ PowerLoss
    \/ Finished

Spec == Init /\ [][Next]_vars

\* A thread or coroutine that can take a step is eventually scheduled.
FairSpec == Spec /\ \A r \in Runs : WF_vars(Advance(r))

-------------------------------------------------------------------------
(* Properties. *)

\* Every variable has its type.
TypeOK ==
    /\ input \in [Runs -> Deposits]
    /\ stage \in [Runs -> Stages]
    /\ agent \in [Runs -> [AgentIds -> AgentStates]]
    /\ voxel \in [Runs -> Nat]
    /\ \A r \in Runs : voxel[r] <= Len(input[r].voxels)
    /\ wal \in Seq(Record)
    /\ durable \in 0..Len(wal)
    /\ gauge \in [AgentIds -> Nat]
    /\ violations \in Nat
    /\ crashes \in 0..MaxCrashes
    /\ struck \subseteq Runs

\* What a verdict rests on: the three hypotheses, both handoffs, every voxel
\* of the request and, when a corridor was given, its audit.
Evidence(d) ==
    ({"hypothesis"} \X AgentIds)
        \cup ({"handoff"} \X {Geochemist, StructuralGeologist})
        \cup {<<"voxel", d.voxels[k]>> : k \in DOMAIN d.voxels}
        \cup ({"shipping_audit"} \X ({d.figures.corridor} \ {"not_requested"}))

\* What became of record j: its key still reads as it, or as a later record
\* of another evaluation, never as another record of its own.
Stands(j) ==
    \/ Readable(j)
    \/ \E k \in DOMAIN wal :
           /\ Readable(k)
           /\ SameKey(wal[j], wal[k])
           /\ k > j
           /\ wal[k].run # wal[j].run

\* A verdict is never found in the store - between the steps of other
\* evaluations, after a killed process, after a power loss that dropped the end
\* of the log - without all the evidence of its own evaluation: each piece
\* reads under its key, unless an evaluation that shares the key has since
\* replaced it, as two requests for one deposit do.
VerdictHasEvidence ==
    \A i \in DOMAIN wal : wal[i].kind = "verdict" =>
        \A e \in Evidence(input[wal[i].run]) :
            \E j \in DOMAIN wal :
                /\ wal[j].run = wal[i].run /\ wal[j].kind = e[1] /\ wal[j].ref = e[2]
                /\ Stands(j)

Upstream(a) == IF a = EconomicAssessor THEN StructuralGeologist ELSE Geochemist

\* The anti-amplification gate: a downstream agent's hypothesis reaches the
\* store only after a stored handoff of the same evaluation from the agent
\* upstream, at or over the threshold, however evaluations interleave and fail.
NoAmplification ==
    \A i \in DOMAIN wal :
        wal[i].kind = "hypothesis" /\ wal[i].ref # Geochemist =>
            \E j \in 1..(i - 1) :
                /\ wal[j].run = wal[i].run
                /\ wal[j].kind = "handoff"
                /\ wal[j].ref = Upstream(wal[i].ref)
                /\ wal[j].confidence >= MinimumConfidence

\* An evaluation that returned its verdict to a caller finds it under
\* {task}:verdict, or there the later verdict of another evaluation of the task,
\* unless the machine lost power after the answer: killing the process loses
\* nothing acknowledged.  One that raised has left no verdict.
AcknowledgedVerdictStored ==
    \A r \in Runs :
        /\ stage[r] = "returned" /\ r \notin struck =>
               \E j \in DOMAIN wal :
                   /\ wal[j].run = r /\ wal[j].kind = "verdict"
                   /\ wal[j].ref = Verdict(input[r].figures)
                   /\ Stands(j)
        /\ stage[r] \in {"blocked", "unwinding", "failed"} =>
               \A j \in DOMAIN wal : wal[j].run = r => wal[j].kind # "verdict"

\* The evidence_refs of a stored handoff name a key that reads as the very
\* hypothesis the handoff was decided on.  It needs a task id of its own for
\* every evaluation, which the mesh's default gives and the API's does not.
EvidenceRefsCurrent ==
    \A i \in DOMAIN wal : wal[i].kind = "handoff" =>
        \E j \in 1..(i - 1) :
            /\ Readable(j)
            /\ SameKey(wal[j], [run |-> wal[i].run, kind |-> "hypothesis", ref |-> wal[i].ref,
                               confidence |-> wal[i].confidence])
            /\ wal[j].run = wal[i].run
            /\ wal[j].confidence = wal[i].confidence

Awaited(a) == {r \in Runs : agent[r][a] = "running"}

MetricCounts == \A a \in AgentIds : gauge[a] = Cardinality(Awaited(a))

ThreadsWaitedFor ==
    \A r \in Runs, a \in AgentIds : agent[r][a] = "orphaned" => stage[r] = "unwinding"

\* The active-agents metric counts the agents whose coroutine has not ended,
\* through exceptions, cancellations, late finishes and restarts.  A worker
\* thread it does not count runs only while asyncio.run waits for it: a caller
\* that has its exception has no thread of the evaluation left uncounted.
ActiveAgentsBalanced == MetricCounts /\ ThreadsWaitedFor

\* Every evaluation that starts ends: it returns, is blocked, fails or dies.
EveryEvaluationEnds ==
    \A r \in Runs : stage[r] \in Ongoing ~> stage[r] \in EndStages

\* The metric returns to zero for good and no worker thread is left, even when
\* the gather of an evaluation in a caller's loop fails and leaves the other
\* agent running.
AgentsDrain ==
    <>[](\A a \in AgentIds : gauge[a] = 0 /\ \A r \in Runs : ~Working(r, a))

-------------------------------------------------------------------------
(* What TypeOK needs to be inductive: the metric never goes below zero     *)
(* because it counts awaited agents, no agent runs before its evaluation,  *)
(* and a voxel is stored only while there is one left.                     *)

IdleAgents ==
    \A r \in Runs : stage[r] = "idle" => \A a \in AgentIds : agent[r][a] = "idle"

VoxelsCounted ==
    \A r \in Runs :
        /\ stage[r] \in {"idle", "gather", "checkpoint_geochemist"} => voxel[r] = 0
        /\ stage[r] = "voxels" => voxel[r] < Len(input[r].voxels)

TypeInv == TypeOK /\ IdleAgents /\ VoxelsCounted /\ ActiveAgentsBalanced

-------------------------------------------------------------------------
(* The inductive invariant behind VerdictHasEvidence and NoAmplification:  *)
(* the same list of what must be stored describes a live evaluation at its *)
(* stage, over the whole log, and a stored record, over the log before it. *)

BeyondGeochemist == LiveStages \ {"gather", "checkpoint_geochemist"}
BeyondVoxels == BeyondGeochemist \ {"voxels"}
BeyondHandoff == BeyondVoxels \ {"handoff_geochemist"}
BeyondStructural == BeyondHandoff \ {"checkpoint_structural"}
BeyondAudit == BeyondStructural \ {"assess", "audit"}
BeyondSecondHandoff == BeyondAudit \ {"handoff_structural"}
BeyondEconomic == BeyondSecondHandoff \ {"checkpoint_economic"}

VoxelsWritten(log, r, d, count, n) ==
    \A k \in 1..count : Written(log, r, "voxel", d.voxels[k], n)

HandoffWritten(log, r, a, n) ==
    \E j \in 1..n : /\ log[j].run = r
                   /\ log[j].kind = "handoff"
                   /\ log[j].ref = a
                   /\ log[j].confidence >= MinimumConfidence

AuditWritten(log, r, d, n) ==
    d.figures.corridor # "not_requested" => Written(log, r, "shipping_audit", d.figures.corridor, n)

\* What run r, with request d, has among the first n records at stage s.
Backed(log, r, d, s, n) ==
    /\ s \in BeyondGeochemist => Written(log, r, "hypothesis", Geochemist, n)
    /\ s \in BeyondVoxels => VoxelsWritten(log, r, d, Len(d.voxels), n)
    /\ s \in BeyondHandoff => HandoffWritten(log, r, Geochemist, n)
    /\ s \in BeyondStructural => Written(log, r, "hypothesis", StructuralGeologist, n)
    /\ s \in BeyondAudit => AuditWritten(log, r, d, n)
    /\ s \in BeyondSecondHandoff => HandoffWritten(log, r, StructuralGeologist, n)
    /\ s \in BeyondEconomic => Written(log, r, "hypothesis", EconomicAssessor, n)

\* The stage that writes a verdict or a hypothesis.
WriterOf(record) ==
    IF record.kind = "verdict" THEN "verdict"
    ELSE CASE record.ref = EconomicAssessor    -> "checkpoint_economic"
           [] record.ref = StructuralGeologist -> "checkpoint_structural"
           [] OTHER                            -> "checkpoint_geochemist"

RunsBacked ==
    \A r \in Runs : stage[r] \in LiveStages =>
        /\ Backed(wal, r, input[r], stage[r], Len(wal))
        /\ stage[r] = "voxels" => VoxelsWritten(wal, r, input[r], voxel[r], Len(wal))

RecordsBacked ==
    \A i \in DOMAIN wal :
        wal[i].kind \in {"hypothesis", "verdict"} =>
            Backed(wal, wal[i].run, input[wal[i].run], WriterOf(wal[i]), i - 1)

\* A hypothesis is an agent's: no voxel or verdict is stored under its kind.
HypothesesByAgents ==
    \A i \in DOMAIN wal : wal[i].kind = "hypothesis" => wal[i].ref \in AgentIds

\* VerdictHasEvidence and NoAmplification are not inductive by themselves:
\* they say nothing of a run that is about to write.  This conjunction is, and
\* it says of every live run what its next record will rest on.
EvidenceInv == RunsBacked /\ RecordsBacked /\ HypothesesByAgents


-------------------------------------------------------------------------
(* The inductive invariant behind EvidenceRefsCurrent: a run decides on    *)
(* the confidence of its request, puts each hypothesis once, and puts it   *)
(* before the handoff that refers to it.                                   *)

\* The stages of a run that has not put the hypothesis of agent a.
Before(a) ==
    {"idle", "gather", "checkpoint_geochemist"}
        \cup (IF a = Geochemist THEN {}
              ELSE {"voxels", "handoff_geochemist", "checkpoint_structural"})
        \cup (IF a # EconomicAssessor THEN {}
              ELSE {"assess", "audit", "handoff_structural", "checkpoint_economic"})

HypothesesOnce ==
    /\ \A r \in Runs, a \in AgentIds :
           stage[r] \in Before(a) => ~Written(wal, r, "hypothesis", a, Len(wal))
    /\ \A i, j \in DOMAIN wal :
           /\ wal[i].kind = "hypothesis" /\ wal[j].kind = "hypothesis"
           /\ wal[i].run = wal[j].run /\ wal[i].ref = wal[j].ref
           => i = j

ConfidencesDecided ==
    \A i \in DOMAIN wal : wal[i].kind \in {"hypothesis", "handoff"} =>
        wal[i].confidence = ConfidenceOf(wal[i].run, wal[i].ref)

HandoffsRefer ==
    \A i \in DOMAIN wal : wal[i].kind = "handoff" =>
        Written(wal, wal[i].run, "hypothesis", wal[i].ref, i - 1)

RefsInv == HypothesesOnce /\ ConfidencesDecided /\ HandoffsRefer

-------------------------------------------------------------------------
(* The inductive invariant behind AcknowledgedVerdictStored: the verdict   *)
(* is the last put of an evaluation, which then returns.                   *)

VerdictsReturned ==
    \A j \in DOMAIN wal : wal[j].kind = "verdict" =>
        /\ stage[wal[j].run] = "returned"
        /\ wal[j].ref = Verdict(input[wal[j].run].figures)

ReturnedRecorded ==
    \A r \in Runs : stage[r] = "returned" /\ r \notin struck =>
        Written(wal, r, "verdict", Verdict(input[r].figures), Len(wal))

VerdictInv == VerdictsReturned /\ ReturnedRecorded
=========================================================================
