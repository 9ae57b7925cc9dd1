---------------------- MODULE ReasoningMeshProofs ----------------------
(***************************************************************************)
(* Proofs about ReasoningMesh, for any number of evaluations, tasks,       *)
(* requests, crashes and any threshold.                                    *)
(***************************************************************************)
EXTENDS ReasoningMesh, FiniteSetTheorems, SequenceTheorems, WellFoundedInduction, TLAPS

\* Every confidence an agent computes is between 0 and 1, as pydantic demands.
LEMMA ConfidenceType ==
    ASSUME NEW d \in DepositFigures, NEW a \in AgentIds
    PROVE  Confidence(a, d) \in Percent
<1> USE DEF AgentIds, Geochemist, StructuralGeologist, EconomicAssessor
<1>1. GeochemistConfidence(d) \in Percent
  BY DEF GeochemistConfidence, Percent, Least, DepositFigures
<1>2. StructuralConfidence(d) \in Percent
  BY DEF StructuralConfidence, Percent
<1>3. EconomicConfidence(d) \in Percent
  <2>1. ViabilityScore(d) \in Int
    <3>1. RawViability(d) \in Int
      BY DEF RawViability, Least, Clamp, DepositFigures
    <3>2. 400 - Clamp(d.supply_risk) \in Int
      BY DEF Least, Clamp, DepositFigures
    <3>. QED  BY <3>1, <3>2 DEF ViabilityScore
  <2>. DEFINE distance == IF Viable(d) THEN ViabilityScore(d) - HalfScore
                                       ELSE HalfScore - ViabilityScore(d)
  <2>2. distance \in Nat
    BY <2>1 DEF Viable, HalfScore
  <2>3. EconomicConfidence(d) = Least(100, 50 + distance \div 40000)
    BY DEF EconomicConfidence
  <2>. HIDE DEF distance
  <2>4. distance \div 40000 \in Nat
    BY <2>2
  <2>. QED  BY <2>3, <2>4 DEF Least, Percent
<1>. QED  BY <1>1, <1>2, <1>3 DEF Confidence

\* A request's figures, voxels and verdict have their types.
LEMMA RequestType ==
    ASSUME TypeOK, NEW r \in Runs
    PROVE  /\ input[r] \in Request
           /\ input[r].figures \in DepositFigures
           /\ input[r].voxels \in Seq(Voxels)
           /\ Verdict(input[r].figures) \in Verdicts
           /\ \A a \in AgentIds : ConfidenceOf(r, a) \in Percent
<1>1. input[r] \in Request
  BY DepositAssumption DEF TypeOK
<1>2. input[r].figures \in DepositFigures /\ input[r].voxels \in Seq(Voxels)
  BY <1>1 DEF Request
<1>3. Verdict(input[r].figures) \in Verdicts
  BY DEF Verdict, Verdicts
<1>. QED  BY <1>1, <1>2, <1>3, ConfidenceType DEF ConfidenceOf

\* A put lengthens the log by one record of the right type.
LEMMA PutType ==
    ASSUME TypeOK, NEW r \in Runs, NEW kind \in Kinds, NEW ref \in Refs, NEW c \in Percent,
           Put(r, kind, ref, c)
    PROVE  /\ wal' \in Seq(Record)
           /\ Len(wal') = Len(wal) + 1
           /\ durable \in 0..Len(wal')
<1>. DEFINE record == [run |-> r, kind |-> kind, ref |-> ref, confidence |-> c]
<1>1. record \in Record
  BY DEF Record
<1>2. wal' = Append(wal, record) /\ wal \in Seq(Record)
  BY DEF Put, TypeOK
<1>. HIDE DEF record
<1>3. wal' \in Seq(Record) /\ Len(wal') = Len(wal) + 1
  BY <1>1, <1>2
<1>4. Len(wal) \in Nat /\ durable \in 0..Len(wal)
  BY <1>2 DEF TypeOK
<1>. QED  BY <1>3, <1>4

\* Two sets of runs that differ at most in r have sizes that differ by r.
LEMMA CountChange ==
    ASSUME NEW r \in Runs, NEW S \in SUBSET Runs, NEW T \in SUBSET Runs,
           \A q \in Runs : q # r => (q \in S <=> q \in T)
    PROVE  /\ Cardinality(S) \in Nat
           /\ Cardinality(T) \in Nat
           /\ r \in S /\ r \notin T => Cardinality(T) = Cardinality(S) - 1
           /\ r \notin S /\ r \in T => Cardinality(T) = Cardinality(S) + 1
           /\ (r \in S <=> r \in T) => Cardinality(T) = Cardinality(S)
<1>1. IsFiniteSet(S) /\ IsFiniteSet(T)
  BY FS_Subset, RunsAssumption
<1>2. Cardinality(S) \in Nat /\ Cardinality(T) \in Nat
  BY <1>1, FS_CardinalityType
<1>3. ASSUME r \in S, r \notin T  PROVE Cardinality(T) = Cardinality(S) - 1
  <2>1. T = S \ {r}
    BY <1>3
  <2>. QED  BY <2>1, <1>1, <1>3, FS_RemoveElement
<1>4. ASSUME r \notin S, r \in T  PROVE Cardinality(T) = Cardinality(S) + 1
  <2>1. T = S \cup {r}
    BY <1>4
  <2>. QED  BY <2>1, <1>1, <1>4, FS_AddElement
<1>5. ASSUME r \in S <=> r \in T  PROVE Cardinality(T) = Cardinality(S)
  <2>1. T = S
    BY <1>5
  <2>. QED  BY <2>1
<1>. QED  BY <1>2, <1>3, <1>4, <1>5

-------------------------------------------------------------------------
(* The type invariant. *)

LEMMA AgentNames ==
    /\ Geochemist \in AgentIds /\ StructuralGeologist \in AgentIds /\ EconomicAssessor \in AgentIds
    /\ Geochemist # StructuralGeologist
    /\ Geochemist # EconomicAssessor
    /\ StructuralGeologist # EconomicAssessor
    /\ "hypothesis" \in Kinds /\ "voxel" \in Kinds /\ "handoff" \in Kinds
    /\ "shipping_audit" \in Kinds /\ "verdict" \in Kinds
    /\ AgentIds \subseteq Refs /\ Voxels \subseteq Refs /\ AuditOutcomes \subseteq Refs
    /\ Verdicts \subseteq Refs
    /\ 0 \in Percent
BY DEF AgentIds, Geochemist, StructuralGeologist, EconomicAssessor, Kinds, Refs, Percent

\* The put of every action has a type, so it keeps the log one.
LEMMA PutActionType ==
    ASSUME TypeOK, VoxelsCounted, NEW r \in Runs,
           \/ CheckpointGeochemist(r) \/ StoreVoxel(r) \/ CheckpointStructural(r)
           \/ StoreShippingAudit(r) \/ CheckpointEconomic(r) \/ StoreVerdict(r)
           \/ \E a \in AgentIds, s \in LiveStages : Deliver(r, a, s)
    PROVE  /\ wal' \in Seq(Record)
           /\ Len(wal') = Len(wal) + 1
           /\ durable \in 0..Len(wal')
<1>1. ASSUME NEW a \in AgentIds, NEW kind \in Kinds, Put(r, kind, a, ConfidenceOf(r, a))
      PROVE  wal' \in Seq(Record) /\ Len(wal') = Len(wal) + 1 /\ durable \in 0..Len(wal')
  <2>1. a \in Refs /\ ConfidenceOf(r, a) \in Percent
    BY AgentNames, RequestType
  <2>. QED  BY <1>1, <2>1, PutType
<1>2. CASE CheckpointGeochemist(r)
  BY <1>1, <1>2, AgentNames DEF CheckpointGeochemist, Checkpoint
<1>3. CASE StoreVoxel(r)
  <2>1. voxel[r] + 1 \in 1..Len(input[r].voxels)
    <3>1. voxel[r] \in Nat /\ voxel[r] < Len(input[r].voxels)
      BY <1>3 DEF StoreVoxel, VoxelsCounted, TypeOK
    <3>2. Len(input[r].voxels) \in Nat
      BY RequestType
    <3>. QED  BY <3>1, <3>2
  <2>2. input[r].voxels[voxel[r] + 1] \in Refs
    BY <2>1, RequestType, AgentNames, ElementOfSeq
  <2>. QED  BY <1>3, <2>2, PutType, AgentNames DEF StoreVoxel
<1>4. CASE CheckpointStructural(r)
  BY <1>1, <1>4, AgentNames DEF CheckpointStructural, Checkpoint
<1>5. CASE StoreShippingAudit(r)
  <2>1. input[r].figures.corridor \in Refs
    BY RequestType, AgentNames DEF DepositFigures
  <2>. QED  BY <1>5, <2>1, PutType, AgentNames DEF StoreShippingAudit
<1>6. CASE CheckpointEconomic(r)
  BY <1>1, <1>6, AgentNames DEF CheckpointEconomic, Checkpoint
<1>7. CASE StoreVerdict(r)
  <2>1. Verdict(input[r].figures) \in Refs /\ ConfidenceOf(r, EconomicAssessor) \in Percent
    BY RequestType, AgentNames
  <2>. QED  BY <1>7, <2>1, PutType, AgentNames DEF StoreVerdict
<1>8. CASE \E a \in AgentIds, s \in LiveStages : Deliver(r, a, s)
  BY <1>1, <1>8, AgentNames DEF Deliver
<1>. QED  BY <1>2, <1>3, <1>4, <1>5, <1>6, <1>7, <1>8

\* A step that changes the agents of one run, and moves each agent's metric by
\* what the run adds and takes away, keeps the metric equal to the count.
LEMMA GaugeChange ==
    ASSUME TypeOK, MetricCounts, NEW r \in Runs,
           agent' \in [Runs -> [AgentIds -> AgentStates]],
           \A q \in Runs : q # r => agent'[q] = agent[q],
           gauge' = [b \in AgentIds |-> gauge'[b]],
           \A b \in AgentIds :
               /\ agent[r][b] = "running" /\ agent'[r][b] # "running" => gauge'[b] = gauge[b] - 1
               /\ agent[r][b] # "running" /\ agent'[r][b] = "running" => gauge'[b] = gauge[b] + 1
               /\ (agent[r][b] = "running" <=> agent'[r][b] = "running") => gauge'[b] = gauge[b]
    PROVE  /\ gauge' \in [AgentIds -> Nat]
           /\ MetricCounts'
<1>1. ASSUME NEW b \in AgentIds
      PROVE  gauge'[b] \in Nat /\ gauge'[b] = Cardinality(Awaited(b)')
  <2>1. gauge[b] \in Nat /\ gauge[b] = Cardinality(Awaited(b))
    BY DEF TypeOK, MetricCounts
  <2>2. /\ Awaited(b) \in SUBSET Runs /\ Awaited(b)' \in SUBSET Runs
        /\ \A q \in Runs : q # r => (q \in Awaited(b) <=> q \in Awaited(b)')
        /\ r \in Awaited(b) <=> agent[r][b] = "running"
        /\ r \in Awaited(b)' <=> agent'[r][b] = "running"
    BY DEF Awaited
  <2>3. /\ Cardinality(Awaited(b)') \in Nat
        /\ r \in Awaited(b) /\ r \notin Awaited(b)' =>
               Cardinality(Awaited(b)') = Cardinality(Awaited(b)) - 1
        /\ r \notin Awaited(b) /\ r \in Awaited(b)' =>
               Cardinality(Awaited(b)') = Cardinality(Awaited(b)) + 1
        /\ (r \in Awaited(b) <=> r \in Awaited(b)') =>
               Cardinality(Awaited(b)') = Cardinality(Awaited(b))
    BY <2>2, CountChange
  <2>4. gauge'[b] = Cardinality(Awaited(b)')
    BY <2>1, <2>2, <2>3
  <2>. QED  BY <2>3, <2>4
<1>2. gauge' \in [AgentIds -> Nat]
  BY <1>1
<1>. QED  BY <1>1, <1>2 DEF MetricCounts

\* What one step does to agents and metric, whichever action it is.
LEMMA AgentStep ==
    ASSUME TypeInv, NEW r \in Runs,
           \/ Start(r) \/ BeginAssessment(r) \/ Unwind(r)
           \/ \E a \in AgentIds : AgentReturns(r, a) \/ AgentRaises(r, a) \/ ThreadEnds(r, a)
    PROVE  /\ agent' \in [Runs -> [AgentIds -> AgentStates]]
           /\ gauge' \in [AgentIds -> Nat]
           /\ MetricCounts'
           /\ \A q \in Runs : q # r => agent'[q] = agent[q]
<1>. USE DEF TypeInv, ActiveAgentsBalanced
<1>0. /\ agent \in [Runs -> [AgentIds -> AgentStates]]
      /\ gauge \in [AgentIds -> Nat]
      /\ {"idle", "running", "done", "raised", "orphaned", "cancelled"} \subseteq AgentStates
  BY DEF TypeOK, AgentStates
<1>1. CASE Start(r)
  <2>1. /\ agent' \in [Runs -> [AgentIds -> AgentStates]]
        /\ \A q \in Runs : q # r => agent'[q] = agent[q]
        /\ gauge' = [b \in AgentIds |-> gauge'[b]]
    BY <1>0, <1>1, AgentNames DEF Start
  <2>2. \A b \in AgentIds :
            /\ agent[r][b] = "idle"
            /\ b \in {Geochemist, StructuralGeologist} =>
                   agent'[r][b] = "running" /\ gauge'[b] = gauge[b] + 1
            /\ b \notin {Geochemist, StructuralGeologist} =>
                   agent'[r][b] = agent[r][b] /\ gauge'[b] = gauge[b]
    BY <1>0, <1>1, AgentNames DEF Start, IdleAgents
  <2>. QED  BY <2>1, <2>2, GaugeChange
<1>2. CASE BeginAssessment(r)
  <2>1. /\ agent' \in [Runs -> [AgentIds -> AgentStates]]
        /\ \A q \in Runs : q # r => agent'[q] = agent[q]
        /\ gauge' = [b \in AgentIds |-> gauge'[b]]
    BY <1>0, <1>2, AgentNames DEF BeginAssessment
  <2>2. \A b \in AgentIds :
            IF b = EconomicAssessor
            THEN agent[r][b] = "idle" /\ agent'[r][b] = "running" /\ gauge'[b] = gauge[b] + 1
            ELSE agent'[r][b] = agent[r][b] /\ gauge'[b] = gauge[b]
    BY <1>0, <1>2, AgentNames DEF BeginAssessment
  <2>. QED  BY <2>1, <2>2, GaugeChange
<1>3. CASE Unwind(r)
  <2>1. /\ agent' \in [Runs -> [AgentIds -> AgentStates]]
        /\ \A q \in Runs : q # r => agent'[q] = agent[q]
        /\ gauge' = [b \in AgentIds |-> gauge'[b]]
    BY <1>0, <1>3 DEF Unwind
  <2>2. \A b \in AgentIds :
            IF input[r].caller = "sync" /\ agent[r][b] = "running"
            THEN agent'[r][b] = "orphaned" /\ gauge'[b] = gauge[b] - 1
            ELSE agent'[r][b] = agent[r][b] /\ gauge'[b] = gauge[b]
    BY <1>0, <1>3 DEF Unwind
  <2>. QED  BY <2>1, <2>2, GaugeChange
<1>4. ASSUME NEW a \in AgentIds, NEW how \in {"done", "raised"}, Leave(r, a, how)
      PROVE  /\ agent' \in [Runs -> [AgentIds -> AgentStates]]
             /\ gauge' \in [AgentIds -> Nat]
             /\ MetricCounts'
             /\ \A q \in Runs : q # r => agent'[q] = agent[q]
  <2>1. /\ agent' \in [Runs -> [AgentIds -> AgentStates]]
        /\ \A q \in Runs : q # r => agent'[q] = agent[q]
        /\ gauge' = [b \in AgentIds |-> gauge'[b]]
    BY <1>0, <1>4 DEF Leave
  <2>2. \A b \in AgentIds :
            IF b = a
            THEN agent[r][b] = "running" /\ agent'[r][b] # "running" /\ gauge'[b] = gauge[b] - 1
            ELSE agent'[r][b] = agent[r][b] /\ gauge'[b] = gauge[b]
    BY <1>0, <1>4 DEF Leave
  <2>. QED  BY <2>1, <2>2, GaugeChange
<1>5. ASSUME NEW a \in AgentIds, AgentReturns(r, a) \/ AgentRaises(r, a)
      PROVE  /\ agent' \in [Runs -> [AgentIds -> AgentStates]]
             /\ gauge' \in [AgentIds -> Nat]
             /\ MetricCounts'
             /\ \A q \in Runs : q # r => agent'[q] = agent[q]
  BY <1>4, <1>5 DEF AgentReturns, AgentRaises
<1>6. ASSUME NEW a \in AgentIds, ThreadEnds(r, a)
      PROVE  /\ agent' \in [Runs -> [AgentIds -> AgentStates]]
             /\ gauge' \in [AgentIds -> Nat]
             /\ MetricCounts'
             /\ \A q \in Runs : q # r => agent'[q] = agent[q]
  <2>1. /\ agent' \in [Runs -> [AgentIds -> AgentStates]]
        /\ \A q \in Runs : q # r => agent'[q] = agent[q]
        /\ gauge' = gauge /\ gauge' = [b \in AgentIds |-> gauge'[b]]
    BY <1>0, <1>6 DEF ThreadEnds
  <2>2. \A b \in AgentIds : (agent[r][b] = "running" <=> agent'[r][b] = "running") /\ gauge'[b] = gauge[b]
    BY <1>0, <1>6, <2>1 DEF ThreadEnds
  <2>. QED  BY <2>1, <2>2, GaugeChange
<1>. QED  BY <1>1, <1>2, <1>3, <1>5, <1>6

\* No step of an agent leaves a thread nobody waits for: only asyncio.run
\* cancels, and it goes on to wait.
LEMMA ThreadStep ==
    ASSUME TypeInv, NEW r \in Runs,
           \/ Start(r) \/ BeginAssessment(r) \/ Unwind(r)
           \/ \E a \in AgentIds : AgentReturns(r, a) \/ AgentRaises(r, a) \/ ThreadEnds(r, a)
    PROVE  ThreadsWaitedFor'
<1>1. /\ agent \in [Runs -> [AgentIds -> AgentStates]] /\ stage \in [Runs -> Stages]
      /\ \A q \in Runs, b \in AgentIds : agent[q][b] = "orphaned" => stage[q] = "unwinding"
  BY DEF TypeInv, TypeOK, ActiveAgentsBalanced, ThreadsWaitedFor
<1>2. ASSUME NEW q \in Runs, NEW b \in AgentIds, agent'[q][b] = "orphaned"
      PROVE  stage'[q] = "unwinding"
  <2>1. CASE Start(r)
    BY <1>1, <1>2, <2>1, AgentNames DEF Start, Enter, TypeInv, IdleAgents
  <2>2. CASE BeginAssessment(r)
    BY <1>1, <1>2, <2>2 DEF BeginAssessment
  <2>3. CASE Unwind(r)
    BY <1>1, <1>2, <2>3 DEF Unwind, Enter
  <2>4. ASSUME NEW a \in AgentIds, AgentReturns(r, a) \/ AgentRaises(r, a) \/ ThreadEnds(r, a)
        PROVE  stage'[q] = "unwinding"
    BY <1>1, <1>2, <2>4 DEF AgentReturns, AgentRaises, ThreadEnds, Leave
  <2>. QED  BY <2>1, <2>2, <2>3, <2>4
<1>. QED  BY <1>2 DEF ThreadsWaitedFor

\* Stopping the process stops every agent and resets the metric.
LEMMA RestartBalanced ==
    ASSUME TypeOK, Restart
    PROVE  /\ agent' \in [Runs -> [AgentIds -> AgentStates]]
           /\ gauge' \in [AgentIds -> Nat]
           /\ ActiveAgentsBalanced'
<1>1. agent' \in [Runs -> [AgentIds -> AgentStates]]
  BY DEF Restart, Working, TypeOK, AgentStates
<1>2. \A a \in AgentIds : Awaited(a)' = {} /\ gauge'[a] = 0
  BY DEF Restart, Working, Awaited, TypeOK
<1>3. gauge' \in [AgentIds -> Nat]
  BY DEF Restart
<1>4. ThreadsWaitedFor'
  BY DEF Restart, Working, ThreadsWaitedFor, TypeOK
<1>. QED  BY <1>1, <1>2, <1>3, <1>4, FS_EmptySet DEF ActiveAgentsBalanced, MetricCounts

\* Every step of a run other than those of its agents leaves agents and metric.
LEMMA AgentsUnchanged ==
    ASSUME TypeInv, NEW r \in Runs, UNCHANGED <<agent, gauge>>,
           \A a \in AgentIds : agent[r][a] # "orphaned",
           \A q \in Runs : q # r => stage'[q] = stage[q]
    PROVE  /\ agent' \in [Runs -> [AgentIds -> AgentStates]]
           /\ gauge' \in [AgentIds -> Nat]
           /\ ActiveAgentsBalanced'
<1>1. MetricCounts'
  BY DEF TypeInv, ActiveAgentsBalanced, MetricCounts, Awaited
<1>2. ThreadsWaitedFor'
  BY DEF TypeInv, ActiveAgentsBalanced, ThreadsWaitedFor
<1>. QED  BY <1>1, <1>2 DEF TypeInv, TypeOK, ActiveAgentsBalanced

\* The actions of one run, by what they change: its agents, the log, or only
\* its stage.
AgentAction(r) ==
    \/ Start(r) \/ BeginAssessment(r) \/ Unwind(r)
    \/ \E a \in AgentIds : AgentReturns(r, a) \/ AgentRaises(r, a) \/ ThreadEnds(r, a)

PutAction(r) ==
    \/ CheckpointGeochemist(r) \/ StoreVoxel(r) \/ CheckpointStructural(r)
    \/ StoreShippingAudit(r) \/ CheckpointEconomic(r) \/ StoreVerdict(r)
    \/ HandoffGeochemist(r) /\ Deliver(r, Geochemist, "checkpoint_structural")
    \/ HandoffStructural(r) /\ Deliver(r, StructuralGeologist, "checkpoint_economic")

StageAction(r) ==
    \/ RefuseInsideLoop(r) \/ GatherReturns(r) \/ AssessmentReturns(r) \/ PutFails(r)
    \/ ThreadsJoined(r)
    \/ HandoffGeochemist(r) /\ Block(r, Geochemist)
    \/ HandoffStructural(r) /\ Block(r, StructuralGeologist)

LEMMA NextCases ==
    ASSUME Next
    PROVE  \/ \E r \in Runs : AgentAction(r) \/ PutAction(r) \/ StageAction(r)
           \/ ProcessCrash
           \/ PowerLoss
           \/ UNCHANGED vars
BY DEF Next, Advance, Finished, AgentAction, PutAction, StageAction, HandoffGeochemist,
       HandoffStructural

\* What a put changes besides the log.
LEMMA PutFrame ==
    ASSUME TypeInv, NEW r \in Runs, PutAction(r)
    PROVE  /\ UNCHANGED <<input, agent, durable, gauge, violations, crashes, struck>>
           /\ stage[r] \in LiveStages
           /\ stage' \in [Runs -> Stages]
           /\ \A q \in Runs : q # r => stage'[q] = stage[q] /\ voxel'[q] = voxel[q]
           /\ voxel' \in [Runs -> Nat]
           /\ voxel'[r] <= Len(input[r].voxels)
           /\ stage'[r] \notin {"idle", "gather", "checkpoint_geochemist"}
           /\ stage'[r] = "voxels" => voxel'[r] < Len(input[r].voxels)
<1>1. /\ stage \in [Runs -> Stages] /\ voxel \in [Runs -> Nat]
      /\ voxel[r] <= Len(input[r].voxels)
      /\ stage[r] = "voxels" => voxel[r] < Len(input[r].voxels)
      /\ stage[r] = "checkpoint_geochemist" => voxel[r] = 0
  BY DEF TypeInv, TypeOK, VoxelsCounted
<1>2. Len(input[r].voxels) \in Nat /\ (input[r].voxels # <<>> => Len(input[r].voxels) > 0)
  BY RequestType, EmptySeq DEF TypeInv
<1>3. CASE CheckpointGeochemist(r)
  BY <1>1, <1>2, <1>3 DEF CheckpointGeochemist, Checkpoint, Enter, Stages, LiveStages
<1>4. CASE StoreVoxel(r)
  BY <1>1, <1>2, <1>4 DEF StoreVoxel, Enter, Stages, LiveStages
<1>5. CASE CheckpointStructural(r) \/ CheckpointEconomic(r)
  BY <1>1, <1>5 DEF CheckpointStructural, CheckpointEconomic, Checkpoint, Enter, Stages, LiveStages
<1>6. CASE StoreShippingAudit(r) \/ StoreVerdict(r)
  BY <1>1, <1>6 DEF StoreShippingAudit, StoreVerdict, Enter, Stages, LiveStages, EndStages
<1>7. CASE \/ HandoffGeochemist(r) /\ Deliver(r, Geochemist, "checkpoint_structural")
           \/ HandoffStructural(r) /\ Deliver(r, StructuralGeologist, "checkpoint_economic")
  BY <1>1, <1>7 DEF HandoffGeochemist, HandoffStructural, Deliver, Enter, Stages, LiveStages
<1>. QED  BY <1>3, <1>4, <1>5, <1>6, <1>7 DEF PutAction

LEMMA InitTypeInv == Init => TypeInv
<1>. SUFFICES ASSUME Init  PROVE TypeInv
  OBVIOUS
<1>1. \A r \in Runs : input[r] \in Request /\ Len(input[r].voxels) \in Nat
  BY DepositAssumption DEF Init, Request
<1>2. wal \in Seq(Record) /\ Len(wal) = 0
  BY EmptySeq DEF Init
<1>3. TypeOK
  <2>1. /\ input \in [Runs -> Deposits]
        /\ stage \in [Runs -> Stages]
        /\ agent \in [Runs -> [AgentIds -> AgentStates]]
        /\ gauge \in [AgentIds -> Nat]
    BY DEF Init, Stages, AgentStates
  <2>2. voxel \in [Runs -> Nat] /\ \A r \in Runs : voxel[r] = 0
    BY DEF Init
  <2>3. \A r \in Runs : voxel[r] <= Len(input[r].voxels)
    BY <1>1, <2>2
  <2>4. /\ durable = 0 /\ violations = 0 /\ crashes = 0
    BY DEF Init
  <2>5. struck \subseteq Runs
    BY DEF Init
  <2>6. durable \in 0..Len(wal) /\ violations \in Nat /\ crashes \in 0..MaxCrashes
    BY <1>2, <2>4, CrashAssumption
  <2>. QED  BY <1>2, <2>1, <2>2, <2>3, <2>5, <2>6 DEF TypeOK
<1>4. IdleAgents /\ VoxelsCounted
  BY DEF Init, IdleAgents, VoxelsCounted
<1>5. \A a \in AgentIds : Awaited(a) = {}
  BY DEF Init, Awaited
<1>6. ActiveAgentsBalanced
  BY <1>5, FS_EmptySet DEF Init, ActiveAgentsBalanced, MetricCounts, ThreadsWaitedFor
<1>. QED  BY <1>3, <1>4, <1>6 DEF TypeInv

LEMMA NextTypeInv == TypeInv /\ [Next]_vars => TypeInv'
<1>. SUFFICES ASSUME TypeInv, [Next]_vars  PROVE TypeInv'
  OBVIOUS
<1>1. CASE UNCHANGED vars
  <2>1. TypeOK' /\ IdleAgents' /\ VoxelsCounted'
    BY <1>1 DEF vars, TypeInv, TypeOK, IdleAgents, VoxelsCounted
  <2>2. ActiveAgentsBalanced'
    BY <1>1 DEF vars, TypeInv, ActiveAgentsBalanced, MetricCounts, ThreadsWaitedFor, Awaited
  <2>. QED  BY <2>1, <2>2 DEF TypeInv
<1>2. ASSUME NEW r \in Runs, AgentAction(r)  PROVE TypeInv'
  <2>1. /\ agent' \in [Runs -> [AgentIds -> AgentStates]]
        /\ gauge' \in [AgentIds -> Nat]
        /\ ActiveAgentsBalanced'
        /\ \A q \in Runs : q # r => agent'[q] = agent[q]
    BY <1>2, AgentStep, ThreadStep DEF AgentAction, ActiveAgentsBalanced
  <2>2. /\ UNCHANGED <<input, voxel, wal, durable, violations, crashes, struck>>
        /\ stage' \in [Runs -> Stages]
        /\ \A q \in Runs : q # r => stage'[q] = stage[q]
        /\ stage'[r] # stage[r] => stage'[r] \in {"gather", "unwinding", "failed"}
        /\ stage'[r] # stage[r] => stage'[r] \in {"unwinding", "failed"} \/ stage[r] = "idle"
        /\ stage[r] = "idle" => stage'[r] = "gather" \/ agent'[r] = agent[r]
    BY <1>2 DEF AgentAction, Start, BeginAssessment, Unwind, AgentReturns, AgentRaises, ThreadEnds, Leave, Enter,
                TypeInv, TypeOK, Stages, LiveStages, EndStages, IdleAgents
  <2>3. TypeOK'
    BY <2>1, <2>2 DEF TypeInv, TypeOK
  <2>4. IdleAgents'
    <3>1. \A q \in Runs : stage'[q] = "idle" => stage[q] = "idle" /\ agent'[q] = agent[q]
      BY <2>1, <2>2
    <3>. QED  BY <3>1 DEF TypeInv, IdleAgents
  <2>5. VoxelsCounted'
    BY <2>2 DEF TypeInv, VoxelsCounted
  <2>. QED  BY <2>1, <2>3, <2>4, <2>5 DEF TypeInv
<1>3. ASSUME NEW r \in Runs, PutAction(r)  PROVE TypeInv'
  <2>1. /\ wal' \in Seq(Record)
        /\ durable \in 0..Len(wal')
    BY <1>3, PutActionType, AgentNames DEF TypeInv, PutAction, LiveStages
  <2>2. /\ agent' \in [Runs -> [AgentIds -> AgentStates]]
        /\ gauge' \in [AgentIds -> Nat]
        /\ ActiveAgentsBalanced'
    <3>1. \A a \in AgentIds : agent[r][a] # "orphaned"
      BY <1>3, PutFrame DEF TypeInv, ActiveAgentsBalanced, ThreadsWaitedFor, LiveStages
    <3>. QED  BY <1>3, <3>1, PutFrame, AgentsUnchanged
  <2>3. TypeOK'
    BY <1>3, <2>1, <2>2, PutFrame DEF TypeInv, TypeOK
  <2>4. IdleAgents' /\ VoxelsCounted'
    BY <1>3, PutFrame DEF TypeInv, IdleAgents, VoxelsCounted
  <2>. QED  BY <2>2, <2>3, <2>4 DEF TypeInv
<1>4. ASSUME NEW r \in Runs, StageAction(r)  PROVE TypeInv'
  <2>1. /\ UNCHANGED <<input, agent, voxel, wal, durable, gauge, crashes, struck>>
        /\ violations' \in Nat
        /\ stage' \in [Runs -> Stages]
        /\ \A q \in Runs : q # r => stage'[q] = stage[q]
        /\ stage'[r] \notin {"idle", "gather", "voxels"}
        /\ stage'[r] = "checkpoint_geochemist" => stage[r] = "gather"
    <3>1. stage \in [Runs -> Stages] /\ violations \in Nat
      BY DEF TypeInv, TypeOK
    <3>2. PICK s \in {"checkpoint_geochemist", "handoff_structural", "audit", "failed", "blocked"} :
              /\ Enter(r, s)
              /\ s = "checkpoint_geochemist" => stage[r] = "gather"
              /\ UNCHANGED <<input, agent, voxel, wal, durable, gauge, crashes, struck>>
              /\ violations' = violations \/ violations' = violations + 1
      BY <1>4 DEF StageAction, RefuseInsideLoop, GatherReturns, AssessmentReturns, PutFails, ThreadsJoined, Block
    <3>3. s \in Stages
      BY DEF Stages, LiveStages, EndStages
    <3>. QED  BY <3>1, <3>2, <3>3 DEF Enter
  <2>2. ActiveAgentsBalanced'
    <3>1. \A a \in AgentIds : agent[r][a] = "orphaned" => stage[r] = "unwinding"
      BY DEF TypeInv, ActiveAgentsBalanced, ThreadsWaitedFor
    <3>2. stage[r] = "unwinding" => \A a \in AgentIds : agent[r][a] # "orphaned"
      BY <1>4 DEF StageAction, RefuseInsideLoop, GatherReturns, AssessmentReturns, PutFails, ThreadsJoined,
                  HandoffGeochemist, HandoffStructural, Working
    <3>. QED  BY <2>1, <3>1, <3>2, AgentsUnchanged
  <2>3. TypeOK'
    BY <2>1 DEF TypeInv, TypeOK
  <2>4. IdleAgents' /\ VoxelsCounted'
    BY <2>1 DEF TypeInv, IdleAgents, VoxelsCounted
  <2>. QED  BY <2>2, <2>3, <2>4 DEF TypeInv
<1>5. ASSUME Restart, wal' \in Seq(Record), durable' \in 0..Len(wal'), struck' \subseteq Runs
      PROVE  TypeInv'
  <2>1. /\ agent' \in [Runs -> [AgentIds -> AgentStates]]
        /\ gauge' \in [AgentIds -> Nat]
        /\ ActiveAgentsBalanced'
    BY <1>5, RestartBalanced DEF TypeInv
  <2>2. /\ UNCHANGED <<input, voxel>>
        /\ violations' \in Nat /\ crashes' \in 0..MaxCrashes
        /\ stage' \in [Runs -> Stages]
        /\ \A q \in Runs : stage'[q] \in LiveStages \cup {"idle"} => stage'[q] = stage[q]
        /\ \A q \in Runs : stage'[q] = "idle" => stage[q] = "idle"
        /\ \A q \in Runs, a \in AgentIds : agent[q][a] = "idle" => agent'[q][a] = "idle"
    BY <1>5, CrashAssumption DEF Restart, Working, Ongoing, TypeInv, TypeOK, Stages, LiveStages, EndStages
  <2>3. TypeOK'
    BY <1>5, <2>1, <2>2 DEF TypeInv, TypeOK
  <2>4. IdleAgents' /\ VoxelsCounted'
    BY <2>2 DEF TypeInv, IdleAgents, VoxelsCounted, LiveStages
  <2>. QED  BY <2>1, <2>3, <2>4 DEF TypeInv
<1>6. CASE ProcessCrash
  BY <1>5, <1>6 DEF ProcessCrash, TypeInv, TypeOK
<1>7. CASE PowerLoss
  <2>1. PICK n \in durable..Len(wal) : wal' = SubSeq(wal, 1, n) /\ durable' = n
    BY <1>7 DEF PowerLoss
  <2>2. wal \in Seq(Record) /\ durable \in Nat /\ Len(wal) \in Nat
    BY DEF TypeInv, TypeOK
  <2>3. n \in Nat /\ n <= Len(wal)
    BY <2>1, <2>2
  <2>4. wal' \in Seq(Record) /\ Len(wal') = n
    BY <2>1, <2>2, <2>3
  <2>5. struck' \subseteq Runs
    BY <1>7 DEF PowerLoss, TypeInv, TypeOK
  <2>. QED  BY <1>5, <1>7, <2>1, <2>3, <2>4, <2>5 DEF PowerLoss
<1>. QED  BY <1>1, <1>2, <1>3, <1>4, <1>6, <1>7, NextCases

\* TypeOK, with the metric never below zero, and the three facts it rests on.
THEOREM TypeInvariant == Spec => []TypeInv
BY InitTypeInv, NextTypeInv, PTL DEF Spec

\* The active-agents metric counts the awaited agents in every reachable state,
\* and a thread that outlives its coroutine has asyncio.run waiting for it.
THEOREM MetricCountsAgents == Spec => []ActiveAgentsBalanced
<1>1. TypeInv => ActiveAgentsBalanced
  BY DEF TypeInv
<1>. QED  BY <1>1, TypeInvariant, PTL

-------------------------------------------------------------------------
(* Evidence. *)

\* What was stored among the first n records of a log is still there in a log
\* that begins with the same n records.
LEMMA WrittenKept ==
    ASSUME NEW log, NEW longer, NEW n \in Nat, NEW m \in Nat, n <= m,
           \A j \in 1..n : longer[j] = log[j], NEW r, NEW d
    PROVE  /\ \A kind, ref : Written(log, r, kind, ref, n) => Written(longer, r, kind, ref, m)
           /\ \A a : HandoffWritten(log, r, a, n) => HandoffWritten(longer, r, a, m)
           /\ \A count : VoxelsWritten(log, r, d, count, n) => VoxelsWritten(longer, r, d, count, m)
           /\ AuditWritten(log, r, d, n) => AuditWritten(longer, r, d, m)
           /\ \A s : Backed(log, r, d, s, n) => Backed(longer, r, d, s, m)
<1>1. 1..n \subseteq 1..m
  OBVIOUS
<1>2. \A kind, ref : Written(log, r, kind, ref, n) => Written(longer, r, kind, ref, m)
  BY <1>1 DEF Written
<1>3. \A a : HandoffWritten(log, r, a, n) => HandoffWritten(longer, r, a, m)
  BY <1>1 DEF HandoffWritten
<1>4. \A count : VoxelsWritten(log, r, d, count, n) => VoxelsWritten(longer, r, d, count, m)
  BY <1>2 DEF VoxelsWritten
<1>5. AuditWritten(log, r, d, n) => AuditWritten(longer, r, d, m)
  BY <1>2 DEF AuditWritten
<1>6. \A s : Backed(log, r, d, s, n) => Backed(longer, r, d, s, m)
  BY <1>2, <1>3, <1>4, <1>5 DEF Backed
<1>. QED  BY <1>2, <1>3, <1>4, <1>5, <1>6

LEMMA BackedKept ==
    ASSUME NEW log, NEW longer, NEW n \in Nat, \A j \in 1..n : longer[j] = log[j],
           NEW r, NEW d, NEW s, Backed(log, r, d, s, n)
    PROVE  Backed(longer, r, d, s, n)
<1>1. n <= n
  OBVIOUS
<1>. QED  BY <1>1, WrittenKept

\* A put leaves the log before it as it was and adds its record at the end.
LEMMA PutAppends ==
    ASSUME TypeInv, NEW r, NEW kind, NEW ref, NEW c, Put(r, kind, ref, c), wal' \in Seq(Record)
    PROVE  /\ Len(wal) \in Nat
           /\ Len(wal') = Len(wal) + 1
           /\ \A j \in 1..Len(wal) : wal'[j] = wal[j]
           /\ wal'[Len(wal')] = [run |-> r, kind |-> kind, ref |-> ref, confidence |-> c]
<1>. DEFINE record == [run |-> r, kind |-> kind, ref |-> ref, confidence |-> c]
<1>1. wal' = Append(wal, record) /\ wal \in Seq(Record)
  BY DEF Put, TypeInv, TypeOK
<1>. HIDE DEF record
<1>2. Len(wal) \in Nat /\ Len(wal') = Len(wal) + 1
  BY <1>1
<1>3. \A j \in 1..Len(wal) : wal'[j] = wal[j]
  BY <1>1, <1>2
<1>4. wal'[Len(wal')] = record
  BY <1>1, <1>2
<1>. QED  BY <1>2, <1>3, <1>4 DEF record

\* The record a put adds is written, and all that was written still is.
LEMMA PutWrites ==
    ASSUME TypeInv, NEW r \in Runs, NEW kind, NEW ref, NEW c, Put(r, kind, ref, c), wal' \in Seq(Record)
    PROVE  /\ Written(wal', r, kind, ref, Len(wal'))
           /\ kind = "handoff" /\ c >= MinimumConfidence => HandoffWritten(wal', r, ref, Len(wal'))
           /\ \A q, d, count : VoxelsWritten(wal, q, d, count, Len(wal)) =>
                                  VoxelsWritten(wal', q, d, count, Len(wal'))
           /\ \A q, d, s : Backed(wal, q, d, s, Len(wal)) => Backed(wal', q, d, s, Len(wal'))
<1>1. /\ Len(wal) \in Nat /\ Len(wal') = Len(wal) + 1
      /\ \A j \in 1..Len(wal) : wal'[j] = wal[j]
      /\ wal'[Len(wal')] = [run |-> r, kind |-> kind, ref |-> ref, confidence |-> c]
  BY PutAppends
<1>2. Len(wal') \in Nat /\ Len(wal) <= Len(wal') /\ Len(wal') \in 1..Len(wal')
  BY <1>1
<1>3. Written(wal', r, kind, ref, Len(wal'))
  BY <1>1, <1>2 DEF Written
<1>4. kind = "handoff" /\ c >= MinimumConfidence => HandoffWritten(wal', r, ref, Len(wal'))
  BY <1>1, <1>2 DEF HandoffWritten
<1>. QED  BY <1>1, <1>2, <1>3, <1>4, WrittenKept

\* A record kept by a step keeps what it rests on.
LEMMA RecordKept ==
    ASSUME TypeInv, EvidenceInv, UNCHANGED input, NEW i \in 1..Len(wal),
           \A j \in 1..i : wal'[j] = wal[j], wal'[i].kind \in {"hypothesis", "verdict"}
    PROVE  Backed(wal', wal'[i].run, input'[wal'[i].run], WriterOf(wal'[i]), i - 1)
<1>1. wal \in Seq(Record) /\ DOMAIN wal = 1..Len(wal) /\ Len(wal) \in Nat
  BY DEF TypeInv, TypeOK
<1>2. i \in 1..i /\ i - 1 \in Nat /\ wal'[i] = wal[i] /\ \A j \in 1..(i - 1) : wal'[j] = wal[j]
  BY <1>1
<1>3. Backed(wal, wal[i].run, input[wal[i].run], WriterOf(wal[i]), i - 1)
  BY <1>1, <1>2 DEF EvidenceInv, RecordsBacked
<1>4. Backed(wal', wal[i].run, input[wal[i].run], WriterOf(wal[i]), i - 1)
  BY <1>2, <1>3, BackedKept
<1>. QED  BY <1>2, <1>4

\* A put keeps EvidenceInv when its record rests on what its run's stage says
\* and the run's next stage rests on the longer log.
LEMMA PutEvidence ==
    ASSUME TypeInv, EvidenceInv, NEW r \in Runs, NEW kind, NEW ref, NEW c, Put(r, kind, ref, c),
           wal' \in Seq(Record), UNCHANGED input, stage[r] \in LiveStages,
           \A q \in Runs : q # r => stage'[q] = stage[q] /\ voxel'[q] = voxel[q],
           kind \in {"hypothesis", "verdict"} =>
               stage[r] = WriterOf([run |-> r, kind |-> kind, ref |-> ref, confidence |-> c]),
           kind = "hypothesis" => ref \in AgentIds,
           stage'[r] \in LiveStages => Backed(wal', r, input[r], stage'[r], Len(wal')),
           stage'[r] = "voxels" => VoxelsWritten(wal', r, input[r], voxel'[r], Len(wal'))
    PROVE  EvidenceInv'
<1>1. /\ Len(wal) \in Nat /\ Len(wal') = Len(wal) + 1
      /\ \A j \in 1..Len(wal) : wal'[j] = wal[j]
      /\ wal'[Len(wal')] = [run |-> r, kind |-> kind, ref |-> ref, confidence |-> c]
  BY PutAppends
<1>2. DOMAIN wal = 1..Len(wal) /\ DOMAIN wal' = 1..Len(wal')
  BY DEF TypeInv, TypeOK
<1>3. RunsBacked'
  <2>. SUFFICES ASSUME NEW q \in Runs, stage'[q] \in LiveStages
                PROVE  /\ Backed(wal', q, input'[q], stage'[q], Len(wal'))
                       /\ stage'[q] = "voxels" => VoxelsWritten(wal', q, input'[q], voxel'[q], Len(wal'))
    BY DEF RunsBacked
  <2>1. CASE q = r
    BY <2>1
  <2>2. CASE q # r
    <3>1. /\ stage'[q] = stage[q] /\ voxel'[q] = voxel[q]
          /\ Backed(wal, q, input[q], stage[q], Len(wal))
          /\ stage[q] = "voxels" => VoxelsWritten(wal, q, input[q], voxel[q], Len(wal))
      BY <2>2 DEF EvidenceInv, RunsBacked
    <3>. QED  BY <3>1, PutWrites
  <2>. QED  BY <2>1, <2>2
<1>4. RecordsBacked'
  <2>. SUFFICES ASSUME NEW i \in DOMAIN wal', wal'[i].kind \in {"hypothesis", "verdict"}
                PROVE  Backed(wal', wal'[i].run, input'[wal'[i].run], WriterOf(wal'[i]), i - 1)
    BY DEF RecordsBacked
  <2>1. CASE i = Len(wal')
    <3>1. wal'[i].run = r /\ WriterOf(wal'[i]) = stage[r] /\ i - 1 = Len(wal)
      BY <2>1, <1>1
    <3>2. Backed(wal, r, input[r], stage[r], Len(wal))
      BY DEF EvidenceInv, RunsBacked
    <3>3. Backed(wal', r, input[r], stage[r], Len(wal))
      BY <3>2, <1>1, BackedKept
    <3>. QED  BY <3>1, <3>3
  <2>2. CASE i # Len(wal')
    <3>1. i \in 1..Len(wal) /\ \A j \in 1..i : wal'[j] = wal[j]
      BY <2>2, <1>1, <1>2
    <3>. QED  BY <3>1, RecordKept
  <2>. QED  BY <2>1, <2>2
<1>5. HypothesesByAgents'
  <2>. SUFFICES ASSUME NEW i \in DOMAIN wal', wal'[i].kind = "hypothesis"
                PROVE  wal'[i].ref \in AgentIds
    BY DEF HypothesesByAgents
  <2>1. CASE i = Len(wal')
    BY <2>1, <1>1
  <2>2. CASE i # Len(wal')
    <3>1. i \in DOMAIN wal /\ wal'[i] = wal[i]
      BY <2>2, <1>1, <1>2
    <3>. QED  BY <3>1 DEF EvidenceInv, HypothesesByAgents
  <2>. QED  BY <2>1, <2>2
<1>. QED  BY <1>3, <1>4, <1>5 DEF EvidenceInv

\* Each action that puts a record keeps EvidenceInv.
LEMMA PutActionEvidence ==
    ASSUME TypeInv, EvidenceInv, NEW r \in Runs, PutAction(r)
    PROVE  EvidenceInv'
<1>1. wal' \in Seq(Record)
  BY PutActionType, AgentNames DEF TypeInv, PutAction, LiveStages
<1>2. /\ UNCHANGED input /\ stage[r] \in LiveStages
      /\ \A q \in Runs : q # r => stage'[q] = stage[q] /\ voxel'[q] = voxel[q]
      /\ stage \in [Runs -> Stages] /\ voxel \in [Runs -> Nat]
  BY PutFrame DEF TypeInv, TypeOK
<1>3. /\ Backed(wal, r, input[r], stage[r], Len(wal))
      /\ stage[r] = "voxels" => VoxelsWritten(wal, r, input[r], voxel[r], Len(wal))
  BY <1>2 DEF EvidenceInv, RunsBacked
<1>. USE DEF LiveStages, BeyondGeochemist, BeyondVoxels, BeyondHandoff, BeyondStructural, BeyondAudit,
             BeyondSecondHandoff, BeyondEconomic
<1>4. CASE CheckpointGeochemist(r)
  <2>1. /\ stage[r] = "checkpoint_geochemist" /\ voxel'[r] = 0
        /\ Put(r, "hypothesis", Geochemist, ConfidenceOf(r, Geochemist))
        /\ stage'[r] = IF input[r].voxels = <<>> THEN "handoff_geochemist" ELSE "voxels"
    BY <1>2, <1>4 DEF CheckpointGeochemist, Checkpoint, Enter, TypeInv, VoxelsCounted
  <2>2. Written(wal', r, "hypothesis", Geochemist, Len(wal'))
    BY <1>1, <2>1, PutWrites
  <2>3. VoxelsWritten(wal', r, input[r], 0, Len(wal'))
    BY DEF VoxelsWritten
  <2>4. stage'[r] = "handoff_geochemist" => Len(input[r].voxels) = 0
    BY <2>1
  <2>5. Backed(wal', r, input[r], stage'[r], Len(wal'))
    BY <2>1, <2>2, <2>3, <2>4 DEF Backed
  <2>. QED  BY <1>1, <1>2, <2>1, <2>3, <2>5, AgentNames, PutEvidence DEF WriterOf
<1>5. CASE StoreVoxel(r)
  <2>. DEFINE code == input[r].voxels[voxel[r] + 1]
  <2>1. /\ stage[r] = "voxels" /\ voxel'[r] = voxel[r] + 1
        /\ Put(r, "voxel", code, 0)
        /\ stage'[r] = IF voxel[r] + 1 = Len(input[r].voxels) THEN "handoff_geochemist" ELSE "voxels"
    BY <1>2, <1>5 DEF StoreVoxel, Enter
  <2>2. /\ Written(wal', r, "voxel", code, Len(wal'))
        /\ VoxelsWritten(wal', r, input[r], voxel[r], Len(wal'))
        /\ Backed(wal', r, input[r], "voxels", Len(wal'))
    BY <1>1, <1>3, <2>1, PutWrites
  <2>3. \A k \in 1..(voxel[r] + 1) : k \in 1..voxel[r] \/ k = voxel[r] + 1
    BY <1>2
  <2>4. VoxelsWritten(wal', r, input[r], voxel[r] + 1, Len(wal'))
    BY <2>2, <2>3 DEF VoxelsWritten
  <2>5. Backed(wal', r, input[r], stage'[r], Len(wal'))
    BY <2>1, <2>2, <2>4 DEF Backed
  <2>. QED  BY <1>1, <1>2, <2>1, <2>4, <2>5, PutEvidence
<1>6. CASE HandoffGeochemist(r) /\ Deliver(r, Geochemist, "checkpoint_structural")
  <2>1. /\ stage[r] = "handoff_geochemist" /\ stage'[r] = "checkpoint_structural"
        /\ Put(r, "handoff", Geochemist, ConfidenceOf(r, Geochemist))
        /\ ConfidenceOf(r, Geochemist) >= MinimumConfidence
    BY <1>2, <1>6 DEF HandoffGeochemist, Deliver, Enter, EvaluateHandoff
  <2>2. /\ HandoffWritten(wal', r, Geochemist, Len(wal'))
        /\ Backed(wal', r, input[r], "handoff_geochemist", Len(wal'))
    BY <1>1, <1>3, <2>1, PutWrites
  <2>3. Backed(wal', r, input[r], stage'[r], Len(wal'))
    BY <2>1, <2>2 DEF Backed
  <2>. QED  BY <1>1, <1>2, <2>1, <2>3, PutEvidence
<1>7. CASE CheckpointStructural(r)
  <2>1. /\ stage[r] = "checkpoint_structural" /\ stage'[r] = "assess"
        /\ Put(r, "hypothesis", StructuralGeologist, ConfidenceOf(r, StructuralGeologist))
    BY <1>2, <1>7 DEF CheckpointStructural, Checkpoint, Enter
  <2>2. /\ Written(wal', r, "hypothesis", StructuralGeologist, Len(wal'))
        /\ Backed(wal', r, input[r], "checkpoint_structural", Len(wal'))
    BY <1>1, <1>3, <2>1, PutWrites
  <2>3. Backed(wal', r, input[r], stage'[r], Len(wal'))
    BY <2>1, <2>2 DEF Backed
  <2>. QED  BY <1>1, <1>2, <2>1, <2>3, AgentNames, PutEvidence DEF WriterOf
<1>8. CASE StoreShippingAudit(r)
  <2>1. /\ stage[r] = "audit" /\ stage'[r] = "handoff_structural"
        /\ Put(r, "shipping_audit", input[r].figures.corridor, 0)
    BY <1>2, <1>8 DEF StoreShippingAudit, Enter
  <2>2. /\ Written(wal', r, "shipping_audit", input[r].figures.corridor, Len(wal'))
        /\ Backed(wal', r, input[r], "audit", Len(wal'))
    BY <1>1, <1>3, <2>1, PutWrites
  <2>3. Backed(wal', r, input[r], stage'[r], Len(wal'))
    BY <2>1, <2>2 DEF Backed, AuditWritten
  <2>. QED  BY <1>1, <1>2, <2>1, <2>3, PutEvidence
<1>9. CASE HandoffStructural(r) /\ Deliver(r, StructuralGeologist, "checkpoint_economic")
  <2>1. /\ stage[r] = "handoff_structural" /\ stage'[r] = "checkpoint_economic"
        /\ Put(r, "handoff", StructuralGeologist, ConfidenceOf(r, StructuralGeologist))
        /\ ConfidenceOf(r, StructuralGeologist) >= MinimumConfidence
    BY <1>2, <1>9 DEF HandoffStructural, Deliver, Enter, EvaluateHandoff
  <2>2. /\ HandoffWritten(wal', r, StructuralGeologist, Len(wal'))
        /\ Backed(wal', r, input[r], "handoff_structural", Len(wal'))
    BY <1>1, <1>3, <2>1, PutWrites
  <2>3. Backed(wal', r, input[r], stage'[r], Len(wal'))
    BY <2>1, <2>2 DEF Backed
  <2>. QED  BY <1>1, <1>2, <2>1, <2>3, PutEvidence
<1>10. CASE CheckpointEconomic(r)
  <2>1. /\ stage[r] = "checkpoint_economic" /\ stage'[r] = "verdict"
        /\ Put(r, "hypothesis", EconomicAssessor, ConfidenceOf(r, EconomicAssessor))
    BY <1>2, <1>10 DEF CheckpointEconomic, Checkpoint, Enter
  <2>2. /\ Written(wal', r, "hypothesis", EconomicAssessor, Len(wal'))
        /\ Backed(wal', r, input[r], "checkpoint_economic", Len(wal'))
    BY <1>1, <1>3, <2>1, PutWrites
  <2>3. Backed(wal', r, input[r], stage'[r], Len(wal'))
    BY <2>1, <2>2 DEF Backed
  <2>. QED  BY <1>1, <1>2, <2>1, <2>3, AgentNames, PutEvidence DEF WriterOf
<1>11. CASE StoreVerdict(r)
  <2>1. /\ stage[r] = "verdict" /\ stage'[r] = "returned"
        /\ Put(r, "verdict", Verdict(input[r].figures), ConfidenceOf(r, EconomicAssessor))
    BY <1>2, <1>11 DEF StoreVerdict, Enter
  <2>. QED  BY <1>1, <1>2, <2>1, PutEvidence DEF WriterOf
<1>. QED  BY <1>4, <1>5, <1>6, <1>7, <1>8, <1>9, <1>10, <1>11 DEF PutAction

\* A step that leaves the log and moves one run to a stage that rests on
\* nothing new keeps EvidenceInv.
LEMMA StageEvidence ==
    ASSUME TypeInv, EvidenceInv, NEW r \in Runs, UNCHANGED <<input, voxel, wal>>,
           \A q \in Runs : q # r => stage'[q] = stage[q],
           stage'[r] \in LiveStages \ {"gather", "checkpoint_geochemist", "audit"} =>
               \/ stage'[r] = stage[r]
               \/ /\ stage[r] = "assess"
                  /\ stage'[r] = "handoff_structural"
                  /\ input[r].figures.corridor = "not_requested",
           stage'[r] = "audit" => stage[r] \in {"assess", "audit"}
    PROVE  EvidenceInv'
<1>1. RunsBacked'
  <2>. SUFFICES ASSUME NEW q \in Runs, stage'[q] \in LiveStages
                PROVE  /\ Backed(wal, q, input[q], stage'[q], Len(wal))
                       /\ stage'[q] = "voxels" => VoxelsWritten(wal, q, input[q], voxel[q], Len(wal))
    BY DEF RunsBacked
  <2>1. stage[q] \in LiveStages =>
            /\ Backed(wal, q, input[q], stage[q], Len(wal))
            /\ stage[q] = "voxels" => VoxelsWritten(wal, q, input[q], voxel[q], Len(wal))
    BY DEF EvidenceInv, RunsBacked
  <2>2. CASE stage'[q] = stage[q]
    BY <2>1, <2>2
  <2>3. CASE stage'[q] # stage[q]
    <3>1. \/ stage'[q] \in {"gather", "checkpoint_geochemist"}
          \/ stage[q] = "assess" /\ stage'[q] = "audit"
          \/ /\ stage[q] = "assess" /\ stage'[q] = "handoff_structural"
             /\ input[q].figures.corridor = "not_requested"
      BY <2>3
    <3>. QED  BY <2>1, <3>1 DEF Backed, AuditWritten, LiveStages, BeyondGeochemist, BeyondVoxels,
                 BeyondHandoff, BeyondStructural, BeyondAudit, BeyondSecondHandoff, BeyondEconomic
  <2>. QED  BY <2>2, <2>3
<1>2. RecordsBacked' /\ HypothesesByAgents'
  BY DEF EvidenceInv, RecordsBacked, HypothesesByAgents
<1>. QED  BY <1>1, <1>2 DEF EvidenceInv

\* A restart leaves no run live, and keeps a prefix of the log.
LEMMA RestartEvidence ==
    ASSUME TypeInv, EvidenceInv, Restart, wal' \in Seq(Record), Len(wal') <= Len(wal),
           \A j \in 1..Len(wal') : wal'[j] = wal[j]
    PROVE  EvidenceInv'
<1>1. RunsBacked'
  <2>1. \A q \in Runs : stage'[q] \notin LiveStages
    BY DEF Restart, Ongoing, TypeInv, TypeOK, Stages, LiveStages, EndStages
  <2>. QED  BY <2>1 DEF RunsBacked
<1>2. /\ DOMAIN wal = 1..Len(wal) /\ DOMAIN wal' = 1..Len(wal')
      /\ Len(wal) \in Nat /\ Len(wal') \in Nat
  BY DEF TypeInv, TypeOK
<1>3. UNCHANGED input
  BY DEF Restart
<1>4. ASSUME NEW i \in DOMAIN wal'
      PROVE  i \in DOMAIN wal /\ i \in 1..Len(wal) /\ \A j \in 1..i : wal'[j] = wal[j]
  BY <1>2
<1>5. RecordsBacked'
  BY <1>3, <1>4, RecordKept DEF RecordsBacked
<1>6. HypothesesByAgents'
  <2>1. \A i \in DOMAIN wal' : i \in DOMAIN wal /\ wal'[i] = wal[i]
    BY <1>2
  <2>. QED  BY <2>1 DEF EvidenceInv, HypothesesByAgents
<1>. QED  BY <1>1, <1>5, <1>6 DEF EvidenceInv

LEMMA InitEvidence == Init => EvidenceInv
<1>. SUFFICES ASSUME Init  PROVE EvidenceInv
  OBVIOUS
<1>1. DOMAIN wal = {} /\ \A r \in Runs : stage[r] \notin LiveStages
  <2>1. wal = <<>> /\ \A r \in Runs : stage[r] = "idle"
    BY DEF Init
  <2>. QED  BY <2>1 DEF LiveStages
<1>. QED  BY <1>1 DEF EvidenceInv, RunsBacked, RecordsBacked, HypothesesByAgents

LEMMA NextEvidence == TypeInv /\ TypeInv' /\ EvidenceInv /\ [Next]_vars => EvidenceInv'
<1>. SUFFICES ASSUME TypeInv, TypeInv', EvidenceInv, [Next]_vars  PROVE EvidenceInv'
  OBVIOUS
<1>1. CASE UNCHANGED vars
  BY <1>1 DEF vars, EvidenceInv, RunsBacked, RecordsBacked, HypothesesByAgents
<1>2. ASSUME NEW r \in Runs, AgentAction(r)  PROVE EvidenceInv'
  <2>1. /\ UNCHANGED <<input, voxel, wal>>
        /\ \A q \in Runs : q # r => stage'[q] = stage[q]
        /\ stage'[r] = stage[r] \/ stage'[r] \in {"gather", "unwinding", "failed"}
    BY <1>2 DEF AgentAction, Start, BeginAssessment, Unwind, AgentReturns, AgentRaises, ThreadEnds, Enter, TypeInv, TypeOK
  <2>. QED  BY <2>1, StageEvidence DEF LiveStages
<1>3. ASSUME NEW r \in Runs, PutAction(r)  PROVE EvidenceInv'
  BY <1>3, PutActionEvidence
<1>4. ASSUME NEW r \in Runs, StageAction(r)  PROVE EvidenceInv'
  <2>1. /\ UNCHANGED <<input, voxel, wal>>
        /\ \A q \in Runs : q # r => stage'[q] = stage[q]
        /\ \/ stage'[r] \in {"checkpoint_geochemist", "failed", "blocked"}
           \/ stage[r] = "assess" /\ stage'[r] = "audit"
           \/ /\ stage[r] = "assess" /\ stage'[r] = "handoff_structural"
              /\ input[r].figures.corridor = "not_requested"
    <3>1. stage \in [Runs -> Stages]
      BY DEF TypeInv, TypeOK
    <3>2. PICK s \in {"checkpoint_geochemist", "handoff_structural", "audit", "failed", "blocked"} :
              /\ Enter(r, s)
              /\ s = "audit" => stage[r] = "assess"
              /\ s = "handoff_structural" =>
                     stage[r] = "assess" /\ input[r].figures.corridor = "not_requested"
              /\ UNCHANGED <<input, voxel, wal>>
      BY <1>4 DEF StageAction, RefuseInsideLoop, GatherReturns, AssessmentReturns, PutFails, ThreadsJoined, Block
    <3>. QED  BY <3>1, <3>2 DEF Enter
  <2>. QED  BY <2>1, StageEvidence DEF LiveStages
<1>5. CASE ProcessCrash
  <2>1. wal' = wal /\ wal' \in Seq(Record) /\ Len(wal) \in Nat
    BY <1>5 DEF ProcessCrash, TypeInv, TypeOK
  <2>2. Len(wal') <= Len(wal) /\ \A j \in 1..Len(wal') : wal'[j] = wal[j]
    BY <2>1
  <2>. QED  BY <1>5, <2>1, <2>2, RestartEvidence DEF ProcessCrash
<1>6. CASE PowerLoss
  <2>1. PICK n \in durable..Len(wal) : wal' = SubSeq(wal, 1, n)
    BY <1>6 DEF PowerLoss
  <2>2. wal \in Seq(Record) /\ durable \in Nat /\ Len(wal) \in Nat /\ wal' \in Seq(Record)
    BY DEF TypeInv, TypeOK
  <2>3. n \in Nat /\ n <= Len(wal)
    BY <2>1, <2>2
  <2>4. Len(wal') = n /\ \A j \in 1..n : wal'[j] = wal[j]
    BY <2>1, <2>2, <2>3
  <2>. QED  BY <1>6, <2>2, <2>3, <2>4, RestartEvidence DEF PowerLoss
<1>. QED  BY <1>1, <1>2, <1>3, <1>4, <1>5, <1>6, NextCases

\* What a live evaluation and a stored record rest on is always in the store.
THEOREM EvidenceInvariant == Spec => []EvidenceInv
BY InitEvidence, NextEvidence, TypeInvariant, PTL DEF Spec

\* Positions of a log have a last one: of the tails that begin behind them,
\* one has no strict subset among them.
LEMMA LastPosition ==
    ASSUME NEW n \in Nat, NEW T \in SUBSET (1..n), T # {}
    PROVE  \E x \in T : \A y \in T : y <= x
<1>. DEFINE Tails == {(x + 1)..n : x \in T}
<1>1. Tails \subseteq FiniteSubsetsOf(Nat) /\ Tails # {}
  <2>1. \A x \in T : IsFiniteSet((x + 1)..n) /\ (x + 1)..n \subseteq Nat
    BY FS_Interval
  <2>. QED  BY <2>1 DEF FiniteSubsetsOf
<1>2. PICK b \in Tails : \A c \in Tails : ~(<<c, b>> \in StrictSubsetOrdering(Nat))
  BY <1>1, FS_StrictSubsetOrderingWellFounded, WFMin, Zenon
<1>3. PICK x \in T : b = (x + 1)..n
  BY <1>2
<1>4. ASSUME NEW y \in T, y > x  PROVE FALSE
  <2>1. (y + 1)..n \in SUBSET Nat /\ b \in SUBSET Nat
    BY <1>3
  <2>2. (y + 1)..n \subseteq b /\ y \in b /\ y \notin (y + 1)..n
    BY <1>3, <1>4
  <2>3. <<(y + 1)..n, b>> \in StrictSubsetOrdering(Nat)
    BY <2>1, <2>2 DEF StrictSubsetOrdering
  <2>. QED  BY <1>2, <2>3
<1>. QED  BY <1>4

\* Whatever a run puts under a key, some record of its own of the same kind
\* and ref stands: the last record under the key, or, when that is another
\* evaluation's, the record itself.
LEMMA OwnRecordStands ==
    ASSUME TypeInv, NEW j \in DOMAIN wal
    PROVE  \E k \in DOMAIN wal :
               /\ wal[k].run = wal[j].run /\ wal[k].kind = wal[j].kind
               /\ wal[j].kind # "verdict" => wal[k].ref = wal[j].ref
               /\ Stands(k)
<1>. DEFINE Under == {k \in DOMAIN wal : SameKey(wal[j], wal[k])}
<1>1. DOMAIN wal = 1..Len(wal) /\ Len(wal) \in Nat
  BY DEF TypeInv, TypeOK
<1>2. j \in Under
  BY DEF SameKey
<1>3. PICK k \in Under : \A m \in Under : m <= k
  BY <1>1, <1>2, LastPosition
<1>4. k \in DOMAIN wal /\ SameKey(wal[j], wal[k])
  OBVIOUS
<1>5. wal[k].kind = wal[j].kind /\ (wal[j].kind # "verdict" => wal[k].ref = wal[j].ref)
  BY <1>4 DEF SameKey
<1>6. ASSUME NEW m \in DOMAIN wal, m > k, SameKey(wal[k], wal[m])  PROVE FALSE
  <2>1. SameKey(wal[j], wal[m])
    BY <1>4, <1>6 DEF SameKey
  <2>. QED  BY <1>1, <1>3, <1>6, <2>1
<1>7. Readable(k)
  BY <1>4, <1>6 DEF Readable
<1>8. CASE wal[k].run = wal[j].run
  BY <1>4, <1>5, <1>7, <1>8 DEF Stands
<1>9. CASE wal[k].run # wal[j].run
  <2>1. k > j
    BY <1>1, <1>2, <1>3, <1>9
  <2>. QED  BY <1>4, <1>7, <1>9, <2>1 DEF Stands
<1>. QED  BY <1>8, <1>9

LEMMA EvidenceStands == TypeInv /\ EvidenceInv => VerdictHasEvidence
<1>. SUFFICES ASSUME TypeInv, EvidenceInv, NEW i \in DOMAIN wal, wal[i].kind = "verdict",
                     NEW e \in Evidence(input[wal[i].run])
              PROVE  \E j \in DOMAIN wal :
                         /\ wal[j].run = wal[i].run /\ wal[j].kind = e[1] /\ wal[j].ref = e[2]
                         /\ Stands(j)
  BY DEF VerdictHasEvidence
<1>0. DOMAIN wal = 1..Len(wal) /\ Len(wal) \in Nat
  BY DEF TypeInv, TypeOK
<1>. DEFINE r == wal[i].run  d == input[r]
<1>1. Backed(wal, r, d, "verdict", i - 1)
  BY DEF EvidenceInv, RecordsBacked, WriterOf
<1>2. /\ \A a \in AgentIds : Written(wal, r, "hypothesis", a, i - 1)
      /\ VoxelsWritten(wal, r, d, Len(d.voxels), i - 1)
      /\ HandoffWritten(wal, r, Geochemist, i - 1)
      /\ HandoffWritten(wal, r, StructuralGeologist, i - 1)
      /\ AuditWritten(wal, r, d, i - 1)
  BY <1>1 DEF Backed, AgentIds, LiveStages, BeyondGeochemist, BeyondVoxels, BeyondHandoff,
         BeyondStructural, BeyondAudit, BeyondSecondHandoff, BeyondEconomic
<1>3. r \in Runs
  <2>1. wal[i] \in Record
    BY ElementOfSeq, LenProperties DEF TypeInv, TypeOK
  <2>. QED  BY <2>1 DEF Record
<1>4. Written(wal, r, e[1], e[2], i - 1) /\ e[1] # "verdict"
  <2>1. CASE e \in {"hypothesis"} \X AgentIds
    BY <1>2, <2>1
  <2>2. CASE e \in {"handoff"} \X {Geochemist, StructuralGeologist}
    BY <1>2, <2>2 DEF HandoffWritten, Written
  <2>3. CASE e \in {<<"voxel", d.voxels[k]>> : k \in DOMAIN d.voxels}
    <3>1. PICK k \in DOMAIN d.voxels : e = <<"voxel", d.voxels[k]>>
      BY <2>3
    <3>2. k \in 1..Len(d.voxels)
      BY <1>3, RequestType, LenProperties DEF TypeInv
    <3>. QED  BY <1>2, <3>1, <3>2 DEF VoxelsWritten
  <2>4. CASE e \in {"shipping_audit"} \X ({d.figures.corridor} \ {"not_requested"})
    BY <1>2, <2>4 DEF AuditWritten
  <2>. QED  BY <2>1, <2>2, <2>3, <2>4 DEF Evidence
<1>5. PICK j \in DOMAIN wal : wal[j].run = r /\ wal[j].kind = e[1] /\ wal[j].ref = e[2]
  BY <1>0, <1>4 DEF Written
<1>. QED  BY <1>4, <1>5, OwnRecordStands

\* Every verdict in the store has all the evidence of its evaluation there,
\* read under its own key or replaced by an evaluation that shares the key.
THEOREM VerdictsHaveEvidence == Spec => []VerdictHasEvidence
BY EvidenceStands, TypeInvariant, EvidenceInvariant, PTL

LEMMA HandoffsBeforeHypotheses == EvidenceInv => NoAmplification
<1>. SUFFICES ASSUME EvidenceInv, NEW i \in DOMAIN wal, wal[i].kind = "hypothesis", wal[i].ref # Geochemist
              PROVE  HandoffWritten(wal, wal[i].run, Upstream(wal[i].ref), i - 1)
  BY DEF NoAmplification, HandoffWritten
<1>1. wal[i].ref \in {StructuralGeologist, EconomicAssessor}
  BY DEF EvidenceInv, HypothesesByAgents, AgentIds
<1>2. Backed(wal, wal[i].run, input[wal[i].run], WriterOf(wal[i]), i - 1)
  BY DEF EvidenceInv, RecordsBacked
<1>3. CASE wal[i].ref = StructuralGeologist
  BY <1>2, <1>3, AgentNames DEF WriterOf, Upstream, Backed, LiveStages, BeyondGeochemist, BeyondVoxels,
     BeyondHandoff
<1>4. CASE wal[i].ref = EconomicAssessor
  BY <1>2, <1>4, AgentNames DEF WriterOf, Upstream, Backed, LiveStages, BeyondGeochemist, BeyondVoxels,
     BeyondHandoff, BeyondStructural, BeyondAudit, BeyondSecondHandoff
<1>. QED  BY <1>1, <1>3, <1>4

\* No hypothesis is stored past a handoff under the threshold.
THEOREM AmplificationBlocked == Spec => []NoAmplification
BY HandoffsBeforeHypotheses, EvidenceInvariant, PTL

\* When no two evaluations share a task id, as the mesh's own ids never do,
\* nobody replaces that evidence: all of it but the voxels, whose keys hold no
\* task id, reads as the evaluation put it.
THEOREM OwnTaskEvidenceReads ==
    ASSUME \A r, q \in Runs : TaskOf[r] = TaskOf[q] => r = q
    PROVE  Spec => [](\A i \in DOMAIN wal : wal[i].kind = "verdict" =>
                         \A e \in Evidence(input[wal[i].run]) : e[1] # "voxel" =>
                             \E j \in DOMAIN wal :
                                 /\ wal[j].run = wal[i].run /\ wal[j].kind = e[1] /\ wal[j].ref = e[2]
                                 /\ Readable(j))
<1>1. TypeInv /\ VerdictHasEvidence =>
          \A i \in DOMAIN wal : wal[i].kind = "verdict" =>
              \A e \in Evidence(input[wal[i].run]) : e[1] # "voxel" =>
                  \E j \in DOMAIN wal :
                      /\ wal[j].run = wal[i].run /\ wal[j].kind = e[1] /\ wal[j].ref = e[2]
                      /\ Readable(j)
  <2>. SUFFICES ASSUME TypeInv, VerdictHasEvidence, NEW i \in DOMAIN wal, wal[i].kind = "verdict",
                       NEW e \in Evidence(input[wal[i].run]), e[1] # "voxel"
                PROVE  \E j \in DOMAIN wal :
                           /\ wal[j].run = wal[i].run /\ wal[j].kind = e[1] /\ wal[j].ref = e[2]
                           /\ Readable(j)
    OBVIOUS
  <2>1. PICK j \in DOMAIN wal :
            wal[j].run = wal[i].run /\ wal[j].kind = e[1] /\ wal[j].ref = e[2] /\ Stands(j)
    BY DEF VerdictHasEvidence
  <2>2. \A k \in DOMAIN wal : wal[k].run \in Runs
    <3>1. \A k \in DOMAIN wal : wal[k] \in Record
      BY ElementOfSeq, LenProperties DEF TypeInv, TypeOK
    <3>. QED  BY <3>1 DEF Record
  <2>3. ASSUME NEW k \in DOMAIN wal, SameKey(wal[j], wal[k])  PROVE wal[k].run = wal[j].run
    BY <2>1, <2>2, <2>3 DEF SameKey
  <2>4. Readable(j)
    BY <2>1, <2>3 DEF Stands
  <2>. QED  BY <2>1, <2>4
<1>. QED  BY <1>1, VerdictsHaveEvidence, TypeInvariant, PTL

\* What a put adds to the log, by its kind: a verdict, with the run's return,
\* or a record of another kind, and the run does not return.
LEMMA PutKind ==
    ASSUME TypeInv, NEW r \in Runs, PutAction(r)
    PROVE  \E kind, ref, c :
               /\ Put(r, kind, ref, c)
               /\ kind = "verdict" => ref = Verdict(input[r].figures)
               /\ kind = "verdict" <=> stage'[r] = "returned"
<1>. USE DEF Checkpoint, Enter
<1>1. stage \in [Runs -> Stages]
  BY DEF TypeInv, TypeOK
<1>2. CASE CheckpointGeochemist(r)
  BY <1>1, <1>2 DEF CheckpointGeochemist
<1>3. CASE StoreVoxel(r)
  BY <1>1, <1>3 DEF StoreVoxel
<1>4. CASE CheckpointStructural(r) \/ CheckpointEconomic(r)
  BY <1>1, <1>4 DEF CheckpointStructural, CheckpointEconomic
<1>5. CASE StoreShippingAudit(r)
  BY <1>1, <1>5 DEF StoreShippingAudit
<1>6. CASE StoreVerdict(r)
  BY <1>1, <1>6 DEF StoreVerdict
<1>7. CASE \/ HandoffGeochemist(r) /\ Deliver(r, Geochemist, "checkpoint_structural")
           \/ HandoffStructural(r) /\ Deliver(r, StructuralGeologist, "checkpoint_economic")
  BY <1>1, <1>7 DEF Deliver
<1>. QED  BY <1>2, <1>3, <1>4, <1>5, <1>6, <1>7 DEF PutAction

LEMMA PutVerdict ==
    ASSUME TypeInv, TypeInv', VerdictInv, NEW r \in Runs, PutAction(r)
    PROVE  VerdictInv'
<1>1. PICK kind, ref, c :
          /\ Put(r, kind, ref, c)
          /\ kind = "verdict" => ref = Verdict(input[r].figures)
          /\ kind = "verdict" <=> stage'[r] = "returned"
  BY PutKind
<1>2. /\ wal' \in Seq(Record) /\ UNCHANGED <<input, struck>> /\ stage[r] \in LiveStages
      /\ \A q \in Runs : q # r => stage'[q] = stage[q]
  BY PutFrame DEF TypeInv, TypeOK
<1>3. /\ Len(wal) \in Nat /\ Len(wal') = Len(wal) + 1
      /\ \A j \in 1..Len(wal) : wal'[j] = wal[j]
      /\ wal'[Len(wal')] = [run |-> r, kind |-> kind, ref |-> ref, confidence |-> c]
  BY <1>1, <1>2, PutAppends
<1>4. DOMAIN wal = 1..Len(wal) /\ DOMAIN wal' = 1..Len(wal')
  BY DEF TypeInv, TypeOK
<1>5. VerdictsReturned'
  <2>. SUFFICES ASSUME NEW j \in DOMAIN wal', wal'[j].kind = "verdict"
                PROVE  /\ stage'[wal'[j].run] = "returned"
                       /\ wal'[j].ref = Verdict(input[wal'[j].run].figures)
    BY <1>2 DEF VerdictsReturned
  <2>1. CASE j = Len(wal')
    BY <1>1, <1>3, <2>1
  <2>2. CASE j # Len(wal')
    <3>1. j \in DOMAIN wal /\ wal'[j] = wal[j]
      BY <1>3, <1>4, <2>2
    <3>2. wal[j].run \in Runs
      <4>1. wal[j] \in Record
        BY <3>1, ElementOfSeq, LenProperties DEF TypeInv, TypeOK
      <4>. QED  BY <4>1 DEF Record
    <3>3. stage[wal[j].run] = "returned" /\ wal[j].ref = Verdict(input[wal[j].run].figures)
      BY <3>1 DEF VerdictInv, VerdictsReturned
    <3>4. wal[j].run # r
      BY <1>2, <3>3 DEF LiveStages
    <3>. QED  BY <1>2, <3>1, <3>2, <3>3, <3>4
  <2>. QED  BY <2>1, <2>2
<1>6. ReturnedRecorded'
  <2>. SUFFICES ASSUME NEW q \in Runs, stage'[q] = "returned", q \notin struck
                PROVE  Written(wal', q, "verdict", Verdict(input[q].figures), Len(wal'))
    BY <1>2 DEF ReturnedRecorded
  <2>1. CASE q = r
    <3>1. Len(wal') \in 1..Len(wal')
      BY <1>3
    <3>. QED  BY <1>1, <1>3, <2>1, <3>1 DEF Written
  <2>2. CASE q # r
    <3>1. Written(wal, q, "verdict", Verdict(input[q].figures), Len(wal))
      BY <1>2, <2>2 DEF VerdictInv, ReturnedRecorded
    <3>. QED  BY <1>3, <3>1 DEF Written
  <2>. QED  BY <2>1, <2>2
<1>. QED  BY <1>5, <1>6 DEF VerdictInv

LEMMA NextVerdict == TypeInv /\ TypeInv' /\ VerdictInv /\ [Next]_vars => VerdictInv'
<1>. SUFFICES ASSUME TypeInv, TypeInv', VerdictInv, [Next]_vars  PROVE VerdictInv'
  OBVIOUS
<1>0. \A j \in DOMAIN wal : wal[j].run \in Runs
  <2>1. \A j \in DOMAIN wal : wal[j] \in Record
    BY ElementOfSeq, LenProperties DEF TypeInv, TypeOK
  <2>. QED  BY <2>1 DEF Record
<1>1. ASSUME UNCHANGED <<input, wal, struck>>,
             \A q \in Runs : stage'[q] = "returned" <=> stage[q] = "returned"
      PROVE  VerdictInv'
  BY <1>0, <1>1 DEF VerdictInv, VerdictsReturned, ReturnedRecorded
<1>2. CASE UNCHANGED vars
  BY <1>1, <1>2 DEF vars
<1>3. ASSUME NEW r \in Runs, AgentAction(r) \/ StageAction(r)  PROVE VerdictInv'
  <2>1. /\ UNCHANGED <<input, wal, struck>>
        /\ \A q \in Runs : stage'[q] = "returned" <=> stage[q] = "returned"
    BY <1>3 DEF AgentAction, Start, BeginAssessment, Unwind, AgentReturns, AgentRaises, ThreadEnds, StageAction,
                RefuseInsideLoop, GatherReturns, AssessmentReturns, PutFails, ThreadsJoined, HandoffGeochemist,
                HandoffStructural, Block, Enter, TypeInv, TypeOK
  <2>. QED  BY <1>1, <2>1
<1>4. ASSUME NEW r \in Runs, PutAction(r)  PROVE VerdictInv'
  BY <1>4, PutVerdict
<1>5. CASE ProcessCrash
  <2>1. /\ UNCHANGED <<input, wal, struck>>
        /\ \A q \in Runs : stage'[q] = "returned" <=> stage[q] = "returned"
    BY <1>5 DEF ProcessCrash, Restart, Ongoing, LiveStages
  <2>. QED  BY <1>1, <2>1
<1>6. CASE PowerLoss
  <2>1. /\ UNCHANGED input
        /\ struck' = struck \cup {q \in Runs : stage[q] = "returned"}
        /\ \A q \in Runs : stage'[q] = "returned" <=> stage[q] = "returned"
    BY <1>6 DEF PowerLoss, Restart, Ongoing, LiveStages
  <2>2. PICK n \in durable..Len(wal) : wal' = SubSeq(wal, 1, n)
    BY <1>6 DEF PowerLoss
  <2>3. wal \in Seq(Record) /\ n \in Nat /\ n <= Len(wal) /\ DOMAIN wal = 1..Len(wal)
    BY <2>2 DEF TypeInv, TypeOK
  <2>4. \A j \in DOMAIN wal' : j \in DOMAIN wal /\ wal'[j] = wal[j]
    BY <2>2, <2>3
  <2>5. VerdictsReturned'
    BY <1>0, <2>1, <2>4 DEF VerdictInv, VerdictsReturned
  <2>6. ReturnedRecorded'
    BY <2>1 DEF ReturnedRecorded
  <2>. QED  BY <2>5, <2>6 DEF VerdictInv
<1>. QED  BY <1>2, <1>3, <1>4, <1>5, <1>6, NextCases

LEMMA InitVerdict == Init => VerdictInv
BY DEF Init, VerdictInv, VerdictsReturned, ReturnedRecorded

LEMMA VerdictInvariant == Spec => []VerdictInv
BY InitVerdict, NextVerdict, TypeInvariant, PTL DEF Spec

LEMMA VerdictsStand == TypeInv /\ VerdictInv => AcknowledgedVerdictStored
<1>. SUFFICES ASSUME TypeInv, VerdictInv, NEW r \in Runs
              PROVE  /\ stage[r] = "returned" /\ r \notin struck =>
                            \E j \in DOMAIN wal :
                                /\ wal[j].run = r /\ wal[j].kind = "verdict"
                                /\ wal[j].ref = Verdict(input[r].figures)
                                /\ Stands(j)
                     /\ stage[r] \in {"blocked", "unwinding", "failed"} =>
                            \A j \in DOMAIN wal : wal[j].run = r => wal[j].kind # "verdict"
  BY DEF AcknowledgedVerdictStored
<1>1. \A j \in DOMAIN wal : wal[j].kind = "verdict" =>
          stage[wal[j].run] = "returned" /\ wal[j].ref = Verdict(input[wal[j].run].figures)
  BY DEF VerdictInv, VerdictsReturned
<1>2. ASSUME stage[r] = "returned", r \notin struck
      PROVE  \E j \in DOMAIN wal :
                 /\ wal[j].run = r /\ wal[j].kind = "verdict"
                 /\ wal[j].ref = Verdict(input[r].figures)
                 /\ Stands(j)
  <2>1. DOMAIN wal = 1..Len(wal)
    BY DEF TypeInv, TypeOK
  <2>2. PICK j \in DOMAIN wal : wal[j].run = r /\ wal[j].kind = "verdict"
    BY <1>2, <2>1 DEF VerdictInv, ReturnedRecorded, Written
  <2>3. PICK k \in DOMAIN wal : wal[k].run = r /\ wal[k].kind = "verdict" /\ Stands(k)
    BY <2>2, OwnRecordStands
  <2>. QED  BY <1>1, <2>3
<1>. QED  BY <1>1, <1>2

\* A verdict given to a caller reads under its task, or was replaced there by a
\* later evaluation of the task, until the machine loses power; an evaluation
\* that raised left none.
THEOREM AcknowledgedVerdictsStored == Spec => []AcknowledgedVerdictStored
BY VerdictsStand, TypeInvariant, VerdictInvariant, PTL

-------------------------------------------------------------------------
(* The hypotheses that handoffs refer to. *)

\* A put keeps RefsInv when a hypothesis is the first of its agent in the run,
\* a handoff has its hypothesis in the log, and both carry what the run decided.
LEMMA PutRefs ==
    ASSUME TypeInv, RefsInv, NEW r \in Runs, NEW kind, NEW ref, NEW c, Put(r, kind, ref, c),
           wal' \in Seq(Record), UNCHANGED input,
           \A q \in Runs : q # r => stage'[q] = stage[q],
           \A a \in AgentIds : stage'[r] \in Before(a) => stage[r] \in Before(a),
           kind \in {"hypothesis", "handoff"} => c = ConfidenceOf(r, ref),
           kind = "hypothesis" => ref \in AgentIds /\ stage[r] \in Before(ref) /\ stage'[r] \notin Before(ref),
           kind = "handoff" => Written(wal, r, "hypothesis", ref, Len(wal))
    PROVE  RefsInv'
<1>1. /\ Len(wal) \in Nat /\ Len(wal') = Len(wal) + 1
      /\ \A j \in 1..Len(wal) : wal'[j] = wal[j]
      /\ wal'[Len(wal')] = [run |-> r, kind |-> kind, ref |-> ref, confidence |-> c]
  BY PutAppends
<1>2. /\ DOMAIN wal = 1..Len(wal) /\ DOMAIN wal' = 1..Len(wal')
      /\ \A i \in DOMAIN wal' : i = Len(wal') \/ (i \in DOMAIN wal /\ wal'[i] = wal[i])
  BY <1>1 DEF TypeInv, TypeOK
<1>3. ASSUME NEW q \in Runs, NEW a \in AgentIds, stage'[q] \in Before(a),
             NEW j \in DOMAIN wal', wal'[j].run = q, wal'[j].kind = "hypothesis", wal'[j].ref = a
      PROVE  FALSE
  <2>1. stage[q] \in Before(a)
    BY <1>3
  <2>2. \A i \in DOMAIN wal : ~(wal[i].run = q /\ wal[i].kind = "hypothesis" /\ wal[i].ref = a)
    BY <1>2, <2>1 DEF RefsInv, HypothesesOnce, Written
  <2>. QED  BY <1>1, <1>2, <1>3, <2>2
<1>4. ASSUME NEW i \in DOMAIN wal', NEW j \in DOMAIN wal', i # j,
             wal'[i].kind = "hypothesis", wal'[j].kind = "hypothesis",
             wal'[i].run = wal'[j].run, wal'[i].ref = wal'[j].ref
      PROVE  FALSE
  <2>1. \A k \in DOMAIN wal : kind = "hypothesis" =>
            ~(wal[k].run = r /\ wal[k].kind = "hypothesis" /\ wal[k].ref = ref)
    BY <1>2 DEF RefsInv, HypothesesOnce, Written
  <2>2. CASE i \in DOMAIN wal /\ j \in DOMAIN wal
    BY <1>1, <1>2, <1>4, <2>2 DEF RefsInv, HypothesesOnce
  <2>3. CASE i = Len(wal') \/ j = Len(wal')
    BY <1>1, <1>2, <1>4, <2>1, <2>3
  <2>. QED  BY <1>2, <2>2, <2>3
<1>5. HypothesesOnce'
  BY <1>2, <1>3, <1>4 DEF HypothesesOnce, Written
<1>6. ConfidencesDecided'
  <2>. SUFFICES ASSUME NEW i \in DOMAIN wal', wal'[i].kind \in {"hypothesis", "handoff"}
                PROVE  wal'[i].confidence = ConfidenceOf(wal'[i].run, wal'[i].ref)
    BY DEF ConfidencesDecided, ConfidenceOf
  <2>. QED  BY <1>1, <1>2 DEF RefsInv, ConfidencesDecided
<1>7. HandoffsRefer'
  <2>. SUFFICES ASSUME NEW i \in DOMAIN wal', wal'[i].kind = "handoff"
                PROVE  Written(wal', wal'[i].run, "hypothesis", wal'[i].ref, i - 1)
    BY DEF HandoffsRefer
  <2>1. CASE i = Len(wal')
    <3>1. Written(wal, r, "hypothesis", ref, Len(wal)) /\ i - 1 = Len(wal)
      BY <1>1, <2>1
    <3>. QED  BY <1>1, <2>1, <3>1 DEF Written
  <2>2. CASE i \in DOMAIN wal /\ wal'[i] = wal[i]
    <3>1. Written(wal, wal[i].run, "hypothesis", wal[i].ref, i - 1)
      BY <2>2 DEF RefsInv, HandoffsRefer
    <3>2. \A j \in 1..(i - 1) : wal'[j] = wal[j]
      BY <1>1, <1>2, <2>2
    <3>. QED  BY <2>2, <3>1, <3>2 DEF Written
  <2>. QED  BY <1>2, <2>1, <2>2
<1>. QED  BY <1>5, <1>6, <1>7 DEF RefsInv

\* So does every step that keeps a prefix of the log and takes no run back to
\* before one of its hypotheses.
LEMMA PrefixRefs ==
    ASSUME TypeInv, RefsInv, UNCHANGED input, wal' \in Seq(Record), Len(wal') <= Len(wal),
           \A j \in 1..Len(wal') : wal'[j] = wal[j],
           \A q \in Runs, a \in AgentIds : stage'[q] \in Before(a) => stage[q] \in Before(a)
    PROVE  RefsInv'
<1>1. /\ DOMAIN wal = 1..Len(wal) /\ DOMAIN wal' = 1..Len(wal')
      /\ Len(wal) \in Nat /\ Len(wal') \in Nat
  BY DEF TypeInv, TypeOK
<1>2. \A i \in DOMAIN wal' : i \in DOMAIN wal /\ wal'[i] = wal[i] /\ \A j \in 1..i : wal'[j] = wal[j]
  BY <1>1
<1>3. \A q \in Runs, a \in AgentIds : stage'[q] \in Before(a) => ~Written(wal', q, "hypothesis", a, Len(wal'))
  BY <1>1, <1>2 DEF RefsInv, HypothesesOnce, Written
<1>4. HypothesesOnce'
  BY <1>2, <1>3 DEF RefsInv, HypothesesOnce
<1>5. ConfidencesDecided'
  BY <1>2 DEF RefsInv, ConfidencesDecided, ConfidenceOf
<1>6. HandoffsRefer'
  <2>. SUFFICES ASSUME NEW i \in DOMAIN wal', wal'[i].kind = "handoff"
                PROVE  Written(wal', wal'[i].run, "hypothesis", wal'[i].ref, i - 1)
    BY DEF HandoffsRefer
  <2>1. Written(wal, wal[i].run, "hypothesis", wal[i].ref, i - 1) /\ wal'[i] = wal[i]
    BY <1>2 DEF RefsInv, HandoffsRefer
  <2>2. \A j \in 1..(i - 1) : wal'[j] = wal[j]
    BY <1>1, <1>2
  <2>. QED  BY <2>1, <2>2 DEF Written
<1>. QED  BY <1>4, <1>5, <1>6 DEF RefsInv

LEMMA PutActionRefs ==
    ASSUME TypeInv, EvidenceInv, RefsInv, NEW r \in Runs, PutAction(r)
    PROVE  RefsInv'
<1>1. wal' \in Seq(Record)
  BY PutActionType, AgentNames DEF TypeInv, PutAction, LiveStages
<1>2. /\ UNCHANGED input /\ stage[r] \in LiveStages /\ stage \in [Runs -> Stages]
      /\ \A q \in Runs : q # r => stage'[q] = stage[q]
  BY PutFrame DEF TypeInv, TypeOK
<1>3. Backed(wal, r, input[r], stage[r], Len(wal))
  BY <1>2 DEF EvidenceInv, RunsBacked
<1>4. CASE CheckpointGeochemist(r)
  <2>1. /\ stage[r] = "checkpoint_geochemist" /\ stage'[r] \in {"handoff_geochemist", "voxels"}
        /\ Put(r, "hypothesis", Geochemist, ConfidenceOf(r, Geochemist))
    BY <1>2, <1>4 DEF CheckpointGeochemist, Checkpoint, Enter
  <2>2. /\ stage[r] \in Before(Geochemist) /\ stage'[r] \notin Before(Geochemist)
        /\ \A a \in AgentIds : stage'[r] \in Before(a) => stage[r] \in Before(a)
    BY <2>1, AgentNames DEF Before
  <2>. QED  BY <1>1, <1>2, <2>1, <2>2, AgentNames, PutRefs
<1>5. CASE CheckpointStructural(r)
  <2>1. /\ stage[r] = "checkpoint_structural" /\ stage'[r] = "assess"
        /\ Put(r, "hypothesis", StructuralGeologist, ConfidenceOf(r, StructuralGeologist))
    BY <1>2, <1>5 DEF CheckpointStructural, Checkpoint, Enter
  <2>2. /\ stage[r] \in Before(StructuralGeologist) /\ stage'[r] \notin Before(StructuralGeologist)
        /\ \A a \in AgentIds : stage'[r] \in Before(a) => stage[r] \in Before(a)
    BY <2>1, AgentNames DEF Before
  <2>. QED  BY <1>1, <1>2, <2>1, <2>2, AgentNames, PutRefs
<1>6. CASE CheckpointEconomic(r)
  <2>1. /\ stage[r] = "checkpoint_economic" /\ stage'[r] = "verdict"
        /\ Put(r, "hypothesis", EconomicAssessor, ConfidenceOf(r, EconomicAssessor))
    BY <1>2, <1>6 DEF CheckpointEconomic, Checkpoint, Enter
  <2>2. /\ stage[r] \in Before(EconomicAssessor) /\ stage'[r] \notin Before(EconomicAssessor)
        /\ \A a \in AgentIds : stage'[r] \in Before(a) => stage[r] \in Before(a)
    BY <2>1, AgentNames DEF Before
  <2>. QED  BY <1>1, <1>2, <2>1, <2>2, AgentNames, PutRefs
<1>7. CASE HandoffGeochemist(r) /\ Deliver(r, Geochemist, "checkpoint_structural")
  <2>1. /\ stage[r] = "handoff_geochemist" /\ stage'[r] = "checkpoint_structural"
        /\ Put(r, "handoff", Geochemist, ConfidenceOf(r, Geochemist))
    BY <1>2, <1>7 DEF HandoffGeochemist, Deliver, Enter
  <2>2. \A a \in AgentIds : stage'[r] \in Before(a) => stage[r] \in Before(a)
    BY <2>1 DEF Before
  <2>3. Written(wal, r, "hypothesis", Geochemist, Len(wal))
    BY <1>3, <2>1 DEF Backed, BeyondGeochemist, LiveStages
  <2>. QED  BY <1>1, <1>2, <2>1, <2>2, <2>3, PutRefs
<1>8. CASE HandoffStructural(r) /\ Deliver(r, StructuralGeologist, "checkpoint_economic")
  <2>1. /\ stage[r] = "handoff_structural" /\ stage'[r] = "checkpoint_economic"
        /\ Put(r, "handoff", StructuralGeologist, ConfidenceOf(r, StructuralGeologist))
    BY <1>2, <1>8 DEF HandoffStructural, Deliver, Enter
  <2>2. \A a \in AgentIds : stage'[r] \in Before(a) => stage[r] \in Before(a)
    BY <2>1 DEF Before
  <2>3. Written(wal, r, "hypothesis", StructuralGeologist, Len(wal))
    BY <1>3, <2>1 DEF Backed, BeyondStructural, BeyondHandoff, BeyondVoxels, BeyondGeochemist, LiveStages
  <2>. QED  BY <1>1, <1>2, <2>1, <2>2, <2>3, PutRefs
<1>9. CASE StoreVoxel(r) \/ StoreShippingAudit(r) \/ StoreVerdict(r)
  <2>1. PICK kind, ref, c :
            kind \in {"voxel", "shipping_audit", "verdict"} /\ Put(r, kind, ref, c)
    BY <1>9 DEF StoreVoxel, StoreShippingAudit, StoreVerdict
  <2>2. \A a \in AgentIds : stage'[r] \in Before(a) => stage[r] \in Before(a)
    BY <1>2, <1>9 DEF StoreVoxel, StoreShippingAudit, StoreVerdict, Enter, Before
  <2>. QED  BY <1>1, <1>2, <2>1, <2>2, PutRefs
<1>. QED  BY <1>4, <1>5, <1>6, <1>7, <1>8, <1>9 DEF PutAction

LEMMA InitRefs == Init => RefsInv
<1>. SUFFICES ASSUME Init  PROVE RefsInv
  OBVIOUS
<1>1. wal = <<>> /\ DOMAIN wal = {} /\ 1..Len(wal) = {}
  BY DEF Init
<1>. QED  BY <1>1 DEF RefsInv, HypothesesOnce, ConfidencesDecided, HandoffsRefer, Written

LEMMA NextRefs == TypeInv /\ TypeInv' /\ EvidenceInv /\ RefsInv /\ [Next]_vars => RefsInv'
<1>. SUFFICES ASSUME TypeInv, TypeInv', EvidenceInv, RefsInv, [Next]_vars  PROVE RefsInv'
  OBVIOUS
<1>0. wal' \in Seq(Record) /\ wal \in Seq(Record) /\ stage \in [Runs -> Stages]
  BY DEF TypeInv, TypeOK
<1>1. CASE UNCHANGED vars
  BY <1>1 DEF vars, RefsInv, HypothesesOnce, ConfidencesDecided, HandoffsRefer, ConfidenceOf
<1>2. ASSUME NEW r \in Runs, AgentAction(r) \/ StageAction(r)  PROVE RefsInv'
  <2>1. /\ UNCHANGED <<input, wal>>
        /\ \A q \in Runs : q # r => stage'[q] = stage[q]
        /\ \/ stage'[r] = stage[r]
           \/ stage[r] = "idle" /\ stage'[r] = "gather"
           \/ stage[r] = "gather" /\ stage'[r] = "checkpoint_geochemist"
           \/ stage[r] = "assess" /\ stage'[r] \in {"audit", "handoff_structural"}
           \/ stage'[r] \in EndStages \cup {"unwinding"}
    BY <1>0, <1>2 DEF AgentAction, Start, BeginAssessment, Unwind, AgentReturns, AgentRaises, ThreadEnds, StageAction,
                RefuseInsideLoop, GatherReturns, AssessmentReturns, PutFails, ThreadsJoined, HandoffGeochemist,
                HandoffStructural, Block, Enter, EndStages
  <2>2. \A q \in Runs, a \in AgentIds : stage'[q] \in Before(a) => stage[q] \in Before(a)
    BY <2>1 DEF Before, EndStages
  <2>3. Len(wal') <= Len(wal) /\ \A j \in 1..Len(wal') : wal'[j] = wal[j]
    BY <1>0, <2>1
  <2>. QED  BY <1>0, <2>1, <2>2, <2>3, PrefixRefs
<1>3. ASSUME NEW r \in Runs, PutAction(r)  PROVE RefsInv'
  BY <1>3, PutActionRefs
<1>4. CASE ProcessCrash \/ PowerLoss
  <2>1. Len(wal') <= Len(wal) /\ \A j \in 1..Len(wal') : wal'[j] = wal[j]
    <3>1. CASE ProcessCrash
      BY <1>0, <3>1 DEF ProcessCrash
    <3>2. CASE PowerLoss
      <4>1. PICK n \in durable..Len(wal) : wal' = SubSeq(wal, 1, n)
        BY <3>2 DEF PowerLoss
      <4>2. durable \in Nat /\ Len(wal) \in Nat
        BY DEF TypeInv, TypeOK
      <4>3. n \in Nat /\ n <= Len(wal)
        BY <4>1, <4>2
      <4>. QED  BY <1>0, <4>1, <4>3
    <3>. QED  BY <1>4, <3>1, <3>2
  <2>2. UNCHANGED input /\ \A q \in Runs : stage'[q] = stage[q] \/ stage'[q] = "crashed"
    BY <1>0, <1>4 DEF ProcessCrash, PowerLoss, Restart
  <2>3. \A q \in Runs, a \in AgentIds : stage'[q] \in Before(a) => stage[q] \in Before(a)
    BY <2>2 DEF Before
  <2>. QED  BY <1>0, <2>1, <2>2, <2>3, PrefixRefs
<1>. QED  BY <1>1, <1>2, <1>3, <1>4, NextCases

LEMMA RefsInvariant == Spec => []RefsInv
BY InitRefs, NextRefs, TypeInvariant, EvidenceInvariant, PTL DEF Spec

LEMMA RefsAreCurrent ==
    ASSUME TypeInv, RefsInv, \A r, q \in Runs : TaskOf[r] = TaskOf[q] => r = q
    PROVE  EvidenceRefsCurrent
<1>. SUFFICES ASSUME TypeInv, RefsInv, NEW i \in DOMAIN wal, wal[i].kind = "handoff"
              PROVE  \E j \in 1..(i - 1) :
                         /\ Readable(j)
                         /\ SameKey(wal[j], [run |-> wal[i].run, kind |-> "hypothesis", ref |-> wal[i].ref,
                                            confidence |-> wal[i].confidence])
                         /\ wal[j].run = wal[i].run
                         /\ wal[j].confidence = wal[i].confidence
  BY DEF EvidenceRefsCurrent
<1>1. PICK j \in 1..(i - 1) : wal[j].run = wal[i].run /\ wal[j].kind = "hypothesis" /\ wal[j].ref = wal[i].ref
  BY DEF RefsInv, HandoffsRefer, Written
<1>2. DOMAIN wal = 1..Len(wal) /\ Len(wal) \in Nat /\ j \in DOMAIN wal
      /\ \A k \in DOMAIN wal : wal[k].run \in Runs
  <2>1. DOMAIN wal = 1..Len(wal) /\ Len(wal) \in Nat /\ \A k \in DOMAIN wal : wal[k] \in Record
    BY ElementOfSeq, LenProperties DEF TypeInv, TypeOK
  <2>. QED  BY <2>1 DEF Record
<1>3. wal[j].confidence = wal[i].confidence
  BY <1>1, <1>2 DEF RefsInv, ConfidencesDecided
<1>4. ASSUME NEW k \in DOMAIN wal, k > j, SameKey(wal[j], wal[k])  PROVE FALSE
  <2>1. wal[k].kind = "hypothesis" /\ TaskOf[wal[j].run] = TaskOf[wal[k].run] /\ wal[j].ref = wal[k].ref
    BY <1>1, <1>4 DEF SameKey
  <2>2. wal[j].run = wal[k].run
    BY <1>2, <2>1
  <2>. QED  BY <1>1, <1>2, <1>4, <2>1, <2>2 DEF RefsInv, HypothesesOnce
<1>5. SameKey(wal[j], [run |-> wal[i].run, kind |-> "hypothesis", ref |-> wal[i].ref,
                       confidence |-> wal[i].confidence])
  BY <1>1 DEF SameKey
<1>. QED  BY <1>1, <1>2, <1>3, <1>4, <1>5 DEF Readable

\* When every evaluation has a task id of its own, the evidence_refs of every
\* stored handoff read as the hypothesis it was decided on, for any number of
\* evaluations and through failures and restarts.
THEOREM RefsStayCurrent ==
    ASSUME \A r, q \in Runs : TaskOf[r] = TaskOf[q] => r = q
    PROVE  Spec => []EvidenceRefsCurrent
BY RefsAreCurrent, TypeInvariant, RefsInvariant, PTL
=========================================================================
