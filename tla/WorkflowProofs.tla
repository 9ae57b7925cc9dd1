------------------------- MODULE WorkflowProofs -------------------------
(***************************************************************************)
(* Theorems about Workflow, for any script, threads, executions and kills: *)
(* the store knows the last thing that happened to an execution, and       *)
(* constructions that succeed share one open database.                     *)
(***************************************************************************)
EXTENDS Workflow, TLAPS

\* What a thread's move leaves of the program counters.
LEMMA GoMoves ==
  ASSUME TypeOK, NEW t \in Threads, NEW from, NEW to \in Steps, Go(t, from, to)
  PROVE  /\ pc' \in [Threads -> Steps]
         /\ pc[t] = from /\ pc'[t] = to
         /\ \A u \in Threads : u # t => pc'[u] = pc[u]
  BY DEF Go, TypeOK

LEMMA StepNames ==
  /\ Building \subseteq Steps
  /\ {"new", "absent", "published", "returned", "unopened", "failed"} \subseteq Steps
  /\ {"ready", "running", "hydrating"} \subseteq Steps
  /\ "ready" \notin Building /\ "running" \notin Building /\ "hydrating" \notin Building
  BY DEF Steps, Building

LEMMA InitInv == Init => WorkflowInv
  <1> SUFFICES ASSUME Init PROVE WorkflowInv
    OBVIOUS
  <1>1. /\ pc = [t \in Threads |-> "new"] /\ registry = None /\ opened = {}
        /\ instance = [t \in Threads |-> None] /\ memory = [t \in Threads |-> None]
        /\ decision = [t \in Threads |-> None] /\ execution = [t \in Threads |-> None]
        /\ hitl = [x \in Executions |-> None] /\ asked = {} /\ answered = {}
        /\ latest = [x \in Executions |-> None]
    BY DEF Init, Nobody
  <1>2. passed \in [Threads -> BOOLEAN] /\ \A t \in Threads : ~passed[t]
    BY Zenon DEF Init
  <1>3. TypeOK
    BY <1>1, <1>2, StepNames DEF TypeOK
  <1>4. InstanceShared
    BY <1>1 DEF InstanceShared, Building
  <1>5. RecordsTell
    BY <1>1 DEF RecordsTell
  <1>6. MemoryHeard
    BY <1>1, <1>2 DEF MemoryHeard
  <1>7. QED BY <1>3, <1>4, <1>5, <1>6 DEF WorkflowInv

-----------------------------------------------------------------------
(* Construction of the store: nothing of the engine or a record changes,   *)
(* and the thread is in Building unless it succeeds.                       *)

\* What a step of a construction has to establish.
LEMMA Constructs ==
  ASSUME WorkflowInv, NEW t \in Threads, NEW from \in Building, NEW to \in Building \cup {"ready"},
         Go(t, from, to),
         UNCHANGED <<engineVars, recordVars>>,
         registry' \in Threads \cup {None}, opened' \subseteq Threads,
         instance' \in [Threads -> Threads \cup {None}],
         \A u \in Threads : u # t => instance'[u] = instance[u],
         \A i, j \in opened' : i = j,
         opened \subseteq opened',
         registry = registry' \/ registry' # None,
         to = "published" => registry' # None,
         to \in {"returned", "unopened"} => instance'[t] # None,
         to = "ready" => instance'[t] \in opened'
  PROVE  WorkflowInv'
  <1>1. to \in Steps /\ to \notin {"running", "hydrating"}
    BY StepNames DEF Building
  <1>2. /\ pc' \in [Threads -> Steps] /\ pc'[t] = to
        /\ \A u \in Threads : u # t => pc'[u] = pc[u]
    BY <1>1, GoMoves DEF WorkflowInv
  <1>3. /\ memory' = memory /\ execution' = execution /\ at' = at /\ decision' = decision
        /\ passed' = passed /\ hitl' = hitl /\ asked' = asked /\ answered' = answered /\ latest' = latest
    BY DEF engineVars, recordVars
  <1>4. TypeOK'
    BY <1>1, <1>2, <1>3 DEF WorkflowInv, TypeOK
  <1>5. InstanceShared'
    BY <1>2, StepNames DEF WorkflowInv, InstanceShared
  <1>6. RecordsTell'
    BY <1>3 DEF WorkflowInv, RecordsTell
  <1>7. MemoryHeard'
    BY <1>1, <1>2, <1>3 DEF WorkflowInv, MemoryHeard
  <1>8. QED BY <1>4, <1>5, <1>6, <1>7 DEF WorkflowInv

\* Whichever thread looks up, publishes or opens first.
LEMMA ConstructKeeps ==
  ASSUME WorkflowInv, NEW t \in Threads, Construct(t)
  PROVE  WorkflowInv'
  <1>0. TypeOK /\ InstanceShared
    BY DEF WorkflowInv
  <1>1. CASE LookUp(t)
    <2>1. PICK to \in {"absent", "published"} :
              Go(t, "new", to) /\ (to = "published" => registry # None)
      BY <1>1 DEF LookUp
    <2>2. UNCHANGED <<registry, opened, instance, engineVars, recordVars>>
      BY <1>1 DEF LookUp, storeVars
    <2>3. QED BY <1>0, <2>1, <2>2, Constructs DEF Building, TypeOK, InstanceShared
  <1>2. CASE Publish(t)
    <2>1. Go(t, "absent", "published") /\ registry' = t
      BY <1>2 DEF Publish
    <2>2. UNCHANGED <<opened, instance, engineVars, recordVars>>
      BY <1>2 DEF Publish
    <2>3. QED BY <1>0, <2>1, <2>2, Constructs, NoneAssumption DEF Building, TypeOK, InstanceShared
  <1>3. CASE ReadBack(t)
    <2>1. Go(t, "published", "returned") /\ pc[t] = "published"
      BY <1>3 DEF ReadBack, Go
    <2>2. UNCHANGED <<registry, opened, engineVars, recordVars>>
      BY <1>3 DEF ReadBack
    <2>3. /\ instance' \in [Threads -> Threads \cup {None}] /\ instance'[t] = registry
          /\ \A u \in Threads : u # t => instance'[u] = instance[u]
      BY <1>0, <1>3 DEF ReadBack, TypeOK
    <2>4. registry # None
      BY <1>0, <2>1 DEF InstanceShared
    <2>5. QED BY <1>0, <2>1, <2>2, <2>3, <2>4, Constructs DEF Building, TypeOK, InstanceShared
  <1>4. CASE CheckOpen(t)
    <2>1. PICK to \in {"ready", "unopened"} :
              Go(t, "returned", to) /\ (to = "ready" => instance[t] \in opened)
      BY <1>4 DEF CheckOpen
    <2>2. UNCHANGED <<registry, opened, instance, engineVars, recordVars>>
      BY <1>4 DEF CheckOpen, storeVars
    <2>3. instance[t] # None
      BY <1>0, <2>1 DEF InstanceShared, Go
    <2>4. QED BY <1>0, <2>1, <2>2, <2>3, Constructs DEF Building, TypeOK, InstanceShared
  <1>5. CASE Open(t)
    <2>1. UNCHANGED <<registry, instance, engineVars, recordVars>>
      BY <1>5 DEF Open
    <2>2. CASE opened = {}
      <3>1. Go(t, "unopened", "ready") /\ opened' = {instance[t]}
        BY <1>5, <2>2 DEF Open
      <3>2. instance[t] \in Threads
        BY <1>0, <3>1 DEF InstanceShared, TypeOK, Go
      <3>3. QED BY <1>0, <2>1, <2>2, <3>1, <3>2, Constructs DEF Building, TypeOK
    <2>3. CASE opened # {}
      <3>1. Go(t, "unopened", "failed") /\ opened' = opened
        BY <1>5, <2>3 DEF Open
      <3>2. QED BY <1>0, <2>1, <3>1, Constructs DEF Building, TypeOK, InstanceShared
    <2>4. QED BY <2>2, <2>3
  <1>6. CASE TryAgain(t)
    <2>1. Go(t, "failed", "new") /\ UNCHANGED <<registry, opened, instance, engineVars, recordVars>>
      BY <1>6 DEF TryAgain, storeVars
    <2>2. QED BY <1>0, <2>1, Constructs DEF Building, TypeOK, InstanceShared
  <1>7. QED BY <1>1, <1>2, <1>3, <1>4, <1>5, <1>6 DEF Construct

-----------------------------------------------------------------------
(* The engine and the governor: the store's instance stays. *)

\* A thread with an engine keeps its instance whatever the engine does.
LEMMA UseShares ==
  ASSUME WorkflowInv, NEW t \in Threads, NEW from \in {"ready", "running", "hydrating"},
         NEW to \in {"ready", "running", "hydrating"},
         Go(t, from, to) \/ (pc[t] = from /\ pc' = pc), UNCHANGED storeVars
  PROVE  InstanceShared' /\ pc' \in [Threads -> Steps]
  <1>1. /\ pc' \in [Threads -> Steps] /\ pc[t] = from /\ pc'[t] \in {from, to}
        /\ \A u \in Threads : u # t => pc'[u] = pc[u]
    BY StepNames, GoMoves DEF WorkflowInv, TypeOK
  <1>2. registry' = registry /\ opened' = opened /\ instance' = instance
    BY DEF storeVars
  <1>3. QED BY <1>1, <1>2, StepNames DEF WorkflowInv, InstanceShared

LEMMA BeginKeeps ==
  ASSUME WorkflowInv, NEW t \in Threads, NEW x \in Executions, Begin(t, x)
  PROVE  WorkflowInv'
  <1>1. Go(t, "ready", "running") /\ UNCHANGED storeVars
    BY DEF Begin
  <1>2. InstanceShared' /\ pc' \in [Threads -> Steps]
    BY <1>1, UseShares
  <1>3. /\ pc'[t] = "running" /\ \A u \in Threads : u # t => pc'[u] = pc[u]
    BY <1>1, GoMoves, StepNames DEF WorkflowInv
  <1>4. /\ execution' \in [Threads -> Executions \cup {None}] /\ execution'[t] = x
        /\ \A u \in Threads : u # t => execution'[u] = execution[u]
    BY DEF Begin, WorkflowInv, TypeOK
  <1>5. /\ passed' \in [Threads -> BOOLEAN] /\ ~passed'[t]
        /\ \A u \in Threads : u # t => passed'[u] = passed[u]
    BY Zenon DEF Begin, WorkflowInv, TypeOK
  <1>6. /\ memory' = memory /\ decision' = decision /\ hitl' = hitl
        /\ asked' = asked /\ answered' = answered /\ latest' = latest
        /\ registry' = registry /\ opened' = opened /\ instance' = instance
    BY DEF Begin, recordVars, storeVars
  <1>7. TypeOK'
    BY <1>2, <1>3, <1>4, <1>5, <1>6 DEF WorkflowInv, TypeOK
  <1>8. RecordsTell'
    BY <1>6 DEF WorkflowInv, RecordsTell
  <1>9. MemoryHeard'
    BY <1>3, <1>4, <1>5, <1>6 DEF WorkflowInv, MemoryHeard
  <1>10. QED BY <1>2, <1>7, <1>8, <1>9 DEF WorkflowInv

\* A record that can be read is one of a suspended execution.
LEMMA HydrateKeeps ==
  ASSUME WorkflowInv, NEW t \in Threads, NEW x \in Executions, NEW d \in Decisions, Hydrate(t, x, d)
  PROVE  WorkflowInv'
  <1>1. Go(t, "ready", "hydrating") /\ UNCHANGED storeVars
    BY DEF Hydrate
  <1>2. InstanceShared' /\ pc' \in [Threads -> Steps]
    BY <1>1, UseShares
  <1>3. /\ pc'[t] = "hydrating" /\ \A u \in Threads : u # t => pc'[u] = pc[u]
    BY <1>1, GoMoves, StepNames DEF WorkflowInv
  <1>4. /\ execution' \in [Threads -> Executions \cup {None}] /\ execution'[t] = x
        /\ decision' \in [Threads -> Decisions \cup {None}] /\ decision'[t] = d
        /\ \A u \in Threads : u # t => execution'[u] = execution[u] /\ decision'[u] = decision[u]
    BY DEF Hydrate, WorkflowInv, TypeOK
  <1>5. /\ memory' = memory /\ passed' = passed /\ hitl' = hitl
        /\ asked' = asked /\ answered' = answered /\ latest' = latest
        /\ registry' = registry /\ opened' = opened /\ instance' = instance
    BY DEF Hydrate, recordVars, storeVars
  <1>6. x \in asked
    BY DEF Hydrate, WorkflowInv, RecordsTell
  <1>7. TypeOK'
    BY <1>2, <1>3, <1>4, <1>5 DEF WorkflowInv, TypeOK
  <1>8. RecordsTell'
    BY <1>5 DEF WorkflowInv, RecordsTell
  <1>9. MemoryHeard'
    BY <1>3, <1>4, <1>5, <1>6 DEF WorkflowInv, MemoryHeard
  <1>10. QED BY <1>2, <1>7, <1>8, <1>9 DEF WorkflowInv

\* An anomaly that does not stop the engine finds a decision in its memory.
LEMMA StepKeeps ==
  ASSUME WorkflowInv, NEW t \in Threads, Step(t)
  PROVE  WorkflowInv'
  <1>1. PICK to \in {"ready", "running"} : Go(t, "running", to) \/ (pc[t] = "running" /\ pc' = pc)
    BY DEF Step, Leave
  <1>2. UNCHANGED storeVars
    BY DEF Step
  <1>3. InstanceShared' /\ pc' \in [Threads -> Steps]
    BY <1>1, <1>2, UseShares
  <1>4. /\ pc[t] = "running" /\ pc'[t] \in {"ready", "running"}
        /\ \A u \in Threads : u # t => pc'[u] = pc[u]
    BY <1>1, GoMoves, StepNames DEF WorkflowInv
  <1>5. /\ execution' \in [Threads -> Executions \cup {None}]
        /\ pc'[t] = "running" => execution'[t] = execution[t]
        /\ \A u \in Threads : u # t => execution'[u] = execution[u]
    BY GoMoves, StepNames DEF Step, Leave, WorkflowInv, TypeOK
  <1>6. /\ passed' \in [Threads -> BOOLEAN]
        /\ passed'[t] => passed[t] \/ Anomaly(t)
        /\ \A u \in Threads : u # t => passed'[u] = passed[u]
    <2>1. passed' = [passed EXCEPT ![t] = @ \/ Anomaly(t)] /\ passed \in [Threads -> BOOLEAN]
      BY Zenon DEF Step, WorkflowInv, TypeOK
    <2>2. passed[t] \/ Anomaly(t) \in BOOLEAN
      BY Zenon DEF Anomaly
    <2>3. QED BY <2>1, <2>2, Zenon
  <1>7. /\ memory' = memory /\ decision' = decision /\ hitl' = hitl
        /\ asked' = asked /\ answered' = answered /\ latest' = latest
        /\ registry' = registry /\ opened' = opened /\ instance' = instance
    BY DEF Step, recordVars, storeVars
  <1>8. TypeOK'
    BY <1>3, <1>4, <1>5, <1>6, <1>7 DEF WorkflowInv, TypeOK
  <1>9. RecordsTell'
    BY <1>7 DEF WorkflowInv, RecordsTell
  <1>10. passed'[t] => memory[t] # None
    BY <1>6 DEF Step, Stops, WorkflowInv, MemoryHeard
  <1>11. MemoryHeard'
    BY <1>4, <1>5, <1>6, <1>7, <1>10 DEF WorkflowInv, MemoryHeard
  <1>12. QED BY <1>3, <1>8, <1>9, <1>11 DEF WorkflowInv

\* What a call that returns to its thread leaves.
LEMMA LeaveKeeps ==
  ASSUME WorkflowInv, NEW t \in Threads, NEW from \in {"running", "hydrating"}, Leave(t, from),
         UNCHANGED storeVars
  PROVE  /\ InstanceShared' /\ pc' \in [Threads -> Steps]
         /\ pc[t] = from /\ pc'[t] = "ready" /\ execution[t] \in Executions
         /\ execution' \in [Threads -> Executions \cup {None}]
         /\ \A u \in Threads : u # t => pc'[u] = pc[u] /\ execution'[u] = execution[u]
  <1>1. Go(t, from, "ready")
    BY DEF Leave
  <1>2. InstanceShared' /\ pc' \in [Threads -> Steps]
    BY <1>1, UseShares
  <1>3. /\ pc[t] = from /\ pc'[t] = "ready" /\ \A u \in Threads : u # t => pc'[u] = pc[u]
    BY <1>1, GoMoves, StepNames DEF WorkflowInv
  <1>4. QED BY <1>2, <1>3 DEF Leave, WorkflowInv, TypeOK

LEMMA SuspendKeeps ==
  ASSUME WorkflowInv, NEW t \in Threads, Suspend(t)
  PROVE  WorkflowInv'
  <1> DEFINE x == execution[t]
             record == [override |-> memory[t], status |-> "PAUSED_PENDING_HUMAN"]
  <1>1. /\ InstanceShared' /\ pc' \in [Threads -> Steps]
        /\ pc[t] = "running" /\ pc'[t] = "ready" /\ x \in Executions
        /\ execution' \in [Threads -> Executions \cup {None}]
        /\ \A u \in Threads : u # t => pc'[u] = pc[u] /\ execution'[u] = execution[u]
    BY LeaveKeeps DEF Suspend
  <1>2. /\ memory' = memory /\ decision' = decision /\ passed' = passed /\ answered' = answered
        /\ registry' = registry /\ opened' = opened /\ instance' = instance
        /\ asked' = asked \cup {x}
    BY DEF Suspend, storeVars
  <1>3. memory[t] = None
    BY DEF Suspend, Stops
  <1>4. record \in Record /\ record = [override |-> None, status |-> "PAUSED_PENDING_HUMAN"]
    BY <1>3, NoneAssumption DEF Record
  <1>5. /\ hitl' \in [Executions -> Record \cup {None}] /\ hitl'[x] = record
        /\ \A y \in Executions : y # x => hitl'[y] = hitl[y]
    BY <1>1, <1>4 DEF Suspend, WorkflowInv, TypeOK
  <1>l. /\ latest' \in [Executions -> Decisions \cup {None}] /\ latest'[x] = None
        /\ \A y \in Executions : y # x => latest'[y] = latest[y]
    BY <1>1 DEF Suspend, WorkflowInv, TypeOK
  <1>6. TypeOK'
    BY <1>1, <1>2, <1>5, <1>l DEF WorkflowInv, TypeOK
  <1>7. RecordsTell'
    BY <1>1, <1>2, <1>4, <1>5, <1>l DEF WorkflowInv, RecordsTell
  <1>8. MemoryHeard'
    BY <1>1, <1>2 DEF WorkflowInv, MemoryHeard
  <1>9. QED BY <1>1, <1>6, <1>7, <1>8 DEF WorkflowInv

LEMMA ResumeKeeps ==
  ASSUME WorkflowInv, NEW t \in Threads, Resume(t)
  PROVE  WorkflowInv'
  <1> DEFINE x == execution[t]
             d == decision[t]
             record == [override |-> d, status |-> "RESUMED"]
  <1>1. /\ InstanceShared' /\ pc' \in [Threads -> Steps]
        /\ pc[t] = "hydrating" /\ pc'[t] = "ready" /\ x \in Executions
        /\ execution' \in [Threads -> Executions \cup {None}]
        /\ \A u \in Threads : u # t => pc'[u] = pc[u] /\ execution'[u] = execution[u]
    BY LeaveKeeps DEF Resume
  <1>2. d \in Decisions /\ d # None /\ x \in asked
    BY <1>1, NoneAssumption DEF WorkflowInv, TypeOK, MemoryHeard
  <1>3. /\ passed' = passed /\ asked' = asked /\ answered' = answered \cup {<<x, d>>}
        /\ registry' = registry /\ opened' = opened /\ instance' = instance
    BY DEF Resume, storeVars
  <1>4. /\ memory' \in [Threads -> Decisions \cup {None}] /\ memory'[t] = d
        /\ decision' \in [Threads -> Decisions \cup {None}]
        /\ \A u \in Threads : u # t => memory'[u] = memory[u] /\ decision'[u] = decision[u]
    BY <1>2 DEF Resume, WorkflowInv, TypeOK
  <1>5. record \in Record /\ record = [override |-> d, status |-> "RESUMED"]
    BY <1>2, NoneAssumption DEF Record
  <1>6. /\ hitl' \in [Executions -> Record \cup {None}] /\ hitl'[x] = record
        /\ \A y \in Executions : y # x => hitl'[y] = hitl[y]
    BY <1>1, <1>5 DEF Resume, WorkflowInv, TypeOK
  <1>l. /\ latest' \in [Executions -> Decisions \cup {None}] /\ latest'[x] = d
        /\ \A y \in Executions : y # x => latest'[y] = latest[y]
    BY <1>1, <1>2 DEF Resume, WorkflowInv, TypeOK
  <1>7. TypeOK'
    BY <1>1, <1>2, <1>3, <1>4, <1>6, <1>l DEF WorkflowInv, TypeOK
  <1>8. RecordsTell'
    BY <1>1, <1>2, <1>3, <1>5, <1>6, <1>l DEF WorkflowInv, RecordsTell
  <1>9. MemoryHeard'
    BY <1>1, <1>2, <1>3, <1>4 DEF WorkflowInv, MemoryHeard
  <1>10. QED BY <1>1, <1>7, <1>8, <1>9 DEF WorkflowInv

\* A kill leaves the records, and no thread remembers anything.
LEMMA KillKeeps == ASSUME WorkflowInv, Kill PROVE WorkflowInv'
  <1>1. /\ pc' = [t \in Threads |-> "new"] /\ registry' = None /\ opened' = {}
        /\ instance' = [t \in Threads |-> None] /\ memory' = [t \in Threads |-> None]
        /\ decision' = [t \in Threads |-> None] /\ execution' = [t \in Threads |-> None]
        /\ hitl' = hitl /\ asked' = asked /\ answered' = answered /\ latest' = latest
    BY DEF Kill, Nobody, recordVars
  <1>2. passed' \in [Threads -> BOOLEAN] /\ \A t \in Threads : ~passed'[t]
    BY Zenon DEF Kill
  <1>3. TypeOK'
    BY <1>1, <1>2, StepNames DEF WorkflowInv, TypeOK
  <1>4. InstanceShared'
    BY <1>1 DEF InstanceShared, Building
  <1>5. RecordsTell'
    BY <1>1 DEF WorkflowInv, RecordsTell
  <1>6. MemoryHeard'
    BY <1>1, <1>2 DEF MemoryHeard
  <1>7. QED BY <1>3, <1>4, <1>5, <1>6 DEF WorkflowInv

\* For any script, threads and kills: the store has the record of every execution
\* ever suspended, paused exactly if no decision was recorded since and resumed
\* with the latest one otherwise, and an engine's memory comes from a recorded
\* decision.
THEOREM WorkflowSafety == Spec => []WorkflowInv
  <1>1. WorkflowInv /\ [Next]_vars => WorkflowInv'
    <2> SUFFICES ASSUME WorkflowInv, [Next]_vars PROVE WorkflowInv'
      OBVIOUS
    <2>1. ASSUME NEW t \in Threads, Use(t) PROVE WorkflowInv'
      BY <2>1, BeginKeeps, HydrateKeeps, StepKeeps, SuspendKeeps, ResumeKeeps DEF Use
    <2>2. CASE UNCHANGED vars
      BY <2>2 DEF vars, storeVars, engineVars, recordVars, WorkflowInv, TypeOK, InstanceShared,
                  RecordsTell, MemoryHeard
    <2>3. QED BY <2>1, <2>2, ConstructKeeps, KillKeeps DEF Next
  <1>2. QED BY <1>1, InitInv, PTL DEF Spec

\* However constructions race, the engines of a process share one open store.
THEOREM OneHandleHolds == Spec => []OneHandle
  <1>1. WorkflowInv => OneHandle
    BY DEF WorkflowInv, InstanceShared, OneHandle
  <1>2. QED BY <1>1, WorkflowSafety, PTL
=========================================================================
