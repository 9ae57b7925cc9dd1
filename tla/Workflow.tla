--------------------------- MODULE Workflow ---------------------------
(***************************************************************************)
(* An AgentScript workflow: the compiled state machine, the engine that    *)
(* runs it, and the governor that suspends an execution in the store and   *)
(* resumes it with a human's decision.  Each thread builds an engine, and  *)
(* with it a governor and a store, whose __new__ and __init__ share one    *)
(* instance per path without a lock.  A thread then starts executions, or  *)
(* takes a human's decision to the governor and gives its engine the       *)
(* memory that comes back.  Prompts, alerts and the actions' work, which   *)
(* execute_workflow does not do, are left out.                             *)
(***************************************************************************)
EXTENDS Integers, Sequences

CONSTANTS
    Threads,      \* threads of the process, each with one engine
    Executions,   \* execution ids
    Script,       \* the steps of an AgentScript file, in order
    Entry,        \* its entry_state
    Decisions,    \* what a human may click
    None,         \* no state, no decision, no instance, no record
    MaxKills      \* bound: how often the process is killed

ASSUME ScriptAssumption ==
    \A i \in DOMAIN Script :
        DOMAIN Script[i] = {"state", "action", "allowed_transitions"}
ASSUME KillsAssumption == MaxKills \in Nat

VARIABLES
    registry,    \* _instances at the store's path: the thread that made the instance
    opened,      \* instances with a _db
    pc,          \* where each thread is
    instance,    \* the store instance each thread's governor holds
    memory,      \* human_override in the memory of each thread's engine
    execution,   \* the execution each thread runs or hydrates
    at,          \* current_state of each thread's execute_workflow
    decision,    \* the decision each thread is recording
    hitl,        \* the store's records hitl:{execution_id}
    asked,       \* history: executions that were ever suspended
    answered,    \* history: decisions ever recorded, with their execution
    latest,      \* history: per execution, the decision recorded last since it was suspended
    passed,      \* history: each engine's call has gone past an anomaly
    kills

storeVars == <<registry, opened, instance>>
engineVars == <<memory, execution, at, decision, passed>>
recordVars == <<hitl, asked, answered, latest>>
vars == <<pc, storeVars, engineVars, recordVars, kills>>

Building == {"new", "absent", "published", "returned", "unopened", "failed"}
Steps == Building \cup {"ready", "running", "hydrating"}
Record == [override: Decisions \cup {None}, status: {"PAUSED_PENDING_HUMAN", "RESUMED"}]
ASSUME NoneAssumption == None \notin Threads \cup Decisions \cup Record

-----------------------------------------------------------------------
(* compile_yaml_to_fsm: of two steps with one state the later one counts. *)

ScriptStates == {Script[i].state : i \in DOMAIN Script}
StepOf(s) ==
    LET last == CHOOSE i \in DOMAIN Script :
                    /\ Script[i].state = s
                    /\ \A j \in DOMAIN Script : Script[j].state = s => j <= i
    IN  Script[last]
Dag == [s \in ScriptStates |->
           [action_type |-> StepOf(s).action, next_allowed |-> StepOf(s).allowed_transitions]]

-----------------------------------------------------------------------
Go(t, from, to) == pc[t] = from /\ pc' = [pc EXCEPT ![t] = to]

Nobody == [t \in Threads |-> None]

Init ==
    /\ registry = None
    /\ opened = {}
    /\ pc = [t \in Threads |-> "new"]
    /\ instance = Nobody
    /\ memory = Nobody
    /\ execution = Nobody
    /\ at = Nobody
    /\ decision = Nobody
    /\ passed = [t \in Threads |-> FALSE]
    /\ hitl = [x \in Executions |-> None]
    /\ asked = {}
    /\ answered = {}
    /\ latest = [x \in Executions |-> None]
    /\ kills = 0

\* RocksDBStore.__new__ looks the path up ...
LookUp(t) ==
    /\ Go(t, "new", IF registry = None THEN "absent" ELSE "published")
    /\ UNCHANGED <<storeVars, engineVars, recordVars, kills>>

\* ... stores a new instance ...
Publish(t) ==
    /\ Go(t, "absent", "published")
    /\ registry' = t
    /\ UNCHANGED <<opened, instance, engineVars, recordVars, kills>>

\* ... and returns the one stored by then.
ReadBack(t) ==
    /\ Go(t, "published", "returned")
    /\ instance' = [instance EXCEPT ![t] = registry]
    /\ UNCHANGED <<registry, opened, engineVars, recordVars, kills>>

\* __init__ has nothing to do for an instance with a _db ...
CheckOpen(t) ==
    /\ Go(t, "returned", IF instance[t] \in opened THEN "ready" ELSE "unopened")
    /\ UNCHANGED <<storeVars, engineVars, recordVars, kills>>

\* Mutant: the database may be opened more than once.
OpenAgain(t) ==
    /\ Go(t, "unopened", "ready")
    /\ opened' = opened \cup {instance[t]}
    /\ UNCHANGED <<registry, instance, engineVars, recordVars, kills>>

\* ... and opens the database for one without.  RocksDB opens a path once.
Open(t) ==
    /\ IF opened = {}
       THEN Go(t, "unopened", "ready") /\ opened' = {instance[t]}
       ELSE Go(t, "unopened", "failed") /\ UNCHANGED opened
    /\ UNCHANGED <<registry, instance, engineVars, recordVars, kills>>

\* The exception of a failed construction reaches the thread, which may try again.
TryAgain(t) ==
    /\ Go(t, "failed", "new")
    /\ UNCHANGED <<storeVars, engineVars, recordVars, kills>>

-----------------------------------------------------------------------
\* execute_workflow is called, from the entry state also when it resumes.
Begin(t, x) ==
    /\ Go(t, "ready", "running")
    /\ execution' = [execution EXCEPT ![t] = x]
    /\ at' = [at EXCEPT ![t] = Entry]
    /\ passed' = [passed EXCEPT ![t] = FALSE]
    /\ UNCHANGED <<storeVars, memory, decision, recordVars, kills>>

\* A call of the engine or of the governor returns to its thread.
Leave(t, from) ==
    /\ Go(t, from, "ready")
    /\ execution' = [execution EXCEPT ![t] = None]

Anomaly(t) == at[t] \in DOMAIN Dag /\ Dag[at[t]].action_type = "ANOMALY_DETECTION"

\* Any decision in the memory lets the execution pass.
Stops(t) == Anomaly(t) /\ memory[t] = None

\* The first allowed transition is taken; a state of no step, or with no
\* transition, ends the workflow.
Step(t) ==
    /\ pc[t] = "running"
    /\ ~Stops(t)
    /\ IF at[t] \in DOMAIN Dag /\ Dag[at[t]].next_allowed # <<>>
       THEN /\ at' = [at EXCEPT ![t] = Head(Dag[@].next_allowed)]
            /\ UNCHANGED <<pc, execution>>
       ELSE /\ at' = [at EXCEPT ![t] = None]
            /\ Leave(t, "running")
    /\ passed' = [passed EXCEPT ![t] = @ \/ Anomaly(t)]
    /\ UNCHANGED <<storeVars, memory, decision, recordVars, kills>>

\* suspend_execution stores the engine's memory, and execute_workflow returns.
Suspend(t) ==
    /\ Stops(t)
    /\ Leave(t, "running")
    /\ hitl' = [hitl EXCEPT ![execution[t]] =
           [override |-> memory[t], status |-> "PAUSED_PENDING_HUMAN"]]
    /\ asked' = asked \cup {execution[t]}
    /\ latest' = [latest EXCEPT ![execution[t]] = None]
    /\ at' = [at EXCEPT ![t] = None]
    /\ UNCHANGED <<storeVars, memory, decision, passed, answered, kills>>

\* hydrate_and_resume reads the record, whatever its status, and raises
\* ValueError, which changes nothing, if there is none ...
Hydrate(t, x, d) ==
    /\ hitl[x] # None
    /\ Go(t, "ready", "hydrating")
    /\ execution' = [execution EXCEPT ![t] = x]
    /\ decision' = [decision EXCEPT ![t] = d]
    /\ UNCHANGED <<storeVars, memory, at, passed, recordVars, kills>>

\* Mutant: the record keeps its status.
ResumePaused(t) ==
    /\ Leave(t, "hydrating")
    /\ hitl' = [hitl EXCEPT ![execution[t]] =
           [override |-> decision[t], status |-> "PAUSED_PENDING_HUMAN"]]
    /\ answered' = answered \cup {<<execution[t], decision[t]>>}
    /\ latest' = [latest EXCEPT ![execution[t]] = decision[t]]
    /\ memory' = [memory EXCEPT ![t] = decision[t]]
    /\ decision' = [decision EXCEPT ![t] = None]
    /\ UNCHANGED <<storeVars, at, passed, asked, kills>>

\* ... writes it back with the decision, and returns it for the engine.
Resume(t) ==
    /\ Leave(t, "hydrating")
    /\ hitl' = [hitl EXCEPT ![execution[t]] = [override |-> decision[t], status |-> "RESUMED"]]
    /\ answered' = answered \cup {<<execution[t], decision[t]>>}
    /\ latest' = [latest EXCEPT ![execution[t]] = decision[t]]
    /\ memory' = [memory EXCEPT ![t] = decision[t]]
    /\ decision' = [decision EXCEPT ![t] = None]
    /\ UNCHANGED <<storeVars, at, passed, asked, kills>>

\* The process is killed; what was put in the store stays.
Kill ==
    /\ kills < MaxKills
    /\ kills' = kills + 1
    /\ registry' = None
    /\ opened' = {}
    /\ pc' = [t \in Threads |-> "new"]
    /\ instance' = Nobody
    /\ memory' = Nobody
    /\ execution' = Nobody
    /\ at' = Nobody
    /\ decision' = Nobody
    /\ passed' = [t \in Threads |-> FALSE]
    /\ UNCHANGED recordVars

Construct(t) == LookUp(t) \/ Publish(t) \/ ReadBack(t) \/ CheckOpen(t) \/ Open(t) \/ TryAgain(t)

Use(t) ==
    \/ \E x \in Executions : Begin(t, x) \/ \E d \in Decisions : Hydrate(t, x, d)
    \/ Step(t)
    \/ Suspend(t)
    \/ Resume(t)

Next == (\E t \in Threads : Construct(t) \/ Use(t)) \/ Kill

Spec == Init /\ [][Next]_vars

-----------------------------------------------------------------------
TypeOK ==
    /\ registry \in Threads \cup {None}
    /\ opened \subseteq Threads
    /\ pc \in [Threads -> Steps]
    /\ instance \in [Threads -> Threads \cup {None}]
    /\ memory \in [Threads -> Decisions \cup {None}]
    /\ decision \in [Threads -> Decisions \cup {None}]
    /\ hitl \in [Executions -> Record \cup {None}]
    /\ asked \subseteq Executions
    /\ answered \subseteq Executions \X Decisions
    /\ latest \in [Executions -> Decisions \cup {None}]
    /\ passed \in [Threads -> BOOLEAN]
    /\ execution \in [Threads -> Executions \cup {None}]
    /\ \A t \in Threads : pc[t] \in {"running", "hydrating"} => execution[t] \in Executions
    /\ \A t \in Threads : pc[t] = "hydrating" => decision[t] \in Decisions

\* The record of every execution that was ever suspended is in the store, through
\* kills and whatever threads suspend it or decide about it at once, and it is of
\* the last thing that happened: paused, with no decision, exactly if none was
\* recorded since the last suspension, and resumed with the latest one otherwise.
\* A new suspension, or a second decision, overwrites the one before.
RecordsTell ==
    \A x \in Executions :
        IF x \in asked
        THEN hitl[x] = [override |-> latest[x],
                        status |-> IF latest[x] = None THEN "PAUSED_PENDING_HUMAN" ELSE "RESUMED"]
        ELSE hitl[x] = None /\ latest[x] = None

\* The memory an engine carries, and the record a thread is about to write,
\* come from a suspended execution.
MemoryHeard ==
    \A t \in Threads :
        /\ memory[t] # None => \E x \in asked : <<x, memory[t]>> \in answered
        /\ pc[t] = "hydrating" => execution[t] \in asked
        /\ passed[t] => memory[t] # None

\* What OneHandle needs to be inductive: at most one instance is open, a
\* construction that got this far has an instance, and one that succeeded an
\* open one.
InstanceShared ==
    /\ \A i, j \in opened : i = j
    /\ \A t \in Threads :
        /\ pc[t] = "published" => registry # None
        /\ pc[t] \in {"returned", "unopened"} => instance[t] # None
        /\ pc[t] \notin Building => instance[t] \in opened

WorkflowInv == TypeOK /\ InstanceShared /\ RecordsTell /\ MemoryHeard

\* Constructions may race and fail, but those that succeed share one open
\* database: no two engines of a process work on different handles, and none
\* on an instance that __init__ has not opened.
OneHandle ==
    \A t, u \in Threads :
        pc[t] \notin Building /\ pc[u] \notin Building =>
            instance[t] = instance[u] /\ instance[t] \in opened

\* README: an execution is suspended for human approval before resuming.  So an
\* execution that is past an anomaly has been approved.
ApprovalBeforeResuming ==
    \A t \in Threads : passed[t] /\ pc[t] = "running" => <<execution[t], "Approve">> \in answered
=======================================================================
