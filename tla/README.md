# TensorMesh in TLA+

A verification development of TensorMesh, the mineral exploration and supply-chain platform in `src/`: TLA+
modules translated from its source, TLC configurations that check them on small instances, and theorems about
them, for every value of their constants, that TLAPS checks. Paths below are relative to `src/`.

## 1. The system and its hard parts

| Component | State it keeps | Operations | What makes it correct |
|---|---|---|---|
| **Geological reasoning mesh** `tensormesh/agents/reasoning_mesh.py` and the agents it calls | the records it puts in the checkpoint column family; the active-agents gauge and the violation counter | `evaluate_deposit`, `evaluate_deposit_async`: two agents in worker threads, checkpoints, a confidence gate, two handoffs, a verdict | a stored verdict has its evidence; the gate cannot be passed by; an acknowledged verdict survives a killed process; the gauge counts the agents that are awaited; every evaluation ends |
| **Checkpoint store** `tensormesh/storage/rocksdb_store.py`, `tensormesh-compute/src/rocksdb_bridge.cpp` | column families of a RocksDB database; one instance per path in a process | `put`, `get`, `scan`, `delete` | a put is read back; a killed process keeps it; two threads get one instance |
| **API orchestration** `tensormesh/api/main.py` | the process-wide vault, mesh, tracer and limiter | request handlers, run in the threads of a pool | requests do not see each other's results |
| **Token vault** `tensormesh/security/token_vault.py` | a counter and tokens in Redis, tokens in its own store, a connection it may give up | `redact_and_tokenize`, `rehydrate` | no sensitive value leaves as it was; what comes back is restored exactly |
| **Cryptographic tracer** `tensormesh/telemetry/tracer.py` | the hash of the last span; spans in the secure-state column family | `log_span`, `trace_log`, `verify_trace_integrity` | a span that says something else fails the audit, an unaltered log passes |
| **Rate limiter** `tensormesh/resilience/rate_limiter.py` | a window of call times in Redis, or in the process | `allow` | at most the limit in a window |
| **Circuit breaker** `tensormesh/resilience/circuit_breaker.py` | failures, last failure time, state | `execute` | it opens after enough failures and only then, and is tried again |
| **Workflow engine and human approval** `tensormesh/agents/fsm_engine.py`, `governance/hitl_pause.py`, `compiler/agentscript.py` | the engine's state and memory; paused executions | compiling a script, `execute`, `check_policy_violation`, `process_human_decision` | an anomaly waits for a human's approval (it does not, section 6); the record of an execution says what happened to it last, through kills |
| **Guardrails** `tensormesh/security/guardrails.py` | none | input and output validation | blocked terms do not pass |
| **gRPC corridor service** `tensormesh/grpc/service.py` | audits in the checkpoint column family | `AuditCorridor` | an answered call has stored its audit |
| **AIS stream ingest** `services/ais-ingest/` | voyages per vessel in session windows | the Kafka Streams topology and the audit call | every voyage is audited with all of its pings, at least once, while the application runs and its store retains the voyage |
| **Loki log handler** `tensormesh/telemetry/logging.py` | a buffer of log lines and two locks | `emit`, `flush` | a failing Loki loses no line, and none is delivered twice unless Loki answers too late |
| **Semantic cache** `tensormesh/security/semantic_cache.py` | queries with their embeddings | `get`, `set` | an answer is that of a query near enough |
| **MCP tools** `tensormesh/mcp/server.py` | none | strata, assay, dependency and shipping reports | each report follows from its input |
| **Morton codes** `tensormesh-compute/src/spatial_morton.cpp` | none | encode, decode | they are inverse at their real width |

Section 7 has what is not modelled, and the components without state of their own: the supply-chain graph, the
evaluator, exporters of metrics and traces, machine learning and simulation, the seismic kernels and the frontend.

How they interact. FastAPI runs each synchronous handler of `api/main.py` in a thread of its pool, so everything
that is global in the process is shared by threads: the mesh, the tracer, the vault and the limiter are each one
object, and only the limiter's local window and the log handler have a lock. All persistent state of a process
goes through one RocksDB instance, whose puts are not synced: a killed process loses nothing (the log is in the
page cache), a machine that loses power loses the end of the log. Redis is shared by processes, and each of its
clients gives it up for good at the first call that raises. The mesh runs its agents in worker threads under an
event loop. What is left of a failed gather runs on under a caller's own loop; under `asyncio.run` its coroutine is
cancelled and counted down, but nothing stops its thread, for which the loop waits before the caller gets the
exception. The ingest calls the gRPC service across a network and lets an exception end the stream thread. No handler
is set for it and nothing in the repository starts the application again; whoever does, starts it over the last
committed offsets.

What is hard to test in this code is listed line by line in `PROJECT.json` under `hazards`. In short:

- *interleavings*: several evaluations of one deposit share a task id, and so keys (`api/main.py:220`); the
  tracer reads the head of the chain twice and writes it after the put (`tracer.py:23-48`); the vault counts
  tokens before it puts one (`token_vault.py:46`); the circuit breaker has no lock;
- *crashes*: twelve puts lead to a verdict; puts are unsynced; metrics and executions live in memory;
- *partial failure*: a put that raises between two others, one agent of a gather that raises, a Redis that fails
  between an increment and a put, or performs a call whose reply is lost;
- *order*: spans are keyed by a wall clock that may step back; the gate runs after both agents have finished;
- *liveness*: an evaluation waits for threads that may raise; the gauge must come back to zero.

## 2. Plan

Modules, most important behaviour first. The ones marked *done* are in this directory.

| # | Module | Content | Runs and bounds | To prove |
|---|---|---|---|---|
| 1 | `Agents`, `ReasoningMesh` *done* | the evaluation, its store and its faults | two evaluations, one crash | types, evidence, gate, durability |
| 2 | `TraceChain` *done* | the hash chain, writers, audit, reload | two writers, one restart | links, exactness of the audit |
| 3 | `TokenVault` *done* | redaction, two stores, failover | three calls, two processes | round trip, nothing unredacted, no dangling token |
| 4 | `RateLimiter` *done* | `allow` step by step, Redis and local window, real time | four calls, two processes | the bound on admissions |
| 5 | `BreakerContract`, `CircuitBreaker` *done* | the breaker's promise; `execute` access by access | two threads, threshold 3 | refinement while callers take turns; no opening unearned |
| 6 | `Workflow` *done* | compiled script, racing constructions of the store, engine, suspension, decision | two threads, two executions, one kill | one open store; what the records tell |
| 7 | `CorridorService`, `AisIngest` *done* | sessions, merges, cache, commits, replay; the audit and its key | two vessels, five pings, one start after a stop | sessions are voyages, no ping lost to a commit |
| 8 | `LogHandler` *done* | buffer, locks, posts that fail | inside `DepositApi` | who has each record |
| 9 | `McpTools`, `DepositApi` *done* | the handlers, composed with mesh, tools, log handler and trace log | two evaluations beside another call | the answer's keys, risks under outages, fresh spans, the mesh and the log handler inside |
| 10 | `SemanticCache` | set and get over an abstract distance | three queries | - |
| 11 | `Morton`, `Guardrails` | pure algorithms against reference definitions | full width by parts | the laws that need no induction |

`MC...` modules hold the small instances, `...Proofs` modules the theorems. `ReasoningMesh` extends `Agents`,
`AisIngest` extends `CorridorService`, and `DepositApi` extends `ReasoningMesh`, `McpTools` and `LogHandler`, so that
their steps run in one state. `CircuitBreaker` instantiates `BreakerContract` under a refinement mapping. Abstract
specifications still worth stating: an atomic evaluation for `ReasoningMesh`, an append-only ledger for `TraceChain`
with one writer, and a set of admission times for `RateLimiter`.

## 3. How the models correspond to the code

`PROJECT.json`, `map`, names the source lines of every definition. The conventions are the same everywhere:

- An action is what one thread does between two points where another can observe or disturb it: a put, a Redis
  call, a read of a shared attribute, the return of a worker thread. Local computation between two such points
  belongs to the action before or after it. A step that may raise has a second action for the exception.
- A store is modelled by its log. `put` appends; a key reads as its last record; `ProcessCrash` keeps the log,
  `PowerLoss` (and `Reload` of `TraceChain`) keeps a prefix at least as long as what an earlier recovery has
  made durable.
- Definitions whose comment begins with `Mutant:` are not part of a model. Each is a plausible mistake in the
  action after it, and a property of the runs fails when it takes that action's place.

**`Agents`** - the geochemist, the structural geologist, the economic assessor and
`MultiAgentSupervisor.evaluate_handoff`, as operators. Confidences are whole percents; the viability score is a
ratio of integers, compared without rounding. Figures that no decision reads (volumes, trajectories, texts) are
left out.

**`ReasoningMesh`** - one run is one call of `evaluate_deposit` or `evaluate_deposit_async`.

| Variable | Code |
|---|---|
| `stage[r]` | the statement of `evaluate_deposit_async` the run is at; `blocked`, `failed` and `returned` are its ways out |
| `agent[r][a]` | the coroutine `run_geochemist` or a sibling, and its worker thread: `running` is both, `orphaned` a thread whose coroutine was cancelled, `cancelled` neither |
| `voxel[r]` | the loop counter of `_store_voxels` |
| `wal`, `durable` | the checkpoint column family and what is certainly on disk |
| `gauge`, `violations` | `tensormesh_active_agents`, `tensormesh_dfars_violations_total` |
| `struck` | history: the evaluations that had returned when the machine lost power |
| `input[r].caller` | `evaluate_deposit` from a thread, `evaluate_deposit_async` on a caller's loop, or the refused `evaluate_deposit` inside a loop |

`Start` puts both agents of the gather in flight at once because both coroutines run up to their thread in one
pass of the loop. `Unwind` separates `asyncio.run`, which cancels the other agent's coroutine, from a caller's loop,
which does not. The `finally` of a cancelled coroutine counts the agent down while `asyncio.to_thread`'s thread computes
on (`ThreadEnds`), and `asyncio.run` returns only after it (`unwinding`, `ThreadsJoined`): the metric may be below the
number of threads, but not once the caller has its exception. `SameKey` holds the key formats: a handoff's ends in a
fresh uuid, a voxel's carries no task id. A key reads as its last record (`Readable`), so under a shared task id an
evaluation replaces what another one stored, and `Stands` says of a record that it reads, or that *another* evaluation
replaced it. This is all that a verdict's evidence and an acknowledged verdict can be promised there; with task ids
of their own the evidence reads as it was put, but for voxels (`OwnTaskEvidenceReads`).

**`TraceChain`** - `HashPayload`, `LinkParent`, `Stamp`, `PutSpan`, `AdvanceHead` are the five points of
`log_span` at which a thread reads or writes what threads share. SHA-256 is injective: a hash is the sequence of
payloads hashed so far. A stamp is a nanosecond with the number of times the clock was set back before, which
stands for the hash that ends the key and orders two spans of one nanosecond. `logged` is a history variable.
`SpanChanged` alters what a stored span says, its `timestamp` or its `parent_hash`; the audit hashes the first and
not the other two (`tracer.py:32`, `tracer.py:50-62`). `AuditExact` states just that, as an equivalence, so that an
altered timestamp or parent, and an end of the log that is gone, pass.

**`TokenVault`** - `DrawFromRedis` / `DrawFromStore` are `_next_token_counter`, `PutInRedis` / `PutInStore` are
`_put_token` with the replacement in the text and the step to the next match. `LoseRedis` is either `except`
clause; `LoseReply` is the same when Redis had performed the call. `Rehydrated` is the order in which
`rehydrate` finds a token. `str.replace` also finds a value inside longer ones, the pairs of `Inside`: there it leaves a
token beside the rest of the longer value, whose own match then replaces nothing, though it is drawn and recorded.
`pieces` has the tokens in the place of each value, and `NothingUnredacted` says what is left: no value as it was, and
one that is not wholly a token only if an earlier match lies inside it, as `,000` of `$1,000` is left after a match of
`$1`. Three assumptions: every vault reads one key file, no value holds the text of a token, and what is left of a
broken value matches no later pattern.

**`RateLimiter`** - one call of `allow`, for one identifier; windows of different identifiers share nothing.

| Variable | Code |
|---|---|
| `pc[c]` | `remote` between the reads of the clock and of `self.redis` and the answer, `local` before the lock, `admitted` or `denied` by what is returned |
| `now[c]`, `member[c]` | `now`, and the member of the sorted set it makes with `id(self)`; two calls that read one instant may make one member |
| `remote`, `expiry`, `era` | the sorted set under `tensormesh:rate:...`, the end `EXPIRE` gives it, and how often Redis has restarted empty |
| `window[p]`, `connected[p]` | the deque in `_windows`, and whether `self.redis` is still set |

`Evaluate` is the script, one step in Redis; `LoseRedis` and `LoseReply` are the `except` clause before and after
Redis ran it. `DecideLocally` is the block under the lock. `Tick` lets real time pass while no call is older than
`MaxDelay`, so that what a call read and when it is decided can differ. `at`, `by`, `term` and `sent` are history.
Three things follow from the code that a reader may not expect, and the properties say exactly what is left: a
denied call counts against later ones in Redis but not in a local window; calls that make one member count once; and
a process that fails over, restarts, or meets an empty Redis starts a new count, so each *source* has its limit.
All clocks are assumed to show one time that is never set back.

**`CircuitBreaker`** - `pc` is the caller's place in `execute`. Nothing is locked, so `failures += 1` is a read
(`CallFails`) and a write (`Count`), `_reset` is `CallSucceeds` and `Close`, and `_record_failure` ends with the test
of the count (`Judge`) and the write of the state (`Trip`). `age` is `time.time() - last_failure_time`. Counts and ages
are kept only up to where the comparison with the threshold or the timeout is decided.

**`BreakerContract`** - a call is one step: failures in a row open the breaker, it rests for the timeout, one success
closes it. `CircuitBreaker` implements it as long as no two calls have overlapped; `PromisedState` and `PromisedAge`
map the states inside a call: a failed call has taken effect once it is counted, a successful one once the count is
cleared.

**`Workflow`** - threads build engines, run executions and hand in decisions.

| Variable | Code |
|---|---|
| `registry`, `opened`, `instance[t]` | `RocksDBStore._instances` at the path, which instances have a `_db`, and the instance a thread's governor got |
| `pc[t]` | a building step of `__new__` and `__init__`, `running` in `execute_workflow`, `hydrating` between the two store calls of `hydrate_and_resume` |
| `at[t]`, `memory[t]` | `current_state`, and `human_override` in the engine's memory |
| `hitl[x]` | the record `hitl:{execution_id}` |
| `asked`, `answered`, `latest`, `passed` | history: executions suspended, decisions recorded, the last one since an execution was suspended, engines whose call went past an anomaly |

`Begin` may start any execution, a suspended one too, always at the entry state, because a resumption is a new call of
`execute_workflow`. That the thread then gives its engine the memory `hydrate_and_resume` returns is taken from the
method's purpose: the repository has no caller that does. Every decision resumes, a rejection too
(`governance/hitl_pause.py:28`), and one memory serves every state and every later execution of its engine, although
`README.md:35` promises approval before resuming: `ApprovalBeforeResuming` is that promise, and its run refutes it. A
later suspension of an execution, or a second decision, overwrites its record; `RecordsTell` says that the record is
always there and is of the last of them.

**`CorridorService`, `AisIngest`** - the service's workers and the stream thread, with the network between them.

| Variable | Code |
|---|---|
| `handler[c]` | the call a worker of the gRPC server is at, for each life of the client |
| `live_ais`, `now` | the records `live_ais:{mmsi}:{timestamp}`, and the clock in milliseconds, which may stand still between two audits |
| `offset`, `committed`, `streamTime` | the stream thread's place in the topic, what a restart goes back to, and the time that makes a ping late |
| `store`, `changelog`, `dirty` | sessions as the aggregation sees them, as a restart finds them, and the keys the record cache still holds back |
| `calling` | the session whose audit the blocking stub waits for |
| `running`, `restarts` | whether the stream thread is alive, and how often somebody started the application again |
| `expired`, `lapsed` | history: sessions the store no longer retained, and the vessels that had a ping near one still to be read |

Kafka Streams is external, modelled from the defaults the application leaves: one thread, caching, at least once. A
write to a changelog is taken to survive, and so is the topic `groupBy` goes through. `Stop` is an exception of the
call, which ends the thread and the client, or a kill; a call that was out may be audited after it. `Start` is
somebody starting the application again, which need not happen. `Materialized.with` sets no retention, so the
session store keeps a session for gap and grace after its last ping and drops it at some time after that, when a
segment of the store goes (`Expire`; by then the window has usually closed). An accepted ping that comes out of
order may then not find the session it belongs to and begins a voyage of its own. A session's number of waypoints is
kept as "two or more". Three things follow from the code: `dispatch` runs for every change of a session the cache
lets go of, not once per voyage; the client sets no deadline; and pings read again after a start are waypoints twice
(`VoyageAccumulator.add` does not compare), so that one ping may make a voyage. Sessions are cut by the time of the
Kafka records, which stands for the pings' own.

**`LogHandler`** - `holder` is the thread that posts and keeps the library's handler lock: `Handler.handle` calls
`emit` under it, so a second thread's record waits and never meets a flush. `stale` is the flush by age. A record gets
lost in three places, each an exception of the handler's own: its message cannot be formatted (`Drop`,
`telemetry/logging.py:48`), its batch cannot be encoded, which is done after the buffer was taken and outside the `try`
(`BuildRaises`, `telemetry/logging.py:90`), or a print of the fallback raises (`PostRaises`, `telemetry/logging.py:96`).
`lost` and `errors` count them.

**`McpTools`, `DepositApi`** - the strata query, the assay report, the risk of a dependency trace, and the handlers
of `api/main.py` that change state. `phase` is the handler's statement; while it is `evaluating` the steps are those
of `ReasoningMesh`, whose input `Invoke` computes from the request, the strata and the supply trace. `Impact` is one
question to the graph, answered or not. `Warn` is the supervisor's log line, which fills the log handler's buffer.
The answer's keys are those of a prefix scan, so deposit `A` also lists the keys of a deposit `A:B`; `Nested` has
the pairs of such ids. `StampSpan`, `PutSpan` and `ReadLatest` are the part of the tracer that handlers share; here
its clock only goes forward, as `TraceChain` has the setbacks. `trace_supply_chain` has one outcome, because it
hands `trace_supply_dependency` a dict where a request object is expected (`api/main.py:123`, `mcp/server.py:156`)
and every call raises.

## 4. What the runs check

| Run | Configuration | Properties | What it shows |
|---|---|---|---|
| `shared_task` | `MCReasoningMesh.cfg` | `TypeInv`, `VerdictHasEvidence`, `NoAmplification`, `AcknowledgedVerdictStored`, `EvidenceInv` | Two evaluations of one deposit interleave over one store, one passing and one blocked in every pairing, with a process crash or a power loss at any point: a verdict's evidence reads under its keys or was replaced there by the other evaluation, the gate holds, and an acknowledged verdict reads or was replaced unless power was lost. |
| `failing_agents` | `MCReasoningMeshFailures.cfg` | `ActiveAgentsBalanced`, `EvidenceRefsCurrent`, `EveryEvaluationEnds`, `AgentsDrain` | Agents that raise, in threads and in a caller's event loop, failed puts and a crash: the metric counts the agents whose coroutine has not ended, a thread it does not count has asyncio.run waiting for it, every evaluation ends and metric and threads drain; and with a task id of its own for each, what a stored handoff refers to reads as the hypothesis it was decided on. |
| `trace` | `MCTraceChain.cfg` | `LinkInv`, `LinksResolve`, `AuditExact`, `OrderInv` | Two unlocked writers, a failed put, a restart that may lose the end of the log, a clock set back and an altered span: no link of the chain dangles, and as long as the writers take turns and the clock is steady the audit passes exactly when every stored span's execution, agent, action and data are those it was logged with; altered timestamps, altered parent hashes and a lost end, which also occur, do not make it fail. |
| `trace_threads` | `MCTraceChainWriters.cfg` | `UnalteredLogVerifies` (violated) | Two request threads log at once from one head: the chain forks and the audit reports tampering of an unaltered log. |
| `vault` | `MCTokenVault.cfg` | `TypeOK`, `NothingUnredacted`, `NoTokenDangles`, `RoundTripAnywhere`, `RoundTripHome`, `SharedInv`, `FallbackInv` | Three redactions in two processes, two of them threads of one, with Redis there or not, going away, coming back or losing a reply at any step, failed puts and a restart: in what is returned no matched value is left as it was and only one with an earlier match inside it is not wholly a token, and the tokens are recorded; with a steady Redis every process restores it, without Redis the process does whose calls did not overlap. |
| `vault_threads` | `MCTokenVaultThreads.cfg` | `NoWrongValue` (violated) | Two redactions at once without Redis: both count the stored tokens before either puts its own, and one value is restored as the other. |
| `rate_limit` | `MCRateLimiter.cfg` | `TypeOK`, `RedisBound`, `LocalBound`, `DenialsEarned`, `RemoteInv`, `WindowInv` | Three calls of one process and one of another, each up to a second late, with Redis going away, coming back, restarting empty or losing a reply, and a restart of a process: Redis, and each life of a process without it, admits no more than the limit in any window, and denies only for what it counted in the window of the call. |
| `breaker` | `MCCircuitBreaker.cfg` | `BreakerInv`, `ImplementsContract`, `OutageOpens`, `RecoveryCloses` | Two threads in execute with the default threshold, an API that goes down and comes back and a clock past the recovery timeout: calls that do not overlap see the breaker of BreakerContract; calls that do can neither open it without failures, nor keep it from opening in an outage, nor wedge it once the API is back. |
| `workflow` | `MCWorkflow.cfg` | `WorkflowInv`, `OneHandle` | Two threads that race to build their engines over one store, run two executions of a script with two anomalies in a row and hand in decisions, also concurrently and for one execution, with a kill of the process: the store has the record of every execution ever suspended, paused exactly if no decision was recorded since its last suspension and resumed with the latest one otherwise (earlier decisions are overwritten), and the constructions that succeed share one database. |
| `workflow_approval` | `MCWorkflowApproval.cfg` | `ApprovalBeforeResuming` (violated) | One thread suspends an execution, hands in a decision and runs the execution again: it gets past the anomaly although nobody approved it. |
| `ais` | `MCAisIngest.cfg` | `VoyagesInv`, `NoVoyageUnaudited`, `ViolationsRecorded` | Five pings of two vessels - one late unless a restart forgot the time, one of other cargo, one that joins two sessions -, sessions the store drops, a failed call or a kill at any point, a start after it or none, and an audit a stopped client left running: sessions are the vessels' voyages, no commit moves past a voyage without its audit, and a waypoint inside a geofence stays recorded as a violation while the application is up. |
| `deposit_api` | `MCDepositApi.cfg` | `ResponseInv`, `OutageOptimistic`, `LatestTraceFresh`, `LogInv` | Two evaluations of one deposit beside a call of another handler, over one store, trace log and log handler, with puts that fail and a graph that answers or not for each element: answers list every key their evaluation wrote, only an evaluation without assays is blocked, an outage never costs a verdict, a simulation is answered with a span no older than its own, and a log record is lost only to an exception of the handler, at most a buffer to each. |

Bounds, and why they are enough. Two evaluations are enough for every interaction the mesh has, since records of
different evaluations meet only pairwise, under one key, and the inputs put a passing evaluation, a blocked one and
a failing one against each other and against themselves. One crash suffices because a restart leaves no live
evaluation behind, so a second one meets only the store again. The tracer's races need two writers; with two spans
before the last is begun, a span can be altered before or behind an intact one and the end of the log can be lost
between two lives of the process (the theorems hold for any number). One of the vault's texts holds a value with the
two before it inside, and a value is held by two texts; two changes of Redis are an outage and a recovery. The
limiter has three calls in one process, so that a late call can stand behind a newer one in the deque when a third
is decided, a fourth in another process, and time enough for the first to leave the window. Two callers are enough
for each of the breaker's races, which are between one read and one write, and a threshold of 3 leaves room for a
lost update. The workflow's script has two anomalies in a row, a state given twice and a transition to no state; two
threads with two executions cover every pair of races on the instance and on a record, and a kill leaves nothing in
memory for a second to add to. The five pings join two sessions, come late, carry other cargo, and let a session
expire with and without a ping near it to come; after one start the old client's call still runs beside the new
one's, and the clock has two readings so that two audits can share one. The API's calls come in pairs of evaluations
under one task id with one call of another handler, which is all that can meet in the store, the trace log or the
log handler; a buffer of 2 fills and is flushed by age and at the end. Crashes are `ReasoningMesh`'s own subject and
are left out there (`MaxCrashes` 0). Every bound is a constant that appears in a guard (`MaxCrashes`, `MaxSpans`,
`MaxRestarts`, `MaxFailures`, `MaxStepBacks`, `MaxChanges`, `MaxRedisChanges`, `MaxTime`, `MaxKills`, `MaxNow`) and
none is used by a property.

Deadlock is checked for `ReasoningMesh`, whose `Finished` step is enabled only when every evaluation has ended and
no agent runs, and for `CircuitBreaker` and `Workflow`, which can always go on: a construction that failed is tried
again. `TraceChain`, `TokenVault`, `RateLimiter`, `AisIngest` and `DepositApi` stop when their bounds are used up,
or when every call has returned, and so do the programs when nobody calls them; their runs say `CHECK_DEADLOCK
FALSE`.

Fairness. `FairSpec` of `ReasoningMesh` assumes weak fairness of each evaluation's steps. The event loop and the
operating system schedule a coroutine or thread that can run, the worker threads do pure arithmetic and end, and a
put returns or raises. Crashes are not fair: a run in which none happens is allowed, and `EveryEvaluationEnds` and
`AgentsDrain` hold with and without one. `FairSpec` of `CircuitBreaker` assumes that threads are scheduled, that
somebody keeps calling, and that time passes; the health of the API is left free, and the two properties say what
follows once it settles. `FairSpec` of `AisIngest` assumes that the thread works on, that the cache is written at
every commit interval, and that the service finishes a call whose client still waits; commits, stops and starts are
not fair, and `ViolationsRecorded` exempts the time the application is down. The other modules have no liveness
property and state no fairness.

## 5. What is proved

The theorems are in the modules named `...Proofs` and hold for every value of the constants under the `ASSUME`s
of the modules, which say that bounds are numbers and tables have their types. `TraceChain` and `TokenVault`
allow any number of writers, calls and processes; `RunsAssumption` makes the set of evaluations finite, so that
its awaited agents can be counted.

- **`ReasoningMeshProofs`**. `TypeOK` alone is not inductive, because a decrement could take the gauge below zero;
  `TypeInv` adds that the gauge *counts* awaited agents (`MetricCounts`, which needs `CountChange` on
  cardinalities), that a thread it does not count has its evaluation unwinding, that no agent of an idle evaluation
  runs, and that a voxel is stored only while one is left. `VerdictHasEvidence` and `NoAmplification` say nothing of
  an evaluation that is about to write, so `EvidenceInv` says, with one operator `Backed`, what a live evaluation
  has in the log at its stage and what a stored record has before it. Appending keeps both (`WrittenKept`,
  `BackedKept`), a put makes the stage's conjunct true (`PutEvidence`), and losing the end of the log keeps what
  concerns records (a record that is left has the same records before it) while no evaluation is live. What was put
  once still reads, or was replaced by another evaluation (`Stands`), because of the records under its key one is
  the last (`LastPosition`, by well-foundedness of finite subsets). `OwnTaskEvidenceReads` adds that nobody else has
  the key. `VerdictInv` says that a verdict in the log is that of an evaluation that returned, so one that raised
  left none. `EvidenceRefsCurrent` quantifies over the records after a record; `RefsInv` turns it round: a run puts
  each hypothesis once, before the handoff that refers to it, and both carry the confidence of the request. The
  theorem assumes that evaluations have task ids of their own, as the mesh's default gives them; the API passes the
  deposit's id, and then the property fails.
- **`TraceChainProofs`**. Every link resolves for any number of unlocked writers: `LinkInv` says that what a thread
  carries in memory already refers to spans in the store. While no two writers have been in `log_span` at once and
  the clock has not been set back (`Orderly`), `OrderInv` says that key order is chain order and that the writer
  extends the end of the chain; then the audit's comparison at each span is the comparison of its payload with the
  one it was logged with, by injectivity of the hash, and `AuditIsExact` follows in both directions: the audit
  passes if and only if every span says what it was logged with, whatever became of timestamps, parent hashes and
  the end of the log.
- **`TokenVaultProofs`**. `NothingUnredacted` needs `MatchesReplaced`: the matches counted so far are tokens in the
  text or hold an earlier match, and so is whatever has been broken already. `NoTokenDangles` holds through every
  failover. `RoundTripAnywhere` speaks of the states in which Redis has answered every call (`RedisSteady`) and
  rests on `SharedInv`: a number that a call has drawn is below the counter, is no other call's, and numbers no
  token yet. `RoundTripHome` speaks of vaults that never had Redis and whose calls never overlapped, and rests on
  `FallbackInv`: a store of n tokens has numbered them below n, and the one call under way has drawn n; both need a
  new token to make the store larger by one (`StoreGrows`).
- **`RateLimiterProofs`**. `RedisBound` rests on `RemoteInv`: what was admitted recently is still in the sorted set,
  because every later script's cutoff comes from a clock read no later than the present, and the set's expiry is
  renewed by each. At an admission the recent members are therefore among those counted. `LocalBound` rests on
  `WindowInv`: the deque is in the order of decisions, not of the times in it, and what has left its head is too old to
  be recent; its length is its number of calls (`RangeCount`). `DenialsEarned` uses the same order: the head of a full
  deque is in the window, so all behind it were decided in it. All three need `ClockInv`, that a decision comes at
  most `MaxDelay` after the read.
- **`CircuitBreakerProofs`**. `OpenEarned` holds for overlapping callers: a count, and what a caller has read
  of it, is never above the number of failed calls, so the state leaves CLOSED only on enough of them. `TurnsTaken`
  says what callers that take turns find, which is what the refinement needs: `Refinement` has one lemma per step of
  `execute`, and each is a step of `BreakerContract` or a stutter under the mapping, or sets `overlapped`.
- **`WorkflowProofs`**. `OneHandle` alone is not inductive: `InstanceShared` adds that at most one instance is open
  and that whoever has got past `__init__` holds it; a second open of the path raises, which is why the loser of the
  race cannot work on a handle of its own. `RecordsTell` is inductive with the types; `MemoryHeard` says that what an
  engine remembers was decided for some suspended execution, which is all that is left of approval.
- **`AisIngestProofs`**. A commit does not look at what the changelog holds; `CacheAhead` says why it may:
  everything up to the offset is in the aggregation's sessions, and what these have beyond the changelog is dirty. A
  merge keeps this for any set of sessions near a ping, `FlushSome` moves one key at a time, and what it leaves half
  done is what `partway` and, after a restart, `torn` name. A session that expires takes its pings from the sessions
  to `Gone`, and keeps its place: sessions lie apart from expired ones too (`AllApart`), because a merge could come
  near one only for a ping near it, of which `lapsed` names the vessel (`Needed`). `VoyagesInv` needs that merging
  keeps sessions apart and connected: whatever part of a merged session no gap crosses holds each of the sessions
  merged whole or not at all, which is proved from their least and greatest pings (`Least`, `Greatest`, by
  well-foundedness of finite subsets). For `NoVoyageUnaudited`, `AuditsOwed` says who owes the audit of a voyage in
  the changelog that has none: its session is dirty, or the call that audits it is under way, or a ping of it that
  is not committed will be read again.
- **`DepositApiProofs`**. The log handler first, alone: `BufferBounded` says who holds what (without a holder
  nothing is taken and the buffer is below its size, with one either the buffer or what was taken is empty), and
  `RecordsKept`, which counts at most a buffer of losses to each exception, needs just that. `ApiLogs` then shows
  that the API takes no step that `LogSpec` does not, so the handler's theorem holds inside. `ApiInv` is the rest of
  the API's inductive invariant. `HandlerInv` ties each handler to its evaluation and says what the mesh was called
  with; `MeshInv` is the mesh's own invariant, which survives `Invoke` because an evaluation that is not yet invoked
  has stored nothing. `KeysReported` follows because every key that was put reads as some record (`KeyReads`) and an
  evaluation of the API stores six outcomes and nothing else; an evaluation whose id extends this one's past a colon
  may add its own. `OutageOptimistic` rests on the score falling with the risk. `SpansInv` says that a span in the
  log has a settled time. TLC finds `ApiInv` true of `deposit_api`'s instance too, at several times the cost of the
  run, which leaves it to the proof.

## 6. What is only model-checked

Liveness (`EveryEvaluationEnds`, `AgentsDrain`, `OutageOpens`, `RecoveryCloses`, `ViolationsRecorded`), which is
beyond this prover, and nothing else: every safety property of a passing run is a theorem. What the theorems take
from an instance by assumption is what a fold computes: `InvocationsAssumption` says that the mesh's requests
include those the API makes, and so that a concentration risk is an integer, because the provers have no induction
over the routes it sums.

`overlapped`, in `TraceChain`, `TokenVault` and `CircuitBreaker`, is a history variable: no action reads it, and
properties use it to speak of writers and calls that have taken turns. `collided` of `CorridorService`, `torn` and
`lapsed` of `AisIngest` name the three cases in which the ingest keeps less than one would wish, and its properties
exempt them: two audits of a vessel in one millisecond share a key, a stop part way through writing a vessel's
sessions forgets some of them, and a session that expired is not there for an out-of-order ping, so that a voyage is
audited in parts. A graph that does not answer counts as no risk, so a deposit may be called viable that is not;
`OutageOptimistic` holds the code to the other direction only.

The runs that end in a violation show where the program and a sentence about it part:

- `trace_threads`, tensormesh/telemetry/tracer.py:30: log_span reads previous_hash, puts and then assigns
  previous_hash with no lock, and the API calls one tracer from its handlers' threads (tensormesh/api/main.py:118),
  so two spans hash the same predecessor and verify_trace_integrity returns False although nothing changed; its
  docstring says "Audits the log to ensure no data was tampered with." (tensormesh/telemetry/tracer.py:51).
- `vault_threads`, tensormesh/security/token_vault.py:46: Without Redis the next token number is the count of stored
  tokens, read before the token is put and with no lock, so two concurrent redactions can give one token to two
  values; the second put overwrites the first and rehydrate shows the wrong value. rehydrate's docstring says
  "Restores original sensitive values from tokens before showing to user." (tensormesh/security/token_vault.py:105).
- `workflow_approval`, tensormesh/agents/fsm_engine.py:26: execute_workflow only looks whether the key
  human_override is in the engine's memory, and hydrate_and_resume stores any decision under it, so an execution
  whose suspension was answered with 'Reject' passes every anomaly, and so does one for which another execution's
  decision is in the memory; README.md:35 says the FSM "fires a webhook for Human-in-the-Loop (HITL) approval before
  resuming", and the docstring at tensormesh/governance/hitl_pause.py:23 has the human click "'Approve' or
  'Reject'".

Four more disagreements have no run of their own. The API's docstring calls an evaluation one transaction
(`api/main.py:150`), but one that is blocked, or loses a put, leaves the records it made before (hypotheses, voxels and
handoffs, never a verdict). `README.md:22` has sensitive entities replaced by tokens before inference, and a longer
value that holds an earlier match goes out with its rest. An outage of Redis followed by a restart leaves a vault with
two counters, which number two values alike just as two threads do (`NoWrongValue` fails with one call at a time and
`MaxRedisChanges` 2). And the mesh builds its supervisor with a threshold of 0.6 (`agents/reasoning_mesh.py:22`), as
`docs/TENSORMESH_SYSTEM_DOSSIER.md:95` says, while `README.md:34` says handoffs are blocked below 0.85; the models
and theorems hold for every threshold.

## 7. What is not modelled

Two components of section 1 wait for their modules, the semantic cache (its answer is that of the nearest stored
query, under a learned distance) and the Morton codes with the guardrails (pure functions on 64-bit words and on
text), see section 2. Of modelled components: the metrics middleware, the two read-only routes and the mounted tool
server of `api/main.py`; the knowledge-graph query and the concession check of the MCP tools, which nothing in the
repository calls; the payload of a log line; the store's `delete`, which has no caller; that a workflow whose script
has a cycle never ends (the model runs forever too, and there is no promise to check).

Left out for good: the supply-chain graph but for the risk computed from its answers (its state and logic are Cypher
text executed by Neo4j); the evaluator, ranking, debiasing, drift, ESG and simulation code, and the seismic kernels
(floating-point numerics without control state); metrics exporters, OpenTelemetry spans and the frontend (input and
output). In the modelled components: the wording of hypotheses and envelopes, the numbers no decision reads,
distances and ports of a corridor, encryption in the vault, and regular expressions, which a model replaces by the
values they match. A power loss is not modelled for the vault's own store, nor a Redis or a Kafka that forgets what it
acknowledged.
