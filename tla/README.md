# Cascade: verification of the backend

TLA+ models of the backend in `src/Designer/backend/app`, the TLC configurations
that check them and the theorems that TLAPS proves about them. Paths below are
relative to that directory unless they start with `src/`.

Cascade lets a designer draw a forest of nodes, saves versions of it, and *runs*
a version: an LLM agent executes the forest on scenarios (phase 1), code is
planned and generated (phase 2), built and tested in a sandbox (phase 3). Any of
several pods may execute a run, and any of them may be asked to stop it.

## 1. Inventory

| component | state | operations | talks to | what is hard | what makes it correct |
|---|---|---|---|---|---|
| Workflow runtime (`langgraph/runtime.py`, `repositories/run_repo.py`) | row of `t_workflow_run`, an in-memory status machine, pipeline task, monitor task | `run`, `_monitor`, `create`, `update_status`, `heartbeat` | Redis, MySQL, the pipeline | stop, timeout, crash and redelivery between any two awaits; swallowed failures | the row never contradicts itself; a delivered run ends; no cancellation nobody asked for |
| Run control (`infra/run_control.py`, `api/run_events.py`) | stop key (600 s), session key (60 s), a 1 s local copy per pod | `request_stop`, `is_stopped`, `clear`, `register`, `heartbeat`, `release`, `who_owns` | every pod | stale copies, TTLs, Redis failures | a stop ends the run; the session names the worker |
| Status machine (`domain/fsm`) | current state | `can_fire`, `fire` | the runtime | a second machine for the same row | the column moves along the machine only |
| Pipeline graph (`langgraph/pipeline.py`, `router.py`, `steps/phase_end.py`) | `CascadeState` | routes, finalize steps | steps | stale decisions, fix loops, three variants | verdicts are those the handlers gave |
| Step execution (`langgraph/steps/base.py`, `trace_sink.py`, `run_step_store.py`) | event log, MongoDB details, `t_run_step`, trace buffers | `execute`, `_do`, `write_step_detail`, `create` | MySQL, MongoDB | one of several writes fails; cancellation; a second attempt | the three records agree; every step is reported; no LLM call vanishes |
| Phase 1 handlers (`steps/phase1`, `llm/agent_loop.py`) | conversation, traces, node counters, outputs | structure check, agent loop, tool executor, comparator, attribution | LLM, tools | limits, errors of tools, Python's equality | every call is answered, a pass means equal JSON |
| LLM client (`llm/client.py`, `llm/decorators`, `llm/adapters`) | one semaphore, two event loops | `call`, `call_sync`, repair call, retries | providers | a limit shared by two loops, a blocking call | permits are conserved, waiting ends |
| Event log and resume (`langgraph/events.py`, `repositories/event_log_repo.py`) | `t_run_event_log` | `emit`, `append`, `list_since` | clients | ids are given out before commit | a client that resumes misses nothing |
| Tool registry and template service (`tool_runtime`, `services/tool_service.py`, `repositories/tool_repo.py`) | templates and versions, two LRU+TTL caches | `get`, `get_by_id`, `simulator_of`, `invalidate`, create, fork, update, activate, simulate | Redis pub/sub | loads and invalidations race, invalidate before commit, unlocked version numbers | versions are never changed or lost; a cached simulator is the right one; staleness ends |
| Settings service (`settings_service.py`) | a row, a 10 s cache, a listener | `get`, `set`, `_listen` | Redis pub/sub | the same race, lost messages | every stale entry has an excuse; all come to serve the row |
| Graph service (`services/graph_service.py`, `repositories/graph_*`) | graphs, drafts, versions | `save_version`, `save_draft`, `delete` | frontend | two editors, deadlocks on the unique key | one chain of versions, none overwritten unseen |
| Graph domain (`domain/graph`, `services/design_validator.py`) | none | build, validate, diff, paste, topological order, DAG views | handlers, page | visitors that are skipped, parallel edges, cycles | agree with their definitions; what is saved can run |
| Sandbox manager (`infra/sandbox`) | healthy workers, connections, run bindings | `init`, `_pick_worker_for_run`, `exec_for_run`, health loop, `shutdown` | SSH workers, Redis | two pods, lost workers, stale connections | one worker per run; calls end; workers rejoin |
| Checkpointer (`infra/checkpointer.py`) | LangGraph checkpoints | built at start | pipeline | resume | a run taken over goes on |
| Frontend (`src/Designer/frontend/src`) | graph store with undo stack, autosave | edit, undo, redo, load, save | API | autosave racing edits, loads that fail half way | edits leave a sound snapshot |
| Meta templates, reviews, users, migrations, CLI, metrics, deployment | rows, configuration | — | — | little | — |

The hazards that this code is exposed to are listed at their lines in
`PROJECT.json`, each with the properties about it.

## 2. Modules

| module | models | proved about |
|---|---|---|
| `RunStatusTable` | the transition table of `WorkflowRunSM`, `can_fire`, `fire` | used in proofs |
| `RunStatusFSM` | abstract specification: a status column that changes by firing events | yes |
| `RunLifecycle` | `WorkflowRuntime.run` with its monitor, POST /stop, Redis keys and their expiry, crashes, redelivery; implements `RunStatusFSM` | `RunLifecycle_proof` |
| `PhaseRouter` | nodes, edges, step effects (operators only) | in `PhasePipeline_proof` |
| `PhasePipeline` | the execution of the graph, step by step, and its records; extends `PhaseRouter` | `PhasePipeline_proof` |
| `ScenarioRun` | the scenario handler: agent loop, tools, limits, retries, verdict, with the comparison as a parameter | `Agent_proof` |
| `Comparator` | that comparison, `deep_equal` and `diff_report`, and reference definitions (operators only) | – |
| `LlmGateway` | the semaphore, the two loops, the blocking tool | `Agent_proof` |
| `RunEvents` | the event log with its ids, commits and broadcasts, and a client that resumes | `RunEvents_proof` |
| `VersionChain` | abstract specification: a chain of versions to which a save appends | yes |
| `GraphVersions` | the transactions of saves and drafts, and the pages that have the graph open; implements `VersionChain` | `Graph_proof` |
| `Canvas` | the snapshot that a page edits, the names in it that the server checks, the diff, the paste | `Graph_proof` |
| `DesignValidator` | whether a snapshot is saved and may run: builder, visitors, structure check, with the search for a cycle as a parameter; extends `Canvas` | `Graph_proof` |
| `DesignForest` | what the server computes from a snapshot: cycle, order, views; extends `DesignValidator` | – |
| `ToolTemplates` | template rows and versions, the requests that write them, the registry of a process | `ToolTemplates_proof` |
| `AppSettings` | a setting, its caches and the channel between processes | `AppSettings_proof` |
| `SandboxManager` | workers, connections, bindings and the commands of runs | `SandboxManager_proof` |
| `MCRunLifecycle`, `MCLlmGateway`, `MCRunEvents`, `MCGraphVersions`, `MCDesignForest`, `MCToolTemplates`, `MCScenarioRun` | values of constants and symmetry for TLC | – |

In every module a definition whose name starts with `Slip` is a plausible
mistake in the code, kept beside the definition it would replace. None is used:
put in place of that definition each of them makes TLC find the property violated
that `PROJECT.json` names with it.

### RunLifecycle

One run id; a `Worker` is one execution of `run()` for it. `pc[w]` is the await
at which that execution stands, and each action is the code between two awaits
that touch shared state: `Create`, `MarkRunning`, `Register`, `Announce` (lines
70-107 of `runtime.py`), then the pipeline, reduced to its outcome
(`PipelineEnds`, `GlobalTimeout`, `PipelineCancelled`, `CancelledOutside`), then
`Release`, `ClearStop`, `Finalize`, `EmitFinished` (133-190). The monitor is a
second program counter (`Heartbeat`, `CheckStop`). `RequestStop(w)` is a POST
/stop that reaches w's pod. Redis is two keys, `session` and `stopKey`; the local
copy of a pod is `stopLocal[w]`.

Caught failures are part of the action they strike: `Succeeds(faults)` is the set
of ways a repository or Redis call may turn out, and a failed call leaves its row
or key as it was. `Die` stops a worker anywhere. The switches `HasRedis`,
`RedisFaults`, `RowFaults`, `LogFaults`, `LostCancels`, `BlockedLoop`, `Shutdowns`
and `Redelivery` say which of these can happen; each property names the ones it
needs. The monitor returns after the one `cancel()` it sends: from then on nobody
extends the session key (`Monitored`), and it may lapse while the pipeline winds
down. An outcome is `silent` if the pipeline raised an exception without text, for
which `run()` writes no error code.

`stopAsked`, `stopAcked` and `interrupted` are history variables.

### PhaseRouter and PhasePipeline

`Route` is the compiled graph with all its conditional edges, `Effect` what the
body of each step does to the part of `CascadeState` that routes and verdicts
depend on. `PhasePipeline` executes a node as `BasePipelineStep.execute` does:
`Enter` (new step id, empty buffers, STEP_STARTED), the body (`HandlerStarts`,
`HandlerAnswers` or `HandlerRaises`, `HandlerCompletes`; `Work` for the others),
then `WriteDetail`, `WriteRow`, `Report`; the except branch is `FailDetail`,
`FailRow`, `FailReport`, with the finally block that emits the event whatever
happens to the records. `Cancel` and `CancelFailing` are a `CancelledError` at an
await outside and inside the except branch, `Die` and `TakeOver` a dead pod and a
second attempt. Two properties of the deployment are variables that stay as they
are chosen: `declared`, whether `Settings` has the names that `scenario_run` reads
(`config.py` has not), and `mongo`, whether there is a MongoDB client; without one
`write_step_detail` writes nothing and returns a noop id (`trace_sink.py:53`). An append
to the event log may fail without failing the step: the
event is then in `log` with `lost` set. `BeginScope`, `Recorded` and `EndScope`
are the buffer of LLM calls, which a step opens, a handler fills even if it
raises, and a detail empties. Deaths of the pod and failures of stores draw on one
bound, `MaxFaults`.

### ScenarioRun and Comparator

One execution of `ScenarioRunHandler`. `phase` is `loop` while an LLM call is under
way, `tools` while its tool calls are worked off in order; the messages of
`run_agent_loop` are `conv`. The LLM answers with any member of `Raw`
(`Answer`), fails for a while (`Transient`, up to the attempts of
`RetryDecorator`), becomes unavailable or times out. A tool call is refused
(`RefuseCall`), is over the limit of its instance (`OverLimit`, where the counter has
been raised already) or is answered by the simulators of its template in turn
(`SimulateCall`). The final text is reduced to the JSON value it parses to.
`Encode` is what an adapter makes of the conversation: the properties are about
what the provider receives. What two JSON values have in common is `Equal` and
`Differences`, parameters for which `MCScenarioRun` takes those of `Comparator`; it
states `ComparisonSound` of the two together. `Comparator` has the recursion of `deep_equal` and
`diff_report` and, for reference, `Canon`, in which equal JSON values are equal
TLA+ values.

### LlmGateway

`asyncio.Semaphore` of Python 3.11 with its waiters, the wake-up of the first of
them, its binding to the loop of the first caller that waits, and cancellation of
a caller in every place. A task whose tool has engine `llm` blocks the main loop
(`Simulate`, `Preview`) until the background caller is done; that caller asks the
LLM once more if the answer does not fit the schema (`coerce_json_output`).
Retries, timeouts and traces happen inside the permit and leave it alone.

### RunEvents

What `emit` looks like to everybody else: `Insert` (the flush that draws an id
from the one AUTO_INCREMENT column), `Commit`, `Publish`, with `AppendFails` and
`Cancelled` at each await. A failed commit may have taken effect; a cancelled one
is undone or done at that moment, never later. The client is external: it asks
`GET /events` for a page after its `cursor`. `Start` and `Stop` stand for the
executions, whose emits `RunLifecycle` and `PhasePipeline` model in detail.

### GraphVersions and VersionChain

What is on a canvas is the set of edits made to it. A page loads with the
requests of `loadGraph` (`LoadInfo`, then `LoadDraft` or `LoadVersion`, or `LoadFails`), is edited,
writes its draft and saves. A save is one transaction in three steps: its reads
(`SaveRead`: the newest version and the stale-parent check), its insert under the
unique key of graph and number (`SaveInsert`, which waits while another
transaction holds that number and fails if it was committed) and its commit,
which also points the graph to the new version and deletes the draft. A deadlock
or a lost connection ends it at any step. `saw` and `basis` are history
variables: what a page has shown since it was loaded, and from what it was loaded.

### Canvas, DesignValidator and DesignForest

`snap` is a snapshot, with lists where the JSON has arrays: of edges, of bundles and
their members, and for each id of its instances, since nothing refuses an id that is
given to two (of the order of different ids nothing depends). The actions are those
of the page's graph store with the calls that the canvas and the properties panel
make: field values and names are patched (`UpdateNode`, `RenameNode`), and a drop
calls `SetMembership` also for the bundle that the instance is in, which makes it the
last member there. Undo and redo return to a snapshot that an edit has left, so they
show where that edit does. `Sent` are snapshots that a client of the API writes by
hand, with dangling references, edges without a semantic, ids given twice and members
listed twice; an instance or a member whose own id is the empty string is not among
them. `LastOf` is the instance that counts where the code makes a dictionary by id.
`MembershipConflict` and `NodeRef` are the checks of names, `Diff` compares two
snapshots: templates, field values and memberships, not names. `SameDesign` is its
reference. `Pick` is what `Array.filter` keeps, by the rank of each place that is kept.
`Paste` draws its ids from `New`, any injection into ids that no snapshot has: they
are random in the code, so their order says nothing about the order of the old ones.

`DesignValidator` and `DesignForest` extend this and have no variables of their own.
`NodeRef` of `Canvas`, `BadSemantic` and the rest are the builder and the visitors,
`Errors` their order in `DesignValidator.run`, which leaves out the later ones after
the first error; `SaveVerdict` and `StructureCheck` are what saving and running make
of them. The reference is `WellFormed`, which does not ask for distinct ids, as no
visitor does; a graph is `Acyclic` if each of its parts has
an instance to which no edge of the part leads.

`SearchCycle`, which `DesignCore` takes for the parameter `Cycle`, `Order` and
`DagViews` are the algorithms as they are written (depth-first search with colours,
Kahn with a sorted ready list). They are compared with `Acyclic` and with `Below`,
a transitive closure.

### ToolTemplates

`rows` is what is committed. A request (`CreateGlobal`, `CreatePrivate`, `Fork`,
`Update`, `Activate`) is checked when it arrives, `Write` flushes and invalidates
the registry, `Commit` or `Rollback` ends its transaction: the version number that
an update inserts was read in the first step. The registry of one process loads
(`Get`, `GetById`, and `Keep` when the answer arrives), makes simulators
(`SimulatorOf` for the node of a graph version, with the template frozen into the
snapshot and thawed again; `Preview` for the page) and loses entries by eviction,
expiry and `Invalidated`, which stands for the messages of other processes.

### AppSettings

`set()` in its steps: the read of the row, the flush that takes the row's lock,
the commit, the local pop, the publish. `get()` reads and fills the cache in two
steps, so that anything can come between. `mail` is a message on its way to a
listener; it may be lost, and the listener ends on its first error. A commit that
raises may have taken effect all the same (`CommitUnanswered`): then `set()` drops
and tells nothing, and what is cached stays stale until it is ten seconds old.

### SandboxManager

A command of a run chooses its worker in the steps of `_pick_worker_for_run`
(process entry, Redis key, a random healthy worker), registers it (`Register`,
the SET that may fail) and executes. `Check` is one turn of the health loop for
one worker. A connection is `live`, `dead`, or `trusted`: dead, but used in the
last 30 seconds and so not probed. Processes start, shut down and crash; workers
go down and come back; keys lapse. `moved` is history: it notes each reason for
which a run may change its worker.

## 3. Runs

| run | instance | checks | states |
|---|---|---|---|
| `LifecycleCore` | 2 workers, one of them executes, Redis and the writes to the row work, appends to the log may fail, the pipeline may hang, pods may die | `FinishedEventMatchesRow`, `SessionTracksRun`; refinement `StatusFollowsFSM`; liveness `StopEndsRun`, `RunEnds` | 2620 |
| `LifecycleRedelivery` | one worker executes or both, interleaved or in turn; Redis calls and writes to the row fail, cancels get lost, the loop stalls, pods die | `RowCoherent`, `CancelledOnlyIfAsked`, `EventsBracketed` | 2 047 589 |
| `PipelineCore` | three variants, with and without scenarios, the settings of `config.py` or declared ones, with MongoDB and without, any 2 faults of the three stores and the handlers, 2 attempts | `VerdictSound`, `StepsReported`, `RecordsAgree`, `CallsKeptUnlessAnswered`, `FailsOnlyOnFault` | 1 240 978 |
| `GatewayCore` | 3 tasks, 2 permits, LLM tools | `PermitsSafe`; liveness `WaitingEnds` | 1032 |
| `EventsCore` | two executions of one run in turn, one of another, at most 2 events each, pages of 2 | `NothingMissed`, `BroadcastIsBase`; liveness `ClientCatchesUp` | 96 968 |
| `GraphsCore` | 2 editors, 1 edit, saves until 3 versions | `VersionsLinear`, `NoUnseenLoss`; refinement `ChainSpec`; liveness `SaveAnswered` | 303 478 |
| `DesignCore` | 3 instances, one with a second name, 2 bundles, 3 edges and bundles in all, 500 snapshots sent | `SnapshotSound`, `ValidationSound`, `AnalysesSound`, `PasteKeepsNames`; action property `EditsShow` | 212 814 |
| `TemplatesCore` | 2 requests, 2 users (one an admin), 3 ids, caches of 1, requests until 2 versions, a name that a fork can collide with, one definition refused for each reason | `RowsSound`, `SimulatorIsExact`; action property `HistoryKept`; liveness `StalenessEnds` | 201 564 |
| `SettingsCore` | 2 processes, 2 values | `CacheSound`; liveness `Converges` | 162 296 |
| `SandboxCore` | 2 processes, 1 run, 2 workers, 1 outage | `BindingSound`; liveness `CallsEnd`, `Rejoins` | 85 174 |
| `ScenarioCore` | suites of up to 2 scenarios, 2 instances, 2 turns, 2 calls per instance, 2 attempts | `EveryCallAnswered`, `TraceSound`, `ComparisonSound`; liveness `HandlerEnds` | 97 834 |
| `GatewayDeadlock` | as `GatewayCore` | violates `BlockedLoopReturns` | |

`VerdictSound`, `PermitsSafe`, `SnapshotSound`, `RowsSound`, `CacheSound`,
`BindingSound` and `TraceSound` are conjunctions of the module's type invariant
with the safety invariants named beside it; the type invariants of
`RunLifecycle`, `RunEvents` and `GraphVersions` are theorems of their own. Deadlock checking is
on in `SettingsCore` and `SandboxCore`, whose processes never stop, and off
elsewhere: a run, a client or a number of versions comes to its end, and after it
nothing has to happen.

Why the bounds are enough. *Two workers*: the shared state of a run is one row,
two keys and a log; everything one execution can suffer from another it suffers
from one other, and the worker that stays idle is the pod that receives the stop.
*Two faults*: one to enter the except branch, one inside it; there is no third
level. *Two attempts*: `TakeOver` resets everything but the records, so a third
attempt meets what the second met. *Recursion limit*: 25 as LangGraph's default;
the longest path has 12 steps. *Three tasks, two permits*: a holder, a second
holder and a waiter; with a tool also the background caller. *Two events per
execution*: four of the run that is followed, so a page of two can be full while
more is to come, and ids of the other run fall between any two of them. *Three
versions, one edit*: a base, a version that overtakes it, and one that is built
on either. *Three instances*: a cycle of each length, a diamond's two arms or two
parallel edges, a node outside the rest; what the page cannot draw is sent.
*Caches of one entry*: eviction happens at every second load. *Two scenarios*: the
counters start again, and outputs of the first can be overwritten or kept. *One
run in the sandbox*: bindings, leases and calls belong to one run each, and runs
share only the load; with one run every load is 0 or 1, so `Choose` is met as a
choice among equals and the balance between workers is not exercised.

Fairness. A live pod runs its event loop, so the steps of `run()` and of the
monitor are weakly fair. `HangSpec` has no timer: a stop is promised within 20 s
and the timer takes 900 s, so only a delivered `cancel()` is fair there; `RunEnds`
states the timer of `wait_for` as its premise, and `FairSpec` has it in the
specification. Nothing obliges a broker to deliver, a user to stop, a pod to die
or a pipeline to return. Neither is justified if cancels get lost
(`LostCancels`). In `LlmGateway` the loops run what is ready and every call ends
because it is under `wait_for`. In `RunEvents` only the client's asking is fair.
In `GraphVersions` the steps of a save are, and its insert strongly so: InnoDB
serves those who wait for a key, though others may take the number in between. In
`ToolTemplates` and `AppSettings` transactions and reads end and entries grow old,
in `SandboxManager` every wait of a command has a timeout and the health loop
turns, and in `ScenarioRun` each call of the LLM and each tool ends.

## 4. Where program and documents disagree

`GatewayDeadlock` finds a behaviour of the program that contradicts what the
repository says: `call_sync` blocks the main loop (`client.py:122`) while its call
waits for a permit that calls of the blocked loop hold, and the pod stands still,
although the limit is said to block only until a permit is free
(`llm/decorators/rate_limit.py:8`).

Further configurations show other disagreements and the limits of the
properties above; they are run by hand.

| configuration | violates | why |
|---|---|---|
| `LifecycleReentry` | `TerminalIsFinal` | `run()` builds its machine from the literal `"pending"` (`runtime.py:79`): a run that is delivered again after its end goes back to `running`, although "all changes of a status column go through the FSM" (`domain/fsm/__init__.py:3`) |
| `LifecycleSwallowedCancel` | `StopEndsRun` | the monitor cancels once; `wait_for` of Python 3.11 may swallow it (`runtime.py:201`) |
| `LifecycleBlockedLoop` | `SessionTracksRun` | a synchronous tool keeps the monitor from renewing the 60 s key, and EXPIRE does not bring it back (`executor.py:107`) |
| `LifecycleQueuedStop` | `AcknowledgedStopEndsRun` | a stop acknowledged while the run is queued expires after 600 s (`run_control.py:69`) |
| `LifecycleLostStart` | `EndsOnlyFromRunning` | a swallowed UPDATE takes the row from pending to a terminal status (`run_repo.py:103`) |
| `PipelineLostCalls` | `LlmCallsKept` | `end_scope()` is called before the insert and, if that fails, again on the emptied buffer (`steps/base.py:77`, `:120`): the LLM calls of the step are in no record |
| `PipelineNoResume` | `StepsNotRepeated` | FULL is compiled without the checkpointer (`pipeline.py:128`), and `run()` passes the initial state anyway: a run taken over starts from its first step |
| `PipelineMongoDown` | `EveryStepHasRow` | with MongoDB down the except branch never reaches the row (`steps/base.py:124`) |
| `GatewayRefused` | `NeverRefused` | one semaphore, two loops: a tool's call that must wait gets a RuntimeError (`rate_limit.py:13`) |
| `EventsOverlap` | `NothingMissed` | two executions of one run at once: the event with the smaller id may be committed after the other was read, and `after_id` then skips it (`event_log_repo.py:81`) |
| `SandboxRejoin` | `RejoinsAlways` | a worker that could not be reached at the start has an empty pool, and the index modulo its size raises (`worker.py:109`); if no worker was healthy at the start there is no health loop at all (`manager.py:80`), although recovered workers are said to be added again (`manager.py:4`) |
| `TemplatesPrivate` | `PrivateIsLlm` | `create_global` stores the scope that the body names: a private template of another engine is stored that no load accepts (`tool_service.py:66`) |
| `ScenarioOpenAi` | `EveryCallAnswered` | the OpenAI adapter sends role and text of a message, not its tool calls and results (`openai.py:43`) |

One disagreement is part of a property that holds. `scenario_run.py:111` reads
`PHASE1_AGENT_MAX_ITER`, and lines after it two more names, which `Settings` does not
declare (`config.py:8`, `extra="ignore"`), so that the values which the deployment sets
for two of them (`deploy/k8s/20-configmap.yaml:32`) are never read. As the repository
stands every run with scenarios fails there, and every run without scenarios is
invalid. `FailsOnlyOnFault` says exactly this of such settings, beside what holds
once the names are declared; `PipelineCore` has both.

That the id of an instance is unique in the forest (`impl-docs/P2_graph/spec.md:198`,
and its name, `:199`) is checked nowhere: a snapshot with an id given to two
instances is saved, `edge_semantic.py:10` and `diff.py:26` look at the last of them,
and `schema_validation.py` at each. `DesignCore` sends such snapshots, and its
properties hold of them because `WellFormed` does not ask for distinct ids.

`NoUnseenLossAlways` in `GraphVersions` would be violated too: a draft is stored
without the version it was drawn on (`graph_draft_repo.py:29`), and a load that
fails half way leaves a page that names a version it does not show
(`graph.ts:141`). `NoUnseenLoss` is about pages loaded from a version.

## 5. Proofs

Every safety invariant and every action property of the passing runs is a theorem,
but for `AnalysesSound` and `ComparisonSound`. A theorem holds for every value of the
constants that the module's own assumption admits (`RunAssumption`,
`EventsAssumption`, ...); what it needs beyond that is a premise in its statement. No
premise is idle: with the others kept and that one dropped (`Redelivery` or
`RowFaults` set in `LifecycleCore`, a recursion limit of 11 in `PipelineCore`, and so
on) TLC finds the property violated. Where a configuration shows it already, it is named.

`RunLifecycle_proof`, for every set of workers:

| theorem | premises | what happens without them |
|---|---|---|
| `TypeCorrect` | – | |
| `CancelledOnlyIfAskedAlways` | – | |
| `RowAlwaysCoherent` | – (the property: one execution has begun) | a second execution starts from `"pending"` |
| `TerminalStaysFinal` | `~Redelivery` | `LifecycleReentry` |
| `EventsAlwaysBracketed` | `~LogFaults` | the append of an event fails and is swallowed |
| `StatusRefinesFSM`, `EndsAlwaysFromRunning`, `FinishedEventAlwaysMatchesRow` | `~Redelivery`, `~RowFaults` | `LifecycleReentry`, `LifecycleLostStart` |
| `SessionAlwaysTracksRun` | `HasRedis`, `~RedisFaults`, `~BlockedLoop`, `~Redelivery`, `~RowFaults` | the key lapses, is never set or is another's; `LifecycleBlockedLoop` |

- `TypeOK` alone is not inductive: `Finalize` fires a terminal event and needs to
  know that there is an outcome. `Progress` adds that an execution past its
  pipeline has one.
- `StopInv` follows the stop along its way: a flag in Redis or in a pod, a
  `cancel()` under way, an outcome `cancel`, a cancelled machine and at last a
  cancelled row each imply that somebody asked. It needs no premise.
- `RowInv` says that there is one execution (`Alone`), which state its machine is in
  at each stage (`StageOfMachine`), and that the row is blank until `Finalize`.
  Who is alone has always been (`AloneBefore`), so that it needs no premise for
  `RowCoherent`. The terminal status is final because of it.
- `ColumnKeepsUp`: if the writes to the row work, the row is where the machine is. With it `Init`
  and each step map to those of `RunStatusFSM`, an absent row being read as
  pending; and `FinishInv` says that no `RUN_FINISHED` is in the log before the row
  holds the status it names.
- `SessionInv`: the monitor runs only beside the pipeline, the column is the
  worker's from the moment it wrote it, the key too until the monitor has returned,
  and the key is not once the worker has released it.
- `Brackets(w)` says what the log holds of w at each of its stages. It is about one
  execution at a time, so it survives any number that interleave.

`RunEvents_proof`, for any runs, executions, events and page size: `TypeCorrect`
and, without overlapping executions, `NothingIsMissed` and `BroadcastIsAlwaysBase`.
The client is safe if what is committed later has the larger id. The invariant that
says so: an inserted row is newer than every committed row of its run
(`InsertedIsNewest`), which follows from ids drawn in order (`IdsGivenOut`) and one
execution at a time (`Alone`); the cursor stands on a committed row. `EventsOverlap`
shows that `Alone` is needed.

`Graph_proof`, for any editors, edits and verdicts, proves of `GraphVersions`
`TypeCorrect` and

- `Linear`: `Spec => []VersionsLinear`. Numbers and parents are computed from reads
  that may be old when the row is inserted. What saves them is the unique key: at
  most one uncommitted row has the next number, and its author read what is still
  the newest version (`SavesAreCurrent`).
- `NothingUnseenIsLost`: `Spec => []NoUnseenLoss`. `PagesHaveSeen` carries, through
  load, edit and save, that a page has shown the version it names; with
  `SavesAreCurrent` that is the version its save follows.
- `ImplementsChain`: `Spec => ChainSpec`. The committed versions map to the
  abstract chain and the version a page names to `base`; a commit is a `Save`, the
  start of a load an `Open`, everything else a stutter.

The invariant is `Typed /\ VersionsLinear /\ SavesAreCurrent /\ PagesHaveSeen`;
`Typed` is `TypeOK` in a form in which the provers can use it.

Of `Canvas` it proves, for any instances, templates, semantics and bundles and any
number of edits:

- `SnapshotAlwaysSound`: `CanvasSpec => []SnapshotSound`. That no instance is in two
  bundles is not inductive as a statement about two bundles: a removal filters lists,
  and a move takes an instance out of every bundle and then puts it into one. `Sound`
  says it of places (each member of each bundle stands at one place), and
  `PickProperties` that a filter gives every element of its result a place of its own
  in the original, by counting (`EveryRankTaken`: ranks are an injection between sets
  of one size, hence onto).
- `EditsAlwaysShow`: `CanvasSpec => EditsShow`. That the diff of equal designs is empty
  is `NotShown`, of any two sound snapshots. Conversely each action changes one
  component of the diff or leaves the design as it is: the id of a new edge is new,
  since a list shorter than `MaxParts` cannot use all `MaxParts + 1` endings
  (`FreshEdge`, by the pigeonhole principle), and a moved instance is found in its new
  bundle because it is in no other (`BundleOfIs`). For that `Sound` also says that a
  page gives an id to one instance and to one bundle.
- `ValidationAlwaysSound`: `CycleSearchExact => (CanvasSpec => []ValidationSound)`. A
  report that ends early hides errors but never all that are fatal (`NodeRefExact`,
  `VerdictExact`): the first two visitors end it only with a fatal error of their own,
  a loop is a cycle, and semantics are judged only where the source is known, which
  the first visitor has checked; an empty one, which a template may allow, has
  stopped the parser. What was saved has passed the builder, so that the
  structure check does not raise, and has no error but that of a field (`SavedRuns`).
- `PasteAlwaysKeepsNames`: `CanvasSpec => []PasteKeepsNames`, of any snapshot, a
  client's included. Renaming is one to one on all names that a snapshot can hold,
  the dangling ones among them (`RenamedApart`), so each edge and each member of the
  copy is judged like the one at its place in the original (`CopiedParts`).

`CycleSearchExact` says that `Cycle` reports nothing exactly if the graph is acyclic.
`AnalysesSound` checks it of `SearchCycle`; it is needed, for a search that reports
nothing would let cycles be saved. The other three have no premise. What clients of
the API send is exempt by the properties themselves: `CanvasAssumption` asks only for
its type, the server must refuse the rest. It asks that a bundle has an id and that
the ids a paste draws are
distinct and new; in the code they are random hex, whose collisions are not modelled.
`MaxParts` bounds what is drawn for TLC; for the theorems it is any number.

`PhasePipeline_proof`, for any recursion limit, any bounds on faults and attempts,
and a `CancelledError` or a death at any await:

- `VerdictAlwaysSound`. Along all paths of the three variants a node is entered with
  one of seven states (`StateAt`), and a variant never comes to the nodes of
  another (`OnRoute`). `OnItsWay` says so, for the state a step was given and for
  what it made of it.
- `StepsAlwaysReported`, `RecordsAlwaysAgree`, `CallsAlwaysKept`. `LogSound` says
  what the event log tells of the steps that are over and of the one under way,
  `RowsSound` which rows and details it has at each of its stages, `BuffersSound`
  that the buffer of LLM calls is complete until the verdict is given.
- `FailsAlwaysOnFault`, from `RecursionLimit >= 12` (LangGraph's default is 25).
  `FaultsCounted` charges each entry of the except branch to a fault or to the
  settings, `OnlyInvalid` says where a run can be with the settings of `config.py`, and
  `PathBounded` gives each node the longest path to it (`Rank`).

`Agent_proof` has two components. For `LlmGateway`, any tasks and any limit:
`PermitsAlwaysSafe` and `NeverAboveLimit`. The invariant is
`TypeOK /\ PermitsAccounted /\ NoLostWakeup` with `BlockedByCall`: the main loop is
blocked exactly while a call is on the background loop. `PermitsAccounted` counts
permits, so each kind of step has a lemma on the cardinality of the callers at a
place; which waiter a release wakes rests on a lemma that a queue with a sleeper has
a first one.

For `ScenarioRun`, any suites, nodes, limits and answers of the LLM, and any
comparison:

- `EveryCallAlwaysAnswered`, from `Provider = "claude"`; `ScenarioOpenAi` shows that
  this is needed. `Conversation` says it of the loop: the calls of every message but
  the one that is worked off are answered, id by id, in the next, and what that one
  has of answers so far is a beginning.
- `TraceAlwaysSound`, without a premise. `Counts` bounds what is traced for an
  instance by its counter, and over the scenarios by the limit. That the outputs left
  in the state are the last ones traced needs three things together: the outputs of
  a scenario are the last ones traced in it (`LastOf`), the trace goes from
  scenario to scenario (`InOrder`), and `Merge` takes the last result that has any.
- `PassAlwaysMeansMatch`: the handler passes exactly if there are scenarios and each
  has an answer that is JSON and equal to what is expected. With `Comparator` in the
  place of `Equal` that is `PassMeansEqual`, which TLC checks.

`AppSettings_proof`, for any processes and values: `CacheAlwaysSound`. The lock of the
row lets one `set()` write at a time (`OneHoldsTheRow`); a read that has seen another
value than the row knows it (`ReadsKnow`); and who is going to drop a stale entry is
named: a process that has committed and not yet popped, or popped and not yet
published, or the message (`EntriesAreExcused`). A commit without an answer marks
what was read before it, cached or not.

`SandboxManager_proof`, for any processes, runs and workers: `BindingAlwaysSound`.
A run that nothing has moved is `Tied`: one process at most has a command of it, the
key in Redis names the worker that its commands went to and is written only when
there is none, and what a process remembers is that key or the choice it is about
to register. `moved` becomes true at each event that breaks one of these.

`ToolTemplates_proof`, for any users, ids, definitions, requests and cache size:

- `RowsAlwaysSound`. The checks of a request may be stale by the time it writes. What
  holds then is `JobInv`: its version number is one more than there are, or one there
  is (`Fits`); two flushed requests touch different rows and different names
  (`LocksApart`), which are the row lock and the unique key; and what the unique key
  let pass is still free at the commit (`KeysHold`).
- `HistoryAlwaysKept`, the action property: it follows from the same invariant, for a
  commit replaces a row by one that extends it.
- `SimulatorAlwaysExact` and `CacheAlwaysAnswersKey`. `RegistryInv` says that loads
  and cached templates answer their key from what is stored, and that a cached
  simulator was made of a stored template; stored templates stay
  (`HistoryAlwaysKept`), so an entry may be old but never another template's.
  `TemplateAssumption` says what a definition is: a record of its six fields.

Only model-checked:

- `DesignForest` (`AnalysesSound`) and `Comparator` (`ComparisonSound`): depth-first
  search, Kahn's algorithm and the comparison of JSON are recursions over data, and
  what they compute needs an induction that the installed provers cannot instantiate.
  They are checked over bounded inputs.
- All liveness (`StopEndsRun`, `RunEnds`, `WaitingEnds`, `ClientCatchesUp`,
  `SaveAnswered`, `StalenessEnds`, `Converges`, `CallsEnd`, `Rejoins`, `HandlerEnds`),
  which the prover does not handle.

## 6. Not modelled, and why

- The text of events, verdict payloads, summaries, prompts, durations: no property
  is about them.
- A failure of `PipelineBuilder.get`, which comes before the try block: it leaves
  the run to the caller.
- `PipelineBuilder._build` without handlers: the factory always has two.
- Phases 2 and 3 are skeletons in the code (no static issue, every build
  succeeds, the reflector says done), and so in the model. The fix loop is
  modelled as coded: `outer_fix_iter` is read and never incremented.
- `ScenarioRun` presumes settings that declare the names it reads: with those of
  `config.py` its first scenario raises before the first LLM call (section 4).
- In `ScenarioRun`: scenarios without the keys that the handler reads, answers an
  adapter cannot parse, and what a Python simulator computes. `stopped_reason` is
  ignored by the code if the final text parses, and so by the model.
- In `ToolTemplates`: a cache hit, whose only effect is the order of eviction.
  Two global templates of one name are the exception in `SimulatorIsExact`: the
  unique key does not bind where the owner is NULL.
- In `SandboxManager` one connection stands for the pool of a worker; two commands
  that reconnect one slot at the same time are not told apart.
- `soft_delete` of templates is called by nothing; `message_id` only narrows a
  query; lists and metrics only read.
- The cross validator is not part of a run. Meta templates, reviews, JSON cases,
  users and audit are rows that one transaction writes. Migrations are applied by
  one process in order. The other status machines are fired by nothing yet.
- LangGraph, asyncio, Redis and the databases are external: modelled from how
  the code uses them.

## 7. Plan

What is left, in this order:

1. `RunOwnership`: session key and `worker_id` with two executions of a run
   (who deletes whose key), composed with `RunLifecycle`.
2. An abstract feed for `RunEvents` (a client sees every event once and in order)
   and its composition with `RunLifecycle`.
3. The handler of `PhasePipeline` refined by `ScenarioRun`.
4. A stale-at-most-one-TTL register as the abstract specification of
   `AppSettings` and of the registry in `ToolTemplates`.
5. The migration runner with a crash between two statements; the pool of
   connections of a sandbox worker.
