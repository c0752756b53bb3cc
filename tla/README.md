# HubOS: a verification project

HubOS is an asyncio service that runs language-model agents: a web API and a
dozen messaging channels feed messages to agents, agents run in workspaces that
can be reloaded while they work, long work is split into plans, workflows and
graphs, and everything can be watched, confirmed or cancelled from a console.
This directory holds TLA+ models of its concurrent core, TLC configurations that
check them on small instances, and proofs, checked by TLAPS, of what must hold
for every instance. Paths below are relative to `src/src/hubos/`.

Contents: 1 inventory · 2 how the code is cut into actions · 3 the modules ·
4 runs, bounds and fairness · 5 proofs · 6 disagreements and observations ·
7 what is not modelled · 8 plan · 9 running it.

## 1. Inventory

| component | state it keeps | operations | what is hard | what makes it correct |
|---|---|---|---|---|
| Task tracker `app/runner/task_tracker.py` | chat key → run; per run a producer task, a watchdog task, subscriber queues, a replay buffer | start, force a new run, attach and reconnect, stream, detach, stop, touch, stale cancellation | cancellation at any point, replacement of a run that is still unwinding, replay joined to live events | a live run is found by its key; every stream ends; no event is missed or repeated |
| Channel queues `app/channels/unified_queue_manager.py`, `app/channels/manager.py` | (channel, session, priority) → queue with a consumer task; a cleanup loop | enqueue, consume in batches, clear, evict when idle, stop everything | lookup and put are separate steps; eviction while a batch runs; shutdown chains of cancellations | one consumer per key; messages of a key handled serially; nothing waits behind a dead consumer; shutdown ends |
| Task plans `app/task_plan.py`, `app/task_plan_executor.py`, `app/routers/task_plan.py`, `app/task_plan_chat_control.py` | plans with ordered steps and statuses; one executor task per running plan | create, insert, edit, start, pause, resume, cancel, evict | requests between any two awaits of the executor; confirmation gates; a cancelled task that never ran | nothing gated runs unconfirmed; statuses agree with what executes; a cancelled plan stays closed |
| Run control `app/run_control.py`, its uses in `app/routers/console.py`, `app/channels/base.py`, `agents/tools/` | runs by id and session, parent/child links, per-chat cancel functions | register, attach, report, cancel a tree, evict | ends are polled by chat and reported by whoever follows a run; trees grow while they are cancelled | a cancel function stops the run it is registered for; what is called settled has ended or was told to; every run settles |
| Approvals `app/approvals/service.py`, `agents/tool_guard_mixin.py` | pending and completed approvals with futures | create, resolve, cancel, consume once, collect | collection against consumption, several pending calls of one tool | an approval is used once, for the call it was given for |
| Agent workspaces `app/multi_agent_manager.py`, `app/workspace/` | agent → workspace instance, delayed cleanups | lazy load, hot reload, stop, stop all | start outside the lock, swap, old instance kept for its running tasks | one live instance per agent; an instance is stopped once and not under a run |
| LLM limiter `providers/rate_limiter.py`, `providers/retry_chat_model.py` | semaphore, minute window, global pause | acquire, release, report a 429, retry, hand the slot to a stream | ownership of a slot moves between coroutine and generator; timeouts | slots are neither lost nor doubled; a pause is respected |
| MCP clients `app/mcp/manager.py` | key → client, deferred configurations | init, lazy connect, replace, remove, close | connecting outside the lock | no client is left connected and unreferenced |
| DAG scheduler `core/dag/` | node states, ready queue, threads | tick, retry, human gate, merge, recover | threads without a lock | a node runs once per attempt, after its dependencies |
| Execution core `core/execution/`, `core/schemas/state.py` | persisted tasks, events, state machine | transition, append, recover | crash between file and event | events and state agree after recovery |
| Coordinator `core/orchestrator/` | units, results, conflicts | dispatch in parallel, reflect, route | failed dependencies, timeouts | a unit runs after its dependencies, budget is kept |
| Ad-hoc workflows `agents/tools/agent_workforce.py` | steps with dependencies and statuses; a driver task, a task per step, a semaphore, a waiting call | coordinate, track, cancel | waves, skips that cascade, cancellation while steps unwind or swallow it, a caller that leaves | dependencies first, done means every step done, a cancellation ends it, monitor and run control agree |
| Preset workflows and task board `core/workflow/`, `agents/tools/runtime_delegate.py` | workflow and task-board files | delegate, checkpoint, resume | files read and rewritten | a step is not lost or run twice |
| Task monitor `app/task_monitor.py`, `app/task_monitor_helpers.py` | visible tasks, cancel handlers | register, update, cancel, prune | late updates, a cancellation that meets the end | a record agrees with what it mirrors |
| Sessions `app/runner/session.py` | one JSON file per session | load, merge, save | read-modify-write without a lock | no update is lost |
| Cron `app/crons/` | jobs, a heartbeat | schedule, run, pause | overlap | one run of a job at a time |
| Adapters, agents, memory, providers, CLI, tunnel, routers, console | external I/O, text and UI | | | |

How they interact. A channel (or the web API) enqueues a message; the consumer of
its key calls the runner, whose stream is attached to a **task tracker** run; the
console attaches to the same run. Channel consumers therefore wait inside
`stream_from_queue`. A chat message may instead steer a **task plan**, whose
executor drives an agent per step through the runner and mirrors its states into
**run control** and the **task monitor**. A hot reload (**workspaces**) asks the
old workspace's tracker whether tasks are active and delays its stop until they
are done. Every model call passes the **LLM limiter**; every guarded tool call
passes **approvals**. The shared state is in-process dictionaries guarded by
`asyncio.Lock`; the calls between components are plain awaits and callbacks.

The hazards that follow from this, each with its line and the properties aimed at
it, are listed in `PROJECT.json`.

## 2. How the code is cut into actions

All modelled components run on one asyncio event loop, so an action is what a task
does between two awaits that really suspend. Four facts decide the granularity:

1. *A locked block without awaits is atomic.* `async with asyncio.Lock()` does not
   yield when the lock is free, and none of the blocks under the locks of the
   tracker, the queue manager and the plan store awaits anything. Their locks are
   therefore never contended, and `lock; test; write; unlock` is one action.
   The same holds for the limiter, the approval service, run control and the task
   monitor; the lock of the workspaces is the exception (see `MultiAgentManager`).
2. *Cancellation is a request.* `Task.cancel()` only marks the task; the
   `CancelledError` arrives in a later step of that task, after which it may still
   emit, swallow the error, or unwind. Request and delivery are separate actions.
3. *A task cancelled before its first step never enters its body*, so none of its
   `except` and `finally` clauses run. Each task has a state "created" for this,
   with an abort action (`AbortBeforeStart`, `ConsumerAbort`, `Aborted`, `Vanish`).
4. *`asyncio.wait_for` depends on the interpreter.* The project supports Python
   3.10 to 3.13 (`pyproject.toml`). Up to 3.11 the awaited coroutine runs in a
   task of its own; from 3.12 it runs inline, so that a coroutine that swallows
   the cancellation swallows the caller's. `SwallowsCancel` in the queue model is
   this choice.

Data are abstracted to what the properties tell apart: events are numbers within
their run, messages and steps are model values, time is an `idle` flag that a
`GoIdle` action raises and activity clears (in the limiter, where delays are
compared, it is discrete and `Tick` advances it). Objects (runs, queue objects, steps,
subscribers) come from finite pools and are used once, which keeps an old object
apart from its successor under the same key: the errors this code could make are
mostly confusions of the two.

## 3. The modules

### TaskTracker

`registry` is `_runs`; `owner`, `task`, `cancel`, `queues`, `buffer`, `emitted`,
`idle` and `watchdog` are the fields and tasks of a `_RunState`; `inbox`, `stream`,
`joined`, `seen` are a subscriber's queue, its `stream_from_queue` generator and
what it has read.

| code | action |
|---|---|
| `attach_or_start` on an idle key / with `force_new` / on an active key | `StartFresh` / `ForceNew` / `Attach(s, k, FALSE)` |
| `attach`, `attach_or_start(reconnect)` | `Attach(s, k, TRUE)` |
| `stream_from_queue` turn, end, disconnect; `detach_subscriber` | `Consume`, `Disconnect`, `Detach` |
| `request_stop`, `cancel_stale_tasks`; `touch` | `RequestStop`; `Touch` |
| `_producer`: first step, loop, cancelled, ends, raises, never entered | `ProducerStart`, `ProducerEmit`, `DeliverCancel`, `ProducerReturn`, `ProducerError`, `AbortBeforeStart`; its `finally` is `Finalise` |
| `_watchdog` | `WatchdogTick`, with `GoIdle` for the passing of `_MAX_RUN_SECONDS` |

Properties: `ImplementsRunRegistry` (below), `NoStrandedSubscriber` (an open
stream has its sentinel coming), `GapFreeStream` (replay and live events join
without gap or repeat, with a cut buffer too), `IdleRunIsCancelled` and
`CancelReleasesSubscribers` (liveness; of a run that has started: a producer that was
never entered releases nobody, and only `RunsSettle` of `RunControl` speaks of it). `LiveRunRegistered` (the late `finally` of a
replaced run does not remove its replacement; no live run is lost) is proved only.

`RunRegistry` is the abstract specification: which run a chat serves, how far each
run is, and whether it was asked to stop. Under the mapping a key serves the run its
entry names as long as that run's task is not done (`Serving`), so that what an
aborted run leaves in `_runs` is not served; `cancel` is *asked*. Everything that
subscribers, buffers and watchdogs do is a stutter, `ForceNew` one step that serves
the new run and asks the old one to stop, and a `finally` frees its own chat only.

### UnifiedQueueManager

`queues` is the dictionary `_queues`; a queue object carries its key, its activity
(`idle`) and its consumer task (`consumer`, `cancelled`); `msg`, `dest`, `target`
follow a message from submission to handling; `cleaner`, `todo`, `awaited` are
the cleanup loop and its local variables; `stopper` is the progress of `stop_all`.

| code | action |
|---|---|
| `_enqueue_one`; `_get_or_create_queue`; `queue.put`; its timeout; refusal after shutdown | `Submit`; `Resolve`; `Put`; `PutTimeout`; `RefuseLate` |
| `clear_queue` | `Clear` |
| `_run_consumer` around `_consume_queue`: start, get and drain, processed, raised, cancelled, cancelled before the first step | `ConsumerStart`, `Take`, `ConsumerNext`, `ConsumerFail`, `ConsumerExit`, `ConsumerAbort` |
| a cancellation swallowed inside the batch (3.12 and later) | `ConsumerSwallow` |
| `_cleanup_loop` / `_cleanup_idle_queues` | `CleanerScan`, `CleanerAwaited` around `Sweep` |
| `stop_all` of both managers | `StopEnqueues`, `StopCleaner`, `StopConsumers`, `StopFinish` |

Properties: `RegisteredConsumerLive`, `ImplementsMailbox`, `QueuedIsTaken`,
`StopTerminates`; `SteadyKeysSerial` and `SteadyConsumerRegistered`, on which it
rests, are proved only. `RegisteredConsumerLive` says that what a key names has a live
consumer, not that it is the only one: a displaced consumer that goes on, and pops its
successor, is the matter of `StrictSerialization`. They are stated for what the code gives. *Steady* keys, outside `IdleKeys`, are keys whose traffic
never pauses for `idle_timeout`: for them the promise of the header (strict
serialization) holds, whatever eviction does to other keys. For the keys in
`IdleKeys` it does not (section 6).

`Mailbox` is the abstract specification of the steady keys: no objects, consumers
or dictionary, but a mailbox per key whose messages wait within the capacity, leave
together into one batch at a time or are cleared, and never go back. A message that
is on its way to a queue, before or after the lookup, is *sent* (`Mail`); a key is
*busy* while any queue object made for it has a batch (`Busy`), whether the
dictionary still names that object or not. `stop_all` first turns away what has not
arrived and promises nothing from the cancellation of the consumers on (`Stage`):
`Aftermath` only keeps a message from going back.

### TaskPlan

One plan: `plan`, `steps`, `status`, `gated`, `confirmed`, `planConfirmed`, `current`
are its record in the store; `exec` and `registered` the executor task and its entry
in `_running`; `canceller` a `cancel_plan` request that waits for the task it
cancelled. `exec` is "poll" while the task sleeps in the poll of a paused plan and
"turn" at the head of the loop after a step, where nothing else runs. A plan that
`task_plan_autogen.py` creates gated is parked at once, as `Start` would.

| code | action |
|---|---|
| store requests | `Create`, `AddStep`, `Evict`, `Pause` |
| `POST steps/{id}/status`: any step, to any `PlanStepStatus`, in a plan of any status | `EditStep`, whose metadata may give or take the step's gate and confirmation |
| `start_plan`, `resume_plan` | `Start`, `Resume` (a parked plan, a live poller or a new task) |
| `executor.cancel_plan` with a live task / without | `CancelBegin`, `CancelEnd` / `CancelNow`, all using `StoreCancel` |
| `_run_plan`: leave, poll, all done, next step, missing runner, done, failed, plan evicted, cancelled, never entered | `StopAtHead`, `Poll`, `Finish`, `BeginStep`, `NoRunner`, `CompleteStep`, `AgentFails`, `StepLost`, `Cancelled`, `Aborted` |
| an agent that swallows the cancellation and answers, fails or finds the plan gone | `CompleteStep`, `AgentFails`, `StepLost` with the cancellation pending (`GoesOn`); `Cancelled` at the head of the loop, by the cancel event |

The status endpoint asks nothing: a client may write "running" to a step of a draft
plan (`tests/unit/app/routers/test_task_plan_router.py:302`) or "pending" to a step
of a plan that is done, and the store then shows what the client wrote. What can be
promised is that the *code* writes no untrue status. Two history variables tell the
client's words from the code's: `edited` has the steps whose status is one a client
wrote and nothing has written over since, `withdrawn` says that a client took the
confirmation from the very step in execution. Every action but an edit updates them
in one conjunct (`Overwrites`).

Properties: `RiskGate` (nothing that needs confirmation executes without it, except
the step in execution from which a client has just taken it),
`StatusesTruthful` (for the statuses that no client wrote: a step is RUNNING only
while the executor executes it, the step in execution of a plan that is on is
RUNNING, and no plan is DONE with a step still pending), `CancelledNotResumed`,
`ImplementsGatedPlan`, `PlanProgresses`, `CancelCompletes`.

`GatedPlan` is the abstract specification: the plan as its user sees it, with its
statuses and confirmations and one worker that takes up one step at a time. The
executor's task, its entry in `_running`, its polls and the request that waits for it
are gone; `Working` is the step in execution while the executor executes one. Resuming
or starting a plan never leaves a second worker behind, a step is taken up only while
the plan runs and only if what it needed was confirmed, cancelling closes every open
step at once, and a step ends only with its worker. Whether the worker survives a
cancellation is left open: one that a resume put there during the wait of
`cancel_plan` does (section 6).

### MultiAgentManager

One agent: agents share only the manager's lock. `agent` is its entry in `agents`;
`lock` and `subject` say what the holder of the lock starts or stops; `inst` is
the life of each workspace instance; `comp` and `open` are its reusable services
(memory and chat manager, taken as one component) and the ones running; `reload`,
`new`, `old` are the progress and the local variables of each `reload_agent` call;
`cleanup` the delayed cleanups; `client` and `at` the requests and the instance
each was given; `restarted` is a history variable.

| code | action |
|---|---|
| `get_agent`, `get_or_create_feishu_workspace`: loaded; start, started, failed | `Get`; `LoadBegin`, `LoadEnd`, `LoadFail` |
| `stop_agent` | `StopBegin`, `StopEnd` |
| `reload_agent` steps 1 to 3; 3.5 and start; started or failed | `ReloadCheck`; `ReloadBegin`; `ReloadStarted`, `ReloadFail` |
| step 4 with the agent there and step 5; without it | `ReloadSwap`, `ReloadStopped`; `ReloadDiscard`, `ReloadDiscarded` |
| `delayed_cleanup` | `CleanupWake` (no run left, or the minute over), `CleanupEnd` |
| a request between `get_agent` and `attach_or_start`; end of its run | `RunStart`; `RunEnd` |
| `stop_all` | `StopAllBegin`, `StopAllStop`, `StopAllStopped`, `StopAllEnd` |
| `Workspace.start`, `stop(final)` | `StartBegins`, `StartEnds`, `StartFails`, `StopBegins`, `StopEnds` |

Here the lock *is* held across awaits (`get_agent` starts and `stop_agent` stops
under it), so it is part of the state, unlike the locks of section 2.

Properties: `ImplementsAgentService`, `ReusableLive` (what reloads hand on runs where
it is used), `ReloadEnds`, `ReplacedStops`. `NoOrphan` (until shutdown no running
instance is forgotten) and `RegisteredServes` (`get_agent` returns a started
instance), on which the refinement rests, are proved only.

`AgentService` is the abstract specification: the life of each instance, without lock,
reload calls or cleanup tasks. `Life` reads it off who has the instance: *serving*
(registered), *ready* (in a reload that has not swapped it in), *draining* (replaced,
its cleanup waits for its runs), *stopping* (replaced, being stopped), *leaving*
(being stopped under the lock), *gone*. A started instance that nobody has would be
"lost", which is no life of the contract. At most one instance serves, a reload
replaces it in one step, an instance with runs is drained before it is stopped, and an
agent is loaded again only when the one that `stop_agent` stops is gone. From
`stop_all` on, which forgets and cancels on purpose, all that is promised is that what
is gone does not come back.

### LLMLimiter

A pool of model calls before one limiter. `pc` says where a call stands, from the
gates of `acquire` through the request, the stream and the back-off to its end;
`attempt` is the counter that `__call__` hands on to `_wrap_stream`; `pause`,
`window`, `value`, `inFlight` are `_pause_until`, `_request_times`, the semaphore
and `_in_flight`; `requests` and `due` are history variables.

| code | action |
|---|---|
| `RetryChatModel.__call__`, its acquire timing out, its request failing | `Start`, `TimedOut`, `RequestFails` |
| `acquire`: pause, window, semaphore; after a sleep | `PassPause`, `PassWindow`, `TakeSlot` in `Acquire`; `Recheck`, `Resume` |
| a plain answer; a stream opened | `Answered`; `StreamOpens` |
| `_consume_stream_with_slot`, `_wrap_stream`: first chunk, more, end, failure, next attempt | `FirstChunk`, `ConsumerResumes`, `StreamEnds`, `StreamFails`, `Retry` |
| `report_rate_limit`; `release` | `Report`; `Release`, used by the above |
| the fallback model | `FallbackAnswers` |
| cancellation anywhere | `Cancel` |

Properties: `ImplementsCallQuota`, `RetryAfterRespected` (a call is not sent again
before the Retry-After it was given has passed, whatever pauses others report),
`CallsEnd` (liveness). `SlotsConserved` (`_in_flight` counts the holders, and free,
granted and held slots add up) and `RequestsBounded` (attempts are counted across the
hand-over to the stream) are proved only.

`CallQuota` is the abstract specification, for the provider and the users of calls:
slots, the requests of each call, what is left of its Retry-After, and whether its
user has seen output. The semaphore is that of Python 3.11 and later: a newcomer queues
behind a waiter that was granted a slot and has not resumed, even if another slot is
free, and that waiter on resuming grants the free one to the next. `Stage` is what a place in the code means there; pauses, the
window, sleeps, the hand-over to a generator and the number of the attempt are gone.
A slot given back goes to a call that queues, so that none is free while one does,
but for the moment before a granted waiter passes it on; a request needs a slot, no
Retry-After left and an attempt left; and the fallback is taken only by a call that has
put nothing out. That the window admits `max_qpm` calls at most is what `PassWindow` tests, and is not part of the contract.

### ToolApprovals

`requests` is the approval service, pending and completed in order of creation;
`pool` what the pooled agent keeps of the guard's attributes between turns;
`saved` the session files; the others are the state of a turn (`query_handler`
with its agent), and `origin` and `balance` are history variables: where a call
was made, and approvals given less flagged calls run.

| code | action |
|---|---|
| `query_handler`: the message answers a pending request, or starts a turn | `Receive` with `Answer` (approve, deny) |
| `_cleanup_denied_session_memory`; a pooled or a new agent | `CleanDenied`; `Begin` |
| `_reasoning`: forced call, next replayed call, waiting for approval, the model | `Reason` with `Replay`, `Consult` |
| `_acting`: auto-denied, approved earlier, blocked with a new request, run | `Act` with `AutoDeny`, `Approved`, `Block`, `Run`; after the tool `Finish` |
| a turn cancelled or failed, with and without an agent; its end | `Interrupt`, `Abandon`; `End` |

Ages and caps of the service's dictionaries are not counted: `Closed` lets any
pending or completed request be collected whenever the code looks.

`ApprovalLedger` is the abstract specification and `ImplementsLedger` the property:
the pairs of session and call that the user is being asked about, and per session and
signature the approvals given less the flagged calls run. Requests, their collection,
replays, pooled agents and turns are gone; `Asking` is the image of the pending
requests and `balance`, a history variable, the credit. A flagged call is one that the
guard has judged: it lets through a call on which it fails, one without a session and,
when its engine is disabled, every call (`tool_guard_mixin.py:283`, 324, 358), and the
ledger promises nothing of those. `RunsApproved` (a flagged call
never runs more often than it was approved) and `AskedOnce` (one request at a time
about a call), on which the refinement rests, are proved only.

### Workflow and WorkflowContract

`status` and `step` are the statuses of `_WorkflowExecution` and its steps;
`driver` is the task of `_run_workflow`, `task` that of each `_run_step`, with the
semaphore between "queued" and "executing"; `asked` says that the driver's task
was cancelled; `monitor` and `entry` are the workflow's records in the task
monitor and in run control; `caller` is the waiting `coordinate_workflow`,
`canceller` a `cancel_run` that waits for the driver.

| code | action |
|---|---|
| `_run_workflow`: a wave, finalize, cancelled, never entered | `Gather`, `Conclude`, `Interrupted`, `Vanish` |
| `_run_step`: skip or begin, permit, answer, cancelled | `StepBegin`, `StepAcquire`, `StepEnd`, `StepCancelled` |
| `request_cancel_task`; `cancel_workflow`; `cancel_run` | `RequestCancel`; `CancelWorkflow`; `CancelRun`, `CancelRunMark` |
| the end of the wait: result, cancellation, timeout | `CallerReturns`, `CallerCancelled`, `CallerTimesOut` |

A `gather` ends with the first child that is cancelled, so the driver may close the
workflow while other steps still unwind: `task` outlives `driver`. A child may
swallow its cancellation and answer; if all do, the gather still raises at its end.
Branches that can never run are left out and named here: the tests of
`cancel_event` in the loop and in `_run_step` (1090, 1134, 1183, 1219; who sets it
cancels the task too, and the exception comes first), the sleep without ready steps
(1206; a plan without cycles always has one) and the crash handler (1253).

`WorkflowContract` is the abstract specification: statuses only, no tasks, waves,
permits or callers. `ImplementsContract` is its `Spec`, fairness included, with the
variables of the same names; its liveness says that a cancelled workflow ends, also
when every step swallows the cancellation. Further properties: `DoneMeansDone` (the verdict looks for failed steps only),
`MonitorAgrees` (cancellation against end), `EntryTruthful` (run control's outcome
is the workflow's); `PermitsKept` (also while cancelled calls unwind) is proved only.

### RunControl

Chat runs of the console and the channels, the children their tools start, and the
cancellation of the tree they form. `entry`, `children` and `handler` are the
store's entries, their `child_run_ids` and `_CHAT_CANCEL_REGISTRY`; `chatOf`,
`current`, `task`, `asked` and `ended` are what the task tracker and the children's
own tasks have of a run; `follower` is who reports its end, the console's watcher or
the channel's consumer; `todo` and `awaited` are a `cancel_run` under way.

| code | action |
|---|---|
| `post_console_chat`, `_consume_with_tracker`: a new run, `runtime_guidance`, an attached request | `StartRun`, `ReplaceRun`, `AttachRequest` |
| `POST /console/chat/stop`, `/stop` | `RequestStop`, and `CancelRun` for `cancel_all` |
| the producer: first step or never entered, its end | `TurnStart`, `TurnEnd` |
| `spawn_subagents`, `coordinate_workflow` without waiting: registration, cancellation, end | `StartChild`, `SpawnInterrupted`, `SpawnEnd`, `WorkflowEnd` |
| `_watch_chat_done`, `event_generator`'s `finally` | `WatcherReports` |
| `_consume_with_tracker`: drained, cancelled, six hours over | `ConsumerReports`, `ConsumerCancelled`, `ConsumerTimeout` |
| `cancel_run` up to a wait, after it | `CancelRun`, `CancelResume`, both by `Advance` |

`_cancel_single` suspends only while `cancel_workflow` waits, so a call goes through
the snapshot of its tree in bursts; everything else may happen between them.
Properties: `HandlerTruthful` (what a registered function would stop is the run it is
registered for), `SettledIsEnding` (a terminal entry belongs to a run that has ended
or was told to), `ControlKept` (no run loses its function to an older one's end),
`RunsSettle` (liveness: also without a sentinel). `ImplementsRunRegistry` says that the
tracker this module has underneath, reduced to what run control sees of it, keeps the
contract that `TaskTracker` keeps: what is shown here of run control is shown over
the tracker as it is. Each burst of a `cancel_run`, however many runs of a tree it
goes through, asks at most the one run that the chat serves to stop.

`MCTaskTracker`, `MCUnifiedQueueManager`, `MCTaskPlan`, `MCMultiAgentManager`,
`MCLLMLimiter`, `MCToolApprovals`, `MCWorkflow` and `MCRunControl` instantiate these for TLC. Each module has its proofs in a module of the same name
with `Proofs` appended. A definition marked *Mutant* is a plausible wrong version
of the one it precedes; it is used nowhere, and substituting it makes the named
property fail, which is how we know the property watches that code.

## 4. Runs, bounds and fairness

| run | configuration | shows |
|---|---|---|
| `tracker` | 1 chat, 2 runs, 2 subscribers, buffer of 1, 2 events, fair | the registry of runs, streams, liveness |
| `queues` | 2 keys, one of them idle at times, 3 queue objects, 3 messages, queues of 1, cancellation swallowed, fair | live consumers, mailboxes, liveness |
| `queues_serial` | 1 idle key | a counterexample to "Strict serialization" |
| `plan` | an agent step and a tool step, both gated, a simulated step, a gated plan, one edit of any step to any status, gate and confirmation, fair | gates, statuses, liveness, and the plan as its user sees it |
| `plan_all_done` | a tool step and a simulated step | a counterexample to "all done" |
| `workspaces` | 3 instances, 2 reloads, 1 request, fair | the agent's service through reloads, handed-on services, liveness |
| `limiter` | 2 calls, one with a fallback, 1 slot, 2 calls per window, 2 attempts, pauses of 1 and 2, fair | the quota of calls, Retry-After, liveness |
| `approvals` | 2 sessions, 3 turns, 2 flagged calls of one tool, a denied and a harmless one, batches of 2, 3 requests | the ledger |
| `approvals_isolation` | the same with 2 calls | a counterexample to "Reset per-session state" |
| `workflow` | 6 steps in three waves, 2 permits, fair | all properties of a workflow, and that it implements its contract |
| `run_control` | 1 chat, 2 runs, 1 spawn, 1 workflow, fair | all properties of run control, and that its tracker keeps the contract of `tracker` |
| `run_control_tree` | the same with 2 workflows | a counterexample to "and all children" |

Why the bounds are enough. The tracker's properties concern a run, its
replacement and two subscribers that joined at different times; runs of different
chats share nothing but the dictionary, and the proofs are for any number of chats.
Two events exceed the buffer of one, so replay after a cut happens. Queue properties concern a displaced object and its successor under
one key, beside another key: three objects; queues of one make `put` wait with two
messages. A plan with one step of each kind, inserted in any order, has every
interleaving of gate, park, insertion and cancellation; a fourth step repeats one.
One edit (`MaxEdits`), of any step to any status at any time, meets every state that
the code can be in; edits that build on one another have been checked with `MaxEdits`
2 (3.8 million states, four minutes), and the proofs are for any number.
Two reloads need three instances: enough for one to replace the other's, and for
one to lose its agent to a stop and meet a fresh load; a request only matters by
running on an instance or not. One slot makes the second call queue for it (a newcomer behind a granted waiter needs
two slots and three calls; that was checked apart, without the window: 370 thousand
states in a minute, no error), two calls per window with two attempts
each fill the window, and two pauses are one that could cut the other short. Two
calls of one tool are what an approval can be mistaken between, three turns allow a
replay, an overlapping turn and one that meets what they left. A wave of three
steps on two permits has one that queues, a diamond joins two waves, and a failing
first step makes skips cascade through the other two. Run control confuses at most a
run and its replacement on one chat: two runs; a child that is waited for and one
that is not are the two kinds of leaves.
`BufCap`, `MaxEvents`, `MaxSize`, `MaxEdits` and the pools are constants and the proofs hold
for all their values. Deadlock is not checked: each system may stop, when its
pools are used up and, for queues and plans, when it was told to.

Fairness. The event loop runs every ready task: weak fairness of the steps of
producers, consumers, the executor, the watchdog and waiting cancel requests. A
subscriber reads its queue; a batch, a simulated step and an agent end (an agent
step has a timeout); starting and stopping a workspace ends, and a delayed cleanup
wakes after its minute. A reload's turns at the manager's lock are strongly fair:
`asyncio.Lock` serves its waiters in order. `SF_vars(Unwind(r))` says a cancelled stream unwinds instead
of swallowing every error it is thrown: strong, because emission while unwinding
can disable it again and again. In the limiter time passes and a provider responds;
in a workflow a step's call ends (`step_timeout_seconds`), but its cancellation may
be swallowed. No fairness is assumed of clients, of `stop_all`
being called, of time passing or of the cleanup loop's next tick. With
swallowing, on 3.12, `stop_all` may wait for ever: `StopTerminates` names that one
case. In run control turns and subagents end, and a watcher or consumer looks again;
nobody has to cancel, and a workflow nobody waits for need not end.

## 5. Proofs

Each of the eight modules has an inductive invariant `IInv`; theorem `Invariance`
of its proof module is `Spec => []IInv`, and every safety invariant and every
refinement that a passing run checks follows from it, for all values of the constants
(of `ImplementsContract` the safety part). A theorem whose property no run names is a
step on the way to one that a run does:

| module | theorem | property |
|---|---|---|
| `TaskTrackerProofs` | `TypeCorrect` | `Spec => []TypeOK` |
| | `RegistryIsImplemented` | `Spec => ImplementsRunRegistry` (refinement) |
| | `LiveRunsAreFound` | `Spec => []LiveRunRegistered` |
| | `StreamsEnd` | `Spec => []NoStrandedSubscriber` |
| | `StreamsAreGapFree` | `Spec => []GapFreeStream` |
| `UnifiedQueueManagerProofs` | `TypeCorrect` | `Spec => []TypeOK` |
| | `MailboxIsImplemented` | `Spec => ImplementsMailbox` (refinement) |
| | `KeysNameLiveConsumers` | `Spec => []RegisteredConsumerLive` |
| | `SteadyConsumersKnown` | `Spec => []SteadyConsumerRegistered` |
| | `SteadyKeysAreSerial` | `Spec => []SteadyKeysSerial` |
| `TaskPlanProofs` | `TypeCorrect` | `Spec => []TypeOK` |
| | `GatesHold` | `Spec => []RiskGate` |
| | `StatusesAreTruthful` | `Spec => []StatusesTruthful` |
| | `CancelledPlansStayClosed` | `Spec => CancelledNotResumed` (an action property) |
| | `GatedPlanIsImplemented` | `Spec => ImplementsGatedPlan` (refinement) |
| `MultiAgentManagerProofs` | `TypeCorrect` | `Spec => []TypeOK` |
| | `NoInstanceForgotten` | `Spec => []NoOrphan` |
| | `RegisteredInstancesServe` | `Spec => []RegisteredServes` |
| | `HandedOnServicesLive` | `Spec => []ReusableLive` |
| | `ServiceIsImplemented` | `Spec => ImplementsAgentService` (refinement) |
| `LLMLimiterProofs` | `TypeCorrect` | `Spec => []TypeOK` |
| | `SlotsAreConserved` | `Spec => []SlotsConserved` |
| | `RetryAfterIsRespected` | `Spec => []RetryAfterRespected` |
| | `RequestsAreBounded` | `Spec => []RequestsBounded` |
| | `CallQuotaIsImplemented` | `Spec => ImplementsCallQuota` (refinement) |
| `ToolApprovalsProofs` | `TypeCorrect` | `Spec => []TypeOK` |
| | `LedgerIsKept` | `Spec => ImplementsLedger` (refinement) |
| | `RunsAreApproved` | `Spec => []RunsApproved` |
| | `AskedOneAtATime` | `Spec => []AskedOnce` |
| `WorkflowProofs` | `TypeCorrect` | `Spec => []TypeOK` |
| | `PermitsAreKept` | `Spec => []PermitsKept` |
| | `DoneIsDone` | `Spec => []DoneMeansDone` |
| | `MonitorIsRight` | `Spec => []MonitorAgrees` |
| | `EntryIsRight` | `Spec => []EntryTruthful` |
| | `ImplementsSafety` | `Spec => Contract!Safety` (refinement, safety part) |
| `RunControlProofs` | `TypeCorrect` | `Spec => []TypeOK` |
| | `HandlersTruthful` | `Spec => []HandlerTruthful` |
| | `SettledRunsEnd` | `Spec => []SettledIsEnding` |
| | `CancelFunctionsKept` | `Spec => ControlKept` (an action property) |
| | `TrackerIsTheSame` | `Spec => ImplementsRunRegistry` (refinement) |

The assumptions are those of the modules: positive bounds, null values outside
their pools, the kinds of steps among the steps, flagged calls told apart by tool
and input only, plans of workflows without cycles (which `_validate_plan` checks).

Why a strengthening is needed, module by module.

*Task tracker.* `NoStrandedSubscriber` speaks of the run a subscriber joined, so
one needs that an open stream joined a run (`JoinedKnown`), that a run broadcasts
only to those who joined it (`QueueJoined`: a subscriber of a replaced run must not
be removed by a `Detach` that looks at the replacement), and that what is unused is
empty (`FreshEmpty`). `LiveRunRegistered` needs `OwnerKnown`. `GapFreeStream` needs
that the replay buffer is the tail of what was emitted (`BufferRecent`), which is
what makes a replay join at the right event. There is a lemma per conjunct and, in
it, a step per action that can disturb it; lemmas on `Latest`, `Deliver` and the
queues carry the sequence reasoning. The refinement needs that two keys never name one
run (`NamesOwn`): only then does a `finally` free one chat.

*Queues.* A displaced queue object is what endangers its successor, so the
invariant says which objects can be displaced: an entry names an object made for
its key (`KeyMatches`), the objects in the pool are unused (`PoolFresh`), only keys
that may go idle are ever evicted (`OnlyIdleKeysEvicted`), the consumer the cleanup
loop waits for is no longer registered (`AwaitedDisplaced`), and a routed message
has an object of its key (`Addressed`). Seriality then follows from registration:
two running consumers of a steady key would both be its registered one. All of this
holds beyond `running`, until the consumers are cancelled, and so do `Routed` (what is
put or queued for a steady key is in the object its key names) and that a consumer
waited for or cancelled is not one of a steady key: the refinement needs them, since a
mailbox is emptied as a whole and a swallowed cancellation must not look like a batch.

*Plans.* `RiskGate` must survive a plan being edited while it executes: what
executes is a listed step of the plan (`ExecutesCurrent`, `Listed`), the executor
of a plan that can be resumed is registered, so that no second one starts
(`ExecutorKnown`), and nothing exists before `create_plan` (`NothingBeforeCreate`).
`StatusesAreTruthful` assumes nothing of what clients write, nor how often (`MaxEdits`
is any number). An edit keeps it because the step it writes joins `edited`
(`EditAgreement`); any other action because what it writes agrees with where the
executor goes (`StoreTells`), and what it leaves alone keeps its place in or out of
`edited` (`HistoryStep`, `CodeAgreement`).
Lemmas on `InsertAt` show that insertion loses no step. The refinement goes through
the requests, the store and the executor in turn (`RequestMaps`, `StoreCancelMaps`,
`ExecutorMaps`): `ExecutorKnown` makes a start or a resume spawn only while nothing is
worked on, `ExecutesCurrent` ties the worker's step to the store's.

*Workspaces.* Everything rests on one holder per instance: what the holder of the
lock, each reload and each cleanup work on is in the state they think it is
(`HolderKnows`, `CallKnows`, `CleanupKnows`), no two of them start or mean to stop
the same one (`OneStarter`, `OneStopper`), and a component in the hands of a reload
runs unless the agent was stopped meanwhile (`HandsOnLive`). This holds until
shutdown, so these conjuncts stand behind `shutdown = "no"`. "Gone stays gone" must
hold after it too, when the lock's holder and reloads go on among cancelled cleanups;
for that one needs only that whoever starts an instance has one of his own that never
ran (`StartsOwn`) and that what anybody else works on has run (`StopsRun`).

*Limiter.* What is left of the Retry-After a call was given never exceeds the global
pause, and nothing is left of it once the call has passed the pause
(`DueWithinPause`): later reports may lengthen the pause only. The requests are tied to the attempt (`RequestsCounted`).
`SlotsConserved` is inductive with the type invariant; its lemmas move one call in
or out of the holders and count. The refinement adds that no slot is free while a call
queues, unless a granted one has still to resume (`NoIdleSlot`), which is proved along the way, step by step (`NextMaps`).

*Approvals.* `RunsApproved` is a statement about a history variable; what keeps it
is that the approvals still in the service for a session and signature never exceed
the balance (`BalanceCovers`), so that each use of one is covered. The refinement then
goes by the requests: all of what a step changes in the service is one question more,
one answered, or one approval used, beside requests that only leave the service.

*Workflows.* What a step's status says of its task and back (`StepTask`), where the
driver stands (`Phase`), that a wave waits only for tasks that are over (`Waves`)
and that what has begun has its dependencies (`DepsFirst`) give the refinement;
`SkipsHaveCause`, a skipped step implies a failed one, is what makes the verdict
right. Every action of the tasks then is a step of the contract or a stutter
(`NextRefines`). That the refinement keeps the contract's fairness is checked by
TLC (`ImplementsContract`).

*Run control.* The store knows runs and the tracker knows chats; what ties them is
that the run a chat names is the only one of that chat that is live and uncancelled
(`OneUncancelled`), so that "the chat is idle", all a watcher ever asks, implies that
its own run has ended or was cancelled. `Registered` says which parts of a run exist,
`Reasons` that a sentinel and the wait of a cancel request have one.
`AdvanceKeeps` treats a whole burst of `cancel_run`, a set of runs at once. That a
request has only the run it was made for and children ahead of it (`OwnTree`) makes a
burst one request of the registry: the one chat run in it is that run.

Liveness (`PlanProgresses`, `CancelCompletes` and the properties of the fair runs)
is model-checked only: TLAPS proves neither `ENABLED` nor liveness under fairness.

## 6. Disagreements and observations

Runs that end in a counterexample, each against a sentence of the code:

- `StrictSerialization`, against "Strict serialization for messages with the same
  QueueKey" (`unified_queue_manager.py:9`): a consumer that is busy for longer than
  `idle_timeout` looks idle (its queue was drained into the batch) and is evicted
  while the next message starts a second consumer; the first one's `finally` then
  removes the second from the dictionary (line 266).
- `AllDone`, against "No more pending steps — all done" (`task_plan_executor.py:255`):
  a tool step parked for the user is skipped by the resumed plan, which is marked
  DONE with the step still waiting.
- `SessionIsolation`, against "Reset per-session state on a pooled agent for reuse"
  (`runner.py:528`): the guard's replay attributes survive an interrupted turn in the
  pooled agent, and the next turn, of another session, acts on them.
- `CancelsTree`, against "Cancels the run **and all children** recursively."
  (`run_control.py:298`): a request that attaches to a live run has already put its
  own cancel function over the run's and takes it away again with its entry
  (`routers/console.py:171`, 199; `channels/base.py:494`, 534), so `cancel_run` on the
  run stops nothing, and the API calls the running run "already in terminal state"
  (`routers/run_control.py:102`). Children started while `cancel_run` waits for a
  workflow are not in its snapshot and escape as well.

Behaviour the models have that no run is spent on:

- "Cleanup when task completes." (`task_tracker.py:5`): a run cancelled before its
  producer's first step stays in `_runs`, and its first subscriber gets no sentinel
  unless `force_new` already sent one (line 298).
- The six hours of a channel consumer (`channels/base.py:563`) end in no
  `TimeoutError`: `wait_for` cancels the drain, `stream_from_queue` turns that into a
  normal end, and the run is marked "done" while its producer goes on; the branch
  that would stop the producer (606) is not reached. A consumer that is cancelled
  leaves its producer running in the same way.
- Cancelling the still "running" entry of a replaced run stops the newer run of its
  chat, since cancel functions go by chat (`run_control.py:378`); a channel's consumer
  then writes "done" over "cancelled" (`channels/base.py:572`), and a cancelled spawn
  ends as "done" or "failed" (`agent_workforce.py:848`).
- The eviction loop does not test a key again after it awaited the consumer of the
  key before (`unified_queue_manager.py:405`); messages put meanwhile are lost.
- `stop_all` cancels a snapshot of the consumers and clears the dictionary after a
  wait (347-355): a consumer created in between is never cancelled.
- On 3.12 and later the cleanup loop awaits a consumer that may swallow its
  cancellation, without a timeout (410).
- A client that writes "pending" to steps again and again keeps a plan running for
  ever, and one that writes "pending" to a step of a plan that is done leaves it there
  (`routers/task_plan.py:379`): `PlanProgresses` is about a plan by itself, with
  finitely many edits, and `StatusesTruthful` about what no client wrote. "waiting_user"
  written to a step that is not confirmed hides it from the executor, like a parked
  tool step.
- `depends_on` of a plan step is documented (`task_plan.py:5`) but the executor
  orders by position only (`task_plan_executor.py:242`).
- Up to 3.11, a resume between the end of an aborted executor and the rest of the
  cancel request starts an executor that the request then forgets
  (`task_plan_executor.py:135`); this is why `CancelledNotResumed` allows "failed".
- Puts waiting on a full queue can be overtaken by one that finds room first.
- `stop_all` cancels the delayed cleanups "to avoid orphaned instances"
  (`multi_agent_manager.py:672`), which skips their stop of the old instance: it
  stays started, and nobody has it. `NoOrphan` and `AgentService` promise nothing of
  it after shutdown.
- An agent stopped and loaded again while a reload is under way gets, at the swap,
  an instance whose memory and chat manager `stop_agent` has stopped, and the fresh
  ones are left running; `restarted` keeps this case out of `ReusableLive`. The
  same `stop_agent` stops them for a replaced instance that still has runs.
- A request that was given an instance before a swap and starts its run afterwards
  (`routers/console.py:108` to 186) runs on an instance that is being stopped.
- A workspace that fails to start calls `stop()`, which returns at once because
  `_started` is not set (`workspace.py:357`): services already started stay.

- The approval that a call needs because of an always-run guardian on an unguarded
  tool is never consumed (`tool_guard_mixin.py:340`): it is blocked again after each
  approval. `consume_approval` deletes the oldest approval of the tool when its
  parameters differ (`service.py:258`). An approval left by an interrupted replay
  serves a later identical call. A guard that raises lets the call through.
- `tests/unit/app/test_tool_guard_approval_flow.py` expects an older interface, in
  which a denial cancels all pending requests; the code denies the oldest one and
  swallows the message (`runner.py:674`).
- A fallback model is created without retries and limiter (`model_factory.py:1282`),
  though `fallback_model.py:20` expects both models to be wrapped.
- A stream that fails after some output is requested again from its beginning; the
  window counts admissions, not requests; a stream that is returned and never iterated
  keeps its slot, since only its own `finally` gives it back (`retry_chat_model.py:334`;
  the users in the model iterate what they get); a call that slept for the window does not
  look at the pause again; the slot is kept through the back-off of a failed request.
- A workflow whose driver is cancelled before its first step stays "pending" for
  ever (`agent_workforce.py:1377`; `Vanish`).
- A chat turn that is cancelled while it waits for a workflow marks it cancelled in
  run control while the shielded workflow goes on (1452), after which `cancel_run`
  on it does nothing; a call that does not wait or times out never updates the entry.
- A step that answers late changes from cancelled to done or failed in a workflow
  that is over (`Late` in the contract).
- Cancelling a workflow through the monitor raises `CancelledError` in the chat turn
  that waits for it.

Seen while reading, in parts not modelled: the eviction of a finished run cuts its
descendants off the tree of `get_run_tree` (`run_control.py:449`). Only READY nodes of
a DAG are dispatched while nodes other than the entries stay PENDING
(`core/dag/runtime_state.py:121`). Approving a human gate of the execution core sets
the task RUNNING and calls `execute_task`, which accepts only RECEIVED and PLANNED
(`core/execution/orchestrator.py:944`, 295).

## 7. What is not modelled

In the modelled components: event text and JSON, merging of batches, metrics,
channel start and replacement, order inside a queue, monitor and run-control
mirrors and event subscribers of a plan, a plan's own gate being set after its creation
(no endpoint writes the metadata of a plan), the parsing of chat intents, and queries
without effect; the order in which the services of a workspace start and stop. A
run of the tracker is not composed with the workspace that owns it yet: after a
reload the same chat may have a run in either tracker. Of run control, delegations and
plans as children and the eviction of old entries, and of the task monitor all but the
record of a workflow, are not modelled; of the approvals, notices to
channels are left out. The DAG scheduler is used by its own tests only, and no node
of a graph but its entries is ever made ready, so there is no behaviour of the
program to model. Adapters, providers, prompts, memory, text heuristics, CLI, tunnel and
console are external I/O, pure text processing or user interface; they have
little state of the kind these methods reach. The remaining components of the
inventory are planned.

## 8. Plan

Order, most important behaviour first:

1. `TaskTracker`, `UnifiedQueueManager`, `TaskPlan`, `MultiAgentManager` with their
   runs and the proofs of their safety (done).
2. `LLMLimiter`: conservation of slots across call, stream and retries (done).
3. `ToolApprovals`: one use per approval, for the call it was given for (done).
4. `Workflow` with the monitor's and run control's records of it, implementing
   `WorkflowContract` (done).
5. `MultiAgentManager` composed with `TaskTracker`: what a reload does to the runs,
   stops and reconnects of a chat.
6. `RunControl`: trees of runs, chat runs and their registry of cancel functions
   (done; delegations and plans as children are left).
7. Execution core: state machine, persisted events, recovery; MCP clients; sessions
   (read-modify-write); cron overlap.

Abstract specifications: `WorkflowContract`, `RunRegistry` (by two models),
`Mailbox`, `ApprovalLedger`, `GatedPlan`, `AgentService` and `CallQuota` are stated,
checked and proved to be implemented: every module keeps one.

## 9. Running it

    tlc -workers 2 -config MCTaskTracker.cfg MCTaskTracker
    tlapm TaskTrackerProofs.tla

`PROJECT.json` lists every run with its module and configuration, the source lines
each definition stands for, the mutants, the hazards and the theorems.
