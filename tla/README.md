# LADA runtime: formal models, checks and proofs

LADA is a personal assistant. Its repository holds two programs that keep state over
time: a Python runtime (`modules/`, `lada_*.py`) that takes requests from voice, chat,
web and a remote laptop, runs them as tasks, flows and commands, and asks people for
approval where a rule says so; and a gateway in TypeScript (`src/`, "main TypeScript
source tree" in the repository's `README.md:99`) that connects agents to messaging
channels and runs each session's messages in turn. They meet over the network only.

What is verified is the part of both that keeps promises over time: tasks that survive
a restart, flows that agree with their tasks, approvals that count, commands that reach
a laptop over a bad network; and in the gateway, agent runs that wait for their turn
across restarts, messages that go out although the process dies, and messages that come
in while a run goes on. Paths below are relative to the repository's root.

Contents: [Parts](#parts-of-the-system), [Modules](#modules-and-the-code),
[Runs](#runs), [Bounds](#bounds-and-why-they-are-enough), [Fairness](#fairness),
[Proofs](#proofs), [Divergences](#divergences), [Not modelled](#not-modelled),
[Plan](#plan), [Running it](#running-it).

## Parts of the system

### Task registry (`modules/tasks/task_registry.py`)

- *State.* `_tasks` (id → task), `_resume_tokens` (token → id), `_history`; on disk
  `active_tasks.json`, `task_history.json` and one `paused/<token>.json` per token.
- *Operations.* create, queue, start, complete, fail, cancel, pause, await_approval,
  resume, retry, update, update_step, delete, cleanup_completed, reconcile, and the
  loading of the files on construction.
- *Interaction.* Called by the flow registry, the adapters, maintenance, and HTTP
  routes. One re-entrant lock; listeners are called outside it.
- *Hard.* A call writes up to three files one after the other and may die in between; a
  write that fails is logged and forgotten (999, 1021, 1043), and the call goes on;
  tokens are kept in memory, in the task and in a file of their own; one branch of
  resume() returns without the save every other branch ends with; most calls do not
  ask what state the task is in.
- *Correct when.* A suspended task can be resumed by the token it carries, over restarts
  too, unless a call had begun to remove that token; while the process lives it can,
  whatever writes fail; a task that reads as finished was recorded.

### Task flow registry (`modules/tasks/task_flow_registry.py`)

- *State.* `_flows`, saved in `active_flows.json`; templates in a file of their own.
  A flow shares its id with a task of the registry, and each has a status.
- *Operations.* create_flow, start_flow, complete_step, await_approval, pause_flow,
  resume_flow, cancel_flow, templates.
- *Interaction.* Calls the task registry under its own lock and ignores most answers;
  resume_flow calls it *before* taking the lock.
- *Hard.* Two layers with a status each, saved in two files; a late step result; a
  restart between the two saves, or inside one call of the task registry between them;
  modes that promise different orders of steps.
- *Correct when.* Between calls a RUNNING flow has a running task and a finished one a
  finished task; the flow file is never ahead of the task file; steps run in order and
  none is left out.

### Task adapters (`modules/tasks/task_integration.py`)

- *State.* None of their own: a call in progress and the step it is at.
- *Operations.* AutomationAdapter.execute_step (any step its caller names, whatever the
  flow's status), PipelineAdapter.run_pipeline (start, then every step in turn) and resume,
  OrchestratorAdapter.execute_task (one task, with retries).
- *Hard.* The handler runs outside every lock, so its result arrives after anything may
  have happened; two executors may drive one flow; nothing checks the step a caller
  names; a run returns at an approval, and ends by its executor's exception.
- *Correct when.* Callers that execute steps current_step_id has named, however late and
  however often, get the steps in order and none left out; a run leaves its flow RUNNING
  only if its executor raised.

### Task maintenance (`modules/tasks/task_maintenance.py`)

- *Operations.* startup_reconcile (an API route calls it; nothing calls it at startup),
  run_maintenance (cleanup, expiry), health and metrics.
- *Hard.* Reads a task's status and writes it to the flow later, without the lock.
- *Correct when.* What it writes is the status the task has.

### Approval queue and hooks (`modules/approval/`)

- *State.* `_pending` and `_history`, in `pending.json` and `history.json`; callbacks.
  `policy_engine.py` classifies an action; `approval_hooks.py` turns the class into an
  ordinary request, a refused one, or none.
- *Operations.* create_request, approve, deny, cancel, expire_stale, request_approval.
- *Hard.* Several approvers decide on one request in any order, some twice, some not
  entitled; a request runs out of time between two of them; a call saves two files
  and then announces, may die in between, and does not notice when a save failed; a
  refused request is written from outside the lock, also while another call answers it.
- *Correct when.* An approval was given by enough different, entitled people and denied
  by nobody; unless a write failed, it is on disk when it is announced, and nobody is
  told anything else of it later, not even after a restart.

### Remote bridge (`modules/api/routers/app.py`, `modules/remote_bridge_client.py`)

- *State.* On the server, in memory only: registered devices, a bounded queue per
  device, and a result per command with its dispatch time. The client keeps nothing but
  where it is in its loop.
- *Operations.* register, heartbeat, next-command, command-result, POST /remote/command;
  redelivery after a timeout, pruning; on the client run_forever and poll_once.
- *Hard.* An answer lost after the server acted on it; a request served after its client
  gave up; a command that outlasts its dispatch timeout; restarts of both ends.
- *Correct when.* A laptop has at most one unanswered command, executes commands in the
  order of their submission, repeats one only after a fault, and every command is
  answered in the end unless the server has forgotten it or the client has ended.

### Gateway command queue (`src/process/command-queue.ts`, `src/agents/pi-embedded-runner/`)

- *State.* In memory: lanes, each with a queue, the active tasks, a limit and a
  generation; a flag that refuses new commands; the waiters for active tasks.
- *Operations.* enqueueCommandInLane, the pump that starts commands, the end of a task,
  setCommandLaneConcurrency, clearCommandLane, markGatewayDraining, waitForActiveTasks,
  resetAllLanes.
- *Interaction.* An agent run is a command in the lane of its session whose task enqueues
  another in a global lane; a cron job started by hand is a command around both. The run
  loop drains and resets the queue.
- *Hard.* Commands that wait for commands while they hold a slot; limits that change
  under active tasks; a reset that forgets tasks that still execute, whose ends come later.
- *Correct when.* A command that can start does; no lane starts more than its limit; no
  two runs of a session overlap; a restart hears of the end of the last task it waits for.

### Gateway run loop (`src/cli/gateway-cli/run-loop.ts`)

- *State.* The server, the gateway lock, whether a request is in progress, and the
  function that wakes the loop for its next pass.
- *Operations.* Starting the server; SIGTERM and SIGINT to stop; SIGUSR1 to restart, in
  place or as a new process, after draining the queue for at most ninety seconds.
- *Hard.* The request and the loop both await, so each may go on while the other waits;
  a later start may fail and leave a process without a server.
- *Correct when.* A server runs under the lock; a restart ends the refusal of commands.

### Outbound delivery queue (`src/infra/outbound/`)

- *State.* One file per message not known to be delivered, a marker for one that is but
  whose file is not yet gone, a directory of failed ones; no index in memory.
- *Operations.* deliverOutboundPayloads (write, send, acknowledge or count a failure),
  recoverPendingDeliveries at every start (replay, defer, give up, a deadline).
- *Hard.* A crash or a failing disk operation at any await; a recovery that runs beside
  the deliveries of its own process and, after a restart in place, beside the recovery
  before it; failDelivery reads a file, awaits and writes it.
- *Correct when.* A message accepted is delivered, recalled, kept or put aside; what is
  delivered twice has a cause; retries end.

### Follow-up queue (`src/auto-reply/reply/queue/`)

- *State.* In memory: a queue of messages per session, with its settings, what the cap
  dropped, and whether it is being drained; message ids seen in the last minutes.
- *Operations.* enqueueFollowupRun, scheduleFollowupDrain and the drain it starts,
  clearFollowupQueue, the end of a run.
- *Hard.* A drain awaits a debounce and a whole run, and goes on with what it held on to;
  messages arrive, overflow the cap or are cleared meanwhile; the run that made a message
  wait may end before the message is queued.
- *Correct when.* A message taken in is run, once; none waits with nobody to look.

### Parts planned and not modelled yet

| Part | State | What is hard | Correct when |
| --- | --- | --- | --- |
| Subagent runtime (`modules/subagents/runtime.py`, `limits.py`) | statuses, counts per session, futures of a thread pool | caller and worker write one status, partly without the lock; limits count RUNNING only | the limit holds; a cancelled subagent stays cancelled and stops counting |
| Standalone command bus (`modules/standalone/command_bus.py`) | subscribers, a queue, workers, a stream offset | stop() joins workers under the lock they need; publish during stop | a command published and not stopped is delivered; stop ends |
| Standalone orchestrator (`modules/standalone/orchestrator.py`) | waiters by command id | one id submitted twice; a timeout racing the answer | one answer per submission, and the same to everybody |
| Task orchestrator (`modules/task_orchestrator.py`) | statuses, dependencies, futures | a dependency ends between the check and the wait; two end together; retries; cancellation of a running task | every submitted task ends; executed once per attempt |
| Remote command idempotency (`modules/api/routers/app.py`) | a cache by idempotency key | the execution is awaited between lookup and store | one execution per key |
| Provider rate limiter (`modules/rate_limiter.py`) | per provider: window, failures, circuit | one probe of a half-open circuit, taken by whoever asks | a provider that works again is used again |
| Workflow pipelines (`modules/workflow_pipelines.py`) | approval tokens on disk | the token is consumed before the run | an approved pipeline is run, once |

The remaining components (interfaces, connectors, providers, classifiers, the rest of the
gateway) and why they are left out are under [Not modelled](#not-modelled); `PROJECT.json` lists
every one, and the hazards at their lines.

### How the parts meet

    routes, chat, voice
       |        |                      \
       |   request_approval          POST /remote/command
       v        v                        |
    flows --> approval queue        queue per device
       |  \                              | next-command / command-result
       v   adapters (workers)            v
    task registry  <-- maintenance   laptop client
       |
    active / history / paused files

    message --> follow-up queue --> session lane --> global lane --> agent run
       (while a run goes on)         |    ^ cron job            |
                                 run loop (drain, reset)        v
                                                        delivery queue --> channel

The flow registry calls the task registry directly, and `TaskFlow` composes the two.
The approval queue shares no state with either: a step that waits for approval uses the
registry's resume token, a tool call that needs permission uses the queue. The bridge
meets the rest only through what a command does when it is executed. In the gateway
`GatewayLoop` composes the run loop with the command queue; the follow-up queue decides
what is run next in a session and the command queue when, and the deliveries of a run
outlive it on disk, which is why those two are models of their own.

## Modules and the code

| Module | Models | Extends |
| --- | --- | --- |
| `TaskRegistry` | `task_registry.py` | |
| `TaskFlow` | `task_flow_registry.py`, `task_integration.py`, `task_maintenance.py` | `TaskRegistry` |
| `ApprovalQueue` | `approval_queue.py` and `request_approval` of `approval_hooks.py` | |
| `RemoteBridge` | the `/remote/device` routes and `remote_bridge_client.py` | |
| `CommandQueue` | `command-queue.ts`, and agent runs and cron jobs as its commands | |
| `GatewayLoop` | `run-loop.ts` | `CommandQueue` |
| `DeliveryQueue` | `delivery-queue-storage.ts`, `delivery-queue-recovery.ts`, `deliver.ts` | |
| `Outbox` | what the delivery queue promises: the abstract specification | |
| `FollowupQueue` | `src/auto-reply/reply/queue/` | |
| `TaskRegistryProofs`, `TaskFlowProofs`, `ApprovalProofs`, `BridgeProofs`, `GatewayProofs`, `DeliveryProofs`, `FollowupProofs` | theorems | the module they are about |
| `MCTaskRegistry`, `MCTaskFlow`, `MCApprovalQueue`, `MCRemoteBridge`, `MCGatewayLoop`, `MCDeliveryQueue`, `MCFollowupQueue` | model values, symmetry, one set of dependencies | the module they instantiate |

### `TaskRegistry`

`tasks`, `resume_tokens` and `history` are the fields of the same names; `disk` is the
directory with its three kinds of file; `up` says whether the process lives; `issued`
and `lapsed` are facts of the world: which tokens uuid4 has produced, and which have
passed their `expires_at`. `cleaned` is a record of the tokens some call set out to remove,
whether or not it got to the end. Each public method that changes state is an action of its
name. Status `none` is an id not handed out yet, `gone` one whose task was removed.

*Files and crashes.* A call is atomic for other threads, because it runs under the lock,
and not for the disk. Every action ends in `Commit(ts, ks, log, passed, final)`: the memory
it leaves, the disk it means to leave, and `passed`, the set of disks it goes through after
its first write began, in the order the code writes. With fault `cut` the process may die at
any of them, with `tear` also inside a write (`open(.., "w")` has truncated the file), with
`crash` between two calls. With `disk` any of the call's writes and unlinks may fail: the
exception is logged, the file is as it was or truncated (`Spoiled`), and memory changes all
the same.
`Restart` is the constructor: the active file, then the paused files in whatever order
the file system lists them; a task missing from the active file comes back from the
first of its paused files, and a torn file ends the loop.

*What decides a resumption* (`Target`, `Subject`, `Redeemable`) follows the code: the
index first, the token's file otherwise, whose task then replaces what memory holds.

### `TaskFlow`

`flows` is `_flows`, `flows_file` its file, `results` the step results, which live in the
task and are saved with it. The calls that hold the flow lock across several calls of
the task registry are split where another thread can act on the *task*: `lock` says
which call holds the lock and what is left of it (`starting`: between queue() and
start(); `completing` and `failing`: between the save of the last result and the task's
own end, `FinishConclude`; `saving`: before `_save_flows`). `creating` and `resuming` are the
two calls that touch the task before they take the lock. `work` is what each worker is
executing: `PickStep`/`FinishStep` for the automation adapter, for any step of any flow;
`RunPipeline`, `PipelineStep`, `PipelineApproval` and, when the executor raises,
`PipelineRaises` and `PipelineCaught` for a pipeline run. `PauseFlow(t, s)` writes the step
its caller had read, as the code does. `maint` is a pass of maintenance: reading a
task's status and writing it to the flow are two actions, as in the code. A crash falls
between any two of these steps (`ProcessDies`) or between two file writes of a call of the
task registry that is under way (`CallDies`, `SeveralWrites`); every thread is lost with the
process. `shown` records what current_step_id has been in this life of the process, for
anyone to read, and `outOfTurn` the flows of which somebody executed a step it had not been:
execute_step does not ask, so what is promised of the order is promised to the others.

Of the flow's three counters only `failed_steps > 0` decides anything; it is the flag
`failing`. A step's condition is an arbitrary choice of outcome `skipped`, a step's
`continue_on_error` an arbitrary choice after a failure. A pipeline runs flows in
sequential mode, the only mode `create_pipeline` produces.

### `ApprovalQueue`

`queue` is `_pending`, `announced` what the `on_resolved` callbacks have been told of each
request, `overdue` the requests whose time has passed. Calls pass through files *and*
announcements (`Trace`), so a crash may fall between saving and telling. A request for a
forbidden action is two actions, because the code writes `request.status` after
create_request has returned and its lock is gone: `refusals` records how far that got.
The write may land between two calls (`Refuse`) or inside one that answers the same request,
before the history copies the status or before the callbacks read it (`Settle`). A save may
leave what it was to save, what was there, or nothing (`PendingWrites`, `HistoryWrites`);
the call announces all the same. `failures` counts such calls and `unsaved` holds the requests
that were then announced and not shown as answered by the files. `AddDecision` is the method of that name with both early returns and the order of its
tests; `Deny` ignores what it returned, as the code does.

### `RemoteBridge`

The routes run on one event loop and do not await, so serving a request is one step.
Each route is a relation between the state, the next state and the *answer*; `Serve`
dispatches to them, and what becomes of the answer is a matter of who uses it: `Exchange`
(the client gets it), `AnswerLost` (the server acted, the client starts over), `GiveUp`
and `ServeStray` (the client starts over, the server acts later). `results[c].due` says
that the dispatch timeout of `c` has passed. `runs` is what each laptop has really
executed: a record the code does not keep and the properties are about.

### `CommandQueue` and `GatewayLoop`

`lanes` is `queueState.lanes`; a command is a pair of its kind (`cron`, `session`, `global`)
and its run, and `LaneOf` follows the two functions that choose a lane, including the
one that moves a cron job's run out of the cron lane. The program has one thread: a call
runs to its end, with every pump it starts. `toDrain` holds the lanes such a call has
still to pump, one step per command started, and nothing else happens until it is empty
(`Between`). `promise` is what each caller awaits, `executing` the tasks that really go on,
which after a reset may be more than the lanes know; `startedIn` the generation a task
carries and compares when it ends.

In `GatewayLoop` the loop awaits the start of the server (`starting`) or the next restart
(`parked`), and a request goes through `draining`, `closing` and `locking` beside it.
`resolver` is `restartResolver`: `none` before the first park, `stale` once it was called. A
server that closes may leave agent runs that never end (`TasksHang`), which is what the
reset of the next pass is for. A restart that finds nothing to call resets nothing:
`unwoken` records that one did so with hanging runs in their slots. `changes` counts
restarts and limits set, together.

### `DeliveryQueue` and `Outbox`

`pending` (with its retryCount), `marker` and `failed` are the three kinds of file. A worker
is a call that delivers, or the recovery of one start; `job` is the await it is in. Sending
ends in one of the answers of the channel (`Answers`): received, received and reported as
failed, failed, failed for good, or recalled, which is what the code makes of any error that
looks like an abort; with bestEffort too, since not all of the call is inside the handler that
bestEffort brings. A crash stops every worker between any two steps; a scan
that starts loads what the disk holds then, one entry at a time. Time is left out, so that
an entry may always be too early for a retry and a scan always be past its deadline.

`Outbox` says what that amounts to: a delivery owed is received, recalled or put aside
before it is settled. `TheOutbox` maps the files to `owed` and `dead`, and history to the
rest, for deliveries without bestEffort: of those with it the code settles also what
failed.

### `FollowupQueue`

A drain holds on to the queue object it began with while the map may come to hold another
for the same key: `queue` is therefore a function over objects, `current` the key's one.
`drain[o]` is the await the drain of `o` is in, with what it will do when it resumes: how
many items to remove, whether the summary was told. `turn` is a run that came straight
from a message; `Enqueue` is called while a run was found active, with `idle` for whether it
still is when asked a second time. `other` is a run of the session that came from no message
(the agent command): isEmbeddedPiRunActive does not tell it from a turn, and its end schedules
no drain. `overlooked` records that a message was told to wait while only such a run went on. `accepted`, `runs`, `failed`, `cleared` are records of what
happened to each message, `capped` of the messages the cap removed; `disturbed` says that a
queue was cleared under its drain or capped under a run of its drain, which makes the drain
remove what it has not run.

## Runs

| Run | Instance | States | Checks |
| --- | --- | --- | --- |
| `registry_crash` | 1 task, 2 tokens, crash and cut | 395 k | `TypeOK`, `PausedSurvives`, `TerminalIsRecorded` |
| `registry_calls` | 2 tasks, 2 tokens, any write or unlink may fail | 182 k | `PausedIsResumable` |
| `flow_agreement` | 1 flow, 3 steps with an approval, 2 workers, 2 tokens, pauses and cancellations | 185 k | `RunningFlowHasRunningTask`, `FinishedFlowHasFinishedTask` |
| `flow_crash` | 1 flow, 2 steps, 1 worker, 1 token, crash and cut, every kind of client | 224 k | `FlowFileNeverAhead` |
| `flow_steps` | 1 flow, 3 steps with an approval, sequential and by dependencies, 2 workers, 1 token, fairness | 425 k | `CompletedFlowRanEveryStep`, `StepsInOrder`, `PipelineRunEnds` |
| `approval_crash` | 2 requests, 2 approvers, 1 or 2 needed, crash and cut, 1 call whose writes fail | 1.5 M | `ApprovalTypeOK`, `ApprovedByEnough`, `ApprovalIsFinal`, `ApprovalIsRecorded` |
| `remote_bridge` | 1 laptop, 3 commands, queue of 2, 2 faults of any kind, fairness | 95 k | `BridgeTypeOK`, `OneInFlight`, `NeverGoesBack`, `ReportedWasExecuted`, `RepeatsArePaidFor`, `EveryCommandIsAnswered` |
| `gateway_queue` | 2 cron jobs of one session, limits 0 and 2, 2 restarts or changes of a limit, fairness | 271 k | `GatewayTypeOK`, `NoLostWakeUp`, `NoLostWaiter`, `DrainedHaveEnded`, `OneRunPerLifecycle`, `LockedWhileServing`, `StartsWithinLimit`, `RestartReopensQueue`, `QueuedGoesOn` |
| `delivery_queue` | 1 delivery, with bestEffort or without, 3 starts, 2 retries, 1 crash, 1 fault | 1.6 M | `DeliveryTypeOK`, `NothingLost`, `RepeatsHaveACause`, `RetriesAreBounded`, `ImplementsOutbox` |
| `followup_queue` | 3 messages of 2 channels, 3 queue objects, cap 2, 2 events, fairness | 151 k | `FollowupTypeOK`, `AcceptedIsKept`, `RunsAreAccounted`, `NoStrandedQueue`, `WaitingGoesOn`, `DrainEnds` |
| `gateway_session` | 1 message and 1 cron job of one session, 2 restarts or changes of a limit | | `OneRunPerSession` is violated |
| `followup_lost` | 3 messages, cap 1, summaries | | `UndroppedIsKept` is violated |

What the passing runs show:

- *registry_crash.* Wherever the process dies between two file writes, and however often, a
  task that reads as suspended afterwards is resumed by the token it carries, unless a call
  had begun to remove that token (`PausedSurvives`); a task that reads as finished has an
  entry in the history (`TerminalIsRecorded`), unless the history is full. Both rest on the order
  of two writes: the paused file before the active one, the history before the active one.
  The excuse of the first is needed: a resume() that dies between its unlink and its save
  leaves a paused task whose token opens nothing (Divergences).
- *registry_calls.* While the process lives a suspended task can always be resumed with the
  token it carries, whichever writes and unlinks fail unnoticed, and also when an earlier
  suspension left a second token and somebody uses that one first (`PausedIsResumable`).
- *flow_agreement.* The flow registry ignores most of what the task registry answers;
  between calls the two layers agree all the same. A call in progress is excused, and
  only that one flow (`Settled`). The clients of this run act through the flow; with
  direct calls on the task the layers drift apart, as one would expect, until
  maintenance passes.
- *flow_crash.* The flow is saved after the task, so the flow file never reports an
  outcome the task file lacks, wherever the process dies between two writes: between two
  calls of the task registry, inside one, or before the flow's own save; also with direct
  calls on the task and with reconciliation.
- *flow_steps.* In both working modes a step has a result only after the steps before it, and a
  flow is COMPLETED only when every step has one, even when two executors drive the same
  flow. execute_step takes any step, so a caller that names one which current_step_id never
  was (`outOfTurn`) is the exception: executing the last step first completes a
  sequential flow. A pipeline run, also one that returns at an approval, never ends with
  its flow RUNNING unless its executor raised.
- *approval_crash.* See the correctness list of the approval queue above, with a refusal that
  lands inside an approve call, and with a call none, one or both of whose saves fail: such a
  request (`unsaved`) may be answered otherwise after a restart, every other one not. Deadlock is
  checked too.
- *remote_bridge.* The safety properties under every fault, and the liveness property
  after finitely many of them; deadlock is checked too.
- *gateway_queue.* Between two calls no command waits in a lane with room
  (`NoLostWakeUp`), and none waits for ever (`QueuedGoesOn`), except behind runs that hang
  through a restart whose wake-up was lost (`unwoken`, Divergences), although each cron job holds a
  slot of its lane through two others and a limit may be set to zero: the run of a cron job
  asked for in the cron lane itself would wait for its own caller. A restart is told when
  the last task it waits for ends (`NoLostWaiter`), and only then (`DrainedHaveEnded`). Runs of
  a session take turns as long as the lanes were not reset (`OneRunPerLifecycle`). A lane
  starts nothing beyond its limit, also when ends of an earlier generation come in
  (`StartsWithinLimit`).
- *gateway_session.* With a reset they do not take turns: the counterexample restarts the
  gateway in place while a run does not end.
- *delivery_queue.* At every step of every worker the process may die, a disk operation
  fail, or another worker have the same entry; nothing accepted without bestEffort disappears
  without having been received, recalled or put aside (`NothingLost`), a second copy has one of
  the causes counted in `lost` and `mishaps`, retries stop at the limit but for those, and the
  files implement the outbox. A delivery with bestEffort is settled also when it failed, by
  design (`deliver.ts:797`); the two properties of the outcome leave it out.
- *followup_queue.* What was taken in is run, is cleared, or waits where a drain or the
  end of a run will find it; it is run no more often than it was taken in, but for failed
  runs; it does not wait for ever. Three excuses are for what the code does not keep
  (Divergences): `AcceptedIsKept` for an overflow or a clear under a drain, `DrainEnds` for an
  overflow, `NoStrandedQueue` and `WaitingGoesOn` for a message `overlooked`, which is
  told to wait while only a run goes on that schedules no drain.
- *followup_lost.* A message that the cap never dropped is removed by the run of the summary
  of those it did. The messages of the summary itself are not held against the code (`capped`
  keeps them apart), nor is what a queue loses that is cleared or capped under its drain.

Each violated property states what a document of the repository says;
the divergences are described below and quoted in `PROJECT.json` under `findings`.

`PROJECT.json` also holds a mutant for each property of each passing run: a changed
definition, as a plausible bug would change it (a dropped guard, two writes swapped, an
off-by-one), with which the run must fail. The mutated forms stand before the definition
they replace, marked as such, and nothing else uses them.

## Bounds and why they are enough

- *Identifiers are used once.* uuid4 and the id counters do not repeat, so `TaskId`,
  `Token`, `MaxRequests` and `MaxCommands` bound how much is created, not how much is
  known at a time. When they run out, and all is finished, nothing may be left to do:
  `registry_calls`, the flow runs and the three of the gateway say `CHECK_DEADLOCK FALSE`
  for that reason (there the process may also have exited for good). The others (`registry_crash`, where a process can always end or start again, the approval
  run and the bridge run) check deadlock.
- *Tasks and tokens.* Tasks touch each other only through the shared files, which are
  written whole, and through the history; two tasks exhibit that. Two tokens are the
  fewest that let one task be suspended twice, or be suspended again after a resumption.
  With crashes one task is enough to reach every order of writes, since a call (other
  than reconcile and cleanup) concerns one task, and TLC needs the states for the cuts;
  `registry_calls`, in which any of a call's writes may fail as often as it likes, has two.
- *History.* Two finished tasks and limits of 2 or 3 entries let the trimming happen.
- *Retries.* `MaxRetries` 1 exercises the allowed attempt and the refused one.
- *Steps.* Three steps allow a middle, an order by dependencies that differs from the
  listed one (1, 3, 2), and an approval that is neither the first step nor the last.
- *Tokens of a flow.* `flow_agreement` has the two that let a flow be suspended twice; in the
  other two flow runs one token is enough for the approval step, or for a pause.
- *Workers.* Two workers reach every overlap of two executions of one step; properties
  of single flows need no second flow, as flows share nothing but the lock and the file.
- *Approvals.* One or two approvals needed, a circle of one person or of anyone: enough
  for a second decision by the same person, an unentitled one, and an expiry between
  two approvals. Two requests fill the history and let one expire with another. One call
  whose writes fail (`MaxFailures`) shows all that one can do; calls do not remember failures,
  and the theorems are for any number.
- *Commands and faults.* Three commands over a queue of two reach the full queue with one
  in flight; two faults (any two of lost, late, restarted, pruned) allow a redelivery that
  is itself lost. Devices share nothing on the server, so one laptop shows what several
  would; the proofs below are for any set of them.
- *Gateway.* Two cron jobs of one session are six commands over three lanes: enough for a
  command that waits in a lane behind another while both hold slots of a third. Limits 0
  (taken as 1) and 2 let a lane have room and have none with the same tasks. `MaxChanges` 2
  counts restarts and limits together: two restarts, of which the second may find a server
  whose loop was never woken, or tasks of two generations; a restart and a limit set before,
  between or after; a limit raised and lowered again under the tasks it let in. The
  run passes as well with three restarts and no change of a limit, and with one job and any four
  restarts and changes; the theorems are for any number of restarts, limits, sessions and runs.
- *Deliveries* are separate files and share nothing: one is enough, and the theorems are for
  any set. Three starts let a scan run beside the call, beside an earlier scan, and after a
  crash of either. With `MaxRetries` 2 an entry can fail, be retried and be given up.
- *Follow-ups.* Three messages over two channels overflow a queue of two and make a batch
  cross channels; three queue objects let one be drained, one be current and one be new. Two
  events (new turns, other callers' runs, clears, failed runs, forgotten ids) reach a clear
  under a drain after a failed run, and another caller's run beside a turn or after it.
- *Torn files* are left out of the runs (they multiply the states of every write) and are in
  the proofs, whose theorems are for any `Faults` but for those they name (below).

Three runs leave out of TLC's notion of a state (`VIEW`) what neither their properties nor any
later step depends on: `ReadInOneLife`, in a run without crashes, the files nobody reads before a
restart; `Statuses`, in runs of sequential flows about statuses, the results of the steps and
which of them is the current one; `StillOpen` the time of a request that is over and the progress
of a refusal that will not find its request any more.

Symmetry is used over tasks, tokens and workers where a run has only invariants; the
runs with liveness properties use none.

## Fairness

- `FlowFairSpec`: weak fairness of `FinishStart`, `FinishConclude` and `SaveFlows`, the rest of
  a call that holds the flow lock; and strong fairness of `Proceed(w)`, a worker's next step: the
  executor of a step returns or raises, and a thread that waits for a lock which is free
  again and again gets it in the end, however often others are served before. Nobody
  is obliged to create, start, resume, approve, cancel or maintain anything.
- `BridgeFairSpec`: weak fairness of the client's loop (`SendRegister`, `SendPoll`,
  `ExecuteCommand`), which `run_forever` repeats with a sleep; of `Exchange`, an answered
  request, which the server gives unless a fault intervenes; and of `DispatchTimeout`,
  the passing of time. No fairness for submissions, relaunches, heartbeats (the timer
  decides) or faults, of which there are finitely many (`MaxFaults`).
- `FairSpec` of `GatewayLoop`: weak fairness of starting, draining, closing and locking, each of
  which the code awaits with a timeout or an exit; of the pump; and of the end of each task
  that executes, since an agent run is aborted after its own timeout. No fairness for
  requests, clears and configuration; tasks that hang have left `executing` and owe nothing.
- `FairSpec` of `FollowupQueue`: weak fairness of the end of a run and of a drain's next step
  after its debounce, which a quiet moment lets pass. Nobody is obliged to send anything.
- `DeliveryQueue` states no fairness: whether a message is sent at all depends on somebody
  starting the gateway again, and it promises no time.

## Proofs

All proofs are checked by tlapm 1.4.5 for every value of the constants that satisfies the
assumptions named in the modules: identifiers are a finite set (tasks), the markers for
"no id" and "no token" are not identifiers, limits are natural numbers and positive where
the code needs it, and `Faults` is any subset of the kinds a module knows, torn writes
included, but for the kinds a theorem excludes (`TaskFlow` knows two of them, `crash` and `cut`).

| Theorem | Module | Says |
| --- | --- | --- |
| `TypeCorrect` | `TaskRegistryProofs` | `Spec => []TypeOK` |
| `PausedTasksSurvive` | | `Spec => []PausedSurvives`, under crashes, cuts and torn writes, if no write fails in a process that lives on |
| `PausedTasksAreResumable` | | `Spec => []PausedIsResumable`, whatever writes fail, if no process dies |
| `FinishedTasksAreRecorded` | | `Spec => []TerminalIsRecorded`, if no write is torn or fails |
| `RunningFlowsRun` | `TaskFlowProofs` | `FlowSpec => []RunningFlowHasRunningTask`, if no process fails and clients act on the flow |
| `FinishedFlowsAreFinished` | | `FlowSpec => []FinishedFlowHasFinishedTask`, likewise |
| `FlowFilesNeverAhead` | | `FlowSpec => []FlowFileNeverAhead`, wherever the process dies between two writes, if no pipeline has an approval step |
| `StepsAreInOrder` | | `FlowSpec => []StepsInOrder`, likewise, for any clients, if the first step depends on none |
| `CompletedFlowsRanEveryStep` | | `FlowSpec => []CompletedFlowRanEveryStep`, for the modes and clients for which it is true (below) |
| `ApprovalTypeCorrect` | `ApprovalProofs` | `ApprovalSpec => []ApprovalTypeOK`, with the bounds on both histories |
| `ApprovalsAreFinal` | | `ApprovalSpec => []ApprovalIsFinal` |
| `ApprovalsAreEnough` | | `ApprovalSpec => []ApprovedByEnough` |
| `ApprovalsAreRecorded` | | `ApprovalSpec => []ApprovalIsRecorded`, whichever writes fail, if none is torn |
| `BridgeTypeCorrect` | `BridgeProofs` | `BridgeSpec => []BridgeTypeOK`, with the bound on every queue |
| `AtMostOneInFlight` | | `BridgeSpec => []OneInFlight` |
| `CommandsInOrder` | | `BridgeSpec => []NeverGoesBack` |
| `ReportsAreTrue` | | `BridgeSpec => []ReportedWasExecuted` |
| `RepetitionsArePaidFor` | | `BridgeSpec => []RepeatsArePaidFor` |
| `GatewayTypeCorrect` | `GatewayProofs` | `Spec => []GatewayTypeOK` |
| `NoWakeUpIsLost` | | `Spec => []NoLostWakeUp` |
| `NoWaiterIsLost` | | `Spec => []NoLostWaiter` |
| `DrainedTasksHaveEnded` | | `Spec => []DrainedHaveEnded` |
| `OneRunAtATime` | | `Spec => []OneRunPerLifecycle` |
| `LimitsAreKept` | | `Spec => StartsWithinLimit` |
| `ServesWithLock` | | `Spec => []LockedWhileServing` |
| `DeliveryTypeCorrect` | `DeliveryProofs` | `Spec => []DeliveryTypeOK` |
| `NothingIsLost` | | `Spec => []NothingLost` |
| `QueueImplementsOutbox` | | `Spec => ImplementsOutbox`, which is `TheOutbox!Spec` |
| `RepetitionsHaveACause` | | `Spec => []RepeatsHaveACause` |
| `RetriesEnd` | | `Spec => []RetriesAreBounded` |
| `FollowupTypeCorrect` | `FollowupProofs` | `Spec => []FollowupTypeOK`, with the bound on every queue |
| `NoQueueIsStranded` | | `Spec => []NoStrandedQueue` |
| `NoMessageIsLost` | | `Spec => []AcceptedIsKept` |
| `NoRunIsRepeated` | | `Spec => []RunsAreAccounted` |

*Task registry.* `PausedSurvives` is about a process that lives, and has to be carried over a
crash and a restart: `DiskSound` says it of the files alone, at every disk a call passes through.
`FilesBack` is its heart (a task that the active file shows suspended has a whole file for
its token, or a call had set out to clean that token up) and is inductive only with
`Snapshots` (a whole file is of an issued token and of a task that carries it, so that
writing another token's file disturbs nobody) and, for memory, with `Durable`: a token of the
index has its file, so that the index never hides the file of the same token. `SurvivalInv`
joins them. `PausedIsResumable` is about an index that outlives failed writes: one has to
know that a token belongs to no two tasks and that only issued tokens are held (`Held`); a
file may outlive its token when its unlink failed, and `Snapshots` keeps what it says of
its task true. `TokensHeld` holds only while the process lives, since a restart after a failed
write may find leftovers, and so the theorem is about one life, as `registry_calls` is.
`TerminalIsRecorded` follows from `RecordedInv`: every finished task of memory is in
the history of memory, every one of the active file in the history file, and no paused file
is of a finished task, on every disk a call passes through; a restart reads all three. A torn history file is read as
an empty one, while the tasks it answered for are still in the active file, and a history
whose write failed lacks an entry that the active file goes on to imply; hence the hypotheses.

*Task flows.* The composed module has its own lemmas on the calls of the registry: what a call
does to one task leaves the others alone. `FilesIndexed` (a token with a file is in the index, while the process
lives) says which task a resumption resumes. For the agreement of the layers
`AgreeAt(t)` places flow and task of `t` relative to the call in progress: between
`queue()` and `start()` the flow already runs and its task is still queued, and nothing
else can get at it; between the save of the last result and the task's own end the flow is
over and its task runs (`Concluding`). A restart does not bring the two files back in step and a direct call
on the task is not seen by its flow, so the two theorems exclude both, as
`flow_agreement` does. `FilesAgree` is what a crash needs: an ended flow, in memory, on its file or read by a
maintenance pass, has a task that has ended *on disk*, but for the flow a call is just
concluding; `EndsAgree` relates the tasks of memory to those on disk, `DriversWork` says which
adapters are at work, and `RecordedInv` what a restart reads. An approval step of a pipeline suspends the task even of a flow that is over
(`PipelineApproval`), which is the one case excluded. `StepsDone` says of every flow no caller has stepped out of turn in that its results come in
order (`InOrder`), in memory and on file alike, and that every step it has shown to anyone in
`current_step_id`, and every step a worker holds, has its predecessors done (`Ready`): a caller
may come with a step it read long ago, and the order survives because results are never taken
back; `FlowsExist` that a flow a worker or a pass holds on to
still exists. `start_flow` starts with the first listed step whatever its dependencies,
hence the hypothesis. `AllDone` carries the last theorem: a flow is completed in
memory or on file only when no step is left, a sequential one unless it was stepped out of turn. When no step is unblocked and none failed,
one of least rank would be unblocked (`NothingBlocked`): that is where acyclic dependencies
come in. A flow in parallel mode completes after one step; one by dependencies that does not stop
on a failure, or forgets one over a restart, completes with steps blocked for ever; a
client may complete the task. Those are excluded, and by nothing more.

*Approval queue.* An approval is final because a request leaves the queue, in memory and
on disk, before it is announced. `Settled(q, told, n, lost)` says of a queue that what is in it
was never announced as approved, that what was announced as expired and is still there
has run out of time, and that ids above the counter are untouched, with the requests in
`lost` (the `unsaved` ones, whose answer a failed write kept from the files) left out of the
first two; `FinalInv` asserts it of memory and
of the file, with the property itself. Every trace of every call satisfies it, which is
what a crash needs and what makes the restart case immediate. `HonestInv` says of each request, queued
or in a history, in memory or on file, that its deciders differ and were entitled, that
one which is pending or approved has no refusal, and that one which is approved has enough
of them; it holds under every fault. `HeldInv`: what was announced as approved, and not `unsaved`, is in both histories,
unless they are full. It does not survive a torn history file.

*Bridge.* `BridgeInv` adds to the properties what connects them: `Owned` (every command a
device has queued, runs or has run was submitted for it), `Posted` (a result posted, on
its way or stray is of a command its laptop has executed), `QueueIncreases` (a queue
holds commands in the order of submission), and `Ordered`, which places the laptop's past before what is in flight, and that before what
is queued. The server's part is proved once for every request (`Served`,
`ServeServed`) and used for `Exchange`, `AnswerLost` and `ServeStray` alike. TLC has checked
`BridgeInv` on the instance of the run; the proof breaks when the check for a command in
flight is removed. `PaidFor` counts what a laptop has executed and what it may still execute: the queued
commands, the one it has begun, and the one in flight unless the laptop has that in hand
(`Loose`). The sum stays within the submissions and the faults: submitting adds to both sides,
handing out and executing move a command from one summand to the next, and what makes a
command loose again (a lost answer, a client that gives up or is relaunched) is a fault.

*Gateway.* A wake-up is not lost because, in the middle of a call too, each lane is about to be
pumped, empty or full (`AboutToDrain`); between calls no lane is about to be pumped, and
that is the property. `NoLostWaiter` needs only that whatever removes an active task tells the
waiter. One run at a time is the long one: `CommandsOK` follows a command from the queue
of its lane (`QueuesOK`: it is pending and in one place) through the slot it takes (`ActiveOK`,
`ExecutingOK`) to the inner command it awaits (`InnerOK`), so that a run executing in a global
lane is the inner command of a task executing in its session's lane (`TurnOK`), of which one
generation has one (`SessionOK`, since nobody changes the limit of a session's lane).
`DrainedHaveEnded` adds that each task a restart waits for is settled or still in its slot
(`Awaited`). `LockKnown` ties the lock to where a request is.

*Delivery queue.* `NothingLost` is not inductive: an entry is removed by a worker that
learnt earlier that the message was received. `WellSupported` says that a worker about to
remove an entry, and a marker on disk, have such a reason (`HasReason`), and reasons do
not go away; `Untouched` that a delivery nobody has begun has left no trace. The refinement
follows from the same invariant: under the mapping each step is a step of `Outbox` or
changes nothing it sees. `RepeatsHaveACause` and `RetriesAreBounded` count copies and sends, and are
inductive only with what is still to come: `Trying` and `Holding` are the workers about to send
an entry and those that will still have it, loaded or in hand. `RepeatsPaid` says that copies and
both sets stay within one and the causes, and that an entry which nobody attends to has not used
the free one; `RetriesPaid` that the sends had and to come are within the limit, within
what any writer is about to write, and within what the entry says. `BegunInOrder` adds
that nobody has a delivery before it began.

*Follow-up queue.* `NoStrandedQueue` is inductive once it is said of the queue instead of the
messages (`Looked`), with the same excuse for what came in beside another caller's run. For `AcceptedIsKept` one needs that only the key's own queue is drained
(`OneDrain`), that nothing was dropped (`NoneDropped`), and that the items the end of a run
will remove are ones it runs (`RunsWhatItRemoves`), each up to `capped` or `disturbed`, which
break it; the summary run of Divergences is exactly a step that breaks the last. For `RunsAreAccounted`, `Owing(m)` is
the set of queues that will run `m` as things stand: it is an item, and not one the run
that goes on was told of and will remove. Runs had and owed together are at most the times
it was taken in or failed (`AccountsBalance`): taking it in or failing makes one queue owe it,
beginning a run settles what one queue owes, and the others only remove. That a run settles it
needs `NoTwice`: no queue holds a message twice.

*Only model-checked.* Liveness under fairness (`PipelineRunEnds`, `EveryCommandIsAnswered`,
`RestartReopensQueue`, `QueuedGoesOn`, `WaitingGoesOn`, `DrainEnds`) is beyond the prover and
stays with TLC. Every invariant and action property of a passing run is a theorem. The
inductive invariants were found with TLC on the instances of the runs before they were
proved; they live in the proof modules.

## Divergences

Where the code and what the repository says of it part. The first two have a run that ends
in a counterexample.

1. *A restart in place breaks the turns of a session.* "Per-session lanes guarantee that only
   one agent run touches a given session at a time" (`docs/concepts/queue.md:83`);
   resetAllLanes (`command-queue.ts:343`) forgets the tasks that still execute, and starts
   the next one beside them (`gateway_session`).
2. *A summary takes a message with it.* "Summarize keeps a short bullet list of dropped
   messages and injects it as a synthetic followup prompt" (`docs/concepts/queue.md:69`); the
   run of that prompt (`drain.ts:152`) removes the first message of the queue, which the cap
   never dropped, and nothing ever runs it (`followup_lost`).

Found in the Python runtime, each a matter of one call and described here without a run:

3. *cancel() keeps the resume token.* "Clean up resume token after resume or cancel"
   (`task_registry.py:1082`), but cancel() (662) never calls it: token and file stay, and once
   cleanup has removed the task a restart loads it again from the file, as paused.
4. *A forbidden request can be approved.* `approval_hooks.py:306` creates "a rejected
   request" by creating an ordinary one and then writing its status (317), without lock
   or save: it can be approved before that, and again after a restart.
5. *A parallel flow is complete after one step.* "All at once"
   (`task_flow_registry.py:52`); `_get_next_step` (642) has no branch for the mode.
6. *Reconciliation writes a stale status.* "Sync flow status with underlying task
   status" (`task_maintenance.py:161`); the status is read first and written at 185, without
   the flow lock.
7. *A resumed pipeline does nothing.* "Resume a paused pipeline"
   (`task_integration.py:596`) sets the status; the rest of the pipeline is never run, and its
   flow stays RUNNING with nobody at work on it.

Met while modelling as well, in the models as the code has them, and without a run of their own:

- Task registry. A process that dies in resume() between the removal of the token's file
  (`task_registry.py:798`) and the save (799) leaves a task that the active file shows paused
  and that no token resumes: the exception in `PausedSurvives`. A failed write is logged and
  the call succeeds (999, 1021, 1043): pause() hands out a token that a restart does not
  know, and a token whose unlink failed (1079) can be redeemed again, from its file, while the
  process lives or after a restart. A second await_approval leaves two valid tokens; resume() with the
  first cleans up the second, so the used one stays valid (a test,
  `test_task_registry.py:300`, says "Token consumed"). A denial or an expiry through resume()
  is not saved to the active file; such tasks, and those reconcile() cancels, have no
  `completed_at`, and cleanup passes them over for ever. complete() and fail() overwrite a
  cancelled task. Cleanup of a failed task that holds a token leaves the paused file,
  which revives it. A completed dependency that was cleaned up blocks its dependents
  (875).
- Flows. pause_flow marks a flow PAUSED whose task cannot be paused (559). start_flow
  starts with the first listed step, whatever its dependencies. Two executors count one
  step twice (473). With `continue_on_error` on a step and `stop_on_failure` on the flow the
  run goes on under a FAILED flow (586); if it comes to an approval step the failed task is suspended
  again (571), and the flow's file reports an end its task no longer has. After a denial that was not saved and a restart
  the flow is CANCELLED and its task waits for an approval without a token.
- Adapters and maintenance. execute_step (`task_integration.py:377`) executes any step of the
  flow, whatever the flow's status and current step; executing the last step of a
  sequential flow first completes it with the others left out. An executor that raises
  (582) ends run_pipeline, and the flow stays RUNNING. OrchestratorAdapter asks for a retry while the task is
  RUNNING, which retry() always refuses. startup_reconcile is not called at startup and
  run_maintenance by nothing.
- Approval queue. A save that fails is logged (`approval_queue.py:612`, 635) and the request is
  announced all the same (601): after a restart it waits in the queue again and may be
  answered otherwise (`unsaved`). The status a refusal writes from outside the lock
  (`approval_hooks.py:317`) can land while approve() finishes the same request: it is then recorded as
  approved and announced as denied. deny() by someone who already decided, or may not, settles the request
  with status PENDING (496). expire_stale does not save the history (535), and nothing
  schedules it. A refused request stays in the queue for ever. wait_for_approval reads
  the queue an approved request has just left and reports CANCELLED (369); it has no
  caller. No caller outside the tests asks for more than one approver.
- Bridge. After a restart of the server, or when the device was pruned, the client's
  next request is a 404, on which run_forever ends (client, 490) instead of registering
  again: hence the excuse in `EveryCommandIsAnswered`. A result is pruned an hour after its
  last update even while the command is running. A late result replaces an earlier one.
  In the branch of POST /remote/command that executes on the server, the execution is
  awaited (`app.py:1632`) between looking up the idempotency key and storing the
  response: two concurrent requests with one key both execute
  (`docs/API_WEBSOCKET_REFERENCE.md:131`).
- Gateway. SIGUSR1 while the server is starting finds no function to call
  (`run-loop.ts:109`): no restart follows, and commands are refused until another one. A second
  restart whose loop was never woken for the first closes a server and resets nothing: runs it
  left hanging keep their slots, and what is queued behind them waits for ever (`unwoken`). A
  later start that fails gives up the gateway lock for good; the next restart finds none to
  take again, and its server runs without one. While a restart drains, the pump still
  starts what was queued before. A start that completes between the closing of the old
  server and the wake-up leaves a server that nobody closes.
- Delivery queue. Any error that looks like an abort is acknowledged as if the caller had
  recalled the message (`deliver.ts:561`), wherever it came from. With bestEffort an entry is acknowledged although every send failed
  (`deliver.ts:797`; a recovery passes no onError). retryCount is raised only after a failure,
  so a message that brings the process down is replayed at every start. Entries that the
  deadline keeps from being tried count as failed attempts, and enough starts put them aside
  unsent. failDelivery writes what it read before an await: under two workers an entry
  acknowledged in between comes back.
- Follow-up queue. isEmbeddedPiRunActive (`runs.ts:192`) is true for any run of the session, also
  for one of the agent command, which does not end in finalizeWithFollowup: a message that is told
  to wait while only such a run goes on waits until the next turn (`overlooked`). A drop or a clear while a run goes on makes the end of the run remove
  messages that were never run (`drain.ts:138`). A drain whose queue was cleared deletes the
  key's new queue at its end (`drain.ts:180`). Messages dropped during the run of a summary are
  removed from the next one. A summary left without an item to carry it makes the drain
  schedule itself for ever, without a pause if debounceMs is 0. When the policy changes away
  from summarize with messages dropped, collect mode runs an empty prompt.

## Not modelled

- *Within the modelled parts:* step contents, wording, metadata and notifications;
  listeners of the task registry (nothing in it reads what they are told); flow templates
  (no flow reads one after its creation); the PIN and short token of an approval (a wrong
  PIN changes nothing, the token names the same request); login, rollout stages and
  policy checks before a remote command; read-only queries; failing writes of the task registry
  under a flow (`TaskFlow` has crashes and cuts; `registry_calls` has the failing writes); a refusal
  that lands inside expire_stale.
- *Pure or single-step components:* policy engine, safety gate and classifiers, gateway
  schemas, agent bindings, API rate limiter, task notifications: a call is one step
  under one lock, or a pure function.
- *I/O:* providers and model calls, desktop and browser automation, voice, vision, user
  interfaces, messaging connectors.
- *Statistics:* model failover, health monitors and heartbeats.
- *The rest of the TypeScript tree:* most of its 1.6 million lines are generated schemas,
  screens of the terminal client, adapters to channels and plugins, and configuration. Its
  own task and flow registry, subagent registry, cron timer and exec approvals are state
  machines that would deserve models; the parts chosen are those every message goes through.
  Embedded runs outside the queue, which a restart also waits for, are not in `GatewayLoop`.
- *Entries of older versions* of the delivery queue, the parts of a message and their hooks;
  prompts, routing and the text of summaries; who may send SIGUSR1.
- *Apps* (`apps/`, `extensions/`, `ui/`, `frontend/`, `Swabble/`): interfaces and adapters.

## Plan

In this order; the most important behaviour first. Done: `TaskRegistry`, `TaskFlow`,
`ApprovalQueue`, `RemoteBridge`, `CommandQueue` with `GatewayLoop`, `DeliveryQueue` with `Outbox`,
`FollowupQueue`, and the proofs above.

1. *`SubagentRuntime`.* Spawn, worker, cancel, session cleanup as separate steps where the
   lock is released. Properties: the concurrency limit, counts that return to zero, a
   cancellation that lasts; liveness: no subagent RUNNING without a worker.
   Instance: 2 or 3 subagents, limit 1, 2 workers.
2. *`OneAnswer` and `Standalone`.* An abstract specification in which each submission is
   answered at most once and everybody sees the same answer; the bus (publish, workers,
   stop) and the orchestrator (submit, handler, timeout) composed, and a refinement to it
   where the code keeps it, with the instances (a repeated id, a timeout) where it does
   not. Instance: 2 submissions, 1 or 2 workers.
3. *`TaskOrchestrator`.* Submission with dependencies, waiting, retries, cancellation;
   every read outside the lock a step. Properties: one execution per attempt, no waiting
   task whose dependencies are over, every task ends. Instance: 3 tasks in a diamond.
4. *`RemoteIdempotency`.* Requests, the awaited execution, the cache. One execution per
   key. Instance: 2 requests, 1 key.
5. *`RateLimiter`.* The circuit and its probe, the window, the provider manager as caller.
   Instance: 1 provider, 2 callers, a small clock.
6. *`WorkflowPipeline`.* Tokens on disk, resumption, crash.
7. *Gateway tasks and subagents* (`src/tasks/`, `src/agents/subagent-registry.ts`), as clients of
   `CommandQueue`.
8. *Refinements for what exists.* An abstract task lifecycle (pending, active, suspended,
   finished) that `TaskRegistry` implements without faults; an abstract command
   ("executed in order, answered truthfully") that `RemoteBridge` implements.

Runs are kept few: one per question, with the properties that share its bounds; a
divergence that is a matter of one call is described above rather than run.

Theorems to prove next: the refinements of 8, step by step; then those of the modules above, as
they are written.

## Running it

From this directory, with the TLA+ tools and the proof system on the path:

    tlc -workers 2 -config TaskFlowAgreement.cfg MCTaskFlow
    tlapm BridgeProofs.tla

`PROJECT.json` names the module and configuration of every run. Each proof module takes
between one and ten minutes from nothing, the largest run two to three minutes with two workers.
