# A verification project for Wegent

TLA+ models of the parts of Wegent that are hard to get right: what happens to
a unit of work when several processes, a message broker, a lock in Redis,
containers, devices, timers, browsers and users all write or show its state. TLC
checks each module on small instances; TLAPS proves the main theorems for every
value of the constants.

Paths below are relative to `src/`.

## 1. The system

Wegent runs AI agents. A FastAPI **backend** keeps users, agents, chat tasks
and subscriptions in MySQL; **Celery** runs the periodic and background work; an
**executor manager** turns queued chat turns into Docker containers, in which an
**executor** runs the agent; a **chat shell** answers turns without a container;
a **frontend** and a **CLI** show the result.

| Part | State it keeps | Operations | What is hard |
|---|---|---|---|
| Background executions (`backend/app/services/subscription/execution.py`, `state_machine.py`, `task_completion_handler.py`, `backend/app/tasks/subscription_tasks.py`) | a row per execution: status, version, task id | create, dispatch, link, retry, complete, fail, cancel, delete, recover, clean up | many writers of one row, only one of them with a conditional update; redelivery by the broker; crashes between two commits |
| Subscription scheduler (`check_due_subscriptions`, `service.py`, `helpers.py`) | a JSON document per subscription: enabled, next time, statistics | pass, reschedule, toggle, update, delete, count outcomes | whole-document read, change, write by everybody; a pass that outlives its lock |
| Distributed lock (`backend/app/core/distributed_lock.py`, `executor_manager/common/distributed_lock.py`) | a Redis key with an expiration | acquire, release, extend | blind delete, expiration under the holder, fail-open and fail-closed errors |
| Chat task dispatch (`backend/app/services/execution/dispatcher.py`, `executor_manager/services/task_queue_*.py`, `executors/docker/executor.py`, `services/task_heartbeat_manager.py`, `routers/routers.py`, `executor/tasks`, `executor/services`) | the status of each turn (subtask); a Redis queue; containers; the running-task tracker | dispatch, dequeue, submit, run, report, cancel, detect death, delete containers | calls that are lost, repeated or fail half way; callbacks that are late; a checker that races the callbacks |
| Sandbox manager (`executor_manager/services/sandbox`) | sandbox and execution records in a Redis hash, a sorted set of active sandboxes, heartbeat keys, containers | create, execute, keep alive, terminate, check heartbeats, collect | every save writes a whole copy that may be old; requests, checks and restarts overlap |
| Chat storage and websocket namespace (`backend/app/services/chat`, `backend/app/api/ws/chat_namespace.py`) | tasks, subtasks, streaming caches | send, join, cancel, retry, close | a join that reads while the turn goes on; retries of a turn |
| Local devices (`backend/app/api/ws/device_namespace.py`, `services/device`, `device_monitor.py`, `executor/modes/local`) | sessions, the online key, turns owned by a device, runs in the device | register, heartbeat, dispatch, run, cancel, disconnect, monitor | the end of an old connection against the new one; events of a turn that was given up |
| Circuit breaker, dead letter queue (`backend/app/core`) | a library's breaker; a Redis hash | | |
| Notifications, market, followers; knowledge bases; channels; CRD resources; CLI; pages | rows written by one request each | | little protocol state |
| Frontend task state (`frontend/src/features/tasks/state`, `SocketContext.tsx`) | the messages of a task in a window, queued chunks, the socket | join, recover, stream | events during a join; lost answers; reconnects |

How they interact: the scheduler creates an execution and sends a Celery message
for it; the worker creates a chat task and dispatches its turn; the turn's
terminal event writes the subtask, and publishes a `TaskCompletedEvent`, which
the completion handler records on the execution and in the statistics of the
subscription document. The executor manager calls the backend back over HTTP. A
turn may instead go to a user's own device, over a websocket. The events of every turn
pass through `StatusUpdatingEmitter` into the room of the task, from which browser windows
show them.

## 2. Modules

| Module | Models | Kind |
|---|---|---|
| `BackgroundExecution` | the life of executions and everybody who writes their rows | state machine |
| `BackgroundExecutionProofs` | its inductive invariant and theorems | proofs |
| `DistributedLock` | the lock, for any number of instances: the abstract specification of a periodic pass | state machine |
| `DistributedLockProofs` | the bound on overlapping passes | proofs |
| `SubscriptionScheduler` | a pass and the other writers of the subscription document; composes `DistributedLock` (INSTANCE) and implements it | state machine |
| `SubscriptionSchedulerProofs` | the refinement, and the statistics | proofs |
| `TaskDispatch` | one chat task from the backend's POST through queue, container, callbacks and heartbeat checks | state machine |
| `TaskDispatchProofs` | type correctness, and that a turn is executed once per fault | proofs |
| `TaskDispatchAccounts` | who refers to which container, that every forgotten turn is accounted for, and that no live turn is failed | proofs |
| `SandboxManager` | one sandbox: requests, executions, heartbeat checks, collection, containers | state machine |
| `SandboxManagerProofs` | type correctness, watched sandboxes, the account of leaked containers | proofs |
| `ChatTurn` | what a chat turn promises whoever looks at it | abstract specification |
| `LocalDevice` | one device and one conversation executed on it; implements `ChatTurn` | state machine |
| `LocalDeviceProofs` | type correctness, the refinement, runs of turns that are over, the reach of a cancel | proofs |
| `TaskStateMachine` | one task shown in one browser window: events, joins, connection, recovery | state machine |
| `TaskStateMachineProofs` | type correctness, what a window shows, that no chunk and no end of an answer is lost | proofs |
| `MC*` | the instances TLC checks | |

### BackgroundExecution

`row` is the table `background_executions`: status, version, task id, and the
flag `old` for "beyond the stale threshold". `queue` is the Celery broker (a
message carries its retry count), `worker` the Celery processes with a program
counter between their commits, `run` the chat turns the workers started,
`handler` the completion events in progress with the snapshot each one read,
`user` the request in progress, `sched` the recovery and cleanup of each
scheduler instance. `tally` is history: what was counted and recorded.

A read of a row and its later write are two steps wherever the code has them in
two: `OnTaskCompleted` / `ApplyOutcome` for `update_execution_status`,
`RequestCancel` / `CommitRequest` for the user, `RecoverStalePending` /
`RecoverNext` / `RecoverDispatch` for the recovery loop, `ReadStaleRunning` /
`FailStaleRunning` for the cleanup. The `WHERE status = ... AND version = ...` of
the first is `Unchanged`; the others write whatever they find. `FOR UPDATE SKIP
LOCKED` protects the recovery's batch until the first commit of its loop, so the
query and the first iteration are one step and the others are steps of their
own. `acks_late` with `task_reject_on_worker_lost` puts the message of a
crashed worker back (`WorkerCrash`). The daemon thread of a worker and the chat
turn it drives are `run`.

Abstracted: prompts, results, notification texts, the contents of the context a
worker loads (it loads or it does not), and time, which is `old`.

With `PreserveHistory` the first run of the subscription binds its chat task
(`boundTask`) and later runs are turns of it, unless they read the subscription before
that. Turns a user types into that task, and a change of the setting, are not modelled.

### DistributedLock

`key` is the Redis key, `inside` the passes at work, `owner` (history) the
pass that set the key, `late` (history) those whose key expired under them. Both
classes are modelled: the backend's answers True when Redis fails (`FailOpen`),
the executor manager's answers False. `extend` only moves the expiration, which
may come at any time (`Expire`); an expiration under a running pass is counted
in `overruns`.

### SubscriptionScheduler

`doc` is the part `_internal` of `Kind.json`; the scheduler (`inst`), the
statistics and the user's requests (`writer`) each read the document, and write
it back whole in a later step. `clock` is a small clock, and an occurrence is
the time an execution was due. `FindDue` computes the list once per pass, as the
code does; `CreateExecution`, `DispatchBackgroundExecution` and
`UpdateNextExecutionTime` are the three commits of one iteration and
`CreationFails`, `ProcessingFails` its exception path.

### TaskDispatch

One task; its turns are numbered as they are created. `turn` holds the subtask's
status, its `executor_name`, and how far the backend's dispatcher has got (`mark`
RUNNING, `post`). `queue` is the Redis list, `consumer` the threads of
`TaskQueueConsumer` between their steps (`submit`, `dispatch`, `register`,
`report`), `box` the containers, `run` the executions the executors have started,
with the event each has to deliver, `tracked` the entry of `RunningTaskTracker`,
`checker` the heartbeat checks, `user` the cancel request, `swept` the container
the scheduled deletion has chosen.

A container is named by `generate_executor_name` after the turn it is made for, so
it has the turn's number; a later turn copies the name from the newest turn that
has one (`BoxOfEarlier`) and goes to that container, or to a new one of the same name
(`SubmitToBox`, `SubmitNew`). The tracker has one entry per *task*: `AddEntry`
overwrites, `RemoveEntry` removes whatever is there. A turn's status is written
whatever it was (`Applied`). Heartbeats are per task too and an idle container sends
them, so `CheckHeartbeats` is enabled when no container of the task runs, or when
heartbeats are missed, which is an incident. The callback handler of the manager is
two steps (`Forward`, `Cleanup`), and so is a cancel (`CancelInBox`,
`CancelCleanup`); `CancelInBox` stops the executions of the first running container
and sends an event for the turn its agent's emitter was set to last, which occupies
slot 0 of `run`. A one-shot container (`is_subscription`) exits after its turn, in a
step of its own (`MayExit` sets the exit code, `ExitBox` is the exit).

`_handle_task_dead` is `CheckHeartbeats`, `Inspect`, `Report`, `CheckerCleanup`: the
entry it read may be another turn's by the time it acts. `get_task_status` has no
endpoint in the backend, so `Inspect` gets no answer from it. Deletion stops the
container and removes the entry in one step.

`faults` are calls that fail, of the kinds `FaultKinds` names; `incidents` are things
that happen: containers die, heartbeats are missed, users cancel, sweeps. `lost` is
history: the unfinished turns whose entry, or container, went to something else. That is
a turn whose entry another turn overwrites, a cancel, a sweep or another turn's callback
removes; one that was dispatched and is still to be entered when another consumer makes
a new container of the same name (`NotEntered`); one that is in a one-shot container, or
is about to be posted to it, when that exits (`InBox`, `Awaited`); and one found without
its container by a dispatch that then drops it. Left out: validation and sandbox tasks,
backpressure, streaming events, device and SSE targets, the user's retry.

### SandboxManager

The manager is one asyncio process, so a step is what runs between two awaits. `rec` is
the field `__sandbox__` of the hash, `entry` the score in the sorted set, `ex` the
executions in the hash, `beat` the heartbeat key, `box` the containers. Requests
(`request`) and started executions (`runner`) work on copies: a save writes all of
the copy and enters the sandbox into the set again (`Save`), which is how a late
`on_complete` can bring a record back. `checker` is one heartbeat check between its
look and its consequences. `CollectExpired` holds the collection's lock and is one
step; the lock itself is `DistributedLock`. The hash expires two hours after the entry
is due for collection, so `HashExpires` comes only for entries that are old.
`misjudged` counts living containers taken for dead and `crossed` creations begun
while something else was in progress: `LeakBounded` and `ExecutionSettles` name them, since
the code leaks a container, or leaves an execution RUNNING, in just these cases.
The end of an execution is not written to the hash by anything: its setters have no caller.

### ChatTurn and LocalDevice

`LocalDevice` has one device and one conversation. `conn` is the connection the device
holds and `sess` the backend's view of every connection it has made, so that an old one
can end after a new one is registered (`DisconnectNoticed`, `DisconnectHandled`). `key`
is the online key; a heartbeat that is handled while its connection ends is
`HeartbeatOvertaken`. `dispatch` is the backend's way from routing to the emission into
the device's room, `run` the runs in the device, `slot` the one entry of
`_running_tasks` they share, `report` a terminal event on its way, `todo` and `doomed`
the monitor between its reading and its commit. A message arrives at once or is lost
with its connection: the sender cannot tell the two kinds of loss apart. A device of the
same id that belongs to another user is `StrangerDisconnects`. There is one monitor, the
user can retry from a window that still shows a failure (`Shown`), and the status of the
task, which the code derives from its newest turn, is that turn's.

`ChatTurn` is the promise: accepted, run, one outcome, retried only after a failure.
The backend may cut a turn off without hearing from its executor, and then reports
are believed once more; `KeepsTurns` is the refinement, which maps `failed` to the turns
some window may show as failed and `suspected` to those the monitor has in hand.

### TaskStateMachine

`turn` is the backend's side of each turn: its row, how many chunks it has said, and the
event that has been written to Redis or to the database and is still to be emitted
(`out`); `StatusUpdatingEmitter` does the writing first, so `AddTextContent` and `Emit`
are two steps, and so are the status, the cleanup of the cache and the emission of an
end. `join` holds the requests between the reads of `on_task_join`: room, rows, cache.
`wire` is what the server has sent, in order, answers included; a break loses it and the
answers.

`win` is the state machine of the window. Its handlers are operators from one state to
the next, as the code's are; what follows a dispatch, the recovery that was queued, is
`Due`. `syncing` does not appear because `doSync` runs to its end within one handler,
but for the recovery it may start itself, which delays the queued chunks (`inner`). The
window's recovery on `reconnect` comes before the socket is connected, so `Reconnect`
can only queue one.

Text is the sequence of chunk numbers. The chunks that wait for a sync are queued per
turn, where the code has one array: a chunk is appended to its own message, so only the
order within a turn matters. Left out: blocks, reasoning and sources, LEAVE,
the stop button, retries and edited messages, several tasks and windows, a join that is
refused or whose reads fail.

`missed`, `stale`, `hasty` and `cut` are history; they are the four ways in which a
window is left with less than the backend has, and the properties name them: an event
lost with the connection after its message was shown (nothing recovers it: a finished
turn is never taken over twice); an answer that calls a turn running after its end; a
start or error during a join, which drops the answer and moves the cursor past the
history; a join broken off, whose promise never ends. That text may be shown twice, a
queued chunk being also in the cache, is not excluded by any property.

## 3. Hazards and properties

PROJECT.json lists every hazard with its line. The properties are the answers:

* `SuccessCountedOncePerStart`, `EventNeverOverwritesTerminal`: duplicate, late
  and concurrent completion events against the user, the cleanup, a late link.
* `OutcomeOfOwnTask`: the lookup by task id. With `preserveHistory` the executions are
  turns of one chat task, and a late event of an earlier run is recorded on a later
  execution, as one of a later run may be on an earlier execution. The property says
  exactly how far this goes: never to an execution without a turn of that task, and never
  past the later execution of the run while that one waits for this outcome alone.
* `RecoveredOnce`: the recovery marks what it dispatches, with one instance at work; two
  that overlap do recover a row twice, since the first commit of a batch frees its locks.
* `PendingHasNoTask`, `EveryExecutionSettles`: crashes and lost messages; the
  recovery finds every orphan and nothing stays PENDING or RUNNING.
* `OverlapBounded`, `KeyIsFreedAgain`: the lock degrades gracefully.
* `FiredOncePerOccurrence`: an occurrence fires once, plus once per fault, and so often
  again only for each write of somebody else, which may put the old time back.
* `ImplementsLock`: a pass never works outside the lock.
* `NeverOvercounted`: lost updates lose outcomes, and never invent one.
* `DueFires`: a due subscription is dealt with.
* `ForgottenBounded`: a turn shown PENDING or RUNNING that nobody holds can be traced
  to a fault or to the one entry per task; every order of queueing, dispatch,
  callbacks, deaths and checks is covered.
* `ExecutedOncePerFault`: a turn runs once, plus once per lost answer.
* `NoLiveTurnFailed`: the checker does not fail a turn that is running, when docker
  answers it and no other consumer has made a new container of the same name since.
* `EveryTurnAttended`: without faults every turn is settled or still running, or its
  entry was lost, or a sibling's heartbeat masks its death.

* `LeakBounded`: every container left running for good has a named cause.
* `RunningIsWatched`, `DeadSandboxNoticed`, `OldEntriesGo`, `ExecutionSettles`: late saves,
  restarts in the middle of a termination, and dead containers.
* `KeepsTurns`, `OverMeansOver`, `CancelReaches`: the end of a connection, a retry or the
  monitor against a run that goes on.
* `OnlineAgain`, `TurnSettles`, `OfflineFails`: presence and turns settle.
* `NothingLost`, `EndIsShown`, `StreamingIsShown`: chunks and ends in every order with
  joins, answers, queued recoveries and breaks.
* `RecoveryEnds`, `TurnIsShown`: joins end and what was finished is shown.

## 4. Runs

| Run | Bounds | What it shows |
|---|---|---|
| `BgExecRace` | 1 execution, 1 worker, 2 handlers, 2 runs of 2 events each, 1 crash, user, cleanup, the subscription may be deleted; fair | counting and terminal statuses under races; every execution settles |
| `BgExecOwn` | `preserveHistory`, 2 executions, 2 runs, 1 event each, 1 scheduler, recovery and cleanup of both, no retry | whose outcome an execution records when both share a chat task; each is recovered once |
| `BgExecCountedOnce` | 1 execution, 1 retry | *violated*: a retried execution is counted twice |
| `LockOverlap` | 3 instances, fail-open, 2 each of overruns, errors, crashes; fair | overlap is bounded, the key is freed |
| `SchedFires` | 2 instances, a cron and a one_time subscription, 1 of each fault, clock to 2 | an occurrence fires once plus once per fault; refinement |
| `SchedDue` | 1 instance, 2 writers with 2 writes of all six kinds, 1 of each fault; fair | nothing overcounted, an occurrence fires again only for a fault or a write, due subscriptions fire |
| `DispatchRace` | 2 turns, the second one-shot, 3 runs, 1 consumer, 1 checker, 1 requeue, 1 fault of 12 kinds, 1 incident; fair | turns are not forgotten, repeated or failed alive |
| `DispatchSubmitKept` | the same, only `docker run` may fail | *violated*: the failure is taken for a success |
| `SandboxLife` | 2 requests, 2 containers, 1 execution, 2 troubles, 1 crossed creation; fair | leaks have a cause, dead sandboxes and old entries go |
| `DeviceTurns` | 1 turn with 1 retry, 2 connections, 1 trouble; fair | the promises of `ChatTurn`, cancels, presence, settling |
| `DeviceOrphan` | 1 turn, 2 connections, no trouble; fair | *violated*: a turn sent into an empty room stays RUNNING |
| `StreamWindow` | an old turn and a new one of 3 chunks, 1 recovery besides the opening, 1 break; fair | what is shown is whole and ends; joins end |

**Why the bounds are enough.** A race on one row needs a reader, a second writer between
its read and its write, and one more event to show what was damaged: two handlers with
two events and every other kind of writer once. A mix-up of executions needs two, whose runs share the
chat task that the first of them bound: in `BgExecOwn` the stricter statement, that an
execution records the outcome of its own runs only, is violated, and so is the property
without any one of its exceptions, there or with two workers and three runs. A lock
needs a late holder, the holder whose key it deletes, and a third. Crashes, errors and
writes are bounded by counters (`MaxCrashes`, `MaxErrors`, `MaxWrites`, ...) that let
each kind of fault happen once or twice in every order with the rest. Two turns are what
it takes for one to overwrite the tracker entry of the other, or to share its container;
three runs are one per turn and the one a lost answer adds, so no execution is cut off
by the bound. The safety properties of `TaskDispatch` were also checked once with three
turns and two consumers, from the state after a completed turn, which is too large for a
run: it showed the schedules with `NotEntered`, where a second consumer remakes a
container between the dispatch and the registration of a turn, or between a check and
its report, and which two turns and one consumer cannot reach. A sandbox needs two
creations to cross and a second container to be confused with the first; a device needs
an old and a new connection and two attempts at a turn. A window needs one finished turn
to be history, one in progress with a chunk before, during and after the join, a second
join to be queued behind the first or to race it, and one break. The theorems of section
5 hold without the bounds. No symmetry is used. `CHECK_DEADLOCK` is off where the bounds
let everybody finish.

**Fairness.** `BackgroundExecution` assumes only that time passes (`Age`) and that the
Celery beat runs the maintenance again and again, which is what `celery_app.py`
schedules; workers, threads, events and users may never move. `DistributedLock` assumes
that a pass ends and that Redis drops an expired key. `SubscriptionScheduler` assumes
that the beat starts passes on some instance, that a pass which does not crash goes on,
and that expired keys go. `TaskDispatch` assumes that some sender, some consumer, some
callback and some check that can go on does: each is an independent loop or thread.
Whether an agent ever finishes, a one-shot container exits or a user acts is not
assumed. `SandboxManager` assumes that requests and executions in progress go on, that
the scheduler's loop runs the check and the collection again and again, and that keys
expire. `LocalDevice` assumes that the backend handles what it has received, that runs
end, that a registered device sends heartbeats, that the key of a device which does not
expires, and that the monitor runs again and again. `TaskStateMachine` assumes that
emitters and join handlers go on and that the window handles what has arrived; turns,
users and the network may do nothing.

**Findings.** `CountedOnce`, `FailedSubmissionIsKept` and `OrphanMarked` state what a
comment or docstring promises; each run shows the shortest schedule in which the code
does otherwise, and PROJECT.json quotes both sides. Further disagreements seen while
modelling have no run of their own and are hazards with a note, or steps and history of
a model: two overlapping recoveries dispatch an execution twice; a late holder of the
lock deletes another's key; statistics written over the update that disables a one_time
subscription let it fire again; the link that overwrites CANCELLED; writers that leave
`version` alone; an enabled subscription without a next time; an outcome
recorded on another execution of the chat task under `preserveHistory`; a finished turn that a tracker entry left behind turns FAILED; a
docker error taken for a missing container; a death masked by an idle container's
heartbeats; an execution in a sandbox that stays RUNNING because nothing writes its end;
and in the window, the four losses of section 2, of which the first means that a turn
which ended while the connection was down streams for ever, although recovery after a
reconnection is there for it.

## 5. Proofs

| Theorem | States | Argument |
|---|---|---|
| `TypeCorrect` (executions) | `Spec => []TypeOK` | inductive together with the references (an actor in the middle of something names a real execution) |
| `SuccessCounted` | `Spec => []SuccessCountedOncePerStart` | from `IInv` |
| `TerminalRespected` | `Spec => EventNeverOverwritesTerminal` | from `IInv`, one case per action that ends a handler |
| `OrphansAreSeen` | `Spec => []PendingHasNoTask` | `Waiting`: a row that does not exist yet, or is PENDING, has no task; inductive with the references |
| `RecoveredOncePerInstance` | `IsFiniteSet(Schedulers) => (Spec => []RecoveredPerInstance)` | `Recoveries`, below |
| `RecoveryIsNotRepeated` | `(\E s : Schedulers = {s}) => (Spec => []RecoveredOnce)` | from the one before |
| `OwnOutcomes` | `Spec => []OutcomeOfOwnTask` | `Own`, below |
| `GracefulOverlap` | `LockSpec => []OverlapBounded` | `LockInv`: at most one owner, and everybody else inside was let in by an expiration or an error |
| `LockTypeCorrect` | `LockSpec => []LockTypeOK` | inductive as it stands |
| `TypeCorrect` (scheduler) | `Spec => []TypeOK` | inductive together with the bounds on documents and copies |
| `SchedulerImplementsLock` | `Spec => ImplementsLock` | each step is a step of the lock or leaves it alone |
| `CountsAreReal` | `Spec => []NeverOvercounted` | every copy of the document, stored or read earlier, is at most what was counted |
| `FiresOnce` | `Spec => []FiredOncePerOccurrence` | `OnceInv`, below |
| `TypeCorrect` (dispatch) | `Spec => []TypeOK` | inductive as it stands |
| `RunsOnce` | `Spec => []ExecutedOncePerFault` | tokens, below |
| `Accounted` | `Spec => []ForgottenBounded` | references and accounts, below |
| `NoneFailedAlive` | `Spec => NoLiveTurnFailed` | references and `Checked`, below |
| `TypeCorrect` (sandbox) | `Spec => []TypeOK` | inductive as it stands |
| `Watched` | `Spec => []RunningIsWatched` | every save enters the sandbox again |
| `LeaksAccountedFor` | `Spec => []LeakBounded` | claims and charges, below |
| `TypeCorrect` (device) | `Spec => []TypeOK` | inductive together with `OneAtATime` |
| `OverIsOver` | `Spec => []OverMeansOver` | from `IInv` |
| `KeepsItsTurns` | `Spec => KeepsTurns` | each step is a step of `ChatTurn` or leaves it alone |
| `OutcomesStay` | `Spec => Turn!OutcomeIsFinal` | `ChatTurn` implies it; the refinement carries it over |
| `CancelAlwaysReaches` | `Spec => []CancelReaches` | `Paced`: until two runs overlap, one is executed at a time |
| `TypeCorrect` (window) | `Spec => []TypeOK` | inductive together with the types of events and answers |
| `StreamingShown` | `Spec => []StreamingIsShown` | kept by every handler of the window, queued chunks and recoveries included |
| `NoneIsLost` | `Spec => []NothingLost` | `LInv`, below |
| `EndShown` | `Spec => []EndIsShown` | `LInv`, below |
| `MissedOnlyBroken` | `Spec => [](breaks = 0 => missed = {})` | a shown turn is one whose room the window is in |

**Assumptions.** Those the modules name: ids are positive numbers, bounds natural
numbers, switches Booleans, the sets of subscriptions and consumers finite. Two
theorems have a hypothesis of their own, the two about recovery: they count the
instances of the scheduler, which are finitely many, and `RecoveredOnce` is about one
instance, as the source says: with two it does not hold.

**Executions.** The invariant of `BackgroundExecution` is `IInv == Typed /\ Fresh /\
Balance`. `SuccessCountedOncePerStart` alone is not inductive: a second success must be
excluded for a row that is finished, so `Balance` says that successes are at most
the number of revivals, plus one when the row is finished. For a handler about to
write COMPLETED to keep that, what it read must be unfinished, which is `Fresh`; the
conditional update then finds the same status in the row, so the count grows
only together with the change to a finished status.

`RecoveredOnce` says nothing of who may recover next. `Recoveries` counts: the
recoveries of an execution and the instances that hold it in a batch are together at
most the instances there are, and an execution that is still waiting was not recovered.
A batch is read while its executions are PENDING, nothing makes an execution PENDING
again, and the mark takes it out of the batch when it counts one more. The bound is the
best there is: TLC finds a second recovery by a second instance. It checked `Recoveries`
once with two instances and two executions (15 million states), too many for a run.

`OwnOutcomes` holds with `preserveHistory` and without. `Own` says that workers and rows
name runs and tasks of their own execution, and that a run that was started left its
task in the row of its execution, unless another run replaced it there (`Linked`). When
the lookup gives the event of a run to an older execution than the run's own, the own
row was no candidate: it has another task, or it is finished or deleted, since a row
that waits has no task (`Waiting`) and no code writes RETRYING. Without
`preserveHistory` every run has a task of its own and the exceptions vanish: an
execution then records the outcome of its own runs only. What an execution may record
it may go on recording, since making a finished row RUNNING again is a revival.

**Scheduler.** The passes inside are at most one, or none when the key is free, plus
expirations and errors (`Slack`). `Once` has two cases. While a subscription still
stands at an occurrence, each execution of it belongs to a pass that has created it and
not moved the subscription on yet (`Firing`), or to a crash or a failed dispatch. Once
it has been moved on, only passes that had listed it before can fire it again
(`MayFire`): the executions and those passes together are at most one plus the faults,
since at the moment of the move both are passes inside, each counted once. A count or a
request that was read before the move and is written after it puts the old time back,
and another such round begins: `Again` is what the writes that are done allow, the
passes that may be inside (`Round`) for each of them. That a write adds one only when it
is done, while the model counts it when it is read, is what `Pending` is for. The rounds
are not an artefact: with two passes inside, TLC finds an occurrence that fires more
often than once plus once for each write and each fault. `Past` and `Passes` say that
nothing fires before its time and what a pass may hold.

**Dispatch.** For `RunsOnce`, a turn has a *token* when it is still to be posted, for
every copy in the queue, for every consumer that holds one before its dispatch, and for
every execution. A step moves tokens and creates one only with a fault: the POST or the
dispatch that is repeated. An execution never goes back to being a message, and what a
failure drops only lowers the sum.

`Accounted` needs to know who refers to which container. `Refs` says that every message,
consumer, execution, entry and check that holds a turn holds its *home*, the container
named by the turn or named after it, that this container was made, and that the turn was
sent; an execution that is active has a running container. With it a turn is *secured*
when it is still being sent, or is in the queue or in the hands of a consumer with a
name that is free or a container that is dead or entered, or has the entry while its
container is dead or its execution active, or is about to be reported. Every step but a
fault, or one that puts the turn into `lost`, hands a secured turn on to another of
these, and a fault endangers one turn at most (`Balanced`), so the turns at risk are at
most the faults (`Charged`). `ForgottenBounded` is not inductive because `Attended` is
too weak: a turn that has an execution but no entry is attended, and is forgotten when
its container dies. The invariant therefore asks for the entry as well (`Followed`), and
`Abandoned` excludes the turns whose entry is about to be removed although their outcome
was not recorded.

`NoneFailedAlive` follows a turn from its message to the report of a check, as long as
no call has failed; the tokens then say that it is in one place only (`OnePlace`).
`Checked` has four parts: a turn that the tracker or a check knows is no longer queued,
being submitted or on its way to a container in use (`KnownLate`); one that is about to
be registered has run already (`RegisteredRan`); one that is being dispatched to a new
container has the entry (`FreshEntered`); and one that is about to be reported neither
runs nor will (`CondemnedStop`). The last is what the property needs, and the others
keep it: a message still in the queue could make a condemned turn run. Every step that
is no fault is `Gentle`: it starts a turn only from a dispatch to a running container,
and makes a dead container anew only by taking it from the turn that was in it, which is
then lost.

**Sandboxes.** Every running container that no request is waiting for is a claim
(`Unclaimed`), and so is every request that is creating one (`Creating`); `Charges` are
the faults, the living containers taken for dead, the restarts and the creations that
crossed something. Claims are at most the charges, or one more; and then `OneHeld` says
who has that one: a record that says RUNNING names it, and so does the copy of every
execution at work, and if no request is creating one the record does say RUNNING.
Creations have to be claims, for otherwise the container would become one only when it
is up, long after the crossing that leaks it was charged.

**Device.** The invariant of `LocalDevice` is `IInv == TypeOK /\ OneAtATime`. `OneAtATime`
follows an attempt at a turn through its dispatch, its run and its report: as long as the
turn is not cut off, it is in at most one of them and the row says what that one implies.
`OverMeansOver` is the part about runs; without the part about dispatch and report it is
not inductive, since a report in flight for a turn that runs would be believed. The
refinement needs it for `Report`: an event that is written must find the turn RUNNING or
cut off.

`CancelReaches` needs its converse as well. The entry of the task is set by the last run
to start and cleared by the first to end, so it names the run in progress only while one
run is executed at a time; `Paced` says that this is so until two runs have overlapped.

**Window.** The invariant of `TaskStateMachine` is `LInv`, five parts. `IInv` types the
window and says what the state streaming means. `Backend` says how far a turn can be
with its row, its cache and its next event, and that turns follow each other. `JInv`
says what a join may have read, that whoever is answered is in the room, and that the
joins suffice: those in use, and one for each recovery that may still be asked for, are
at most the opening, the recoveries and the breaks, which is why no request is ever made
with the record of another one.

`Whole` is the account: what the window shows of a turn, what it has queued for it and
what is on the connection or still to be emitted contain every chunk said so far, and a
message shown as streaming has its end ahead. A start, an answer or the end of a turn
overwrites or completes what is shown, so `Whole` is inductive only if these messages
bring, or are followed by, all of the rest: `Followed` says for each message on the
connection what is behind it, at every position `p`. `Whole(win, p)` and `Behind(p, n,
len)` take that position because one step of the window removes the first message: the
handlers are proved to lead from `Whole(win, 1)` to `Whole(win', 0)` of the shorter
connection. The least free join is found with the well-foundedness of the natural
numbers, the one place where the proofs reason by induction.

`NothingLost` and `EndIsShown` except the turns in `missed` and `stale`.
`MissedOnlyBroken` says that the first exception needs a break, so with a connection
that holds only an answer read before the end of a turn and given after it can leave the
window with less. TLC checked the parts of `LInv` on two turns of one chunk, with one
recovery and one break, before they were proved.

**Only model-checked.** Every invariant and every action property of the passing runs is
proved. The liveness properties are not (fairness and ENABLED are beyond the prover),
and the three properties that a run violates do not hold. What a recursive definition
computes does not come up: the models have none.

## 6. Not modelled, and the plan

See the components of PROJECT.json for the reason of each. Pause and resume of a sandbox
have no caller and the field `expires_at` is never stored, so they are not part of its
model. Most of the repository is request handlers over single rows, prompt building,
calls of models, parsing and rendering: knowledge bases, channels, CRD resources, the
market and the pages have no protocol state whose interleavings could go wrong, or one
transaction each.

Worth doing next, in this order:

1. The stop button, retries and edits in `TaskStateMachine`, two concurrent turns of a
   group chat.
2. The offset-based resume of the chat shell's session store.
3. The indexing status of documents in knowledge bases.
4. The slots a device offers, and several devices of one user.

Theorems to come: what the exceptions themselves need (`stale` of the window, `lost` of
`TaskDispatch`, `cut` of `LocalDevice`), in the way `MissedOnlyBroken` does it for
`missed`; and an abstract specification of what a window promises, which
`TaskStateMachine` implements.
