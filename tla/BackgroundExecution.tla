------------------------ MODULE BackgroundExecution ------------------------
(***************************************************************************)
(* The life of the background executions of one subscription: the rows of  *)
(* the table background_executions, and everybody who writes them.         *)
(*                                                                         *)
(*   - a trigger (scheduler, webhook, user) creates the row and dispatches *)
(*     a Celery message for it;                                            *)
(*   - Celery workers turn a message into a chat task (a "run"), link it   *)
(*     to the row and start it in a daemon thread;                         *)
(*   - completion handlers receive the TaskCompletedEvents of the runs;    *)
(*   - users cancel and delete executions;                                 *)
(*   - scheduler instances recover stale PENDING rows and fail stale       *)
(*     RUNNING rows.                                                       *)
(*                                                                         *)
(* A writer reads the row in one step and writes it in a later one, as the *)
(* code does; only update_execution_status makes its write conditional on  *)
(* what it read.  Time is the flag "old" of a row, and nothing says how    *)
(* long any other step takes.                                              *)
(***************************************************************************)
EXTENDS Integers, FiniteSets

CONSTANTS
  Execs,            \* ids of executions, in the order of creation
  Workers,          \* Celery worker processes
  Handlers,         \* completion events that are handled at the same time
  Schedulers,       \* instances of check_due_subscriptions that may overlap
  MaxRuns,          \* bound: chat tasks' turns created by the workers
  MaxEvents,        \* bound: terminal events one run may publish
  MaxRetries,       \* FLOW_DEFAULT_RETRY_COUNT of the Celery task
  MaxCrashes,       \* bound: crashes of workers, triggers and schedulers
  PreserveHistory,  \* spec.preserveHistory of the subscription
  AgedExecs,        \* bound: executions that live long enough to be stale
  UserExecs,        \* bound: executions the user cancels or deletes
  SubMayGo          \* bound: whether the subscription may be deleted

ASSUME ExecsAssumption == Execs \subseteq Nat \ {0}
ASSUME BoundsAssumption == {MaxRuns, MaxEvents, MaxRetries, MaxCrashes} \subseteq Nat
ASSUME SwitchesAssumption == {PreserveHistory, SubMayGo} \subseteq BOOLEAN

VARIABLES
  row,          \* the table: execution id -> its row
  undispatched, \* executions whose creator has not called dispatch yet
  queue,        \* [execution -> [retries so far -> messages in the broker]]
  worker,       \* what each Celery worker is doing
  run,          \* run number -> the chat turn it stands for
  boundTask,    \* _internal.bound_task_id of the subscription, 0 if none
  subActive,    \* Kind.is_active of the subscription
  handler,      \* completion events being handled
  user,         \* the user's request in progress
  sched,        \* what each scheduler instance is doing
  crashes,      \* crashes so far
  tally         \* history: per execution, what was counted and recorded

vars == << row, undispatched, queue, worker, run, boundTask, subActive,
           handler, user, sched, crashes, tally >>

-----------------------------------------------------------------------------
(* The state machine of an execution. *)

\* RETRYING and COMPLETED_SILENT are in the table of the code, and no code
\* ever writes them.
Status == {"PENDING", "RUNNING", "RETRYING", "COMPLETED", "COMPLETED_SILENT",
           "FAILED", "CANCELLED"}
Terminal == {"COMPLETED", "COMPLETED_SILENT", "FAILED", "CANCELLED"}

ValidNext ==
  [s \in Status |->
     CASE s = "PENDING" -> {"RUNNING", "CANCELLED", "FAILED"}
       [] s = "RUNNING" -> {"COMPLETED", "COMPLETED_SILENT", "FAILED",
                            "RETRYING", "CANCELLED"}
       [] s = "RETRYING" -> {"RUNNING", "FAILED", "CANCELLED",
                             "COMPLETED_SILENT"}
       [] OTHER -> {}]

ValidTransition(from, to) == from = to \/ to \in ValidNext[from]

\* A row is ABSENT before it is created and DELETED after a user deleted it.
Exists(e) == row[e].status \in Status
IsTerminal(e) == row[e].status \in Terminal

Runs == 1..MaxRuns
Tasks == 0..MaxRuns
RetryCounts == 0..MaxRetries
Nobody == 0

Rows == [status : Status \cup {"ABSENT", "DELETED"}, version : Nat,
         task : Tasks, old : BOOLEAN]
NoSnapshot == [status |-> "ABSENT", version |-> 0]
Snapshots == [status : Status \cup {"ABSENT", "DELETED"}, version : Nat]
SnapshotOf(e) == [status |-> row[e].status, version |-> row[e].version]

WorkerStates ==
  [pc : {"idle", "create", "link", "start", "failing", "retry"},
   exec : Execs \cup {Nobody}, retries : RetryCounts, bound : Tasks,
   run : Tasks, seen : Snapshots, again : BOOLEAN]
RunStates ==
  [exec : Execs \cup {Nobody}, task : Tasks,
   pc : {"free", "created", "started", "running", "ended"},
   sent : 0..MaxEvents]
HandlerStates ==
  [pc : {"idle", "update"}, exec : Execs \cup {Nobody}, run : Tasks,
   seen : Snapshots, outcome : {"COMPLETED", "FAILED", "CANCELLED"}]
UserStates == [op : {"none", "cancel", "delete"}, exec : Execs \cup {Nobody}]
SchedulerStates ==
  [pc : {"idle", "mark", "dispatch", "fail"}, batch : SUBSET Execs,
   exec : Execs \cup {Nobody}]
Tallies == [succ : Nat, fail : Nat, revived : Nat, recovered : Nat,
            result : Tasks]

IdleWorker == [pc |-> "idle", exec |-> Nobody, retries |-> 0, bound |-> 0,
               run |-> 0, seen |-> NoSnapshot, again |-> FALSE]
IdleHandler == [pc |-> "idle", exec |-> Nobody, run |-> 0,
                seen |-> NoSnapshot, outcome |-> "FAILED"]
IdleUser == [op |-> "none", exec |-> Nobody]
IdleScheduler == [pc |-> "idle", batch |-> {}, exec |-> Nobody]
NoRun == [exec |-> Nobody, task |-> 0, pc |-> "free", sent |-> 0]

Init ==
  /\ row = [e \in Execs |-> [status |-> "ABSENT", version |-> 0, task |-> 0,
                             old |-> FALSE]]
  /\ undispatched = {}
  /\ queue = [e \in Execs |-> [k \in RetryCounts |-> 0]]
  /\ worker = [w \in Workers |-> IdleWorker]
  /\ run = [r \in Runs |-> NoRun]
  /\ boundTask = 0
  /\ subActive = TRUE
  /\ handler = [h \in Handlers |-> IdleHandler]
  /\ user = IdleUser
  /\ sched = [s \in Schedulers |-> IdleScheduler]
  /\ crashes = 0
  /\ tally = [e \in Execs |-> [succ |-> 0, fail |-> 0, revived |-> 0,
                               recovered |-> 0, result |-> 0]]

-----------------------------------------------------------------------------
(* update_execution_status: the WHERE clause of the atomic update, the     *)
(* statistics, and the other writes of a row.                              *)

\* Mutants: no WHERE clause at all; a WHERE clause on the version alone.
UncheckedWrite(e, seen) == TRUE
VersionOnlyCheck(e, seen) == row[e].version = seen.version

Unchanged(e, seen) == /\ row[e].status = seen.status
                      /\ row[e].version = seen.version

\* Mutant: the name of another enumeration is written.
UpdatedWithCeleryState(e, seen, status) ==
  [row EXCEPT ![e].status = IF status = "COMPLETED" THEN "SUCCESS" ELSE status,
              ![e].version = seen.version + 1]

\* What update_execution_status leaves in the row.
Updated(e, seen, status) ==
  [row EXCEPT ![e].status = status, ![e].version = seen.version + 1]

\* _update_subscription_statistics, kept per execution, and the run whose
\* outcome was recorded.
Counted(e, status, r) ==
  [tally EXCEPT ![e].succ = @ + (IF status = "COMPLETED" THEN 1 ELSE 0),
                ![e].fail = @ + (IF status = "FAILED" THEN 1 ELSE 0),
                ![e].result = IF r = 0 THEN @ ELSE r]

\* The write at the end of update_execution_status, on behalf of run r (0:
\* of no run), after the transition from seen.status was found valid.
ConditionalUpdate(e, seen, status, r) ==
  IF Unchanged(e, seen)
    THEN row' = Updated(e, seen, status) /\ tally' = Counted(e, status, r)
    ELSE UNCHANGED << row, tally >>

\* History: a terminal or deleted row that becomes RUNNING again is revived.
Revived(e) == IF row[e].status \in Terminal THEN 1 ELSE 0

-----------------------------------------------------------------------------
(* Triggers. *)

CreateExecution(e) ==
  /\ subActive
  /\ row[e].status = "ABSENT"
  /\ \A f \in Execs : f < e => row[f].status # "ABSENT"
  /\ row' = [row EXCEPT ![e].status = "PENDING"]
  /\ undispatched' = undispatched \cup {e}
  /\ UNCHANGED << queue, worker, run, boundTask, subActive, handler, user,
                  sched, crashes, tally >>

DispatchBackgroundExecution(e) ==
  /\ e \in undispatched
  /\ undispatched' = undispatched \ {e}
  /\ queue' = [queue EXCEPT ![e][0] = @ + 1]
  /\ UNCHANGED << row, worker, run, boundTask, subActive, handler, user,
                  sched, crashes, tally >>

\* The process that created the row dies before it dispatches it, or the
\* broker refuses the message.
TriggerCrash(e) ==
  /\ e \in undispatched
  /\ crashes < MaxCrashes
  /\ crashes' = crashes + 1
  /\ undispatched' = undispatched \ {e}
  /\ UNCHANGED << row, queue, worker, run, boundTask, subActive, handler,
                  user, sched, tally >>

\* The user deletes the subscription (the source of a rental leaves the
\* market, the team is deleted: the worker's context fails to load).
DeleteSubscription ==
  /\ SubMayGo
  /\ subActive
  /\ subActive' = FALSE
  /\ UNCHANGED << row, undispatched, queue, worker, run, boundTask, handler,
                  user, sched, crashes, tally >>

\* A row passes FLOW_STALE_PENDING_HOURS or FLOW_STALE_RUNNING_HOURS.
Age(e) ==
  /\ e \in AgedExecs
  /\ row[e].status \in {"PENDING", "RUNNING"}
  /\ ~row[e].old
  /\ row' = [row EXCEPT ![e].old = TRUE]
  /\ UNCHANGED << undispatched, queue, worker, run, boundTask, subActive,
                  handler, user, sched, crashes, tally >>

-----------------------------------------------------------------------------
(* execute_subscription_task: acks_late, so the message leaves the broker  *)
(* for good only when the task ends.                                       *)

\* _load_subscription_execution_context; when it returns None the task ends.
LoadContext(w, e, k) ==
  /\ worker[w].pc = "idle"
  /\ queue[e][k] > 0
  /\ queue' = [queue EXCEPT ![e][k] = @ - 1]
  /\ worker' = IF subActive /\ Exists(e)
                 THEN [worker EXCEPT ![w] = [IdleWorker EXCEPT
                         !.pc = "create", !.exec = e, !.retries = k,
                         !.bound = boundTask]]
                 ELSE worker
  /\ UNCHANGED << row, undispatched, run, boundTask, subActive, handler,
                  user, sched, crashes, tally >>

\* check_task_status: a task shows RUNNING while its newest turn runs.
TaskIsRunning(t) ==
  \E r \in Runs : /\ run[r].task = t /\ run[r].pc = "running"
                 /\ \A q \in Runs : run[q].task = t => q <= r

\* _create_subscription_task: a new chat task, or a new turn of the task the
\* subscription is bound to, which raises while that task is running.
CreateTask(w) ==
  /\ worker[w].pc = "create"
  /\ \E r \in Runs :
       LET reuse == PreserveHistory /\ worker[w].bound # 0
           t == IF reuse THEN worker[w].bound ELSE r
       IN /\ run[r].pc = "free"
          /\ \A q \in Runs : q < r => run[q].pc # "free"
          /\ reuse => ~TaskIsRunning(t)
          /\ run' = [run EXCEPT ![r] = [exec |-> worker[w].exec, task |-> t,
                                        pc |-> "created", sent |-> 0]]
          /\ boundTask' = IF PreserveHistory /\ ~reuse THEN t ELSE boundTask
          /\ worker' = [worker EXCEPT ![w] = [@ EXCEPT !.pc = "link", !.run = r]]
  /\ UNCHANGED << row, undispatched, queue, subActive, handler, user, sched,
                  crashes, tally >>

\* Mutant: the task is linked, the status is left to someone else.
LinkTaskOnly(w) ==
  /\ worker[w].pc = "link"
  /\ Exists(worker[w].exec)
  /\ row' = [row EXCEPT ![worker[w].exec].task = run[worker[w].run].task]
  /\ worker' = [worker EXCEPT ![w].pc = "start"]
  /\ UNCHANGED << undispatched, queue, run, boundTask, subActive, handler,
                  user, sched, crashes, tally >>

\* _link_task_to_execution: writes whatever the status is now, and leaves the
\* version alone.
LinkTaskToExecution(w) ==
  LET e == worker[w].exec IN
  /\ worker[w].pc = "link"
  /\ Exists(e)
  /\ row' = [row EXCEPT ![e] = [@ EXCEPT !.status = "RUNNING", !.old = FALSE,
                                         !.task = run[worker[w].run].task]]
  /\ tally' = [tally EXCEPT ![e].revived = @ + Revived(e)]
  /\ worker' = [worker EXCEPT ![w].pc = "start"]
  /\ UNCHANGED << undispatched, queue, run, boundTask, subActive, handler,
                  user, sched, crashes >>

\* ai_thread.start(): the worker is done, the message is acknowledged.
StartThread(w) ==
  /\ worker[w].pc = "start"
  /\ run' = [run EXCEPT ![worker[w].run].pc = "started"]
  /\ worker' = [worker EXCEPT ![w] = IdleWorker]
  /\ UNCHANGED << row, undispatched, queue, boundTask, subActive, handler,
                  user, sched, crashes, tally >>

\* Something fails before the thread starts.  A missing task or subtask and
\* the soft time limit end the Celery task, an exception retries it.  Either
\* way update_execution_status reads the row first; it gives up at once when
\* the row is gone or cannot become FAILED.
WorkerFails(w, again) ==
  LET e == worker[w].exec IN
  /\ worker[w].pc \in {"create", "link", "start"}
  /\ worker' =
       IF Exists(e) /\ ValidTransition(row[e].status, "FAILED")
         THEN [worker EXCEPT ![w] = [@ EXCEPT !.pc = "failing", !.run = 0,
                                       !.seen = SnapshotOf(e), !.again = again]]
         ELSE [worker EXCEPT ![w] = [@ EXCEPT !.pc = "retry", !.run = 0,
                                       !.again = again]]
  /\ UNCHANGED << row, undispatched, queue, run, boundTask, subActive,
                  handler, user, sched, crashes, tally >>

\* The conditional update to FAILED.
HandleExecutionFailure(w) ==
  /\ worker[w].pc = "failing"
  /\ ConditionalUpdate(worker[w].exec, worker[w].seen, "FAILED", 0)
  /\ worker' = [worker EXCEPT ![w].pc = "retry", ![w].seen = NoSnapshot]
  /\ UNCHANGED << undispatched, queue, run, boundTask, subActive, handler,
                  user, sched, crashes >>

\* self.retry(exc): a new message, unless the retries are used up.
Retry(w) ==
  LET k == worker[w].retries IN
  /\ worker[w].pc = "retry"
  /\ queue' = IF worker[w].again /\ k < MaxRetries
                THEN [queue EXCEPT ![worker[w].exec][k + 1] = @ + 1]
                ELSE queue
  /\ worker' = [worker EXCEPT ![w] = IdleWorker]
  /\ UNCHANGED << row, undispatched, run, boundTask, subActive, handler,
                  user, sched, crashes, tally >>

\* task_reject_on_worker_lost: the broker delivers the message again.
WorkerCrash(w) ==
  /\ worker[w].pc # "idle"
  /\ crashes < MaxCrashes
  /\ crashes' = crashes + 1
  /\ queue' = [queue EXCEPT ![worker[w].exec][worker[w].retries] = @ + 1]
  /\ worker' = [worker EXCEPT ![w] = IdleWorker]
  /\ UNCHANGED << row, undispatched, run, boundTask, subActive, handler,
                  user, sched, tally >>

-----------------------------------------------------------------------------
(* The run of a started chat turn: the dispatcher writes its subtask        *)
(* RUNNING, and a terminal event writes it terminal before it publishes     *)
(* the TaskCompletedEvent.                                                  *)

SetRun(r, pc) ==
  /\ run' = [run EXCEPT ![r].pc = pc]
  /\ UNCHANGED << row, undispatched, queue, worker, boundTask, subActive,
                  handler, user, sched, crashes, tally >>

DispatchRun(r) == run[r].pc = "started" /\ SetRun(r, "running")
EndRun(r) == run[r].pc = "running" /\ SetRun(r, "ended")

-----------------------------------------------------------------------------
(* SubscriptionTaskCompletionHandler, and the daemon thread's own failure. *)

\* _find_execution_by_task_id: the newest unfinished execution of the task,
\* else the newest one.
OfTask(t) == {e \in Execs : Exists(e) /\ row[e].task = t}
Unfinished(t) == {e \in OfTask(t) : row[e].status \in {"PENDING", "RUNNING"}}

\* Mutant: the oldest row comes first (order_by without desc()).
IsOldest(e, S) == e \in S /\ \A f \in S : e <= f

IsNewest(e, S) == e \in S /\ \A f \in S : f <= e

FindExecutionByTaskId(t, e) ==
  \/ IsNewest(e, Unfinished(t))
  \/ Unfinished(t) = {} /\ IsNewest(e, OfTask(t))
  \/ OfTask(t) = {} /\ e = Nobody

\* The handler's first half: find the execution, skip a terminal one, find
\* the transition valid.
OnTaskCompleted(h, r, outcome) ==
  /\ handler[h].pc = "idle"
  /\ run[r].pc = "ended"
  /\ run[r].sent < MaxEvents
  /\ run' = [run EXCEPT ![r].sent = @ + 1]
  /\ \E e \in Execs \cup {Nobody} :
       /\ FindExecutionByTaskId(run[r].task, e)
       /\ handler' =
            IF /\ e # Nobody
               /\ row[e].status \notin Terminal
               /\ ValidTransition(row[e].status, outcome)
              THEN [handler EXCEPT ![h] = [pc |-> "update", exec |-> e,
                      run |-> r, seen |-> SnapshotOf(e), outcome |-> outcome]]
              ELSE handler
  /\ UNCHANGED << row, undispatched, queue, worker, boundTask, subActive,
                  user, sched, crashes, tally >>

\* An exception in the daemon thread: update_execution_status to FAILED by
\* execution id, which reads the row and gives up when it cannot fail.
ThreadFails(h, r) ==
  LET e == run[r].exec IN
  /\ handler[h].pc = "idle"
  /\ run[r].pc \in {"started", "running"}
  /\ run' = [run EXCEPT ![r].pc = "ended", ![r].sent = MaxEvents]
  /\ handler' =
       IF Exists(e) /\ ValidTransition(row[e].status, "FAILED")
         THEN [handler EXCEPT ![h] = [pc |-> "update", exec |-> e, run |-> r,
                                      seen |-> SnapshotOf(e),
                                      outcome |-> "FAILED"]]
         ELSE handler
  /\ UNCHANGED << row, undispatched, queue, worker, boundTask, subActive,
                  user, sched, crashes, tally >>

\* The second half of either: the conditional update.
ApplyOutcome(h) ==
  /\ handler[h].pc = "update"
  /\ ConditionalUpdate(handler[h].exec, handler[h].seen, handler[h].outcome,
                       handler[h].run)
  /\ handler' = [handler EXCEPT ![h] = IdleHandler]
  /\ UNCHANGED << undispatched, queue, worker, run, boundTask, subActive,
                  user, sched, crashes >>

-----------------------------------------------------------------------------
(* The user's requests. *)

\* cancel_execution and delete_execution first read and check the row ...
RequestCancel(e) ==
  /\ e \in UserExecs /\ user.op = "none"
  /\ Exists(e) /\ ~IsTerminal(e)
  /\ user' = [op |-> "cancel", exec |-> e]
  /\ UNCHANGED << row, undispatched, queue, worker, run, boundTask, subActive,
                  handler, sched, crashes, tally >>

RequestDelete(e) ==
  /\ e \in UserExecs /\ user.op = "none"
  /\ Exists(e) /\ IsTerminal(e)
  /\ user' = [op |-> "delete", exec |-> e]
  /\ UNCHANGED << row, undispatched, queue, worker, run, boundTask, subActive,
                  handler, sched, crashes, tally >>

\* ... and then write it, whatever it has become.
CommitRequest ==
  LET e == user.exec IN
  /\ user.op # "none"
  /\ row' = [row EXCEPT ![e].status =
               IF user.op = "cancel" THEN "CANCELLED" ELSE "DELETED"]
  /\ user' = IdleUser
  /\ UNCHANGED << undispatched, queue, worker, run, boundTask, subActive,
                  handler, sched, crashes, tally >>

-----------------------------------------------------------------------------
(* check_due_subscriptions: recovery and cleanup, before it looks for due  *)
(* subscriptions.                                                          *)

StalePending ==
  {e \in Execs : row[e].status = "PENDING" /\ row[e].old /\ row[e].task = 0}
\* Mutant: the cleanup looks at linked executions only.
StaleLinkedRunning ==
  {e \in Execs : row[e].status = "RUNNING" /\ row[e].old /\ row[e].task # 0}

StaleRunning == {e \in Execs : row[e].status = "RUNNING" /\ row[e].old}

\* Mutant: the row is dispatched as it is, for the worker to mark.
DispatchUnmarked(s, e, rest) ==
  IF row[e].status = "DELETED"
    THEN /\ UNCHANGED << row, tally >>
         /\ sched' = [sched EXCEPT ![s] = [pc |-> "mark", batch |-> {},
                                           exec |-> Nobody]]
    ELSE /\ UNCHANGED row
         /\ tally' = [tally EXCEPT ![e].recovered = @ + 1]
         /\ sched' = [sched EXCEPT ![s] = [pc |-> "dispatch", batch |-> rest,
                                           exec |-> e]]

\* One iteration of the recovery loop, up to its commit: the execution of a
\* deleted subscription is cancelled, another one is marked RUNNING.  It does
\* not look at the status again, and leaves the version alone.  A row that is
\* gone raises, and raises again in the handler: the batch is given up.
MarkRecovered(s, e, rest) ==
  IF row[e].status = "DELETED"
    THEN /\ UNCHANGED << row, tally >>
         /\ sched' = [sched EXCEPT ![s] = [pc |-> "mark", batch |-> {},
                                           exec |-> Nobody]]
  ELSE IF ~subActive
    THEN /\ row' = [row EXCEPT ![e].status = "CANCELLED"]
         /\ UNCHANGED tally
         /\ sched' = [sched EXCEPT ![s] = [pc |-> "mark", batch |-> rest,
                                           exec |-> Nobody]]
    ELSE /\ row' = [row EXCEPT ![e].status = "RUNNING", ![e].old = FALSE]
         /\ tally' = [tally EXCEPT ![e].revived = @ + Revived(e),
                                   ![e].recovered = @ + 1]
         /\ sched' = [sched EXCEPT ![s] = [pc |-> "dispatch", batch |-> rest,
                                           exec |-> e]]

\* SELECT ... FOR UPDATE SKIP LOCKED holds its row locks until the first
\* commit, so the query and the first iteration are one step; the rest of the
\* batch is unlocked from then on.
RecoverStalePending(s) ==
  /\ sched[s].pc = "idle"
  /\ StalePending # {}
  /\ \E e \in StalePending : MarkRecovered(s, e, StalePending \ {e})
  /\ UNCHANGED << undispatched, queue, worker, run, boundTask, subActive,
                  handler, user, crashes >>

RecoverNext(s) ==
  /\ sched[s].pc = "mark"
  /\ \E e \in sched[s].batch : MarkRecovered(s, e, sched[s].batch \ {e})
  /\ UNCHANGED << undispatched, queue, worker, run, boundTask, subActive,
                  handler, user, crashes >>

\* Then the row is dispatched.  A broker that refuses the message (counted
\* as a crash) leaves the row RUNNING, and the loop goes on.
RecoverDispatch(s) ==
  /\ sched[s].pc = "dispatch"
  /\ \/ /\ queue' = [queue EXCEPT ![sched[s].exec][0] = @ + 1]
        /\ UNCHANGED crashes
     \/ /\ crashes < MaxCrashes /\ crashes' = crashes + 1
        /\ UNCHANGED queue
  /\ sched' = [sched EXCEPT ![s].pc = "mark", ![s].exec = Nobody]
  /\ UNCHANGED << row, undispatched, worker, run, boundTask, subActive,
                  handler, user, tally >>

\* The query of _cleanup_stale_running_executions, which follows the recovery.
ReadStaleRunning(s) ==
  /\ \/ sched[s].pc = "idle" /\ StalePending = {} /\ StaleRunning # {}
     \/ sched[s].pc = "mark" /\ sched[s].batch = {}
  /\ sched' = [sched EXCEPT ![s] =
                 IF StaleRunning = {} THEN IdleScheduler
                 ELSE [pc |-> "fail", batch |-> StaleRunning, exec |-> Nobody]]
  /\ UNCHANGED << row, undispatched, queue, worker, run, boundTask, subActive,
                  handler, user, crashes, tally >>

\* Its writes go out with one commit, which fails when a row is gone.
FailStaleRunning(s) ==
  LET B == sched[s].batch IN
  /\ sched[s].pc = "fail"
  /\ row' = IF \E e \in B : row[e].status = "DELETED" THEN row
            ELSE [e \in Execs |-> IF e \in B
                                    THEN [row[e] EXCEPT !.status = "FAILED"]
                                    ELSE row[e]]
  /\ sched' = [sched EXCEPT ![s] = IdleScheduler]
  /\ UNCHANGED << undispatched, queue, worker, run, boundTask, subActive,
                  handler, user, crashes, tally >>

SchedulerCrash(s) ==
  /\ sched[s].pc # "idle"
  /\ crashes < MaxCrashes
  /\ crashes' = crashes + 1
  /\ sched' = [sched EXCEPT ![s] = IdleScheduler]
  /\ UNCHANGED << row, undispatched, queue, worker, run, boundTask, subActive,
                  handler, user, tally >>

-----------------------------------------------------------------------------
Trigger(e) == CreateExecution(e) \/ DispatchBackgroundExecution(e)

WorkerStep(w) ==
  \/ \E e \in Execs, k \in RetryCounts : LoadContext(w, e, k)
  \/ CreateTask(w) \/ LinkTaskToExecution(w) \/ StartThread(w)
  \/ \E again \in BOOLEAN : WorkerFails(w, again)
  \/ HandleExecutionFailure(w) \/ Retry(w) \/ WorkerCrash(w)

HandlerStep(h) ==
  \/ \E r \in Runs, outcome \in {"COMPLETED", "FAILED", "CANCELLED"} :
       OnTaskCompleted(h, r, outcome)
  \/ \E r \in Runs : ThreadFails(h, r)
  \/ ApplyOutcome(h)

UserStep == \/ \E e \in Execs : RequestCancel(e) \/ RequestDelete(e)
            \/ CommitRequest

Maintenance(s) ==
  \/ RecoverStalePending(s) \/ RecoverNext(s) \/ RecoverDispatch(s)
  \/ ReadStaleRunning(s) \/ FailStaleRunning(s)

SchedulerStep(s) == Maintenance(s) \/ SchedulerCrash(s)

Next ==
  \/ \E e \in Execs : Trigger(e) \/ TriggerCrash(e) \/ Age(e)
  \/ DeleteSubscription
  \/ \E w \in Workers : WorkerStep(w)
  \/ \E r \in Runs : DispatchRun(r) \/ EndRun(r)
  \/ \E h \in Handlers : HandlerStep(h)
  \/ UserStep
  \/ \E s \in Schedulers : SchedulerStep(s)

Spec == Init /\ [][Next]_vars

\* The beat schedule runs the maintenance again and again, and time passes.
\* Nothing else is fair: workers, runs, events and users may never move.
Fairness == /\ \A e \in Execs : WF_vars(Age(e))
            /\ \A s \in Schedulers : WF_vars(Maintenance(s))

FairSpec == Spec /\ Fairness

-----------------------------------------------------------------------------
(* Properties. *)

TypeOK ==
  /\ row \in [Execs -> Rows]
  /\ undispatched \subseteq Execs
  /\ queue \in [Execs -> [RetryCounts -> Nat]]
  /\ worker \in [Workers -> WorkerStates]
  /\ run \in [Runs -> RunStates]
  /\ boundTask \in Tasks
  /\ subActive \in BOOLEAN
  /\ handler \in [Handlers -> HandlerStates]
  /\ user \in UserStates
  /\ sched \in [Schedulers -> SchedulerStates]
  /\ crashes \in 0..MaxCrashes
  /\ tally \in [Execs -> Tallies]

\* Concurrent and duplicate completion events are counted once: success_count
\* grows at most once for every time the execution was started, however many
\* events its runs publish and however they race with the other writers (the
\* WHERE clause of update_execution_status).
SuccessCountedOncePerStart ==
  \A e \in Execs : tally[e].succ <= 1 + tally[e].revived

RunsOf(e) == {q \in Runs : run[q].pc # "free" /\ run[q].exec = e}

\* Execution f is over or was revived, or it was started again besides run r.
WentOn(f, r) == \/ row[f].status \in Terminal \cup {"DELETED"}
                \/ tally[f].revived > 0
                \/ RunsOf(f) \ {r} # {}

\* Whose outcome execution e may record.
MayRecord(e, r) ==
  LET f == run[r].exec IN
  \/ f = e
  \/ /\ PreserveHistory
     /\ \E q \in RunsOf(e) : run[q].task = run[r].task
     /\ f < e \/ WentOn(f, r)

\* The outcome recorded for an execution is that of one of its own runs.  The
\* lookup by task_id in _find_execution_by_task_id has one exception: with
\* preserveHistory, where the executions are turns of one chat task, it may be
\* that of another turn of the task, of an earlier execution (a late event of
\* it finds the newest unfinished row) or of a later one that has gone on
\* without the turn; never that of a later execution still waiting for it.
OutcomeOfOwnTask ==
  \A e \in Execs : tally[e].result # 0 => MayRecord(e, tally[e].result)

\* Handling a completion event, or a failure of the thread, never moves an
\* execution from one terminal status to another, and never touches one that
\* a user cancelled or deleted after the event was read.
EventNeverOverwritesTerminal ==
  [][\A h \in Handlers, e \in Execs :
       /\ handler[h].pc = "update"
       /\ handler'[h].pc = "idle"
       /\ row[e].status \in Terminal \cup {"DELETED"}
       => row'[e].status = row[e].status]_vars

\* A row that is waiting has no chat task, so the recovery, which only looks
\* at rows with task_id 0, sees every orphan.
PendingHasNoTask ==
  \A e \in Execs : row[e].status = "PENDING" => row[e].task = 0

\* Nothing is stuck: whatever crashes, and even if no worker, run or event
\* ever makes progress, recovery and cleanup bring every execution to a
\* terminal status.
EveryExecutionSettles ==
  \A e \in Execs : row[e].status \in {"PENDING", "RUNNING"}
                     ~> row[e].status \in Terminal \cup {"DELETED"}

\* execution.py counts "only for terminal states to avoid double counting":
\* an execution is counted once, as a success or as a failure.
CountedOnce == \A e \in Execs : tally[e].succ + tally[e].fail <= 1

\* _recover_stale_pending_executions marks a row RUNNING "to prevent duplicate
\* recovery": as long as one instance works at a time an execution is recovered
\* at most once, also if it was read before the commit that recovered another.
RecoveredOnce == \A e \in Execs : tally[e].recovered <= 1
=============================================================================
