--------------------- MODULE BackgroundExecutionProofs ---------------------
(***************************************************************************)
(* Proofs about BackgroundExecution, for every number of executions,       *)
(* workers, handlers and schedulers and for every bound.                   *)
(*                                                                         *)
(* The inductive invariant has three parts.  Typed: the types, and that    *)
(* whoever is at work names an execution or a run that exists.  Fresh:     *)
(* what a completion handler remembers of the row was not finished when it *)
(* was read.  Balance: an execution succeeded at most as often as it was   *)
(* revived, and once more if it is finished now.  Fresh is what makes the  *)
(* WHERE clause of the conditional update count a success at most once:    *)
(* the row still looks as it was read, so it was not finished before.      *)
(* The later sections add Waiting and Recoveries, each inductive together  *)
(* with Typed, and Own, inductive together with Typed and Waiting.         *)
(***************************************************************************)
EXTENDS BackgroundExecution, FiniteSetTheorems, TLAPS

\* Whoever is at work holds a valid reference.
WorkerRefs ==
  \A w \in Workers :
    /\ worker[w].pc # "idle" => worker[w].exec \in Execs
    /\ worker[w].pc \in {"link", "start"}
         => worker[w].run \in Runs /\ run[worker[w].run].pc # "free"
RunRefs == \A r \in Runs : run[r].pc # "free" => run[r].exec \in Execs
HandlerRefs ==
  \A h \in Handlers : handler[h].pc = "update" => handler[h].exec \in Execs
UserRefs == user.op # "none" => user.exec \in Execs
SchedulerRefs ==
  \A s \in Schedulers : sched[s].pc = "dispatch" => sched[s].exec \in Execs

\* A completion event that is about to be recorded was read while the
\* execution was not finished; a failure may also have found it failed.
Fresh ==
  \A h \in Handlers :
    handler[h].pc = "update" =>
      /\ handler[h].seen.status \in Status
      /\ handler[h].seen.status \in Terminal
           => handler[h].seen.status = "FAILED" /\ handler[h].outcome = "FAILED"

\* A row that is not finished has been revived as often as it succeeded.
Finished(e) == row[e].status \in Terminal \cup {"DELETED"}
Balance ==
  \A e \in Execs :
    tally[e].succ <= tally[e].revived + (IF Finished(e) THEN 1 ELSE 0)

References == WorkerRefs /\ RunRefs /\ HandlerRefs /\ UserRefs /\ SchedulerRefs
Typed == TypeOK /\ References
IInv == Typed /\ Fresh /\ Balance

\* The bounds are natural numbers, so the values the modules start from are
\* in range.
LEMMA Constants ==
  /\ 0 \in Tasks /\ Runs \subseteq Tasks
  /\ 0 \in RetryCounts /\ 0 \in 0..MaxEvents /\ 0 \in 0..MaxCrashes
  /\ MaxEvents \in 0..MaxEvents
BY BoundsAssumption DEF Tasks, Runs, RetryCounts

\* The idle records of the actors have their types.
LEMMA IdleStates ==
  /\ NoSnapshot \in Snapshots
  /\ IdleWorker \in WorkerStates
  /\ IdleHandler \in HandlerStates
  /\ IdleUser \in UserStates
  /\ IdleScheduler \in SchedulerStates
  /\ NoRun \in RunStates
<1>1. NoSnapshot \in Snapshots
  BY DEF NoSnapshot, Snapshots
<1>2. IdleWorker \in WorkerStates
  BY <1>1, Constants DEF IdleWorker, WorkerStates
<1>3. IdleHandler \in HandlerStates
  BY <1>1, Constants DEF IdleHandler, HandlerStates
<1>4. IdleUser \in UserStates
  BY DEF IdleUser, UserStates
<1>5. IdleScheduler \in SchedulerStates
  BY DEF IdleScheduler, SchedulerStates
<1>6. NoRun \in RunStates
  BY Constants DEF NoRun, RunStates
<1> QED BY <1>1, <1>2, <1>3, <1>4, <1>5, <1>6

\* What a handler, a user or a scheduler reads of a row has the type of a
\* snapshot.
LEMMA SnapshotType ==
  ASSUME TypeOK, NEW e \in Execs
  PROVE  SnapshotOf(e) \in Snapshots
BY DEF TypeOK, SnapshotOf, Snapshots, Rows

\* update_execution_status leaves a well-typed row and well-typed statistics,
\* whether or not its WHERE clause matches.
LEMMA UpdateType ==
  ASSUME TypeOK, NEW e \in Execs, NEW seen \in Snapshots,
         NEW status \in Status, NEW r \in Tasks,
         ConditionalUpdate(e, seen, status, r)
  PROVE  row' \in [Execs -> Rows] /\ tally' \in [Execs -> Tallies]
<1>1. CASE Unchanged(e, seen)
  <2>1. row' \in [Execs -> Rows]
    BY <1>1 DEF ConditionalUpdate, Updated, TypeOK, Rows, Snapshots
  <2>2. tally' \in [Execs -> Tallies]
    <3> DEFINE succ == IF status = "COMPLETED" THEN 1 ELSE 0
               fail == IF status = "FAILED" THEN 1 ELSE 0
               result == IF r = 0 THEN tally[e].result ELSE r
    <3>1. tally \in [Execs -> Tallies]
      BY DEF TypeOK
    <3>2. succ \in Nat /\ fail \in Nat /\ result \in Tasks
      BY <3>1 DEF Tallies
    <3>3. tally' = [tally EXCEPT ![e] =
                      [succ |-> tally[e].succ + succ,
                       fail |-> tally[e].fail + fail,
                       revived |-> tally[e].revived,
                       recovered |-> tally[e].recovered,
                       result |-> result]]
      BY <1>1, <3>1 DEF ConditionalUpdate, Counted, Tallies
    <3> HIDE DEF succ, fail, result
    <3> QED BY <3>1, <3>2, <3>3 DEF Tallies
  <2> QED BY <2>1, <2>2
<1>2. CASE ~Unchanged(e, seen)
  BY <1>2 DEF ConditionalUpdate, TypeOK
<1> QED BY <1>1, <1>2

\* The initial state is well typed.
LEMMA InitType == Init => TypeOK
<1> SUFFICES ASSUME Init PROVE TypeOK
  OBVIOUS
<1>1. row \in [Execs -> Rows]
  BY Constants DEF Init, Rows
<1>2. tally \in [Execs -> Tallies]
  BY Constants DEF Init, Tallies
<1>3. /\ undispatched \subseteq Execs
      /\ queue \in [Execs -> [RetryCounts -> Nat]]
      /\ boundTask \in Tasks
      /\ subActive \in BOOLEAN
      /\ crashes \in 0..MaxCrashes
  BY Constants DEF Init
<1>4. /\ worker \in [Workers -> WorkerStates]
      /\ run \in [Runs -> RunStates]
      /\ handler \in [Handlers -> HandlerStates]
      /\ user \in UserStates
      /\ sched \in [Schedulers -> SchedulerStates]
  BY IdleStates DEF Init
<1> QED BY <1>1, <1>2, <1>3, <1>4 DEF TypeOK

\* CreateExecution keeps the types and the references.
LEMMA CreateExecutionTyped ==
  ASSUME Typed, NEW e \in Execs,
         CreateExecution(e)
  PROVE  Typed'
<1> USE DEF Typed, References, TypeOK
<1>1. row' \in [Execs -> Rows]
  BY Constants, IdleStates DEF CreateExecution, Rows, Status
<1> QED BY <1>1 DEF CreateExecution, WorkerRefs, RunRefs, HandlerRefs, UserRefs, SchedulerRefs

\* DispatchBackgroundExecution keeps the types and the references.
LEMMA DispatchBackgroundExecutionTyped ==
  ASSUME Typed, NEW e \in Execs,
         DispatchBackgroundExecution(e)
  PROVE  Typed'
<1> USE DEF Typed, References, TypeOK
<1>1. queue' \in [Execs -> [RetryCounts -> Nat]]
  BY Constants, IdleStates DEF DispatchBackgroundExecution
<1> QED BY <1>1 DEF DispatchBackgroundExecution, WorkerRefs, RunRefs, HandlerRefs, UserRefs, SchedulerRefs

\* TriggerCrash keeps the types and the references.
LEMMA TriggerCrashTyped ==
  ASSUME Typed, NEW e \in Execs,
         TriggerCrash(e)
  PROVE  Typed'
<1> USE DEF Typed, References, TypeOK
<1>1. crashes' \in 0..MaxCrashes
  BY BoundsAssumption DEF TriggerCrash
<1> QED BY <1>1 DEF TriggerCrash, WorkerRefs, RunRefs, HandlerRefs, UserRefs, SchedulerRefs

\* Age keeps the types and the references.
LEMMA AgeTyped ==
  ASSUME Typed, NEW e \in Execs,
         Age(e)
  PROVE  Typed'
<1> USE DEF Typed, References, TypeOK
<1>1. row' \in [Execs -> Rows]
  BY Constants, IdleStates DEF Age, Rows
<1> QED BY <1>1 DEF Age, WorkerRefs, RunRefs, HandlerRefs, UserRefs, SchedulerRefs

\* DeleteSubscription keeps the types and the references.
LEMMA DeleteSubscriptionTyped ==
  ASSUME Typed, DeleteSubscription
  PROVE  Typed'
<1> USE DEF Typed, References, TypeOK
<1> QED BY DEF DeleteSubscription, WorkerRefs, RunRefs, HandlerRefs, UserRefs, SchedulerRefs

\* LoadContext keeps the types and the references.
LEMMA LoadContextTyped ==
  ASSUME Typed, NEW w \in Workers, NEW e \in Execs, NEW k \in RetryCounts,
         LoadContext(w, e, k)
  PROVE  Typed'
<1> USE DEF Typed, References, TypeOK
<1>1. queue' \in [Execs -> [RetryCounts -> Nat]]
  BY Constants, IdleStates DEF LoadContext
<1>2. worker' \in [Workers -> WorkerStates]
  BY Constants, IdleStates, SnapshotType DEF LoadContext, WorkerStates
<1>3. WorkerRefs'
  BY Constants, IdleStates DEF LoadContext, WorkerRefs, WorkerStates, IdleWorker
<1> QED BY <1>1, <1>2, <1>3 DEF LoadContext, WorkerRefs, RunRefs, HandlerRefs, UserRefs, SchedulerRefs

\* CreateTask keeps the types and the references.
LEMMA CreateTaskTyped ==
  ASSUME Typed, NEW w \in Workers,
         CreateTask(w)
  PROVE  Typed'
<1> USE DEF Typed, References, TypeOK
<1> DEFINE e == worker[w].exec
<1>1. e \in Execs
  BY DEF CreateTask, WorkerRefs
<1>2. PICK r \in Runs, t \in Tasks :
        /\ run[r].pc = "free"
        /\ run' = [run EXCEPT ![r] = [exec |-> e, task |-> t,
                                     pc |-> "created", sent |-> 0]]
        /\ boundTask' \in {t, boundTask}
        /\ worker' = [worker EXCEPT ![w] = [@ EXCEPT !.pc = "link", !.run = r]]
  BY Constants DEF CreateTask, WorkerStates
<1>3. run' \in [Runs -> RunStates]
  BY <1>1, <1>2, Constants DEF RunStates
<1>4. worker' \in [Workers -> WorkerStates]
  <2> DEFINE x == [worker[w] EXCEPT !.pc = "link", !.run = r]
  <2>1. x \in WorkerStates
    BY Constants DEF WorkerStates
  <2>2. worker' = [worker EXCEPT ![w] = x]
    BY <1>2
  <2> QED BY <2>1, <2>2
<1>5. RunRefs'
  BY <1>1, <1>2 DEF RunRefs
<1>6. WorkerRefs'
  BY <1>1, <1>2 DEF WorkerRefs, WorkerStates
<1> QED BY <1>2, <1>3, <1>4, <1>5, <1>6
           DEF CreateTask, HandlerRefs, UserRefs, SchedulerRefs

\* LinkTaskToExecution keeps the types and the references.
LEMMA LinkTaskToExecutionTyped ==
  ASSUME Typed, NEW w \in Workers,
         LinkTaskToExecution(w)
  PROVE  Typed'
<1> USE DEF Typed, References, TypeOK
<1> DEFINE e == worker[w].exec
           t == run[worker[w].run].task
<1>1. e \in Execs /\ t \in Tasks
  BY DEF LinkTaskToExecution, WorkerRefs, RunStates
<1>2. row' \in [Execs -> Rows]
  <2> DEFINE x == [row[e] EXCEPT !.status = "RUNNING", !.old = FALSE,
                                 !.task = t]
  <2>1. x \in Rows
    BY <1>1 DEF Rows, Status
  <2>2. row' = [row EXCEPT ![e] = x]
    BY <1>1 DEF LinkTaskToExecution
  <2> QED BY <2>1, <2>2
<1>3. tally' \in [Execs -> Tallies]
  <2>1. Revived(e) \in Nat
    BY DEF Revived
  <2>2. tally' = [tally EXCEPT ![e].revived = @ + Revived(e)]
    BY DEF LinkTaskToExecution
  <2> QED BY <1>1, <2>1, <2>2 DEF Tallies
<1>4. worker' \in [Workers -> WorkerStates]
  BY DEF LinkTaskToExecution, WorkerStates
<1>5. WorkerRefs'
  BY DEF LinkTaskToExecution, WorkerRefs, WorkerStates
<1> QED BY <1>2, <1>3, <1>4, <1>5
           DEF LinkTaskToExecution, RunRefs, HandlerRefs, UserRefs,
               SchedulerRefs

\* StartThread keeps the types and the references.
LEMMA StartThreadTyped ==
  ASSUME Typed, NEW w \in Workers,
         StartThread(w)
  PROVE  Typed'
<1> USE DEF Typed, References, TypeOK
<1>1. worker[w].run \in Runs /\ run[worker[w].run].pc # "free"
  BY DEF StartThread, WorkerRefs
<1>2. run' \in [Runs -> RunStates]
  BY DEF StartThread, RunStates
<1>3. worker' \in [Workers -> WorkerStates]
  BY IdleStates DEF StartThread
<1>4. RunRefs'
  BY <1>1 DEF StartThread, RunRefs, RunStates
<1>5. WorkerRefs'
  BY DEF StartThread, WorkerRefs, WorkerStates, IdleWorker, RunStates
<1> QED BY <1>2, <1>3, <1>4, <1>5
           DEF StartThread, HandlerRefs, UserRefs, SchedulerRefs

\* WorkerFails keeps the types and the references.
LEMMA WorkerFailsTyped ==
  ASSUME Typed, NEW w \in Workers, NEW again \in BOOLEAN,
         WorkerFails(w, again)
  PROVE  Typed'
<1> USE DEF Typed, References, TypeOK
<1> DEFINE e == worker[w].exec
           fails == Exists(e) /\ ValidTransition(row[e].status, "FAILED")
<1>1. e \in Execs /\ SnapshotOf(e) \in Snapshots
  BY SnapshotType DEF WorkerFails, WorkerRefs
<1>2. worker' \in [Workers -> WorkerStates]
  <2>1. CASE fails
    <3> DEFINE x == [worker[w] EXCEPT !.pc = "failing", !.run = 0,
                       !.seen = SnapshotOf(e), !.again = again]
    <3>1. x \in WorkerStates
      BY <1>1, Constants DEF WorkerStates
    <3>2. worker' = [worker EXCEPT ![w] = x]
      BY <2>1 DEF WorkerFails
    <3> QED BY <3>1, <3>2
  <2>2. CASE ~fails
    <3> DEFINE x == [worker[w] EXCEPT !.pc = "retry", !.run = 0,
                                      !.again = again]
    <3>1. x \in WorkerStates
      BY Constants DEF WorkerStates
    <3>2. worker' = [worker EXCEPT ![w] = x]
      BY <2>2 DEF WorkerFails
    <3> QED BY <3>1, <3>2
  <2> QED BY <2>1, <2>2
<1>3. WorkerRefs'
  BY <1>1 DEF WorkerFails, WorkerRefs, WorkerStates
<1> QED BY <1>2, <1>3
           DEF WorkerFails, RunRefs, HandlerRefs, UserRefs, SchedulerRefs

\* HandleExecutionFailure keeps the types and the references.
LEMMA HandleExecutionFailureTyped ==
  ASSUME Typed, NEW w \in Workers,
         HandleExecutionFailure(w)
  PROVE  Typed'
<1> USE DEF Typed, References, TypeOK
<1>1. /\ worker[w].exec \in Execs /\ worker[w].seen \in Snapshots
      /\ "FAILED" \in Status /\ 0 \in Tasks
  BY Constants DEF HandleExecutionFailure, WorkerRefs, WorkerStates, Status
<1>2. row' \in [Execs -> Rows] /\ tally' \in [Execs -> Tallies]
  BY <1>1, UpdateType DEF HandleExecutionFailure
<1>3. worker' \in [Workers -> WorkerStates]
  BY IdleStates DEF HandleExecutionFailure, WorkerStates
<1>4. WorkerRefs'
  BY DEF HandleExecutionFailure, WorkerRefs, WorkerStates
<1> QED BY <1>2, <1>3, <1>4
           DEF HandleExecutionFailure, RunRefs, HandlerRefs, UserRefs,
               SchedulerRefs

\* Retry keeps the types and the references.
LEMMA RetryTyped ==
  ASSUME Typed, NEW w \in Workers,
         Retry(w)
  PROVE  Typed'
<1> USE DEF Typed, References, TypeOK
<1> DEFINE e == worker[w].exec
           k == worker[w].retries
<1>1. e \in Execs /\ k \in RetryCounts
  BY DEF Retry, WorkerRefs, WorkerStates
<1>2. queue' \in [Execs -> [RetryCounts -> Nat]]
  <2>1. CASE worker[w].again /\ k < MaxRetries
    <3>1. k + 1 \in RetryCounts
      BY <1>1, <2>1, BoundsAssumption DEF RetryCounts
    <3>2. queue' = [queue EXCEPT ![e][k + 1] = @ + 1]
      BY <2>1 DEF Retry
    <3> QED BY <1>1, <3>1, <3>2
  <2>2. CASE ~(worker[w].again /\ k < MaxRetries)
    BY <2>2 DEF Retry
  <2> QED BY <2>1, <2>2
<1>3. worker' \in [Workers -> WorkerStates]
  BY IdleStates DEF Retry
<1>4. WorkerRefs'
  BY DEF Retry, WorkerRefs, WorkerStates, IdleWorker
<1> QED BY <1>2, <1>3, <1>4
           DEF Retry, RunRefs, HandlerRefs, UserRefs, SchedulerRefs

\* WorkerCrash keeps the types and the references.
LEMMA WorkerCrashTyped ==
  ASSUME Typed, NEW w \in Workers,
         WorkerCrash(w)
  PROVE  Typed'
<1> USE DEF Typed, References, TypeOK
<1> DEFINE e == worker[w].exec
           k == worker[w].retries
<1>1. e \in Execs /\ k \in RetryCounts
  BY DEF WorkerCrash, WorkerRefs, WorkerStates
<1>2. queue' \in [Execs -> [RetryCounts -> Nat]]
  <2>1. queue' = [queue EXCEPT ![e][k] = @ + 1]
    BY DEF WorkerCrash
  <2> QED BY <1>1, <2>1
<1>3. worker' \in [Workers -> WorkerStates]
  BY IdleStates DEF WorkerCrash
<1>4. crashes' \in 0..MaxCrashes
  BY BoundsAssumption DEF WorkerCrash
<1>5. WorkerRefs'
  BY DEF WorkerCrash, WorkerRefs, WorkerStates, IdleWorker
<1> QED BY <1>2, <1>3, <1>4, <1>5
           DEF WorkerCrash, RunRefs, HandlerRefs, UserRefs, SchedulerRefs

\* DispatchRun keeps the types and the references.
LEMMA DispatchRunTyped ==
  ASSUME Typed, NEW r \in Runs,
         DispatchRun(r)
  PROVE  Typed'
<1> USE DEF Typed, References, TypeOK
<1>1. run' \in [Runs -> RunStates]
  BY DEF DispatchRun, SetRun, RunStates
<1>2. RunRefs'
  BY DEF DispatchRun, SetRun, RunRefs, RunStates
<1>3. WorkerRefs'
  BY DEF DispatchRun, SetRun, WorkerRefs, WorkerStates, RunStates
<1> QED BY <1>1, <1>2, <1>3
           DEF DispatchRun, SetRun, HandlerRefs, UserRefs, SchedulerRefs

\* EndRun keeps the types and the references.
LEMMA EndRunTyped ==
  ASSUME Typed, NEW r \in Runs,
         EndRun(r)
  PROVE  Typed'
<1> USE DEF Typed, References, TypeOK
<1>1. run' \in [Runs -> RunStates]
  BY DEF EndRun, SetRun, RunStates
<1>2. RunRefs'
  BY DEF EndRun, SetRun, RunRefs, RunStates
<1>3. WorkerRefs'
  BY DEF EndRun, SetRun, WorkerRefs, WorkerStates, RunStates
<1> QED BY <1>1, <1>2, <1>3
           DEF EndRun, SetRun, HandlerRefs, UserRefs, SchedulerRefs

\* OnTaskCompleted keeps the types and the references.
LEMMA OnTaskCompletedTyped ==
  ASSUME Typed, NEW h \in Handlers, NEW r \in Runs, NEW outcome \in {"COMPLETED", "FAILED", "CANCELLED"},
         OnTaskCompleted(h, r, outcome)
  PROVE  Typed'
<1> USE DEF Typed, References, TypeOK
<1>1. run' \in [Runs -> RunStates]
  <2>1. run[r].sent + 1 \in 0..MaxEvents
    BY BoundsAssumption DEF OnTaskCompleted, RunStates
  <2>2. run' = [run EXCEPT ![r].sent = run[r].sent + 1]
    BY DEF OnTaskCompleted
  <2> QED BY <2>1, <2>2 DEF RunStates
<1>2. PICK e \in Execs \cup {Nobody} :
        handler' =
          IF /\ e # Nobody
             /\ row[e].status \notin Terminal
             /\ ValidTransition(row[e].status, outcome)
            THEN [handler EXCEPT ![h] = [pc |-> "update", exec |-> e,
                    run |-> r, seen |-> SnapshotOf(e), outcome |-> outcome]]
            ELSE handler
  BY DEF OnTaskCompleted
<1>3. e # Nobody => e \in Execs /\ SnapshotOf(e) \in Snapshots
  BY SnapshotType
<1>4. handler' \in [Handlers -> HandlerStates]
  BY <1>2, <1>3, Constants DEF HandlerStates
<1>5. HandlerRefs'
  BY <1>2, <1>3 DEF HandlerRefs, HandlerStates
<1>6. RunRefs' /\ WorkerRefs'
  BY DEF OnTaskCompleted, RunRefs, RunStates, WorkerRefs, WorkerStates
<1> QED BY <1>1, <1>4, <1>5, <1>6
           DEF OnTaskCompleted, UserRefs, SchedulerRefs

\* ThreadFails keeps the types and the references.
LEMMA ThreadFailsTyped ==
  ASSUME Typed, NEW h \in Handlers, NEW r \in Runs,
         ThreadFails(h, r)
  PROVE  Typed'
<1> USE DEF Typed, References, TypeOK
<1> DEFINE e == run[r].exec
<1>1. e \in Execs /\ SnapshotOf(e) \in Snapshots
  BY SnapshotType DEF ThreadFails, RunRefs
<1>2. run' \in [Runs -> RunStates]
  BY Constants DEF ThreadFails, RunStates
<1>3. handler' \in [Handlers -> HandlerStates]
  BY <1>1, Constants DEF ThreadFails, HandlerStates
<1>4. HandlerRefs'
  BY <1>1 DEF ThreadFails, HandlerRefs, HandlerStates
<1>5. RunRefs' /\ WorkerRefs'
  BY DEF ThreadFails, RunRefs, RunStates, WorkerRefs, WorkerStates
<1> QED BY <1>2, <1>3, <1>4, <1>5
           DEF ThreadFails, UserRefs, SchedulerRefs

\* ApplyOutcome keeps the types and the references.
LEMMA ApplyOutcomeTyped ==
  ASSUME Typed, NEW h \in Handlers,
         ApplyOutcome(h)
  PROVE  Typed'
<1> USE DEF Typed, References, TypeOK
<1>1. /\ handler[h].exec \in Execs /\ handler[h].seen \in Snapshots
      /\ handler[h].outcome \in Status /\ handler[h].run \in Tasks
  BY DEF ApplyOutcome, HandlerRefs, HandlerStates, Status
<1>2. row' \in [Execs -> Rows] /\ tally' \in [Execs -> Tallies]
  BY <1>1, UpdateType DEF ApplyOutcome
<1>3. handler' \in [Handlers -> HandlerStates]
  BY IdleStates DEF ApplyOutcome
<1>4. HandlerRefs'
  BY DEF ApplyOutcome, HandlerRefs, HandlerStates, IdleHandler
<1> QED BY <1>2, <1>3, <1>4
           DEF ApplyOutcome, RunRefs, WorkerRefs, UserRefs, SchedulerRefs

\* RequestCancel keeps the types and the references.
LEMMA RequestCancelTyped ==
  ASSUME Typed, NEW e \in Execs,
         RequestCancel(e)
  PROVE  Typed'
<1> USE DEF Typed, References, TypeOK
<1>1. user' \in UserStates
  BY Constants, IdleStates DEF RequestCancel, UserStates
<1>2. UserRefs'
  BY Constants, IdleStates DEF RequestCancel, UserRefs, UserStates, IdleUser
<1> QED BY <1>1, <1>2 DEF RequestCancel, WorkerRefs, RunRefs, HandlerRefs, UserRefs, SchedulerRefs

\* RequestDelete keeps the types and the references.
LEMMA RequestDeleteTyped ==
  ASSUME Typed, NEW e \in Execs,
         RequestDelete(e)
  PROVE  Typed'
<1> USE DEF Typed, References, TypeOK
<1>1. user' \in UserStates
  BY Constants, IdleStates DEF RequestDelete, UserStates
<1>2. UserRefs'
  BY Constants, IdleStates DEF RequestDelete, UserRefs, UserStates, IdleUser
<1> QED BY <1>1, <1>2 DEF RequestDelete, WorkerRefs, RunRefs, HandlerRefs, UserRefs, SchedulerRefs

\* CommitRequest keeps the types and the references.
LEMMA CommitRequestTyped ==
  ASSUME Typed, CommitRequest
  PROVE  Typed'
<1> USE DEF Typed, References, TypeOK
<1> DEFINE e == user.exec
           st == IF user.op = "cancel" THEN "CANCELLED" ELSE "DELETED"
<1>1. st \in {"DELETED", "CANCELLED"} /\ row' = [row EXCEPT ![e].status = st]
  BY DEF CommitRequest
<1> HIDE DEF st
<1>2. row' \in [Execs -> Rows]
  BY <1>1 DEF Rows, Status
<1>3. user' \in UserStates /\ UserRefs'
  BY IdleStates DEF CommitRequest, UserRefs, IdleUser
<1> QED BY <1>2, <1>3
           DEF CommitRequest, WorkerRefs, RunRefs, HandlerRefs, SchedulerRefs

\* MarkRecovered keeps the types and the references.
LEMMA MarkRecoveredTyped ==
  ASSUME Typed, NEW s \in Schedulers, NEW e \in Execs, NEW rest \in SUBSET Execs,
         MarkRecovered(s, e, rest)
  PROVE  /\ row' \in [Execs -> Rows] /\ tally' \in [Execs -> Tallies]
         /\ sched' \in [Schedulers -> SchedulerStates]
         /\ SchedulerRefs'
<1> USE DEF Typed, References, TypeOK
<1>1. CASE row[e].status = "DELETED"
  <2> DEFINE x == [pc |-> "mark", batch |-> {}, exec |-> Nobody]
  <2>1. x \in SchedulerStates
    BY DEF SchedulerStates
  <2>2. row' = row /\ tally' = tally /\ sched' = [sched EXCEPT ![s] = x]
    BY <1>1 DEF MarkRecovered
  <2> QED BY <2>1, <2>2 DEF SchedulerRefs
<1>2. CASE row[e].status # "DELETED" /\ ~subActive
  <2> DEFINE x == [pc |-> "mark", batch |-> rest, exec |-> Nobody]
  <2>1. x \in SchedulerStates
    BY DEF SchedulerStates
  <2>2. /\ row' = [row EXCEPT ![e].status = "CANCELLED"]
        /\ tally' = tally
        /\ sched' = [sched EXCEPT ![s] = x]
    BY <1>2 DEF MarkRecovered
  <2>3. row' \in [Execs -> Rows]
    BY <2>2 DEF Rows, Status
  <2> QED BY <2>1, <2>2, <2>3 DEF SchedulerRefs
<1>3. CASE row[e].status # "DELETED" /\ subActive
  <2>1. row' \in [Execs -> Rows]
    <3> DEFINE x == [status |-> "RUNNING", version |-> row[e].version,
                     task |-> row[e].task, old |-> FALSE]
    <3>1. x \in Rows
      BY DEF Rows, Status
    <3>2. row' = [row EXCEPT ![e] = x]
      BY <1>3 DEF MarkRecovered, Rows
    <3> QED BY <3>1, <3>2
  <2>2. tally' \in [Execs -> Tallies]
    <3>1. Revived(e) \in Nat
      BY DEF Revived
    <3>2. tally' = [tally EXCEPT ![e].revived = @ + Revived(e),
                                 ![e].recovered = @ + 1]
      BY <1>3 DEF MarkRecovered
    <3> QED BY <3>1, <3>2 DEF Tallies
  <2>3. sched' \in [Schedulers -> SchedulerStates] /\ SchedulerRefs'
    <3> DEFINE x == [pc |-> "dispatch", batch |-> rest, exec |-> e]
    <3>1. x \in SchedulerStates
      BY DEF SchedulerStates
    <3>2. sched' = [sched EXCEPT ![s] = x]
      BY <1>3 DEF MarkRecovered
    <3> QED BY <3>1, <3>2 DEF SchedulerRefs
  <2> QED BY <2>1, <2>2, <2>3
<1> QED BY <1>1, <1>2, <1>3

\* RecoverStalePending keeps the types and the references.
LEMMA RecoverStalePendingTyped ==
  ASSUME Typed, NEW s \in Schedulers,
         RecoverStalePending(s)
  PROVE  Typed'
<1> USE DEF Typed, References, TypeOK
<1>1. PICK e \in StalePending : MarkRecovered(s, e, StalePending \ {e})
  BY DEF RecoverStalePending
<1>2. e \in Execs /\ StalePending \ {e} \in SUBSET Execs
  BY DEF StalePending
<1>3. /\ row' \in [Execs -> Rows] /\ tally' \in [Execs -> Tallies]
      /\ sched' \in [Schedulers -> SchedulerStates]
      /\ SchedulerRefs'
  BY <1>1, <1>2, MarkRecoveredTyped
<1> QED BY <1>3
           DEF RecoverStalePending, WorkerRefs, RunRefs, HandlerRefs, UserRefs

\* RecoverNext keeps the types and the references.
LEMMA RecoverNextTyped ==
  ASSUME Typed, NEW s \in Schedulers,
         RecoverNext(s)
  PROVE  Typed'
<1> USE DEF Typed, References, TypeOK
<1>1. PICK e \in sched[s].batch : MarkRecovered(s, e, sched[s].batch \ {e})
  BY DEF RecoverNext
<1>2. e \in Execs /\ sched[s].batch \ {e} \in SUBSET Execs
  BY DEF SchedulerStates
<1>3. /\ row' \in [Execs -> Rows] /\ tally' \in [Execs -> Tallies]
      /\ sched' \in [Schedulers -> SchedulerStates]
      /\ SchedulerRefs'
  BY <1>1, <1>2, MarkRecoveredTyped
<1> QED BY <1>3
           DEF RecoverNext, WorkerRefs, RunRefs, HandlerRefs, UserRefs

\* RecoverDispatch keeps the types and the references.
LEMMA RecoverDispatchTyped ==
  ASSUME Typed, NEW s \in Schedulers,
         RecoverDispatch(s)
  PROVE  Typed'
<1> USE DEF Typed, References, TypeOK
<1> DEFINE e == sched[s].exec
<1>1. e \in Execs /\ 0 \in RetryCounts
  BY Constants DEF RecoverDispatch, SchedulerRefs
<1>2. queue' \in [Execs -> [RetryCounts -> Nat]]
  <2>1. CASE queue' = [queue EXCEPT ![e][0] = @ + 1]
    BY <1>1, <2>1
  <2>2. CASE UNCHANGED queue
    BY <2>2
  <2> QED BY <2>1, <2>2 DEF RecoverDispatch
<1>3. sched' \in [Schedulers -> SchedulerStates] /\ SchedulerRefs'
  BY DEF RecoverDispatch, SchedulerStates, SchedulerRefs
<1>4. crashes' \in 0..MaxCrashes
  BY BoundsAssumption DEF RecoverDispatch
<1> QED BY <1>2, <1>3, <1>4
           DEF RecoverDispatch, WorkerRefs, RunRefs, HandlerRefs, UserRefs

\* ReadStaleRunning keeps the types and the references.
LEMMA ReadStaleRunningTyped ==
  ASSUME Typed, NEW s \in Schedulers,
         ReadStaleRunning(s)
  PROVE  Typed'
<1> USE DEF Typed, References, TypeOK
<1>1. sched' \in [Schedulers -> SchedulerStates]
  BY Constants, IdleStates DEF ReadStaleRunning, SchedulerStates, StaleRunning
<1>2. SchedulerRefs'
  BY Constants, IdleStates DEF ReadStaleRunning, SchedulerRefs, SchedulerStates, StaleRunning, IdleScheduler
<1> QED BY <1>1, <1>2 DEF ReadStaleRunning, WorkerRefs, RunRefs, HandlerRefs, UserRefs, SchedulerRefs

\* FailStaleRunning keeps the types and the references.
LEMMA FailStaleRunningTyped ==
  ASSUME Typed, NEW s \in Schedulers,
         FailStaleRunning(s)
  PROVE  Typed'
<1> USE DEF Typed, References, TypeOK
<1>1. row' \in [Execs -> Rows]
  BY Constants, IdleStates DEF FailStaleRunning, Rows, Status
<1>2. sched' \in [Schedulers -> SchedulerStates]
  BY Constants, IdleStates DEF FailStaleRunning, SchedulerStates, Status
<1>3. SchedulerRefs'
  BY Constants, IdleStates DEF FailStaleRunning, SchedulerRefs, SchedulerStates, Status, IdleScheduler
<1> QED BY <1>1, <1>2, <1>3 DEF FailStaleRunning, WorkerRefs, RunRefs, HandlerRefs, UserRefs, SchedulerRefs

\* SchedulerCrash keeps the types and the references.
LEMMA SchedulerCrashTyped ==
  ASSUME Typed, NEW s \in Schedulers,
         SchedulerCrash(s)
  PROVE  Typed'
<1> USE DEF Typed, References, TypeOK
<1>1. sched' \in [Schedulers -> SchedulerStates]
  BY Constants, IdleStates DEF SchedulerCrash, SchedulerStates
<1>2. crashes' \in 0..MaxCrashes
  BY BoundsAssumption DEF SchedulerCrash
<1>3. SchedulerRefs'
  BY Constants, IdleStates DEF SchedulerCrash, SchedulerRefs, SchedulerStates, IdleScheduler
<1> QED BY <1>1, <1>2, <1>3 DEF SchedulerCrash, WorkerRefs, RunRefs, HandlerRefs, UserRefs, SchedulerRefs

-----------------------------------------------------------------------------
\* A step of a trigger keeps the types and the references.
LEMMA TriggerStepTyped ==
  ASSUME Typed, NEW e \in Execs, Trigger(e) \/ TriggerCrash(e) \/ Age(e)
  PROVE  Typed'
BY CreateExecutionTyped, DispatchBackgroundExecutionTyped, TriggerCrashTyped,
   AgeTyped DEF Trigger

\* A step of a Celery worker keeps the types and the references.
LEMMA WorkerStepTyped ==
  ASSUME Typed, NEW w \in Workers, WorkerStep(w)
  PROVE  Typed'
BY LoadContextTyped, CreateTaskTyped, LinkTaskToExecutionTyped,
   StartThreadTyped, WorkerFailsTyped, HandleExecutionFailureTyped,
   RetryTyped, WorkerCrashTyped DEF WorkerStep

\* A step of a completion handler keeps the types and the references.
LEMMA HandlerStepTyped ==
  ASSUME Typed, NEW h \in Handlers, HandlerStep(h)
  PROVE  Typed'
BY OnTaskCompletedTyped, ThreadFailsTyped, ApplyOutcomeTyped DEF HandlerStep

\* A step of the recovery or the cleanup keeps the types and the references.
LEMMA SchedulerStepTyped ==
  ASSUME Typed, NEW s \in Schedulers, SchedulerStep(s)
  PROVE  Typed'
BY RecoverStalePendingTyped, RecoverNextTyped, RecoverDispatchTyped,
   ReadStaleRunningTyped, FailStaleRunningTyped, SchedulerCrashTyped
   DEF SchedulerStep, Maintenance

\* A step that changes nothing keeps the types and the references.
LEMMA StutterTyped ==
  ASSUME Typed, UNCHANGED vars
  PROVE  Typed'
BY DEF Typed, TypeOK, References, WorkerRefs, RunRefs, HandlerRefs, UserRefs,
       SchedulerRefs, vars

\* Every step keeps the types and the references.
LEMMA StepTyped ==
  ASSUME Typed, [Next]_vars
  PROVE  Typed'
<1>1. ASSUME NEW e \in Execs, Trigger(e) \/ TriggerCrash(e) \/ Age(e)
      PROVE  Typed'
  BY <1>1, TriggerStepTyped
<1>2. CASE DeleteSubscription
  BY <1>2, DeleteSubscriptionTyped
<1>3. ASSUME NEW w \in Workers, WorkerStep(w) PROVE Typed'
  BY <1>3, WorkerStepTyped
<1>4. ASSUME NEW r \in Runs, DispatchRun(r) \/ EndRun(r) PROVE Typed'
  BY <1>4, DispatchRunTyped, EndRunTyped
<1>5. ASSUME NEW h \in Handlers, HandlerStep(h) PROVE Typed'
  BY <1>5, HandlerStepTyped
<1>6. CASE UserStep
  BY <1>6, RequestCancelTyped, RequestDeleteTyped, CommitRequestTyped
     DEF UserStep
<1>7. ASSUME NEW s \in Schedulers, SchedulerStep(s) PROVE Typed'
  BY <1>7, SchedulerStepTyped
<1>8. CASE UNCHANGED vars
  BY <1>8, StutterTyped
<1> QED BY <1>1, <1>2, <1>3, <1>4, <1>5, <1>6, <1>7, <1>8 DEF Next

\* The initial state is well typed and nobody refers to an execution.
LEMMA InitTyped == Init => Typed
<1> SUFFICES ASSUME Init PROVE References
  BY InitType DEF Typed
<1> QED BY DEF Init, References, WorkerRefs, RunRefs, HandlerRefs, UserRefs,
               SchedulerRefs, IdleWorker, NoRun, IdleHandler, IdleUser,
               IdleScheduler

\* Types and references hold in every reachable state.
LEMMA AlwaysTyped == Spec => []Typed
<1>1. Typed /\ [Next]_vars => Typed'
  BY StepTyped
<1> QED BY InitTyped, <1>1, PTL DEF Spec

\* Every variable keeps its type, whatever the interleaving of the writers:
\* in particular no counter, version or message count leaves its range.
THEOREM TypeCorrect == Spec => []TypeOK
<1>1. Typed => TypeOK
  BY DEF Typed
<1> QED BY AlwaysTyped, <1>1, PTL

-----------------------------------------------------------------------------
\* A handler that looked up an event's execution read an unfinished status,
\* or a failure read a failed one.
LEMMA OnTaskCompletedFresh ==
  ASSUME Typed, Fresh, NEW h \in Handlers, NEW r \in Runs,
         NEW outcome \in {"COMPLETED", "FAILED", "CANCELLED"},
         OnTaskCompleted(h, r, outcome)
  PROVE  Fresh'
<1>1. PICK e \in Execs \cup {Nobody} :
        /\ FindExecutionByTaskId(run[r].task, e)
        /\ handler' =
             IF /\ e # Nobody
                /\ row[e].status \notin Terminal
                /\ ValidTransition(row[e].status, outcome)
               THEN [handler EXCEPT ![h] = [pc |-> "update", exec |-> e,
                       run |-> r, seen |-> SnapshotOf(e), outcome |-> outcome]]
               ELSE handler
  BY DEF OnTaskCompleted
<1>2. e # Nobody => row[e].status \in Status
  BY <1>1 DEF FindExecutionByTaskId, IsNewest, Unfinished, OfTask, Exists
<1> QED BY <1>1, <1>2 DEF Fresh, SnapshotOf, Typed, TypeOK, HandlerStates

\* The failing thread of a worker reads a status from which FAILED is
\* allowed.
LEMMA ThreadFailsFresh ==
  ASSUME Typed, Fresh, NEW h \in Handlers, NEW r \in Runs, ThreadFails(h, r)
  PROVE  Fresh'
<1> DEFINE e == run[r].exec
<1>1. Exists(e) /\ ValidTransition(row[e].status, "FAILED")
        => /\ row[e].status \in Status
           /\ row[e].status \in Terminal => row[e].status = "FAILED"
  BY DEF Exists, ValidTransition, ValidNext, Terminal, Status
<1> QED BY <1>1 DEF ThreadFails, Fresh, SnapshotOf, Typed, TypeOK, HandlerStates

\* Every step keeps what the handlers have read unfinished, or failed where
\* they record a failure.
LEMMA StepFresh ==
  ASSUME Typed, Fresh, [Next]_vars
  PROVE  Fresh'
<1>1. CASE handler' = handler
  BY <1>1 DEF Fresh
<1>2. ASSUME NEW h \in Handlers, HandlerStep(h)
      PROVE  Fresh'
  <2>1. CASE ApplyOutcome(h)
    BY <2>1 DEF ApplyOutcome, Fresh, IdleHandler, Typed, TypeOK
  <2> QED BY <1>2, <2>1, OnTaskCompletedFresh, ThreadFailsFresh
          DEF HandlerStep
<1>3. ASSUME NEW e \in Execs, Trigger(e) \/ TriggerCrash(e) \/ Age(e)
      PROVE  handler' = handler
  BY <1>3 DEF Trigger, CreateExecution, DispatchBackgroundExecution,
              TriggerCrash, Age
<1>4. ASSUME NEW w \in Workers, WorkerStep(w) PROVE handler' = handler
  BY <1>4 DEF WorkerStep, LoadContext, CreateTask, LinkTaskToExecution,
              StartThread, WorkerFails, HandleExecutionFailure, Retry,
              WorkerCrash
<1>5. ASSUME NEW r \in Runs, DispatchRun(r) \/ EndRun(r)
      PROVE  handler' = handler
  BY <1>5 DEF DispatchRun, EndRun, SetRun
<1>6. CASE DeleteSubscription \/ UserStep \/ UNCHANGED vars
  BY <1>1, <1>6 DEF DeleteSubscription, UserStep, RequestCancel, RequestDelete,
              CommitRequest, vars
<1>7. ASSUME NEW s \in Schedulers, SchedulerStep(s) PROVE handler' = handler
  BY <1>7 DEF SchedulerStep, Maintenance, RecoverStalePending, RecoverNext,
              RecoverDispatch, ReadStaleRunning, FailStaleRunning,
              SchedulerCrash
<1> QED BY <1>1, <1>2, <1>3, <1>4, <1>5, <1>6, <1>7 DEF Next

-----------------------------------------------------------------------------
(* Each writer of a row or of the counters keeps the balance. *)

\* A step that leaves the rows and the statistics alone keeps the balance.
LEMMA IdleBalance ==
  ASSUME Balance, UNCHANGED << row, tally >>
  PROVE  Balance'
BY DEF Balance, Finished

\* A step that counts nothing, and changes a status only to a finished one or
\* from one that is not finished.
LEMMA QuietBalance ==
  ASSUME Typed, Balance, tally' = tally,
         \A e \in Execs : Finished(e) => Finished(e)'
  PROVE  Balance'
BY DEF Balance, Typed, TypeOK, Tallies, Finished

\* Reviving a row is counted when the row was finished.
LEMMA ReviveBalance ==
  ASSUME Typed, Balance, NEW e \in Execs, row[e].status # "DELETED",
         \A f \in Execs \ {e} : row'[f] = row[f] /\ tally'[f] = tally[f],
         tally'[e].succ = tally[e].succ,
         tally'[e].revived = tally[e].revived + Revived(e)
  PROVE  Balance'
<1> SUFFICES ASSUME NEW f \in Execs
             PROVE  tally'[f].succ <=
                      tally'[f].revived + (IF Finished(f)' THEN 1 ELSE 0)
  BY DEF Balance
<1> USE DEF Typed, TypeOK, Tallies, Balance, Finished
<1>1. CASE f # e
  BY <1>1
<1>2. CASE f = e
  BY <1>2 DEF Revived
<1> QED BY <1>1, <1>2

\* update_execution_status keeps the balance: a success is counted only when
\* the row leaves an unfinished status.
LEMMA UpdateBalance ==
  ASSUME Typed, Balance, NEW e \in Execs, NEW seen \in Snapshots,
         NEW status \in Terminal, NEW r \in Tasks,
         status = "COMPLETED" => seen.status \in Status \ Terminal,
         ConditionalUpdate(e, seen, status, r)
  PROVE  Balance'
<1>1. CASE Unchanged(e, seen)
  <2> SUFFICES ASSUME NEW f \in Execs
               PROVE  tally'[f].succ <=
                        tally'[f].revived + (IF Finished(f)' THEN 1 ELSE 0)
    BY DEF Balance
  <2>1. CASE f # e
    BY <1>1, <2>1 DEF ConditionalUpdate, Updated, Counted, Balance, Finished,
                      Typed, TypeOK, Tallies
  <2>2. CASE f = e
    <3>1. row'[e].status = status
      BY <1>1 DEF ConditionalUpdate, Updated, Typed, TypeOK, Rows
    <3>2. /\ tally'[e].succ =
               tally[e].succ + (IF status = "COMPLETED" THEN 1 ELSE 0)
          /\ tally'[e].revived = tally[e].revived
      BY <1>1 DEF ConditionalUpdate, Counted, Typed, TypeOK, Tallies
    <3>3. status = "COMPLETED" => ~Finished(e)
      BY <1>1 DEF Unchanged, Finished, Status
    <3>4. tally[e].succ \in Nat /\ tally[e].revived \in Nat
      BY DEF Typed, TypeOK, Tallies
    <3>5. tally[e].succ <= tally[e].revived + (IF Finished(e) THEN 1 ELSE 0)
      BY DEF Balance
    <3> QED BY <2>2, <3>1, <3>2, <3>3, <3>4, <3>5 DEF Finished
  <2> QED BY <2>1, <2>2
<1>2. CASE ~Unchanged(e, seen)
  BY <1>2, IdleBalance DEF ConditionalUpdate
<1> QED BY <1>1, <1>2

\* Marking a stale row RUNNING counts nothing and keeps the balance.
LEMMA MarkRecoveredBalance ==
  ASSUME Typed, Balance, NEW s \in Schedulers, NEW e \in Execs, NEW rest,
         MarkRecovered(s, e, rest)
  PROVE  Balance'
<1>1. CASE row[e].status = "DELETED"
  BY <1>1, IdleBalance DEF MarkRecovered
<1>2. CASE row[e].status # "DELETED" /\ ~subActive
  <2>1. tally' = tally /\ row' = [row EXCEPT ![e].status = "CANCELLED"]
    BY <1>2 DEF MarkRecovered
  <2>2. \A f \in Execs : Finished(f) => Finished(f)'
    BY <2>1 DEF Finished, Terminal, Typed, TypeOK, Rows
  <2> QED BY <2>1, <2>2, QuietBalance
<1>3. CASE row[e].status # "DELETED" /\ subActive
  <2>1. \A f \in Execs \ {e} : row'[f] = row[f] /\ tally'[f] = tally[f]
    BY <1>3 DEF MarkRecovered, Typed, TypeOK
  <2>2. /\ tally'[e].succ = tally[e].succ
        /\ tally'[e].revived = tally[e].revived + Revived(e)
    BY <1>3 DEF MarkRecovered, Typed, TypeOK, Tallies
  <2> QED BY <1>3, <2>1, <2>2, ReviveBalance
<1> QED BY <1>1, <1>2, <1>3

\* Every step keeps successes below starts plus one for a finished row.
LEMMA StepBalance ==
  ASSUME Typed, Fresh, Balance, [Next]_vars
  PROVE  Balance'
<1>1. ASSUME NEW e \in Execs, Trigger(e) \/ TriggerCrash(e) \/ Age(e)
      PROVE  Balance'
  <2>1. tally' = tally /\ \A f \in Execs : Finished(f) => Finished(f)'
    BY <1>1 DEF Trigger, CreateExecution, DispatchBackgroundExecution,
                TriggerCrash, Age, Finished, Terminal, Typed, TypeOK, Rows
  <2> QED BY <2>1, QuietBalance
<1>2. ASSUME NEW w \in Workers, WorkerStep(w)
      PROVE  Balance'
  <2>1. CASE LinkTaskToExecution(w)
    <3> DEFINE e == worker[w].exec
    <3>1. e \in Execs /\ row[e].status # "DELETED"
      BY <2>1 DEF LinkTaskToExecution, Typed, References, WorkerRefs, Exists,
                  Status
    <3>2. \A f \in Execs \ {e} : row'[f] = row[f] /\ tally'[f] = tally[f]
      BY <2>1 DEF LinkTaskToExecution, Typed, TypeOK
    <3>3. /\ tally'[e].succ = tally[e].succ
          /\ tally'[e].revived = tally[e].revived + Revived(e)
      BY <2>1, <3>1 DEF LinkTaskToExecution, Typed, TypeOK, Tallies
    <3> QED BY <3>1, <3>2, <3>3, ReviveBalance
  <2>2. CASE HandleExecutionFailure(w)
    <3>1. /\ worker[w].exec \in Execs /\ worker[w].seen \in Snapshots
          /\ "FAILED" \in Terminal /\ 0 \in Tasks
      BY <2>2, Constants DEF HandleExecutionFailure, Typed, TypeOK, References,
                             WorkerRefs, WorkerStates, Terminal
    <3>2. ConditionalUpdate(worker[w].exec, worker[w].seen, "FAILED", 0)
      BY <2>2 DEF HandleExecutionFailure
    <3> QED BY <3>1, <3>2, UpdateBalance
  <2>3. CASE UNCHANGED << row, tally >>
    BY <2>3, IdleBalance
  <2>4. LinkTaskToExecution(w) \/ HandleExecutionFailure(w)
          \/ UNCHANGED << row, tally >>
    BY <1>2 DEF WorkerStep, LoadContext, CreateTask, StartThread, WorkerFails,
                Retry, WorkerCrash
  <2> QED BY <2>1, <2>2, <2>3, <2>4
<1>3. ASSUME NEW h \in Handlers, HandlerStep(h)
      PROVE  Balance'
  <2>1. CASE ApplyOutcome(h)
    <3> DEFINE x == handler[h]
    <3>1. /\ x.exec \in Execs /\ x.seen \in Snapshots
          /\ x.outcome \in Terminal /\ x.run \in Tasks
      BY <2>1 DEF ApplyOutcome, Typed, TypeOK, References, HandlerRefs,
                  HandlerStates, Terminal
    <3>2. x.outcome = "COMPLETED" => x.seen.status \in Status \ Terminal
      BY <2>1 DEF ApplyOutcome, Fresh
    <3>3. ConditionalUpdate(x.exec, x.seen, x.outcome, x.run)
      BY <2>1 DEF ApplyOutcome
    <3> HIDE DEF x
    <3> QED BY <3>1, <3>2, <3>3, UpdateBalance
  <2>2. CASE UNCHANGED << row, tally >>
    BY <2>2, IdleBalance
  <2> QED BY <1>3, <2>1, <2>2 DEF HandlerStep, OnTaskCompleted, ThreadFails
<1>4. CASE UserStep
  <2>1. tally' = tally /\ \A f \in Execs : Finished(f) => Finished(f)'
    <3>1. CASE CommitRequest
      <4>1. PICK st \in {"DELETED", "CANCELLED"} :
              row' = [row EXCEPT ![user.exec].status = st]
        BY <3>1 DEF CommitRequest
      <4> QED BY <3>1, <4>1 DEF CommitRequest, Finished, Terminal, Typed,
                                TypeOK, Rows
    <3> QED BY <1>4, <3>1 DEF UserStep, RequestCancel, RequestDelete, Finished
  <2> QED BY <2>1, QuietBalance
<1>5. ASSUME NEW s \in Schedulers, SchedulerStep(s)
      PROVE  Balance'
  <2>1. CASE RecoverStalePending(s)
    BY <2>1, MarkRecoveredBalance DEF RecoverStalePending, StalePending
  <2>2. CASE RecoverNext(s)
    <3>1. sched[s].batch \in SUBSET Execs
      BY DEF Typed, TypeOK, SchedulerStates
    <3> QED BY <2>2, <3>1, MarkRecoveredBalance DEF RecoverNext
  <2>3. CASE FailStaleRunning(s)
    <3>1. tally' = tally /\ \A f \in Execs : Finished(f) => Finished(f)'
      BY <2>3 DEF FailStaleRunning, Finished, Terminal, Typed, TypeOK, Rows
    <3> QED BY <3>1, QuietBalance
  <2>4. CASE UNCHANGED << row, tally >>
    BY <2>4, IdleBalance
  <2> QED BY <1>5, <2>1, <2>2, <2>3, <2>4
          DEF SchedulerStep, Maintenance, RecoverDispatch, ReadStaleRunning,
              SchedulerCrash
<1>6. ASSUME \/ DeleteSubscription
             \/ \E r \in Runs : DispatchRun(r) \/ EndRun(r)
             \/ UNCHANGED vars
      PROVE  Balance'
  <2>1. UNCHANGED << row, tally >>
    BY <1>6 DEF DeleteSubscription, DispatchRun, EndRun, SetRun, vars
  <2> QED BY <2>1, IdleBalance
<1> QED BY <1>1, <1>2, <1>3, <1>4, <1>5, <1>6 DEF Next

-----------------------------------------------------------------------------
\* The inductive invariant holds initially.
LEMMA InitIInv == Init => IInv
<1> SUFFICES ASSUME Init PROVE Fresh /\ Balance
  BY InitTyped DEF IInv
<1>1. Fresh
  BY DEF Init, Fresh, IdleHandler
<1>2. Balance
  BY DEF Init, Balance, Finished
<1> QED BY <1>1, <1>2

\* The inductive invariant holds in every reachable state.
LEMMA AlwaysIInv == Spec => []IInv
<1>1. IInv /\ [Next]_vars => IInv'
  BY StepTyped, StepFresh, StepBalance DEF IInv
<1> QED BY InitIInv, <1>1, PTL DEF Spec

\* However many terminal events the runs of an execution publish, and however
\* their handlers race with each other and with the other writers, success is
\* counted at most once for every time the execution was started (the WHERE
\* clause of update_execution_status).
THEOREM SuccessCounted == Spec => []SuccessCountedOncePerStart
<1>1. IInv => SuccessCountedOncePerStart
  BY DEF IInv, Typed, TypeOK, Tallies, Balance, SuccessCountedOncePerStart
<1> QED BY AlwaysIInv, <1>1, PTL

\* The conditional update of a completion event, or of a thread's failure,
\* leaves alone a row that became terminal, or was deleted, since it was read.
THEOREM TerminalRespected == Spec => EventNeverOverwritesTerminal
<1> DEFINE A == \A h \in Handlers, e \in Execs :
                  /\ handler[h].pc = "update"
                  /\ handler'[h].pc = "idle"
                  /\ row[e].status \in Terminal \cup {"DELETED"}
                  => row'[e].status = row[e].status
<1>1. ASSUME IInv, [Next]_vars PROVE [A]_vars
  <2> SUFFICES ASSUME NEW h \in Handlers, NEW e \in Execs,
                      handler[h].pc = "update", handler'[h].pc = "idle",
                      row[e].status \in Terminal \cup {"DELETED"}
               PROVE  row'[e].status = row[e].status
    OBVIOUS
  <2>1. ApplyOutcome(h)
    <3>1. handler' # handler
      OBVIOUS
    <3>2. PICK g \in Handlers : HandlerStep(g)
      BY <1>1, <3>1
         DEF Next, Trigger, CreateExecution, DispatchBackgroundExecution,
             TriggerCrash, Age, DeleteSubscription, WorkerStep, LoadContext,
             CreateTask, LinkTaskToExecution, StartThread, WorkerFails,
             HandleExecutionFailure, Retry, WorkerCrash, DispatchRun, EndRun,
             SetRun, UserStep, RequestCancel, RequestDelete, CommitRequest,
             SchedulerStep, Maintenance, RecoverStalePending, RecoverNext,
             RecoverDispatch, ReadStaleRunning, FailStaleRunning,
             SchedulerCrash, vars
    <3>3. handler \in [Handlers -> HandlerStates]
      BY <1>1 DEF IInv, Typed, TypeOK
    <3> QED BY <3>2, <3>3 DEF HandlerStep, OnTaskCompleted, ThreadFails,
                              ApplyOutcome, IdleHandler
  <2> DEFINE x == handler[h]
  <2>2. ConditionalUpdate(x.exec, x.seen, x.outcome, x.run)
    BY <2>1 DEF ApplyOutcome
  <2>3. /\ x.seen.status \in Status
        /\ x.seen.status \in Terminal
             => x.seen.status = "FAILED" /\ x.outcome = "FAILED"
    BY <1>1 DEF IInv, Fresh
  <2>4. row \in [Execs -> Rows]
    BY <1>1 DEF IInv, Typed, TypeOK
  <2> HIDE DEF x
  <2> QED BY <2>2, <2>3, <2>4
          DEF ConditionalUpdate, Unchanged, Updated, Rows, Status, Terminal
<1>2. IInv /\ [Next]_vars => [A]_vars
  BY <1>1
<1>3. [][A]_vars => EventNeverOverwritesTerminal
  BY DEF EventNeverOverwritesTerminal
<1> QED BY AlwaysIInv, <1>2, <1>3, PTL DEF Spec

-----------------------------------------------------------------------------
(* A waiting row has no chat task: only the link writes a task, together     *)
(* with RUNNING, and nothing makes a row PENDING again.                      *)

Waiting ==
  \A e \in Execs : row[e].status \in {"ABSENT", "PENDING"} => row[e].task = 0

\* update_execution_status writes no task, and no status of a waiting row.
LEMMA UpdateWaiting ==
  ASSUME Typed, Waiting, NEW e \in Execs, NEW seen \in Snapshots,
         NEW status \in Terminal, NEW r \in Tasks,
         ConditionalUpdate(e, seen, status, r)
  PROVE  Waiting'
BY DEF ConditionalUpdate, Updated, Waiting, Terminal, Typed, TypeOK, Rows

\* Neither does the recovery.
LEMMA MarkRecoveredWaiting ==
  ASSUME Typed, Waiting, NEW s \in Schedulers, NEW e \in Execs, NEW rest,
         MarkRecovered(s, e, rest)
  PROVE  Waiting'
<1>1. CASE row' = row
  BY <1>1 DEF Waiting
<1>2. CASE row' = [row EXCEPT ![e].status = "CANCELLED"]
  BY <1>2 DEF Waiting, Typed, TypeOK, Rows
<1>3. CASE row' = [row EXCEPT ![e].status = "RUNNING", ![e].old = FALSE]
  BY <1>3 DEF Waiting, Typed, TypeOK, Rows
<1> QED BY <1>1, <1>2, <1>3 DEF MarkRecovered

\* Every step leaves waiting rows without a task.
LEMMA StepWaiting ==
  ASSUME Typed, Waiting, [Next]_vars
  PROVE  Waiting'
<1>1. ASSUME NEW e \in Execs, Trigger(e) \/ TriggerCrash(e) \/ Age(e)
      PROVE  Waiting'
  BY <1>1 DEF Trigger, CreateExecution, DispatchBackgroundExecution,
              TriggerCrash, Age, Waiting, Typed, TypeOK, Rows
<1>2. ASSUME NEW w \in Workers, WorkerStep(w)
      PROVE  Waiting'
  <2>1. CASE LinkTaskToExecution(w)
    BY <2>1 DEF LinkTaskToExecution, Waiting, Typed, TypeOK, Rows
  <2>2. CASE HandleExecutionFailure(w)
    <3>1. /\ worker[w].exec \in Execs /\ worker[w].seen \in Snapshots
          /\ "FAILED" \in Terminal /\ 0 \in Tasks
      BY <2>2, Constants DEF HandleExecutionFailure, Typed, TypeOK, References,
                             WorkerRefs, WorkerStates, Terminal
    <3> QED BY <2>2, <3>1, UpdateWaiting DEF HandleExecutionFailure
  <2>3. CASE UNCHANGED row
    BY <2>3 DEF Waiting
  <2> QED BY <1>2, <2>1, <2>2, <2>3
          DEF WorkerStep, LoadContext, CreateTask, StartThread, WorkerFails,
              Retry, WorkerCrash
<1>3. ASSUME NEW h \in Handlers, HandlerStep(h)
      PROVE  Waiting'
  <2>1. CASE ApplyOutcome(h)
    <3> DEFINE x == handler[h]
    <3>1. /\ x.exec \in Execs /\ x.seen \in Snapshots
          /\ x.outcome \in Terminal /\ x.run \in Tasks
      BY <2>1 DEF ApplyOutcome, Typed, TypeOK, References, HandlerRefs,
                  HandlerStates, Terminal
    <3>2. ConditionalUpdate(x.exec, x.seen, x.outcome, x.run)
      BY <2>1 DEF ApplyOutcome
    <3> HIDE DEF x
    <3> QED BY <3>1, <3>2, UpdateWaiting
  <2>2. CASE UNCHANGED row
    BY <2>2 DEF Waiting
  <2> QED BY <1>3, <2>1, <2>2 DEF HandlerStep, OnTaskCompleted, ThreadFails
<1>4. CASE UserStep
  <2>1. CASE CommitRequest
    <3>1. PICK st \in {"DELETED", "CANCELLED"} :
            row' = [row EXCEPT ![user.exec].status = st]
      BY <2>1 DEF CommitRequest
    <3> QED BY <3>1 DEF Waiting, Typed, TypeOK, Rows
  <2> QED BY <1>4, <2>1 DEF UserStep, RequestCancel, RequestDelete, Waiting
<1>5. ASSUME NEW s \in Schedulers, SchedulerStep(s)
      PROVE  Waiting'
  <2>1. CASE RecoverStalePending(s)
    BY <2>1, MarkRecoveredWaiting DEF RecoverStalePending, StalePending
  <2>2. CASE RecoverNext(s)
    <3>1. sched[s].batch \in SUBSET Execs
      BY DEF Typed, TypeOK, SchedulerStates
    <3> QED BY <2>2, <3>1, MarkRecoveredWaiting DEF RecoverNext
  <2>3. CASE FailStaleRunning(s)
    BY <2>3 DEF FailStaleRunning, Waiting, Typed, TypeOK, Rows
  <2>4. CASE UNCHANGED row
    BY <2>4 DEF Waiting
  <2> QED BY <1>5, <2>1, <2>2, <2>3, <2>4
          DEF SchedulerStep, Maintenance, RecoverDispatch, ReadStaleRunning,
              SchedulerCrash
<1>6. ASSUME \/ DeleteSubscription
             \/ \E r \in Runs : DispatchRun(r) \/ EndRun(r)
             \/ UNCHANGED vars
      PROVE  Waiting'
  BY <1>6 DEF DeleteSubscription, DispatchRun, EndRun, SetRun, vars, Waiting
<1> QED BY <1>1, <1>2, <1>3, <1>4, <1>5, <1>6 DEF Next

\* Whatever crashes and whoever else writes the row, a PENDING execution has
\* no chat task: the recovery, which selects rows with task_id 0, misses none.
THEOREM OrphansAreSeen == Spec => []PendingHasNoTask
<1>1. Init => Waiting
  BY DEF Init, Waiting
<1>2. Typed /\ Waiting /\ [Next]_vars => Waiting'
  BY StepWaiting
<1>3. Waiting => PendingHasNoTask
  BY DEF Waiting, PendingHasNoTask
<1> QED BY AlwaysTyped, <1>1, <1>2, <1>3, PTL DEF Spec

-----------------------------------------------------------------------------
(* The lookup by task id.  Whoever names a run of an execution names one     *)
(* that was started for it, and a row's task is the task of a run that was   *)
(* started for it.  A run that was started left its task in its execution's  *)
(* row, unless another run replaced it there.  So when the lookup gives the  *)
(* event of a run to an older execution, the run's own row was no candidate: *)
(* it is over, or it carries the task of another run.  Without               *)
(* preserveHistory every run has a task of its own, and the lookup finds the *)
(* run's own execution or none.                                              *)

Taken(r) == r \in Runs /\ run[r].pc # "free"
RunOf(r, e) == Taken(r) /\ run[r].exec = e
HasTurn(e, t) == \E q \in RunsOf(e) : run[q].task = t
Linked(r) == \/ row[run[r].exec].task = run[r].task
             \/ RunsOf(run[r].exec) \ {r} # {}
Records(e, r) == Taken(r) /\ MayRecord(e, r)

OwnTasks ==
  \A r \in Runs :
    Taken(r) => run[r].task # 0 /\ (~PreserveHistory => run[r].task = r)
OfWorker(w) == RunOf(worker[w].run, worker[w].exec)
WorkerOwn ==
  \A w \in Workers : worker[w].pc \in {"link", "start"} => OfWorker(w)
OfRow(e) == HasTurn(e, row[e].task)
RowOwn == \A e \in Execs : row[e].task # 0 => OfRow(e)
RunsLinked ==
  \A r \in Runs :
    run[r].pc \in {"started", "running", "ended"} => Linked(r)
LinkedBy(w) == Linked(worker[w].run)
WorkersLinked == \A w \in Workers : worker[w].pc = "start" => LinkedBy(w)
NoRetrying == \A e \in Execs : row[e].status # "RETRYING"
OfHandler(h) == Records(handler[h].exec, handler[h].run)
HandlerOwn == \A h \in Handlers : handler[h].pc = "update" => OfHandler(h)
OfResult(e) == Records(e, tally[e].result)
ResultOwn == \A e \in Execs : tally[e].result # 0 => OfResult(e)
Own == /\ OwnTasks /\ WorkerOwn /\ RowOwn /\ RunsLinked /\ WorkersLinked
       /\ NoRetrying /\ HandlerOwn /\ ResultOwn

\* A run that was taken keeps its execution and its task: nothing frees it,
\* and CreateTask takes a free one.
LEMMA RunsKept ==
  ASSUME Typed, [Next]_vars, NEW r \in Runs, Taken(r)
  PROVE  Taken(r)' /\ run'[r].exec = run[r].exec /\ run'[r].task = run[r].task
<1> USE DEF Taken, Typed, TypeOK
<1>1. ASSUME NEW w \in Workers, WorkerStep(w)
      PROVE  /\ Taken(r)' /\ run'[r].exec = run[r].exec
             /\ run'[r].task = run[r].task
  <2>1. CASE CreateTask(w)
    BY <2>1 DEF CreateTask
  <2>2. CASE StartThread(w)
    BY <2>2 DEF StartThread, RunStates
  <2>3. CASE UNCHANGED run
    BY <2>3
  <2> QED BY <1>1, <2>1, <2>2, <2>3
          DEF WorkerStep, LoadContext, LinkTaskToExecution, WorkerFails,
              HandleExecutionFailure, Retry, WorkerCrash
<1>2. ASSUME NEW q \in Runs, DispatchRun(q) \/ EndRun(q)
      PROVE  /\ Taken(r)' /\ run'[r].exec = run[r].exec
             /\ run'[r].task = run[r].task
  BY <1>2 DEF DispatchRun, EndRun, SetRun, RunStates
<1>3. ASSUME NEW h \in Handlers, HandlerStep(h)
      PROVE  /\ Taken(r)' /\ run'[r].exec = run[r].exec
             /\ run'[r].task = run[r].task
  <2>1. CASE run' = run
    BY <2>1
  <2>2. ASSUME NEW q \in Runs, NEW outcome, OnTaskCompleted(h, q, outcome)
        PROVE  /\ Taken(r)' /\ run'[r].exec = run[r].exec
               /\ run'[r].task = run[r].task
    BY <2>2 DEF OnTaskCompleted, RunStates
  <2>3. ASSUME NEW q \in Runs, ThreadFails(h, q)
        PROVE  /\ Taken(r)' /\ run'[r].exec = run[r].exec
               /\ run'[r].task = run[r].task
    BY <2>3 DEF ThreadFails, RunStates
  <2> QED BY <1>3, <2>1, <2>2, <2>3 DEF HandlerStep, ApplyOutcome
<1>4. CASE UNCHANGED run
  BY <1>4
<1>5. \/ \E w \in Workers : WorkerStep(w)
      \/ \E q \in Runs : DispatchRun(q) \/ EndRun(q)
      \/ \E h \in Handlers : HandlerStep(h)
      \/ UNCHANGED run
  BY DEF Next, Trigger, CreateExecution, DispatchBackgroundExecution,
         TriggerCrash, Age, DeleteSubscription, UserStep, RequestCancel,
         RequestDelete, CommitRequest, SchedulerStep, Maintenance,
         RecoverStalePending, RecoverNext, RecoverDispatch, ReadStaleRunning,
         FailStaleRunning, SchedulerCrash, vars
<1> QED BY <1>1, <1>2, <1>3, <1>4, <1>5

\* So whoever names a run of an execution goes on doing so.
LEMMA RunOfKept ==
  ASSUME Typed, [Next]_vars, NEW r, NEW e, RunOf(r, e)
  PROVE  RunOf(r, e)'
BY RunsKept DEF RunOf, Taken

\* A new run has a task, and one of its own when histories are not preserved.
LEMMA StepOwnTasks ==
  ASSUME Typed, Own, [Next]_vars
  PROVE  OwnTasks'
<1> SUFFICES ASSUME NEW r \in Runs, Taken(r)'
             PROVE  run'[r].task # 0 /\ (~PreserveHistory => run'[r].task = r)
  BY DEF OwnTasks
<1>1. CASE Taken(r)
  BY <1>1, RunsKept DEF Own, OwnTasks
<1>2. CASE ~Taken(r)
  <2>1. PICK w \in Workers : CreateTask(w)
    BY <1>2 DEF Taken, Typed, TypeOK, RunStates,
         Next, Trigger, CreateExecution, DispatchBackgroundExecution,
         TriggerCrash, Age, DeleteSubscription, WorkerStep, LoadContext,
         LinkTaskToExecution, StartThread, WorkerFails, References, WorkerRefs,
         HandleExecutionFailure, Retry, WorkerCrash, DispatchRun, EndRun,
         SetRun, HandlerStep, OnTaskCompleted, ThreadFails, ApplyOutcome,
         UserStep, RequestCancel, RequestDelete, CommitRequest,
         SchedulerStep, Maintenance, RecoverStalePending, RecoverNext,
         RecoverDispatch, ReadStaleRunning, FailStaleRunning,
         SchedulerCrash, vars
  <2>2. PICK q \in Runs, t \in Tasks :
          /\ run' = [run EXCEPT ![q] = [exec |-> worker[w].exec, task |-> t,
                                        pc |-> "created", sent |-> 0]]
          /\ t = q \/ (PreserveHistory /\ t # 0)
    BY <2>1, Constants DEF CreateTask, Typed, TypeOK, WorkerStates
  <2>3. q # 0
    BY BoundsAssumption DEF Runs
  <2>4. q = r
    BY <1>2, <2>2 DEF Taken, Typed, TypeOK
  <2> QED BY <2>2, <2>3, <2>4 DEF Typed, TypeOK
<1> QED BY <1>1, <1>2

\* A worker that creates a task, or goes on, names a run of its execution.
LEMMA StepWorkerOwn ==
  ASSUME Typed, Own, [Next]_vars
  PROVE  WorkerOwn'
<1> SUFFICES ASSUME NEW w \in Workers, worker'[w].pc \in {"link", "start"}
             PROVE  OfWorker(w)'
  BY DEF WorkerOwn
<1>1. CASE /\ worker[w].pc \in {"link", "start"}
           /\ worker'[w].run = worker[w].run
           /\ worker'[w].exec = worker[w].exec
  BY <1>1, RunOfKept DEF Own, WorkerOwn, OfWorker, RunOf
<1>2. ASSUME NEW v \in Workers, WorkerStep(v)
      PROVE  OfWorker(w)'
  <2>1. CASE CreateTask(v) /\ v = w
    BY <2>1 DEF CreateTask, OfWorker, RunOf, Taken, Typed, TypeOK, WorkerStates
  <2>2. CASE LinkTaskToExecution(v)
    <3>1. /\ worker[w].pc \in {"link", "start"}
          /\ worker'[w].run = worker[w].run
          /\ worker'[w].exec = worker[w].exec
      BY <2>2 DEF LinkTaskToExecution, Typed, TypeOK, WorkerStates
    <3> QED BY <3>1, <1>1
  <2>3. CASE v # w
    <3>1. worker'[w] = worker[w]
      BY <1>2, <2>3
         DEF WorkerStep, LoadContext, CreateTask, LinkTaskToExecution,
             StartThread, WorkerFails, HandleExecutionFailure, Retry,
             WorkerCrash, Typed, TypeOK
    <3> QED BY <3>1, <1>1
  <2>4. CASE v = w /\ worker'[w].pc \in {"idle", "create", "failing", "retry"}
    BY <2>4
  <2>5. \/ CreateTask(v) \/ LinkTaskToExecution(v)
        \/ worker'[v].pc \in {"idle", "create", "failing", "retry"}
    <3> USE DEF Typed, TypeOK
    <3>1. ASSUME NEW e \in Execs, NEW k \in RetryCounts, LoadContext(v, e, k)
          PROVE  worker'[v].pc \in {"idle", "create"}
      BY <3>1 DEF LoadContext
    <3>2. ASSUME NEW again \in BOOLEAN, WorkerFails(v, again)
          PROVE  worker'[v].pc \in {"failing", "retry"}
      BY <3>2 DEF WorkerFails, WorkerStates
    <3>3. CASE HandleExecutionFailure(v)
      BY <3>3 DEF HandleExecutionFailure, WorkerStates
    <3>4. CASE StartThread(v) \/ Retry(v) \/ WorkerCrash(v)
      BY <3>4 DEF StartThread, Retry, WorkerCrash, IdleWorker
    <3> QED BY <1>2, <3>1, <3>2, <3>3, <3>4 DEF WorkerStep
  <2> QED BY <2>1, <2>2, <2>3, <2>4, <2>5
<1>3. CASE UNCHANGED worker
  BY <1>3, <1>1
<1>4. (\E v \in Workers : WorkerStep(v)) \/ UNCHANGED worker
  BY DEF Next, Trigger, CreateExecution, DispatchBackgroundExecution,
         TriggerCrash, Age, DeleteSubscription, DispatchRun, EndRun, SetRun,
         HandlerStep, OnTaskCompleted, ThreadFails, ApplyOutcome,
         UserStep, RequestCancel, RequestDelete, CommitRequest, SchedulerStep,
         Maintenance, RecoverStalePending, RecoverNext, RecoverDispatch,
         ReadStaleRunning, FailStaleRunning, SchedulerCrash, vars
<1> QED BY <1>2, <1>3, <1>4

\* Only the link writes the task of a row.
LEMMA TaskKept ==
  ASSUME Typed, [Next]_vars, NEW e \in Execs
  PROVE  \/ row'[e].task = row[e].task
         \/ \E w \in Workers : LinkTaskToExecution(w) /\ worker[w].exec = e
<1> DEFINE Kept == row'[e].task = row[e].task
<1> USE DEF Typed, TypeOK, Rows
<1>1. ASSUME NEW f \in Execs, Trigger(f) \/ TriggerCrash(f) \/ Age(f)
      PROVE  Kept
  <2>1. CASE row' = row
    BY <2>1
  <2>2. CASE CreateExecution(f)
    BY <2>2 DEF CreateExecution
  <2>3. CASE Age(f)
    BY <2>3 DEF Age
  <2> QED BY <1>1, <2>1, <2>2, <2>3
          DEF Trigger, DispatchBackgroundExecution, TriggerCrash
<1>2. ASSUME NEW f, NEW seen, NEW status, NEW r,
             ConditionalUpdate(f, seen, status, r)
      PROVE  Kept
  BY <1>2 DEF ConditionalUpdate, Updated
<1>3. ASSUME NEW w \in Workers, WorkerStep(w)
      PROVE  Kept \/ (LinkTaskToExecution(w) /\ worker[w].exec = e)
  <2>1. CASE LinkTaskToExecution(w)
    BY <2>1 DEF LinkTaskToExecution
  <2>2. CASE HandleExecutionFailure(w)
    BY <2>2, <1>2 DEF HandleExecutionFailure
  <2>3. CASE UNCHANGED row
    BY <2>3
  <2> QED BY <1>3, <2>1, <2>2, <2>3
          DEF WorkerStep, LoadContext, CreateTask, StartThread, WorkerFails,
              Retry, WorkerCrash
<1>4. ASSUME NEW h \in Handlers, HandlerStep(h)
      PROVE  Kept
  <2>1. CASE ApplyOutcome(h)
    BY <2>1, <1>2 DEF ApplyOutcome
  <2> QED BY <1>4, <2>1 DEF HandlerStep, OnTaskCompleted, ThreadFails
<1>5. CASE UserStep
  BY <1>5 DEF UserStep, RequestCancel, RequestDelete, CommitRequest
<1>6. ASSUME NEW s \in Schedulers, SchedulerStep(s)
      PROVE  Kept
  <2>1. ASSUME NEW f, NEW rest, MarkRecovered(s, f, rest)
        PROVE  Kept
    <3>1. \/ row' = row
          \/ row' = [row EXCEPT ![f].status = "CANCELLED"]
          \/ row' = [row EXCEPT ![f].status = "RUNNING", ![f].old = FALSE]
      BY <2>1 DEF MarkRecovered
    <3> QED BY <3>1
  <2>2. CASE FailStaleRunning(s)
    BY <2>2 DEF FailStaleRunning
  <2>3. CASE UNCHANGED row
    BY <2>3
  <2> QED BY <1>6, <2>1, <2>2, <2>3
          DEF SchedulerStep, Maintenance, RecoverStalePending, RecoverNext,
              RecoverDispatch, ReadStaleRunning, SchedulerCrash
<1>7. ASSUME \/ DeleteSubscription
             \/ \E r \in Runs : DispatchRun(r) \/ EndRun(r)
             \/ UNCHANGED vars
      PROVE  Kept
  BY <1>7 DEF DeleteSubscription, DispatchRun, EndRun, SetRun, vars
<1> HIDE DEF Kept
<1> QED BY <1>1, <1>3, <1>4, <1>5, <1>6, <1>7 DEF Next, Kept

\* Only a handler writes the recorded result.
LEMMA ResultKept ==
  ASSUME Typed, [Next]_vars, NEW e \in Execs
  PROVE  \/ tally'[e].result = tally[e].result
         \/ \E h \in Handlers : /\ ApplyOutcome(h) /\ handler[h].exec = e
                                /\ tally'[e].result = handler[h].run
<1> DEFINE Kept == tally'[e].result = tally[e].result
<1> USE DEF Typed, TypeOK, Tallies
<1>1. ASSUME NEW f, NEW seen, NEW status, NEW r,
             ConditionalUpdate(f, seen, status, r), ~Kept
      PROVE  f = e /\ r # 0 /\ tally'[e].result = r
  <2>1. tally' = Counted(f, status, r)
    BY <1>1 DEF ConditionalUpdate
  <2> QED BY <1>1, <2>1 DEF Counted
<1>2. ASSUME NEW w \in Workers, WorkerStep(w)
      PROVE  Kept
  <2>1. CASE LinkTaskToExecution(w)
    BY <2>1 DEF LinkTaskToExecution
  <2>2. CASE HandleExecutionFailure(w)
    BY <2>2, <1>1 DEF HandleExecutionFailure
  <2>3. CASE UNCHANGED tally
    BY <2>3
  <2> QED BY <1>2, <2>1, <2>2, <2>3
          DEF WorkerStep, LoadContext, CreateTask, StartThread, WorkerFails,
              Retry, WorkerCrash
<1>3. ASSUME NEW h \in Handlers, HandlerStep(h)
      PROVE  \/ Kept
             \/ /\ ApplyOutcome(h) /\ handler[h].exec = e
                /\ tally'[e].result = handler[h].run
  <2>1. CASE ApplyOutcome(h)
    BY <2>1, <1>1 DEF ApplyOutcome
  <2> QED BY <1>3, <2>1 DEF HandlerStep, OnTaskCompleted, ThreadFails
<1>4. ASSUME NEW s \in Schedulers, SchedulerStep(s)
      PROVE  Kept
  <2>1. ASSUME NEW f, NEW rest, MarkRecovered(s, f, rest)
        PROVE  Kept
    <3>1. \/ tally' = tally
          \/ tally' = [tally EXCEPT ![f].revived = @ + Revived(f),
                                    ![f].recovered = @ + 1]
      BY <2>1 DEF MarkRecovered
    <3> QED BY <3>1
  <2>2. CASE UNCHANGED tally
    BY <2>2
  <2> QED BY <1>4, <2>1, <2>2
          DEF SchedulerStep, Maintenance, RecoverStalePending, RecoverNext,
              RecoverDispatch, ReadStaleRunning, FailStaleRunning,
              SchedulerCrash
<1>5. ASSUME \/ \E f \in Execs : Trigger(f) \/ TriggerCrash(f) \/ Age(f)
             \/ DeleteSubscription
             \/ \E r \in Runs : DispatchRun(r) \/ EndRun(r)
             \/ UserStep
             \/ UNCHANGED vars
      PROVE  Kept
  BY <1>5 DEF Trigger, CreateExecution, DispatchBackgroundExecution,
              TriggerCrash, Age, DeleteSubscription, DispatchRun, EndRun,
              SetRun, UserStep, RequestCancel, RequestDelete, CommitRequest,
              vars
<1> HIDE DEF Kept
<1> QED BY <1>2, <1>3, <1>4, <1>5 DEF Next, Kept

\* How a step may change the status of a row: only a creation makes it wait,
\* and making a finished row RUNNING again is counted as a revival.
LEMMA StatusMoves ==
  ASSUME Typed, [Next]_vars, NEW e \in Execs
  PROVE  /\ \/ row'[e].status = row[e].status
            \/ row[e].status = "ABSENT" /\ row'[e].status = "PENDING"
            \/ row'[e].status \in {"COMPLETED", "FAILED", "CANCELLED", "DELETED"}
            \/ /\ row'[e].status = "RUNNING" /\ row[e].status # "DELETED"
               /\ row[e].status \in Terminal
                    => tally'[e].revived = tally[e].revived + 1
         /\ tally'[e].revived >= tally[e].revived
<1> DEFINE Ends == {"COMPLETED", "FAILED", "CANCELLED", "DELETED"}
           Same == row'[e].status = row[e].status
           Starts == row[e].status = "ABSENT" /\ row'[e].status = "PENDING"
           Resumes == /\ row'[e].status = "RUNNING"
                      /\ row[e].status # "DELETED"
                      /\ row[e].status \in Terminal
                           => tally'[e].revived = tally[e].revived + 1
           Grows == tally'[e].revived >= tally[e].revived
           Goal == /\ Same \/ Starts \/ row'[e].status \in Ends \/ Resumes
                   /\ Grows
<1> SUFFICES Goal
  OBVIOUS
<1> USE DEF Typed, TypeOK, Rows, Tallies
<1>0. tally[e].revived \in Nat /\ tally[e].revived + 1 >= tally[e].revived
  OBVIOUS
<1>1. ASSUME NEW f \in Execs, Trigger(f) \/ TriggerCrash(f) \/ Age(f)
      PROVE  Goal
  <2>1. CASE row' = row /\ tally' = tally
    BY <1>0, <2>1
  <2>2. CASE CreateExecution(f)
    BY <1>0, <2>2 DEF CreateExecution
  <2>3. CASE Age(f)
    BY <1>0, <2>3 DEF Age
  <2> QED BY <1>1, <2>1, <2>2, <2>3
          DEF Trigger, DispatchBackgroundExecution, TriggerCrash
<1>2. ASSUME NEW f, NEW seen, NEW r, NEW status \in Ends,
             ConditionalUpdate(f, seen, status, r)
      PROVE  Goal
  <2>1. Same \/ row'[e].status \in Ends
    BY <1>2 DEF ConditionalUpdate, Updated
  <2>2. tally'[e].revived = tally[e].revived
    <3>1. CASE tally' = Counted(f, status, r)
      BY <3>1 DEF Counted
    <3> QED BY <1>2, <3>1 DEF ConditionalUpdate
  <2> QED BY <1>0, <2>1, <2>2
<1>3. ASSUME NEW f,
             tally' = [tally EXCEPT ![f].revived = @ + Revived(f)]
               \/ \E n : tally' = [tally EXCEPT ![f].revived = @ + Revived(f),
                                                ![f].recovered = n]
      PROVE  /\ Grows
             /\ f = e /\ row[e].status \in Terminal
                  => tally'[e].revived = tally[e].revived + 1
  BY <1>0, <1>3 DEF Revived
<1>4. ASSUME NEW w \in Workers, WorkerStep(w)
      PROVE  Goal
  <2>1. CASE LinkTaskToExecution(w)
    <3> DEFINE f == worker[w].exec
    <3>1. /\ Exists(f)
          /\ tally' = [tally EXCEPT ![f].revived = @ + Revived(f)]
          /\ row' = [row EXCEPT ![f] = [@ EXCEPT
                       !.status = "RUNNING", !.old = FALSE,
                       !.task = run[worker[w].run].task]]
      BY <2>1 DEF LinkTaskToExecution
    <3> HIDE DEF f
    <3> QED BY <3>1, <1>3 DEF Exists, Status
  <2>2. CASE HandleExecutionFailure(w)
    BY <2>2, <1>2 DEF HandleExecutionFailure
  <2>3. CASE UNCHANGED << row, tally >>
    BY <1>0, <2>3
  <2> QED BY <1>4, <2>1, <2>2, <2>3
          DEF WorkerStep, LoadContext, CreateTask, StartThread, WorkerFails,
              Retry, WorkerCrash
<1>5. ASSUME NEW h \in Handlers, HandlerStep(h)
      PROVE  Goal
  <2>1. CASE ApplyOutcome(h)
    <3>1. handler[h].outcome \in Ends
      BY DEF HandlerStates
    <3> QED BY <2>1, <3>1, <1>2 DEF ApplyOutcome
  <2>2. CASE UNCHANGED << row, tally >>
    BY <1>0, <2>2
  <2> QED BY <1>5, <2>1, <2>2 DEF HandlerStep, OnTaskCompleted, ThreadFails
<1>6. CASE UserStep
  BY <1>0, <1>6 DEF UserStep, RequestCancel, RequestDelete, CommitRequest
<1>7. ASSUME NEW s \in Schedulers, SchedulerStep(s)
      PROVE  Goal
  <2>1. ASSUME NEW f, NEW rest, MarkRecovered(s, f, rest)
        PROVE  Goal
    <3>1. CASE row' = row /\ tally' = tally
      BY <1>0, <3>1
    <3>2. CASE row' = [row EXCEPT ![f].status = "CANCELLED"] /\ tally' = tally
      BY <1>0, <3>2
    <3>3. CASE /\ row[f].status # "DELETED"
               /\ row' = [row EXCEPT ![f].status = "RUNNING", ![f].old = FALSE]
               /\ tally' = [tally EXCEPT ![f].revived = @ + Revived(f),
                                         ![f].recovered = @ + 1]
      BY <1>3, <3>3
    <3> QED BY <2>1, <3>1, <3>2, <3>3 DEF MarkRecovered
  <2>2. CASE FailStaleRunning(s)
    BY <1>0, <2>2 DEF FailStaleRunning
  <2>3. CASE UNCHANGED << row, tally >>
    BY <1>0, <2>3
  <2> QED BY <1>7, <2>1, <2>2, <2>3
          DEF SchedulerStep, Maintenance, RecoverStalePending, RecoverNext,
              RecoverDispatch, ReadStaleRunning, SchedulerCrash
<1>8. ASSUME \/ DeleteSubscription
             \/ \E r \in Runs : DispatchRun(r) \/ EndRun(r)
             \/ UNCHANGED vars
      PROVE  Goal
  BY <1>0, <1>8 DEF DeleteSubscription, DispatchRun, EndRun, SetRun, vars
<1> HIDE DEF Goal
<1> QED BY <1>1, <1>4, <1>5, <1>6, <1>7, <1>8 DEF Next

\* No step writes RETRYING.
LEMMA StepNoRetrying ==
  ASSUME Typed, NoRetrying, [Next]_vars
  PROVE  NoRetrying'
BY StatusMoves DEF NoRetrying

\* The runs of an execution stay its runs, with their tasks.
LEMMA TurnsKept ==
  ASSUME Typed, [Next]_vars, NEW e, NEW q \in RunsOf(e)
  PROVE  q \in RunsOf(e)' /\ run'[q].task = run[q].task
BY RunsKept DEF RunsOf, Taken

\* A run that left its task in the row, or was replaced there, stays so.
LEMMA LinkedKept ==
  ASSUME Typed, Own, [Next]_vars, NEW r, Taken(r), Linked(r)
  PROVE  Linked(r)'
<1> DEFINE f == run[r].exec
<1>1. f \in Execs /\ run'[r].exec = f /\ run'[r].task = run[r].task
  BY RunsKept DEF Taken, Typed, References, RunRefs
<1>2. CASE RunsOf(f) \ {r} # {}
  BY <1>1, <1>2, TurnsKept DEF Linked
<1>3. CASE row[f].task = run[r].task /\ row'[f].task = row[f].task
  BY <1>1, <1>3 DEF Linked
<1>4. ASSUME NEW w \in Workers, LinkTaskToExecution(w), worker[w].exec = f
      PROVE  Linked(r)'
  <2> DEFINE q == worker[w].run
  <2>1. q \in RunsOf(f) /\ run' = run
    BY <1>4 DEF LinkTaskToExecution, Own, WorkerOwn, OfWorker, RunOf, Taken,
                RunsOf
  <2>2. CASE q = r
    <3>1. row'[f].task = run[r].task
      BY <1>1, <1>4, <2>2 DEF LinkTaskToExecution, Typed, TypeOK, Rows
    <3> QED BY <1>1, <3>1 DEF Linked
  <2>3. CASE q # r
    BY <1>1, <2>1, <2>3 DEF Linked, RunsOf
  <2> QED BY <2>2, <2>3
<1> QED BY <1>1, <1>2, <1>3, <1>4, TaskKept DEF Linked

\* Only the worker that created a run starts it.
LEMMA StartedBy ==
  ASSUME Typed, [Next]_vars, NEW r \in Runs,
         run'[r].pc \in {"started", "running", "ended"}
  PROVE  \/ run[r].pc \in {"started", "running", "ended"}
         \/ \E w \in Workers : worker[w].pc = "start" /\ worker[w].run = r
<1> DEFINE Active == {"started", "running", "ended"}
           Goal == \/ run[r].pc \in Active
                   \/ \E w \in Workers : /\ worker[w].pc = "start"
                                         /\ worker[w].run = r
<1> SUFFICES Goal
  OBVIOUS
<1> USE DEF Typed, TypeOK, RunStates
<1>1. ASSUME NEW w \in Workers, WorkerStep(w)
      PROVE  Goal
  <2>1. CASE CreateTask(w)
    BY <2>1 DEF CreateTask
  <2>2. CASE StartThread(w)
    BY <2>2 DEF StartThread
  <2>3. CASE UNCHANGED run
    BY <2>3
  <2> QED BY <1>1, <2>1, <2>2, <2>3
          DEF WorkerStep, LoadContext, LinkTaskToExecution, WorkerFails,
              HandleExecutionFailure, Retry, WorkerCrash
<1>2. ASSUME NEW q \in Runs, DispatchRun(q) \/ EndRun(q)
      PROVE  Goal
  BY <1>2 DEF DispatchRun, EndRun, SetRun
<1>3. ASSUME NEW h \in Handlers, HandlerStep(h)
      PROVE  Goal
  <2>1. ASSUME NEW q \in Runs, NEW outcome, OnTaskCompleted(h, q, outcome)
        PROVE  Goal
    BY <2>1 DEF OnTaskCompleted
  <2>2. ASSUME NEW q \in Runs, ThreadFails(h, q)
        PROVE  Goal
    BY <2>2 DEF ThreadFails
  <2>3. CASE UNCHANGED run
    BY <2>3
  <2> QED BY <1>3, <2>1, <2>2, <2>3 DEF HandlerStep, ApplyOutcome
<1>4. CASE UNCHANGED run
  BY <1>4
<1>5. \/ \E w \in Workers : WorkerStep(w)
      \/ \E q \in Runs : DispatchRun(q) \/ EndRun(q)
      \/ \E h \in Handlers : HandlerStep(h)
      \/ UNCHANGED run
  BY DEF Next, Trigger, CreateExecution, DispatchBackgroundExecution,
         TriggerCrash, Age, DeleteSubscription, UserStep, RequestCancel,
         RequestDelete, CommitRequest, SchedulerStep, Maintenance,
         RecoverStalePending, RecoverNext, RecoverDispatch, ReadStaleRunning,
         FailStaleRunning, SchedulerCrash, vars
<1> HIDE DEF Goal
<1> QED BY <1>1, <1>2, <1>3, <1>4, <1>5

\* A run that is started was linked before.
LEMMA StepRunsLinked ==
  ASSUME Typed, Own, [Next]_vars
  PROVE  RunsLinked'
<1> SUFFICES ASSUME NEW r \in Runs,
                    run'[r].pc \in {"started", "running", "ended"}
             PROVE  Linked(r)'
  BY DEF RunsLinked
<1>1. CASE run[r].pc \in {"started", "running", "ended"}
  BY <1>1, LinkedKept DEF Own, RunsLinked, Taken
<1>2. ASSUME NEW w \in Workers, worker[w].pc = "start", worker[w].run = r
      PROVE  Linked(r)'
  BY <1>2, LinkedKept
     DEF Own, WorkersLinked, LinkedBy, Taken, Typed, References, WorkerRefs
<1> QED BY <1>1, <1>2, StartedBy

\* A worker about to start its run has linked it.
LEMMA StepWorkersLinked ==
  ASSUME Typed, Own, [Next]_vars
  PROVE  WorkersLinked'
<1> SUFFICES ASSUME NEW w \in Workers, worker'[w].pc = "start"
             PROVE  LinkedBy(w)'
  BY DEF WorkersLinked
<1>1. CASE worker'[w] = worker[w]
  BY <1>1, LinkedKept
     DEF Own, WorkersLinked, LinkedBy, Taken, Typed, References, WorkerRefs
<1>2. CASE LinkTaskToExecution(w)
  <2> DEFINE r == worker[w].run
             e == worker[w].exec
  <2>1. run[r].exec = e /\ e \in Execs
    BY <1>2 DEF LinkTaskToExecution, Own, WorkerOwn, OfWorker, RunOf,
                Typed, References, WorkerRefs
  <2>2. row'[e].task = run[r].task /\ run' = run /\ worker'[w].run = r
    BY <1>2, <2>1 DEF LinkTaskToExecution, Typed, TypeOK, Rows, WorkerStates
  <2> QED BY <2>1, <2>2 DEF LinkedBy, Linked
<1>3. worker'[w] = worker[w] \/ LinkTaskToExecution(w)
  <2> USE DEF Typed, TypeOK
  <2>1. ASSUME NEW v \in Workers, WorkerStep(v), worker'[w] # worker[w]
        PROVE  LinkTaskToExecution(w)
    <3>1. v = w
      BY <2>1 DEF WorkerStep, LoadContext, CreateTask, LinkTaskToExecution,
                  StartThread, WorkerFails, HandleExecutionFailure, Retry,
                  WorkerCrash
    <3>2. ASSUME NEW e \in Execs, NEW k \in RetryCounts, LoadContext(w, e, k)
          PROVE  FALSE
      BY <2>1, <3>1, <3>2 DEF LoadContext
    <3>3. CASE CreateTask(w)
      BY <3>3 DEF CreateTask, WorkerStates
    <3>4. ASSUME NEW again \in BOOLEAN, WorkerFails(w, again)
          PROVE  FALSE
      BY <3>4 DEF WorkerFails, WorkerStates
    <3>5. CASE HandleExecutionFailure(w)
      BY <3>5 DEF HandleExecutionFailure, WorkerStates
    <3>6. CASE StartThread(w) \/ Retry(w) \/ WorkerCrash(w)
      BY <3>6 DEF StartThread, Retry, WorkerCrash, IdleWorker
    <3> QED BY <2>1, <3>1, <3>2, <3>3, <3>4, <3>5, <3>6 DEF WorkerStep
  <2>2. (\E v \in Workers : WorkerStep(v)) \/ UNCHANGED worker
    BY DEF Next, Trigger, CreateExecution, DispatchBackgroundExecution,
           TriggerCrash, Age, DeleteSubscription, DispatchRun, EndRun, SetRun,
           HandlerStep, OnTaskCompleted, ThreadFails, ApplyOutcome,
           UserStep, RequestCancel, RequestDelete, CommitRequest,
           SchedulerStep, Maintenance, RecoverStalePending, RecoverNext,
           RecoverDispatch, ReadStaleRunning, FailStaleRunning,
           SchedulerCrash, vars
  <2> QED BY <2>1, <2>2
<1> QED BY <1>1, <1>2, <1>3

\* The link names the run its worker created.
LEMMA StepRowOwn ==
  ASSUME Typed, Own, [Next]_vars
  PROVE  RowOwn'
<1> SUFFICES ASSUME NEW e \in Execs, row'[e].task # 0
             PROVE  OfRow(e)'
  BY DEF RowOwn
<1>1. CASE row'[e].task = row[e].task
  <2>1. PICK q \in RunsOf(e) : run[q].task = row[e].task
    BY <1>1 DEF Own, RowOwn, OfRow, HasTurn
  <2> QED BY <1>1, <2>1, TurnsKept DEF OfRow, HasTurn
<1>2. ASSUME NEW w \in Workers, LinkTaskToExecution(w), worker[w].exec = e
      PROVE  OfRow(e)'
  <2> DEFINE r == worker[w].run
  <2>1. r \in RunsOf(e)
    BY <1>2 DEF LinkTaskToExecution, Own, WorkerOwn, OfWorker, RunOf, Taken,
                RunsOf
  <2>2. row'[e].task = run[r].task
    BY <1>2 DEF LinkTaskToExecution, Typed, TypeOK, Rows
  <2>3. run' = run
    BY <1>2 DEF LinkTaskToExecution
  <2> QED BY <2>1, <2>2, <2>3 DEF OfRow, HasTurn, RunsOf
<1> QED BY <1>1, <1>2, TaskKept

\* The order of ids, and of counts that only grow.
LEMMA Later ==
  ASSUME NEW e \in Execs, NEW f \in Execs, f # e, ~(f < e)
  PROVE  ~(f <= e)
BY ExecsAssumption

LEMMA StaysPositive ==
  ASSUME NEW m \in Nat, NEW n \in Nat, m > 0, n >= m
  PROVE  n > 0
OBVIOUS

\* What an execution may record, it may go on recording: runs keep their
\* execution and task, and an execution that has gone on has done so for good.
LEMMA RecordsKept ==
  ASSUME Typed, [Next]_vars, NEW e, NEW r, Records(e, r)
  PROVE  Records(e, r)'
<1> DEFINE f == run[r].exec
<1>1. /\ Taken(r)' /\ f \in Execs
      /\ run'[r].exec = f /\ run'[r].task = run[r].task
  BY RunsKept DEF Records, Taken, Typed, References, RunRefs
<1>2. CASE f = e
  BY <1>1, <1>2 DEF Records, MayRecord
<1>3. CASE f # e
  <2>1. PICK q \in RunsOf(e) : run[q].task = run[r].task
    BY <1>3 DEF Records, MayRecord
  <2>2. q \in RunsOf(e)' /\ run'[q].task = run'[r].task
    BY <1>1, <2>1, TurnsKept
  <2>3. ASSUME WentOn(f, r)
        PROVE  WentOn(f, r)'
    <3>1. CASE row[f].status \in Terminal \cup {"DELETED"}
      <4>1. tally[f].revived \in Nat
        BY <1>1 DEF Typed, TypeOK, Tallies
      <4> QED BY <1>1, <3>1, <4>1, StatusMoves DEF WentOn, Terminal
    <3>2. CASE tally[f].revived > 0
      <4>1. tally[f].revived \in Nat /\ tally'[f].revived \in Nat
        BY <1>1, StepTyped DEF Typed, TypeOK, Tallies
      <4>2. tally'[f].revived >= tally[f].revived
        BY <1>1, StatusMoves
      <4>3. tally'[f].revived > 0
        BY <3>2, <4>1, <4>2, StaysPositive
      <4> QED BY <1>1, <4>3 DEF WentOn
    <3>3. CASE RunsOf(f) \ {r} # {}
      BY <1>1, <3>3, TurnsKept DEF WentOn
    <3> QED BY <2>3, <3>1, <3>2, <3>3 DEF WentOn
  <2> QED BY <1>1, <1>3, <2>2, <2>3 DEF Records, MayRecord
<1> QED BY <1>2, <1>3

\* The lookup by the task of run r finds an unfinished execution only if that
\* execution may record the run's outcome.
LEMMA LookupFinds ==
  ASSUME Typed, Waiting, Own, NEW r \in Runs, run[r].pc = "ended",
         NEW e \in Execs, FindExecutionByTaskId(run[r].task, e),
         row[e].status \notin Terminal
  PROVE  Records(e, r)
<1> DEFINE f == run[r].exec
           t == run[r].task
<1>1. Taken(r) /\ f \in Execs /\ t # 0
  BY DEF Taken, Typed, References, RunRefs, Own, OwnTasks
<1>2. e \in OfTask(t)
  BY ExecsAssumption DEF FindExecutionByTaskId, IsNewest, Unfinished, Nobody
<1>3. IsNewest(e, Unfinished(t))
  <2>1. row[e].status \in {"PENDING", "RUNNING"}
    BY <1>2 DEF OfTask, Exists, Status, Terminal, Own, NoRetrying
  <2> QED BY <1>2, <2>1 DEF FindExecutionByTaskId, Unfinished
<1>4. PICK q \in RunsOf(e) : run[q].task = t
  BY <1>1, <1>2 DEF OfTask, Own, RowOwn, OfRow, HasTurn
<1>5. CASE ~PreserveHistory
  <2>1. q = r
    BY <1>1, <1>4, <1>5 DEF RunsOf, Own, OwnTasks, Taken
  <2> QED BY <1>1, <1>4, <2>1 DEF Records, MayRecord, RunsOf
<1>6. CASE PreserveHistory /\ f # e /\ ~(f < e)
  <2>1. ~(f <= e)
    BY <1>1, <1>6, Later
  <2>2. CASE row[f].task = t
    <3>1. row[f].status \notin {"ABSENT", "PENDING", "RUNNING", "RETRYING"}
      BY <1>1, <1>3, <2>1, <2>2
         DEF Waiting, IsNewest, Unfinished, OfTask, Exists, Status, Own,
             NoRetrying
    <3>2. row[f].status \in Terminal \cup {"DELETED"}
      BY <1>1, <3>1 DEF Typed, TypeOK, Rows, Status, Terminal
    <3> QED BY <1>1, <1>4, <1>6, <3>2 DEF Records, MayRecord, WentOn
  <2>3. CASE RunsOf(f) \ {r} # {}
    BY <1>1, <1>4, <1>6, <2>3 DEF Records, MayRecord, WentOn
  <2> QED BY <2>2, <2>3 DEF Own, RunsLinked, Linked
<1> QED BY <1>1, <1>4, <1>5, <1>6 DEF Records, MayRecord

\* A handler records for the execution it found by the task of its run, or for
\* the execution of the run that failed.
LEMMA StepHandlerOwn ==
  ASSUME Typed, Waiting, Own, [Next]_vars
  PROVE  HandlerOwn'
<1> SUFFICES ASSUME NEW h \in Handlers, handler'[h].pc = "update"
             PROVE  OfHandler(h)'
  BY DEF HandlerOwn
<1>1. CASE handler'[h] = handler[h]
  BY <1>1, RecordsKept DEF Own, HandlerOwn, OfHandler
<1>2. ASSUME NEW g \in Handlers, HandlerStep(g)
      PROVE  OfHandler(h)'
  <2> USE DEF Typed, TypeOK
  <2>1. ASSUME NEW r \in Runs, NEW outcome, OnTaskCompleted(g, r, outcome),
               handler'[h] # handler[h]
        PROVE  OfHandler(h)'
    <3>1. PICK e \in Execs \cup {Nobody} :
            /\ FindExecutionByTaskId(run[r].task, e)
            /\ handler' =
                 IF /\ e # Nobody
                    /\ row[e].status \notin Terminal
                    /\ ValidTransition(row[e].status, outcome)
                   THEN [handler EXCEPT ![g] = [pc |-> "update", exec |-> e,
                           run |-> r, seen |-> SnapshotOf(e),
                           outcome |-> outcome]]
                   ELSE handler
      BY <2>1 DEF OnTaskCompleted
    <3>2. /\ e \in Execs /\ row[e].status \notin Terminal
          /\ handler'[h].run = r /\ handler'[h].exec = e
      BY <2>1, <3>1
    <3>3. run[r].pc = "ended"
      BY <2>1 DEF OnTaskCompleted
    <3>4. Records(e, r)
      BY <3>1, <3>2, <3>3, LookupFinds
    <3> QED BY <3>2, <3>4, RecordsKept DEF OfHandler
  <2>2. ASSUME NEW r \in Runs, ThreadFails(g, r), handler'[h] # handler[h]
        PROVE  OfHandler(h)'
    <3>1. handler'[h].run = r /\ handler'[h].exec = run[r].exec
      BY <2>2 DEF ThreadFails
    <3>2. Records(run[r].exec, r)
      BY <2>2 DEF ThreadFails, Records, MayRecord, Taken
    <3> QED BY <3>1, <3>2, RecordsKept DEF OfHandler
  <2>3. CASE ApplyOutcome(g) /\ handler'[h] # handler[h]
    BY <2>3 DEF ApplyOutcome, IdleHandler
  <2> QED BY <1>1, <1>2, <2>1, <2>2, <2>3 DEF HandlerStep
<1>3. CASE UNCHANGED handler
  BY <1>1, <1>3
<1>4. (\E g \in Handlers : HandlerStep(g)) \/ UNCHANGED handler
  BY DEF Next, Trigger, CreateExecution, DispatchBackgroundExecution,
         TriggerCrash, Age, DeleteSubscription, WorkerStep, LoadContext,
         CreateTask, LinkTaskToExecution, StartThread, WorkerFails,
         HandleExecutionFailure, Retry, WorkerCrash, DispatchRun, EndRun,
         SetRun, UserStep, RequestCancel, RequestDelete, CommitRequest,
         SchedulerStep, Maintenance, RecoverStalePending, RecoverNext,
         RecoverDispatch, ReadStaleRunning, FailStaleRunning, SchedulerCrash,
         vars
<1> QED BY <1>2, <1>3, <1>4

\* A result is recorded by a handler that may record it.
LEMMA StepResultOwn ==
  ASSUME Typed, Own, [Next]_vars
  PROVE  ResultOwn'
<1> SUFFICES ASSUME NEW e \in Execs, tally'[e].result # 0
             PROVE  OfResult(e)'
  BY DEF ResultOwn
<1>1. CASE tally'[e].result = tally[e].result
  BY <1>1, RecordsKept DEF Own, ResultOwn, OfResult
<1>2. ASSUME NEW h \in Handlers, ApplyOutcome(h), handler[h].exec = e,
             tally'[e].result = handler[h].run
      PROVE  OfResult(e)'
  <2>1. Records(e, handler[h].run)
    BY <1>2 DEF ApplyOutcome, Own, HandlerOwn, OfHandler
  <2> QED BY <1>2, <2>1, RecordsKept DEF OfResult
<1> QED BY <1>1, <1>2, ResultKept

\* Every step keeps the links between executions and runs.
LEMMA StepOwn ==
  ASSUME Typed, Waiting, Own, [Next]_vars
  PROVE  Own'
BY StepOwnTasks, StepWorkerOwn, StepRowOwn, StepRunsLinked, StepWorkersLinked,
   StepNoRetrying, StepHandlerOwn, StepResultOwn
   DEF Own

\* However late or duplicated the events are, and whatever crashes, an
\* execution records the outcome of one of its own runs; where turns share a
\* chat task (preserveHistory) it may be another turn's, of an earlier
\* execution or of a later one that has gone on without it (the lookup by
\* task_id in _find_execution_by_task_id).
THEOREM OwnOutcomes == Spec => []OutcomeOfOwnTask
<1>1. Init => Waiting /\ Own
  BY DEF Init, Waiting, Own, OwnTasks, WorkerOwn, RowOwn, RunsLinked,
         WorkersLinked, NoRetrying, HandlerOwn, ResultOwn, Taken, NoRun,
         IdleWorker, IdleHandler
<1>2. Typed /\ Waiting /\ Own /\ [Next]_vars => (Waiting /\ Own)'
  BY StepWaiting, StepOwn
<1>3. Own => OutcomeOfOwnTask
  BY DEF Own, ResultOwn, OfResult, Records, OutcomeOfOwnTask
<1> QED BY AlwaysTyped, <1>1, <1>2, <1>3, PTL DEF Spec

-----------------------------------------------------------------------------
(* How often an execution is recovered.  An instance of the scheduler reads  *)
(* a PENDING execution into its batch, and takes it out of the batch when it *)
(* marks it RUNNING.  An execution that is still waiting was not recovered,  *)
(* so until then any number of instances may have read it; from the first    *)
(* mark on only those that hold it already recover it again, once each.      *)

Awaiting(e) == row[e].status \in {"ABSENT", "PENDING"}
Holds(s, e) == sched[s].pc \in {"mark", "dispatch"} /\ e \in sched[s].batch
Holders(e) == {s \in Schedulers : Holds(s, e)}
Recoveries ==
  \A e \in Execs :
    /\ Awaiting(e) => tally[e].recovered = 0
    /\ tally[e].recovered + Cardinality(Holders(e)) <= Cardinality(Schedulers)

\* What a step may do to an execution: it is not recovered and nobody new
\* holds it, unless it was waiting; or an instance that holds it, or finds it
\* waiting, recovers it and lets go of it.
NotRecovered(e) ==
  /\ tally'[e].recovered = tally[e].recovered
  /\ Awaiting(e)' => Awaiting(e)
  /\ Holders(e)' \subseteq Holders(e) \/ Awaiting(e)
RecoveredBy(s, e) ==
  /\ Holds(s, e) \/ Awaiting(e)
  /\ tally'[e].recovered = tally[e].recovered + 1
  /\ ~Awaiting(e)'
  /\ \/ Holders(e)' \subseteq Holders(e) \ {s}
     \/ Awaiting(e) /\ Holders(e)' \subseteq Schedulers \ {s}

\* Either keeps the account, by counting the holders.
LEMMA AccountKept ==
  ASSUME IsFiniteSet(Schedulers), Typed, NEW e \in Execs, NEW m, m = tally'[e],
         m.recovered \in Nat,
         Awaiting(e) => tally[e].recovered = 0,
         tally[e].recovered + Cardinality(Holders(e)) <= Cardinality(Schedulers),
         NotRecovered(e) \/ \E s \in Schedulers : RecoveredBy(s, e)
  PROVE  /\ Awaiting(e)' => m.recovered = 0
         /\ m.recovered + Cardinality(Holders(e)') <= Cardinality(Schedulers)
<1> DEFINE n == tally[e].recovered
<1>1. n \in Nat
  BY DEF Typed, TypeOK, Tallies
<1>2. PICK H : H = Holders(e)
  OBVIOUS
<1>3. PICK K : K = Holders(e)'
  OBVIOUS
<1>4. H \subseteq Schedulers /\ K \subseteq Schedulers
  BY <1>2, <1>3 DEF Holders
<1>5. /\ IsFiniteSet(H) /\ IsFiniteSet(K)
      /\ Cardinality(H) \in Nat /\ Cardinality(K) \in Nat
      /\ Cardinality(Schedulers) \in Nat
      /\ Cardinality(K) <= Cardinality(Schedulers)
  BY <1>4, FS_Subset, FS_CardinalityType
<1>6. CASE NotRecovered(e)
  <2>1. CASE K \subseteq H
    <3>1. Cardinality(K) <= Cardinality(H)
      BY <2>1, <1>5, FS_Subset
    <3> QED BY <3>1, <1>1, <1>2, <1>3, <1>5, <1>6 DEF NotRecovered
  <2>2. CASE Awaiting(e)
    BY <2>2, <1>1, <1>3, <1>5, <1>6 DEF NotRecovered
  <2> QED BY <2>1, <2>2, <1>2, <1>3, <1>6 DEF NotRecovered
<1>7. ASSUME NEW s \in Schedulers, RecoveredBy(s, e)
      PROVE  m.recovered + Cardinality(K) <= Cardinality(Schedulers)
  <2>0. m.recovered = n + 1
    BY <1>7 DEF RecoveredBy
  <2>1. CASE s \in H /\ K \subseteq H \ {s}
    <3>1. IsFiniteSet(H \ {s}) /\ Cardinality(H \ {s}) = Cardinality(H) - 1
      BY <2>1, <1>5, FS_RemoveElement
    <3>2. Cardinality(K) <= Cardinality(H \ {s})
      BY <2>1, <3>1, FS_Subset
    <3> QED BY <3>1, <3>2, <2>0, <1>1, <1>2, <1>5
  <2>2. CASE Awaiting(e)
    <3>1. K \subseteq Schedulers \ {s}
      BY <2>2, <1>2, <1>3, <1>4, <1>7 DEF RecoveredBy
    <3>2. /\ IsFiniteSet(Schedulers \ {s})
          /\ Cardinality(Schedulers \ {s}) = Cardinality(Schedulers) - 1
      BY FS_RemoveElement
    <3>3. Cardinality(K) <= Cardinality(Schedulers \ {s})
      BY <3>1, <3>2, FS_Subset
    <3> QED BY <3>2, <3>3, <2>0, <2>2, <1>5
  <2>3. Holds(s, e) => s \in H
    BY <1>2 DEF Holders
  <2> QED BY <2>1, <2>2, <2>3, <1>2, <1>3, <1>7 DEF RecoveredBy
<1>8. (\E s \in Schedulers : RecoveredBy(s, e)) => ~Awaiting(e)'
  BY DEF RecoveredBy
<1> QED BY <1>3, <1>6, <1>7, <1>8

\* Only the scheduler instances take executions into their batches, and only
\* they recover.
LEMMA StepElsewhere ==
  ASSUME Typed, [Next]_vars, NEW e \in Execs,
         ~\E s \in Schedulers : SchedulerStep(s)
  PROVE  NotRecovered(e)
<1> DEFINE Same == tally'[e].recovered = tally[e].recovered
           Still == Awaiting(e)' => Awaiting(e)
<1>1. ASSUME NEW f \in Execs, NEW seen \in Snapshots, NEW status \in Terminal,
             NEW r \in Tasks, ConditionalUpdate(f, seen, status, r)
      PROVE  Same /\ Still
  <2>1. Same
    <3>1. tally' = tally \/ tally' = Counted(f, status, r)
      BY <1>1 DEF ConditionalUpdate
    <3> QED BY <3>1 DEF Counted, Typed, TypeOK, Tallies
  <2>2. row'[e] = row[e] \/ row'[e].status \in Terminal
    BY <1>1 DEF ConditionalUpdate, Updated, Typed, TypeOK, Rows
  <2> QED BY <2>1, <2>2 DEF Awaiting, Terminal
<1>2. ASSUME NEW f \in Execs, Trigger(f) \/ TriggerCrash(f) \/ Age(f)
      PROVE  Same /\ Still
  <2>1. CASE CreateExecution(f)
    <3>1. /\ row[f].status = "ABSENT"
          /\ row' = [row EXCEPT ![f].status = "PENDING"]
      BY <2>1 DEF CreateExecution
    <3>2. Still
      BY <3>1 DEF Awaiting
    <3> QED BY <2>1, <3>2 DEF CreateExecution
  <2>2. CASE Age(f)
    <3>1. row' = [row EXCEPT ![f].old = TRUE]
      BY <2>2 DEF Age
    <3>2. row'[e].status = row[e].status
      BY <3>1 DEF Typed, TypeOK, Rows
    <3> QED BY <2>2, <3>2 DEF Age, Awaiting
  <2>3. CASE UNCHANGED << row, tally >>
    BY <2>3 DEF Awaiting
  <2> QED BY <1>2, <2>1, <2>2, <2>3
          DEF Trigger, DispatchBackgroundExecution, TriggerCrash
<1>3. ASSUME NEW w \in Workers, WorkerStep(w)
      PROVE  Same /\ Still
  <2>1. CASE LinkTaskToExecution(w)
    BY <2>1 DEF LinkTaskToExecution, Awaiting, Typed, TypeOK, Rows, Tallies
  <2>2. CASE HandleExecutionFailure(w)
    <3>1. /\ worker[w].exec \in Execs /\ worker[w].seen \in Snapshots
          /\ "FAILED" \in Terminal /\ 0 \in Tasks
      BY <2>2, Constants DEF HandleExecutionFailure, Typed, TypeOK, References,
                             WorkerRefs, WorkerStates, Terminal
    <3> QED BY <2>2, <3>1, <1>1 DEF HandleExecutionFailure
  <2>3. CASE UNCHANGED << row, tally >>
    BY <2>3 DEF Awaiting
  <2> QED BY <1>3, <2>1, <2>2, <2>3
          DEF WorkerStep, LoadContext, CreateTask, StartThread, WorkerFails,
              Retry, WorkerCrash
<1>4. ASSUME NEW h \in Handlers, HandlerStep(h)
      PROVE  Same /\ Still
  <2>1. CASE ApplyOutcome(h)
    <3> DEFINE x == handler[h]
    <3>1. /\ x.exec \in Execs /\ x.seen \in Snapshots
          /\ x.outcome \in Terminal /\ x.run \in Tasks
      BY <2>1 DEF ApplyOutcome, Typed, TypeOK, References, HandlerRefs,
                  HandlerStates, Terminal
    <3>2. ConditionalUpdate(x.exec, x.seen, x.outcome, x.run)
      BY <2>1 DEF ApplyOutcome
    <3> HIDE DEF x
    <3> QED BY <3>1, <3>2, <1>1
  <2>2. CASE UNCHANGED << row, tally >>
    BY <2>2 DEF Awaiting
  <2> QED BY <1>4, <2>1, <2>2 DEF HandlerStep, OnTaskCompleted, ThreadFails
<1>5. ASSUME UserStep
      PROVE  Same /\ Still
  <2>1. CASE CommitRequest
    <3>1. PICK st \in {"DELETED", "CANCELLED"} :
            row' = [row EXCEPT ![user.exec].status = st]
      BY <2>1 DEF CommitRequest
    <3>2. row'[e] = row[e] \/ row'[e].status = st
      BY <3>1 DEF Typed, TypeOK, Rows
    <3>3. tally' = tally
      BY <2>1 DEF CommitRequest
    <3> QED BY <3>2, <3>3 DEF Awaiting
  <2>2. CASE UNCHANGED << row, tally >>
    BY <2>2 DEF Awaiting
  <2> QED BY <1>5, <2>1, <2>2 DEF UserStep, RequestCancel, RequestDelete
<1>6. ASSUME \/ DeleteSubscription
             \/ \E r \in Runs : DispatchRun(r) \/ EndRun(r)
             \/ UNCHANGED vars
      PROVE  Same /\ Still
  BY <1>6 DEF DeleteSubscription, DispatchRun, EndRun, SetRun, vars, Awaiting
<1> HIDE DEF Same, Still
<1>7. Same /\ Still
  BY <1>2, <1>3, <1>4, <1>5, <1>6 DEF Next
<1>8. UNCHANGED sched
  BY DEF Next, Trigger, CreateExecution, DispatchBackgroundExecution,
         TriggerCrash, Age, DeleteSubscription, WorkerStep, LoadContext,
         CreateTask, LinkTaskToExecution, StartThread, WorkerFails,
         HandleExecutionFailure, Retry, WorkerCrash, DispatchRun, EndRun,
         SetRun, HandlerStep, OnTaskCompleted, ThreadFails, ApplyOutcome,
         UserStep, RequestCancel, RequestDelete, CommitRequest, vars
<1>9. Holders(e)' = Holders(e)
  BY <1>8 DEF Holders, Holds
<1> QED BY <1>7, <1>9 DEF NotRecovered, Same, Still

\* One iteration of the recovery loop, for the execution it takes out of the
\* batch and for the others: the batch that is left was held already, or all
\* of it is waiting.
LEMMA MarkRecoveredCounts ==
  ASSUME Typed, NEW s \in Schedulers, NEW f \in Execs, NEW rest, f \notin rest,
         MarkRecovered(s, f, rest), NEW e \in Execs,
         e \in rest \cup {f} => Holds(s, e) \/ Awaiting(e)
  PROVE  NotRecovered(e) \/ RecoveredBy(s, e)
<1> USE DEF Typed, TypeOK
<1>1. \A q \in Schedulers \ {s} : sched'[q] = sched[q]
  BY DEF MarkRecovered
<1>2. sched'[s].batch \subseteq rest
  BY DEF MarkRecovered
<1>3. ASSUME NEW q \in Schedulers, q # s
      PROVE  Holds(q, e)' = Holds(q, e)
  BY <1>1, <1>3 DEF Holds
<1>4. Holds(s, e)' => e \in rest
  BY <1>2 DEF Holds
<1>5. Holders(e)' \subseteq Holders(e) \/ Awaiting(e)
  <2>1. Holds(s, e)' => Holds(s, e) \/ Awaiting(e)
    BY <1>4
  <2> QED BY <1>3, <2>1 DEF Holders
<1>6. CASE row' = row /\ tally' = tally
  BY <1>5, <1>6 DEF NotRecovered, Awaiting
<1>7. CASE row' = [row EXCEPT ![f].status = "CANCELLED"] /\ tally' = tally
  <2>1. Awaiting(e)' => Awaiting(e)
    BY <1>7 DEF Awaiting, Rows
  <2> QED BY <1>5, <1>7, <2>1 DEF NotRecovered
<1>8. CASE /\ row' = [row EXCEPT ![f].status = "RUNNING", ![f].old = FALSE]
           /\ tally' = [tally EXCEPT ![f].revived = @ + Revived(f),
                                     ![f].recovered = @ + 1]
  <2>1. CASE e # f
    <3>1. row'[e] = row[e] /\ tally'[e] = tally[e]
      BY <1>8, <2>1
    <3> QED BY <1>5, <3>1 DEF NotRecovered, Awaiting
  <2>2. CASE e = f
    <3>1. tally'[e].recovered = tally[e].recovered + 1
      BY <1>8, <2>2 DEF Tallies
    <3>2. ~Awaiting(e)'
      BY <1>8, <2>2 DEF Awaiting, Rows
    <3>3. ~Holds(s, e)'
      BY <1>4, <2>2
    <3>4. Holders(e)' \subseteq Holders(e) \ {s}
      BY <1>3, <3>3 DEF Holders
    <3> QED BY <2>2, <3>1, <3>2, <3>4 DEF RecoveredBy
  <2> QED BY <2>1, <2>2
<1> QED BY <1>6, <1>7, <1>8 DEF MarkRecovered

\* The steps of a scheduler instance.
LEMMA StepScheduler ==
  ASSUME Typed, NEW s \in Schedulers, SchedulerStep(s), NEW e \in Execs
  PROVE  NotRecovered(e) \/ RecoveredBy(s, e)
<1> USE DEF Typed, TypeOK
<1>1. CASE RecoverStalePending(s)
  <2>1. PICK f \in StalePending : MarkRecovered(s, f, StalePending \ {f})
    BY <1>1 DEF RecoverStalePending
  <2>2. f \in Execs /\ (e \in (StalePending \ {f}) \cup {f} => Awaiting(e))
    BY <2>1 DEF StalePending, Awaiting
  <2> QED BY <2>1, <2>2, MarkRecoveredCounts
<1>2. CASE RecoverNext(s)
  <2>1. PICK f \in sched[s].batch :
          MarkRecovered(s, f, sched[s].batch \ {f})
    BY <1>2 DEF RecoverNext
  <2>2. sched[s].batch \subseteq Execs
    BY DEF SchedulerStates
  <2>3. e \in (sched[s].batch \ {f}) \cup {f} => Holds(s, e)
    BY <1>2 DEF RecoverNext, Holds
  <2> QED BY <2>1, <2>2, <2>3, MarkRecoveredCounts
<1>3. ASSUME /\ tally' = tally
             /\ Awaiting(e)' => Awaiting(e)
             /\ \A q \in Schedulers \ {s} : sched'[q] = sched[q]
             /\ Holds(s, e)' => Holds(s, e)
      PROVE  NotRecovered(e)
  <2>1. ASSUME NEW q \in Schedulers, q # s
        PROVE  Holds(q, e)' = Holds(q, e)
    BY <1>3, <2>1 DEF Holds
  <2>2. Holders(e)' \subseteq Holders(e)
    BY <1>3, <2>1 DEF Holders
  <2> QED BY <1>3, <2>2 DEF NotRecovered
<1>4. CASE RecoverDispatch(s)
  BY <1>3, <1>4 DEF RecoverDispatch, Awaiting, Holds, SchedulerStates
<1>5. CASE ReadStaleRunning(s)
  <2>1. sched'[s].pc \in {"idle", "fail"}
    BY <1>5 DEF ReadStaleRunning, IdleScheduler
  <2> QED BY <1>3, <1>5, <2>1 DEF ReadStaleRunning, Awaiting, Holds
<1>6. CASE FailStaleRunning(s)
  <2>1. Awaiting(e)' => Awaiting(e)
    BY <1>6 DEF FailStaleRunning, Awaiting, Rows
  <2>2. sched'[s].pc = "idle"
    BY <1>6 DEF FailStaleRunning, IdleScheduler
  <2> QED BY <1>3, <1>6, <2>1, <2>2 DEF FailStaleRunning, Holds
<1>7. CASE SchedulerCrash(s)
  <2>1. sched'[s].pc = "idle"
    BY <1>7 DEF SchedulerCrash, IdleScheduler
  <2> QED BY <1>3, <1>7, <2>1 DEF SchedulerCrash, Awaiting, Holds
<1> QED BY <1>1, <1>2, <1>4, <1>5, <1>6, <1>7 DEF SchedulerStep, Maintenance

\* Every step keeps the account of recoveries.
LEMMA StepRecoveries ==
  ASSUME IsFiniteSet(Schedulers), Typed, Typed', Recoveries, [Next]_vars
  PROVE  Recoveries'
<1> SUFFICES ASSUME NEW e \in Execs
             PROVE  /\ Awaiting(e)' => tally'[e].recovered = 0
                    /\ tally'[e].recovered + Cardinality(Holders(e)')
                         <= Cardinality(Schedulers)
  BY DEF Recoveries
<1>1. NotRecovered(e) \/ \E s \in Schedulers : RecoveredBy(s, e)
  <2>1. ASSUME NEW s \in Schedulers, SchedulerStep(s)
        PROVE  NotRecovered(e) \/ \E q \in Schedulers : RecoveredBy(q, e)
    BY <2>1, StepScheduler
  <2> QED BY <2>1, StepElsewhere
<1>2. tally'[e].recovered \in Nat
  BY DEF Typed, TypeOK, Tallies
<1>3. /\ Awaiting(e) => tally[e].recovered = 0
      /\ tally[e].recovered + Cardinality(Holders(e)) <= Cardinality(Schedulers)
  BY DEF Recoveries
<1> QED BY <1>1, <1>2, <1>3, AccountKept

RecoveredPerInstance ==
  \A e \in Execs : tally[e].recovered <= Cardinality(Schedulers)

\* However the instances of the scheduler overlap with each other and with
\* everybody else, an execution is recovered at most once by each of them: the
\* mark RUNNING keeps it out of every later batch.
THEOREM RecoveredOncePerInstance ==
  IsFiniteSet(Schedulers) => (Spec => []RecoveredPerInstance)
<1> SUFFICES ASSUME IsFiniteSet(Schedulers)
             PROVE  Spec => []RecoveredPerInstance
  OBVIOUS
<1>1. Init => Recoveries
  <2> SUFFICES ASSUME Init, NEW e \in Execs
               PROVE  /\ tally[e].recovered = 0
                      /\ 0 + Cardinality(Holders(e)) <= Cardinality(Schedulers)
    BY DEF Recoveries
  <2>1. tally[e].recovered = 0 /\ Holders(e) = {}
    BY DEF Init, Holders, Holds, IdleScheduler
  <2>2. Cardinality(Schedulers) \in Nat /\ Cardinality({}) = 0
    BY FS_CardinalityType, FS_EmptySet
  <2> QED BY <2>1, <2>2
<1>2. Typed /\ Typed' /\ Recoveries /\ [Next]_vars => Recoveries'
  BY StepRecoveries
<1>3. Typed /\ Recoveries => RecoveredPerInstance
  <2> SUFFICES ASSUME Typed, Recoveries, NEW e \in Execs
               PROVE  tally[e].recovered <= Cardinality(Schedulers)
    BY DEF RecoveredPerInstance
  <2>1. Holders(e) \subseteq Schedulers
    BY DEF Holders
  <2>2. /\ Cardinality(Holders(e)) \in Nat
        /\ Cardinality(Schedulers) \in Nat
    BY <2>1, FS_Subset, FS_CardinalityType
  <2>3. tally[e].recovered \in Nat
    BY DEF Typed, TypeOK, Tallies
  <2> QED BY <2>2, <2>3 DEF Recoveries
<1> QED BY AlwaysTyped, <1>1, <1>2, <1>3, PTL DEF Spec

\* With one instance at a time, which is what the distributed lock is for, the
\* recovery of _recover_stale_pending_executions is not repeated.
THEOREM RecoveryIsNotRepeated ==
  (\E s : Schedulers = {s}) => (Spec => []RecoveredOnce)
<1> SUFFICES ASSUME NEW s, Schedulers = {s} PROVE Spec => []RecoveredOnce
  OBVIOUS
<1>1. IsFiniteSet(Schedulers) /\ Cardinality(Schedulers) = 1
  BY FS_Singleton
<1>2. RecoveredPerInstance => RecoveredOnce
  BY <1>1 DEF RecoveredPerInstance, RecoveredOnce
<1> QED BY RecoveredOncePerInstance, <1>1, <1>2, PTL
=============================================================================
