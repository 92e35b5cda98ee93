---------------------------- MODULE TaskDispatch ----------------------------
(***************************************************************************)
(* One chat task executed in containers.  Each message of the user is a    *)
(* turn (an assistant subtask).  The backend posts the turn to the         *)
(* executor manager, which keeps it in a Redis list; a consumer thread     *)
(* starts a container (a box) for it or hands it to the box of an earlier  *)
(* turn, the executor in the box runs it and posts its outcome back        *)
(* through the manager, and a heartbeat checker reports turns whose box    *)
(* died.  A user may cancel, and old boxes are swept.                      *)
(*                                                                         *)
(* The status of a turn is written without a condition on its old value,   *)
(* and the tracker of running turns has one entry per task, not per turn.  *)
(*                                                                         *)
(* A box is named after the turn it was made for (the name is a hash of    *)
(* user, task and subtask), so a box and its turn share their number.      *)
(***************************************************************************)
EXTENDS Integers, FiniteSets, Sequences

CONSTANTS
  MaxTurns,      \* bound: messages of the user
  MaxRuns,       \* bound: executions started in boxes
  Consumers,     \* consumer threads of the executor manager
  Checkers,      \* heartbeat checks in progress
  MaxRequeues,   \* TASK_QUEUE_MAX_RETRIES
  OneShot,       \* turns with is_subscription: their box exits after them
  FaultKinds,    \* what may fail, a subset of the kinds below
  MaxFaults,     \* bound: faults
  MaxIncidents   \* bound: boxes that die, heartbeats that are
                 \* missed, cancel requests and sweeps, together

Kinds == {"send", "sender", "prepare", "submit", "dispatch", "start",
          "consumer", "agent", "backend", "callback", "inspect", "report"}

ASSUME DispatchBoundsAssumption ==
  /\ {MaxTurns, MaxRuns} \subseteq Nat \ {0}
  /\ {MaxRequeues, MaxFaults, MaxIncidents} \subseteq Nat
  /\ OneShot \subseteq 1..MaxTurns /\ FaultKinds \subseteq Kinds
  /\ IsFiniteSet(Consumers)

VARIABLES
  turn,      \* the assistant subtasks: status, executor_name, and its sender
  queue,     \* the Redis list, oldest first
  consumer,  \* what each consumer thread is doing
  box,       \* the containers: state, turn of the agent's emitter, exit code
  run,       \* executions in boxes; slot 0 is the callback of a cancel
  tracked,   \* the entry of the task in RunningTaskTracker
  checker,   \* what each heartbeat check is doing
  user,      \* the cancel request in progress
  swept,     \* the box the scheduled deletion has chosen
  faults, incidents, \* against their bounds
  lost       \* history: turns that lost their entry, or their box, to another

ends == << faults, incidents >>
backend == << turn, user, swept >>
manager == << queue, consumer, tracked, checker >>
boxes == << box, run >>
vars == << backend, manager, boxes, ends, lost >>

Turns == 1..MaxTurns
Runs == 1..MaxRuns
NoBox == 0
NoTurn == 0
Cancellation == 0 \* the slot of a cancel callback
Terminal == {"COMPLETED", "FAILED", "CANCELLED"}

Unfinished(t) == turn[t].status \in {"PENDING", "RUNNING"}

Fault(kind) ==
  kind \in FaultKinds /\ faults < MaxFaults /\ faults' = faults + 1
  /\ UNCHANGED incidents

Incident == incidents < MaxIncidents /\ incidents' = incidents + 1 /\ UNCHANGED faults

\* A callback or the dispatcher writes the status of a turn, whatever it was;
\* the name of the box is kept if the turn has none yet.
Applied(t, status, b) ==
  [turn EXCEPT ![t].status = status, ![t].box = IF @ = NoBox THEN b ELSE @]

NotTracked == [turn |-> NoTurn, box |-> NoBox]

\* The unfinished turn that loses the entry of the task to turn t.
Losing(t) == {u \in Turns \ {t} : tracked.turn = u /\ Unfinished(u)}

AddEntry(t, b) ==
  /\ tracked' = [turn |-> t, box |-> b]
  /\ lost' = lost \cup Losing(t)

\* The entry is removed by the task, whoever's it is by now.
RemoveEntry(t) ==
  /\ tracked' = NotTracked
  /\ lost' = lost \cup Losing(t)

Running(b) == b # NoBox /\ box[b].state = "running"

\* A run that is over; only its turn is remembered.
Over(r) == [pc |-> "over", turn |-> run[r].turn, box |-> NoBox, outcome |-> "none"]

\* Box b stops: what ran in it ends, what it had not sent is never sent.
Stopped(b, state) ==
  /\ box' = [box EXCEPT ![b].state = state, ![b].exit = "no"]
  /\ run' = [r \in DOMAIN run |->
       IF run[r].box = b /\ run[r].pc \in {"running", "event"}
       THEN Over(r) ELSE run[r]]

\* A new container takes the name of box b.
Created(b) == box' = [box EXCEPT ![b] = [state |-> "running", turn |-> NoTurn,
                                         exit |-> "no"]]

-----------------------------------------------------------------------------
(* The backend: a user's message, the status RUNNING, the POST.             *)

\* create_assistant_subtask copies the box of the newest turn that has one.
BoxOfEarlier(t) ==
  LET named == {u \in 1..(t - 1) : turn[u].box # NoBox}
  IN  IF named = {} THEN NoBox
      ELSE turn[CHOOSE u \in named : \A v \in named : v <= u].box

CreateTurn(t) ==
  /\ turn[t].status = "NONE"
  /\ t # 1 => turn[t - 1].status \notin {"NONE", "RUNNING"}
  /\ turn' = [turn EXCEPT ![t] = [status |-> "PENDING", box |-> BoxOfEarlier(t),
                                  send |-> "mark"]]
  /\ UNCHANGED << user, swept, manager, boxes, ends, lost >>

UpdateToRunning(t) ==
  /\ turn[t].send = "mark"
  /\ turn' = [Applied(t, "RUNNING", NoBox) EXCEPT ![t].send = "post"]
  /\ UNCHANGED << user, swept, manager, boxes, ends, lost >>

Message(t) == [turn |-> t, box |-> turn[t].box, retries |-> 0]

\* /v1/responses pushes the message; the client repeats a POST whose answer is
\* lost, and when it gives up the dispatcher marks the turn FAILED.
Posted(t, copies, status) ==
  /\ turn[t].send = "post"
  /\ queue' = queue \o [i \in 1..copies |-> Message(t)]
  /\ turn' = [Applied(t, status, NoBox) EXCEPT ![t].send = "done"]
  /\ UNCHANGED << user, swept, consumer, tracked, checker, boxes, lost >>

PostResponses(t) == Posted(t, 1, turn[t].status) /\ UNCHANGED ends
PostRepeated(t) == Posted(t, 2, turn[t].status) /\ Fault("send")
PostFails(t) == (\E n \in 0..1 : Posted(t, n, "FAILED")) /\ Fault("send")

SenderStops(t) ==
  /\ turn[t].send \in {"mark", "post"} /\ Fault("sender")
  /\ turn' = [turn EXCEPT ![t].send = "done"]
  /\ UNCHANGED << user, swept, manager, boxes, lost >>

-----------------------------------------------------------------------------
(* A consumer thread of the executor manager.                               *)

NoMessage == [turn |-> NoTurn, box |-> NoBox, retries |-> 0]
IdleConsumer == [pc |-> "idle", msg |-> NoMessage, box |-> NoBox, fresh |-> FALSE]

Goto(c, pc) == consumer' = [consumer EXCEPT ![c].pc = pc]
Done(c) == consumer' = [consumer EXCEPT ![c] = IdleConsumer]

\* Mutant: the message is moved to the other end of the list instead of removed.
DequeueRotates(c) ==
  /\ consumer[c].pc = "idle" /\ queue # << >>
  /\ queue' = Append(Tail(queue), Head(queue))
  /\ consumer' = [consumer EXCEPT ![c] = [pc |-> "submit", msg |-> Head(queue),
                                          box |-> NoBox, fresh |-> FALSE]]
  /\ UNCHANGED << backend, tracked, checker, boxes, ends, lost >>

Dequeue(c) ==
  /\ consumer[c].pc = "idle" /\ queue # << >>
  /\ queue' = Tail(queue)
  /\ consumer' = [consumer EXCEPT ![c] = [pc |-> "submit", msg |-> Head(queue),
                                          box |-> NoBox, fresh |-> FALSE]]
  /\ UNCHANGED << backend, tracked, checker, boxes, ends, lost >>

\* Mutant: one requeue too many.
RequeueOnceMore(c) ==
  LET m == consumer[c].msg
  IN  IF m.retries <= MaxRequeues
      THEN queue' = Append(queue, [m EXCEPT !.retries = @ + 1]) /\ Done(c)
      ELSE Goto(c, "report") /\ UNCHANGED queue

\* Mutant: the retry count is not increased.
RequeueUncounted(c) == queue' = Append(queue, consumer[c].msg) /\ Done(c)

Requeue(c) ==
  LET m == consumer[c].msg
  IN  IF m.retries < MaxRequeues
      THEN queue' = Append(queue, [m EXCEPT !.retries = @ + 1]) /\ Done(c)
      ELSE Goto(c, "report") /\ UNCHANGED queue

\* Processing fails before the executor is chosen: requeue, or give up.
ProcessFails(c) ==
  /\ consumer[c].pc = "submit" /\ "prepare" \in FaultKinds
  /\ Requeue(c)
  /\ UNCHANGED << backend, tracked, checker, boxes, ends, lost >>

ReportFailure(c) ==
  /\ consumer[c].pc = "report" /\ Done(c)
  /\ \/ turn' = Applied(consumer[c].msg.turn, "FAILED", NoBox) /\ UNCHANGED ends
     \/ Fault("report") /\ UNCHANGED turn
  /\ UNCHANGED << user, swept, queue, tracked, checker, boxes, lost >>

\* The name a submission gives its box; whether that box exists and runs.
NameFor(m) == IF m.box = NoBox THEN m.turn ELSE m.box
Exists(b) == box[b].state \notin {"none", "gone"}

SubmitToBox(c) ==
  LET m == consumer[c].msg
  IN  /\ consumer[c].pc = "submit" /\ Running(m.box)
      /\ consumer' = [consumer EXCEPT ![c].pc = "dispatch", ![c].box = m.box]
      /\ UNCHANGED << backend, queue, tracked, checker, boxes, ends, lost >>

\* The turns that were dispatched to the last box of this name and are still to
\* be entered.
NotEntered(b) ==
  {t \in Turns : Unfinished(t) /\ \E c \in Consumers :
     consumer[c].pc = "register" /\ consumer[c].msg.turn = t /\ consumer[c].box = b}

\* A new box is entered in the tracker as soon as docker has started it.  A box
\* of that name that stopped was removed first if the message names it.
SubmitNew(c) ==
  LET m == consumer[c].msg
      b == NameFor(m)
  IN  /\ consumer[c].pc = "submit" /\ ~Running(m.box)
      /\ m.box = NoBox => ~Exists(b)
      /\ Created(b)
      /\ tracked' = [turn |-> m.turn, box |-> b]
      /\ lost' = lost \cup Losing(m.turn) \cup NotEntered(b)
      /\ consumer' = [consumer EXCEPT ![c].pc = "dispatch", ![c].box = b,
                                      ![c].fresh = TRUE]
      /\ UNCHANGED << backend, queue, checker, run, ends >>

\* docker run fails: the name is taken, or some other reason.  The result still
\* carries the name of the box, and the consumer takes it for a success.
SubmitFails(c) ==
  LET m == consumer[c].msg
  IN  /\ consumer[c].pc = "submit" /\ ~Running(m.box)
      /\ \/ m.box = NoBox /\ Exists(m.turn) /\ UNCHANGED << box, ends >>
         \/ /\ m.box = NoBox => ~Exists(m.turn)
            /\ Fault("submit")
            /\ IF m.box # NoBox THEN box' = [box EXCEPT ![m.box].state = "gone"]
               ELSE UNCHANGED box
      /\ Done(c)
      /\ UNCHANGED << backend, queue, tracked, checker, run, lost >>

\* n executions of turn t start in box b.
Started(t, b, n) ==
  \E rs \in SUBSET {r \in Runs : run[r].pc = "free"} :
    /\ Cardinality(rs) = n
    /\ \A r \in rs, q \in Runs \ rs : run[q].pc = "free" => r < q
    /\ run' = [r \in DOMAIN run |-> IF r \in rs
                 THEN [pc |-> "running", turn |-> t, box |-> b, outcome |-> "none"]
                 ELSE run[r]]
    /\ box' = [box EXCEPT ![b].turn = t]

AfterDispatch(c) == IF consumer[c].fresh THEN Done(c) ELSE Goto(c, "register")

\* The box accepts the turn.  An answer that is lost makes the first dispatch of
\* a new box repeat, and skips the registration of a box in use.
Dispatch(c) ==
  LET t == consumer[c].msg.turn
      b == consumer[c].box
  IN  /\ consumer[c].pc = "dispatch" /\ Running(b)
      /\ \/ Started(t, b, 1) /\ AfterDispatch(c) /\ UNCHANGED ends
         \/ /\ Fault("dispatch") /\ Done(c)
            /\ Started(t, b, IF consumer[c].fresh THEN 2 ELSE 1)
      /\ UNCHANGED << backend, queue, tracked, checker, lost >>

\* The start event does not reach the backend: the box answers 200 and runs
\* nothing; a one-shot box exits.
StartFails(c) ==
  LET b == consumer[c].box
  IN  /\ consumer[c].pc = "dispatch" /\ Running(b) /\ Fault("start")
      /\ IF consumer[c].msg.turn \in OneShot
         THEN Stopped(b, "crashed") /\ UNCHANGED consumer
         ELSE AfterDispatch(c) /\ UNCHANGED boxes
      /\ UNCHANGED << backend, queue, tracked, checker, lost >>

\* The box is not there any more, or no attempt reaches it: a new box is
\* deleted, a turn meant for a box in use is dropped.
DispatchFails(c) ==
  LET b == consumer[c].box
  IN  /\ consumer[c].pc = "dispatch"
      /\ \/ Running(b) /\ Fault("dispatch")
         \/ ~Running(b) /\ UNCHANGED ends
      /\ IF consumer[c].fresh THEN Stopped(b, "gone") ELSE UNCHANGED boxes
      /\ lost' = IF consumer[c].fresh \/ Running(b) THEN lost
                 ELSE lost \cup {consumer[c].msg.turn}
      /\ Done(c)
      /\ UNCHANGED << backend, queue, tracked, checker >>

Register(c) ==
  /\ consumer[c].pc = "register"
  /\ AddEntry(consumer[c].msg.turn, consumer[c].box)
  /\ Done(c)
  /\ UNCHANGED << backend, queue, checker, boxes, ends >>

\* The thread dies; BRPOP has already taken the message off the list.
ConsumerStops(c) ==
  /\ consumer[c].pc # "idle" /\ Fault("consumer") /\ Done(c)
  /\ UNCHANGED << backend, queue, tracked, checker, boxes, lost >>

-----------------------------------------------------------------------------
(* The executor in a box, and the callbacks on their way to the backend.    *)

EndRun(r) ==
  /\ run[r].pc = "running"
  /\ \E outcome \in {"COMPLETED", "FAILED"} :
       run' = [run EXCEPT ![r].pc = "event", ![r].outcome = outcome]
  /\ UNCHANGED << backend, manager, box, ends, lost >>

\* A one-shot box exits when its turn is over, with code 1 unless it completed.
MayExit(r) ==
  IF run[r].turn \in OneShot /\ r # Cancellation /\ Running(run[r].box)
  THEN box' = [box EXCEPT ![run[r].box].exit =
                 IF run[r].outcome = "COMPLETED" THEN "exited" ELSE "crashed"]
  ELSE UNCHANGED box

\* The agent cannot be created or gives up, and no event is sent.
AgentFails(r) ==
  /\ run[r].pc = "running" /\ Fault("agent")
  /\ run' = [run EXCEPT ![r] = Over(r)]
  /\ MayExit(r)
  /\ UNCHANGED << backend, manager, lost >>

\* The manager forwards an event to the backend, which may fail to record it.
Forward(r) ==
  /\ run[r].pc = "event"
  /\ run' = [run EXCEPT ![r].pc = "forwarded"]
  /\ \/ turn' = Applied(run[r].turn, run[r].outcome, run[r].box) /\ UNCHANGED ends
     \/ Fault("backend") /\ UNCHANGED turn
  /\ UNCHANGED << user, swept, manager, box, lost >>

\* The manager does not answer: the box sends the event again, or gives up.
ForwardFails(r) ==
  /\ run[r].pc = "event" /\ Fault("callback")
  /\ \/ /\ turn' = Applied(run[r].turn, run[r].outcome, run[r].box)
        /\ UNCHANGED << run, box >>
     \/ run' = [run EXCEPT ![r] = Over(r)] /\ MayExit(r) /\ UNCHANGED turn
  /\ UNCHANGED << user, swept, manager, lost >>

\* The second half of the manager's callback handler.
Cleanup(r) ==
  /\ run[r].pc = "forwarded"
  /\ run' = [run EXCEPT ![r] = Over(r)]
  /\ RemoveEntry(run[r].turn) /\ MayExit(r)
  /\ UNCHANGED << backend, queue, consumer, checker, ends >>

InBox(t, b) == \E r \in DOMAIN run : run[r].turn = t /\ run[r].box = b
                                       /\ run[r].pc \in {"running", "event"}

Awaited(t, b) == \E c \in Consumers : /\ consumer[c].pc = "dispatch"
                                      /\ consumer[c].msg.turn = t /\ consumer[c].box = b

\* The box takes a turn that came in the meantime with it, or is about to come.
ExitBox(b) ==
  /\ Running(b) /\ box[b].exit # "no"
  /\ Stopped(b, box[b].exit)
  /\ lost' = lost \cup {t \in Turns : Unfinished(t) /\ (InBox(t, b) \/ Awaited(t, b))}
  /\ UNCHANGED << backend, manager, ends >>

BoxCrash(b) ==
  /\ Running(b) /\ Incident
  /\ Stopped(b, "crashed")
  /\ UNCHANGED << backend, manager, lost >>

-----------------------------------------------------------------------------
(* The user cancels; the scheduled deletion sweeps old boxes.               *)

RequestCancel(t) ==
  /\ user = "idle" /\ Unfinished(t) /\ Incident
  /\ user' = "cancel"
  /\ UNCHANGED << turn, swept, manager, boxes, lost >>

\* cancel_task takes the first running box of the task, whatever turn was
\* meant: its runs stop, and its event carries the turn of the agent's emitter.
CancelInBox(b) ==
  LET hit == {r \in Runs : run[r].box = b /\ run[r].pc = "running"}
  IN  /\ user = "cancel" /\ Running(b) /\ box[b].turn # NoTurn
      /\ run[Cancellation].pc \in {"free", "over"}
      /\ run' = [r \in DOMAIN run |->
           IF r = Cancellation
           THEN [pc |-> "event", turn |-> box[b].turn, box |-> b,
                 outcome |-> "CANCELLED"]
           ELSE IF r \in hit THEN Over(r) ELSE run[r]]
      /\ box' = IF \E r \in hit : run[r].turn \in OneShot
                THEN [box EXCEPT ![b].exit = "crashed"] ELSE box
      /\ lost' = lost \cup ({run[r].turn : r \in hit} \ {box[b].turn})
      /\ user' = "cleanup"
      /\ UNCHANGED << turn, swept, manager, ends >>

\* No box runs, or the one that is found has no agent session yet.
CancelFails ==
  /\ user = "cancel"
  /\ \/ \A b \in Turns : ~Running(b)
     \/ \E b \in Turns : Running(b) /\ box[b].turn = NoTurn
  /\ user' = "idle"
  /\ UNCHANGED << turn, swept, manager, boxes, ends, lost >>

\* /v1/cancel removes the entry without waiting for the event.
CancelCleanup ==
  /\ user = "cleanup"
  /\ RemoveEntry(NoTurn)
  /\ user' = "idle"
  /\ UNCHANGED << turn, swept, queue, consumer, checker, boxes, ends >>

\* The newest turn of the task: its status is the task's.
Newest(t) == turn[t].status # "NONE" /\ \A u \in Turns : u > t => turn[u].status = "NONE"

ChooseBox(b) ==
  /\ swept = NoBox /\ Exists(b) /\ Incident
  /\ \E t \in Turns : turn[t].status \in Terminal /\ turn[t].box = b
  /\ \A t \in Turns : Newest(t) => turn[t].status \in Terminal
  /\ swept' = b
  /\ UNCHANGED << turn, user, manager, boxes, lost >>

\* The box is deleted with whatever came to run in it since it was chosen.
DeleteBox ==
  /\ swept # NoBox
  /\ IF Exists(swept) THEN Stopped(swept, "gone") /\ RemoveEntry(NoTurn)
     ELSE UNCHANGED << boxes, tracked, lost >>
  /\ swept' = NoBox
  /\ UNCHANGED << turn, user, queue, consumer, checker, ends >>

-----------------------------------------------------------------------------
(* The heartbeat checker.  Heartbeats are per task: any running box of the  *)
(* task sends them, so the entry is looked at when none runs, or when they   *)
(* were missed.                                                             *)

IdleCheck == [pc |-> "idle", turn |-> NoTurn, box |-> NoBox]

CheckHeartbeats(k) ==
  /\ checker[k].pc = "idle" /\ tracked # NotTracked
  /\ \/ (\A b \in Turns : ~Running(b)) /\ UNCHANGED ends
     \/ Incident
  /\ checker' = [checker EXCEPT ![k] = [pc |-> "inspect", turn |-> tracked.turn,
                                        box |-> tracked.box]]
  /\ UNCHANGED << backend, queue, consumer, tracked, boxes, lost >>

\* Mutant: the exit code of a box that stopped is not looked at.
InspectIgnoresExitCode(k) ==
  LET b == checker[k].box
  IN  /\ checker[k].pc = "inspect"
      /\ \/ /\ Running(b) /\ UNCHANGED << tracked, lost >>
            /\ checker' = [checker EXCEPT ![k] = IdleCheck]
         \/ /\ box[b].state \in {"exited", "crashed"} /\ RemoveEntry(checker[k].turn)
            /\ checker' = [checker EXCEPT ![k] = IdleCheck]
         \/ /\ ~Exists(b) /\ UNCHANGED << tracked, lost >>
            /\ checker' = [checker EXCEPT ![k].pc = "report"]
      /\ UNCHANGED << backend, queue, consumer, boxes, ends >>

\* Mutant: a missed heartbeat is enough, docker is not asked.
InspectTrustsHeartbeat(k) ==
  /\ checker[k].pc = "inspect"
  /\ checker' = [checker EXCEPT ![k].pc = "report"]
  /\ UNCHANGED << backend, queue, consumer, tracked, boxes, ends, lost >>

\* _handle_task_dead: a box that runs is left alone, one that exited with code 0
\* loses its entry, and everything else is reported.  For a box that is gone the
\* status is first asked from an endpoint the backend does not have: no answer.
Inspect(k) ==
  LET b == checker[k].box
  IN  /\ checker[k].pc = "inspect"
      /\ \/ /\ Running(b) /\ UNCHANGED << tracked, lost >>
            /\ checker' = [checker EXCEPT ![k] = IdleCheck]
         \/ /\ box[b].state = "exited" /\ RemoveEntry(checker[k].turn)
            /\ checker' = [checker EXCEPT ![k] = IdleCheck]
         \/ /\ box[b].state = "crashed" \/ ~Exists(b)
            /\ UNCHANGED << tracked, lost >>
            /\ checker' = [checker EXCEPT ![k].pc = "report"]
      /\ UNCHANGED << backend, queue, consumer, boxes, ends >>

\* Docker does not answer, which is taken for a box that is gone.
InspectFails(k) ==
  /\ checker[k].pc = "inspect" /\ Fault("inspect")
  /\ checker' = [checker EXCEPT ![k].pc = "report"]
  /\ UNCHANGED << backend, queue, consumer, tracked, boxes, lost >>

Report(k) ==
  /\ checker[k].pc = "report"
  /\ checker' = [checker EXCEPT ![k].pc = "cleanup"]
  /\ \/ turn' = Applied(checker[k].turn, "FAILED", checker[k].box) /\ UNCHANGED ends
     \/ Fault("report") /\ UNCHANGED turn
  /\ UNCHANGED << user, swept, queue, consumer, tracked, boxes, lost >>

CheckerCleanup(k) ==
  /\ checker[k].pc = "cleanup"
  /\ checker' = [checker EXCEPT ![k] = IdleCheck]
  /\ RemoveEntry(checker[k].turn)
  /\ UNCHANGED << backend, queue, consumer, boxes, ends >>

-----------------------------------------------------------------------------
Init ==
  /\ turn = [t \in Turns |-> [status |-> "NONE", box |-> NoBox, send |-> "no"]]
  /\ queue = << >>
  /\ consumer = [c \in Consumers |-> IdleConsumer]
  /\ box = [b \in Turns |-> [state |-> "none", turn |-> NoTurn, exit |-> "no"]]
  /\ run = [r \in {Cancellation} \cup Runs |->
              [pc |-> "free", turn |-> NoTurn, box |-> NoBox, outcome |-> "none"]]
  /\ tracked = NotTracked
  /\ checker = [k \in Checkers |-> IdleCheck]
  /\ user = "idle"
  /\ swept = NoBox
  /\ faults = 0 /\ incidents = 0
  /\ lost = {}

SenderNext(t) == UpdateToRunning(t) \/ PostResponses(t)
ConsumerNext(c) ==
  \/ Dequeue(c) \/ ReportFailure(c) \/ SubmitToBox(c) \/ SubmitNew(c)
  \/ SubmitFails(c) \/ Dispatch(c) \/ DispatchFails(c) \/ Register(c)
CallbackNext(r) == Forward(r) \/ Cleanup(r)
CheckerNext(k) == CheckHeartbeats(k) \/ Inspect(k) \/ Report(k) \/ CheckerCleanup(k)

FaultNext ==
  \/ \E t \in Turns : PostRepeated(t) \/ PostFails(t) \/ SenderStops(t)
  \/ \E c \in Consumers : ProcessFails(c) \/ StartFails(c) \/ ConsumerStops(c)
  \/ \E r \in DOMAIN run : AgentFails(r) \/ ForwardFails(r)
  \/ \E b \in Turns : BoxCrash(b)
  \/ \E k \in Checkers : InspectFails(k)

UserNext ==
  \/ \E t \in Turns : CreateTurn(t) \/ RequestCancel(t)
  \/ \E b \in Turns : CancelInBox(b) \/ ChooseBox(b)
  \/ CancelFails \/ CancelCleanup \/ DeleteBox

Next ==
  \/ UserNext \/ FaultNext
  \/ \E t \in Turns : SenderNext(t)
  \/ \E c \in Consumers : ConsumerNext(c)
  \/ \E r \in DOMAIN run : EndRun(r) \/ CallbackNext(r)
  \/ \E b \in Turns : ExitBox(b)
  \/ \E k \in Checkers : CheckerNext(k)

Spec == Init /\ [][Next]_vars

\* The dispatcher, the consumers, the callbacks and the checks go on; that a
\* run ends, or that the user does anything, is not assumed.
FairSpec ==
  /\ Spec
  /\ WF_vars(\E t \in Turns : SenderNext(t))
  /\ WF_vars(\E c \in Consumers : ConsumerNext(c))
  /\ WF_vars(\E r \in DOMAIN run : CallbackNext(r))
  /\ WF_vars(\E k \in Checkers : CheckerNext(k))

-----------------------------------------------------------------------------
Messages == [turn : Turns \cup {NoTurn}, box : Turns \cup {NoBox}, retries : 0..MaxRequeues]

\* The shape of the state, and that every counter stays below its bound.
TypeOK ==
  /\ turn \in [Turns -> [status : {"NONE", "PENDING", "RUNNING"} \cup Terminal,
                         box : Turns \cup {NoBox},
                         send : {"no", "mark", "post", "done"}]]
  /\ queue \in Seq([turn : Turns, box : Turns \cup {NoBox}, retries : 0..MaxRequeues])
  /\ consumer \in [Consumers -> [pc : {"idle", "submit", "dispatch", "register", "report"},
                                 msg : Messages, box : Turns \cup {NoBox}, fresh : BOOLEAN]]
  /\ \A c \in Consumers : /\ consumer[c].pc # "idle" => consumer[c].msg.turn \in Turns
                          /\ consumer[c].pc \in {"dispatch", "register"} => consumer[c].box \in Turns
  /\ box \in [Turns -> [state : {"none", "running", "exited", "crashed", "gone"},
                        turn : Turns \cup {NoTurn}, exit : {"no", "exited", "crashed"}]]
  /\ run \in [{Cancellation} \cup Runs ->
                [pc : {"free", "running", "event", "forwarded", "over"},
                 turn : Turns \cup {NoTurn}, box : Turns \cup {NoBox},
                 outcome : Terminal \cup {"none"}]]
  /\ \A r \in DOMAIN run :
       /\ run[r].pc # "free" => run[r].turn \in Turns
       /\ run[r].pc \in {"running", "event", "forwarded"} => run[r].box \in Turns
       /\ run[r].pc \in {"event", "forwarded"} => run[r].outcome # "none"
  /\ tracked \in [turn : Turns, box : Turns] \cup {NotTracked}
  /\ checker \in [Checkers -> [pc : {"idle", "inspect", "report", "cleanup"},
                               turn : Turns \cup {NoTurn}, box : Turns \cup {NoBox}]]
  /\ \A k \in Checkers : checker[k].pc # "idle" => checker[k].turn \in Turns /\ checker[k].box \in Turns
  /\ user \in {"idle", "cancel", "cleanup"}
  /\ swept \in Turns \cup {NoBox}
  /\ faults \in 0..MaxFaults /\ incidents \in 0..MaxIncidents
  /\ lost \subseteq Turns

InQueue(t) == \E i \in DOMAIN queue : queue[i].turn = t
InHand(t) == \E c \in Consumers : consumer[c].pc # "idle" /\ consumer[c].msg.turn = t
InRun(t) == \E r \in DOMAIN run : run[r].turn = t /\ run[r].pc \in {"running", "event"}
InCheck(t) == \E k \in Checkers : checker[k].turn = t /\ checker[k].pc \in {"inspect", "report"}

\* The entry of turn t will make the checker report it.
WillBeReported(t) == tracked.turn = t /\ box[tracked.box].state \in {"crashed", "gone"}

\* Someone still holds turn t and will bring it to an end.
Attended(t) ==
  \/ turn[t].send \in {"mark", "post"}
  \/ InQueue(t) \/ InHand(t) \/ InRun(t) \/ InCheck(t) \/ WillBeReported(t)

Forgotten == {t \in Turns : Unfinished(t) /\ ~Attended(t)}

\* A turn shown as PENDING or RUNNING that nobody holds any more can be traced to
\* a fault, or to the one entry per task: another turn, a cancel or a sweep took
\* the entry or the box it relied on.  Queueing, dispatch, execution, callbacks
\* and the deaths of boxes, in any order, lose no other turn.
ForgottenBounded == Cardinality(Forgotten \ lost) <= faults

Executions(t) == {r \in Runs : run[r].turn = t}

\* A turn is executed once, and again only for an answer that was lost: neither
\* the requeues nor the recreation of boxes repeat a turn.
ExecutedOncePerFault == \A t \in Turns : Cardinality(Executions(t)) <= 1 + faults

\* The heartbeat checker never fails a turn that is running in a live box, however
\* its check interleaves with dispatch and callbacks, if docker answers it and no
\* other consumer has made a new box of that name for another turn since.
NoLiveTurnFailed ==
  [][\A k \in Checkers :
       Report(k) /\ faults' = 0 /\ checker[k].turn \notin lost
         /\ Unfinished(checker[k].turn)
       => \A r \in Runs : run[r].turn = checker[k].turn => run[r].pc # "running"]_vars

\* The entry of turn t names a dead box, but another box of the task sends the
\* heartbeats of the task.
Masked(t) == tracked.turn = t /\ ~Running(tracked.box) /\ \E b \in Turns : Running(b)

\* Without faults every turn is settled, or goes on running in its box, or has lost
\* its entry: the checker catches every box that dies, unless another box of the
\* task keeps its heartbeat alive.
EveryTurnAttended ==
  \A t \in Turns :
    Unfinished(t) ~> \/ turn[t].status \in Terminal
                     \/ InRun(t) \/ Masked(t)
                     \/ t \in lost \/ faults > 0

\* _process_task_with_retry promises that a task whose processing failed is
\* requeued, or marked FAILED when it was requeued often enough.
FailedSubmissionIsKept ==
  [][\A c \in Consumers :
       SubmitFails(c) => \/ InQueue(consumer[c].msg.turn)'
                         \/ consumer'[c].pc = "report"]_vars
=============================================================================
