----------------------------- MODULE LocalDevice -----------------------------
(***************************************************************************)
(* One local device of one user, and one conversation that is executed on  *)
(* it: the device's process and its connections, the backend's sessions    *)
(* and the online key, the dispatch of turns into the device's room, the   *)
(* runs in the device, the events they send back, and the monitor.         *)
(*                                                                         *)
(* A step is what a process does between two awaits.  Messages travel at   *)
(* once or are lost with their connection: the backend cannot tell one     *)
(* that was lost on the way from one that was sent to a dead connection.   *)
(***************************************************************************)
EXTENDS Integers

CONSTANTS
  MaxTurns,        \* bound: messages sent in the conversation
  MaxRetries,      \* bound: retries of a turn
  MaxConnections,  \* bound: connections the device makes
  MaxTrouble       \* bound: failures, restarts of the backend, other users

ASSUME DeviceBoundsAssumption ==
  /\ {MaxTurns, MaxConnections} \subseteq Nat \ {0}
  /\ {MaxRetries, MaxTrouble} \subseteq Nat

Turns == 1..MaxTurns
Attempts == 0..MaxRetries
Runs == Turns \X Attempts
Connections == 1..MaxConnections
None == << >>

VARIABLES
  up,         \* the process of the device
  known,      \* _was_registered: this process was registered once
  conn,       \* the connection it holds, 0 if none
  made,       \* connections made so far
  sess,       \* the backend's session of each connection
  key,        \* the online key in Redis
  status,     \* status of the subtask of each turn
  owned,      \* the turns whose executor_name is the device
  attempt,    \* how often each turn was retried
  dispatch,   \* where the dispatch of each attempt at a turn stands
  run,        \* the runs in the device
  slot,       \* _running_tasks: the run that the conversation's entry names
  report,     \* the terminal event that a handler is about to write
  todo,       \* the monitor: turns that are still to be looked at
  doomed,     \* the monitor: rows that its commit will write
  cut,        \* history: turns that were failed, or sent once more, while the
              \* device may still have had them
  forsaken,   \* history: turns that nobody may hear of any more
  overlapped, \* history: two runs have been executed at the same time
  trouble     \* failures, restarts and other users so far

device == << up, known, conn, made >>
online == << sess, key >>
turn == << status, owned, attempt, dispatch >>
work == << run, slot, report >>
monitor == << todo, doomed >>
history == << cut, forsaken, overlapped >>
vars == << device, online, turn, work, monitor, history, trouble >>

Outcomes == {"completed", "failed", "cancelled"}

Init ==
  /\ up = FALSE /\ known = FALSE /\ conn = 0 /\ made = 0
  /\ sess = [c \in Connections |-> "none"] /\ key = FALSE
  /\ status = [t \in Turns |-> "new"] /\ owned = {}
  /\ attempt = [t \in Turns |-> 0] /\ dispatch = [r \in Runs |-> "idle"]
  /\ run = [r \in Runs |-> "none"] /\ slot = None
  /\ report = [t \in Turns |-> "none"]
  /\ todo = {} /\ doomed = {}
  /\ cut = {} /\ forsaken = {} /\ overlapped = FALSE /\ trouble = 0

Troubled == trouble < MaxTrouble /\ trouble' = trouble + 1

\* The connection that the device holds is registered, and in the device's room.
Live == conn # 0 /\ sess[conn] = "registered"

Executing == {r \in Runs : run[r] \in {"running", "stopping"}}
Active == {r \in Runs : run[r] \in {"queued", "running", "stopping"}}

\* Turns are called failed without word from the device.
Fail(T) == /\ status' = [t \in Turns |-> IF t \in T THEN "failed" ELSE status[t]]
           /\ cut' = cut \cup T

-----------------------------------------------------------------------------
(* The device's connection. *)

\* The process ends, and everything it was doing with it.
Exit == /\ up' = FALSE /\ known' = FALSE /\ conn' = 0
        /\ run' = [r \in Runs |-> IF r \in Active THEN "ended" ELSE run[r]]
        /\ slot' = None

DeviceStops ==
  /\ up /\ Exit
  /\ UNCHANGED << made, online, turn, report, monitor, history, trouble >>

\* The connection is there and device:register has been sent on it: by start()
\* for a new process, by the connect handler after that.
DeviceConnects ==
  /\ conn = 0 /\ made < MaxConnections
  /\ up' = TRUE
  /\ made' = made + 1 /\ conn' = made'
  /\ sess' = [sess EXCEPT ![made'] = "asked"]
  /\ UNCHANGED << known, key, turn, work, monitor, history, trouble >>

\* The device loses its connection; the backend does not know yet.  One that was
\* never registered gives up.
LinkBreaks ==
  /\ conn # 0
  /\ IF known THEN conn' = 0 /\ UNCHANGED << up, known, run, slot >> ELSE Exit
  /\ UNCHANGED << made, online, turn, report, monitor, history, trouble >>

-----------------------------------------------------------------------------
(* DeviceNamespace. *)

\* on_device_register: the device record, then the online key.
RegisterSetsOnline(c) ==
  /\ sess[c] = "asked"
  /\ sess' = [sess EXCEPT ![c] = "keyed"]
  /\ key' = TRUE
  /\ UNCHANGED << device, turn, work, monitor, history, trouble >>

\* The session, the room and the answer.
RegisterSaves(c) ==
  /\ sess[c] = "keyed"
  /\ sess' = [sess EXCEPT ![c] = "registered"]
  /\ known' = (known \/ conn = c)
  /\ UNCHANGED << up, conn, made, key, turn, work, monitor, history, trouble >>

\* The record cannot be written.  A device that was registered before logs this
\* and keeps its connection; it does not ask again.
RegisterFails(c) ==
  /\ sess[c] = "asked"
  /\ Troubled
  /\ sess' = [sess EXCEPT ![c] = "refused"]
  /\ IF conn = c /\ ~known
       THEN Exit /\ UNCHANGED made
       ELSE UNCHANGED << device, run, slot >>
  /\ UNCHANGED << key, turn, report, monitor, history >>

\* Mutant: a heartbeat prolongs the key and does not write a new one.
HeartbeatRefreshes == Live /\ key /\ UNCHANGED vars

\* on_device_heartbeat, for a session that was registered: the key is written,
\* whether it was found or not.
Heartbeat ==
  /\ Live /\ ~key
  /\ key' = TRUE
  /\ UNCHANGED << device, sess, turn, work, monitor, history, trouble >>

\* A heartbeat that read the key before on_disconnect deleted it writes it after.
HeartbeatOvertaken(c) ==
  /\ sess[c] = "closing" /\ ~key
  /\ key' = TRUE
  /\ UNCHANGED << device, sess, turn, work, monitor, history, trouble >>

\* on_disconnect: the key goes, whichever connection wrote it.
DisconnectNoticed(c) ==
  /\ conn # c
  /\ sess[c] \in {"asked", "keyed", "refused", "registered"}
  /\ IF sess[c] = "registered"
       THEN sess' = [sess EXCEPT ![c] = "closing"] /\ key' = FALSE
       ELSE sess' = [sess EXCEPT ![c] = "gone"] /\ UNCHANGED key
  /\ UNCHANGED << device, turn, work, monitor, history, trouble >>

RunningHere == {t \in owned : status[t] = "running"}

\* Mutant: the turns of the device are failed whatever their status.
FailOwned(c) ==
  /\ sess[c] = "closing"
  /\ sess' = [sess EXCEPT ![c] = "gone"]
  /\ status' = [t \in Turns |-> IF t \in owned THEN "failed" ELSE status[t]]
  /\ cut' = cut \cup RunningHere
  /\ UNCHANGED << device, key, owned, attempt, dispatch, work, monitor,
                  forsaken, overlapped, trouble >>

\* Mutant: the turns are left to the monitor.
FailNothing(c) ==
  /\ sess[c] = "closing"
  /\ sess' = [sess EXCEPT ![c] = "gone"]
  /\ UNCHANGED << device, key, turn, work, monitor, history, trouble >>

\* _handle_device_disconnect: every RUNNING turn of the device, also one that was
\* dispatched to a later connection.  An exception is logged and forgotten.
DisconnectHandled(c) ==
  /\ sess[c] = "closing"
  /\ sess' = [sess EXCEPT ![c] = "gone"]
  /\ \/ /\ Fail(RunningHere)
        /\ UNCHANGED << forsaken, trouble >>
     \/ /\ Troubled /\ forsaken' = forsaken \cup RunningHere
        /\ UNCHANGED << status, cut >>
  /\ UNCHANGED << device, key, owned, attempt, dispatch, work, monitor, overlapped >>

\* The same, for another user whose device has the same id: the query does not
\* ask whose turn it is.
StrangerDisconnects ==
  /\ Troubled
  /\ RunningHere # {}
  /\ Fail(RunningHere)
  /\ UNCHANGED << device, online, owned, attempt, dispatch, work, monitor,
                  forsaken, overlapped >>

\* Three heartbeats are missed.
KeyExpires ==
  /\ key
  /\ IF Live THEN Troubled ELSE UNCHANGED trouble
  /\ key' = FALSE
  /\ UNCHANGED << device, sess, turn, work, monitor, history >>

-----------------------------------------------------------------------------
(* Dispatch. *)

\* The next turn of the conversation.  check_task_status refuses it while the
\* task, that is, its latest turn, is RUNNING.
MayFollow(t) ==
  /\ status[t] = "new"
  /\ \A u \in Turns : u < t => status[u] # "new" /\ (u = t - 1 => status[u] # "running")

\* chat:send; nobody asks whether the device is online.
Send(t) ==
  /\ MayFollow(t)
  /\ status' = [status EXCEPT ![t] = "pending"]
  /\ dispatch' = [dispatch EXCEPT ![<< t, 0 >>] = "begun"]
  /\ UNCHANGED << device, online, owned, attempt, work, monitor, history, trouble >>

\* A messenger channel: the turn is created, and route_task_to_device claims it
\* if the device is online; if not, the row stays PENDING.
SendFromChannel(t) ==
  /\ MayFollow(t)
  /\ status' = [status EXCEPT ![t] = "pending"]
  /\ dispatch' = [dispatch EXCEPT ![<< t, 0 >>] = "routing"]
  /\ UNCHANGED << device, online, owned, attempt, work, monitor, history, trouble >>

RouteToDevice(r) ==
  /\ dispatch[r] = "routing"
  /\ IF key
       THEN /\ status' = [status EXCEPT ![r[1]] = "running"]
            /\ owned' = owned \cup {r[1]}
            /\ dispatch' = [dispatch EXCEPT ![r] = "begun"]
       ELSE dispatch' = [dispatch EXCEPT ![r] = "idle"] /\ UNCHANGED << status, owned >>
  /\ UNCHANGED << device, online, attempt, work, monitor, history, trouble >>

\* A window that has shown the turn's failure offers to retry it, for as long as
\* nothing newer has reached that window.
Shown == {t \in Turns : status[t] = "failed" \/ attempt[t] > 0 \/ t \in cut}

\* Mutant: also a turn that has not failed can be retried.
RetryAny(t) ==
  /\ status[t] # "new" /\ attempt[t] < MaxRetries
  /\ status' = [status EXCEPT ![t] = "pending"]
  /\ attempt' = [attempt EXCEPT ![t] = @ + 1]
  /\ dispatch' = [dispatch EXCEPT ![<< t, attempt'[t] >>] = "begun"]
  /\ UNCHANGED << device, online, owned, work, monitor, history, trouble >>

\* chat:retry, whatever the status of the turn is by now.
Retry(t) ==
  /\ t \in Shown /\ attempt[t] < MaxRetries
  /\ status' = [status EXCEPT ![t] = "pending"]
  /\ cut' = IF status[t] = "failed" THEN cut ELSE cut \cup {t}
  /\ attempt' = [attempt EXCEPT ![t] = @ + 1]
  /\ dispatch' = [dispatch EXCEPT ![<< t, attempt'[t] >>] = "begun"]
  /\ UNCHANGED << device, online, owned, work, monitor, forsaken, overlapped, trouble >>

\* _update_subtask_to_running.
DispatchRuns(r) ==
  /\ dispatch[r] = "begun"
  /\ status' = [status EXCEPT ![r[1]] = "running"]
  /\ dispatch' = [dispatch EXCEPT ![r] = "runs"]
  /\ UNCHANGED << device, online, owned, attempt, work, monitor, history, trouble >>

\* _set_subtask_executor.
DispatchClaims(r) ==
  /\ dispatch[r] = "runs"
  /\ owned' = owned \cup {r[1]}
  /\ dispatch' = [dispatch EXCEPT ![r] = "claimed"]
  /\ UNCHANGED << device, online, status, attempt, work, monitor, history, trouble >>

\* The emit into the device's room, which reaches whoever is there.
DispatchEmits(r) ==
  /\ dispatch[r] = "claimed"
  /\ dispatch' = [dispatch EXCEPT ![r] = "idle"]
  /\ IF Live
       THEN run' = [run EXCEPT ![r] = "queued"] /\ UNCHANGED forsaken
       ELSE forsaken' = forsaken \cup {r[1]} /\ UNCHANGED run
  /\ UNCHANGED << device, online, status, owned, attempt, slot, report, monitor,
                  cut, overlapped, trouble >>

\* The emit raises, and the turn is failed.
DispatchFails(r) ==
  /\ dispatch[r] = "claimed"
  /\ Troubled
  /\ status' = [status EXCEPT ![r[1]] = "failed"]
  /\ dispatch' = [dispatch EXCEPT ![r] = "idle"]
  /\ UNCHANGED << device, online, owned, attempt, work, monitor, history >>

-----------------------------------------------------------------------------
(* LocalRunner. *)

\* Mutant: the entry of the first run is kept.
TaskStartsKeeping(r) ==
  /\ run[r] = "queued"
  /\ run' = [run EXCEPT ![r] = "running"]
  /\ slot' = IF slot = None /\ Executing # {} THEN r ELSE slot
  /\ overlapped' = (overlapped \/ Executing # {})
  /\ UNCHANGED << device, online, turn, report, monitor, cut, forsaken, trouble >>

\* _task_loop: the entry of the task names the new run, whatever it named.
TaskStarts(r) ==
  /\ run[r] = "queued"
  /\ run' = [run EXCEPT ![r] = "running"]
  /\ slot' = r
  /\ overlapped' = (overlapped \/ Executing # {})
  /\ UNCHANGED << device, online, turn, report, monitor, cut, forsaken, trouble >>

\* chat:cancel, as far as cancel_task.
Cancel(t) ==
  /\ t \in owned /\ status[t] \in {"pending", "running"}
  /\ Live /\ slot # None /\ run[slot] = "running"
  /\ run' = [run EXCEPT ![slot] = "stopping"]
  /\ UNCHANGED << device, online, turn, slot, report, monitor, history, trouble >>

\* task:close-session, as far as close_task_session.
CloseSession ==
  /\ Live /\ slot \in Executing
  /\ run' = [run EXCEPT ![slot] = "stopping"]
  /\ slot' = None
  /\ UNCHANGED << device, online, turn, report, monitor, history, trouble >>

\* A run ends, with its last event.  The event is lost if there is no connection,
\* and refused if its session is not registered; _run_task_wrapper removes the
\* entry of the task.
TaskEnds(r, o) ==
  /\ r \in Executing
  /\ o = "cancelled" => run[r] = "stopping"
  /\ run' = [run EXCEPT ![r] = "ended"]
  /\ slot' = None
  /\ IF Live
       THEN report[r[1]] = "none" /\ report' = [report EXCEPT ![r[1]] = o]
       ELSE UNCHANGED report
  /\ UNCHANGED << device, online, turn, monitor, history, trouble >>

\* Mutant: the event is forgotten first.
EventForgotten(t) ==
  /\ report[t] # "none"
  /\ report' = [report EXCEPT ![t] = "none"]
  /\ status' = [status EXCEPT ![t] = report'[t]]
  /\ UNCHANGED << device, online, owned, attempt, dispatch, run, slot, monitor,
                  history, trouble >>

\* _handle_responses_api_event, under the lock of the subtask: the outcome is
\* written whatever the row says.
EventHandled(t) ==
  /\ report[t] # "none"
  /\ status' = [status EXCEPT ![t] = report[t]]
  /\ report' = [report EXCEPT ![t] = "none"]
  /\ UNCHANGED << device, online, owned, attempt, dispatch, run, slot, monitor,
                  history, trouble >>

-----------------------------------------------------------------------------
(* The monitor, and restarts of the backend. *)

\* check_and_mark_failed_subtasks: the rows are read once,
MonitorReads ==
  /\ todo = {} /\ doomed = {} /\ RunningHere # {}
  /\ todo' = RunningHere
  /\ UNCHANGED << device, online, turn, work, doomed, history, trouble >>

\* Mutant: the rows are not written.
MonitorSkips(t) ==
  /\ t \in todo
  /\ todo' = todo \ {t}
  /\ UNCHANGED << device, online, turn, work, doomed, history, trouble >>

\* each is looked at by itself, and its error is sent, which writes FAILED,
MonitorChecks(t) ==
  /\ t \in todo
  /\ todo' = todo \ {t}
  /\ IF key
       THEN UNCHANGED << status, cut, doomed >>
       ELSE Fail({t}) /\ doomed' = doomed \cup {t}
  /\ UNCHANGED << device, online, owned, attempt, dispatch, work, forsaken,
                  overlapped, trouble >>

\* and the commit writes FAILED once more, whatever the rows say by then.
MonitorCommits ==
  /\ todo = {} /\ doomed # {}
  /\ Fail(doomed) /\ doomed' = {}
  /\ UNCHANGED << device, online, owned, attempt, dispatch, work, todo, forsaken,
                  overlapped, trouble >>

\* Connections break and no handler runs; the key stays.
BackendRestarts ==
  /\ Troubled
  /\ forsaken' = forsaken \cup {t \in Turns : status[t] = "running"}
  /\ sess' = [c \in Connections |-> IF sess[c] = "none" THEN "none" ELSE "gone"]
  /\ dispatch' = [r \in Runs |-> "idle"]
  /\ report' = [t \in Turns |-> "none"]
  /\ todo' = {} /\ doomed' = {}
  /\ IF known \/ conn = 0 THEN conn' = 0 /\ UNCHANGED << up, known, run, slot >>
                          ELSE Exit
  /\ UNCHANGED << made, key, status, owned, attempt, cut, overlapped >>

-----------------------------------------------------------------------------
RegisterStep(c) == RegisterSetsOnline(c) \/ RegisterSaves(c) \/ RegisterFails(c)
DisconnectStep(c) == DisconnectNoticed(c) \/ DisconnectHandled(c)
DispatchStep(r) == \/ RouteToDevice(r) \/ DispatchRuns(r) \/ DispatchClaims(r)
                   \/ DispatchEmits(r) \/ DispatchFails(r)
MonitorStep == \/ MonitorReads \/ MonitorCommits
               \/ \E t \in Turns : MonitorChecks(t)
BackendStep == \/ \E c \in Connections : RegisterStep(c) \/ DisconnectStep(c)
               \/ \E r \in Runs : DispatchStep(r)
               \/ \E t \in Turns : EventHandled(t)
RunStep(r) == TaskStarts(r) \/ \E o \in Outcomes : TaskEnds(r, o)

Next ==
  \/ DeviceStops \/ DeviceConnects \/ LinkBreaks
  \/ BackendStep
  \/ \E c \in Connections : HeartbeatOvertaken(c)
  \/ Heartbeat \/ StrangerDisconnects \/ KeyExpires
  \/ \E t \in Turns : \/ Send(t) \/ SendFromChannel(t) \/ Retry(t)
                      \/ Cancel(t)
  \/ \E r \in Runs : RunStep(r)
  \/ CloseSession \/ MonitorStep \/ BackendRestarts

Spec == Init /\ [][Next]_vars

\* The backend handles what it has been sent and notices dead connections, the
\* device sends heartbeats, runs end, keys without heartbeats expire, and the
\* monitor runs again and again.
Fairness ==
  /\ WF_vars(BackendStep) /\ WF_vars(\E r \in Runs : RunStep(r))
  /\ WF_vars(Heartbeat) /\ WF_vars(MonitorStep) /\ WF_vars(~Live /\ KeyExpires)

FairSpec == Spec /\ Fairness

-----------------------------------------------------------------------------
(* Properties. *)

Statuses == {"new", "pending", "running"} \cup Outcomes

TypeOK ==
  /\ {up, known, key, overlapped} \subseteq BOOLEAN
  /\ {conn, made} \subseteq 0..MaxConnections
  /\ sess \in [Connections -> {"none", "asked", "keyed", "refused", "registered",
                               "closing", "gone"}]
  /\ status \in [Turns -> Statuses] /\ owned \subseteq Turns
  /\ attempt \in [Turns -> Attempts]
  /\ dispatch \in [Runs -> {"idle", "routing", "begun", "runs", "claimed"}]
  /\ run \in [Runs -> {"none", "queued", "running", "stopping", "ended"}]
  /\ slot \in Runs \cup {None}
  /\ report \in [Turns -> Outcomes \cup {"none"}]
  /\ {todo, doomed, cut, forsaken} \subseteq SUBSET Turns
  /\ trouble \in 0..MaxTrouble

Turn == INSTANCE ChatTurn WITH Turns <- Turns, status <- status, cut <- cut,
                               failed <- Shown, suspected <- todo \cup doomed

\* The conversation keeps the promises of a chat turn, whatever happens to the
\* connections, the events and the backend.
KeepsTurns == Turn!Spec

\* A turn that is over and still goes on in the device, or goes on twice, was
\* cut off: nothing else makes the backend forget what the device is doing.
OverMeansOver ==
  \A r, q \in Active :
    r[1] \notin cut => status[r[1]] = "running" /\ (q[1] = r[1] => q = r)

\* As long as no two runs have overlapped, the entry of the task names the run
\* in progress, so that a cancel reaches it; a session that was closed ends.
CancelReaches ==
  ~overlapped =>
    \A r \in Executing : slot = r \/ run[r] = "stopping"

\* A device that is connected and registered is online, or will be again: also
\* after an old connection's late end took the key away (on_device_heartbeat,
\* "Heartbeat recovery").
OnlineAgain == (Live /\ ~key) ~> (key \/ ~Live)

\* A turn ends, whatever happens to the device; unless its dispatch found nobody
\* in the room, or it was RUNNING when the backend was restarted or when the
\* handler of a disconnection could not write.
TurnSettles ==
  \A t \in Turns :
    status[t] = "running" ~> status[t] # "running" \/ t \in forsaken

\* A turn of a device that is offline does not stay RUNNING
\* (check_and_mark_failed_subtasks).
OfflineFails ==
  \A t \in Turns :
    (t \in RunningHere /\ ~key) ~> (t \notin RunningHere \/ key)

\* device_monitor: "This monitor checks for orphaned running subtasks and marks
\* them failed".  A RUNNING turn that the device does not have, and has no event
\* for, does not stay RUNNING.
OrphanMarked ==
  \A t \in Turns :
    LET orphan == /\ status[t] = "running" /\ report[t] = "none"
                  /\ \A r \in Runs : r[1] = t => dispatch[r] = "idle" /\ r \notin Active
    IN  orphan ~> ~orphan
=============================================================================
