--------------------------- MODULE TaskStateMachine ---------------------------
(***************************************************************************)
(* One task shown in one browser window: the events the backend emits into *)
(* the task's room while turns are executed, the handler of task:join, the *)
(* socket between them, and the window's TaskStateMachine, which keeps the *)
(* messages, joins the room and recovers what it missed.                   *)
(*                                                                         *)
(* The text of an answer is the sequence of the numbers of its chunks.     *)
(* Turn n has the message ids 2n - 1 (the user's) and 2n (the agent's).    *)
(***************************************************************************)
EXTENDS Integers, Sequences

CONSTANTS
  OldTurns,       \* turns that were over long before
  MaxTurns,       \* bound: turns of the task
  MaxChunks,      \* bound: pieces of text of a turn
  MaxRecoveries,  \* bound: recoveries asked for (page visible again, end of a stream)
  MaxBreaks       \* bound: times the connection breaks

ASSUME StreamBoundsAssumption ==
  /\ {MaxTurns, MaxChunks} \subseteq Nat \ {0}
  /\ {OldTurns, MaxRecoveries, MaxBreaks} \subseteq Nat
  /\ OldTurns <= MaxTurns

Turns == 1..MaxTurns
Joins == 1..(1 + MaxRecoveries + MaxBreaks)

VARIABLES
  turn,        \* the backend's side of each turn
  mark,        \* task_streaming_status in Redis: the streaming turn, or 0
  link,        \* the window's socket is connected
  room,        \* the connection is in the task's room
  rejoin,      \* a task:join whose answer is ignored is on its way
  wire,        \* what the server has sent on the connection, in order
  join,        \* the task:join requests of the state machine
  win,         \* the state machine of the window
  recoveries,  \* recoveries asked for so far
  breaks,      \* breaks so far
  missed,      \* history: turns of which an event was lost after their message was shown
  stale,       \* history: turns an answer called running, without their text, after their end
  hasty,       \* history: a start or an error arrived before or during a join
  cut          \* history: the connection broke during a join

backend == << turn, mark >>
net == << link, room, rejoin, wire >>
history == << missed, stale, hasty, cut >>
vars == << backend, net, join, win, recoveries, breaks, history >>

Outcomes == {"completed", "failed", "cancelled"}
TurnStatuses == {"none", "pending", "running"} \cup Outcomes
EventKinds == {"start", "chunk", "done", "error", "cancelled"}
EndEvent(outcome) == CASE outcome = "completed" -> "done"
                       [] outcome = "failed" -> "error"
                       [] OTHER -> "cancelled"
NoTurn == [status |-> "none", said |-> 0, begun |-> FALSE, cleaned |-> FALSE, out |-> "none"]
OldTurn == [status |-> "completed", said |-> MaxChunks, begun |-> TRUE, cleaned |-> TRUE,
            out |-> "none"]
NoMessage == [status |-> "none", text |-> << >>, numbered |-> FALSE]
NoJoin == [at |-> "idle", after |-> 0, rows |-> [n \in Turns |-> "none"], inner |-> FALSE,
           info |-> [turn |-> 0, len |-> 0]]
\* The pending chunks, kept per turn: a chunk goes to the message of its turn.
NoChunks == [n \in Turns |-> << >>]
Event(kind, n, at) == [kind |-> kind, turn |-> n, at |-> at]
UpTo(k) == [i \in 1..k |-> i]
Over(n) == turn[n].status \in Outcomes
Shown(n) == win.msg[n].status # "none"

\* taskContext may have joined the room already.
Init ==
  /\ turn = [n \in Turns |-> IF n <= OldTurns THEN OldTurn ELSE NoTurn]
  /\ mark = 0
  /\ link = TRUE /\ room \in BOOLEAN /\ rejoin = FALSE /\ wire = << >>
  /\ join = [j \in Joins |-> NoJoin]
  /\ win = [status |-> "idle", msg |-> [n \in Turns |-> NoMessage], streaming |-> 0,
            queued |-> NoChunks, again |-> FALSE, read |-> 0]
  /\ recoveries = 0 /\ breaks = 0
  /\ missed = {} /\ stale = {} /\ hasty = FALSE /\ cut = FALSE

(***************************************************************************)
(* The backend: the turns and the events of StatusUpdatingEmitter          *)
(***************************************************************************)

\* A message is sent from this window, whose connection chat:send puts into
\* the room, or from elsewhere before the window shows the task.
Send(n) ==
  /\ turn[n].status = "none" /\ \A m \in 1..(n - 1) : Over(m)
  /\ turn' = [turn EXCEPT ![n].status = "pending"]
  /\ \/ /\ link /\ win.status # "idle"
        /\ win' = [win EXCEPT !.read = n]
        /\ room' = TRUE
     \/ /\ win.status = "idle"
        /\ UNCHANGED << win, room >>
  /\ UNCHANGED << mark, link, rejoin, wire, join, recoveries, breaks, history >>

\* The dispatcher marks the turn RUNNING before it hands it over.
DispatchTurn(n) ==
  /\ turn[n].status = "pending"
  /\ turn' = [turn EXCEPT ![n].status = "running"]
  /\ UNCHANGED << mark, net, join, win, recoveries, breaks, history >>

\* emit writes its part of Redis or of the database first and sends the
\* event into the room afterwards (Emit).
Start(n) ==
  /\ turn[n].status = "running" /\ ~turn[n].begun
  /\ mark' = n
  /\ turn' = [turn EXCEPT ![n].begun = TRUE, ![n].out = "start"]
  /\ UNCHANGED << net, join, win, recoveries, breaks, history >>

AddTextContent(n) ==
  /\ turn[n].status = "running" /\ turn[n].begun /\ turn[n].out = "none"
  /\ turn[n].said < MaxChunks
  /\ turn' = [turn EXCEPT ![n].said = @ + 1, ![n].out = "chunk"]
  /\ UNCHANGED << mark, net, join, win, recoveries, breaks, history >>

UpdateStatus(n, outcome) ==
  /\ turn[n].status = "running" /\ turn[n].out = "none"
  /\ outcome = "completed" => turn[n].begun
  /\ turn' = [turn EXCEPT ![n].status = outcome]
  /\ UNCHANGED << mark, net, join, win, recoveries, breaks, history >>

\* The mark is the task's: it is cleared whichever turn it names.
CleanupStreamingState(n) ==
  /\ Over(n) /\ ~turn[n].cleaned
  /\ mark' = 0
  /\ turn' = [turn EXCEPT ![n].cleaned = TRUE, ![n].out = EndEvent(turn[n].status)]
  /\ UNCHANGED << net, join, win, recoveries, breaks, history >>

Emit(n) ==
  /\ turn[n].out # "none"
  /\ turn' = [turn EXCEPT ![n].out = "none"]
  /\ IF room
     THEN /\ wire' = Append(wire, Event(turn[n].out, n, turn[n].said))
          /\ UNCHANGED missed
     ELSE /\ missed' = IF Shown(n) THEN missed \cup {n} ELSE missed
          /\ UNCHANGED wire
  /\ UNCHANGED << mark, link, room, rejoin, join, win, recoveries, breaks, stale, hasty, cut >>

(***************************************************************************)
(* The backend: on_task_join                                               *)
(***************************************************************************)
EnterRoom(j) ==
  /\ join[j].at = "asked"
  /\ room' = TRUE
  /\ join' = [join EXCEPT ![j].at = "entered"]
  /\ UNCHANGED << backend, link, rejoin, wire, win, recoveries, breaks, history >>

ReadSubtasks(j) ==
  /\ join[j].at = "entered"
  /\ join' = [join EXCEPT ![j].at = "read",
       ![j].rows = [n \in Turns |-> IF 2 * n > join[j].after THEN turn[n].status ELSE "none"]]
  /\ UNCHANGED << backend, net, win, recoveries, breaks, history >>

\* get_active_streaming: the mark, or else the newest RUNNING row; with what
\* the streaming cache has of it.
Active ==
  LET running == {n \in Turns : turn[n].status = "running"}
      n == CASE mark # 0 -> mark
             [] mark = 0 /\ running # {} -> CHOOSE n \in running : \A m \in running : m <= n
             [] OTHER -> 0
  IN [turn |-> n, len |-> IF n = 0 \/ turn[n].cleaned THEN 0 ELSE turn[n].said]

AnswerJoin(j) ==
  /\ join[j].at = "read"
  /\ join' = [join EXCEPT ![j].at = "answered", ![j].info = Active]
  /\ wire' = Append(wire, Event("answer", j, 0))
  /\ stale' = stale \cup {n \in Turns : join[j].rows[n] = "running" /\ Over(n) /\ Active.turn # n}
  /\ UNCHANGED << backend, link, room, rejoin, win, recoveries, breaks, missed, hasty, cut >>

\* The joins of SocketContext and of taskContext, whose answers nobody uses.
Reenter ==
  /\ rejoin /\ link
  /\ rejoin' = FALSE /\ room' = TRUE
  /\ UNCHANGED << backend, link, wire, join, win, recoveries, breaks, history >>

(***************************************************************************)
(* The window: TaskStateMachine.  Operators take its state to the next one *)
(***************************************************************************)
MessageIds(w) ==
  {0} \cup {2 * n - 1 : n \in 1..w.read} \cup {2 * n : n \in {m \in Turns : w.msg[m].numbered}}
MaxMessageId(w) == CHOOSE i \in MessageIds(w) : \A k \in MessageIds(w) : k <= i

\* handleRecover, with the status neither joining nor syncing and a connection.
Joining(w, js, inner) ==
  LET j == CHOOSE j \in Joins : js[j] = NoJoin /\ \A k \in 1..(j - 1) : js[k] # NoJoin
  IN /\ win' = [w EXCEPT !.status = "joining", !.again = FALSE]
     /\ join' = [js EXCEPT ![j] = [NoJoin EXCEPT !.at = "asked", !.after = MaxMessageId(w),
                                                 !.inner = inner]]

HandleChatStart(w, n) ==
  [w EXCEPT !.status = "streaming", !.streaming = n,
            !.msg[n] = [status |-> "streaming", text |-> << >>, numbered |-> TRUE]]

\* Mutant: without the queue for a state that is joining.
HandleChatChunkUnqueued(w, n, i) ==
  IF w.msg[n].status = "none" \/ w.status = "joining" THEN w
  ELSE [w EXCEPT !.msg[n].text = Append(@, i)]

\* The queue is kept by turn: only the order within a message matters.
HandleChatChunk(w, n, i) ==
  CASE w.status \in {"idle", "joining"} -> [w EXCEPT !.queued[n] = Append(@, i)]
    [] w.status \notin {"idle", "joining"} /\ w.msg[n].status = "none" -> w
    [] OTHER -> [w EXCEPT !.msg[n].text = Append(@, i)]

\* Mutant: any end makes the window forget which turn it is streaming.
AfterEndForgets(w, n) == [w EXCEPT !.streaming = 0]

\* The window is ready again when the turn it is streaming ends.
AfterEnd(w, n) ==
  IF w.status = "streaming" /\ w.streaming = n
  THEN [w EXCEPT !.status = "ready", !.streaming = 0] ELSE w

\* Mutant: the end of a turn counts only when the window is streaming.
HandleChatDoneIfStreaming(w, n, said) ==
  IF w.status # "streaming" THEN w
  ELSE [AfterEnd(w, n) EXCEPT
     !.msg[n] = [status |-> "completed", numbered |-> TRUE,
                 text |-> IF @.text = << >> THEN UpTo(said) ELSE @.text]]

\* What was streamed is kept; the event's content counts only without any.
HandleChatDone(w, n, said) ==
  [AfterEnd(w, n) EXCEPT
     !.msg[n] = [status |-> "completed", numbered |-> TRUE,
                 text |-> IF @.text = << >> THEN UpTo(said) ELSE @.text]]

\* Mutant: the status of the turn becomes that of the window.
HandleChatErrorStatus(w, n) ==
  IF w.msg[n].status = "none" THEN w
  ELSE [w EXCEPT !.status = "failed", !.msg[n].status = "failed", !.msg[n].numbered = TRUE]

HandleChatError(w, n) ==
  IF w.msg[n].status = "none" THEN w
  ELSE [w EXCEPT !.status = "error", !.msg[n].status = "error", !.msg[n].numbered = TRUE]

HandleChatCancelled(w, n) ==
  IF w.msg[n].status = "none" THEN w
  ELSE [AfterEnd(w, n) EXCEPT !.msg[n].status = "completed"]

Handle(w, e) ==
  CASE e.kind = "start" -> HandleChatStart(w, e.turn)
    [] e.kind = "chunk" -> HandleChatChunk(w, e.turn, e.at)
    [] e.kind = "done" -> HandleChatDone(w, e.turn, e.at)
    [] e.kind = "error" -> HandleChatError(w, e.turn)
    [] e.kind = "cancelled" -> HandleChatCancelled(w, e.turn)

\* Mutant: only running turns are taken over from the rows.
BuildMessageRunning(m, row, n, info) ==
  IF row # "running" THEN m
  ELSE [status |-> IF m.status = "error" THEN "error" ELSE "streaming", numbered |-> TRUE,
        text |-> IF info.turn = n /\ info.len > Len(m.text) THEN UpTo(info.len) ELSE m.text]

\* buildMessages for one row: a running turn takes the longest text there is,
\* any other is taken over only when its message is not there yet.
BuildMessage(m, row, n, info) ==
  CASE row = "running" ->
         [status |-> IF m.status = "error" THEN "error" ELSE "streaming", numbered |-> TRUE,
          text |-> IF info.turn = n /\ info.len > Len(m.text) THEN UpTo(info.len) ELSE m.text]
    [] row \in Outcomes /\ m.status = "none" ->
         [status |-> IF row = "completed" THEN "completed" ELSE "error", numbered |-> TRUE,
          text |-> IF row = "failed" THEN << >> ELSE UpTo(turn[n].said)]
    [] OTHER -> m

\* The rest of doSync: the turn that streams has a message even if no row
\* told of it, and at least the text of the cache.
WithStreamingInfo(m, n, info) ==
  CASE info.turn = n /\ m.status = "none" ->
         [status |-> "streaming", text |-> UpTo(info.len), numbered |-> FALSE]
    [] info.turn = n /\ m.status = "streaming" /\ info.len > Len(m.text) ->
         [m EXCEPT !.text = UpTo(info.len)]
    [] OTHER -> m

\* JOIN_SUCCESS: the window is streaming again if one of its messages is.
\* The first of them in the order of the map is taken, here any.
Synced(w, ack) ==
  LET msg == [n \in Turns |-> WithStreamingInfo(BuildMessage(w.msg[n], ack.rows[n], n, ack.info),
                                                n, ack.info)]
      streaming == {n \in Turns : msg[n].status = "streaming"}
      told == {n \in Turns : ack.rows[n] # "none" /\ \A m \in Turns : ack.rows[m] # "none" => m <= n}
      read == CHOOSE r \in told \cup {w.read} : \A k \in told \cup {w.read} : k <= r
      synced == [w EXCEPT !.msg = msg, !.read = read]
  IN IF streaming = {} THEN {[synced EXCEPT !.status = "ready", !.streaming = 0]}
     ELSE {[synced EXCEPT !.status = "streaming", !.streaming = n] : n \in streaming}

\* applyPendingChunks: what is queued for a message that is not there is dropped.
ApplyPendingChunks(w) ==
  [w EXCEPT !.queued = NoChunks,
            !.msg = [n \in Turns |->
               IF w.msg[n].status = "none" THEN w.msg[n]
               ELSE [w.msg[n] EXCEPT !.text = w.msg[n].text \o w.queued[n]]]]

\* Mutant: a window that streams does not make the recovery it was asked for.
DueUnlessStreaming(w) == w.again /\ w.status \in {"ready", "error"}

\* The recovery asked for during a join starts at the end of the dispatch
\* that leaves the state joining.
Due(w) == w.again /\ w.status \in {"ready", "streaming", "error"}

ReceiveEvent ==
  /\ wire # << >> /\ Head(wire).kind # "answer"
  /\ wire' = Tail(wire)
  /\ LET w == Handle(win, Head(wire))
     IN IF Due(w) THEN Joining(w, join, FALSE) ELSE win' = w /\ UNCHANGED join
  /\ hasty' = (hasty \/ (Head(wire).kind \in {"start", "error"} /\ win.status \in {"idle", "joining"}))
  /\ UNCHANGED << backend, link, room, rejoin, recoveries, breaks, missed, stale, cut >>

\* The answer of a join is dropped unless the state is still joining.  The
\* queued chunks are applied after the sync, which waits for a recovery that
\* it starts itself (inner).
ReceiveAnswer ==
  /\ wire # << >> /\ Head(wire).kind = "answer"
  /\ wire' = Tail(wire)
  /\ LET j == Head(wire).turn
         others == [join EXCEPT ![j] = NoJoin]
         joined == win.status = "joining"
         inner == joined \/ join[j].inner
     IN \E w \in IF joined THEN Synced(win, join[j]) ELSE {win} :
          IF Due(w) THEN Joining(w, others, inner)
          ELSE /\ win' = IF inner THEN ApplyPendingChunks(w) ELSE w
               /\ join' = others
  /\ UNCHANGED << backend, link, room, rejoin, recoveries, breaks, history >>

\* useUnifiedMessages recovers when the window shows the task.
Open ==
  /\ link /\ win.status = "idle"
  /\ Joining(win, join, FALSE)
  /\ UNCHANGED << backend, net, recoveries, breaks, history >>

\* It does so again when a stream is over, and recoverAll when the page
\* becomes visible.
Recover ==
  /\ recoveries < MaxRecoveries
  /\ recoveries' = recoveries + 1
  /\ link /\ win.status # "idle"
  /\ IF win.status = "joining" THEN win' = [win EXCEPT !.again = TRUE] /\ UNCHANGED join
     ELSE Joining(win, join, FALSE)
  /\ UNCHANGED << backend, net, breaks, history >>

(***************************************************************************)
(* The connection                                                          *)
(***************************************************************************)
\* Everything on the connection is lost, also the answers: the promises of
\* the joins are never resolved.
Disconnect ==
  /\ link /\ breaks < MaxBreaks
  /\ breaks' = breaks + 1
  /\ link' = FALSE /\ room' = FALSE /\ rejoin' = FALSE /\ wire' = << >>
  /\ join' = [j \in Joins |-> NoJoin]
  /\ missed' = missed \cup {n \in Turns : Shown(n) /\
                 \E i \in 1..Len(wire) : wire[i].kind # "answer" /\ wire[i].turn = n}
  /\ cut' = (cut \/ win.status = "joining")
  /\ UNCHANGED << backend, win, recoveries, stale, hasty >>

\* The room is joined again.  recoverAll is called before the state machine
\* can know of the connection: it does nothing, unless a join is not over.
Reconnect ==
  /\ ~link
  /\ link' = TRUE /\ rejoin' = TRUE
  /\ win' = [win EXCEPT !.again = @ \/ win.status = "joining"]
  /\ UNCHANGED << backend, room, wire, join, recoveries, breaks, history >>

Work(n) ==
  \/ Send(n) \/ DispatchTurn(n) \/ Start(n) \/ AddTextContent(n)
  \/ \E outcome \in Outcomes : UpdateStatus(n, outcome)
  \/ CleanupStreamingState(n) \/ Emit(n)
JoinStep(j) == EnterRoom(j) \/ ReadSubtasks(j) \/ AnswerJoin(j)
Receive == ReceiveEvent \/ ReceiveAnswer

Next ==
  \/ \E n \in Turns : Work(n)
  \/ \E j \in Joins : JoinStep(j)
  \/ Reenter \/ Receive \/ Open \/ Recover \/ Disconnect \/ Reconnect

Spec == Init /\ [][Next]_vars

\* What was begun goes on: emitters and handlers in the backend, and what has
\* arrived or is due in the window.  No agent, no user and no network has to
\* do anything.  One condition is enough, since nothing here goes on for ever.
Proceed ==
  \/ \E n \in Turns : CleanupStreamingState(n) \/ Emit(n)
  \/ \E j \in Joins : JoinStep(j)
  \/ Receive \/ Open

FairSpec == Spec /\ WF_vars(Proceed)

(***************************************************************************)
(* Properties                                                              *)
(***************************************************************************)
MessageStatuses == {"none", "streaming", "completed", "error"}
TypeOK ==
  /\ turn \in [Turns -> [status : TurnStatuses, said : 0..MaxChunks, begun : BOOLEAN,
                         cleaned : BOOLEAN, out : EventKinds \cup {"none"}]]
  /\ mark \in Turns \cup {0}
  /\ {link, room, rejoin, hasty, cut} \subseteq BOOLEAN
  /\ \A i \in 1..Len(wire) : wire[i].kind \in EventKinds \cup {"answer"}
  /\ \A j \in Joins : join[j].at \in {"idle", "asked", "entered", "read", "answered"}
  /\ win.status \in {"idle", "joining", "ready", "streaming", "error"}
  /\ \A n \in Turns : win.msg[n].status \in MessageStatuses
  /\ win.streaming \in Turns \cup {0} /\ win.read \in 0..MaxTurns
  /\ recoveries \in 0..MaxRecoveries /\ breaks \in 0..MaxBreaks
  /\ missed \subseteq Turns /\ stale \subseteq Turns

\* No piece of an answer that the window shows is lost: it is in the message,
\* queued, on the connection, or still to be emitted, in whatever order
\* joins, answers and events interleave -- unless the connection lost an event of
\* that turn, or an answer that came too late described it.  A turn that failed keeps
\* what was shown of it.
Underway(n) ==
  {win.queued[n][i] : i \in 1..Len(win.queued[n])}
    \cup {wire[i].at : i \in {k \in 1..Len(wire) : wire[k].kind = "chunk" /\ wire[k].turn = n}}
    \cup (IF turn[n].out = "chunk" THEN {turn[n].said} ELSE {})
NothingLost ==
  \A n \in Turns : Shown(n) /\ n \notin missed \cup stale /\ turn[n].status # "failed" =>
    1..turn[n].said \subseteq {win.msg[n].text[i] : i \in 1..Len(win.msg[n].text)} \cup Underway(n)

\* Once the end of a turn has been emitted and has reached the window, the
\* message is not shown as streaming any more, whatever answers of joins come before
\* or after it -- unless the event was lost with a connection or an answer was
\* read before the end and given after it.
EndOnWire(n) ==
  \E i \in 1..Len(wire) : wire[i].turn = n /\ wire[i].kind \in {"done", "error", "cancelled"}
EndIsShown ==
  \A n \in Turns :
    turn[n].cleaned /\ turn[n].out = "none" /\ ~EndOnWire(n) /\ n \notin missed \cup stale
      => win.msg[n].status # "streaming"

\* The window that says it is streaming has the message that streams: the
\* stop button has a turn to stop, and the end of that turn ends the state.
StreamingIsShown ==
  win.status = "streaming" => win.streaming # 0 /\ win.msg[win.streaming].status = "streaming"

\* A join is answered and a recovery asked for during one is made, unless
\* the connection broke during a join.
RecoveryEnds ==
  (win.status = "joining" \/ win.again) ~> (win.status # "joining" /\ ~win.again) \/ cut

\* The answer of a turn that completed is shown, whenever the window was
\* opened -- unless the connection broke, or an event that interrupted the join made
\* the window drop the answer with the history.
TurnIsShown ==
  \A n \in Turns :
    (turn[n].cleaned /\ turn[n].status = "completed") ~> (Shown(n) \/ breaks > 0 \/ hasty)
===============================================================================
