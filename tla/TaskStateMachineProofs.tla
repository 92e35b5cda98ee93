------------------------ MODULE TaskStateMachineProofs ------------------------
(***************************************************************************)
(* Theorems about TaskStateMachine: its types, that a window that says it  *)
(* is streaming shows the message that streams, that no piece of an answer *)
(* is lost and that the end of an answer is shown.                         *)
(*                                                                         *)
(* The first two need only what the handlers keep of the window (IInv).    *)
(* For the others the connection is part of the argument: a piece that the *)
(* window does not have is behind what it has taken so far (Whole), which  *)
(* a start, the end of a turn and the answer of a join may rely on when    *)
(* they overwrite or complete a message, because what they promise of the  *)
(* turn is still behind them on the connection (Followed).  That in turn   *)
(* needs how far the backend is with a turn (Backend) and that a join is   *)
(* not used for two requests at a time (JInv).                             *)
(***************************************************************************)
EXTENDS TaskStateMachine, FiniteSets, FiniteSetTheorems, WellFoundedInduction, TLAPS

WinStatuses == {"idle", "joining", "ready", "streaming", "error"}

(***************************************************************************)
(* The inductive invariant                                                 *)
(***************************************************************************)

\* The fields of a window and of its messages, and what the window holds.
Window(w) ==
  /\ DOMAIN w = {"status", "msg", "streaming", "queued", "again", "read"}
  /\ DOMAIN w.msg = Turns
  /\ \A n \in Turns : /\ DOMAIN w.msg[n] = {"status", "text", "numbered"}
                      /\ w.msg[n].status \in MessageStatuses
  /\ w.status \in WinStatuses
  /\ w.streaming \in Turns \cup {0}
  /\ w.read \in 0..MaxTurns

Streams(w) ==
  w.status = "streaming" => w.streaming # 0 /\ w.msg[w.streaming].status = "streaming"

\* An event is about a turn; the answer of a join is not.
Events == [kind : EventKinds, turn : Turns, at : Nat]
Answers == [kind : {"answer"}, turn : Joins, at : Nat]

JoinPhases == {"idle", "asked", "entered", "read", "answered"}
JoinsOK(js) ==
  /\ DOMAIN js = Joins
  /\ \A j \in Joins : /\ DOMAIN js[j] = {"at", "after", "rows", "inner", "info"}
                      /\ js[j].at \in JoinPhases

TurnsOK ==
  /\ turn \in [Turns -> [status : TurnStatuses, said : 0..MaxChunks, begun : BOOLEAN,
                         cleaned : BOOLEAN, out : EventKinds \cup {"none"}]]
  /\ mark \in Turns \cup {0}

Scalars ==
  /\ link \in BOOLEAN /\ room \in BOOLEAN /\ rejoin \in BOOLEAN
  /\ hasty \in BOOLEAN /\ cut \in BOOLEAN
  /\ recoveries \in 0..MaxRecoveries /\ breaks \in 0..MaxBreaks
  /\ missed \subseteq Turns /\ stale \subseteq Turns

IInv ==
  /\ TurnsOK
  /\ Scalars
  /\ wire \in Seq(Events \cup Answers)
  /\ JoinsOK(join)
  /\ Window(win)
  /\ Streams(win)

(***************************************************************************)
(* The operators of the window keep it well-formed and truthful            *)
(***************************************************************************)
LEMMA TurnsPositive == 0 \notin Turns /\ Turns \subseteq Nat
BY StreamBoundsAssumption DEF Turns

LEMMA StartKeeps ==
  ASSUME NEW w, Window(w), Streams(w), NEW n \in Turns
  PROVE  Window(HandleChatStart(w, n)) /\ Streams(HandleChatStart(w, n))
<1> DEFINE v == HandleChatStart(w, n)
           m == [status |-> "streaming", text |-> << >>, numbered |-> TRUE]
<1>1. /\ DOMAIN v = DOMAIN w
      /\ v.status = "streaming" /\ v.streaming = n /\ v.read = w.read
      /\ v.msg = [w.msg EXCEPT ![n] = m]
  BY DEF HandleChatStart, Window
<1>2. m.status = "streaming" /\ DOMAIN m = {"status", "text", "numbered"}
  OBVIOUS
<1> HIDE DEF m, v
<1>3. DOMAIN v.msg = Turns /\ \A k \in Turns : v.msg[k] = IF k = n THEN m ELSE w.msg[k]
  BY <1>1 DEF Window
<1>4. Window(v) /\ Streams(v)
  BY <1>1, <1>2, <1>3, TurnsPositive DEF Window, Streams, WinStatuses, MessageStatuses
<1> QED BY <1>4 DEF v

LEMMA ChunkKeeps ==
  ASSUME NEW w, Window(w), Streams(w), NEW n \in Turns, NEW i
  PROVE  Window(HandleChatChunk(w, n, i)) /\ Streams(HandleChatChunk(w, n, i))
<1> DEFINE v == HandleChatChunk(w, n, i)
<1>1. CASE w.status \in {"idle", "joining"}
  <2>1. v = [w EXCEPT !.queued[n] = Append(@, i)]
    BY <1>1 DEF HandleChatChunk
  <2>2. /\ DOMAIN v = DOMAIN w
        /\ v.status = w.status /\ v.streaming = w.streaming /\ v.read = w.read /\ v.msg = w.msg
    BY <2>1 DEF Window
  <2> HIDE DEF v
  <2>3. Window(v) /\ Streams(v)
    BY <2>2 DEF Window, Streams
  <2> QED BY <2>3 DEF v
<1>2. CASE w.status \notin {"idle", "joining"} /\ w.msg[n].status = "none"
  BY <1>2 DEF HandleChatChunk
<1>3. CASE w.status \notin {"idle", "joining"} /\ w.msg[n].status # "none"
  <2>1. v = [w EXCEPT !.msg[n].text = Append(@, i)]
    BY <1>3 DEF HandleChatChunk
  <2>2. /\ DOMAIN v = DOMAIN w
        /\ v.status = w.status /\ v.streaming = w.streaming /\ v.read = w.read
        /\ v.msg = [w.msg EXCEPT ![n].text = Append(@, i)]
    BY <2>1 DEF Window
  <2> HIDE DEF v
  <2>3. /\ DOMAIN v.msg = Turns
        /\ \A k \in Turns : DOMAIN v.msg[k] = DOMAIN w.msg[k] /\ v.msg[k].status = w.msg[k].status
    BY <2>2 DEF Window
  <2>4. Window(v) /\ Streams(v)
    BY <2>2, <2>3 DEF Window, Streams
  <2> QED BY <2>4 DEF v
<1> QED BY <1>1, <1>2, <1>3

LEMMA EndKeeps ==
  ASSUME NEW w, Window(w), Streams(w), NEW n \in Turns
  PROVE  /\ Window(AfterEnd(w, n)) /\ Streams(AfterEnd(w, n))
         /\ AfterEnd(w, n).msg = w.msg
         /\ ~(AfterEnd(w, n).status = "streaming" /\ AfterEnd(w, n).streaming = n)
<1> DEFINE v == AfterEnd(w, n)
<1>1. CASE w.status = "streaming" /\ w.streaming = n
  <2>1. /\ DOMAIN v = DOMAIN w
        /\ v.status = "ready" /\ v.streaming = 0 /\ v.read = w.read /\ v.msg = w.msg
    BY <1>1 DEF AfterEnd, Window
  <2> HIDE DEF v
  <2>2. Window(v) /\ Streams(v)
    BY <2>1 DEF Window, Streams, WinStatuses
  <2> QED BY <2>1, <2>2 DEF v
<1>2. CASE ~(w.status = "streaming" /\ w.streaming = n)
  BY <1>2 DEF AfterEnd
<1> QED BY <1>1, <1>2

\* The message of a turn that the window is not streaming may get any status.
LEMMA OtherMessage ==
  ASSUME NEW w, Window(w), Streams(w), NEW n \in Turns,
         ~(w.status = "streaming" /\ w.streaming = n),
         NEW v, DOMAIN v = DOMAIN w,
         v.status = w.status, v.streaming = w.streaming, v.read = w.read,
         DOMAIN v.msg = Turns,
         DOMAIN v.msg[n] = {"status", "text", "numbered"},
         v.msg[n].status \in MessageStatuses,
         \A k \in Turns \ {n} : v.msg[k] = w.msg[k]
  PROVE  Window(v) /\ Streams(v)
<1>1. Window(v)
  BY DEF Window
<1>2. Streams(v)
  BY DEF Window, Streams
<1> QED BY <1>1, <1>2

LEMMA DoneKeeps ==
  ASSUME NEW w, Window(w), Streams(w), NEW n \in Turns, NEW said
  PROVE  Window(HandleChatDone(w, n, said)) /\ Streams(HandleChatDone(w, n, said))
<1> DEFINE e == AfterEnd(w, n)
           v == HandleChatDone(w, n, said)
           m == [status |-> "completed", numbered |-> TRUE,
                 text |-> IF e.msg[n].text = << >> THEN UpTo(said) ELSE e.msg[n].text]
<1>1. /\ Window(e) /\ Streams(e)
      /\ ~(e.status = "streaming" /\ e.streaming = n)
  BY EndKeeps
<1>2. m.status = "completed" /\ DOMAIN m = {"status", "text", "numbered"}
  OBVIOUS
<1>3. v = [e EXCEPT !.msg[n] = m]
  BY DEF HandleChatDone
<1> HIDE DEF e, v, m
<1>4. /\ DOMAIN v = DOMAIN e
      /\ v.status = e.status /\ v.streaming = e.streaming /\ v.read = e.read
      /\ v.msg = [e.msg EXCEPT ![n] = m]
  BY <1>1, <1>3 DEF Window
<1>5. DOMAIN v.msg = Turns /\ v.msg[n] = m /\ \A k \in Turns \ {n} : v.msg[k] = e.msg[k]
  BY <1>1, <1>4 DEF Window
<1>6. Window(v) /\ Streams(v)
  BY <1>1, <1>2, <1>4, <1>5, OtherMessage DEF MessageStatuses
<1> QED BY <1>6 DEF v

LEMMA ErrorKeeps ==
  ASSUME NEW w, Window(w), Streams(w), NEW n \in Turns
  PROVE  Window(HandleChatError(w, n)) /\ Streams(HandleChatError(w, n))
<1> DEFINE v == HandleChatError(w, n)
<1>1. CASE w.msg[n].status = "none"
  BY <1>1 DEF HandleChatError
<1>2. CASE w.msg[n].status # "none"
  <2>1. v = [w EXCEPT !.status = "error", !.msg[n].status = "error", !.msg[n].numbered = TRUE]
    BY <1>2 DEF HandleChatError
  <2>2. /\ DOMAIN v = DOMAIN w
        /\ v.status = "error" /\ v.streaming = w.streaming /\ v.read = w.read
        /\ v.msg = [w.msg EXCEPT ![n].status = "error", ![n].numbered = TRUE]
    BY <2>1 DEF Window
  <2> HIDE DEF v
  <2>3. /\ DOMAIN v.msg = Turns
        /\ \A k \in Turns : DOMAIN v.msg[k] = DOMAIN w.msg[k]
        /\ \A k \in Turns : v.msg[k].status = IF k = n THEN "error" ELSE w.msg[k].status
    BY <2>2 DEF Window
  <2>4. Window(v) /\ Streams(v)
    BY <2>2, <2>3 DEF Window, Streams, WinStatuses, MessageStatuses
  <2> QED BY <2>4 DEF v
<1> QED BY <1>1, <1>2

LEMMA CancelledKeeps ==
  ASSUME NEW w, Window(w), Streams(w), NEW n \in Turns
  PROVE  Window(HandleChatCancelled(w, n)) /\ Streams(HandleChatCancelled(w, n))
<1> DEFINE e == AfterEnd(w, n)
           v == HandleChatCancelled(w, n)
<1>1. CASE w.msg[n].status = "none"
  BY <1>1 DEF HandleChatCancelled
<1>2. CASE w.msg[n].status # "none"
  <2>1. /\ Window(e) /\ Streams(e)
        /\ ~(e.status = "streaming" /\ e.streaming = n)
    BY EndKeeps
  <2>2. v = [e EXCEPT !.msg[n].status = "completed"]
    BY <1>2 DEF HandleChatCancelled
  <2> HIDE DEF e, v
  <2>3. /\ DOMAIN v = DOMAIN e
        /\ v.status = e.status /\ v.streaming = e.streaming /\ v.read = e.read
        /\ v.msg = [e.msg EXCEPT ![n].status = "completed"]
    BY <2>1, <2>2 DEF Window
  <2>4. /\ DOMAIN v.msg = Turns /\ \A k \in Turns \ {n} : v.msg[k] = e.msg[k]
        /\ DOMAIN v.msg[n] = {"status", "text", "numbered"}
        /\ v.msg[n].status = "completed"
    BY <2>1, <2>3 DEF Window
  <2>5. Window(v) /\ Streams(v)
    BY <2>1, <2>3, <2>4, OtherMessage DEF MessageStatuses
  <2> QED BY <2>5 DEF v
<1> QED BY <1>1, <1>2

LEMMA HandleKeeps ==
  ASSUME NEW w, Window(w), Streams(w), NEW e \in Events
  PROVE  Window(Handle(w, e)) /\ Streams(Handle(w, e))
BY StartKeeps, ChunkKeeps, DoneKeeps, ErrorKeeps, CancelledKeeps DEF Handle, Events, EventKinds

\* The window is streaming after an answer exactly when a message streams.
LEMMA BuildKeeps ==
  ASSUME NEW m, DOMAIN m = {"status", "text", "numbered"}, m.status \in MessageStatuses,
         NEW row, NEW n, NEW info
  PROVE  /\ DOMAIN BuildMessage(m, row, n, info) = {"status", "text", "numbered"}
         /\ BuildMessage(m, row, n, info).status \in MessageStatuses
BY DEF BuildMessage, MessageStatuses

LEMMA WithInfoKeeps ==
  ASSUME NEW m, DOMAIN m = {"status", "text", "numbered"}, m.status \in MessageStatuses,
         NEW n, NEW info
  PROVE  /\ DOMAIN WithStreamingInfo(m, n, info) = {"status", "text", "numbered"}
         /\ WithStreamingInfo(m, n, info).status \in MessageStatuses
BY DEF WithStreamingInfo, MessageStatuses

LEMMA SyncedKeeps ==
  ASSUME NEW w, Window(w), NEW ack, NEW v \in Synced(w, ack)
  PROVE  Window(v) /\ Streams(v)
<1> DEFINE msg == [n \in Turns |-> WithStreamingInfo(
                     BuildMessage(w.msg[n], ack.rows[n], n, ack.info), n, ack.info)]
           streaming == {n \in Turns : msg[n].status = "streaming"}
           told == {n \in Turns : ack.rows[n] # "none"
                                    /\ \A m \in Turns : ack.rows[m] # "none" => m <= n}
           read == CHOOSE r \in told \cup {w.read} : \A k \in told \cup {w.read} : k <= r
           synced == [w EXCEPT !.msg = msg, !.read = read]
<1>1. \A n \in Turns : /\ DOMAIN msg[n] = {"status", "text", "numbered"}
                       /\ msg[n].status \in MessageStatuses
  BY BuildKeeps, WithInfoKeeps DEF Window
<1>2. read \in 0..MaxTurns
  <2>1. w.read \in 0..MaxTurns /\ told \subseteq 0..MaxTurns
    BY StreamBoundsAssumption DEF Window, Turns
  <2>2. \A k, l \in told : k = l
    BY TurnsPositive
  <2> HIDE DEF told
  <2>3. \E r \in told \cup {w.read} : \A k \in told \cup {w.read} : k <= r
    <3>1. CASE told = {}
      BY <2>1, <3>1
    <3>2. CASE told # {}
      <4>1. PICK t \in told : \A k \in told : k = t
        BY <2>2, <3>2
      <4>2. CASE t <= w.read
        BY <2>1, <4>1, <4>2
      <4>3. CASE w.read <= t
        BY <2>1, <4>1, <4>3
      <4> QED BY <2>1, <4>1, <4>2, <4>3
    <3> QED BY <3>1, <3>2
  <2>4. read \in told \cup {w.read}
    BY <2>3
  <2> QED BY <2>1, <2>4
<1>3. /\ DOMAIN synced = DOMAIN w /\ synced.msg = msg /\ synced.read = read
  BY DEF Window
<1>4. v \in IF streaming = {} THEN {[synced EXCEPT !.status = "ready", !.streaming = 0]}
            ELSE {[synced EXCEPT !.status = "streaming", !.streaming = n] : n \in streaming}
  BY DEF Synced
<1>5. DOMAIN msg = Turns
  OBVIOUS
<1>6. \A n \in streaming : n \in Turns /\ msg[n].status = "streaming"
  OBVIOUS
<1> HIDE DEF msg, streaming, read, synced
<1>7. CASE streaming = {}
  <2>1. v = [synced EXCEPT !.status = "ready", !.streaming = 0]
    BY <1>4, <1>7
  <2>2. /\ DOMAIN v = DOMAIN w /\ v.msg = msg /\ v.read = read
        /\ v.status = "ready" /\ v.streaming = 0
    BY <1>3, <2>1 DEF Window
  <2> QED BY <1>1, <1>2, <1>5, <2>2 DEF Window, Streams, WinStatuses
<1>8. CASE streaming # {}
  <2>1. PICK n \in streaming : v = [synced EXCEPT !.status = "streaming", !.streaming = n]
    BY <1>4, <1>8
  <2>2. /\ DOMAIN v = DOMAIN w /\ v.msg = msg /\ v.read = read
        /\ v.status = "streaming" /\ v.streaming = n
    BY <1>3, <2>1 DEF Window
  <2> QED BY <1>1, <1>2, <1>5, <1>6, <2>2, TurnsPositive DEF Window, Streams, WinStatuses
<1> QED BY <1>7, <1>8

LEMMA ApplyKeeps ==
  ASSUME NEW w, Window(w), Streams(w)
  PROVE  Window(ApplyPendingChunks(w)) /\ Streams(ApplyPendingChunks(w))
<1> DEFINE msg == [n \in Turns |-> IF w.msg[n].status = "none" THEN w.msg[n]
                                   ELSE [w.msg[n] EXCEPT !.text = w.msg[n].text \o w.queued[n]]]
           v == ApplyPendingChunks(w)
<1>1. v = [w EXCEPT !.queued = NoChunks, !.msg = msg]
  BY DEF ApplyPendingChunks
<1>2. /\ DOMAIN msg = Turns
      /\ \A n \in Turns : /\ DOMAIN msg[n] = {"status", "text", "numbered"}
                          /\ msg[n].status = w.msg[n].status
  BY DEF Window
<1> HIDE DEF msg, v
<1>3. /\ DOMAIN v = DOMAIN w /\ v.msg = msg /\ v.read = w.read
      /\ v.status = w.status /\ v.streaming = w.streaming
  BY <1>1 DEF Window
<1>4. Window(v) /\ Streams(v)
  BY <1>2, <1>3 DEF Window, Streams
<1> QED BY <1>4 DEF v

LEMMA NoJoinShape ==
  DOMAIN NoJoin = {"at", "after", "rows", "inner", "info"} /\ NoJoin.at = "idle"
BY DEF NoJoin

\* A recovery that starts takes a free join.
LEMMA JoiningKeeps ==
  ASSUME NEW w, Window(w), NEW js, JoinsOK(js), NEW inner, Joining(w, js, inner)
  PROVE  Window(win') /\ Streams(win') /\ JoinsOK(join')
<1> DEFINE free == CHOOSE j \in Joins : js[j] = NoJoin /\ \A k \in 1..(j - 1) : js[k] # NoJoin
           asked == [NoJoin EXCEPT !.at = "asked", !.after = MaxMessageId(w), !.inner = inner]
<1>1. /\ win' = [w EXCEPT !.status = "joining", !.again = FALSE]
      /\ join' = [js EXCEPT ![free] = asked]
  BY DEF Joining
<1>2. DOMAIN asked = {"at", "after", "rows", "inner", "info"} /\ asked.at = "asked"
  BY NoJoinShape
<1> HIDE DEF free, asked
<1>3. JoinsOK(join')
  BY <1>1, <1>2 DEF JoinsOK, JoinPhases
<1>4. /\ DOMAIN win' = DOMAIN w /\ win'.msg = w.msg /\ win'.read = w.read
      /\ win'.status = "joining" /\ win'.streaming = w.streaming
  BY <1>1 DEF Window
<1> QED BY <1>3, <1>4 DEF Window, Streams, WinStatuses

(***************************************************************************)
(* The invariant holds initially and every step keeps it                   *)
(***************************************************************************)
LEMMA InitIInv == Init => IInv
<1> SUFFICES ASSUME Init PROVE IInv
  OBVIOUS
<1> DEFINE Turn == [status : TurnStatuses, said : 0..MaxChunks, begun : BOOLEAN,
                    cleaned : BOOLEAN, out : EventKinds \cup {"none"}]
<1>1. TurnsOK
  <2>1. NoTurn \in Turn
    BY StreamBoundsAssumption DEF NoTurn, TurnStatuses
  <2>2. OldTurn \in Turn
    BY StreamBoundsAssumption DEF OldTurn, TurnStatuses, Outcomes
  <2> QED BY <2>1, <2>2 DEF Init, TurnsOK
<1>2. Scalars
  <2>1. recoveries \in 0..MaxRecoveries /\ breaks \in 0..MaxBreaks
    BY StreamBoundsAssumption DEF Init
  <2>2. link \in BOOLEAN /\ room \in BOOLEAN /\ rejoin \in BOOLEAN
    BY DEF Init
  <2> QED BY <2>1, <2>2 DEF Init, Scalars
<1>3. wire \in Seq(Events \cup Answers)
  BY DEF Init
<1>4. JoinsOK(join)
  BY NoJoinShape DEF Init, JoinsOK, JoinPhases
<1>5. /\ DOMAIN win = {"status", "msg", "streaming", "queued", "again", "read"}
      /\ win.status = "idle" /\ win.streaming = 0 /\ win.read = 0
      /\ win.msg = [n \in Turns |-> NoMessage]
  BY DEF Init
<1>6. NoMessage.status = "none" /\ DOMAIN NoMessage = {"status", "text", "numbered"}
  BY DEF NoMessage
<1>7. Window(win) /\ Streams(win)
  BY <1>5, <1>6, StreamBoundsAssumption DEF Window, Streams, WinStatuses, MessageStatuses
<1> QED BY <1>1, <1>2, <1>3, <1>4, <1>7 DEF IInv

\* An event is put on the wire, or taken from it.
LEMMA WireSend ==
  ASSUME wire \in Seq(Events \cup Answers), NEW e \in Events \cup Answers
  PROVE  Append(wire, e) \in Seq(Events \cup Answers)
OBVIOUS

LEMMA WireReceive ==
  ASSUME wire \in Seq(Events \cup Answers), wire # << >>
  PROVE  /\ Tail(wire) \in Seq(Events \cup Answers)
         /\ Head(wire) \in Events \cup Answers
         /\ Head(wire).kind # "answer" => Head(wire) \in Events
BY DEF Events, Answers, EventKinds

LEMMA WorkStep == ASSUME IInv, NEW n \in Turns, Work(n) PROVE IInv'
<1>1. ASSUME Send(n) PROVE IInv'
  <2>1. TurnsOK'
    BY <1>1 DEF IInv, Send, TurnsOK, TurnStatuses
  <2>2. Scalars' /\ (wire \in Seq(Events \cup Answers))' /\ JoinsOK(join')
    BY <1>1 DEF IInv, Scalars, Send, history
  <2>3. Window(win') /\ Streams(win')
    <3>1. CASE win' = [win EXCEPT !.read = n]
      <4>1. /\ DOMAIN win' = DOMAIN win /\ win'.status = win.status /\ win'.msg = win.msg
            /\ win'.streaming = win.streaming /\ win'.read = n
        BY <3>1 DEF IInv, Window
      <4> QED BY <4>1, StreamBoundsAssumption DEF IInv, Window, Streams, Turns
    <3>2. CASE win' = win
      BY <3>2 DEF IInv
    <3> QED BY <1>1, <3>1, <3>2 DEF Send
  <2> QED BY <2>1, <2>2, <2>3 DEF IInv
<1>2. ASSUME DispatchTurn(n) PROVE IInv'
  <2>1. TurnsOK'
    BY <1>2 DEF IInv, DispatchTurn, TurnsOK, TurnStatuses
  <2> QED BY <1>2, <2>1 DEF IInv, Scalars, DispatchTurn, net, history
<1>3. ASSUME Start(n) PROVE IInv'
  <2>1. TurnsOK'
    BY <1>3 DEF IInv, Start, TurnsOK, EventKinds
  <2> QED BY <1>3, <2>1 DEF IInv, Scalars, Start, net, history
<1>4. ASSUME AddTextContent(n) PROVE IInv'
  <2>1. turn[n].said + 1 \in 0..MaxChunks
    BY <1>4, StreamBoundsAssumption DEF IInv, AddTextContent, TurnsOK
  <2>2. TurnsOK'
    BY <1>4, <2>1 DEF IInv, AddTextContent, TurnsOK, EventKinds
  <2> QED BY <1>4, <2>2 DEF IInv, Scalars, AddTextContent, net, history
<1>5. ASSUME NEW outcome \in Outcomes, UpdateStatus(n, outcome) PROVE IInv'
  <2>1. TurnsOK'
    BY <1>5 DEF IInv, UpdateStatus, TurnsOK, TurnStatuses
  <2> QED BY <1>5, <2>1 DEF IInv, Scalars, UpdateStatus, net, history
<1>6. ASSUME CleanupStreamingState(n) PROVE IInv'
  <2>1. EndEvent(turn[n].status) \in EventKinds
    BY DEF EndEvent, EventKinds
  <2>2. TurnsOK'
    BY <1>6, <2>1 DEF IInv, CleanupStreamingState, TurnsOK
  <2> QED BY <1>6, <2>2 DEF IInv, Scalars, CleanupStreamingState, net, history
<1>7. ASSUME Emit(n) PROVE IInv'
  <2>1. TurnsOK'
    BY <1>7 DEF IInv, Emit, TurnsOK
  <2>2. Event(turn[n].out, n, turn[n].said) \in Events
    BY <1>7, StreamBoundsAssumption DEF IInv, Emit, TurnsOK, Event, Events
  <2>3. (wire \in Seq(Events \cup Answers))'
    BY <1>7, <2>2, WireSend DEF IInv, Emit
  <2>4. Scalars'
    BY <1>7 DEF IInv, Scalars, Emit
  <2> QED BY <1>7, <2>1, <2>3, <2>4 DEF IInv, Emit
<1> QED BY <1>1, <1>2, <1>3, <1>4, <1>5, <1>6, <1>7 DEF Work

LEMMA JoinSteps == ASSUME IInv, NEW j \in Joins, JoinStep(j) PROVE IInv'
<1>1. ASSUME EnterRoom(j) PROVE IInv'
  <2>1. JoinsOK(join')
    BY <1>1 DEF IInv, EnterRoom, JoinsOK, JoinPhases
  <2> QED BY <1>1, <2>1 DEF IInv, TurnsOK, Scalars, EnterRoom, backend, history
<1>2. ASSUME ReadSubtasks(j) PROVE IInv'
  <2>1. JoinsOK(join')
    BY <1>2 DEF IInv, ReadSubtasks, JoinsOK, JoinPhases
  <2> QED BY <1>2, <2>1 DEF IInv, TurnsOK, Scalars, ReadSubtasks, backend, net, history
<1>3. ASSUME AnswerJoin(j) PROVE IInv'
  <2>1. JoinsOK(join')
    BY <1>3 DEF IInv, AnswerJoin, JoinsOK, JoinPhases
  <2>2. Event("answer", j, 0) \in Answers
    BY DEF Event, Answers
  <2>3. (wire \in Seq(Events \cup Answers))'
    BY <1>3, <2>2, WireSend DEF IInv, AnswerJoin
  <2>4. Scalars'
    BY <1>3 DEF IInv, Scalars, AnswerJoin
  <2> QED BY <1>3, <2>1, <2>3, <2>4 DEF IInv, TurnsOK, AnswerJoin, backend
<1> QED BY <1>1, <1>2, <1>3 DEF JoinStep

LEMMA ReceiveEventStep == ASSUME IInv, ReceiveEvent PROVE IInv'
<1> DEFINE e == Head(wire)
           w == Handle(win, e)
<1>1. e \in Events /\ (wire \in Seq(Events \cup Answers))'
  BY WireReceive DEF IInv, ReceiveEvent
<1>2. Window(w) /\ Streams(w)
  BY <1>1, HandleKeeps DEF IInv
<1>3. IF Due(w) THEN Joining(w, join, FALSE) ELSE win' = w /\ UNCHANGED join
  BY DEF ReceiveEvent
<1> HIDE DEF w
<1>4. Window(win') /\ Streams(win') /\ JoinsOK(join')
  BY <1>2, <1>3, JoiningKeeps DEF IInv
<1>5. TurnsOK' /\ Scalars'
  BY DEF IInv, TurnsOK, Scalars, ReceiveEvent, backend
<1> QED BY <1>1, <1>4, <1>5 DEF IInv

LEMMA ReceiveAnswerStep == ASSUME IInv, ReceiveAnswer PROVE IInv'
<1> DEFINE j == Head(wire).turn
           others == [join EXCEPT ![j] = NoJoin]
           joined == win.status = "joining"
           inner == joined \/ join[j].inner
<1>1. PICK w \in (IF joined THEN Synced(win, join[j]) ELSE {win}) :
        IF Due(w) THEN Joining(w, others, inner)
        ELSE /\ win' = IF inner THEN ApplyPendingChunks(w) ELSE w
             /\ join' = others
  BY DEF ReceiveAnswer
<1>2. Window(w) /\ Streams(w)
  BY <1>1, SyncedKeeps DEF IInv
<1>3. JoinsOK(others)
  BY NoJoinShape DEF IInv, JoinsOK, JoinPhases
<1> HIDE DEF others, inner
<1>4. Window(win') /\ Streams(win') /\ JoinsOK(join')
  BY <1>1, <1>2, <1>3, JoiningKeeps, ApplyKeeps
<1>5. (wire \in Seq(Events \cup Answers))'
  BY WireReceive DEF IInv, ReceiveAnswer
<1>6. TurnsOK' /\ Scalars'
  BY DEF IInv, TurnsOK, Scalars, ReceiveAnswer, backend, history
<1> QED BY <1>4, <1>5, <1>6 DEF IInv

LEMMA WindowSteps ==
  ASSUME IInv, Reenter \/ Open \/ Recover \/ Disconnect \/ Reconnect
  PROVE  IInv'
<1>1. ASSUME Reenter PROVE IInv'
  BY <1>1 DEF IInv, TurnsOK, Scalars, Reenter, backend, history
<1>2. ASSUME Open PROVE IInv'
  <2>1. Window(win') /\ Streams(win') /\ JoinsOK(join')
    BY <1>2, JoiningKeeps DEF IInv, Open
  <2> QED BY <1>2, <2>1 DEF IInv, TurnsOK, Scalars, Open, backend, net, history
<1>3. ASSUME Recover PROVE IInv'
  <2>1. ASSUME win.status = "joining"
        PROVE  Window(win') /\ Streams(win') /\ JoinsOK(join')
    <3>1. win' = [win EXCEPT !.again = TRUE] /\ join' = join
      BY <1>3, <2>1 DEF Recover
    <3>2. /\ DOMAIN win' = DOMAIN win /\ win'.status = win.status /\ win'.msg = win.msg
          /\ win'.streaming = win.streaming /\ win'.read = win.read
      BY <3>1 DEF IInv, Window
    <3> QED BY <3>1, <3>2 DEF IInv, Window, Streams
  <2>2. ASSUME win.status # "joining"
        PROVE  Window(win') /\ Streams(win') /\ JoinsOK(join')
    BY <1>3, <2>2, JoiningKeeps DEF IInv, Recover
  <2>3. Scalars'
    BY <1>3, StreamBoundsAssumption DEF IInv, Scalars, Recover, net, history
  <2>4. TurnsOK' /\ (wire \in Seq(Events \cup Answers))'
    BY <1>3 DEF IInv, TurnsOK, Recover, backend, net
  <2>5. Window(win') /\ Streams(win') /\ JoinsOK(join')
    BY <2>1, <2>2
  <2> QED BY <2>3, <2>4, <2>5 DEF IInv
<1>4. ASSUME Disconnect PROVE IInv'
  <2>1. JoinsOK(join')
    BY <1>4, NoJoinShape DEF Disconnect, JoinsOK, JoinPhases
  <2>2. (cut \/ win.status = "joining") \in BOOLEAN
    OBVIOUS
  <2>3. breaks' \in 0..MaxBreaks
    BY <1>4, StreamBoundsAssumption DEF IInv, Scalars, Disconnect
  <2>4. missed' \subseteq Turns
    BY <1>4 DEF IInv, Scalars, Disconnect
  <2>5. Scalars'
    BY <1>4, <2>2, <2>3, <2>4 DEF IInv, Scalars, Disconnect
  <2> QED BY <1>4, <2>1, <2>5 DEF IInv, TurnsOK, Disconnect, backend
<1>5. ASSUME Reconnect PROVE IInv'
  <2>1. win' = [win EXCEPT !.again = @ \/ win.status = "joining"]
    BY <1>5 DEF Reconnect
  <2>2. /\ DOMAIN win' = DOMAIN win /\ win'.status = win.status /\ win'.msg = win.msg
        /\ win'.streaming = win.streaming /\ win'.read = win.read
    BY <2>1 DEF IInv, Window
  <2>3. Window(win') /\ Streams(win')
    BY <2>2 DEF IInv, Window, Streams
  <2> QED BY <1>5, <2>3 DEF IInv, TurnsOK, Scalars, Reconnect, backend, history
<1> QED BY <1>1, <1>2, <1>3, <1>4, <1>5

LEMMA NextIInv == IInv /\ [Next]_vars => IInv'
<1> SUFFICES ASSUME IInv, [Next]_vars PROVE IInv'
  OBVIOUS
<1>1. CASE UNCHANGED vars
  BY <1>1 DEF IInv, TurnsOK, Scalars, vars, backend, net, history
<1>2. CASE Next
  BY <1>2, WorkStep, JoinSteps, ReceiveEventStep, ReceiveAnswerStep, WindowSteps
     DEF Next, Receive
<1> QED BY <1>1, <1>2

LEMMA InvariantHolds == Spec => []IInv
BY InitIInv, NextIInv, PTL DEF Spec

(***************************************************************************)
(* The theorems                                                            *)
(***************************************************************************)

\* Turns, messages, events on the connection and joins keep their types,
\* for any number of turns, joins and breaks.
THEOREM TypeCorrect == Spec => []TypeOK
<1>1. IInv => TypeOK
  <2> SUFFICES ASSUME IInv PROVE TypeOK
    OBVIOUS
  <2>1. \A i \in 1..Len(wire) : wire[i].kind \in EventKinds \cup {"answer"}
    BY DEF IInv, Events, Answers
  <2> QED BY <2>1 DEF IInv, TypeOK, TurnsOK, Scalars, JoinsOK, JoinPhases, Window, WinStatuses
<1> QED BY <1>1, InvariantHolds, PTL

\* A window in the state streaming knows a turn that streams and shows its
\* message as streaming, after any handler, join, recovery or break.
THEOREM StreamingShown == Spec => []StreamingIsShown
<1>1. IInv => StreamingIsShown
  BY DEF IInv, Streams, StreamingIsShown
<1> QED BY <1>1, InvariantHolds, PTL

(***************************************************************************)
(* How far a turn is                                                       *)
(***************************************************************************)
EndKinds == {"done", "error", "cancelled"}

\* What may be said of a turn, and what the mark says of it.
Phase(n) ==
  /\ turn[n].begun => turn[n].status = "running" \/ Over(n)
  /\ ~turn[n].begun => turn[n].said = 0
  /\ turn[n].out \in {"start", "chunk"} => turn[n].begun /\ turn[n].status = "running"
  /\ turn[n].out = "start" => turn[n].said = 0
  /\ turn[n].out = "done" => Over(n)
  /\ turn[n].cleaned => Over(n) /\ mark # n
  /\ turn[n].status = "running" /\ turn[n].begun => mark \in {0, n}
  /\ mark = n => turn[n].begun
Phases == \A n \in Turns : Phase(n)

\* A turn is sent when those before it are over.
InOrder == \A n, m \in Turns : turn[n].status # "none" /\ m < n => Over(m)

Backend == TurnsOK /\ Phases /\ InOrder

\* A step of turn n leaves the others alone.
OthersKept(n) == DOMAIN turn' = Turns /\ \A m \in Turns \ {n} : turn'[m] = turn[m]

LEMMA OverNot == \A n \in Turns : Over(n) => turn[n].status \notin {"none", "pending", "running"}
BY DEF Over, Outcomes

LEMMA BackendInit == Init => Backend
<1> SUFFICES ASSUME Init PROVE Backend
  OBVIOUS
<1>1. TurnsOK
  BY InitIInv DEF IInv
<1>2. /\ mark = 0
      /\ \A n \in Turns : turn[n] = IF n <= OldTurns THEN OldTurn ELSE NoTurn
  BY DEF Init
<1>3. /\ OldTurn.status = "completed" /\ OldTurn.begun /\ OldTurn.cleaned /\ OldTurn.out = "none"
      /\ NoTurn.status = "none" /\ ~NoTurn.begun /\ NoTurn.said = 0 /\ ~NoTurn.cleaned
      /\ NoTurn.out = "none"
  BY DEF OldTurn, NoTurn
<1>4. Phases
  BY <1>2, <1>3, TurnsPositive DEF Phases, Phase, Over, Outcomes
<1>5. InOrder
  BY <1>2, <1>3, TurnsPositive, StreamBoundsAssumption DEF InOrder, Over, Outcomes
<1> QED BY <1>1, <1>4, <1>5 DEF Backend

LEMMA BackendWork == ASSUME Backend, TurnsOK', NEW n \in Turns, Work(n) PROVE Backend'
<1> SUFFICES Phases' /\ InOrder'
  BY DEF Backend
<1> USE TurnsPositive DEF TurnsOK, Backend
<1>1. ASSUME Send(n) PROVE Phases' /\ InOrder'
  <2>1. /\ OthersKept(n) /\ mark' = mark /\ turn[n].status = "none"
        /\ \A m \in 1..(n - 1) : Over(m)
        /\ turn'[n].status = "pending" /\ turn'[n].said = turn[n].said
        /\ turn'[n].begun = turn[n].begun /\ turn'[n].cleaned = turn[n].cleaned
        /\ turn'[n].out = turn[n].out
    BY <1>1 DEF Send, OthersKept
  <2>2. Phases'
    BY <2>1, OverNot DEF OthersKept, Phases, Phase, Over
  <2>3. InOrder'
    BY <2>1, OverNot DEF OthersKept, InOrder, Over, Turns
  <2> QED BY <2>2, <2>3
<1>2. ASSUME DispatchTurn(n) PROVE Phases' /\ InOrder'
  <2>1. /\ OthersKept(n) /\ mark' = mark /\ turn[n].status = "pending"
        /\ turn'[n].status = "running" /\ turn'[n].said = turn[n].said
        /\ turn'[n].begun = turn[n].begun /\ turn'[n].cleaned = turn[n].cleaned
        /\ turn'[n].out = turn[n].out
    BY <1>2 DEF DispatchTurn, OthersKept
  <2>2. Phases'
    BY <2>1, OverNot DEF OthersKept, Phases, Phase, Over
  <2>3. InOrder'
    BY <2>1, OverNot DEF OthersKept, InOrder, Over, Turns
  <2> QED BY <2>2, <2>3
<1>3. ASSUME Start(n) PROVE Phases' /\ InOrder'
  <2>1. /\ OthersKept(n) /\ mark' = n /\ turn[n].status = "running" /\ ~turn[n].begun
        /\ turn'[n].status = "running" /\ turn'[n].said = turn[n].said
        /\ turn'[n].begun /\ turn'[n].cleaned = turn[n].cleaned
        /\ turn'[n].out = "start"
    BY <1>3 DEF Start, OthersKept
  <2>2. \A m \in Turns \ {n} : turn[m].status # "running"
    <3> SUFFICES ASSUME NEW m \in Turns \ {n} PROVE turn[m].status # "running"
      OBVIOUS
    <3>1. CASE m < n
      BY <2>1, <3>1, OverNot DEF InOrder
    <3>2. CASE n < m
      BY <2>1, <3>2, OverNot DEF InOrder
    <3> QED BY <3>1, <3>2
  <2>3. Phases'
    BY <2>1, <2>2, OverNot DEF OthersKept, Phases, Phase, Over
  <2>4. InOrder'
    BY <2>1, OverNot DEF OthersKept, InOrder, Over, Turns
  <2> QED BY <2>3, <2>4
<1>4. ASSUME AddTextContent(n) PROVE Phases' /\ InOrder'
  <2>1. /\ OthersKept(n) /\ mark' = mark /\ turn[n].status = "running" /\ turn[n].begun
        /\ turn'[n].status = "running"
        /\ turn'[n].begun /\ turn'[n].cleaned = turn[n].cleaned
        /\ turn'[n].out = "chunk"
    BY <1>4 DEF AddTextContent, OthersKept
  <2>2. Phases'
    BY <2>1, OverNot DEF OthersKept, Phases, Phase, Over
  <2>3. InOrder'
    BY <2>1, OverNot DEF OthersKept, InOrder, Over, Turns
  <2> QED BY <2>2, <2>3
<1>5. ASSUME NEW outcome \in Outcomes, UpdateStatus(n, outcome) PROVE Phases' /\ InOrder'
  <2>1. /\ OthersKept(n) /\ mark' = mark /\ turn[n].status = "running" /\ turn[n].out = "none"
        /\ turn'[n].status = outcome /\ turn'[n].said = turn[n].said
        /\ turn'[n].begun = turn[n].begun /\ turn'[n].cleaned = turn[n].cleaned
        /\ turn'[n].out = "none"
    BY <1>5 DEF UpdateStatus, OthersKept
  <2>2. Phases'
    BY <2>1, OverNot DEF OthersKept, Phases, Phase, Over, Outcomes
  <2>3. InOrder'
    BY <2>1, OverNot DEF OthersKept, InOrder, Over, Turns
  <2> QED BY <2>2, <2>3
<1>6. ASSUME CleanupStreamingState(n) PROVE Phases' /\ InOrder'
  <2>1. /\ OthersKept(n) /\ mark' = 0 /\ Over(n)
        /\ turn'[n].status = turn[n].status /\ turn'[n].said = turn[n].said
        /\ turn'[n].begun = turn[n].begun /\ turn'[n].cleaned
        /\ turn'[n].out = EndEvent(turn[n].status)
    BY <1>6 DEF CleanupStreamingState, OthersKept
  <2>2. EndEvent(turn[n].status) \in EndKinds
    BY DEF EndEvent, EndKinds
  <2>3. Phases'
    BY <2>1, <2>2, OverNot DEF OthersKept, Phases, Phase, Over, EndKinds
  <2>4. InOrder'
    BY <2>1, OverNot DEF OthersKept, InOrder, Over, Turns
  <2> QED BY <2>3, <2>4
<1>7. ASSUME Emit(n) PROVE Phases' /\ InOrder'
  <2>1. /\ OthersKept(n) /\ mark' = mark
        /\ turn'[n].status = turn[n].status /\ turn'[n].said = turn[n].said
        /\ turn'[n].begun = turn[n].begun /\ turn'[n].cleaned = turn[n].cleaned
        /\ turn'[n].out = "none"
    BY <1>7 DEF Emit, OthersKept
  <2>2. Phases'
    BY <2>1, OverNot DEF OthersKept, Phases, Phase, Over
  <2>3. InOrder'
    BY <2>1, OverNot DEF OthersKept, InOrder, Over, Turns
  <2> QED BY <2>2, <2>3
<1> QED BY <1>1, <1>2, <1>3, <1>4, <1>5, <1>6, <1>7 DEF Work

\* Only the emitters move the turns.
LEMMA OnlyWorkMoves == [Next]_vars => (\E n \in Turns : Work(n)) \/ UNCHANGED backend
BY DEF Next, vars, JoinStep, EnterRoom, ReadSubtasks, AnswerJoin, Reenter, Receive, ReceiveEvent,
       ReceiveAnswer, Open, Recover, Disconnect, Reconnect

LEMMA BackendStep == ASSUME Backend, TurnsOK', [Next]_vars PROVE Backend'
<1>1. ASSUME UNCHANGED backend PROVE Backend'
  BY <1>1 DEF Backend, Phases, Phase, InOrder, Over, TurnsOK, backend
<1> QED BY <1>1, OnlyWorkMoves, BackendWork

(***************************************************************************)
(* What the handlers of the window do to the message of a turn             *)
(***************************************************************************)
Texts(w) ==
  /\ \A n \in Turns : /\ w.msg[n].text \in Seq(Nat)
                      /\ w.msg[n].status = "none" => w.msg[n].text = << >>
  /\ DOMAIN w.queued = Turns
  /\ \A n \in Turns : w.queued[n] \in Seq(Nat)

\* From w to v the status may leave idle, and what is kept of other turns than n stays.
OnlyTurn(w, v, n) ==
  /\ v.again = w.again /\ (v.status = "idle" => w.status = "idle")
  /\ DOMAIN v.queued = Turns
  /\ \A k \in Turns \ {n} : v.msg[k] = w.msg[k] /\ v.queued[k] = w.queued[k]

LEMMA StartEffect ==
  ASSUME NEW w, Window(w), Texts(w), NEW n \in Turns, NEW v, v = HandleChatStart(w, n)
  PROVE  /\ OnlyTurn(w, v, n) /\ v.queued[n] = w.queued[n]
         /\ v.msg[n].status = "streaming" /\ v.msg[n].text = << >>
<1> DEFINE m == [status |-> "streaming", text |-> << >>, numbered |-> TRUE]
<1>1. /\ v.again = w.again /\ v.status = "streaming" /\ v.queued = w.queued
      /\ v.msg = [w.msg EXCEPT ![n] = m]
  BY DEF HandleChatStart, Window
<1>2. m.status = "streaming" /\ m.text = << >>
  OBVIOUS
<1> HIDE DEF m
<1> QED BY <1>1, <1>2 DEF Window, Texts, OnlyTurn

LEMMA ChunkEffect ==
  ASSUME NEW w, Window(w), Texts(w), NEW n \in Turns, NEW i, NEW v, v = HandleChatChunk(w, n, i)
  PROVE  /\ OnlyTurn(w, v, n) /\ v.msg[n].status = w.msg[n].status
         /\ \/ v.queued[n] = Append(w.queued[n], i) /\ v.msg[n].text = w.msg[n].text
            \/ v.queued[n] = w.queued[n] /\ w.msg[n].status = "none"
               /\ v.msg[n].text = w.msg[n].text
            \/ v.queued[n] = w.queued[n] /\ w.msg[n].status # "none"
               /\ v.msg[n].text = Append(w.msg[n].text, i)
<1>1. CASE w.status \in {"idle", "joining"}
  <2>1. v = [w EXCEPT !.queued[n] = Append(@, i)]
    BY <1>1 DEF HandleChatChunk
  <2>2. /\ v.status = w.status /\ v.again = w.again /\ v.msg = w.msg
        /\ v.queued = [w.queued EXCEPT ![n] = Append(@, i)]
    BY <2>1 DEF Window
  <2> QED BY <2>2 DEF Texts, OnlyTurn
<1>2. CASE w.status \notin {"idle", "joining"} /\ w.msg[n].status = "none"
  <2>1. v = w
    BY <1>2 DEF HandleChatChunk
  <2> QED BY <1>2, <2>1 DEF Texts, OnlyTurn
<1>3. CASE w.status \notin {"idle", "joining"} /\ w.msg[n].status # "none"
  <2>1. v = [w EXCEPT !.msg[n].text = Append(@, i)]
    BY <1>3 DEF HandleChatChunk
  <2>2. /\ v.status = w.status /\ v.again = w.again /\ v.queued = w.queued
        /\ v.msg = [w.msg EXCEPT ![n].text = Append(@, i)]
    BY <2>1 DEF Window
  <2>3. /\ \A k \in Turns \ {n} : v.msg[k] = w.msg[k]
        /\ v.msg[n].status = w.msg[n].status /\ v.msg[n].text = Append(w.msg[n].text, i)
    BY <2>2 DEF Window
  <2> QED BY <1>3, <2>2, <2>3 DEF Texts, OnlyTurn
<1> QED BY <1>1, <1>2, <1>3

LEMMA EndEffect ==
  ASSUME NEW w, Window(w), NEW n \in Turns, NEW v, v = AfterEnd(w, n)
  PROVE  /\ v.again = w.again /\ v.msg = w.msg /\ v.queued = w.queued /\ DOMAIN v = DOMAIN w
         /\ v.status = "idle" => w.status = "idle"
BY DEF AfterEnd, Window

LEMMA DoneEffect ==
  ASSUME NEW w, Window(w), Texts(w), NEW n \in Turns, NEW said,
         NEW v, v = HandleChatDone(w, n, said)
  PROVE  /\ OnlyTurn(w, v, n) /\ v.queued[n] = w.queued[n]
         /\ v.msg[n].status = "completed"
         /\ v.msg[n].text = IF w.msg[n].text = << >> THEN UpTo(said) ELSE w.msg[n].text
<1> DEFINE e == AfterEnd(w, n)
           m == [status |-> "completed", numbered |-> TRUE,
                 text |-> IF e.msg[n].text = << >> THEN UpTo(said) ELSE e.msg[n].text]
<1>1. /\ e.again = w.again /\ e.msg = w.msg /\ e.queued = w.queued /\ DOMAIN e = DOMAIN w
      /\ e.status = "idle" => w.status = "idle"
  BY EndEffect
<1>2. v = [e EXCEPT !.msg[n] = m]
  BY DEF HandleChatDone
<1>3. /\ m.status = "completed"
      /\ m.text = IF w.msg[n].text = << >> THEN UpTo(said) ELSE w.msg[n].text
  BY <1>1
<1> HIDE DEF e, m
<1>4. /\ v.again = e.again /\ v.status = e.status /\ v.queued = e.queued
      /\ v.msg = [e.msg EXCEPT ![n] = m]
  BY <1>1, <1>2 DEF Window
<1>5. v.msg[n] = m /\ \A k \in Turns \ {n} : v.msg[k] = w.msg[k]
  BY <1>1, <1>4 DEF Window
<1> QED BY <1>1, <1>3, <1>4, <1>5 DEF Texts, OnlyTurn

\* An error or a cancel leaves the text alone.
LEMMA ErrorEffect ==
  ASSUME NEW w, Window(w), Texts(w), NEW n \in Turns,
         NEW v, v = HandleChatError(w, n) \/ v = HandleChatCancelled(w, n)
  PROVE  /\ OnlyTurn(w, v, n) /\ v.queued[n] = w.queued[n]
         /\ v.msg[n].text = w.msg[n].text
         /\ v.msg[n].status # "streaming" /\ (v.msg[n].status = "none" <=> w.msg[n].status = "none")
<1>1. CASE w.msg[n].status = "none"
  <2>1. v = w
    BY <1>1 DEF HandleChatError, HandleChatCancelled
  <2> QED BY <1>1, <2>1 DEF OnlyTurn, Texts
<1>2. CASE w.msg[n].status # "none" /\ v = HandleChatError(w, n)
  <2>1. v = [w EXCEPT !.status = "error", !.msg[n].status = "error", !.msg[n].numbered = TRUE]
    BY <1>2 DEF HandleChatError
  <2>2. /\ v.status = "error" /\ v.again = w.again /\ v.queued = w.queued
        /\ v.msg = [w.msg EXCEPT ![n].status = "error", ![n].numbered = TRUE]
    BY <2>1 DEF Window
  <2>3. /\ \A k \in Turns \ {n} : v.msg[k] = w.msg[k]
        /\ v.msg[n].status = "error" /\ v.msg[n].text = w.msg[n].text
    BY <2>2 DEF Window
  <2> QED BY <1>2, <2>2, <2>3 DEF Texts, OnlyTurn
<1>3. CASE w.msg[n].status # "none" /\ v = HandleChatCancelled(w, n)
  <2> DEFINE e == AfterEnd(w, n)
  <2>1. /\ e.again = w.again /\ e.msg = w.msg /\ e.queued = w.queued /\ DOMAIN e = DOMAIN w
        /\ e.status = "idle" => w.status = "idle"
    BY EndEffect
  <2>2. v = [e EXCEPT !.msg[n].status = "completed"]
    BY <1>3 DEF HandleChatCancelled
  <2> HIDE DEF e
  <2>3. /\ v.status = e.status /\ v.again = e.again /\ v.queued = e.queued
        /\ v.msg = [e.msg EXCEPT ![n].status = "completed"]
    BY <2>1, <2>2 DEF Window
  <2>4. /\ \A k \in Turns \ {n} : v.msg[k] = w.msg[k]
        /\ v.msg[n].status = "completed" /\ v.msg[n].text = w.msg[n].text
    BY <2>1, <2>3 DEF Window
  <2> QED BY <1>3, <2>1, <2>3, <2>4 DEF Texts, OnlyTurn
<1> QED BY <1>1, <1>2, <1>3

\* Any event.
LEMMA HandleEffect ==
  ASSUME NEW w, Window(w), Texts(w), NEW e \in Events, NEW v, v = Handle(w, e)
  PROVE  OnlyTurn(w, v, e.turn)
BY StartEffect, ChunkEffect, DoneEffect, ErrorEffect DEF Handle, Events, EventKinds

\* An answer that is taken.
LEMMA SyncedEffect ==
  ASSUME NEW w, Window(w), NEW ack, NEW v \in Synced(w, ack)
  PROVE  /\ v.again = w.again /\ v.status \in {"ready", "streaming"} /\ v.queued = w.queued
         /\ \A n \in Turns : v.msg[n] = WithStreamingInfo(
              BuildMessage(w.msg[n], ack.rows[n], n, ack.info), n, ack.info)
<1> DEFINE msg == [n \in Turns |-> WithStreamingInfo(
                     BuildMessage(w.msg[n], ack.rows[n], n, ack.info), n, ack.info)]
           streaming == {n \in Turns : msg[n].status = "streaming"}
           told == {n \in Turns : ack.rows[n] # "none"
                                    /\ \A m \in Turns : ack.rows[m] # "none" => m <= n}
           read == CHOOSE r \in told \cup {w.read} : \A k \in told \cup {w.read} : k <= r
           synced == [w EXCEPT !.msg = msg, !.read = read]
<1>1. /\ DOMAIN synced = DOMAIN w /\ synced.msg = msg
      /\ synced.queued = w.queued /\ synced.again = w.again
  BY DEF Window
<1>2. v \in IF streaming = {} THEN {[synced EXCEPT !.status = "ready", !.streaming = 0]}
            ELSE {[synced EXCEPT !.status = "streaming", !.streaming = n] : n \in streaming}
  BY DEF Synced
<1>3. \A n \in Turns : msg[n] = WithStreamingInfo(
              BuildMessage(w.msg[n], ack.rows[n], n, ack.info), n, ack.info)
  OBVIOUS
<1> HIDE DEF msg, streaming, read, synced
<1>4. CASE streaming = {}
  <2>1. v = [synced EXCEPT !.status = "ready", !.streaming = 0]
    BY <1>2, <1>4
  <2> QED BY <1>1, <1>3, <2>1 DEF Window
<1>5. CASE streaming # {}
  <2>1. PICK n \in streaming : v = [synced EXCEPT !.status = "streaming", !.streaming = n]
    BY <1>2, <1>5
  <2> QED BY <1>1, <1>3, <2>1 DEF Window
<1> QED BY <1>4, <1>5

\* The queue is applied.
LEMMA ApplyEffect ==
  ASSUME NEW w, Window(w), Texts(w), NEW v, v = ApplyPendingChunks(w)
  PROVE  /\ v.again = w.again /\ v.status = w.status /\ v.queued = NoChunks
         /\ \A n \in Turns :
              /\ v.msg[n].status = w.msg[n].status
              /\ v.msg[n].text = IF w.msg[n].status = "none" THEN w.msg[n].text
                                 ELSE w.msg[n].text \o w.queued[n]
<1> DEFINE msg == [n \in Turns |-> IF w.msg[n].status = "none" THEN w.msg[n]
                                   ELSE [w.msg[n] EXCEPT !.text = w.msg[n].text \o w.queued[n]]]
<1>1. v = [w EXCEPT !.queued = NoChunks, !.msg = msg]
  BY DEF ApplyPendingChunks
<1>2. \A n \in Turns : /\ msg[n].status = w.msg[n].status
                       /\ msg[n].text = IF w.msg[n].status = "none" THEN w.msg[n].text
                                        ELSE w.msg[n].text \o w.queued[n]
  BY DEF Window
<1> HIDE DEF msg
<1>3. v.msg = msg /\ v.again = w.again /\ v.status = w.status /\ v.queued = NoChunks
  BY <1>1 DEF Window
<1> QED BY <1>2, <1>3

(***************************************************************************)
(* The joins                                                               *)
(***************************************************************************)
LEMMA LeastNumber == ASSUME NEW S \in SUBSET Nat, S # {} PROVE \E m \in S : \A k \in S : m <= k
<1> DEFINE R == OpToRel(<, Nat)
<1>1. IsWellFoundedOn(R, Nat)
  BY NatLessThanWellFounded
<1>2. \A x, y \in Nat : << y, x >> \in R <=> y < x
  BY DEF OpToRel
<1> HIDE DEF R
<1>3. PICK m \in S : \A k \in S : << k, m >> \notin R
  BY <1>1, WFMin
<1>4. \A k \in S : m <= k
  <2> SUFFICES ASSUME NEW k \in S PROVE m <= k
    OBVIOUS
  <2>1. m \in Nat /\ k \in Nat
    OBVIOUS
  <2>2. ~(k < m)
    BY <1>2, <1>3, <2>1
  <2> QED BY <2>1, <2>2
<1> QED BY <1>4

\* What get_active_streaming finds is what the turns say.
LEMMA ActiveIs ==
  ASSUME Backend
  PROVE  /\ Active \in [turn : Turns \cup {0}, len : 0..MaxChunks]
         /\ \A n \in Turns : Active.turn = n => Active.len = turn[n].said /\ ~turn[n].cleaned
         /\ \A n \in Turns : turn[n].status = "running" /\ Active.turn # n => turn[n].said = 0
<1> DEFINE running == {n \in Turns : turn[n].status = "running"}
           newest == CHOOSE n \in running : \A m \in running : m <= n
           n == CASE mark # 0 -> mark
                  [] mark = 0 /\ running # {} -> newest
                  [] OTHER -> 0
           len == IF n = 0 \/ turn[n].cleaned THEN 0 ELSE turn[n].said
<1>1. Active.turn = n /\ Active.len = len /\ Active = [turn |-> n, len |-> len]
  BY DEF Active
<1>2. \A k, m \in running : k = m
  <2> SUFFICES ASSUME NEW k \in running, NEW m \in running, k < m PROVE FALSE
    BY TurnsPositive
  <2> QED BY OverNot DEF Backend, InOrder
<1>3. running # {} => newest \in running /\ \A m \in running : m = newest
  <2> SUFFICES ASSUME running # {} PROVE newest \in running
    BY <1>2
  <2>1. PICK k \in running : k \in Nat
    BY TurnsPositive
  <2>2. \A m \in running : m <= k
    BY <1>2, <2>1
  <2> QED BY <2>1, <2>2
<1> HIDE DEF running, newest
<1>4. n \in Turns \cup {0}
  BY <1>3 DEF Backend, TurnsOK, running
<1>5. n \in Turns => ~turn[n].cleaned
  <2>1. n # 0 => n = mark \/ (n \in running /\ mark = 0)
    BY <1>3
  <2>2. mark \in Turns => ~turn[mark].cleaned
    BY DEF Backend, Phases, Phase
  <2>3. \A m \in running : ~turn[m].cleaned
    BY OverNot DEF Backend, Phases, Phase, running
  <2> QED BY <2>1, <2>2, <2>3, TurnsPositive
<1>6. \A m \in Turns : turn[m].said \in 0..MaxChunks
  BY DEF Backend, TurnsOK
<1>7. 0 \in 0..MaxChunks
  BY StreamBoundsAssumption
<1>8. len \in 0..MaxChunks
  BY <1>4, <1>6, <1>7
<1>9. ASSUME NEW m \in Turns, turn[m].status = "running", n # m
      PROVE  turn[m].said = 0
  <2>1. m \in running
    BY <1>9 DEF running
  <2>2. mark # 0 /\ mark # m
    BY <1>3, <1>9, <2>1
  <2> QED BY <1>9, <2>2 DEF Backend, Phases, Phase
<1>10. \A m \in Turns : n = m => len = turn[m].said /\ ~turn[m].cleaned
  BY <1>5, TurnsPositive
<1> HIDE DEF n, len
<1> QED BY <1>1, <1>4, <1>8, <1>9, <1>10

Free(js) == \E j \in Joins : js[j] = NoJoin
Used(js) == {j \in Joins : js[j] # NoJoin}

\* A recovery takes a join that is free.
LEMMA JoiningTakes ==
  ASSUME NEW w, Window(w), NEW js, JoinsOK(js), Free(js), NEW inner, Joining(w, js, inner)
  PROVE  /\ win'.msg = w.msg /\ win'.queued = w.queued /\ win'.status = "joining" /\ ~win'.again
         /\ \E j \in Joins : /\ js[j] = NoJoin
                             /\ join'[j].at = "asked" /\ join'[j].rows = NoJoin.rows
                             /\ join'[j].info = NoJoin.info
                             /\ \A k \in Joins \ {j} : join'[k] = js[k]
<1> DEFINE F == {j \in Joins : js[j] = NoJoin}
           free == CHOOSE j \in Joins : js[j] = NoJoin /\ \A k \in 1..(j - 1) : js[k] # NoJoin
           asked == [NoJoin EXCEPT !.at = "asked", !.after = MaxMessageId(w), !.inner = inner]
<1>1. /\ win' = [w EXCEPT !.status = "joining", !.again = FALSE]
      /\ join' = [js EXCEPT ![free] = asked]
  BY DEF Joining
<1>2. asked.at = "asked" /\ asked.rows = NoJoin.rows /\ asked.info = NoJoin.info
  BY DEF NoJoin
<1>3. Joins \subseteq Nat /\ \A j \in Joins : 1..(j - 1) \subseteq Joins
  BY StreamBoundsAssumption DEF Joins
<1>4. PICK m \in F : \A k \in F : m <= k
  <2>1. F \in SUBSET Nat /\ F # {}
    BY <1>3 DEF Free
  <2> HIDE DEF F
  <2> QED BY <2>1, LeastNumber
<1>5. \A k \in 1..(m - 1) : js[k] # NoJoin
  <2> SUFFICES ASSUME NEW k \in 1..(m - 1), js[k] = NoJoin PROVE FALSE
    OBVIOUS
  <2>1. k \in F
    BY <1>3, <1>4
  <2>2. m <= k
    BY <1>4, <2>1
  <2> QED BY <1>3, <1>4, <2>2
<1>6. free \in Joins /\ js[free] = NoJoin
  BY <1>4, <1>5
<1>7. win'.msg = w.msg /\ win'.queued = w.queued /\ win'.status = "joining" /\ ~win'.again
  BY <1>1 DEF Window
<1> HIDE DEF free, asked
<1>8. join'[free] = asked /\ \A k \in Joins \ {free} : join'[k] = js[k]
  BY <1>1, <1>6 DEF JoinsOK
<1> QED BY <1>2, <1>6, <1>7, <1>8

LEMMA JoinsCount == IsFiniteSet(Joins) /\ Cardinality(Joins) = 1 + MaxRecoveries + MaxBreaks
<1>1. /\ 1 \in Int /\ (1 + MaxRecoveries + MaxBreaks) \in Int
      /\ MaxRecoveries \in Nat /\ MaxBreaks \in Nat
  BY StreamBoundsAssumption
<1> QED BY <1>1, FS_Interval DEF Joins

LEMMA UsedFinite ==
  ASSUME NEW js
  PROVE  /\ IsFiniteSet(Used(js)) /\ Cardinality(Used(js)) \in Nat
         /\ Cardinality(Used(js)) <= MaxRecoveries + MaxBreaks => Free(js)
<1>1. Used(js) \in SUBSET Joins
  BY DEF Used
<1>2. /\ IsFiniteSet(Used(js))
      /\ Cardinality(Joins) = Cardinality(Used(js)) => Joins = Used(js)
  BY <1>1, JoinsCount, FS_Subset
<1>3. Cardinality(Used(js)) \in Nat
  BY <1>2, FS_CardinalityType
<1>4. ~Free(js) => Used(js) = Joins
  BY DEF Used, Free
<1>5. MaxRecoveries \in Nat /\ MaxBreaks \in Nat
  BY StreamBoundsAssumption
<1> QED BY <1>2, <1>3, <1>4, <1>5, JoinsCount

LEMMA UsedLess ==
  ASSUME NEW js, NEW ks, \A j \in Joins : js[j] = NoJoin => ks[j] = NoJoin
  PROVE  Cardinality(Used(ks)) <= Cardinality(Used(js))
<1>1. Used(ks) \in SUBSET Used(js)
  BY DEF Used
<1>2. IsFiniteSet(Used(js))
  BY UsedFinite
<1> QED BY <1>1, <1>2, FS_Subset

LEMMA UsedMore ==
  ASSUME NEW js, NEW ks, NEW j \in Joins, \A k \in Joins \ {j} : ks[k] = js[k]
  PROVE  Cardinality(Used(ks)) <= Cardinality(Used(js)) + 1
<1>1. IsFiniteSet(Used(js)) /\ Cardinality(Used(js)) \in Nat /\ Cardinality(Used(ks)) \in Nat
  BY UsedFinite
<1>2. /\ IsFiniteSet(Used(js) \cup {j})
      /\ Cardinality(Used(js) \cup {j}) <= Cardinality(Used(js)) + 1
  <2>1. /\ IsFiniteSet(Used(js) \cup {j})
        /\ Cardinality(Used(js) \cup {j}) =
             IF j \in Used(js) THEN Cardinality(Used(js)) ELSE Cardinality(Used(js)) + 1
    BY <1>1, FS_AddElement
  <2> QED BY <1>1, <2>1
<1>3. Used(ks) \in SUBSET (Used(js) \cup {j})
  BY DEF Used
<1>4. Cardinality(Used(ks)) <= Cardinality(Used(js) \cup {j})
  BY <1>2, <1>3, FS_Subset
<1>5. Cardinality(Used(js) \cup {j}) \in Nat
  BY <1>2, FS_CardinalityType
<1> QED BY <1>1, <1>2, <1>4, <1>5

\* What a join has read and answers.
JoinTypes ==
  \A j \in Joins :
    /\ join[j].rows \in [Turns -> TurnStatuses]
    /\ join[j].info \in [turn : Turns \cup {0}, len : 0..MaxChunks]
    /\ \A n \in Turns : join[j].rows[n] = "failed" => turn[n].status = "failed"

\* The room is left only with the connection.
InRoom ==
  /\ wire # << >> => room
  /\ \A j \in Joins : join[j].at \in {"entered", "read", "answered"} => room

\* There is a free join for every recovery that may still be asked for.
One(b) == IF b THEN 1 ELSE 0
JoinsLast ==
  Cardinality(Used(join)) + One(win.status = "idle") + One(win.again) + One(~link)
    <= 1 + recoveries + breaks

JInv == JoinTypes /\ InRoom /\ JoinsLast

LEMMA Ones == \A b \in BOOLEAN : One(b) \in {0, 1} /\ (b => One(b) = 1) /\ (~b => One(b) = 0)
BY DEF One

LEMMA NoJoinData ==
  /\ NoJoin.rows \in [Turns -> TurnStatuses] /\ \A n \in Turns : NoJoin.rows[n] = "none"
  /\ NoJoin.info \in [turn : Turns \cup {0}, len : 0..MaxChunks] /\ NoJoin.info.turn = 0
BY StreamBoundsAssumption DEF NoJoin, TurnStatuses

LEMMA OverStays ==
  ASSUME TurnsOK, [Next]_vars
  PROVE  \A n \in Turns : Over(n) => /\ turn'[n].status = turn[n].status
                                     /\ turn'[n].said = turn[n].said
<1> SUFFICES ASSUME NEW m \in Turns, Over(m)
             PROVE  turn'[m].status = turn[m].status /\ turn'[m].said = turn[m].said
  OBVIOUS
<1>1. ASSUME NEW n \in Turns, Work(n)
      PROVE  turn'[m].status = turn[m].status /\ turn'[m].said = turn[m].said
  BY <1>1, OverNot DEF TurnsOK, Work, Send, DispatchTurn, Start, AddTextContent, UpdateStatus,
                       CleanupStreamingState, Emit
<1>2. ASSUME UNCHANGED backend
      PROVE  turn'[m].status = turn[m].status /\ turn'[m].said = turn[m].said
  BY <1>2 DEF backend
<1> QED BY <1>1, <1>2, OnlyWorkMoves

LEMMA JInvInit == Init => JInv
<1> SUFFICES ASSUME Init PROVE JInv
  OBVIOUS
<1>1. \A j \in Joins : join[j] = NoJoin
  BY DEF Init
<1>2. JoinTypes
  BY <1>1, NoJoinData DEF JoinTypes
<1>3. InRoom
  BY <1>1, NoJoinShape DEF Init, InRoom
<1>4. Used(join) = {}
  BY <1>1 DEF Used
<1>5. win.status = "idle" /\ win.again = FALSE /\ link = TRUE /\ recoveries = 0 /\ breaks = 0
  BY DEF Init
<1>6. JoinsLast
  BY <1>4, <1>5, FS_EmptySet DEF JoinsLast, One
<1> QED BY <1>2, <1>3, <1>6 DEF JInv

\* No join is asked for.
LEMMA JoinsFrame ==
  ASSUME IInv, JInv, [Next]_vars, \A j \in Joins : join'[j] \in {join[j], NoJoin}, link' = link,
         room => room', wire' # << >> => wire # << >> \/ room',
         recoveries' = recoveries, breaks' = breaks,
         win'.again = win.again, win'.status = "idle" => win.status = "idle"
  PROVE  JInv'
<1>1. JoinTypes'
  BY OverStays, OverNot, NoJoinData DEF JInv, JoinTypes, IInv, Over, Outcomes
<1>2. InRoom'
  BY NoJoinShape DEF JInv, InRoom
<1>3. /\ Cardinality(Used(join')) <= Cardinality(Used(join))
      /\ Cardinality(Used(join)) \in Nat /\ Cardinality(Used(join')) \in Nat
  BY UsedFinite, UsedLess
<1>4. /\ One(win'.status = "idle") \in {0, 1} /\ One(win.status = "idle") \in {0, 1}
      /\ One(win'.status = "idle") <= One(win.status = "idle")
  BY DEF One
<1>5. One(win.again) \in {0, 1} /\ One(~link) \in {0, 1}
  BY DEF One
<1>6. recoveries \in Nat /\ breaks \in Nat
  BY StreamBoundsAssumption DEF IInv, Scalars
<1>7. /\ One(win'.again) = One(win.again) /\ One(~link') = One(~link)
      /\ recoveries' = recoveries /\ breaks' = breaks
  OBVIOUS
<1>8. Cardinality(Used(join')) + One(win'.status = "idle") + One(win.again) + One(~link)
        <= 1 + recoveries + breaks
  BY <1>3, <1>4, <1>5, <1>6 DEF JInv, JoinsLast
<1>9. JoinsLast'
  BY <1>7, <1>8 DEF JoinsLast
<1> QED BY <1>1, <1>2, <1>9 DEF JInv

\* One join goes a step further.
LEMMA JoinMoves ==
  ASSUME IInv, JInv, NEW j \in Joins, join[j] # NoJoin,
         UNCHANGED << turn, win, link, recoveries, breaks >>,
         \A k \in Joins \ {j} : join'[k] = join[k],
         join'[j].rows \in [Turns -> TurnStatuses],
         join'[j].info \in [turn : Turns \cup {0}, len : 0..MaxChunks],
         \A n \in Turns : join'[j].rows[n] = "failed" => turn[n].status = "failed",
         room', wire' # << >> => room'
  PROVE  JInv'
<1>1. JoinTypes'
  BY DEF JInv, JoinTypes
<1>2. InRoom'
  BY DEF JInv, InRoom
<1>3. Cardinality(Used(join')) <= Cardinality(Used(join))
  BY UsedLess
<1>4. Cardinality(Used(join')) \in Nat /\ Cardinality(Used(join)) \in Nat
  BY UsedFinite
<1>5. recoveries \in Nat /\ breaks \in Nat
  BY StreamBoundsAssumption DEF IInv, Scalars
<1>6. One(win.status = "idle") \in {0, 1} /\ One(win.again) \in {0, 1} /\ One(~link) \in {0, 1}
  BY DEF One
<1>7. /\ One(win'.status = "idle") = One(win.status = "idle")
      /\ One(win'.again) = One(win.again) /\ One(~link') = One(~link)
      /\ recoveries' = recoveries /\ breaks' = breaks
  OBVIOUS
<1>8. Cardinality(Used(join')) + One(win.status = "idle") + One(win.again) + One(~link)
        <= 1 + recoveries + breaks
  BY <1>3, <1>4, <1>5, <1>6 DEF JInv, JoinsLast
<1>9. JoinsLast'
  BY <1>7, <1>8 DEF JoinsLast
<1> QED BY <1>1, <1>2, <1>9 DEF JInv

\* A recovery starts.
LEMMA JoiningStarts ==
  ASSUME IInv, JInv, NEW w, Window(w), NEW js, JoinsOK(js), NEW inner, Joining(w, js, inner),
         UNCHANGED << turn, room, link, breaks >>,
         recoveries' \in Nat, wire' # << >> => wire # << >>,
         \A j \in Joins : js[j] \in {join[j], NoJoin},
         Cardinality(Used(join)) + 1 + One(~link) <= 1 + recoveries' + breaks,
         recoveries' <= MaxRecoveries
  PROVE  JInv' /\ Free(js)
<1>0. /\ recoveries \in Nat /\ breaks \in 0..MaxBreaks /\ MaxBreaks \in Nat /\ MaxRecoveries \in Nat
  BY StreamBoundsAssumption DEF IInv, Scalars
<1>1. Cardinality(Used(js)) <= Cardinality(Used(join))
  BY UsedLess
<1>2. Cardinality(Used(js)) \in Nat /\ Cardinality(Used(join)) \in Nat /\ One(~link) \in {0, 1}
  BY UsedFinite, Ones
<1>3. Free(js)
  <2>1. Cardinality(Used(js)) <= MaxRecoveries + MaxBreaks
    BY <1>0, <1>1, <1>2
  <2> QED BY <2>1, UsedFinite
<1>4. PICK j \in Joins : /\ js[j] = NoJoin
                         /\ join'[j].at = "asked" /\ join'[j].rows = NoJoin.rows
                         /\ join'[j].info = NoJoin.info
                         /\ \A k \in Joins \ {j} : join'[k] = js[k]
  BY <1>3, JoiningTakes
<1>5. win'.status = "joining" /\ ~win'.again
  BY <1>3, JoiningTakes
<1>6. JoinTypes'
  BY <1>4, NoJoinData DEF JInv, JoinTypes
<1>7. InRoom'
  BY <1>4, NoJoinShape DEF JInv, InRoom
<1>8. /\ Cardinality(Used(join')) <= Cardinality(Used(js)) + 1
      /\ Cardinality(Used(join')) \in Nat
  BY <1>4, UsedMore, UsedFinite
<1>9. One(win'.status = "idle") = 0 /\ One(win'.again) = 0 /\ One(~link') = One(~link)
  BY <1>5 DEF One
<1>10. JoinsLast'
  <2>1. Cardinality(Used(join')) + 0 + 0 + One(~link) <= 1 + recoveries' + breaks
    BY <1>0, <1>1, <1>2, <1>8
  <2> QED BY <1>9, <2>1 DEF JoinsLast
<1> QED BY <1>3, <1>6, <1>7, <1>10 DEF JInv

\* A recovery that is due: there is a join for it.
LEMMA RoomForOne ==
  ASSUME IInv, JInv, NEW r, \/ r = recoveries /\ (win.status = "idle" \/ win.again)
                            \/ r = recoveries + 1
  PROVE  Cardinality(Used(join)) + 1 + One(~link) <= 1 + r + breaks
<1>1. Cardinality(Used(join)) \in Nat /\ recoveries \in Nat /\ breaks \in Nat
  BY UsedFinite, StreamBoundsAssumption DEF IInv, Scalars
<1>2. /\ One(win.status = "idle") \in {0, 1} /\ One(win.again) \in {0, 1} /\ One(~link) \in {0, 1}
      /\ win.status = "idle" => One(win.status = "idle") = 1
      /\ win.again => One(win.again) = 1
  BY DEF One
<1> QED BY <1>1, <1>2 DEF JInv, JoinsLast

LEMMA WorkJInv == ASSUME IInv, JInv, NEW n \in Turns, Work(n) PROVE JInv'
<1>1. [Next]_vars /\ join' = join /\ link' = link /\ recoveries' = recoveries /\ breaks' = breaks
  BY DEF Next, Work, Send, DispatchTurn, Start, AddTextContent, UpdateStatus,
         CleanupStreamingState, Emit, net
<1>2. (room => room') /\ (wire' # << >> => wire # << >> \/ room')
  BY DEF Work, Send, DispatchTurn, Start, AddTextContent, UpdateStatus,
         CleanupStreamingState, Emit, net
<1>3. win'.again = win.again /\ win'.status = win.status
  BY DEF Work, Send, DispatchTurn, Start, AddTextContent, UpdateStatus,
         CleanupStreamingState, Emit, IInv, Window
<1> QED BY <1>1, <1>2, <1>3, JoinsFrame

LEMMA JoinJInv == ASSUME IInv, JInv, Backend, NEW j \in Joins, JoinStep(j) PROVE JInv'
<1>1. join[j].at \in {"asked", "entered", "read"} /\ join[j] # NoJoin
  BY NoJoinShape DEF JoinStep, EnterRoom, ReadSubtasks, AnswerJoin
<1>2. UNCHANGED << turn, win, link, recoveries, breaks >>
  BY DEF JoinStep, EnterRoom, ReadSubtasks, AnswerJoin, backend, net
<1>3. room' /\ \A k \in Joins \ {j} : join'[k] = join[k]
  BY DEF JoinStep, EnterRoom, ReadSubtasks, AnswerJoin, net, IInv, JoinsOK, JInv, InRoom
<1>4. CASE EnterRoom(j)
  <2>1. join'[j].rows = join[j].rows /\ join'[j].info = join[j].info
    BY <1>4 DEF EnterRoom, IInv, JoinsOK
  <2> QED BY <1>1, <1>2, <1>3, <2>1, JoinMoves DEF JInv, JoinTypes
<1>5. CASE ReadSubtasks(j)
  <2> DEFINE rows == [n \in Turns |-> IF 2 * n > join[j].after THEN turn[n].status ELSE "none"]
  <2>1. join'[j].rows = rows /\ join'[j].info = join[j].info
    BY <1>5 DEF ReadSubtasks, IInv, JoinsOK
  <2>2. rows \in [Turns -> TurnStatuses] /\ \A n \in Turns : rows[n] \in {turn[n].status, "none"}
    BY DEF IInv, TurnsOK, TurnStatuses
  <2> HIDE DEF rows
  <2> QED BY <1>1, <1>2, <1>3, <2>1, <2>2, JoinMoves DEF JInv, JoinTypes
<1>6. CASE AnswerJoin(j)
  <2>1. join'[j].rows = join[j].rows /\ join'[j].info = Active
    BY <1>6 DEF AnswerJoin, IInv, JoinsOK
  <2> QED BY <1>1, <1>2, <1>3, <2>1, ActiveIs, JoinMoves DEF JInv, JoinTypes
<1> QED BY <1>4, <1>5, <1>6 DEF JoinStep

LEMMA ReceiveEventJInv ==
  ASSUME IInv, JInv, Texts(win), ReceiveEvent
  PROVE  JInv' /\ (Due(Handle(win, Head(wire))) => Free(join))
<1> DEFINE e == Head(wire)
           w == Handle(win, e)
<1>1. e \in Events /\ wire # << >>
  BY WireReceive DEF IInv, ReceiveEvent
<1>2. Window(w) /\ w.again = win.again /\ (w.status = "idle" => win.status = "idle")
  BY <1>1, HandleKeeps, HandleEffect DEF IInv, OnlyTurn
<1>3. IF Due(w) THEN Joining(w, join, FALSE) ELSE win' = w /\ UNCHANGED join
  BY DEF ReceiveEvent
<1>4. UNCHANGED << turn, room, link, recoveries, breaks >>
  BY DEF ReceiveEvent, backend
<1>5. [Next]_vars
  BY DEF Next, Receive
<1> HIDE DEF w
<1>6. ASSUME Due(w) PROVE JInv' /\ Free(join)
  <2>1. Joining(w, join, FALSE)
    BY <1>3, <1>6
  <2>2. Cardinality(Used(join)) + 1 + One(~link) <= 1 + recoveries' + breaks
    BY <1>2, <1>4, <1>6, RoomForOne DEF Due
  <2>3. recoveries' \in Nat /\ recoveries' <= MaxRecoveries
    BY <1>4, StreamBoundsAssumption DEF IInv, Scalars
  <2>4. JoinsOK(join)
    BY DEF IInv
  <2> QED BY <1>1, <1>2, <1>4, <2>1, <2>2, <2>3, <2>4, JoiningStarts
<1>7. ASSUME ~Due(w) PROVE JInv'
  BY <1>1, <1>2, <1>3, <1>4, <1>5, <1>7, JoinsFrame
<1> QED BY <1>6, <1>7 DEF w

\* What is done with an answer, with the state of the window in between.
AnswerTaken(w, js, inner) ==
  LET j == Head(wire).turn
  IN /\ j \in Joins /\ wire # << >> /\ Head(wire).kind = "answer" /\ wire' = Tail(wire)
     /\ js = [join EXCEPT ![j] = NoJoin]
     /\ inner = (win.status = "joining" \/ join[j].inner)
     /\ IF win.status = "joining" THEN w \in Synced(win, join[j]) ELSE w = win
     /\ IF Due(w) THEN Joining(w, js, inner)
        ELSE /\ win' = IF inner THEN ApplyPendingChunks(w) ELSE w
             /\ join' = js
     /\ UNCHANGED << backend, link, room, rejoin, recoveries, breaks, history >>

LEMMA AnswerIsTaken ==
  ASSUME IInv, ReceiveAnswer PROVE \E w, js, inner : AnswerTaken(w, js, inner)
<1> DEFINE j == Head(wire).turn
           others == [join EXCEPT ![j] = NoJoin]
           joined == win.status = "joining"
           inner == joined \/ join[j].inner
<1>1. PICK w \in (IF joined THEN Synced(win, join[j]) ELSE {win}) :
        IF Due(w) THEN Joining(w, others, inner)
        ELSE /\ win' = IF inner THEN ApplyPendingChunks(w) ELSE w
             /\ join' = others
  BY DEF ReceiveAnswer
<1>2. Head(wire) \in Answers
  BY WireReceive DEF ReceiveAnswer, IInv, Events, EventKinds
<1>3. j \in Joins
  BY <1>2 DEF Answers
<1>4. AnswerTaken(w, others, inner)
  BY <1>1, <1>3 DEF ReceiveAnswer, AnswerTaken
<1> QED BY <1>4

LEMMA TakenShape ==
  ASSUME IInv, NEW w, NEW js, NEW inner, AnswerTaken(w, js, inner)
  PROVE  /\ Window(w) /\ w.again = win.again /\ w.queued = win.queued
         /\ w.status = "idle" => win.status = "idle"
         /\ JoinsOK(js) /\ \A k \in Joins : js[k] = IF k = Head(wire).turn THEN NoJoin ELSE join[k]
<1>1. CASE win.status = "joining"
  <2>1. w \in Synced(win, join[Head(wire).turn])
    BY <1>1 DEF AnswerTaken
  <2>2. Window(win)
    BY DEF IInv
  <2>3. Window(w) /\ w.again = win.again /\ w.queued = win.queued /\ w.status # "idle"
    BY <2>1, <2>2, SyncedKeeps, SyncedEffect
  <2> QED BY <2>3, NoJoinShape DEF AnswerTaken, IInv, JoinsOK, JoinPhases
<1>2. CASE win.status # "joining"
  BY <1>2, NoJoinShape DEF AnswerTaken, IInv, JoinsOK, JoinPhases
<1> QED BY <1>1, <1>2

LEMMA ReceiveAnswerJInv ==
  ASSUME IInv, JInv, [Next]_vars, Texts(win), NEW w, NEW js, NEW inner, AnswerTaken(w, js, inner)
  PROVE  JInv' /\ (Due(w) => Free(js))
<1>1. /\ Window(w) /\ w.again = win.again /\ (w.status = "idle" => win.status = "idle")
      /\ w.queued = win.queued
      /\ JoinsOK(js) /\ \A k \in Joins : js[k] = IF k = Head(wire).turn THEN NoJoin ELSE join[k]
  BY TakenShape
<1>2. UNCHANGED << turn, room, link, recoveries, breaks >> /\ wire # << >>
  BY DEF AnswerTaken, backend
<1>3. ASSUME Due(w) PROVE JInv' /\ Free(js)
  <2>1. Joining(w, js, inner)
    BY <1>3 DEF AnswerTaken
  <2>2. Cardinality(Used(join)) + 1 + One(~link) <= 1 + recoveries' + breaks
    BY <1>1, <1>2, <1>3, RoomForOne DEF Due
  <2>3. recoveries' \in Nat /\ recoveries' <= MaxRecoveries
    BY <1>2, StreamBoundsAssumption DEF IInv, Scalars
  <2> QED BY <1>1, <1>2, <2>1, <2>2, <2>3, JoiningStarts
<1>4. ASSUME ~Due(w) PROVE JInv'
  <2>1. join' = js /\ (win' = w \/ win' = ApplyPendingChunks(w))
    BY <1>4 DEF AnswerTaken
  <2>2. ApplyPendingChunks(w).again = w.again /\ ApplyPendingChunks(w).status = w.status
    BY <1>1 DEF ApplyPendingChunks, Window
  <2>3. win'.again = win.again /\ (win'.status = "idle" => win.status = "idle")
    BY <1>1, <2>1, <2>2
  <2>4. \A j \in Joins : join'[j] \in {join[j], NoJoin}
    BY <1>1, <2>1
  <2> QED BY <1>2, <2>3, <2>4, JoinsFrame
<1> QED BY <1>3, <1>4

LEMMA OpenJInv == ASSUME IInv, JInv, Open PROVE JInv' /\ Free(join)
<1>1. Joining(win, join, FALSE) /\ win.status = "idle"
  BY DEF Open
<1>2. UNCHANGED << turn, room, wire, link, recoveries, breaks >>
  BY DEF Open, backend, net
<1>3. Cardinality(Used(join)) + 1 + One(~link) <= 1 + recoveries' + breaks
  BY <1>1, <1>2, RoomForOne
<1>4. recoveries' \in Nat /\ recoveries' <= MaxRecoveries /\ Window(win) /\ JoinsOK(join)
  BY <1>2, StreamBoundsAssumption DEF IInv, Scalars
<1> QED BY <1>1, <1>2, <1>3, <1>4, JoiningStarts

LEMMA RecoverJInv ==
  ASSUME IInv, JInv, [Next]_vars, Recover PROVE JInv' /\ (win.status # "joining" => Free(join))
<1>1. UNCHANGED << turn, room, wire, link, breaks >> /\ recoveries' = recoveries + 1
  BY DEF Recover, backend, net
<1>2. recoveries \in Nat /\ recoveries' <= MaxRecoveries /\ Window(win) /\ JoinsOK(join)
  BY <1>1, StreamBoundsAssumption DEF IInv, Scalars, Recover
<1>3. Cardinality(Used(join)) + 1 + One(~link) <= 1 + recoveries' + breaks
  BY <1>1, RoomForOne
<1>4. ASSUME win.status # "joining" PROVE JInv' /\ Free(join)
  <2>1. Joining(win, join, FALSE)
    BY <1>4 DEF Recover
  <2>2. recoveries' \in Nat /\ UNCHANGED << turn, room, link, breaks >> /\ wire' = wire
    BY <1>1, <1>2
  <2>3. recoveries' <= MaxRecoveries /\ Window(win) /\ JoinsOK(join)
    BY <1>2
  <2> QED BY <1>3, <2>1, <2>2, <2>3, JoiningStarts
<1>5. ASSUME win.status = "joining" PROVE JInv'
  <2>1. join' = join /\ win' = [win EXCEPT !.again = TRUE]
    BY <1>5 DEF Recover
  <2>2. win'.status = "joining"
    BY <1>2, <1>5, <2>1 DEF Window
  <2>3. JoinTypes' /\ InRoom'
    BY <1>1, <2>1 DEF JInv, JoinTypes, InRoom
  <2>4. One(win'.status = "idle") = 0 /\ One(~link') = One(~link) /\ breaks' = breaks
    BY <1>1, <2>2 DEF One
  <2>5. One(win'.again) \in {0, 1} /\ One(~link) \in {0, 1}
    BY DEF One
  <2>6. Cardinality(Used(join)) \in Nat /\ breaks \in Nat
    BY UsedFinite, StreamBoundsAssumption DEF IInv, Scalars
  <2>7. Cardinality(Used(join)) + 0 + One(win'.again) + One(~link) <= 1 + recoveries' + breaks
    BY <1>1, <1>2, <1>3, <2>5, <2>6
  <2>8. JoinsLast'
    BY <2>1, <2>4, <2>7 DEF JoinsLast
  <2> QED BY <2>3, <2>8 DEF JInv
<1> QED BY <1>4, <1>5

LEMMA DisconnectJInv == ASSUME IInv, JInv, Disconnect PROVE JInv'
<1>1. /\ \A j \in Joins : join'[j] = NoJoin
      /\ wire' = << >> /\ link /\ link' = FALSE /\ UNCHANGED << turn, win, recoveries >>
      /\ breaks' = breaks + 1
  BY DEF Disconnect, backend
<1>2. JoinTypes' /\ InRoom'
  BY <1>1, NoJoinData, NoJoinShape DEF JInv, JoinTypes, InRoom
<1>3. Cardinality(Used(join')) <= Cardinality(Used(join))
  BY <1>1, UsedLess
<1>4. /\ Cardinality(Used(join')) \in Nat /\ Cardinality(Used(join)) \in Nat
      /\ recoveries \in Nat /\ breaks \in Nat
  BY UsedFinite, StreamBoundsAssumption DEF IInv, Scalars
<1>5. One(win.status = "idle") \in {0, 1} /\ One(win.again) \in {0, 1} /\ One(~link) \in {0, 1}
  BY DEF One
<1>6. /\ One(win'.status = "idle") = One(win.status = "idle")
      /\ One(win'.again) = One(win.again) /\ recoveries' = recoveries
  BY <1>1
<1>7. One(~link') = 1
  BY <1>1 DEF One
<1>8. Cardinality(Used(join')) + One(win.status = "idle") + One(win.again) + 1
        <= 1 + recoveries + breaks'
  BY <1>1, <1>3, <1>4, <1>5 DEF JInv, JoinsLast
<1>9. JoinsLast'
  BY <1>6, <1>7, <1>8 DEF JoinsLast
<1> QED BY <1>2, <1>9 DEF JInv

LEMMA ReconnectJInv == ASSUME IInv, JInv, Reconnect PROVE JInv'
<1>1. /\ UNCHANGED << turn, room, wire, join, recoveries, breaks >>
      /\ ~link /\ link' = TRUE /\ win' = [win EXCEPT !.again = @ \/ win.status = "joining"]
  BY DEF Reconnect, backend
<1>2. win'.status = win.status
  BY <1>1 DEF IInv, Window
<1>3. JoinTypes' /\ InRoom'
  BY <1>1 DEF JInv, JoinTypes, InRoom
<1>4. One(win'.status = "idle") = One(win.status = "idle")
  BY <1>2
<1>5. One(~link) = 1 /\ One(~link') = 0
  BY <1>1 DEF One
<1>6. /\ One(win.status = "idle") \in {0, 1} /\ One(win.again) \in {0, 1}
      /\ One(win'.again) \in {0, 1}
  BY DEF One
<1>7. /\ Cardinality(Used(join)) \in Nat /\ recoveries \in Nat /\ breaks \in Nat
  BY UsedFinite, StreamBoundsAssumption DEF IInv, Scalars
<1>8. Cardinality(Used(join)) + One(win.status = "idle") + One(win'.again) + 0
        <= 1 + recoveries + breaks
  BY <1>5, <1>6, <1>7 DEF JInv, JoinsLast
<1>9. JoinsLast'
  BY <1>1, <1>4, <1>5, <1>8 DEF JoinsLast
<1> QED BY <1>3, <1>9 DEF JInv

(***************************************************************************)
(* What is still to come behind a position of the connection               *)
(***************************************************************************)
ChunkBehind(p, n, i) ==
  \/ \E k \in (p + 1)..Len(wire) : wire[k].kind = "chunk" /\ wire[k].turn = n /\ wire[k].at = i
  \/ turn[n].out = "chunk" /\ turn[n].said = i
EndBehind(p, n) ==
  \/ ~turn[n].cleaned \/ turn[n].out # "none"
  \/ \E k \in (p + 1)..Len(wire) : wire[k].turn = n /\ wire[k].kind \in EndKinds
Behind(p, n, len) ==
  /\ \A i \in (len + 1)..turn[n].said : ChunkBehind(p, n, i)
  /\ EndBehind(p, n)

\* What comes from position p on stays to come while the turns go on, in the room.
LEMMA WorkWire ==
  ASSUME IInv, NEW m \in Turns, Work(m)
  PROVE  /\ UNCHANGED << join, stale >>
         /\ \/ wire' = wire /\ ~Emit(m)
            \/ wire' = wire /\ Emit(m) /\ ~room
            \/ /\ Emit(m) /\ room /\ turn[m].out \in EventKinds
               /\ Len(wire') = Len(wire) + 1 /\ \A k \in 1..Len(wire) : wire'[k] = wire[k]
               /\ wire'[Len(wire) + 1].kind = turn[m].out /\ wire'[Len(wire) + 1].turn = m
               /\ wire'[Len(wire) + 1].at = turn[m].said
<1>1. CASE Emit(m)
  <2>1. CASE room
    <3>1. /\ wire' = Append(wire, Event(turn[m].out, m, turn[m].said))
          /\ wire \in Seq(Events \cup Answers)
      BY <1>1, <2>1 DEF Emit, IInv
    <3>2. turn[m].out \in EventKinds
      BY <1>1 DEF Emit, IInv, TurnsOK
    <3>3. /\ Event(turn[m].out, m, turn[m].said).kind = turn[m].out
          /\ Event(turn[m].out, m, turn[m].said).turn = m
          /\ Event(turn[m].out, m, turn[m].said).at = turn[m].said
      BY DEF Event
    <3> QED BY <1>1, <2>1, <3>1, <3>2, <3>3 DEF Emit
  <2>2. CASE ~room
    BY <1>1, <2>2 DEF Emit
  <2> QED BY <2>1, <2>2
<1>2. CASE ~Emit(m)
  BY <1>2 DEF Work, Send, DispatchTurn, Start, AddTextContent, UpdateStatus,
              CleanupStreamingState, net, history
<1> QED BY <1>1, <1>2

\* What a step that emits nothing does to its turn.
LEMMA WorkTurn ==
  ASSUME Backend, NEW m \in Turns, Work(m), ~Emit(m)
  PROVE  /\ \A n \in Turns \ {m} : turn'[n] = turn[n]
         /\ \/ /\ turn'[m].said = turn[m].said /\ turn'[m].cleaned = turn[m].cleaned
               /\ turn'[m].out = turn[m].out
            \/ /\ turn'[m].said = turn[m].said /\ turn'[m].cleaned = turn[m].cleaned
               /\ ~turn[m].cleaned /\ turn[m].out # "chunk"
            \/ /\ turn'[m].said = turn[m].said + 1 /\ turn'[m].cleaned = turn[m].cleaned
               /\ ~turn[m].cleaned /\ turn[m].out = "none" /\ turn'[m].out = "chunk"
            \/ /\ turn'[m].said = turn[m].said /\ turn'[m].out # "none"
               /\ turn[m].out # "chunk"
<1> USE OverNot DEF Backend, TurnsOK
<1>1. CASE Send(m)
  BY <1>1 DEF Send
<1>2. CASE DispatchTurn(m)
  BY <1>2 DEF DispatchTurn
<1>3. CASE Start(m)
  BY <1>3 DEF Start, Phases, Phase
<1>4. CASE AddTextContent(m)
  BY <1>4 DEF AddTextContent, Phases, Phase
<1>5. ASSUME NEW outcome \in Outcomes, UpdateStatus(m, outcome)
      PROVE  /\ \A n \in Turns \ {m} : turn'[n] = turn[n]
             /\ turn'[m].said = turn[m].said /\ turn'[m].cleaned = turn[m].cleaned
             /\ turn'[m].out = turn[m].out
  BY <1>5 DEF UpdateStatus
<1>6. CASE CleanupStreamingState(m)
  <2>1. EndEvent(turn[m].status) # "none"
    BY DEF EndEvent
  <2> QED BY <1>6, <2>1 DEF CleanupStreamingState, Phases, Phase
<1> QED BY <1>1, <1>2, <1>3, <1>4, <1>5, <1>6 DEF Work

LEMMA EmitTurn ==
  ASSUME Backend, NEW m \in Turns, Emit(m)
  PROVE  /\ \A n \in Turns \ {m} : turn'[n] = turn[n]
         /\ turn'[m].said = turn[m].said /\ turn'[m].cleaned = turn[m].cleaned
         /\ turn'[m].out = "none" /\ turn[m].out # "none"
         /\ turn[m].cleaned => turn[m].out \in EndKinds
BY OverNot DEF Emit, Backend, TurnsOK, Phases, Phase, EventKinds, EndKinds

LEMMA BehindWork ==
  ASSUME IInv, Backend, NEW m \in Turns, Work(m), NEW n \in Turns, NEW p \in 0..Len(wire),
         Emit(m) /\ m = n => room
  PROVE  /\ \A i : ChunkBehind(p, n, i) => ChunkBehind(p, n, i)'
         /\ \A i \in 1..turn'[n].said : i \in 1..turn[n].said \/ ChunkBehind(p, n, i)'
         /\ EndBehind(p, n) => EndBehind(p, n)'
<1>1. Len(wire) \in Nat /\ turn[n].said \in Nat
  BY StreamBoundsAssumption DEF IInv, TurnsOK
<1>2. CASE ~Emit(m)
  <2>1. wire' = wire
    BY <1>2, WorkWire
  <2> QED BY <1>1, <1>2, <2>1, WorkTurn DEF ChunkBehind, EndBehind
<1>3. CASE Emit(m) /\ m # n
  <2>1. turn'[n] = turn[n]
    BY <1>3, EmitTurn
  <2>2. CASE wire' = wire
    BY <1>1, <2>1, <2>2 DEF ChunkBehind, EndBehind
  <2>3. CASE wire' # wire
    <3>1. Len(wire') = Len(wire) + 1 /\ \A k \in 1..Len(wire) : wire'[k] = wire[k]
      BY <2>3, WorkWire
    <3> QED BY <1>1, <2>1, <3>1 DEF ChunkBehind, EndBehind
  <2> QED BY <2>2, <2>3
<1>4. CASE Emit(m) /\ m = n
  <2>1. /\ Len(wire') = Len(wire) + 1 /\ \A k \in 1..Len(wire) : wire'[k] = wire[k]
        /\ wire'[Len(wire) + 1].kind = turn[m].out /\ wire'[Len(wire) + 1].turn = m
        /\ wire'[Len(wire) + 1].at = turn[m].said
    BY <1>4, WorkWire
  <2>2. /\ turn'[n].said = turn[n].said /\ turn'[n].cleaned = turn[n].cleaned
        /\ turn'[n].out = "none"
        /\ turn[n].cleaned => turn[n].out \in EndKinds
    BY <1>4, EmitTurn
  <2>3. Len(wire) + 1 \in (p + 1)..Len(wire')
    BY <1>1, <2>1
  <2>4. \A k \in (p + 1)..Len(wire) : k \in (p + 1)..Len(wire') /\ wire'[k] = wire[k]
    BY <1>1, <2>1
  <2>5. ASSUME NEW i, ChunkBehind(p, n, i) PROVE ChunkBehind(p, n, i)'
    BY <1>4, <2>1, <2>3, <2>4, <2>5 DEF ChunkBehind
  <2>6. ASSUME EndBehind(p, n) PROVE EndBehind(p, n)'
    BY <1>4, <2>1, <2>2, <2>3, <2>4, <2>6 DEF EndBehind
  <2> QED BY <2>2, <2>5, <2>6
<1> QED BY <1>2, <1>3, <1>4

Answered(j) == join[j].at = "answered"
AnswerFollowed(p, j) ==
  \A n \in Turns :
    /\ join[j].info.turn = n => Behind(p, n, join[j].info.len)
    /\ join[j].rows[n] = "running" /\ join[j].info.turn # n /\ n \notin stale => Behind(p, n, 0)

\* What a message on the connection promises is still behind it.
Kept(p) ==
  /\ wire[p].kind = "start" => Behind(p, wire[p].turn, 0)
  /\ wire[p].kind = "done" => wire[p].at = turn[wire[p].turn].said /\ Over(wire[p].turn)
  /\ wire[p].kind = "answer" => Answered(wire[p].turn) /\ AnswerFollowed(p, wire[p].turn)
AllKept == \A p \in 1..Len(wire) : Kept(p)
AnsweredOnce ==
  \A p, q \in 1..Len(wire) :
    wire[p].kind = "answer" /\ wire[q].kind = "answer" /\ wire[p].turn = wire[q].turn => p = q
Followed == AllKept /\ AnsweredOnce

LEMMA WireKinds ==
  ASSUME IInv, NEW p \in 1..Len(wire)
  PROVE  /\ wire[p].kind = "answer" => wire[p].turn \in Joins
         /\ wire[p].kind # "answer" => wire[p].turn \in Turns /\ wire[p].kind \in EventKinds
<1>1. wire[p] \in Events \cup Answers
  BY DEF IInv
<1> QED BY <1>1 DEF Events, Answers, EventKinds

LEMMA BehindStays ==
  ASSUME IInv, Backend, NEW m \in Turns, Work(m), NEW n \in Turns, NEW p \in 0..Len(wire),
         Emit(m) /\ m = n => room, NEW len \in Nat, Behind(p, n, len)
  PROVE  Behind(p, n, len)'
<1>1. turn'[n].said \in Nat /\ turn[n].said \in Nat
  BY WorkTurn, EmitTurn, StreamBoundsAssumption DEF IInv, TurnsOK
<1>2. ASSUME NEW i \in (len + 1)..turn'[n].said PROVE ChunkBehind(p, n, i)'
  <2>1. i \in 1..turn'[n].said
    BY <1>1
  <2>2. CASE i \in 1..turn[n].said
    <3>1. i \in (len + 1)..turn[n].said
      BY <1>1, <2>2
    <3> QED BY <3>1, BehindWork DEF Behind
  <2>3. CASE i \notin 1..turn[n].said
    BY <2>1, <2>3, BehindWork
  <2> QED BY <2>2, <2>3
<1>3. EndBehind(p, n)'
  BY BehindWork DEF Behind
<1> QED BY <1>2, <1>3 DEF Behind

LEMMA FollowedWork ==
  ASSUME IInv, Backend, JInv, Followed, NEW m \in Turns, Work(m) PROVE Followed'
<1>1. UNCHANGED << join, stale >>
  BY WorkWire
<1>2. Len(wire) \in Nat /\ (wire # << >> => room) /\ (Len(wire) = 0 <=> wire = << >>)
  BY DEF IInv, JInv, InRoom
<1>3. ASSUME NEW p \in 1..Len(wire), wire'[p] = wire[p] PROVE Kept(p)'
  <2>0. room /\ p \in 0..Len(wire)
    BY <1>2
  <2>1. Kept(p)
    BY DEF Followed, AllKept
  <2>2. ASSUME wire[p].kind = "start" PROVE Behind(p, wire[p].turn, 0)'
    <3>1. PICK n \in Turns : n = wire[p].turn
      BY <2>2, WireKinds
    <3>2. Behind(p, n, 0)
      BY <2>1, <2>2, <3>1 DEF Kept
    <3>3. Behind(p, n, 0)'
      BY <2>0, <3>2, BehindStays
    <3>4. wire'[p].turn = n
      BY <1>3, <3>1
    <3> QED BY <1>3, <3>1, <3>3 DEF Behind, ChunkBehind, EndBehind
  <2>3. ASSUME wire[p].kind = "done"
        PROVE  wire'[p].at = turn'[wire[p].turn].said /\ Over(wire[p].turn)'
    <3>1. wire[p].turn \in Turns
      BY <2>3, WireKinds
    <3>2. wire[p].at = turn[wire[p].turn].said /\ Over(wire[p].turn)
      BY <2>1, <2>3 DEF Kept
    <3>3. [Next]_vars
      BY DEF Next
    <3> QED BY <1>3, <3>1, <3>2, <3>3, OverStays DEF Over, IInv
  <2>4. ASSUME wire[p].kind = "answer"
        PROVE  Answered(wire[p].turn)' /\ AnswerFollowed(p, wire[p].turn)'
    <3>1. PICK j \in Joins : j = wire[p].turn
      BY <2>4, WireKinds
    <3>2. Answered(j) /\ AnswerFollowed(p, j)
      BY <2>1, <2>4, <3>1 DEF Kept
    <3>3. ASSUME NEW n \in Turns, join[j].info.turn = n PROVE Behind(p, n, join[j].info.len)'
      <4>1. PICK len \in Nat : len = join[j].info.len
        BY StreamBoundsAssumption DEF JInv, JoinTypes
      <4>2. Behind(p, n, len)
        BY <3>2, <3>3, <4>1 DEF AnswerFollowed
      <4>3. Behind(p, n, len)'
        BY <2>0, <4>2, BehindStays
      <4> QED BY <1>1, <4>1, <4>3
    <3>4. ASSUME NEW n \in Turns, join[j].rows[n] = "running", join[j].info.turn # n, n \notin stale
          PROVE  Behind(p, n, 0)'
      BY <2>0, <3>2, <3>4, BehindStays DEF AnswerFollowed
    <3>5. AnswerFollowed(p, j)'
      BY <1>1, <3>3, <3>4 DEF AnswerFollowed
    <3> QED BY <1>1, <1>3, <3>1, <3>2, <3>5 DEF Answered
  <2> QED BY <1>3, <2>2, <2>3, <2>4 DEF Kept
<1>4. CASE wire' = wire
  BY <1>3, <1>4 DEF Followed, AllKept, AnsweredOnce
<1>5. CASE wire' # wire
  <2>1. /\ Emit(m) /\ room /\ turn[m].out \in EventKinds
        /\ Len(wire') = Len(wire) + 1 /\ \A k \in 1..Len(wire) : wire'[k] = wire[k]
        /\ wire'[Len(wire) + 1].kind = turn[m].out /\ wire'[Len(wire) + 1].turn = m
        /\ wire'[Len(wire) + 1].at = turn[m].said
    BY <1>5, WorkWire
  <2>2. PICK q \in Nat : q = Len(wire) + 1
    BY <1>2
  <2>3. ASSUME turn[m].out = "start" PROVE Behind(q, m, 0)'
    <3>1. turn[m].said = 0 /\ ~turn[m].cleaned
      BY <2>3, OverNot DEF Backend, Phases, Phase
    <3>2. turn'[m].said = 0 /\ ~turn'[m].cleaned
      BY <2>1, <3>1, EmitTurn
    <3> QED BY <3>2 DEF Behind, EndBehind
  <2>4. ASSUME turn[m].out = "done" PROVE turn[m].said = turn'[m].said /\ Over(m)'
    <3>1. Over(m) /\ [Next]_vars
      BY <2>4 DEF Backend, Phases, Phase, Next
    <3> QED BY <3>1, OverStays DEF IInv, Over
  <2>5. turn[m].out # "answer"
    BY <2>1 DEF EventKinds
  <2>6. Kept(q)'
    <3>1. wire'[q].kind = turn[m].out /\ wire'[q].turn = m /\ wire'[q].at = turn[m].said
      BY <2>1, <2>2
    <3>2. wire'[q].kind = "start" => Behind(q, wire[q].turn, 0)'
      BY <2>3, <3>1 DEF Behind, ChunkBehind, EndBehind
    <3>3. wire'[q].kind = "done" => wire'[q].at = turn'[wire'[q].turn].said /\ Over(wire[q].turn)'
      BY <2>4, <3>1 DEF Over
    <3> QED BY <2>5, <3>1, <3>2, <3>3 DEF Kept
  <2>7. AllKept'
    <3> SUFFICES ASSUME NEW p \in 1..Len(wire') PROVE Kept(p)'
      BY DEF AllKept
    <3>1. p \in 1..Len(wire) \/ p = q
      BY <1>2, <2>1, <2>2
    <3> QED BY <1>3, <2>1, <2>6, <3>1
  <2>8. AnsweredOnce'
    <3>1. ASSUME NEW p \in 1..Len(wire'), wire'[p].kind = "answer"
          PROVE  p \in 1..Len(wire) /\ wire'[p] = wire[p]
      <4>1. p \in 1..Len(wire) \/ p = Len(wire) + 1
        BY <1>2, <2>1
      <4> QED BY <2>1, <2>5, <3>1, <4>1
    <3> QED BY <3>1 DEF Followed, AnsweredOnce
  <2> QED BY <2>7, <2>8 DEF Followed
<1> QED BY <1>4, <1>5

\* What comes behind a position when d messages have been taken off the front.
LEMMA BehindShift ==
  ASSUME IInv, turn' = turn, NEW d \in {0, 1}, Len(wire') = Len(wire) - d,
         \A k \in 1..Len(wire') : wire'[k] = wire[k + d], NEW p \in Nat, NEW n
  PROVE  /\ \A i : ChunkBehind(p + d, n, i) => ChunkBehind(p, n, i)'
         /\ EndBehind(p + d, n) => EndBehind(p, n)'
         /\ \A len : Behind(p + d, n, len) => Behind(p, n, len)'
<1>1. Len(wire) \in Nat
  BY DEF IInv
<1>2. ASSUME NEW k \in (p + d + 1)..Len(wire)
      PROVE  k - d \in (p + 1)..Len(wire') /\ wire'[k - d] = wire[k]
  <2>1. k - d \in 1..Len(wire') /\ k - d \in (p + 1)..Len(wire') /\ (k - d) + d = k
    BY <1>1
  <2> QED BY <2>1
<1>3. ASSUME NEW i, ChunkBehind(p + d, n, i) PROVE ChunkBehind(p, n, i)'
  <2>1. CASE turn[n].out = "chunk" /\ turn[n].said = i
    BY <2>1 DEF ChunkBehind
  <2>2. CASE ~(turn[n].out = "chunk" /\ turn[n].said = i)
    <3>1. PICK k \in (p + d + 1)..Len(wire) :
            wire[k].kind = "chunk" /\ wire[k].turn = n /\ wire[k].at = i
      BY <1>3, <2>2 DEF ChunkBehind
    <3> QED BY <1>2, <3>1 DEF ChunkBehind
  <2> QED BY <2>1, <2>2
<1>4. ASSUME EndBehind(p + d, n) PROVE EndBehind(p, n)'
  <2>1. CASE ~turn[n].cleaned \/ turn[n].out # "none"
    BY <2>1 DEF EndBehind
  <2>2. CASE turn[n].cleaned /\ turn[n].out = "none"
    <3>1. PICK k \in (p + d + 1)..Len(wire) : wire[k].turn = n /\ wire[k].kind \in EndKinds
      BY <1>4, <2>2 DEF EndBehind
    <3> QED BY <1>2, <3>1 DEF EndBehind
  <2> QED BY <2>1, <2>2
<1> QED BY <1>3, <1>4 DEF Behind

\* The joins whose answers are on the connection are left alone.
LEMMA FollowedFrame ==
  ASSUME IInv, Followed, turn' = turn, stale \subseteq stale',
         NEW d \in {0, 1}, Len(wire') = Len(wire) - d,
         \A k \in 1..Len(wire') : wire'[k] = wire[k + d],
         \A k \in 1..Len(wire') :
           wire'[k].kind = "answer" => join'[wire'[k].turn] = join[wire'[k].turn]
  PROVE  Followed'
<1>1. Len(wire) \in Nat
  BY DEF IInv
<1>2. \A p \in 1..Len(wire') : p + d \in 1..Len(wire) /\ p \in Nat
  BY <1>1
<1>3. ASSUME NEW p \in 1..Len(wire') PROVE Kept(p)'
  <2>1. Kept(p + d) /\ wire'[p] = wire[p + d]
    BY <1>2 DEF Followed, AllKept
  <2>2. PICK n : n = wire[p + d].turn
    OBVIOUS
  <2>3. ASSUME wire'[p].kind = "start" PROVE (wire[p].kind = "start" => Behind(p, wire[p].turn, 0))'
    <3>1. Behind(p + d, n, 0)
      BY <2>1, <2>2, <2>3 DEF Kept
    <3>2. Behind(p, n, 0)'
      BY <1>2, <3>1, BehindShift
    <3> QED BY <2>1, <2>2, <3>2 DEF Behind, ChunkBehind, EndBehind
  <2>4. ASSUME wire'[p].kind = "answer"
        PROVE  (Answered(wire[p].turn) /\ AnswerFollowed(p, wire[p].turn))'
    <3>1. Answered(n) /\ AnswerFollowed(p + d, n) /\ join'[n] = join[n]
      BY <2>1, <2>2, <2>4 DEF Kept
    <3>2. ASSUME NEW k \in Turns, join[n].info.turn = k PROVE Behind(p, k, join[n].info.len)'
      <4>1. PICK len : len = join[n].info.len
        OBVIOUS
      <4>2. Behind(p + d, k, len)
        BY <3>1, <3>2, <4>1 DEF AnswerFollowed
      <4>3. Behind(p, k, len)'
        BY <1>2, <4>2, BehindShift
      <4> QED BY <3>1, <4>1, <4>3 DEF Behind, ChunkBehind, EndBehind
    <3>3. ASSUME NEW k \in Turns, join[n].rows[k] = "running", join[n].info.turn # k,
                 k \notin stale'
          PROVE  Behind(p, k, 0)'
      <4>1. Behind(p + d, k, 0)
        BY <3>1, <3>3 DEF AnswerFollowed
      <4> QED BY <1>2, <4>1, BehindShift
    <3>4. AnswerFollowed(p, n)' /\ Answered(n)'
      BY <3>1, <3>2, <3>3 DEF AnswerFollowed, Answered
    <3>5. wire'[p].turn = n
      BY <2>1, <2>2
    <3> QED BY <3>4, <3>5 DEF AnswerFollowed, Answered, Behind, ChunkBehind, EndBehind
  <2>5. (wire[p].kind = "done" => wire[p].at = turn[wire[p].turn].said /\ Over(wire[p].turn))'
    BY <2>1 DEF Kept, Over
  <2> QED BY <2>3, <2>4, <2>5 DEF Kept
<1>4. AnsweredOnce'
  <2>1. ASSUME NEW p \in 1..Len(wire'), NEW q \in 1..Len(wire'), wire'[p].kind = "answer",
               wire'[q].kind = "answer", wire'[p].turn = wire'[q].turn
        PROVE  p = q
    <3>1. p + d = q + d
      BY <1>2, <2>1 DEF Followed, AnsweredOnce
    <3> QED BY <1>2, <3>1
  <2> QED BY <2>1 DEF AnsweredOnce
<1> QED BY <1>3, <1>4 DEF Followed, AllKept

\* A join whose answer is on the connection has been answered.
LEMMA AnswerKept ==
  ASSUME IInv, Followed, NEW p \in 1..Len(wire), wire[p].kind = "answer"
  PROVE  wire[p].turn \in Joins /\ join[wire[p].turn].at = "answered"
BY WireKinds DEF Followed, AllKept, Kept, Answered

\* Another message behind what there is.
LEMMA BehindAppend ==
  ASSUME IInv, turn' = turn, NEW e, wire' = Append(wire, e), NEW p \in 0..Len(wire), NEW n
  PROVE  /\ \A i : ChunkBehind(p, n, i) => ChunkBehind(p, n, i)'
         /\ EndBehind(p, n) => EndBehind(p, n)'
         /\ \A len : Behind(p, n, len) => Behind(p, n, len)'
<1>1. Len(wire) \in Nat /\ Len(wire') = Len(wire) + 1 /\ \A k \in 1..Len(wire) : wire'[k] = wire[k]
  BY DEF IInv
<1>2. \A k \in (p + 1)..Len(wire) : k \in (p + 1)..Len(wire') /\ wire'[k] = wire[k]
  BY <1>1
<1>3. ASSUME NEW i, ChunkBehind(p, n, i) PROVE ChunkBehind(p, n, i)'
  BY <1>2, <1>3 DEF ChunkBehind
<1>4. ASSUME EndBehind(p, n) PROVE EndBehind(p, n)'
  BY <1>2, <1>4 DEF EndBehind
<1> QED BY <1>3, <1>4 DEF Behind

LEMMA FollowedAnswer ==
  ASSUME IInv, Backend, JInv, Followed, NEW j \in Joins, AnswerJoin(j) PROVE Followed'
<1>1. /\ turn' = turn /\ wire' = Append(wire, Event("answer", j, 0)) /\ join[j].at = "read"
      /\ stale \subseteq stale'
      /\ \A n \in Turns : join[j].rows[n] = "running" /\ Over(n) /\ Active.turn # n => n \in stale'
  BY DEF AnswerJoin, backend
<1>2. /\ join'[j].at = "answered" /\ join'[j].rows = join[j].rows /\ join'[j].info = Active
      /\ \A k \in Joins \ {j} : join'[k] = join[k]
  BY DEF AnswerJoin, IInv, JoinsOK
<1>3. /\ Len(wire) \in Nat /\ Len(wire') = Len(wire) + 1
      /\ \A k \in 1..Len(wire) : wire'[k] = wire[k]
      /\ wire'[Len(wire) + 1].kind = "answer" /\ wire'[Len(wire) + 1].turn = j
  BY <1>1 DEF IInv, Event
<1>4. \A p \in 1..Len(wire) : wire[p].kind = "answer" =>
        wire[p].turn \in Joins /\ wire[p].turn # j /\ join'[wire[p].turn] = join[wire[p].turn]
  BY <1>1, <1>2, AnswerKept
<1>5. ASSUME NEW p \in 1..Len(wire) PROVE Kept(p)'
  <2>1. Kept(p) /\ wire'[p] = wire[p] /\ p \in 0..Len(wire)
    BY <1>3 DEF Followed, AllKept
  <2>2. PICK n : n = wire[p].turn
    OBVIOUS
  <2>3. ASSUME wire[p].kind = "start" PROVE (wire[p].kind = "start" => Behind(p, wire[p].turn, 0))'
    <3>1. Behind(p, n, 0)'
      BY <1>1, <2>1, <2>2, <2>3, BehindAppend DEF Kept
    <3> QED BY <2>1, <2>2, <3>1 DEF Behind, ChunkBehind, EndBehind
  <2>4. ASSUME wire[p].kind = "answer"
        PROVE  (Answered(wire[p].turn) /\ AnswerFollowed(p, wire[p].turn))'
    <3>1. Answered(n) /\ AnswerFollowed(p, n) /\ join'[n] = join[n]
      BY <1>4, <2>1, <2>2, <2>4 DEF Kept
    <3>2. ASSUME NEW k \in Turns, join[n].info.turn = k PROVE Behind(p, k, join[n].info.len)'
      <4>1. PICK len : len = join[n].info.len
        OBVIOUS
      <4>2. Behind(p, k, len)
        BY <3>1, <3>2, <4>1 DEF AnswerFollowed
      <4>3. Behind(p, k, len)'
        BY <1>1, <2>1, <4>2, BehindAppend
      <4> QED BY <3>1, <4>1, <4>3 DEF Behind, ChunkBehind, EndBehind
    <3>3. ASSUME NEW k \in Turns, join[n].rows[k] = "running", join[n].info.turn # k,
                 k \notin stale'
          PROVE  Behind(p, k, 0)'
      <4>1. Behind(p, k, 0)
        BY <1>1, <3>1, <3>3 DEF AnswerFollowed
      <4> QED BY <1>1, <2>1, <4>1, BehindAppend
    <3>4. AnswerFollowed(p, n)' /\ Answered(n)'
      BY <3>1, <3>2, <3>3 DEF AnswerFollowed, Answered
    <3>5. wire'[p].turn = n
      BY <2>1, <2>2
    <3> QED BY <3>4, <3>5 DEF AnswerFollowed, Answered, Behind, ChunkBehind, EndBehind
  <2>5. (wire[p].kind = "done" => wire[p].at = turn[wire[p].turn].said /\ Over(wire[p].turn))'
    BY <1>1, <2>1 DEF Kept, Over
  <2> QED BY <2>1, <2>3, <2>4, <2>5 DEF Kept
<1>6. PICK q \in Nat : q = Len(wire) + 1
  BY <1>3
<1>7. Kept(q)'
  <2>1. ASSUME NEW k \in Turns, Active.turn = k PROVE Behind(q, k, join[j].info.len)'
    <3>1. PICK len \in Nat : len = Active.len
      BY ActiveIs, StreamBoundsAssumption
    <3>2. len = turn[k].said /\ ~turn[k].cleaned
      BY <2>1, <3>1, ActiveIs
    <3>3. turn'[k].said = len /\ ~turn'[k].cleaned
      BY <1>1, <3>2
    <3>4. Behind(q, k, len)'
      BY <3>3 DEF Behind, EndBehind
    <3>5. join'[j].info.len = len
      BY <1>2, <3>1
    <3> QED BY <3>4, <3>5 DEF Behind, ChunkBehind, EndBehind
  <2>2. ASSUME NEW k \in Turns, join[j].rows[k] = "running", Active.turn # k, k \notin stale'
        PROVE  Behind(q, k, 0)'
    <3>1. ~Over(k)
      BY <1>1, <2>2
    <3>2. ~turn[k].cleaned
      BY <3>1 DEF Backend, Phases, Phase
    <3>3. turn[k].said = 0
      <4>1. turn[k].begun => turn[k].said = 0
        BY <2>2, <3>1, ActiveIs DEF Backend, Phases, Phase
      <4> QED BY <4>1 DEF Backend, Phases, Phase
    <3> QED BY <1>1, <3>2, <3>3 DEF Behind, EndBehind
  <2>3. AnswerFollowed(q, j)' /\ Answered(j)'
    BY <1>2, <2>1, <2>2 DEF AnswerFollowed, Answered
  <2>4. wire'[q].kind = "answer" /\ wire'[q].turn = j
    BY <1>3, <1>6
  <2> QED BY <2>3, <2>4 DEF Kept, AnswerFollowed, Answered, Behind, ChunkBehind, EndBehind
<1>8. \A p \in 1..Len(wire') : p \in 1..Len(wire) \/ p = q
  BY <1>3, <1>6
<1>9. AllKept'
  BY <1>5, <1>7, <1>8 DEF AllKept
<1>10. AnsweredOnce'
  <2>1. ASSUME NEW p \in 1..Len(wire'), NEW r \in 1..Len(wire'), wire'[p].kind = "answer",
               wire'[r].kind = "answer", wire'[p].turn = wire'[r].turn
        PROVE  p = r
    <3>1. CASE p \in 1..Len(wire) /\ r \in 1..Len(wire)
      BY <1>3, <2>1, <3>1 DEF Followed, AnsweredOnce
    <3>2. CASE ~(p \in 1..Len(wire) /\ r \in 1..Len(wire))
      BY <1>3, <1>4, <1>6, <1>8, <2>1, <3>2
    <3> QED BY <3>1, <3>2
  <2> QED BY <2>1 DEF AnsweredOnce
<1> QED BY <1>9, <1>10 DEF Followed

\* A recovery that starts takes no join whose answer is on the connection.
LEMMA JoiningSpares ==
  ASSUME NEW w, Window(w), NEW js, JoinsOK(js), Free(js), NEW inner, Joining(w, js, inner),
         NEW j \in Joins, js[j].at = "answered"
  PROVE  join'[j] = js[j]
<1>1. js[j] # NoJoin
  BY NoJoinShape
<1> QED BY <1>1, JoiningTakes

LEMMA SameWire ==
  ASSUME IInv, wire' = wire
  PROVE  Len(wire') = Len(wire) - 0 /\ \A k \in 1..Len(wire') : wire'[k] = wire[k + 0]
BY DEF IInv

LEMMA TailWire ==
  ASSUME IInv, wire # << >>, wire' = Tail(wire)
  PROVE  /\ Len(wire') = Len(wire) - 1 /\ \A k \in 1..Len(wire') : wire'[k] = wire[k + 1]
         /\ \A k \in 1..Len(wire') : k + 1 \in 1..Len(wire)
         /\ Head(wire) = wire[1] /\ 1 \in 1..Len(wire)
BY DEF IInv

LEMMA FollowedJoin ==
  ASSUME IInv, Backend, JInv, Followed, NEW j \in Joins, JoinStep(j) PROVE Followed'
<1>1. ASSUME EnterRoom(j) \/ ReadSubtasks(j) PROVE Followed'
  <2>1. turn' = turn /\ stale' = stale /\ wire' = wire /\ join[j].at \in {"asked", "entered"}
        /\ \A k \in Joins \ {j} : join'[k] = join[k]
    BY <1>1 DEF EnterRoom, ReadSubtasks, backend, net, history, IInv, JoinsOK
  <2>2. \A k \in 1..Len(wire') :
          wire'[k].kind = "answer" => join'[wire'[k].turn] = join[wire'[k].turn]
    BY <2>1, AnswerKept
  <2> QED BY <2>1, <2>2, SameWire, FollowedFrame
<1> QED BY <1>1, FollowedAnswer DEF JoinStep

LEMMA FollowedReceiveEvent ==
  ASSUME IInv, JInv, Followed, Texts(win), ReceiveEvent PROVE Followed'
<1> DEFINE w == Handle(win, Head(wire))
<1>1. turn' = turn /\ stale' = stale /\ wire # << >> /\ wire' = Tail(wire)
  BY DEF ReceiveEvent, backend
<1>2. Window(w)
  BY WireReceive, HandleKeeps DEF IInv, ReceiveEvent
<1>3. IF Due(w) THEN Joining(w, join, FALSE) ELSE join' = join
  BY DEF ReceiveEvent
<1>4. Due(w) => Free(join)
  BY ReceiveEventJInv
<1> HIDE DEF w
<1>5. ASSUME NEW k \in 1..Len(wire'), wire'[k].kind = "answer"
      PROVE  join'[wire'[k].turn] = join[wire'[k].turn]
  <2>1. k + 1 \in 1..Len(wire) /\ wire'[k] = wire[k + 1]
    BY <1>1, TailWire
  <2>2. wire'[k].turn \in Joins /\ join[wire'[k].turn].at = "answered"
    BY <1>5, <2>1, AnswerKept
  <2>3. JoinsOK(join)
    BY DEF IInv
  <2>4. PICK j \in Joins : j = wire'[k].turn
    BY <2>2
  <2>5. CASE Due(w)
    <3>1. Free(join) /\ Joining(w, join, FALSE) /\ join[j].at = "answered"
      BY <1>3, <1>4, <2>2, <2>4, <2>5
    <3>2. join'[j] = join[j]
      BY <1>2, <2>3, <3>1, JoiningSpares
    <3> QED BY <2>4, <3>2
  <2>6. CASE ~Due(w)
    BY <1>3, <2>6
  <2> QED BY <2>5, <2>6
<1> QED BY <1>1, <1>5, TailWire, FollowedFrame

LEMMA FollowedReceiveAnswer ==
  ASSUME IInv, JInv, Followed, [Next]_vars, Texts(win),
         NEW w, NEW js, NEW inner, AnswerTaken(w, js, inner)
  PROVE  Followed'
<1>1. turn' = turn /\ stale' = stale /\ wire # << >> /\ wire' = Tail(wire)
  BY DEF AnswerTaken, backend, history
<1>2. /\ Window(w) /\ JoinsOK(js)
      /\ \A k \in Joins : js[k] = IF k = Head(wire).turn THEN NoJoin ELSE join[k]
  BY TakenShape
<1>3. IF Due(w) THEN Joining(w, js, inner) ELSE join' = js
  BY DEF AnswerTaken
<1>4. Due(w) => Free(js)
  BY ReceiveAnswerJInv
<1>5. ASSUME NEW k \in 1..Len(wire'), wire'[k].kind = "answer"
      PROVE  join'[wire'[k].turn] = join[wire'[k].turn]
  <2>1. k + 1 \in 1..Len(wire) /\ wire'[k] = wire[k + 1]
    BY <1>1, TailWire
  <2>2. wire'[k].turn \in Joins /\ join[wire'[k].turn].at = "answered"
    BY <1>5, <2>1, AnswerKept
  <2>3. wire'[k].turn # Head(wire).turn
    <3>1. Head(wire) = wire[1] /\ 1 \in 1..Len(wire) /\ k # 0 /\ k \in Nat
      BY <1>1, TailWire DEF IInv
    <3>2. wire[1].kind = "answer" /\ k + 1 # 1
      BY <3>1 DEF AnswerTaken
    <3>3. wire[k + 1].turn # wire[1].turn
      BY <1>5, <2>1, <3>1, <3>2 DEF Followed, AnsweredOnce
    <3> QED BY <2>1, <3>1, <3>3
  <2>4. PICK j \in Joins : j = wire'[k].turn
    BY <2>2
  <2>5. js[j] = join[j] /\ js[j].at = "answered"
    BY <1>2, <2>2, <2>3, <2>4
  <2>6. CASE Due(w)
    <3>1. Free(js) /\ Joining(w, js, inner)
      BY <1>3, <1>4, <2>6
    <3>2. join'[j] = js[j]
      BY <1>2, <2>5, <3>1, JoiningSpares
    <3> QED BY <2>4, <2>5, <3>2
  <2>7. CASE ~Due(w)
    BY <1>3, <2>4, <2>5, <2>7
  <2> QED BY <2>6, <2>7
<1> QED BY <1>1, <1>5, TailWire, FollowedFrame

\* The steps that leave the connection as it is, or break it.
LEMMA FollowedJoining ==
  ASSUME IInv, Followed, UNCHANGED << turn, wire, stale >>, Free(join), Joining(win, join, FALSE)
  PROVE  Followed'
<1>1. ASSUME NEW k \in 1..Len(wire'), wire'[k].kind = "answer"
      PROVE  join'[wire'[k].turn] = join[wire'[k].turn]
  <2>1. PICK j \in Joins : j = wire[k].turn /\ join[j].at = "answered"
    BY <1>1, AnswerKept
  <2>2. Window(win) /\ JoinsOK(join)
    BY DEF IInv
  <2>3. join'[j] = join[j]
    BY <2>1, <2>2, JoiningSpares
  <2> QED BY <2>1, <2>3
<1> QED BY <1>1, SameWire, FollowedFrame

LEMMA FollowedWindow ==
  ASSUME IInv, JInv, Followed, [Next]_vars,
         Reenter \/ Open \/ Recover \/ Disconnect \/ Reconnect \/ UNCHANGED vars
  PROVE  Followed'
<1>1. ASSUME Reenter \/ Reconnect \/ UNCHANGED vars PROVE Followed'
  <2>1. UNCHANGED << turn, wire, stale, join >>
    BY <1>1 DEF Reenter, Reconnect, vars, backend, net, history
  <2> QED BY <2>1, SameWire, FollowedFrame
<1>2. ASSUME Open PROVE Followed'
  BY <1>2, OpenJInv, FollowedJoining DEF Open, backend, net, history
<1>3. ASSUME Recover PROVE Followed'
  <2>1. UNCHANGED << turn, wire, stale >>
    BY <1>3 DEF Recover, backend, net, history
  <2>2. CASE win.status = "joining"
    BY <1>3, <2>1, <2>2, SameWire, FollowedFrame DEF Recover
  <2>3. CASE win.status # "joining"
    BY <1>3, <2>1, <2>3, RecoverJInv, FollowedJoining DEF Recover
  <2> QED BY <2>2, <2>3
<1>4. ASSUME Disconnect PROVE Followed'
  <2>1. Len(wire') = 0
    BY <1>4 DEF Disconnect
  <2>2. 1..Len(wire') = {}
    BY <2>1
  <2> QED BY <2>2 DEF Followed, AllKept, AnsweredOnce
<1> QED BY <1>1, <1>2, <1>3, <1>4

(***************************************************************************)
(* What the window has and what is still to come make up the answers       *)
(***************************************************************************)
Among(s, i) == \E k \in 1..Len(s) : s[k] = i
Has(w, p, n, i) == Among(w.msg[n].text, i) \/ Among(w.queued[n], i) \/ ChunkBehind(p, n, i)
TextKept(w, p, n) ==
  w.msg[n].status # "none" /\ n \notin missed \cup stale /\ turn[n].status # "failed" =>
    \A i \in 1..turn[n].said : Has(w, p, n, i)
EndKept(w, p, n) ==
  w.msg[n].status = "streaming" /\ n \notin missed \cup stale => EndBehind(p, n)
Whole(w, p) == Texts(w) /\ \A n \in Turns : TextKept(w, p, n) /\ EndKept(w, p, n)

LEMMA AmongAppend ==
  ASSUME NEW s \in Seq(Nat), NEW i \in Nat
  PROVE  /\ Append(s, i) \in Seq(Nat) /\ Append(s, i) # << >>
         /\ Among(Append(s, i), i) /\ \A k : Among(s, k) => Among(Append(s, i), k)
<1>1. /\ Append(s, i) \in Seq(Nat) /\ Len(s) \in Nat /\ Len(Append(s, i)) = Len(s) + 1
      /\ Append(s, i)[Len(s) + 1] = i /\ \A k \in 1..Len(s) : Append(s, i)[k] = s[k]
  OBVIOUS
<1>2. Append(s, i) # << >>
  BY <1>1
<1>3. Among(Append(s, i), i)
  BY <1>1 DEF Among
<1>4. ASSUME NEW k, Among(s, k) PROVE Among(Append(s, i), k)
  <2>1. PICK q \in 1..Len(s) : s[q] = k
    BY <1>4 DEF Among
  <2>2. q \in 1..Len(Append(s, i)) /\ Append(s, i)[q] = k
    BY <1>1, <2>1
  <2> QED BY <2>2 DEF Among
<1> QED BY <1>1, <1>2, <1>3, <1>4

LEMMA AmongConcat ==
  ASSUME NEW s \in Seq(Nat), NEW t \in Seq(Nat)
  PROVE  s \o t \in Seq(Nat) /\ \A i : Among(s, i) \/ Among(t, i) => Among(s \o t, i)
<1>1. /\ s \o t \in Seq(Nat) /\ Len(s) \in Nat /\ Len(t) \in Nat /\ Len(s \o t) = Len(s) + Len(t)
      /\ \A k \in 1..Len(s) : (s \o t)[k] = s[k]
      /\ \A k \in 1..Len(t) : (s \o t)[Len(s) + k] = t[k]
  OBVIOUS
<1>2. ASSUME NEW i, Among(s, i) PROVE Among(s \o t, i)
  <2>1. PICK q \in 1..Len(s) : s[q] = i
    BY <1>2 DEF Among
  <2>2. q \in 1..Len(s \o t) /\ (s \o t)[q] = i
    BY <1>1, <2>1
  <2> QED BY <2>2 DEF Among
<1>3. ASSUME NEW i, Among(t, i) PROVE Among(s \o t, i)
  <2>1. PICK q \in 1..Len(t) : t[q] = i
    BY <1>3 DEF Among
  <2>2. Len(s) + q \in 1..Len(s \o t) /\ (s \o t)[Len(s) + q] = i
    BY <1>1, <2>1
  <2> QED BY <2>2 DEF Among
<1> QED BY <1>1, <1>2, <1>3

LEMMA AmongUpTo ==
  ASSUME NEW k \in Nat
  PROVE  UpTo(k) \in Seq(Nat) /\ Len(UpTo(k)) = k /\ \A i \in 1..k : Among(UpTo(k), i)
<1>1. UpTo(k) \in Seq(Nat) /\ Len(UpTo(k)) = k /\ \A i \in 1..k : UpTo(k)[i] = i
  BY DEF UpTo
<1> QED BY <1>1 DEF Among

\* The first message is taken: what was behind it is all there is.
LEMMA BehindHead ==
  ASSUME IInv, wire # << >>, NEW n
  PROVE  /\ \A i : ChunkBehind(0, n, i) =>
              ChunkBehind(1, n, i) \/ (wire[1].kind = "chunk" /\ wire[1].turn = n /\ wire[1].at = i)
         /\ EndBehind(0, n) => EndBehind(1, n) \/ (wire[1].turn = n /\ wire[1].kind \in EndKinds)
<1>1. \A k \in 1..Len(wire) : k = 1 \/ k \in 2..Len(wire)
  BY DEF IInv
<1>2. \A k : k \in (0 + 1)..Len(wire) <=> k \in 1..Len(wire)
  OBVIOUS
<1>3. \A k : k \in (1 + 1)..Len(wire) <=> k \in 2..Len(wire)
  OBVIOUS
<1> QED BY <1>1, <1>2, <1>3 DEF ChunkBehind, EndBehind

\* An event that concerns turn n leaves the others as whole as they were.
LEMMA OthersWhole ==
  ASSUME IInv, wire # << >>, NEW w, Whole(w, 0), NEW v, NEW n, n = wire[1].turn,
         OnlyTurn(w, v, n), NEW k \in Turns \ {n}
  PROVE  /\ TextKept(v, 1, k) /\ EndKept(v, 1, k)
         /\ v.msg[k].text \in Seq(Nat) /\ v.queued[k] \in Seq(Nat)
         /\ v.msg[k].status = "none" => v.msg[k].text = << >>
<1>1. v.msg[k] = w.msg[k] /\ v.queued[k] = w.queued[k]
  BY DEF OnlyTurn
<1>2. /\ \A i : ChunkBehind(0, k, i) => ChunkBehind(1, k, i)
      /\ EndBehind(0, k) => EndBehind(1, k)
  BY BehindHead
<1>3. TextKept(w, 0, k) /\ EndKept(w, 0, k) /\ Texts(w)
  BY DEF Whole
<1> QED BY <1>1, <1>2, <1>3 DEF TextKept, EndKept, Has, Texts

LEMMA EventWhole ==
  ASSUME IInv, Followed, wire # << >>, wire[1].kind # "answer", Whole(win, 0),
         NEW v, v = Handle(win, wire[1])
  PROVE  Whole(v, 1)
<1>1. 1 \in 1..Len(wire) /\ wire[1] \in Events
  <2>1. 1 \in 1..Len(wire) /\ wire[1] \in Events \cup Answers
    BY DEF IInv
  <2> QED BY <2>1 DEF Answers
<1>2. PICK n \in Turns, i \in Nat : wire[1].turn = n /\ wire[1].at = i
  BY <1>1 DEF Events
<1>3. Window(win) /\ Texts(win) /\ turn[n].said \in Nat
  BY StreamBoundsAssumption DEF IInv, Whole, TurnsOK
<1>4. OnlyTurn(win, v, n)
  BY <1>1, <1>2, <1>3, HandleEffect
<1>5. /\ Kept(1) /\ TextKept(win, 0, n) /\ EndKept(win, 0, n)
      /\ win.msg[n].text \in Seq(Nat) /\ win.queued[n] \in Seq(Nat)
      /\ win.msg[n].status = "none" => win.msg[n].text = << >>
  BY <1>1, <1>3 DEF Followed, AllKept, Whole, Texts
<1> DEFINE Fine == /\ TextKept(v, 1, n) /\ EndKept(v, 1, n)
                   /\ v.msg[n].text \in Seq(Nat) /\ v.queued[n] \in Seq(Nat)
                   /\ v.msg[n].status = "none" => v.msg[n].text = << >>
<1>6. wire[1].kind # "chunk" => \A k : ChunkBehind(0, n, k) => ChunkBehind(1, n, k)
  BY BehindHead
<1>7. wire[1].kind \notin EndKinds /\ EndBehind(0, n) => EndBehind(1, n)
  BY BehindHead
<1>8. ASSUME wire[1].kind = "start" PROVE Fine
  <2>1. v = HandleChatStart(win, n)
    BY <1>2, <1>8 DEF Handle
  <2>2. v.msg[n].status = "streaming" /\ v.msg[n].text = << >> /\ v.queued[n] = win.queued[n]
    BY <1>3, <2>1, StartEffect
  <2>3. Behind(1, n, 0)
    BY <1>2, <1>5, <1>8 DEF Kept
  <2> QED BY <1>5, <2>2, <2>3 DEF TextKept, EndKept, Has, Behind
<1>9. ASSUME wire[1].kind = "chunk" PROVE Fine
  <2>1. v = HandleChatChunk(win, n, i)
    BY <1>2, <1>9 DEF Handle
  <2>2. /\ v.msg[n].status = win.msg[n].status
        /\ \/ v.queued[n] = Append(win.queued[n], i) /\ v.msg[n].text = win.msg[n].text
           \/ v.queued[n] = win.queued[n] /\ win.msg[n].status = "none"
              /\ v.msg[n].text = win.msg[n].text
           \/ v.queued[n] = win.queued[n] /\ win.msg[n].status # "none"
              /\ v.msg[n].text = Append(win.msg[n].text, i)
    BY <1>3, <2>1, ChunkEffect
  <2>3. \A k : ChunkBehind(0, n, k) => ChunkBehind(1, n, k) \/ k = i
    BY <1>2, BehindHead
  <2>4. /\ Append(win.queued[n], i) \in Seq(Nat) /\ Append(win.msg[n].text, i) \in Seq(Nat)
        /\ Among(Append(win.queued[n], i), i) /\ Among(Append(win.msg[n].text, i), i)
        /\ \A k : Among(win.queued[n], k) => Among(Append(win.queued[n], i), k)
        /\ \A k : Among(win.msg[n].text, k) => Among(Append(win.msg[n].text, i), k)
    BY <1>5, AmongAppend
  <2>5. EndKept(v, 1, n)
    BY <1>5, <1>7, <1>9, <2>2 DEF EndKept, EndKinds
  <2>6. \A k : v.msg[n].status # "none" /\ Has(win, 0, n, k) => Has(v, 1, n, k)
    BY <2>2, <2>3, <2>4 DEF Has
  <2>7. TextKept(v, 1, n)
    BY <1>5, <2>2, <2>6 DEF TextKept
  <2> QED BY <1>5, <2>2, <2>4, <2>5, <2>7
<1>10. ASSUME wire[1].kind = "done" PROVE Fine
  <2>1. v = HandleChatDone(win, n, i)
    BY <1>2, <1>10 DEF Handle
  <2>2. /\ v.queued[n] = win.queued[n] /\ v.msg[n].status = "completed"
        /\ v.msg[n].text = IF win.msg[n].text = << >> THEN UpTo(i) ELSE win.msg[n].text
    BY <1>3, <2>1, DoneEffect
  <2>3. i = turn[n].said
    BY <1>2, <1>5, <1>10 DEF Kept
  <2>4. UpTo(i) \in Seq(Nat) /\ \A k \in 1..i : Among(UpTo(i), k)
    BY AmongUpTo
  <2>5. CASE win.msg[n].text = << >>
    BY <1>5, <2>2, <2>3, <2>4, <2>5 DEF TextKept, EndKept, Has
  <2>6. CASE win.msg[n].text # << >>
    BY <1>5, <1>6, <1>10, <2>2, <2>6 DEF TextKept, EndKept, Has
  <2> QED BY <2>5, <2>6
<1>11. ASSUME wire[1].kind \in {"error", "cancelled"} PROVE Fine
  <2>1. v = HandleChatError(win, n) \/ v = HandleChatCancelled(win, n)
    BY <1>2, <1>11 DEF Handle
  <2>2. /\ v.queued[n] = win.queued[n] /\ v.msg[n].text = win.msg[n].text
        /\ v.msg[n].status # "streaming"
        /\ v.msg[n].status = "none" <=> win.msg[n].status = "none"
    BY <1>3, <2>1, ErrorEffect
  <2> QED BY <1>5, <1>6, <1>11, <2>2 DEF TextKept, EndKept, Has
<1>12. Fine
  BY <1>1, <1>8, <1>9, <1>10, <1>11 DEF Events, EventKinds
<1>13. ASSUME NEW k \in Turns \ {n}
       PROVE  /\ TextKept(v, 1, k) /\ EndKept(v, 1, k)
              /\ v.msg[k].text \in Seq(Nat) /\ v.queued[k] \in Seq(Nat)
              /\ v.msg[k].status = "none" => v.msg[k].text = << >>
  BY <1>2, <1>4, OthersWhole
<1>14. DOMAIN v.queued = Turns
  BY <1>4 DEF OnlyTurn
<1> QED BY <1>12, <1>13, <1>14 DEF Whole, Texts

\* What becomes of a message when an answer is taken.
LEMMA SyncedMessage ==
  ASSUME NEW m, DOMAIN m = {"status", "text", "numbered"}, m.status \in MessageStatuses,
          m.text \in Seq(Nat), m.status = "none" => m.text = << >>,
         NEW n \in Turns, NEW row \in TurnStatuses,
         NEW info, info.len \in Nat, NEW r,
         r = WithStreamingInfo(BuildMessage(m, row, n, info), n, info)
  PROVE  \/ info.turn = n /\ r.text = UpTo(info.len)
         \/ /\ m.status # "none" /\ r.text = m.text
            /\ r.status = "streaming" => m.status = "streaming" \/ row = "running"
         \/ /\ m.status = "none" /\ row = "running" /\ r.text = << >>
            /\ info.turn = n => info.len = 0
         \/ /\ row \in Outcomes /\ r.status # "streaming"
            /\ r.text = IF row = "failed" THEN << >> ELSE UpTo(turn[n].said)
         \/ m.status = "none" /\ r.status = "none" /\ r.text = << >>
<1> DEFINE b == BuildMessage(m, row, n, info)
<1>0. /\ Len(m.text) \in Nat /\ (m.text = << >> => Len(m.text) = 0)
      /\ DOMAIN b = {"status", "text", "numbered"}
  BY BuildKeeps
<1>1. CASE row = "running"
  <2>1. /\ b.status \in {"error", "streaming"}
        /\ info.turn = n /\ info.len > Len(m.text) => b.text = UpTo(info.len)
        /\ ~(info.turn = n /\ info.len > Len(m.text)) => b.text = m.text
    BY <1>1 DEF BuildMessage, Outcomes
  <2>6. DOMAIN b = {"status", "text", "numbered"}
    BY <1>0
  <2> HIDE DEF b
  <2>2. r = WithStreamingInfo(b, n, info)
    BY DEF b
  <2>3. r.text \in {b.text, UpTo(info.len)} /\ (r.text # b.text => info.turn = n)
    BY <2>1, <2>2, <2>6 DEF WithStreamingInfo
  <2>4. CASE info.turn = n /\ (info.len > Len(m.text) \/ r.text # b.text)
    BY <2>1, <2>3, <2>4
  <2>5. CASE ~(info.turn = n /\ (info.len > Len(m.text) \/ r.text # b.text))
    BY <1>0, <1>1, <2>1, <2>3, <2>5
  <2> QED BY <2>4, <2>5
<1>2. CASE row \in Outcomes /\ m.status = "none"
  <2>1. /\ b.status \in {"completed", "error"}
        /\ b.text = IF row = "failed" THEN << >> ELSE UpTo(turn[n].said)
    BY <1>2 DEF BuildMessage, Outcomes
  <2> HIDE DEF b
  <2>2. r = WithStreamingInfo(b, n, info)
    BY DEF b
  <2>3. r = b
    BY <2>1, <2>2 DEF WithStreamingInfo
  <2> QED BY <1>2, <2>1, <2>3
<1>3. CASE row # "running" /\ ~(row \in Outcomes /\ m.status = "none")
  <2>1. b = m
    BY <1>3 DEF BuildMessage, Outcomes
  <2> HIDE DEF b
  <2>2. r = WithStreamingInfo(m, n, info)
    BY <2>1 DEF b
  <2>3. CASE info.turn = n /\ m.status = "none"
    BY <2>2, <2>3 DEF WithStreamingInfo
  <2>4. CASE info.turn = n /\ m.status = "streaming" /\ info.len > Len(m.text)
    BY <2>2, <2>4 DEF WithStreamingInfo
  <2>5. CASE ~(info.turn = n /\ m.status = "none")
             /\ ~(info.turn = n /\ m.status = "streaming" /\ info.len > Len(m.text))
    <3>1. r = m
      BY <2>2, <2>5 DEF WithStreamingInfo
    <3> QED BY <2>5, <3>1
  <2> QED BY <2>3, <2>4, <2>5
<1> QED BY <1>1, <1>2, <1>3

LEMMA SyncedTypes ==
  ASSUME NEW m, DOMAIN m = {"status", "text", "numbered"}, m.status \in MessageStatuses,
          m.text \in Seq(Nat), m.status = "none" => m.text = << >>,
         NEW n \in Turns, NEW row \in TurnStatuses, NEW info, info.len \in Nat,
         turn[n].said \in Nat, NEW r,
         r = WithStreamingInfo(BuildMessage(m, row, n, info), n, info)
  PROVE  r.text \in Seq(Nat) /\ (r.status = "none" => r.text = << >>)
<1> DEFINE b == BuildMessage(m, row, n, info)
<1>1. UpTo(info.len) \in Seq(Nat) /\ UpTo(turn[n].said) \in Seq(Nat)
  BY AmongUpTo
<1>2. b.text \in Seq(Nat) /\ (b.status = "none" => b.text = << >>)
  BY <1>1 DEF BuildMessage, Outcomes
<1>3. r = WithStreamingInfo(b, n, info) /\ DOMAIN b = {"status", "text", "numbered"}
  BY BuildKeeps
<1> HIDE DEF b
<1> QED BY <1>1, <1>2, <1>3 DEF WithStreamingInfo

LEMMA AnswerWhole ==
  ASSUME IInv, JInv, Followed, Whole(win, 0), NEW w, NEW js, NEW inner, AnswerTaken(w, js, inner)
  PROVE  Whole(w, 1)
<1>1. /\ wire # << >> /\ wire[1] = Head(wire) /\ 1 \in 1..Len(wire) /\ wire[1].kind = "answer"
  BY DEF AnswerTaken, IInv
<1>2. PICK j \in Joins : j = wire[1].turn
  BY <1>1 DEF AnswerTaken
<1>3. AnswerFollowed(1, j)
  BY <1>1, <1>2 DEF Followed, AllKept, Kept
<1>4. \A n : /\ \A i : ChunkBehind(0, n, i) => ChunkBehind(1, n, i)
             /\ EndBehind(0, n) => EndBehind(1, n)
  BY <1>1, BehindHead DEF EndKinds
<1>5. ASSUME win.status # "joining" PROVE Whole(w, 1)
  BY <1>4, <1>5 DEF AnswerTaken, Whole, TextKept, EndKept, Has
<1>6. ASSUME win.status = "joining" PROVE Whole(w, 1)
  <2>1. w \in Synced(win, join[j]) /\ Window(win) /\ Texts(win)
    BY <1>1, <1>2, <1>6 DEF AnswerTaken, IInv, Whole
  <2>2. /\ w.queued = win.queued
        /\ \A n \in Turns : w.msg[n] = WithStreamingInfo(
              BuildMessage(win.msg[n], join[j].rows[n], n, join[j].info), n, join[j].info)
    BY <2>1, SyncedEffect
  <2>3. /\ join[j].info.len \in Nat
        /\ \A n \in Turns : /\ join[j].rows[n] \in TurnStatuses
                            /\ join[j].rows[n] = "failed" => turn[n].status = "failed"
    BY StreamBoundsAssumption DEF JInv, JoinTypes
  <2>4. \A n \in Turns : turn[n].said \in Nat
    BY StreamBoundsAssumption DEF IInv, TurnsOK
  <2>5. ASSUME NEW n \in Turns
        PROVE  w.msg[n].text \in Seq(Nat) /\ (w.msg[n].status = "none" => w.msg[n].text = << >>)
    <3> DEFINE m == win.msg[n]
               row == join[j].rows[n]
               info == join[j].info
               r == w.msg[n]
    <3>1. /\ DOMAIN m = {"status", "text", "numbered"}
          /\ m.status \in MessageStatuses /\ m.text \in Seq(Nat)
          /\ m.status = "none" => m.text = << >>
      BY <2>1 DEF Texts, Window
    <3>2. /\ row \in TurnStatuses /\ info.len \in Nat /\ turn[n].said \in Nat
          /\ r = WithStreamingInfo(BuildMessage(m, row, n, info), n, info)
      BY <2>2, <2>3, <2>4
    <3> HIDE DEF m, row, info, r
    <3>3. r.text \in Seq(Nat) /\ (r.status = "none" => r.text = << >>)
      BY <3>1, <3>2, SyncedTypes
    <3> QED BY <3>3 DEF r
  <2>6. Texts(w)
    BY <2>1, <2>2, <2>5 DEF Texts
  <2>7. ASSUME NEW n \in Turns, n \notin missed \cup stale
        PROVE  TextKept(w, 1, n) /\ EndKept(w, 1, n)
    <3> DEFINE m == win.msg[n]
               r == w.msg[n]
               row == join[j].rows[n]
               info == join[j].info
    <3>1. TextKept(win, 0, n) /\ EndKept(win, 0, n)
      BY DEF Whole
    <3>2. /\ info.turn = n => Behind(1, n, info.len)
          /\ row = "running" /\ info.turn # n => Behind(1, n, 0)
      BY <1>3, <2>7 DEF AnswerFollowed
    <3>3. /\ DOMAIN m = {"status", "text", "numbered"}
          /\ m.status \in MessageStatuses /\ m.text \in Seq(Nat)
          /\ m.status = "none" => m.text = << >>
          /\ row \in TurnStatuses /\ (row = "failed" => turn[n].status = "failed")
          /\ r = WithStreamingInfo(BuildMessage(m, row, n, info), n, info)
          /\ w.queued[n] = win.queued[n] /\ info.len \in Nat /\ turn[n].said \in Nat
      BY <2>1, <2>2, <2>3, <2>4 DEF Texts, Window
    <3> HIDE DEF m, r, row, info
    <3>4. CASE info.turn = n /\ r.text = UpTo(info.len)
      <4>1. \A i \in 1..turn[n].said : i \in 1..info.len \/ i \in (info.len + 1)..turn[n].said
        BY <3>3
      <4>2. \A i \in 1..info.len : Among(UpTo(info.len), i)
        BY <3>3, AmongUpTo
      <4> QED BY <3>2, <3>4, <4>1, <4>2 DEF TextKept, EndKept, Has, Behind, r
    <3>5. CASE /\ m.status # "none" /\ r.text = m.text
               /\ r.status = "streaming" => m.status = "streaming" \/ row = "running"
      <4>1. row = "running" => EndBehind(1, n)
        BY <3>2 DEF Behind
      <4>2. EndKept(w, 1, n)
        BY <1>4, <3>1, <3>5, <4>1 DEF EndKept, r, m
      <4>3. TextKept(w, 1, n)
        BY <1>4, <3>1, <3>3, <3>5 DEF TextKept, Has, r, m
      <4> QED BY <4>2, <4>3
    <3>6. CASE /\ m.status = "none" /\ row = "running" /\ r.text = << >>
               /\ info.turn = n => info.len = 0
      <4>1. Behind(1, n, 0)
        BY <3>2, <3>6
      <4> QED BY <4>1 DEF TextKept, EndKept, Has, Behind
    <3>7. CASE /\ row \in Outcomes /\ r.status # "streaming"
               /\ r.text = IF row = "failed" THEN << >> ELSE UpTo(turn[n].said)
      <4>1. \A i \in 1..turn[n].said : Among(UpTo(turn[n].said), i)
        BY <3>3, AmongUpTo
      <4> QED BY <3>3, <3>7, <4>1 DEF TextKept, EndKept, Has, r
    <3>8. CASE m.status = "none" /\ r.status = "none" /\ r.text = << >>
      BY <3>8 DEF TextKept, EndKept, r
    <3> QED BY <3>3, <3>4, <3>5, <3>6, <3>7, <3>8, SyncedMessage
  <2> QED BY <2>6, <2>7 DEF Whole, TextKept, EndKept
<1> QED BY <1>5, <1>6

LEMMA ApplyWhole ==
  ASSUME NEW w, Window(w), NEW p, Whole(w, p), NEW v, v = ApplyPendingChunks(w)
  PROVE  Whole(v, p)
<1>1. /\ v.queued = NoChunks
      /\ \A n \in Turns :
           /\ v.msg[n].status = w.msg[n].status
           /\ v.msg[n].text = IF w.msg[n].status = "none" THEN w.msg[n].text
                              ELSE w.msg[n].text \o w.queued[n]
  BY ApplyEffect DEF Whole
<1>2. DOMAIN v.queued = Turns /\ \A n \in Turns : v.queued[n] \in Seq(Nat)
  BY <1>1 DEF NoChunks
<1>3. ASSUME NEW n \in Turns
      PROVE  /\ v.msg[n].text \in Seq(Nat) /\ (v.msg[n].status = "none" => v.msg[n].text = << >>)
             /\ TextKept(v, p, n) /\ EndKept(v, p, n)
  <2>1. /\ w.msg[n].text \in Seq(Nat) /\ w.queued[n] \in Seq(Nat)
        /\ w.msg[n].status = "none" => w.msg[n].text = << >>
        /\ TextKept(w, p, n) /\ EndKept(w, p, n)
    BY DEF Whole, Texts
  <2>2. /\ w.msg[n].text \o w.queued[n] \in Seq(Nat)
        /\ \A i : Among(w.msg[n].text, i) \/ Among(w.queued[n], i) =>
             Among(w.msg[n].text \o w.queued[n], i)
    BY <2>1, AmongConcat
  <2> QED BY <1>1, <2>1, <2>2 DEF TextKept, EndKept, Has
<1> QED BY <1>2, <1>3 DEF Whole, Texts

\* The state of the window is taken over, with d messages off the connection.
LEMMA WholeShift ==
  ASSUME IInv, turn' = turn, NEW d \in {0, 1}, Len(wire') = Len(wire) - d,
         \A k \in 1..Len(wire') : wire'[k] = wire[k + d],
         missed \subseteq missed', stale \subseteq stale',
         NEW v, Whole(v, d), win'.msg = v.msg, win'.queued = v.queued
  PROVE  Whole(win, 0)'
<1>1. Texts(win)'
  BY DEF Whole, Texts
<1>2. ASSUME NEW n \in Turns PROVE TextKept(win, 0, n)' /\ EndKept(win, 0, n)'
  <2>1. /\ \A i : ChunkBehind(d, n, i) => ChunkBehind(0, n, i)'
        /\ EndBehind(d, n) => EndBehind(0, n)'
    <3>1. 0 + d = d
      OBVIOUS
    <3> QED BY <3>1, BehindShift
  <2>2. TextKept(v, d, n) /\ EndKept(v, d, n)
    BY DEF Whole
  <2>3. TextKept(win, 0, n)'
    BY <2>1, <2>2 DEF TextKept, Has
  <2>4. EndKept(win, 0, n)'
    BY <2>1, <2>2 DEF EndKept
  <2> QED BY <2>3, <2>4
<1> QED BY <1>1, <1>2 DEF Whole

LEMMA WholeStays ==
  ASSUME IInv, UNCHANGED << turn, wire, missed, stale >>, Whole(win, 0),
         win'.msg = win.msg, win'.queued = win.queued
  PROVE  Whole(win, 0)'
<1>1. PICK v : v = win
  OBVIOUS
<1> QED BY <1>1, SameWire, WholeShift

LEMMA WholeWork ==
  ASSUME IInv, Backend, Whole(win, 0), NEW m \in Turns, Work(m)
  PROVE  Whole(win, 0)'
<1>1. win'.msg = win.msg /\ win'.queued = win.queued /\ stale' = stale /\ missed \subseteq missed'
  BY DEF Work, Send, DispatchTurn, Start, AddTextContent, UpdateStatus, CleanupStreamingState,
         Emit, IInv, Window, history
<1>2. Texts(win)'
  BY <1>1 DEF Whole, Texts
<1>3. ASSUME NEW n \in Turns, n \notin missed' \cup stale', Shown(n)
      PROVE  TextKept(win, 0, n)' /\ EndKept(win, 0, n)'
  <2>1. Emit(m) /\ m = n => room
    BY <1>3 DEF Emit
  <2>2. 0 \in 0..Len(wire)
    BY DEF IInv
  <2>3. /\ \A i : ChunkBehind(0, n, i) => ChunkBehind(0, n, i)'
        /\ \A i \in 1..turn'[n].said : i \in 1..turn[n].said \/ ChunkBehind(0, n, i)'
        /\ EndBehind(0, n) => EndBehind(0, n)'
    BY <2>1, <2>2, BehindWork
  <2>4. TextKept(win, 0, n) /\ EndKept(win, 0, n) /\ n \notin missed \cup stale
    BY <1>1, <1>3 DEF Whole
  <2>5. turn[n].status = "failed" => turn'[n].status = "failed"
    <3>1. [Next]_vars
      BY DEF Next
    <3> QED BY <3>1, OverStays DEF IInv, Over, Outcomes
  <2>6. TextKept(win, 0, n)'
    BY <1>1, <2>3, <2>4, <2>5 DEF TextKept, Has
  <2>7. EndKept(win, 0, n)'
    BY <1>1, <2>3, <2>4 DEF EndKept
  <2> QED BY <2>6, <2>7
<1>4. ASSUME NEW n \in Turns PROVE TextKept(win, 0, n)' /\ EndKept(win, 0, n)'
  <2>1. CASE n \notin missed' \cup stale' /\ Shown(n)
    BY <1>3, <2>1
  <2>2. CASE n \in missed' \cup stale' \/ ~Shown(n)
    BY <1>1, <2>2 DEF TextKept, EndKept, Shown
  <2> QED BY <2>1, <2>2
<1> QED BY <1>2, <1>4 DEF Whole

LEMMA WholeJoin ==
  ASSUME IInv, Whole(win, 0), NEW j \in Joins, JoinStep(j)
  PROVE  Whole(win, 0)'
<1>1. ASSUME EnterRoom(j) \/ ReadSubtasks(j) PROVE Whole(win, 0)'
  BY <1>1, WholeStays DEF EnterRoom, ReadSubtasks, backend, net, history
<1>2. ASSUME AnswerJoin(j) PROVE Whole(win, 0)'
  <2>1. /\ turn' = turn /\ wire' = Append(wire, Event("answer", j, 0)) /\ win' = win
        /\ missed' = missed /\ stale \subseteq stale'
    BY <1>2 DEF AnswerJoin, backend
  <2>2. 0 \in 0..Len(wire)
    BY DEF IInv
  <2>3. ASSUME NEW n \in Turns PROVE TextKept(win, 0, n)' /\ EndKept(win, 0, n)'
    <3>1. /\ \A i : ChunkBehind(0, n, i) => ChunkBehind(0, n, i)'
          /\ EndBehind(0, n) => EndBehind(0, n)'
      BY <2>1, <2>2, BehindAppend
    <3>2. TextKept(win, 0, n) /\ EndKept(win, 0, n)
      BY DEF Whole
    <3>3. TextKept(win, 0, n)'
      BY <2>1, <3>1, <3>2 DEF TextKept, Has
    <3>4. EndKept(win, 0, n)'
      BY <2>1, <3>1, <3>2 DEF EndKept
    <3> QED BY <3>3, <3>4
  <2> QED BY <2>1, <2>3 DEF Whole, Texts
<1> QED BY <1>1, <1>2 DEF JoinStep

LEMMA WholeReceiveEvent ==
  ASSUME IInv, JInv, Followed, Whole(win, 0), ReceiveEvent
  PROVE  Whole(win, 0)'
<1>1. turn' = turn /\ stale' = stale /\ missed' = missed /\ wire # << >> /\ wire' = Tail(wire)
      /\ wire[1].kind # "answer" /\ Head(wire) = wire[1]
  BY DEF ReceiveEvent, backend, IInv
<1>2. PICK v : v = Handle(win, wire[1])
  OBVIOUS
<1>3. Whole(v, 1)
  BY <1>1, <1>2, EventWhole
<1>4. Window(v) /\ JoinsOK(join)
  BY <1>1, <1>2, WireReceive, HandleKeeps DEF IInv
<1>5. IF Due(v) THEN Joining(v, join, FALSE) ELSE win' = v
  BY <1>1, <1>2 DEF ReceiveEvent
<1>6. Due(v) => Free(join)
  BY <1>1, <1>2, ReceiveEventJInv DEF Whole
<1>7. win'.msg = v.msg /\ win'.queued = v.queued
  <2>1. CASE Due(v)
    <3>1. Free(join) /\ Joining(v, join, FALSE)
      BY <1>5, <1>6, <2>1
    <3> QED BY <1>4, <3>1, JoiningTakes
  <2>2. CASE ~Due(v)
    BY <1>5, <2>2
  <2> QED BY <2>1, <2>2
<1> QED BY <1>1, <1>3, <1>7, TailWire, WholeShift

LEMMA WholeReceiveAnswer ==
  ASSUME IInv, JInv, Followed, [Next]_vars, Whole(win, 0),
         NEW w, NEW js, NEW inner, AnswerTaken(w, js, inner)
  PROVE  Whole(win, 0)'
<1>1. turn' = turn /\ stale' = stale /\ missed' = missed /\ wire # << >> /\ wire' = Tail(wire)
  BY DEF AnswerTaken, backend, history
<1>2. Window(w) /\ JoinsOK(js)
  BY TakenShape
<1>3. Whole(w, 1)
  BY AnswerWhole
<1>4. CASE Due(w)
  <2>1. Free(js) /\ Joining(w, js, inner)
    BY <1>4, ReceiveAnswerJInv DEF AnswerTaken, Whole
  <2>2. win'.msg = w.msg /\ win'.queued = w.queued
    BY <1>2, <2>1, JoiningTakes
  <2> QED BY <1>1, <1>3, <2>2, TailWire, WholeShift
<1>5. CASE ~Due(w)
  <2>1. PICK v : v = IF inner THEN ApplyPendingChunks(w) ELSE w
    OBVIOUS
  <2>2. Whole(v, 1)
    BY <1>2, <1>3, <2>1, ApplyWhole
  <2>3. win' = v
    BY <1>5, <2>1 DEF AnswerTaken
  <2> QED BY <1>1, <2>2, <2>3, TailWire, WholeShift
<1> QED BY <1>4, <1>5

LEMMA WholeWindow ==
  ASSUME IInv, JInv, Whole(win, 0), [Next]_vars,
         Reenter \/ Open \/ Recover \/ Disconnect \/ Reconnect \/ UNCHANGED vars
  PROVE  Whole(win, 0)'
<1>0. Window(win) /\ JoinsOK(join)
  BY DEF IInv
<1>1. ASSUME Reenter \/ Reconnect \/ UNCHANGED vars PROVE Whole(win, 0)'
  <2>1. UNCHANGED << turn, wire, missed, stale >> /\ win'.msg = win.msg /\ win'.queued = win.queued
    BY <1>0, <1>1 DEF Reenter, Reconnect, vars, backend, net, history, Window
  <2> QED BY <2>1, WholeStays
<1>2. ASSUME Free(join), Joining(win, join, FALSE), UNCHANGED << turn, wire, missed, stale >>
      PROVE  Whole(win, 0)'
  <2>1. win'.msg = win.msg /\ win'.queued = win.queued
    BY <1>0, <1>2, JoiningTakes
  <2> QED BY <1>2, <2>1, WholeStays
<1>3. ASSUME Open PROVE Whole(win, 0)'
  BY <1>2, <1>3, OpenJInv DEF Open, backend, net, history
<1>4. ASSUME Recover PROVE Whole(win, 0)'
  <2>1. UNCHANGED << turn, wire, missed, stale >>
    BY <1>4 DEF Recover, backend, net, history
  <2>2. CASE win.status = "joining"
    <3>1. win'.msg = win.msg /\ win'.queued = win.queued
      BY <1>0, <1>4, <2>2 DEF Recover, Window
    <3> QED BY <2>1, <3>1, WholeStays
  <2>3. CASE win.status # "joining"
    BY <1>2, <1>4, <2>1, <2>3, RecoverJInv DEF Recover
  <2> QED BY <2>2, <2>3
<1>5. ASSUME Disconnect PROVE Whole(win, 0)'
  <2>1. turn' = turn /\ win' = win /\ stale' = stale
        /\ missed' = missed \cup {n \in Turns : Shown(n) /\
                 \E i \in 1..Len(wire) : wire[i].kind # "answer" /\ wire[i].turn = n}
    BY <1>5 DEF Disconnect, backend
  <2>2. Texts(win)'
    BY <2>1 DEF Whole, Texts
  <2>3. ASSUME NEW n \in Turns, n \notin missed', Shown(n)
        PROVE  /\ \A i : ChunkBehind(0, n, i) => ChunkBehind(0, n, i)'
               /\ EndBehind(0, n) => EndBehind(0, n)'
    <3>1. \A k \in 1..Len(wire) : wire[k].turn = n => wire[k].kind = "answer"
      BY <2>1, <2>3
    <3>2. \A k \in (0 + 1)..Len(wire) : k \in 1..Len(wire)
      OBVIOUS
    <3>3. "answer" \notin EndKinds
      BY DEF EndKinds
    <3> QED BY <2>1, <3>1, <3>2, <3>3 DEF ChunkBehind, EndBehind
  <2>4. ASSUME NEW n \in Turns PROVE TextKept(win, 0, n)' /\ EndKept(win, 0, n)'
    <3>1. TextKept(win, 0, n) /\ EndKept(win, 0, n)
      BY DEF Whole
    <3>2. CASE n \in missed' \/ ~Shown(n)
      BY <2>1, <3>2 DEF TextKept, EndKept, Shown
    <3>3. CASE n \notin missed' /\ Shown(n)
      <4>1. TextKept(win, 0, n)'
        BY <2>1, <2>3, <3>1, <3>3 DEF TextKept, Has
      <4>2. EndKept(win, 0, n)'
        BY <2>1, <2>3, <3>1, <3>3 DEF EndKept
      <4> QED BY <4>1, <4>2
    <3> QED BY <3>2, <3>3
  <2> QED BY <2>2, <2>4 DEF Whole
<1> QED BY <1>1, <1>3, <1>4, <1>5

\* As long as the connection has not broken, what is shown came into the room.
Unbroken == breaks = 0 => missed = {} /\ (room \/ \A n \in Turns : ~Shown(n))

LInv == IInv /\ Backend /\ JInv /\ Followed /\ Whole(win, 0)

LEMMA InitLInv == Init => LInv
<1> SUFFICES ASSUME Init PROVE LInv
  OBVIOUS
<1>1. wire = << >> /\ 1..Len(wire) = {}
  BY DEF Init
<1>2. Followed
  BY <1>1 DEF Followed, AllKept, AnsweredOnce
<1>3. /\ \A n \in Turns : win.msg[n] = NoMessage
      /\ win.queued = NoChunks
  BY DEF Init
<1>4. NoMessage.status = "none" /\ NoMessage.text = << >>
  BY DEF NoMessage
<1>5. DOMAIN win.queued = Turns /\ \A n \in Turns : win.queued[n] = << >>
  BY <1>3 DEF NoChunks
<1>6. << >> \in Seq(Nat) /\ DOMAIN win.queued = Turns
      /\ \A n \in Turns : /\ win.msg[n].text = << >> /\ win.queued[n] = << >>
  BY <1>3, <1>4, <1>5
<1>7. Texts(win)
  BY <1>6 DEF Texts
<1>8. Whole(win, 0)
  BY <1>3, <1>4, <1>7 DEF Whole, TextKept, EndKept
<1> QED BY <1>2, <1>8, InitIInv, BackendInit, JInvInit DEF LInv

\* Whatever happens to a join or on the connection, the joins keep their invariant.
LEMMA JInvStays ==
  ASSUME IInv, JInv, UNCHANGED vars \/ Reenter PROVE JInv'
<1>1. [Next]_vars /\ join' = join /\ link' = link /\ recoveries' = recoveries /\ breaks' = breaks
      /\ wire' = wire /\ win' = win /\ (room => room')
  BY DEF Next, Reenter, vars, net
<1> QED BY <1>1, JoinsFrame

LEMMA NextLInv == LInv /\ [Next]_vars => LInv'
<1> SUFFICES ASSUME LInv, [Next]_vars PROVE LInv'
  OBVIOUS
<1>1. IInv' /\ TurnsOK'
  BY NextIInv DEF LInv, IInv
<1>2. Backend'
  BY <1>1, BackendStep DEF LInv
<1>3. Texts(win)
  BY DEF LInv, Whole
<1>4. ASSUME NEW m \in Turns, Work(m) PROVE JInv' /\ Followed' /\ Whole(win, 0)'
  BY <1>2, <1>4, WorkJInv, FollowedWork, WholeWork DEF LInv
<1>5. ASSUME NEW j \in Joins, JoinStep(j) PROVE JInv' /\ Followed' /\ Whole(win, 0)'
  BY <1>5, JoinJInv, FollowedJoin, WholeJoin DEF LInv
<1>6. ASSUME ReceiveEvent PROVE JInv' /\ Followed' /\ Whole(win, 0)'
  BY <1>3, <1>6, ReceiveEventJInv, FollowedReceiveEvent, WholeReceiveEvent DEF LInv
<1>7. ASSUME ReceiveAnswer PROVE JInv' /\ Followed' /\ Whole(win, 0)'
  <2>1. PICK w, js, inner : AnswerTaken(w, js, inner)
    BY <1>7, AnswerIsTaken DEF LInv
  <2> QED BY <1>3, <2>1, ReceiveAnswerJInv, FollowedReceiveAnswer, WholeReceiveAnswer DEF LInv
<1>8. ASSUME Reenter \/ Open \/ Recover \/ Disconnect \/ Reconnect \/ UNCHANGED vars
      PROVE  JInv' /\ Followed' /\ Whole(win, 0)'
  <2>1. JInv'
    BY <1>8, OpenJInv, RecoverJInv, DisconnectJInv, ReconnectJInv, JInvStays DEF LInv
  <2> QED BY <1>8, <2>1, FollowedWindow, WholeWindow DEF LInv
<1>9. JInv' /\ Followed' /\ Whole(win, 0)'
  BY <1>4, <1>5, <1>6, <1>7, <1>8 DEF Next, Receive
<1> QED BY <1>1, <1>2, <1>9 DEF LInv

LEMMA LInvHolds == Spec => []LInv
BY InitLInv, NextLInv, PTL DEF Spec

\* Every piece of an answer that the window shows is in its text, queued, on the
\* connection or still to be emitted, for any number of turns, pieces, joins,
\* recoveries and breaks -- but for the turns a break or a late answer touched.
THEOREM NoneIsLost == Spec => []NothingLost
<1>1. LInv => NothingLost
  <2> SUFFICES ASSUME LInv, NEW n \in Turns, Shown(n), n \notin missed \cup stale,
                      turn[n].status # "failed", NEW i \in 1..turn[n].said
               PROVE  i \in {win.msg[n].text[k] : k \in 1..Len(win.msg[n].text)} \cup Underway(n)
    BY DEF NothingLost
  <2>1. Has(win, 0, n, i)
    BY DEF LInv, Whole, TextKept, Shown
  <2>2. CASE Among(win.msg[n].text, i)
    BY <2>2 DEF Among
  <2>3. CASE Among(win.queued[n], i)
    BY <2>3 DEF Among, Underway
  <2>4. CASE ChunkBehind(0, n, i)
    <3>1. i \in Underway(n)
      BY <2>4 DEF ChunkBehind, Underway
    <3> QED BY <3>1
  <2> QED BY <2>1, <2>2, <2>3, <2>4 DEF Has
<1> QED BY <1>1, LInvHolds, PTL

\* The window shows no turn as streaming whose end it has been told of, in
\* whatever order joins, their answers and the events come.
THEOREM EndShown == Spec => []EndIsShown
<1>1. LInv => EndIsShown
  <2> SUFFICES ASSUME LInv, NEW n \in Turns, turn[n].cleaned, turn[n].out = "none",
                      n \notin missed \cup stale, win.msg[n].status = "streaming"
               PROVE  EndOnWire(n)
    BY DEF EndIsShown
  <2>1. EndBehind(0, n)
    BY DEF LInv, Whole, EndKept
  <2>2. PICK k \in (0 + 1)..Len(wire) : wire[k].turn = n /\ wire[k].kind \in EndKinds
    BY <2>1 DEF EndBehind
  <2>3. k \in 1..Len(wire)
    OBVIOUS
  <2> QED BY <2>2, <2>3 DEF EndOnWire, EndKinds
<1> QED BY <1>1, LInvHolds, PTL

LEMMA UnbrokenNext ==
  ASSUME LInv, Unbroken, [Next]_vars PROVE Unbroken'
<1>1. /\ breaks \in Nat /\ Window(win) /\ JoinsOK(join) /\ (wire # << >> => room)
  BY StreamBoundsAssumption DEF LInv, IInv, Scalars, JInv, InRoom
<1>2. ASSUME breaks' = breaks, missed' = missed, room => room',
             \A n \in Turns : win'.msg[n] = win.msg[n]
      PROVE  Unbroken'
  BY <1>2 DEF Unbroken, Shown
<1>3. ASSUME NEW m \in Turns, Work(m) PROVE Unbroken'
  <2>1. breaks' = breaks /\ (room => room') /\ \A n \in Turns : win'.msg[n] = win.msg[n]
    BY <1>1, <1>3 DEF Work, Send, DispatchTurn, Start, AddTextContent, UpdateStatus,
                      CleanupStreamingState, Emit, net, Window
  <2>2. breaks = 0 => missed' = missed
    BY <1>3 DEF Unbroken, Work, Send, DispatchTurn, Start, AddTextContent, UpdateStatus,
                CleanupStreamingState, Emit, history
  <2> QED BY <2>1, <2>2 DEF Unbroken, Shown
<1>4. ASSUME NEW j \in Joins, JoinStep(j) PROVE Unbroken'
  BY <1>2, <1>4 DEF JoinStep, EnterRoom, ReadSubtasks, AnswerJoin, net, history
<1>5. ASSUME Receive PROVE Unbroken'
  <2>1. room /\ room' = room /\ breaks' = breaks /\ missed' = missed
    BY <1>1, <1>5 DEF Receive, ReceiveEvent, ReceiveAnswer, history
  <2> QED BY <2>1 DEF Unbroken
<1>6. ASSUME Free(join), Joining(win, join, FALSE) PROVE \A n \in Turns : win'.msg[n] = win.msg[n]
  BY <1>1, <1>6, JoiningTakes
<1>7. ASSUME Open PROVE Unbroken'
  <2>1. breaks' = breaks /\ missed' = missed /\ room' = room
    BY <1>7 DEF Open, net, history
  <2> QED BY <1>2, <1>6, <1>7, <2>1, OpenJInv DEF Open, LInv
<1>8. ASSUME Recover PROVE Unbroken'
  <2>1. breaks' = breaks /\ missed' = missed /\ room' = room
    BY <1>8 DEF Recover, net, history
  <2>2. CASE win.status = "joining"
    <3>1. win'.msg = win.msg
      BY <1>1, <1>8, <2>2 DEF Recover, Window
    <3> QED BY <1>2, <2>1, <3>1
  <2>3. CASE win.status # "joining"
    BY <1>2, <1>6, <1>8, <2>1, <2>3, RecoverJInv DEF Recover, LInv
  <2> QED BY <2>2, <2>3
<1>9. ASSUME Disconnect PROVE Unbroken'
  BY <1>1, <1>9 DEF Disconnect, Unbroken
<1>10. ASSUME Reenter \/ Reconnect \/ UNCHANGED vars PROVE Unbroken'
  <2>1. breaks' = breaks /\ missed' = missed /\ (room => room') /\ win'.msg = win.msg
    BY <1>1, <1>10 DEF Reenter, Reconnect, vars, net, history, Window
  <2> QED BY <1>2, <2>1
<1> QED BY <1>3, <1>4, <1>5, <1>7, <1>8, <1>9, <1>10 DEF Next

\* As long as the connection has not broken, no event of a turn the window shows has
\* been lost: NothingLost and EndIsShown then excuse only what a late answer said.
THEOREM MissedOnlyBroken == Spec => [](breaks = 0 => missed = {})
<1>1. Init => Unbroken
  <2>1. Init => missed = {} /\ \A n \in Turns : win.msg[n] = NoMessage
    BY DEF Init
  <2>2. NoMessage.status = "none"
    BY DEF NoMessage
  <2> QED BY <2>1, <2>2 DEF Unbroken, Shown
<1>2. Unbroken => (breaks = 0 => missed = {})
  BY DEF Unbroken
<1>3. LInv /\ Unbroken /\ [Next]_vars => Unbroken'
  BY UnbrokenNext
<1> QED BY <1>1, <1>2, <1>3, LInvHolds, PTL DEF Spec

=============================================================================
