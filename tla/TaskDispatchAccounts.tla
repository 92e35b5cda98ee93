------------------------ MODULE TaskDispatchAccounts ------------------------
(***************************************************************************)
(* Proofs that TaskDispatch forgets no turn without a fault or a taken     *)
(* entry, and that its heartbeat checker fails no turn that runs, for any  *)
(* number of turns, consumers, checkers and incidents.                     *)
(***************************************************************************)
EXTENDS TaskDispatchProofs

(***************************************************************************)
(* References.  Whoever holds a turn holds the box that is the turn's home, *)
(* and only turns that were sent are held.                                 *)
(***************************************************************************)
Home(t) == IF turn[t].box = NoBox THEN t ELSE turn[t].box
Sent(t) == turn[t].send = "done"
Made(b) == box[b].state # "none"
Active(r) == run[r].pc \in {"running", "event"}

Ref(t, b) == Sent(t) /\ Made(b) /\ b = Home(t)

\* A message names the box that its turn had when it was posted.
GoodMessage(m) ==
  /\ Sent(m.turn)
  /\ IF m.box = NoBox THEN Home(m.turn) = m.turn ELSE turn[m.turn].box = m.box

QueueRefs == \A i \in 1..Len(queue) : GoodMessage(queue[i])
ConsumerRefs ==
  \A c \in Consumers :
    /\ consumer[c].pc # "idle" => GoodMessage(consumer[c].msg)
    /\ consumer[c].pc \in {"dispatch", "register"} => Ref(consumer[c].msg.turn, consumer[c].box)
RunRefs ==
  \A r \in DOMAIN run :
    /\ run[r].pc # "free" => Sent(run[r].turn)
    /\ run[r].pc \in {"running", "event", "forwarded"} => Ref(run[r].turn, run[r].box)
    /\ Active(r) => box[run[r].box].state = "running"
EntryRef == tracked # NotTracked => Ref(tracked.turn, tracked.box)
CheckerRefs == \A k \in Checkers : checker[k].pc # "idle" => Ref(checker[k].turn, checker[k].box)
BoxRefs == \A b \in Turns : /\ box[b].turn # NoTurn => Ref(box[b].turn, b)
                            /\ Made(b) => Sent(b)
TurnRefs == \A t \in Turns : turn[t].box # NoBox => Made(turn[t].box)

Refs == /\ QueueRefs /\ ConsumerRefs /\ RunRefs /\ EntryRef /\ CheckerRefs
        /\ BoxRefs /\ TurnRefs

\* What a step may not undo: turns stay sent and at home, boxes stay made.
KeptTurns ==
  \A t \in Turns : Sent(t) => /\ Sent(t)' /\ Home(t)' = Home(t)
                              /\ turn[t].box # NoBox => turn'[t].box = turn[t].box
KeptBoxes == \A b \in Turns : Made(b) => Made(b)'

LEMMA RefKept ==
  ASSUME KeptTurns, KeptBoxes, NEW t \in Turns, NEW b \in Turns, Ref(t, b)
  PROVE  Ref(t, b)'
BY DEF KeptTurns, KeptBoxes, Ref

LEMMA MessageStaysGood ==
  ASSUME KeptTurns, NEW m \in Posts, GoodMessage(m)
  PROVE  GoodMessage(m)'
BY DEF KeptTurns, GoodMessage, Home, Posts

\* A part of the state that does not change keeps its references.
LEMMA SameRefs ==
  ASSUME TypeOK, Refs, KeptTurns, KeptBoxes
  PROVE  /\ UNCHANGED queue => QueueRefs'
         /\ UNCHANGED consumer => ConsumerRefs'
         /\ UNCHANGED << run, box >> => RunRefs'
         /\ UNCHANGED tracked => EntryRef'
         /\ UNCHANGED checker => CheckerRefs'
         /\ UNCHANGED box => BoxRefs'
         /\ UNCHANGED turn => TurnRefs'
<1> USE TypeParts
<1>1. ASSUME UNCHANGED queue PROVE QueueRefs'
  <2>1. \A i \in 1..Len(queue) : queue[i] \in Posts /\ GoodMessage(queue[i])
    BY DEF QueueOK, Refs, QueueRefs
  <2> QED BY <1>1, <2>1, MessageStaysGood DEF QueueRefs
<1>2. ASSUME UNCHANGED consumer PROVE ConsumerRefs'
  <2> SUFFICES ASSUME NEW c \in Consumers
               PROVE  /\ consumer[c].pc # "idle" => GoodMessage(consumer[c].msg)'
                      /\ consumer[c].pc \in {"dispatch", "register"}
                           => Ref(consumer[c].msg.turn, consumer[c].box)'
    BY <1>2 DEF ConsumerRefs
  <2> DEFINE m == consumer[c].msg
             b == consumer[c].box
  <2>1. consumer[c].pc # "idle" => m \in Posts /\ GoodMessage(m)
    BY MessageOK DEF Refs, ConsumerRefs
  <2>2. consumer[c].pc \in {"dispatch", "register"} => m.turn \in Turns /\ b \in Turns /\ Ref(m.turn, b)
    BY DEF ConsumersOK, Refs, ConsumerRefs
  <2>3. m' = m /\ b' = b
    BY <1>2
  <2>4. consumer[c].pc # "idle" => GoodMessage(m)'
    BY <2>1, <2>3, MessageStaysGood
  <2>5. consumer[c].pc \in {"dispatch", "register"} => Ref(m.turn, b)'
    BY <2>2, <2>3, RefKept
  <2> QED BY <2>3, <2>4, <2>5
<1>3. ASSUME UNCHANGED << run, box >> PROVE RunRefs'
  BY <1>3, RefKept DEF RunsOK, Refs, RunRefs, KeptTurns, Active
<1>4. ASSUME UNCHANGED tracked PROVE EntryRef'
  BY <1>4, RefKept DEF EntryOK, Refs, EntryRef
<1>5. ASSUME UNCHANGED checker PROVE CheckerRefs'
  BY <1>5, RefKept DEF CheckersOK, Refs, CheckerRefs
<1>6. ASSUME UNCHANGED box PROVE BoxRefs'
  BY <1>6, RefKept DEF BoxesOK, Refs, BoxRefs, KeptTurns, Made
<1>7. ASSUME UNCHANGED turn PROVE TurnRefs'
  BY <1>7 DEF TurnsOK, Refs, TurnRefs, KeptBoxes
<1> QED BY <1>1, <1>2, <1>3, <1>4, <1>5, <1>6, <1>7

\* A status that is written leaves every turn at home.
LEMMA AppliedTurns ==
  ASSUME TypeOK, Refs, KeptBoxes, NEW t \in Turns, NEW status, NEW b \in Turns \cup {NoBox},
         b # NoBox => Made(b) /\ b = Home(t), turn' = Applied(t, status, b)
  PROVE  /\ KeptTurns /\ TurnRefs'
         /\ \A u \in Turns : turn'[u].send = turn[u].send
<1>1. \A u \in Turns : /\ turn'[u].send = turn[u].send
                       /\ turn'[u].box = IF u = t /\ turn[u].box = NoBox THEN b ELSE turn[u].box
  BY TypeParts DEF TurnsOK, Applied
<1>2. KeptTurns
  BY <1>1 DEF KeptTurns, Sent, Home
<1>3. TurnRefs'
  BY <1>1, TypeParts DEF TurnsOK, Refs, TurnRefs, KeptBoxes
<1> QED BY <1>1, <1>2, <1>3

LEMMA BoxOfAnother ==
  ASSUME TypeOK, NEW t \in Turns, BoxOfEarlier(t) # NoBox
  PROVE  \E u \in Turns : turn[u].box = BoxOfEarlier(t)
<1> DEFINE named == {u \in 1..(t - 1) : turn[u].box # NoBox}
<1>1. named \subseteq Turns
  BY DispatchBoundsAssumption DEF Turns
<1>2. named # {}
  BY DEF BoxOfEarlier
<1>3. \E u \in named : \A v \in named : v <= u
  BY <1>1, <1>2, NewestOf
<1> DEFINE newest == CHOOSE u \in named : \A v \in named : v <= u
<1>4. newest \in named
  BY <1>3
<1>5. BoxOfEarlier(t) = turn[newest].box
  BY <1>2 DEF BoxOfEarlier
<1> QED BY <1>1, <1>4, <1>5

LEMMA PostedPlaces ==
  ASSUME TypeOK, NEW t \in Turns, NEW copies \in 0..2,
         queue' = queue \o [i \in 1..copies |-> Message(t)]
  PROVE  /\ \A i \in 1..Len(queue') : (i \in 1..Len(queue) /\ queue'[i] = queue[i])
                                        \/ queue'[i] = Message(t)
         /\ \A i \in 1..Len(queue) : i \in 1..Len(queue') /\ queue'[i] = queue[i]
         /\ copies # 0 => Len(queue) + 1 \in 1..Len(queue') /\ queue'[Len(queue) + 1] = Message(t)
<1> DEFINE new == [i \in 1..copies |-> Message(t)]
<1>1. queue \in Seq(Posts)
  BY TypeParts DEF QueueOK
<1>2. Message(t) \in Posts
  BY DispatchBoundsAssumption, TypeParts DEF TurnsOK, Message, Posts
<1>3. new \in Seq(Posts) /\ Len(new) = copies
  BY <1>2
<1>4. \A i \in 1..copies : new[i] = Message(t)
  OBVIOUS
<1> HIDE DEF new
<1>5. Len(queue') = Len(queue) + copies /\ Len(queue) \in Nat
  BY <1>1, <1>3 DEF new
<1>6. \A i \in 1..Len(queue') : queue'[i] = IF i <= Len(queue) THEN queue[i] ELSE new[i - Len(queue)]
  BY <1>1, <1>3, <1>5 DEF new
<1>7. \A i \in 1..Len(queue') : i \in 1..Len(queue) \/ i - Len(queue) \in 1..copies
  BY <1>5
<1>8. \A i \in 1..Len(queue) : i \in 1..Len(queue')
  BY <1>5
<1>9. \A i \in 1..Len(queue') : (i \in 1..Len(queue) /\ queue'[i] = queue[i]) \/ queue'[i] = Message(t)
  BY <1>4, <1>5, <1>6, <1>7
<1>10. \A i \in 1..Len(queue) : queue'[i] = queue[i]
  BY <1>5, <1>6, <1>8
<1>11. ASSUME copies # 0
       PROVE  Len(queue) + 1 \in 1..Len(queue') /\ queue'[Len(queue) + 1] = Message(t)
  <2>1. Len(queue) + 1 \in 1..Len(queue') /\ ~(Len(queue) + 1 <= Len(queue))
          /\ (Len(queue) + 1) - Len(queue) = 1 /\ 1 \in 1..copies
    BY <1>5, <1>11
  <2> QED BY <1>4, <1>6, <2>1
<1> QED BY <1>8, <1>9, <1>10, <1>11

LEMMA RefsBackend ==
  ASSUME TypeOK, OnceInv, Refs, NEW t \in Turns,
         CreateTurn(t) \/ SenderNext(t) \/ PostRepeated(t) \/ PostFails(t) \/ SenderStops(t)
  PROVE  Refs'
<1>1. KeptBoxes
  BY DEF KeptBoxes, Made, CreateTurn, SenderNext, UpdateToRunning, PostResponses, PostRepeated,
         PostFails, SenderStops, Posted, boxes
<1>2. CASE CreateTurn(t)
  <2>1. ~Sent(t)
    BY <1>2 DEF CreateTurn, OnceInv, Unsent, Sent
  <2>2. /\ \A u \in Turns \ {t} : turn'[u] = turn[u]
        /\ turn'[t].box = BoxOfEarlier(t)
    BY <1>2, TypeParts DEF CreateTurn, TurnsOK
  <2>3. KeptTurns
    BY <2>1, <2>2 DEF KeptTurns, Sent, Home
  <2>4. TurnRefs'
    <3>1. \A u \in Turns \ {t} : turn'[u].box # NoBox => Made(turn'[u].box)
      BY <2>2 DEF Refs, TurnRefs
    <3>2. turn'[t].box # NoBox => Made(turn'[t].box)
      BY <2>2, BoxOfAnother DEF Refs, TurnRefs
    <3> QED BY <1>2, <3>1, <3>2 DEF TurnRefs, Made, CreateTurn, boxes
  <2> QED BY <1>1, <1>2, <2>3, <2>4, SameRefs DEF Refs, CreateTurn, manager, boxes
<1>3. CASE UpdateToRunning(t)
  <2> DEFINE marked == Applied(t, "RUNNING", NoBox)
  <2>1. turn' = [marked EXCEPT ![t].send = "post"] /\ turn[t].send = "mark"
    BY <1>3 DEF UpdateToRunning
  <2>2. marked \in [Turns -> [status : Statuses, box : Turns \cup {NoBox},
                              send : {"no", "mark", "post", "done"}]]
    BY AppliedOK, TypeParts DEF Statuses
  <2>3. \A u \in Turns : marked[u].box = turn[u].box /\ marked[u].send = turn[u].send
    BY TypeParts DEF TurnsOK, Applied
  <2> HIDE DEF marked
  <2>4. \A u \in Turns : turn'[u].box = turn[u].box /\ (u # t => turn'[u].send = turn[u].send)
    BY <2>1, <2>2, <2>3
  <2>5. KeptTurns /\ TurnRefs'
    BY <1>3, <2>1, <2>4 DEF KeptTurns, Sent, Home, Refs, TurnRefs, UpdateToRunning, boxes, Made
  <2> QED BY <1>1, <1>3, <2>5, SameRefs DEF Refs, UpdateToRunning, manager, boxes
<1>4. ASSUME NEW copies \in 0..2, NEW status \in Statuses, Posted(t, copies, status)
      PROVE  Refs'
  <2> DEFINE marked == Applied(t, status, NoBox)
  <2>1. turn' = [marked EXCEPT ![t].send = "done"] /\ turn[t].send = "post"
    BY <1>4 DEF Posted
  <2>2. marked \in [Turns -> [status : Statuses, box : Turns \cup {NoBox},
                              send : {"no", "mark", "post", "done"}]]
    BY AppliedOK, TypeParts
  <2>3. \A u \in Turns : marked[u].box = turn[u].box /\ marked[u].send = turn[u].send
    BY TypeParts DEF TurnsOK, Applied
  <2> HIDE DEF marked
  <2>4. \A u \in Turns : turn'[u].box = turn[u].box
                           /\ turn'[u].send = IF u = t THEN "done" ELSE turn[u].send
    BY <2>1, <2>2, <2>3
  <2>5. KeptTurns /\ TurnRefs'
    BY <1>4, <2>1, <2>4 DEF KeptTurns, Sent, Home, Refs, TurnRefs, Posted, boxes, Made
  <2>6. QueueRefs'
    <3> SUFFICES ASSUME NEW i \in 1..Len(queue') PROVE GoodMessage(queue[i])'
      BY DEF QueueRefs
    <3> PICK m : m = queue'[i]
      OBVIOUS
    <3>1. CASE i \in 1..Len(queue) /\ m = queue[i]
      <4>1. m \in Posts /\ GoodMessage(m)
        BY <3>1, TypeParts DEF QueueOK, Refs, QueueRefs
      <4> QED BY <4>1, <2>5, MessageStaysGood
    <3>2. CASE m = Message(t)
      <4>1. m.turn = t /\ m.box = turn'[t].box
        BY <2>4, <3>2 DEF Message
      <4>2. GoodMessage(m)'
        BY <2>4, <4>1 DEF GoodMessage, Sent, Home
      <4> QED BY <4>2
    <3> QED BY <1>4, <3>1, <3>2, PostedPlaces DEF Posted
  <2> QED BY <1>1, <1>4, <2>5, <2>6, SameRefs DEF Refs, Posted, boxes
<1>5. turn[t].status \in Statuses /\ "FAILED" \in Statuses
  BY TypeParts DEF TurnsOK, Statuses, Terminal
<1>6. CASE PostResponses(t) \/ PostRepeated(t) \/ PostFails(t)
  BY <1>4, <1>5, <1>6 DEF PostResponses, PostRepeated, PostFails
<1>7. CASE SenderStops(t)
  <2>1. \A u \in Turns : turn'[u].box = turn[u].box
                           /\ turn'[u].send = IF u = t THEN "done" ELSE turn[u].send
    BY <1>7, TypeParts DEF SenderStops, TurnsOK
  <2>2. KeptTurns /\ TurnRefs'
    BY <1>7, <2>1 DEF KeptTurns, Sent, Home, Refs, TurnRefs, SenderStops, boxes, Made
  <2> QED BY <1>1, <1>7, <2>2, SameRefs DEF Refs, SenderStops, manager, boxes
<1> QED BY <1>2, <1>3, <1>6, <1>7 DEF SenderNext

\* A box that stops, and the runs that end with it.
LEMMA StoppedRuns ==
  ASSUME TypeOK, NEW b \in Turns, NEW state, Stopped(b, state), state # "running"
  PROVE  /\ DOMAIN run' = DOMAIN run
         /\ \A r \in DOMAIN run : IF run[r].box = b /\ Active(r) THEN run'[r] = Over(r)
                                  ELSE run'[r] = run[r]
         /\ \A u \in Turns : /\ box'[u].turn = box[u].turn
                             /\ box'[u].state = IF u = b THEN state ELSE box[u].state
BY TypeParts DEF Stopped, Active, BoxesOK

LEMMA OverIsSent ==
  ASSUME TypeOK, NEW r \in DOMAIN run
  PROVE  Over(r).pc = "over" /\ Over(r).turn = run[r].turn
BY DEF Over

\* The runs that are left have their turns and boxes, and a live box if active.
LEMMA RunsFollow ==
  ASSUME TypeOK, Refs, KeptTurns, KeptBoxes, DOMAIN run' = DOMAIN run,
         \A r \in DOMAIN run :
           \/ run'[r] = run[r]
           \/ run'[r] = Over(r) /\ run[r].pc # "free"
           \/ /\ run[r].pc \in {"running", "event"} /\ run'[r].pc \in {"event", "forwarded"}
              /\ run'[r].turn = run[r].turn /\ run'[r].box = run[r].box,
         \A r \in DOMAIN run : /\ run'[r].pc \in {"running", "event"}
                               /\ box[run[r].box].state = "running"
                               => box'[run[r].box].state = "running"
  PROVE  RunRefs'
<1> SUFFICES ASSUME NEW r \in DOMAIN run
             PROVE  /\ run'[r].pc # "free" => Sent(run[r].turn)'
                    /\ run'[r].pc \in {"running", "event", "forwarded"}
                         => Ref(run[r].turn, run[r].box)'
                    /\ run'[r].pc \in {"running", "event"} => box'[run'[r].box].state = "running"
  BY DEF RunRefs, Active
<1> PICK t, b : t = run[r].turn /\ b = run[r].box
  OBVIOUS
<1>1. /\ run[r].pc # "free" => t \in Turns /\ Sent(t)
      /\ run[r].pc \in {"running", "event", "forwarded"} => b \in Turns /\ Ref(t, b)
      /\ run[r].pc \in {"running", "event"} => box[b].state = "running"
  BY TypeParts DEF RunsOK, Refs, RunRefs, Active
<1>2. /\ run[r].pc # "free" => Sent(t)'
      /\ run[r].pc \in {"running", "event", "forwarded"} => Ref(t, b)'
  BY <1>1, RefKept DEF KeptTurns
<1>3. CASE run'[r] = run[r]
  BY <1>1, <1>2, <1>3
<1>4. CASE run'[r] = Over(r) /\ run[r].pc # "free"
  BY <1>2, <1>4, OverIsSent
<1>5. CASE /\ run[r].pc \in {"running", "event"} /\ run'[r].pc \in {"event", "forwarded"}
           /\ run'[r].turn = run[r].turn /\ run'[r].box = run[r].box
  BY <1>1, <1>2, <1>5
<1> QED BY <1>3, <1>4, <1>5

LEMMA StoppedRefs ==
  ASSUME TypeOK, Refs, UNCHANGED turn, NEW b \in Turns, Made(b),
         NEW state \in {"exited", "crashed", "gone"}, Stopped(b, state)
  PROVE  KeptTurns /\ KeptBoxes /\ RunRefs' /\ BoxRefs' /\ TurnRefs'
<1>1. KeptTurns
  BY DEF KeptTurns, Sent, Home
<1>2. \A u \in Turns : /\ box'[u].turn = box[u].turn
                       /\ box'[u].state = IF u = b THEN state ELSE box[u].state
  BY StoppedRuns
<1>3. KeptBoxes /\ \A u \in Turns : Made(u)' = Made(u)
  BY <1>2 DEF KeptBoxes, Made
<1>4. BoxRefs'
  BY <1>1, <1>2, <1>3, RefKept, TypeParts DEF BoxRefs, BoxesOK, Refs, KeptTurns
<1>5. RunRefs'
  <2>1. DOMAIN run' = DOMAIN run
          /\ \A r \in DOMAIN run : IF run[r].box = b /\ Active(r) THEN run'[r] = Over(r)
                                   ELSE run'[r] = run[r]
    BY StoppedRuns
  <2>2. ASSUME NEW r \in DOMAIN run, run'[r].pc \in {"running", "event"},
               box[run[r].box].state = "running"
        PROVE  box'[run[r].box].state = "running"
    <3>1. run'[r] = run[r] /\ ~(run[r].box = b /\ Active(r))
      BY <2>1, <2>2, OverIsSent
    <3>2. run[r].box \in Turns /\ run[r].box # b
      BY <2>2, <3>1, TypeParts DEF RunsOK, Active
    <3> QED BY <1>2, <2>2, <3>2
  <2> QED BY <1>1, <1>3, <2>1, <2>2, RunsFollow DEF Active
<1>6. TurnRefs'
  BY <1>1, <1>3, SameRefs
<1> QED BY <1>1, <1>3, <1>4, <1>5, <1>6

LEMMA StartedRefs ==
  ASSUME TypeOK, Refs, UNCHANGED turn, NEW t \in Turns, NEW b \in Turns, NEW n,
         Started(t, b, n), Ref(t, b), Running(b)
  PROVE  KeptTurns /\ KeptBoxes /\ RunRefs' /\ BoxRefs' /\ TurnRefs'
<1>1. KeptTurns
  BY DEF KeptTurns, Sent, Home
<1>2. \A u \in Turns : /\ box'[u].turn = IF u = b THEN t ELSE box[u].turn
                       /\ box'[u].state = box[u].state
  BY TypeParts DEF Started, BoxesOK
<1>3. KeptBoxes /\ \A u \in Turns : Made(u)' = Made(u)
  BY <1>2 DEF KeptBoxes, Made
<1>4. Ref(t, b)'
  BY <1>1, <1>3, RefKept
<1>5. BoxRefs'
  BY <1>1, <1>2, <1>3, <1>4, RefKept, TypeParts DEF BoxRefs, BoxesOK, Refs, KeptTurns
<1>6. RunRefs'
  <2>1. PICK rs \in SUBSET {r \in Runs : run[r].pc = "free"} :
          run' = [r \in DOMAIN run |-> IF r \in rs
                    THEN [pc |-> "running", turn |-> t, box |-> b, outcome |-> "none"]
                    ELSE run[r]]
    BY DEF Started
  <2> SUFFICES ASSUME NEW r \in DOMAIN run
               PROVE  /\ run'[r].pc # "free" => Sent(run[r].turn)'
                      /\ run'[r].pc \in {"running", "event", "forwarded"}
                           => Ref(run[r].turn, run[r].box)'
                      /\ run'[r].pc \in {"running", "event"} => box'[run'[r].box].state = "running"
    BY <2>1 DEF RunRefs, Active
  <2>2. CASE r \in rs
    <3>1. run'[r].pc = "running" /\ run'[r].turn = t /\ run'[r].box = b
      BY <2>1, <2>2
    <3> QED BY <1>2, <1>4, <3>1 DEF Ref, Running
  <2>3. CASE r \notin rs
    <3> PICK u, a : u = run[r].turn /\ a = run[r].box
      OBVIOUS
    <3>1. /\ run[r].pc # "free" => u \in Turns /\ Sent(u)
          /\ run[r].pc \in {"running", "event", "forwarded"} => a \in Turns /\ Ref(u, a)
          /\ run[r].pc \in {"running", "event"} => box[a].state = "running"
      BY TypeParts DEF RunsOK, Refs, RunRefs, Active
    <3>2. /\ run[r].pc # "free" => Sent(u)'
          /\ run[r].pc \in {"running", "event", "forwarded"} => Ref(u, a)'
      BY <1>1, <1>3, <3>1, RefKept DEF KeptTurns
    <3>3. run'[r] = run[r]
      BY <2>1, <2>3
    <3> QED BY <1>2, <3>1, <3>2, <3>3
  <2> QED BY <2>2, <2>3
<1>7. TurnRefs'
  BY <1>1, <1>3, SameRefs
<1> QED BY <1>1, <1>3, <1>5, <1>6, <1>7

LEMMA MayExitBoxes ==
  ASSUME TypeOK, NEW r \in DOMAIN run, MayExit(r)
  PROVE  \A u \in Turns : box'[u].turn = box[u].turn /\ box'[u].state = box[u].state
BY TypeParts DEF MayExit, BoxesOK, RunsOK

LEMMA BoxStates ==
  ASSUME TypeOK, Refs, KeptTurns,
         \A u \in Turns : box'[u].turn = box[u].turn /\ box'[u].state = box[u].state
  PROVE  KeptBoxes /\ BoxRefs'
<1>1. KeptBoxes /\ \A u \in Turns : Made(u)' = Made(u)
  BY DEF KeptBoxes, Made
<1>2. BoxRefs'
  BY <1>1, RefKept, TypeParts DEF BoxRefs, BoxesOK, Refs, KeptTurns
<1> QED BY <1>1, <1>2

LEMMA TurnsSame ==
  ASSUME UNCHANGED turn
  PROVE  KeptTurns
BY DEF KeptTurns, Sent, Home

LEMMA BoxesSame ==
  ASSUME UNCHANGED box
  PROVE  KeptBoxes
BY DEF KeptBoxes, Made

\* The reference of a consumer that keeps its message.
LEMMA ConsumerMoves ==
  ASSUME TypeOK, Refs, KeptTurns, KeptBoxes, NEW c \in Consumers, NEW new,
         consumer' = [consumer EXCEPT ![c] = new],
         \/ new.pc = "idle"
         \/ /\ consumer[c].pc # "idle" /\ new.msg = consumer[c].msg
            /\ new.pc \in {"dispatch", "register"}
                 => \E b \in Turns : new.box = b /\ Ref(consumer[c].msg.turn, b)'
         \/ /\ new.pc = "submit"
            /\ \E m \in Posts : new.msg = m /\ GoodMessage(m)
  PROVE  ConsumerRefs'
<1> SUFFICES ASSUME NEW d \in Consumers
             PROVE  /\ consumer'[d].pc # "idle" => GoodMessage(consumer[d].msg)'
                    /\ consumer'[d].pc \in {"dispatch", "register"}
                         => Ref(consumer[d].msg.turn, consumer[d].box)'
  BY DEF ConsumerRefs
<1>1. consumer[d].pc # "idle" => consumer[d].msg \in Posts /\ GoodMessage(consumer[d].msg)
  BY MessageOK DEF Refs, ConsumerRefs
<1>2. consumer[d].pc \in {"dispatch", "register"}
        => /\ consumer[d].msg.turn \in Turns /\ consumer[d].box \in Turns
           /\ Ref(consumer[d].msg.turn, consumer[d].box)
  BY TypeParts DEF ConsumersOK, Refs, ConsumerRefs
<1>3. consumer'[d] = IF d = c THEN new ELSE consumer[d]
  BY TypeParts DEF ConsumersOK
<1> PICK m, t, a : m = consumer[d].msg /\ t = consumer[d].msg.turn /\ a = consumer[d].box
  OBVIOUS
<1>4. consumer[d].pc # "idle" => GoodMessage(m)'
  BY <1>1, MessageStaysGood
<1>5. CASE d # c
  BY <1>2, <1>3, <1>4, <1>5, RefKept
<1>6. CASE d = c /\ new.pc = "idle"
  BY <1>3, <1>6
<1>7. CASE /\ d = c /\ consumer[c].pc # "idle" /\ new.msg = consumer[c].msg
           /\ new.pc \in {"dispatch", "register"}
                => \E b \in Turns : new.box = b /\ Ref(consumer[c].msg.turn, b)'
  <2>1. consumer'[d].msg = m /\ GoodMessage(m)'
    BY <1>3, <1>4, <1>7
  <2>2. GoodMessage(consumer[d].msg)'
    BY <2>1
  <2>3. ASSUME consumer'[d].pc \in {"dispatch", "register"}
        PROVE  Ref(consumer[d].msg.turn, consumer[d].box)'
    <3>1. PICK b \in Turns : new.box = b /\ Ref(consumer[c].msg.turn, b)'
      BY <1>3, <1>7, <2>3
    <3>2. consumer'[d].box = b
      BY <1>3, <1>7, <3>1
    <3> QED BY <1>7, <3>1, <3>2
  <2> QED BY <2>2, <2>3
<1>8. CASE /\ d = c /\ new.pc = "submit"
           /\ \E n \in Posts : new.msg = n /\ GoodMessage(n)
  <2>1. PICK n \in Posts : new.msg = n /\ GoodMessage(n)
    BY <1>8
  <2>2. GoodMessage(n)'
    BY <2>1, MessageStaysGood
  <2>3. consumer'[d].msg = n /\ consumer'[d].pc = "submit"
    BY <1>3, <1>8, <2>1
  <2> QED BY <2>2, <2>3
<1> QED BY <1>5, <1>6, <1>7, <1>8

LEMMA DoneRefs ==
  ASSUME TypeOK, Refs, KeptTurns, KeptBoxes, NEW c \in Consumers, Done(c)
  PROVE  ConsumerRefs'
<1>1. consumer' = [consumer EXCEPT ![c] = IdleConsumer] /\ IdleConsumer.pc = "idle"
  BY DEF Done, IdleConsumer
<1> QED BY <1>1, ConsumerMoves

\* A consumer that goes on holds what it held.
LEMMA GotoRefs ==
  ASSUME TypeOK, Refs, KeptTurns, KeptBoxes, NEW c \in Consumers, NEW pc, Goto(c, pc),
         consumer[c].pc # "idle", pc = "report" \/ consumer[c].pc = "dispatch"
  PROVE  ConsumerRefs'
<1> DEFINE new == [consumer[c] EXCEPT !.pc = pc]
<1>1. consumer' = [consumer EXCEPT ![c] = new]
  BY DEF Goto
<1>2. new.pc = pc /\ new.msg = consumer[c].msg /\ new.box = consumer[c].box
  BY TypeParts DEF ConsumersOK
<1>3. ASSUME pc \in {"dispatch", "register"}
      PROVE  \E b \in Turns : new.box = b /\ Ref(consumer[c].msg.turn, b)'
  <2> PICK t, b : t = consumer[c].msg.turn /\ b = consumer[c].box
    OBVIOUS
  <2>1. t \in Turns /\ b \in Turns /\ Ref(t, b)
    BY <1>3, TypeParts DEF ConsumersOK, Refs, ConsumerRefs
  <2>2. Ref(t, b)'
    BY <2>1, RefKept
  <2>3. consumer'[c].msg.turn = t
    BY <1>1, <1>2, TypeParts DEF ConsumersOK
  <2>4. Ref(consumer[c].msg.turn, b)'
    BY <2>2, <2>3
  <2> QED BY <1>2, <2>1, <2>4
<1> HIDE DEF new
<1> QED BY <1>1, <1>2, <1>3, ConsumerMoves

LEMMA RefsConsumer ==
  ASSUME TypeOK, TypeOK', Refs, NEW c \in Consumers,
         ConsumerNext(c) \/ ProcessFails(c) \/ StartFails(c) \/ ConsumerStops(c)
  PROVE  Refs'
<1> DEFINE m == consumer[c].msg
           b == consumer[c].box
<1>1. consumer[c].pc # "idle" => m \in Posts /\ GoodMessage(m)
  BY MessageOK DEF Refs, ConsumerRefs
<1>2. consumer[c].pc \in {"dispatch", "register"}
        => m.turn \in Turns /\ b \in Turns /\ Ref(m.turn, b)
  BY TypeParts DEF ConsumersOK, Refs, ConsumerRefs
<1>3. CASE Dequeue(c)
  <2> DEFINE new == [pc |-> "submit", msg |-> Head(queue), box |-> NoBox, fresh |-> FALSE]
  <2>1. KeptTurns /\ KeptBoxes
    BY <1>3, TurnsSame, BoxesSame DEF Dequeue, backend, boxes
  <2>2. queue \in Seq(Posts) /\ queue # << >>
    BY <1>3, TypeParts DEF Dequeue, QueueOK
  <2>3. Head(queue) \in Posts /\ GoodMessage(Head(queue))
    <3>1. 1 \in 1..Len(queue) /\ Head(queue) = queue[1]
      BY <2>2
    <3> QED BY <2>2, <3>1 DEF Refs, QueueRefs
  <2>4. ConsumerRefs'
    <3>1. consumer' = [consumer EXCEPT ![c] = new] /\ new.pc = "submit" /\ new.msg = Head(queue)
      BY <1>3 DEF Dequeue
    <3> HIDE DEF new
    <3> QED BY <2>1, <2>3, <3>1, ConsumerMoves
  <2>5. QueueRefs'
    <3> SUFFICES ASSUME NEW i \in 1..Len(queue') PROVE GoodMessage(queue[i])'
      BY DEF QueueRefs
    <3> PICK n : n = queue'[i]
      OBVIOUS
    <3>1. i + 1 \in 1..Len(queue) /\ n = queue[i + 1]
      BY <1>3, <2>2 DEF Dequeue
    <3>2. n \in Posts /\ GoodMessage(n)
      BY <2>2, <3>1 DEF Refs, QueueRefs
    <3>3. GoodMessage(n)'
      BY <2>1, <3>2, MessageStaysGood
    <3> QED BY <3>3
  <2> QED BY <1>3, <2>1, <2>4, <2>5, SameRefs DEF Refs, Dequeue, backend, boxes
<1>4. CASE ReportFailure(c)
  <2>1. KeptBoxes
    BY <1>4, BoxesSame DEF ReportFailure, boxes
  <2>2. KeptTurns /\ TurnRefs'
    <3>1. m.turn \in Turns
      BY <1>1, <1>4 DEF ReportFailure, Posts
    <3>2. CASE turn' = Applied(m.turn, "FAILED", NoBox)
      BY <2>1, <3>1, <3>2, AppliedTurns
    <3>3. CASE UNCHANGED turn
      BY <2>1, <3>3, TurnsSame, SameRefs
    <3> QED BY <1>4, <3>2, <3>3 DEF ReportFailure
  <2> QED BY <1>4, <2>1, <2>2, DoneRefs, SameRefs DEF Refs, ReportFailure, boxes
<1>5. CASE SubmitToBox(c)
  <2>1. KeptTurns /\ KeptBoxes
    BY <1>5, TurnsSame, BoxesSame DEF SubmitToBox, backend, boxes
  <2>2. m.box \in Turns
    BY <1>1, <1>5 DEF SubmitToBox, Running, Posts
  <2>3. Ref(m.turn, m.box)
    BY <1>1, <1>5, <2>2, DispatchBoundsAssumption
       DEF SubmitToBox, Running, GoodMessage, Ref, Home, Made, Turns, NoBox
  <2> PICK t, a : t = m.turn /\ a = m.box
    OBVIOUS
  <2>4. Ref(t, a)' /\ t \in Turns
    BY <1>1, <1>5, <2>1, <2>2, <2>3, RefKept DEF Posts, SubmitToBox
  <2> DEFINE new == [consumer[c] EXCEPT !.pc = "dispatch", !.box = m.box]
  <2>5. /\ new.pc = "dispatch" /\ new.msg = m /\ new.box = a
        /\ consumer' = [consumer EXCEPT ![c] = new]
    BY <1>5, TypeParts DEF SubmitToBox, ConsumersOK
  <2>6. consumer'[c].msg.turn = t
    BY <2>5, TypeParts DEF ConsumersOK
  <2> HIDE DEF new
  <2>7. Ref(consumer[c].msg.turn, a)'
    BY <2>4, <2>6
  <2>8. ConsumerRefs'
    BY <1>5, <2>1, <2>2, <2>5, <2>7, ConsumerMoves DEF SubmitToBox
  <2> QED BY <1>5, <2>1, <2>8, SameRefs DEF Refs, SubmitToBox, backend, boxes
<1>6. CASE SubmitNew(c)
  <2>1. m \in Posts /\ GoodMessage(m) /\ NameFor(m) \in Turns /\ consumer[c].pc = "submit"
    BY <1>1, <1>6 DEF SubmitNew, NameFor, Posts
  <2> PICK t \in Turns, a \in Turns : t = m.turn /\ a = NameFor(m)
    BY <2>1 DEF Posts
  <2>2. \A u \in Turns : box'[u] = IF u = a THEN [state |-> "running", turn |-> NoTurn, exit |-> "no"]
                                   ELSE box[u]
    BY <1>6, TypeParts DEF SubmitNew, Created, BoxesOK
  <2>3. KeptTurns /\ KeptBoxes
    BY <1>6, <2>2, TurnsSame DEF SubmitNew, backend, KeptBoxes, Made
  <2>4. Sent(t) /\ a = Home(t)
    BY <2>1, DispatchBoundsAssumption DEF GoodMessage, NameFor, Home, Posts, Turns, NoBox
  <2>5. Ref(t, a)'
    BY <2>2, <2>3, <2>4 DEF Ref, Made, KeptTurns
  <2>6. ConsumerRefs'
    <3> DEFINE new == [consumer[c] EXCEPT !.pc = "dispatch", !.box = a, !.fresh = TRUE]
    <3>1. /\ new.pc = "dispatch" /\ new.msg = m /\ new.box = a
          /\ consumer' = [consumer EXCEPT ![c] = new]
      BY <1>6, TypeParts DEF SubmitNew, ConsumersOK
    <3>2. consumer'[c].msg.turn = t
      BY <3>1, TypeParts DEF ConsumersOK
    <3> HIDE DEF new
    <3>3. Ref(consumer[c].msg.turn, a)'
      BY <2>5, <3>2
    <3> QED BY <2>1, <2>3, <3>1, <3>3, ConsumerMoves
  <2>7. EntryRef'
    <3>1. tracked'.turn = t /\ tracked'.box = a
      BY <1>6 DEF SubmitNew
    <3> QED BY <2>5, <3>1 DEF EntryRef
  <2>8. BoxRefs'
    <3>1. Sent(a)
      <4>1. CASE m.box = NoBox
        BY <2>1, <4>1 DEF NameFor, GoodMessage
      <4>2. CASE m.box # NoBox
        BY <2>1, <2>4, <4>2 DEF NameFor, GoodMessage, Refs, TurnRefs, BoxRefs, Posts
      <4> QED BY <4>1, <4>2
    <3> SUFFICES ASSUME NEW u \in Turns
                 PROVE  /\ box'[u].turn # NoTurn => Ref(box[u].turn, u)'
                        /\ Made(u)' => Sent(u)'
      BY DEF BoxRefs
    <3>2. CASE u = a
      BY <2>2, <2>3, <3>1, <3>2 DEF KeptTurns
    <3>3. CASE u # a
      <4> PICK v : v = box[u].turn
        OBVIOUS
      <4>1. v # NoTurn => v \in Turns /\ Ref(v, u)
        BY TypeParts DEF BoxesOK, Refs, BoxRefs
      <4>2. box'[u] = box[u] /\ (Made(u) => Sent(u))
        BY <2>2, <3>3 DEF Refs, BoxRefs
      <4>3. v # NoTurn => Ref(v, u)'
        BY <2>3, <4>1, RefKept
      <4> QED BY <2>3, <4>2, <4>3 DEF KeptTurns, Made
    <3> QED BY <3>2, <3>3
  <2>9. RunRefs'
    <3>1. ASSUME NEW r \in DOMAIN run, box[run[r].box].state = "running",
                 run'[r].pc \in {"running", "event"}
          PROVE  box'[run[r].box].state = "running"
      <4>1. run[r].box \in Turns
        BY <1>6, <3>1, TypeParts DEF SubmitNew, RunsOK
      <4> QED BY <2>2, <3>1, <4>1
    <3> QED BY <1>6, <2>3, <3>1, RunsFollow DEF SubmitNew
  <2> QED BY <1>6, <2>3, <2>6, <2>7, <2>8, <2>9, SameRefs DEF Refs, SubmitNew, backend
<1>7. CASE SubmitFails(c)
  <2>1. KeptTurns /\ m \in Posts /\ GoodMessage(m)
    BY <1>1, <1>7, TurnsSame DEF SubmitFails, backend
  <2>2. CASE UNCHANGED box
    <3>1. KeptBoxes
      BY <2>2, BoxesSame
    <3> QED BY <1>7, <2>1, <2>2, <3>1, DoneRefs, SameRefs DEF Refs, SubmitFails, backend
  <2>3. CASE m.box # NoBox /\ box' = [box EXCEPT ![m.box].state = "gone"]
    <3>1. m.box \in Turns /\ Made(m.box) /\ ~Running(m.box)
      BY <1>7, <2>1, <2>3 DEF SubmitFails, GoodMessage, Posts, Refs, TurnRefs
    <3>2. \A u \in Turns : /\ box'[u].turn = box[u].turn
                           /\ box'[u].state = IF u = m.box THEN "gone" ELSE box[u].state
      BY <2>3, TypeParts DEF BoxesOK
    <3>3. KeptBoxes /\ \A u \in Turns : Made(u)' = Made(u)
      BY <3>1, <3>2 DEF KeptBoxes, Made
    <3>4. BoxRefs'
      BY <2>1, <3>2, <3>3, RefKept, TypeParts DEF BoxRefs, BoxesOK, Refs, KeptTurns
    <3>5. RunRefs'
      <4>1. ASSUME NEW r \in DOMAIN run, box[run[r].box].state = "running",
                   run'[r].pc \in {"running", "event"}
            PROVE  box'[run[r].box].state = "running"
        <5>1. run[r].box \in Turns
          BY <1>7, <4>1, TypeParts DEF SubmitFails, RunsOK
        <5> QED BY <2>3, <3>1, <3>2, <4>1, <5>1 DEF Running
      <4> QED BY <1>7, <2>1, <3>3, <4>1, RunsFollow DEF SubmitFails
    <3> QED BY <1>7, <2>1, <3>3, <3>4, <3>5, DoneRefs, SameRefs DEF Refs, SubmitFails, backend
  <2> QED BY <1>7, <2>2, <2>3 DEF SubmitFails
<1>8. ASSUME consumer[c].pc = "dispatch", KeptTurns, KeptBoxes,
             AfterDispatch(c) \/ Done(c) \/ UNCHANGED consumer
      PROVE  ConsumerRefs'
  BY <1>8, DoneRefs, GotoRefs, SameRefs DEF AfterDispatch
<1>9. CASE Dispatch(c)
  <2>1. \E n : Started(m.turn, b, n)
    BY <1>9 DEF Dispatch
  <2>2. KeptTurns /\ KeptBoxes /\ RunRefs' /\ BoxRefs' /\ TurnRefs'
    BY <1>2, <1>9, <2>1, StartedRefs DEF Dispatch, backend
  <2> QED BY <1>8, <1>9, <2>2, SameRefs DEF Refs, Dispatch, backend
<1>10. ASSUME UNCHANGED << turn, queue, tracked, checker >>,
              consumer[c].pc = "dispatch", AfterDispatch(c) \/ Done(c) \/ UNCHANGED consumer,
              UNCHANGED boxes \/ \E state \in {"exited", "crashed", "gone"} : Stopped(b, state)
       PROVE  Refs'
  <2>1. CASE UNCHANGED boxes
    <3>1. KeptTurns /\ KeptBoxes
      BY <1>10, <2>1, TurnsSame, BoxesSame DEF boxes
    <3> QED BY <1>8, <1>10, <2>1, <3>1, SameRefs DEF Refs, boxes
  <2>2. CASE \E state \in {"exited", "crashed", "gone"} : Stopped(b, state)
    <3>1. KeptTurns /\ KeptBoxes /\ RunRefs' /\ BoxRefs' /\ TurnRefs'
      BY <1>2, <1>10, <2>2, StoppedRefs DEF Ref
    <3> QED BY <1>8, <1>10, <3>1, SameRefs DEF Refs
  <2> QED BY <1>10, <2>1, <2>2
<1>11. CASE StartFails(c)
  BY <1>10, <1>11 DEF StartFails, backend
<1>12. CASE DispatchFails(c)
  BY <1>10, <1>12 DEF DispatchFails, backend
<1>13. CASE Register(c)
  <2>1. KeptTurns /\ KeptBoxes
    BY <1>13, TurnsSame, BoxesSame DEF Register, backend, boxes
  <2> PICK t, a : t = m.turn /\ a = b
    OBVIOUS
  <2>2. Ref(t, a)'
    BY <1>2, <1>13, <2>1, RefKept DEF Register
  <2>3. tracked'.turn = t /\ tracked'.box = a
    BY <1>13 DEF Register, AddEntry
  <2>4. EntryRef'
    BY <2>2, <2>3 DEF EntryRef
  <2> QED BY <1>13, <2>1, <2>4, DoneRefs, SameRefs DEF Refs, Register, backend, boxes
<1>14. CASE ProcessFails(c)
  <2>1. KeptTurns /\ KeptBoxes
    BY <1>14, TurnsSame, BoxesSame DEF ProcessFails, backend, boxes
  <2>2. ConsumerRefs'
    BY <1>14, <2>1, DoneRefs, GotoRefs DEF ProcessFails, Requeue
  <2>3. QueueRefs'
    <3>1. CASE UNCHANGED queue
      BY <2>1, <3>1, SameRefs
    <3>2. CASE queue' = Append(queue, [m EXCEPT !.retries = @ + 1])
      <4> SUFFICES ASSUME NEW i \in 1..Len(queue') PROVE GoodMessage(queue[i])'
        BY DEF QueueRefs
      <4> PICK n : n = queue'[i]
        OBVIOUS
      <4>1. queue \in Seq(Posts) /\ m \in Posts /\ GoodMessage(m) /\ n \in Posts
        <5>1. queue' \in Seq(Posts)
          BY DEF TypeOK, Posts
        <5> QED BY <1>1, <1>14, <5>1, TypeParts DEF ProcessFails, QueueOK
      <4>2. GoodMessage(n)
        <5>1. CASE i \in 1..Len(queue) /\ n = queue[i]
          BY <5>1 DEF Refs, QueueRefs
        <5>2. CASE n = [m EXCEPT !.retries = @ + 1]
          <6>1. n.turn = m.turn /\ n.box = m.box
            BY <4>1, <5>2 DEF Posts
          <6> QED BY <4>1, <6>1 DEF GoodMessage
        <5> QED BY <3>2, <4>1, <5>1, <5>2
      <4>3. GoodMessage(n)'
        BY <2>1, <4>1, <4>2, MessageStaysGood
      <4> QED BY <4>3
    <3> QED BY <1>14, <3>1, <3>2 DEF ProcessFails, Requeue
  <2> QED BY <1>14, <2>1, <2>2, <2>3, SameRefs DEF Refs, ProcessFails, backend, boxes
<1>15. CASE ConsumerStops(c)
  <2>1. KeptTurns /\ KeptBoxes
    BY <1>15, TurnsSame, BoxesSame DEF ConsumerStops, backend, boxes
  <2> QED BY <1>15, <2>1, DoneRefs, SameRefs DEF Refs, ConsumerStops, backend, boxes
<1> QED BY <1>3, <1>4, <1>5, <1>6, <1>7, <1>9, <1>11, <1>12, <1>13, <1>14, <1>15
        DEF ConsumerNext

LEMMA RefsExecutor ==
  ASSUME TypeOK, Refs, NEW r \in DOMAIN run,
         EndRun(r) \/ CallbackNext(r) \/ AgentFails(r) \/ ForwardFails(r)
  PROVE  Refs'
<1>1. KeptTurns /\ TurnRefs' /\ KeptBoxes /\ BoxRefs'
        /\ \A u \in Turns : box'[u].turn = box[u].turn /\ box'[u].state = box[u].state
  <2>1. \A u \in Turns : box'[u].turn = box[u].turn /\ box'[u].state = box[u].state
    BY MayExitBoxes DEF EndRun, CallbackNext, Forward, Cleanup, AgentFails, ForwardFails
  <2>2. KeptBoxes /\ \A u \in Turns : Made(u)' = Made(u)
    BY <2>1 DEF KeptBoxes, Made
  <2>3. KeptTurns /\ TurnRefs'
    <3>1. CASE UNCHANGED turn
      BY <2>2, <3>1, TurnsSame, SameRefs
    <3>2. CASE run[r].pc = "event" /\ turn' = Applied(run[r].turn, run[r].outcome, run[r].box)
      <4>1. /\ run[r].turn \in Turns /\ run[r].box \in Turns
            /\ Made(run[r].box) /\ run[r].box = Home(run[r].turn)
        BY <3>2, TypeParts DEF RunsOK, Refs, RunRefs, Ref
      <4> QED BY <2>2, <3>2, <4>1, AppliedTurns
    <3> QED BY <3>1, <3>2 DEF EndRun, CallbackNext, Forward, Cleanup, AgentFails, ForwardFails,
               backend
  <2> QED BY <2>1, <2>2, <2>3, BoxStates
<1>2. RunRefs'
  <2>1. \A q \in DOMAIN run :
           \/ run'[q] = run[q]
           \/ run'[q] = Over(q) /\ run[q].pc # "free"
           \/ /\ run[q].pc \in {"running", "event"} /\ run'[q].pc \in {"event", "forwarded"}
              /\ run'[q].turn = run[q].turn /\ run'[q].box = run[q].box
    <3>1. run \in [{Cancellation} \cup Runs ->
                    [pc : {"free", "running", "event", "forwarded", "over"},
                     turn : Turns \cup {NoTurn}, box : Turns \cup {NoBox},
                     outcome : Terminal \cup {"none"}]]
      BY TypeParts DEF RunsOK
    <3>2. CASE run[r].pc # "free" /\ run' = [run EXCEPT ![r] = Over(r)]
      BY <3>1, <3>2
    <3>3. CASE UNCHANGED run
      BY <3>3
    <3>4. CASE EndRun(r) \/ Forward(r)
      BY <3>1, <3>4 DEF EndRun, Forward
    <3> QED BY <3>2, <3>3, <3>4 DEF CallbackNext, Cleanup, AgentFails, ForwardFails
  <2>2. DOMAIN run' = DOMAIN run
    BY DEF EndRun, CallbackNext, Forward, Cleanup, AgentFails, ForwardFails
  <2>3. ASSUME NEW q \in DOMAIN run, run'[q].pc \in {"running", "event"},
               box[run[q].box].state = "running"
        PROVE  box'[run[q].box].state = "running"
    <3>1. run[q].pc \in {"running", "event"}
      BY <2>1, <2>3, OverIsSent
    <3>2. run[q].box \in Turns
      BY <3>1, TypeParts DEF RunsOK
    <3> QED BY <1>1, <2>3, <3>2
  <2> QED BY <1>1, <2>1, <2>2, <2>3, RunsFollow
<1>3. EntryRef'
  <2>1. CASE UNCHANGED tracked
    BY <1>1, <2>1, SameRefs
  <2>2. CASE tracked' = NotTracked
    BY <2>2 DEF EntryRef
  <2> QED BY <2>1, <2>2 DEF EndRun, CallbackNext, Forward, Cleanup, AgentFails, ForwardFails,
             RemoveEntry, manager
<1>4. UNCHANGED << queue, consumer, checker >>
  BY DEF EndRun, CallbackNext, Forward, Cleanup, AgentFails, ForwardFails, manager
<1> QED BY <1>1, <1>2, <1>3, <1>4, SameRefs DEF Refs

LEMMA RefsUser ==
  ASSUME TypeOK, Refs,
         \/ \E b \in Turns : \/ RequestCancel(b) \/ CancelInBox(b) \/ ChooseBox(b) \/ ExitBox(b)
                            \/ BoxCrash(b)
         \/ CancelFails \/ CancelCleanup \/ DeleteBox
         \/ UNCHANGED vars
  PROVE  Refs'
<1>1. UNCHANGED turn /\ KeptTurns
  BY TurnsSame DEF RequestCancel, CancelInBox, ChooseBox, ExitBox, BoxCrash, CancelFails,
     CancelCleanup, DeleteBox, vars, backend
<1>2. ASSUME UNCHANGED boxes PROVE RunRefs' /\ BoxRefs' /\ TurnRefs' /\ KeptBoxes
  BY <1>1, <1>2, BoxesSame, SameRefs DEF boxes
<1>3. ASSUME NEW b \in Turns, Made(b), NEW state \in {"exited", "crashed", "gone"},
             Stopped(b, state)
      PROVE  RunRefs' /\ BoxRefs' /\ TurnRefs' /\ KeptBoxes
  BY <1>1, <1>3, StoppedRefs
<1>4. ASSUME NEW b \in Turns, CancelInBox(b)
      PROVE  RunRefs' /\ BoxRefs' /\ TurnRefs' /\ KeptBoxes
  <2>1. \A u \in Turns : box'[u].turn = box[u].turn /\ box'[u].state = box[u].state
    BY <1>4, TypeParts DEF CancelInBox, BoxesOK
  <2>2. KeptBoxes /\ BoxRefs'
    BY <1>1, <2>1, BoxStates
  <2> PICK t : t = box[b].turn
    OBVIOUS
  <2>3. t \in Turns /\ Ref(t, b) /\ box[b].state = "running"
    BY <1>4, TypeParts DEF CancelInBox, BoxesOK, Refs, BoxRefs, Running
  <2>4. Ref(t, b)'
    BY <1>1, <2>2, <2>3, RefKept
  <2>5. RunRefs'
    <3> SUFFICES ASSUME NEW r \in DOMAIN run
                 PROVE  /\ run'[r].pc # "free" => Sent(run[r].turn)'
                        /\ run'[r].pc \in {"running", "event", "forwarded"}
                             => Ref(run[r].turn, run[r].box)'
                        /\ run'[r].pc \in {"running", "event"} => box'[run'[r].box].state = "running"
      BY <1>4 DEF CancelInBox, RunRefs, Active
    <3>1. CASE r = Cancellation
      <4>1. run'[r].turn = t /\ run'[r].box = b /\ run'[r].pc = "event"
        BY <1>4, <3>1 DEF CancelInBox
      <4> QED BY <2>1, <2>3, <2>4, <4>1 DEF Ref
    <3>2. CASE r # Cancellation
      <4> PICK u, a : u = run[r].turn /\ a = run[r].box
        OBVIOUS
      <4>1. /\ run[r].pc # "free" => u \in Turns /\ Sent(u)
            /\ run[r].pc \in {"running", "event", "forwarded"} => a \in Turns /\ Ref(u, a)
            /\ run[r].pc \in {"running", "event"} => box[a].state = "running"
        BY TypeParts DEF RunsOK, Refs, RunRefs, Active
      <4>2. /\ run[r].pc # "free" => Sent(u)'
            /\ run[r].pc \in {"running", "event", "forwarded"} => Ref(u, a)'
        BY <1>1, <2>2, <4>1, RefKept DEF KeptTurns
      <4>3. run'[r] = run[r] \/ (run'[r] = Over(r) /\ run[r].pc # "free")
        BY <1>4, <3>2 DEF CancelInBox
      <4>4. CASE run'[r] = run[r]
        BY <2>1, <4>1, <4>2, <4>4
      <4>5. CASE run'[r] = Over(r) /\ run[r].pc # "free"
        BY <4>2, <4>5, OverIsSent
      <4> QED BY <4>3, <4>4, <4>5
    <3> QED BY <3>1, <3>2
  <2> QED BY <1>1, <2>2, <2>5, SameRefs
<1>5. RunRefs' /\ BoxRefs' /\ TurnRefs' /\ KeptBoxes
  <2>1. CASE \E b \in Turns : ExitBox(b) \/ BoxCrash(b)
    <3>1. PICK b \in Turns : ExitBox(b) \/ BoxCrash(b)
      BY <2>1
    <3>2. Made(b)
      BY <3>1 DEF ExitBox, BoxCrash, Running, Made
    <3>3. \E state \in {"exited", "crashed", "gone"} : Stopped(b, state)
      BY <3>1, TypeParts DEF ExitBox, BoxCrash, BoxesOK
    <3> QED BY <1>3, <3>2, <3>3
  <2>2. CASE DeleteBox
    <3>1. Exists(swept) => swept \in Turns /\ Made(swept)
      BY <2>2, TypeParts DEF DeleteBox, UserOK, Exists, Made
    <3> QED BY <1>2, <1>3, <2>2, <3>1 DEF DeleteBox
  <2> QED BY <1>2, <1>4, <2>1, <2>2 DEF RequestCancel, ChooseBox, CancelFails, CancelCleanup, vars
<1>6. EntryRef'
  <2>1. CASE UNCHANGED tracked
    BY <1>1, <1>5, <2>1, SameRefs
  <2>2. CASE tracked' = NotTracked
    BY <2>2 DEF EntryRef
  <2> QED BY <2>1, <2>2 DEF RequestCancel, CancelInBox, ChooseBox, ExitBox, BoxCrash, CancelFails,
             CancelCleanup, DeleteBox, RemoveEntry, vars, manager
<1>7. UNCHANGED << queue, consumer, checker >>
  BY DEF RequestCancel, CancelInBox, ChooseBox, ExitBox, BoxCrash, CancelFails,
         CancelCleanup, DeleteBox, vars, manager
<1> QED BY <1>1, <1>5, <1>6, <1>7, SameRefs DEF Refs

LEMMA RefsChecker ==
  ASSUME TypeOK, Refs, NEW k \in Checkers, CheckerNext(k) \/ InspectFails(k)
  PROVE  Refs'
<1>1. KeptBoxes /\ UNCHANGED boxes
  BY BoxesSame DEF CheckerNext, CheckHeartbeats, Inspect, Report, CheckerCleanup, InspectFails, boxes
<1>2. checker[k].pc # "idle"
        => /\ checker[k].turn \in Turns /\ checker[k].box \in Turns
           /\ Ref(checker[k].turn, checker[k].box)
  BY TypeParts DEF CheckersOK, Refs, CheckerRefs
<1>3. KeptTurns /\ TurnRefs'
  <2>1. CASE UNCHANGED turn
    BY <1>1, <2>1, TurnsSame, SameRefs
  <2>2. CASE checker[k].pc = "report" /\ turn' = Applied(checker[k].turn, "FAILED", checker[k].box)
    BY <1>1, <1>2, <2>2, AppliedTurns DEF Ref
  <2> QED BY <2>1, <2>2 DEF CheckerNext, CheckHeartbeats, Inspect, Report, CheckerCleanup,
             InspectFails, backend
<1>4. EntryRef'
  <2>1. CASE UNCHANGED tracked
    BY <1>1, <1>3, <2>1, SameRefs
  <2>2. CASE tracked' = NotTracked
    BY <2>2 DEF EntryRef
  <2> QED BY <2>1, <2>2 DEF CheckerNext, CheckHeartbeats, Inspect, Report, CheckerCleanup,
             InspectFails, RemoveEntry
<1>5. CheckerRefs'
  <2> SUFFICES ASSUME NEW j \in Checkers
               PROVE  checker'[j].pc # "idle" => Ref(checker[j].turn, checker[j].box)'
    BY DEF CheckerRefs
  <2>1. \/ checker'[j].pc = "idle"
        \/ /\ checker[j].pc # "idle" /\ checker'[j].turn = checker[j].turn
           /\ checker'[j].box = checker[j].box
        \/ /\ tracked # NotTracked /\ checker'[j].turn = tracked.turn
           /\ checker'[j].box = tracked.box
    BY TypeParts DEF CheckerNext, CheckHeartbeats, Inspect, Report, CheckerCleanup, InspectFails,
       CheckersOK, IdleCheck
  <2> PICK t, b : t = checker'[j].turn /\ b = checker'[j].box
    OBVIOUS
  <2>2. checker'[j].pc # "idle" => t \in Turns /\ b \in Turns /\ Ref(t, b)
    BY <2>1, TypeParts DEF CheckersOK, EntryOK, Refs, CheckerRefs, EntryRef
  <2>3. checker'[j].pc # "idle" => Ref(t, b)'
    BY <1>1, <1>3, <2>2, RefKept
  <2> QED BY <2>3
<1>6. UNCHANGED << queue, consumer >>
  BY DEF CheckerNext, CheckHeartbeats, Inspect, Report, CheckerCleanup, InspectFails
<1> QED BY <1>1, <1>3, <1>4, <1>5, <1>6, SameRefs DEF Refs, boxes

LEMMA RefsInit == Init => Refs
<1> SUFFICES ASSUME Init PROVE Refs
  OBVIOUS
<1>1. QueueRefs /\ ConsumerRefs /\ EntryRef /\ CheckerRefs
  BY DEF Init, QueueRefs, ConsumerRefs, IdleConsumer, EntryRef, CheckerRefs, IdleCheck
<1>2. RunRefs /\ BoxRefs /\ TurnRefs
  BY DEF Init, RunRefs, BoxRefs, TurnRefs, Made, Active
<1> QED BY <1>1, <1>2 DEF Refs

LEMMA RefsStep == TypeOK /\ TypeOK' /\ OnceInv /\ Refs /\ [Next]_vars => Refs'
BY RefsBackend, RefsConsumer, RefsExecutor, RefsUser, RefsChecker DEF Next, UserNext, FaultNext

(***************************************************************************)
(* Accounts.  A turn is secure while somebody holds it who will not give   *)
(* it up without a fault.  Every step keeps a secure turn so, or finishes  *)
(* it, or takes what it relied on (lost); a fault fails one turn at most.  *)
(***************************************************************************)
Dead(b) == box[b].state \in {"crashed", "gone"}
RunsOn(t) == \E r \in DOMAIN run : Active(r) /\ run[r].turn = t

\* The name a message without a box will give its own is free.
NameIsFree(m) == m.box = NoBox => ~Made(m.turn)

Holds(c, t) ==
  /\ consumer[c].pc # "idle" /\ consumer[c].msg.turn = t
  /\ consumer[c].pc = "submit" => NameIsFree(consumer[c].msg)
  /\ consumer[c].pc = "dispatch" /\ consumer[c].fresh
       => tracked.turn = t /\ (Running(consumer[c].box) \/ Dead(consumer[c].box))
  /\ consumer[c].pc = "register" => Dead(consumer[c].box) \/ RunsOn(t)

Sending(t) == turn[t].send \in {"mark", "post"}
Queued(t) == \E i \in 1..Len(queue) : queue[i].turn = t /\ NameIsFree(queue[i])
InHands(t) == \E c \in Consumers : Holds(c, t)
Noticed(t) == tracked.turn = t /\ Dead(tracked.box)
Followed(t) == tracked.turn = t /\ RunsOn(t)
Condemned(t) == \E k \in Checkers : checker[k].turn = t /\ checker[k].pc = "report"

Secured(t) == Sending(t) \/ Queued(t) \/ InHands(t) \/ Noticed(t) \/ Followed(t) \/ Condemned(t)

\* Its outcome was not recorded, and its entry is about to be removed.
Abandoned(t) ==
  \/ \E r \in DOMAIN run : run[r].turn = t /\ run[r].pc = "forwarded"
  \/ \E k \in Checkers : checker[k].turn = t /\ checker[k].pc = "cleanup"

Fine(t) == Unfinished(t) /\ t \notin lost => Secured(t) /\ ~Abandoned(t)
AtRisk == {t \in Turns : ~Fine(t)}
Charged == Cardinality(AtRisk) <= faults

\* A box is fresh to the consumer that made it, once it has made it.
NotFreshYet == \A c \in Consumers : consumer[c].pc = "submit" => ~consumer[c].fresh

\* What a step keeps that leaves the entry of the turn, its boxes and its runs.
LEMMA SecuredFrame ==
  ASSUME TypeOK, Refs, NEW t \in Turns,
         tracked.turn = t => UNCHANGED tracked,
         \A b \in Turns : Made(b)' = Made(b),
         \A b \in Turns : Dead(b) => Dead(b)',
         \A b \in Turns : Running(b) /\ Awaited(t, b) => Running(b)' \/ Dead(b)',
         \A r \in DOMAIN run : Active(r) /\ run[r].turn = t
                                 => RunsOn(t)' \/ box'[run[r].box].state \in {"crashed", "gone"}
  PROVE  /\ Noticed(t) => Noticed(t)'
         /\ Followed(t) => Followed(t)' \/ Noticed(t)'
         /\ \A c \in Consumers : UNCHANGED consumer[c] /\ Holds(c, t) => Holds(c, t)'
         /\ UNCHANGED queue /\ Queued(t) => Queued(t)'
<1>1. t # NoTurn
  BY DispatchBoundsAssumption DEF Turns, NoTurn
<1>2. tracked.turn = t => tracked.box \in Turns /\ tracked.box = Home(t)
  BY <1>1, TypeParts DEF EntryOK, NotTracked, Refs, EntryRef, Ref
<1>3. RunsOn(t) => RunsOn(t)' \/ \E r \in DOMAIN run : /\ run[r].box = Home(t) /\ run[r].box \in Turns
                                                       /\ box'[Home(t)].state \in {"crashed", "gone"}
  BY TypeParts DEF RunsOn, Active, RunsOK, Refs, RunRefs, Ref
<1>4. Noticed(t) => Noticed(t)'
  BY <1>2 DEF Noticed, Dead
<1>5. Followed(t) => Followed(t)' \/ Noticed(t)'
  BY <1>2, <1>3 DEF Noticed, Followed, Dead
<1>6. ASSUME NEW c \in Consumers, UNCHANGED consumer[c], Holds(c, t) PROVE Holds(c, t)'
  <2>1. consumer[c].pc # "idle" => consumer[c].msg \in Posts
    BY MessageOK
  <2>2. consumer[c].pc = "submit" => NameIsFree(consumer[c].msg)'
    BY <1>6, <2>1 DEF Holds, NameIsFree, Posts
  <2>3. consumer[c].pc = "dispatch" /\ consumer[c].fresh
          => tracked'.turn = t /\ (Running(consumer[c].box)' \/ Dead(consumer[c].box)')
    <3>1. consumer[c].pc = "dispatch" => consumer[c].box \in Turns
      BY TypeParts DEF ConsumersOK
    <3>2. consumer[c].pc = "dispatch" => Awaited(t, consumer[c].box)
      BY <1>6 DEF Awaited, Holds
    <3> QED BY <1>6, <3>1, <3>2 DEF Holds, Dead
  <2>4. consumer[c].pc = "register" => Dead(consumer[c].box)' \/ RunsOn(t)'
    <3>1. consumer[c].pc = "register" => consumer[c].box \in Turns /\ consumer[c].box = Home(t)
      BY <1>6, TypeParts DEF ConsumersOK, Holds, Refs, ConsumerRefs, Ref
    <3> QED BY <1>3, <1>6, <3>1 DEF Holds, Dead
  <2> QED BY <1>6, <2>2, <2>3, <2>4 DEF Holds
<1>7. ASSUME UNCHANGED queue, Queued(t) PROVE Queued(t)'
  <2>1. \A i \in 1..Len(queue) : queue[i] \in Posts
    BY TypeParts DEF QueueOK
  <2> QED BY <1>7, <2>1 DEF Queued, NameIsFree, Posts
<1> QED BY <1>4, <1>5, <1>6, <1>7

\* At most one turn is put at risk by a fault, and none by anything else.
Balanced ==
  \/ faults' = faults /\ \A t \in Turns : Fine(t) => Fine(t)'
  \/ /\ faults' = faults + 1
     /\ \E x \in Turns : \A t \in Turns \ {x} : Fine(t) => Fine(t)'

LEMMA ChargedStep ==
  ASSUME TypeOK, TypeOK', Charged, Balanced
  PROVE  Charged'
<1>1. faults \in Nat /\ IsFiniteSet(Turns)
  <2>1. MaxTurns \in Nat
    BY DispatchBoundsAssumption
  <2> QED BY <2>1, FS_Interval, DispatchBoundsAssumption DEF TypeOK, Turns
<1>2. IsFiniteSet(AtRisk) /\ Cardinality(AtRisk) \in Nat
  BY <1>1, FS_Subset, FS_CardinalityType DEF AtRisk
<1>3. CASE faults' = faults /\ \A t \in Turns : Fine(t) => Fine(t)'
  <2>1. AtRisk' \subseteq AtRisk
    BY <1>3 DEF AtRisk
  <2>2. Cardinality(AtRisk') <= Cardinality(AtRisk) /\ Cardinality(AtRisk') \in Nat
    BY <1>2, <2>1, FS_Subset, FS_CardinalityType
  <2> QED BY <1>1, <1>2, <1>3, <2>2 DEF Charged
<1>4. ASSUME faults' = faults + 1, NEW x \in Turns, \A t \in Turns \ {x} : Fine(t) => Fine(t)'
      PROVE  Charged'
  <2>1. AtRisk' \subseteq AtRisk \cup {x}
    BY <1>4 DEF AtRisk
  <2>2. IsFiniteSet(AtRisk \cup {x}) /\ Cardinality(AtRisk \cup {x}) <= Cardinality(AtRisk) + 1
    <3>1. /\ IsFiniteSet(AtRisk \cup {x})
          /\ Cardinality(AtRisk \cup {x}) = IF x \in AtRisk THEN Cardinality(AtRisk)
                                            ELSE Cardinality(AtRisk) + 1
      BY <1>2, FS_AddElement
    <3> QED BY <1>2, <3>1
  <2>3. Cardinality(AtRisk') <= Cardinality(AtRisk \cup {x}) /\ Cardinality(AtRisk') \in Nat
          /\ Cardinality(AtRisk \cup {x}) \in Nat
    BY <2>1, <2>2, FS_Subset, FS_CardinalityType
  <2> QED BY <1>1, <1>2, <1>4, <2>2, <2>3 DEF Charged
<1> QED BY <1>3, <1>4 DEF Balanced

\* Nothing is held of a turn that was not sent.
LEMMA Unknown ==
  ASSUME Refs, NEW t \in Turns, ~Sent(t)
  PROVE  ~Abandoned(t) /\ ~Made(t)
BY DEF Refs, RunRefs, CheckerRefs, BoxRefs, Abandoned, Ref

LEMMA QuietFine ==
  ASSUME TypeOK, Refs, NEW t \in Turns, Fine(t),
         UNCHANGED << box, run, tracked, checker, consumer, lost >>,
         turn'[t].send = turn[t].send, Unfinished(t)' => Unfinished(t), Queued(t) => Queued(t)'
  PROVE  Fine(t)'
<1>1. \A b \in Turns : /\ Made(b)' = Made(b) /\ Dead(b)' = Dead(b)
                       /\ Running(b)' = Running(b)
  BY DEF Made, Dead, Running
<1>2. RunsOn(t)' = RunsOn(t)
  BY DEF RunsOn, Active
<1>3. /\ Noticed(t) => Noticed(t)'
      /\ Followed(t) => Followed(t)' \/ Noticed(t)'
      /\ \A c \in Consumers : UNCHANGED consumer[c] /\ Holds(c, t) => Holds(c, t)'
  <2>1. \A r \in DOMAIN run : Active(r) /\ run[r].turn = t => RunsOn(t)'
    BY <1>2 DEF RunsOn
  <2> QED BY <1>1, <2>1, SecuredFrame
<1>4. InHands(t) => InHands(t)'
  BY <1>3 DEF InHands
<1>5. Sending(t)' = Sending(t) /\ Condemned(t)' = Condemned(t) /\ Abandoned(t)' = Abandoned(t)
  BY DEF Sending, Condemned, Abandoned
<1> QED BY <1>3, <1>4, <1>5 DEF Fine, Secured

LEMMA FineBackend ==
  ASSUME TypeOK, OnceInv, Refs, NEW t \in Turns,
         CreateTurn(t) \/ SenderNext(t) \/ PostRepeated(t) \/ PostFails(t) \/ SenderStops(t)
  PROVE  Balanced
<1>1. UNCHANGED << box, run, tracked, checker, consumer, lost >>
  BY DEF CreateTurn, SenderNext, UpdateToRunning, PostResponses, PostRepeated, PostFails,
         SenderStops, Posted, boxes, manager
<1>2. turn[t].send # "done" => ~Sent(t) /\ ~Abandoned(t) /\ ~Made(t) /\ ~Abandoned(t)' /\ ~Made(t)'
  BY <1>1, Unknown DEF Sent, Abandoned, Made
<1>3. ASSUME NEW u \in Turns, u # t, Fine(u) PROVE Fine(u)'
  <2>1. turn'[u] = turn[u]
    <3>1. CASE CreateTurn(t) \/ SenderStops(t)
      BY <1>3, <3>1, TypeParts DEF CreateTurn, SenderStops, TurnsOK
    <3>2. ASSUME NEW status, NEW new, turn' = [Applied(t, status, NoBox) EXCEPT ![t].send = new]
          PROVE  turn'[u] = turn[u]
      BY <1>3, <3>2, TypeParts DEF Applied, TurnsOK
    <3>3. CASE UpdateToRunning(t)
      BY <3>2, <3>3 DEF UpdateToRunning
    <3>4. CASE PostResponses(t) \/ PostRepeated(t) \/ PostFails(t)
      BY <3>2, <3>4 DEF PostResponses, PostRepeated, PostFails, Posted
    <3> QED BY <3>1, <3>3, <3>4 DEF SenderNext
  <2>2. Queued(u) => Queued(u)'
    <3>1. CASE UNCHANGED queue
      BY <1>1, <3>1 DEF Queued, NameIsFree, Made
    <3>2. ASSUME NEW copies \in 0..2, NEW status, Posted(t, copies, status), Queued(u)
          PROVE  Queued(u)'
      <4>1. PICK i \in 1..Len(queue) : queue[i].turn = u /\ NameIsFree(queue[i])
        BY <3>2 DEF Queued
      <4>2. i \in 1..Len(queue') /\ queue'[i] = queue[i]
        BY <3>2, PostedPlaces DEF Posted
      <4> QED BY <1>1, <4>1, <4>2 DEF Queued, NameIsFree, Made
    <3> QED BY <3>1, <3>2 DEF CreateTurn, SenderNext, UpdateToRunning, PostResponses, PostRepeated,
               PostFails, SenderStops, manager
  <2> QED BY <1>1, <1>3, <2>1, <2>2, QuietFine DEF Unfinished
<1>4. CASE CreateTurn(t)
  <2>1. Sending(t)' /\ turn[t].send # "done"
    BY <1>4, TypeParts DEF CreateTurn, Sending, TurnsOK, OnceInv, Unsent
  <2> QED BY <1>2, <1>3, <1>4, <2>1 DEF Balanced, Fine, Secured, CreateTurn, ends
<1>5. CASE UpdateToRunning(t)
  <2> DEFINE marked == Applied(t, "RUNNING", NoBox)
  <2>1. turn' = [marked EXCEPT ![t].send = "post"] /\ turn[t].send = "mark"
    BY <1>5 DEF UpdateToRunning
  <2>2. marked \in [Turns -> [status : Statuses, box : Turns \cup {NoBox},
                              send : {"no", "mark", "post", "done"}]]
    BY AppliedOK, TypeParts DEF Statuses
  <2> HIDE DEF marked
  <2>3. Sending(t)'
    BY <2>1, <2>2 DEF Sending
  <2> QED BY <1>2, <1>3, <1>5, <2>1, <2>3 DEF Balanced, Fine, Secured, UpdateToRunning, ends
<1>6. ASSUME NEW copies \in 0..2, NEW status \in Statuses, Posted(t, copies, status),
             copies # 0 \/ status = "FAILED"
      PROVE  Fine(t) => Fine(t)'
  <2> DEFINE marked == Applied(t, status, NoBox)
  <2>1. turn' = [marked EXCEPT ![t].send = "done"] /\ turn[t].send = "post"
    BY <1>6 DEF Posted
  <2>2. marked \in [Turns -> [status : Statuses, box : Turns \cup {NoBox},
                              send : {"no", "mark", "post", "done"}]]
    BY AppliedOK, TypeParts
  <2>3. marked[t].status = status
    BY TypeParts DEF TurnsOK, Applied
  <2> HIDE DEF marked
  <2>4. turn'[t].status = status
    BY <2>1, <2>2, <2>3
  <2>5. CASE status = "FAILED"
    BY <2>4, <2>5 DEF Fine, Unfinished
  <2>6. CASE copies # 0
    <3> PICK m : m = Message(t)
      OBVIOUS
    <3>1. Len(queue) + 1 \in 1..Len(queue') /\ queue'[Len(queue) + 1] = m /\ m.turn = t
      BY <1>6, <2>6, PostedPlaces DEF Posted, Message
    <3>2. NameIsFree(m)'
      BY <1>2, <2>1, <3>1 DEF NameIsFree
    <3>3. Queued(t)'
      BY <3>1, <3>2 DEF Queued
    <3> QED BY <1>2, <2>1, <3>3 DEF Fine, Secured
  <2> QED BY <1>6, <2>5, <2>6
<1>7. turn[t].status \in Statuses /\ "FAILED" \in Statuses
  BY TypeParts DEF TurnsOK, Statuses, Terminal
<1>8. CASE PostResponses(t) \/ PostRepeated(t) \/ PostFails(t)
  <2>1. Fine(t) => Fine(t)'
    BY <1>6, <1>7, <1>8 DEF PostResponses, PostRepeated, PostFails
  <2>2. faults' = faults \/ faults' = faults + 1
    BY <1>8 DEF PostResponses, PostRepeated, PostFails, Fault, ends
  <2> QED BY <1>3, <2>1, <2>2 DEF Balanced
<1>9. CASE SenderStops(t)
  BY <1>3, <1>9 DEF Balanced, SenderStops, Fault
<1> QED BY <1>4, <1>5, <1>8, <1>9 DEF SenderNext

\* What a step keeps that leaves boxes, runs and entry alone, or stops a box.
LEMMA QuietFrame ==
  ASSUME TypeOK, Refs, NEW t \in Turns, UNCHANGED << box, run, tracked >>
  PROVE  /\ Noticed(t) => Noticed(t)'
         /\ Followed(t) => Followed(t)' \/ Noticed(t)'
         /\ \A c \in Consumers : UNCHANGED consumer[c] /\ Holds(c, t) => Holds(c, t)'
         /\ UNCHANGED queue /\ Queued(t) => Queued(t)'
         /\ UNCHANGED checker => Abandoned(t)' = Abandoned(t)
         /\ \A b \in Turns : Made(b)' = Made(b)
<1>1. \A b \in Turns : /\ Made(b)' = Made(b) /\ Dead(b)' = Dead(b)
                       /\ Running(b)' = Running(b)
  BY DEF Made, Dead, Running
<1>2. \A r \in DOMAIN run : Active(r) /\ run[r].turn = t => RunsOn(t)'
  BY DEF RunsOn, Active
<1>3. UNCHANGED checker => Abandoned(t)' = Abandoned(t)
  BY DEF Abandoned
<1> QED BY <1>1, <1>2, <1>3, SecuredFrame

LEMMA StoppedFrame ==
  ASSUME TypeOK, Refs, NEW t \in Turns, UNCHANGED tracked, NEW b \in Turns, Made(b),
         NEW state \in {"crashed", "gone"}, Stopped(b, state)
  PROVE  /\ Noticed(t) => Noticed(t)'
         /\ Followed(t) => Followed(t)' \/ Noticed(t)'
         /\ \A c \in Consumers : UNCHANGED consumer[c] /\ Holds(c, t) => Holds(c, t)'
         /\ UNCHANGED queue /\ Queued(t) => Queued(t)'
         /\ UNCHANGED checker /\ Abandoned(t)' => Abandoned(t)
         /\ Dead(b)'
<1>1. /\ DOMAIN run' = DOMAIN run
      /\ \A r \in DOMAIN run : IF run[r].box = b /\ Active(r) THEN run'[r] = Over(r)
                               ELSE run'[r] = run[r]
      /\ \A u \in Turns : box'[u].state = IF u = b THEN state ELSE box[u].state
  BY StoppedRuns
<1>2. /\ \A u \in Turns : Made(u)' = Made(u)
      /\ \A u \in Turns : Dead(u) => Dead(u)'
      /\ \A u \in Turns : Running(u) => Running(u)' \/ Dead(u)'
      /\ Dead(b)'
  BY <1>1 DEF Made, Dead, Running
<1>3. ASSUME NEW r \in DOMAIN run, Active(r), run[r].turn = t
      PROVE  RunsOn(t)' \/ box'[run[r].box].state \in {"crashed", "gone"}
  BY <1>1, <1>3 DEF RunsOn, Active
<1>4. UNCHANGED checker /\ Abandoned(t)' => Abandoned(t)
  BY <1>1, OverIsSent DEF Abandoned
<1> QED BY <1>2, <1>3, <1>4, SecuredFrame

\* A step of one consumer that keeps what the others hold.
LEMMA MovesFine ==
  ASSUME NEW c \in Consumers, NEW t \in Turns, Fine(t), lost \subseteq lost',
         turn'[t] = turn[t], UNCHANGED checker,
         \A d \in Consumers \ {c} : consumer'[d] = consumer[d],
         t \notin lost' /\ Unfinished(t) =>
           /\ Noticed(t) => Noticed(t)'
           /\ Followed(t) => Followed(t)' \/ Noticed(t)'
           /\ \A d \in Consumers : UNCHANGED consumer[d] /\ Holds(d, t) => Holds(d, t)'
           /\ Queued(t) => Secured(t)'
           /\ Abandoned(t)' => Abandoned(t)
           /\ Holds(c, t) => Secured(t)'
  PROVE  Fine(t)'
<1> SUFFICES ASSUME Unfinished(t)', t \notin lost' PROVE Secured(t)' /\ ~Abandoned(t)'
  BY DEF Fine
<1>1. Unfinished(t) /\ t \notin lost
  BY DEF Unfinished
<1>2. Secured(t) /\ ~Abandoned(t)
  BY <1>1 DEF Fine
<1>3. Sending(t) => Sending(t)'
  BY DEF Sending
<1>4. Condemned(t) => Condemned(t)'
  BY DEF Condemned
<1>5. InHands(t) => Secured(t)'
  <2> SUFFICES ASSUME NEW d \in Consumers, Holds(d, t) PROVE Secured(t)'
    BY DEF InHands
  <2>1. CASE d = c
    BY <1>1, <2>1
  <2>2. CASE d # c
    <3>1. Holds(d, t)'
      BY <1>1, <2>2
    <3> QED BY <3>1 DEF Secured, InHands
  <2> QED BY <2>1, <2>2
<1> QED BY <1>1, <1>2, <1>3, <1>4, <1>5 DEF Secured

LEMMA StartedFrame ==
  ASSUME TypeOK, Refs, NEW t \in Turns, UNCHANGED tracked, NEW u \in Turns, NEW b \in Turns,
         NEW n \in {1, 2}, Started(u, b, n)
  PROVE  /\ Noticed(t) => Noticed(t)'
         /\ Followed(t) => Followed(t)' \/ Noticed(t)'
         /\ \A c \in Consumers : UNCHANGED consumer[c] /\ Holds(c, t) => Holds(c, t)'
         /\ UNCHANGED queue /\ Queued(t) => Queued(t)'
         /\ UNCHANGED checker /\ Abandoned(t)' => Abandoned(t)
         /\ RunsOn(u)'
<1>1. PICK rs \in SUBSET {r \in Runs : run[r].pc = "free"} :
        /\ Cardinality(rs) = n
        /\ run' = [r \in DOMAIN run |-> IF r \in rs
                     THEN [pc |-> "running", turn |-> u, box |-> b, outcome |-> "none"]
                     ELSE run[r]]
        /\ box' = [box EXCEPT ![b].turn = u]
  BY DEF Started
<1>2. rs # {}
  BY <1>1, FS_EmptySet
<1>3. RunsOn(u)'
  <2>1. PICK r \in rs : r \in DOMAIN run
    BY <1>1, <1>2, TypeParts DEF RunsOK
  <2>2. run'[r].pc = "running" /\ run'[r].turn = u /\ r \in DOMAIN run'
    BY <1>1, <2>1
  <2> QED BY <2>2 DEF RunsOn, Active
<1>4. \A a \in Turns : box'[a].state = box[a].state
  BY <1>1, TypeParts DEF BoxesOK
<1>5. \A a \in Turns : Made(a)' = Made(a) /\ Dead(a)' = Dead(a) /\ Running(a)' = Running(a)
  BY <1>4 DEF Made, Dead, Running
<1>6. ASSUME NEW r \in DOMAIN run, Active(r), run[r].turn = t PROVE RunsOn(t)'
  BY <1>1, <1>6 DEF RunsOn, Active
<1>7. UNCHANGED checker /\ Abandoned(t)' => Abandoned(t)
  BY <1>1 DEF Abandoned
<1> QED BY <1>3, <1>5, <1>6, <1>7, SecuredFrame

LEMMA FineConsumer ==
  ASSUME TypeOK, TypeOK', Refs, NotFreshYet, NEW c \in Consumers,
         ConsumerNext(c) \/ ProcessFails(c) \/ StartFails(c) \/ ConsumerStops(c)
  PROVE  Balanced
<1> DEFINE m == consumer[c].msg
           b == consumer[c].box
<1>1. /\ consumer[c].pc # "idle" => m \in Posts /\ GoodMessage(m)
      /\ consumer[c].pc \in {"dispatch", "register"}
           => m.turn \in Turns /\ b \in Turns /\ Ref(m.turn, b)
  BY MessageOK, TypeParts DEF ConsumersOK, Refs, ConsumerRefs
<1>2. /\ Done(c) => \A d \in Consumers \ {c} : consumer'[d] = consumer[d]
      /\ \A pc : Goto(c, pc) => /\ \A d \in Consumers \ {c} : consumer'[d] = consumer[d]
                                /\ consumer'[c] = [consumer[c] EXCEPT !.pc = pc]
  BY TypeParts DEF Done, Goto, ConsumersOK
<1>3. \A t \in Turns : t # m.turn => ~Holds(c, t)
  BY DEF Holds
<1>4. CASE Dequeue(c)
  <2>1. consumer'[c].pc = "submit" /\ consumer'[c].msg = Head(queue) /\ consumer[c].pc = "idle"
          /\ \A d \in Consumers \ {c} : consumer'[d] = consumer[d]
    BY <1>4, TypeParts DEF Dequeue, ConsumersOK
  <2> SUFFICES ASSUME NEW t \in Turns, Fine(t) PROVE Fine(t)'
    BY <1>4 DEF Balanced, Dequeue, ends
  <2>2. UNCHANGED << box, run, tracked, checker, turn, lost >>
    BY <1>4 DEF Dequeue, boxes, backend
  <2>3. ASSUME Queued(t) PROVE Secured(t)'
    <3>1. PICK i \in 1..Len(queue) : queue[i].turn = t /\ NameIsFree(queue[i])
      BY <2>3 DEF Queued
    <3> PICK n : n = queue[i]
      OBVIOUS
    <3>2. NameIsFree(n)' /\ n.turn = t
      BY <2>2, <3>1 DEF NameIsFree, Made
    <3>3. queue \in Seq(Posts) /\ queue # << >> /\ queue' = Tail(queue)
      BY <1>4, TypeParts DEF Dequeue, QueueOK
    <3>4. CASE i = 1
      <4>1. consumer'[c].msg = n
        BY <2>1, <3>3, <3>4
      <4>2. Holds(c, t)'
        BY <2>1, <3>2, <4>1 DEF Holds
      <4> QED BY <4>2 DEF Secured, InHands
    <3>5. CASE i # 1
      <4>1. i - 1 \in 1..Len(queue') /\ queue'[i - 1] = n
        BY <3>3, <3>5
      <4>2. Queued(t)'
        BY <3>2, <4>1 DEF Queued
      <4> QED BY <4>2 DEF Secured
    <3> QED BY <3>4, <3>5
  <2>4. ~Holds(c, t)
    BY <2>1 DEF Holds
  <2> QED BY <2>1, <2>2, <2>3, <2>4, QuietFrame, MovesFine
\* The rest of the steps, for a turn that is not the consumer's or that it keeps.
<1>5. ASSUME NEW t \in Turns, Fine(t), UNCHANGED << box, run, tracked, checker, lost >>,
             turn'[t] = turn[t], UNCHANGED queue,
             \A d \in Consumers \ {c} : consumer'[d] = consumer[d],
             Holds(c, t) => Secured(t)'
      PROVE  Fine(t)'
  BY <1>5, QuietFrame, MovesFine DEF Secured
<1>6. CASE ReportFailure(c)
  <2>1. UNCHANGED << box, run, tracked, checker, lost, queue >> /\ Done(c) /\ m.turn \in Turns
    BY <1>1, <1>6 DEF ReportFailure, boxes, Posts
  <2>2. ASSUME NEW t \in Turns, t # m.turn, Fine(t) PROVE Fine(t)'
    <3>1. turn'[t] = turn[t]
      BY <1>6, <2>2, TypeParts DEF ReportFailure, Applied, TurnsOK
    <3> QED BY <1>2, <1>3, <1>5, <2>1, <2>2, <3>1
  <2>3. CASE turn' = Applied(m.turn, "FAILED", NoBox) /\ UNCHANGED ends
    <3>1. turn'[m.turn].status = "FAILED"
      BY <2>1, <2>3, TypeParts DEF Applied, TurnsOK
    <3> QED BY <2>2, <2>3, <3>1 DEF Balanced, ends, Fine, Unfinished
  <2>4. CASE Fault("report")
    BY <2>1, <2>2, <2>4 DEF Balanced, Fault
  <2> QED BY <1>6, <2>3, <2>4 DEF ReportFailure
<1>7. CASE SubmitToBox(c)
  <2> SUFFICES ASSUME NEW t \in Turns, Fine(t) PROVE Fine(t)'
    BY <1>7 DEF Balanced, SubmitToBox, ends
  <2>1. /\ consumer'[c].pc = "dispatch" /\ consumer'[c].msg = m
        /\ consumer'[c].fresh = consumer[c].fresh
        /\ \A d \in Consumers \ {c} : consumer'[d] = consumer[d]
    BY <1>7, TypeParts DEF SubmitToBox, ConsumersOK
  <2>2. Holds(c, t) => Holds(c, t)'
    BY <1>7, <2>1 DEF Holds, NotFreshYet, SubmitToBox
  <2> QED BY <1>5, <1>7, <2>1, <2>2 DEF SubmitToBox, boxes, backend, Secured, InHands
<1>8. CASE SubmitNew(c)
  <2> PICK u \in Turns, a \in Turns : u = m.turn /\ a = NameFor(m)
    BY <1>1, <1>8 DEF SubmitNew, NameFor, Posts
  <2>1. /\ UNCHANGED << turn, queue, checker, run >>
        /\ tracked' = [turn |-> u, box |-> a]
        /\ lost' = lost \cup Losing(u) \cup NotEntered(a)
    BY <1>8 DEF SubmitNew, backend
  <2>2. \A v \in Turns : v # a => box'[v] = box[v]
    BY <1>8, TypeParts DEF SubmitNew, Created, BoxesOK
  <2>3. box'[a].state = "running"
    BY <1>8, TypeParts DEF SubmitNew, Created, BoxesOK
  <2>4. /\ consumer'[c].pc = "dispatch" /\ consumer'[c].msg = m /\ consumer'[c].box = a
        /\ \A d \in Consumers \ {c} : consumer'[d] = consumer[d]
    BY <1>8, TypeParts DEF SubmitNew, ConsumersOK
  <2> SUFFICES ASSUME NEW t \in Turns, Fine(t) PROVE Fine(t)'
    BY <1>8 DEF Balanced, SubmitNew, ends
  <2>5. Abandoned(t)' = Abandoned(t)
    BY <2>1 DEF Abandoned
  <2>6. CASE t = u
    <3>1. Holds(c, t)'
      BY <2>1, <2>3, <2>4, <2>6 DEF Holds, Running, NoBox, Turns
    <3> QED BY <2>1, <2>5, <3>1 DEF Fine, Secured, InHands, Unfinished
  <2>7. ASSUME t # u PROVE Fine(t)'
    <3> SUFFICES ASSUME Unfinished(t), t \notin lost' PROVE Secured(t)'
      BY <2>1, <2>5 DEF Fine, Unfinished
    <3>1. tracked.turn # t
      BY <2>1, <2>7 DEF Losing
    <3>2. \A d \in Consumers : consumer[d].pc = "register" /\ consumer[d].msg.turn = t
            => consumer[d].box # a
      BY <2>1 DEF NotEntered
    <3>3. ~Made(t) => t # a
      <4>1. CASE m.box = NoBox
        BY <2>7, <4>1 DEF NameFor
      <4>2. CASE m.box # NoBox
        <5>1. turn[u].box = a
          BY <1>1, <1>8, <4>2 DEF SubmitNew, NameFor, GoodMessage
        <5>2. turn[u].box # NoBox
          BY <5>1, DispatchBoundsAssumption DEF Turns, NoBox
        <5> QED BY <5>1, <5>2 DEF Refs, TurnRefs
      <4> QED BY <4>1, <4>2
    <3>4. ~Made(t) => ~Made(t)'
      BY <2>2, <3>3 DEF Made
    <3>5. Queued(t) => Queued(t)'
      BY <2>1, <3>4 DEF Queued, NameIsFree
    <3>6. ASSUME NEW d \in Consumers, Holds(d, t) PROVE Holds(d, t)'
      <4>1. d # c /\ consumer'[d] = consumer[d]
        BY <1>3, <2>4, <2>7, <3>6
      <4>2. ~(consumer[d].pc = "dispatch" /\ consumer[d].fresh)
        BY <3>1, <3>6 DEF Holds
      <4>3. consumer[d].pc = "submit" => NameIsFree(consumer[d].msg)'
        BY <3>4, <3>6, <4>1 DEF Holds, NameIsFree
      <4>4. consumer[d].pc = "register" => Dead(consumer[d].box)' \/ RunsOn(t)'
        <5>1. consumer[d].pc = "register" => consumer[d].box \in Turns /\ consumer[d].box # a
          BY <3>2, <3>6, TypeParts DEF ConsumersOK, Holds
        <5>2. RunsOn(t)' = RunsOn(t)
          BY <2>1 DEF RunsOn, Active
        <5> QED BY <2>2, <3>6, <4>1, <5>1, <5>2 DEF Holds, Dead
      <4> QED BY <3>6, <4>1, <4>2, <4>3, <4>4 DEF Holds
    <3>7. Sending(t)' = Sending(t) /\ Condemned(t)' = Condemned(t)
      BY <2>1 DEF Sending, Condemned
    <3>8. Secured(t)
      BY <2>1 DEF Fine
    <3> QED BY <3>1, <3>5, <3>6, <3>7, <3>8 DEF Secured, Noticed, Followed, InHands
  <2> QED BY <2>6, <2>7
<1>9. CASE SubmitFails(c)
  <2>1. /\ Done(c) /\ UNCHANGED << turn, queue, tracked, checker, run, lost >>
        /\ consumer[c].pc = "submit" /\ m \in Posts
    BY <1>1, <1>9 DEF SubmitFails, backend
  <2>2. CASE m.box = NoBox /\ Exists(m.turn) /\ UNCHANGED << box, ends >>
    <3>1. \A t \in Turns : ~Holds(c, t)
      BY <2>1, <2>2 DEF Holds, NameIsFree, Exists, Made
    <3> QED BY <1>2, <1>5, <2>1, <2>2, <3>1 DEF Balanced, ends
  <2>3. ASSUME Fault("submit"),
               \/ UNCHANGED box
               \/ m.box # NoBox /\ box' = [box EXCEPT ![m.box].state = "gone"]
        PROVE  Balanced
    <3> SUFFICES ASSUME NEW t \in Turns, t # m.turn, Fine(t) PROVE Fine(t)'
      BY <2>1, <2>3 DEF Balanced, Fault, Posts
    <3>1. CASE UNCHANGED box
      BY <1>2, <1>3, <1>5, <2>1, <3>1
    <3>2. CASE m.box # NoBox /\ box' = [box EXCEPT ![m.box].state = "gone"]
      <4>1. m.box \in Turns /\ Made(m.box) /\ ~Running(m.box)
        BY <1>1, <1>9, <2>1, <3>2 DEF SubmitFails, GoodMessage, Posts, Refs, TurnRefs
      <4>2. \A v \in Turns : box'[v].state = IF v = m.box THEN "gone" ELSE box[v].state
        BY <3>2, TypeParts DEF BoxesOK
      <4>3. /\ \A v \in Turns : Made(v)' = Made(v)
            /\ \A v \in Turns : Dead(v) => Dead(v)'
            /\ \A v \in Turns : Running(v) => Running(v)'
        BY <4>1, <4>2 DEF Made, Dead, Running
      <4>4. \A r \in DOMAIN run : Active(r) /\ run[r].turn = t => RunsOn(t)'
        BY <2>1 DEF RunsOn, Active
      <4>5. /\ Noticed(t) => Noticed(t)'
            /\ Followed(t) => Followed(t)' \/ Noticed(t)'
            /\ \A d \in Consumers : UNCHANGED consumer[d] /\ Holds(d, t) => Holds(d, t)'
            /\ Queued(t) => Queued(t)'
        BY <2>1, <4>3, <4>4, SecuredFrame
      <4>6. Abandoned(t)' = Abandoned(t)
        BY <2>1 DEF Abandoned
      <4> QED BY <1>2, <1>3, <2>1, <4>5, <4>6, MovesFine DEF Secured
    <3> QED BY <2>3, <3>1, <3>2
  <2> QED BY <1>9, <2>2, <2>3 DEF SubmitFails
<1>10. CASE Dispatch(c)
  <2>1. /\ UNCHANGED << turn, queue, tracked, checker, lost >>
        /\ consumer[c].pc = "dispatch" /\ m.turn \in Turns /\ b \in Turns
    BY <1>1, <1>10 DEF Dispatch, backend
  <2>2. PICK n \in {1, 2} : Started(m.turn, b, n)
    BY <1>10 DEF Dispatch
  <2>3. \A d \in Consumers \ {c} : consumer'[d] = consumer[d]
    BY <1>2, <1>10 DEF Dispatch, AfterDispatch
  <2>4. ASSUME NEW t \in Turns, Fine(t), Holds(c, t) => Secured(t)' PROVE Fine(t)'
    <3>1. /\ Noticed(t) => Noticed(t)'
          /\ Followed(t) => Followed(t)' \/ Noticed(t)'
          /\ \A d \in Consumers : UNCHANGED consumer[d] /\ Holds(d, t) => Holds(d, t)'
          /\ Queued(t) => Queued(t)'
          /\ Abandoned(t)' => Abandoned(t)
      BY <2>1, <2>2, StartedFrame
    <3> QED BY <2>1, <2>3, <2>4, <3>1, MovesFine DEF Secured
  <2>5. CASE AfterDispatch(c) /\ UNCHANGED ends
    <3> SUFFICES ASSUME NEW t \in Turns, Holds(c, t) PROVE Secured(t)'
      BY <2>4, <2>5 DEF Balanced, ends
    <3>1. RunsOn(t)'
      <4>1. t = m.turn
        BY DEF Holds
      <4> QED BY <2>1, <2>2, <4>1, StartedFrame
    <3>2. CASE consumer[c].fresh
      <4>1. Followed(t)'
        BY <2>1, <3>1, <3>2 DEF Followed, Holds
      <4> QED BY <4>1 DEF Secured
    <3>3. CASE ~consumer[c].fresh
      <4>1. consumer'[c].pc = "register" /\ consumer'[c].msg = m
        <5>1. Goto(c, "register")
          BY <2>5, <3>3 DEF AfterDispatch
        <5> QED BY <5>1, TypeParts DEF Goto, ConsumersOK
      <4>2. Holds(c, t)'
        BY <3>1, <4>1 DEF Holds
      <4> QED BY <4>2 DEF Secured, InHands
    <3> QED BY <3>2, <3>3
  <2>6. CASE Fault("dispatch")
    BY <1>3, <2>1, <2>4, <2>6 DEF Balanced, Fault
  <2> QED BY <1>10, <2>5, <2>6 DEF Dispatch
\* A box stops, or stays.
<1>11. ASSUME NEW t \in Turns, Fine(t), UNCHANGED << turn, queue, tracked, checker >>,
              lost \subseteq lost', consumer[c].pc = "dispatch",
              UNCHANGED boxes \/ \E state \in {"crashed", "gone"} : Stopped(b, state),
              \A d \in Consumers \ {c} : consumer'[d] = consumer[d],
              t \notin lost' /\ Holds(c, t) => Secured(t)'
       PROVE  Fine(t)'
  <2>1. /\ Noticed(t) => Noticed(t)'
        /\ Followed(t) => Followed(t)' \/ Noticed(t)'
        /\ \A d \in Consumers : UNCHANGED consumer[d] /\ Holds(d, t) => Holds(d, t)'
        /\ Queued(t) => Queued(t)'
        /\ Abandoned(t)' => Abandoned(t)
    <3>1. CASE UNCHANGED boxes
      BY <1>11, <3>1, QuietFrame DEF boxes
    <3>2. CASE \E state \in {"crashed", "gone"} : Stopped(b, state)
      <4>1. b \in Turns /\ Made(b)
        BY <1>1, <1>11 DEF Ref
      <4> QED BY <1>11, <3>2, <4>1, StoppedFrame
    <3> QED BY <1>11, <3>1, <3>2
  <2> QED BY <1>11, <2>1, MovesFine DEF Secured
<1>12. CASE StartFails(c)
  <2>1. /\ UNCHANGED << turn, queue, tracked, checker, lost >> /\ consumer[c].pc = "dispatch"
        /\ UNCHANGED boxes \/ \E state \in {"crashed", "gone"} : Stopped(b, state)
        /\ Fault("start")
    BY <1>12 DEF StartFails, backend
  <2>2. \A d \in Consumers \ {c} : consumer'[d] = consumer[d]
    BY <1>2, <1>12 DEF StartFails, AfterDispatch
  <2>3. m.turn \in Turns
    BY <1>1, <2>1
  <2> QED BY <1>3, <1>11, <2>1, <2>2, <2>3 DEF Balanced, Fault
<1>13. CASE DispatchFails(c)
  <2>1. /\ UNCHANGED << turn, queue, tracked, checker >> /\ consumer[c].pc = "dispatch"
        /\ IF consumer[c].fresh THEN Stopped(b, "gone") ELSE UNCHANGED boxes
        /\ lost \subseteq lost' /\ Done(c)
    BY <1>13 DEF DispatchFails, backend
  <2>2. m.turn \in Turns /\ b \in Turns /\ Ref(m.turn, b)
    BY <1>1, <2>1
  <2>3. CASE Fault("dispatch")
    BY <1>2, <1>3, <1>11, <2>1, <2>2, <2>3 DEF Balanced, Fault
  <2>4. CASE ~Running(b) /\ UNCHANGED ends
    <3> SUFFICES ASSUME NEW t \in Turns, t \notin lost', Holds(c, t) PROVE Secured(t)'
      BY <1>2, <1>11, <2>1, <2>4 DEF Balanced, ends
    <3>1. t = m.turn /\ consumer[c].fresh
      BY <1>13, <2>4 DEF DispatchFails, Holds
    <3> PICK a \in Turns : a = b
      BY <2>2
    <3>2. Dead(a)'
      BY <2>1, <2>2, <3>1, StoppedFrame DEF Ref
    <3>3. tracked.turn = t /\ tracked # NotTracked
      BY <2>1, <3>1, DispatchBoundsAssumption DEF Holds, NotTracked, NoTurn, Turns
    <3>4. tracked.box = a
      BY <2>2, <3>1, <3>3 DEF Refs, EntryRef, Ref
    <3>5. Noticed(t)'
      BY <2>1, <3>2, <3>3, <3>4 DEF Noticed, Dead
    <3> QED BY <3>5 DEF Secured
  <2> QED BY <1>13, <2>3, <2>4 DEF DispatchFails
<1>14. CASE Register(c)
  <2>1. /\ UNCHANGED << turn, queue, checker, box, run >> /\ consumer[c].pc = "register" /\ Done(c)
        /\ tracked' = [turn |-> m.turn, box |-> b] /\ lost' = lost \cup Losing(m.turn)
    BY <1>14 DEF Register, AddEntry, backend, boxes
  <2>2. m.turn \in Turns /\ b \in Turns /\ Ref(m.turn, b)
    BY <1>1, <2>1
  <2> SUFFICES ASSUME NEW t \in Turns, Fine(t) PROVE Fine(t)'
    BY <1>14 DEF Balanced, Register, ends
  <2>3. ASSUME t \notin lost', Unfinished(t), tracked.turn = t PROVE UNCHANGED tracked
    <3>1. t = m.turn
      BY <2>1, <2>3 DEF Losing
    <3>2. tracked \in [turn : Turns, box : Turns] /\ tracked.box = b
      BY <2>2, <2>3, <3>1, DispatchBoundsAssumption, TypeParts
         DEF EntryOK, NotTracked, NoTurn, Turns, Refs, EntryRef, Ref
    <3> QED BY <2>1, <2>3, <3>1, <3>2
  <2>4. ASSUME t \notin lost', Unfinished(t)
        PROVE  /\ Noticed(t) => Noticed(t)'
               /\ Followed(t) => Followed(t)' \/ Noticed(t)'
               /\ \A d \in Consumers : UNCHANGED consumer[d] /\ Holds(d, t) => Holds(d, t)'
               /\ Queued(t) => Queued(t)'
    <3>1. \A v \in Turns : Made(v)' = Made(v) /\ Dead(v)' = Dead(v) /\ Running(v)' = Running(v)
      BY <2>1 DEF Made, Dead, Running
    <3>2. \A r \in DOMAIN run : Active(r) /\ run[r].turn = t => RunsOn(t)'
      BY <2>1 DEF RunsOn, Active
    <3> QED BY <2>1, <2>3, <2>4, <3>1, <3>2, SecuredFrame
  <2>5. Holds(c, t) => Secured(t)'
    <3> SUFFICES ASSUME Holds(c, t) PROVE Noticed(t)' \/ Followed(t)'
      BY DEF Secured
    <3>1. t = m.turn /\ (Dead(b) \/ RunsOn(t)) /\ tracked'.turn = t /\ tracked'.box = b
      BY <2>1 DEF Holds
    <3>2. RunsOn(t)' = RunsOn(t)
      BY <2>1 DEF RunsOn, Active
    <3> QED BY <2>1, <3>1, <3>2 DEF Noticed, Followed, Dead
  <2>6. Abandoned(t)' = Abandoned(t)
    BY <2>1 DEF Abandoned
  <2>7. turn'[t] = turn[t] /\ lost \subseteq lost'
    BY <2>1
  <2> QED BY <1>2, <2>1, <2>4, <2>5, <2>6, <2>7, MovesFine DEF Secured
<1>15. CASE ProcessFails(c)
  <2>1. UNCHANGED << box, run, tracked, checker, lost, turn >> /\ consumer[c].pc = "submit"
    BY <1>15 DEF ProcessFails, boxes, backend
  <2> SUFFICES ASSUME NEW t \in Turns, Fine(t) PROVE Fine(t)'
    BY <1>15 DEF Balanced, ProcessFails, ends
  <2>2. CASE Goto(c, "report") /\ UNCHANGED queue
    <3>1. consumer'[c].pc = "report" /\ consumer'[c].msg = m
      BY <2>2, TypeParts DEF Goto, ConsumersOK
    <3>2. Holds(c, t) => Holds(c, t)'
      BY <3>1 DEF Holds
    <3> QED BY <1>2, <1>5, <2>1, <2>2, <3>2 DEF Secured, InHands
  <2>3. CASE queue' = Append(queue, [m EXCEPT !.retries = @ + 1]) /\ Done(c)
    <3> PICK n : n = [m EXCEPT !.retries = @ + 1]
      OBVIOUS
    <3>1. n.turn = m.turn /\ n.box = m.box
      BY <1>1, <2>1 DEF Posts
    <3>2. /\ Len(queue) + 1 \in 1..Len(queue') /\ queue'[Len(queue) + 1] = n
          /\ \A i \in 1..Len(queue) : i \in 1..Len(queue') /\ queue'[i] = queue[i]
      BY <2>3, TypeParts DEF QueueOK
    <3>3. \A v : Made(v)' = Made(v)
      BY <2>1 DEF Made
    <3>4. Queued(t) => Queued(t)'
      BY <3>2, <3>3 DEF Queued, NameIsFree
    <3>5. Holds(c, t) => Queued(t)'
      <4> SUFFICES ASSUME Holds(c, t) PROVE Queued(t)'
        OBVIOUS
      <4>1. n.turn = t /\ NameIsFree(n)
        BY <2>1, <3>1 DEF Holds, NameIsFree
      <4>2. NameIsFree(n)'
        BY <3>3, <4>1 DEF NameIsFree
      <4> QED BY <3>2, <4>1, <4>2 DEF Queued
    <3> QED BY <1>2, <2>1, <2>3, <3>4, <3>5, QuietFrame, MovesFine DEF Secured
  <2> QED BY <1>15, <2>2, <2>3 DEF ProcessFails, Requeue
<1>16. CASE ConsumerStops(c)
  <2>1. /\ UNCHANGED << box, run, tracked, checker, lost, turn, queue >>
        /\ Done(c) /\ Fault("consumer") /\ m.turn \in Turns
    BY <1>1, <1>16 DEF ConsumerStops, boxes, backend, Posts
  <2> QED BY <1>2, <1>3, <1>5, <2>1 DEF Balanced, Fault
<1> QED BY <1>4, <1>6, <1>7, <1>8, <1>9, <1>10, <1>12, <1>13, <1>14, <1>15, <1>16
        DEF ConsumerNext

\* A step of anybody but a sender or a consumer.
LEMMA RestFine ==
  ASSUME TypeOK, Refs, NEW t \in Turns, Fine(t), UNCHANGED << queue, consumer >>,
         lost \subseteq lost', turn'[t].send = turn[t].send, Unfinished(t)' => Unfinished(t),
         t \notin lost' /\ Unfinished(t) =>
           /\ tracked.turn = t => UNCHANGED tracked
           /\ \A b \in Turns : Made(b)' = Made(b)
           /\ \A b \in Turns : Dead(b) => Dead(b)'
           /\ \A b \in Turns : Running(b) /\ Awaited(t, b) => Running(b)' \/ Dead(b)'
           /\ \A r \in DOMAIN run : Active(r) /\ run[r].turn = t
                => RunsOn(t)' \/ box'[run[r].box].state \in {"crashed", "gone"}
           /\ Condemned(t) => Condemned(t)'
           /\ Abandoned(t)' => Abandoned(t)
  PROVE  Fine(t)'
<1> SUFFICES ASSUME Unfinished(t)', t \notin lost' PROVE Secured(t)' /\ ~Abandoned(t)'
  BY DEF Fine
<1>1. Unfinished(t) /\ t \notin lost
  OBVIOUS
<1>2. Secured(t) /\ ~Abandoned(t)
  BY <1>1 DEF Fine
<1>3. /\ Noticed(t) => Noticed(t)'
      /\ Followed(t) => Followed(t)' \/ Noticed(t)'
      /\ \A c \in Consumers : UNCHANGED consumer[c] /\ Holds(c, t) => Holds(c, t)'
      /\ Queued(t) => Queued(t)'
  BY <1>1, SecuredFrame
<1>4. InHands(t) => InHands(t)'
  BY <1>3 DEF InHands
<1>5. Sending(t) => Sending(t)'
  BY DEF Sending
<1> QED BY <1>1, <1>2, <1>3, <1>4, <1>5 DEF Secured

LEMMA FineExecutor ==
  ASSUME TypeOK, Refs, NEW r \in DOMAIN run,
         EndRun(r) \/ CallbackNext(r) \/ AgentFails(r) \/ ForwardFails(r)
  PROVE  Balanced
<1> PICK x : x = run[r].turn
  OBVIOUS
<1>1. /\ UNCHANGED << queue, consumer, checker >> /\ lost \subseteq lost' /\ run[r].pc # "free"
      /\ UNCHANGED tracked \/ lost' = lost \cup Losing(x)
  BY DEF EndRun, CallbackNext, Forward, Cleanup, AgentFails, ForwardFails, RemoveEntry, manager
<1>2. x \in Turns
  BY <1>1, TypeParts DEF RunsOK
<1>3. \A u \in Turns : Made(u)' = Made(u) /\ Dead(u)' = Dead(u) /\ Running(u)' = Running(u)
  <2>1. \A u \in Turns : box'[u].state = box[u].state
    BY MayExitBoxes DEF EndRun, CallbackNext, Forward, Cleanup, AgentFails, ForwardFails
  <2> QED BY <2>1 DEF Made, Dead, Running
<1>4. /\ DOMAIN run' = DOMAIN run /\ \A q \in DOMAIN run : q # r => run'[q] = run[q]
      /\ run'[r].turn = x
  BY OverIsSent, TypeParts DEF EndRun, CallbackNext, Forward, Cleanup, AgentFails, ForwardFails,
     RunsOK
<1>5. ASSUME NEW t \in Turns, t # x, Fine(t) PROVE Fine(t)'
  <2>1. turn'[t] = turn[t]
    BY <1>5, TypeParts DEF EndRun, CallbackNext, Forward, Cleanup, AgentFails, ForwardFails,
       backend, Applied, TurnsOK
  <2>2. t \notin lost' /\ Unfinished(t) => (tracked.turn = t => UNCHANGED tracked)
    BY <1>1, <1>5 DEF Losing
  <2>3. \A q \in DOMAIN run : Active(q) /\ run[q].turn = t => RunsOn(t)'
    BY <1>4, <1>5 DEF RunsOn, Active
  <2>4. (Condemned(t) => Condemned(t)') /\ (Abandoned(t)' => Abandoned(t))
    BY <1>1, <1>4, <1>5 DEF Condemned, Abandoned
  <2> QED BY <1>1, <1>3, <1>5, <2>1, <2>2, <2>3, <2>4, RestFine DEF Unfinished
<1>6. CASE AgentFails(r) \/ ForwardFails(r)
  BY <1>2, <1>5, <1>6 DEF Balanced, AgentFails, ForwardFails, Fault
<1>7. CASE EndRun(r)
  <2>1. Fine(x) => Fine(x)'
    <3>1. run'[r].pc = "event" /\ RunsOn(x)'
      BY <1>4, <1>7, TypeParts DEF EndRun, RunsOn, Active, RunsOK
    <3>2. UNCHANGED << turn, tracked >>
      BY <1>7 DEF EndRun, backend, manager
    <3>3. (Condemned(x) => Condemned(x)') /\ (Abandoned(x)' => Abandoned(x))
      BY <1>1, <1>4, <3>1 DEF Condemned, Abandoned
    <3> QED BY <1>1, <1>2, <1>3, <3>1, <3>2, <3>3, RestFine DEF Unfinished
  <2> QED BY <1>5, <1>7, <2>1 DEF Balanced, EndRun, ends
<1>8. CASE Forward(r)
  <2>1. CASE Fault("backend")
    BY <1>2, <1>5, <2>1 DEF Balanced, Fault
  <2>2. CASE turn' = Applied(run[r].turn, run[r].outcome, run[r].box) /\ UNCHANGED ends
    <3>1. run[r].outcome \in Terminal
      BY <1>8, TypeParts DEF Forward, RunsOK
    <3>2. turn'[x].status = run[r].outcome
      BY <1>2, <2>2, TypeParts DEF Applied, TurnsOK
    <3>3. Fine(x)'
      BY <3>1, <3>2 DEF Fine, Unfinished, Terminal
    <3> QED BY <1>5, <2>2, <3>3 DEF Balanced, ends
  <2> QED BY <1>8, <2>1, <2>2 DEF Forward
<1>9. CASE Cleanup(r)
  <2>1. Abandoned(x) /\ UNCHANGED turn
    BY <1>9 DEF Cleanup, Abandoned, backend
  <2>2. Fine(x) => Fine(x)'
    BY <1>1, <2>1 DEF Fine, Unfinished
  <2> QED BY <1>5, <1>9, <2>2 DEF Balanced, Cleanup, ends
<1> QED BY <1>6, <1>7, <1>8, <1>9 DEF CallbackNext

LEMMA FineUser ==
  ASSUME TypeOK, Refs,
         \/ \E b \in Turns : \/ RequestCancel(b) \/ CancelInBox(b) \/ ChooseBox(b) \/ ExitBox(b)
                            \/ BoxCrash(b)
         \/ CancelFails \/ CancelCleanup \/ DeleteBox
         \/ UNCHANGED vars
  PROVE  Balanced
<1>1. UNCHANGED << turn, queue, consumer, checker, faults >> /\ lost \subseteq lost'
  BY DEF RequestCancel, CancelInBox, ChooseBox, ExitBox, BoxCrash, CancelFails, CancelCleanup,
         DeleteBox, vars, backend, manager, ends, Incident, RemoveEntry
<1> SUFFICES ASSUME NEW t \in Turns, Fine(t) PROVE Fine(t)'
  BY <1>1 DEF Balanced
<1>2. Condemned(t)' = Condemned(t) /\ Unfinished(t)' = Unfinished(t)
  BY <1>1 DEF Condemned, Unfinished
<1>3. ASSUME UNCHANGED boxes,
             t \notin lost' /\ Unfinished(t) => (tracked.turn = t => UNCHANGED tracked)
      PROVE  Fine(t)'
  <2>1. \A b \in Turns : Made(b)' = Made(b) /\ Dead(b)' = Dead(b) /\ Running(b)' = Running(b)
    BY <1>3 DEF Made, Dead, Running, boxes
  <2>2. \A r \in DOMAIN run : Active(r) /\ run[r].turn = t => RunsOn(t)'
    BY <1>3 DEF RunsOn, Active, boxes
  <2>3. Abandoned(t)' = Abandoned(t)
    BY <1>1, <1>3 DEF Abandoned, boxes
  <2> QED BY <1>1, <1>2, <1>3, <2>1, <2>2, <2>3, RestFine
<1>4. CASE (\E b \in Turns : RequestCancel(b) \/ ChooseBox(b)) \/ CancelFails \/ UNCHANGED vars
  BY <1>3, <1>4 DEF RequestCancel, ChooseBox, CancelFails, vars, manager, boxes
<1>5. CASE CancelCleanup
  BY <1>3, <1>5, DispatchBoundsAssumption DEF CancelCleanup, RemoveEntry, Losing, NoTurn, Turns
<1>6. ASSUME NEW b \in Turns, CancelInBox(b) PROVE Fine(t)'
  <2>1. \A u \in Turns : box'[u].state = box[u].state
    BY <1>6, TypeParts DEF CancelInBox, BoxesOK
  <2>2. \A u \in Turns : Made(u)' = Made(u) /\ Dead(u)' = Dead(u) /\ Running(u)' = Running(u)
    BY <2>1 DEF Made, Dead, Running
  <2> DEFINE hit == {r \in Runs : run[r].box = b /\ run[r].pc = "running"}
  <2>3. /\ DOMAIN run' = DOMAIN run /\ Cancellation \in DOMAIN run
        /\ run'[Cancellation].pc = "event" /\ run'[Cancellation].turn = box[b].turn
        /\ run[Cancellation].pc \in {"free", "over"}
        /\ \A r \in DOMAIN run \ {Cancellation} : run'[r] = IF r \in hit THEN Over(r) ELSE run[r]
        /\ lost' = lost \cup ({run[r].turn : r \in hit} \ {box[b].turn})
    BY <1>6, TypeParts DEF CancelInBox, RunsOK
  <2>4. ASSUME NEW r \in DOMAIN run, Active(r), run[r].turn = t, t \notin lost'
        PROVE  RunsOn(t)'
    <3>1. r # Cancellation
      BY <2>3, <2>4 DEF Active
    <3>2. CASE r \in hit
      <4>1. t = box[b].turn
        BY <2>3, <2>4, <3>2
      <4> QED BY <2>3, <4>1 DEF RunsOn, Active
    <3>3. CASE r \notin hit
      <4>1. run'[r] = run[r]
        BY <2>3, <3>1, <3>3
      <4> QED BY <2>3, <2>4, <4>1 DEF RunsOn, Active
    <3> QED BY <3>2, <3>3
  <2>5. Abandoned(t)' => Abandoned(t)
    BY <1>1, <2>3, OverIsSent DEF Abandoned
  <2>6. UNCHANGED tracked
    BY <1>6 DEF CancelInBox, manager
  <2> QED BY <1>1, <1>2, <2>2, <2>4, <2>5, <2>6, RestFine
<1>7. ASSUME NEW b \in Turns, NEW state, Stopped(b, state), Made(b),
             state \in {"crashed", "gone"} \/ (state = "exited" /\ Running(b)),
             t \notin lost' /\ Unfinished(t) =>
               /\ tracked.turn = t => UNCHANGED tracked
               /\ state \in {"crashed", "gone"} \/ ~(InBox(t, b) \/ Awaited(t, b))
      PROVE  Fine(t)'
  <2>1. /\ DOMAIN run' = DOMAIN run
        /\ \A r \in DOMAIN run : IF run[r].box = b /\ Active(r) THEN run'[r] = Over(r)
                                 ELSE run'[r] = run[r]
        /\ \A u \in Turns : box'[u].state = IF u = b THEN state ELSE box[u].state
    BY <1>7, StoppedRuns
  <2>2. /\ \A u \in Turns : Made(u)' = Made(u)
        /\ \A u \in Turns : Dead(u) => Dead(u)'
        /\ \A u \in Turns : Running(u) => Running(u)' \/ u = b
        /\ state \in {"crashed", "gone"} => Dead(b)'
    BY <1>7, <2>1 DEF Made, Dead, Running
  <2>3. ASSUME NEW r \in DOMAIN run, Active(r), run[r].turn = t, t \notin lost', Unfinished(t)
        PROVE  RunsOn(t)' \/ box'[run[r].box].state \in {"crashed", "gone"}
    <3>1. CASE run[r].box = b
      BY <1>7, <2>1, <2>3, <3>1 DEF InBox, Active
    <3>2. CASE run[r].box # b
      BY <2>1, <2>3, <3>2 DEF RunsOn, Active
    <3> QED BY <3>1, <3>2
  <2>4. Abandoned(t)' => Abandoned(t)
    BY <1>1, <2>1, OverIsSent DEF Abandoned
  <2> QED BY <1>1, <1>2, <1>7, <2>2, <2>3, <2>4, RestFine
<1>8. ASSUME NEW b \in Turns, ExitBox(b) PROVE Fine(t)'
  <2>1. /\ Stopped(b, box[b].exit) /\ Running(b) /\ Made(b) /\ UNCHANGED tracked
        /\ box[b].exit \in {"exited", "crashed"}
        /\ t \notin lost' /\ Unfinished(t) => ~(InBox(t, b) \/ Awaited(t, b))
    BY <1>8, TypeParts DEF ExitBox, BoxesOK, Running, Made, manager
  <2> QED BY <1>7, <2>1
<1>9. ASSUME NEW b \in Turns, BoxCrash(b) PROVE Fine(t)'
  <2>1. Stopped(b, "crashed") /\ Made(b) /\ UNCHANGED tracked
    BY <1>9 DEF BoxCrash, Running, Made, manager
  <2> QED BY <1>7, <2>1
<1>10. CASE DeleteBox
  <2>1. CASE Exists(swept)
    <3>1. swept \in Turns /\ Made(swept) /\ Stopped(swept, "gone")
      BY <1>10, <2>1, TypeParts DEF DeleteBox, UserOK, Exists, Made
    <3>2. t \notin lost' /\ Unfinished(t) => tracked.turn # t
      BY <1>10, <2>1, DispatchBoundsAssumption DEF DeleteBox, RemoveEntry, Losing, NoTurn, Turns
    <3> QED BY <1>7, <3>1, <3>2
  <2>2. CASE ~Exists(swept)
    BY <1>3, <1>10, <2>2 DEF DeleteBox
  <2> QED BY <2>1, <2>2
<1> QED BY <1>4, <1>5, <1>6, <1>8, <1>9, <1>10

\* The steps of a check: its own turn is condemned, and then settled.
LEMMA FineChecker ==
  ASSUME TypeOK, Refs, NEW k \in Checkers, CheckerNext(k) \/ InspectFails(k)
  PROVE  Balanced
<1> PICK x, b : x = checker[k].turn /\ b = checker[k].box
  OBVIOUS
<1>1. /\ UNCHANGED << queue, consumer, box, run >> /\ lost \subseteq lost'
      /\ \A j \in Checkers \ {k} : checker'[j] = checker[j]
  BY TypeParts DEF CheckersOK, CheckerNext, CheckHeartbeats, Inspect, Report, CheckerCleanup,
     InspectFails, RemoveEntry, boxes
<1>2. /\ \A u \in Turns : Made(u)' = Made(u) /\ Dead(u)' = Dead(u) /\ Running(u)' = Running(u)
      /\ \A u \in Turns : RunsOn(u)' = RunsOn(u)
  BY <1>1 DEF Made, Dead, Running, RunsOn, Active
<1>3. ASSUME NEW t \in Turns, Fine(t), turn'[t] = turn[t],
             t \notin lost' /\ Unfinished(t) => (tracked.turn = t => UNCHANGED tracked),
             Condemned(t) => Condemned(t)', Abandoned(t)' => Abandoned(t)
      PROVE  Fine(t)'
  <2>1. \A r \in DOMAIN run : Active(r) /\ run[r].turn = t => RunsOn(t)'
    BY <1>2 DEF RunsOn
  <2>2. Unfinished(t)' = Unfinished(t)
    BY <1>3 DEF Unfinished
  <2> QED BY <1>1, <1>2, <1>3, <2>1, <2>2, RestFine
<1>4. CASE CheckHeartbeats(k)
  <2>1. checker[k].pc = "idle" /\ checker'[k].pc = "inspect" /\ UNCHANGED << turn, tracked, faults >>
    BY <1>4, TypeParts DEF CheckersOK, CheckHeartbeats, Incident, ends, backend
  <2>2. \A t \in Turns : Condemned(t)' = Condemned(t) /\ Abandoned(t)' = Abandoned(t)
    BY <1>1, <2>1 DEF Condemned, Abandoned
  <2> QED BY <1>3, <2>1, <2>2 DEF Balanced
<1>5. checker[k].pc # "idle" => x \in Turns /\ b \in Turns /\ Ref(x, b)
  BY TypeParts DEF CheckersOK, Refs, CheckerRefs
<1>6. ASSUME NEW t \in Turns, t # x, Fine(t), checker[k].pc # "idle", turn'[t] = turn[t],
             UNCHANGED tracked \/ RemoveEntry(x),
             checker'[k].turn = x \/ checker'[k].pc = "idle"
      PROVE  Fine(t)'
  <2>1. t \notin lost' /\ Unfinished(t) => (tracked.turn = t => UNCHANGED tracked)
    BY <1>6 DEF RemoveEntry, Losing
  <2>2. Condemned(t) => Condemned(t)'
    BY <1>1, <1>6 DEF Condemned
  <2>3. Abandoned(t)' => Abandoned(t)
    BY <1>1, <1>6 DEF Abandoned
  <2> QED BY <1>3, <1>6, <2>1, <2>2, <2>3
<1>7. ASSUME checker[k].pc = "inspect", UNCHANGED << turn, tracked >>,
             checker'[k].pc = "idle" \/ (checker'[k].pc = "report" /\ checker'[k].turn = x),
             NEW t \in Turns, Fine(t)
      PROVE  Fine(t)'
  <2>1. Condemned(t) => Condemned(t)'
    BY <1>1, <1>7 DEF Condemned
  <2>2. Abandoned(t)' => Abandoned(t)
    BY <1>1, <1>7 DEF Abandoned
  <2> QED BY <1>3, <1>7, <2>1, <2>2
<1>8. CASE Inspect(k)
  <2>1. checker[k].pc = "inspect" /\ UNCHANGED << turn, faults >>
          /\ (checker'[k].pc = "idle" \/ (checker'[k].pc = "report" /\ checker'[k].turn = x))
    BY <1>8, TypeParts DEF Inspect, CheckersOK, IdleCheck, backend, ends
  <2>2. CASE UNCHANGED tracked
    BY <1>7, <2>1, <2>2 DEF Balanced
  <2>3. CASE box[b].state = "exited" /\ RemoveEntry(x) /\ checker'[k] = IdleCheck
    <3>1. checker'[k].pc = "idle"
      BY <2>3 DEF IdleCheck
    <3> SUFFICES ASSUME NEW t \in Turns, Fine(t) PROVE Fine(t)'
      BY <2>1 DEF Balanced
    <3>2. CASE t # x
      BY <1>6, <2>1, <2>3, <3>1, <3>2
    <3>3. CASE t = x
      <4> SUFFICES ASSUME Unfinished(t)', t \notin lost' PROVE Secured(t)' /\ ~Abandoned(t)'
        BY DEF Fine
      <4>1. Secured(t) /\ ~Abandoned(t)
        BY <1>1, <2>1 DEF Fine, Unfinished
      <4>2. b = Home(t) /\ b \in Turns /\ ~Running(b) /\ ~Dead(b)
        BY <1>5, <2>1, <2>3, <3>3 DEF Ref, Running, Dead
      <4>3. tracked.turn = t => tracked.box = b
        <5>1. t # NoTurn
          BY DispatchBoundsAssumption DEF Turns, NoTurn
        <5> QED BY <4>2, <5>1 DEF NotTracked, Refs, EntryRef, Ref
      <4>4. ~RunsOn(t)
        BY <2>3, <4>2 DEF RunsOn, Active, Refs, RunRefs, Ref
      <4>5. ~Noticed(t) /\ ~Followed(t)
        BY <4>2, <4>3, <4>4 DEF Noticed, Followed
      <4>6. Sending(t) => Sending(t)'
        BY <2>1 DEF Sending
      <4>7. Queued(t) => Queued(t)'
        BY <1>1 DEF Queued, NameIsFree, Made
      <4>8. InHands(t) => InHands(t)'
        <5> SUFFICES ASSUME NEW c \in Consumers, Holds(c, t) PROVE Holds(c, t)'
          BY <1>1 DEF InHands
        <5>1. consumer[c].pc = "dispatch" => consumer[c].box = b
          BY <4>2 DEF Holds, Refs, ConsumerRefs, Ref
        <5>2. ~(consumer[c].pc = "dispatch" /\ consumer[c].fresh)
          BY <4>2, <5>1 DEF Holds
        <5>3. consumer[c].pc = "submit" => NameIsFree(consumer[c].msg)'
          BY <1>1 DEF Holds, NameIsFree, Made
        <5>4. consumer[c].pc = "register" => Dead(consumer[c].box)'
          BY <1>1, <4>4 DEF Holds, Dead
        <5> QED BY <1>1, <5>2, <5>3, <5>4 DEF Holds
      <4>9. Condemned(t) => Condemned(t)'
        BY <1>1, <2>1 DEF Condemned
      <4>10. ~Abandoned(t)'
        BY <1>1, <3>1, <4>1 DEF Abandoned
      <4> QED BY <4>1, <4>5, <4>6, <4>7, <4>8, <4>9, <4>10 DEF Secured
    <3> QED BY <3>2, <3>3
  <2>4. UNCHANGED tracked
          \/ (box[b].state = "exited" /\ RemoveEntry(x) /\ checker'[k] = IdleCheck)
    BY <1>8, TypeParts DEF Inspect, CheckersOK
  <2> QED BY <2>2, <2>3, <2>4
<1>9. CASE InspectFails(k)
  <2>1. checker[k].pc = "inspect" /\ UNCHANGED << turn, tracked >> /\ faults' = faults + 1
          /\ checker'[k].pc = "report" /\ checker'[k].turn = x
    BY <1>9, TypeParts DEF InspectFails, CheckersOK, Fault, backend
  <2>2. x \in Turns
    BY <1>5, <2>1
  <2> QED BY <1>7, <2>1, <2>2 DEF Balanced
<1>10. CASE Report(k)
  <2>1. checker[k].pc = "report" /\ checker'[k].turn = x /\ UNCHANGED tracked
    BY <1>10, TypeParts DEF Report, CheckersOK
  <2>2. CASE turn' = Applied(x, "FAILED", b) /\ UNCHANGED ends
    <3>1. turn'[x].status = "FAILED" /\ \A t \in Turns \ {x} : turn'[t] = turn[t]
      BY <1>5, <2>1, <2>2, TypeParts DEF TurnsOK, Applied
    <3>2. Fine(x)'
      BY <3>1 DEF Fine, Unfinished
    <3> QED BY <1>6, <2>1, <2>2, <3>1, <3>2 DEF Balanced, ends
  <2>3. CASE Fault("report") /\ UNCHANGED turn
    <3>1. x \in Turns /\ faults' = faults + 1
      BY <1>5, <2>1, <2>3 DEF Fault
    <3> QED BY <1>6, <2>1, <2>3, <3>1 DEF Balanced
  <2> QED BY <1>10, <2>2, <2>3 DEF Report
<1>11. CASE CheckerCleanup(k)
  <2>1. checker[k].pc = "cleanup" /\ checker'[k].pc = "idle" /\ UNCHANGED << turn, faults >>
          /\ RemoveEntry(x)
    BY <1>11, TypeParts DEF CheckerCleanup, CheckersOK, IdleCheck, backend, ends
  <2>2. Abandoned(x)
    BY <2>1 DEF Abandoned
  <2>3. Fine(x) => Fine(x)'
    BY <1>1, <2>1, <2>2 DEF Fine, Unfinished
  <2> QED BY <1>6, <2>1, <2>3 DEF Balanced
<1> QED BY <1>4, <1>8, <1>9, <1>10, <1>11 DEF CheckerNext

LEMMA NotFreshStep ==
  ASSUME TypeOK, NotFreshYet, [Next]_vars
  PROVE  NotFreshYet'
<1>1. ASSUME NEW c \in Consumers,
             \A d \in Consumers \ {c} : consumer'[d] = consumer[d],
             consumer'[c].pc = "submit" => ~consumer'[c].fresh
      PROVE  NotFreshYet'
  BY <1>1 DEF NotFreshYet
<1>2. ASSUME NEW c \in Consumers,
             ConsumerNext(c) \/ ProcessFails(c) \/ StartFails(c) \/ ConsumerStops(c)
      PROVE  NotFreshYet'
  <2>1. CASE Dequeue(c) \/ SubmitToBox(c) \/ SubmitNew(c) \/ Done(c) \/ Goto(c, "register")
             \/ Goto(c, "report")
    BY <1>1, <2>1, TypeParts
    DEF ConsumersOK, Dequeue, SubmitToBox, SubmitNew, Done, Goto, IdleConsumer
  <2>2. CASE UNCHANGED consumer
    BY <2>2 DEF NotFreshYet
  <2> QED BY <1>2, <2>1, <2>2
      DEF ConsumerNext, ReportFailure, SubmitFails, Dispatch, DispatchFails, Register, ProcessFails,
          Requeue, StartFails, ConsumerStops, AfterDispatch
<1>3. CASE UNCHANGED consumer
  BY <1>3 DEF NotFreshYet
<1> QED BY <1>2, <1>3
    DEF Next, UserNext, FaultNext, SenderNext, CallbackNext, CheckerNext, CreateTurn, UpdateToRunning,
        PostResponses, PostRepeated, PostFails, Posted, SenderStops, EndRun, AgentFails, Forward,
        ForwardFails, Cleanup, ExitBox, BoxCrash, RequestCancel, CancelInBox, CancelFails,
        CancelCleanup, ChooseBox, DeleteBox, CheckHeartbeats, Inspect, InspectFails, Report,
        CheckerCleanup, vars, manager

LEMMA AccountsStep ==
  TypeOK /\ TypeOK' /\ OnceInv /\ Refs /\ NotFreshYet /\ Charged /\ [Next]_vars => Charged'
<1> SUFFICES ASSUME TypeOK, TypeOK', OnceInv, Refs, NotFreshYet, Charged, [Next]_vars
             PROVE  Balanced
  BY ChargedStep
<1> QED BY FineBackend, FineConsumer, FineExecutor, FineUser, FineChecker
        DEF Next, UserNext, FaultNext

LEMMA AccountsInit == Init => NotFreshYet /\ Charged
<1> SUFFICES ASSUME Init PROVE NotFreshYet /\ Charged
  OBVIOUS
<1>1. NotFreshYet
  BY DEF Init, NotFreshYet, IdleConsumer
<1>2. AtRisk = {} /\ faults = 0
  BY DEF Init, AtRisk, Fine, Unfinished
<1> QED BY <1>1, <1>2, FS_EmptySet DEF Charged

\* A turn that is secure is attended.
LEMMA SecuredIsAttended ==
  ASSUME TypeOK, NEW t \in Turns, Secured(t)
  PROVE  Attended(t)
<1>1. Queued(t) => InQueue(t)
  <2>1. DOMAIN queue = 1..Len(queue)
    BY TypeParts DEF QueueOK
  <2> QED BY <2>1 DEF Queued, InQueue
<1>2. InHands(t) => InHand(t)
  BY DEF InHands, Holds, InHand
<1>3. Followed(t) => InRun(t)
  BY DEF Followed, RunsOn, Active, InRun
<1>4. Condemned(t) => InCheck(t)
  BY DEF Condemned, InCheck
<1> QED BY <1>1, <1>2, <1>3, <1>4 DEF Secured, Attended, Sending, Noticed, Dead, WillBeReported

\* An unfinished turn that nobody holds any more, and whose entry and box no
\* other turn took, has cost a fault of its own: for any number of turns,
\* consumers, checks, cancels, sweeps and dying boxes, the dispatcher, the
\* consumers, the callbacks and the heartbeat checker lose no other.
THEOREM Accounted == Spec => []ForgottenBounded
<1>1. TypeOK /\ Charged => ForgottenBounded
  <2> SUFFICES ASSUME TypeOK, Charged PROVE ForgottenBounded
    OBVIOUS
  <2>1. Forgotten \ lost \subseteq AtRisk
    BY SecuredIsAttended DEF Forgotten, AtRisk, Fine
  <2>2. IsFiniteSet(Turns)
    <3>1. MaxTurns \in Nat
      BY DispatchBoundsAssumption
    <3> QED BY <3>1, FS_Interval DEF Turns
  <2>3. IsFiniteSet(AtRisk)
    BY <2>2, FS_Subset DEF AtRisk
  <2>4. /\ Cardinality(Forgotten \ lost) <= Cardinality(AtRisk)
        /\ Cardinality(Forgotten \ lost) \in Nat /\ Cardinality(AtRisk) \in Nat
    BY <2>1, <2>3, FS_Subset, FS_CardinalityType
  <2>5. faults \in Nat
    BY DispatchBoundsAssumption DEF TypeOK
  <2> QED BY <2>4, <2>5 DEF Charged, ForgottenBounded
<1> QED BY <1>1, TypeInit, TypeStep, OnceInit, OnceStep, RefsInit, RefsStep, AccountsInit,
           AccountsStep, NotFreshStep, PTL DEF Spec

(***************************************************************************)
(* Checks, as long as nothing has failed.                                  *)
(***************************************************************************)

\* The tracker or a check has turn t; t is still to be dispatched, or is in the
\* hands of a consumer that will dispatch it to a box in use.
Known(t) == tracked.turn = t \/ \E k \in Checkers : checker[k].pc # "idle" /\ checker[k].turn = t
Early(t) ==
  \/ \E i \in 1..Len(queue) : queue[i].turn = t
  \/ \E c \in Consumers : /\ consumer[c].msg.turn = t
                          /\ \/ consumer[c].pc = "submit"
                             \/ consumer[c].pc = "dispatch" /\ ~consumer[c].fresh
HasRun(t) == \E r \in Runs : run[r].turn = t

\* A turn that a consumer made a box for has the entry, and the box runs or died.
Entered(c) ==
  consumer[c].pc = "dispatch" /\ consumer[c].fresh
    /\ consumer[c].msg.turn \notin lost /\ Unfinished(consumer[c].msg.turn)
  => /\ tracked.turn = consumer[c].msg.turn
     /\ Running(consumer[c].box) \/ Dead(consumer[c].box)

\* Turn t does not run, and no consumer will make it run.
Stopping(t) ==
  /\ \A r \in Runs : run[r].turn = t => run[r].pc # "running"
  /\ \A c \in Consumers : consumer[c].pc = "dispatch" /\ consumer[c].msg.turn = t
                            => Dead(consumer[c].box)

KnownLate == \A t \in Turns : Known(t) => ~Early(t)
RegisteredRan == \A c \in Consumers : consumer[c].pc = "register" => HasRun(consumer[c].msg.turn)
FreshEntered == \A c \in Consumers : Entered(c)
CondemnedStop ==
  \A k \in Checkers :
    checker[k].pc = "report" /\ checker[k].turn \notin lost /\ Unfinished(checker[k].turn)
      => Stopping(checker[k].turn)

Checked == KnownLate /\ RegisteredRan /\ FreshEntered /\ CondemnedStop
CheckInv == faults = 0 => Checked

\* Without a fault a turn is in one place only.
LEMMA OnePlace ==
  ASSUME TypeOK, OnceInv, faults = 0, NEW t \in Turns
  PROVE  /\ HasRun(t) => Holders(t) = {} /\ \A i \in 1..Len(queue) : queue[i].turn # t
         /\ \A c \in Holders(t) : /\ Holders(t) = {c} /\ ~HasRun(t)
                                  /\ \A i \in 1..Len(queue) : queue[i].turn # t
<1> DEFINE P == Cardinality(Places(queue, t))
           H == Cardinality(Holders(t))
           E == Cardinality(Executions(t))
<1>1. P \in Nat /\ H \in Nat /\ E \in Nat /\ P + H + E <= 1
  <2>1. Tokens(t) <= 1 + faults
    BY DEF OnceInv, Once
  <2> QED BY <2>1, Counted DEF Tokens
<1>2. /\ IsFiniteSet(Places(queue, t)) /\ (P = 0 <=> Places(queue, t) = {})
      /\ IsFiniteSet(Holders(t)) /\ (H = 0 <=> Holders(t) = {})
      /\ IsFiniteSet(Executions(t)) /\ (E = 0 <=> Executions(t) = {})
  BY Counted, FS_EmptySet
<1>3. ASSUME NEW c \in Holders(t) PROVE H # 0 /\ (H = 1 => Holders(t) = {c})
  <2>1. IsFiniteSet(Holders(t) \ {c}) /\ Cardinality(Holders(t) \ {c}) = H - 1
    BY <1>2, <1>3, FS_RemoveElement
  <2>2. Cardinality(Holders(t) \ {c}) = 0 => Holders(t) \ {c} = {}
    BY <2>1, FS_EmptySet
  <2> QED BY <1>2, <1>3, <2>1, <2>2
<1> HIDE DEF P, H, E
<1>4. HasRun(t) <=> Executions(t) # {}
  BY DEF HasRun, Executions
<1>5. Places(queue, t) = {} => \A i \in 1..Len(queue) : queue[i].turn # t
  BY DEF Places
<1>6. HasRun(t) => H = 0 /\ P = 0
  BY <1>1, <1>2, <1>4
<1>7. ASSUME NEW c \in Holders(t) PROVE H = 1 /\ P = 0 /\ E = 0
  BY <1>1, <1>3, <1>7
<1> QED BY <1>2, <1>3, <1>4, <1>5, <1>6, <1>7

\* What a step does to boxes, consumers and checks when nothing fails.
Gentle ==
  /\ lost \subseteq lost'
  /\ \A t \in Turns : Sent(t) => (Unfinished(t)' => Unfinished(t)) /\ (Early(t)' => Early(t))
  /\ \A t \in Turns : HasRun(t) => HasRun(t)'
  /\ \A t \in Turns :
       Known(t)' => \/ Known(t) \/ (Sent(t) /\ ~Early(t)')
                    \/ \E c \in Consumers : consumer[c].msg.turn = t /\ consumer[c].pc = "register"
  /\ \A c \in Consumers :
       \/ consumer'[c] = consumer[c]
       \/ consumer'[c].pc \notin {"dispatch", "register"}
       \/ /\ consumer[c].pc = "submit" /\ consumer'[c].pc = "dispatch"
          /\ consumer'[c].msg = consumer[c].msg
          /\ consumer'[c].fresh => Entered(c)'
       \/ /\ consumer'[c].pc = "register" /\ consumer'[c].msg = consumer[c].msg
          /\ \E r \in Runs : run'[r].turn = consumer[c].msg.turn
  /\ \A c \in Consumers : consumer'[c] = consumer[c] /\ Entered(c) => Entered(c)'
  /\ \A r \in Runs : run'[r].pc = "running" =>
       \/ run[r].pc = "running" /\ run'[r].turn = run[r].turn
       \/ \E c \in Consumers : /\ consumer[c].pc = "dispatch" /\ Running(consumer[c].box)
                               /\ consumer[c].msg.turn = run'[r].turn
  /\ \A b \in Turns : Dead(b) => \/ Dead(b)'
                                 \/ \E c \in Consumers : /\ consumer[c].pc = "submit"
                                                         /\ Losing(consumer[c].msg.turn) \subseteq lost'
  /\ \A k \in Checkers : checker'[k].pc = "report" =>
       /\ checker'[k].turn = checker[k].turn
       /\ \/ checker[k].pc = "report"
          \/ /\ checker[k].pc = "inspect" /\ Dead(checker[k].box)
             /\ UNCHANGED << box, run, consumer >>

LEMMA KnownIsSent ==
  ASSUME TypeOK, Refs, NEW t \in Turns, Known(t)
  PROVE  Sent(t)
<1>1. t # NoTurn
  BY DispatchBoundsAssumption DEF Turns, NoTurn
<1> QED BY <1>1 DEF Known, NotTracked, Refs, EntryRef, CheckerRefs, Ref

LEMMA CheckedStep ==
  ASSUME TypeOK, OnceInv, Refs, Checked, faults = 0, Gentle, TypeOK'
  PROVE  Checked'
<1>1. \A c \in Consumers : consumer[c].pc # "idle" => /\ consumer[c].msg.turn \in Turns
                                                       /\ Sent(consumer[c].msg.turn)
  BY TypeParts DEF ConsumersOK, Refs, ConsumerRefs, GoodMessage
<1>2. KnownLate'
  <2> SUFFICES ASSUME NEW t \in Turns, Known(t)', Early(t)' PROVE FALSE
    BY DEF KnownLate
  <2>1. CASE Known(t)
    BY <2>1, KnownIsSent DEF Gentle, Checked, KnownLate
  <2>2. ASSUME NEW c \in Consumers, consumer[c].msg.turn = t, consumer[c].pc = "register"
        PROVE  FALSE
    <3>1. HasRun(t) /\ Sent(t)
      BY <1>1, <2>2 DEF Checked, RegisteredRan
    <3>2. Early(t)
      BY <3>1 DEF Gentle
    <3> QED BY <3>1, <3>2, OnePlace DEF Early, Holders
  <2> QED BY <2>1, <2>2 DEF Gentle
<1>3. RegisteredRan'
  <2> SUFFICES ASSUME NEW c \in Consumers, consumer'[c].pc = "register"
               PROVE  \E r \in Runs : run'[r].turn = consumer'[c].msg.turn
    BY DEF RegisteredRan, HasRun
  <2>1. CASE consumer'[c] = consumer[c]
    <3> PICK t \in Turns : t = consumer[c].msg.turn
      BY <1>1, <2>1
    <3>1. HasRun(t)'
      BY <2>1 DEF Checked, RegisteredRan, Gentle
    <3> QED BY <2>1, <3>1 DEF HasRun
  <2> QED BY <2>1 DEF Gentle
<1>4. FreshEntered'
  BY DEF FreshEntered, Gentle, Checked, Entered
<1>5. CondemnedStop'
  <2> SUFFICES ASSUME NEW k \in Checkers, checker'[k].pc = "report", checker'[k].turn \notin lost',
                      Unfinished(checker[k].turn)'
               PROVE  Stopping(checker[k].turn)'
    BY DEF CondemnedStop
  <2>1. checker'[k].turn = checker[k].turn /\ checker[k].pc # "idle"
    BY DEF Gentle
  <2> PICK t \in Turns, b \in Turns : t = checker[k].turn /\ b = checker[k].box
    BY <2>1, TypeParts DEF CheckersOK
  <2>2. Ref(t, b) /\ Known(t) /\ Sent(t)
    BY <2>1 DEF Refs, CheckerRefs, Known, Ref
  <2>3. t \notin lost /\ Unfinished(t) /\ t \notin lost'
    BY <2>1, <2>2 DEF Gentle, Unfinished
  <2>4. ~Early(t)
    BY <2>2 DEF Checked, KnownLate
  <2> SUFFICES Stopping(t)'
    BY <2>1 DEF Stopping
  <2>5. CASE checker[k].pc = "report"
    <3>1. Stopping(t)
      BY <2>3, <2>5 DEF Checked, CondemnedStop
    <3>2. \A r \in Runs : run'[r].turn = t => run'[r].pc # "running"
      <4> SUFFICES ASSUME NEW r \in Runs, run'[r].turn = t, run'[r].pc = "running" PROVE FALSE
        OBVIOUS
      <4>1. ~(run[r].pc = "running" /\ run'[r].turn = run[r].turn)
        BY <3>1 DEF Stopping
      <4>2. PICK c \in Consumers : /\ consumer[c].pc = "dispatch" /\ Running(consumer[c].box)
                                   /\ consumer[c].msg.turn = t
        BY <4>1 DEF Gentle
      <4> QED BY <3>1, <4>2 DEF Stopping, Running, Dead
    <3>3. ASSUME NEW c \in Consumers, consumer'[c].pc = "dispatch", consumer'[c].msg.turn = t
          PROVE  Dead(consumer[c].box)'
      <4>1. consumer'[c] = consumer[c]
        BY <2>4, <3>3 DEF Gentle, Early
      <4>2. Dead(consumer[c].box) /\ consumer[c].fresh
        BY <2>4, <3>1, <3>3, <4>1 DEF Stopping, Early
      <4>3. tracked.turn = t
        BY <2>3, <3>3, <4>1, <4>2 DEF Checked, FreshEntered, Entered
      <4> PICK a \in Turns : a = consumer[c].box
        BY <3>3, <4>1, TypeParts DEF ConsumersOK
      <4>4. ASSUME NEW d \in Consumers, consumer[d].pc = "submit",
                   Losing(consumer[d].msg.turn) \subseteq lost'
            PROVE  FALSE
        BY <2>3, <2>4, <4>3, <4>4 DEF Losing, Early
      <4>5. Dead(a)'
        BY <4>2, <4>4 DEF Gentle
      <4> QED BY <4>1, <4>5
    <3> QED BY <3>2, <3>3 DEF Stopping
  <2>6. CASE Dead(b) /\ UNCHANGED << box, run, consumer >>
    <3>1. \A r \in Runs : run[r].turn = t => run[r].pc # "running"
      BY <2>2, <2>6, TypeParts DEF RunsOK, Refs, RunRefs, Ref, Active, Dead
    <3>2. \A c \in Consumers : consumer[c].pc = "dispatch" /\ consumer[c].msg.turn = t
                                 => consumer[c].box = b
      BY <2>2 DEF Refs, ConsumerRefs, Ref
    <3> QED BY <2>6, <3>1, <3>2 DEF Stopping, Dead
  <2> QED BY <2>5, <2>6 DEF Gentle
<1> QED BY <1>2, <1>3, <1>4, <1>5 DEF Checked

LEMMA GentleBackend ==
  ASSUME TypeOK, OnceInv, Refs, NEW t \in Turns,
         CreateTurn(t) \/ SenderNext(t) \/ PostRepeated(t) \/ PostFails(t) \/ SenderStops(t)
  PROVE  Gentle
<1>1. UNCHANGED << box, run, tracked, checker, consumer, lost >> /\ ~Sent(t)
  BY DEF CreateTurn, SenderNext, UpdateToRunning, PostResponses, PostRepeated, PostFails,
         SenderStops, Posted, boxes, manager, Sent, OnceInv, Unsent
<1>2. ASSUME NEW u \in Turns, Sent(u)
      PROVE  (Unfinished(u)' => Unfinished(u)) /\ (Early(u)' => Early(u))
  <2>1. u # t
    BY <1>1, <1>2
  <2>2. turn'[u] = turn[u]
    <3>1. CASE CreateTurn(t) \/ SenderStops(t)
      BY <2>1, <3>1, TypeParts DEF CreateTurn, SenderStops, TurnsOK
    <3>2. ASSUME NEW status, NEW new, turn' = [Applied(t, status, NoBox) EXCEPT ![t].send = new]
          PROVE  turn'[u] = turn[u]
      BY <2>1, <3>2, TypeParts DEF Applied, TurnsOK
    <3>3. CASE UpdateToRunning(t)
      BY <3>2, <3>3 DEF UpdateToRunning
    <3>4. CASE PostResponses(t) \/ PostRepeated(t) \/ PostFails(t)
      BY <3>2, <3>4 DEF PostResponses, PostRepeated, PostFails, Posted
    <3> QED BY <3>1, <3>3, <3>4 DEF SenderNext
  <2>3. ASSUME NEW i \in 1..Len(queue'), queue'[i].turn = u
        PROVE  \E j \in 1..Len(queue) : queue[j].turn = u
    <3>1. CASE UNCHANGED queue
      BY <2>3, <3>1
    <3>2. ASSUME NEW copies \in 0..2, NEW status, Posted(t, copies, status)
          PROVE  \E j \in 1..Len(queue) : queue[j].turn = u
      <4>1. (i \in 1..Len(queue) /\ queue'[i] = queue[i]) \/ queue'[i] = Message(t)
        BY <3>2, PostedPlaces DEF Posted
      <4> QED BY <2>1, <2>3, <4>1 DEF Message
    <3> QED BY <3>1, <3>2 DEF CreateTurn, SenderNext, UpdateToRunning, PostResponses, PostRepeated,
               PostFails, SenderStops, manager
  <2> QED BY <1>1, <2>2, <2>3 DEF Unfinished, Early
<1>3. ASSUME NEW c \in Consumers, Entered(c), consumer[c].pc = "dispatch"
      PROVE  Entered(c)'
  <2> PICK u \in Turns : u = consumer[c].msg.turn
    BY <1>3, TypeParts DEF ConsumersOK
  <2>1. Unfinished(u)' => Unfinished(u)
    BY <1>2, <1>3 DEF Refs, ConsumerRefs, Ref
  <2> QED BY <1>1, <1>3, <2>1 DEF Entered, Running, Dead, Unfinished
<1>4. \A c \in Consumers : Entered(c) => Entered(c)'
  BY <1>1, <1>3 DEF Entered
<1>5. /\ \A u \in Turns : Known(u)' = Known(u) /\ HasRun(u)' = HasRun(u)
      /\ \A b \in Turns : Dead(b)' = Dead(b)
  BY <1>1 DEF Known, HasRun, Dead
<1> QED BY <1>1, <1>2, <1>4, <1>5 DEF Gentle

\* A step that leaves the queue and the consumers alone.
LEMMA GentleRest ==
  ASSUME TypeOK, Refs, UNCHANGED << queue, consumer >>, lost \subseteq lost',
         \A t \in Turns : Sent(t) => (Unfinished(t)' => Unfinished(t)),
         \A t \in Turns : HasRun(t) => HasRun(t)',
         \A t \in Turns : Known(t)' => Known(t),
         \A r \in Runs : run'[r].pc = "running"
                           => run[r].pc = "running" /\ run'[r].turn = run[r].turn,
         \A b \in Turns : Dead(b) => Dead(b)',
         \A c \in Consumers, t \in Turns :
           /\ consumer[c].pc = "dispatch" /\ consumer[c].fresh /\ consumer[c].msg.turn = t
           /\ t \notin lost' /\ Unfinished(t)' /\ Unfinished(t) /\ tracked.turn = t
           /\ Running(consumer[c].box) \/ Dead(consumer[c].box)
           => tracked'.turn = t /\ (Running(consumer[c].box)' \/ Dead(consumer[c].box)'),
         \A k \in Checkers : checker'[k].pc = "report" =>
           /\ checker'[k].turn = checker[k].turn
           /\ \/ checker[k].pc = "report"
              \/ /\ checker[k].pc = "inspect" /\ Dead(checker[k].box)
                 /\ UNCHANGED << box, run, consumer >>
  PROVE  Gentle
<1>1. ASSUME NEW c \in Consumers, Entered(c), consumer[c].pc = "dispatch"
      PROVE  Entered(c)'
  <2> PICK t \in Turns : t = consumer[c].msg.turn
    BY <1>1, TypeParts DEF ConsumersOK
  <2>1. Unfinished(t)' => Unfinished(t)
    BY <1>1 DEF Refs, ConsumerRefs, Ref
  <2> SUFFICES ASSUME consumer[c].fresh, t \notin lost', Unfinished(t)'
               PROVE  tracked'.turn = t /\ (Running(consumer[c].box)' \/ Dead(consumer[c].box)')
    BY DEF Entered, Unfinished
  <2>2. tracked.turn = t /\ (Running(consumer[c].box) \/ Dead(consumer[c].box))
    BY <1>1, <2>1 DEF Entered
  <2> QED BY <1>1, <2>1, <2>2
<1>2. \A c \in Consumers : Entered(c) => Entered(c)'
  BY <1>1 DEF Entered
<1>3. \A t \in Turns : Early(t)' = Early(t)
  BY DEF Early
<1> QED BY <1>2, <1>3 DEF Gentle

\* Without faults no turn is at risk.
LEMMA NoneAtRisk ==
  ASSUME TypeOK, Charged, faults = 0
  PROVE  \A t \in Turns : Fine(t)
<1>1. IsFiniteSet(AtRisk)
  <2>1. MaxTurns \in Nat
    BY DispatchBoundsAssumption
  <2>2. IsFiniteSet(Turns)
    BY <2>1, FS_Interval DEF Turns
  <2> QED BY <2>2, FS_Subset DEF AtRisk
<1>2. AtRisk = {}
  BY <1>1, FS_CardinalityType, FS_EmptySet DEF Charged
<1> QED BY <1>2 DEF AtRisk

LEMMA GentleExecutor ==
  ASSUME TypeOK, OnceInv, Refs, Charged, faults = 0, faults' = 0, NEW r \in DOMAIN run,
         EndRun(r) \/ CallbackNext(r) \/ AgentFails(r) \/ ForwardFails(r)
  PROVE  Gentle
<1> PICK x : x = run[r].turn
  OBVIOUS
<1>0. EndRun(r) \/ CallbackNext(r)
  BY DEF AgentFails, ForwardFails, Fault
<1>1. /\ UNCHANGED << queue, consumer, checker >> /\ lost \subseteq lost' /\ run[r].pc # "free"
      /\ UNCHANGED tracked \/ (Cleanup(r) /\ tracked' = NotTracked /\ lost' = lost \cup Losing(x))
  BY <1>0 DEF EndRun, CallbackNext, Forward, Cleanup, RemoveEntry, manager
<1>2. x \in Turns
  BY <1>1, TypeParts DEF RunsOK
<1>3. \A u \in Turns : Dead(u)' = Dead(u) /\ Running(u)' = Running(u)
  <2>1. \A u \in Turns : box'[u].state = box[u].state
    BY <1>0, MayExitBoxes DEF EndRun, CallbackNext, Forward, Cleanup
  <2> QED BY <2>1 DEF Dead, Running
<1>4. /\ Runs \subseteq DOMAIN run /\ \A q \in DOMAIN run : q # r => run'[q] = run[q]
      /\ run'[r].turn = x /\ run'[r].pc # "running"
  BY <1>0, OverIsSent, TypeParts DEF EndRun, CallbackNext, Forward, Cleanup, RunsOK
<1>5. \A u \in Turns : Unfinished(u)' => Unfinished(u)
  <2>1. CASE Forward(r)
    <3>1. turn' = Applied(x, run[r].outcome, run[r].box) /\ run[r].outcome \in Terminal
      BY <2>1, TypeParts DEF Forward, RunsOK, Fault
    <3>2. \A u \in Turns : turn'[u].status = IF u = x THEN run[r].outcome ELSE turn[u].status
      BY <3>1, TypeParts DEF Applied, TurnsOK
    <3> QED BY <3>1, <3>2 DEF Unfinished, Terminal
  <2>2. CASE UNCHANGED turn
    BY <2>2 DEF Unfinished
  <2> QED BY <1>0, <2>1, <2>2 DEF EndRun, CallbackNext, Cleanup, backend
<1>6. \A u \in Turns : HasRun(u) => HasRun(u)'
  BY <1>4 DEF HasRun
<1>7. \A u \in Turns : Known(u)' => Known(u)
  BY <1>1, DispatchBoundsAssumption DEF Known, NotTracked, NoTurn, Turns
<1>8. ASSUME NEW t \in Turns, t \notin lost', Unfinished(t), tracked.turn = t
      PROVE  UNCHANGED tracked
  <2> SUFFICES ASSUME Cleanup(r), lost' = lost \cup Losing(x) PROVE FALSE
    BY <1>1
  <2>1. t = x
    BY <1>8 DEF Losing
  <2>2. Abandoned(t)
    BY <2>1 DEF Cleanup, Abandoned
  <2> QED BY <1>8, <2>2, NoneAtRisk DEF Fine
<1>9. \A c \in Consumers : consumer[c].pc = "dispatch" => consumer[c].box \in Turns
  BY TypeParts DEF ConsumersOK
<1> QED BY <1>1, <1>3, <1>4, <1>5, <1>6, <1>7, <1>8, <1>9, GentleRest

LEMMA GentleUser ==
  ASSUME TypeOK, OnceInv, Refs,
         \/ \E b \in Turns : \/ RequestCancel(b) \/ CancelInBox(b) \/ ChooseBox(b) \/ ExitBox(b)
                            \/ BoxCrash(b)
         \/ CancelFails \/ CancelCleanup \/ DeleteBox
         \/ UNCHANGED vars
  PROVE  Gentle
<1>1. UNCHANGED << turn, queue, consumer, checker >> /\ lost \subseteq lost'
  BY DEF RequestCancel, CancelInBox, ChooseBox, ExitBox, BoxCrash, CancelFails, CancelCleanup,
         DeleteBox, vars, backend, manager, RemoveEntry
<1>2. UNCHANGED tracked \/ (tracked' = NotTracked /\ Losing(NoTurn) \subseteq lost')
  BY DEF RequestCancel, CancelInBox, ChooseBox, ExitBox, BoxCrash, CancelFails, CancelCleanup,
         DeleteBox, vars, manager, RemoveEntry
<1>3. \A u \in Turns : Known(u)' => Known(u)
  BY <1>1, <1>2, DispatchBoundsAssumption DEF Known, NotTracked, NoTurn, Turns
<1>4. \A t \in Turns : t \notin lost' /\ Unfinished(t) /\ tracked.turn = t => UNCHANGED tracked
  BY <1>2, DispatchBoundsAssumption DEF Losing, NoTurn, Turns
<1>5. /\ Runs \subseteq DOMAIN run
      /\ \A c \in Consumers : consumer[c].pc = "dispatch"
                                => consumer[c].box \in Turns /\ Made(consumer[c].box)
  BY TypeParts DEF RunsOK, ConsumersOK, Refs, ConsumerRefs, Ref
<1>6. ASSUME \A q \in Runs : run'[q] = run[q] \/ run'[q] = Over(q),
             \A u \in Turns : Dead(u) => Dead(u)',
             \A c \in Consumers, t \in Turns :
               /\ consumer[c].pc = "dispatch" /\ consumer[c].msg.turn = t /\ Unfinished(t)
               /\ t \notin lost' /\ Running(consumer[c].box)
               => Running(consumer[c].box)' \/ Dead(consumer[c].box)'
      PROVE  Gentle
  <2>1. \A q \in Runs : run'[q].turn = run[q].turn
                          /\ (run'[q].pc = "running" => run[q].pc = "running")
    BY <1>5, <1>6, OverIsSent
  <2>2. \A u \in Turns : HasRun(u) => HasRun(u)'
    BY <2>1 DEF HasRun
  <2>3. \A u \in Turns : Unfinished(u)' = Unfinished(u)
    BY <1>1 DEF Unfinished
  <2> QED BY <1>1, <1>3, <1>4, <1>5, <1>6, <2>1, <2>2, <2>3, GentleRest
<1>7. CASE UNCHANGED boxes
  <2>1. \A u \in Turns : Dead(u) => Dead(u)'
    BY <1>7 DEF boxes, Dead
  <2>2. \A c \in Consumers : Running(consumer[c].box) => Running(consumer[c].box)'
    BY <1>1, <1>7 DEF boxes, Running
  <2> QED BY <1>6, <1>7, <2>1, <2>2 DEF boxes
<1>8. ASSUME NEW b \in Turns, CancelInBox(b) PROVE Gentle
  <2>1. \A u \in Turns : box'[u].state = box[u].state
    BY <1>8, TypeParts DEF CancelInBox, BoxesOK
  <2>2. \A u \in Turns : Dead(u)' = Dead(u) /\ Running(u)' = Running(u)
    BY <2>1 DEF Dead, Running
  <2>3. Cancellation \notin Runs
    BY DEF Cancellation, Runs
  <2>4. \A q \in Runs : run'[q] = run[q] \/ run'[q] = Over(q)
    BY <1>5, <1>8, <2>3 DEF CancelInBox
  <2>5. \A c \in Consumers : consumer[c].pc = "dispatch" /\ Running(consumer[c].box)
                               => Running(consumer[c].box)'
    BY <1>1, <1>5, <2>2 DEF Running
  <2> QED BY <1>6, <2>2, <2>4, <2>5
<1>9. ASSUME NEW b \in Turns, NEW state \in {"exited", "crashed", "gone"}, Stopped(b, state), Made(b),
             state = "exited" => Running(b),
             state = "exited" => {t \in Turns : Unfinished(t) /\ Awaited(t, b)} \subseteq lost'
      PROVE  Gentle
  <2>1. /\ DOMAIN run' = DOMAIN run
        /\ \A q \in DOMAIN run : run'[q] = run[q] \/ run'[q] = Over(q)
        /\ \A u \in Turns : box'[u].state = IF u = b THEN state ELSE box[u].state
    BY <1>9, StoppedRuns
  <2>2. \A u \in Turns : Dead(u) => Dead(u)'
    BY <1>9, <2>1 DEF Dead, Running
  <2>3. \A u \in Turns : Running(u) => Running(u)' \/ Dead(u)' \/ (u = b /\ state = "exited")
    BY <1>9, <2>1 DEF Dead, Running
  <2>4. ASSUME NEW c \in Consumers, NEW t \in Turns, consumer[c].pc = "dispatch",
               consumer[c].msg.turn = t, Unfinished(t), t \notin lost', Running(consumer[c].box)
        PROVE  Running(consumer[c].box)' \/ Dead(consumer[c].box)'
    <3> PICK a \in Turns : a = consumer[c].box
      BY <1>5, <2>4
    <3>1. Awaited(t, a)
      BY <2>4 DEF Awaited
    <3>2. ~(a = b /\ state = "exited")
      BY <1>9, <2>4, <3>1
    <3>3. Running(a)' \/ Dead(a)'
      BY <2>3, <2>4, <3>2
    <3> QED BY <1>1, <3>3 DEF Running, Dead
  <2> QED BY <1>5, <1>6, <2>1, <2>2, <2>4
<1>10. ASSUME NEW b \in Turns, ExitBox(b) PROVE Gentle
  <2>1. /\ Stopped(b, box[b].exit) /\ Running(b) /\ Made(b) /\ box[b].exit \in {"exited", "crashed"}
        /\ {t \in Turns : Unfinished(t) /\ Awaited(t, b)} \subseteq lost'
    BY <1>10, TypeParts DEF ExitBox, BoxesOK, Running, Made
  <2> QED BY <1>9, <2>1
<1>11. ASSUME NEW b \in Turns, BoxCrash(b) PROVE Gentle
  <2>1. Stopped(b, "crashed") /\ Made(b)
    BY <1>11 DEF BoxCrash, Running, Made
  <2> QED BY <1>9, <2>1
<1>12. CASE DeleteBox /\ Exists(swept)
  <2>1. swept \in Turns /\ Made(swept) /\ Stopped(swept, "gone")
    BY <1>12, TypeParts DEF DeleteBox, UserOK, Exists, Made
  <2> QED BY <1>9, <2>1
<1> QED BY <1>7, <1>8, <1>10, <1>11, <1>12
        DEF RequestCancel, ChooseBox, CancelFails, CancelCleanup, DeleteBox, vars, boxes

LEMMA GentleChecker ==
  ASSUME TypeOK, Refs, Charged, faults = 0, faults' = 0, NEW k \in Checkers,
         CheckerNext(k) \/ InspectFails(k)
  PROVE  Gentle
<1> PICK x, b : x = checker[k].turn /\ b = checker[k].box
  OBVIOUS
<1>0. CheckerNext(k)
  BY DEF InspectFails, Fault
<1>1. /\ UNCHANGED << queue, consumer, box, run >> /\ lost \subseteq lost'
      /\ \A j \in Checkers \ {k} : checker'[j] = checker[j]
  BY <1>0, TypeParts DEF CheckersOK, CheckerNext, CheckHeartbeats, Inspect, Report, CheckerCleanup,
     RemoveEntry, boxes
<1>2. checker[k].pc # "idle" => x \in Turns /\ b \in Turns /\ Ref(x, b)
  BY TypeParts DEF CheckersOK, Refs, CheckerRefs
<1>3. \A u \in Turns : Unfinished(u)' => Unfinished(u)
  <2>1. CASE Report(k)
    <3>1. turn' = Applied(x, "FAILED", b)
      BY <2>1 DEF Report, Fault
    <3>2. \A u \in Turns : turn'[u].status = IF u = x THEN "FAILED" ELSE turn[u].status
      BY <3>1, TypeParts DEF Applied, TurnsOK
    <3> QED BY <3>2 DEF Unfinished
  <2>2. CASE UNCHANGED turn
    BY <2>2 DEF Unfinished
  <2> QED BY <1>0, <2>1, <2>2 DEF CheckerNext, CheckHeartbeats, Inspect, CheckerCleanup, backend
<1>4. \/ checker'[k].pc = "idle"
      \/ checker[k].pc = "idle" /\ checker'[k].pc = "inspect" /\ checker'[k].turn = tracked.turn
      \/ checker[k].pc \in {"inspect", "report"} /\ checker'[k].turn = x
  BY <1>0, TypeParts DEF CheckersOK, CheckerNext, CheckHeartbeats, Inspect, Report, CheckerCleanup,
     IdleCheck
<1>5. UNCHANGED tracked \/ tracked' = NotTracked
  BY <1>0 DEF CheckerNext, CheckHeartbeats, Inspect, Report, CheckerCleanup, RemoveEntry
<1>6. ASSUME NEW t \in Turns, Known(t)' PROVE Known(t)
  <2>1. CASE tracked'.turn = t
    BY <1>5, <2>1, DispatchBoundsAssumption DEF Known, NotTracked, NoTurn, Turns
  <2>2. ASSUME NEW j \in Checkers, checker'[j].pc # "idle", checker'[j].turn = t PROVE Known(t)
    BY <1>1, <1>4, <2>2 DEF Known
  <2> QED BY <1>6, <2>1, <2>2 DEF Known
<1>7. ASSUME NEW c \in Consumers, NEW t \in Turns, consumer[c].pc = "dispatch",
             consumer[c].msg.turn = t, t \notin lost', Unfinished(t), tracked.turn = t,
             Running(consumer[c].box) \/ Dead(consumer[c].box)
      PROVE  tracked'.turn = t
  <2> SUFFICES ASSUME RemoveEntry(x), checker[k].pc # "idle" PROVE FALSE
    BY <1>0, <1>7 DEF CheckerNext, CheckHeartbeats, Inspect, Report, CheckerCleanup
  <2>1. t = x
    BY <1>7 DEF RemoveEntry, Losing
  <2>2. CASE CheckerCleanup(k)
    <3>1. Abandoned(t)
      BY <2>1, <2>2 DEF CheckerCleanup, Abandoned
    <3> QED BY <1>1, <1>7, <3>1, NoneAtRisk DEF Fine
  <2>3. CASE Inspect(k) /\ box[b].state = "exited"
    <3>1. consumer[c].box = b
      BY <1>2, <1>7, <2>1 DEF Refs, ConsumerRefs, Ref
    <3> QED BY <1>7, <2>3, <3>1 DEF Running, Dead
  <2>4. UNCHANGED tracked \/ CheckerCleanup(k) \/ (Inspect(k) /\ box[b].state = "exited")
    BY <1>0 DEF CheckerNext, CheckHeartbeats, Inspect, Report
  <2>5. tracked' = NotTracked /\ tracked.turn # NoTurn
    BY <1>7, DispatchBoundsAssumption DEF RemoveEntry, NoTurn, Turns
  <2> QED BY <2>2, <2>3, <2>4, <2>5 DEF NotTracked
<1>8. ASSUME checker'[k].pc = "report"
      PROVE  checker[k].pc = "inspect" /\ checker'[k].turn = x /\ Dead(b)
  <2>1. Inspect(k) /\ checker[k].pc = "inspect" /\ checker'[k].turn = x
          /\ (box[b].state = "crashed" \/ ~Exists(b))
    BY <1>0, <1>8, TypeParts DEF CheckersOK, CheckerNext, CheckHeartbeats, Inspect, Report,
       CheckerCleanup, IdleCheck
  <2> QED BY <1>2, <2>1 DEF Exists, Dead, Ref, Made
<1>9. /\ \A u \in Turns : HasRun(u) => HasRun(u)'
      /\ \A u \in Turns : Dead(u) => Dead(u)'
      /\ \A c \in Consumers : Running(consumer[c].box)' = Running(consumer[c].box)
      /\ \A c \in Consumers : Dead(consumer[c].box)' = Dead(consumer[c].box)
  BY <1>1 DEF HasRun, Dead, Running
<1>10. \A j \in Checkers : checker'[j].pc = "report" =>
         /\ checker'[j].turn = checker[j].turn
         /\ \/ checker[j].pc = "report"
            \/ /\ checker[j].pc = "inspect" /\ Dead(checker[j].box)
               /\ UNCHANGED << box, run, consumer >>
  BY <1>1, <1>8
<1> QED BY <1>1, <1>3, <1>6, <1>7, <1>9, <1>10, GentleRest

\* A step of one consumer.
LEMMA GentleMoves ==
  ASSUME TypeOK, Refs, NEW c \in Consumers, \A d \in Consumers \ {c} : consumer'[d] = consumer[d],
         UNCHANGED checker, lost \subseteq lost',
         \A t \in Turns : Unfinished(t)' => Unfinished(t),
         \A t \in Turns : HasRun(t) => HasRun(t)',
         \A i \in 1..Len(queue') :
           \/ \E j \in 1..Len(queue) : queue'[i].turn = queue[j].turn
           \/ consumer[c].pc = "submit" /\ queue'[i].turn = consumer[c].msg.turn,
         \/ consumer'[c].pc \in {"idle", "report"}
         \/ /\ consumer'[c].pc = "submit"
            /\ \E j \in 1..Len(queue) : consumer'[c].msg.turn = queue[j].turn
         \/ /\ consumer[c].pc = "submit" /\ consumer'[c].pc = "dispatch"
            /\ consumer'[c].msg = consumer[c].msg /\ (consumer'[c].fresh => Entered(c)')
         \/ /\ consumer'[c].pc = "register" /\ consumer'[c].msg = consumer[c].msg
            /\ \E r \in Runs : run'[r].turn = consumer[c].msg.turn,
         consumer'[c].pc # consumer[c].pc,
         \/ UNCHANGED tracked
         \/ /\ tracked'.turn = consumer[c].msg.turn /\ consumer[c].pc # "idle"
            /\ consumer[c].pc = "register" \/ \A t \in Turns : tracked'.turn = t => ~Early(t)',
         \A r \in Runs : run'[r].pc = "running" =>
           \/ run[r].pc = "running" /\ run'[r].turn = run[r].turn
           \/ /\ consumer[c].pc = "dispatch" /\ Running(consumer[c].box)
              /\ consumer[c].msg.turn = run'[r].turn,
         \A b \in Turns : Dead(b) => \/ Dead(b)'
                                     \/ /\ consumer[c].pc = "submit"
                                        /\ Losing(consumer[c].msg.turn) \subseteq lost',
         \A d \in Consumers \ {c}, t \in Turns, b \in Turns :
           /\ consumer[d].pc = "dispatch" /\ consumer[d].fresh
           /\ consumer[d].msg.turn = t /\ consumer[d].box = b
           /\ t \notin lost' /\ Unfinished(t) /\ tracked.turn = t /\ (Running(b) \/ Dead(b))
           => tracked'.turn = t /\ (Running(b)' \/ Dead(b)')
  PROVE  Gentle
<1>1. \A t \in Turns : Early(t)' => Early(t)
  BY DEF Early
<1>2. ASSUME NEW d \in Consumers, d # c, Entered(d), consumer[d].pc = "dispatch"
      PROVE  Entered(d)'
  <2> PICK t \in Turns, b \in Turns : t = consumer[d].msg.turn /\ b = consumer[d].box
    BY <1>2, TypeParts DEF ConsumersOK
  <2>1. consumer'[d] = consumer[d]
    BY <1>2
  <2> SUFFICES ASSUME consumer[d].fresh, t \notin lost', Unfinished(t)'
               PROVE  tracked'.turn = t /\ (Running(b)' \/ Dead(b)')
    BY <2>1 DEF Entered, Unfinished, Running, Dead
  <2>2. Unfinished(t) /\ tracked.turn = t /\ (Running(b) \/ Dead(b))
    BY <1>2 DEF Entered
  <2> QED BY <1>2, <2>2
<1>3. \A d \in Consumers : consumer'[d] = consumer[d] /\ Entered(d) => Entered(d)'
  BY <1>2 DEF Entered
<1>4. ASSUME NEW t \in Turns, Known(t)', ~Known(t)
      PROVE  (Sent(t) /\ ~Early(t)') \/ (consumer[c].msg.turn = t /\ consumer[c].pc = "register")
  <2>1. /\ tracked'.turn = t /\ t = consumer[c].msg.turn /\ consumer[c].pc # "idle"
        /\ consumer[c].pc = "register" \/ ~Early(t)'
    BY <1>4 DEF Known
  <2>2. Sent(t)
    BY <2>1 DEF Refs, ConsumerRefs, GoodMessage
  <2> QED BY <2>1, <2>2
<1> QED BY <1>1, <1>3, <1>4 DEF Gentle

LEMMA GentleConsumer ==
  ASSUME TypeOK, OnceInv, Refs, NotFreshYet, RegisteredRan, faults = 0, faults' = 0, NEW c \in Consumers,
         ConsumerNext(c) \/ ProcessFails(c) \/ StartFails(c) \/ ConsumerStops(c)
  PROVE  Gentle
<1> DEFINE m == consumer[c].msg
           b == consumer[c].box
<1>0. \A kind : ~Fault(kind)
  BY DEF Fault
<1>1. /\ consumer[c].pc # "idle" => m \in Posts
      /\ consumer[c].pc \in {"dispatch", "register"} => m.turn \in Turns /\ b \in Turns
  BY MessageOK, TypeParts DEF ConsumersOK
<1>2. /\ Done(c) => /\ consumer'[c].pc = "idle"
                    /\ \A d \in Consumers \ {c} : consumer'[d] = consumer[d]
      /\ \A pc : Goto(c, pc) => /\ consumer'[c].pc = pc /\ consumer'[c].msg = m
                                /\ \A d \in Consumers \ {c} : consumer'[d] = consumer[d]
  BY TypeParts DEF Done, Goto, ConsumersOK, IdleConsumer
\* A step that changes neither entry, boxes nor runs.
<1>3. ASSUME \A d \in Consumers \ {c} : consumer'[d] = consumer[d],
             UNCHANGED << box, run, tracked, checker, lost >>,
             \A t \in Turns : Unfinished(t)' => Unfinished(t),
             \A i \in 1..Len(queue') :
               \/ \E j \in 1..Len(queue) : queue'[i].turn = queue[j].turn
               \/ consumer[c].pc = "submit" /\ queue'[i].turn = m.turn,
             \/ consumer'[c].pc \in {"idle", "report"}
             \/ /\ consumer'[c].pc = "submit"
                /\ \E j \in 1..Len(queue) : consumer'[c].msg.turn = queue[j].turn
             \/ /\ consumer[c].pc = "submit" /\ consumer'[c].pc = "dispatch"
                /\ consumer'[c].msg = m /\ (consumer'[c].fresh => Entered(c)'),
             consumer'[c].pc # consumer[c].pc
      PROVE  Gentle
  <2>1. /\ \A t \in Turns : HasRun(t) => HasRun(t)'
        /\ \A a \in Turns : Dead(a)' = Dead(a) /\ Running(a)' = Running(a)
    BY <1>3 DEF HasRun, Dead, Running
  <2> QED BY <1>3, <2>1, GentleMoves
<1>4. CASE Dequeue(c)
  <2>1. /\ consumer'[c].pc = "submit" /\ consumer'[c].msg = Head(queue) /\ consumer[c].pc = "idle"
        /\ \A d \in Consumers \ {c} : consumer'[d] = consumer[d]
    BY <1>4, TypeParts DEF Dequeue, ConsumersOK
  <2>2. queue \in Seq(Posts) /\ queue # << >> /\ queue' = Tail(queue)
    BY <1>4, TypeParts DEF Dequeue, QueueOK
  <2>3. 1 \in 1..Len(queue) /\ Head(queue) = queue[1]
          /\ \A i \in 1..Len(queue') : i + 1 \in 1..Len(queue) /\ queue'[i] = queue[i + 1]
    BY <2>2
  <2>4. UNCHANGED << box, run, tracked, checker, turn, lost >>
    BY <1>4 DEF Dequeue, boxes, backend
  <2> QED BY <1>3, <2>1, <2>3, <2>4 DEF Unfinished
<1>5. CASE ReportFailure(c)
  <2>1. /\ UNCHANGED << box, run, tracked, checker, lost, queue >> /\ Done(c)
        /\ consumer[c].pc = "report" /\ turn' = Applied(m.turn, "FAILED", NoBox)
    BY <1>0, <1>5 DEF ReportFailure, boxes
  <2>2. \A u \in Turns : turn'[u].status = IF u = m.turn THEN "FAILED" ELSE turn[u].status
    BY <2>1, TypeParts DEF Applied, TurnsOK
  <2>3. \A u \in Turns : Unfinished(u)' => Unfinished(u)
    BY <2>2 DEF Unfinished
  <2> QED BY <1>2, <1>3, <2>1, <2>3
<1>6. CASE SubmitToBox(c)
  <2>1. /\ consumer[c].pc = "submit" /\ consumer'[c].pc = "dispatch" /\ consumer'[c].msg = m
        /\ consumer'[c].fresh = consumer[c].fresh
        /\ \A d \in Consumers \ {c} : consumer'[d] = consumer[d]
    BY <1>6, TypeParts DEF SubmitToBox, ConsumersOK
  <2>2. UNCHANGED << box, run, tracked, checker, turn, lost, queue >>
    BY <1>6 DEF SubmitToBox, boxes, backend
  <2>3. ~consumer[c].fresh
    BY <2>1 DEF NotFreshYet
  <2> QED BY <1>3, <2>1, <2>2, <2>3 DEF Unfinished
<1>7. CASE SubmitNew(c)
  <2> PICK u \in Turns, a \in Turns : u = m.turn /\ a = NameFor(m)
    BY <1>1, <1>7 DEF SubmitNew, NameFor, Posts
  <2>1. /\ UNCHANGED << turn, queue, checker, run >> /\ consumer[c].pc = "submit"
        /\ tracked'.turn = u /\ tracked' = [turn |-> u, box |-> a] /\ Losing(u) \subseteq lost'
        /\ lost \subseteq lost'
    BY <1>7 DEF SubmitNew, backend
  <2>2. /\ box'[a].state = "running"
        /\ \A v \in Turns : v # a => box'[v] = box[v]
    BY <1>7, TypeParts DEF SubmitNew, Created, BoxesOK
  <2>3. /\ consumer'[c].pc = "dispatch" /\ consumer'[c].msg = m /\ consumer'[c].box = a
        /\ consumer'[c].fresh
        /\ \A d \in Consumers \ {c} : consumer'[d] = consumer[d]
    BY <1>7, TypeParts DEF SubmitNew, ConsumersOK
  <2>4. c \in Holders(u)
    BY <2>1 DEF Holders
  <2>5. ~Early(u)'
    <3>1. \A i \in 1..Len(queue) : queue[i].turn # u
      BY <2>4, OnePlace
    <3>2. \A d \in Consumers : d # c /\ consumer[d].msg.turn = u
                                 => consumer[d].pc \notin {"submit", "dispatch"}
      BY <2>4, OnePlace DEF Holders
    <3> QED BY <2>1, <2>3, <3>1, <3>2 DEF Early
  <2>6. Entered(c)'
    BY <2>1, <2>2, <2>3, DispatchBoundsAssumption DEF Entered, Running, NoBox, Turns
  <2>7. /\ \A t \in Turns : HasRun(t) => HasRun(t)'
        /\ \A t \in Turns : Unfinished(t)' => Unfinished(t)
    BY <2>1 DEF HasRun, Unfinished
  <2>8. ASSUME NEW d \in Consumers \ {c}, NEW t \in Turns, consumer[d].pc = "dispatch",
               consumer[d].msg.turn = t, t \notin lost', Unfinished(t), tracked.turn = t
        PROVE  FALSE
    <3>1. t # u
      BY <2>4, <2>8, OnePlace DEF Holders
    <3> QED BY <2>1, <2>8, <3>1 DEF Losing
  <2> QED BY <2>1, <2>3, <2>5, <2>6, <2>7, <2>8, GentleMoves
<1>8. CASE SubmitFails(c)
  <2>1. /\ Done(c) /\ UNCHANGED << turn, queue, tracked, checker, run, lost, box >>
        /\ consumer[c].pc = "submit"
    BY <1>0, <1>8 DEF SubmitFails, backend
  <2> QED BY <1>2, <1>3, <2>1 DEF Unfinished
<1>9. CASE Dispatch(c)
  <2>1. /\ UNCHANGED << turn, queue, tracked, checker, lost >> /\ AfterDispatch(c)
        /\ consumer[c].pc = "dispatch" /\ Started(m.turn, b, 1) /\ Running(b)
    BY <1>0, <1>9 DEF Dispatch, backend
  <2>2. PICK rs \in SUBSET {r \in Runs : run[r].pc = "free"} :
          /\ Cardinality(rs) = 1
          /\ run' = [r \in DOMAIN run |-> IF r \in rs
                       THEN [pc |-> "running", turn |-> m.turn, box |-> b, outcome |-> "none"]
                       ELSE run[r]]
          /\ box' = [box EXCEPT ![b].turn = m.turn]
    BY <2>1 DEF Started
  <2>3. /\ rs # {}
        /\ Runs \subseteq DOMAIN run
    <3>1. rs # {}
      BY <2>2, FS_EmptySet
    <3>2. Runs \subseteq DOMAIN run
      BY TypeParts DEF RunsOK
    <3> QED BY <3>1, <3>2
  <2>4. \A r \in Runs : IF r \in rs THEN run'[r].turn = m.turn ELSE run'[r] = run[r]
    BY <2>2, <2>3
  <2>5. \E r \in Runs : run'[r].turn = m.turn
    BY <2>3, <2>4
  <2>6. \A t \in Turns : HasRun(t) => HasRun(t)'
    <3>1. \A r \in rs : run[r].turn = NoTurn
      BY DEF OnceInv, FreeRuns
    <3> QED BY <2>4, <3>1, DispatchBoundsAssumption DEF HasRun, NoTurn, Turns
  <2>7. \A v \in Turns : Dead(v)' = Dead(v) /\ Running(v)' = Running(v)
    <3>1. \A v \in Turns : box'[v].state = box[v].state
      BY <2>2, TypeParts DEF BoxesOK
    <3> QED BY <3>1 DEF Dead, Running
  <2>8. \A t \in Turns : Unfinished(t)' = Unfinished(t)
    BY <2>1 DEF Unfinished
  <2>9. /\ consumer'[c].pc = "idle" \/ (consumer'[c].pc = "register" /\ consumer'[c].msg = m)
        /\ \A d \in Consumers \ {c} : consumer'[d] = consumer[d]
    BY <1>2, <2>1 DEF AfterDispatch
  <2> QED BY <2>1, <2>4, <2>5, <2>6, <2>7, <2>8, <2>9, GentleMoves
<1>10. CASE DispatchFails(c)
  <2>1. /\ UNCHANGED << turn, queue, tracked, checker >> /\ consumer[c].pc = "dispatch" /\ Done(c)
        /\ Stopped(b, "gone") \/ UNCHANGED boxes
        /\ lost \subseteq lost'
    BY <1>10 DEF DispatchFails, backend
  <2>2. /\ \A r \in Runs : /\ run'[r].turn = run[r].turn
                           /\ run'[r].pc = "running" => run[r].pc = "running"
        /\ \A v \in Turns : /\ Dead(v) => Dead(v)'
                            /\ Running(v) => Running(v)' \/ Dead(v)'
    <3>1. CASE Stopped(b, "gone")
      <4>1. b \in Turns /\ Runs \subseteq DOMAIN run
        BY <1>1, <2>1, TypeParts DEF RunsOK
      <4>2. /\ \A r \in DOMAIN run : run'[r] = run[r] \/ run'[r] = Over(r)
            /\ \A v \in Turns : box'[v].state = IF v = b THEN "gone" ELSE box[v].state
        BY <3>1, <4>1, StoppedRuns
      <4> QED BY <4>1, <4>2, OverIsSent DEF Dead, Running
    <3>2. CASE UNCHANGED boxes
      BY <3>2 DEF boxes, Dead, Running
    <3> QED BY <2>1, <3>1, <3>2
  <2>3. /\ \A t \in Turns : HasRun(t) => HasRun(t)'
        /\ \A t \in Turns : Unfinished(t)' = Unfinished(t)
    BY <2>1, <2>2 DEF HasRun, Unfinished
  <2> QED BY <1>2, <2>1, <2>2, <2>3, GentleMoves
<1>11. CASE Register(c)
  <2> PICK u \in Turns : u = m.turn
    BY <1>1, <1>11 DEF Register
  <2>1. /\ UNCHANGED << turn, queue, checker, box, run >> /\ consumer[c].pc = "register" /\ Done(c)
        /\ tracked'.turn = u /\ lost' = lost \cup Losing(u)
    BY <1>11 DEF Register, AddEntry, backend, boxes
  <2>2. Holders(u) = {}
    <3>1. HasRun(u)
      BY <2>1 DEF RegisteredRan
    <3> QED BY <3>1, OnePlace
  <2>3. ASSUME NEW d \in Consumers \ {c}, NEW t \in Turns, consumer[d].pc = "dispatch",
               consumer[d].msg.turn = t, t \notin lost', Unfinished(t), tracked.turn = t
        PROVE  FALSE
    <3>1. t # u
      BY <2>2, <2>3 DEF Holders
    <3> QED BY <2>1, <2>3, <3>1 DEF Losing
  <2>4. /\ \A t \in Turns : HasRun(t) => HasRun(t)'
        /\ \A t \in Turns : Unfinished(t)' = Unfinished(t)
        /\ \A v \in Turns : Dead(v)' = Dead(v)
    BY <2>1 DEF HasRun, Unfinished, Dead
  <2> QED BY <1>2, <2>1, <2>3, <2>4, GentleMoves
<1>12. CASE ProcessFails(c)
  <2>1. UNCHANGED << box, run, tracked, checker, lost, turn >> /\ consumer[c].pc = "submit"
    BY <1>12 DEF ProcessFails, boxes, backend
  <2>2. CASE Goto(c, "report") /\ UNCHANGED queue
    BY <1>2, <1>3, <2>1, <2>2 DEF Unfinished
  <2>3. CASE queue' = Append(queue, [m EXCEPT !.retries = @ + 1]) /\ Done(c)
    <3> PICK n : n = [m EXCEPT !.retries = @ + 1]
      OBVIOUS
    <3>1. n.turn = m.turn
      BY <1>1, <2>1 DEF Posts
    <3>2. \A i \in 1..Len(queue') : queue'[i] = n \/ (i \in 1..Len(queue) /\ queue'[i] = queue[i])
      BY <2>3, TypeParts DEF QueueOK
    <3> QED BY <1>2, <1>3, <2>1, <2>3, <3>1, <3>2 DEF Unfinished
  <2> QED BY <1>12, <2>2, <2>3 DEF ProcessFails, Requeue
<1> QED BY <1>0, <1>4, <1>5, <1>6, <1>7, <1>8, <1>9, <1>10, <1>11, <1>12
        DEF ConsumerNext, StartFails, ConsumerStops

LEMMA CheckInvStep ==
  /\ TypeOK /\ TypeOK' /\ OnceInv /\ Refs /\ NotFreshYet /\ Charged /\ CheckInv
  /\ [Next]_vars
  => CheckInv'
<1> SUFFICES ASSUME TypeOK, TypeOK', OnceInv, Refs, NotFreshYet, Charged, CheckInv, [Next]_vars,
                    faults' = 0
             PROVE  Checked'
  BY DEF CheckInv
<1>1. faults = 0
  <2>1. faults \in Nat
    BY DispatchBoundsAssumption DEF TypeOK
  <2>2. faults' = faults \/ faults' = faults + 1
    BY FineBackend, FineConsumer, FineExecutor, FineUser, FineChecker
    DEF Balanced, Next, UserNext, FaultNext
  <2> QED BY <2>1, <2>2
<1>2. Gentle
  BY <1>1, GentleBackend, GentleConsumer, GentleExecutor, GentleUser, GentleChecker
  DEF CheckInv, Checked, Next, UserNext, FaultNext
<1> QED BY <1>1, <1>2, CheckedStep DEF CheckInv

LEMMA CheckInvInit == Init => CheckInv
<1> SUFFICES ASSUME Init PROVE Checked
  BY DEF CheckInv
<1>1. KnownLate
  BY DispatchBoundsAssumption DEF Init, KnownLate, Known, NotTracked, NoTurn, Turns, IdleCheck
<1>2. RegisteredRan /\ FreshEntered /\ CondemnedStop
  BY DEF Init, RegisteredRan, FreshEntered, Entered, CondemnedStop, IdleConsumer, IdleCheck
<1> QED BY <1>1, <1>2 DEF Checked

\* The heartbeat checker never fails a turn that runs, however many consumers,
\* checks and containers there are and however its look, its report, dispatches,
\* callbacks and deaths interleave: as long as no call has failed, and the turn
\* has not lost its entry or its container to another.
THEOREM NoneFailedAlive == Spec => NoLiveTurnFailed
<1> DEFINE Inv == TypeOK /\ CheckInv
<1>1. Inv /\ [Next]_vars =>
        [\A k \in Checkers :
           Report(k) /\ faults' = 0 /\ checker[k].turn \notin lost /\ Unfinished(checker[k].turn)
           => \A r \in Runs : run[r].turn = checker[k].turn => run[r].pc # "running"]_vars
  <2> SUFFICES ASSUME TypeOK, CheckInv, NEW k \in Checkers, Report(k), faults' = 0,
                      checker[k].turn \notin lost, Unfinished(checker[k].turn)
               PROVE  \A r \in Runs : run[r].turn = checker[k].turn => run[r].pc # "running"
    OBVIOUS
  <2>1. faults = 0
    <3>1. faults \in Nat
      BY DispatchBoundsAssumption DEF TypeOK
    <3> QED BY <3>1 DEF Report, Fault, ends
  <2>2. Stopping(checker[k].turn)
    BY <2>1 DEF CheckInv, Checked, CondemnedStop, Report
  <2> QED BY <2>2 DEF Stopping
<1>2. Spec => []Inv
  BY TypeInit, TypeStep, OnceInit, OnceStep, RefsInit, RefsStep, AccountsInit, AccountsStep,
     NotFreshStep, CheckInvInit, CheckInvStep, PTL DEF Spec
<1> QED BY <1>1, <1>2, PTL DEF Spec, NoLiveTurnFailed
=============================================================================
