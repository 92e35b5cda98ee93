------------------------- MODULE TaskDispatchProofs -------------------------
(***************************************************************************)
(* Theorems about TaskDispatch: its types, and that a turn is executed     *)
(* once, plus once for each fault, for any number of turns, consumers,     *)
(* checkers, requeues and incidents.                                       *)
(***************************************************************************)
EXTENDS TaskDispatch, FiniteSetTheorems, TLAPS

(***************************************************************************)
(* Types                                                                   *)
(***************************************************************************)
Statuses == {"NONE", "PENDING", "RUNNING"} \cup Terminal
Posts == [turn : Turns, box : Turns \cup {NoBox}, retries : 0..MaxRequeues]

TurnsOK == turn \in [Turns -> [status : Statuses, box : Turns \cup {NoBox},
                               send : {"no", "mark", "post", "done"}]]
QueueOK == queue \in Seq(Posts)
ConsumersOK ==
  /\ consumer \in [Consumers -> [pc : {"idle", "submit", "dispatch", "register", "report"},
                                 msg : Messages, box : Turns \cup {NoBox}, fresh : BOOLEAN]]
  /\ \A c \in Consumers : /\ consumer[c].pc # "idle" => consumer[c].msg.turn \in Turns
                          /\ consumer[c].pc \in {"dispatch", "register"} => consumer[c].box \in Turns
BoxesOK == box \in [Turns -> [state : {"none", "running", "exited", "crashed", "gone"},
                              turn : Turns \cup {NoTurn}, exit : {"no", "exited", "crashed"}]]
RunsOK ==
  /\ run \in [{Cancellation} \cup Runs ->
                [pc : {"free", "running", "event", "forwarded", "over"},
                 turn : Turns \cup {NoTurn}, box : Turns \cup {NoBox},
                 outcome : Terminal \cup {"none"}]]
  /\ \A r \in DOMAIN run :
       /\ run[r].pc # "free" => run[r].turn \in Turns
       /\ run[r].pc \in {"running", "event", "forwarded"} => run[r].box \in Turns
       /\ run[r].pc \in {"event", "forwarded"} => run[r].outcome # "none"
EntryOK == tracked \in [turn : Turns, box : Turns] \cup {NotTracked} /\ lost \subseteq Turns
CheckersOK ==
  /\ checker \in [Checkers -> [pc : {"idle", "inspect", "report", "cleanup"},
                               turn : Turns \cup {NoTurn}, box : Turns \cup {NoBox}]]
  /\ \A k \in Checkers : checker[k].pc # "idle" => checker[k].turn \in Turns /\ checker[k].box \in Turns
UserOK == user \in {"idle", "cancel", "cleanup"} /\ swept \in Turns \cup {NoBox}
EndsOK == faults \in 0..MaxFaults /\ incidents \in 0..MaxIncidents

LEMMA TypeParts ==
  TypeOK <=> /\ TurnsOK /\ QueueOK /\ ConsumersOK /\ BoxesOK /\ RunsOK
             /\ EntryOK /\ CheckersOK /\ UserOK /\ EndsOK
BY DEF TypeOK, TurnsOK, QueueOK, ConsumersOK, BoxesOK, RunsOK, EntryOK, CheckersOK,
       UserOK, EndsOK, Statuses, Posts

LEMMA TypePartsNext ==
  ASSUME TurnsOK', QueueOK', ConsumersOK', BoxesOK', RunsOK', EntryOK', CheckersOK',
         UserOK', EndsOK'
  PROVE  TypeOK'
BY DEF TypeOK, TurnsOK, QueueOK, ConsumersOK, BoxesOK, RunsOK, EntryOK, CheckersOK,
       UserOK, EndsOK, Statuses, Posts

LEMMA Same ==
  ASSUME TypeOK
  PROVE  /\ UNCHANGED turn => TurnsOK'
         /\ UNCHANGED queue => QueueOK'
         /\ UNCHANGED consumer => ConsumersOK'
         /\ UNCHANGED box => BoxesOK'
         /\ UNCHANGED run => RunsOK'
         /\ UNCHANGED << tracked, lost >> => EntryOK'
         /\ UNCHANGED checker => CheckersOK'
         /\ UNCHANGED << user, swept >> => UserOK'
         /\ UNCHANGED ends => EndsOK'
<1> USE TypeParts
<1>1. UNCHANGED turn => TurnsOK'
  BY DEF TurnsOK
<1>2. UNCHANGED queue => QueueOK'
  BY DEF QueueOK
<1>3. UNCHANGED consumer => ConsumersOK'
  BY DEF ConsumersOK
<1>4. UNCHANGED box => BoxesOK'
  BY DEF BoxesOK
<1>5. UNCHANGED run => RunsOK'
  BY DEF RunsOK
<1>6. UNCHANGED << tracked, lost >> => EntryOK'
  BY DEF EntryOK
<1>7. UNCHANGED checker => CheckersOK'
  BY DEF CheckersOK
<1>8. UNCHANGED << user, swept >> => UserOK'
  BY DEF UserOK
<1>9. UNCHANGED ends => EndsOK'
  BY DEF ends, EndsOK
<1> QED BY <1>1, <1>2, <1>3, <1>4, <1>5, <1>6, <1>7, <1>8, <1>9

LEMMA TypeInit == Init => TypeOK
<1> SUFFICES ASSUME Init PROVE TypeOK
  OBVIOUS
<1>1. MaxFaults \in Nat /\ MaxIncidents \in Nat /\ MaxRequeues \in Nat
  BY DispatchBoundsAssumption
<1>2. TurnsOK /\ BoxesOK
  BY DEF Init, TurnsOK, BoxesOK, Statuses
<1>3. QueueOK
  BY DEF Init, QueueOK
<1>4. ConsumersOK
  BY <1>1 DEF Init, ConsumersOK, IdleConsumer, NoMessage, Messages
<1>5. RunsOK
  BY DEF Init, RunsOK
<1>6. EntryOK /\ UserOK /\ CheckersOK
  BY DEF Init, EntryOK, UserOK, CheckersOK, IdleCheck
<1>7. EndsOK
  BY <1>1 DEF Init, EndsOK
<1> QED BY TypeParts, <1>2, <1>3, <1>4, <1>5, <1>6, <1>7

LEMMA AppliedOK ==
  ASSUME TurnsOK, NEW t \in Turns, NEW status \in Statuses, NEW b \in Turns \cup {NoBox}
  PROVE  Applied(t, status, b) \in [Turns -> [status : Statuses, box : Turns \cup {NoBox},
                                              send : {"no", "mark", "post", "done"}]]
BY DEF TurnsOK, Applied

LEMMA FaultOK == ASSUME EndsOK, NEW kind, Fault(kind) PROVE EndsOK'
BY DispatchBoundsAssumption DEF EndsOK, Fault

LEMMA IncidentOK == ASSUME EndsOK, Incident PROVE EndsOK'
BY DispatchBoundsAssumption DEF EndsOK, Incident

LEMMA AddEntryOK ==
  ASSUME EntryOK, NEW t \in Turns, NEW b \in Turns, AddEntry(t, b)
  PROVE  EntryOK'
BY DEF EntryOK, AddEntry, Losing

LEMMA RemoveEntryOK == ASSUME EntryOK, NEW t, RemoveEntry(t) PROVE EntryOK'
BY DEF EntryOK, RemoveEntry, Losing

LEMMA OverOK ==
  ASSUME RunsOK, NEW r \in DOMAIN run
  PROVE  Over(r) \in [pc : {"over"}, turn : Turns \cup {NoTurn}, box : {NoBox},
                      outcome : {"none"}]
         /\ Over(r).turn = run[r].turn
BY DEF RunsOK, Over

LEMMA StoppedOK ==
  ASSUME BoxesOK, RunsOK, NEW b \in Turns,
         NEW state \in {"none", "running", "exited", "crashed", "gone"}, Stopped(b, state)
  PROVE  BoxesOK' /\ RunsOK'
<1>1. BoxesOK'
  BY DEF BoxesOK, Stopped
<1>2. DOMAIN run' = DOMAIN run
  BY DEF Stopped
<1>3. ASSUME NEW r \in DOMAIN run
      PROVE  /\ run'[r] \in [pc : {"free", "running", "event", "forwarded", "over"},
                             turn : Turns \cup {NoTurn}, box : Turns \cup {NoBox},
                             outcome : Terminal \cup {"none"}]
             /\ run'[r].pc # "free" => run'[r].turn \in Turns
             /\ run'[r].pc \in {"running", "event", "forwarded"} => run'[r].box \in Turns
             /\ run'[r].pc \in {"event", "forwarded"} => run'[r].outcome # "none"
  <2>1. run'[r] = run[r] \/ (run'[r] = Over(r) /\ run[r].pc # "free")
    BY DEF Stopped
  <2> QED BY <2>1, OverOK DEF RunsOK
<1>4. RunsOK'
  BY <1>2, <1>3 DEF RunsOK, Stopped
<1> QED BY <1>1, <1>4

LEMMA EndRunOK ==
  ASSUME RunsOK, NEW r \in DOMAIN run, run[r].pc # "free",
         run' = [run EXCEPT ![r] = Over(r)]
  PROVE  RunsOK'
BY OverOK DEF RunsOK

LEMMA MayExitOK ==
  ASSUME BoxesOK, RunsOK, NEW r \in DOMAIN run, MayExit(r)
  PROVE  BoxesOK'
BY DEF BoxesOK, RunsOK, MayExit, Running

LEMMA DoneOK == ASSUME ConsumersOK, NEW c \in Consumers, Done(c) PROVE ConsumersOK'
BY DispatchBoundsAssumption DEF ConsumersOK, Done, IdleConsumer, NoMessage, Messages

LEMMA GotoOK ==
  ASSUME ConsumersOK, NEW c \in Consumers, consumer[c].pc # "idle",
         NEW pc \in {"register", "report"}, pc = "register" => consumer[c].box \in Turns,
         Goto(c, pc)
  PROVE  ConsumersOK'
BY DEF ConsumersOK, Goto

\* A nonempty set of turns has a newest one: of the sets of turns that follow a
\* member, take one that includes no other.
LEMMA NewestOf ==
  ASSUME NEW S \in SUBSET Turns, S # {}
  PROVE  \E u \in S : \A v \in S : v <= u
<1> DEFINE After(n) == {m \in S : n < m}
           Family == {After(n) : n \in S}
<1>1. MaxTurns \in Nat /\ IsFiniteSet(Turns)
  BY DispatchBoundsAssumption, FS_Interval DEF Turns
<1>2. IsFiniteSet(S)
  BY <1>1, FS_Subset
<1>3. Family \subseteq FiniteSubsetsOf(S) /\ Family # {}
  <2>1. Family \subseteq SUBSET S /\ Family # {}
    OBVIOUS
  <2> QED BY <1>2, <2>1, FS_FiniteSubsetsOfFinite
<1>4. IsWellFoundedOn(StrictSubsetOrdering(S), FiniteSubsetsOf(S))
  BY FS_StrictSubsetOrderingWellFounded
<1>5. \E T \in Family : \A U \in Family : <<U, T>> \notin StrictSubsetOrdering(S)
  <2> HIDE DEF Family
  <2> QED BY <1>3, <1>4, WFMin
<1>6. PICK u \in S : \A w \in S : <<After(w), After(u)>> \notin StrictSubsetOrdering(S)
  BY <1>5
<1>7. ASSUME NEW v \in S, u < v PROVE FALSE
  <2>1. S \subseteq Int
    BY <1>1 DEF Turns
  <2>2. u \in Int /\ v \in Int /\ \A w \in S : w \in Int
    BY <2>1
  <2>3. v \in After(u) /\ v \notin After(v) /\ After(v) \subseteq After(u)
    <3>1. v \in After(u) /\ v \notin After(v)
      BY <1>7, <2>2
    <3>2. ASSUME NEW m \in S, v < m PROVE u < m
      BY <1>7, <2>2, <3>2
    <3> QED BY <3>1, <3>2
  <2>4. <<After(v), After(u)>> \in StrictSubsetOrdering(S)
    BY <2>3 DEF StrictSubsetOrdering
  <2> QED BY <1>6, <2>4
<1> QED BY <1>1, <1>7 DEF Turns

LEMMA BoxOfEarlierOK ==
  ASSUME TurnsOK, NEW t \in Turns
  PROVE  BoxOfEarlier(t) \in Turns \cup {NoBox}
<1> DEFINE named == {u \in 1..(t - 1) : turn[u].box # NoBox}
<1>1. named \subseteq Turns
  BY DispatchBoundsAssumption DEF Turns
<1>2. CASE named = {}
  BY <1>2 DEF BoxOfEarlier
<1>3. CASE named # {}
  <2>1. \E u \in named : \A v \in named : v <= u
    BY <1>1, <1>3, NewestOf
  <2> DEFINE newest == CHOOSE u \in named : \A v \in named : v <= u
  <2>2. newest \in named
    BY <2>1
  <2>3. BoxOfEarlier(t) = turn[newest].box
    BY <1>3 DEF BoxOfEarlier
  <2> QED BY <1>1, <2>2, <2>3 DEF TurnsOK
<1> QED BY <1>2, <1>3

LEMMA PostedOK ==
  ASSUME TurnsOK, QueueOK, NEW t \in Turns, NEW copies \in 0..2, NEW status \in Statuses,
         Posted(t, copies, status)
  PROVE  TurnsOK' /\ QueueOK'
<1> DEFINE marked == Applied(t, status, NoBox)
<1>1. TurnsOK'
  <2>1. marked \in [Turns -> [status : Statuses, box : Turns \cup {NoBox},
                              send : {"no", "mark", "post", "done"}]]
    BY AppliedOK
  <2>2. turn' = [marked EXCEPT ![t].send = "done"]
    BY DEF Posted
  <2> HIDE DEF marked
  <2> QED BY <2>1, <2>2 DEF TurnsOK
<1>2. Message(t) \in Posts
  BY DispatchBoundsAssumption DEF TurnsOK, Message, Posts
<1>3. [i \in 1..copies |-> Message(t)] \in Seq(Posts)
  BY <1>2
<1>4. QueueOK'
  BY <1>3 DEF Posted, QueueOK
<1> QED BY <1>1, <1>4

LEMMA TypeBackend ==
  ASSUME TypeOK, NEW t \in Turns,
         CreateTurn(t) \/ SenderNext(t) \/ PostRepeated(t) \/ PostFails(t) \/ SenderStops(t)
  PROVE  TypeOK'
<1> USE TypeParts, TypePartsNext
<1>1. CASE CreateTurn(t)
  <2>1. TurnsOK'
    BY <1>1, BoxOfEarlierOK DEF CreateTurn, TurnsOK, Statuses
  <2> QED BY <1>1, <2>1, Same DEF CreateTurn, manager, boxes
<1>2. CASE UpdateToRunning(t)
  <2> DEFINE marked == Applied(t, "RUNNING", NoBox)
  <2>1. marked \in [Turns -> [status : Statuses, box : Turns \cup {NoBox},
                              send : {"no", "mark", "post", "done"}]]
    BY AppliedOK DEF Statuses
  <2>2. turn' = [marked EXCEPT ![t].send = "post"]
    BY <1>2 DEF UpdateToRunning
  <2> HIDE DEF marked
  <2>3. TurnsOK'
    BY <2>1, <2>2 DEF TurnsOK
  <2> QED BY <1>2, <2>3, Same DEF UpdateToRunning, manager, boxes
<1>3. ASSUME NEW copies \in 0..2, NEW status \in Statuses, Posted(t, copies, status), EndsOK'
      PROVE  TypeOK'
  <2>1. TurnsOK' /\ QueueOK'
    BY <1>3, PostedOK
  <2> QED BY <1>3, <2>1, Same DEF Posted, boxes
<1>4. turn[t].status \in Statuses /\ "FAILED" \in Statuses
  BY DEF TurnsOK, Statuses, Terminal
<1>5. CASE PostResponses(t)
  <2>1. EndsOK'
    BY <1>5, Same DEF PostResponses
  <2> QED BY <1>3, <1>4, <1>5, <2>1 DEF PostResponses
<1>6. CASE PostRepeated(t)
  BY <1>3, <1>4, <1>6, FaultOK DEF PostRepeated
<1>7. CASE PostFails(t)
  BY <1>3, <1>4, <1>7, FaultOK DEF PostFails
<1>8. CASE SenderStops(t)
  <2>1. TurnsOK'
    BY <1>8 DEF SenderStops, TurnsOK
  <2> QED BY <1>8, <2>1, FaultOK, Same DEF SenderStops, manager, boxes
<1> QED BY <1>1, <1>2, <1>5, <1>6, <1>7, <1>8 DEF SenderNext

LEMMA AppendOK ==
  ASSUME QueueOK, NEW m \in Posts, queue' = Append(queue, m)
  PROVE  QueueOK'
BY DEF QueueOK

LEMMA MessageOK ==
  ASSUME TypeOK, NEW c \in Consumers, consumer[c].pc # "idle"
  PROVE  /\ consumer[c].msg \in Posts
         /\ consumer[c].pc \in {"dispatch", "register"} => consumer[c].box \in Turns
BY TypeParts DEF ConsumersOK, Messages, Posts

\* n executions that start have the turn and the box they were given.
LEMMA StartedOK ==
  ASSUME TypeOK, NEW t \in Turns, NEW b \in Turns, NEW n, Started(t, b, n)
  PROVE  RunsOK' /\ BoxesOK'
<1> USE TypeParts
<1>1. BoxesOK'
  BY DEF Started, BoxesOK
<1>2. PICK rs \in SUBSET {r \in Runs : run[r].pc = "free"} :
        run' = [r \in DOMAIN run |-> IF r \in rs
                  THEN [pc |-> "running", turn |-> t, box |-> b, outcome |-> "none"]
                  ELSE run[r]]
  BY DEF Started
<1>3. RunsOK'
  BY <1>2 DEF RunsOK
<1> QED BY <1>1, <1>3

LEMMA TypeConsumer ==
  ASSUME TypeOK, NEW c \in Consumers,
         ConsumerNext(c) \/ ProcessFails(c) \/ StartFails(c) \/ ConsumerStops(c)
  PROVE  TypeOK'
<1> USE TypeParts, TypePartsNext
<1> DEFINE m == consumer[c].msg
<1>1. CASE Dequeue(c)
  <2>1. Head(queue) \in Posts /\ QueueOK'
    BY <1>1 DEF Dequeue, QueueOK
  <2>2. Posts \subseteq Messages
    BY DEF Posts, Messages
  <2>3. ConsumersOK'
    BY <1>1, <2>1, <2>2 DEF Dequeue, ConsumersOK, Posts
  <2> QED BY <1>1, <2>1, <2>3, Same DEF Dequeue, backend, boxes
<1>2. CASE ReportFailure(c)
  <2>1. m.turn \in Turns
    BY <1>2, MessageOK DEF ReportFailure, Posts
  <2>2. TurnsOK'
    <3>1. CASE turn' = Applied(m.turn, "FAILED", NoBox)
      BY <2>1, <3>1, AppliedOK DEF TurnsOK, Statuses, Terminal
    <3> QED BY <1>2, <3>1, Same DEF ReportFailure
  <2>3. ConsumersOK' /\ EndsOK'
    BY <1>2, DoneOK, FaultOK, Same DEF ReportFailure
  <2> QED BY <1>2, <2>2, <2>3, Same DEF ReportFailure, boxes
<1>3. CASE SubmitToBox(c)
  <2>1. m.box \in Turns
    BY <1>3 DEF SubmitToBox, Running, ConsumersOK, Messages
  <2>2. ConsumersOK'
    BY <1>3, <2>1 DEF SubmitToBox, ConsumersOK
  <2> QED BY <1>3, <2>2, Same DEF SubmitToBox, backend, boxes
<1>4. CASE SubmitNew(c)
  <2>1. m \in Posts /\ NameFor(m) \in Turns
    BY <1>4, MessageOK DEF SubmitNew, NameFor, Posts
  <2>2. BoxesOK'
    BY <1>4, <2>1 DEF SubmitNew, Created, BoxesOK
  <2>3. EntryOK'
    BY <1>4, <2>1 DEF SubmitNew, Posts, EntryOK, Losing, NotEntered
  <2>4. ConsumersOK'
    BY <1>4, <2>1 DEF SubmitNew, ConsumersOK
  <2> QED BY <1>4, <2>2, <2>3, <2>4, Same DEF SubmitNew, backend
<1>5. CASE SubmitFails(c)
  <2>1. m \in Posts
    BY <1>5, MessageOK DEF SubmitFails
  <2>2. BoxesOK' /\ EndsOK'
    BY <1>5, <2>1, Same, FaultOK DEF SubmitFails, BoxesOK, Posts
  <2>3. ConsumersOK'
    BY <1>5, DoneOK DEF SubmitFails
  <2> QED BY <1>5, <2>2, <2>3, Same DEF SubmitFails, backend
<1>6. ASSUME consumer[c].pc = "dispatch", AfterDispatch(c) PROVE ConsumersOK'
  BY <1>6, DoneOK, GotoOK, MessageOK DEF AfterDispatch
<1>7. CASE Dispatch(c)
  <2>1. m \in Posts /\ consumer[c].box \in Turns
    BY <1>7, MessageOK DEF Dispatch
  <2>2. RunsOK' /\ BoxesOK'
    BY <1>7, <2>1, StartedOK DEF Dispatch, Posts
  <2>3. ConsumersOK' /\ EndsOK'
    BY <1>6, <1>7, DoneOK, FaultOK, Same DEF Dispatch
  <2> QED BY <1>7, <2>2, <2>3, Same DEF Dispatch, backend
<1>8. CASE StartFails(c)
  <2>1. consumer[c].box \in Turns
    BY <1>8, MessageOK DEF StartFails
  <2>2. RunsOK' /\ BoxesOK' /\ ConsumersOK'
    BY <1>6, <1>8, <2>1, StoppedOK, Same DEF StartFails, boxes
  <2> QED BY <1>8, <2>2, FaultOK, Same DEF StartFails, backend
<1>9. CASE DispatchFails(c)
  <2>1. consumer[c].box \in Turns /\ m.turn \in Turns
    BY <1>9, MessageOK DEF DispatchFails, Posts
  <2>2. RunsOK' /\ BoxesOK'
    BY <1>9, <2>1, StoppedOK, Same DEF DispatchFails, boxes
  <2>3. ConsumersOK' /\ EndsOK'
    BY <1>9, DoneOK, FaultOK, Same DEF DispatchFails
  <2>4. EntryOK'
    BY <1>9, <2>1 DEF DispatchFails, EntryOK
  <2> QED BY <1>9, <2>2, <2>3, <2>4, Same DEF DispatchFails, backend
<1>10. CASE Register(c)
  <2>1. consumer[c].box \in Turns /\ m.turn \in Turns
    BY <1>10, MessageOK DEF Register, Posts
  <2>2. EntryOK' /\ ConsumersOK'
    BY <1>10, <2>1, AddEntryOK, DoneOK DEF Register
  <2> QED BY <1>10, <2>2, Same DEF Register, backend, boxes
<1>11. CASE ProcessFails(c)
  <2>1. m \in Posts
    BY <1>11, MessageOK DEF ProcessFails
  <2>2. CASE m.retries < MaxRequeues
    <3>1. [m EXCEPT !.retries = @ + 1] \in Posts
      BY <2>1, <2>2, DispatchBoundsAssumption DEF Posts
    <3>2. QueueOK' /\ ConsumersOK'
      BY <1>11, <2>2, <3>1, AppendOK, DoneOK DEF ProcessFails, Requeue
    <3> QED BY <1>11, <3>2, Same DEF ProcessFails, backend, boxes
  <2>3. CASE ~(m.retries < MaxRequeues)
    <3>1. QueueOK' /\ ConsumersOK'
      BY <1>11, <2>3, GotoOK, Same DEF ProcessFails, Requeue
    <3> QED BY <1>11, <3>1, Same DEF ProcessFails, backend, boxes
  <2> QED BY <2>2, <2>3
<1>12. CASE ConsumerStops(c)
  BY <1>12, DoneOK, FaultOK, Same DEF ConsumerStops, backend, boxes
<1> QED BY <1>1, <1>2, <1>3, <1>4, <1>5, <1>7, <1>8, <1>9, <1>10, <1>11, <1>12
        DEF ConsumerNext

LEMMA TypeExecutor ==
  ASSUME TypeOK, NEW r \in DOMAIN run,
         EndRun(r) \/ CallbackNext(r) \/ AgentFails(r) \/ ForwardFails(r)
  PROVE  TypeOK'
<1> USE TypeParts, TypePartsNext
<1>1. CASE EndRun(r)
  <2>1. RunsOK'
    BY <1>1 DEF EndRun, RunsOK, Terminal
  <2> QED BY <1>1, <2>1, Same DEF EndRun, backend, manager
<1>2. ASSUME run[r].pc \in {"event", "forwarded"},
             turn' = Applied(run[r].turn, run[r].outcome, run[r].box)
      PROVE  TurnsOK'
  <2>1. run[r].turn \in Turns /\ run[r].outcome \in Statuses /\ run[r].box \in Turns
    BY <1>2 DEF RunsOK, Statuses
  <2> QED BY <1>2, <2>1, AppliedOK DEF TurnsOK
<1>3. CASE AgentFails(r)
  <2>1. RunsOK' /\ BoxesOK'
    BY <1>3, EndRunOK, MayExitOK DEF AgentFails
  <2> QED BY <1>3, <2>1, FaultOK, Same DEF AgentFails, backend, manager
<1>4. CASE Forward(r)
  <2>1. RunsOK'
    BY <1>4 DEF Forward, RunsOK
  <2>2. TurnsOK' /\ EndsOK'
    BY <1>2, <1>4, FaultOK, Same DEF Forward
  <2> QED BY <1>4, <2>1, <2>2, Same DEF Forward, manager
<1>5. CASE ForwardFails(r)
  <2>1. RunsOK' /\ BoxesOK'
    BY <1>5, EndRunOK, MayExitOK, Same DEF ForwardFails
  <2>2. TurnsOK'
    BY <1>2, <1>5, Same DEF ForwardFails
  <2> QED BY <1>5, <2>1, <2>2, FaultOK, Same DEF ForwardFails, manager
<1>6. CASE Cleanup(r)
  <2>1. RunsOK' /\ BoxesOK'
    BY <1>6, EndRunOK, MayExitOK DEF Cleanup
  <2> QED BY <1>6, <2>1, RemoveEntryOK, Same DEF Cleanup, backend
<1> QED BY <1>1, <1>3, <1>4, <1>5, <1>6 DEF CallbackNext

LEMMA CancelRunsOK ==
  ASSUME TypeOK, NEW b \in Turns, CancelInBox(b)
  PROVE  RunsOK'
<1> USE TypeParts
<1> DEFINE sent == [pc |-> "event", turn |-> box[b].turn, box |-> b, outcome |-> "CANCELLED"]
           shape == [pc : {"free", "running", "event", "forwarded", "over"},
                     turn : Turns \cup {NoTurn}, box : Turns \cup {NoBox},
                     outcome : Terminal \cup {"none"}]
<1>1. box[b].turn \in Turns
  BY DEF CancelInBox, BoxesOK
<1>2. sent \in shape
  BY <1>1 DEF Terminal
<1>3. DOMAIN run' = DOMAIN run
  BY DEF CancelInBox
<1>4. ASSUME NEW r \in DOMAIN run
      PROVE  /\ run'[r] \in shape
             /\ run'[r].pc # "free" => run'[r].turn \in Turns
             /\ run'[r].pc \in {"running", "event", "forwarded"} => run'[r].box \in Turns
             /\ run'[r].pc \in {"event", "forwarded"} => run'[r].outcome # "none"
  <2>1. \/ run'[r] = run[r]
        \/ run'[r] = Over(r) /\ run[r].pc # "free"
        \/ run'[r] = sent
    BY DEF CancelInBox
  <2> QED BY <1>1, <1>2, <2>1, OverOK DEF RunsOK
<1>5. run' = [r \in DOMAIN run |-> run'[r]]
  BY DEF CancelInBox
<1> QED BY <1>3, <1>4, <1>5 DEF RunsOK

LEMMA TypeUser ==
  ASSUME TypeOK, NEW b \in Turns,
         \/ RequestCancel(b) \/ CancelInBox(b) \/ ChooseBox(b) \/ ExitBox(b) \/ BoxCrash(b)
         \/ CancelFails \/ CancelCleanup \/ DeleteBox
  PROVE  TypeOK'
<1> USE TypeParts, TypePartsNext
<1>1. CASE RequestCancel(b)
  <2>1. UserOK'
    BY <1>1 DEF RequestCancel, UserOK
  <2> QED BY <1>1, <2>1, IncidentOK, Same DEF RequestCancel, manager, boxes
<1>2. CASE CancelInBox(b)
  <2>1. RunsOK'
    BY <1>2, CancelRunsOK
  <2>2. BoxesOK' /\ UserOK'
    BY <1>2 DEF CancelInBox, BoxesOK, UserOK
  <2>3. EntryOK'
    <3>1. \A r \in DOMAIN run : run[r].pc = "running" => run[r].turn \in Turns
      BY DEF RunsOK
    <3>2. Runs \subseteq DOMAIN run
      BY DEF RunsOK
    <3>3. lost' \subseteq Turns /\ tracked' = tracked
      BY <1>2, <3>1, <3>2 DEF CancelInBox, manager, EntryOK
    <3> QED BY <3>3 DEF EntryOK
  <2> QED BY <1>2, <2>1, <2>2, <2>3, Same DEF CancelInBox, manager
<1>3. CASE ChooseBox(b)
  <2>1. UserOK'
    BY <1>3 DEF ChooseBox, UserOK
  <2> QED BY <1>3, <2>1, IncidentOK, Same DEF ChooseBox, manager, boxes
<1>4. CASE ExitBox(b)
  <2>1. box[b].exit \in {"exited", "crashed"}
    BY <1>4 DEF ExitBox, BoxesOK
  <2>2. RunsOK' /\ BoxesOK'
    BY <1>4, <2>1, StoppedOK DEF ExitBox
  <2>3. EntryOK'
    BY <1>4 DEF ExitBox, EntryOK, manager
  <2> QED BY <1>4, <2>2, <2>3, Same DEF ExitBox, backend, manager
<1>5. CASE BoxCrash(b)
  <2>1. RunsOK' /\ BoxesOK'
    BY <1>5, StoppedOK DEF BoxCrash
  <2> QED BY <1>5, <2>1, IncidentOK, Same DEF BoxCrash, backend, manager
<1>6. CASE CancelFails
  <2>1. UserOK'
    BY <1>6 DEF CancelFails, UserOK
  <2> QED BY <1>6, <2>1, Same DEF CancelFails, manager, boxes
<1>7. CASE CancelCleanup
  <2>1. UserOK'
    BY <1>7 DEF CancelCleanup, UserOK
  <2> QED BY <1>7, <2>1, RemoveEntryOK, Same DEF CancelCleanup, boxes
<1>8. CASE DeleteBox
  <2>1. swept \in Turns
    BY <1>8 DEF DeleteBox, UserOK
  <2>2. RunsOK' /\ BoxesOK' /\ EntryOK'
    BY <1>8, <2>1, StoppedOK, RemoveEntryOK, Same DEF DeleteBox, boxes
  <2>3. UserOK'
    BY <1>8 DEF DeleteBox, UserOK
  <2> QED BY <1>8, <2>2, <2>3, Same DEF DeleteBox
<1> QED BY <1>1, <1>2, <1>3, <1>4, <1>5, <1>6, <1>7, <1>8

LEMMA TypeChecker ==
  ASSUME TypeOK, NEW k \in Checkers, CheckerNext(k) \/ InspectFails(k)
  PROVE  TypeOK'
<1> USE TypeParts, TypePartsNext
<1>1. ASSUME checker' = [checker EXCEPT ![k] = IdleCheck] PROVE CheckersOK'
  BY <1>1 DEF CheckersOK, IdleCheck
<1>2. ASSUME NEW pc \in {"report", "cleanup"}, checker[k].pc # "idle",
             checker' = [checker EXCEPT ![k].pc = pc]
      PROVE  CheckersOK'
  BY <1>2 DEF CheckersOK
<1>3. CASE CheckHeartbeats(k)
  <2>1. tracked \in [turn : Turns, box : Turns]
    BY <1>3 DEF CheckHeartbeats, EntryOK
  <2>2. CheckersOK'
    BY <1>3, <2>1 DEF CheckHeartbeats, CheckersOK
  <2> QED BY <1>3, <2>2, IncidentOK, Same DEF CheckHeartbeats, backend, boxes
<1>4. CASE Inspect(k)
  <2>1. CheckersOK' /\ EntryOK'
    BY <1>1, <1>2, <1>4, RemoveEntryOK, Same DEF Inspect
  <2> QED BY <1>4, <2>1, Same DEF Inspect, backend, boxes
<1>5. CASE InspectFails(k)
  BY <1>2, <1>5, FaultOK, Same DEF InspectFails, backend, boxes
<1>6. CASE Report(k)
  <2>1. TurnsOK'
    <3>1. CASE turn' = Applied(checker[k].turn, "FAILED", checker[k].box)
      <4>1. checker[k].turn \in Turns /\ checker[k].box \in Turns
        BY <1>6 DEF Report, CheckersOK
      <4> QED BY <3>1, <4>1, AppliedOK DEF TurnsOK, Statuses, Terminal
    <3> QED BY <1>6, <3>1, Same DEF Report
  <2> QED BY <1>2, <1>6, <2>1, FaultOK, Same DEF Report, boxes
<1>7. CASE CheckerCleanup(k)
  BY <1>1, <1>7, RemoveEntryOK, Same DEF CheckerCleanup, backend, boxes
<1> QED BY <1>3, <1>4, <1>5, <1>6, <1>7 DEF CheckerNext

LEMMA TypeStep == TypeOK /\ [Next]_vars => TypeOK'
<1> SUFFICES ASSUME TypeOK, [Next]_vars PROVE TypeOK'
  OBVIOUS
<1>1. ASSUME UNCHANGED vars PROVE TypeOK'
  BY <1>1, Same, TypePartsNext DEF vars, backend, manager, boxes
<1>2. 1 \in Turns
  BY DispatchBoundsAssumption DEF Turns
<1>3. ASSUME Next PROVE TypeOK'
  BY <1>2, <1>3, TypeBackend, TypeConsumer, TypeExecutor, TypeUser, TypeChecker
     DEF Next, UserNext, FaultNext
<1> QED BY <1>1, <1>3

\* Every variable keeps its type, for any number of turns, boxes and checks.
THEOREM TypeCorrect == Spec => []TypeOK
BY TypeInit, TypeStep, PTL DEF Spec

(***************************************************************************)
(* One execution per fault.  A turn that was not posted yet, each copy of  *)
(* its message in the queue, each consumer that will still dispatch it and *)
(* each of its executions is a token.  A turn has one token, and each      *)
(* fault makes at most one more.                                           *)
(***************************************************************************)
Sendable(t) == IF turn[t].send \in {"no", "mark", "post"} THEN 1 ELSE 0
Places(q, t) == {i \in 1..Len(q) : q[i].turn = t}
Holders(t) == {c \in Consumers : consumer[c].pc \in {"submit", "dispatch"}
                                   /\ consumer[c].msg.turn = t}
Tokens(t) == Sendable(t) + Cardinality(Places(queue, t)) + Cardinality(Holders(t))
             + Cardinality(Executions(t))

Once == \A t \in Turns : Tokens(t) <= 1 + faults
FreeRuns == \A r \in Runs : run[r].pc = "free" => run[r].turn = NoTurn
Unsent == \A t \in Turns : turn[t].status = "NONE" => turn[t].send = "no"
OnceInv == Once /\ FreeRuns /\ Unsent

LEMMA Counted ==
  ASSUME TypeOK, NEW t \in Turns
  PROVE  /\ IsFiniteSet(Places(queue, t)) /\ Cardinality(Places(queue, t)) \in Nat
         /\ IsFiniteSet(Holders(t)) /\ Cardinality(Holders(t)) \in Nat
         /\ IsFiniteSet(Executions(t)) /\ Cardinality(Executions(t)) \in Nat
         /\ Sendable(t) \in 0..1 /\ faults \in Nat
<1>1. Len(queue) \in Nat
  BY TypeParts DEF QueueOK
<1>2. IsFiniteSet(Places(queue, t)) /\ IsFiniteSet(Executions(t))
  <2>1. MaxRuns \in Nat
    BY DispatchBoundsAssumption
  <2>2. IsFiniteSet(1..Len(queue)) /\ IsFiniteSet(1..MaxRuns)
    BY <1>1, <2>1, FS_Interval
  <2>3. Places(queue, t) \subseteq 1..Len(queue) /\ Executions(t) \subseteq 1..MaxRuns
    BY DEF Places, Executions, Runs
  <2> QED BY <2>2, <2>3, FS_Subset
<1>3. IsFiniteSet(Holders(t))
  BY DispatchBoundsAssumption, FS_Subset DEF Holders
<1> QED BY <1>2, <1>3, FS_CardinalityType, TypeParts, DispatchBoundsAssumption
        DEF Sendable, EndsOK

\* The places of a turn in the queue, when a message is added or taken off.
LEMMA AppendPlaces ==
  ASSUME NEW q \in Seq(Posts), NEW m \in Posts, NEW t \in Turns
  PROVE  /\ IsFiniteSet(Places(Append(q, m), t))
         /\ Cardinality(Places(Append(q, m), t))
              = Cardinality(Places(q, t)) + (IF m.turn = t THEN 1 ELSE 0)
<1>1. Len(q) \in Nat /\ IsFiniteSet(1..Len(q))
  BY FS_Interval
<1>2. IsFiniteSet(Places(q, t)) /\ Cardinality(Places(q, t)) \in Nat
  BY <1>1, FS_Subset, FS_CardinalityType DEF Places
<1>3. Len(q) + 1 \notin Places(q, t)
  BY <1>1 DEF Places
<1>4. CASE m.turn = t
  <2>1. Places(Append(q, m), t) = Places(q, t) \cup {Len(q) + 1}
    BY <1>1, <1>4 DEF Places
  <2> QED BY <1>2, <1>3, <1>4, <2>1, FS_AddElement
<1>5. CASE m.turn # t
  <2>1. Places(Append(q, m), t) = Places(q, t)
    BY <1>1, <1>5 DEF Places
  <2> QED BY <1>2, <1>5, <2>1
<1> QED BY <1>4, <1>5

LEMMA TailPlaces ==
  ASSUME NEW q \in Seq(Posts), q # << >>, NEW t \in Turns
  PROVE  Cardinality(Places(q, t))
           = Cardinality(Places(Tail(q), t)) + (IF Head(q).turn = t THEN 1 ELSE 0)
<1>1. Len(q) \in Nat \ {0} /\ IsFiniteSet(1..Len(q)) /\ Len(Tail(q)) = Len(q) - 1
  BY FS_Interval
<1>2. IsFiniteSet(Places(q, t)) /\ Cardinality(Places(q, t)) \in Nat
  BY <1>1, FS_Subset, FS_CardinalityType DEF Places
<1> DEFINE rest == Places(q, t) \ {1}
           shift == [i \in rest |-> i - 1]
<1>3. IsFiniteSet(rest)
        /\ Cardinality(Places(q, t)) = Cardinality(rest) + (IF Head(q).turn = t THEN 1 ELSE 0)
  <2>1. 1 \in Places(q, t) <=> Head(q).turn = t
    BY <1>1 DEF Places
  <2>2. IsFiniteSet(rest)
          /\ Cardinality(rest) = IF 1 \in Places(q, t) THEN Cardinality(Places(q, t)) - 1
                                 ELSE Cardinality(Places(q, t))
    BY <1>2, FS_RemoveElement
  <2> QED BY <1>2, <2>1, <2>2
<1>4. shift \in Bijection(rest, Places(Tail(q), t))
  <2>1. \A i \in rest : i \in 2..Len(q) /\ q[i].turn = t
    BY <1>1 DEF Places
  <2>2. \A i \in 1..(Len(q) - 1) : Tail(q)[i] = q[i + 1]
    BY <1>1
  <2>3. \A i \in rest : i - 1 \in Places(Tail(q), t)
    BY <1>1, <2>1, <2>2 DEF Places
  <2>4. \A i \in Places(Tail(q), t) : i + 1 \in rest /\ (i + 1) - 1 = i
    BY <1>1, <2>2 DEF Places
  <2>5. shift \in Injection(rest, Places(Tail(q), t))
    BY <2>1, <2>3 DEF Injection, IsInjective
  <2>6. shift \in Surjection(rest, Places(Tail(q), t))
    BY <2>3, <2>4 DEF Surjection
  <2> QED BY <2>5, <2>6 DEF Bijection
<1>5. Cardinality(Places(Tail(q), t)) = Cardinality(rest)
  BY <1>3, <1>4, FS_Bijection DEF ExistsBijection
<1> QED BY <1>3, <1>5

\* A step that makes no token and no fault undone keeps the invariant.
LEMMA Fewer ==
  ASSUME TypeOK, TypeOK', OnceInv,
         \A t \in Turns : /\ Sendable(t)' <= Sendable(t)
                          /\ Holders(t)' \subseteq Holders(t)
                          /\ Executions(t)' = Executions(t),
         UNCHANGED queue, faults' >= faults
  PROVE  Once'
<1> SUFFICES ASSUME NEW t \in Turns PROVE Tokens(t)' <= 1 + faults'
  BY DEF Once
<1>1. Cardinality(Holders(t)') <= Cardinality(Holders(t)) /\ Cardinality(Holders(t)') \in Nat
  BY Counted, FS_Subset, FS_CardinalityType
<1>2. Cardinality(Executions(t)') = Cardinality(Executions(t))
  OBVIOUS
<1>3. Places(queue', t) = Places(queue, t)
  OBVIOUS
<1>4. Sendable(t)' \in 0..1 /\ faults' \in Nat
  BY DispatchBoundsAssumption DEF Sendable, TypeOK
<1> QED BY <1>1, <1>2, <1>3, <1>4, Counted DEF OnceInv, Once, Tokens

\* What a status written by a callback, a check or the dispatcher leaves alone.
LEMMA AppliedKeeps ==
  ASSUME TypeOK, OnceInv, NEW t \in Turns, NEW status \in Statuses \ {"NONE"}, NEW b,
         turn' = Applied(t, status, b)
  PROVE  Unsent' /\ \A u \in Turns : Sendable(u)' = Sendable(u)
<1>1. turn' \in [Turns -> [status : Statuses \cup {status}, box : Turns \cup {NoBox, b},
                          send : {"no", "mark", "post", "done"}]]
  BY TypeParts DEF TurnsOK, Applied
<1>2. \A u \in Turns : /\ turn'[u].send = turn[u].send
                       /\ turn'[u].status = IF u = t THEN status ELSE turn[u].status
  BY TypeParts DEF TurnsOK, Applied
<1> QED BY <1>2 DEF OnceInv, Unsent, Sendable

LEMMA TurnKeeps ==
  ASSUME OnceInv, UNCHANGED turn
  PROVE  Unsent' /\ \A u \in Turns : Sendable(u)' = Sendable(u)
BY DEF OnceInv, Unsent, Sendable

\* A consumer that is done, or past its dispatch, holds nothing.
LEMMA DoneHolds ==
  ASSUME TypeOK, NEW c \in Consumers,
         Done(c) \/ Goto(c, "register") \/ Goto(c, "report"), NEW t \in Turns
  PROVE  Holders(t)' = Holders(t) \ {c}
<1>1. consumer \in [Consumers -> [pc : {"idle", "submit", "dispatch", "register", "report"},
                       msg : Messages, box : Turns \cup {NoBox}, fresh : BOOLEAN]]
  BY TypeParts DEF ConsumersOK
<1>2. \A d \in Consumers \ {c} : consumer'[d] = consumer[d]
  BY <1>1 DEF Done, Goto
<1>3. consumer'[c].pc \notin {"submit", "dispatch"}
  BY <1>1 DEF Done, Goto, IdleConsumer
<1> QED BY <1>2, <1>3 DEF Holders

\* Executions keep their turns until the end, whatever becomes of them.
LEMMA RunsKeep ==
  ASSUME OnceInv,
         \A r \in Runs : /\ run'[r].turn = run[r].turn
                         /\ run'[r].pc = "free" => run[r].pc = "free"
  PROVE  FreeRuns' /\ \A t \in Turns : Executions(t)' = Executions(t)
BY DEF OnceInv, FreeRuns, Executions

LEMMA StoppedKeeps ==
  ASSUME TypeOK, OnceInv, NEW b, NEW state, Stopped(b, state)
  PROVE  FreeRuns' /\ \A t \in Turns : Executions(t)' = Executions(t)
<1>1. Runs \subseteq DOMAIN run
  BY TypeParts DEF RunsOK
<1>2. ASSUME NEW r \in Runs
      PROVE  run'[r].turn = run[r].turn /\ (run'[r].pc = "free" => run[r].pc = "free")
  BY <1>1 DEF Stopped, Over
<1> QED BY <1>2, RunsKeep

LEMMA OverKeeps ==
  ASSUME TypeOK, OnceInv, NEW r \in DOMAIN run, run' = [run EXCEPT ![r] = Over(r)]
  PROVE  FreeRuns' /\ \A t \in Turns : Executions(t)' = Executions(t)
<1>1. Runs \subseteq DOMAIN run
  BY TypeParts DEF RunsOK
<1>2. ASSUME NEW q \in Runs
      PROVE  run'[q].turn = run[q].turn /\ (run'[q].pc = "free" => run[q].pc = "free")
  BY <1>1 DEF Over
<1> QED BY <1>2, RunsKeep

LEMMA SameKeeps ==
  ASSUME OnceInv, UNCHANGED run
  PROVE  FreeRuns' /\ \A t \in Turns : Executions(t)' = Executions(t)
BY RunsKeep

\* n executions that start are n tokens of their turn.
LEMMA StartedTokens ==
  ASSUME TypeOK, OnceInv, NEW t \in Turns, NEW b, NEW n \in 0..2, Started(t, b, n)
  PROVE  /\ FreeRuns'
         /\ \A u \in Turns :
              Cardinality(Executions(u)') = Cardinality(Executions(u)) + (IF u = t THEN n ELSE 0)
<1>1. PICK rs \in SUBSET {r \in Runs : run[r].pc = "free"} :
        /\ Cardinality(rs) = n
        /\ run' = [r \in DOMAIN run |-> IF r \in rs
                     THEN [pc |-> "running", turn |-> t, box |-> b, outcome |-> "none"]
                     ELSE run[r]]
  BY DEF Started
<1>2. Runs \subseteq DOMAIN run
  BY TypeParts DEF RunsOK
<1>3. FreeRuns'
  BY <1>1, <1>2 DEF OnceInv, FreeRuns
<1>4. ASSUME NEW u \in Turns
      PROVE  Cardinality(Executions(u)') = Cardinality(Executions(u)) + (IF u = t THEN n ELSE 0)
  <2>1. CASE u # t
    <3>1. Executions(u)' = Executions(u)
      <4>1. \A r \in rs : run[r].turn # u /\ run'[r].turn # u
        BY <1>1, <1>2, <2>1, DispatchBoundsAssumption DEF OnceInv, FreeRuns, Turns, NoTurn
      <4>2. \A r \in Runs \ rs : run'[r] = run[r]
        BY <1>1, <1>2
      <4> QED BY <4>1, <4>2 DEF Executions
    <3> QED BY <2>1, <3>1, Counted
  <2>2. CASE u = t
    <3>1. \A r \in rs : r \in Runs /\ run[r].turn # t /\ run'[r].turn = t
      BY <1>1, <1>2, DispatchBoundsAssumption DEF OnceInv, FreeRuns, Turns, NoTurn
    <3>2. \A r \in Runs \ rs : run'[r] = run[r]
      BY <1>1, <1>2
    <3>3. Executions(t)' = Executions(t) \cup rs /\ Executions(t) \cap rs = {}
      BY <3>1, <3>2 DEF Executions
    <3>4. IsFiniteSet(rs)
      <4>1. IsFiniteSet(Runs)
        BY DispatchBoundsAssumption, FS_Interval DEF Runs
      <4> QED BY <1>1, <4>1, FS_Subset
    <3>5. Cardinality(Executions(t) \cup rs) = Cardinality(Executions(t)) + n - 0
      BY <1>1, <3>3, <3>4, Counted, FS_Union, FS_EmptySet
    <3> QED BY <2>2, <3>3, <3>5, Counted
  <2> QED BY <2>1, <2>2
<1> QED BY <1>3, <1>4

LEMMA PostedTokens ==
  ASSUME TypeOK, TypeOK', OnceInv, NEW t \in Turns, NEW copies \in 0..2,
         NEW status \in Statuses, status = turn[t].status \/ status # "NONE",
         Posted(t, copies, status), faults' + 1 >= faults + copies, faults' >= faults
  PROVE  OnceInv'
<1> DEFINE marked == Applied(t, status, NoBox)
<1>1. turn[t].send = "post" /\ turn[t].status # "NONE"
  BY DEF Posted, OnceInv, Unsent
<1>2. /\ turn'[t].send = "done" /\ turn'[t].status # "NONE"
      /\ \A u \in Turns \ {t} : turn'[u] = turn[u]
  <2>1. turn \in [Turns -> [status : Statuses, box : Turns \cup {NoBox},
                           send : {"no", "mark", "post", "done"}]]
    BY TypeParts DEF TurnsOK
  <2>2. marked \in [Turns -> [status : Statuses, box : Turns \cup {NoBox},
                             send : {"no", "mark", "post", "done"}]]
    BY TypeParts, AppliedOK
  <2>3. marked[t].status = status /\ \A u \in Turns \ {t} : marked[u] = turn[u]
    BY <2>1 DEF Applied
  <2>4. turn' = [marked EXCEPT ![t].send = "done"]
    BY DEF Posted
  <2> HIDE DEF marked
  <2> QED BY <1>1, <2>2, <2>3, <2>4
<1>3. Unsent'
  BY <1>2 DEF OnceInv, Unsent
<1>4. FreeRuns' /\ \A u \in Turns : Executions(u)' = Executions(u) /\ Holders(u)' = Holders(u)
  BY SameKeeps DEF Posted, boxes, Holders
<1>5. Message(t) \in Posts /\ Message(t).turn = t
  BY TypeParts, DispatchBoundsAssumption DEF TurnsOK, Message, Posts
<1>6. queue \in Seq(Posts)
  BY TypeParts DEF QueueOK
<1>7. ASSUME NEW u \in Turns
      PROVE  Cardinality(Places(queue', u))
               = Cardinality(Places(queue, u)) + (IF u = t THEN copies ELSE 0)
  <2>1. CASE copies = 0
    <3>1. queue' = queue
      BY <1>6, <2>1 DEF Posted
    <3> QED BY <2>1, <3>1, Counted
  <2>2. CASE copies = 1
    <3>1. queue' = Append(queue, Message(t))
      BY <1>6, <2>2 DEF Posted
    <3> QED BY <1>5, <1>6, <2>2, <3>1, AppendPlaces
  <2>3. CASE copies = 2
    <3> DEFINE once == Append(queue, Message(t))
    <3>1. once \in Seq(Posts)
      BY <1>5, <1>6
    <3>2. queue' = Append(once, Message(t))
      BY <1>5, <1>6, <2>3 DEF Posted
    <3>3. Cardinality(Places(once, u)) = Cardinality(Places(queue, u)) + (IF u = t THEN 1 ELSE 0)
      BY <1>5, <1>6, AppendPlaces
    <3> HIDE DEF once
    <3>4. Cardinality(Places(queue', u)) = Cardinality(Places(once, u)) + (IF u = t THEN 1 ELSE 0)
      BY <1>5, <3>1, <3>2, AppendPlaces
    <3> QED BY <2>3, <3>3, <3>4, Counted
  <2> QED BY <2>1, <2>2, <2>3
<1>8. Once'
  <2> SUFFICES ASSUME NEW u \in Turns PROVE Tokens(u)' <= 1 + faults'
    BY DEF Once
  <2>1. Sendable(u)' = IF u = t THEN Sendable(u) - 1 ELSE Sendable(u)
    BY <1>1, <1>2 DEF Sendable
  <2>2. Tokens(u) <= 1 + faults
    BY DEF OnceInv, Once
  <2>3. faults' \in Nat
    BY DispatchBoundsAssumption DEF TypeOK
  <2>4. Tokens(u)' = Sendable(u)' + Cardinality(Places(queue', u)) + Cardinality(Holders(u))
                       + Cardinality(Executions(u))
    BY <1>4 DEF Tokens
  <2> QED BY <1>7, <2>1, <2>2, <2>3, <2>4, Counted DEF Tokens
<1> QED BY <1>3, <1>4, <1>8 DEF OnceInv

LEMMA OnceBackend ==
  ASSUME TypeOK, TypeOK', OnceInv, NEW t \in Turns,
         CreateTurn(t) \/ SenderNext(t) \/ PostRepeated(t) \/ PostFails(t) \/ SenderStops(t)
  PROVE  OnceInv'
<1>1. turn \in [Turns -> [status : Statuses, box : Turns \cup {NoBox},
                         send : {"no", "mark", "post", "done"}]]
  BY TypeParts DEF TurnsOK
<1>2. faults \in Nat
  BY DispatchBoundsAssumption DEF TypeOK
<1>3. ASSUME Unsent', \A u \in Turns : Sendable(u)' <= Sendable(u), faults' >= faults,
             UNCHANGED << manager, run >>
      PROVE  OnceInv'
  <2>1. FreeRuns' /\ \A u \in Turns : Executions(u)' = Executions(u)
    BY <1>3, SameKeeps
  <2>2. UNCHANGED queue /\ \A u \in Turns : Holders(u)' \subseteq Holders(u)
    BY <1>3 DEF manager, Holders
  <2> QED BY <1>3, <2>1, <2>2, Fewer DEF OnceInv
<1>4. CASE CreateTurn(t)
  <2>1. turn[t].send = "no" /\ turn'[t].send = "mark" /\ turn'[t].status = "PENDING"
    BY <1>1, <1>4 DEF CreateTurn, OnceInv, Unsent
  <2>2. \A u \in Turns \ {t} : turn'[u] = turn[u]
    BY <1>1, <1>4 DEF CreateTurn
  <2>3. Unsent' /\ \A u \in Turns : Sendable(u)' <= Sendable(u)
    BY <2>1, <2>2 DEF OnceInv, Unsent, Sendable
  <2> QED BY <1>2, <1>3, <1>4, <2>3 DEF CreateTurn, boxes, ends
<1>5. CASE UpdateToRunning(t)
  <2> DEFINE marked == Applied(t, "RUNNING", NoBox)
  <2>1. marked \in [Turns -> [status : Statuses, box : Turns \cup {NoBox},
                              send : {"no", "mark", "post", "done"}]]
    BY TypeParts, AppliedOK DEF Statuses
  <2>2. marked[t].status = "RUNNING" /\ \A u \in Turns \ {t} : marked[u] = turn[u]
    BY <1>1 DEF Applied
  <2>3. turn' = [marked EXCEPT ![t].send = "post"] /\ turn[t].send = "mark"
    BY <1>5 DEF UpdateToRunning
  <2> HIDE DEF marked
  <2>4. /\ turn'[t].send = "post" /\ turn'[t].status = "RUNNING"
        /\ \A u \in Turns \ {t} : turn'[u] = turn[u]
    BY <2>1, <2>2, <2>3
  <2>5. Unsent' /\ \A u \in Turns : Sendable(u)' <= Sendable(u)
    BY <2>3, <2>4 DEF OnceInv, Unsent, Sendable
  <2> QED BY <1>2, <1>3, <1>5, <2>5 DEF UpdateToRunning, boxes, ends
<1>6. CASE PostResponses(t)
  BY <1>1, <1>2, <1>6, PostedTokens DEF PostResponses, ends
<1>7. CASE PostRepeated(t)
  BY <1>1, <1>2, <1>7, PostedTokens DEF PostRepeated, Fault
<1>8. CASE PostFails(t)
  BY <1>2, <1>8, PostedTokens DEF PostFails, Fault, Statuses, Terminal
<1>9. CASE SenderStops(t)
  <2>1. turn[t].send \in {"mark", "post"} /\ turn'[t].send = "done"
          /\ turn'[t].status = turn[t].status /\ \A u \in Turns \ {t} : turn'[u] = turn[u]
    BY <1>1, <1>9 DEF SenderStops
  <2>2. Unsent' /\ \A u \in Turns : Sendable(u)' <= Sendable(u)
    BY <2>1 DEF OnceInv, Unsent, Sendable
  <2> QED BY <1>2, <1>3, <1>9, <2>2 DEF SenderStops, Fault, boxes
<1> QED BY <1>4, <1>5, <1>6, <1>7, <1>8, <1>9 DEF SenderNext

LEMMA OnceConsumer ==
  ASSUME TypeOK, TypeOK', OnceInv, NEW c \in Consumers,
         ConsumerNext(c) \/ ProcessFails(c) \/ StartFails(c) \/ ConsumerStops(c)
  PROVE  OnceInv'
<1>1. consumer \in [Consumers -> [pc : {"idle", "submit", "dispatch", "register", "report"},
                       msg : Messages, box : Turns \cup {NoBox}, fresh : BOOLEAN]]
  BY TypeParts DEF ConsumersOK
<1>2. faults \in Nat /\ faults' \in Nat
  BY DispatchBoundsAssumption DEF TypeOK
<1>3. queue \in Seq(Posts)
  BY TypeParts DEF QueueOK
<1> DEFINE m == consumer[c].msg
\* What the actions share that neither start an execution nor touch the queue.
<1>4. ASSUME FreeRuns', \A u \in Turns : Executions(u)' = Executions(u),
             \A u \in Turns : Holders(u)' \subseteq Holders(u),
             Unsent', \A u \in Turns : Sendable(u)' <= Sendable(u),
             UNCHANGED queue, faults' >= faults
      PROVE  OnceInv'
  BY <1>4, Fewer DEF OnceInv
<1>5. CASE Dequeue(c)
  <2>1. FreeRuns' /\ \A u \in Turns : Executions(u)' = Executions(u)
    BY <1>5, SameKeeps DEF Dequeue, boxes
  <2>2. Unsent' /\ \A u \in Turns : Sendable(u)' = Sendable(u)
    BY <1>5, TurnKeeps DEF Dequeue, backend
  <2>3. ASSUME NEW u \in Turns PROVE Tokens(u)' <= 1 + faults'
    <3>1. Cardinality(Places(queue, u))
            = Cardinality(Places(queue', u)) + (IF Head(queue).turn = u THEN 1 ELSE 0)
      BY <1>3, <1>5, TailPlaces DEF Dequeue
    <3>2. \A d \in Consumers \ {c} : consumer'[d] = consumer[d]
      BY <1>1, <1>5 DEF Dequeue
    <3>3. consumer'[c].pc = "submit" /\ consumer'[c].msg = Head(queue) /\ consumer[c].pc = "idle"
      BY <1>1, <1>5 DEF Dequeue
    <3>4. c \notin Holders(u)
            /\ Holders(u)' = IF Head(queue).turn = u THEN Holders(u) \cup {c} ELSE Holders(u)
      BY <3>2, <3>3 DEF Holders
    <3>5. Cardinality(Holders(u)')
            = Cardinality(Holders(u)) + (IF Head(queue).turn = u THEN 1 ELSE 0)
      <4>1. IsFiniteSet(Holders(u))
        BY Counted
      <4>2. Cardinality(Holders(u) \cup {c}) = Cardinality(Holders(u)) + 1
        BY <3>4, <4>1, FS_AddElement
      <4>3. CASE Head(queue).turn = u
        BY <3>4, <4>2, <4>3
      <4>4. CASE Head(queue).turn # u
        BY <3>4, <4>4, Counted
      <4> QED BY <4>3, <4>4
    <3>6. faults' = faults /\ Tokens(u) <= 1 + faults
      BY <1>5 DEF Dequeue, ends, OnceInv, Once
    <3>7. Cardinality(Places(queue', u)) \in Nat
      <4>1. queue' \in Seq(Posts)
        BY <1>3, <1>5 DEF Dequeue
      <4>2. IsFiniteSet(1..Len(queue'))
        BY <4>1, FS_Interval
      <4> QED BY <4>2, FS_Subset, FS_CardinalityType DEF Places
    <3>8. Tokens(u)' = Sendable(u) + Cardinality(Places(queue', u)) + Cardinality(Holders(u)')
                         + Cardinality(Executions(u))
      BY <2>1, <2>2 DEF Tokens
    <3> QED BY <3>1, <3>5, <3>6, <3>7, <3>8, Counted DEF Tokens
  <2> QED BY <2>1, <2>2, <2>3 DEF OnceInv, Once
<1>6. CASE ReportFailure(c)
  <2>1. Unsent' /\ \A u \in Turns : Sendable(u)' = Sendable(u)
    <3>1. m.turn \in Turns
      BY <1>6, MessageOK DEF ReportFailure, Posts
    <3> QED BY <1>6, <3>1, AppliedKeeps, TurnKeeps DEF ReportFailure, Statuses, Terminal
  <2> QED BY <1>2, <1>4, <1>6, <2>1, Counted, DoneHolds, SameKeeps
          DEF ReportFailure, boxes, ends, Fault
<1>7. ASSUME UNCHANGED turn, UNCHANGED queue, FreeRuns', faults' >= faults,
             \A u \in Turns : Executions(u)' = Executions(u),
             \A u \in Turns : Holders(u)' \subseteq Holders(u)
      PROVE  OnceInv'
  BY <1>4, <1>7, TurnKeeps, Counted
<1>8. CASE SubmitToBox(c)
  <2>1. \A u \in Turns : Holders(u)' = Holders(u)
    BY <1>1, <1>8 DEF SubmitToBox, Holders
  <2> QED BY <1>2, <1>7, <1>8, <2>1, SameKeeps DEF SubmitToBox, backend, boxes, ends
<1>9. CASE SubmitNew(c)
  <2>1. \A u \in Turns : Holders(u)' = Holders(u)
    BY <1>1, <1>9 DEF SubmitNew, Holders
  <2> QED BY <1>2, <1>7, <1>9, <2>1, SameKeeps DEF SubmitNew, backend, ends
<1>10. CASE SubmitFails(c)
  BY <1>2, <1>7, <1>10, DoneHolds, SameKeeps DEF SubmitFails, backend, ends, Fault
<1>11. CASE Dispatch(c)
  <2>1. m.turn \in Turns /\ consumer[c].pc = "dispatch"
    BY <1>11, MessageOK DEF Dispatch, Posts
  <2>2. PICK n \in 1..2 : Started(m.turn, consumer[c].box, n) /\ faults' >= faults + n - 1
    BY <1>2, <1>11 DEF Dispatch, Fault, ends
  <2>3. FreeRuns' /\ \A u \in Turns : Cardinality(Executions(u)')
                       = Cardinality(Executions(u)) + (IF u = m.turn THEN n ELSE 0)
    BY <2>1, <2>2, StartedTokens
  <2>4. Done(c) \/ Goto(c, "register")
    BY <1>11 DEF Dispatch, AfterDispatch
  <2>5. Unsent' /\ \A u \in Turns : Sendable(u)' = Sendable(u)
    BY <1>11, TurnKeeps DEF Dispatch, backend
  <2>6. ASSUME NEW u \in Turns PROVE Tokens(u)' <= 1 + faults'
    <3>1. Holders(u)' = Holders(u) \ {c} /\ (c \in Holders(u) <=> u = m.turn)
      BY <2>1, <2>4, DoneHolds DEF Holders
    <3>2. Cardinality(Holders(u)') = Cardinality(Holders(u)) - (IF u = m.turn THEN 1 ELSE 0)
      <4>1. IsFiniteSet(Holders(u)) /\ Cardinality(Holders(u)) \in Nat
        BY Counted
      <4>2. Cardinality(Holders(u) \ {c})
              = IF c \in Holders(u) THEN Cardinality(Holders(u)) - 1 ELSE Cardinality(Holders(u))
        BY <4>1, FS_RemoveElement
      <4> QED BY <3>1, <4>1, <4>2
    <3>3. Tokens(u)' = Sendable(u) + Cardinality(Places(queue, u)) + Cardinality(Holders(u)')
                         + Cardinality(Executions(u)')
      BY <1>11, <2>5 DEF Tokens, Dispatch
    <3>4. Tokens(u) <= 1 + faults
      BY DEF OnceInv, Once
    <3> QED BY <1>2, <2>2, <2>3, <3>2, <3>3, <3>4, Counted DEF Tokens
  <2> QED BY <2>3, <2>5, <2>6 DEF OnceInv, Once
<1>12. CASE StartFails(c)
  <2>1. FreeRuns' /\ \A u \in Turns : Executions(u)' = Executions(u)
    BY <1>12, StoppedKeeps, SameKeeps DEF StartFails, boxes
  <2>2. \A u \in Turns : Holders(u)' \subseteq Holders(u)
    <3>1. CASE UNCHANGED consumer
      BY <3>1 DEF Holders
    <3>2. CASE AfterDispatch(c)
      BY <3>2, DoneHolds DEF AfterDispatch
    <3> QED BY <1>12, <3>1, <3>2 DEF StartFails
  <2> QED BY <1>2, <1>7, <1>12, <2>1, <2>2 DEF StartFails, backend, Fault
<1>13. CASE DispatchFails(c)
  <2>1. FreeRuns' /\ \A u \in Turns : Executions(u)' = Executions(u)
    BY <1>13, StoppedKeeps, SameKeeps DEF DispatchFails, boxes
  <2> QED BY <1>2, <1>7, <1>13, <2>1, DoneHolds DEF DispatchFails, backend, ends, Fault
<1>14. CASE Register(c)
  BY <1>2, <1>7, <1>14, DoneHolds, SameKeeps DEF Register, backend, boxes, ends
<1>15. CASE ProcessFails(c)
  <2>1. FreeRuns' /\ \A u \in Turns : Executions(u)' = Executions(u)
    BY <1>15, SameKeeps DEF ProcessFails, boxes
  <2>2. CASE m.retries < MaxRequeues
    <3> DEFINE again == [m EXCEPT !.retries = @ + 1]
    <3>1. m \in Posts /\ consumer[c].pc = "submit"
      BY <1>15, MessageOK DEF ProcessFails
    <3>2. again \in Posts /\ again.turn = m.turn
      BY <2>2, <3>1, DispatchBoundsAssumption DEF Posts
    <3>3. queue' = Append(queue, again) /\ Done(c)
      BY <1>15, <2>2 DEF ProcessFails, Requeue
    <3> HIDE DEF again
    <3>4. Unsent' /\ \A u \in Turns : Sendable(u)' = Sendable(u)
      BY <1>15, TurnKeeps DEF ProcessFails, backend
    <3>5. ASSUME NEW u \in Turns PROVE Tokens(u)' <= 1 + faults'
      <4>1. Cardinality(Places(queue', u))
              = Cardinality(Places(queue, u)) + (IF u = m.turn THEN 1 ELSE 0)
        BY <1>3, <3>2, <3>3, AppendPlaces
      <4>2. Holders(u)' = Holders(u) \ {c} /\ (c \in Holders(u) <=> u = m.turn)
        BY <3>1, <3>3, DoneHolds DEF Holders
      <4>3. Cardinality(Holders(u)') = Cardinality(Holders(u)) - (IF u = m.turn THEN 1 ELSE 0)
        <5>1. IsFiniteSet(Holders(u)) /\ Cardinality(Holders(u)) \in Nat
          BY Counted
        <5>2. Cardinality(Holders(u) \ {c})
                = IF c \in Holders(u) THEN Cardinality(Holders(u)) - 1 ELSE Cardinality(Holders(u))
          BY <5>1, FS_RemoveElement
        <5> QED BY <4>2, <5>1, <5>2
      <4>4. Tokens(u)' = Sendable(u) + Cardinality(Places(queue', u)) + Cardinality(Holders(u)')
                           + Cardinality(Executions(u))
        BY <2>1, <3>4 DEF Tokens
      <4>5. Tokens(u) <= 1 + faults /\ faults' = faults
        BY <1>15 DEF OnceInv, Once, ProcessFails, ends
      <4> QED BY <4>1, <4>3, <4>4, <4>5, Counted DEF Tokens
    <3> QED BY <2>1, <3>4, <3>5 DEF OnceInv, Once
  <2>3. CASE ~(m.retries < MaxRequeues)
    BY <1>2, <1>7, <1>15, <2>1, <2>3, DoneHolds DEF ProcessFails, Requeue, backend, ends
  <2> QED BY <2>2, <2>3
<1>16. CASE ConsumerStops(c)
  BY <1>2, <1>7, <1>16, DoneHolds, SameKeeps DEF ConsumerStops, backend, boxes, Fault
<1> QED BY <1>5, <1>6, <1>8, <1>9, <1>10, <1>11, <1>12, <1>13, <1>14, <1>15, <1>16
        DEF ConsumerNext

\* Everything else leaves the queue, the consumers and the turns of the
\* executions alone, and a turn that was created stays so.
LEMMA OnceRest ==
  ASSUME TypeOK, TypeOK', OnceInv,
         \/ \E r \in DOMAIN run : EndRun(r) \/ CallbackNext(r) \/ AgentFails(r) \/ ForwardFails(r)
         \/ \E b \in Turns : \/ RequestCancel(b) \/ CancelInBox(b) \/ ChooseBox(b) \/ ExitBox(b)
                            \/ BoxCrash(b)
         \/ CancelFails \/ CancelCleanup \/ DeleteBox
         \/ \E k \in Checkers : CheckerNext(k) \/ InspectFails(k)
         \/ UNCHANGED vars
  PROVE  OnceInv'
<1>1. faults \in Nat /\ faults' \in Nat
  BY DispatchBoundsAssumption DEF TypeOK
<1>2. ASSUME FreeRuns', \A u \in Turns : Executions(u)' = Executions(u),
             Unsent', \A u \in Turns : Sendable(u)' = Sendable(u),
             UNCHANGED << queue, consumer >>, faults' >= faults
      PROVE  OnceInv'
  <2>1. \A u \in Turns : Holders(u)' \subseteq Holders(u)
    BY <1>2 DEF Holders
  <2>2. \A u \in Turns : Sendable(u)' <= Sendable(u)
    BY <1>2, Counted
  <2> QED BY <1>2, <2>1, <2>2, Fewer DEF OnceInv
<1>3. ASSUME NEW r \in DOMAIN run,
             EndRun(r) \/ CallbackNext(r) \/ AgentFails(r) \/ ForwardFails(r)
      PROVE  OnceInv'
  <2>1. Runs \subseteq DOMAIN run
    BY TypeParts DEF RunsOK
  <2>2. FreeRuns' /\ \A u \in Turns : Executions(u)' = Executions(u)
    <3>1. CASE run' = [run EXCEPT ![r] = Over(r)]
      BY <3>1, OverKeeps
    <3>2. CASE UNCHANGED run
      BY <3>2, SameKeeps
    <3>3. CASE EndRun(r) \/ Forward(r)
      <4>1. run \in [{Cancellation} \cup Runs ->
                      [pc : {"free", "running", "event", "forwarded", "over"},
                       turn : Turns \cup {NoTurn}, box : Turns \cup {NoBox},
                       outcome : Terminal \cup {"none"}]]
        BY TypeParts DEF RunsOK
      <4>2. ASSUME NEW q \in Runs
            PROVE  run'[q].turn = run[q].turn /\ (run'[q].pc = "free" => run[q].pc = "free")
        BY <3>3, <4>1 DEF EndRun, Forward
      <4> QED BY <4>2, RunsKeep
    <3> QED BY <1>3, <3>1, <3>2, <3>3 DEF CallbackNext, Cleanup, AgentFails, ForwardFails
  <2>3. Unsent' /\ \A u \in Turns : Sendable(u)' = Sendable(u)
    <3>1. CASE UNCHANGED turn
      BY <3>1, TurnKeeps
    <3>2. ASSUME run[r].pc = "event", turn' = Applied(run[r].turn, run[r].outcome, run[r].box)
          PROVE  Unsent' /\ \A u \in Turns : Sendable(u)' = Sendable(u)
      <4>1. run[r].turn \in Turns /\ run[r].outcome \in Statuses \ {"NONE"}
        BY <3>2, TypeParts DEF RunsOK, Statuses, Terminal
      <4> QED BY <3>2, <4>1, AppliedKeeps
    <3> QED BY <1>3, <3>1, <3>2 DEF EndRun, CallbackNext, Forward, Cleanup, AgentFails,
               ForwardFails, backend
  <2> QED BY <1>1, <1>2, <1>3, <2>2, <2>3 DEF EndRun, CallbackNext, Forward, Cleanup, AgentFails,
             ForwardFails, Fault, ends, manager
<1>4. ASSUME UNCHANGED << turn, queue, consumer >>, faults' >= faults,
             FreeRuns', \A u \in Turns : Executions(u)' = Executions(u)
      PROVE  OnceInv'
  BY <1>2, <1>4, TurnKeeps
<1>5. ASSUME NEW b \in Turns,
             RequestCancel(b) \/ CancelInBox(b) \/ ChooseBox(b) \/ ExitBox(b) \/ BoxCrash(b)
      PROVE  OnceInv'
  <2>1. CASE RequestCancel(b) \/ ChooseBox(b)
    BY <1>1, <1>4, <2>1, SameKeeps DEF RequestCancel, ChooseBox, manager, boxes, Incident
  <2>2. CASE CancelInBox(b)
    <3>1. FreeRuns' /\ \A u \in Turns : Executions(u)' = Executions(u)
      <4>1. Runs \subseteq DOMAIN run /\ Cancellation \notin Runs
        BY TypeParts DEF RunsOK, Runs, Cancellation
      <4>2. ASSUME NEW q \in Runs
            PROVE  run'[q].turn = run[q].turn /\ (run'[q].pc = "free" => run[q].pc = "free")
        BY <2>2, <4>1 DEF CancelInBox, Over
      <4> QED BY <4>2, RunsKeep
    <3> QED BY <1>1, <1>4, <2>2, <3>1 DEF CancelInBox, manager, ends
  <2>3. CASE ExitBox(b)
    BY <1>1, <1>4, <2>3, StoppedKeeps DEF ExitBox, backend, manager, ends
  <2>4. CASE BoxCrash(b)
    BY <1>1, <1>4, <2>4, StoppedKeeps DEF BoxCrash, backend, manager, Incident
  <2> QED BY <1>5, <2>1, <2>2, <2>3, <2>4
<1>6. ASSUME CancelFails \/ CancelCleanup \/ DeleteBox PROVE OnceInv'
  <2>1. FreeRuns' /\ \A u \in Turns : Executions(u)' = Executions(u)
    BY <1>6, StoppedKeeps, SameKeeps DEF CancelFails, CancelCleanup, DeleteBox, boxes
  <2> QED BY <1>1, <1>4, <1>6, <2>1 DEF CancelFails, CancelCleanup, DeleteBox, manager, ends
<1>7. ASSUME NEW k \in Checkers, CheckerNext(k) \/ InspectFails(k) PROVE OnceInv'
  <2>1. FreeRuns' /\ \A u \in Turns : Executions(u)' = Executions(u)
    BY <1>7, SameKeeps DEF CheckerNext, CheckHeartbeats, Inspect, Report, CheckerCleanup,
       InspectFails, boxes
  <2>2. Unsent' /\ \A u \in Turns : Sendable(u)' = Sendable(u)
    <3>1. CASE UNCHANGED turn
      BY <3>1, TurnKeeps
    <3>2. CASE checker[k].pc = "report" /\ turn' = Applied(checker[k].turn, "FAILED", checker[k].box)
      <4>1. checker[k].turn \in Turns
        BY <3>2, TypeParts DEF CheckersOK
      <4> QED BY <3>2, <4>1, AppliedKeeps DEF Statuses, Terminal
    <3> QED BY <1>7, <3>1, <3>2 DEF CheckerNext, CheckHeartbeats, Inspect, Report,
               CheckerCleanup, InspectFails, backend
  <2> QED BY <1>1, <1>2, <1>7, <2>1, <2>2 DEF CheckerNext, CheckHeartbeats, Inspect, Report,
             CheckerCleanup, InspectFails, Fault, Incident, ends
<1>8. ASSUME UNCHANGED vars PROVE OnceInv'
  BY <1>1, <1>4, <1>8, SameKeeps DEF vars, backend, manager, boxes, ends
<1> QED BY <1>3, <1>5, <1>6, <1>7, <1>8

LEMMA OnceStep == TypeOK /\ TypeOK' /\ OnceInv /\ [Next]_vars => OnceInv'
BY OnceBackend, OnceConsumer, OnceRest DEF Next, UserNext, FaultNext

LEMMA OnceInit == Init => OnceInv
<1> SUFFICES ASSUME Init PROVE OnceInv
  OBVIOUS
<1>1. FreeRuns /\ Unsent
  BY DEF Init, FreeRuns, Unsent, Runs
<1>2. ASSUME NEW t \in Turns PROVE Tokens(t) <= 1 + faults
  <2>1. Sendable(t) = 1 /\ faults = 0
    BY <1>2 DEF Init, Sendable
  <2>2. Places(queue, t) = {} /\ Holders(t) = {}
    BY DEF Init, Places, Holders, IdleConsumer
  <2>3. Executions(t) = {}
    BY DispatchBoundsAssumption DEF Init, Executions, Runs, Turns, NoTurn
  <2> QED BY <2>1, <2>2, <2>3, FS_EmptySet DEF Tokens
<1> QED BY <1>1, <1>2 DEF OnceInv, Once

\* A turn is executed once, and once more for each fault at most: however many
\* consumers, requeues, checks and dying boxes there are, nothing but a
\* repeated POST or dispatch executes it again.
THEOREM RunsOnce == Spec => []ExecutedOncePerFault
<1>1. TypeOK /\ OnceInv => ExecutedOncePerFault
  <2> SUFFICES ASSUME TypeOK, OnceInv, NEW t \in Turns
               PROVE  Cardinality(Executions(t)) <= 1 + faults
    BY DEF ExecutedOncePerFault
  <2>1. Tokens(t) <= 1 + faults
    BY DEF OnceInv, Once
  <2> QED BY <2>1, Counted DEF Tokens
<1> QED BY <1>1, TypeInit, TypeStep, OnceInit, OnceStep, PTL DEF Spec
=============================================================================
