------------------------- MODULE SandboxManagerProofs -------------------------
(***************************************************************************)
(* Theorems about SandboxManager: its types, that a running sandbox is     *)
(* watched, and that every container left running for good is accounted    *)
(* for, whatever the numbers of requests, containers and executions.       *)
(***************************************************************************)
EXTENDS SandboxManager, FiniteSetTheorems, TLAPS

(***************************************************************************)
(* The inductive invariant.  A claim is a container that runs, or a        *)
(* request that starts one; every claim but one is charged to a failure or *)
(* a crossing.  One more is sound as long as every save that is still to   *)
(* come names a container that runs and that no request waits for.         *)
(***************************************************************************)
Waited(b) == \E r \in Requests : request[r] = [pc |-> "wait", box |-> b]
Unclaimed == {b \in Boxes : box[b] = "up" /\ ~Waited(b)}
Creating == {r \in Requests : request[r].pc # "idle"}
Claims == Cardinality(Unclaimed) + Cardinality(Creating)
Charges == faults + misjudged + restarts + crossed

Sound(r) == r.st = "running" /\ r.box \in Unclaimed

OneHeld ==
  /\ rec.st = "running" => Sound(rec)
  /\ Creating = {} => rec.st = "running"
  /\ \A e \in Executions : runner[e].pc # "idle" => Sound(runner[e].copy)

Accounted == Claims <= Charges \/ (Claims <= Charges + 1 /\ OneHeld)

IInv == TypeOK /\ RunningIsWatched /\ Accounted

(***************************************************************************)
(* Types                                                                   *)
(***************************************************************************)
LEMMA InitIInv == Init => IInv
<1> SUFFICES ASSUME Init PROVE IInv
  OBVIOUS
<1>1. TypeOK
  <2>1. rec \in Records /\ entry = "none" /\ beat = FALSE /\ checker = "idle"
    BY DEF Init, NoRecord, Records, Statuses
  <2>2. /\ ex \in [Executions -> {"none", "pending", "running", "failed"}]
        /\ box \in [Boxes -> {"none", "up", "dead"}]
    BY DEF Init
  <2>3. request \in [Requests -> [pc : {"idle", "start", "wait"}, box : Boxes \cup {Unnamed}]]
    BY DEF Init, IdleRequest
  <2>4. runner \in [Executions -> [pc : {"idle", "run", "post", "accepted"}, copy : Records]]
    BY DEF Init, IdleRunner, NoRecord, Records, Statuses
  <2>5. job \in [Executions -> [st : {"none", "running", "done"}, box : Boxes \cup {Unnamed}]]
    BY DEF Init, NoJob
  <2>6. {faults, misjudged, deaths, restarts} \subseteq 0..MaxTrouble /\ crossed \in 0..MaxCrossed
    BY SandboxBoundsAssumption DEF Init
  <2> QED BY <2>1, <2>2, <2>3, <2>4, <2>5, <2>6 DEF TypeOK
<1>2. RunningIsWatched
  BY DEF Init, RunningIsWatched, NoRecord
<1>3. Unclaimed = {} /\ Creating = {}
  BY DEF Init, Unclaimed, Creating, IdleRequest
<1>4. Claims = 0 /\ Charges = 0
  BY <1>3, FS_EmptySet DEF Init, Claims, Charges
<1> QED BY <1>1, <1>2, <1>4 DEF IInv, Accounted

LEMMA TroubleBounds ==
  ASSUME TypeOK, Troubled
  PROVE  {faults + 1, misjudged + 1, deaths + 1, restarts + 1} \subseteq 0..MaxTrouble
BY SandboxBoundsAssumption DEF TypeOK, Troubled

LEMMA RecordsKept ==
  /\ NoRecord \in Records /\ Provisioning \in Records
  /\ \A b \in Boxes \cup {Unnamed} : \A st \in Statuses : [st |-> st, box |-> b] \in Records
  /\ \A r \in Records : \A st \in Statuses : [r EXCEPT !.st = st] \in Records
BY DEF NoRecord, Provisioning, Records, Statuses

LEMMA DeleteBoxType ==
  ASSUME TypeOK, NEW b, DeleteBox(b)
  PROVE  /\ box' \in [Boxes -> {"none", "up", "dead"}]
         /\ faults' \in 0..MaxTrouble
BY TroubleBounds DEF TypeOK, DeleteBox

LEMMA JudgedType ==
  ASSUME TypeOK, NEW r, NEW healthy, Judged(r, healthy)
  PROVE  misjudged' \in 0..MaxTrouble
BY TroubleBounds DEF TypeOK, Judged

LEMMA RequestTypes ==
  ASSUME TypeOK, NEW r \in Requests, RequestStep(r)
  PROVE  TypeOK'
<1>1. ASSUME StartBox(r) PROVE TypeOK'
  <2>1. job' \in [Executions -> [st : {"none", "running", "done"}, box : Boxes \cup {Unnamed}]]
    BY <1>1 DEF TypeOK, StartBox
  <2>2. box' \in [Boxes -> {"none", "up", "dead"}]
    BY <1>1 DEF TypeOK, StartBox
  <2>3. request' = [request EXCEPT ![r].pc = "wait"]
    BY <1>1 DEF StartBox
  <2>4. request' \in [Requests -> [pc : {"idle", "start", "wait"}, box : Boxes \cup {Unnamed}]]
    BY <2>3 DEF TypeOK
  <2> QED BY <1>1, <2>1, <2>2, <2>4 DEF TypeOK, StartBox, redis, counters
<1>2. ASSUME StartFails(r) PROVE TypeOK'
  BY <1>2, TroubleBounds DEF TypeOK, StartFails, Save, IdleRequest, Records, Statuses
<1>3. ASSUME BoxReady(r) PROVE TypeOK'
  BY <1>3 DEF TypeOK, BoxReady, Save, IdleRequest, Records, Statuses, counters
<1>4. ASSUME BoxNotReady(r) PROVE TypeOK'
  BY <1>4, TroubleBounds DEF TypeOK, BoxNotReady, Save, IdleRequest, Records, Statuses
<1> QED BY <1>1, <1>2, <1>3, <1>4 DEF RequestStep

LEMMA RunnerTypes ==
  ASSUME TypeOK, NEW e \in Executions,
         CreateExecution(e) \/ RunnerStep(e) \/ ExecutorFinishes(e)
  PROVE  TypeOK'
<1>1. ASSUME CreateExecution(e) PROVE TypeOK'
  <2>1. misjudged' \in 0..MaxTrouble
    BY <1>1, JudgedType DEF CreateExecution
  <2> QED BY <1>1, <2>1 DEF TypeOK, CreateExecution, Save
<1>2. ASSUME RunExecution(e) PROVE TypeOK'
  BY <1>2 DEF TypeOK, RunExecution, counters
<1>3. ASSUME ExecutorAccepts(e) PROVE TypeOK'
  <2>1. runner[e].copy.box \in Boxes \cup {Unnamed}
    BY DEF TypeOK, Records
  <2>2. /\ job' \in [Executions -> [st : {"none", "running", "done"}, box : Boxes \cup {Unnamed}]]
        /\ runner' \in [Executions -> [pc : {"idle", "run", "post", "accepted"}, copy : Records]]
    BY <1>3, <2>1 DEF TypeOK, ExecutorAccepts
  <2> QED BY <1>3, <2>2 DEF TypeOK, ExecutorAccepts, redis, counters
<1>4. ASSUME ExecutionAccepted(e) PROVE TypeOK'
  <2>1. IdleRunner \in [pc : {"idle", "run", "post", "accepted"}, copy : Records]
    BY RecordsKept DEF IdleRunner
  <2> QED BY <1>4, <2>1 DEF TypeOK, ExecutionAccepted, Save, counters
<1>5. ASSUME ExecutionRefused(e) PROVE TypeOK'
  <2>1. IdleRunner \in [pc : {"idle", "run", "post", "accepted"}, copy : Records]
    BY RecordsKept DEF IdleRunner
  <2>2. faults' \in 0..MaxTrouble
    BY <1>5, TroubleBounds DEF TypeOK, ExecutionRefused
  <2> QED BY <1>5, <2>1, <2>2 DEF TypeOK, ExecutionRefused
<1>6. ASSUME ExecutorFinishes(e) PROVE TypeOK'
  BY <1>6 DEF TypeOK, ExecutorFinishes, redis, counters
<1> QED BY <1>1, <1>2, <1>3, <1>4, <1>5, <1>6 DEF RunnerStep

LEMMA CreateTypes ==
  ASSUME TypeOK, NEW r \in Requests, NEW b \in Boxes, CreateSandbox(r, b)
  PROVE  TypeOK'
<1>1. request' \in [Requests -> [pc : {"idle", "start", "wait"}, box : Boxes \cup {Unnamed}]]
  BY DEF TypeOK, CreateSandbox
<1>2. rec' \in Records /\ entry' = "fresh"
  BY RecordsKept DEF CreateSandbox, Save
<1>3. /\ box' \in [Boxes -> {"none", "up", "dead"}]
      /\ faults' \in 0..MaxTrouble /\ misjudged' \in 0..MaxTrouble
      /\ ex' \in [Executions -> {"none", "pending", "running", "failed"}]
  <2>1. CASE UNCHANGED << ex, box, faults, misjudged >>
    BY <2>1 DEF TypeOK
  <2>2. CASE /\ Judged(rec, FALSE) /\ DeleteBox(rec.box)
             /\ ex' = [e \in Executions |-> "none"]
    <3>1. ex' \in [Executions -> {"none", "pending", "running", "failed"}]
      BY <2>2
    <3> QED BY <2>2, <3>1, DeleteBoxType, JudgedType
  <2> QED BY <2>1, <2>2 DEF CreateSandbox
<1>4. crossed' \in 0..MaxCrossed
  BY SandboxBoundsAssumption DEF TypeOK, CreateSandbox
<1> QED BY <1>1, <1>2, <1>3, <1>4 DEF TypeOK, CreateSandbox

LEMMA ManagerTypes ==
  ASSUME TypeOK,
         \/ KeepAlive \/ TerminateSandbox \/ CollectExpired \/ CheckerStep
         \/ Beat \/ BeatExpires \/ EntryAges \/ HashExpires \/ Restart
         \/ \E b \in Boxes : BoxDies(b)
  PROVE  TypeOK'
<1>1. ASSUME KeepAlive PROVE TypeOK'
  BY <1>1 DEF TypeOK, KeepAlive, Save, counters
<1>2. ASSUME TerminateSandbox PROVE TypeOK'
  <2>1. box' \in [Boxes -> {"none", "up", "dead"}] /\ faults' \in 0..MaxTrouble
    BY <1>2, DeleteBoxType DEF TerminateSandbox
  <2> QED BY <1>2, <2>1, RecordsKept DEF TypeOK, TerminateSandbox, DeleteRecord
<1>3. ASSUME CollectExpired PROVE TypeOK'
  BY <1>2, <1>3 DEF TypeOK, CollectExpired, counters
<1>4. ASSUME CheckHeartbeats \/ HeartbeatFound PROVE TypeOK'
  BY <1>4 DEF TypeOK, CheckHeartbeats, HeartbeatFound, redis, counters
<1>5. ASSUME HeartbeatMissing PROVE TypeOK'
  <2>1. misjudged' \in 0..MaxTrouble
    BY <1>5, TroubleBounds DEF TypeOK, HeartbeatMissing
  <2> QED BY <1>5, <2>1 DEF TypeOK, HeartbeatMissing
<1>6. ASSUME BurySandbox PROVE TypeOK'
  <2>1. box' \in [Boxes -> {"none", "up", "dead"}] /\ faults' \in 0..MaxTrouble
    BY <1>6, DeleteBoxType DEF TypeOK, BurySandbox
  <2>2. rec' \in Records /\ entry' \in {"none", "fresh", "old"}
    BY <1>6, RecordsKept DEF TypeOK, BurySandbox, Statuses
  <2> QED BY <1>6, <2>1, <2>2 DEF TypeOK, BurySandbox
<1>7. ASSUME Beat \/ BeatExpires \/ EntryAges PROVE TypeOK'
  BY <1>7 DEF TypeOK, Beat, BeatExpires, EntryAges, counters
<1>8. ASSUME HashExpires PROVE TypeOK'
  BY <1>8, RecordsKept DEF TypeOK, HashExpires, counters
<1>9. ASSUME Restart PROVE TypeOK'
  <2>1. restarts' \in 0..MaxTrouble
    BY <1>9, TroubleBounds DEF Restart
  <2>2. box' \in [Boxes -> {"none", "up", "dead"}] /\ faults' \in 0..MaxTrouble
    BY <1>9, DeleteBoxType DEF TypeOK, Restart
  <2>3. rec' \in Records /\ entry' \in {"none", "fresh", "old"}
    BY <1>9, RecordsKept DEF TypeOK, Restart, Save, Statuses
  <2>4. /\ request' \in [Requests -> [pc : {"idle", "start", "wait"}, box : Boxes \cup {Unnamed}]]
        /\ runner' \in [Executions -> [pc : {"idle", "run", "post", "accepted"}, copy : Records]]
    BY <1>9, RecordsKept DEF Restart, IdleRequest, IdleRunner
  <2> QED BY <1>9, <2>1, <2>2, <2>3, <2>4 DEF TypeOK, Restart
<1>10. ASSUME NEW b \in Boxes, BoxDies(b) PROVE TypeOK'
  BY <1>10, TroubleBounds DEF TypeOK, BoxDies, redis
<1> QED BY <1>1, <1>2, <1>3, <1>4, <1>5, <1>6, <1>7, <1>8, <1>9, <1>10 DEF CheckerStep

LEMMA TypesKept == TypeOK /\ [Next]_vars => TypeOK'
<1> SUFFICES ASSUME TypeOK, [Next]_vars PROVE TypeOK'
  OBVIOUS
<1>1. CASE UNCHANGED vars
  BY <1>1 DEF TypeOK, vars, redis, counters
<1>2. CASE Next
  BY <1>2, RequestTypes, RunnerTypes, CreateTypes, ManagerTypes DEF Next
<1> QED BY <1>1, <1>2

(***************************************************************************)
(* A running sandbox is in the active set                                  *)
(***************************************************************************)
LEMMA WatchedKept == TypeOK /\ RunningIsWatched /\ [Next]_vars => RunningIsWatched'
<1> SUFFICES ASSUME TypeOK, RunningIsWatched, [Next]_vars PROVE RunningIsWatched'
  OBVIOUS
<1> USE DEF RunningIsWatched
<1>1. CASE UNCHANGED vars
  BY <1>1 DEF vars, redis
<1>2. ASSUME NEW r \in Requests, RequestStep(r) PROVE RunningIsWatched'
  BY <1>2 DEF RequestStep, StartBox, StartFails, BoxReady, BoxNotReady, Save, redis
<1>3. ASSUME NEW r \in Requests, NEW b \in Boxes, CreateSandbox(r, b) PROVE RunningIsWatched'
  BY <1>3 DEF CreateSandbox, Save
<1>4. ASSUME NEW e \in Executions, CreateExecution(e) \/ RunnerStep(e) \/ ExecutorFinishes(e)
      PROVE  RunningIsWatched'
  BY <1>4 DEF RunnerStep, CreateExecution, RunExecution, ExecutorAccepts, ExecutionAccepted,
              ExecutionRefused, ExecutorFinishes, Save, redis
<1>5. ASSUME KeepAlive \/ TerminateSandbox \/ CollectExpired PROVE RunningIsWatched'
  BY <1>5 DEF KeepAlive, TerminateSandbox, CollectExpired, DeleteRecord, NoRecord, Save
<1>6. ASSUME CheckHeartbeats \/ HeartbeatFound \/ HeartbeatMissing PROVE RunningIsWatched'
  BY <1>6 DEF CheckHeartbeats, HeartbeatFound, HeartbeatMissing, redis
<1>7. ASSUME BurySandbox PROVE RunningIsWatched'
  BY <1>7 DEF BurySandbox, TypeOK, Records
<1>8. ASSUME Beat \/ BeatExpires \/ EntryAges \/ HashExpires PROVE RunningIsWatched'
  BY <1>8 DEF Beat, BeatExpires, EntryAges, HashExpires, NoRecord
<1>9. ASSUME Restart PROVE RunningIsWatched'
  BY <1>9 DEF Restart, Save
<1>10. ASSUME NEW b \in Boxes, BoxDies(b) PROVE RunningIsWatched'
  BY <1>10 DEF BoxDies, redis
<1> QED
  BY <1>1, <1>2, <1>3, <1>4, <1>5, <1>6, <1>7, <1>8, <1>9, <1>10 DEF Next, CheckerStep

(***************************************************************************)
(* Counting                                                                *)
(***************************************************************************)
LEMMA Numbers ==
  ASSUME NEW S \in SUBSET Boxes, NEW T \in SUBSET Requests
  PROVE  /\ IsFiniteSet(S) /\ Cardinality(S) \in Nat
         /\ IsFiniteSet(T) /\ Cardinality(T) \in Nat
BY NamesAssumption, FS_Subset, FS_CardinalityType

LEMMA Counted ==
  /\ IsFiniteSet(Unclaimed) /\ Cardinality(Unclaimed) \in Nat
  /\ IsFiniteSet(Creating) /\ Cardinality(Creating) \in Nat
  /\ Cardinality(Unclaimed') \in Nat /\ Cardinality(Creating') \in Nat
BY Numbers DEF Unclaimed, Creating

LEMMA ChargesNat ==
  /\ TypeOK => {faults, misjudged, restarts, crossed, Charges} \subseteq Nat
  /\ TypeOK' => {faults', misjudged', restarts', crossed', Charges'} \subseteq Nat
<1>1. TypeOK => faults \in Nat /\ misjudged \in Nat /\ restarts \in Nat /\ crossed \in Nat
  BY SandboxBoundsAssumption DEF TypeOK
<1>2. TypeOK' => faults' \in Nat /\ misjudged' \in Nat /\ restarts' \in Nat /\ crossed' \in Nat
  BY SandboxBoundsAssumption DEF TypeOK
<1> QED BY <1>1, <1>2 DEF Charges

LEMMA SlackKept ==
  \A c, d, k, l \in Nat :
    /\ c <= k + 1 /\ d <= c /\ l >= k => d <= l + 1
    /\ c <= k + 1 /\ d <= c + 1 /\ l >= k + 1 => d <= l + 1
    /\ c <= k /\ d <= c + 1 /\ l >= k => d <= l + 1
OBVIOUS

\* A step that adds no claim, and after which one claim is held as before
\* unless a claim is gone or something is charged.
LEMMA Steady ==
  ASSUME TypeOK, TypeOK', Accounted, Claims' <= Claims, Charges' >= Charges,
         OneHeld => OneHeld' \/ Claims' < Claims \/ Charges' > Charges
  PROVE  Accounted'
<1>1. Charges \in Nat /\ Charges' \in Nat
  BY ChargesNat
<1>2. Claims \in Nat /\ Claims' \in Nat
  BY Counted DEF Claims
<1>3. CASE Claims <= Charges
  <2>1. Claims' <= Charges'
    BY <1>1, <1>2, <1>3
  <2> QED BY <2>1 DEF Accounted
<1>4. CASE Claims <= Charges + 1 /\ OneHeld
  <2>1. CASE OneHeld'
    <3>1. Claims <= Charges + 1
      BY <1>4
    <3>2. Claims' <= Charges' + 1
      BY <1>1, <1>2, <3>1, SlackKept
    <3> QED BY <2>1, <3>2 DEF Accounted
  <2>2. CASE Claims' < Claims \/ Charges' > Charges
    <3>1. Claims' <= Charges'
      BY <1>1, <1>2, <1>4, <2>2
    <3> QED BY <3>1 DEF Accounted
  <2> QED BY <1>4, <2>1, <2>2
<1> QED BY <1>3, <1>4 DEF Accounted

\* What becomes of the containers that nobody waits for.
LEMMA DeleteBoxClaims ==
  ASSUME TypeOK, NEW b, DeleteBox(b), \A x \in Boxes : Waited(x)' <=> Waited(x)
  PROVE  \/ Unclaimed' = Unclaimed \ {b} /\ faults' = faults
         \/ Unclaimed' = Unclaimed /\ faults' = faults + 1
<1>1. CASE box' = [x \in Boxes |-> IF x = b THEN "none" ELSE box[x]] /\ faults' = faults
  <2>1. Unclaimed' = Unclaimed \ {b}
    BY <1>1 DEF Unclaimed
  <2> QED BY <1>1, <2>1
<1>2. CASE box' = box /\ faults' = faults + 1
  <2>1. Unclaimed' = Unclaimed
    BY <1>2 DEF Unclaimed
  <2> QED BY <1>2, <2>1
<1> QED BY <1>1, <1>2 DEF DeleteBox

\* Requests and containers are left alone.
LEMMA SameClaims ==
  ASSUME UNCHANGED << request, box >>
  PROVE  /\ Unclaimed' = Unclaimed /\ Creating' = Creating /\ Claims' = Claims
         /\ \A x : Waited(x)' <=> Waited(x)
<1>1. /\ Unclaimed' = Unclaimed /\ Creating' = Creating
      /\ \A x : Waited(x)' <=> Waited(x)
  BY DEF Unclaimed, Creating, Waited
<1> QED BY <1>1 DEF Claims

LEMMA SameRequests ==
  ASSUME UNCHANGED request
  PROVE  Creating' = Creating /\ \A x : Waited(x)' <=> Waited(x)
BY DEF Creating, Waited

LEMMA FewerClaims ==
  ASSUME NEW b, Unclaimed' = Unclaimed \ {b}, Creating' = Creating
  PROVE  /\ Claims' <= Claims
         /\ b \in Unclaimed => Claims' < Claims
         /\ b \notin Unclaimed => Unclaimed' = Unclaimed
<1>1. Cardinality(Unclaimed \ {b})
        = IF b \in Unclaimed THEN Cardinality(Unclaimed) - 1 ELSE Cardinality(Unclaimed)
  BY Counted, FS_RemoveElement
<1>2. b \notin Unclaimed => Unclaimed' = Unclaimed
  OBVIOUS
<1> QED BY <1>1, <1>2, Counted DEF Claims

(***************************************************************************)
(* Every step keeps the claims accounted for                               *)
(***************************************************************************)
\* Steps that touch no request, no container and no record, and give a
\* runner no new copy.
LEMMA NothingTouched ==
  ASSUME TypeOK, TypeOK', Accounted, UNCHANGED << request, box, rec >>, Charges' >= Charges,
         \A e \in Executions : \/ runner'[e] = runner[e] \/ runner'[e].pc = "idle"
                               \/ runner[e].pc # "idle" /\ runner'[e].copy = runner[e].copy
  PROVE  Accounted'
<1>1. Claims' = Claims /\ Unclaimed' = Unclaimed /\ Creating' = Creating
  BY SameClaims
<1>2. OneHeld => OneHeld'
  BY <1>1 DEF OneHeld, Sound
<1>3. Claims \in Nat
  BY Counted DEF Claims
<1> QED BY <1>1, <1>2, <1>3, Steady

LEMMA ChargesGrow ==
  ASSUME TypeOK, faults' \in {faults, faults + 1}, misjudged' \in {misjudged, misjudged + 1},
         restarts' \in {restarts, restarts + 1}, crossed' \in {crossed, crossed + 1}
  PROVE  /\ Charges' >= Charges
         /\ << faults', misjudged', restarts', crossed' >> # << faults, misjudged, restarts, crossed >>
              => Charges' > Charges
BY ChargesNat DEF Charges

LEMMA StartBoxAccounted ==
  ASSUME TypeOK, TypeOK', Accounted, NEW r \in Requests, StartBox(r)
  PROVE  Accounted'
<1> DEFINE b == request[r].box
<1>1. /\ request[r].pc = "start" /\ box[b] = "none"
      /\ box' = [box EXCEPT ![b] = "up"]
      /\ request' = [request EXCEPT ![r].pc = "wait"]
      /\ UNCHANGED << rec, runner, faults, misjudged, restarts, crossed >>
  BY DEF StartBox, redis, counters
<1>2. request'[r] = [pc |-> "wait", box |-> b]
  BY <1>1 DEF TypeOK
<1>3. \A q \in Requests \ {r} : request'[q] = request[q]
  BY <1>1 DEF TypeOK
<1>4. Waited(b)' /\ \A x \in Boxes \ {b} : Waited(x)' <=> Waited(x)
  BY <1>1, <1>2, <1>3 DEF Waited
<1>5. Unclaimed' = Unclaimed
  BY <1>1, <1>4 DEF TypeOK, Unclaimed
<1>6. Creating' = Creating
  BY <1>1, <1>2, <1>3 DEF Creating
<1>7. Claims' = Claims /\ Charges' = Charges
  BY <1>1, <1>5, <1>6 DEF Claims, Charges
<1>8. OneHeld => OneHeld'
  BY <1>1, <1>5, <1>6 DEF OneHeld, Sound
<1>9. Claims \in Nat /\ Charges \in Nat
  BY Counted, ChargesNat DEF Claims
<1> QED BY <1>7, <1>8, <1>9, Steady

\* A request that is over: its container is unclaimed now if it runs and no
\* other request waits for it.
LEMMA RequestOver ==
  ASSUME TypeOK, NEW r \in Requests, request[r].pc # "idle",
         request' = [request EXCEPT ![r] = IdleRequest], UNCHANGED box
  PROVE  LET b == request[r].box IN
         /\ Creating' = Creating \ {r}
         /\ Cardinality(Creating') = Cardinality(Creating) - 1
         /\ Unclaimed \subseteq Unclaimed' /\ Unclaimed' \subseteq Unclaimed \cup {b}
         /\ Claims' <= Claims
         /\ Claims' < Claims \/ (b \in Unclaimed' /\ box[b] = "up" /\ request[r].pc = "wait")
<1> DEFINE b == request[r].box
<1>1. request'[r].pc = "idle" /\ \A q \in Requests \ {r} : request'[q] = request[q]
  BY DEF TypeOK, IdleRequest
<1>2. Creating' = Creating \ {r} /\ r \in Creating
  BY <1>1 DEF Creating
<1>3. Cardinality(Creating') = Cardinality(Creating) - 1
  BY <1>2, Counted, FS_RemoveElement
<1>4. \A x : Waited(x)' => Waited(x)
  BY <1>1 DEF Waited
<1>5. request[r] = [pc |-> request[r].pc, box |-> b]
  BY DEF TypeOK
<1>6. \A x \in Boxes : Waited(x) => Waited(x)' \/ (x = b /\ request[r].pc = "wait")
  BY <1>1, <1>5 DEF Waited
<1>7. Unclaimed \subseteq Unclaimed' /\ Unclaimed' \subseteq Unclaimed \cup {b}
  BY <1>4, <1>6 DEF Unclaimed
<1>8. CASE Unclaimed' = Unclaimed
  <2>1. Claims' = Claims - 1
    BY <1>3, <1>8, Counted DEF Claims
  <2> QED BY <1>2, <1>3, <1>7, <2>1, Counted DEF Claims
<1>9. CASE Unclaimed' # Unclaimed
  <2>1. Unclaimed' = Unclaimed \cup {b} /\ b \notin Unclaimed
    BY <1>7, <1>9
  <2>2. Cardinality(Unclaimed') = Cardinality(Unclaimed) + 1
    BY <2>1, Counted, FS_AddElement
  <2>3. Claims' = Claims
    BY <1>3, <2>2, Counted DEF Claims
  <2>4. b \in Unclaimed' /\ box[b] = "up" /\ request[r].pc = "wait"
    BY <1>4, <1>6, <2>1 DEF Unclaimed
  <2> QED BY <1>2, <1>3, <1>7, <2>3, <2>4, Counted DEF Claims
<1> QED BY <1>8, <1>9

LEMMA RequestAccounted ==
  ASSUME TypeOK, TypeOK', Accounted, NEW r \in Requests, RequestStep(r)
  PROVE  Accounted'
<1> DEFINE b == request[r].box
<1>1. ASSUME StartFails(r) PROVE Accounted'
  <2>1. Claims' < Claims
    BY <1>1, RequestOver DEF StartFails
  <2>2. Charges' >= Charges
    BY <1>1, ChargesGrow DEF StartFails
  <2>3. Claims' <= Claims
    BY <1>1, RequestOver DEF StartFails
  <2> QED BY <2>1, <2>2, <2>3, Steady
<1>2. ASSUME BoxReady(r) PROVE Accounted'
  <2>1. /\ Claims' <= Claims /\ Unclaimed \subseteq Unclaimed'
        /\ Claims' < Claims \/ b \in Unclaimed'
    BY <1>2, RequestOver DEF BoxReady
  <2>2. Charges' >= Charges
    BY <1>2, ChargesGrow DEF BoxReady, counters
  <2>3. rec' = [st |-> "running", box |-> b] /\ UNCHANGED runner
    BY <1>2 DEF BoxReady, Save
  <2>4. OneHeld /\ b \in Unclaimed' => OneHeld'
    BY <2>1, <2>3 DEF OneHeld, Sound
  <2> QED BY <2>1, <2>2, <2>4, Steady
<1>3. ASSUME BoxNotReady(r) PROVE Accounted'
  <2>1. /\ Claims' <= Claims
        /\ Claims' < Claims \/ box[b] = "up"
    BY <1>3, RequestOver DEF BoxNotReady
  <2>2. Charges' >= Charges /\ (box[b] = "up" => Charges' > Charges)
    <3>1. /\ misjudged' \in {misjudged, misjudged + 1}
          /\ box[b] = "up" => misjudged' = misjudged + 1
      BY <1>3 DEF BoxNotReady
    <3>2. misjudged + 1 # misjudged
      BY ChargesNat
    <3> QED BY <1>3, <3>1, <3>2, ChargesGrow DEF BoxNotReady
  <2> QED BY <2>1, <2>2, Steady
<1> QED BY <1>1, <1>2, <1>3, StartBoxAccounted DEF RequestStep

LEMMA RunnerAccounted ==
  ASSUME TypeOK, TypeOK', Accounted, NEW e \in Executions,
         CreateExecution(e) \/ RunnerStep(e) \/ ExecutorFinishes(e)
  PROVE  Accounted'
<1>1. ASSUME CreateExecution(e) PROVE Accounted'
  <2>1. /\ UNCHANGED << request, box, rec >> /\ rec.st = "running"
        /\ runner' = [runner EXCEPT ![e] = [pc |-> "run", copy |-> rec]]
    BY <1>1 DEF CreateExecution, Save
  <2>2. Charges' = Charges
    BY <1>1 DEF CreateExecution, Judged, Charges
  <2>3. Claims' = Claims /\ Unclaimed' = Unclaimed /\ Creating' = Creating
    BY <2>1, SameClaims
  <2>4. \A d \in Executions : runner'[d] = IF d = e THEN [pc |-> "run", copy |-> rec] ELSE runner[d]
    BY <2>1 DEF TypeOK
  <2>5. OneHeld => OneHeld'
    BY <2>1, <2>3, <2>4 DEF OneHeld, Sound
  <2>6. Claims \in Nat /\ Charges \in Nat
    BY Counted, ChargesNat DEF Claims
  <2> QED BY <2>2, <2>3, <2>5, <2>6, Steady
<1>2. ASSUME RunExecution(e) \/ ExecutorAccepts(e) \/ ExecutorFinishes(e) PROVE Accounted'
  <2>1. /\ UNCHANGED << request, box, rec, faults, misjudged, restarts, crossed >>
        /\ \A d \in Executions : \/ runner'[d] = runner[d]
                                 \/ runner[d].pc # "idle" /\ runner'[d].copy = runner[d].copy
    BY <1>2 DEF RunExecution, ExecutorAccepts, ExecutorFinishes, redis, counters, TypeOK
  <2>2. Charges' >= Charges
    BY <2>1, ChargesGrow
  <2> QED BY <2>1, <2>2, NothingTouched
<1>3. ASSUME ExecutionAccepted(e) PROVE Accounted'
  <2>1. /\ UNCHANGED << request, box, faults, misjudged, restarts, crossed >>
        /\ runner[e].pc # "idle" /\ rec' = runner[e].copy
        /\ runner' = [runner EXCEPT ![e] = IdleRunner]
    BY <1>3 DEF ExecutionAccepted, Save, counters
  <2>2. Claims' = Claims /\ Unclaimed' = Unclaimed /\ Creating' = Creating
    BY <2>1, SameClaims
  <2>3. \A d \in Executions : runner'[d].pc = "idle" \/ runner'[d] = runner[d]
    BY <2>1 DEF TypeOK, IdleRunner
  <2>4. OneHeld => OneHeld'
    BY <2>1, <2>2, <2>3 DEF OneHeld, Sound
  <2>5. Claims \in Nat /\ Charges' >= Charges
    BY <2>1, Counted, ChargesGrow DEF Claims
  <2> QED BY <2>2, <2>4, <2>5, Steady
<1>4. ASSUME ExecutionRefused(e) PROVE Accounted'
  <2>1. /\ UNCHANGED << request, box, rec, misjudged, restarts, crossed >>
        /\ faults' \in {faults, faults + 1}
        /\ runner' = [runner EXCEPT ![e] = IdleRunner]
    BY <1>4 DEF ExecutionRefused
  <2>2. \A d \in Executions : runner'[d].pc = "idle" \/ runner'[d] = runner[d]
    BY <2>1 DEF TypeOK, IdleRunner
  <2>3. Charges' >= Charges
    BY <2>1, ChargesGrow
  <2> QED BY <2>1, <2>2, <2>3, NothingTouched
<1> QED BY <1>1, <1>2, <1>3, <1>4 DEF RunnerStep

\* The record loses its container: it was the one held, or another claim is.
LEMMA DeletedAccounted ==
  ASSUME TypeOK, TypeOK', Accounted, DeleteBox(rec.box), rec'.st # "running",
         UNCHANGED << request, runner, misjudged, restarts, crossed >>
  PROVE  Accounted'
<1>1. Creating' = Creating /\ \A x : Waited(x)' <=> Waited(x)
  BY SameRequests
<1>2. CASE Unclaimed' = Unclaimed \ {rec.box} /\ faults' = faults
  <2>1. /\ Claims' <= Claims
        /\ rec.box \in Unclaimed => Claims' < Claims
        /\ rec.box \notin Unclaimed => Unclaimed' = Unclaimed
    BY <1>1, <1>2, FewerClaims
  <2>2. rec.box \notin Unclaimed /\ OneHeld => OneHeld'
    BY <1>1, <2>1 DEF OneHeld, Sound
  <2>3. Charges' >= Charges
    BY <1>2, ChargesGrow
  <2> QED BY <2>1, <2>2, <2>3, Steady
<1>3. CASE Unclaimed' = Unclaimed /\ faults' = faults + 1
  <2>1. Claims' = Claims /\ Claims \in Nat
    BY <1>1, <1>3, Counted DEF Claims
  <2>2. Charges' > Charges /\ Charges' >= Charges
    BY <1>3, ChargesGrow, ChargesNat
  <2> QED BY <2>1, <2>2, Steady
<1> QED BY <1>1, <1>2, <1>3, DeleteBoxClaims

\* A creation adds a claim.  The first one is held by its request; any other
\* is a crossing.
LEMMA CreateAccounted ==
  ASSUME TypeOK, TypeOK', Accounted, NEW r \in Requests, NEW b \in Boxes, CreateSandbox(r, b)
  PROVE  Accounted'
<1>1. /\ request[r].pc = "idle" /\ rec'.st = "pending"
      /\ request' = [request EXCEPT ![r] = [pc |-> "start", box |-> b]]
      /\ UNCHANGED << runner, restarts >>
  BY DEF CreateSandbox, Save, Provisioning
<1>2. request'[r].pc = "start" /\ \A q \in Requests \ {r} : request'[q] = request[q]
  BY <1>1 DEF TypeOK
<1>3. Creating' = Creating \cup {r} /\ r \notin Creating
  BY <1>1, <1>2 DEF Creating
<1>4. \A x \in Boxes : Waited(x)' <=> Waited(x)
  BY <1>1, <1>2 DEF Waited
<1>5. Cardinality(Creating') = Cardinality(Creating) + 1
  BY <1>3, Counted, FS_AddElement
<1>6. /\ rec.st # "running" => Unclaimed' = Unclaimed /\ UNCHANGED << faults, misjudged >>
      /\ rec.st = "running" => Judged(rec, FALSE) /\ DeleteBox(rec.box)
  <2>1. rec.st # "running" => UNCHANGED << box, faults, misjudged >>
    BY DEF CreateSandbox
  <2> QED BY <1>4, <2>1 DEF CreateSandbox, Unclaimed
<1>7. /\ misjudged' \in {misjudged, misjudged + 1}
      /\ rec.st = "running" /\ rec.box \in Unclaimed => misjudged' = misjudged + 1
  BY <1>6 DEF Judged, Unclaimed
<1>8. \/ /\ Unclaimed' \in {Unclaimed, Unclaimed \ {rec.box}} /\ faults' = faults
      \/ Unclaimed' = Unclaimed /\ faults' = faults + 1
  BY <1>4, <1>6, DeleteBoxClaims
<1>9. Cardinality(Unclaimed') <= Cardinality(Unclaimed)
  <2>1. Cardinality(Unclaimed \ {rec.box}) <= Cardinality(Unclaimed)
    <3>1. Unclaimed \ {rec.box} \in SUBSET Unclaimed
      OBVIOUS
    <3> QED BY <3>1, Counted, FS_Subset
  <2> QED BY <1>8, <2>1, Counted
<1>10. Claims' <= Claims + 1 /\ Claims \in Nat /\ Claims' \in Nat
  BY <1>5, <1>9, Counted DEF Claims
<1>11. Charges \in Nat /\ Charges' \in Nat
  BY ChargesNat
<1>12. CASE Busy
  <2>1. crossed' = crossed + 1
    BY <1>12 DEF CreateSandbox
  <2>2. Charges' >= Charges + 1
    BY <1>1, <1>7, <1>8, <2>1, ChargesNat DEF Charges
  <2>3. CASE Claims <= Charges
    <3>1. Claims' <= Charges'
      BY <1>10, <1>11, <2>2, <2>3
    <3> QED BY <3>1 DEF Accounted
  <2>4. CASE Claims <= Charges + 1 /\ OneHeld
    <3>1. CASE Unclaimed' = Unclaimed
      <4>1. OneHeld'
        BY <1>1, <1>3, <2>4, <3>1 DEF OneHeld, Sound
      <4>2. Claims' <= Charges' + 1
        BY <1>10, <1>11, <2>2, <2>4, SlackKept
      <4> QED BY <4>1, <4>2 DEF Accounted
    <3>2. CASE Unclaimed' # Unclaimed
      <4>1. Unclaimed' = Unclaimed \ {rec.box} /\ rec.box \in Unclaimed
        BY <1>8, <3>2
      <4>2. Cardinality(Unclaimed') = Cardinality(Unclaimed) - 1
        BY <4>1, Counted, FS_RemoveElement
      <4>3. Claims' = Claims
        BY <1>5, <4>2, Counted DEF Claims
      <4>4. Claims' <= Charges'
        BY <1>10, <1>11, <2>2, <2>4, <4>3
      <4> QED BY <4>4 DEF Accounted
    <3> QED BY <3>1, <3>2
  <2> QED BY <2>3, <2>4 DEF Accounted
<1>13. CASE ~Busy
  <2>1. crossed' = crossed /\ Creating = {} /\ \A e \in Executions : runner[e].pc = "idle"
    BY <1>13 DEF CreateSandbox, Busy, Creating
  <2>2. Charges' >= Charges
    BY <1>1, <1>7, <1>8, <2>1, ChargesGrow
  <2>3. OneHeld'
    BY <1>1, <1>3, <2>1 DEF OneHeld
  <2>4. CASE Claims <= Charges
    <3>1. Claims' <= Charges' + 1
      BY <1>10, <1>11, <2>2, <2>4, SlackKept
    <3> QED BY <2>3, <3>1 DEF Accounted
  <2>5. CASE Claims <= Charges + 1 /\ OneHeld
    <3>1. rec.st = "running" /\ rec.box \in Unclaimed
      BY <2>1, <2>5 DEF OneHeld, Sound
    <3>2. misjudged' = misjudged + 1
      BY <1>7, <3>1
    <3>3. Charges' >= Charges + 1
      BY <1>1, <1>8, <2>1, <3>2, ChargesNat DEF Charges
    <3>4. Claims' <= Charges' + 1
      BY <1>10, <1>11, <2>5, <3>3, SlackKept
    <3> QED BY <2>3, <3>4 DEF Accounted
  <2> QED BY <2>4, <2>5 DEF Accounted
<1> QED BY <1>12, <1>13

\* The containers that the requests of a dead process waited for.
LEMMA RestartAccounted ==
  ASSUME TypeOK, TypeOK', Accounted, Restart
  PROVE  Accounted'
<1> DEFINE waited == {x \in Boxes : Waited(x)}
           up == {x \in Boxes : box[x] = "up"}
           by == [r \in Creating |-> request[r].box]
<1>1. request' = [r \in Requests |-> IdleRequest] /\ UNCHANGED << misjudged, crossed >>
  BY DEF Restart
<1>2. Creating' = {} /\ \A x : ~Waited(x)'
  BY <1>1 DEF Creating, Waited, IdleRequest
<1>3. Unclaimed' \subseteq Unclaimed \cup waited
  <2>1. \A x \in Boxes : box'[x] = "up" => box[x] = "up"
    BY DEF Restart, DeleteBox, TypeOK
  <2> QED BY <2>1 DEF Unclaimed
<1>4. Cardinality(waited) <= Cardinality(Creating)
  <2>1. \A x \in waited : \E r \in Creating : by[r] = x
    BY DEF Waited, Creating
  <2> DEFINE image == {by[r] : r \in Creating}
  <2>2. by \in Surjection(Creating, image)
    BY DEF Surjection
  <2>3. IsFiniteSet(image) /\ Cardinality(image) <= Cardinality(Creating)
    BY <2>2, Counted, FS_Surjection
  <2>4. waited \subseteq image
    BY <2>1
  <2>5. Cardinality(waited) <= Cardinality(image)
    BY <2>3, <2>4, FS_Subset
  <2>6. Cardinality(waited) \in Nat /\ Cardinality(image) \in Nat
    BY <2>3, Numbers, FS_CardinalityType
  <2> QED BY <2>3, <2>5, <2>6, Counted
<1>5. /\ IsFiniteSet(waited) /\ Cardinality(waited) \in Nat
      /\ IsFiniteSet(Unclaimed \cup waited)
      /\ Cardinality(Unclaimed \cup waited) <= Cardinality(Unclaimed) + Cardinality(waited)
  <2>1. IsFiniteSet(waited) /\ Cardinality(waited) \in Nat
    BY Numbers
  <2>2. Unclaimed \cap waited = {}
    BY DEF Unclaimed
  <2>3. Cardinality(Unclaimed \cap waited) = 0
    BY <2>2, FS_EmptySet
  <2> HIDE DEF waited
  <2>4. /\ IsFiniteSet(Unclaimed \cup waited)
        /\ Cardinality(Unclaimed \cup waited)
             = Cardinality(Unclaimed) + Cardinality(waited) - Cardinality(Unclaimed \cap waited)
    BY <2>1, Counted, FS_Union
  <2> QED BY <2>1, <2>3, <2>4, Counted
<1>6. Cardinality(Unclaimed') <= Cardinality(Unclaimed \cup waited)
  BY <1>3, <1>5, FS_Subset
<1>7. Claims' <= Claims
  <2>1. Cardinality(Creating') = 0 /\ Cardinality(Unclaimed \cup waited) \in Nat
    BY <1>2, <1>5, FS_EmptySet, FS_CardinalityType
  <2> QED BY <1>4, <1>5, <1>6, <2>1, Counted DEF Claims
<1>8. Charges' > Charges /\ Charges' >= Charges
  <2>1. faults' \in {faults, faults + 1} /\ restarts' = restarts + 1
    BY DEF Restart, DeleteBox
  <2> QED BY <1>1, <2>1, ChargesGrow, ChargesNat
<1> QED BY <1>7, <1>8, Steady

LEMMA ManagerAccounted ==
  ASSUME TypeOK, TypeOK', RunningIsWatched, Accounted,
         \/ KeepAlive \/ TerminateSandbox \/ CollectExpired \/ CheckerStep
         \/ Beat \/ BeatExpires \/ EntryAges \/ HashExpires \/ Restart
         \/ \E b \in Boxes : BoxDies(b)
  PROVE  Accounted'
<1>1. ASSUME \/ KeepAlive \/ CheckHeartbeats \/ HeartbeatFound \/ HeartbeatMissing
             \/ Beat \/ BeatExpires \/ EntryAges
      PROVE  Accounted'
  <2>1. /\ UNCHANGED << request, box, rec, runner, faults, restarts, crossed >>
        /\ misjudged' \in {misjudged, misjudged + 1}
    BY <1>1 DEF KeepAlive, CheckHeartbeats, HeartbeatFound, HeartbeatMissing, Beat, BeatExpires,
                EntryAges, Save, redis, counters
  <2>2. Charges' >= Charges
    BY <2>1, ChargesGrow
  <2> QED BY <2>1, <2>2, NothingTouched
<1>2. ASSUME TerminateSandbox PROVE Accounted'
  BY <1>2, DeletedAccounted DEF TerminateSandbox, DeleteRecord, NoRecord
<1>3. ASSUME CollectExpired PROVE Accounted'
  <2>1. CASE UNCHANGED << rec, box, request, runner, counters, crossed >>
    <3>1. Charges' >= Charges
      BY <2>1, ChargesGrow DEF counters
    <3> QED BY <2>1, <3>1, NothingTouched
  <2> QED BY <1>2, <1>3, <2>1 DEF CollectExpired
<1>4. ASSUME BurySandbox PROVE Accounted'
  <2>1. CASE rec.st = "absent" /\ UNCHANGED << rec, box, faults >>
    <3>1. UNCHANGED << request, runner, misjudged, restarts, crossed >>
      BY <1>4 DEF BurySandbox
    <3>2. Charges' >= Charges
      BY <2>1, <3>1, ChargesGrow
    <3> QED BY <2>1, <3>1, <3>2, NothingTouched
  <2>2. CASE rec' = [rec EXCEPT !.st = "failed"] /\ DeleteBox(rec.box)
    <3>1. rec'.st = "failed"
      BY <2>2 DEF TypeOK, Records
    <3> QED BY <1>4, <2>2, <3>1, DeletedAccounted DEF BurySandbox
  <2> QED BY <1>4, <2>1, <2>2 DEF BurySandbox
<1>5. ASSUME HashExpires PROVE Accounted'
  <2>1. /\ rec.st # "running" /\ rec'.st # "running"
        /\ UNCHANGED << request, box, runner, faults, misjudged, restarts, crossed >>
    BY <1>5 DEF HashExpires, RunningIsWatched, NoRecord, counters
  <2>2. Claims' = Claims /\ Unclaimed' = Unclaimed /\ Creating' = Creating
    BY <2>1, SameClaims
  <2>3. OneHeld => OneHeld'
    BY <2>1, <2>2 DEF OneHeld, Sound
  <2>4. Claims \in Nat /\ Charges' >= Charges
    BY <2>1, Counted, ChargesGrow DEF Claims
  <2> QED BY <2>2, <2>3, <2>4, Steady
<1>6. ASSUME NEW b \in Boxes, BoxDies(b) PROVE Accounted'
  <2>1. /\ UNCHANGED << request, runner, rec, faults, misjudged, restarts, crossed >>
        /\ box' = [box EXCEPT ![b] = "dead"]
    BY <1>6 DEF BoxDies, redis
  <2>2. Creating' = Creating /\ \A x : Waited(x)' <=> Waited(x)
    BY <2>1, SameRequests
  <2>3. Unclaimed' = Unclaimed \ {b}
    BY <2>1, <2>2 DEF TypeOK, Unclaimed
  <2>4. /\ Claims' <= Claims
        /\ b \in Unclaimed => Claims' < Claims
        /\ b \notin Unclaimed => Unclaimed' = Unclaimed
    BY <2>2, <2>3, FewerClaims
  <2>5. b \notin Unclaimed /\ OneHeld => OneHeld'
    BY <2>1, <2>2, <2>4 DEF OneHeld, Sound
  <2>6. Charges' >= Charges
    BY <2>1, ChargesGrow
  <2> QED BY <2>4, <2>5, <2>6, Steady
<1> QED BY <1>1, <1>2, <1>3, <1>4, <1>5, <1>6, RestartAccounted DEF CheckerStep

LEMMA NextIInv == IInv /\ [Next]_vars => IInv'
<1> SUFFICES ASSUME IInv, [Next]_vars PROVE IInv'
  OBVIOUS
<1>1. TypeOK' /\ RunningIsWatched'
  BY TypesKept, WatchedKept DEF IInv
<1>2. CASE UNCHANGED vars
  <2>1. UNCHANGED << request, box, rec, runner, faults, misjudged, restarts, crossed >>
    BY <1>2 DEF vars, redis, counters
  <2>2. Charges' >= Charges
    BY <2>1, ChargesGrow DEF IInv
  <2>3. Accounted'
    BY <1>1, <2>1, <2>2, NothingTouched DEF IInv
  <2> QED BY <1>1, <2>3 DEF IInv
<1>3. CASE Next
  <2>1. Accounted'
    BY <1>1, <1>3, RequestAccounted, RunnerAccounted, CreateAccounted, ManagerAccounted
       DEF IInv, Next
  <2> QED BY <1>1, <2>1 DEF IInv
<1> QED BY <1>2, <1>3

LEMMA InvariantHolds == Spec => []IInv
BY InitIInv, NextIInv, PTL DEF Spec

(***************************************************************************)
(* The theorems                                                            *)
(***************************************************************************)

\* Records, containers, requests, copies and executions keep their types.
THEOREM TypeCorrect == Spec => []TypeOK
<1>1. IInv => TypeOK
  BY DEF IInv
<1> QED BY <1>1, InvariantHolds, PTL

\* A record that says RUNNING is in the set that the heartbeat check and the
\* collection go through, also one that a late save brought back.
THEOREM Watched == Spec => []RunningIsWatched
<1>1. IInv => RunningIsWatched
  BY DEF IInv
<1> QED BY <1>1, InvariantHolds, PTL

\* Whatever the numbers of requests, containers and executions, and however
\* creations, executions, checks and terminations interleave, no more
\* containers are left running for good than calls failed, living containers were taken
\* for dead, managers restarted, or creations overlapped something else.
THEOREM LeaksAccountedFor == Spec => []LeakBounded
<1>1. IInv => LeakBounded
  <2> SUFFICES ASSUME IInv PROVE LeakBounded
    OBVIOUS
  <2> DEFINE leaked == {b \in Boxes : Leaked(b)}
  <2>1. leaked \subseteq Unclaimed
    BY DEF Leaked, Unclaimed, Waited
  <2>2. Cardinality(leaked) \in Nat /\ Cardinality(leaked) <= Cardinality(Unclaimed)
    BY <2>1, Counted, FS_Subset, FS_CardinalityType
  <2>3. Charges \in Nat
    BY ChargesNat DEF IInv
  <2> HIDE DEF leaked
  <2>4. CASE Claims <= Charges
    <3>1. Cardinality(leaked) <= Charges
      BY <2>2, <2>3, <2>4, Counted DEF Claims
    <3> QED BY <3>1 DEF LeakBounded, Charges, leaked
  <2>5. CASE Claims <= Charges + 1 /\ OneHeld
    <3>1. CASE Creating = {}
      <4>1. rec.box \in Unclaimed /\ rec.box \notin leaked
        BY <2>5, <3>1 DEF OneHeld, Sound, IInv, RunningIsWatched, Leaked, leaked
      <4>2. leaked \subseteq Unclaimed \ {rec.box}
        BY <2>1, <4>1
      <4>3. /\ IsFiniteSet(Unclaimed \ {rec.box})
            /\ Cardinality(Unclaimed \ {rec.box}) = Cardinality(Unclaimed) - 1
        BY <4>1, Counted, FS_RemoveElement
      <4>4. Cardinality(leaked) <= Cardinality(Unclaimed) - 1
        BY <4>2, <4>3, FS_Subset
      <4>5. Cardinality(leaked) <= Charges
        BY <2>2, <2>3, <2>5, <4>4, Counted DEF Claims
      <4> QED BY <4>5 DEF LeakBounded, Charges, leaked
    <3>2. CASE Creating # {}
      <4>1. Cardinality(Creating) >= 1
        BY <3>2, Counted, FS_EmptySet
      <4>2. Cardinality(leaked) <= Charges
        BY <2>2, <2>3, <2>5, <4>1, Counted DEF Claims
      <4> QED BY <4>2 DEF LeakBounded, Charges, leaked
    <3> QED BY <3>1, <3>2
  <2> QED BY <2>4, <2>5 DEF IInv, Accounted
<1> QED BY <1>1, InvariantHolds, PTL

=============================================================================
