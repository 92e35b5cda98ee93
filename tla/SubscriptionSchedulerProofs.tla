-------------------- MODULE SubscriptionSchedulerProofs --------------------
(***************************************************************************)
(* Proofs about the scheduler, for any number of instances, subscriptions  *)
(* and writers and for every bound:                                        *)
(*                                                                         *)
(*   - it implements the lock it is built on;                              *)
(*   - writers that overlap lose counts but never invent one;              *)
(*   - every variable keeps its type;                                      *)
(*   - an occurrence fires once, once more for each fault, and again for   *)
(*     each write that puts its time back.                                 *)
(***************************************************************************)
EXTENDS SubscriptionScheduler, FiniteSetTheorems, TLAPS

\* A step of the scheduler is a step of the lock or leaves the lock's
\* variables alone.
LEMMA LockStepOrStutter ==
  ASSUME [Next]_vars
  PROVE  [Lock!Next]_lockVars
<1>1. CASE Tick \/ UNCHANGED vars
  BY <1>1 DEF Tick, vars
<1>2. CASE KeyExpires
  BY <1>2 DEF KeyExpires, Lock!Next
<1>3. ASSUME NEW i \in Instances, StartPass(i) PROVE [Lock!Next]_lockVars
  BY <1>3 DEF StartPass, Lock!Next
<1>4. ASSUME NEW i \in Instances, PassStep(i) PROVE [Lock!Next]_lockVars
  BY <1>4 DEF PassStep, FindDue, CreateExecution, CreationFails,
              DispatchBackgroundExecution, UpdateNextExecutionTime,
              ProcessingFails, EndPass, Lock!Next
<1>5. ASSUME NEW i \in Instances, InstanceCrash(i) PROVE [Lock!Next]_lockVars
  BY <1>5 DEF InstanceCrash, Lock!Next
<1>6. ASSUME NEW w \in Writers, NEW s \in Subs, NEW op \in Ops, ReadDoc(w, s, op)
      PROVE  [Lock!Next]_lockVars
  BY <1>6 DEF ReadDoc
<1>7. ASSUME NEW w \in Writers, WriteDoc(w) PROVE [Lock!Next]_lockVars
  BY <1>7 DEF WriteDoc
<1> QED BY <1>1, <1>2, <1>3, <1>4, <1>5, <1>6, <1>7 DEF Next

\* check_due_subscriptions works between acquire and release only: with its
\* own variables hidden, every step of the scheduler is a step of the lock.
THEOREM SchedulerImplementsLock == Spec => ImplementsLock
<1>1. Init => Lock!Init
  BY DEF Init
<1>2. [Next]_vars => [Lock!Next]_Lock!lockVars
  BY LockStepOrStutter DEF lockVars, Lock!lockVars
<1> QED BY <1>1, <1>2, PTL DEF Spec, ImplementsLock, Lock!LockSpec

-----------------------------------------------------------------------------
(* Nobody holds a document with more outcomes than were counted.           *)

\* What the proof needs of the types, and that whoever is about to write has
\* the document of a subscription.
Documents ==
  /\ clock \in 0..MaxClock
  /\ doc \in [Subs -> Docs]
  /\ counted \in [Subs -> Nat]
  /\ inst \in [Instances -> InstanceStates]
  /\ writer \in [Writers -> WriterStates]
  /\ \A i \in Instances :
       inst[i].pc \in {"dispatch", "update"} => inst[i].sub \in Subs
  /\ \A w \in Writers : writer[w].op # "none" => writer[w].sub \in Subs

\* The count that a writer will base its write on was true once, and the
\* number of counted outcomes only grows.
Held ==
  /\ \A i \in Instances : inst[i].pc = "update" =>
       inst[i].seen.count <= counted[inst[i].sub]
  /\ \A w \in Writers : writer[w].op # "none" =>
       writer[w].seen.count <= counted[writer[w].sub]

CountInv == Documents /\ NeverOvercounted /\ Held

\* Never, the first instant and the one after now are times.
LEMMA TimesFacts ==
  /\ Never \in Times /\ 1 \in Times
  /\ clock \in 0..MaxClock => clock + 1 \in Times
BY SchedulerBoundsAssumption DEF Times, Never

\* The new document and the idle records of instances and writers have their
\* types.
LEMMA IdleTypes ==
  /\ NewDoc \in Docs /\ Nothing \in [Subs -> Times]
  /\ IdleInstance \in InstanceStates /\ IdleWriter \in WriterStates
<1>1. NewDoc \in Docs
  BY TimesFacts DEF NewDoc, Docs
<1>2. Nothing \in [Subs -> Times]
  BY TimesFacts DEF Nothing
<1>3. IdleInstance \in InstanceStates
  BY <1>1, <1>2 DEF IdleInstance, InstanceStates
<1>4. IdleWriter \in WriterStates
  BY <1>1 DEF IdleWriter, WriterStates
<1> QED BY <1>1, <1>2, <1>3, <1>4

\* The invariant of the statistics holds initially.
LEMMA CountInit == Init => CountInv
<1> SUFFICES ASSUME Init PROVE CountInv
  OBVIOUS
<1>1. Documents
  BY IdleTypes, SchedulerBoundsAssumption
     DEF Init, Documents, IdleInstance, IdleWriter
<1>2. NeverOvercounted
  BY DEF Init, NeverOvercounted, NewDoc
<1>3. Held
  BY DEF Init, Held, IdleInstance, IdleWriter
<1> QED BY <1>1, <1>2, <1>3 DEF CountInv

\* An instance that moves on to another state of its own, with the documents
\* untouched.
LEMMA InstanceMoves ==
  ASSUME CountInv, NEW i \in Instances, NEW x \in InstanceStates,
         inst' = [inst EXCEPT ![i] = x],
         x.pc \in {"dispatch", "update"} => x.sub \in Subs,
         x.pc = "update" => x.seen.count <= counted[x.sub],
         UNCHANGED << clock, doc, counted, writer >>
  PROVE  CountInv'
<1>1. Documents'
  BY DEF CountInv, Documents
<1>2. NeverOvercounted'
  BY DEF CountInv, NeverOvercounted
<1>3. Held'
  BY DEF CountInv, Documents, Held
<1> QED BY <1>1, <1>2, <1>3 DEF CountInv

\* A step of the pass keeps every document, stored or read earlier, at or
\* below the outcomes counted.
LEMMA PassStepCounts ==
  ASSUME CountInv, NEW i \in Instances, PassStep(i)
  PROVE  CountInv'
<1> USE DEF CountInv, Documents
<1>0. inst[i] \in InstanceStates
  OBVIOUS
<1>1. CASE FindDue(i)
  <2> DEFINE due == [s \in Subs |-> IF IsDue(s) THEN doc[s].next ELSE Never]
             x == [inst[i] EXCEPT !.pc = "loop", !.due = due]
  <2>1. due \in [Subs -> Times]
    BY TimesFacts DEF Docs
  <2>2. x \in InstanceStates /\ x.pc = "loop"
    BY <1>0, <2>1 DEF InstanceStates
  <2>3. inst' = [inst EXCEPT ![i] = x]
    BY <1>1 DEF FindDue
  <2>4. UNCHANGED << clock, doc, counted, writer >>
    BY <1>1 DEF FindDue, docVars
  <2> HIDE DEF x, CountInv, Documents
  <2> QED BY <2>2, <2>3, <2>4, InstanceMoves
<1>2. ASSUME NEW s \in Subs, CreateExecution(i, s)
      PROVE  CountInv'
  <2> DEFINE x == [inst[i] EXCEPT !.pc = "dispatch", !.sub = s,
                                  !.due[s] = Never]
  <2>1. x \in InstanceStates /\ x.pc = "dispatch" /\ x.sub = s
    BY <1>0, TimesFacts DEF InstanceStates
  <2>2. inst' = [inst EXCEPT ![i] = x]
    BY <1>2 DEF CreateExecution
  <2>3. UNCHANGED << clock, doc, counted, writer >>
    BY <1>2 DEF CreateExecution, docVars
  <2> HIDE DEF x, CountInv, Documents
  <2> QED BY <2>1, <2>2, <2>3, InstanceMoves
<1>3. ASSUME NEW s \in Subs, CreationFails(i, s)
      PROVE  CountInv'
  <2> DEFINE x == [inst[i] EXCEPT !.due[s] = Never]
  <2>1. x \in InstanceStates /\ x.pc = "loop"
    BY <1>0, <1>3, TimesFacts DEF InstanceStates, CreationFails
  <2>2. inst' = [inst EXCEPT ![i] = x]
    BY <1>3 DEF CreationFails
  <2>3. UNCHANGED << clock, doc, counted, writer >>
    BY <1>3 DEF CreationFails, docVars
  <2> HIDE DEF x, CountInv, Documents
  <2> QED BY <2>1, <2>2, <2>3, InstanceMoves
<1>4. CASE DispatchBackgroundExecution(i)
  <2> DEFINE s == inst[i].sub
             x == [inst[i] EXCEPT !.pc = "update", !.seen = doc[s]]
  <2>1. s \in Subs
    BY <1>4 DEF DispatchBackgroundExecution
  <2>2. x \in InstanceStates /\ x.sub = s /\ x.seen = doc[s]
    BY <1>0, <2>1 DEF InstanceStates
  <2>3. inst' = [inst EXCEPT ![i] = x]
    BY <1>4 DEF DispatchBackgroundExecution
  <2>4. UNCHANGED << clock, doc, counted, writer >>
    BY <1>4 DEF DispatchBackgroundExecution
  <2>5. doc[s].count <= counted[s]
    BY <2>1 DEF NeverOvercounted
  <2> HIDE DEF x, CountInv, Documents
  <2> QED BY <2>1, <2>2, <2>3, <2>4, <2>5, InstanceMoves
<1>5. CASE UpdateNextExecutionTime(i)
  <2> DEFINE s == inst[i].sub
             d == IF s \in OneTime
                    THEN [inst[i].seen EXCEPT !.enabled = FALSE, !.next = Never]
                    ELSE [inst[i].seen EXCEPT !.next = NextTime(s)]
             x == [IdleInstance EXCEPT !.pc = "loop", !.due = inst[i].due]
  <2>1. s \in Subs /\ inst[i].seen \in Docs
        /\ inst[i].seen.count <= counted[s]
    BY <1>0, <1>5 DEF UpdateNextExecutionTime, Held, InstanceStates
  <2>2. d \in Docs /\ d.count = inst[i].seen.count
    BY <2>1, TimesFacts DEF Docs, NextTime
  <2>3. x \in InstanceStates /\ x.pc = "loop"
    BY <1>0, IdleTypes DEF InstanceStates, IdleInstance
  <2>4. /\ doc' = [doc EXCEPT ![s] = d]
        /\ inst' = [inst EXCEPT ![i] = x]
        /\ UNCHANGED << clock, counted, writer >>
    BY <1>5 DEF UpdateNextExecutionTime
  <2> HIDE DEF s, d, x
  <2>5. Documents'
    BY <2>1, <2>2, <2>3, <2>4
  <2>6. NeverOvercounted'
    BY <2>1, <2>2, <2>4 DEF NeverOvercounted
  <2>7. Held'
    BY <2>3, <2>4 DEF Held
  <2> QED BY <2>5, <2>6, <2>7
<1>6. CASE ProcessingFails(i)
  <2> DEFINE x == [IdleInstance EXCEPT !.pc = "loop", !.due = inst[i].due]
  <2>1. x \in InstanceStates /\ x.pc = "loop"
    BY <1>0, IdleTypes DEF InstanceStates, IdleInstance
  <2>2. inst' = [inst EXCEPT ![i] = x]
    BY <1>6 DEF ProcessingFails
  <2>3. UNCHANGED << clock, doc, counted, writer >>
    BY <1>6 DEF ProcessingFails, docVars
  <2> HIDE DEF x, CountInv, Documents
  <2> QED BY <2>1, <2>2, <2>3, InstanceMoves
<1>7. CASE EndPass(i)
  <2>1. /\ inst' = [inst EXCEPT ![i] = IdleInstance]
        /\ UNCHANGED << clock, doc, counted, writer >>
    BY <1>7 DEF EndPass, docVars
  <2>2. IdleInstance \in InstanceStates /\ IdleInstance.pc = "idle"
    BY IdleTypes DEF IdleInstance
  <2> HIDE DEF CountInv, Documents
  <2> QED BY <2>1, <2>2, InstanceMoves
<1> HIDE DEF CountInv, Documents
<1> QED BY <1>1, <1>2, <1>3, <1>4, <1>5, <1>6, <1>7 DEF PassStep

\* A step of a writer keeps every document, stored or read earlier, at or
\* below the outcomes counted.
LEMMA WriterCounts ==
  ASSUME CountInv, NEW w \in Writers,
         WriteDoc(w) \/ \E s \in Subs, op \in Ops : ReadDoc(w, s, op)
  PROVE  CountInv'
<1> USE DEF CountInv, Documents
<1>1. ASSUME NEW s \in Subs, NEW op \in Ops, ReadDoc(w, s, op)
      PROVE  CountInv'
  <2> DEFINE x == [op |-> op, sub |-> s, seen |-> doc[s]]
  <2>1. /\ x \in WriterStates /\ x.sub = s /\ x.seen = doc[s]
    BY OpsAssumption DEF WriterStates
  <2>2. /\ writer' = [writer EXCEPT ![w] = x]
        /\ UNCHANGED << clock, doc, counted, inst >>
    BY <1>1 DEF ReadDoc
  <2> HIDE DEF x
  <2>3. Documents'
    BY <2>1, <2>2
  <2>4. NeverOvercounted'
    BY <2>2 DEF NeverOvercounted
  <2>5. Held'
    BY <2>1, <2>2 DEF Held, NeverOvercounted
  <2> QED BY <2>3, <2>4, <2>5
<1>2. CASE WriteDoc(w)
  <2> DEFINE x == writer[w]
             s == x.sub
  <2>1. /\ x.op \in Operations /\ s \in Subs /\ x.seen \in Docs
        /\ x.seen.count <= counted[s]
    BY <1>2 DEF WriteDoc, WriterStates, Held
  <2>2. PICK d \in Edited(s, x.op, x.seen) : doc' = [doc EXCEPT ![s] = d]
    BY <1>2 DEF WriteDoc
  <2>3. /\ d \in Docs
        /\ d.count = IF x.op = "count" THEN x.seen.count + 1 ELSE x.seen.count
    <3> DEFINE c == x.seen
    <3>1. c \in Docs /\ c.count \in Nat
      BY <2>1 DEF Docs
    <3>2. NextTime(s) \in Times /\ Never \in Times
      BY TimesFacts DEF NextTime
    <3>3. CASE x.op = "count"
      <4>1. d = [c EXCEPT !.count = @ + 1]
        BY <2>2, <3>3 DEF Edited
      <4> QED BY <3>1, <3>3, <4>1 DEF Docs
    <3>4. CASE x.op = "enable"
      <4>1. d = [c EXCEPT !.enabled = TRUE, !.next = NextTime(s)]
        BY <2>2, <3>4 DEF Edited
      <4> QED BY <3>1, <3>2, <3>4, <4>1 DEF Docs
    <3>5. CASE x.op = "disable"
      <4>1. d = [c EXCEPT !.enabled = FALSE, !.next = Never]
        BY <2>2, <3>5 DEF Edited
      <4> QED BY <3>1, <3>2, <3>5, <4>1 DEF Docs
    <3>6. CASE x.op = "update"
      <4>1. d = [c EXCEPT !.next = NextTime(s)]
        BY <2>2, <3>6 DEF Edited
      <4> QED BY <3>1, <3>2, <3>6, <4>1 DEF Docs
    <3>7. CASE x.op = "flag"
      <4>1. PICK b \in BOOLEAN : d = [c EXCEPT !.enabled = b]
        BY <2>2, <3>7 DEF Edited
      <4> QED BY <3>1, <3>7, <4>1 DEF Docs
    <3>8. CASE x.op = "delete"
      <4>1. d = [c EXCEPT !.enabled = FALSE]
        BY <2>2, <3>8 DEF Edited
      <4> QED BY <3>1, <3>8, <4>1 DEF Docs
    <3> QED BY <2>1, <3>3, <3>4, <3>5, <3>6, <3>7, <3>8 DEF Operations
  <2>4. /\ counted' = IF x.op = "count" THEN [counted EXCEPT ![s] = @ + 1]
                      ELSE counted
        /\ writer' = [writer EXCEPT ![w] = IdleWriter]
        /\ UNCHANGED << clock, inst >>
    BY <1>2 DEF WriteDoc
  <2>5. /\ counted' \in [Subs -> Nat]
        /\ \A t \in Subs : counted[t] <= counted'[t]
        /\ d.count <= counted'[s]
    BY <2>1, <2>3, <2>4 DEF Docs
  <2>6. Documents'
    BY <2>1, <2>2, <2>3, <2>4, <2>5, IdleTypes DEF IdleWriter
  <2>7. NeverOvercounted'
    <3> SUFFICES ASSUME NEW t \in Subs PROVE doc'[t].count <= counted'[t]
      BY DEF NeverOvercounted
    <3>1. CASE t = s
      BY <2>1, <2>2, <2>5, <3>1
    <3>2. CASE t # s
      <4>1. doc[t].count <= counted[t] /\ doc'[t] = doc[t]
        BY <2>2, <3>2 DEF NeverOvercounted
      <4>2. doc[t].count \in Nat /\ counted[t] \in Nat /\ counted'[t] \in Nat
        BY <2>5 DEF Docs
      <4> QED BY <2>5, <4>1, <4>2
    <3> QED BY <3>1, <3>2
  <2>8. Held'
    <3>1. ASSUME NEW i \in Instances, inst[i].pc = "update"
          PROVE  inst[i].seen.count <= counted'[inst[i].sub]
      <4>1. inst[i].sub \in Subs /\ inst[i].seen.count \in Nat
            /\ inst[i].seen.count <= counted[inst[i].sub]
        BY <3>1 DEF Held, InstanceStates, Docs
      <4>2. counted[inst[i].sub] \in Nat /\ counted'[inst[i].sub] \in Nat
        BY <2>5, <4>1
      <4> QED BY <2>5, <4>1, <4>2
    <3>2. ASSUME NEW v \in Writers, writer'[v].op # "none"
          PROVE  writer'[v].seen.count <= counted'[writer'[v].sub]
      <4>1. v # w /\ writer'[v] = writer[v]
        BY <2>4, <3>2 DEF IdleWriter
      <4>2. writer[v].sub \in Subs /\ writer[v].seen.count \in Nat
            /\ writer[v].seen.count <= counted[writer[v].sub]
        BY <3>2, <4>1 DEF Held, WriterStates, Docs
      <4>3. counted[writer[v].sub] \in Nat /\ counted'[writer[v].sub] \in Nat
        BY <2>5, <4>2
      <4> QED BY <2>5, <4>1, <4>2, <4>3
    <3> QED BY <2>4, <3>1, <3>2 DEF Held
  <2> QED BY <2>6, <2>7, <2>8
<1> QED BY <1>1, <1>2

\* Every step keeps the invariant of the statistics.
LEMMA CountStep ==
  ASSUME CountInv, [Next]_vars
  PROVE  CountInv'
<1>1. CASE Tick
  <2>1. clock' \in 0..MaxClock
    BY <1>1, SchedulerBoundsAssumption DEF Tick, CountInv, Documents
  <2> QED BY <1>1, <2>1 DEF Tick, CountInv, Documents, NeverOvercounted, Held,
                            docVars
<1>2. CASE KeyExpires \/ UNCHANGED vars
  BY <1>2 DEF KeyExpires, CountInv, Documents, NeverOvercounted, Held, docVars,
              vars
<1>3. ASSUME NEW i \in Instances, StartPass(i) PROVE CountInv'
  <2>1. UNCHANGED << clock, doc, counted, writer >>
    BY <1>3 DEF StartPass, docVars
  <2>2. CASE inst' = inst
    BY <2>1, <2>2 DEF CountInv, Documents, NeverOvercounted, Held
  <2>3. CASE inst' = [inst EXCEPT ![i].pc = "query"]
    <3> DEFINE x == [inst[i] EXCEPT !.pc = "query"]
    <3>1. x \in InstanceStates /\ x.pc = "query"
      BY DEF CountInv, Documents, InstanceStates
    <3>2. inst' = [inst EXCEPT ![i] = x]
      BY <2>3
    <3> HIDE DEF x
    <3> QED BY <2>1, <3>1, <3>2, InstanceMoves
  <2> QED BY <1>3, <2>2, <2>3 DEF StartPass
<1>4. ASSUME NEW i \in Instances, PassStep(i) PROVE CountInv'
  BY <1>4, PassStepCounts
<1>5. ASSUME NEW i \in Instances, InstanceCrash(i) PROVE CountInv'
  <2>1. /\ inst' = [inst EXCEPT ![i] = IdleInstance]
        /\ UNCHANGED << clock, doc, counted, writer >>
    BY <1>5 DEF InstanceCrash, docVars
  <2>2. IdleInstance \in InstanceStates /\ IdleInstance.pc = "idle"
    BY IdleTypes DEF IdleInstance
  <2> QED BY <2>1, <2>2, InstanceMoves
<1>6. ASSUME NEW w \in Writers,
             WriteDoc(w) \/ \E s \in Subs, op \in Ops : ReadDoc(w, s, op)
      PROVE  CountInv'
  BY <1>6, WriterCounts
<1> QED BY <1>1, <1>2, <1>3, <1>4, <1>5, <1>6 DEF Next

\* However the statistics, the scheduler and the user overwrite each other's
\* documents, the counter never exceeds the number of outcomes counted
\* (_update_subscription_statistics against every other writer).
THEOREM CountsAreReal == Spec => []NeverOvercounted
<1>1. CountInv /\ [Next]_vars => CountInv'
  BY CountStep
<1>2. CountInv => NeverOvercounted
  BY DEF CountInv
<1> QED BY CountInit, <1>1, <1>2, PTL DEF Spec

-----------------------------------------------------------------------------
(* The lock inside the scheduler, and the types.                           *)

Slack == Cardinality(inside) <= (IF key THEN 1 ELSE 0) + overruns + errors
LockGood == Lock!LockTypeOK /\ Slack

\* The bounds of the lock are natural numbers.
LEMMA LockBounds ==
  /\ MaxOverruns \in Nat /\ MaxErrors \in Nat /\ MaxCrashes \in Nat
  /\ IsFiniteSet(Instances) /\ Nobody \notin Instances
BY LockAssumption

\* Entering and leaving change the number of those inside by one.
LEMMA EnterLeave ==
  ASSUME Lock!LockTypeOK, NEW i \in Instances
  PROVE  /\ Cardinality(inside) \in Nat
         /\ i \notin inside
              => Cardinality(inside \cup {i}) = Cardinality(inside) + 1
         /\ i \in inside => Cardinality(inside \ {i}) = Cardinality(inside) - 1
<1>1. IsFiniteSet(inside)
  BY LockBounds, FS_Subset DEF Lock!LockTypeOK
<1> QED BY <1>1, FS_CardinalityType, FS_AddElement, FS_RemoveElement

\* Every step of the lock keeps its types, and the number of those inside
\* within the expirations and errors; the faults only grow.
LEMMA LockKept ==
  ASSUME LockGood, [Lock!Next]_lockVars
  PROVE  /\ LockGood'
         /\ overruns <= overruns' /\ errors <= errors' /\ crashes <= crashes'
<1> DEFINE Goal == /\ Lock!LockTypeOK' /\ Slack'
                   /\ overruns <= overruns' /\ errors <= errors'
                   /\ crashes <= crashes'
<1> USE LockBounds DEF LockGood, Lock!LockTypeOK
<1>0. Cardinality(inside) \in Nat
  BY FS_Subset, FS_CardinalityType
<1>1. ASSUME NEW i \in Instances, Lock!Acquire(i) PROVE Goal
  BY <1>1, EnterLeave DEF Lock!Acquire, Slack
<1>2. ASSUME NEW i \in Instances, Lock!AcquireError(i) PROVE Goal
  <2>1. errors' \in 0..MaxErrors /\ errors <= errors'
    BY <1>2 DEF Lock!AcquireError
  <2>2. owner' \in inside' \cup {Nobody} /\ inside' \subseteq Instances
    BY <1>2 DEF Lock!AcquireError
  <2>3. Lock!LockTypeOK'
    BY <1>2, <2>1, <2>2 DEF Lock!AcquireError
  <2>4. Slack'
    <3>1. /\ Cardinality(inside') \in Nat
          /\ Cardinality(inside') <= Cardinality(inside) + 1
      BY <1>0, <1>2, EnterLeave DEF Lock!AcquireError
    <3>2. errors' = errors + 1 /\ overruns' = overruns /\ (key => key')
      BY <1>2 DEF Lock!AcquireError
    <3> QED BY <1>0, <3>1, <3>2 DEF Slack
  <2> QED BY <1>2, <2>1, <2>3, <2>4 DEF Lock!AcquireError
<1>3. ASSUME NEW i \in Instances, Lock!Release(i) PROVE Goal
  <2>1. Lock!LockTypeOK'
    BY <1>3 DEF Lock!Release, Lock!Leave
  <2>2. Slack'
    BY <1>3, EnterLeave DEF Lock!Release, Lock!Leave, Slack
  <2> QED BY <1>3, <2>1, <2>2 DEF Lock!Release
<1>4. ASSUME NEW i \in Instances, Lock!ReleaseError(i) PROVE Goal
  <2>1. errors' \in 0..MaxErrors /\ errors <= errors'
    BY <1>4 DEF Lock!ReleaseError
  <2>2. /\ owner' \in inside' \cup {Nobody} /\ inside' \subseteq Instances
        /\ late' \subseteq inside' /\ key' \in BOOLEAN
    BY <1>4 DEF Lock!ReleaseError, Lock!Leave, Lock!Disown
  <2>3. Lock!LockTypeOK'
    BY <1>4, <2>1, <2>2 DEF Lock!ReleaseError
  <2>4. Slack'
    BY <1>4, EnterLeave DEF Lock!ReleaseError, Lock!Leave, Slack
  <2> QED BY <1>4, <2>1, <2>3, <2>4 DEF Lock!ReleaseError
<1>5. ASSUME NEW i \in Instances, Lock!Crash(i) PROVE Goal
  <2>1. Lock!LockTypeOK' /\ crashes <= crashes'
    BY <1>5 DEF Lock!Crash, Lock!Leave, Lock!Disown
  <2>2. Slack'
    BY <1>5, EnterLeave DEF Lock!Crash, Lock!Leave, Slack
  <2> QED BY <1>5, <2>1, <2>2 DEF Lock!Crash
<1>6. CASE Lock!Expire
  <2>1. overruns' \in 0..MaxOverruns /\ overruns <= overruns'
    BY <1>6 DEF Lock!Expire
  <2>2. late' \subseteq inside'
    BY <1>6 DEF Lock!Expire
  <2>3. Lock!LockTypeOK'
    BY <1>6, <2>1, <2>2 DEF Lock!Expire
  <2>4. CASE inside = {}
    <3>1. Cardinality(inside) = 0
      BY <2>4, FS_EmptySet
    <3> QED BY <1>6, <2>1, <2>3, <2>4, <3>1 DEF Lock!Expire, Slack
  <2>5. CASE inside # {}
    BY <1>0, <1>6, <2>1, <2>3, <2>5 DEF Lock!Expire, Slack
  <2> QED BY <2>4, <2>5
<1>7. CASE UNCHANGED lockVars
  BY <1>7 DEF lockVars, Slack
<1> QED BY <1>1, <1>2, <1>3, <1>4, <1>5, <1>6, <1>7 DEF Lock!Next

\* What TypeOK says beyond the documents and the lock.
Rest ==
  /\ active \in [Subs -> BOOLEAN]
  /\ open \in [Subs -> Nat]
  /\ writes \in 0..MaxWrites /\ fails \in 0..MaxFails
  /\ fired \in [Subs -> [Times -> Nat]]

\* Writers that have read a document and not written it yet: each of them is one
\* of the writes counted.
Writing == {w \in Writers : writer[w].op # "none"}
Pending == IsFiniteSet(Writing) /\ Cardinality(Writing) <= writes

Typed == CountInv /\ LockGood /\ Rest /\ Pending

\* The initial state is well typed.
LEMMA TypedInit == Init => Typed
<1> SUFFICES ASSUME Init PROVE LockGood /\ Rest /\ Pending
  BY CountInit DEF Typed
<1>1. Lock!LockTypeOK
  <2>1. key \in BOOLEAN /\ inside = {} /\ owner = Nobody /\ late = {}
    BY DEF Init, Lock!Init
  <2>2. /\ overruns \in 0..MaxOverruns /\ errors \in 0..MaxErrors
        /\ crashes \in 0..MaxCrashes
    BY LockBounds DEF Init, Lock!Init
  <2> QED BY <2>1, <2>2 DEF Lock!LockTypeOK
<1>2. Slack
  <2>1. Cardinality(inside) = 0
    BY FS_EmptySet DEF Init, Lock!Init
  <2> QED BY <2>1 DEF Init, Lock!Init, Slack
<1>3. Rest
  BY SchedulerBoundsAssumption DEF Init, Rest
<1>4. Pending
  <2>1. Writing = {}
    BY DEF Init, Writing, IdleWriter
  <2> QED BY <2>1, FS_EmptySet DEF Init, Pending
<1> QED BY <1>1, <1>2, <1>3, <1>4 DEF LockGood

\* Every step of a pass or of a writer keeps the remaining types.
LEMMA RestStep ==
  ASSUME Typed, [Next]_vars
  PROVE  Rest' /\ fails <= fails'
<1> USE SchedulerBoundsAssumption DEF Rest, Typed
<1>1. CASE Tick \/ KeyExpires \/ UNCHANGED vars
  BY <1>1 DEF Tick, KeyExpires, vars, docVars
<1>2. ASSUME NEW i \in Instances, StartPass(i) \/ InstanceCrash(i)
      PROVE  Rest' /\ fails <= fails'
  BY <1>2 DEF StartPass, InstanceCrash, docVars
<1>3. ASSUME NEW i \in Instances, PassStep(i)
      PROVE  Rest' /\ fails <= fails'
  <2>1. CASE FindDue(i) \/ UpdateNextExecutionTime(i)
    BY <2>1 DEF FindDue, UpdateNextExecutionTime, docVars
  <2>2. ASSUME NEW s \in Subs, CreateExecution(i, s)
        PROVE  Rest' /\ fails <= fails'
    <3>1. inst[i].due[s] \in Times
      BY DEF CountInv, Documents, InstanceStates
    <3>2. fired' = [fired EXCEPT ![s][inst[i].due[s]] = @ + 1]
      BY <2>2 DEF CreateExecution
    <3>3. fired' \in [Subs -> [Times -> Nat]]
      BY <3>1, <3>2
    <3> QED BY <2>2, <3>3 DEF CreateExecution, docVars
  <2>3. ASSUME NEW s \in Subs, CreationFails(i, s)
        PROVE  Rest' /\ fails <= fails'
    BY <2>3 DEF CreationFails, docVars
  <2>4. CASE DispatchBackgroundExecution(i)
    <3>1. inst[i].sub \in Subs
      BY <2>4 DEF DispatchBackgroundExecution, CountInv, Documents
    <3>2. open' = [open EXCEPT ![inst[i].sub] = @ + 1]
      BY <2>4 DEF DispatchBackgroundExecution
    <3>3. open' \in [Subs -> Nat]
      BY <3>1, <3>2
    <3> QED BY <2>4, <3>3 DEF DispatchBackgroundExecution
  <2>5. CASE ProcessingFails(i)
    BY <2>5 DEF ProcessingFails, docVars
  <2>6. CASE EndPass(i)
    BY <2>6 DEF EndPass, docVars
  <2> QED BY <1>3, <2>1, <2>2, <2>3, <2>4, <2>5, <2>6 DEF PassStep
<1>4. ASSUME NEW w \in Writers, NEW s \in Subs, NEW op \in Ops, ReadDoc(w, s, op)
      PROVE  Rest' /\ fails <= fails'
  BY <1>4 DEF ReadDoc
<1>5. ASSUME NEW w \in Writers, WriteDoc(w)
      PROVE  Rest' /\ fails <= fails'
  <2>1. active' = active \/ active' = [active EXCEPT ![writer[w].sub] = FALSE]
    BY <1>5 DEF WriteDoc
  <2>2. active' \in [Subs -> BOOLEAN]
    BY <2>1
  <2> QED BY <1>5, <2>2 DEF WriteDoc
<1> QED BY <1>1, <1>2, <1>3, <1>4, <1>5 DEF Next

\* The writes that are done.
Done == writes - Cardinality(Writing)

\* A document that is read makes one more write that is not done, one that is
\* written one more that is.
LEMMA PendingStep ==
  ASSUME Typed, [Next]_vars
  PROVE  /\ Pending' /\ Done <= Done'
         /\ \A w \in Writers : WriteDoc(w) => Done' = Done + 1
<1> DEFINE Goal == /\ Pending' /\ Done <= Done'
                   /\ \A w \in Writers : WriteDoc(w) => Done' = Done + 1
<1> SUFFICES Goal
  OBVIOUS
<1>1. /\ IsFiniteSet(Writing) /\ Cardinality(Writing) \in Nat
      /\ Cardinality(Writing) <= writes /\ writes \in Nat
      /\ writer \in [Writers -> WriterStates]
  BY FS_CardinalityType, SchedulerBoundsAssumption
     DEF Typed, Pending, Rest, CountInv, Documents
<1>2. ASSUME UNCHANGED << writer, writes >> PROVE Goal
  <2>1. Writing' = Writing
    BY <1>2 DEF Writing
  <2>2. ~ \E w \in Writers : WriteDoc(w)
    BY <1>1, <1>2 DEF WriteDoc, IdleWriter
  <2> QED BY <1>1, <1>2, <2>1, <2>2 DEF Pending, Done
<1>3. ASSUME NEW w \in Writers, NEW s \in Subs, NEW op \in Ops, ReadDoc(w, s, op)
      PROVE  Goal
  <2>1. writer' = [writer EXCEPT ![w] = [op |-> op, sub |-> s, seen |-> doc[s]]]
    BY <1>3 DEF ReadDoc
  <2>2. op # "none" /\ w \notin Writing /\ writes' = writes + 1
    BY <1>3, OpsAssumption DEF ReadDoc, Writing, Operations
  <2>3. Writing' = Writing \cup {w}
    BY <1>1, <2>1, <2>2 DEF Writing
  <2>4. /\ IsFiniteSet(Writing \cup {w})
        /\ Cardinality(Writing \cup {w}) = Cardinality(Writing) + 1
    BY <1>1, <2>2, FS_AddElement
  <2>5. ~ \E v \in Writers : WriteDoc(v)
    BY <2>2, <1>1 DEF WriteDoc
  <2> QED BY <1>1, <2>2, <2>3, <2>4, <2>5 DEF Pending, Done
<1>4. ASSUME NEW w \in Writers, WriteDoc(w) PROVE Goal
  <2>1. writer' = [writer EXCEPT ![w] = IdleWriter] /\ writes' = writes
    BY <1>4 DEF WriteDoc
  <2>2. w \in Writing /\ Writing' = Writing \ {w}
    BY <1>1, <1>4, <2>1 DEF WriteDoc, Writing, IdleWriter
  <2>3. /\ IsFiniteSet(Writing \ {w})
        /\ Cardinality(Writing \ {w}) = Cardinality(Writing) - 1
    BY <1>1, <2>2, FS_RemoveElement
  <2>4. /\ Pending'
        /\ Done' = writes' - Cardinality(Writing')
    BY <1>1, <2>1, <2>2, <2>3 DEF Pending, Done
  <2>5. Done' = Done + 1
    BY <1>1, <2>1, <2>2, <2>3, <2>4 DEF Done
  <2> QED BY <1>1, <2>4, <2>5 DEF Done
<1>5. CASE Tick \/ KeyExpires \/ UNCHANGED vars
  BY <1>2, <1>5 DEF Tick, KeyExpires, vars, docVars
<1>6. ASSUME NEW i \in Instances, StartPass(i) \/ PassStep(i) \/ InstanceCrash(i)
      PROVE  Goal
  BY <1>2, <1>6 DEF StartPass, PassStep, InstanceCrash, FindDue, CreateExecution,
       CreationFails, DispatchBackgroundExecution, UpdateNextExecutionTime,
       ProcessingFails, EndPass, docVars
<1> HIDE DEF Goal
<1> QED BY <1>3, <1>4, <1>5, <1>6 DEF Next

\* Every step keeps the types.
LEMMA TypedStep ==
  ASSUME Typed, [Next]_vars
  PROVE  Typed'
BY CountStep, RestStep, PendingStep, LockStepOrStutter, LockKept DEF Typed

\* The types hold in every reachable state.
LEMMA AlwaysTyped == Spec => []Typed
<1>1. Typed /\ [Next]_vars => Typed'
  BY TypedStep
<1> QED BY TypedInit, <1>1, PTL DEF Spec

\* Every variable keeps its type however the passes and the writers
\* interleave; above all nobody is inside without having entered, and no
\* fault is counted beyond its bound.
THEOREM TypeCorrect == Spec => []TypeOK
<1>1. Typed => TypeOK
  BY DEF Typed, CountInv, Documents, LockGood, Rest, TypeOK
<1> QED BY AlwaysTyped, <1>1, PTL

-----------------------------------------------------------------------------
(* An occurrence fires once, once more for each fault, and again for each    *)
(* write that puts its time back.  The number of those inside is bounded by  *)
(* the faults (Slack), each of them fires an occurrence at most once before  *)
(* it moves the subscription on, and once the subscription has moved on only *)
(* those fire it who had listed it.  A write that moves it back begins       *)
(* another round, in which everybody inside may fire it once more.           *)

\* Instances that may still fire the occurrence t of s.
MayFire(s, t) ==
  {i \in Instances : \/ inst[i].due[s] = t
                     \/ inst[i].pc = "query" /\ doc[s].next = t}

\* Instances that have fired an occurrence of s and not moved s on yet.
Firing(s) ==
  {i \in Instances : inst[i].pc \in {"dispatch", "update"} /\ inst[i].sub = s}

\* As many may be inside the lock, and fire an occurrence before it is moved on;
\* what the writes that are done have allowed in addition.
Round == 1 + overruns + errors
Again == Done * Round

\* While s is at t, every execution of t is of somebody who is still at it, of an
\* earlier round, or failed; later, those and the ones to come are within the
\* rounds.
Once(s, t) ==
  IF doc[s].next = t
    THEN fired[s][t] <= Cardinality(Firing(s)) + Again + crashes + fails
    ELSE fired[s][t] + Cardinality(MayFire(s, t))
           <= Again + Round + crashes + fails

\* Who is in a pass is inside the lock, lists subscriptions while in the loop
\* only, and lists what is due.
PassOf(i) ==
  /\ inst[i].pc # "idle" <=> i \in inside
  /\ inst[i].pc \in {"idle", "query"} => \A s \in Subs : inst[i].due[s] = Never
  /\ inst[i].pc \in {"dispatch", "update"} => inst[i].due[inst[i].sub] = Never
  /\ \A s \in Subs : inst[i].due[s] <= clock
Passes == \A i \in Instances : PassOf(i)

\* Nothing fires before its time.
Past == \A s \in Subs, t \in Times : fired[s][t] > 0 => t # Never /\ t <= clock

Charged == \A s \in Subs, t \in Times \ {Never} : Once(s, t)
OnceInv == Passes /\ Past /\ Charged

\* Sums and products of natural numbers, and that products grow with their factors.
LEMMA Sums == ASSUME NEW a \in Nat, NEW b \in Nat PROVE 1 + a + b \in Nat
OBVIOUS

LEMMA Product == ASSUME NEW a \in Nat, NEW b \in Nat PROVE a * b \in Nat
OBVIOUS

LEMMA Products ==
  ASSUME NEW a \in Nat, NEW b \in Nat, NEW c \in Nat, NEW d \in Nat,
         a <= c, b <= d
  PROVE  a * b \in Nat /\ a * b <= c * d /\ (a + 1) * b = a * b + b
<1>1. a * b \in Nat /\ c * b \in Nat /\ c * d \in Nat
  OBVIOUS
<1>2. PICK e \in Nat : c = a + e
  <2>1. c - a \in Nat /\ c = a + (c - a)
    OBVIOUS
  <2> QED BY <2>1
<1>3. PICK f \in Nat : d = b + f
  <2>1. d - b \in Nat /\ d = b + (d - b)
    OBVIOUS
  <2> QED BY <2>1
<1>4. c * d = a * b + a * f + e * b + e * f
  BY <1>2, <1>3
<1>5. a * f \in Nat /\ e * b \in Nat /\ e * f \in Nat
  OBVIOUS
<1>6. a * b <= c * d
  BY <1>1, <1>4, <1>5
<1>7. (a + 1) * b = a * b + b
  OBVIOUS
<1> QED BY <1>1, <1>6, <1>7

\* Taking one element away lowers a cardinality by at most one.
LEMMA TakeOne ==
  ASSUME NEW S, IsFiniteSet(S), NEW x
  PROVE  /\ Cardinality(S) \in Nat /\ Cardinality(S \ {x}) \in Nat
         /\ Cardinality(S) <= Cardinality(S \ {x}) + 1
<1>1. Cardinality(S) \in Nat
  BY FS_CardinalityType
<1>2. CASE x \in S
  <2>1. Cardinality(S \ {x}) = Cardinality(S) - 1 /\ IsFiniteSet(S \ {x})
    BY <1>2, FS_RemoveElement
  <2>2. Cardinality(S \ {x}) \in Nat
    BY <2>1, FS_CardinalityType
  <2> QED BY <1>1, <2>1, <2>2
<1>3. CASE x \notin S
  <2>1. S \ {x} = S
    BY <1>3
  <2> QED BY <1>1, <2>1
<1> QED BY <1>2, <1>3

\* Disjoint sets inside another one.
LEMMA DisjointInside ==
  ASSUME NEW S, NEW T, NEW U, IsFiniteSet(U), S \subseteq U, T \subseteq U,
         S \cap T = {}
  PROVE  Cardinality(S) + Cardinality(T) <= Cardinality(U)
<1>1. IsFiniteSet(S) /\ IsFiniteSet(T)
  BY FS_Subset
<1>2. Cardinality(S \cap T) = 0
  BY FS_EmptySet
<1>3. Cardinality(S \cup T) = Cardinality(S) + Cardinality(T) - Cardinality(S \cap T)
  BY <1>1, FS_Union
<1>4. Cardinality(S) \in Nat /\ Cardinality(T) \in Nat
  BY <1>1, FS_CardinalityType
<1>5. S \cup T \subseteq U
  OBVIOUS
<1>6. Cardinality(S \cup T) <= Cardinality(U)
  BY <1>5, FS_Subset
<1> QED BY <1>2, <1>3, <1>4, <1>6

\* The sets counted are finite, and their members inside.
LEMMA Counts ==
  ASSUME Typed, Passes, NEW s \in Subs, NEW t \in Times \ {Never}
  PROVE  /\ IsFiniteSet(Firing(s)) /\ IsFiniteSet(MayFire(s, t))
         /\ Cardinality(Firing(s)) \in Nat
         /\ Cardinality(MayFire(s, t)) \in Nat
         /\ IsFiniteSet(inside) /\ Cardinality(inside) \in Nat
         /\ Cardinality(Firing(s)) + Cardinality(MayFire(s, t))
              <= Cardinality(inside)
<1>1. inside \subseteq Instances /\ IsFiniteSet(inside)
  BY LockBounds, FS_Subset DEF Typed, LockGood, Lock!LockTypeOK
<1>2. Firing(s) \subseteq inside
  BY DEF Firing, Passes, PassOf
<1>3. MayFire(s, t) \subseteq inside
  BY DEF MayFire, Passes, PassOf
<1>4. Firing(s) \cap MayFire(s, t) = {}
  BY DEF Firing, MayFire, Passes, PassOf
<1>5. /\ IsFiniteSet(Firing(s)) /\ Cardinality(Firing(s)) \in Nat
      /\ IsFiniteSet(MayFire(s, t)) /\ Cardinality(MayFire(s, t)) \in Nat
      /\ Cardinality(inside) \in Nat
  BY <1>1, <1>2, <1>3, FS_Subset, FS_CardinalityType
<1>6. Cardinality(Firing(s)) + Cardinality(MayFire(s, t)) <= Cardinality(inside)
  BY <1>1, <1>2, <1>3, <1>4, DisjointInside
<1> QED BY <1>1, <1>5, <1>6

\* The same of the next state.
LEMMA CountsNext ==
  ASSUME Typed', Passes', NEW s \in Subs, NEW t \in Times \ {Never}
  PROVE  /\ IsFiniteSet(Firing(s)') /\ IsFiniteSet(MayFire(s, t)')
         /\ Cardinality(Firing(s)') \in Nat
         /\ Cardinality(MayFire(s, t)') \in Nat
<1>1. Firing(s)' \subseteq Instances /\ MayFire(s, t)' \subseteq Instances
  BY DEF Firing, MayFire
<1> QED BY <1>1, LockBounds, FS_Subset, FS_CardinalityType

\* What the bound is made of, now and in the next state.
LEMMA FaultsNat ==
  ASSUME Typed
  PROVE  /\ overruns \in Nat /\ errors \in Nat /\ crashes \in Nat /\ fails \in Nat
         /\ Done \in Nat /\ Done <= writes /\ Round \in Nat /\ Again \in Nat
<1>1. /\ overruns \in Nat /\ errors \in Nat /\ crashes \in Nat /\ fails \in Nat
      /\ writes \in Nat
  BY LockBounds, SchedulerBoundsAssumption
     DEF Typed, LockGood, Lock!LockTypeOK, Rest
<1>2. Done \in Nat /\ Done <= writes
  BY <1>1, FS_CardinalityType DEF Typed, Pending, Done
<1>3. Round \in Nat
  BY <1>1 DEF Round
<1>4. Again \in Nat
  BY <1>2, <1>3, Products DEF Again
<1> QED BY <1>1, <1>2, <1>3, <1>4

LEMMA FaultsNatNext ==
  ASSUME Typed'
  PROVE  /\ overruns' \in Nat /\ errors' \in Nat /\ crashes' \in Nat
         /\ fails' \in Nat /\ Done' \in Nat /\ Round' \in Nat /\ Again' \in Nat
<1>1. /\ overruns' \in Nat /\ errors' \in Nat /\ crashes' \in Nat
      /\ fails' \in Nat /\ writes' \in Nat
  BY LockBounds, SchedulerBoundsAssumption
     DEF Typed, LockGood, Lock!LockTypeOK, Rest
<1>2. Done' \in Nat
  BY <1>1, FS_CardinalityType DEF Typed, Pending, Done
<1>3. Round' \in Nat
  <2>1. Round' = 1 + overruns' + errors'
    BY DEF Round
  <2> QED BY <1>1, <2>1, Sums
<1>4. Again' \in Nat
  <2>1. Again' = Done' * Round'
    BY DEF Again
  <2> QED BY <1>2, <1>3, <2>1, Product
<1> QED BY <1>1, <1>2, <1>3, <1>4

\* Whether or not the subscription has moved on, its executions and those to
\* come are within the faults.
LEMMA WithinFaults ==
  ASSUME Typed, Passes, NEW s \in Subs, NEW t \in Times \ {Never}, Once(s, t)
  PROVE  fired[s][t] + Cardinality(MayFire(s, t))
           <= Again + Round + crashes + fails
<1> DEFINE f == fired[s][t]
           m == Cardinality(MayFire(s, t))
           g == Cardinality(Firing(s))
           n == Cardinality(inside)
<1>1. f \in Nat /\ Round \in Nat /\ Again \in Nat /\ crashes \in Nat
      /\ fails \in Nat /\ overruns \in Nat /\ errors \in Nat
  BY FaultsNat DEF Typed, Rest
<1>2. m \in Nat /\ g \in Nat /\ n \in Nat /\ g + m <= n
  BY Counts
<1>3. n <= Round
  BY <1>1, <1>2 DEF Typed, LockGood, Slack, Round
<1>4. \/ f <= g + Again + crashes + fails
      \/ f + m <= Again + Round + crashes + fails
  BY DEF Once
<1> HIDE DEF f, m, g, n
<1>5. f + m <= Again + Round + crashes + fails
  BY <1>1, <1>2, <1>3, <1>4
<1> QED BY <1>5 DEF f, m

\* A step that fires nothing and leaves the document, in which nobody comes to
\* fire t, and who stops firing is charged to a fault.
LEMMA QuietOnce ==
  ASSUME Typed, Typed', Passes, Passes',
         NEW s \in Subs, NEW t \in Times \ {Never}, Once(s, t),
         doc'[s].next = doc[s].next, fired'[s][t] = fired[s][t],
         doc[s].next # t => MayFire(s, t)' \subseteq MayFire(s, t),
         \/ Firing(s) \subseteq Firing(s)'
         \/ /\ crashes + fails < crashes' + fails'
            /\ \E i \in Instances : Firing(s) \ {i} \subseteq Firing(s)',
         Round <= Round', Again <= Again', crashes <= crashes', fails <= fails'
  PROVE  Once(s, t)'
<1> DEFINE f == fired[s][t]
           c == crashes + fails
           d == crashes' + fails'
<1>0. /\ f \in Nat /\ Round \in Nat /\ Again \in Nat /\ crashes \in Nat
      /\ fails \in Nat
  BY FaultsNat DEF Typed, Rest
<1>1. /\ f \in Nat /\ c \in Nat /\ d \in Nat /\ c <= d
      /\ Round \in Nat /\ Again \in Nat /\ Round' \in Nat /\ Again' \in Nat
      /\ crashes \in Nat /\ fails \in Nat /\ crashes' \in Nat /\ fails' \in Nat
  BY <1>0, FaultsNatNext
<1>2. /\ IsFiniteSet(Firing(s)) /\ IsFiniteSet(MayFire(s, t))
      /\ Cardinality(Firing(s)) \in Nat /\ Cardinality(MayFire(s, t)) \in Nat
  BY Counts
<1>3. /\ IsFiniteSet(Firing(s)') /\ IsFiniteSet(MayFire(s, t)')
      /\ Cardinality(Firing(s)') \in Nat
      /\ Cardinality(MayFire(s, t)') \in Nat
  BY CountsNext
<1>4. CASE doc[s].next = t
  <2>1. f <= Cardinality(Firing(s)) + Again + c
    BY <1>1, <1>2, <1>4 DEF Once
  <2>2. Cardinality(Firing(s)) + c <= Cardinality(Firing(s)') + d
    <3>1. CASE Firing(s) \subseteq Firing(s)'
      <4>1. Cardinality(Firing(s)) <= Cardinality(Firing(s)')
        BY <1>3, <3>1, FS_Subset
      <4> QED BY <1>1, <1>2, <1>3, <4>1
    <3>2. ASSUME c < d, NEW i \in Instances,
                 Firing(s) \ {i} \subseteq Firing(s)'
          PROVE  Cardinality(Firing(s)) + c <= Cardinality(Firing(s)') + d
      <4>1. Cardinality(Firing(s) \ {i}) <= Cardinality(Firing(s)')
        BY <1>3, <3>2, FS_Subset
      <4>2. /\ Cardinality(Firing(s)) <= Cardinality(Firing(s) \ {i}) + 1
            /\ Cardinality(Firing(s) \ {i}) \in Nat
        BY <1>2, TakeOne
      <4> HIDE DEF c, d
      <4> QED BY <1>1, <1>2, <1>3, <3>2, <4>1, <4>2
    <3> QED BY <3>1, <3>2
  <2>3. f <= Cardinality(Firing(s)') + Again' + crashes' + fails'
    BY <1>1, <1>2, <1>3, <2>1, <2>2
  <2> QED BY <1>4, <2>3 DEF Once
<1>5. CASE doc[s].next # t
  <2>1. Cardinality(MayFire(s, t)') <= Cardinality(MayFire(s, t))
    BY <1>2, <1>5, FS_Subset
  <2>2. f + Cardinality(MayFire(s, t)) <= Again + Round + crashes + fails
    BY <1>5 DEF Once
  <2>3. f + Cardinality(MayFire(s, t)')
          <= Again' + Round' + crashes' + fails'
    BY <1>1, <1>2, <1>3, <2>1, <2>2
  <2> QED BY <1>5, <2>3 DEF Once
<1> QED BY <1>4, <1>5

\* Faults are never taken back, nor writes.
LEMMA FaultsGrow ==
  ASSUME Typed, Typed', [Next]_vars
  PROVE  /\ Round <= Round' /\ Again <= Again'
         /\ crashes <= crashes' /\ fails <= fails'
<1>1. /\ overruns <= overruns' /\ errors <= errors' /\ crashes <= crashes'
      /\ fails <= fails'
  BY LockStepOrStutter, LockKept, RestStep DEF Typed
<1>2. Done <= Done'
  BY PendingStep
<1>3. Round <= Round'
  BY <1>1, FaultsNat, FaultsNatNext DEF Round
<1>4. Again <= Again'
  BY <1>2, <1>3, FaultsNat, FaultsNatNext, Products DEF Again
<1> QED BY <1>1, <1>3, <1>4

\* An instance that moves on as a pass does.
LEMMA InstancePasses ==
  ASSUME Typed, Passes, NEW i \in Instances, NEW x \in InstanceStates,
         inst' = [inst EXCEPT ![i] = x], clock' = clock,
         x.pc # "idle" <=> i \in inside',
         \A j \in Instances \ {i} : j \in inside' <=> j \in inside,
         x.pc \in {"idle", "query"} => \A s \in Subs : x.due[s] = Never,
         x.pc \in {"dispatch", "update"} => x.due[x.sub] = Never,
         \A s \in Subs : x.due[s] <= clock
  PROVE  Passes'
<1> SUFFICES ASSUME NEW j \in Instances PROVE PassOf(j)'
  BY DEF Passes
<1>1. inst \in [Instances -> InstanceStates]
  BY DEF Typed, CountInv, Documents
<1>2. CASE j = i
  <2>1. inst'[j] = x
    BY <1>1, <1>2
  <2> QED BY <1>2, <2>1 DEF PassOf
<1>3. CASE j # i
  <2>1. inst'[j] = inst[j] /\ (j \in inside' <=> j \in inside) /\ PassOf(j)
    BY <1>1, <1>3 DEF Passes
  <2> QED BY <2>1 DEF PassOf
<1> QED BY <1>2, <1>3

\* If it fires nothing, lists only what it had listed or reads, and stops
\* firing only with a fault, every occurrence stays within the faults.
LEMMA InstanceOnce ==
  ASSUME Typed, Typed', Passes, Passes', Charged, [Next]_vars,
         NEW i \in Instances, NEW x \in InstanceStates,
         inst' = [inst EXCEPT ![i] = x], UNCHANGED << doc, fired >>,
         \A s \in Subs : \/ x.due[s] \in {Never, inst[i].due[s]}
                         \/ inst[i].pc = "query" /\ x.due[s] = doc[s].next,
         \/ inst[i].pc \notin {"dispatch", "update"}
         \/ x.pc \in {"dispatch", "update"} /\ x.sub = inst[i].sub
         \/ crashes + fails < crashes' + fails'
  PROVE  Charged'
<1> SUFFICES ASSUME NEW s \in Subs, NEW t \in Times \ {Never}
             PROVE  Once(s, t)'
  BY DEF Charged
<1>1. /\ inst \in [Instances -> InstanceStates] /\ inst'[i] = x
      /\ \A j \in Instances \ {i} : inst'[j] = inst[j]
  BY DEF Typed, CountInv, Documents
<1>2. doc[s].next # t => MayFire(s, t)' \subseteq MayFire(s, t)
  BY <1>1 DEF MayFire
<1>3. Firing(s) \ {i} \subseteq Firing(s)'
  BY <1>1 DEF Firing
<1>4. \/ Firing(s) \subseteq Firing(s)'
      \/ crashes + fails < crashes' + fails'
  <2>1. CASE inst[i].pc \notin {"dispatch", "update"}
    BY <1>1, <2>1 DEF Firing
  <2>2. CASE x.pc \in {"dispatch", "update"} /\ x.sub = inst[i].sub
    BY <1>1, <2>2 DEF Firing
  <2> QED BY <2>1, <2>2
<1>5. Once(s, t)
  BY DEF Charged
<1> QED BY <1>2, <1>3, <1>4, <1>5, FaultsGrow, QuietOnce

\* If no instance moves and no document changes, nothing is disturbed.
LEMMA StandStill ==
  ASSUME Typed, Typed', OnceInv, [Next]_vars,
         UNCHANGED << inst, doc, fired, inside >>, clock <= clock'
  PROVE  OnceInv'
<1>1. clock \in Nat /\ clock' \in Nat
  BY SchedulerBoundsAssumption DEF Typed, CountInv, Documents
<1>2. Passes'
  <2> SUFFICES ASSUME NEW i \in Instances, NEW s \in Subs
               PROVE  inst[i].due[s] <= clock'
    BY DEF OnceInv, Passes, PassOf
  <2>1. inst[i].due[s] <= clock /\ inst[i].due[s] \in Nat
    BY SchedulerBoundsAssumption
       DEF OnceInv, Passes, PassOf, Typed, CountInv, Documents, InstanceStates,
           Times
  <2> QED BY <1>1, <2>1
<1>3. Past'
  BY <1>1 DEF OnceInv, Past, Times
<1>5. ASSUME NEW s \in Subs, NEW t \in Times \ {Never}
      PROVE  Once(s, t)'
  <2>1. MayFire(s, t)' = MayFire(s, t) /\ Firing(s)' = Firing(s)
    BY DEF MayFire, Firing
  <2>2. Once(s, t)
    BY DEF OnceInv, Charged
  <2> QED BY <1>2, <2>1, <2>2, FaultsGrow, QuietOnce DEF OnceInv
<1> QED BY <1>2, <1>3, <1>5 DEF OnceInv, Charged

\* create_execution fires what the instance had listed, and unlists it.
LEMMA CreateExecutionOnce ==
  ASSUME Typed, Typed', OnceInv, [Next]_vars,
         NEW i \in Instances, NEW r \in Subs, CreateExecution(i, r)
  PROVE  OnceInv'
<1> DEFINE u == inst[i].due[r]
           x == [inst[i] EXCEPT !.pc = "dispatch", !.sub = r, !.due[r] = Never]
<1>1. /\ inst \in [Instances -> InstanceStates] /\ inst[i] \in InstanceStates
      /\ fired \in [Subs -> [Times -> Nat]]
  BY DEF Typed, CountInv, Documents, Rest
<1>2. /\ x \in InstanceStates /\ x.pc = "dispatch" /\ x.sub = r
      /\ x.due[r] = Never /\ \A s \in Subs \ {r} : x.due[s] = inst[i].due[s]
  BY <1>1, TimesFacts DEF InstanceStates
<1>3. u \in Times \ {Never} /\ inst[i].pc = "loop" /\ u <= clock
  BY <1>1 DEF CreateExecution, InstanceStates, OnceInv, Passes, PassOf
<1>4. /\ inst' = [inst EXCEPT ![i] = x]
      /\ fired' = [fired EXCEPT ![r][u] = @ + 1]
      /\ UNCHANGED << clock, doc, writer, inside, overruns, errors, crashes,
                      fails >>
  BY DEF CreateExecution, lockVars, docVars
<1> HIDE DEF u, x
<1>5. /\ inst'[i] = x /\ \A j \in Instances \ {i} : inst'[j] = inst[j]
      /\ fired'[r][u] = fired[r][u] + 1
      /\ \A s \in Subs, t \in Times :
           s # r \/ t # u => fired'[s][t] = fired[s][t]
  BY <1>1, <1>3, <1>4
<1>6. Passes'
  <2>1. PassOf(i)
    BY DEF OnceInv, Passes
  <2>2. 0 <= clock
    BY SchedulerBoundsAssumption DEF Typed, CountInv, Documents
  <2>3. \A s \in Subs : x.due[s] <= clock
    BY <1>2, <2>1, <2>2 DEF PassOf, Never
  <2> QED BY <1>2, <1>3, <1>4, <2>1, <2>3, InstancePasses DEF PassOf, OnceInv
<1>7. Past'
  BY <1>1, <1>3, <1>4, <1>5 DEF OnceInv, Past
<1>9. ASSUME NEW s \in Subs, NEW t \in Times \ {Never}
      PROVE  Once(s, t)'
  <2>1. Once(s, t)
    BY DEF OnceInv, Charged
  <2>2. Firing(s) \subseteq Firing(s)' /\ MayFire(s, t)' \subseteq MayFire(s, t)
    BY <1>2, <1>3, <1>4, <1>5 DEF Firing, MayFire
  <2>3. CASE s # r \/ t # u
    BY <1>4, <1>5, <1>6, <2>1, <2>2, <2>3, FaultsGrow, QuietOnce DEF OnceInv
  <2>4. CASE s = r /\ t = u
    <3>1. i \notin Firing(s) /\ Firing(s) \cup {i} \subseteq Firing(s)'
      BY <1>2, <1>3, <1>5, <2>2, <2>4 DEF Firing
    <3>2. i \in MayFire(s, t) /\ MayFire(s, t)' \subseteq MayFire(s, t) \ {i}
      BY <1>2, <1>3, <1>5, <2>2, <2>4 DEF MayFire, u
    <3>3. /\ IsFiniteSet(Firing(s)) /\ IsFiniteSet(MayFire(s, t))
          /\ Cardinality(Firing(s)) \in Nat /\ Cardinality(MayFire(s, t)) \in Nat
      BY Counts DEF OnceInv
    <3>4. /\ IsFiniteSet(Firing(s)') /\ Cardinality(Firing(s)') \in Nat
          /\ Cardinality(MayFire(s, t)') \in Nat
      BY <1>6, CountsNext
    <3>5. Cardinality(Firing(s)) + 1 <= Cardinality(Firing(s)')
      <4>1. Cardinality(Firing(s) \cup {i}) = Cardinality(Firing(s)) + 1
        BY <3>1, <3>3, FS_AddElement
      <4>2. Cardinality(Firing(s) \cup {i}) <= Cardinality(Firing(s)')
        BY <3>1, <3>4, FS_Subset
      <4> QED BY <4>1, <4>2
    <3>6. Cardinality(MayFire(s, t)') + 1 <= Cardinality(MayFire(s, t))
      <4>1. /\ IsFiniteSet(MayFire(s, t) \ {i})
            /\ Cardinality(MayFire(s, t) \ {i}) = Cardinality(MayFire(s, t)) - 1
        BY <3>2, <3>3, FS_RemoveElement
      <4>2. Cardinality(MayFire(s, t)') <= Cardinality(MayFire(s, t) \ {i})
        BY <3>2, <4>1, FS_Subset
      <4> QED BY <3>3, <3>4, <4>1, <4>2
    <3>7. fired[s][t] \in Nat
      BY <1>1
    <3>8. fired'[s][t] = fired[s][t] + 1
      BY <1>5, <2>4
    <3> QED BY <1>4, <2>1, <3>3, <3>4, <3>5, <3>6, <3>7, <3>8, FaultsNat,
               FaultsNatNext, FaultsGrow DEF Once
  <2> QED BY <2>3, <2>4
<1> QED BY <1>6, <1>7, <1>9 DEF OnceInv, Charged

\* _update_next_execution_time moves the subscription on to a time that has
\* not come, or to none.
LEMMA UpdateOnce ==
  ASSUME Typed, Typed', OnceInv, [Next]_vars,
         NEW i \in Instances, UpdateNextExecutionTime(i)
  PROVE  OnceInv'
<1> DEFINE r == inst[i].sub
           x == [IdleInstance EXCEPT !.pc = "loop", !.due = inst[i].due]
<1>1. /\ inst \in [Instances -> InstanceStates] /\ inst[i] \in InstanceStates
      /\ doc \in [Subs -> Docs] /\ fired \in [Subs -> [Times -> Nat]]
  BY DEF Typed, CountInv, Documents, Rest
<1>2. x \in InstanceStates /\ x.pc = "loop" /\ x.due = inst[i].due
  BY <1>1, IdleTypes DEF InstanceStates, IdleInstance
<1>3. inst[i].pc = "update" /\ r \in Subs /\ inst[i].seen \in Docs
  BY <1>1 DEF UpdateNextExecutionTime, InstanceStates, Typed, CountInv,
              Documents
<1>4. /\ inst' = [inst EXCEPT ![i] = x]
      /\ UNCHANGED << clock, fired, writer, inside, overruns, errors, crashes,
                      fails >>
  BY DEF UpdateNextExecutionTime, lockVars
<1>5. /\ \A s \in Subs \ {r} : doc'[s] = doc[s]
      /\ doc'[r].next \in {Never, clock + 1}
  BY <1>1, <1>3 DEF UpdateNextExecutionTime, NextTime, Docs
<1> HIDE DEF r, x
<1>6. inst'[i] = x /\ \A j \in Instances \ {i} : inst'[j] = inst[j]
  BY <1>1, <1>4
<1>7. Passes'
  <2>1. PassOf(i)
    BY DEF OnceInv, Passes
  <2> QED BY <1>2, <1>3, <1>4, <2>1, InstancePasses DEF PassOf, OnceInv
<1>8. Past'
  BY <1>4 DEF OnceInv, Past
<1>9. ASSUME NEW s \in Subs, NEW t \in Times \ {Never}
      PROVE  Once(s, t)'
  <2>1. Once(s, t)
    BY DEF OnceInv, Charged
  <2>2. CASE s # r
    <3>1. Firing(s) \subseteq Firing(s)' /\ MayFire(s, t)' \subseteq MayFire(s, t)
      BY <1>2, <1>3, <1>5, <1>6, <2>2 DEF Firing, MayFire, r
    <3> QED BY <1>4, <1>5, <1>7, <2>1, <2>2, <3>1, FaultsGrow, QuietOnce
            DEF OnceInv
  <2>3. CASE s = r /\ doc'[s].next = t
    <3>1. t = clock + 1 /\ clock \in Nat
      BY <1>5, <2>3, SchedulerBoundsAssumption DEF Typed, CountInv, Documents
    <3>2. fired[s][t] \in Nat /\ ~(fired[s][t] > 0)
      BY <1>1, <3>1 DEF OnceInv, Past
    <3>3. Cardinality(Firing(s)') \in Nat
      BY <1>7, CountsNext
    <3> QED BY <1>4, <2>3, <3>2, <3>3, FaultsNat, FaultsNatNext DEF Once
  <2>4. CASE s = r /\ doc'[s].next # t
    <3>1. MayFire(s, t)' \subseteq MayFire(s, t)
      BY <1>2, <1>6, <2>4 DEF MayFire
    <3>2. /\ IsFiniteSet(MayFire(s, t)) /\ Cardinality(MayFire(s, t)) \in Nat
          /\ Cardinality(MayFire(s, t)') \in Nat
      BY <1>7, Counts, CountsNext DEF OnceInv
    <3>3. Cardinality(MayFire(s, t)') <= Cardinality(MayFire(s, t))
      BY <3>1, <3>2, FS_Subset
    <3>4. fired[s][t] + Cardinality(MayFire(s, t))
            <= Again + Round + crashes + fails
      BY <2>1, WithinFaults DEF OnceInv
    <3>5. fired[s][t] \in Nat /\ fired' = fired
      BY <1>1, <1>4
    <3> QED BY <1>4, <2>4, <3>2, <3>3, <3>4, <3>5, FaultsNat, FaultsNatNext,
               FaultsGrow DEF Once
  <2> QED BY <2>2, <2>3, <2>4
<1> QED BY <1>7, <1>8, <1>9 DEF OnceInv, Charged

\* Entering and leaving a pass.
LEMMA StartPassOnce ==
  ASSUME Typed, Typed', OnceInv, [Next]_vars, NEW i \in Instances, StartPass(i)
  PROVE  OnceInv'
<1> DEFINE x == [inst[i] EXCEPT !.pc = "query"]
<1>1. inst[i] \in InstanceStates /\ PassOf(i) /\ inst[i].pc = "idle"
  BY DEF StartPass, Typed, CountInv, Documents, OnceInv, Passes
<1>2. /\ x \in InstanceStates /\ x.pc = "query" /\ x.due = inst[i].due
  BY <1>1 DEF InstanceStates
<1>3. UNCHANGED << clock, doc, fired, writer, fails >>
  BY DEF StartPass, docVars
<1>4. i \notin inside /\ inside' \in {inside, inside \cup {i}}
  BY DEF StartPass, Lock!Acquire, Lock!AcquireError
<1>5. CASE i \in inside'
  <2>1. inst' = [inst EXCEPT ![i] = x]
    BY <1>5 DEF StartPass
  <2> HIDE DEF x
  <2>2. Passes'
    BY <1>1, <1>2, <1>3, <1>4, <1>5, <2>1, InstancePasses DEF PassOf, OnceInv
  <2>3. Charged'
    BY <1>1, <1>2, <1>3, <2>1, <2>2, InstanceOnce DEF OnceInv
  <2> QED BY <1>3, <2>2, <2>3 DEF OnceInv, Past
<1>6. CASE i \notin inside'
  <2>1. inst' = inst /\ inside' = inside /\ clock <= clock'
    BY <1>3, <1>4, <1>6, SchedulerBoundsAssumption
       DEF StartPass, Typed, CountInv, Documents
  <2> QED BY <1>3, <2>1, StandStill
<1> QED BY <1>5, <1>6

\* A crash, or the end of the pass.
LEMMA LeaveOnce ==
  ASSUME Typed, Typed', OnceInv, [Next]_vars,
         NEW i \in Instances, InstanceCrash(i) \/ EndPass(i)
  PROVE  OnceInv'
<1> DEFINE x == IdleInstance
<1>1. /\ x \in InstanceStates /\ x.pc = "idle" /\ x.due = Nothing
      /\ \A s \in Subs : x.due[s] = Never
  BY IdleTypes DEF IdleInstance, Nothing
<1>2. /\ inst' = [inst EXCEPT ![i] = x]
      /\ UNCHANGED << clock, doc, fired, writer >>
  BY DEF InstanceCrash, EndPass, docVars
<1>3. inside' = inside \ {i}
  BY DEF InstanceCrash, EndPass, Lock!Crash, Lock!Release, Lock!ReleaseError,
         Lock!Leave
<1> HIDE DEF x
<1>4. Never <= clock
  BY SchedulerBoundsAssumption DEF Typed, CountInv, Documents, Never
<1>5. Passes'
  BY <1>1, <1>2, <1>3, <1>4, InstancePasses DEF OnceInv
<1>6. \/ inst[i].pc \notin {"dispatch", "update"}
      \/ crashes + fails < crashes' + fails'
  BY FaultsNat DEF InstanceCrash, EndPass, Lock!Crash
<1>7. Charged'
  BY <1>1, <1>2, <1>5, <1>6, InstanceOnce DEF OnceInv
<1> QED BY <1>2, <1>5, <1>7 DEF OnceInv, Past

\* The steps of the loop that fire nothing and move no subscription on.
LEMMA LoopOnce ==
  ASSUME Typed, Typed', OnceInv, [Next]_vars, NEW i \in Instances,
         \/ FindDue(i) \/ DispatchBackgroundExecution(i) \/ ProcessingFails(i)
         \/ \E s \in Subs : CreationFails(i, s)
  PROVE  OnceInv'
<1> DEFINE y == inst[i]
<1>1. y \in InstanceStates /\ PassOf(i) /\ clock \in Nat /\ doc \in [Subs -> Docs]
  BY SchedulerBoundsAssumption
     DEF Typed, CountInv, Documents, OnceInv, Passes
<1>2. /\ UNCHANGED << clock, doc, fired, writer, inside >>
  BY DEF FindDue, DispatchBackgroundExecution, ProcessingFails, CreationFails,
         lockVars, docVars
<1>3. ASSUME NEW x \in InstanceStates, inst' = [inst EXCEPT ![i] = x],
             x.pc \in {"loop", "update"}, y.pc # "idle",
             x.pc = "update" => y.pc = "dispatch" /\ x.sub = y.sub
                                /\ x.due = y.due,
             \A s \in Subs : \/ x.due[s] \in {Never, y.due[s]}
                             \/ /\ y.pc = "query" /\ x.due[s] = doc[s].next
                                /\ x.due[s] <= clock,
             \/ y.pc \notin {"dispatch", "update"}
             \/ x.pc = "update"
             \/ crashes + fails < crashes' + fails'
      PROVE  OnceInv'
  <2>1. \A s \in Subs : x.due[s] <= clock
    BY <1>1, <1>3 DEF PassOf, Never
  <2>2. x.pc = "update" => x.due[x.sub] = Never
    BY <1>1, <1>3 DEF PassOf
  <2>3. x.pc # "idle" <=> i \in inside'
    BY <1>1, <1>2, <1>3 DEF PassOf
  <2>4. Passes'
    BY <1>2, <1>3, <2>1, <2>2, <2>3, InstancePasses DEF OnceInv
  <2>5. \A s \in Subs : \/ x.due[s] \in {Never, inst[i].due[s]}
                        \/ inst[i].pc = "query" /\ x.due[s] = doc[s].next
    BY <1>3
  <2>6. \/ inst[i].pc \notin {"dispatch", "update"}
        \/ x.pc \in {"dispatch", "update"} /\ x.sub = inst[i].sub
        \/ crashes + fails < crashes' + fails'
    BY <1>3
  <2>7. Charged'
    BY <1>2, <1>3, <2>4, <2>5, <2>6, InstanceOnce DEF OnceInv
  <2> QED BY <1>2, <2>4, <2>7 DEF OnceInv, Past
<1>4. CASE FindDue(i)
  <2> DEFINE due == [s \in Subs |-> IF IsDue(s) THEN doc[s].next ELSE Never]
             x == [inst[i] EXCEPT !.pc = "loop", !.due = due]
  <2>1. /\ due \in [Subs -> Times]
        /\ \A s \in Subs : \/ due[s] = Never
                           \/ due[s] = doc[s].next /\ due[s] <= clock
    BY <1>1, TimesFacts DEF Docs, IsDue
  <2>2. x \in InstanceStates /\ x.pc = "loop" /\ x.due = due
    BY <1>1, <2>1 DEF InstanceStates
  <2>3. inst' = [inst EXCEPT ![i] = x] /\ y.pc = "query"
    BY <1>4 DEF FindDue
  <2> HIDE DEF x, due
  <2> QED BY <1>3, <2>1, <2>2, <2>3
<1>5. CASE DispatchBackgroundExecution(i)
  <2> DEFINE s == inst[i].sub
             x == [inst[i] EXCEPT !.pc = "update", !.seen = doc[s]]
  <2>1. s \in Subs /\ y.pc = "dispatch"
    BY <1>5 DEF DispatchBackgroundExecution, Typed, CountInv, Documents
  <2>2. /\ x \in InstanceStates /\ x.pc = "update" /\ x.sub = s
        /\ x.due = inst[i].due
    BY <1>1, <2>1 DEF InstanceStates
  <2>3. inst' = [inst EXCEPT ![i] = x]
    BY <1>5 DEF DispatchBackgroundExecution
  <2> HIDE DEF x
  <2> QED BY <1>3, <2>1, <2>2, <2>3
<1>6. CASE ProcessingFails(i)
  <2> DEFINE x == [IdleInstance EXCEPT !.pc = "loop", !.due = inst[i].due]
  <2>1. x \in InstanceStates /\ x.pc = "loop" /\ x.due = inst[i].due
    BY <1>1, IdleTypes DEF InstanceStates, IdleInstance
  <2>2. /\ inst' = [inst EXCEPT ![i] = x] /\ y.pc \in {"dispatch", "update"}
        /\ fails' = fails + 1 /\ crashes' = crashes
    BY <1>6 DEF ProcessingFails, lockVars
  <2>3. crashes + fails < crashes' + fails'
    BY <2>2, FaultsNat
  <2> HIDE DEF x
  <2> QED BY <1>3, <2>1, <2>2, <2>3
<1>7. ASSUME NEW r \in Subs, CreationFails(i, r)
      PROVE  OnceInv'
  <2> DEFINE x == [inst[i] EXCEPT !.due[r] = Never]
  <2>1. /\ x \in InstanceStates /\ x.pc = inst[i].pc
        /\ \A s \in Subs : x.due[s] \in {Never, inst[i].due[s]}
    BY <1>1, TimesFacts DEF InstanceStates
  <2>2. inst' = [inst EXCEPT ![i] = x] /\ y.pc = "loop"
    BY <1>7 DEF CreationFails
  <2> HIDE DEF x
  <2> QED BY <1>3, <2>1, <2>2
<1> QED BY <1>4, <1>5, <1>6, <1>7

\* A write leaves the time alone, moves it on, or back: then a round is over, and
\* what was fired in it is within what the writes allow.
LEMMA WriteOnce ==
  ASSUME Typed, Typed', OnceInv, [Next]_vars, NEW w \in Writers, WriteDoc(w)
  PROVE  OnceInv'
<1>1. UNCHANGED << inst, inside, clock, fired, overruns, errors, crashes, fails >>
  BY DEF WriteDoc, lockVars
<1>2. Passes' /\ Past'
  BY <1>1 DEF OnceInv, Passes, PassOf, Past
<1>3. Done' = Done + 1
  BY PendingStep
<1>4. Round' = Round
  BY <1>1 DEF Round
<1>5. Again' = Again + Round
  BY <1>3, <1>4, FaultsNat, Products DEF Again
<1>6. ASSUME NEW s \in Subs, NEW t \in Times \ {Never}
      PROVE  Once(s, t)'
  <2>1. Once(s, t) /\ Firing(s)' = Firing(s)
    BY <1>1 DEF OnceInv, Charged, Firing
  <2>2. /\ fired[s][t] \in Nat /\ IsFiniteSet(MayFire(s, t))
        /\ Cardinality(MayFire(s, t)) \in Nat /\ Cardinality(Firing(s)) \in Nat
        /\ Cardinality(MayFire(s, t)') \in Nat
        /\ Cardinality(Firing(s)') \in Nat
    BY <1>2, Counts, CountsNext DEF Typed, Rest, OnceInv
  <2>3. /\ crashes \in Nat /\ fails \in Nat /\ Again \in Nat /\ Round \in Nat
    BY FaultsNat
  <2>4. fired[s][t] + Cardinality(MayFire(s, t)) <= Again + Round + crashes + fails
    BY <2>1, WithinFaults DEF OnceInv
  <2>5. CASE doc'[s].next = t
    BY <1>1, <1>5, <2>2, <2>3, <2>4, <2>5 DEF Once
  <2>6. CASE doc'[s].next # t
    <3>1. MayFire(s, t)' \subseteq MayFire(s, t)
      BY <1>1, <2>6 DEF MayFire
    <3>2. Cardinality(MayFire(s, t)') <= Cardinality(MayFire(s, t))
      BY <2>2, <3>1, FS_Subset
    <3> QED BY <1>1, <1>4, <1>5, <2>2, <2>3, <2>4, <2>6, <3>2 DEF Once
  <2> QED BY <2>5, <2>6
<1> QED BY <1>2, <1>6 DEF OnceInv, Charged

\* Every step keeps the invariant.
LEMMA StepOnce ==
  ASSUME Typed, OnceInv, [Next]_vars
  PROVE  OnceInv'
<1>0. Typed'
  BY TypedStep
<1>1. CASE Tick \/ KeyExpires \/ UNCHANGED vars
  <2>1. UNCHANGED << inst, doc, fired, writer, inside >>
    BY <1>1 DEF Tick, KeyExpires, vars, lockVars, docVars, Lock!Expire
  <2>2. clock <= clock'
    BY <1>1, SchedulerBoundsAssumption
       DEF Tick, KeyExpires, vars, Typed, CountInv, Documents
  <2> QED BY <1>0, <2>1, <2>2, StandStill
<1>2. ASSUME NEW i \in Instances, StartPass(i) PROVE OnceInv'
  BY <1>0, <1>2, StartPassOnce
<1>3. ASSUME NEW i \in Instances, PassStep(i) PROVE OnceInv'
  BY <1>0, <1>3, LoopOnce, CreateExecutionOnce, UpdateOnce, LeaveOnce
     DEF PassStep
<1>4. ASSUME NEW i \in Instances, InstanceCrash(i) PROVE OnceInv'
  BY <1>0, <1>4, LeaveOnce
<1>5. ASSUME NEW w \in Writers, WriteDoc(w) PROVE OnceInv'
  BY <1>0, <1>5, WriteOnce
<1>6. ASSUME NEW w \in Writers, NEW s \in Subs, NEW op \in Ops, ReadDoc(w, s, op)
      PROVE  OnceInv'
  <2>1. UNCHANGED << inst, doc, fired, inside, clock >>
    BY <1>6 DEF ReadDoc, lockVars
  <2>2. clock <= clock'
    BY <2>1, SchedulerBoundsAssumption DEF Typed, CountInv, Documents
  <2> QED BY <1>0, <2>1, <2>2, StandStill
<1> QED BY <1>1, <1>2, <1>3, <1>4, <1>5, <1>6 DEF Next

\* Nobody has listed or fired anything in the beginning.
LEMMA InitOnce == Init => OnceInv
<1> SUFFICES ASSUME Init PROVE OnceInv
  OBVIOUS
<1> USE SchedulerBoundsAssumption
<1>1. Passes
  BY DEF Init, Lock!Init, Passes, PassOf, IdleInstance, Nothing, Never
<1>2. Past
  BY DEF Init, Past
<1>3. ASSUME NEW s \in Subs, NEW t \in Times \ {Never} PROVE Once(s, t)
  <2>1. Typed
    BY TypedInit
  <2>2. Cardinality(Firing(s)) \in Nat
    BY <1>1, <2>1, Counts
  <2>3. MayFire(s, t) = {}
    BY DEF Init, MayFire, IdleInstance, Nothing
  <2>4. Cardinality(MayFire(s, t)) = 0
    BY <2>3, FS_EmptySet
  <2>5. fired[s][t] = 0
    BY DEF Init
  <2> QED BY <2>1, <2>2, <2>4, <2>5, FaultsNat DEF Once
<1> QED BY <1>1, <1>2, <1>3 DEF OnceInv, Charged

\* An occurrence of a schedule fires one execution, and at most one more for
\* each expiration of the lock under a pass, each failing call of Redis, each
\* crash and each failed dispatch, for any number of instances that overlap in
\* any way (check_due_subscriptions); a request or a count that overlaps a pass may
\* put the old time back, and then it fires that often again, at most.
THEOREM FiresOnce == Spec => []FiredOncePerOccurrence
<1>1. Typed /\ OnceInv /\ [Next]_vars => OnceInv'
  BY StepOnce
<1>2. Typed /\ OnceInv => FiredOncePerOccurrence
  <2> SUFFICES ASSUME Typed, OnceInv, NEW s \in Subs, NEW t \in Times
               PROVE  fired[s][t] <= (1 + writes) * (1 + overruns + errors)
                                       + crashes + fails
    BY DEF FiredOncePerOccurrence
  <2> DEFINE most == (1 + writes) * Round
  <2>1. fired[s][t] \in Nat /\ writes \in Nat
    BY SchedulerBoundsAssumption DEF Typed, Rest
  <2>2. Again + Round <= most /\ most \in Nat
    <3>1. Again + Round = (Done + 1) * Round
      BY FaultsNat, Products DEF Again
    <3>2. /\ Done + 1 \in Nat /\ 1 + writes \in Nat /\ Round \in Nat
          /\ Done + 1 <= 1 + writes /\ Round <= Round
      BY <2>1, FaultsNat
    <3>3. (Done + 1) * Round <= (1 + writes) * Round
      BY <3>2, Products
    <3>4. (1 + writes) * Round \in Nat
      BY <3>2, Products
    <3> QED BY <3>1, <3>3, <3>4
  <2> HIDE DEF most
  <2>3. fired[s][t] <= most + crashes + fails
    <3>1. CASE t = Never
      BY <2>1, <2>2, <3>1, FaultsNat DEF OnceInv, Past
    <3>2. CASE t # Never
      <4>1. fired[s][t] + Cardinality(MayFire(s, t))
              <= Again + Round + crashes + fails
        BY <3>2, WithinFaults DEF OnceInv, Charged
      <4>2. Cardinality(MayFire(s, t)) \in Nat
        BY <3>2, Counts DEF OnceInv
      <4> QED BY <2>1, <2>2, <4>1, <4>2, FaultsNat
    <3> QED BY <3>1, <3>2
  <2> QED BY <2>3 DEF most, Round
<1> QED BY AlwaysTyped, InitOnce, <1>1, <1>2, PTL DEF Spec
=============================================================================
