----------------------- MODULE SubscriptionScheduler -----------------------
(***************************************************************************)
(* check_due_subscriptions: every instance periodically takes the lock,    *)
(* looks for subscriptions that are due, and for each of them creates an   *)
(* execution, dispatches it and computes the next time.                    *)
(*                                                                         *)
(* A subscription is one JSON document in the table kinds.  The scheduler, *)
(* the statistics of finished executions and the user's requests all read  *)
(* the whole document, change some of its fields and write it back whole,  *)
(* with nothing that detects a write in between.                           *)
(*                                                                         *)
(* Time is a small clock; the moment an execution is due is an occurrence. *)
(* Recovery and cleanup of executions, which a pass does first, are in     *)
(* BackgroundExecution; the lock is DistributedLock.                       *)
(***************************************************************************)
EXTENDS Integers, FiniteSets

CONSTANTS
  Instances, Nobody, FailOpen, MaxOverruns, MaxErrors, MaxCrashes, \* the lock
  Subs,       \* subscriptions with a schedule
  OneTime,    \* those of them with a one_time trigger
  Writers,    \* processes that write subscriptions, besides the schedulers
  Ops,        \* what they do, a subset of the operations below
  MaxClock,   \* bound: time stops here
  MaxWrites,  \* bound: writes of the other writers
  MaxFails    \* bound: failing creations and dispatches

ASSUME LockAssumption ==
  /\ IsFiniteSet(Instances) /\ Nobody \notin Instances
  /\ {MaxOverruns, MaxErrors, MaxCrashes} \subseteq Nat

Operations == {"count", "enable", "disable", "update", "flag", "delete"}

ASSUME SubsAssumption ==
  IsFiniteSet(Subs) /\ OneTime \subseteq Subs /\ Nobody \notin Subs
ASSUME OpsAssumption == Ops \subseteq Operations
ASSUME SchedulerBoundsAssumption == {MaxClock, MaxWrites, MaxFails} \subseteq Nat

VARIABLES
  key, inside, owner, late, overruns, errors, crashes, \* of DistributedLock
  clock,    \* now
  doc,      \* Kind.json of each subscription, its _internal part
  active,   \* Kind.is_active
  inst,     \* what each instance is doing
  writer,   \* what each writer is doing
  open,     \* dispatched executions whose outcome is not counted yet
  writes,   \* writes of the other writers so far
  fails,    \* failures of creations and dispatches so far
  fired,    \* history: executions per subscription and occurrence
  counted   \* history: outcomes counted per subscription

Lock == INSTANCE DistributedLock

lockVars == << key, inside, owner, late, overruns, errors, crashes >>
docVars == << doc, active, writer, open, writes, counted >>
vars == << lockVars, docVars, clock, inst, fails, fired >>

Never == 0
Times == 0..(MaxClock + 1)
Docs == [enabled : BOOLEAN, next : Times, count : Nat]

\* Mutant: one period too late.
NextTimeButOne(s) == clock + 2

\* Mutant: not later than now.
NextTimeNow(s) == IF s \in OneTime THEN 1 ELSE clock

\* calculate_next_execution_time: strictly later than now for a schedule, the
\* time the user chose for a one_time trigger.
NextTime(s) == IF s \in OneTime THEN 1 ELSE clock + 1

InstanceStates ==
  [pc : {"idle", "query", "loop", "dispatch", "update"},
   due : [Subs -> Times], sub : Subs \cup {Nobody}, seen : Docs]
WriterStates ==
  [op : Operations \cup {"none"}, sub : Subs \cup {Nobody}, seen : Docs]

Nothing == [s \in Subs |-> Never]
NewDoc == [enabled |-> TRUE, next |-> 1, count |-> 0]

IdleInstance == [pc |-> "idle", due |-> Nothing, sub |-> Nobody, seen |-> NewDoc]
IdleWriter == [op |-> "none", sub |-> Nobody, seen |-> NewDoc]

Init ==
  /\ Lock!Init
  /\ clock = 0
  /\ doc = [s \in Subs |-> NewDoc]
  /\ active = [s \in Subs |-> TRUE]
  /\ inst = [i \in Instances |-> IdleInstance]
  /\ writer = [w \in Writers |-> IdleWriter]
  /\ open = [s \in Subs |-> 0]
  /\ writes = 0 /\ fails = 0
  /\ fired = [s \in Subs |-> [t \in Times |-> 0]]
  /\ counted = [s \in Subs |-> 0]

Tick == /\ clock < MaxClock
        /\ clock' = clock + 1
        /\ UNCHANGED << lockVars, docVars, inst, fails, fired >>

KeyExpires == /\ Lock!Expire
              /\ UNCHANGED << docVars, clock, inst, fails, fired >>

-----------------------------------------------------------------------------
(* One pass of check_due_subscriptions. *)

\* Mutant: the answer of acquire is not looked at.
StartPassAnyway(i) ==
  /\ inst[i].pc = "idle"
  /\ Lock!AcquireWithoutNX(i)
  /\ inst' = [inst EXCEPT ![i].pc = "query"]
  /\ UNCHANGED << docVars, clock, fails, fired >>

\* The pass begins when acquire answers True.
StartPass(i) ==
  /\ inst[i].pc = "idle"
  /\ Lock!Acquire(i) \/ Lock!AcquireError(i)
  /\ inst' = IF i \in inside' THEN [inst EXCEPT ![i].pc = "query"] ELSE inst
  /\ UNCHANGED << docVars, clock, fails, fired >>

IsDue(s) == /\ active[s] /\ doc[s].enabled
            /\ doc[s].next # Never /\ doc[s].next <= clock

\* Mutant: a subscription is due only after its time.
FindOverdue(i) ==
  /\ inst[i].pc = "query"
  /\ inst' = [inst EXCEPT ![i] = [@ EXCEPT !.pc = "loop", !.due =
                 [s \in Subs |-> IF IsDue(s) /\ doc[s].next < clock
                                   THEN doc[s].next ELSE Never]]]
  /\ UNCHANGED << lockVars, docVars, clock, fails, fired >>

\* The list is made once; nothing in the loop checks again that its entries
\* are still active, enabled and due.
FindDue(i) ==
  /\ inst[i].pc = "query"
  /\ inst' = [inst EXCEPT ![i] = [@ EXCEPT !.pc = "loop", !.due =
                 [s \in Subs |-> IF IsDue(s) THEN doc[s].next ELSE Never]]]
  /\ UNCHANGED << lockVars, docVars, clock, fails, fired >>

\* create_execution commits the row.
CreateExecution(i, s) ==
  LET t == inst[i].due[s] IN
  /\ inst[i].pc = "loop" /\ t # Never
  /\ inst' = [inst EXCEPT ![i] = [@ EXCEPT !.pc = "dispatch", !.sub = s,
                                          !.due[s] = Never]]
  /\ fired' = [fired EXCEPT ![s][t] = @ + 1]
  /\ UNCHANGED << lockVars, docVars, clock, fails >>

\* It raises (the prompt is empty): rollback, and on with the next one.
CreationFails(i, s) ==
  /\ inst[i].pc = "loop" /\ inst[i].due[s] # Never
  /\ fails < MaxFails
  /\ fails' = fails + 1
  /\ inst' = [inst EXCEPT ![i].due[s] = Never]
  /\ UNCHANGED << lockVars, docVars, clock, fired >>

\* dispatch_background_execution: the commit expired the ORM object, so the
\* document is read here; it is the one that is changed in the end.
DispatchBackgroundExecution(i) ==
  LET s == inst[i].sub IN
  /\ inst[i].pc = "dispatch"
  /\ open' = [open EXCEPT ![s] = @ + 1]
  /\ inst' = [inst EXCEPT ![i] = [@ EXCEPT !.pc = "update", !.seen = doc[s]]]
  /\ UNCHANGED << lockVars, doc, active, writer, writes, counted, clock, fails,
                  fired >>

\* Mutant: a one_time subscription is rescheduled like the others.
RescheduleAlways(i) ==
  LET s == inst[i].sub IN
  /\ inst[i].pc = "update"
  /\ doc' = [doc EXCEPT ![s] = [inst[i].seen EXCEPT !.next = NextTime(s)]]
  /\ inst' = [inst EXCEPT ![i] = [IdleInstance EXCEPT !.pc = "loop",
                                                     !.due = inst[i].due]]
  /\ UNCHANGED << lockVars, active, writer, open, writes, counted, clock, fails,
                  fired >>

\* _update_next_execution_time: a one_time subscription is disabled.
UpdateNextExecutionTime(i) ==
  LET s == inst[i].sub IN
  /\ inst[i].pc = "update"
  /\ doc' = [doc EXCEPT ![s] =
       IF s \in OneTime
         THEN [inst[i].seen EXCEPT !.enabled = FALSE, !.next = Never]
         ELSE [inst[i].seen EXCEPT !.next = NextTime(s)]]
  /\ inst' = [inst EXCEPT ![i] = [IdleInstance EXCEPT !.pc = "loop",
                                                     !.due = inst[i].due]]
  /\ UNCHANGED << lockVars, active, writer, open, writes, counted, clock, fails,
                  fired >>

\* The dispatch or the last commit raises: rollback, and on with the next.
ProcessingFails(i) ==
  /\ inst[i].pc \in {"dispatch", "update"}
  /\ fails < MaxFails
  /\ fails' = fails + 1
  /\ inst' = [inst EXCEPT ![i] = [IdleInstance EXCEPT !.pc = "loop",
                                                     !.due = inst[i].due]]
  /\ UNCHANGED << lockVars, docVars, clock, fired >>

\* The context manager releases the lock, also when the query raised.
EndPass(i) ==
  /\ \/ inst[i].pc = "loop" /\ inst[i].due = Nothing /\ UNCHANGED fails
     \/ inst[i].pc = "query" /\ fails < MaxFails /\ fails' = fails + 1
  /\ Lock!Release(i) \/ Lock!ReleaseError(i)
  /\ inst' = [inst EXCEPT ![i] = IdleInstance]
  /\ UNCHANGED << docVars, clock, fired >>

InstanceCrash(i) ==
  /\ inst[i].pc # "idle"
  /\ Lock!Crash(i)
  /\ inst' = [inst EXCEPT ![i] = IdleInstance]
  /\ UNCHANGED << docVars, clock, fails, fired >>

-----------------------------------------------------------------------------
(* The other writers: read the document, and later write it. *)

\* "count" is _update_subscription_statistics, for an execution that was just
\* found finished; the others are requests of the user.
ReadDoc(w, s, op) ==
  /\ writer[w].op = "none"
  /\ writer' = [writer EXCEPT ![w] = [op |-> op, sub |-> s, seen |-> doc[s]]]
  /\ writes < MaxWrites /\ writes' = writes + 1
  /\ \/ op = "count" /\ open[s] > 0 /\ open' = [open EXCEPT ![s] = @ - 1]
     \/ op # "count" /\ active[s] /\ UNCHANGED open
  /\ UNCHANGED << lockVars, doc, active, counted, clock, inst, fails, fired >>

\* Mutant: every writer counts.
EditedAndCounted(s, op, d) == {[d EXCEPT !.count = @ + 1]}

\* toggle_subscription, update_subscription with a trigger and with "enabled"
\* only, delete_subscription.
Edited(s, op, d) ==
  CASE op = "count"   -> {[d EXCEPT !.count = @ + 1]}
    [] op = "enable"  -> {[d EXCEPT !.enabled = TRUE, !.next = NextTime(s)]}
    [] op = "disable" -> {[d EXCEPT !.enabled = FALSE, !.next = Never]}
    [] op = "update"  -> {[d EXCEPT !.next = NextTime(s)]}
    [] op = "flag"    -> {[d EXCEPT !.enabled = b] : b \in BOOLEAN}
    [] op = "delete"  -> {[d EXCEPT !.enabled = FALSE]}

WriteDoc(w) ==
  LET x == writer[w] IN
  /\ x.op # "none"
  /\ \E d \in Edited(x.sub, x.op, x.seen) : doc' = [doc EXCEPT ![x.sub] = d]
  /\ active' = IF x.op = "delete" THEN [active EXCEPT ![x.sub] = FALSE]
               ELSE active
  /\ counted' = IF x.op = "count" THEN [counted EXCEPT ![x.sub] = @ + 1]
                ELSE counted
  /\ writer' = [writer EXCEPT ![w] = IdleWriter]
  /\ UNCHANGED << lockVars, open, writes, clock, inst, fails, fired >>

-----------------------------------------------------------------------------
PassStep(i) ==
  \/ FindDue(i)
  \/ \E s \in Subs : CreateExecution(i, s) \/ CreationFails(i, s)
  \/ DispatchBackgroundExecution(i) \/ UpdateNextExecutionTime(i)
  \/ ProcessingFails(i) \/ EndPass(i)

Next ==
  \/ Tick \/ KeyExpires
  \/ \E i \in Instances : StartPass(i) \/ PassStep(i) \/ InstanceCrash(i)
  \/ \E w \in Writers, s \in Subs, op \in Ops : ReadDoc(w, s, op)
  \/ \E w \in Writers : WriteDoc(w)

Spec == Init /\ [][Next]_vars

\* The beat schedule starts a pass again and again on some instance, a pass
\* that does not crash ends, and Redis drops a key that has expired.
Fairness == /\ WF_vars(\E i \in Instances : StartPass(i))
            /\ \A i \in Instances : WF_vars(PassStep(i))
            /\ WF_vars(KeyExpires)

FairSpec == Spec /\ Fairness

-----------------------------------------------------------------------------
(* Properties. *)

TypeOK ==
  /\ Lock!LockTypeOK
  /\ clock \in 0..MaxClock
  /\ doc \in [Subs -> Docs]
  /\ active \in [Subs -> BOOLEAN]
  /\ inst \in [Instances -> InstanceStates]
  /\ writer \in [Writers -> WriterStates]
  /\ open \in [Subs -> Nat]
  /\ writes \in 0..MaxWrites /\ fails \in 0..MaxFails
  /\ fired \in [Subs -> [Times -> Nat]]
  /\ counted \in [Subs -> Nat]

\* The passes use the lock as it is meant to be used: the scheduler implements
\* DistributedLock, in which every pass is between acquire and release.
ImplementsLock == Lock!LockSpec

\* An occurrence fires one execution, and one more for each expired key and
\* each error of Redis, which let another pass in; a write of somebody else may
\* put the old time back, and then all of them fire it again.  Each crash and
\* each failed dispatch adds one.
FiredOncePerOccurrence ==
  \A s \in Subs, t \in Times :
    fired[s][t] <= (1 + writes) * (1 + overruns + errors) + crashes + fails

\* A subscription that is due does not stay due, whatever crashes and whoever
\* holds the key.
DueFires == \A s \in Subs : IsDue(s) ~> ~IsDue(s)

\* Overlapping writers may lose an outcome, but never invent one: the counter
\* in the document never exceeds the outcomes that were counted.
NeverOvercounted == \A s \in Subs : doc[s].count <= counted[s]
=============================================================================
