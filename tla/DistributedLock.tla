-------------------------- MODULE DistributedLock --------------------------
(***************************************************************************)
(* The Redis lock that lets one instance at a time run a periodic job:     *)
(* SET key "1" NX EX seconds to acquire, DEL key to release.  The value    *)
(* does not name the holder, so a release deletes whoever's key it finds,  *)
(* and nobody who is inside notices that its key expired (extend returns   *)
(* False, which the callers ignore).  The backend and the executor manager *)
(* each have such a class; they differ in what a failing acquire answers.  *)
(***************************************************************************)
EXTENDS Integers, FiniteSets

CONSTANTS
  Instances,    \* processes that run the job periodically
  Nobody,       \* no instance
  FailOpen,     \* a failing acquire answers True (backend), or False (manager)
  MaxOverruns,  \* bound: how often the key expires while somebody is inside
  MaxErrors,    \* bound: failing calls of Redis
  MaxCrashes    \* bound: instances that die inside

ASSUME InstancesAssumption == IsFiniteSet(Instances) /\ Nobody \notin Instances
ASSUME LockBoundsAssumption == {MaxOverruns, MaxErrors, MaxCrashes} \subseteq Nat

VARIABLES
  key,       \* whether the key is in Redis
  inside,    \* the instances between acquire and release
  owner,     \* history: the instance inside that set the key, if any
  late,      \* history: the instances inside whose key expired under them
  overruns,  \* expirations under somebody inside, so far
  errors,    \* failing calls, so far
  crashes    \* crashes, so far

lockVars == << key, inside, owner, late, overruns, errors, crashes >>

Init == /\ key = FALSE
        /\ inside = {} /\ owner = Nobody /\ late = {}
        /\ overruns = 0 /\ errors = 0 /\ crashes = 0

-----------------------------------------------------------------------------
\* Mutant: the key is set without NX.
AcquireWithoutNX(i) ==
  /\ i \notin inside
  /\ key' = TRUE /\ owner' = i
  /\ inside' = inside \cup {i}
  /\ UNCHANGED << late, overruns, errors, crashes >>

\* acquire answers True; the caller that is answered False does nothing.
Acquire(i) ==
  /\ i \notin inside
  /\ ~key
  /\ key' = TRUE /\ owner' = i
  /\ inside' = inside \cup {i}
  /\ UNCHANGED << late, overruns, errors, crashes >>

\* acquire raises, before or after the SET took effect.
AcquireError(i) ==
  /\ i \notin inside
  /\ errors < MaxErrors
  /\ errors' = errors + 1
  /\ inside' = IF FailOpen THEN inside \cup {i} ELSE inside
  /\ \/ UNCHANGED << key, owner >>
     \/ ~key /\ key' = TRUE /\ owner' = IF FailOpen THEN i ELSE Nobody
  /\ UNCHANGED << late, overruns, crashes >>

\* Mutant: it is forgotten that the instance was late.
LeaveOnly(i) == inside' = inside \ {i} /\ UNCHANGED late

\* Whoever leaves is neither late nor the owner any more.
Leave(i) == /\ inside' = inside \ {i}
            /\ late' = late \ {i}

Disown(i) == owner' = IF owner = i THEN Nobody ELSE owner

Release(i) ==
  /\ i \in inside
  /\ Leave(i)
  /\ key' = FALSE /\ owner' = Nobody
  /\ UNCHANGED << overruns, errors, crashes >>

\* The DEL is lost, or its answer is.
ReleaseError(i) ==
  /\ i \in inside
  /\ errors < MaxErrors
  /\ errors' = errors + 1
  /\ Leave(i)
  /\ \/ key' = FALSE /\ owner' = Nobody
     \/ key' = key /\ Disown(i)
  /\ UNCHANGED << overruns, crashes >>

\* Mutant: the key lives until somebody deletes it.
ExpireNever ==
  /\ FALSE
  /\ key' = FALSE /\ owner' = Nobody
  /\ UNCHANGED << late, inside, overruns, errors, crashes >>

\* The key reaches its expiration time.
Expire ==
  /\ key
  /\ key' = FALSE /\ owner' = Nobody
  /\ late' = late \cup (inside \cap {owner})
  /\ \/ inside = {} /\ UNCHANGED overruns
     \/ inside # {} /\ overruns < MaxOverruns /\ overruns' = overruns + 1
  /\ UNCHANGED << inside, errors, crashes >>

Crash(i) ==
  /\ i \in inside
  /\ crashes < MaxCrashes
  /\ crashes' = crashes + 1
  /\ Leave(i)
  /\ Disown(i)
  /\ UNCHANGED << key, overruns, errors >>

Next ==
  \/ \E i \in Instances :
       \/ Acquire(i) \/ AcquireError(i)
       \/ Release(i) \/ ReleaseError(i) \/ Crash(i)
  \/ Expire

LockSpec == Init /\ [][Next]_lockVars

\* Every pass ends, and Redis drops a key that has expired.
LockFairness == /\ \A i \in Instances : WF_lockVars(Release(i))
                /\ WF_lockVars(Expire)

FairLockSpec == LockSpec /\ LockFairness

-----------------------------------------------------------------------------
LockTypeOK ==
  /\ key \in BOOLEAN
  /\ inside \subseteq Instances
  /\ owner \in inside \cup {Nobody}
  /\ late \subseteq inside
  /\ overruns \in 0..MaxOverruns
  /\ errors \in 0..MaxErrors
  /\ crashes \in 0..MaxCrashes

\* The lock degrades gracefully: each expiration under a running pass, and
\* each failing call, adds at most one pass that runs at the same time, and a
\* crash adds none (acquire, release, and the expiration of the key).
OverlapBounded == Cardinality(inside) <= 1 + overruns + errors

\* A holder that crashed, or whose DEL was lost, does not block the job: the
\* key is gone again and again ("to prevent deadlocks if the holder crashes").
KeyIsFreedAgain == []<>~key
=============================================================================
