----------------------- MODULE DistributedLockProofs -----------------------
(***************************************************************************)
(* How far the lock lets passes overlap, for any number of instances and   *)
(* every bound.  OverlapBounded is not inductive: what a pass may add      *)
(* depends on whether the key is there, which Slack accounts for.          *)
(***************************************************************************)
EXTENDS DistributedLock, FiniteSetTheorems, TLAPS

Slack == Cardinality(inside) <= (IF key THEN 1 ELSE 0) + overruns + errors
LockInv == LockTypeOK /\ Slack

\* The bounds are natural numbers.
LEMMA LockBounds == MaxOverruns \in Nat /\ MaxErrors \in Nat /\ MaxCrashes \in Nat
BY LockBoundsAssumption

\* Entering and leaving change the number of those inside by one.
LEMMA EnterLeave ==
  ASSUME LockTypeOK, NEW i \in Instances
  PROVE  /\ Cardinality(inside) \in Nat
         /\ i \notin inside
              => Cardinality(inside \cup {i}) = Cardinality(inside) + 1
         /\ i \in inside => Cardinality(inside \ {i}) = Cardinality(inside) - 1
<1>1. IsFiniteSet(inside)
  BY InstancesAssumption, FS_Subset DEF LockTypeOK
<1>2. Cardinality(inside) \in Nat
  BY <1>1, FS_CardinalityType
<1>3. i \notin inside => Cardinality(inside \cup {i}) = Cardinality(inside) + 1
  BY <1>1, FS_AddElement
<1>4. i \in inside => Cardinality(inside \ {i}) = Cardinality(inside) - 1
  BY <1>1, FS_RemoveElement
<1> QED BY <1>2, <1>3, <1>4

\* The invariant of the lock holds initially.
LEMMA LockInit == Init => LockInv
<1> SUFFICES ASSUME Init PROVE LockInv
  OBVIOUS
<1>1. LockTypeOK
  <2>1. key \in BOOLEAN
    BY DEF Init
  <2>2. /\ inside \subseteq Instances /\ owner \in inside \cup {Nobody}
        /\ late \subseteq inside
    BY DEF Init
  <2>3. /\ overruns \in 0..MaxOverruns /\ errors \in 0..MaxErrors
        /\ crashes \in 0..MaxCrashes
    BY LockBounds DEF Init
  <2> QED BY <2>1, <2>2, <2>3 DEF LockTypeOK
<1>2. Slack
  <2>1. Cardinality(inside) = 0
    BY FS_EmptySet DEF Init
  <2> QED BY <2>1 DEF Init, Slack
<1> QED BY <1>1, <1>2 DEF LockInv

\* Every step of an instance or of Redis keeps the invariant of the lock.
LEMMA LockStep ==
  ASSUME LockInv, [Next]_lockVars
  PROVE  LockInv'
<1> USE LockBounds DEF LockInv, LockTypeOK
<1>0. Nobody \notin Instances /\ Cardinality(inside) \in Nat
  BY InstancesAssumption, FS_Subset, FS_CardinalityType
<1>1. ASSUME NEW i \in Instances, Acquire(i) PROVE LockInv'
  BY <1>1, EnterLeave DEF Acquire, Slack
<1>2. ASSUME NEW i \in Instances, AcquireError(i) PROVE LockInv'
  <2>1. errors' \in 0..MaxErrors
    BY <1>2 DEF AcquireError
  <2>2. owner' \in inside' \cup {Nobody} /\ inside' \subseteq Instances
    BY <1>2 DEF AcquireError
  <2>3. LockTypeOK'
    BY <1>2, <2>1, <2>2 DEF AcquireError
  <2>4. Slack'
    BY <1>2, EnterLeave DEF AcquireError, Slack
  <2> QED BY <2>3, <2>4
<1>3. ASSUME NEW i \in Instances, Release(i) PROVE LockInv'
  <2>1. LockTypeOK'
    BY <1>3 DEF Release, Leave
  <2>2. Slack'
    BY <1>3, EnterLeave DEF Release, Leave, Slack
  <2> QED BY <2>1, <2>2
<1>4. ASSUME NEW i \in Instances, ReleaseError(i) PROVE LockInv'
  <2>1. errors' \in 0..MaxErrors
    BY <1>4 DEF ReleaseError
  <2>2. /\ owner' \in inside' \cup {Nobody} /\ inside' \subseteq Instances
        /\ late' \subseteq inside' /\ key' \in BOOLEAN
    BY <1>4 DEF ReleaseError, Leave, Disown
  <2>3. LockTypeOK'
    BY <1>4, <2>1, <2>2 DEF ReleaseError
  <2>4. Slack'
    BY <1>4, EnterLeave DEF ReleaseError, Leave, Slack
  <2> QED BY <2>3, <2>4
<1>5. ASSUME NEW i \in Instances, Crash(i) PROVE LockInv'
  <2>1. LockTypeOK'
    BY <1>5 DEF Crash, Leave, Disown
  <2>2. Slack'
    BY <1>5, EnterLeave DEF Crash, Leave, Slack
  <2> QED BY <2>1, <2>2
<1>6. CASE Expire
  <2>1. overruns' \in 0..MaxOverruns
    BY <1>6 DEF Expire
  <2>2. late' \subseteq inside'
    BY <1>6 DEF Expire
  <2>3. LockTypeOK'
    BY <1>6, <2>1, <2>2 DEF Expire
  <2>4. CASE inside = {}
    <3>1. Cardinality(inside) = 0
      BY <2>4, FS_EmptySet
    <3> QED BY <1>6, <2>3, <2>4, <3>1 DEF Expire, Slack
  <2>5. CASE inside # {}
    BY <1>0, <1>6, <2>3, <2>5 DEF Expire, Slack
  <2> QED BY <2>4, <2>5
<1>7. CASE UNCHANGED lockVars
  BY <1>7 DEF lockVars, Slack
<1> QED BY <1>1, <1>2, <1>3, <1>4, <1>5, <1>6, <1>7 DEF Next

\* The invariant of the lock holds in every reachable state.
LEMMA AlwaysLockInv == LockSpec => []LockInv
<1>1. LockInv /\ [Next]_lockVars => LockInv'
  BY LockStep
<1> QED BY LockInit, <1>1, PTL DEF LockSpec

\* At any time at most one pass runs, plus one for each expiration of the key
\* under a running pass and one for each failing call of Redis: without those
\* the lock excludes, whatever crashes (acquire, release, SET NX EX).
THEOREM GracefulOverlap == LockSpec => []OverlapBounded
<1>1. LockInv => OverlapBounded
  <2> SUFFICES ASSUME LockInv PROVE OverlapBounded
    OBVIOUS
  <2>1. Cardinality(inside) \in Nat
    BY InstancesAssumption, FS_Subset, FS_CardinalityType
       DEF LockInv, LockTypeOK
  <2> QED BY <2>1 DEF LockInv, LockTypeOK, Slack, OverlapBounded
<1> QED BY AlwaysLockInv, <1>1, PTL

\* Whoever owns the key, or was late, is inside: no history of the lock is of
\* somebody who left (release and the crash of a holder).
THEOREM LockTypeCorrect == LockSpec => []LockTypeOK
<1>1. LockInv => LockTypeOK
  BY DEF LockInv
<1> QED BY AlwaysLockInv, <1>1, PTL
=============================================================================
