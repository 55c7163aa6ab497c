-------------------------- MODULE MarketLocksProofs --------------------------
(***************************************************************************)
(* The locks of locks.py exclude, for every number of threads, markets and *)
(* nested holds.                                                           *)
(***************************************************************************)
EXTENDS MarketLocks, FiniteSetTheorems, TLAPS

\* Only the thread in the guard is between its look-up and the end of _lock.
GuardInv ==
    \A t \in Threads : pc[t] \in {"get", "make", "leave"} <=> guard = t

\* No two markets share a lock.
TableInv ==
    \A m, n \in Markets : table[m] = table[n] /\ table[m] # NoLock => m = n

\* A thread waits for, and gives back, the lock that the table has for its market.
LockInv ==
    \A t \in Threads :
        /\ pc[t] = "make" => table[market[t]] = NoLock /\ depth[t] = 0
        /\ pc[t] \in {"leave", "acquire"} \/ depth[t] > 0 =>
              table[market[t]] # NoLock
        /\ pc[t] \in {"leave", "acquire"} \/ (pc[t] = "body" /\ depth[t] > 0) =>
              lock[t] = table[market[t]]

\* An owner took its lock as often as it is inside of a hold.
CountInv ==
    \A t \in Threads, l \in Locks : owner[l] = t => count[l] = depth[t]

\* A free lock was given back completely.
FreeInv == \A l \in Locks : owner[l] = Nobody => count[l] = 0

IInv ==
    /\ TypeOK /\ GuardInv /\ TableInv /\ LockInv
    /\ LocksFollowHolds /\ CountInv /\ FreeInv

LEMMA InitInv == Init => IInv
  BY LockAssumption, ThreadAssumption
  DEF Init, IInv, TypeOK, GuardInv, TableInv, LockInv, LocksFollowHolds, CountInv,
      FreeInv, Labels

LEMMA CallInv ==
  ASSUME IInv, NEW t \in Threads, NEW m \in Markets, Call(t, m)
  PROVE  IInv'
  BY LockAssumption, ThreadAssumption
  DEF Call, IInv, TypeOK, GuardInv, TableInv, LockInv, LocksFollowHolds, CountInv,
      FreeInv, Labels

LEMMA EnterInv == ASSUME IInv, NEW t \in Threads, EnterGuard(t) PROVE IInv'
  BY LockAssumption, ThreadAssumption
  DEF EnterGuard, IInv, TypeOK, GuardInv, TableInv, LockInv, LocksFollowHolds, CountInv,
      FreeInv, Labels

LEMMA GetInv == ASSUME IInv, NEW t \in Threads, Get(t) PROVE IInv'
  BY LockAssumption, ThreadAssumption
  DEF Get, IInv, TypeOK, GuardInv, TableInv, LockInv, LocksFollowHolds, CountInv,
      FreeInv, Labels

LEMMA LeaveInv == ASSUME IInv, NEW t \in Threads, LeaveGuard(t) PROVE IInv'
  BY LockAssumption, ThreadAssumption
  DEF LeaveGuard, IInv, TypeOK, GuardInv, TableInv, LockInv, LocksFollowHolds, CountInv,
      FreeInv, Labels

LEMMA BusyInv == ASSUME IInv, NEW t \in Threads, Busy(t) PROVE IInv'
  BY LockAssumption, ThreadAssumption
  DEF Busy, IInv, TypeOK, GuardInv, TableInv, LockInv, LocksFollowHolds, CountInv,
      FreeInv, Labels

\* A new lock is nobody's, because owned locks are in the table.
LEMMA MakeInv == ASSUME IInv, NEW t \in Threads, Make(t) PROVE IInv'
  <1>1. PICK l \in Locks \ Made :
          /\ table' = [table EXCEPT ![market[t]] = l]
          /\ lock' = [lock EXCEPT ![t] = l]
    BY DEF Make
  <1>2. \A m \in Markets : table[m] # l
    BY <1>1, LockAssumption DEF Made
  <1>3. market[t] \in Markets /\ table[market[t]] = NoLock /\ depth[t] = 0 /\ pc[t] = "make"
    BY DEF IInv, TypeOK, LockInv, Make
  <1>4. \A u \in Threads : depth[u] > 0 => market[u] # market[t]
    BY <1>3 DEF IInv, LockInv
  <1>5. TypeOK'
    BY <1>1 DEF IInv, TypeOK, Make, Labels
  <1>6. GuardInv' /\ CountInv' /\ FreeInv'
    BY DEF IInv, TypeOK, Make, GuardInv, CountInv, FreeInv, Labels
  <1>7. TableInv'
    BY <1>1, <1>2, <1>3 DEF IInv, TypeOK, TableInv
  <1>8. LockInv'
    BY <1>1, <1>3, LockAssumption DEF IInv, TypeOK, Make, GuardInv, LockInv, Labels
  <1>9. LocksFollowHolds'
    <2>1. \A u \in Threads, k \in Locks : owner[k] = u => k # l
      BY <1>2 DEF IInv, LocksFollowHolds, TypeOK
    <2>. QED BY <1>1, <1>2, <1>3, <1>4, <2>1 DEF IInv, TypeOK, Make, LocksFollowHolds
  <1>. QED BY <1>5, <1>6, <1>7, <1>8, <1>9 DEF IInv

\* The lock goes to a thread only when it is free or its own already.
LEMMA AcquireInv == ASSUME IInv, NEW t \in Threads, Acquire(t) PROVE IInv'
  <1>1. lock[t] = table[market[t]] /\ lock[t] \in Locks /\ market[t] \in Markets
    BY DEF IInv, TypeOK, LockInv, Acquire
  <1>2. count[lock[t]] = depth[t]
    <2>1. CASE owner[lock[t]] = t
      BY <1>1, <2>1 DEF IInv, CountInv
    <2>2. CASE owner[lock[t]] = Nobody
      <3>1. depth[t] = 0
        BY <1>1, <2>2, ThreadAssumption DEF IInv, LocksFollowHolds, TypeOK
      <3>. QED BY <1>1, <2>2, <3>1 DEF IInv, FreeInv
    <2>. QED BY <2>1, <2>2 DEF Acquire
  <1>3. TypeOK'
    BY <1>1 DEF IInv, TypeOK, Acquire, Labels
  <1>4. GuardInv' /\ TableInv' /\ LockInv'
    BY <1>1, LockAssumption DEF IInv, TypeOK, Acquire, GuardInv, TableInv, LockInv, Labels
  <1>5. LocksFollowHolds'
    BY <1>1, ThreadAssumption, LockAssumption DEF IInv, TypeOK, Acquire, LocksFollowHolds, TableInv
  <1>6. CountInv'
    <2>. SUFFICES ASSUME NEW u \in Threads, NEW l \in Locks, owner'[l] = u
                  PROVE  count'[l] = depth'[u]
      BY DEF CountInv
    <2>1. CASE l = lock[t]
      BY <1>1, <1>2, <2>1 DEF IInv, TypeOK, Acquire
    <2>2. CASE l # lock[t]
      <3>1. owner[l] = u /\ count'[l] = count[l]
        BY <1>1, <2>2 DEF IInv, TypeOK, Acquire
      <3>2. u # t
        BY <1>1, <2>2, <3>1 DEF IInv, LocksFollowHolds
      <3>. QED BY <3>1, <3>2 DEF IInv, TypeOK, Acquire, CountInv
    <2>. QED BY <2>1, <2>2
  <1>7. FreeInv'
    BY <1>1, ThreadAssumption DEF IInv, TypeOK, Acquire, FreeInv
  <1>. QED BY <1>3, <1>4, <1>5, <1>6, <1>7 DEF IInv

\* The lock is free again exactly when the last hold ends.
LEMMA ReleaseInv == ASSUME IInv, NEW t \in Threads, Release(t) PROVE IInv'
  <1>1. /\ lock[t] = table[market[t]] /\ lock[t] \in Locks /\ market[t] \in Markets
        /\ depth[t] \in Nat /\ depth[t] > 0
    BY DEF IInv, TypeOK, LockInv, Release
  <1>2. owner[lock[t]] = t /\ count[lock[t]] = depth[t]
    BY <1>1 DEF IInv, LocksFollowHolds, CountInv
  <1>3. TypeOK'
    BY <1>1, <1>2 DEF IInv, TypeOK, Release
  <1>4. GuardInv' /\ TableInv'
    BY DEF IInv, Release, GuardInv, TableInv
  <1>5. LockInv'
    BY <1>1 DEF IInv, TypeOK, Release, LockInv
  <1>6. LocksFollowHolds'
    <2>. SUFFICES ASSUME NEW u \in Threads, NEW l \in Locks
                  PROVE  owner'[l] = u <=> depth'[u] > 0 /\ table[market[u]] = l
      BY DEF LocksFollowHolds, Release
    <2>1. CASE l = lock[t] /\ u = t
      BY <1>1, <1>2, <2>1, ThreadAssumption DEF IInv, TypeOK, Release
    <2>2. CASE l = lock[t] /\ u # t
      BY <1>1, <1>2, <2>2, ThreadAssumption DEF IInv, TypeOK, Release, LocksFollowHolds
    <2>3. CASE l # lock[t]
      BY <1>1, <1>2, <2>3 DEF IInv, TypeOK, Release, LocksFollowHolds
    <2>. QED BY <2>1, <2>2, <2>3
  <1>7. CountInv'
    <2>. SUFFICES ASSUME NEW u \in Threads, NEW l \in Locks, owner'[l] = u
                  PROVE  count'[l] = depth'[u]
      BY DEF CountInv
    <2>1. CASE l = lock[t]
      BY <1>1, <1>2, <2>1, ThreadAssumption DEF IInv, TypeOK, Release
    <2>2. CASE l # lock[t]
      <3>1. owner[l] = u /\ count'[l] = count[l]
        BY <1>1, <2>2 DEF IInv, TypeOK, Release
      <3>2. u # t
        BY <1>1, <2>2, <3>1 DEF IInv, LocksFollowHolds
      <3>. QED BY <3>1, <3>2 DEF IInv, TypeOK, Release, CountInv
    <2>. QED BY <2>1, <2>2
  <1>8. FreeInv'
    BY <1>1, <1>2, ThreadAssumption DEF IInv, TypeOK, Release, FreeInv
  <1>. QED BY <1>3, <1>4, <1>5, <1>6, <1>7, <1>8 DEF IInv

LEMMA StepInv == IInv /\ [Next]_vars => IInv'
  <1>. SUFFICES ASSUME IInv, [Next]_vars PROVE IInv'
    OBVIOUS
  <1>1. CASE UNCHANGED vars
    BY <1>1 DEF vars, IInv, TypeOK, GuardInv, TableInv, LockInv, LocksFollowHolds,
                CountInv, FreeInv
  <1>2. ASSUME NEW t \in Threads, Hold(t) PROVE IInv'
    BY <1>2, EnterInv, GetInv, MakeInv, LeaveInv, AcquireInv, BusyInv DEF Hold
  <1>3. ASSUME NEW t \in Threads, Release(t) PROVE IInv'
    BY <1>3, ReleaseInv
  <1>4. ASSUME NEW t \in Threads, NEW m \in Markets, Call(t, m) PROVE IInv'
    BY <1>4, CallInv
  <1>. QED BY <1>1, <1>2, <1>3, <1>4 DEF Next

\* The invariant holds in every state.
THEOREM Invariant == Spec => []IInv
  BY InitInv, StepInv, PTL DEF Spec

\* Every variable of the locks keeps its type: a hold never runs out of objects to lock, and the
\* guard is held by a thread of the program or by nobody.
THEOREM TypeCorrect == Spec => []TypeOK
  <1>1. IInv => TypeOK
    BY DEF IInv
  <1>. QED BY <1>1, Invariant, PTL

\* Every thread owns exactly the lock of the market it is inside of.
THEOREM HoldsCorrect == Spec => []LocksFollowHolds
  <1>1. IInv => LocksFollowHolds
    BY DEF IInv
  <1>. QED BY <1>1, Invariant, PTL

\* Two threads are never in the same market, however many threads and markets there
\* are and however deep the holds nest.
THEOREM Exclusion == Spec => []MutualExclusion
  <1>1. IInv => MutualExclusion
    <2>. SUFFICES ASSUME IInv, NEW t \in Threads, NEW u \in Threads, NEW m \in Markets,
                         Inside(t, m), Inside(u, m)
                  PROVE  t = u
      BY DEF MutualExclusion
    <2>1. table[m] \in Locks
      BY DEF IInv, TypeOK, LockInv, Inside
    <2>. QED BY <2>1 DEF IInv, LocksFollowHolds, Inside
  <1>. QED BY <1>1, Invariant, PTL

-------------------------------------------------------------------------------
(* Nobody is stuck in hold. *)

\* Thread t, in hold, can take its next step: the guard is free, there is still a lock to make,
\* and the wait for a lock ends in one way or the other (Acquire or Busy).
CanGoOn(t) ==
    \/ pc[t] = "guard" /\ guard = Nobody
    \/ pc[t] \in {"get", "leave", "acquire"}
    \/ pc[t] = "make" /\ Locks \ Made # {}

\* Whoever waits for the guard waits for a thread that goes on, and not for one that waits for
\* a market itself: two locks, taken one inside the other, that never deadlock.
HoldNotStuck ==
    \A t \in Threads : pc[t] # "body" =>
        CanGoOn(t) \/ (pc[t] = "guard" /\ guard \in Threads \ {t} /\ CanGoOn(guard))

\* The steps of hold that a thread has before it
left == [body |-> 0, acquire |-> 1, leave |-> 2, make |-> 3, get |-> 4, guard |-> 5]

\* No other thread sets a thread back in hold, and each of its own steps takes it further.
HoldAdvances ==
    [][\A t \in Threads : pc[t] # "body" =>
          /\ left[pc'[t]] <= left[pc[t]]
          /\ Hold(t) => left[pc'[t]] < left[pc[t]]]_vars

\* A market without a lock leaves a lock to make.
LEMMA LockToMake ==
  ASSUME IInv, NEW m \in Markets, table[m] = NoLock
  PROVE  Locks \ Made # {}
  <1>. SUFFICES ASSUME Locks \subseteq Made PROVE FALSE
    OBVIOUS
  <1>. DEFINE S == Markets \ {m}
              T == {n \in S : table[n] # NoLock}
              f == [n \in T |-> table[n]]
  <1>1. IsFiniteSet(S) /\ Cardinality(S) = Cardinality(Markets) - 1
    BY ObjectAssumption, FS_RemoveElement
  <1>2. IsFiniteSet(T) /\ Cardinality(T) <= Cardinality(S)
    BY <1>1, FS_Subset
  <1>3. Made \subseteq Locks
    BY DEF Made, IInv, TypeOK
  <1>4. Locks = Made
    BY <1>3
  <1>5. f \in Surjection(T, Locks)
    BY <1>4 DEF Made, Surjection
  <1>6. Cardinality(Locks) <= Cardinality(T)
    BY <1>2, <1>5, FS_Surjection
  <1>7. /\ Cardinality(T) \in Nat /\ Cardinality(S) \in Nat /\ Cardinality(Markets) \in Nat
        /\ Cardinality(Locks) \in Nat
    BY <1>1, <1>2, ObjectAssumption, FS_CardinalityType
  <1>. QED BY <1>1, <1>2, <1>6, <1>7, ObjectAssumption

\* The guard of the table is never held by a thread that waits, and nobody is left without a lock
\* to take: a wait in hold is for the end of one look-up, or for MarketBusy (_lock, hold).
THEOREM HoldsNotStuck == Spec => []HoldNotStuck
  <1>1. IInv => HoldNotStuck
    <2>. SUFFICES ASSUME IInv, NEW t \in Threads, pc[t] # "body"
                  PROVE  CanGoOn(t) \/ (pc[t] = "guard" /\ guard \in Threads \ {t} /\ CanGoOn(guard))
      BY DEF HoldNotStuck
    <2>1. \A u \in Threads : pc[u] \in {"get", "leave", "acquire", "make"} => CanGoOn(u)
      <3>. SUFFICES ASSUME NEW u \in Threads, pc[u] = "make" PROVE Locks \ Made # {}
        BY DEF CanGoOn
      <3>1. market[u] \in Markets /\ table[market[u]] = NoLock
        BY DEF IInv, TypeOK, LockInv
      <3>. QED BY <3>1, LockToMake
    <2>2. CASE pc[t] = "guard" /\ guard # Nobody
      <3>1. guard \in Threads /\ pc[guard] \in {"get", "make", "leave"} /\ guard # t
        BY <2>2 DEF IInv, TypeOK, GuardInv
      <3>. QED BY <2>1, <2>2, <3>1
    <2>3. pc[t] \in Labels
      BY DEF IInv, TypeOK
    <2>. QED BY <2>1, <2>2, <2>3 DEF CanGoOn, Labels
  <1>. QED BY <1>1, Invariant, PTL

\* A call of hold takes at most five steps of its own, whatever the other threads do.
THEOREM HoldsGoOn == Spec => HoldAdvances
  <1>1. ASSUME IInv, [Next]_vars, NEW t \in Threads, pc[t] # "body"
        PROVE  /\ left[pc'[t]] <= left[pc[t]]
               /\ Hold(t) => left[pc'[t]] < left[pc[t]]
    <2>1. pc \in [Threads -> Labels]
      BY <1>1 DEF IInv, TypeOK
    <2>2. ASSUME Hold(t) PROVE left[pc'[t]] < left[pc[t]] /\ left[pc'[t]] <= left[pc[t]]
      BY <2>1, <2>2 DEF Hold, EnterGuard, Get, Make, LeaveGuard, Acquire, Busy, left, Labels
    <2>3. ASSUME ~Hold(t) PROVE left[pc'[t]] <= left[pc[t]]
      <3>1. pc'[t] = pc[t]
        BY <1>1, <2>1, <2>3
        DEF Next, Hold, Call, Release, EnterGuard, Get, Make, LeaveGuard, Acquire, Busy, vars
      <3>2. left[pc[t]] \in Nat
        BY <2>1 DEF left, Labels
      <3>. QED BY <3>1, <3>2
    <2>. QED BY <2>2, <2>3
  <1>2. IInv /\ [Next]_vars
        => [\A t \in Threads : pc[t] # "body" =>
               /\ left[pc'[t]] <= left[pc[t]]
               /\ Hold(t) => left[pc'[t]] < left[pc[t]]]_vars
    BY <1>1
  <1>. QED BY <1>2, Invariant, PTL DEF Spec, HoldAdvances
==============================================================================
