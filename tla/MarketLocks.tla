----------------------------- MODULE MarketLocks -----------------------------
(***************************************************************************)
(* One re-entrant lock per market (locks.py): the position guard, the      *)
(* analysis cycle and the web threads enter a market through hold, which   *)
(* finds or makes the lock of the market, waits for it for a bounded time  *)
(* and gives it back however the body ends.                                *)
(***************************************************************************)
EXTENDS Naturals, FiniteSets

CONSTANTS
    Threads, Markets,
    Locks,         \* the RLock objects that can be made
    NoLock, Nobody,
    MaxDepth       \* bound: nested holds of one thread

ASSUME LockAssumption   == NoLock \notin Locks
ASSUME ThreadAssumption == Nobody \notin Threads
ASSUME ObjectAssumption ==               \* threading.RLock() always makes one
    /\ IsFiniteSet(Markets) /\ IsFiniteSet(Locks)
    /\ Cardinality(Markets) <= Cardinality(Locks)

VARIABLES
    table,      \* _locks: the lock of each market, NoLock when there is none yet
    guard,      \* _guard: the thread that looks up a lock
    owner,      \* of each lock
    count,      \* of each lock: how often its owner took it
    pc,         \* where each thread is in hold
    market,     \* the market each thread is in or wants
    lock,       \* the lock each thread was given for it
    depth       \* the holds each thread is inside of

vars == <<table, guard, owner, count, pc, market, lock, depth>>

Labels == {"body", "guard", "get", "make", "leave", "acquire"}

TypeOK ==
    /\ table \in [Markets -> Locks \cup {NoLock}]
    /\ guard \in Threads \cup {Nobody}
    /\ owner \in [Locks -> Threads \cup {Nobody}]
    /\ count \in [Locks -> Nat]
    /\ pc \in [Threads -> Labels]
    /\ market \in [Threads -> Markets]
    /\ lock \in [Threads -> Locks \cup {NoLock}]
    /\ depth \in [Threads -> Nat]

Init ==
    /\ table = [m \in Markets |-> NoLock]
    /\ guard = Nobody
    /\ owner = [l \in Locks |-> Nobody]
    /\ count = [l \in Locks |-> 0]
    /\ pc = [t \in Threads |-> "body"]
    /\ market \in [Threads -> Markets]
    /\ lock = [t \in Threads |-> NoLock]
    /\ depth = [t \in Threads |-> 0]

-------------------------------------------------------------------------------
Made == {table[m] : m \in Markets} \ {NoLock}

\* hold is called: outside of any market for any market, inside one for the same. No
\* method of a broker does the latter at this commit; the RLock is there for one that
\* would (its docstring), and the module shows that it may.
Call(t, m) ==
    /\ pc[t] = "body" /\ depth[t] < MaxDepth
    /\ depth[t] > 0 => m = market[t]
    /\ pc' = [pc EXCEPT ![t] = "guard"]
    /\ market' = [market EXCEPT ![t] = m]
    /\ UNCHANGED <<table, guard, owner, count, lock, depth>>

EnterUnguarded(t) ==                                 \* mutant
    /\ pc[t] = "guard"
    /\ pc' = [pc EXCEPT ![t] = "get"]
    /\ UNCHANGED <<table, guard, owner, count, market, lock, depth>>

\* _lock, inside _guard: the lock of the market ...
EnterGuard(t) ==
    /\ pc[t] = "guard" /\ guard = Nobody
    /\ guard' = t
    /\ pc' = [pc EXCEPT ![t] = "get"]
    /\ UNCHANGED <<table, owner, count, market, lock, depth>>

Get(t) ==
    /\ pc[t] = "get"
    /\ lock' = [lock EXCEPT ![t] = table[market[t]]]
    /\ pc' = [pc EXCEPT ![t] = IF table[market[t]] = NoLock THEN "make" ELSE "leave"]
    /\ UNCHANGED <<table, guard, owner, count, market, depth>>

\* ... or a new one.
Make(t) ==
    /\ pc[t] = "make"
    /\ \E l \in Locks \ Made :
        /\ table' = [table EXCEPT ![market[t]] = l]
        /\ lock' = [lock EXCEPT ![t] = l]
    /\ pc' = [pc EXCEPT ![t] = "leave"]
    /\ UNCHANGED <<guard, owner, count, market, depth>>

LeaveGuardKeeps(t) ==                                \* mutant: never given back
    /\ pc[t] = "leave"
    /\ pc' = [pc EXCEPT ![t] = "acquire"]
    /\ UNCHANGED <<table, guard, owner, count, market, lock, depth>>

LeaveGuard(t) ==
    /\ pc[t] = "leave"
    /\ guard' = Nobody
    /\ pc' = [pc EXCEPT ![t] = "acquire"]
    /\ UNCHANGED <<table, owner, count, market, lock, depth>>

Acquire(t) ==
    /\ pc[t] = "acquire" /\ owner[lock[t]] \in {Nobody, t}
    /\ owner' = [owner EXCEPT ![lock[t]] = t]
    /\ count' = [count EXCEPT ![lock[t]] = @ + 1]
    /\ depth' = [depth EXCEPT ![t] = @ + 1]
    /\ pc' = [pc EXCEPT ![t] = "body"]
    /\ UNCHANGED <<table, guard, market, lock>>

\* The time is up: MarketBusy.
Busy(t) ==
    /\ pc[t] = "acquire" /\ owner[lock[t]] \notin {Nobody, t}
    /\ pc' = [pc EXCEPT ![t] = "body"]
    /\ UNCHANGED <<table, guard, owner, count, market, lock, depth>>

ReleaseWhole(t) ==                                   \* mutant: not re-entrant
    /\ pc[t] = "body" /\ depth[t] > 0
    /\ depth' = [depth EXCEPT ![t] = @ - 1]
    /\ count' = [count EXCEPT ![lock[t]] = 0]
    /\ owner' = [owner EXCEPT ![lock[t]] = Nobody]
    /\ UNCHANGED <<table, guard, pc, market, lock>>

ReleaseTwice(t) ==                                   \* mutant
    /\ pc[t] = "body" /\ depth[t] > 0
    /\ depth' = [depth EXCEPT ![t] = @ - 1]
    /\ count' = [count EXCEPT ![lock[t]] = @ - 2]
    /\ owner' = [owner EXCEPT ![lock[t]] = IF count[lock[t]] <= 2 THEN Nobody ELSE @]
    /\ UNCHANGED <<table, guard, pc, market, lock>>

\* The body ended, with or without an exception.
Release(t) ==
    /\ pc[t] = "body" /\ depth[t] > 0
    /\ depth' = [depth EXCEPT ![t] = @ - 1]
    /\ count' = [count EXCEPT ![lock[t]] = @ - 1]
    /\ owner' = [owner EXCEPT ![lock[t]] = IF count[lock[t]] = 1 THEN Nobody ELSE @]
    /\ UNCHANGED <<table, guard, pc, market, lock>>

-------------------------------------------------------------------------------
Hold(t) ==
    EnterGuard(t) \/ Get(t) \/ Make(t) \/ LeaveGuard(t) \/ Acquire(t) \/ Busy(t)

Next == \E t \in Threads : Hold(t) \/ Release(t) \/ \E m \in Markets : Call(t, m)

Spec == Init /\ [][Next]_vars

\* A thread that is running hold goes on. _guard is held for one look-up only and
\* handed to everybody who keeps asking; nothing is assumed of the order in which
\* threads get the lock of a market, nor of how long a body takes.
FairSpec ==
    /\ Spec
    /\ \A t \in Threads :
        /\ SF_vars(EnterGuard(t))
        /\ WF_vars(Get(t) \/ Make(t) \/ LeaveGuard(t) \/ Acquire(t) \/ Busy(t))

-------------------------------------------------------------------------------
Inside(t, m) == depth[t] > 0 /\ market[t] = m

\* L3 of the reviews: guard, cycle and web threads are never in one market at the
\* same time, also when they asked for its lock before there was one.
MutualExclusion ==
    \A t, u \in Threads, m \in Markets : Inside(t, m) /\ Inside(u, m) => t = u

\* A thread gives back as often as it took: outside of every market it owns no
\* lock, inside it owns the one of its market.
LocksFollowHolds ==
    \A t \in Threads, l \in Locks :
        owner[l] = t <=> depth[t] > 0 /\ table[market[t]] = l

\* Nobody waits for ever: a call of hold gets the market or raises MarketBusy, even
\* if the owner never leaves, and no thread stays behind _guard.
WaitEnds ==
    \A t \in Threads : (pc[t] # "body") ~> (pc[t] = "body")
===============================================================================
