----------------------------- MODULE CorpusMutex -----------------------------
(***************************************************************************)
(* The single-writer corpus mutex (mutex.py, CorpusWriteMutex), step by    *)
(* step: `_lock` serialises the writers, and `_holder_lock` guards the     *)
(* name and the counters that status tooling reads from other threads.     *)
(* Every block under `_holder_lock` is one action: it reads or writes      *)
(* nothing outside that lock.  A section that raises leaves through the    *)
(* same `finally` as one that returns, so the two share an action.         *)
(***************************************************************************)
EXTENDS Naturals

CONSTANTS
    Thread,       \* threads that enter the critical section
    HolderName,   \* the names passed to acquire(): "write_page", "reindex_all"...
    None,         \* Python's None
    MaxAcquires   \* bound on acquisitions, for TLC only

ASSUME MutexAssumption ==
    /\ None \notin HolderName
    /\ None \notin Thread
    /\ MaxAcquires \in Nat

VARIABLES
    lock,          \* the thread that holds `_lock`, or None
    holder,        \* `_holder`
    acquireCount,  \* `_acquire_count`
    pc,            \* where each thread is in acquire()
    name           \* the holder_name of each thread's call

vars == <<lock, holder, acquireCount, pc, name>>

ThreadPC == {"outside", "waiting", "locked", "section", "leaving"}

TypeOK ==
    /\ lock \in Thread \cup {None}
    /\ holder \in HolderName \cup {None}
    /\ acquireCount \in Nat
    /\ pc \in [Thread -> ThreadPC]
    /\ name \in [Thread -> HolderName \cup {None}]

Init ==
    /\ lock = None
    /\ holder = None
    /\ acquireCount = 0
    /\ pc = [t \in Thread |-> "outside"]
    /\ name = [t \in Thread |-> None]

-----------------------------------------------------------------------------
(* acquire() *)

\* The call up to `self._lock.acquire()`.
Request(t, n) ==
    /\ pc[t] = "outside"
    /\ acquireCount < MaxAcquires
    /\ pc' = [pc EXCEPT ![t] = "waiting"]
    /\ name' = [name EXCEPT ![t] = n]
    /\ UNCHANGED <<lock, holder, acquireCount>>

\* Mutant: a thread that finds the lock taken goes on all the same.
LockIgnored(t) ==
    /\ pc[t] = "waiting"
    /\ lock' = t
    /\ pc' = [pc EXCEPT ![t] = "locked"]
    /\ UNCHANGED <<holder, acquireCount, name>>

\* `self._lock.acquire()` returns.  threading.Lock keeps no queue: any
\* waiter may be the one that gets it.
TakeLock(t) ==
    /\ pc[t] = "waiting"
    /\ lock = None
    /\ lock' = t
    /\ pc' = [pc EXCEPT ![t] = "locked"]
    /\ UNCHANGED <<holder, acquireCount, name>>

\* The first block under `_holder_lock`.
Register(t) ==
    /\ pc[t] = "locked"
    /\ holder' = name[t]
    /\ acquireCount' = acquireCount + 1
    /\ pc' = [pc EXCEPT ![t] = "section"]
    /\ UNCHANGED <<lock, name>>

\* Mutant: the section's name is left behind.
UnregisterForgotten(t) ==
    /\ pc[t] = "section"
    /\ pc' = [pc EXCEPT ![t] = "leaving"]
    /\ UNCHANGED <<lock, holder, acquireCount, name>>

\* The section returns or raises; the block under `_holder_lock` in `finally`.
Unregister(t) ==
    /\ pc[t] = "section"
    /\ holder' = None
    /\ pc' = [pc EXCEPT ![t] = "leaving"]
    /\ UNCHANGED <<lock, acquireCount, name>>

\* Mutant: the lock is not released.
ReleaseForgotten(t) ==
    /\ pc[t] = "leaving"
    /\ pc' = [pc EXCEPT ![t] = "outside"]
    /\ name' = [name EXCEPT ![t] = None]
    /\ UNCHANGED <<lock, holder, acquireCount>>

\* `self._lock.release()`.
Release(t) ==
    /\ pc[t] = "leaving"
    /\ lock' = None
    /\ pc' = [pc EXCEPT ![t] = "outside"]
    /\ name' = [name EXCEPT ![t] = None]
    /\ UNCHANGED <<holder, acquireCount>>

-----------------------------------------------------------------------------
Enter(t) == TakeLock(t) \/ Register(t)
Leave(t) == Unregister(t) \/ Release(t)
Call(t) == \E n \in HolderName : Request(t, n)

Next == \E t \in Thread : Call(t) \/ Enter(t) \/ Leave(t)

Spec == Init /\ [][Next]_vars

-----------------------------------------------------------------------------
(* Properties *)

\* Between `_lock.acquire()` and `_lock.release()`.
Holding(t) == pc[t] \in {"locked", "section", "leaving"}

\* No two threads are between acquire and release at the same time: the one
\* that is there is the one that owns `_lock`.
MutualExclusion == \A t \in Thread : Holding(t) => lock = t

\* `holder` names a section exactly while that section is open: no stale name
\* after a section ends, and no section whose name was wiped by the thread
\* that left before it.
HolderNamesOpenSection ==
    \A n \in HolderName :
        holder = n <=> \E t \in Thread : pc[t] = "section" /\ name[t] = n

\* Deadlock freedom of the corpus: whenever a writer is waiting, some writer
\* gets into its section.  (Which one is up to threading.Lock.)
SomeWaiterEnters ==
    (\E t \in Thread : pc[t] = "waiting") ~> (\E t \in Thread : pc[t] = "section")
=============================================================================
