-------------------------------- MODULE Mutex --------------------------------
(***************************************************************************)
(* std::mutex and std::timed_mutex of the CMSIS-RTOS back end              *)
(* (_mutex.hpp, _mutex.cpp).                                               *)
(*                                                                         *)
(* The kernel's mutex is recursive.  The class adds the flag m_locked to   *)
(* tell the first lock of the owner from a second one, which it undoes.    *)
(* The flag has no protection but the kernel's mutex, so every operation   *)
(* reads and writes it between osMutexWait and osMutexRelease.             *)
(***************************************************************************)
EXTENDS Naturals

CONSTANTS
  Threads,
  Ops,     \* the lock operations in use
  None     \* no thread

ASSUME NoneIsNoThread == None \notin Threads
ASSUME OpsType == Ops \subseteq {"lock", "try_lock", "try_lock_for", "try_lock_until"}

VARIABLES
  owner, level,   \* the kernel's control block: the owner and its lock count
  m_locked,
  pc,             \* where each thread is
  op,             \* the operation it is in
  held            \* a thread has been told that it holds the mutex

vars == <<owner, level, m_locked, pc, op, held>>

Init ==
  /\ owner = None
  /\ level = 0
  /\ m_locked = FALSE
  /\ pc = [t \in Threads |-> "idle"]
  /\ op = [t \in Threads |-> "none"]
  /\ held = [t \in Threads |-> FALSE]

Goto(t, l) == pc' = [pc EXCEPT ![t] = l]

\* osMutexRelease by the owner: the mutex is free when the count is zero.
OsMutexRelease ==
  /\ level' = level - 1
  /\ owner' = IF level = 1 THEN None ELSE owner

\* A client that holds the mutex may try to lock it again; the operations are
\* meant to notice.
Call(t) ==
  /\ pc[t] = "idle"
  /\ \E o \in Ops : op' = [op EXCEPT ![t] = o]
  /\ Goto(t, "wait")
  /\ UNCHANGED <<owner, level, m_locked, held>>

\* osMutexWait succeeds.  timed_mutex::try_lock_for returns at once.
Wait(t) ==
  /\ pc[t] = "wait"
  /\ owner \in {None, t}
  /\ owner' = t
  /\ level' = level + 1
  /\ IF op[t] = "try_lock_for"
       THEN Goto(t, "idle") /\ held' = [held EXCEPT ![t] = TRUE]
       ELSE Goto(t, "check") /\ UNCHANGED held
  /\ UNCHANGED <<m_locked, op>>

\* osMutexWait gives up on a mutex that another thread owns: at once in
\* try_lock, after the last piece of the timeout in the timed operations.
WaitFails(t) ==
  /\ pc[t] = "wait" /\ op[t] # "lock"
  /\ owner \notin {None, t}
  /\ Goto(t, "idle")
  /\ UNCHANGED <<owner, level, m_locked, op, held>>

\* The first lock of the owner sets the flag and succeeds.
Check(t) ==
  /\ pc[t] = "check"
  /\ IF m_locked
       THEN Goto(t, "undo") /\ UNCHANGED <<m_locked, held>>
       ELSE /\ m_locked' = TRUE
            /\ held' = [held EXCEPT ![t] = TRUE]
            /\ Goto(t, "idle")
  /\ UNCHANGED <<owner, level, op>>

\* A second lock that gives the mutex up altogether.
Undo_All(t) ==
  /\ pc[t] = "undo"
  /\ owner' = None /\ level' = 0
  /\ m_locked' = FALSE
  /\ Goto(t, "idle")
  /\ UNCHANGED <<op, held>>

\* A second lock that releases both levels, and not the flag.
Undo_Twice(t) ==
  /\ pc[t] = "undo"
  /\ owner' = None /\ level' = 0
  /\ Goto(t, "idle")
  /\ UNCHANGED <<m_locked, op, held>>

\* A second lock that is not undone.
Undo_NoRelease(t) ==
  /\ pc[t] = "undo"
  /\ Goto(t, "idle")
  /\ UNCHANGED <<owner, level, m_locked, op, held>>

\* The second one is undone; lock() throws, the others return false.
Undo(t) ==
  /\ pc[t] = "undo"
  /\ OsMutexRelease
  /\ Goto(t, "idle")
  /\ UNCHANGED <<m_locked, op, held>>

\* An unlock() that leaves the flag set.
Unlock_NoClear(t) ==
  /\ pc[t] = "idle" /\ held[t]
  /\ held' = [held EXCEPT ![t] = FALSE]
  /\ Goto(t, "release")
  /\ UNCHANGED <<owner, level, m_locked, op>>

\* unlock(): from here on the client counts on nothing.
Unlock(t) ==
  /\ pc[t] = "idle" /\ held[t]
  /\ m_locked' = FALSE
  /\ held' = [held EXCEPT ![t] = FALSE]
  /\ Goto(t, "release")
  /\ UNCHANGED <<owner, level, op>>

Unlock_Release(t) ==
  /\ pc[t] = "release"
  /\ OsMutexRelease
  /\ Goto(t, "idle")
  /\ UNCHANGED <<m_locked, op, held>>

Continue(t) == Check(t) \/ Undo(t) \/ Unlock_Release(t)

Next == \E t \in Threads : Call(t) \/ Wait(t) \/ WaitFails(t) \/ Unlock(t) \/ Continue(t)

Spec == Init /\ [][Next]_vars

\* A running thread goes on, the client unlocks what it holds at some time (and
\* may try to lock it again as often as it likes before), and of the threads that
\* block the kernel serves each at some time.
Fairness == \A t \in Threads : /\ WF_vars(Continue(t))
                               /\ SF_vars(Unlock(t))
                               /\ SF_vars(Wait(t))

FairSpec == Spec /\ Fairness
-----------------------------------------------------------------------------
Phases == {"idle", "wait", "check", "undo", "release"}

\* Types. The lock count never wraps below zero.
TypeOK ==
  /\ owner \in Threads \cup {None}
  /\ level \in Nat
  /\ m_locked \in BOOLEAN
  /\ pc \in [Threads -> Phases]
  /\ op \in [Threads -> Ops \cup {"none"}]
  /\ held \in [Threads -> BOOLEAN]

\* WEOS_ASSERT(m_locked) in unlock(): a thread that was told that it holds the
\* mutex finds the flag set.
UnlockFindsFlag == \A t \in Threads : held[t] => m_locked

\* The flag and the kernel's owner together are what the clients were told: no
\* other thread's operation sets or clears the flag under the holder.
HeldIsLocked == \A t \in Threads : held[t] <=> m_locked /\ owner = t

\* However often the holder tried to lock again, its one unlock() frees the mutex.
UnlockFrees == \A t \in Threads : held[t] /\ pc[t] = "idle" => level = 1

L == INSTANCE Lock WITH holders <- {t \in Threads : held[t]}

\* Seen by its clients, the class is a lock: one holder at a time, until it
\* unlocks.
ImplementsLock == L!LockSpec

\* lock(), called by a thread that does not hold the mutex, makes it the holder.
LockSucceeds ==
  \A t \in Threads : pc[t] = "wait" /\ op[t] = "lock" /\ ~held[t] ~> held[t]
-----------------------------------------------------------------------------
\* The inductive invariant. A thread in an operation holds one level for it.
Inside(t) == pc[t] \in {"check", "undo", "release"}

OwnerCounted == owner = None <=> level = 0

\* Only the owner runs behind osMutexWait; its levels cover its lock and its
\* operation.
OwnerInside ==
  \A t \in Threads :
    /\ Inside(t) \/ held[t] => owner = t
    /\ Inside(t) /\ held[t] => level >= 2
    /\ pc[t] = "undo" => m_locked
    /\ pc[t] = "release" => ~held[t] /\ ~m_locked
    /\ pc[t] = "wait" => op[t] \in Ops
    /\ pc[t] = "check" => op[t] # "try_lock_for"

FlagHeld == m_locked => owner # None /\ held[owner]

\* Without try_lock_for the count and the flag are exact.
Exact ==
  /\ UnlockFindsFlag
  /\ \A t \in Threads : owner = t =>
       level = (IF held[t] THEN 1 ELSE 0) + (IF Inside(t) THEN 1 ELSE 0)

IInv ==
  /\ TypeOK
  /\ OwnerCounted
  /\ OwnerInside
  /\ FlagHeld
  /\ "try_lock_for" \notin Ops => Exact
=============================================================================
