----------------------------- MODULE Sync_proofs -----------------------------
(***************************************************************************)
(* The safety of what threads share and wait for: mutexes, recursive       *)
(* mutexes, lock guards with std::lock, latch and synchronic, the threads  *)
(* of the C++11 back end, timed waits, signals, atomic and the clock.  Each *)
(* has an inductive invariant of its own, for any number of threads,       *)
(* mutexes, unique_locks and readers.                                      *)
(***************************************************************************)
EXTENDS Mutex, RecursiveMutex, LatchSynchronic, LockGuards, HostThread, AtomicCell, Signals,
        TimedWait, Clock, FiniteSetTheorems, TLAPS

(* Mutex.  The inductive invariant is IInv of that module. *)

\* The invariant holds at first.
LEMMA Init_IInv == Init => IInv
<1> SUFFICES ASSUME Init PROVE IInv
  OBVIOUS
<1>1. TypeOK
  BY DEF Init, TypeOK, Phases
<1>2. OwnerCounted /\ FlagHeld
  BY DEF Init, OwnerCounted, FlagHeld
<1>3. \A t \in Threads : pc[t] = "idle" /\ ~held[t] /\ owner # t
  BY NoneIsNoThread DEF NoneIsNoThread, Init
<1>4. OwnerInside
  BY <1>3 DEF OwnerInside, Inside
<1>5. Exact
  BY <1>3 DEF Exact, UnlockFindsFlag
<1>6. QED
  BY <1>1, <1>2, <1>4, <1>5 DEF IInv

\* Call keeps the invariant.
LEMMA Call_IInv ==
  ASSUME NEW t \in Threads, IInv, Call(t) PROVE IInv'
<1> USE NoneIsNoThread DEF NoneIsNoThread
<1>1. TypeOK'
  BY DEF IInv, TypeOK, Phases, OwnerCounted, OwnerInside, Inside, Goto, Call
<1>2. OwnerCounted'
  BY DEF IInv, TypeOK, OwnerCounted, OwnerInside, Inside, Goto, Call
<1>3. OwnerInside'
  BY DEF IInv, TypeOK, OwnerCounted, OwnerInside, Inside, FlagHeld, Goto, Call
<1>4. FlagHeld'
  BY DEF IInv, TypeOK, OwnerInside, Inside, FlagHeld, Goto, Call
<1>5. ASSUME "try_lock_for" \notin Ops PROVE Exact'
  BY <1>5 DEF IInv, TypeOK, Exact, UnlockFindsFlag, OwnerCounted, OwnerInside, Inside,
              FlagHeld, Goto, Call
<1>6. QED
  BY <1>1, <1>2, <1>3, <1>4, <1>5 DEF IInv

\* Wait keeps the invariant.
LEMMA Wait_IInv ==
  ASSUME NEW t \in Threads, IInv, Wait(t) PROVE IInv'
<1> USE NoneIsNoThread DEF NoneIsNoThread
<1>1. TypeOK'
  <2>1. owner' \in Threads \cup {None} /\ level' \in Nat
    BY DEF IInv, TypeOK, Wait
  <2>2. m_locked' \in BOOLEAN /\ op' \in [Threads -> Ops \cup {"none"}]
    BY DEF IInv, TypeOK, Wait
  <2>3. pc' \in [Threads -> Phases] /\ held' \in [Threads -> BOOLEAN]
    BY DEF IInv, TypeOK, Phases, Wait, Goto
  <2>4. QED
    BY <2>1, <2>2, <2>3 DEF TypeOK
<1>2. OwnerCounted'
  BY DEF IInv, TypeOK, OwnerCounted, OwnerInside, Inside, Goto, Wait
<1>3. OwnerInside'
  BY DEF IInv, TypeOK, OwnerCounted, OwnerInside, Inside, FlagHeld, Goto, Wait
<1>4. FlagHeld'
  BY DEF IInv, TypeOK, OwnerInside, Inside, FlagHeld, Goto, Wait
<1>5. ASSUME "try_lock_for" \notin Ops PROVE Exact'
  BY <1>5 DEF IInv, TypeOK, Exact, UnlockFindsFlag, OwnerCounted, OwnerInside, Inside,
              FlagHeld, Goto, Wait
<1>6. QED
  BY <1>1, <1>2, <1>3, <1>4, <1>5 DEF IInv

\* WaitFails keeps the invariant.
LEMMA WaitFails_IInv ==
  ASSUME NEW t \in Threads, IInv, WaitFails(t) PROVE IInv'
<1> USE NoneIsNoThread DEF NoneIsNoThread
<1>1. TypeOK'
  BY DEF IInv, TypeOK, Phases, OwnerCounted, OwnerInside, Inside, Goto, WaitFails
<1>2. OwnerCounted'
  BY DEF IInv, TypeOK, OwnerCounted, OwnerInside, Inside, Goto, WaitFails
<1>3. OwnerInside'
  BY DEF IInv, TypeOK, OwnerCounted, OwnerInside, Inside, FlagHeld, Goto, WaitFails
<1>4. FlagHeld'
  BY DEF IInv, TypeOK, OwnerInside, Inside, FlagHeld, Goto, WaitFails
<1>5. ASSUME "try_lock_for" \notin Ops PROVE Exact'
  BY <1>5 DEF IInv, TypeOK, Exact, UnlockFindsFlag, OwnerCounted, OwnerInside, Inside,
              FlagHeld, Goto, WaitFails
<1>6. QED
  BY <1>1, <1>2, <1>3, <1>4, <1>5 DEF IInv

\* Check keeps the invariant.
LEMMA Check_IInv ==
  ASSUME NEW t \in Threads, IInv, Check(t) PROVE IInv'
<1> USE NoneIsNoThread DEF NoneIsNoThread
<1>1. TypeOK'
  BY DEF IInv, TypeOK, Phases, OwnerCounted, OwnerInside, Inside, Goto, Check
<1>2. OwnerCounted'
  BY DEF IInv, TypeOK, OwnerCounted, OwnerInside, Inside, Goto, Check
<1>3. OwnerInside'
  BY DEF IInv, TypeOK, OwnerCounted, OwnerInside, Inside, FlagHeld, Goto, Check
<1>4. FlagHeld'
  BY DEF IInv, TypeOK, OwnerInside, Inside, FlagHeld, Goto, Check
<1>5. ASSUME "try_lock_for" \notin Ops PROVE Exact'
  BY <1>5 DEF IInv, TypeOK, Exact, UnlockFindsFlag, OwnerCounted, OwnerInside, Inside,
              FlagHeld, Goto, Check
<1>6. QED
  BY <1>1, <1>2, <1>3, <1>4, <1>5 DEF IInv

\* Undo keeps the invariant.
LEMMA Undo_IInv ==
  ASSUME NEW t \in Threads, IInv, Undo(t) PROVE IInv'
<1> USE NoneIsNoThread DEF NoneIsNoThread
<1>1. TypeOK'
  BY DEF IInv, TypeOK, Phases, OwnerCounted, OwnerInside, Inside, Goto, Undo, OsMutexRelease
<1>2. OwnerCounted'
  BY DEF IInv, TypeOK, OwnerCounted, OwnerInside, Inside, Goto, Undo, OsMutexRelease
<1>3. OwnerInside'
  BY DEF IInv, TypeOK, OwnerCounted, OwnerInside, Inside, FlagHeld, Goto, Undo, OsMutexRelease
<1>4. FlagHeld'
  BY DEF IInv, TypeOK, OwnerInside, Inside, FlagHeld, Goto, Undo, OsMutexRelease
<1>5. ASSUME "try_lock_for" \notin Ops PROVE Exact'
  BY <1>5 DEF IInv, TypeOK, Exact, UnlockFindsFlag, OwnerCounted, OwnerInside, Inside,
              FlagHeld, Goto, Undo, OsMutexRelease
<1>6. QED
  BY <1>1, <1>2, <1>3, <1>4, <1>5 DEF IInv

\* Unlock keeps the invariant.
LEMMA Unlock_IInv ==
  ASSUME NEW t \in Threads, IInv, Unlock(t) PROVE IInv'
<1> USE NoneIsNoThread DEF NoneIsNoThread
<1>1. TypeOK'
  BY DEF IInv, TypeOK, Phases, OwnerCounted, OwnerInside, Inside, Goto, Unlock
<1>2. OwnerCounted'
  BY DEF IInv, TypeOK, OwnerCounted, OwnerInside, Inside, Goto, Unlock
<1>3. OwnerInside'
  BY DEF IInv, TypeOK, OwnerCounted, OwnerInside, Inside, FlagHeld, Goto, Unlock
<1>4. FlagHeld'
  BY DEF IInv, TypeOK, OwnerInside, Inside, FlagHeld, Goto, Unlock
<1>5. ASSUME "try_lock_for" \notin Ops PROVE Exact'
  BY <1>5 DEF IInv, TypeOK, Exact, UnlockFindsFlag, OwnerCounted, OwnerInside, Inside,
              FlagHeld, Goto, Unlock
<1>6. QED
  BY <1>1, <1>2, <1>3, <1>4, <1>5 DEF IInv

\* Unlock_Release keeps the invariant.
LEMMA Unlock_Release_IInv ==
  ASSUME NEW t \in Threads, IInv, Unlock_Release(t) PROVE IInv'
<1> USE NoneIsNoThread DEF NoneIsNoThread
<1>1. TypeOK'
  BY DEF IInv, TypeOK, Phases, OwnerCounted, OwnerInside, Inside, Goto, Unlock_Release,
     OsMutexRelease
<1>2. OwnerCounted'
  BY DEF IInv, TypeOK, OwnerCounted, OwnerInside, Inside, Goto, Unlock_Release, OsMutexRelease
<1>3. OwnerInside'
  BY DEF IInv, TypeOK, OwnerCounted, OwnerInside, Inside, FlagHeld, Goto, Unlock_Release,
     OsMutexRelease
<1>4. FlagHeld'
  BY DEF IInv, TypeOK, OwnerInside, Inside, FlagHeld, Goto, Unlock_Release, OsMutexRelease
<1>5. ASSUME "try_lock_for" \notin Ops PROVE Exact'
  BY <1>5 DEF IInv, TypeOK, Exact, UnlockFindsFlag, OwnerCounted, OwnerInside, Inside,
              FlagHeld, Goto, Unlock_Release, OsMutexRelease
<1>6. QED
  BY <1>1, <1>2, <1>3, <1>4, <1>5 DEF IInv

\* The actions together.
LEMMA Next_IInv == IInv /\ [Next]_vars => IInv'
<1> SUFFICES ASSUME IInv, [Next]_vars PROVE IInv'
  OBVIOUS
<1>1. CASE UNCHANGED vars
  BY <1>1 DEF vars, IInv, TypeOK, OwnerCounted, OwnerInside, Inside, FlagHeld, Exact,
              UnlockFindsFlag
<1>2. ASSUME NEW t \in Threads,
             Call(t) \/ Wait(t) \/ WaitFails(t) \/ Unlock(t) \/ Continue(t)
      PROVE  IInv'
  BY <1>2, Call_IInv, Wait_IInv, WaitFails_IInv, Unlock_IInv, Check_IInv, Undo_IInv,
     Unlock_Release_IInv DEF Continue
<1>3. QED
  BY <1>1, <1>2 DEF Next

\* The invariant holds in every reachable state.
THEOREM Invariance == Spec => []IInv
<1>1. QED
  BY Init_IInv, Next_IInv, PTL DEF Spec

\* The variables keep their types; the count of locks never goes below zero.
THEOREM TypeCorrect == Spec => []TypeOK
<1>1. IInv => TypeOK
  BY DEF IInv
<1>2. QED
  BY <1>1, Invariance, PTL

\* Only the kernel's owner was told that it holds the mutex, in whatever mix of
\* operations: no two threads hold it at once.
THEOREM MutualExclusion == Spec => [](\A t, u \in Threads : held[t] /\ held[u] => t = u)
<1>1. IInv => \A t, u \in Threads : held[t] /\ held[u] => t = u
  BY DEF IInv, OwnerInside
<1>2. QED
  BY <1>1, Invariance, PTL

\* Unless timed_mutex::try_lock_for is used, flag and owner are what the clients
\* were told.
THEOREM FlagExact ==
  ASSUME "try_lock_for" \notin Ops PROVE Spec => []HeldIsLocked
<1>1. IInv => HeldIsLocked
  BY DEF IInv, TypeOK, OwnerInside, FlagHeld, Exact, UnlockFindsFlag, HeldIsLocked
<1>2. QED
  BY <1>1, Invariance, PTL

\* Unless timed_mutex::try_lock_for is used, one unlock() frees the mutex.
THEOREM OneUnlockFrees ==
  ASSUME "try_lock_for" \notin Ops PROVE Spec => []UnlockFrees
<1>1. IInv => UnlockFrees
  <2> SUFFICES ASSUME IInv, NEW t \in Threads, held[t], pc[t] = "idle" PROVE level = 1
    BY DEF UnlockFrees
  <2>1. owner = t
    BY DEF IInv, OwnerInside
  <2>2. ~Inside(t)
    BY DEF Inside
  <2>3. QED
    BY <2>1, <2>2 DEF IInv, Exact
<1>2. QED
  BY <1>1, Invariance, PTL

\* Every step is a step of the abstract lock, or none of its business.
LEMMA Step_Lock == IInv /\ [Next]_vars => [L!LockNext]_(L!LockVars)
<1> DEFINE holders == {t \in Threads : held[t]}
<1> SUFFICES ASSUME IInv, [Next]_vars PROVE L!LockNext \/ holders' = holders
  BY DEF L!LockVars
<1>1. CASE UNCHANGED held
  BY <1>1
<1>2. ASSUME NEW t \in Threads, Wait(t) \/ Check(t), held' = [held EXCEPT ![t] = TRUE]
      PROVE  L!LockNext \/ holders' = holders
  <2>1. owner \in {None, t}
    BY <1>2 DEF Wait, Check, IInv, OwnerInside, Inside
  <2>2. \A u \in Threads : held[u] => u = t
    BY <2>1, NoneIsNoThread DEF NoneIsNoThread, IInv, OwnerInside
  <2>3. \A u \in Threads : held'[u] <=> u = t
    BY <1>2, <2>2 DEF IInv, TypeOK
  <2>4. holders' = {t}
    BY <2>3
  <2>5. holders = {} \/ holders = {t}
    BY <2>2
  <2>6. QED
    BY <2>4, <2>5 DEF L!LockNext, L!Acquire
<1>3. ASSUME NEW t \in Threads, Unlock(t)
      PROVE  L!LockNext \/ holders' = holders
  <2>1. \A u \in Threads : held[u] <=> u = t
    BY <1>3 DEF Unlock, IInv, OwnerInside
  <2>2. \A u \in Threads : ~held'[u]
    BY <1>3, <2>1 DEF Unlock, IInv, TypeOK
  <2>3. holders = {t} /\ holders' = {}
    BY <2>1, <2>2
  <2>4. QED
    BY <2>3 DEF L!LockNext, L!Release
<1>4. QED
  BY <1>1, <1>2, <1>3
     DEF Next, vars, Call, Wait, WaitFails, Continue, Check, Undo, Unlock, Unlock_Release

\* In whatever mix of operations the class implements a lock.
THEOREM LockRefined == Spec => ImplementsLock
<1>1. Init => L!LockInit
  BY DEF Init, L!LockInit
<1>2. QED
  BY <1>1, Step_Lock, Invariance, PTL DEF Spec, ImplementsLock, L!LockSpec, L!LockVars
-----------------------------------------------------------------------------
(* recursive_mutex. *)

\* The bound on the levels is kept by the call that asks for one more.
RecursiveIInv ==
  /\ RecursiveTypeOK /\ LevelsExact
  /\ \A t \in RecThreads : recAt[t] # "out" => holds[t] < MaxLevel

\* Nobody has locked the recursive mutex yet.
LEMMA Recursive_Init == RecursiveInit => RecursiveIInv
  BY RecursiveConstants DEF RecursiveInit, RecursiveIInv, RecursiveTypeOK, LevelsExact, Forever

\* Each call and each return of recursive_mutex keeps the levels exact.
LEMMA Recursive_Next == RecursiveIInv /\ [RecursiveNext]_recursiveVars => RecursiveIInv'
<1> SUFFICES ASSUME RecursiveIInv, [RecursiveNext]_recursiveVars PROVE RecursiveIInv'
  OBVIOUS
<1> USE RecursiveConstants DEF RecursiveIInv, RecursiveTypeOK, LevelsExact, Forever, RecGoto
<1>1. CASE UNCHANGED recursiveVars
  BY <1>1 DEF recursiveVars
<1>2. ASSUME NEW t \in RecThreads, NEW n \in 0 .. Forever, Rec_Call(t, n) PROVE RecursiveIInv'
  BY <1>2 DEF Rec_Call
<1>3. ASSUME NEW t \in RecThreads, Rec_Take(t) PROVE RecursiveIInv'
  BY <1>3 DEF Rec_Take
<1>4. ASSUME NEW t \in RecThreads, Rec_Fails(t) PROVE RecursiveIInv'
  BY <1>4 DEF Rec_Fails
<1>5. ASSUME NEW t \in RecThreads, Rec_Block(t) PROVE RecursiveIInv'
  BY <1>5 DEF Rec_Block
<1>6. ASSUME NEW t \in RecThreads, Rec_TimeOut(t) PROVE RecursiveIInv'
  BY <1>6 DEF Rec_TimeOut
<1>7. ASSUME NEW t \in RecThreads, Rec_Unlock(t) PROVE RecursiveIInv'
  BY <1>7 DEF Rec_Unlock
<1> QED
  BY <1>1, <1>2, <1>3, <1>4, <1>5, <1>6, <1>7 DEF RecursiveNext

\* recursive_mutex: it is unlocked for the others exactly when its owner has unlocked
\* it as often as it locked it, whatever attempts fail or time out, for any number of
\* threads and levels.
THEOREM RecursiveLevels == RecursiveSpec => [](RecursiveTypeOK /\ LevelsExact)
<1>1. RecursiveIInv => RecursiveTypeOK /\ LevelsExact
  BY DEF RecursiveIInv
<1> QED
  BY <1>1, Recursive_Init, Recursive_Next, PTL DEF RecursiveSpec
-----------------------------------------------------------------------------
(* latch and synchronic. *)

\* The threads that have still to count down.
Way == {t \in Waiters : down[t] = 1 /\ place[t] \in {"construct", "look"}}

\* The counter is enough for all of them.
WayCounted == kind = "latch" => IsFiniteSet(Way) /\ Cardinality(Way) <= object

\* Nobody who waits notifies; a latch is waited for until it is zero.
LSCalls ==
  \A t \in Waiters : /\ place[t] \notin {"notify_all", "notify_one"}
                     /\ kind = "synchronic" => down[t] = 0
                     /\ kind = "latch" /\ place[t] # "idle" => until[t] = {0}

\* The inductive invariant of latch and synchronic.
LSIInv == LSTypeOK /\ LSCalls /\ WayCounted /\ NoSleeperMissed

\* Nobody waits for a latch or a synchronic yet.
LEMMA LS_Init == LSInit => LSIInv
<1> SUFFICES ASSUME LSInit PROVE LSIInv
  OBVIOUS
<1> USE UsersDisjoint, KindsType, MaxCountType, ObjectsType DEF LSInit, WQInit, Callers
<1>1. object \in IF kind = "latch" THEN 0 .. MaxCount ELSE ObjectValues
  OBVIOUS
<1>2. LSTypeOK /\ LSCalls
  <2>1. /\ phase \in [Waiters -> {"idle", "entering", "waiting", "notified", "timeout"}]
        /\ outcome \in [Waiters -> {"none", "notified", "timeout"}]
    OBVIOUS
  <2>2. /\ place \in [Callers -> {"idle", "construct", "look", "block", "leave", "notify_all",
                             "notify_one"}]
        /\ until \in [Waiters -> SUBSET (ObjectValues \cup {0})]
        /\ down \in [Waiters -> 0 .. 1]
    OBVIOUS
  <2>3. LSCalls
    BY DEF LSCalls
  <2> QED
    BY <1>1, <2>1, <2>2, <2>3 DEF LSTypeOK
<1>3. Way = {}
  BY DEF Way
<1>4. WayCounted
  BY <1>3, FS_EmptySet DEF WayCounted
<1>5. NoSleeperMissed
  BY DEF NoSleeperMissed, Asleep
<1> QED
  BY <1>2, <1>4, <1>5 DEF LSIInv

\* latch::wait() begins.
LEMMA LS_Latch_Wait ==
  ASSUME LSIInv, NEW t \in Waiters, Latch_Wait(t) PROVE LSIInv'
<1> USE UsersDisjoint, KindsType, MaxCountType, ObjectsType DEF LSIInv, Callers, GoesTo, wqVars,
    ownVars, Latch_Wait, CallFor
<1>1. Way' = Way
  BY DEF LSTypeOK, LSCalls, Way
<1>2. LSTypeOK' /\ LSCalls' /\ WayCounted'
  BY <1>1 DEF LSTypeOK, LSCalls, WayCounted
<1>3. NoSleeperMissed'
  BY DEF LSTypeOK, LSCalls, NoSleeperMissed, Asleep
<1> QED
  BY <1>2, <1>3

\* latch::count_down_and_wait() begins: one more is on the way, and the counter
\* allows for it.
LEMMA LS_Latch_CountDownAndWait ==
  ASSUME LSIInv, NEW t \in Waiters, Latch_CountDownAndWait(t) PROVE LSIInv'
<1> USE UsersDisjoint, KindsType, MaxCountType, ObjectsType DEF LSIInv, Callers, GoesTo, wqVars,
    ownVars, Latch_CountDownAndWait, CallFor
<1>1. LSTypeOK'
  BY DEF LSTypeOK, LSCalls
<1>2. LSCalls'
  BY DEF LSTypeOK, LSCalls
<1>3. Way' = Way \cup {t} /\ t \notin Way
  BY DEF LSTypeOK, LSCalls, Way
<1>4. WayCounted'
  <2>1. IsFiniteSet(Way) /\ Cardinality(Way) < object
    BY DEF WayCounted, OnTheirWay, Way
  <2>2. IsFiniteSet(Way') /\ Cardinality(Way') = Cardinality(Way) + 1
    BY <1>3, <2>1, FS_AddElement
  <2>3. object' = object /\ object \in Nat /\ Cardinality(Way) \in Nat
    BY <2>1, FS_CardinalityType DEF LSTypeOK
  <2> QED
    BY <2>1, <2>2, <2>3 DEF WayCounted
<1>5. NoSleeperMissed'
  BY DEF LSTypeOK, LSCalls, NoSleeperMissed, Asleep
<1> QED
  BY <1>1, <1>2, <1>4, <1>5

\* latch::count_down(n) leaves enough for those who are on their way.
LEMMA LS_Latch_CountDown ==
  ASSUME LSIInv, NEW t \in Updaters, NEW n \in 0 .. MaxCount, Latch_CountDown(t, n) PROVE LSIInv'
<1> USE UsersDisjoint, KindsType, MaxCountType, ObjectsType DEF LSIInv, Callers, GoesTo, wqVars,
    ownVars, Latch_CountDown
<1>1. object' = object - n /\ object \in Nat /\ n \in Nat /\ object \in 0 .. MaxCount
  BY DEF LSTypeOK
<1>2. IsFiniteSet(Way) /\ n + Cardinality(Way) <= object
  BY DEF WayCounted, OnTheirWay, Way
<1>3. Cardinality(Way) \in Nat
  BY <1>2, FS_CardinalityType
<1>4. object' \in 0 .. MaxCount
  BY <1>1, <1>2, <1>3
<1>5. LSTypeOK'
  BY <1>4 DEF LSTypeOK, LSCalls
<1>6. LSCalls'
  BY DEF LSTypeOK, LSCalls
<1>7. Way' = Way
  BY DEF LSTypeOK, LSCalls, Way
<1>8. WayCounted'
  BY <1>1, <1>2, <1>3, <1>7 DEF WayCounted
<1>9. NoSleeperMissed'
  BY DEF LSTypeOK, LSCalls, NoSleeperMissed, Asleep
<1> QED
  BY <1>5, <1>6, <1>8, <1>9

\* ~latch() when the counter is zero: whoever waits is notified.
LEMMA LS_Latch_Destroy ==
  ASSUME LSIInv, NEW t \in Callers, Latch_Destroy(t) PROVE LSIInv'
<1> USE UsersDisjoint, KindsType, MaxCountType, ObjectsType DEF LSIInv, Callers, GoesTo, wqVars,
    ownVars, Latch_Destroy, NotifyAll, Waiting
<1>1. LSTypeOK'
  <2>1. CASE Waiting = {}
    BY <2>1 DEF LSTypeOK, Waiting
  <2>2. CASE Waiting # {}
    <3>1. phase' \in [Waiters -> {"idle", "entering", "waiting", "notified", "timeout"}]
      BY <2>2 DEF LSTypeOK, Waiting
    <3> QED
      BY <2>2, <3>1 DEF LSTypeOK, Waiting
  <2> QED
    BY <2>1, <2>2
<1>2. LSCalls'
  BY DEF LSTypeOK, LSCalls
<1>3. Way' = Way
  BY DEF LSTypeOK, LSCalls, Way
<1>4. WayCounted'
  BY <1>3 DEF WayCounted, LSTypeOK
<1>5. NoSleeperMissed'
  BY DEF LSTypeOK, LSCalls, NoSleeperMissed, Asleep
<1> QED
  BY <1>1, <1>2, <1>4, <1>5

\* synchronic::expect() begins.
LEMMA LS_Synchronic_Expect ==
  ASSUME LSIInv, NEW t \in Waiters, NEW v \in ObjectValues, Synchronic_Expect(t, v) PROVE LSIInv'
<1> USE UsersDisjoint, KindsType, MaxCountType, ObjectsType DEF LSIInv, Callers, GoesTo, wqVars,
    ownVars, Synchronic_Expect, CallFor
<1>1. Way' = Way
  BY DEF LSTypeOK, LSCalls, Way
<1>2. LSTypeOK' /\ LSCalls' /\ WayCounted'
  BY <1>1 DEF LSTypeOK, LSCalls, WayCounted
<1>3. NoSleeperMissed'
  BY DEF LSTypeOK, LSCalls, NoSleeperMissed, Asleep
<1> QED
  BY <1>2, <1>3

\* synchronic::expect_update() begins.
LEMMA LS_Synchronic_ExpectUpdate ==
  ASSUME LSIInv, NEW t \in Waiters, NEW v \in ObjectValues, Synchronic_ExpectUpdate(t, v)
  PROVE  LSIInv'
<1> USE UsersDisjoint, KindsType, MaxCountType, ObjectsType DEF LSIInv, Callers, GoesTo, wqVars,
    ownVars, Synchronic_ExpectUpdate, CallFor
<1>1. Way' = Way
  BY DEF LSTypeOK, LSCalls, Way
<1>2. LSTypeOK' /\ LSCalls' /\ WayCounted'
  BY <1>1 DEF LSTypeOK, LSCalls, WayCounted
<1>3. NoSleeperMissed'
  BY DEF LSTypeOK, LSCalls, NoSleeperMissed, Asleep
<1> QED
  BY <1>2, <1>3

\* synchronic::notify() stores, and has still to notify.
LEMMA LS_Synchronic_Store ==
  ASSUME LSIInv, NEW t \in Updaters, NEW v \in ObjectValues,
         NEW h \in {"notify_all", "notify_one"}, Synchronic_Store(t, v, h)
  PROVE  LSIInv'
<1> USE UsersDisjoint, KindsType, MaxCountType, ObjectsType DEF LSIInv, Callers, GoesTo, wqVars,
    ownVars, Synchronic_Store
<1>1. Way' = Way
  BY DEF LSTypeOK, LSCalls, Way
<1>2. LSTypeOK' /\ LSCalls' /\ WayCounted'
  BY <1>1 DEF LSTypeOK, LSCalls, WayCounted
<1>3. NoSleeperMissed'
  BY DEF LSTypeOK, LSCalls, NoSleeperMissed, Asleep
<1> QED
  BY <1>2, <1>3

\* The constructor of synchronic_waiter takes the lock of the queue.
LEMMA LS_Construct_Begin ==
  ASSUME LSIInv, NEW t \in Waiters, Construct_Begin(t) PROVE LSIInv'
<1> USE UsersDisjoint, KindsType, MaxCountType, ObjectsType DEF LSIInv, Callers, GoesTo, wqVars,
    ownVars, Construct_Begin, Begin
<1>1. Way' = Way
  BY DEF LSTypeOK, LSCalls, Way
<1>2. LSTypeOK' /\ LSCalls' /\ WayCounted'
  BY <1>1 DEF LSTypeOK, LSCalls, WayCounted
<1>3. NoSleeperMissed'
  BY DEF LSTypeOK, LSCalls, NoSleeperMissed, Asleep
<1> QED
  BY <1>2, <1>3

\* It has entered the queue.
LEMMA LS_Construct_Enter ==
  ASSUME LSIInv, NEW t \in Waiters, Construct_Enter(t) PROVE LSIInv'
<1> USE UsersDisjoint, KindsType, MaxCountType, ObjectsType DEF LSIInv, Callers, GoesTo, wqVars,
    ownVars, Construct_Enter, Enter
<1>1. Way' = Way
  BY DEF LSTypeOK, LSCalls, Way
<1>2. LSTypeOK' /\ LSCalls' /\ WayCounted'
  BY <1>1 DEF LSTypeOK, LSCalls, WayCounted
<1>3. NoSleeperMissed'
  BY DEF LSTypeOK, LSCalls, NoSleeperMissed, Asleep
<1> QED
  BY <1>2, <1>3

\* The waiter looks at the object, or counts down: it sleeps on a value it waits to
\* see change, and whoever made the counter zero has it notified.
LEMMA LS_Look ==
  ASSUME LSIInv, NEW t \in Waiters, Look(t) PROVE LSIInv'
<1> USE UsersDisjoint, KindsType, MaxCountType, ObjectsType DEF LSIInv, Callers, GoesTo, wqVars,
    Look
<1>1. LSCalls'
  BY DEF LSTypeOK, LSCalls
<1>2. CASE down[t] = 1
  <2>1. kind = "latch" /\ object \in Nat
    BY <1>2 DEF LSTypeOK, LSCalls
  <2>2. Way' = Way \ {t} /\ t \in Way
    BY <1>2 DEF LSTypeOK, LSCalls, Way
  <2>3. IsFiniteSet(Way) /\ Cardinality(Way) <= object
    BY <2>1 DEF WayCounted
  <2>4. IsFiniteSet(Way \ {t}) /\ Cardinality(Way \ {t}) = Cardinality(Way) - 1
            /\ Cardinality(Way) \in Nat
    BY <2>2, <2>3, FS_RemoveElement, FS_CardinalityType
  <2>5. Cardinality(Way \ {t}) \in Nat
    BY <2>4, FS_CardinalityType
  <2>6. object >= 1 /\ object' = object - 1
    BY <1>2, <2>1, <2>3, <2>4, <2>5
  <2>7. WayCounted'
    BY <2>1, <2>2, <2>3, <2>4, <2>6 DEF WayCounted
  <2>8. LSTypeOK'
    BY <2>1, <2>6 DEF LSTypeOK
  <2>9. NoSleeperMissed'
    <3>1. CASE object' = 0
      BY <1>2, <3>1 DEF NoSleeperMissed
    <3>2. CASE object' # 0
      <4>1. ASSUME NEW u \in Waiters, Asleep(u)' PROVE object' \notin until'[u]
        BY <2>1, <3>2, <4>1 DEF LSTypeOK, LSCalls, Asleep
      <4> QED
        BY <4>1 DEF NoSleeperMissed
    <3> QED
      BY <3>1, <3>2
  <2> QED
    BY <1>1, <2>7, <2>8, <2>9
<1>3. CASE down[t] = 0
  <2>1. object \in Nat /\ object' = object
    BY <1>3 DEF LSTypeOK
  <2>2. Way' = Way
    BY <1>3 DEF LSTypeOK, LSCalls, Way
  <2>3. WayCounted'
    BY <2>1, <2>2 DEF WayCounted
  <2>4. LSTypeOK'
    BY <2>1, <1>3 DEF LSTypeOK
  <2>5. NoSleeperMissed'
    BY <2>1, <1>3 DEF LSTypeOK, LSCalls, NoSleeperMissed, Asleep
  <2> QED
    BY <1>1, <2>3, <2>4, <2>5
<1> QED
  BY <1>2, <1>3 DEF LSTypeOK

\* A waiter that was notified leaves the queue.
LEMMA LS_Woken ==
  ASSUME LSIInv, NEW t \in Waiters, Woken(t) PROVE LSIInv'
<1> USE UsersDisjoint, KindsType, MaxCountType, ObjectsType DEF LSIInv, Callers, GoesTo, wqVars,
    ownVars, Woken, Leave, LSReturn
<1>1. Way' = Way
  BY DEF LSTypeOK, LSCalls, Way
<1>2. LSTypeOK' /\ LSCalls' /\ WayCounted'
  BY <1>1 DEF LSTypeOK, LSCalls, WayCounted
<1>3. NoSleeperMissed'
  BY DEF LSTypeOK, LSCalls, NoSleeperMissed, Asleep
<1> QED
  BY <1>2, <1>3

\* A waiter gives up at its timeout.
LEMMA LS_Unlink_GiveUp ==
  ASSUME LSIInv, NEW t \in Waiters, Unlink_GiveUp(t) PROVE LSIInv'
<1> USE UsersDisjoint, KindsType, MaxCountType, ObjectsType DEF LSIInv, Callers, GoesTo, wqVars,
    ownVars, Unlink_GiveUp, GiveUp
<1>1. Way' = Way
  BY DEF LSTypeOK, LSCalls, Way
<1>2. LSTypeOK' /\ LSCalls' /\ WayCounted'
  BY <1>1 DEF LSTypeOK, LSCalls, WayCounted
<1>3. NoSleeperMissed'
  BY DEF LSTypeOK, LSCalls, NoSleeperMissed, Asleep
<1> QED
  BY <1>2, <1>3

\* It leaves the queue.
LEMMA LS_Unlink ==
  ASSUME LSIInv, NEW t \in Waiters, Unlink(t) PROVE LSIInv'
<1> USE UsersDisjoint, KindsType, MaxCountType, ObjectsType DEF LSIInv, Callers, GoesTo, wqVars,
    ownVars, Unlink, Leave, LSReturn
<1>1. Way' = Way
  BY DEF LSTypeOK, LSCalls, Way
<1>2. LSTypeOK' /\ LSCalls' /\ WayCounted'
  BY <1>1 DEF LSTypeOK, LSCalls, WayCounted
<1>3. NoSleeperMissed'
  BY DEF LSTypeOK, LSCalls, NoSleeperMissed, Asleep
<1> QED
  BY <1>2, <1>3

\* notify_all() wakes everyone.
LEMMA LS_Notify_All ==
  ASSUME LSIInv, NEW t \in Updaters, Notify_All(t) PROVE LSIInv'
<1> USE UsersDisjoint, KindsType, MaxCountType, ObjectsType DEF LSIInv, Callers, GoesTo, wqVars,
    ownVars, Notify_All, NotifyAll, Waiting
<1>1. Way' = Way
  BY DEF LSTypeOK, LSCalls, Way
<1>2. LSTypeOK' /\ LSCalls' /\ WayCounted'
  BY <1>1 DEF LSTypeOK, LSCalls, WayCounted
<1>3. NoSleeperMissed'
  BY DEF LSTypeOK, LSCalls, NoSleeperMissed, Asleep
<1> QED
  BY <1>2, <1>3

\* notify_one() wakes one; who still sleeps is owed nothing.
LEMMA LS_Notify_One ==
  ASSUME LSIInv, NEW t \in Updaters, Notify_One(t) PROVE LSIInv'
<1> USE UsersDisjoint, KindsType, MaxCountType, ObjectsType DEF LSIInv, Callers, GoesTo, wqVars,
    ownVars, Notify_One, NotifyOne, Waiting
<1>1. Way' = Way
  BY DEF LSTypeOK, LSCalls, Way
<1>2. LSTypeOK' /\ LSCalls' /\ WayCounted'
  BY <1>1 DEF LSTypeOK, LSCalls, WayCounted
<1>3. NoSleeperMissed'
  BY DEF LSTypeOK, LSCalls, NoSleeperMissed, Asleep
<1> QED
  BY <1>2, <1>3

\* Each step of latch and synchronic.
LEMMA LS_Next == LSIInv /\ [LSNext]_lsVars => LSIInv'
<1> SUFFICES ASSUME LSIInv, [LSNext]_lsVars PROVE LSIInv'
  OBVIOUS
<1>1. CASE UNCHANGED lsVars
  BY <1>1 DEF LSIInv, LSTypeOK, LSCalls, WayCounted, Way, NoSleeperMissed, Asleep, lsVars,
     wqVars, ownVars
<1>2. ASSUME NEW t \in Waiters,
             \/ Latch_Wait(t) \/ Latch_CountDownAndWait(t)
             \/ \E v \in ObjectValues : Synchronic_Expect(t, v) \/ Synchronic_ExpectUpdate(t, v)
             \/ WaiterGoes(t)
      PROVE  LSIInv'
  BY <1>2, LS_Latch_Wait, LS_Latch_CountDownAndWait, LS_Synchronic_Expect,
     LS_Synchronic_ExpectUpdate,
     LS_Construct_Begin, LS_Construct_Enter, LS_Look, LS_Woken, LS_Unlink_GiveUp, LS_Unlink
     DEF WaiterGoes
<1>3. ASSUME NEW t \in Updaters,
             \/ \E n \in 0 .. MaxCount : Latch_CountDown(t, n)
             \/ \E v \in ObjectValues :
                    Synchronic_Store(t, v, "notify_all") \/ Synchronic_Store(t, v, "notify_one")
             \/ Notify_All(t) \/ Notify_One(t)
      PROVE  LSIInv'
  BY <1>3, LS_Latch_CountDown, LS_Synchronic_Store, LS_Notify_All, LS_Notify_One
<1>4. ASSUME NEW t \in Callers, Latch_Destroy(t) PROVE LSIInv'
  BY <1>4, LS_Latch_Destroy
<1> QED
  BY <1>1, <1>2, <1>3, <1>4 DEF LSNext

\* LSIInv is invariant.
LEMMA LS_Invariance == LSSpec => []LSIInv
  BY LS_Init, LS_Next, PTL DEF LSSpec

\* latch and synchronic: nobody sleeps whom the object has already what it waits for,
\* unless a notification is on its way, for any number of threads and values.
THEOREM SleepersTold == LSSpec => []NoSleeperMissed
<1>1. LSIInv => NoSleeperMissed
  BY DEF LSIInv
<1> QED
  BY <1>1, LS_Invariance, PTL

\* latch and synchronic: the type of their state; in particular the counter of a latch
\* never falls below zero.
THEOREM LatchTypes == LSSpec => []LSTypeOK
<1>1. LSIInv => LSTypeOK
  BY DEF LSIInv
<1> QED
  BY <1>1, LS_Invariance, PTL
-----------------------------------------------------------------------------
(* lock_guard, unique_lock, std::lock and std::try_lock. *)

\* m_mutex and m_locked.
GuardStates == [m_mutex : Mutexes \cup {Nobody}, m_locked : BOOLEAN]

\* The unique_lock g of t will unlock m; so will the one in std::lock or std::try_lock.
Unlocks(t, g, m) == guard[t][g].m_locked /\ guard[t][g].m_mutex = m
\* The unique_lock of m belongs to an inner frame, which is about to unlock it.
InnerUnlocks(t, m) == at[t] \in {"second", "back off", "try second", "give up"} /\ pair[t][1] = m

\* Somebody unlocks m for t exactly if t holds it, and only one does.
UnlockedOnce ==
  /\ \A t \in Lockers, m \in Mutexes, g, h \in Guards : Unlocks(t, g, m) /\ Unlocks(t, h, m) =>
         g = h
  /\ \A t \in Lockers, m \in Mutexes, g \in Guards :
       Unlocks(t, g, m) => owned[m] = t /\ m \notin loose[t] /\ ~InnerUnlocks(t, m)
  /\ \A t \in Lockers, m \in Mutexes : ~(m \in loose[t] /\ InnerUnlocks(t, m))
  /\ \A t \in Lockers, m \in Mutexes : m \in loose[t] \/ InnerUnlocks(t, m) => owned[m] = t
  /\ \A t \in Lockers, m \in Mutexes :
       owned[m] = t /\ m \notin loose[t] /\ ~InnerUnlocks(t, m) =>
           \E g \in Guards : Unlocks(t, g, m)

\* A unique_lock that has locked knows what.
LockedTied == \A t \in Lockers, g \in Guards : guard[t][g].m_locked =>
    guard[t][g].m_mutex \in Mutexes

\* In std::lock a thread holds no more than the first of its mutexes.
LockingOne ==
  /\ \A t \in Lockers : at[t] # "idle" => pair[t][1] \in Mutexes /\ pair[t][2] \in Mutexes
  /\ \A t \in Lockers, m \in Mutexes : at[t] = "first" => owned[m] # t
  /\ \A t \in Lockers, m \in Mutexes :
       at[t] \in {"second", "back off"} /\ owned[m] = t => m = pair[t][1]

\* The inductive invariant of the lock guards.
LGIInv == LGTypeOK /\ UnlockedOnce /\ LockedTied /\ LockingOne

\* The type of a unique_lock.
LEMMA LG_GuardType ==
  ASSUME LGTypeOK PROVE /\ guard \in [Lockers -> [Guards -> GuardStates]]
                        /\ \A t \in Lockers, g \in Guards : guard[t][g] \in GuardStates
  BY DEF LGTypeOK, GuardStates

\* What a step does to one unique_lock, or to two.
SetOne(t, g, v) == [guard EXCEPT ![t][g] = v]
\* Two unique_locks of a thread change together.
SetTwo(t, g, v, h, w) == [guard EXCEPT ![t][g] = v, ![t][h] = w]

\* One unique_lock changes.
LEMMA LG_SetOne ==
  ASSUME LGTypeOK, NEW t \in Lockers, NEW g \in Guards, NEW v \in GuardStates,
         guard' = SetOne(t, g, v)
  PROVE  /\ guard' \in [Lockers -> [Guards -> GuardStates]]
         /\ \A u \in Lockers, k \in Guards :
                guard'[u][k] = IF u = t /\ k = g THEN v ELSE guard[u][k]
<1> DEFINE G == [Guards -> GuardStates]
<1>1. guard \in [Lockers -> G]
  BY LG_GuardType
<1>2. guard[t] \in G
  BY <1>1
<1>3. [guard[t] EXCEPT ![g] = v] \in G
  BY <1>2
<1>4. guard' = [guard EXCEPT ![t] = [guard[t] EXCEPT ![g] = v]]
  BY DEF SetOne
<1>5. guard' \in [Lockers -> G]
  <2> HIDE DEF G
  <2> QED
    BY <1>1, <1>3, <1>4
<1>6. \A u \in Lockers : guard'[u] = IF u = t THEN [guard[t] EXCEPT ![g] = v] ELSE guard[u]
  BY <1>1, <1>4
<1>7. \A u \in Lockers, k \in Guards : guard'[u][k] = IF u = t /\ k = g THEN v ELSE guard[u][k]
  BY <1>2, <1>6
<1> QED
  BY <1>5, <1>7

\* Two unique_locks of a thread change, or one twice.
LEMMA LG_SetTwo ==
  ASSUME LGTypeOK, NEW t \in Lockers, NEW g \in Guards, NEW h \in Guards, NEW v \in GuardStates,
         NEW w \in GuardStates, guard' = SetTwo(t, g, v, h, w)
  PROVE  /\ guard' \in [Lockers -> [Guards -> GuardStates]]
         /\ \A u \in Lockers, k \in Guards :
              guard'[u][k] = IF u = t /\ k = h THEN w ELSE IF u = t /\ k = g THEN v ELSE guard[u][k]
<1> DEFINE G == [Guards -> GuardStates]
<1>1. guard \in [Lockers -> G]
  BY LG_GuardType
<1>2. guard[t] \in G
  BY <1>1
<1>3. [[guard[t] EXCEPT ![g] = v] EXCEPT ![h] = w] \in G
  BY <1>2
<1>4. guard' = [guard EXCEPT ![t] = [[guard[t] EXCEPT ![g] = v] EXCEPT ![h] = w]]
  <2> HIDE DEF G
  <2> QED
    BY <1>1 DEF SetTwo
<1>5. guard' \in [Lockers -> G]
  <2> HIDE DEF G
  <2> QED
    BY <1>1, <1>3, <1>4
<1>6. \A u \in Lockers :
        guard'[u] = IF u = t THEN [[guard[t] EXCEPT ![g] = v] EXCEPT ![h] = w] ELSE guard[u]
  BY <1>1, <1>4
<1>7. \A k \in Guards : [[guard[t] EXCEPT ![g] = v] EXCEPT ![h] = w][k]
                          = IF k = h THEN w ELSE IF k = g THEN v ELSE guard[t][k]
  BY <1>2
<1>8. ASSUME NEW u \in Lockers, NEW k \in Guards
      PROVE  guard'[u][k] = IF u = t /\ k = h THEN w ELSE IF u = t /\ k = g THEN v ELSE guard[u][k]
  <2>1. CASE u = t
    BY <2>1, <1>6, <1>7
  <2>2. CASE u # t
    BY <2>2, <1>6
  <2> QED
    BY <2>1, <2>2
<1> QED
  BY <1>5, <1>8

\* lock() and unlock() change the flag only.
LEMMA LG_SetLocked ==
  ASSUME LGTypeOK, NEW t \in Lockers, NEW g \in Guards, NEW b \in BOOLEAN,
         guard' = [guard EXCEPT ![t][g].m_locked = b]
  PROVE  guard' = SetOne(t, g, Tied(guard[t][g].m_mutex, b))
<1>1. \A r \in GuardStates : [r EXCEPT !.m_locked = b] = Tied(r.m_mutex, b)
  BY DEF GuardStates, Tied
<1>2. guard[t][g] \in GuardStates
  BY LG_GuardType
<1>3. [guard[t][g] EXCEPT !.m_locked = b] = Tied(guard[t][g].m_mutex, b)
  BY <1>1, <1>2
<1>4. guard' = [guard EXCEPT ![t] = [guard[t] EXCEPT ![g] = [guard[t][g] EXCEPT !.m_locked = b]]]
  OBVIOUS
<1> QED
  BY <1>3, <1>4 DEF SetOne

\* What a thread does outside of std::lock disturbs nobody in it.
LEMMA LG_Client ==
  ASSUME LockingOne, NEW t \in Lockers, Client(t),
         \A m \in Mutexes : owned'[m] \in {owned[m], t, Nobody}
  PROVE  LockingOne' /\ \A u \in Lockers, m \in Mutexes : InnerUnlocks(u, m)' <=> InnerUnlocks(u, m)
  BY NobodyIsNew DEF LockingOne, Client, InnerUnlocks

\* All unique_locks are default constructed.
LEMMA LG_Init == LGInit => LGIInv
<1> SUFFICES ASSUME LGInit PROVE LGIInv
  OBVIOUS
<1> USE NobodyIsNew DEF LGInit, Default
<1>1. Default \in GuardStates
  BY DEF GuardStates
<1>2. LGTypeOK
  BY <1>1 DEF LGTypeOK, GuardStates
<1>3. \A t \in Lockers, g \in Guards : ~guard[t][g].m_locked
  OBVIOUS
<1>4. UnlockedOnce /\ LockedTied
  BY <1>3 DEF UnlockedOnce, LockedTied, Unlocks, InnerUnlocks
<1>5. LockingOne
  BY DEF LockingOne
<1> QED
  BY <1>2, <1>4, <1>5 DEF LGIInv

\* unique_lock(m), and one of the attempts that succeed.
LEMMA LG_Construct_Lock ==
  ASSUME LGIInv, NEW t \in Lockers, NEW g \in Guards, NEW m \in Mutexes, Construct_Lock(t, g, m)
  PROVE  LGIInv'
<1> USE NobodyIsNew DEF NobodyIsNew, LGIInv
<1> DEFINE v == Tied(m, TRUE)
<1>1. v \in GuardStates
  BY LG_GuardType DEF GuardStates, Default, Tied
<1>2. guard' = SetOne(t, g, v)
  BY DEF Construct_Lock, SetGuard, SetOne
<1>3. /\ guard' \in [Lockers -> [Guards -> GuardStates]]
      /\ \A u \in Lockers, k \in Guards : guard'[u][k] = IF u = t /\ k = g THEN v ELSE guard[u][k]
  <2> HIDE DEF v
  <2> QED
    BY <1>2, <1>1, LG_SetOne
<1>4. owned[m] = Nobody /\ \A x \in Mutexes : ~Unlocks(t, g, x)
  BY LG_GuardType DEF Construct_Lock, Take, LockedTied, Unlocks, Default, GuardStates
<1>5. \A u \in Lockers, k \in Guards, x \in Mutexes : Unlocks(u, k, x)' <=>
          Unlocks(u, k, x) \/ (u = t /\ k = g /\ x = m)
  BY <1>3, <1>4 DEF Unlocks, Default, Tied
<1>6. \A x \in Mutexes : owned'[x] = IF x = m THEN t ELSE owned[x]
  BY DEF Construct_Lock, Take, LGTypeOK
<1>7. loose' = loose
  BY DEF Construct_Lock, LGTypeOK
<1>8. LockingOne' /\ \A u \in Lockers, x \in Mutexes : InnerUnlocks(u, x)' <=> InnerUnlocks(u, x)
  BY <1>6, <1>4, LG_Client DEF Construct_Lock
<1>9. LGTypeOK'
  BY <1>3, <1>4 DEF LGTypeOK, GuardStates, Construct_Lock, Take, Client
<1>10. LockedTied'
  BY <1>3, <1>4 DEF LockedTied, Default, Tied, Construct_Lock
<1>11. UnlockedOnce'
  BY <1>5, <1>6, <1>7, <1>4, <1>8 DEF UnlockedOnce
<1> QED
  BY <1>8, <1>9, <1>10, <1>11

\* unique_lock(m, defer_lock), and an attempt that fails.
LEMMA LG_Construct_Defer ==
  ASSUME LGIInv, NEW t \in Lockers, NEW g \in Guards, NEW m \in Mutexes, Construct_Defer(t, g, m)
  PROVE  LGIInv'
<1> USE NobodyIsNew DEF NobodyIsNew, LGIInv
<1> DEFINE v == Tied(m, FALSE)
<1>1. v \in GuardStates
  BY LG_GuardType DEF GuardStates, Default, Tied
<1>2. guard' = SetOne(t, g, v)
  BY DEF Construct_Defer, SetGuard, SetOne
<1>3. /\ guard' \in [Lockers -> [Guards -> GuardStates]]
      /\ \A u \in Lockers, k \in Guards : guard'[u][k] = IF u = t /\ k = g THEN v ELSE guard[u][k]
  <2> HIDE DEF v
  <2> QED
    BY <1>2, <1>1, LG_SetOne
<1>4. \A x \in Mutexes : ~Unlocks(t, g, x)
  BY LG_GuardType DEF Construct_Defer, LockedTied, Unlocks, Default, GuardStates
<1>5. \A u \in Lockers, k \in Guards, x \in Mutexes : Unlocks(u, k, x)' <=> Unlocks(u, k, x)
  BY <1>3, <1>4 DEF Unlocks, Default, Tied
<1>6. owned' = owned
  BY DEF Construct_Defer, LGTypeOK
<1>7. loose' = loose
  BY DEF Construct_Defer, LGTypeOK
<1>8. LockingOne' /\ \A u \in Lockers, x \in Mutexes : InnerUnlocks(u, x)' <=> InnerUnlocks(u, x)
  BY <1>6, <1>4, LG_Client DEF Construct_Defer
<1>9. LGTypeOK'
  BY <1>3, <1>4 DEF LGTypeOK, GuardStates, Construct_Defer, Client
<1>10. LockedTied'
  BY <1>3, <1>4 DEF LockedTied, Default, Tied, Construct_Defer
<1>11. UnlockedOnce'
  BY <1>5, <1>6, <1>7, <1>4, <1>8 DEF UnlockedOnce
<1> QED
  BY <1>8, <1>9, <1>10, <1>11

\* unique_lock(m, adopt_lock): the client hands over what it has to unlock.
LEMMA LG_Construct_Adopt ==
  ASSUME LGIInv, NEW t \in Lockers, NEW g \in Guards, NEW m \in Mutexes, Construct_Adopt(t, g, m)
  PROVE  LGIInv'
<1> USE NobodyIsNew DEF NobodyIsNew, LGIInv
<1> DEFINE v == Tied(m, TRUE)
<1>1. v \in GuardStates
  BY LG_GuardType DEF GuardStates, Default, Tied
<1>2. guard' = SetOne(t, g, v)
  BY DEF Construct_Adopt, SetGuard, SetOne
<1>3. /\ guard' \in [Lockers -> [Guards -> GuardStates]]
      /\ \A u \in Lockers, k \in Guards : guard'[u][k] = IF u = t /\ k = g THEN v ELSE guard[u][k]
  <2> HIDE DEF v
  <2> QED
    BY <1>2, <1>1, LG_SetOne
<1>4. m \in loose[t] /\ \A x \in Mutexes : ~Unlocks(t, g, x)
  BY LG_GuardType DEF Construct_Adopt, LockedTied, Unlocks, Default, GuardStates
<1>5. \A u \in Lockers, k \in Guards, x \in Mutexes : Unlocks(u, k, x)' <=>
          Unlocks(u, k, x) \/ (u = t /\ k = g /\ x = m)
  BY <1>3, <1>4 DEF Unlocks, Default, Tied
<1>6. owned' = owned
  BY DEF Construct_Adopt, LGTypeOK
<1>7. \A u \in Lockers, x \in Mutexes : x \in loose'[u] <=> x \in loose[u] /\ ~(u = t /\ x = m)
  BY DEF Construct_Adopt, LGTypeOK
<1>8. LockingOne' /\ \A u \in Lockers, x \in Mutexes : InnerUnlocks(u, x)' <=> InnerUnlocks(u, x)
  BY <1>6, <1>4, LG_Client DEF Construct_Adopt
<1>9. LGTypeOK'
  BY <1>3, <1>4 DEF LGTypeOK, GuardStates, Construct_Adopt, Client
<1>10. LockedTied'
  BY <1>3, <1>4 DEF LockedTied, Default, Tied, Construct_Adopt
<1>11. UnlockedOnce'
  BY <1>5, <1>6, <1>7, <1>4, <1>8 DEF UnlockedOnce
<1> QED
  BY <1>8, <1>9, <1>10, <1>11

\* ~unique_lock() unlocks if it has locked.
LEMMA LG_Destruct ==
  ASSUME LGIInv, NEW t \in Lockers, NEW g \in Guards, Destruct(t, g) PROVE LGIInv'
<1> USE NobodyIsNew DEF NobodyIsNew, LGIInv
<1>1. Default \in GuardStates
  BY LG_GuardType DEF GuardStates, Default, Tied
<1>2. guard' = SetOne(t, g, Default)
  BY DEF Destruct, SetGuard, SetOne
<1>3. /\ guard' \in [Lockers -> [Guards -> GuardStates]]
      /\ \A u \in Lockers, k \in Guards :
             guard'[u][k] = IF u = t /\ k = g THEN Default ELSE guard[u][k]
  BY <1>2, <1>1, LG_SetOne DEF Tied
<1>4. \A u \in Lockers, k \in Guards, x \in Mutexes : Unlocks(u, k, x)' <=>
          Unlocks(u, k, x) /\ ~(u = t /\ k = g)
  BY <1>3 DEF Unlocks, Default, Tied
<1>5. \A x \in Mutexes : owned'[x] = IF Unlocks(t, g, x) THEN Nobody ELSE owned[x]
  BY ZenonT(60) DEF Destruct, DropIf, Drop, Unlocks, LGTypeOK
<1>6. loose' = loose
  BY DEF Destruct, LGTypeOK
<1>7. LockingOne' /\ \A u \in Lockers, x \in Mutexes : InnerUnlocks(u, x)' <=> InnerUnlocks(u, x)
  BY <1>5, LG_Client DEF Destruct
<1>8. LGTypeOK'
  BY <1>3 DEF LGTypeOK, GuardStates, Destruct, DropIf, Drop, Unlocks, Client
<1>9. LockedTied'
  BY <1>3 DEF LockedTied, Default, Tied, Destruct
<1>10. UnlockedOnce'
  BY <1>4, <1>5, <1>6, <1>7 DEF UnlockedOnce
<1> QED
  BY <1>7, <1>8, <1>9, <1>10

\* The move constructor leaves one of the two responsible.
LEMMA LG_Move_Construct ==
  ASSUME LGIInv, NEW t \in Lockers, NEW g \in Guards, NEW h \in Guards, Move_Construct(t, h, g)
  PROVE  LGIInv'
<1> USE NobodyIsNew DEF NobodyIsNew, LGIInv
<1>1. guard[t][g] \in GuardStates /\ Default \in GuardStates
  BY NobodyIsNew, LG_GuardType DEF GuardStates, Default
<1>2. guard' = SetTwo(t, h, guard[t][g], g, Default)
  BY DEF Move_Construct, SetTwo
<1>3. /\ guard' \in [Lockers -> [Guards -> GuardStates]]
      /\ \A u \in Lockers, k \in Guards :
           guard'[u][k] = IF u = t /\ k = g THEN Default
               ELSE IF u = t /\ k = h THEN guard[t][g] ELSE guard[u][k]
  BY <1>2, <1>1, LG_SetTwo
<1>4. \A x \in Mutexes : ~Unlocks(t, h, x)
  BY LG_GuardType DEF Move_Construct, LockedTied, Unlocks, Default, GuardStates
<1>5. \A u \in Lockers, k \in Guards, x \in Mutexes : Unlocks(u, k, x)' <=> 
        IF u = t /\ k = g THEN FALSE ELSE IF u = t /\ k = h THEN Unlocks(t, g, x)
            ELSE Unlocks(u, k, x)
  BY <1>3, <1>4 DEF Unlocks, Default, Tied
<1>6. owned' = owned
  BY DEF Move_Construct, LGTypeOK
<1>7. loose' = loose
  BY DEF Move_Construct, LGTypeOK
<1>8. LockingOne' /\ \A u \in Lockers, x \in Mutexes : InnerUnlocks(u, x)' <=> InnerUnlocks(u, x)
  BY <1>6, <1>4, LG_Client DEF Move_Construct
<1>9. LGTypeOK'
  BY <1>3, <1>4 DEF LGTypeOK, GuardStates, Move_Construct, Client
<1>10. LockedTied'
  BY <1>3, <1>4 DEF LockedTied, Default, Tied, Move_Construct
<1>11. UnlockedOnce'
  BY <1>5, <1>6, <1>7, <1>4, <1>8 DEF UnlockedOnce
<1> QED
  BY <1>8, <1>9, <1>10, <1>11

\* The move assignment unlocks what the target has locked, and g itself may be h.
LEMMA LG_Move_Assign ==
  ASSUME LGIInv, NEW t \in Lockers, NEW g \in Guards, NEW h \in Guards, Move_Assign(t, g, h)
  PROVE  LGIInv'
<1> USE NobodyIsNew DEF NobodyIsNew, LGIInv
<1>1. guard[t][h] \in GuardStates /\ Default \in GuardStates
  BY NobodyIsNew, LG_GuardType DEF GuardStates, Default
<1>2. guard' = SetTwo(t, g, guard[t][h], h, Default)
  BY DEF Move_Assign, SetTwo
<1>3. /\ guard' \in [Lockers -> [Guards -> GuardStates]]
      /\ \A u \in Lockers, k \in Guards :
           guard'[u][k] = IF u = t /\ k = h THEN Default
               ELSE IF u = t /\ k = g THEN guard[t][h] ELSE guard[u][k]
  BY <1>2, <1>1, LG_SetTwo
<1>4. \A u \in Lockers, k \in Guards, x \in Mutexes : Unlocks(u, k, x)' <=> 
        IF u = t /\ k = h THEN FALSE ELSE IF u = t /\ k = g THEN Unlocks(t, h, x)
            ELSE Unlocks(u, k, x)
  BY <1>3 DEF Unlocks, Default, Tied
<1>5. \A x \in Mutexes : owned'[x] = IF Unlocks(t, g, x) THEN Nobody ELSE owned[x]
  BY ZenonT(60) DEF Move_Assign, DropIf, Drop, Unlocks, LGTypeOK
<1>6. loose' = loose
  BY DEF Move_Assign, LGTypeOK
<1>7. LockingOne' /\ \A u \in Lockers, x \in Mutexes : InnerUnlocks(u, x)' <=> InnerUnlocks(u, x)
  BY <1>5, LG_Client DEF Move_Assign
<1>8. LGTypeOK'
  <2>1. owned' \in [Mutexes -> Lockers \cup {Nobody}]
    BY DEF LGTypeOK, Move_Assign, DropIf, Drop
  <2> QED
    BY <1>3, <2>1 DEF LGTypeOK, GuardStates, Move_Assign, Client
<1>9. LockedTied'
  BY <1>3 DEF LockedTied, Default, Tied, Move_Assign
<1>10. UnlockedOnce'
  BY <1>4, <1>5, <1>6, <1>7 DEF UnlockedOnce
<1> QED
  BY <1>7, <1>8, <1>9, <1>10

\* swap() exchanges the responsibilities, and g itself may be h.
LEMMA LG_Swap ==
  ASSUME LGIInv, NEW t \in Lockers, NEW g \in Guards, NEW h \in Guards, Swap(t, g, h) PROVE LGIInv'
<1> USE NobodyIsNew DEF NobodyIsNew, LGIInv
<1>1. guard[t][h] \in GuardStates /\ guard[t][g] \in GuardStates
  BY NobodyIsNew, LG_GuardType DEF GuardStates, Default
<1>2. guard' = SetTwo(t, g, guard[t][h], h, guard[t][g])
  BY DEF Swap, SetTwo
<1>3. /\ guard' \in [Lockers -> [Guards -> GuardStates]]
      /\ \A u \in Lockers, k \in Guards :
           guard'[u][k] = IF u = t /\ k = h THEN guard[t][g]
               ELSE IF u = t /\ k = g THEN guard[t][h] ELSE guard[u][k]
  BY <1>2, <1>1, LG_SetTwo
<1>4. \A u \in Lockers, k \in Guards, x \in Mutexes : Unlocks(u, k, x)' <=> 
        IF u = t /\ k = h THEN Unlocks(t, g, x) ELSE IF u = t /\ k = g THEN Unlocks(t, h, x)
            ELSE Unlocks(u, k, x)
  BY <1>3 DEF Unlocks, Default, Tied
<1>5. owned' = owned
  BY DEF Swap, LGTypeOK
<1>6. loose' = loose
  BY DEF Swap, LGTypeOK
<1>7. LockingOne' /\ \A u \in Lockers, x \in Mutexes : InnerUnlocks(u, x)' <=> InnerUnlocks(u, x)
  BY <1>5, LG_Client DEF Swap
<1>8. LGTypeOK'
  BY <1>3 DEF LGTypeOK, GuardStates, Swap, Client
<1>9. LockedTied'
  BY <1>3 DEF LockedTied, Default, Tied, Swap
<1>10. UnlockedOnce'
  BY <1>4, <1>5, <1>6, <1>7 DEF UnlockedOnce
<1> QED
  BY <1>7, <1>8, <1>9, <1>10

\* lock(), try_lock() of a unique_lock.
LEMMA LG_Guard_Lock ==
  ASSUME LGIInv, NEW t \in Lockers, NEW g \in Guards, Guard_Lock(t, g) PROVE LGIInv'
<1> USE NobodyIsNew DEF NobodyIsNew, LGIInv
<1> DEFINE v == Tied(guard[t][g].m_mutex, TRUE)
<1>1. v \in GuardStates
  BY LG_GuardType DEF GuardStates, Default, Tied
<1>2. guard' = SetOne(t, g, v)
  BY LG_SetLocked DEF Guard_Lock
<1>3. /\ guard' \in [Lockers -> [Guards -> GuardStates]]
      /\ \A u \in Lockers, k \in Guards : guard'[u][k] = IF u = t /\ k = g THEN v ELSE guard[u][k]
  <2> HIDE DEF v
  <2> QED
    BY <1>2, <1>1, LG_SetOne
<1>4. owned[guard[t][g].m_mutex] = Nobody /\ guard[t][g].m_mutex \in Mutexes
          /\ \A x \in Mutexes : ~Unlocks(t, g, x)
  BY LG_GuardType DEF Guard_Lock, Take, LockedTied, Unlocks, Default, GuardStates
<1>5. \A u \in Lockers, k \in Guards, x \in Mutexes : Unlocks(u, k, x)' <=>
          Unlocks(u, k, x) \/ (u = t /\ k = g /\ x = guard[t][g].m_mutex)
  BY <1>3, <1>4 DEF Unlocks, Default, Tied
<1>6. \A x \in Mutexes : owned'[x] = IF x = guard[t][g].m_mutex THEN t ELSE owned[x]
  BY DEF Guard_Lock, Take, LGTypeOK
<1>7. loose' = loose
  BY DEF Guard_Lock, LGTypeOK
<1>8. LockingOne' /\ \A u \in Lockers, x \in Mutexes : InnerUnlocks(u, x)' <=> InnerUnlocks(u, x)
  BY <1>6, <1>4, LG_Client DEF Guard_Lock
<1>9. LGTypeOK'
  BY <1>3, <1>4 DEF LGTypeOK, GuardStates, Guard_Lock, Take, Client
<1>10. LockedTied'
  BY <1>3, <1>4 DEF LockedTied, Default, Tied, Guard_Lock
<1>11. UnlockedOnce'
  BY <1>5, <1>6, <1>7, <1>4, <1>8 DEF UnlockedOnce
<1> QED
  BY <1>8, <1>9, <1>10, <1>11

\* unlock() of a unique_lock.
LEMMA LG_Guard_Unlock ==
  ASSUME LGIInv, NEW t \in Lockers, NEW g \in Guards, Guard_Unlock(t, g) PROVE LGIInv'
<1> USE NobodyIsNew DEF NobodyIsNew, LGIInv
<1> DEFINE v == Tied(guard[t][g].m_mutex, FALSE)
<1>1. v \in GuardStates
  BY LG_GuardType DEF GuardStates, Default, Tied
<1>2. guard' = SetOne(t, g, v)
  BY LG_SetLocked DEF Guard_Unlock
<1>3. /\ guard' \in [Lockers -> [Guards -> GuardStates]]
      /\ \A u \in Lockers, k \in Guards : guard'[u][k] = IF u = t /\ k = g THEN v ELSE guard[u][k]
  <2> HIDE DEF v
  <2> QED
    BY <1>2, <1>1, LG_SetOne
<1>4. \A u \in Lockers, k \in Guards, x \in Mutexes : Unlocks(u, k, x)' <=>
          Unlocks(u, k, x) /\ ~(u = t /\ k = g)
  BY <1>3 DEF Unlocks, Default, Tied
<1>5. \A x \in Mutexes : owned'[x] = IF Unlocks(t, g, x) THEN Nobody ELSE owned[x]
  BY DEF Guard_Unlock, Drop, Unlocks, LGTypeOK
<1>6. loose' = loose
  BY DEF Guard_Unlock, LGTypeOK
<1>7. LockingOne' /\ \A u \in Lockers, x \in Mutexes : InnerUnlocks(u, x)' <=> InnerUnlocks(u, x)
  BY <1>5, LG_Client DEF Guard_Unlock
<1>8. LGTypeOK'
  BY <1>3 DEF LGTypeOK, GuardStates, Guard_Unlock, Drop, Unlocks, Client
<1>9. LockedTied'
  BY <1>3 DEF LockedTied, Default, Tied, Guard_Unlock
<1>10. UnlockedOnce'
  BY <1>4, <1>5, <1>6, <1>7 DEF UnlockedOnce
<1> QED
  BY <1>7, <1>8, <1>9, <1>10

\* release() makes the client responsible.
LEMMA LG_Release ==
  ASSUME LGIInv, NEW t \in Lockers, NEW g \in Guards, Release(t, g) PROVE LGIInv'
<1> USE NobodyIsNew DEF NobodyIsNew, LGIInv
<1>1. Default \in GuardStates
  BY LG_GuardType DEF GuardStates, Default, Tied
<1>2. guard' = SetOne(t, g, Default)
  BY DEF Release, SetGuard, SetOne
<1>3. /\ guard' \in [Lockers -> [Guards -> GuardStates]]
      /\ \A u \in Lockers, k \in Guards :
             guard'[u][k] = IF u = t /\ k = g THEN Default ELSE guard[u][k]
  BY <1>2, <1>1, LG_SetOne DEF Tied
<1>4. guard[t][g].m_locked => guard[t][g].m_mutex \in Mutexes
  BY LG_GuardType DEF Release, LockedTied, Unlocks, Default, GuardStates
<1>5. \A u \in Lockers, k \in Guards, x \in Mutexes : Unlocks(u, k, x)' <=>
          Unlocks(u, k, x) /\ ~(u = t /\ k = g)
  BY <1>3, <1>4 DEF Unlocks, Default, Tied
<1>6. owned' = owned
  BY DEF Release, LGTypeOK
<1>7. \A u \in Lockers, x \in Mutexes : x \in loose'[u] <=>
          x \in loose[u] \/ (u = t /\ Unlocks(t, g, x))
  <2>1. CASE guard[t][g].m_locked
    BY <2>1, <1>4 DEF Release, LGTypeOK, Unlocks
  <2>2. CASE ~guard[t][g].m_locked
    BY <2>2 DEF Release, LGTypeOK, Unlocks
  <2> QED
    BY <2>1, <2>2
<1>8. LockingOne' /\ \A u \in Lockers, x \in Mutexes : InnerUnlocks(u, x)' <=> InnerUnlocks(u, x)
  BY <1>6, <1>4, LG_Client DEF Release
<1>9. LGTypeOK'
  BY <1>3, <1>4 DEF LGTypeOK, GuardStates, Release, Client
<1>10. LockedTied'
  BY <1>3, <1>4 DEF LockedTied, Default, Tied, Release
<1>11. UnlockedOnce'
  BY <1>5, <1>6, <1>7, <1>4, <1>8 DEF UnlockedOnce
<1> QED
  BY <1>8, <1>9, <1>10, <1>11

\* The client unlocks such a mutex.
LEMMA LG_Client_Unlock ==
  ASSUME LGIInv, NEW t \in Lockers, NEW m \in Mutexes, Client_Unlock(t, m) PROVE LGIInv'
<1> USE NobodyIsNew DEF NobodyIsNew, LGIInv
<1>1. LockedTied' /\ \A u \in Lockers, k \in Guards, x \in Mutexes : Unlocks(u, k, x)' <=>
          Unlocks(u, k, x)
  BY DEF LockedTied, Unlocks, Client_Unlock
<1>2. m \in loose[t]
  BY DEF LockingOne, InnerUnlocks, Client_Unlock, Drop, Client
<1>3. \A x \in Mutexes : owned'[x] = IF x = m THEN Nobody ELSE owned[x]
  BY <1>2 DEF Client_Unlock, Drop, Client, LGTypeOK
<1>4. \A u \in Lockers, x \in Mutexes : x \in loose'[u] <=> x \in loose[u] /\ ~(u = t /\ x = m)
  BY <1>2 DEF Client_Unlock, LGTypeOK
<1>5. \A u \in Lockers : at'[u] = at[u]
  BY <1>2 DEF Client_Unlock, Drop, Client, LGTypeOK
<1>6. \A u \in Lockers : pair'[u] = pair[u]
  BY <1>2 DEF Client_Unlock, Drop, Client, LGTypeOK
<1>7. \A u \in Lockers, x \in Mutexes : InnerUnlocks(u, x)' <=> InnerUnlocks(u, x)
  BY <1>2, <1>5, <1>6 DEF InnerUnlocks
<1>8. LGTypeOK'
  BY <1>2 DEF LGTypeOK, Client_Unlock, Drop, Client
<1>9. UnlockedOnce'
  BY <1>2, <1>1, <1>3, <1>4, <1>7 DEF UnlockedOnce
<1>10. LockingOne'
  <2>1. ASSUME NEW u \in Lockers, at'[u] # "idle"
        PROVE  pair'[u][1] \in Mutexes /\ pair'[u][2] \in Mutexes
    BY <2>1, <1>3, <1>5, <1>6 DEF LockingOne
  <2>2. ASSUME NEW u \in Lockers, NEW x \in Mutexes, at'[u] = "first" PROVE owned'[x] # u
    <3>1. at[u] = "first" => owned[x] # u
      BY DEF LockingOne
    <3> QED
      BY <2>2, <3>1, <1>3, <1>5, <1>6
  <2>3. ASSUME NEW u \in Lockers, NEW x \in Mutexes, at'[u] \in {"second", "back off"},
               owned'[x] = u
        PROVE  x = pair'[u][1]
    BY <2>3, <1>3, <1>5, <1>6, ZenonT(60) DEF LockingOne
  <2> QED
    BY <2>1, <2>2, <2>3 DEF LockingOne
<1> QED
  BY <1>1, <1>8, <1>9, <1>10

\* std::lock() begins.
LEMMA LG_Lock_Call ==
  ASSUME LGIInv, NEW t \in Lockers, NEW a \in Mutexes, NEW b \in Mutexes, Lock_Call(t, a, b)
  PROVE  LGIInv'
<1> USE NobodyIsNew DEF NobodyIsNew, LGIInv
<1>1. LockedTied' /\ \A u \in Lockers, k \in Guards, x \in Mutexes : Unlocks(u, k, x)' <=>
          Unlocks(u, k, x)
  BY DEF LockedTied, Unlocks, Lock_Call
<1>2. at[t] = "idle"
  BY DEF LockingOne, InnerUnlocks, Lock_Call, Moves, Holds
<1>3. \A m \in Mutexes : owned[m] # t
  BY DEF LockingOne, InnerUnlocks, Lock_Call, Moves, Holds
<1>4. owned' = owned
  BY <1>2, <1>3 DEF Lock_Call, Moves, Holds, LGTypeOK
<1>5. loose' = loose
  BY <1>2, <1>3 DEF Lock_Call, LGTypeOK
<1>6. \A u \in Lockers : at'[u] = IF u = t THEN "first" ELSE at[u]
  BY <1>2, <1>3 DEF Lock_Call, Moves, Holds, LGTypeOK
<1>7. \A u \in Lockers : /\ pair'[u][1] = (IF u = t THEN a ELSE pair[u][1])
                         /\ pair'[u][2] = (IF u = t THEN b ELSE pair[u][2])
  BY <1>2, <1>3 DEF Lock_Call, Moves, Holds, LGTypeOK
<1>8. \A u \in Lockers, x \in Mutexes : InnerUnlocks(u, x)' <=> InnerUnlocks(u, x)
  BY <1>2, <1>3, <1>6, <1>7 DEF InnerUnlocks
<1>9. LGTypeOK'
  BY <1>2, <1>3 DEF LGTypeOK, Lock_Call, Moves, Holds
<1>10. UnlockedOnce'
  BY <1>1, <1>4, <1>5, <1>8 DEF UnlockedOnce
<1>11. LockingOne'
  BY <1>3, <1>4, <1>6, <1>7 DEF LockingOne
<1> QED
  BY <1>1, <1>9, <1>10, <1>11

\* std::lock() has locked the first mutex: its unique_lock is responsible.
LEMMA LG_Lock_First ==
  ASSUME LGIInv, NEW t \in Lockers, Lock_First(t) PROVE LGIInv'
<1> USE NobodyIsNew DEF NobodyIsNew, LGIInv
<1>1. LockedTied' /\ \A u \in Lockers, k \in Guards, x \in Mutexes : Unlocks(u, k, x)' <=>
          Unlocks(u, k, x)
  BY DEF LockedTied, Unlocks, Lock_First
<1>2. at[t] = "first"
  BY DEF LockingOne, InnerUnlocks, Lock_First, Moves, Take
<1>3. pair[t][1] \in Mutexes
  BY DEF LockingOne, InnerUnlocks, Lock_First, Moves, Take
<1>4. pair[t][2] \in Mutexes
  BY DEF LockingOne, InnerUnlocks, Lock_First, Moves, Take
<1>5. owned[pair[t][1]] = Nobody
  BY DEF LockingOne, InnerUnlocks, Lock_First, Moves, Take
<1>6. \A x \in Mutexes : owned'[x] = IF x = pair[t][1] THEN t ELSE owned[x]
  BY <1>2, <1>3, <1>4, <1>5 DEF Lock_First, Moves, Take, LGTypeOK
<1>7. loose' = loose
  BY <1>2, <1>3, <1>4, <1>5 DEF Lock_First, LGTypeOK
<1>8. \A u \in Lockers : at'[u] = IF u = t THEN "second" ELSE at[u]
  BY <1>2, <1>3, <1>4, <1>5 DEF Lock_First, Moves, Take, LGTypeOK
<1>9. \A u \in Lockers : pair'[u] = pair[u]
  BY <1>2, <1>3, <1>4, <1>5 DEF Lock_First, Moves, Take, LGTypeOK
<1>10. \A u \in Lockers, x \in Mutexes : InnerUnlocks(u, x)' <=>
           InnerUnlocks(u, x) \/ (u = t /\ x = pair[t][1])
  BY <1>2, <1>3, <1>4, <1>5, <1>8, <1>9 DEF InnerUnlocks
<1>11. LGTypeOK'
  BY <1>2, <1>3, <1>4, <1>5 DEF LGTypeOK, Lock_First, Moves, Take
<1>12. UnlockedOnce'
  BY <1>3, <1>5, <1>1, <1>6, <1>7, <1>10 DEF UnlockedOnce
<1>13. LockingOne'
  <2>1. ASSUME NEW u \in Lockers, at'[u] # "idle"
        PROVE  pair'[u][1] \in Mutexes /\ pair'[u][2] \in Mutexes
    BY <2>1, <1>2, <1>3, <1>4, <1>6, <1>8, <1>9 DEF LockingOne
  <2>2. ASSUME NEW u \in Lockers, NEW x \in Mutexes, at'[u] = "first" PROVE owned'[x] # u
    <3>1. at[u] = "first" => owned[x] # u
      BY DEF LockingOne
    <3> QED
      BY <2>2, <3>1, <1>2, <1>3, <1>4, <1>6, <1>8, <1>9
  <2>3. ASSUME NEW u \in Lockers, NEW x \in Mutexes, at'[u] \in {"second", "back off"},
               owned'[x] = u
        PROVE  x = pair'[u][1]
    <3>1. CASE u = t
      <4>1. owned[x] # t
        BY <1>2 DEF LockingOne
      <4> QED
        BY <2>3, <3>1, <4>1, <1>6, <1>9
    <3>2. CASE u # t
      <4>1. at[u] \in {"second", "back off"} /\ owned[x] = u
        BY <2>3, <3>2, <1>6, <1>8
      <4> QED
        BY <4>1, <1>9 DEF LockingOne
    <3> QED
      BY <3>1, <3>2
  <2> QED
    BY <2>1, <2>2, <2>3 DEF LockingOne
<1> QED
  BY <1>1, <1>11, <1>12, <1>13

\* std::try_lock() has locked the first mutex.
LEMMA LG_TryLock_First ==
  ASSUME LGIInv, NEW t \in Lockers, NEW a \in Mutexes, NEW b \in Mutexes, TryLock_First(t, a, b)
  PROVE  LGIInv'
<1> USE NobodyIsNew DEF NobodyIsNew, LGIInv
<1>1. LockedTied' /\ \A u \in Lockers, k \in Guards, x \in Mutexes : Unlocks(u, k, x)' <=>
          Unlocks(u, k, x)
  BY DEF LockedTied, Unlocks, TryLock_First
<1>2. at[t] = "idle"
  BY DEF LockingOne, InnerUnlocks, TryLock_First, Moves, Take
<1>3. owned[a] = Nobody
  BY DEF LockingOne, InnerUnlocks, TryLock_First, Moves, Take
<1>4. \A x \in Mutexes : owned'[x] = IF x = a THEN t ELSE owned[x]
  BY <1>2, <1>3 DEF TryLock_First, Moves, Take, LGTypeOK
<1>5. loose' = loose
  BY <1>2, <1>3 DEF TryLock_First, LGTypeOK
<1>6. \A u \in Lockers : at'[u] = IF u = t THEN "try second" ELSE at[u]
  BY <1>2, <1>3 DEF TryLock_First, Moves, Take, LGTypeOK
<1>7. \A u \in Lockers : /\ pair'[u][1] = (IF u = t THEN a ELSE pair[u][1])
                         /\ pair'[u][2] = (IF u = t THEN b ELSE pair[u][2])
  BY <1>2, <1>3 DEF TryLock_First, Moves, Take, LGTypeOK
<1>8. \A u \in Lockers, x \in Mutexes : InnerUnlocks(u, x)' <=>
          InnerUnlocks(u, x) \/ (u = t /\ x = a)
  BY <1>2, <1>3, <1>6, <1>7 DEF InnerUnlocks
<1>9. LGTypeOK'
  BY <1>2, <1>3 DEF LGTypeOK, TryLock_First, Moves, Take
<1>10. UnlockedOnce'
  BY <1>3, <1>1, <1>4, <1>5, <1>8 DEF UnlockedOnce
<1>11. LockingOne'
  BY <1>4, <1>6, <1>7 DEF LockingOne
<1> QED
  BY <1>1, <1>9, <1>10, <1>11

\* Both have been locked, and the unique_lock is released.
LEMMA LG_Second ==
  ASSUME LGIInv, NEW t \in Lockers, Second(t) PROVE LGIInv'
<1> USE NobodyIsNew DEF NobodyIsNew, LGIInv
<1>1. LockedTied' /\ \A u \in Lockers, k \in Guards, x \in Mutexes : Unlocks(u, k, x)' <=>
          Unlocks(u, k, x)
  BY DEF LockedTied, Unlocks, Second
<1>2. at[t] \in {"second", "try second"}
  BY DEF LockingOne, InnerUnlocks, Second, Returns, Moves, Take
<1>3. pair[t][1] \in Mutexes
  BY DEF LockingOne, InnerUnlocks, Second, Returns, Moves, Take
<1>4. pair[t][2] \in Mutexes
  BY DEF LockingOne, InnerUnlocks, Second, Returns, Moves, Take
<1>5. owned[pair[t][2]] = Nobody
  BY DEF LockingOne, InnerUnlocks, Second, Returns, Moves, Take
<1>6. \A x \in Mutexes : InnerUnlocks(t, x) <=> x = pair[t][1]
  BY <1>2, <1>3, <1>4, <1>5 DEF LockingOne, InnerUnlocks, Second, Returns, Moves, Take
<1>7. \A x \in Mutexes : owned'[x] = IF x = pair[t][2] THEN t ELSE owned[x]
  BY <1>2, <1>3, <1>4, <1>5, <1>6 DEF Second, Returns, Moves, Take, LGTypeOK
<1>8. \A u \in Lockers, x \in Mutexes : x \in loose'[u] <=>
          x \in loose[u] \/ (u = t /\ x \in {pair[t][1], pair[t][2]})
  BY <1>2, <1>3, <1>4, <1>5, <1>6 DEF Second, LGTypeOK
<1>9. \A u \in Lockers : at'[u] = IF u = t THEN "idle" ELSE at[u]
  BY <1>2, <1>3, <1>4, <1>5, <1>6 DEF Second, Returns, Moves, Take, LGTypeOK
<1>10. \A u \in Lockers : /\ pair'[u][1] = (IF u = t THEN Nobody ELSE pair[u][1])
                          /\ pair'[u][2] = (IF u = t THEN Nobody ELSE pair[u][2])
  <2>1. pair' = [pair EXCEPT ![t] = <<Nobody, Nobody>>] /\ DOMAIN pair = Lockers
    BY DEF Second, Returns, LGTypeOK
  <2>2. \A u \in Lockers : pair'[u] = IF u = t THEN <<Nobody, Nobody>> ELSE pair[u]
    BY <2>1
  <2> QED
    BY <2>2
<1>11. \A u \in Lockers, x \in Mutexes : InnerUnlocks(u, x)' <=> InnerUnlocks(u, x) /\ u # t
  BY <1>2, <1>3, <1>4, <1>5, <1>6, <1>9, <1>10 DEF InnerUnlocks
<1>12. LGTypeOK'
  <2>1. at' \in [Lockers -> {"idle", "first", "second", "back off", "try second", "give up"}]
    BY DEF LGTypeOK, Second, Returns, Moves
  <2>2. pair' \in [Lockers -> (Mutexes \cup {Nobody}) \X (Mutexes \cup {Nobody})]
    <3> DEFINE P == (Mutexes \cup {Nobody}) \X (Mutexes \cup {Nobody})
               none == <<Nobody, Nobody>>
    <3>1. pair' = [pair EXCEPT ![t] = none] /\ pair \in [Lockers -> P]
      BY DEF LGTypeOK, Second, Returns
    <3>2. none \in P
      OBVIOUS
    <3>3. pair' \in [Lockers -> P]
      <4> HIDE DEF P, none
      <4> QED
        BY <3>1, <3>2
    <3> QED
      BY <3>3
  <2>3. loose' \in [Lockers -> SUBSET Mutexes]
    BY <1>3, <1>4 DEF LGTypeOK, Second
  <2>4. owned' \in [Mutexes -> Lockers \cup {Nobody}]
    BY DEF LGTypeOK, Second, Take
  <2> QED
    BY <2>1, <2>2, <2>3, <2>4 DEF LGTypeOK, Second
<1>13. UnlockedOnce'
  BY <1>3, <1>4, <1>5, <1>6, <1>1, <1>7, <1>8, <1>11 DEF UnlockedOnce
<1>14. LockingOne'
  BY <1>7, <1>9, <1>10, ZenonT(60) DEF LockingOne
<1> QED
  BY <1>1, <1>12, <1>13, <1>14

\* The second could not be locked.
LEMMA LG_Second_Fails ==
  ASSUME LGIInv, NEW t \in Lockers, Second_Fails(t) PROVE LGIInv'
<1> USE NobodyIsNew DEF NobodyIsNew, LGIInv
<1>1. LockedTied' /\ \A u \in Lockers, k \in Guards, x \in Mutexes : Unlocks(u, k, x)' <=>
          Unlocks(u, k, x)
  BY DEF LockedTied, Unlocks, Second_Fails
<1>2. at[t] \in {"second", "try second"}
  BY DEF LockingOne, InnerUnlocks, Second_Fails, Moves
<1>3. pair[t][1] \in Mutexes
  BY DEF LockingOne, InnerUnlocks, Second_Fails, Moves
<1>4. pair[t][2] \in Mutexes
  BY DEF LockingOne, InnerUnlocks, Second_Fails, Moves
<1>5. owned' = owned
  BY <1>2, <1>3, <1>4 DEF Second_Fails, Moves, LGTypeOK
<1>6. loose' = loose
  BY <1>2, <1>3, <1>4 DEF Second_Fails, LGTypeOK
<1>7. \A u \in Lockers :
        at'[u] = IF u = t THEN (IF at[t] = "second" THEN "back off" ELSE "give up") ELSE at[u]
  BY <1>2, <1>3, <1>4 DEF Second_Fails, Moves, LGTypeOK
<1>8. \A u \in Lockers : pair'[u] = pair[u]
  BY <1>2, <1>3, <1>4 DEF Second_Fails, Moves, LGTypeOK
<1>9. \A u \in Lockers, x \in Mutexes : InnerUnlocks(u, x)' <=> InnerUnlocks(u, x)
  BY <1>2, <1>3, <1>4, <1>7, <1>8 DEF InnerUnlocks
<1>10. LGTypeOK'
  BY <1>2, <1>3, <1>4 DEF LGTypeOK, Second_Fails, Moves
<1>11. UnlockedOnce'
  BY <1>1, <1>5, <1>6, <1>9 DEF UnlockedOnce
<1>12. LockingOne'
  BY <1>2, <1>3, <1>4, <1>5, <1>7, <1>8 DEF LockingOne
<1> QED
  BY <1>1, <1>10, <1>11, <1>12

\* std::lock() unlocks the first and begins with the second: it holds nothing.
LEMMA LG_Back_Off ==
  ASSUME LGIInv, NEW t \in Lockers, Back_Off(t) PROVE LGIInv'
<1> USE NobodyIsNew DEF NobodyIsNew, LGIInv
<1>1. LockedTied' /\ \A u \in Lockers, k \in Guards, x \in Mutexes : Unlocks(u, k, x)' <=>
          Unlocks(u, k, x)
  BY DEF LockedTied, Unlocks, Back_Off
<1>2. at[t] = "back off"
  BY DEF LockingOne, InnerUnlocks, Back_Off, Moves, Drop
<1>3. pair[t][1] \in Mutexes
  BY DEF LockingOne, InnerUnlocks, Back_Off, Moves, Drop
<1>4. pair[t][2] \in Mutexes
  BY DEF LockingOne, InnerUnlocks, Back_Off, Moves, Drop
<1>5. \A x \in Mutexes : InnerUnlocks(t, x) <=> x = pair[t][1]
  BY <1>2, <1>3, <1>4 DEF LockingOne, InnerUnlocks, Back_Off, Moves, Drop
<1>6. \A x \in Mutexes : owned'[x] = IF x = pair[t][1] THEN Nobody ELSE owned[x]
  BY <1>2, <1>3, <1>4, <1>5 DEF Back_Off, Moves, Drop, LGTypeOK
<1>7. loose' = loose
  BY <1>2, <1>3, <1>4, <1>5 DEF Back_Off, LGTypeOK
<1>8. \A u \in Lockers : at'[u] = IF u = t THEN "first" ELSE at[u]
  BY <1>2, <1>3, <1>4, <1>5 DEF Back_Off, Moves, Drop, LGTypeOK
<1>9. \A u \in Lockers : /\ pair'[u][1] = (IF u = t THEN pair[t][2] ELSE pair[u][1])
                         /\ pair'[u][2] = (IF u = t THEN pair[t][1] ELSE pair[u][2])
  BY <1>2, <1>3, <1>4, <1>5 DEF Back_Off, Moves, Drop, LGTypeOK
<1>10. \A u \in Lockers, x \in Mutexes : InnerUnlocks(u, x)' <=> InnerUnlocks(u, x) /\ u # t
  BY <1>2, <1>3, <1>4, <1>5, <1>8, <1>9 DEF InnerUnlocks
<1>11. LGTypeOK'
  BY <1>2, <1>3, <1>4, <1>5 DEF LGTypeOK, Back_Off, Moves, Drop
<1>12. UnlockedOnce'
  BY <1>3, <1>5, <1>1, <1>6, <1>7, <1>10 DEF UnlockedOnce
<1>13. LockingOne'
  <2>1. ASSUME NEW u \in Lockers, at'[u] # "idle"
        PROVE  pair'[u][1] \in Mutexes /\ pair'[u][2] \in Mutexes
    BY <2>1, <1>2, <1>3, <1>4, <1>6, <1>8, <1>9 DEF LockingOne
  <2>2. ASSUME NEW u \in Lockers, NEW x \in Mutexes, at'[u] = "first" PROVE owned'[x] # u
    <3>1. CASE u = t
      <4>1. owned[x] = t => x = pair[t][1]
        BY <1>2 DEF LockingOne
      <4> QED
        BY <3>1, <4>1, <1>6
    <3>2. CASE u # t
      <4>1. at[u] = "first"
        BY <2>2, <3>2, <1>8
      <4>2. owned[x] # u
        BY <4>1 DEF LockingOne
      <4> QED
        BY <4>2, <1>6
    <3> QED
      BY <3>1, <3>2
  <2>3. ASSUME NEW u \in Lockers, NEW x \in Mutexes, at'[u] \in {"second", "back off"},
               owned'[x] = u
        PROVE  x = pair'[u][1]
    BY <2>3, <1>2, <1>3, <1>4, <1>6, <1>8, <1>9 DEF LockingOne
  <2> QED
    BY <2>1, <2>2, <2>3 DEF LockingOne
<1> QED
  BY <1>1, <1>11, <1>12, <1>13

\* std::try_lock() unlocks the first and returns.
LEMMA LG_Give_Up ==
  ASSUME LGIInv, NEW t \in Lockers, Give_Up(t) PROVE LGIInv'
<1> USE NobodyIsNew DEF NobodyIsNew, LGIInv
<1>1. LockedTied' /\ \A u \in Lockers, k \in Guards, x \in Mutexes : Unlocks(u, k, x)' <=>
          Unlocks(u, k, x)
  BY DEF LockedTied, Unlocks, Give_Up
<1>2. at[t] = "give up"
  BY DEF LockingOne, InnerUnlocks, Give_Up, Returns, Moves, Drop
<1>3. pair[t][1] \in Mutexes
  BY DEF LockingOne, InnerUnlocks, Give_Up, Returns, Moves, Drop
<1>4. pair[t][2] \in Mutexes
  BY DEF LockingOne, InnerUnlocks, Give_Up, Returns, Moves, Drop
<1>5. \A x \in Mutexes : InnerUnlocks(t, x) <=> x = pair[t][1]
  BY <1>2, <1>3, <1>4 DEF LockingOne, InnerUnlocks, Give_Up, Returns, Moves, Drop
<1>6. \A x \in Mutexes : owned'[x] = IF x = pair[t][1] THEN Nobody ELSE owned[x]
  BY <1>2, <1>3, <1>4, <1>5 DEF Give_Up, Returns, Moves, Drop, LGTypeOK
<1>7. loose' = loose
  BY <1>2, <1>3, <1>4, <1>5 DEF Give_Up, LGTypeOK
<1>8. \A u \in Lockers : at'[u] = IF u = t THEN "idle" ELSE at[u]
  BY <1>2, <1>3, <1>4, <1>5 DEF Give_Up, Returns, Moves, Drop, LGTypeOK
<1>9. \A u \in Lockers : /\ pair'[u][1] = (IF u = t THEN Nobody ELSE pair[u][1])
                         /\ pair'[u][2] = (IF u = t THEN Nobody ELSE pair[u][2])
  BY <1>2, <1>3, <1>4, <1>5 DEF Give_Up, Returns, Moves, Drop, LGTypeOK
<1>10. \A u \in Lockers, x \in Mutexes : InnerUnlocks(u, x)' <=> InnerUnlocks(u, x) /\ u # t
  BY <1>2, <1>3, <1>4, <1>5, <1>8, <1>9 DEF InnerUnlocks
<1>11. LGTypeOK'
  BY <1>2, <1>3, <1>4, <1>5 DEF LGTypeOK, Give_Up, Returns, Moves, Drop
<1>12. UnlockedOnce'
  BY <1>3, <1>5, <1>1, <1>6, <1>7, <1>10 DEF UnlockedOnce
<1>13. LockingOne'
  <2>1. ASSUME NEW u \in Lockers, at'[u] # "idle"
        PROVE  pair'[u][1] \in Mutexes /\ pair'[u][2] \in Mutexes
    BY <2>1, <1>6, <1>8, <1>9 DEF LockingOne
  <2>2. ASSUME NEW u \in Lockers, NEW x \in Mutexes, at'[u] = "first" PROVE owned'[x] # u
    <3>1. at[u] = "first" => owned[x] # u
      BY DEF LockingOne
    <3> QED
      BY <2>2, <3>1, <1>6, <1>8, <1>9
  <2>3. ASSUME NEW u \in Lockers, NEW x \in Mutexes, at'[u] \in {"second", "back off"},
               owned'[x] = u
        PROVE  x = pair'[u][1]
    BY <2>3, <1>6, <1>8, <1>9 DEF LockingOne
  <2> QED
    BY <2>1, <2>2, <2>3 DEF LockingOne
<1> QED
  BY <1>1, <1>11, <1>12, <1>13

\* Each step of the lock guards.
LEMMA LG_Next == ASSUME LGIInv, LGNext PROVE LGIInv'
<1>1. PICK t \in Lockers :
        \/ \E g \in Guards :
             \/ Destruct(t, g) \/ Guard_Lock(t, g) \/ Guard_Unlock(t, g) \/ Release(t, g)
             \/ \E h \in Guards : Move_Construct(t, h, g) \/ Move_Assign(t, g, h) \/ Swap(t, g, h)
             \/ \E m \in Mutexes :
                    Construct_Lock(t, g, m) \/ Construct_Defer(t, g, m) \/ Construct_Adopt(t, g, m)
        \/ \E m \in Mutexes : Client_Unlock(t, m)
        \/ \E a, b \in Mutexes : Lock_Call(t, a, b) \/ TryLock_First(t, a, b)
        \/ Lock_First(t) \/ Second(t) \/ Second_Fails(t) \/ Back_Off(t) \/ Give_Up(t)
  BY DEF LGNext
<1>2. ASSUME NEW g \in Guards,
             Destruct(t, g) \/ Guard_Lock(t, g) \/ Guard_Unlock(t, g) \/ Release(t, g)
      PROVE  LGIInv'
  BY <1>2, LG_Destruct, LG_Guard_Lock, LG_Guard_Unlock, LG_Release
<1>3. ASSUME NEW g \in Guards, NEW h \in Guards,
             Move_Construct(t, h, g) \/ Move_Assign(t, g, h) \/ Swap(t, g, h)
      PROVE  LGIInv'
  BY <1>3, LG_Move_Construct, LG_Move_Assign, LG_Swap
<1>4. ASSUME NEW g \in Guards, NEW m \in Mutexes,
             Construct_Lock(t, g, m) \/ Construct_Defer(t, g, m) \/ Construct_Adopt(t, g, m)
      PROVE  LGIInv'
  BY <1>4, LG_Construct_Lock, LG_Construct_Defer, LG_Construct_Adopt
<1>5. ASSUME NEW m \in Mutexes, Client_Unlock(t, m) PROVE LGIInv'
  BY <1>5, LG_Client_Unlock
<1>6. ASSUME NEW a \in Mutexes, NEW b \in Mutexes, Lock_Call(t, a, b) \/ TryLock_First(t, a, b)
      PROVE  LGIInv'
  BY <1>6, LG_Lock_Call, LG_TryLock_First
<1>7. Lock_First(t) \/ Second(t) \/ Second_Fails(t) \/ Back_Off(t) \/ Give_Up(t) => LGIInv'
  BY LG_Lock_First, LG_Second, LG_Second_Fails, LG_Back_Off, LG_Give_Up
<1> QED
  BY <1>1, <1>2, <1>3, <1>4, <1>5, <1>6, <1>7

\* The unique_locks of t that will unlock m: one or none.
LEMMA LG_Count ==
  ASSUME LGTypeOK, UnlockedOnce, NEW t \in Lockers, NEW m \in Mutexes
  PROVE  Cardinality({g \in Guards : guard[t][g] = Tied(m, TRUE)})
           = IF \E g \in Guards : Unlocks(t, g, m) THEN 1 ELSE 0
<1>1. \A r \in GuardStates : r = Tied(m, TRUE) <=> r.m_locked /\ r.m_mutex = m
  BY DEF GuardStates, Tied
<1>2. {g \in Guards : guard[t][g] = Tied(m, TRUE)} = {g \in Guards : Unlocks(t, g, m)}
  BY <1>1, LG_GuardType DEF Unlocks
<1>3. CASE \E g \in Guards : Unlocks(t, g, m)
  <2>1. PICK g \in Guards : Unlocks(t, g, m)
    BY <1>3
  <2>2. {k \in Guards : Unlocks(t, k, m)} = {g}
    BY <2>1 DEF UnlockedOnce
  <2> QED
    BY <1>2, <1>3, <2>2, FS_Singleton
<1>4. CASE ~\E g \in Guards : Unlocks(t, g, m)
  <2>1. {k \in Guards : Unlocks(t, k, m)} = {}
    BY <1>4
  <2> QED
    BY <1>2, <1>4, <2>1, FS_EmptySet
<1> QED
  BY <1>3, <1>4

\* So the number of those who unlock is exact.
LEMMA LG_OwnersExact == ASSUME LGIInv PROVE OwnersExact
<1> SUFFICES ASSUME NEW t \in Lockers, NEW m \in Mutexes
             PROVE  Responsible(t, m) = (IF owned[m] = t THEN 1 ELSE 0)
  BY DEF OwnersExact
<1>1. m \in Inner(t) <=> InnerUnlocks(t, m)
  BY DEF Inner, InnerUnlocks
<1>2. Cardinality({g \in Guards : guard[t][g] = Tied(m, TRUE)})
        = IF \E g \in Guards : Unlocks(t, g, m) THEN 1 ELSE 0
  BY LG_Count DEF LGIInv
<1>3. /\ ~(m \in loose[t] /\ InnerUnlocks(t, m))
      /\ (\E g \in Guards : Unlocks(t, g, m)) =>
             owned[m] = t /\ m \notin loose[t] /\ ~InnerUnlocks(t, m)
      /\ m \in loose[t] \/ InnerUnlocks(t, m) => owned[m] = t
      /\ owned[m] = t /\ m \notin loose[t] /\ ~InnerUnlocks(t, m) =>
             \E g \in Guards : Unlocks(t, g, m)
  BY DEF LGIInv, UnlockedOnce
<1> QED
  BY <1>1, <1>2, <1>3 DEF Responsible

\* Who blocks in std::lock() holds nothing, so nobody waits for it.
LEMMA LG_NoCircularWait == ASSUME LGIInv PROVE NoCircularWait
  BY DEF LGIInv, LockingOne, NoCircularWait

\* LGIInv is invariant.
LEMMA LG_Invariance == LGSpec => []LGIInv
<1>1. ASSUME LGIInv, UNCHANGED lgVars PROVE LGIInv'
  <2> USE <1>1 DEF lgVars, LGIInv
  <2>1. LGTypeOK'
    BY DEF LGTypeOK
  <2>2. \A t \in Lockers, m \in Mutexes, g \in Guards : Unlocks(t, g, m)' <=> Unlocks(t, g, m)
    BY DEF Unlocks
  <2>3. \A t \in Lockers, m \in Mutexes : InnerUnlocks(t, m)' <=> InnerUnlocks(t, m)
    BY DEF InnerUnlocks
  <2>4. UnlockedOnce'
    BY <2>2, <2>3 DEF UnlockedOnce
  <2>5. LockedTied' /\ LockingOne'
    BY DEF LockedTied, LockingOne
  <2> QED
    BY <2>1, <2>4, <2>5
<1> QED
  BY <1>1, LG_Init, LG_Next, PTL DEF LGSpec

\* lock guards, std::lock and std::try_lock: a thread holds a mutex exactly if one
\* unique_lock, the client or the function will unlock it, and only one, for any
\* number of threads, mutexes and unique_locks.
THEOREM OneUnlocks == LGSpec => [](LGTypeOK /\ OwnersExact)
<1>1. LGIInv => LGTypeOK /\ OwnersExact
  BY LG_OwnersExact DEF LGIInv
<1> QED
  BY <1>1, LG_Invariance, PTL

\* std::lock: a thread that blocks in it never waits for one that blocks in it too, in
\* whatever order they name their mutexes.
THEOREM LockOrderFree == LGSpec => []NoCircularWait
  BY LG_Invariance, LG_NoCircularWait, PTL
-----------------------------------------------------------------------------
(* thread and its signals on the C++11 back end. *)

\* The type of the state, without the number of those who hold the mutex.
HostTypes ==
  /\ m_isRegistered \in BOOLEAN /\ m_joinedOrDetached \in BOOLEAN /\ m_signalFlags \subseteq Flags
  /\ registry \in BOOLEAN /\ owners \subseteq {"handle", "thread"} /\ wanted \subseteq Flags
  /\ sleeping \subseteq Both /\ told \subseteq Both /\ drowsy \subseteq holder
         /\ holder \subseteq Both
  /\ hostAt = [t \in Both |-> hostAt[t]]
  /\ hostAt.client \in {"no thread", "create", "await", "joinable", "set", "clear", "unlock",
                        "notify join", "notify detach", "join", "detach"}
  /\ hostAt.thread \in {"none", "register", "registered", "run", "wait", "timed wait",
                        "keep alive", "ended"}

\* A thread holds the mutex, sleeps, or was woken, and only where it locks or waits.
HostPlaces ==
  /\ \A t, u \in holder : t = u
  /\ \A t \in Both : ~(t \in sleeping /\ t \in holder \cup told) /\ ~(t \in told /\ t \in holder)
  /\ "client" \in sleeping \cup told \cup drowsy => hostAt.client = "await"
  /\ "thread" \in sleeping \cup told \cup drowsy => hostAt.thread \in Waits_Host \cup {"keep alive"}
  /\ "client" \in holder => hostAt.client \in {"await", "set", "clear", "unlock"}
  /\ "thread" \in holder => hostAt.thread \in Waits_Host \cup {"keep alive"}
  /\ hostAt.client \in {"set", "clear", "unlock"} => "client" \in holder

\* Who has found its predicate false keeps the mutex until it sleeps, so the
\* predicate stays false.
DrowsyMissed ==
  /\ "client" \in drowsy => ~m_isRegistered
  /\ "thread" \in drowsy /\ hostAt.thread \in Waits_Host => ~Satisfied(wanted)
  /\ "thread" \in drowsy /\ hostAt.thread = "keep alive" => ~m_joinedOrDetached

\* The inductive invariant of the host back end.
HostIInv == HostTypes /\ HostPlaces /\ DrowsyMissed /\ NobodyOversleeps

\* The client has not created a thread yet.
LEMMA Host_Init == HostInit => HostIInv
<1> SUFFICES ASSUME HostInit PROVE HostIInv
  OBVIOUS
<1> USE DEF HostInit, HostIInv, Both
<1>1. HostTypes
  BY DEF HostTypes
<1>2. HostPlaces
  BY DEF HostPlaces
<1>3. DrowsyMissed /\ NobodyOversleeps
  BY DEF DrowsyMissed, NobodyOversleeps
<1> QED
  BY <1>1, <1>2, <1>3

\* notify_one() wakes all who sleep: client and thread never sleep both.
LEMMA Host_NotifyWakes ==
  ASSUME HostIInv, NEW t \in Both, t \notin sleeping, NotifyOneHost
  PROVE  sleeping' = {} /\ told' = told \cup sleeping
<1>1. CASE sleeping = {}
  BY <1>1 DEF NotifyOneHost
<1>2. CASE sleeping # {}
  <2>1. PICK u \in sleeping : sleeping' = sleeping \ {u} /\ told' = told \cup {u}
    BY <1>2 DEF NotifyOneHost
  <2>2. \A v \in sleeping : v = u
    BY <2>1 DEF HostIInv, HostTypes, Both
  <2> QED
    BY <2>1, <2>2
<1> QED
  BY <1>1, <1>2

\* The signals a thread waits for are there or not, as long as neither changes.
LEMMA Host_SameSignals ==
  ASSUME UNCHANGED <<m_signalFlags, wanted>> PROVE Satisfied(wanted)' <=> Satisfied(wanted)
  BY DEF Satisfied

\* Each step of the client: create(), join(), detach(), set and clear of signals.
LEMMA Host_Client ==
  ASSUME HostIInv, ClientGoes \/ Create_Host \/ MoveAssign_Host \/ Signals_Lock
                     \/ \E a \in {"join", "detach"} : Join_Flag(a)
  PROVE  HostIInv'
<1> USE DEF HostIInv, HostTypes, HostPlaces, DrowsyMissed, NobodyOversleeps, Both, Waits_Host,
            Step, flagVars, condVars, restVars
<1>1. CASE Create_Lock
  BY <1>1, Host_SameSignals DEF Create_Lock, LockHost
<1>2. CASE Create_Check
  BY <1>2, Host_SameSignals DEF Create_Check, CondCheck
<1>3. CASE Create_Registered
  BY <1>3, Host_SameSignals DEF Create_Registered
<1>4. CASE Signals_Unlock
  BY <1>4, Host_SameSignals DEF Signals_Unlock, UnlockHost
<1>5. CASE Join_Reset
  BY <1>5, Host_SameSignals DEF Join_Reset
<1>6. CASE CondRelock("client")
  BY <1>6, Host_SameSignals DEF CondRelock
<1>7. CASE CondSleep("client")
  BY <1>7, Host_SameSignals DEF CondSleep
<1>8. ASSUME NEW a \in {"set", "clear"}, LockHost("client", "joinable", a) PROVE HostIInv'
  BY <1>8, Host_SameSignals DEF LockHost
<1>9. CASE Notify_Host("client", "notify join", "join")
  <2>1. sleeping' = {} /\ told' = told \cup sleeping
    BY <1>9, Host_NotifyWakes DEF Notify_Host
  <2> QED
    BY <1>9, <2>1, Host_SameSignals DEF Notify_Host
<1>10. CASE Notify_Host("client", "notify detach", "detach")
  <2>1. sleeping' = {} /\ told' = told \cup sleeping
    BY <1>10, Host_NotifyWakes DEF Notify_Host
  <2> QED
    BY <1>10, <2>1, Host_SameSignals DEF Notify_Host
<1>11. CASE Create_Host
  BY <1>11 DEF Create_Host
<1>12. CASE MoveAssign_Host
  BY <1>12, Host_SameSignals DEF MoveAssign_Host
<1>13. ASSUME NEW F \in SUBSET Flags, Signals_Set(F) PROVE HostIInv'
  <2>1. sleeping' = {} /\ told' = told \cup sleeping
    BY <1>13, Host_NotifyWakes DEF Signals_Set
  <2> QED
    BY <1>13, <2>1 DEF Signals_Set
<1>14. ASSUME NEW F \in SUBSET Flags, Signals_Clear(F) PROVE HostIInv'
  <2>1. sleeping' = {} /\ told' = told \cup sleeping
    BY <1>14, Host_NotifyWakes DEF Signals_Clear
  <2> QED
    BY <1>14, <2>1, ZenonT(60) DEF Signals_Clear
<1>15. ASSUME NEW a \in {"join", "detach"}, Join_Flag(a) PROVE HostIInv'
  BY <1>15, Host_SameSignals DEF Join_Flag
<1> QED
  BY <1>1, <1>2, <1>3, <1>4, <1>5, <1>6, <1>7, <1>8, <1>9, <1>10, <1>11, <1>12, <1>13, <1>14,
     <1>15 DEF ClientGoes, Signals_Lock, Join_Notify

\* Each step of the thread: its registration, its waits for signals, its end.
LEMMA Host_Thread ==
  ASSUME HostIInv, ThreadGoes \/ End_Lock \/ (\E t \in Both : Spurious(t))
                     \/ \E F \in SUBSET Flags : WaitSignals(F) \/ TryWaitSignals(F)
  PROVE  HostIInv'
<1> USE DEF HostIInv, HostTypes, HostPlaces, DrowsyMissed, NobodyOversleeps, Both, Waits_Host,
            Step, flagVars, condVars, restVars
<1>1. CASE Start_Host
  BY <1>1, Host_SameSignals DEF Start_Host
<1>2. CASE Register
  BY <1>2, Host_SameSignals DEF Register
<1>3. CASE End_Check
  BY <1>3, Host_SameSignals DEF End_Check, CondCheck
<1>4. CASE End_Lock
  BY <1>4, Host_SameSignals DEF End_Lock, LockHost
<1>5. CASE End_Remove
  BY <1>5, Host_SameSignals DEF End_Remove
<1>6. CASE End_Host
  BY <1>6, Host_SameSignals DEF End_Host
<1>7. CASE CondRelock("thread")
  BY <1>7, Host_SameSignals DEF CondRelock
<1>8. CASE CondSleep("thread")
  BY <1>8, Host_SameSignals, ZenonT(60) DEF CondSleep
<1>9. ASSUME NEW a \in Waits_Host, CondCheck("thread", a, Satisfied(wanted)) PROVE HostIInv'
  BY <1>9, Host_SameSignals DEF CondCheck
<1>10. CASE Register_Notify
  <2>1. sleeping' = {} /\ told' = told \cup sleeping
    BY <1>10, Host_NotifyWakes DEF Register_Notify, Notify_Host
  <2> QED
    BY <1>10, <2>1, Host_SameSignals DEF Register_Notify, Notify_Host
<1>11. CASE WaitSignals_Take
  BY <1>11, ZenonT(60) DEF WaitSignals_Take
<1>12. CASE WaitSignals_TimeOut
  BY <1>12 DEF WaitSignals_TimeOut
<1>13. ASSUME NEW F \in SUBSET Flags, WaitSignals(F) PROVE HostIInv'
  BY <1>13 DEF WaitSignals
<1>14. ASSUME NEW F \in SUBSET Flags, TryWaitSignals(F) PROVE HostIInv'
  BY <1>14 DEF TryWaitSignals
<1>15. ASSUME NEW t \in Both, Spurious(t) PROVE HostIInv'
  BY <1>15, Host_SameSignals, ZenonT(60) DEF Spurious
<1> QED
  BY <1>1, <1>2, <1>3, <1>4, <1>5, <1>6, <1>7, <1>8, <1>9, <1>10, <1>11, <1>12, <1>13, <1>14,
     <1>15 DEF ThreadGoes, WaitSignals_Check

\* Each step of the host back end.
LEMMA Host_Next == HostIInv /\ [HostNext]_hostVars => HostIInv'
<1> SUFFICES ASSUME HostIInv, [HostNext]_hostVars PROVE HostIInv'
  OBVIOUS
<1>1. CASE UNCHANGED hostVars
  <2> USE DEF HostIInv, hostVars, flagVars, condVars, restVars
  <2>1. HostTypes' /\ HostPlaces'
    BY <1>1, ZenonT(60) DEF HostTypes, HostPlaces
  <2>2. DrowsyMissed' /\ NobodyOversleeps'
    BY <1>1, Host_SameSignals DEF DrowsyMissed, NobodyOversleeps
  <2> QED
    BY <2>1, <2>2
<1>2. CASE ClientGoes \/ Create_Host \/ MoveAssign_Host \/ Signals_Lock
             \/ \E a \in {"join", "detach"} : Join_Flag(a)
  BY <1>2, Host_Client
<1>3. CASE ThreadGoes \/ End_Lock \/ (\E t \in Both : Spurious(t))
             \/ \E F \in SUBSET Flags : WaitSignals(F) \/ TryWaitSignals(F)
  BY <1>3, Host_Thread
<1> QED
  BY <1>1, <1>2, <1>3 DEF HostNext

\* The inductive invariant has the type invariant.
LEMMA Host_Type == HostIInv => HostTypeOK
<1> SUFFICES ASSUME HostIInv PROVE HostTypeOK
  OBVIOUS
<1>1. ASSUME NEW t \in holder PROVE holder = {t}
  <2>1. \A u \in holder : u = t
    BY DEF HostIInv, HostPlaces
  <2> QED
    BY <2>1
<1>2. Cardinality(holder) <= 1
  BY <1>1, FS_EmptySet, FS_Singleton
<1> QED
  BY <1>2 DEF HostIInv, HostTypes, HostTypeOK

\* HostIInv is invariant.
LEMMA Host_Invariance == HostSpec => []HostIInv
  BY Host_Init, Host_Next, PTL DEF HostSpec

\* The C++11 back end: neither the client nor the thread sleeps on its condition
\* variable once what it waits for is there and was notified; the type of its state.
THEOREM HostWaits == HostSpec => [](HostTypeOK /\ NobodyOversleeps)
<1>1. HostIInv => HostTypeOK /\ NobodyOversleeps
  BY Host_Type DEF HostIInv
<1> QED
  BY <1>1, Host_Invariance, PTL
-----------------------------------------------------------------------------
(* AtomicCell. *)

\* An operation on a value of the type gives values of the type.
LEMMA AC_Applied ==
  ASSUME NEW o \in Operations, NEW v \in Values
  PROVE  Applied(o, v) \in Values /\ Returned(o, v) \in Values
<1>1. Width \in Nat \ {0} /\ 0 \in Values
  BY WidthType DEF Values
<1>2. \A B : WithBits(B) \in Values
  <2> TAKE B
  <2>1. \E w \in Values : BitsOf(w) = B \/ \A u \in Values : BitsOf(u) # B
    BY <1>1
  <2> QED
    BY <2>1 DEF WithBits
<1>3. \A n \in Nat : n % Width \in Values
  BY <1>1 DEF Values
<1>4. ASSUME o.name # "load" PROVE o.arg \in Values
  BY <1>4 DEF Operations, Operators
<1>5. o.name \in Fetches \cup {"compare_exchange", "load"}
  BY DEF Operations, Operators
<1>6. ASSUME o.name # "load" PROVE (v + o.arg) \in Nat /\ (v + Width - o.arg) \in Nat
  <2>1. v \in Nat /\ o.arg \in Nat /\ o.arg < Width
    BY <1>1, <1>4, <1>6 DEF Values
  <2> QED
    BY <1>1, <2>1
<1>7. Applied(o, v) \in Values
  BY <1>2, <1>3, <1>4, <1>5, <1>6 DEF Applied, Fetches
<1> QED
  BY <1>7 DEF Returned

\* A thread that has yet to make its access.
Before == {"load", "ldrex", "strex", "lock", "read", "write"}
\* Where a thread can be.
Instrs == Before \cup {"idle", "unlock", "return"}

\* The types, and what a thread knows at each access.
CellParts(t) ==
  /\ instr[t] \in Instrs
  /\ instr[t] = "idle" => call[t] = Free
  /\ instr[t] # "idle" => call[t] \in Operations
  /\ instr[t] \in Before \cup {"idle"} => seen[t] = Free
  /\ instr[t] \in {"unlock", "return"} => seen[t] \in Values
  /\ instr[t] = "load" => call[t].name = "load"
  /\ instr[t] \in {"ldrex", "strex"} => size = "small"
  /\ instr[t] \in {"lock", "read", "write", "unlock"} => size = "large"
  /\ monitor = t => instr[t] = "strex" /\ old[t] = m_value
  /\ instr[t] = "write" => old[t] = m_value
  /\ instr[t] \in {"read", "write", "unlock"} <=> g_atomicMutex = t

\* The types but for those that depend on where the thread is.
CellFuns ==
  /\ m_value \in Values
  /\ DOMAIN call = Users /\ DOMAIN seen = Users /\ DOMAIN instr = Users
  /\ old \in [Users -> Values \cup {Free}]
  /\ size \in Sizes /\ rest \in Rests
  /\ monitor \in Users \cup {Free} /\ g_atomicMutex \in Users \cup {Free}

\* The inductive invariant: what a thread has read is still there if it may write.
CellIInv == CellFuns /\ \A t \in Users : CellParts(t)

\* No thread has called anything yet.
LEMMA Cell_Init == CellInit => CellIInv /\ RegisterInit
<1> USE WidthType, FreeIsNew, SomeRest DEF CellInit, RegisterInit
<1>1. CellInit => CellFuns
  BY DEF CellFuns, Values
<1>2. ASSUME CellInit, NEW t \in Users PROVE CellParts(t)
  BY <1>2 DEF CellParts, Instrs, Before
<1> QED
  BY <1>1, <1>2 DEF CellIInv

\* A task switch clears the monitor.
LEMMA Cell_Preempt ==
  ASSUME CellIInv, Preempt
  PROVE  CellIInv' /\ UNCHANGED registerVars
<1> USE FreeIsNew DEF CellIInv, registerVars
<1>1. CellFuns'
  BY SomeRest, WidthType, AC_Applied DEF CellFuns, CellParts, Before, Preempt
<1>2. ASSUME NEW u \in Users PROVE CellParts(u)'
  BY <1>2 DEF CellFuns, CellParts, Instrs, Before, Preempt
<1>3. TRUE
  OBVIOUS
<1>4. UNCHANGED registerVars
  BY DEF CellFuns, CellParts, Before, Applied, Returned, Fetches, Effect, Called, Invoke,
     Respond, Preempt
<1> QED
  BY <1>1, <1>2, <1>3, <1>4

\* The call chooses between the exclusive accesses and the mutex.
LEMMA Cell_Call_Operation ==
  ASSUME CellIInv, NEW t \in Users, NEW o \in Operations, Call_Operation(t, o)
  PROVE  CellIInv' /\ Called(t)
<1> USE FreeIsNew DEF CellIInv, registerVars
<1>1. CellFuns'
  BY SomeRest, WidthType, AC_Applied DEF CellFuns, CellParts, Before, Call_Operation, Invoke,
     Follows, Runs
<1>2. CellParts(t)'
  <2>1. /\ instr[t] = "idle" /\ call'[t] = o /\ seen' = seen /\ m_value' = m_value
        /\ size' = size /\ monitor' = monitor /\ g_atomicMutex' = g_atomicMutex /\ old' = old
    BY DEF CellFuns, Call_Operation, Invoke, Follows, Runs
  <2>2. instr'[t] \in {"lock", "load", "ldrex"}
    BY DEF CellFuns, Call_Operation, Invoke, Follows, Runs
  <2>3. instr'[t] = "lock" => size = "large"
    BY DEF CellFuns, Call_Operation, Invoke, Follows, Runs
  <2>4. size \in {"small", "large"} => (instr'[t] \in {"load", "ldrex"} => size = "small")
    BY DEF CellFuns, Call_Operation, Invoke, Follows, Runs
  <2>5. instr'[t] = "load" => o.name = "load"
    BY DEF CellFuns, Call_Operation, Invoke, Follows, Runs
  <2> QED
    BY <2>1, <2>2, <2>3, <2>4, <2>5, SizesType DEF CellParts, CellFuns, Instrs, Before
<1>3. ASSUME NEW u \in Users \ {t} PROVE CellParts(u)'
  BY <1>3 DEF CellFuns, CellParts, Instrs, Before, Call_Operation, Invoke, Follows, Runs
<1>4. Called(t)
  BY DEF CellFuns, CellParts, Before, Applied, Returned, Fetches, Effect, Called, Invoke,
     Respond, Call_Operation, Invoke, Follows, Runs
<1> QED
  BY <1>1, <1>2, <1>3, <1>4

\* A load that needs no exclusive access takes effect at once.
LEMMA Cell_Load ==
  ASSUME CellIInv, NEW t \in Users, Load(t)
  PROVE  CellIInv' /\ Effect(t)
<1> USE FreeIsNew DEF CellIInv, registerVars
<1>1. CellFuns'
  BY SomeRest, WidthType, AC_Applied DEF CellFuns, CellParts, Before, Load, Runs, Follows, Sees
<1>2. CellParts(t)'
  BY AC_Applied DEF CellFuns, CellParts, Instrs, Before, Load, Runs, Follows, Sees
<1>3. ASSUME NEW u \in Users \ {t} PROVE CellParts(u)'
  BY <1>3 DEF CellFuns, CellParts, Instrs, Before, Load, Runs, Follows, Sees
<1>4. Applied(call[t], m_value) = m_value /\ Returned(call[t], m_value) = m_value
  <2>1. \/ call[t].name = "load"
        \/ call[t].name = "compare_exchange" /\ m_value # call[t].expected
    BY DEF CellParts, Load, Runs, Follows, Sees
  <2> QED
    BY <2>1 DEF Applied, Returned, Fetches
<1>5. call[t] # Free /\ seen[t] = Free
  BY DEF CellParts, Before, Load, Runs, Follows, Sees
<1>6. Effect(t)
  BY <1>4, <1>5 DEF Effect, Load, Runs, Follows, Sees
<1> QED
  BY <1>1, <1>2, <1>3, <1>6

\* LDREX reads and sets the monitor; nothing is seen of it.
LEMMA Cell_LoadExclusive ==
  ASSUME CellIInv, NEW t \in Users, LoadExclusive(t)
  PROVE  CellIInv' /\ UNCHANGED registerVars
<1> USE FreeIsNew DEF CellIInv, registerVars
<1>1. CellFuns'
  BY SomeRest, WidthType, AC_Applied DEF CellFuns, CellParts, Before, LoadExclusive, Runs, Follows
<1>2. CellParts(t)'
  BY AC_Applied DEF CellFuns, CellParts, Instrs, Before, LoadExclusive, Runs, Follows
<1>3. ASSUME NEW u \in Users \ {t} PROVE CellParts(u)'
  BY <1>3 DEF CellFuns, CellParts, Instrs, Before, LoadExclusive, Runs, Follows
<1>4. UNCHANGED registerVars
  BY DEF CellFuns, CellParts, Before, Applied, Returned, Fetches, Effect, Called, Invoke,
     Respond, LoadExclusive, Runs, Follows
<1> QED
  BY <1>1, <1>2, <1>3, <1>4

\* compare_exchange that finds another value takes effect where it reads.
LEMMA Cell_LoadExclusive_Mismatch ==
  ASSUME CellIInv, NEW t \in Users, LoadExclusive_Mismatch(t)
  PROVE  CellIInv' /\ Effect(t)
<1> USE FreeIsNew DEF CellIInv, registerVars
<1>1. CellFuns'
  BY SomeRest, WidthType, AC_Applied DEF CellFuns, CellParts, Before, LoadExclusive_Mismatch,
     Runs, Follows, Sees, Mismatch
<1>2. CellParts(t)'
  BY AC_Applied DEF CellFuns, CellParts, Instrs, Before, LoadExclusive_Mismatch, Runs, Follows,
     Sees, Mismatch
<1>3. ASSUME NEW u \in Users \ {t} PROVE CellParts(u)'
  BY <1>3 DEF CellFuns, CellParts, Instrs, Before, LoadExclusive_Mismatch, Runs, Follows, Sees,
     Mismatch
<1>4. Applied(call[t], m_value) = m_value /\ Returned(call[t], m_value) = m_value
  <2>1. \/ call[t].name = "load"
        \/ call[t].name = "compare_exchange" /\ m_value # call[t].expected
    BY DEF CellParts, LoadExclusive_Mismatch, Runs, Follows, Sees, Mismatch
  <2> QED
    BY <2>1 DEF Applied, Returned, Fetches
<1>5. call[t] # Free /\ seen[t] = Free
  BY DEF CellParts, Before, LoadExclusive_Mismatch, Runs, Follows, Sees, Mismatch
<1>6. Effect(t)
  BY <1>4, <1>5 DEF Effect, LoadExclusive_Mismatch, Runs, Follows, Sees, Mismatch
<1> QED
  BY <1>1, <1>2, <1>3, <1>6

\* STREX takes effect if the monitor is still set: nobody wrote since LDREX.
LEMMA Cell_StoreExclusive ==
  ASSUME CellIInv, NEW t \in Users, StoreExclusive(t)
  PROVE  CellIInv' /\ Effect(t)
<1> USE FreeIsNew DEF CellIInv, registerVars
<1>1. CellFuns'
  BY SomeRest, WidthType, AC_Applied DEF CellFuns, CellParts, Before, StoreExclusive, Follows,
     Stores, Sees
<1>2. CellParts(t)'
  BY AC_Applied DEF CellFuns, CellParts, Instrs, Before, StoreExclusive, Follows, Stores, Sees
<1>3. ASSUME NEW u \in Users \ {t} PROVE CellParts(u)'
  BY <1>3 DEF CellFuns, CellParts, Instrs, Before, StoreExclusive, Follows, Stores, Sees
<1>4. old[t] = m_value
  BY DEF CellFuns, CellParts, StoreExclusive, Follows, Stores, Sees
<1>5. call[t] # Free /\ seen[t] = Free
  BY DEF CellParts, Before, StoreExclusive, Follows, Stores, Sees
<1>6. Effect(t)
  BY <1>4, <1>5 DEF Effect, StoreExclusive, Follows, Stores, Sees
<1> QED
  BY <1>1, <1>2, <1>3, <1>6

\* STREX that fails goes back to LDREX.
LEMMA Cell_StoreExclusive_Fails ==
  ASSUME CellIInv, NEW t \in Users, StoreExclusive_Fails(t)
  PROVE  CellIInv' /\ UNCHANGED registerVars
<1> USE FreeIsNew DEF CellIInv, registerVars
<1>1. CellFuns'
  BY SomeRest, WidthType, AC_Applied DEF CellFuns, CellParts, Before, StoreExclusive_Fails, Follows
<1>2. CellParts(t)'
  BY AC_Applied DEF CellFuns, CellParts, Instrs, Before, StoreExclusive_Fails, Follows
<1>3. ASSUME NEW u \in Users \ {t} PROVE CellParts(u)'
  BY <1>3 DEF CellFuns, CellParts, Instrs, Before, StoreExclusive_Fails, Follows
<1>4. UNCHANGED registerVars
  BY DEF CellFuns, CellParts, Before, Applied, Returned, Fetches, Effect, Called, Invoke,
     Respond, StoreExclusive_Fails, Follows
<1> QED
  BY <1>1, <1>2, <1>3, <1>4

\* The mutex is locked.
LEMMA Cell_Acquire ==
  ASSUME CellIInv, NEW t \in Users, Acquire(t)
  PROVE  CellIInv' /\ UNCHANGED registerVars
<1> USE FreeIsNew DEF CellIInv, registerVars
<1>1. CellFuns'
  BY SomeRest, WidthType, AC_Applied DEF CellFuns, CellParts, Before, Acquire, Follows
<1>2. CellParts(t)'
  BY AC_Applied DEF CellFuns, CellParts, Instrs, Before, Acquire, Follows
<1>3. ASSUME NEW u \in Users \ {t} PROVE CellParts(u)'
  BY <1>3 DEF CellFuns, CellParts, Instrs, Before, Acquire, Follows
<1>4. UNCHANGED registerVars
  BY DEF CellFuns, CellParts, Before, Applied, Returned, Fetches, Effect, Called, Invoke,
     Respond, Acquire, Follows
<1> QED
  BY <1>1, <1>2, <1>3, <1>4

\* The value is read, and remembered, under the mutex.
LEMMA Cell_ReadLocked ==
  ASSUME CellIInv, NEW t \in Users, ReadLocked(t)
  PROVE  CellIInv' /\ UNCHANGED registerVars
<1> USE FreeIsNew DEF CellIInv, registerVars
<1>1. CellFuns'
  BY SomeRest, WidthType, AC_Applied DEF CellFuns, CellParts, Before, ReadLocked, Follows
<1>2. CellParts(t)'
  BY AC_Applied DEF CellFuns, CellParts, Instrs, Before, ReadLocked, Follows
<1>3. ASSUME NEW u \in Users \ {t} PROVE CellParts(u)'
  BY <1>3 DEF CellFuns, CellParts, Instrs, Before, ReadLocked, Follows
<1>4. UNCHANGED registerVars
  BY DEF CellFuns, CellParts, Before, Applied, Returned, Fetches, Effect, Called, Invoke,
     Respond, ReadLocked, Follows
<1> QED
  BY <1>1, <1>2, <1>3, <1>4

\* The value is written under the mutex: here the operation takes effect.
LEMMA Cell_WriteLocked ==
  ASSUME CellIInv, NEW t \in Users, WriteLocked(t)
  PROVE  CellIInv' /\ Effect(t)
<1> USE FreeIsNew DEF CellIInv, registerVars
<1>1. CellFuns'
  BY SomeRest, WidthType, AC_Applied DEF CellFuns, CellParts, Before, WriteLocked, Follows,
     Stores, Sees
<1>2. CellParts(t)'
  BY AC_Applied DEF CellFuns, CellParts, Instrs, Before, WriteLocked, Follows, Stores, Sees
<1>3. ASSUME NEW u \in Users \ {t} PROVE CellParts(u)'
  BY <1>3 DEF CellFuns, CellParts, Instrs, Before, WriteLocked, Follows, Stores, Sees
<1>4. old[t] = m_value
  BY DEF CellFuns, CellParts, WriteLocked, Follows, Stores, Sees
<1>5. call[t] # Free /\ seen[t] = Free
  BY DEF CellParts, Before, WriteLocked, Follows, Stores, Sees
<1>6. Effect(t)
  BY <1>4, <1>5 DEF Effect, WriteLocked, Follows, Stores, Sees
<1> QED
  BY <1>1, <1>2, <1>3, <1>6

\* The mutex is unlocked.
LEMMA Cell_ReleaseMutex ==
  ASSUME CellIInv, NEW t \in Users, ReleaseMutex(t)
  PROVE  CellIInv' /\ UNCHANGED registerVars
<1> USE FreeIsNew DEF CellIInv, registerVars
<1>1. CellFuns'
  BY SomeRest, WidthType, AC_Applied DEF CellFuns, CellParts, Before, ReleaseMutex, Follows
<1>2. CellParts(t)'
  BY AC_Applied DEF CellFuns, CellParts, Instrs, Before, ReleaseMutex, Follows
<1>3. ASSUME NEW u \in Users \ {t} PROVE CellParts(u)'
  BY <1>3 DEF CellFuns, CellParts, Instrs, Before, ReleaseMutex, Follows
<1>4. UNCHANGED registerVars
  BY DEF CellFuns, CellParts, Before, Applied, Returned, Fetches, Effect, Called, Invoke,
     Respond, ReleaseMutex, Follows
<1> QED
  BY <1>1, <1>2, <1>3, <1>4

\* The operation returns what it has seen.
LEMMA Cell_Return_Operation ==
  ASSUME CellIInv, NEW t \in Users, Return_Operation(t)
  PROVE  CellIInv' /\ Respond(t)
<1> USE FreeIsNew DEF CellIInv, registerVars
<1>1. CellFuns'
  BY SomeRest, WidthType, AC_Applied DEF CellFuns, CellParts, Before, Return_Operation, Runs,
     Follows, Respond
<1>2. CellParts(t)'
  BY AC_Applied DEF CellFuns, CellParts, Instrs, Before, Return_Operation, Runs, Follows, Respond
<1>3. ASSUME NEW u \in Users \ {t} PROVE CellParts(u)'
  BY <1>3 DEF CellFuns, CellParts, Instrs, Before, Return_Operation, Runs, Follows, Respond
<1>4. Respond(t)
  BY DEF CellFuns, CellParts, Before, Applied, Returned, Fetches, Effect, Called, Invoke,
     Respond, Return_Operation, Runs, Follows, Respond
<1> QED
  BY <1>1, <1>2, <1>3, <1>4

\* CellIInv is inductive, and every step is one of the register, or none.
LEMMA Cell_Next == CellIInv /\ [CellNext]_cellVars => CellIInv' /\ [RegisterNext]_registerVars
<1> SUFFICES ASSUME CellIInv, [CellNext]_cellVars
             PROVE  CellIInv' /\ [RegisterNext]_registerVars
  OBVIOUS
<1>1. CASE Preempt
  BY <1>1, Cell_Preempt
<1>2. ASSUME NEW t \in Users,
             \/ \E o \in Operations : Call_Operation(t, o)
             \/ Load(t) \/ LoadExclusive(t) \/ LoadExclusive_Mismatch(t)
             \/ StoreExclusive(t) \/ StoreExclusive_Fails(t)
             \/ Acquire(t) \/ ReadLocked(t) \/ WriteLocked(t) \/ ReleaseMutex(t)
             \/ Return_Operation(t)
      PROVE  CellIInv' /\ [RegisterNext]_registerVars
  BY <1>2, Cell_Call_Operation, Cell_Load, Cell_LoadExclusive, Cell_LoadExclusive_Mismatch,
     Cell_StoreExclusive, Cell_StoreExclusive_Fails, Cell_Acquire, Cell_ReadLocked,
     Cell_WriteLocked, Cell_ReleaseMutex, Cell_Return_Operation DEF RegisterNext
<1>3. CASE UNCHANGED cellVars
  <2>1. CellFuns'
    BY <1>3 DEF CellIInv, CellFuns, cellVars, registerVars
  <2>2. ASSUME NEW t \in Users PROVE CellParts(t)'
    BY <1>3 DEF CellIInv, CellParts, cellVars, registerVars
  <2> QED
    BY <1>3, <2>1, <2>2 DEF CellIInv, cellVars
<1> QED
  BY <1>1, <1>2, <1>3 DEF CellNext

\* ImplementsRegister: every operation of atomic takes effect at once, between its call
\* and its return, with exclusive accesses as with the mutex (_armcc/_atomic.hpp).
THEOREM AtomicCellCorrect == CellSpec => ImplementsRegister
BY Cell_Init, Cell_Next, PTL DEF CellSpec, ImplementsRegister, RegisterSpec

\* What a thread has called, what it sees and where it is are functions of the threads.
CellShapes == /\ call = [t \in Users |-> call[t]] /\ seen = [t \in Users |-> seen[t]]
              /\ instr = [t \in Users |-> instr[t]]

\* A step changes a function for one thread, or not at all.
LEMMA Cell_Shapes ==
  /\ CellInit => CellShapes
  /\ CellShapes /\ [CellNext]_cellVars => CellShapes'
<1>1. CellInit => CellShapes
  BY DEF CellInit, RegisterInit, CellShapes
<1>2. ASSUME CellShapes, [CellNext]_cellVars PROVE CellShapes'
  <2>1. ASSUME NEW f, NEW g, f = [t \in Users |-> f[t]], NEW u, NEW v, g = [f EXCEPT ![u] = v]
        PROVE  g = [t \in Users |-> g[t]]
    BY <2>1
  <2>2. \/ call' = call
        \/ \E u \in Users : \E v : call' = [call EXCEPT ![u] = v]
    BY <1>2 DEF CellNext, cellVars, registerVars, Preempt, Call_Operation, Invoke, Load,
       LoadExclusive, LoadExclusive_Mismatch, StoreExclusive, StoreExclusive_Fails, Stores,
       Acquire, ReadLocked, WriteLocked, ReleaseMutex, Return_Operation, Respond
  <2>3. \/ seen' = seen
        \/ \E u \in Users : \E v : seen' = [seen EXCEPT ![u] = v]
    BY <1>2 DEF CellNext, cellVars, registerVars, Preempt, Call_Operation, Invoke, Load, Sees,
       LoadExclusive, LoadExclusive_Mismatch, StoreExclusive, StoreExclusive_Fails, Stores,
       Acquire, ReadLocked, WriteLocked, ReleaseMutex, Return_Operation, Respond
  <2>4. \/ instr' = instr
        \/ \E u \in Users : \E v : instr' = [instr EXCEPT ![u] = v]
    BY <1>2 DEF CellNext, cellVars, registerVars, Preempt, Call_Operation, Load, Follows,
       LoadExclusive, LoadExclusive_Mismatch, StoreExclusive, StoreExclusive_Fails,
       Acquire, ReadLocked, WriteLocked, ReleaseMutex, Return_Operation
  <2>5. call' = [t \in Users |-> call'[t]] BY <1>2, <2>1, <2>2 DEF CellShapes
  <2>6. seen' = [t \in Users |-> seen'[t]] BY <1>2, <2>1, <2>3 DEF CellShapes
  <2>7. instr' = [t \in Users |-> instr'[t]] BY <1>2, <2>1, <2>4 DEF CellShapes
  <2> QED BY <2>5, <2>6, <2>7 DEF CellShapes
<1> QED BY <1>1, <1>2

\* CellTypeOK: what is loaded and stored are values, and the word, its owner and its rest are
\* what they can be (_armcc/_atomic.hpp).
THEOREM CellTypes == CellSpec => []CellTypeOK
<1>1. CellIInv /\ CellShapes => CellTypeOK
  <2> SUFFICES ASSUME CellIInv, CellShapes PROVE CellTypeOK
    OBVIOUS
  <2>1. ASSUME NEW t \in Users
        PROVE  /\ call[t] \in Operations \cup {Free} /\ seen[t] \in Values \cup {Free}
               /\ instr[t] \in Instrs
    BY DEF CellIInv, CellParts, Instrs
  <2>2. /\ call \in [Users -> Operations \cup {Free}] /\ seen \in [Users -> Values \cup {Free}]
        /\ instr \in [Users -> Instrs]
    BY <2>1 DEF CellShapes
  <2> QED
    BY <2>2 DEF CellTypeOK, CellIInv, CellFuns, Instrs, Before
<1> QED
  BY <1>1, Cell_Init, Cell_Next, Cell_Shapes, PTL DEF CellSpec
-----------------------------------------------------------------------------
(* Signals. *)

\* The inductive invariant; what is reported belongs to a call.
SignalsIInv == /\ SignalsTypeOK /\ SignalsExact
               /\ waiting # "out" => reported = {}

\* Every step keeps the books.
LEMMA Signals_Next == SignalsIInv /\ [SignalsNext]_signalVars => SignalsIInv'
<1> SUFFICES ASSUME SignalsIInv, [SignalsNext]_signalVars PROVE SignalsIInv'
  OBVIOUS
<1> USE MaxPiecesType DEF SignalsIInv, SignalsTypeOK, SignalsExact
<1>1. CASE Ask_Signals
  BY <1>1 DEF Ask_Signals, Answer, Ready, Selected
<1>2. CASE TimeOut_Signals \/ TimeOut_Until
  BY <1>2 DEF TimeOut_Signals, TimeOut_Until
<1>3. CASE Detach_Signals
  BY <1>3 DEF Detach_Signals
<1>4. ASSUME NEW f \in SUBSET SignalFlags, Set_Signals(f) PROVE SignalsIInv'
  BY <1>4 DEF Set_Signals, Answer, Ready, Selected
<1>5. ASSUME NEW f \in SUBSET SignalFlags, Clear_Signals(f) PROVE SignalsIInv'
  BY <1>5 DEF Clear_Signals, Ready
<1>6. ASSUME NEW w \in SUBSET SignalFlags, NEW n \in 0 .. MaxPieces, NEW timeout \in BOOLEAN,
             Wait_Signals(w, n, timeout)
      PROVE  SignalsIInv'
  BY <1>6 DEF Wait_Signals
<1>7. CASE UNCHANGED signalVars
  BY <1>7 DEF signalVars
<1> QED
  BY <1>1, <1>2, <1>3, <1>4, <1>5, <1>6, <1>7 DEF SignalsNext

\* No signal is lost or reported twice (_cmsis_rtos/_thread.cpp, signals of thread).
THEOREM SignalsKept == SignalsSpec => [](SignalsTypeOK /\ SignalsExact)
<1>1. SignalsInit => SignalsIInv
  <2> SUFFICES ASSUME SignalsInit PROVE SignalsIInv
    OBVIOUS
  <2> USE DEF SignalsInit
  <2>1. {flagsSet, asked, reported, owed, found} \subseteq SUBSET SignalFlags
    OBVIOUS
  <2>2. {joinable, timed} \subseteq BOOLEAN
    BY Zenon
  <2>3. pieces \in 0 .. MaxPieces
    BY MaxPiecesType
  <2> QED
    BY <2>1, <2>2, <2>3 DEF SignalsIInv, SignalsTypeOK, SignalsExact
<1> QED
  BY <1>1, Signals_Next, PTL DEF SignalsSpec, SignalsIInv
-----------------------------------------------------------------------------
(* TimedWait. *)

\* The milliseconds for which a call waits in pieces.
TotalMs == IF waitOp = "sleep_for" THEN Ceil(goal) + 1 ELSE AtLeast(Ceil(goal), 0)

\* The time that the pieces end at, if the thread is not kept from running: the last tick
\* and the milliseconds that are left.
Bounds_InPieces ==
  waitOp \in InPieces /\ waitAt \in {"loop", "kernel"} =>
    /\ elapsed - offset + ms * Unit + left * Unit >= TotalMs * Unit - (Unit - 1)
    /\ wakeups = 0 => elapsed - (IF waitAt = "kernel" THEN offset ELSE 0) + ms * Unit + left * Unit
                        <= TotalMs * Unit + delay

\* The same for a wait that asks the clock each time.
Bounds_Until ==
  waitOp \notin InPieces /\ waitAt \in {"loop", "kernel"} /\ wakeups = 0 =>
    elapsed - (IF waitAt = "kernel" THEN offset ELSE 0) + left * Unit
      <= AtLeast(goal, 0) + Unit + delay

\* A wait that has not begun, is under way, or has its token.
TWShape ==
  /\ waitAt = "call" <=> waitOp = "none"
  /\ waitAt = "call" => /\ elapsed = 0 /\ goal = 0 /\ looked = 0 /\ delay = 0 /\ wakeups = 0
                        /\ ms = 0
  /\ IF waitAt = "kernel" THEN left # 0 ELSE left = 0
  /\ waitAt = "got" => waitOp \notin Sleep
  /\ success => waitAt = "done"
  /\ waitOp = "sleep_for" /\ waitAt # "done" => goal > 0

\* The inductive invariant.
TWIInv == TWTypeOK /\ TWShape /\ Bounds_InPieces /\ Bounds_Until /\ TimeoutKept

\* Products with the number of nanoseconds of a tick ...
LEMMA TW_Products ==
  ASSUME NEW a \in Int, NEW b \in Int, NEW u \in Int
  PROVE  /\ a * u \in Int /\ (a - b) * u = a * u - b * u /\ (a + 1) * u = a * u + u
         /\ (a - 1) * u = a * u - u /\ 0 * u = 0
OBVIOUS

\* ... their order ...
LEMMA TW_Monotone ==
  ASSUME NEW a \in Int, NEW b \in Int, NEW u \in Nat, a <= b
  PROVE  a * u <= b * u
OBVIOUS

\* ... and a quotient.
LEMMA TW_Quotient ==
  ASSUME NEW d \in Nat, NEW u \in Nat, u # 0
  PROVE  /\ d \div u \in Nat /\ (d \div u) * u <= d /\ d < (d \div u) * u + u
OBVIOUS

\* Casts round towards zero.
LEMMA TW_Cast ==
  ASSUME NEW d \in Int
  PROVE  /\ Cast(d) \in Int /\ (d >= 0 => Cast(d) * Unit <= d /\ d < Cast(d) * Unit + Unit)
         /\ (d < 0 => Cast(d) <= 0 /\ d <= Cast(d) * Unit /\ Cast(d) * Unit - Unit < d)
<1>1. Unit \in Nat /\ Unit # 0
  BY TimedWaitConstants
<1>2. CASE d >= 0
  BY <1>1, <1>2, TW_Quotient DEF Cast
<1>3. CASE d < 0
  <2> DEFINE q == (-d) \div Unit
  <2>1. q \in Nat /\ q * Unit <= -d /\ -d < q * Unit + Unit
    BY <1>1, <1>3, TW_Quotient
  <2>2. Cast(d) = -q
    BY <1>3 DEF Cast
  <2> HIDE DEF q
  <2>3. Cast(d) * Unit = -(q * Unit) /\ q * Unit \in Int
    BY <1>1, <2>1, <2>2
  <2> QED
    BY <1>1, <1>3, <2>1, <2>2, <2>3
<1> QED
  BY <1>2, <1>3

\* Ceil rounds up.
LEMMA TW_Ceil ==
  ASSUME NEW d \in Int
  PROVE  /\ Ceil(d) \in Int /\ d <= Ceil(d) * Unit /\ Ceil(d) * Unit < d + Unit
         /\ (d <= 0 => Ceil(d) <= 0) /\ (d > 0 => Ceil(d) >= 1)
<1>1. Unit \in Nat /\ Unit # 0
  BY TimedWaitConstants
<1> DEFINE c == Cast(d)
<1>2. /\ c \in Int /\ (d >= 0 => c * Unit <= d /\ d < c * Unit + Unit)
      /\ (d < 0 => c <= 0 /\ d <= c * Unit /\ c * Unit - Unit < d)
  BY TW_Cast
<1>3. Ceil(d) = IF c * Unit < d THEN c + 1 ELSE c
  BY DEF Ceil
<1> HIDE DEF c
<1>4. c * Unit \in Int /\ (c + 1) * Unit = c * Unit + Unit
  BY <1>1, <1>2, TW_Products
<1>5. Ceil(d) \in Int /\ d <= Ceil(d) * Unit /\ Ceil(d) * Unit < d + Unit
  BY <1>1, <1>2, <1>3, <1>4
<1>6. d <= 0 => Ceil(d) <= 0
  <2>1. SUFFICES ASSUME d <= 0, Ceil(d) >= 1 PROVE FALSE
    BY <1>5
  <2>2. 1 * Unit <= Ceil(d) * Unit
    BY <2>1, <1>1, <1>5, TW_Monotone
  <2> QED
    BY <2>1, <2>2, <1>1, <1>5
<1>7. d > 0 => Ceil(d) >= 1
  <2>1. SUFFICES ASSUME d > 0, Ceil(d) <= 0 PROVE FALSE
    BY <1>5
  <2>2. Ceil(d) * Unit <= 0 * Unit
    BY <2>1, <1>1, <1>5, TW_Monotone
  <2> QED
    BY <2>1, <2>2, <1>1, <1>5
<1> QED
  BY <1>5, <1>6, <1>7

\* What is known of the numbers.
LEMMA TW_Numbers ==
  ASSUME TWIInv
  PROVE  /\ Unit \in Nat /\ Unit # 0 /\ MaxPiece \in Nat /\ MaxPiece # 0
         /\ MaxDelay \in Nat /\ MaxWakeups \in Nat
         /\ goal \in Int /\ elapsed \in Nat /\ offset \in Int /\ 0 <= offset /\ offset < Unit
         /\ ms \in Nat /\ left \in Nat /\ left <= MaxPiece /\ delay \in Nat /\ wakeups \in Nat
         /\ looked \in Nat /\ looked <= elapsed
         /\ ms * Unit \in Int /\ left * Unit \in Int
         /\ TotalMs \in Int /\ TotalMs * Unit \in Int
<1>1. /\ Unit \in Nat /\ Unit # 0 /\ MaxPiece \in Nat /\ MaxPiece # 0 /\ Durations \subseteq Int
      /\ MaxDelay \in Nat /\ MaxWakeups \in Nat
  BY TimedWaitConstants
<1>2. /\ goal \in Int /\ elapsed \in Nat /\ offset \in Int /\ 0 <= offset /\ offset < Unit
      /\ ms \in Nat /\ left \in Nat /\ left <= MaxPiece /\ delay \in Nat /\ wakeups \in Nat
      /\ looked \in Nat /\ looked <= elapsed
  BY <1>1 DEF TWIInv, TWTypeOK
<1>3. Ceil(goal) \in Int /\ (goal > 0 => Ceil(goal) >= 1)
  BY <1>2, TW_Ceil
<1>4. TotalMs \in Int
  BY <1>3 DEF TotalMs, AtLeast
<1>5. ms * Unit \in Int /\ left * Unit \in Int /\ TotalMs * Unit \in Int
  BY <1>1, <1>2, <1>4
<1> QED
  BY <1>1, <1>2, <1>4, <1>5

\* The timeout in whole milliseconds.
LEMMA TW_Total ==
  ASSUME TWIInv, waitOp \in InPieces, waitAt # "done"
  PROVE  /\ waitOp \in Relative => /\ TotalMs * Unit >= goal
                                   /\ TotalMs * Unit <= AtLeast(goal, 0) + Unit - 1
         /\ waitOp \notin Relative => /\ TotalMs * Unit >= goal + Unit
                                      /\ TotalMs * Unit <= AtLeast(goal, 0) + 2 * Unit - 1
                                      /\ waitOp = "sleep_for"
<1>1. Unit \in Nat /\ Unit # 0 /\ goal \in Int /\ TotalMs \in Int
  BY TW_Numbers
<1> DEFINE c == Ceil(goal)
<1>2. /\ c \in Int /\ goal <= c * Unit /\ c * Unit < goal + Unit
      /\ (goal <= 0 => c <= 0) /\ (goal > 0 => c >= 1)
  BY <1>1, TW_Ceil
<1>3. TotalMs = IF waitOp = "sleep_for" THEN c + 1 ELSE IF c < 0 THEN 0 ELSE c
  BY DEF TotalMs, AtLeast
<1>4. AtLeast(goal, 0) = IF goal < 0 THEN 0 ELSE goal
  BY DEF AtLeast
<1>5. waitOp = "sleep_for" => goal > 0
  BY DEF TWIInv, TWShape
<1>6. waitOp \in Relative => waitOp # "sleep_for"
  BY DEF Relative
<1>7. waitOp \notin Relative => waitOp = "sleep_for"
  BY DEF InPieces
<1> HIDE DEF c
<1>8. (c + 1) * Unit = c * Unit + Unit /\ 0 * Unit = 0 /\ c * Unit \in Int
  BY <1>1, <1>2, TW_Products
<1>9. CASE waitOp \notin Relative
  <2>1. TotalMs * Unit = c * Unit + Unit
    BY <1>3, <1>7, <1>8, <1>9
  <2> QED
    BY <2>1, <1>1, <1>2, <1>4, <1>5, <1>7, <1>8, <1>9
<1>10. CASE waitOp \in Relative
  <2>1. CASE c < 0
    <3>1. TotalMs * Unit = 0 /\ goal <= 0
      BY <2>1, <1>1, <1>2, <1>3, <1>6, <1>8, <1>10
    <3> QED
      BY <3>1, <1>1, <1>4, <1>10
  <2>2. CASE c >= 0
    <3>1. TotalMs * Unit = c * Unit
      BY <2>2, <1>2, <1>3, <1>6, <1>10
    <3>2. goal <= 0 => c = 0 /\ c * Unit = 0
      BY <2>2, <1>2, <1>8
    <3> QED
      BY <3>1, <3>2, <1>1, <1>2, <1>4, <1>8, <1>10
  <2> QED
    BY <2>1, <2>2, <1>2
<1> QED
  BY <1>9, <1>10

\* No wait is under way.
LEMMA TW_Init == TWInit => TWIInv
<1> SUFFICES ASSUME TWInit PROVE TWIInv
  OBVIOUS
<1>1. Unit \in Nat /\ MaxPiece \in Nat /\ MaxDelay \in Nat /\ MaxWakeups \in Nat
  BY TimedWaitConstants
<1>2. TWTypeOK
  <2>1. 0 \in 0 .. MaxPiece /\ 0 \in 0 .. MaxDelay /\ 0 \in 0 .. MaxWakeups /\ 0 \in 0 .. 0
    BY <1>1
  <2> QED
    BY <2>1 DEF TWInit, TWTypeOK
<1>3. TWShape /\ Bounds_InPieces /\ Bounds_Until /\ TimeoutKept
  BY DEF TWInit, TWShape, Bounds_InPieces, Bounds_Until, TimeoutKept, Sleep
<1> QED
  BY <1>2, <1>3 DEF TWIInv

\* A call begins.
LEMMA TW_Call ==
  ASSUME TWIInv, NEW d \in Durations,
         \/ Call_SleepFor(d) \/ \E o \in Relative : Call_Relative(o, d)
         \/ \E o \in Deadline \cup {"sleep_until"} : Call_Until(o, d)
  PROVE  TWIInv'
<1>1. /\ waitOp = "none" /\ waitAt = "call" /\ goal' = d
      /\ UNCHANGED <<elapsed, offset, left, ready, success, looked, delay, wakeups>>
  BY DEF Call_SleepFor, Call_Relative, Call_Until, Begins, TWIInv, TWShape
<1>2. /\ elapsed = 0 /\ looked = 0 /\ delay = 0 /\ wakeups = 0 /\ left = 0 /\ ms = 0
      /\ success = FALSE
  BY <1>1 DEF TWIInv, TWShape, TWTypeOK
<1>3. d \in Int /\ Durations \subseteq Int /\ Unit \in Nat /\ Unit # 0 /\ MaxPiece \in Nat
      /\ offset \in Int /\ 0 <= offset /\ offset < Unit
  BY TimedWaitConstants, TW_Numbers
<1>4. Ceil(d) \in Int /\ (d > 0 => Ceil(d) >= 1)
  BY <1>3, TW_Ceil
<1>5. PICK o \in Relative \cup Deadline \cup Sleep :
        /\ waitOp' = o
        /\ o \in Relative => waitAt' = "loop" /\ ms' = AtLeast(Ceil(d), 0)
        /\ o = "sleep_for" => /\ waitAt' = IF d <= 0 THEN "done" ELSE "loop"
                              /\ ms' = IF d <= 0 THEN 0 ELSE Ceil(d) + 1
        /\ o \notin InPieces => waitAt' = "loop" /\ ms' = ms
  BY DEF Call_SleepFor, Call_Relative, Call_Until, Begins, Relative, Deadline, Sleep, InPieces
<1>6. /\ "none" \notin Relative \cup Deadline \cup Sleep
      /\ "sleep_for" \notin Relative
  BY DEF Relative, Deadline, Sleep
<1>7. CASE o \in InPieces
  <2>1. ms' \in Nat /\ (waitAt' = "loop" => ms' = TotalMs')
    <3>1. CASE o = "sleep_for"
      BY <3>1, <1>1, <1>3, <1>4, <1>5 DEF TotalMs
    <3>2. CASE o # "sleep_for"
      <4>1. o \in Relative
        BY <3>2, <1>7 DEF InPieces
      <4> QED
        BY <4>1, <3>2, <1>1, <1>4, <1>5 DEF TotalMs, AtLeast
    <3> QED
      BY <3>1, <3>2
  <2>2. waitAt' \in {"loop", "done"} /\ (waitAt' = "done" => o = "sleep_for" /\ d <= 0)
    BY <1>5, <1>7 DEF InPieces
  <2>3. TWTypeOK'
    BY <2>1, <2>2, <1>1, <1>2, <1>5, TW_Numbers DEF TWIInv, TWTypeOK
  <2>4. TWShape'
    BY <2>2, <1>1, <1>2, <1>3, <1>5, <1>6, TW_Numbers DEF TWShape
  <2>5. ms' * Unit \in Int /\ 0 * Unit = 0
    BY <2>1, <1>3
  <2>6. Bounds_InPieces'
    BY <2>1, <2>2, <2>5, <1>1, <1>2, <1>3 DEF Bounds_InPieces
  <2>7. Bounds_Until'
    BY <1>5, <1>7 DEF Bounds_Until
  <2>8. TimeoutKept'
    BY <2>2, <1>1, <1>2, <1>3, <1>5, <1>6 DEF TimeoutKept, AtLeast
  <2> QED
    BY <2>3, <2>4, <2>6, <2>7, <2>8 DEF TWIInv
<1>8. CASE o \notin InPieces
  <2>1. waitAt' = "loop" /\ ms' = ms
    BY <1>5, <1>8
  <2>2. TWTypeOK'
    BY <2>1, <1>1, <1>2, <1>5, TW_Numbers DEF TWIInv, TWTypeOK
  <2>3. TWShape'
    BY <2>1, <1>1, <1>2, <1>5, <1>6, <1>8 DEF TWShape, InPieces
  <2>4. Bounds_InPieces' /\ TimeoutKept'
    BY <2>1, <1>5, <1>8 DEF Bounds_InPieces, TimeoutKept
  <2>5. 0 * Unit = 0
    BY <1>3
  <2>6. Bounds_Until'
    BY <2>1, <2>5, <1>1, <1>2, <1>3, <1>5, <1>8 DEF Bounds_Until, AtLeast
  <2> QED
    BY <2>2, <2>3, <2>4, <2>6 DEF TWIInv
<1> QED
  BY <1>7, <1>8

\* A piece of a wait for a duration: what it takes from ms it gives to the kernel.
LEMMA TW_Piece_Relative ==
  ASSUME TWIInv, Piece_Relative
  PROVE  TWIInv'
<1> DEFINE n == AtMost(ms, MaxPiece)
<1>1. /\ waitAt = "loop" /\ waitOp \in InPieces /\ ms' = ms - n /\ Ask(n)
      /\ UNCHANGED <<waitOp, goal, elapsed, offset, success, delay, wakeups>>
  BY DEF Piece_Relative
<1>2. n \in Nat /\ n <= MaxPiece /\ n <= ms /\ (n = 0 => ms = 0)
  BY TW_Numbers DEF AtMost
<1>3. left = 0 /\ ~success /\ (waitOp = "sleep_for" => goal > 0) /\ waitOp # "none"
  BY <1>1 DEF TWIInv, TWShape
<1> HIDE DEF n
<1>4. ms' \in Nat
  BY <1>1, <1>2, TW_Numbers
<1>5. ms' * Unit = ms * Unit - n * Unit /\ n * Unit \in Int /\ 0 * Unit = 0
  BY <1>1, <1>2, TW_Numbers, TW_Products
<1>6. /\ elapsed - offset + ms * Unit >= TotalMs * Unit - (Unit - 1)
      /\ wakeups = 0 => elapsed + ms * Unit <= TotalMs * Unit + delay
  BY <1>1, <1>3, <1>5, TW_Numbers DEF TWIInv, Bounds_InPieces
<1>7. TotalMs' = TotalMs
  BY <1>1 DEF TotalMs
<1>8. CASE Waits /\ ready
  <2>1. waitAt' = "got" /\ ready' = FALSE /\ left' = 0 /\ looked' = elapsed /\ waitOp \notin Sleep
    BY <1>1, <1>8 DEF Ask, Waits
  <2>2. TWTypeOK'
    <3>1. MaxPiece \in Nat /\ elapsed \in Nat
      BY TW_Numbers
    <3>2. left' \in 0 .. MaxPiece /\ looked' \in 0 .. elapsed'
      BY <3>1, <2>1, <1>1
    <3>3. ready' \in BOOLEAN /\ waitAt' \in {"call", "loop", "kernel", "got", "done"}
      BY <2>1
    <3> QED
      BY <3>2, <3>3, <1>1, <1>4 DEF TWIInv, TWTypeOK
  <2>3. TWShape'
    BY <2>1, <1>1, <1>3 DEF TWShape, TWIInv
  <2>4. Bounds_InPieces' /\ Bounds_Until' /\ TimeoutKept'
    BY <2>1 DEF Bounds_InPieces, Bounds_Until, TimeoutKept
  <2> QED
    BY <2>2, <2>3, <2>4 DEF TWIInv
<1>9. CASE ~(Waits /\ ready)
  <2>1. /\ waitAt' = IF n = 0 THEN "done" ELSE "kernel"
        /\ left' = n /\ ready' = ready /\ looked' = elapsed
    BY <1>1, <1>9 DEF Ask
  <2>2. TWTypeOK'
    BY <2>1, <1>1, <1>2, <1>4, TW_Numbers DEF TWIInv, TWTypeOK
  <2>3. TWShape'
    BY <2>1, <1>1, <1>3 DEF TWShape, TWIInv
  <2>4. Bounds_Until'
    BY <1>1 DEF Bounds_Until
  <2>5. Bounds_InPieces'
    BY <2>1, <1>1, <1>2, <1>5, <1>6, <1>7, TW_Numbers DEF Bounds_InPieces
  <2>6. TimeoutKept'
    <3>1. SUFFICES ASSUME n = 0 PROVE TimeoutKept'
      BY <2>1 DEF TimeoutKept
    <3>2. ms * Unit = 0
      BY <3>1, <1>2, <1>5
    <3>3. elapsed >= TotalMs * Unit - (Unit - 1) /\ (wakeups = 0 =>
              elapsed <= TotalMs * Unit + delay)
      BY <3>2, <1>6, TW_Numbers
    <3>4. AtLeast(goal, 0) \in Int
      BY TW_Numbers DEF AtLeast
    <3>5. waitAt # "done"
      BY <1>1
    <3>6. CASE waitOp \in Relative
      <4>1. /\ TotalMs * Unit >= goal /\ TotalMs * Unit <= AtLeast(goal, 0) + Unit - 1
            /\ waitOp # "sleep_for"
        BY <3>5, <3>6, <1>1, TW_Total DEF Relative
      <4> QED
        BY <4>1, <3>3, <3>4, <3>6, <2>1, <1>1, TW_Numbers DEF TimeoutKept
    <3>7. CASE waitOp \notin Relative
      <4>1. /\ TotalMs * Unit >= goal + Unit /\ TotalMs * Unit <= AtLeast(goal, 0) + 2 * Unit - 1
            /\ waitOp = "sleep_for"
        BY <3>5, <3>7, <1>1, TW_Total
      <4> QED
        BY <4>1, <3>3, <3>4, <3>7, <2>1, <1>1, TW_Numbers DEF TimeoutKept
    <3> QED
      BY <3>6, <3>7
  <2> QED
    BY <2>2, <2>3, <2>4, <2>5, <2>6 DEF TWIInv
<1> QED
  BY <1>8, <1>9

\* A piece of a wait until a time point ends at most a tick behind it.
LEMMA TW_Piece_Until ==
  ASSUME TWIInv, Piece_Until
  PROVE  TWIInv'
<1> DEFINE r == goal - elapsed
<1> DEFINE n == IF r <= 0 THEN 0 ELSE AtMost(AtLeast(Cast(r), 1), MaxPiece)
<1>1. /\ waitAt = "loop" /\ waitOp \notin InPieces /\ Ask(n)
      /\ UNCHANGED <<waitOp, goal, elapsed, offset, ms, success, delay, wakeups>>
  BY DEF Piece_Until, Remaining
<1>2. r \in Int /\ r = goal - elapsed
  BY TW_Numbers
<1> DEFINE c == Cast(r)
<1>3. c \in Int /\ c * Unit \in Int /\ (r >= 0 => c * Unit <= r)
  <2>1. c \in Int /\ (r >= 0 => c * Unit <= r)
    BY <1>2, TW_Cast
  <2> QED
    BY <2>1, TW_Numbers
<1> HIDE DEF c
<1>4. /\ n \in Nat /\ n <= MaxPiece /\ (n = 0 <=> r <= 0)
      /\ r > 0 => n <= 1 \/ n <= c
  BY <1>2, <1>3, TW_Numbers DEF AtMost, AtLeast, c
<1> HIDE DEF n, r
<1>5. r > 0 => n * Unit <= Unit \/ n * Unit <= r
  <2>1. n <= 1 => n * Unit <= 1 * Unit
    BY <1>4, TW_Numbers, TW_Monotone
  <2>2. n <= c => n * Unit <= c * Unit
    BY <1>3, <1>4, TW_Numbers, TW_Monotone
  <2>3. 1 * Unit = Unit /\ n * Unit \in Int
    BY <1>4, TW_Numbers
  <2> QED
    BY <2>1, <2>2, <2>3, <1>2, <1>3, <1>4, TW_Numbers
<1>6. left = 0 /\ ~success /\ (waitOp = "sleep_for" => goal > 0) /\ waitOp # "none"
  BY <1>1 DEF TWIInv, TWShape
<1>7. 0 * Unit = 0 /\ n * Unit \in Int /\ AtLeast(goal, 0) \in Int /\ goal <= AtLeast(goal, 0)
  BY <1>4, TW_Numbers DEF AtLeast
<1>8. wakeups = 0 => elapsed <= AtLeast(goal, 0) + Unit + delay
  BY <1>1, <1>6, <1>7, TW_Numbers DEF TWIInv, Bounds_Until
<1>9. waitOp \notin Relative /\ waitOp # "sleep_for"
  BY <1>1 DEF InPieces
<1>10. CASE Waits /\ ready
  <2>1. waitAt' = "got" /\ ready' = FALSE /\ left' = 0 /\ looked' = elapsed /\ waitOp \notin Sleep
    BY <1>1, <1>10 DEF Ask, Waits
  <2>2. TWTypeOK'
    <3>1. MaxPiece \in Nat /\ elapsed \in Nat
      BY TW_Numbers
    <3>2. left' \in 0 .. MaxPiece /\ looked' \in 0 .. elapsed'
      BY <3>1, <2>1, <1>1
    <3>3. ready' \in BOOLEAN /\ waitAt' \in {"call", "loop", "kernel", "got", "done"}
      BY <2>1
    <3> QED
      BY <3>2, <3>3, <1>1 DEF TWIInv, TWTypeOK
  <2>3. TWShape'
    BY <2>1, <1>1, <1>6 DEF TWShape, TWIInv
  <2>4. Bounds_InPieces' /\ Bounds_Until' /\ TimeoutKept'
    BY <2>1 DEF Bounds_InPieces, Bounds_Until, TimeoutKept
  <2> QED
    BY <2>2, <2>3, <2>4 DEF TWIInv
<1>11. CASE ~(Waits /\ ready)
  <2>1. /\ waitAt' = IF n = 0 THEN "done" ELSE "kernel"
        /\ left' = n /\ ready' = ready /\ looked' = elapsed
    BY <1>1, <1>11 DEF Ask
  <2>2. TWTypeOK'
    BY <2>1, <1>1, <1>4, TW_Numbers DEF TWIInv, TWTypeOK
  <2>3. TWShape'
    BY <2>1, <1>1, <1>6 DEF TWShape, TWIInv
  <2>4. Bounds_InPieces'
    BY <1>1 DEF Bounds_InPieces
  <2>5. Bounds_Until'
    <3>1. SUFFICES ASSUME n # 0, wakeups = 0
                   PROVE  elapsed - offset + n * Unit <= AtLeast(goal, 0) + Unit + delay
      BY <2>1, <1>1 DEF Bounds_Until
    <3> QED
      BY <3>1, <1>2, <1>4, <1>5, <1>7, TW_Numbers
  <2>6. TimeoutKept'
    <3>1. SUFFICES ASSUME n = 0 PROVE TimeoutKept'
      BY <2>1 DEF TimeoutKept
    <3>2. elapsed >= goal
      BY <3>1, <1>2, <1>4, TW_Numbers
    <3> QED
      BY <3>2, <2>1, <1>1, <1>7, <1>8, <1>9, TW_Numbers DEF TimeoutKept
  <2> QED
    BY <2>2, <2>3, <2>4, <2>5, <2>6 DEF TWIInv
<1> QED
  BY <1>10, <1>11

\* The token is there; the predicate may say no.
LEMMA TW_Got ==
  ASSUME TWIInv, Got \/ Got_PredFalse
  PROVE  TWIInv'
<1>1. waitAt = "got" /\ waitOp \notin Sleep /\ waitOp # "none" /\ left = 0 /\ ~success
  BY DEF Got, Got_PredFalse, TWIInv, TWShape
<1>2. CASE Got
  <2>1. /\ waitAt' = "done" /\ success' = TRUE
        /\ UNCHANGED <<waitOp, goal, elapsed, offset, ms, left, ready, looked, delay, wakeups>>
    BY <1>2 DEF Got
  <2>2. TWTypeOK'
    BY <2>1 DEF TWIInv, TWTypeOK
  <2>3. TWShape'
    BY <2>1, <1>1 DEF TWShape
  <2>4. Bounds_InPieces' /\ Bounds_Until' /\ TimeoutKept'
    BY <2>1 DEF Bounds_InPieces, Bounds_Until, TimeoutKept
  <2> QED
    BY <2>2, <2>3, <2>4 DEF TWIInv
<1>3. CASE Got_PredFalse
  <2>1. /\ waitOp = "wait_for_pred" /\ wakeups < MaxWakeups /\ waitAt' = "loop"
        /\ ms' = AtLeast(Ceil(goal), 0) /\ wakeups' = wakeups + 1
        /\ UNCHANGED <<waitOp, goal, elapsed, offset, left, ready, success, looked, delay>>
    BY <1>3 DEF Got_PredFalse
  <2>2. Ceil(goal) \in Int
    BY TW_Numbers, TW_Ceil
  <2>3. ms' \in Nat /\ ms' = TotalMs'
    BY <2>1, <2>2 DEF AtLeast, TotalMs
  <2>4. TWTypeOK'
    BY <2>1, <2>3, TW_Numbers DEF TWIInv, TWTypeOK
  <2>5. TWShape'
    BY <2>1, <1>1 DEF TWShape
  <2>6. 0 * Unit = 0 /\ ms' * Unit \in Int /\ wakeups' # 0
    BY <2>1, <2>3, TW_Numbers
  <2>7. Bounds_InPieces'
    BY <2>1, <2>3, <2>6, <1>1, TW_Numbers DEF Bounds_InPieces
  <2>8. Bounds_Until' /\ TimeoutKept'
    BY <2>1, <2>6 DEF Bounds_Until, TimeoutKept
  <2> QED
    BY <2>4, <2>5, <2>7, <2>8 DEF TWIInv
<1> QED
  BY <1>2, <1>3

\* The call returns; another may begin.
LEMMA TW_Returns ==
  ASSUME TWIInv, Returns_Timed
  PROVE  TWIInv'
<1>1. /\ waitOp' = "none" /\ waitAt' = "call" /\ goal' = 0 /\ elapsed' = 0
      /\ ms' = 0 /\ left' = 0 /\ success' = FALSE
      /\ looked' = 0 /\ delay' = 0 /\ wakeups' = 0
      /\ UNCHANGED <<offset, ready>>
  BY DEF Returns_Timed
<1>2. TWTypeOK'
  <2>1. 0 \in 0 .. MaxPiece /\ 0 \in 0 .. MaxDelay /\ 0 \in 0 .. MaxWakeups /\ 0 \in 0 .. 0
    BY TW_Numbers
  <2> QED
    BY <2>1, <1>1 DEF TWIInv, TWTypeOK
<1>3. TWShape' /\ Bounds_InPieces' /\ Bounds_Until' /\ TimeoutKept'
  BY <1>1 DEF TWShape, Bounds_InPieces, Bounds_Until, TimeoutKept, Sleep
<1> QED
  BY <1>2, <1>3 DEF TWIInv

\* What others do to the token.
LEMMA TW_Post ==
  ASSUME TWIInv, Post \/ Taken
  PROVE  TWIInv'
<1>1. UNCHANGED <<waitOp, goal, elapsed, offset, ms, success, looked, delay, wakeups>>
  BY DEF Post, Taken
<1>2. ready' \in BOOLEAN /\ (UNCHANGED <<waitAt, left>>
                               \/ (waitAt = "kernel" /\ Waits /\ waitAt' = "got" /\ left' = 0))
  BY DEF Post, Taken, TWIInv, TWTypeOK
<1>3. CASE UNCHANGED <<waitAt, left>>
  <2>1. TWTypeOK' /\ TWShape' /\ Bounds_Until' /\ TimeoutKept'
    BY <1>1, <1>2, <1>3 DEF TWIInv, TWTypeOK, TWShape, Bounds_Until, TimeoutKept
  <2>2. Bounds_InPieces'
    BY <1>1, <1>3 DEF TWIInv, Bounds_InPieces, TotalMs
  <2> QED
    BY <2>1, <2>2 DEF TWIInv
<1>4. CASE waitAt = "kernel" /\ Waits /\ waitAt' = "got" /\ left' = 0
  <2>1. TWTypeOK'
    <3>1. left' \in 0 .. MaxPiece /\ waitAt' \in {"call", "loop", "kernel", "got", "done"}
      BY <1>4, TW_Numbers
    <3> QED
      BY <3>1, <1>1, <1>2 DEF TWIInv, TWTypeOK
  <2>2. TWShape'
    BY <1>1, <1>4 DEF TWIInv, TWShape, Waits
  <2>3. Bounds_InPieces' /\ Bounds_Until' /\ TimeoutKept'
    BY <1>4 DEF Bounds_InPieces, Bounds_Until, TimeoutKept
  <2> QED
    BY <2>1, <2>2, <2>3 DEF TWIInv
<1> QED
  BY <1>2, <1>3, <1>4

\* A unit of the tick passes.
\* The offset goes round.
LEMMA TW_Modulo ==
  ASSUME NEW o \in Nat, NEW u \in Nat, o < u
  PROVE  (o + 1) % u = IF o + 1 = u THEN 0 ELSE o + 1
<1>1. CASE o + 1 < u
  BY <1>1
<1>2. CASE o + 1 = u
  BY <1>2
<1> QED
  BY <1>1, <1>2

\* The last tick does not go back.
LEMMA TW_Shift ==
  ASSUME NEW e \in Int, NEW o \in Int, NEW p \in Int, NEW m \in Int, NEW n \in Int, NEW x \in Int,
         p <= o + 1, e - o + m + n >= x
  PROVE  e + 1 - p + m + n >= x
OBVIOUS

\* A unit of time: the last tick and what the kernel still waits for stay the same, and in
\* the loop every unit is one of delay.
LEMMA TW_Pass ==
  ASSUME TWIInv, Pass
  PROVE  TWIInv'
<1>1. /\ Unit \in Nat /\ Unit # 0 /\ goal \in Int /\ elapsed \in Nat /\ offset \in Nat
             /\ offset < Unit
      /\ delay \in Nat /\ left \in Nat
  BY TW_Numbers
<1>2. /\ waitAt \in {"call", "loop", "kernel"} /\ (waitAt = "loop" => delay < MaxDelay)
      /\ offset' = (offset + 1) % Unit
      /\ elapsed' = (IF waitOp = "none" THEN 0 ELSE elapsed + 1)
      /\ delay' = (IF waitAt = "loop" THEN delay + 1 ELSE delay)
      /\ left' = (IF waitAt = "kernel" /\ offset' = 0 THEN left - 1 ELSE left)
      /\ UNCHANGED <<waitOp, goal, ms, ready, success, wakeups>>
  BY DEF Pass
<1>3. /\ waitAt = "kernel" /\ left' = 0 =>
           /\ waitAt' = (IF waitOp \in InPieces /\ ms = 0 THEN "done" ELSE "loop")
           /\ looked' = elapsed'
      /\ ~(waitAt = "kernel" /\ left' = 0) => waitAt' = waitAt /\ looked' = looked
  BY DEF Pass
<1>4. offset' = IF offset + 1 = Unit THEN 0 ELSE offset + 1
  BY <1>2, TW_Numbers, TW_Modulo
<1>5. /\ offset' \in Int /\ 0 <= offset' /\ offset' < Unit
      /\ offset' = 0 => offset = Unit - 1
      /\ offset' # 0 => offset' = offset + 1
  BY <1>1, <1>4
<1>6. /\ waitAt = "call" <=> waitOp = "none"
      /\ waitAt = "call" => /\ elapsed = 0 /\ goal = 0 /\ looked = 0 /\ delay = 0 /\ wakeups = 0
                            /\ ms = 0
      /\ IF waitAt = "kernel" THEN left # 0 ELSE left = 0
      /\ ~success
      /\ waitOp = "sleep_for" => goal > 0
  BY <1>2 DEF TWIInv, TWShape
<1>7. left' \in Nat /\ left' <= left
  BY <1>2, <1>6, TW_Numbers
<1>8. elapsed' \in Nat /\ elapsed <= elapsed'
  BY <1>2, <1>6, TW_Numbers
<1>9. left' * Unit \in Int /\ 0 * Unit = 0
      /\ left' * Unit = left * Unit - (IF waitAt = "kernel" /\ offset' = 0 THEN Unit ELSE 0)
  <2>1. (left - 1) * Unit = left * Unit - Unit
    BY TW_Numbers, TW_Products
  <2> QED
    BY <2>1, <1>2, <1>7, TW_Numbers
<1>10. TotalMs' = TotalMs
  BY <1>2 DEF TotalMs
<1>11. TWTypeOK'
  <2>1. /\ offset' \in 0 .. Unit - 1 /\ left' \in 0 .. MaxPiece
    BY <1>5, <1>7, TW_Numbers
  <2>2. looked' \in 0 .. elapsed' /\ delay' \in 0 .. MaxDelay
    BY <1>2, <1>3, <1>8, TW_Numbers DEF TWIInv, TWTypeOK
  <2>3. waitAt' \in {"call", "loop", "kernel", "got", "done"}
    BY <1>2, <1>3
  <2> QED
    BY <2>1, <2>2, <2>3, <1>2, <1>8 DEF TWIInv, TWTypeOK
<1>12. TWShape'
  BY <1>2, <1>3, <1>6, <1>7 DEF TWShape
<1> DEFINE M == ms * Unit
<1> DEFINE Lft == left * Unit
<1> DEFINE R == left' * Unit
<1> DEFINE T == TotalMs * Unit
<1>13. /\ M \in Int /\ Lft \in Int /\ R \in Int /\ T \in Int
       /\ R = Lft - (IF waitAt = "kernel" /\ offset' = 0 THEN Unit ELSE 0)
       /\ left' = 0 => R = 0
       /\ ms = 0 => M = 0
  BY <1>9, TW_Numbers
<1>14. waitOp \in InPieces /\ waitAt \in {"loop", "kernel"} =>
          /\ elapsed - offset + M + Lft >= T - (Unit - 1)
          /\ wakeups = 0 => elapsed - (IF waitAt = "kernel" THEN offset
                                         ELSE 0) + M + Lft <= T + delay
  BY DEF TWIInv, Bounds_InPieces
<1>15. waitOp \notin InPieces /\ waitAt \in {"loop", "kernel"} /\ wakeups = 0 =>
          elapsed - (IF waitAt = "kernel" THEN offset ELSE 0) + Lft <= AtLeast(goal,
                                                                               0) + Unit + delay
  BY DEF TWIInv, Bounds_Until
<1>16. /\ ms' * Unit = M /\ left' * Unit = R /\ TotalMs' * Unit = T /\ goal' = goal
       /\ waitOp' = waitOp /\ wakeups' = wakeups
  BY <1>2, <1>10
<1>17. AtLeast(goal, 0) \in Int
  BY TW_Numbers DEF AtLeast
<1> HIDE DEF M, Lft, R, T
<1>18. waitOp \in InPieces /\ waitAt \in {"loop", "kernel"} =>
          /\ elapsed' - offset' + M + R >= T - (Unit - 1)
          /\ wakeups = 0 => elapsed' - (IF waitAt' = "kernel" THEN offset'
                                          ELSE 0) + M + R <= T + delay'
  <2> SUFFICES ASSUME waitOp \in InPieces, waitAt \in {"loop", "kernel"}
               PROVE  /\ elapsed' - offset' + M + R >= T - (Unit - 1)
                      /\ wakeups = 0 =>
                             elapsed' - (IF waitAt' = "kernel" THEN offset' ELSE 0) + M + R
                                          <= T + delay'
    OBVIOUS
  <2>1. elapsed' = elapsed + 1
    BY <1>2, <1>6
  <2>2. CASE waitAt = "loop"
    <3>1. waitAt' = "loop" /\ delay' = delay + 1 /\ R = Lft
      BY <2>2, <1>2, <1>3, <1>13
    <3>2. offset' <= offset + 1 /\ offset' \in Int
      BY <1>1, <1>5
    <3>3. elapsed - offset + M + Lft >= T - (Unit - 1)
      BY <2>2, <1>14
    <3>4. elapsed + 1 - offset' + M + Lft >= T - (Unit - 1)
      <4> DEFINE x == T - (Unit - 1)
      <4>1. x \in Int /\ elapsed \in Int /\ offset \in Int /\ M \in Int /\ Lft \in Int
        BY <1>1, <1>13
      <4>2. elapsed - offset + M + Lft >= x
        BY <3>3
      <4> HIDE DEF x
      <4>3. elapsed + 1 - offset' + M + Lft >= x
        BY <4>1, <4>2, <3>2, TW_Shift
      <4> QED
        BY <4>3 DEF x
    <3>5. wakeups = 0 => elapsed - 0 + M + Lft <= T + delay
      BY <2>2, <1>14
    <3>6. wakeups = 0 => elapsed + 1 - 0 + M + Lft <= T + (delay + 1)
      BY <3>5, <1>1, <1>13
    <3>7. waitAt' # "kernel"
      BY <3>1
    <3>8. wakeups = 0 => elapsed' - 0 + M + R <= T + delay'
      BY <2>1, <3>1, <3>6
    <3>9. elapsed' - offset' + M + R >= T - (Unit - 1)
      <4> DEFINE e == elapsed'
      <4> DEFINE p == offset'
      <4>1. e = elapsed + 1 /\ elapsed + 1 - p + M + Lft >= T - (Unit - 1) /\ R = Lft
        BY <2>1, <3>1, <3>4
      <4>2. p \in Int /\ Unit \in Int /\ elapsed \in Int /\ M \in Int /\ Lft \in Int /\ T \in Int
        BY <1>1, <1>5, <1>13
      <4> HIDE DEF e, p, M, R, Lft, T
      <4>3. e - p + M + R >= T - (Unit - 1)
        BY <4>1, <4>2
      <4> QED
        BY <4>3 DEF e, p
    <3> QED
      BY <3>7, <3>8, <3>9
  <2>3. CASE waitAt = "kernel" /\ offset' # 0
    <3>1. delay' = delay /\ R = Lft /\ left' # 0 /\ waitAt' = waitAt /\ offset' = offset + 1
      BY <2>3, <1>2, <1>3, <1>5, <1>6, <1>13
    <3> QED
      BY <2>1, <2>3, <3>1, <1>1, <1>13, <1>14
  <2>4. CASE waitAt = "kernel" /\ offset' = 0
    <3>1. delay' = delay /\ R = Lft - Unit /\ offset = Unit - 1
      BY <2>4, <1>2, <1>5, <1>13
    <3> QED
      BY <2>1, <2>4, <3>1, <1>1, <1>13, <1>14
  <2> QED
    BY <2>2, <2>3, <2>4
<1>19. waitOp \notin InPieces /\ waitAt \in {"loop", "kernel"} /\ wakeups = 0 =>
          elapsed' - (IF waitAt' = "kernel" THEN offset' ELSE 0) + R <= AtLeast(goal,
                                                                                0) + Unit + delay'
  <2> DEFINE A == AtLeast(goal, 0)
  <2> SUFFICES ASSUME waitOp \notin InPieces, waitAt \in {"loop", "kernel"}, wakeups = 0
               PROVE  elapsed' - (IF waitAt' = "kernel" THEN offset'
                                    ELSE 0) + R <= A + Unit + delay'
    OBVIOUS
  <2>1. A \in Int /\ elapsed - (IF waitAt = "kernel" THEN offset ELSE 0) + Lft <= A + Unit + delay
    BY <1>15, <1>17
  <2> HIDE DEF A
  <2>2. elapsed' = elapsed + 1
    BY <1>2, <1>6
  <2>3. CASE waitAt = "loop"
    <3>1. waitAt' = "loop" /\ delay' = delay + 1 /\ R = Lft
      BY <2>3, <1>2, <1>3, <1>13
    <3> QED
      BY <2>1, <2>2, <2>3, <3>1, <1>1, <1>13
  <2>4. CASE waitAt = "kernel" /\ offset' # 0
    <3>1. delay' = delay /\ R = Lft /\ left' # 0 /\ waitAt' = waitAt /\ offset' = offset + 1
      BY <2>4, <1>2, <1>3, <1>5, <1>6, <1>13
    <3> QED
      BY <2>1, <2>2, <2>4, <3>1, <1>1, <1>13
  <2>5. CASE waitAt = "kernel" /\ offset' = 0
    <3>1. delay' = delay /\ R = Lft - Unit /\ offset = Unit - 1
      BY <2>5, <1>2, <1>5, <1>13
    <3> QED
      BY <2>1, <2>2, <2>5, <3>1, <1>1, <1>13
  <2> QED
    BY <2>3, <2>4, <2>5
<1>20. waitAt' \in {"loop", "kernel"} => waitAt \in {"loop", "kernel"}
  BY <1>2, <1>3
<1>21. Bounds_InPieces' /\ Bounds_Until'
  BY <1>16, <1>18, <1>19, <1>20 DEF Bounds_InPieces, Bounds_Until
<1>22. TimeoutKept'
  <2>1. SUFFICES ASSUME waitAt' = "done" PROVE TimeoutKept'
    BY DEF TimeoutKept
  <2>2. /\ waitAt = "kernel" /\ left' = 0 /\ waitOp \in InPieces /\ ms = 0 /\ looked' = elapsed'
        /\ offset' = 0
    BY <2>1, <1>2, <1>3, <1>6
  <2>3. elapsed' >= T - (Unit - 1) /\ (wakeups = 0 => elapsed' <= T + delay)
    <3>1. M = 0 /\ R = 0 /\ delay' = delay
      BY <2>2, <1>2, <1>13
    <3>2. /\ elapsed' - 0 + M + R >= T - (Unit - 1)
          /\ wakeups = 0 => elapsed' - 0 + M + R <= T + delay'
      BY <2>1, <2>2, <1>18
    <3>3. elapsed' \in Int /\ delay' = delay /\ elapsed' - 0 + 0 + 0 >= T - (Unit - 1)
      BY <3>1, <3>2, <1>8
    <3>4. wakeups = 0 => elapsed' - 0 + 0 + 0 <= T + delay'
      BY <3>1, <3>2
    <3>5. elapsed' >= T - (Unit - 1)
      BY <3>3
    <3>6. wakeups = 0 => elapsed' <= T + delay
      BY <3>3, <3>4
    <3> QED
      BY <3>5, <3>6
  <2>4. CASE waitOp \in Relative
    <3>1. T >= goal /\ T <= AtLeast(goal, 0) + Unit - 1 /\ waitOp # "sleep_for"
      BY <2>2, <2>4, TW_Total DEF Relative, T
    <3> QED
      BY <3>1, <2>2, <2>3, <2>4, <1>2, <1>13, <1>17, TW_Numbers, SMTT(30) DEF TimeoutKept
  <2>5. CASE waitOp \notin Relative
    <3>1. T >= goal + Unit /\ T <= AtLeast(goal, 0) + 2 * Unit - 1 /\ waitOp = "sleep_for"
      BY <2>2, <2>5, TW_Total DEF T
    <3> QED
      BY <3>1, <2>2, <2>3, <2>5, <1>2, <1>13, <1>17, TW_Numbers DEF TimeoutKept
  <2> QED
    BY <2>4, <2>5
<1> QED
  BY <1>11, <1>12, <1>21, <1>22 DEF TWIInv

\* TWIInv is inductive.
LEMMA TW_Next == TWIInv /\ [TWNext]_twVars => TWIInv'
<1> SUFFICES ASSUME TWIInv, [TWNext]_twVars PROVE TWIInv'
  OBVIOUS
<1>1. CASE UNCHANGED twVars
  <2>1. UNCHANGED <<waitOp, waitAt, goal, elapsed, offset, ms, left, ready, success, looked,
                   delay, wakeups>>
    BY <1>1 DEF twVars
  <2>2. TWTypeOK' /\ TWShape' /\ Bounds_Until' /\ TimeoutKept'
    BY <2>1 DEF TWIInv, TWTypeOK, TWShape, Bounds_Until, TimeoutKept
  <2>3. Bounds_InPieces'
    BY <2>1 DEF TWIInv, Bounds_InPieces, TotalMs
  <2> QED
    BY <2>2, <2>3 DEF TWIInv
<1>2. ASSUME NEW d \in Durations,
             \/ Call_SleepFor(d) \/ \E o \in Relative : Call_Relative(o, d)
             \/ \E o \in Deadline \cup {"sleep_until"} : Call_Until(o, d)
      PROVE  TWIInv'
  BY <1>2, TW_Call
<1>3. CASE Piece_Relative \/ Piece_Until \/ Got \/ Got_PredFalse
  BY <1>3, TW_Piece_Relative, TW_Piece_Until, TW_Got
<1>4. CASE Returns_Timed \/ Pass \/ Post \/ Taken
  BY <1>4, TW_Returns, TW_Pass, TW_Post
<1> QED
  BY <1>1, <1>2, <1>3, <1>4 DEF TWNext

\* TimeoutKept: however a timeout is rounded and cut into pieces, a sleep and a wait until
\* a time point do not end too early, and none ends more than a tick or two too late
\* (_sleep.hpp, _semaphore.cpp, _mutex.cpp, _thread.cpp).
THEOREM TimeoutsKept == TWSpec => [](TWTypeOK /\ TimeoutKept)
<1>1. TWIInv => TWTypeOK /\ TimeoutKept
  BY DEF TWIInv
<1> QED
  BY <1>1, TW_Init, TW_Next, PTL DEF TWSpec
-----------------------------------------------------------------------------
(* Clock. *)

\* So many ticks of the hardware counter make an interval of the kernel.
Lap == Trv + 1
-----------------------------------------------------------------------------
\* Quotient and rest are unique.
LEMMA DivUnique ==
  ASSUME NEW x \in Nat, NEW u \in Nat, u > 0, NEW q \in Nat, NEW k \in Nat, k < u, x = q * u + k
  PROVE  x \div u = q /\ x % u = k
OBVIOUS

\* A number is its quotient and its rest.
LEMMA DivSplit ==
  ASSUME NEW x \in Nat, NEW u \in Nat, u > 0
  PROVE  /\ x \div u \in Nat /\ x % u \in 0 .. u - 1
         /\ x = (x \div u) * u + (x % u)
<1>1. x \div u \in Nat OBVIOUS
<1>2. x % u \in 0 .. u - 1 OBVIOUS
<1>3. PICK q \in Int, k \in Int : q = x \div u /\ k = x % u BY <1>1, <1>2
<1>4. x = q * u + k BY <1>3
<1>5. x = (x \div u) * u + (x % u) BY <1>3, <1>4, Zenon
<1> QED BY <1>1, <1>2, <1>5

\* Products grow with their factors.
LEMMA TimesMonotone ==
  ASSUME NEW a \in Nat, NEW b \in Nat, NEW u \in Nat, a <= b
  PROVE  a * u <= b * u
<1>1. PICK d \in Nat : b = a + d OBVIOUS
<1>2. b * u = a * u + d * u BY <1>1
<1>3. d * u \in Nat /\ a * u \in Nat OBVIOUS
<1> QED BY <1>2, <1>3

\* Quotients grow with the dividend.
LEMMA DivMonotone ==
  ASSUME NEW a \in Nat, NEW b \in Nat, NEW u \in Nat, u > 0, a <= b
  PROVE  a \div u <= b \div u
<1> DEFINE p == a \div u  q == b \div u
<1>1. p \in Nat /\ q \in Nat /\ a = p * u + (a % u) /\ b = q * u + (b % u)
      /\ a % u \in 0 .. u - 1 /\ b % u \in 0 .. u - 1
  BY DivSplit
<1> HIDE DEF p, q
<1>2. SUFFICES ASSUME q + 1 <= p PROVE FALSE BY <1>1 DEF p, q
<1>3. (q + 1) * u <= p * u BY <1>1, <1>2, TimesMonotone
<1>4. (q + 1) * u = q * u + u BY <1>1
<1>5. q * u \in Nat /\ p * u \in Nat BY <1>1
<1>6. a % u \in Nat /\ b % u \in Nat /\ b % u < u BY <1>1
<1> DEFINE k == a % u  l == b % u
<1>7. /\ k \in Nat /\ l \in Nat /\ l < u
      /\ a = p * u + k /\ b = q * u + l
  BY <1>1, <1>6, Zenon
<1> HIDE DEF k, l
<1> QED BY <1>3, <1>4, <1>5, <1>7

\* Times that are close have high parts that are close.
LEMMA DivClose ==
  ASSUME NEW a \in Nat, NEW b \in Nat, NEW u \in Nat, u > 0, a <= b + u
  PROVE  a \div u <= b \div u + 1
<1> DEFINE q == b \div u  k == b % u  p == (b + u) \div u
<1>1. q \in Nat /\ k \in 0 .. u - 1 /\ b = q * u + k BY DivSplit
<1> HIDE DEF q, k
<1>2. b + u = (q + 1) * u + k BY <1>1
<1>3. b + u \in Nat OBVIOUS
<1>4. p = q + 1 BY <1>1, <1>2, <1>3, DivUnique
<1>5. a \div u <= p BY <1>3, DivMonotone
<1> QED BY <1>4, <1>5 DEF q

\* The next number has the next quotient exactly if the rest was the last.
LEMMA NextDiv ==
  ASSUME NEW x \in Nat, NEW u \in Nat, u > 0
  PROVE  (x + 1) \div u = IF x % u = u - 1 THEN x \div u + 1 ELSE x \div u
<1> DEFINE q == x \div u  k == x % u
<1>1. q \in Nat /\ k \in 0 .. u - 1 /\ x = q * u + k BY DivSplit
<1> HIDE DEF q, k
<1>2. CASE k = u - 1
  <2>1. x + 1 = (q + 1) * u + 0 BY <1>1, <1>2
  <2>2. (x + 1) \div u = q + 1 BY <2>1, <1>1, DivUnique
  <2> QED BY <2>2, <1>2 DEF q, k
<1>3. CASE k # u - 1
  <2>1. x + 1 = q * u + (k + 1) /\ k + 1 < u /\ k + 1 \in Nat BY <1>1, <1>3
  <2>2. (x + 1) \div u = q BY <2>1, <1>1, DivUnique
  <2> QED BY <2>2, <1>3 DEF q, k
<1> QED BY <1>2, <1>3

\* The next number has another rest.
LEMMA NextMod ==
  ASSUME NEW x \in Nat, NEW u \in Nat, u > 1
  PROVE  (x + 1) % u # x % u
<1> DEFINE q == x \div u  k == x % u
<1>1. q \in Nat /\ k \in 0 .. u - 1 /\ x = q * u + k BY DivSplit
<1> HIDE DEF q, k
<1>2. CASE k = u - 1
  <2>1. x + 1 = (q + 1) * u + 0 BY <1>1, <1>2
  <2>2. (x + 1) % u = 0 BY <2>1, <1>1, DivUnique
  <2> QED BY <2>2, <1>2 DEF k
<1>3. CASE k # u - 1
  <2>1. x + 1 = q * u + (k + 1) /\ k + 1 < u /\ k + 1 \in Nat BY <1>1, <1>3
  <2>2. (x + 1) % u = k + 1 BY <2>1, <1>1, DivUnique
  <2> QED BY <2>2, <1>1 DEF k
<1> QED BY <1>2, <1>3

\* A time of h * u values: its high bits are those of the time without the wrap.
HighDiv(x, h, u) == /\ (x % (h * u)) \div u \in 0 .. h - 1
                    /\ x \div (h * u) \in Nat
                    /\ x \div u \in Nat
                    /\ x \div u = (x \div (h * u)) * h + ((x % (h * u)) \div u)
                    /\ x = (x \div (h * u)) * (h * u) + (x % (h * u))

\* High bits of a time and its wraps.
LEMMA HighOf ==
  ASSUME NEW x \in Nat, NEW h \in Nat, NEW u \in Nat, u > 0, h > 0
  PROVE  HighDiv(x, h, u)
<1> DEFINE w == h * u  n == x \div w  y == x % w  g == y \div u  l == y % u
<1>1. w \in Nat /\ w > 0
  <2>1. 1 * u <= h * u BY TimesMonotone
  <2>2. h * u \in Nat OBVIOUS
  <2> QED BY <2>1, <2>2
<1>2. n \in Nat /\ y \in 0 .. w - 1 /\ x = n * w + y
  <2> HIDE DEF w
  <2> QED BY <1>1, DivSplit
<1>3. y \in Nat BY <1>2, <1>1
<1> HIDE DEF n, y
<1>4. g \in Nat /\ l \in 0 .. u - 1 /\ y = g * u + l BY <1>3, DivSplit
<1> HIDE DEF g, l
<1>5. g < h
  <2>1. SUFFICES ASSUME h <= g PROVE FALSE BY <1>4
  <2>2. h * u <= g * u BY <2>1, <1>4, TimesMonotone
  <2>3. g * u \in Nat BY <1>4
  <2> QED BY <2>2, <2>3, <1>2, <1>4, <1>1
<1>6. x = (n * h + g) * u + l
  <2>1. n * (h * u) = (n * h) * u BY <1>2
  <2>2. (n * h + g) * u = (n * h) * u + g * u BY <1>2, <1>4
  <2>3. n * h \in Nat /\ (n * h) * u \in Nat /\ g * u \in Nat BY <1>2, <1>4
  <2> QED BY <2>1, <2>2, <2>3, <1>2, <1>4
<1>7. n * h + g \in Nat BY <1>2, <1>4
<1>8. x \div u = n * h + g BY <1>6, <1>7, <1>4, DivUnique, SMTT(30)
<1>9. g \in 0 .. h - 1 BY <1>4, <1>5
<1>10. x \div u = n * h + g /\ g \in 0 .. h - 1 /\ n \in Nat /\ y \in 0 .. w - 1
       /\ x \div u \in Nat /\ x = n * w + y
  BY <1>2, <1>9, <1>7, <1>8
<1> QED BY <1>10, Zenon DEF n, y, g, HighDiv

\* Close multiples-and-rests of h that have the same rest are the same.
LEMMA Nearest ==
  ASSUME NEW h \in Nat, h > 1, NEW a \in Nat, NEW b \in Nat,
         NEW x \in 0 .. h - 1, NEW y \in 0 .. h - 1,
         b * h + y <= a * h + x, a * h + x <= b * h + y + 1
  PROVE  /\ x = y => a = b
         /\ x < y => a = b + 1
         /\ y < x => a = b
<1>1. a >= b
  <2>1. SUFFICES ASSUME a + 1 <= b PROVE FALSE OBVIOUS
  <2>2. (a + 1) * h <= b * h BY <2>1, TimesMonotone
  <2>3. (a + 1) * h = a * h + h /\ a * h \in Nat /\ b * h \in Nat OBVIOUS
  <2> QED BY <2>2, <2>3
<1>2. a <= b + 1
  <2>1. SUFFICES ASSUME b + 2 <= a PROVE FALSE OBVIOUS
  <2>2. (b + 2) * h <= a * h BY <2>1, TimesMonotone
  <2>3. (b + 2) * h = b * h + 2 * h /\ a * h \in Nat /\ b * h \in Nat OBVIOUS
  <2> QED BY <2>2, <2>3
<1>3. CASE a = b BY <1>3
<1>4. CASE a = b + 1
  <2>1. a * h = b * h + h /\ b * h \in Nat BY <1>4
  <2> QED BY <2>1, <1>4
<1> QED BY <1>1, <1>2, <1>3, <1>4
-----------------------------------------------------------------------------
ReadType == [ticks : 0 .. Trv, since : Nat, ovf : BOOLEAN, time : 0 .. Wrap - 1, seen : Nat,
             ticksAgain : 0 .. Trv, data : [high : 0 .. High - 1, overflows : Nat],
             overflows : Nat]
ReaderSteps == {"idle", "ovf", "time", "ticks again", "ovf again", "time again", "data", "replace",
          "done"}

ClockTypes == /\ passed \in Nat /\ passed <= MaxElapsed
              /\ pending \in BOOLEAN /\ late \in BOOLEAN /\ newest \in Nat
              /\ overflowData \in [high : 0 .. High - 1, overflows : Nat]
              /\ step \in [Readers -> ReaderSteps]
              /\ read \in [Readers -> ReadType]
              /\ \A r \in Readers : read[r].since <= passed

\* The tick handler is at most one interval behind, and the newest reader at most Low.
TimesClose == /\ pending => Interval >= 1
              /\ Interval <= newest + Low
              /\ newest <= Interval + 1

\* The word counts the wraps of the newest reader's time.
WordExact == ~late => overflowData.overflows * High + overflowData.high = newest \div Low

\* What a reader has is not before its first read ...
NotEarly(r) ==
  /\ step[r] = "ovf" => read[r].since <= Interval * Lap + read[r].ticks
  /\ step[r] = "time" => read[r].since <= TimeNow(r) * Lap + read[r].ticks
  /\ step[r] \in {"ticks again", "ovf again", "time again", "data", "replace"} =>
       read[r].since <= read[r].seen * Lap + read[r].ticks

\* ... and at most one interval ahead.
NotAhead(r) ==
  /\ step[r] = "ticks again" => read[r].seen * Lap <= passed + Lap
  /\ step[r] \in {"ovf again", "time again"} =>
       read[r].seen * Lap + read[r].ticksAgain <= passed + Lap
  /\ step[r] \in {"data", "replace"} => read[r].seen * Lap + read[r].ticks <= passed + Trv

\* ... not at all when it has read everything twice: if it was ahead, the tick handler has
\* run, and does not run again before the time is what the reader has seen.
Seen(r) ==
  /\ step[r] \in {"ticks again", "ovf again", "time again", "data", "replace"} =>
       read[r].seen <= Interval + 1 /\ read[r].time = read[r].seen % Wrap
  /\ step[r] \in {"ticks again", "ovf again", "time again"} /\ read[r].seen = Interval + 1 =>
       ~pending /\ ~read[r].ovf
  /\ step[r] \in {"data", "replace"} => read[r].seen <= Interval
  /\ step[r] = "replace" => HighBits(r) # read[r].data.high
  /\ step[r] = "done" /\ ~late => read[r].overflows * Wrap + read[r].time = read[r].seen

ClockInv == /\ ClockTypes /\ TimesClose /\ WordExact
            /\ \A r \in Readers : NotEarly(r) /\ NotAhead(r) /\ Seen(r)
-----------------------------------------------------------------------------
\* The constants of the clock are positive.
LEMMA ClockNats ==
  /\ Lap \in Nat /\ Lap > 0 /\ Low \in Nat /\ Low > 0 /\ High \in Nat /\ High > 0
  /\ Trv \in Nat /\ Lap = Trv + 1 /\ Wrap \in Nat /\ Wrap > 1 /\ Wrap = High * Low /\ High > 1
<1>1. /\ Low \in Nat /\ Low > 0 /\ High \in Nat /\ High > 1 /\ Trv \in Nat
  BY ClockConstants
<1>2. 2 * Low <= High * Low BY <1>1, TimesMonotone
<1>3. High * Low \in Nat BY <1>1
<1> QED BY <1>1, <1>2, <1>3 DEF Lap, Wrap

\* The time is intervals and ticks, and the tick handler is at most one interval behind.
LEMMA Times ==
  ASSUME passed \in Nat, pending \in BOOLEAN, pending => Interval >= 1
  PROVE  /\ Interval \in Nat /\ OsTickVal \in 0 .. Trv
         /\ passed = Interval * Lap + OsTickVal
         /\ TickHandled \in Nat /\ TickHandled <= Interval /\ Interval <= TickHandled + 1
         /\ pending => Interval = TickHandled + 1
         /\ ~pending => Interval = TickHandled
<1>1. /\ passed \div Lap \in Nat /\ passed % Lap \in 0 .. Lap - 1
      /\ passed = (passed \div Lap) * Lap + (passed % Lap)
  BY ClockNats, DivSplit
<1>2. Interval = passed \div Lap /\ OsTickVal = passed % Lap BY DEF Interval, OsTickVal, Lap
<1>3. Interval \in Nat /\ OsTickVal \in 0 .. Trv /\ passed = Interval * Lap + OsTickVal
  BY <1>1, <1>2, ClockNats
<1> QED BY <1>3 DEF TickHandled

\* The invariant of the clock holds at first.
LEMMA ClockStart == ClockInit => ClockInv
<1> SUFFICES ASSUME ClockInit PROVE ClockInv OBVIOUS
<1>1. NothingRead \in ReadType
  <2>1. 0 \in 0 .. Trv /\ 0 \in 0 .. Wrap - 1 /\ 0 \in 0 .. High - 1 BY ClockNats
  <2> QED BY <2>1 DEF NothingRead, ReadType
<1>2. ClockTypes
  <2>1. overflowData \in [high : 0 .. High - 1, overflows : Nat] BY ClockNats DEF ClockInit
  <2>2. step \in [Readers -> ReaderSteps] /\ read \in [Readers -> ReadType]
    BY <1>1 DEF ClockInit, ReaderSteps
  <2>3. \A r \in Readers : read[r].since = 0 BY DEF ClockInit, NothingRead
  <2>4. passed = 0 /\ newest = 0 /\ pending = FALSE /\ late = FALSE BY DEF ClockInit
  <2>5. passed \in Nat /\ passed <= MaxElapsed BY <2>4, ClockConstants
  <2>6. pending \in BOOLEAN /\ late \in BOOLEAN /\ newest \in Nat BY <2>4
  <2>7. 0 <= 0 OBVIOUS
  <2>8. \A r \in Readers : read[r].since <= passed BY <2>3, <2>4, <2>7, Zenon
  <2> QED BY <2>1, <2>2, <2>5, <2>6, <2>8 DEF ClockTypes
<1>3. Interval = 0
  <2>1. 0 = 0 * Lap + 0 BY ClockNats
  <2>2. 0 \div Lap = 0 BY <2>1, ClockNats, DivUnique
  <2> QED BY <2>2 DEF ClockInit, Interval, Lap
<1>4. 0 \div Low = 0
  <2>1. 0 = 0 * Low + 0 BY ClockNats
  <2> QED BY <2>1, ClockNats, DivUnique
<1>5. TimesClose BY <1>3, ClockNats DEF ClockInit, TimesClose
<1>6. WordExact BY <1>4, ClockNats DEF ClockInit, WordExact
<1>7. ASSUME NEW r \in Readers PROVE NotEarly(r) /\ NotAhead(r) /\ Seen(r)
  BY DEF ClockInit, NotEarly, NotAhead, Seen
<1> QED BY <1>2, <1>5, <1>6, <1>7 DEF ClockInv

\* A reader that does nothing while time goes on.
LEMMA ReaderKept ==
  ASSUME ClockInv, NEW r \in Readers, step'[r] = step[r], read'[r] = read[r],
         passed' \in Nat, passed <= passed', Interval' \in Nat, Interval <= Interval',
         TickHandled' \in Nat, TickHandled <= TickHandled', late => late',
         Interval' = Interval /\ ~pending => ~pending'
  PROVE  (NotEarly(r) /\ NotAhead(r) /\ Seen(r))'
<1>1. /\ passed \in Nat /\ read[r] \in ReadType /\ pending \in BOOLEAN
      /\ pending => Interval >= 1
      /\ NotEarly(r) /\ NotAhead(r) /\ Seen(r)
  BY DEF ClockInv, ClockTypes, TimesClose
<1>2. Interval \in Nat /\ TickHandled \in Nat BY <1>1, Times
<1>10. \A a, b \in Nat : a <= b => a * Lap <= b * Lap /\ a * Lap \in Nat /\ b * Lap \in Nat
  BY ClockNats, TimesMonotone
<1>3. Interval * Lap <= Interval' * Lap /\ Interval * Lap \in Nat /\ Interval' * Lap \in Nat
  BY <1>2, <1>10
<1>4. TimeNow(r) \in Nat /\ TimeNow(r)' \in Nat /\ TimeNow(r) <= TimeNow(r)'
  BY <1>2 DEF TimeNow
<1>5. TimeNow(r) * Lap <= TimeNow(r)' * Lap /\ TimeNow(r) * Lap \in Nat /\ TimeNow(r)' * Lap \in Nat
  BY <1>4, <1>10, Zenon
<1>6. /\ read[r].since \in Nat /\ read[r].ticks \in Nat /\ read[r].seen \in Nat
      /\ read[r].ticksAgain \in Nat /\ read[r].seen * Lap \in Nat
  BY <1>1, ClockNats DEF ReadType
<1>7. NotEarly(r)'
  <2>1. CASE step[r] = "ovf" BY <1>1, <1>2, <1>3, <1>6, <2>1 DEF NotEarly
  <2>2. CASE step[r] = "time" BY <1>1, <1>5, <1>6, <2>2 DEF NotEarly
  <2>3. CASE step[r] \notin {"ovf", "time"} BY <1>1, <2>3 DEF NotEarly
  <2> QED BY <2>1, <2>2, <2>3
<1>8. NotAhead(r)'
  <2>1. ASSUME NEW p \in Nat, NEW d \in Nat, p <= passed + d PROVE p <= passed' + d
    <3>1. passed \in Nat /\ passed' \in Nat BY <1>1
    <3>2. passed <= passed' OBVIOUS
    <3>3. ASSUME NEW a \in Nat, NEW b \in Nat, a <= b, p <= a + d PROVE p <= b + d
      BY <3>3
    <3> QED BY <2>1, <3>1, <3>2, <3>3
  <2>2. Lap \in Nat /\ Trv \in Nat BY ClockNats
  <2>3. /\ read[r].seen * Lap + read[r].ticksAgain \in Nat
        /\ read[r].seen * Lap + read[r].ticks \in Nat
    BY <1>6
  <2>4. step[r] = "ticks again" => read[r].seen * Lap <= passed' + Lap
    BY <1>1, <1>6, <2>1, <2>2 DEF NotAhead
  <2>5. step[r] \in {"ovf again", "time again"} =>
          read[r].seen * Lap + read[r].ticksAgain <= passed' + Lap
    BY <1>1, <2>1, <2>2, <2>3 DEF NotAhead
  <2>6. step[r] \in {"data", "replace"} => read[r].seen * Lap + read[r].ticks <= passed' + Trv
    BY <1>1, <2>1, <2>2, <2>3 DEF NotAhead
  <2> QED BY <2>4, <2>5, <2>6 DEF NotAhead, Lap
<1>9. Seen(r)'
  <2>1. HighBits(r)' = HighBits(r) BY DEF HighBits
  <2>2. Wrap' = Wrap BY DEF Wrap
  <2>3. CASE step[r] \in {"ticks again", "ovf again", "time again", "data", "replace"}
    <3>1. read[r].seen <= Interval + 1 /\ read[r].time = read[r].seen % Wrap
      BY <1>1, <2>3 DEF Seen
    <3>2. read[r].seen <= Interval' + 1 BY <3>1, <1>2, <1>6
    <3>3. ASSUME step[r] \in {"ticks again", "ovf again", "time again"}, read[r].seen = Interval' + 1
          PROVE  ~pending' /\ ~read[r].ovf
      <4>1. Interval' = Interval
        <5>1. \A a, b, c \in Nat : c <= a + 1 /\ a <= b /\ c = b + 1 => b = a OBVIOUS
        <5> QED BY <3>1, <3>3, <1>2, <1>6, <5>1, Zenon
      <4>2. ~pending /\ ~read[r].ovf BY <1>1, <3>3, <4>1 DEF Seen
      <4> QED BY <4>1, <4>2
    <3>4. ASSUME step[r] \in {"data", "replace"} PROVE read[r].seen <= Interval'
      <4>1. read[r].seen <= Interval BY <1>1, <3>4 DEF Seen
      <4>2. \A a, b, c \in Nat : c <= a /\ a <= b => c <= b OBVIOUS
      <4> QED BY <1>2, <1>6, <4>1, <4>2, Zenon
    <3> QED BY <1>1, <2>1, <2>2, <2>3, <3>1, <3>2, <3>3, <3>4 DEF Seen
  <2>4. CASE step[r] \notin {"ticks again", "ovf again", "time again", "data", "replace"}
    BY <1>1, <2>2, <2>4 DEF Seen
  <2> QED BY <2>3, <2>4
<1> QED BY <1>7, <1>8, <1>9

\* What a tick of the hardware counter changes.
LEMMA TickMoves ==
  ASSUME ClockInv, Tick
  PROVE  /\ passed' = passed + 1 /\ passed' <= MaxElapsed
         /\ Interval' = IF OsTickVal = Trv THEN Interval + 1 ELSE Interval
         /\ TickHandled' = Interval /\ TickHandled = Interval
         /\ pending' \in BOOLEAN /\ (Interval' = Interval => ~pending')
         /\ TimesClose'
         /\ UNCHANGED <<overflowData, step, read, newest, late>>
<1>1. /\ passed \in Nat /\ newest \in Nat /\ pending \in BOOLEAN /\ TimesClose
  BY DEF ClockInv, ClockTypes
<1>2. Interval \in Nat
  <2>1. pending => Interval >= 1 BY <1>1 DEF TimesClose
  <2> QED BY <1>1, <2>1, Times
<1>3. /\ ~pending /\ passed < MaxElapsed /\ passed' = passed + 1
      /\ pending' = (OsTickVal = Trv)
      /\ pending' => Interval < newest + Low
      /\ UNCHANGED <<overflowData, step, read, newest, late>>
  BY Zenon DEF Tick
<1>4. Interval' = IF OsTickVal = Trv THEN Interval + 1 ELSE Interval
  <2>1. (passed + 1) \div Lap = IF passed % Lap = Lap - 1 THEN passed \div Lap + 1
                               ELSE passed \div Lap
    BY <1>1, ClockNats, NextDiv
  <2>2. /\ Interval = passed \div Lap /\ OsTickVal = passed % Lap /\ Lap - 1 = Trv
        /\ Interval' = passed' \div Lap
    BY ClockNats DEF Interval, OsTickVal, Lap
  <2> QED BY <1>3, <2>1, <2>2
<1>5. CASE OsTickVal = Trv
  <2>1. pending' = TRUE BY <1>3, <1>5, Zenon
  <2>2. Interval' = Interval + 1 BY <1>4, <1>5
  <2>3. Interval < newest + Low BY <1>3, <2>1
  <2>4. TickHandled' = Interval BY <2>1, <2>2, <1>2 DEF TickHandled
  <2>5. Interval <= newest + Low /\ newest <= Interval + 1 BY <1>1 DEF TimesClose
  <2>6. TimesClose'
    BY <2>1, <2>2, <2>3, <2>5, <1>1, <1>2, <1>3, ClockNats DEF TimesClose
  <2>7. pending' \in BOOLEAN /\ Interval' # Interval BY <2>1, <2>2, <1>2
  <2> QED BY <2>4, <2>6, <2>7, <1>1, <1>3, <1>4, ClockConstants DEF TickHandled
<1>6. CASE OsTickVal # Trv
  <2>1. pending' = FALSE BY <1>3, <1>6, Zenon
  <2>2. Interval' = Interval BY <1>4, <1>6
  <2>3. TickHandled' = Interval BY <2>1, <2>2 DEF TickHandled
  <2>4. TimesClose' BY <2>1, <2>2, <1>1, <1>2, <1>3 DEF TimesClose
  <2>5. pending' \in BOOLEAN /\ ~pending' BY <2>1
  <2> QED BY <2>3, <2>4, <2>5, <1>1, <1>3, <1>4, ClockConstants DEF TickHandled
<1> QED BY <1>5, <1>6

\* What the tick handler changes.
LEMMA HandlerMoves ==
  ASSUME ClockInv, TickHandler
  PROVE  /\ passed' = passed /\ Interval' = Interval
         /\ TickHandled' = Interval
         /\ pending' \in BOOLEAN /\ ~pending'
         /\ TimesClose'
         /\ UNCHANGED <<overflowData, step, read, newest, late>>
<1>1. /\ passed' = passed /\ pending' = FALSE
      /\ UNCHANGED <<overflowData, step, read, newest, late>>
  BY Zenon DEF TickHandler
<1>2. Interval' = Interval BY <1>1 DEF Interval
<1>3. TickHandled' = Interval BY <1>1, <1>2 DEF TickHandled
<1>4. TimesClose' BY <1>1, <1>2 DEF TimesClose, ClockInv
<1>5. pending' \in BOOLEAN /\ ~pending' BY <1>1
<1> QED BY <1>1, <1>2, <1>3, <1>4, <1>5

\* Hardware and tick handler keep the invariant.
LEMMA ClockTicks == ClockInv /\ (Tick \/ TickHandler) => ClockInv'
<1> SUFFICES ASSUME ClockInv, Tick \/ TickHandler PROVE ClockInv' OBVIOUS
<1>1. /\ passed \in Nat /\ pending \in BOOLEAN /\ passed <= MaxElapsed
      /\ ClockTypes /\ TimesClose /\ WordExact
      /\ pending => Interval >= 1
  BY DEF ClockInv, ClockTypes, TimesClose
<1>2. /\ Interval \in Nat /\ OsTickVal \in 0 .. Trv /\ TickHandled \in Nat
      /\ TickHandled <= Interval
  BY <1>1, Times
<1>3. /\ passed' \in Nat /\ passed <= passed' /\ passed' <= MaxElapsed
      /\ Interval' \in Nat /\ Interval <= Interval'
      /\ TickHandled' \in Nat /\ TickHandled <= TickHandled'
      /\ pending' \in BOOLEAN /\ (Interval' = Interval => ~pending')
      /\ TimesClose'
      /\ UNCHANGED <<overflowData, step, read, newest, late>>
  <2>1. CASE Tick
    <3>1. /\ passed' = passed + 1 /\ passed' <= MaxElapsed
          /\ Interval' = IF OsTickVal = Trv THEN Interval + 1 ELSE Interval
          /\ TickHandled' = Interval /\ TickHandled = Interval
          /\ pending' \in BOOLEAN /\ (Interval' = Interval => ~pending') /\ TimesClose'
          /\ UNCHANGED <<overflowData, step, read, newest, late>>
      BY <2>1, TickMoves
    <3>2. Interval' \in Nat /\ Interval <= Interval' BY <3>1, <1>2
    <3> QED BY <3>1, <3>2, <1>1, <1>2
  <2>2. CASE TickHandler
    <3>1. /\ passed' = passed /\ Interval' = Interval /\ TickHandled' = Interval
          /\ pending' \in BOOLEAN /\ ~pending' /\ TimesClose'
          /\ UNCHANGED <<overflowData, step, read, newest, late>>
      BY <2>2, HandlerMoves
    <3> QED BY <3>1, <1>1, <1>2
  <2> QED BY <2>1, <2>2
<1>4. ClockTypes'
  <2>1. ASSUME NEW r \in Readers PROVE read'[r].since <= passed'
    <3>1. read[r].since <= passed /\ read[r].since \in Nat
      BY <1>1 DEF ClockTypes, ReadType
    <3> QED BY <3>1, <1>1, <1>3
  <2> QED BY <1>1, <1>3, <2>1 DEF ClockTypes
<1>5. WordExact' BY <1>1, <1>3 DEF WordExact
<1>6. ASSUME NEW r \in Readers PROVE (NotEarly(r) /\ NotAhead(r) /\ Seen(r))'
  <2>1. step'[r] = step[r] /\ read'[r] = read[r] /\ (late => late') BY <1>3
  <2> QED BY <1>3, <2>1, ReaderKept
<1> QED BY <1>3, <1>4, <1>5, <1>6 DEF ClockInv
-----------------------------------------------------------------------------
\* A step of reader q alone: the rest of the state is what it was, and so are the others.
OneReader(q) == /\ ReadsOnly
                /\ step' \in [Readers -> ReaderSteps] /\ read' \in [Readers -> ReadType]
                /\ \A r \in Readers \ {q} : step'[r] = step[r] /\ read'[r] = read[r]
                /\ read'[q].since <= passed
                /\ (NotEarly(q) /\ NotAhead(q) /\ Seen(q))'

\* The types that the steps of the readers need.
LEMMA ClockFacts ==
  ASSUME ClockInv
  PROVE  /\ passed \in Nat /\ newest \in Nat /\ pending \in BOOLEAN /\ late \in BOOLEAN
         /\ overflowData \in [high : 0 .. High - 1, overflows : Nat]
         /\ step \in [Readers -> ReaderSteps] /\ read \in [Readers -> ReadType]
         /\ Interval \in Nat /\ OsTickVal \in 0 .. Trv
         /\ passed = Interval * Lap + OsTickVal
         /\ TickHandled \in Nat /\ TickHandled <= Interval /\ Interval <= TickHandled + 1
         /\ pending => Interval = TickHandled + 1
         /\ ~pending => Interval = TickHandled
<1>1. /\ passed \in Nat /\ newest \in Nat /\ pending \in BOOLEAN /\ late \in BOOLEAN
      /\ overflowData \in [high : 0 .. High - 1, overflows : Nat]
      /\ step \in [Readers -> ReaderSteps] /\ read \in [Readers -> ReadType]
      /\ pending => Interval >= 1
  BY DEF ClockInv, ClockTypes, TimesClose
<1> QED BY <1>1, Times

\* The readers do not move the time.
LEMMA ClockSame ==
  ASSUME ClockInv, UNCHANGED <<passed, pending>>
  PROVE  /\ passed' \in Nat /\ passed <= passed'
         /\ Interval' = Interval /\ TickHandled' = TickHandled
         /\ Interval' \in Nat /\ Interval <= Interval'
         /\ TickHandled' \in Nat /\ TickHandled <= TickHandled'
<1>1. Interval' = Interval BY DEF Interval
<1>2. TickHandled' = TickHandled BY <1>1 DEF TickHandled
<1>3. passed \in Nat /\ Interval \in Nat /\ TickHandled \in Nat BY ClockFacts
<1> QED BY <1>1, <1>2, <1>3

\* A step of one reader, of which only the reader is known to be sound afterwards.
LEMMA OneReaderKeeps ==
  ASSUME ClockInv, NEW q \in Readers, OneReader(q)
  PROVE  ClockInv'
<1>1. /\ UNCHANGED <<passed, pending, overflowData, newest, late>>
      /\ step' \in [Readers -> ReaderSteps] /\ read' \in [Readers -> ReadType]
      /\ read'[q].since <= passed
      /\ (NotEarly(q) /\ NotAhead(q) /\ Seen(q))'
  BY DEF OneReader, ReadsOnly
<1>2. Interval' = Interval BY <1>1 DEF Interval
<1>3. ClockTypes'
  <2>1. ASSUME NEW r \in Readers PROVE read'[r].since <= passed
    <3>1. CASE r = q BY <3>1, <1>1
    <3>2. CASE r # q BY <3>2 DEF OneReader, ClockInv, ClockTypes
    <3> QED BY <3>1, <3>2
  <2>2. ClockTypes BY DEF ClockInv
  <2> QED BY <1>1, <2>1, <2>2 DEF ClockTypes
<1>4. TimesClose' BY <1>1, <1>2 DEF ClockInv, TimesClose
<1>5. WordExact' BY <1>1 DEF ClockInv, WordExact
<1>6. ASSUME NEW r \in Readers PROVE (NotEarly(r) /\ NotAhead(r) /\ Seen(r))'
  <2>1. CASE r = q BY <2>1, <1>1
  <2>2. CASE r # q
    <3>1. step'[r] = step[r] /\ read'[r] = read[r] BY <2>2 DEF OneReader
    <3>2. late => late' BY <1>1
    <3> QED BY <3>1, <3>2, <1>1, ClockSame, ReaderKept
  <2> QED BY <2>1, <2>2
<1> QED BY <1>3, <1>4, <1>5, <1>6 DEF ClockInv
-----------------------------------------------------------------------------
\* The first read of the counter.
LEMMA ReadTicksKeeps ==
  ASSUME ClockInv, NEW q \in Readers, ReadTicks(q)
  PROVE  OneReader(q)
<1> USE ClockFacts
<1>1. step[q] = "idle" /\ step' = [step EXCEPT ![q] = "ovf"] /\ ReadsOnly
      /\ read' = [read EXCEPT ![q].ticks = OsTickVal, ![q].since = passed]
  BY Zenon DEF ReadTicks, Goes
<1>2. step' \in [Readers -> ReaderSteps] /\ step'[q] = "ovf" BY <1>1 DEF ReaderSteps
<1>3. read' \in [Readers -> ReadType]
  <2>1. ASSUME NEW x \in ReadType, NEW a \in 0 .. Trv, NEW b \in Nat
        PROVE  [x EXCEPT !.ticks = a, !.since = b] \in ReadType
    BY DEF ReadType
  <2>2. [read[q] EXCEPT !.ticks = OsTickVal, !.since = passed] \in ReadType
    BY <2>1
  <2>3. read' = [read EXCEPT ![q] = [read[q] EXCEPT !.ticks = OsTickVal, !.since = passed]]
    BY <1>1
  <2> QED
    BY <2>2, <2>3
<1>4. read'[q].since = passed /\ read'[q].ticks = OsTickVal BY <1>1 DEF ReadType
<1>5. Interval' = Interval BY <1>1 DEF ReadsOnly, Interval
<1>6. NotEarly(q)'
  <2>1. read'[q].since <= Interval * Lap + read'[q].ticks BY <1>4
  <2> QED BY <1>2, <1>5, <2>1 DEF NotEarly, Lap
<1>7. NotAhead(q)' BY <1>2 DEF NotAhead
<1>8. Seen(q)' BY <1>2 DEF Seen
<1>9. \A r \in Readers \ {q} : step'[r] = step[r] /\ read'[r] = read[r] BY <1>1
<1> QED BY <1>1, <1>2, <1>3, <1>4, <1>6, <1>7, <1>8, <1>9 DEF OneReader

\* Both reads of os_tick_ovf().
LEMMA ReadOvfKeeps ==
  ASSUME ClockInv, NEW q \in Readers, ReadOvf(q)
  PROVE  OneReader(q)
<1> USE ClockFacts
<1>1. ReadsOnly /\ read' = [read EXCEPT ![q].ovf = pending] BY Zenon DEF ReadOvf
<1>2. read' \in [Readers -> ReadType] BY <1>1 DEF ReadType
<1>3. /\ read'[q].since = read[q].since /\ read'[q].ticks = read[q].ticks
      /\ read'[q].seen = read[q].seen /\ read'[q].ticksAgain = read[q].ticksAgain
      /\ read'[q].time = read[q].time
  BY <1>1 DEF ReadType
<1>4. read'[q].ovf = pending BY <1>1 DEF ReadType
<1>5. Interval' = Interval /\ TickHandled' = TickHandled
  BY <1>1, ClockSame DEF ReadsOnly
<1>6. NotEarly(q) /\ NotAhead(q) /\ Seen(q) /\ read[q].since <= passed
  BY DEF ClockInv, ClockTypes
<1>7. CASE step[q] = "ovf" /\ step' = [step EXCEPT ![q] = "time"]
  <2>1. step' \in [Readers -> ReaderSteps] /\ step'[q] = "time" BY <1>7 DEF ReaderSteps
  <2>2. NotEarly(q)'
    <3>1. TimeNow(q)' = Interval BY <1>4, <1>5 DEF TimeNow
    <3>2. read[q].since <= Interval * Lap + read[q].ticks BY <1>6, <1>7 DEF NotEarly
    <3> QED BY <1>3, <2>1, <3>1, <3>2 DEF NotEarly, Lap
  <2>3. NotAhead(q)' BY <2>1 DEF NotAhead
  <2>4. Seen(q)' BY <2>1 DEF Seen
  <2>5. \A r \in Readers \ {q} : step'[r] = step[r] /\ read'[r] = read[r] BY <1>1, <1>7
  <2> QED BY <1>1, <1>2, <1>3, <1>6, <2>1, <2>2, <2>3, <2>4, <2>5 DEF OneReader
<1>8. CASE step[q] = "ovf again" /\ step' = [step EXCEPT ![q] = "time again"]
  <2>1. step' \in [Readers -> ReaderSteps] /\ step'[q] = "time again" BY <1>8 DEF ReaderSteps
  <2>2. NotEarly(q)' BY <1>3, <1>6, <1>8, <2>1 DEF NotEarly, Lap
  <2>3. NotAhead(q)' BY <1>1, <1>3, <1>6, <1>8, <2>1 DEF NotAhead, Lap, ReadsOnly
  <2>6. read[q].seen = Interval + 1 => ~pending BY <1>6, <1>8 DEF Seen
  <2>7. read'[q].seen = Interval' + 1 => ~pending' /\ ~read'[q].ovf
    BY <1>1, <1>3, <1>4, <1>5, <2>6 DEF ReadsOnly
  <2>4. Seen(q)' BY <1>3, <1>5, <1>6, <1>8, <2>1, <2>7 DEF Seen, Wrap
  <2>5. \A r \in Readers \ {q} : step'[r] = step[r] /\ read'[r] = read[r] BY <1>1, <1>8
  <2> QED BY <1>1, <1>2, <1>3, <1>6, <2>1, <2>2, <2>3, <2>4, <2>5 DEF OneReader
<1> QED BY <1>7, <1>8, Zenon DEF ReadOvf, Goes

\* The first read of os_time.
LEMMA ReadTimeKeeps ==
  ASSUME ClockInv, NEW q \in Readers, ReadTime(q)
  PROVE  OneReader(q)
<1> USE ClockFacts
<1> DEFINE t == TimeNow(q)
<1>1. /\ step[q] = "time" /\ step' = [step EXCEPT ![q] = "ticks again"] /\ ReadsOnly
      /\ read' = [read EXCEPT ![q].time = t % Wrap, ![q].seen = t, ![q].ovf = FALSE]
  BY Zenon DEF ReadTime, Goes
<1>2. t \in Nat /\ t <= Interval + 1 /\ (t = Interval + 1 => ~pending) BY DEF TimeNow
<1>3. t % Wrap \in 0 .. Wrap - 1 BY <1>2, ClockNats, DivSplit
<1>4. read[q].since <= t * Lap + read[q].ticks BY <1>1 DEF ClockInv, NotEarly
<1> HIDE DEF t
<1>5. step' \in [Readers -> ReaderSteps] /\ step'[q] = "ticks again" BY <1>1 DEF ReaderSteps
<1>6. read' \in [Readers -> ReadType]
  <2>1. ASSUME NEW w \in 0 .. Wrap - 1
        PROVE  [read[q] EXCEPT !.time = w, !.seen = t, !.ovf = FALSE] \in ReadType
    BY <1>2 DEF ReadType
  <2>2. [read[q] EXCEPT !.time = t % Wrap, !.seen = t, !.ovf = FALSE] \in ReadType
    BY <1>3, <2>1
  <2>3. read' = [read EXCEPT ![q] = [read[q] EXCEPT !.time = t % Wrap, !.seen = t, !.ovf = FALSE]]
    BY <1>1
  <2> QED BY <2>2, <2>3
<1>7. /\ read'[q].since = read[q].since /\ read'[q].ticks = read[q].ticks
      /\ read'[q].seen = t /\ read'[q].time = t % Wrap /\ ~read'[q].ovf
  BY <1>1, <1>2 DEF ReadType
<1>8. Interval' = Interval BY <1>1, ClockSame DEF ReadsOnly
<1>9. NotEarly(q)' BY <1>4, <1>5, <1>7 DEF NotEarly, Lap
<1>10. NotAhead(q)'
  <2>1. t * Lap <= (Interval + 1) * Lap BY <1>2, ClockNats, TimesMonotone
  <2>2. (Interval + 1) * Lap = Interval * Lap + Lap /\ Interval * Lap \in Nat BY ClockNats
  <2>3. t * Lap \in Nat BY <1>2, ClockNats
  <2>4. t * Lap <= passed + Lap BY <2>1, <2>2, <2>3, ClockNats
  <2>5. read'[q].seen * Lap <= passed' + Lap BY <2>4, <1>1, <1>7 DEF ReadsOnly
  <2> QED BY <2>5, <1>5 DEF NotAhead, Lap
<1>11. Seen(q)' BY <1>1, <1>2, <1>5, <1>7, <1>8 DEF Seen, Wrap, ReadsOnly
<1>12. \A r \in Readers \ {q} : step'[r] = step[r] /\ read'[r] = read[r] BY <1>1
<1>13. read'[q].since <= passed BY <1>7 DEF ClockInv, ClockTypes
<1> QED BY <1>1, <1>5, <1>6, <1>9, <1>10, <1>11, <1>12, <1>13 DEF OneReader

\* The second read of the counter.
LEMMA ReadTicksAgainKeeps ==
  ASSUME ClockInv, NEW q \in Readers, ReadTicksAgain(q)
  PROVE  OneReader(q)
<1> USE ClockFacts
<1>1. /\ step[q] = "ticks again" /\ step' = [step EXCEPT ![q] = "ovf again"] /\ ReadsOnly
      /\ read' = [read EXCEPT ![q].ticksAgain = OsTickVal]
  BY Zenon DEF ReadTicksAgain, Goes
<1>2. step' \in [Readers -> ReaderSteps] /\ step'[q] = "ovf again" BY <1>1 DEF ReaderSteps
<1>3. read' \in [Readers -> ReadType] BY <1>1, ZenonT(60) DEF ReadType
<1>4. /\ read'[q].since = read[q].since /\ read'[q].ticks = read[q].ticks
      /\ read'[q].seen = read[q].seen /\ read'[q].time = read[q].time
      /\ read'[q].ticksAgain = OsTickVal
  BY <1>1 DEF ReadType
<1>5. Interval' = Interval BY <1>1, ClockSame DEF ReadsOnly
<1>6. NotEarly(q) /\ NotAhead(q) /\ Seen(q) /\ read[q].since <= passed /\ read[q].seen \in Nat
  BY DEF ClockInv, ClockTypes, ReadType
<1>7. NotEarly(q)' BY <1>1, <1>2, <1>4, <1>6 DEF NotEarly, Lap
<1>8. NotAhead(q)'
  <2>1. read[q].seen <= Interval + 1 BY <1>1, <1>6 DEF Seen
  <2>2. read[q].seen * Lap <= (Interval + 1) * Lap BY <1>6, <2>1, ClockNats, TimesMonotone
  <2>3. (Interval + 1) * Lap = Interval * Lap + Lap /\ Interval * Lap \in Nat BY ClockNats
  <2>4. read[q].seen * Lap \in Nat BY <1>6, ClockNats
  <2>5. read[q].seen * Lap + OsTickVal <= passed + Lap BY <2>2, <2>3, <2>4, ClockNats
  <2>6. read'[q].seen * Lap + read'[q].ticksAgain <= passed' + Lap
    BY <2>5, <1>1, <1>4 DEF ReadsOnly
  <2> QED BY <2>6, <1>2 DEF NotAhead, Lap
<1>9. Seen(q)'
  <2>1. read'[q].ovf = read[q].ovf BY <1>1 DEF ReadType
  <2>2. read'[q].seen = Interval' + 1 => ~pending' /\ ~read'[q].ovf
    BY <1>1, <1>4, <1>5, <1>6, <2>1 DEF Seen, ReadsOnly
  <2> QED BY <1>1, <1>2, <1>4, <1>5, <1>6, <2>2 DEF Seen, Wrap
<1>10. \A r \in Readers \ {q} : step'[r] = step[r] /\ read'[r] = read[r] BY <1>1
<1> QED BY <1>1, <1>2, <1>3, <1>4, <1>6, <1>7, <1>8, <1>9, <1>10 DEF OneReader

\* A round or a call ends.
LEMMA ReaderStarts ==
  ASSUME ClockInv, NEW q \in Readers, ReadsOnly, step' = [step EXCEPT ![q] = "idle"],
         read' = [read EXCEPT ![q] = NothingRead]
  PROVE  OneReader(q)
<1> USE ClockFacts
<1>1. step' \in [Readers -> ReaderSteps] /\ step'[q] = "idle" BY DEF ReaderSteps
<1>2. NothingRead \in ReadType
  <2>1. 0 \in 0 .. Trv /\ 0 \in 0 .. Wrap - 1 /\ 0 \in 0 .. High - 1 BY ClockNats
  <2> QED BY <2>1 DEF NothingRead, ReadType
<1>3. read' \in [Readers -> ReadType] BY <1>2
<1>4. read'[q] = NothingRead BY Zenon
<1>5. read'[q].since <= passed
  <2>1. read'[q].since = 0 BY <1>4 DEF NothingRead
  <2> QED BY <2>1
<1>6. NotEarly(q)' /\ NotAhead(q)' /\ Seen(q)' BY <1>1 DEF NotEarly, NotAhead, Seen
<1>7. \A r \in Readers \ {q} : step'[r] = step[r] /\ read'[r] = read[r] OBVIOUS
<1> QED BY <1>1, <1>3, <1>5, <1>6, <1>7 DEF OneReader

\* The second read of os_time: the pair is exact, or the round is repeated.
LEMMA ReadTimeAgainKeeps ==
  ASSUME ClockInv, NEW q \in Readers, ReadTimeAgain(q)
  PROVE  OneReader(q)
<1> USE ClockFacts
<1>1. ReadsOnly /\ step[q] = "time again" BY Zenon DEF ReadTimeAgain, Goes
<1>2. CASE read[q].ticksAgain <= read[q].ticks \/ read[q].time # TimeNow(q) % Wrap
  <2>1. step' = [step EXCEPT ![q] = "idle"] /\ read' = [read EXCEPT ![q] = NothingRead]
    BY <1>2 DEF ReadTimeAgain, Goes
  <2> QED BY <2>1, <1>1, ReaderStarts
<1>3. CASE ~(read[q].ticksAgain <= read[q].ticks \/ read[q].time # TimeNow(q) % Wrap)
  <2>1. /\ step' = [step EXCEPT ![q] = "data"]
        /\ read' = [read EXCEPT ![q].ovf = FALSE, ![q].ticksAgain = 0]
    BY <1>3 DEF ReadTimeAgain, Goes
  <2>2. step' \in [Readers -> ReaderSteps] /\ step'[q] = "data" BY <2>1 DEF ReaderSteps
  <2>3. 0 \in 0 .. Trv BY ClockNats
  <2>4. read' \in [Readers -> ReadType] BY <2>1, <2>3, ZenonT(60) DEF ReadType
  <2>5. /\ read'[q].since = read[q].since /\ read'[q].ticks = read[q].ticks
        /\ read'[q].seen = read[q].seen /\ read'[q].time = read[q].time
    BY <2>1 DEF ReadType
  <2>6. Interval' = Interval BY <1>1, ClockSame DEF ReadsOnly
  <2>7. /\ NotEarly(q) /\ NotAhead(q) /\ Seen(q) /\ read[q].since <= passed
        /\ read[q].seen \in Nat /\ read[q].ticks \in Nat /\ read[q].ticksAgain \in Nat
    BY ClockNats DEF ClockInv, ClockTypes, ReadType
  <2>8. NotEarly(q)' BY <1>1, <2>2, <2>5, <2>7 DEF NotEarly, Lap
  <2>9. NotAhead(q)'
    <3>1. read[q].seen * Lap + read[q].ticksAgain <= passed + Lap BY <1>1, <2>7 DEF NotAhead
    <3>2. read[q].ticks + 1 <= read[q].ticksAgain BY <1>3, <2>7
    <3>3. read[q].seen * Lap \in Nat /\ Lap = Trv + 1 /\ Trv \in Nat BY <2>7, ClockNats
    <3>4. read[q].seen * Lap + read[q].ticks <= passed + Trv BY <3>1, <3>2, <3>3, <2>7
    <3>5. read'[q].seen * Lap + read'[q].ticks <= passed' + Trv
      BY <3>4, <1>1, <2>5 DEF ReadsOnly
    <3> QED BY <3>5, <2>2 DEF NotAhead, Lap
  <2>12. read[q].seen <= Interval
    <3>5. read[q].seen <= Interval + 1 BY <1>1, <2>7 DEF Seen
    <3>1. SUFFICES ASSUME read[q].seen = Interval + 1 PROVE FALSE BY <2>7, <3>5
    <3>2. ~pending /\ ~read[q].ovf BY <1>1, <2>7, <3>1 DEF Seen
    <3>3. TimeNow(q) = Interval BY <3>2 DEF TimeNow
    <3>4. (Interval + 1) % Wrap = Interval % Wrap BY <1>1, <1>3, <2>7, <3>1, <3>3 DEF Seen
    <3> QED BY <3>4, ClockNats, NextMod
  <2>10. Seen(q)' BY <1>1, <2>2, <2>5, <2>6, <2>7, <2>12 DEF Seen, Wrap
  <2>11. \A r \in Readers \ {q} : step'[r] = step[r] /\ read'[r] = read[r] BY <2>1
  <2> QED BY <1>1, <2>2, <2>4, <2>5, <2>7, <2>8, <2>9, <2>10, <2>11 DEF OneReader
<1> QED BY <1>2, <1>3
-----------------------------------------------------------------------------
\* The high bits of a reader's time, between the newest one and Interval.
LEMMA HighBitsRight ==
  ASSUME ClockInv, NEW q \in Readers, step[q] \in {"data", "replace"}
  PROVE  \E n \in Nat :
           /\ HighBits(q) \in 0 .. High - 1
           /\ read[q].seen \div Low = n * High + HighBits(q)
           /\ read[q].seen = n * Wrap + read[q].time
           /\ read[q].seen \div Low \in Nat /\ newest \div Low \in Nat
           /\ read[q].seen \div Low <= newest \div Low + 1
           /\ ~late /\ read[q].seen \div Low >= newest \div Low =>
                n = overflowData.overflows
                      + (IF HighBits(q) < overflowData.high THEN 1 ELSE 0)
<1> DEFINE x == read[q].seen  n == x \div Wrap  h == HighBits(q)  p == newest \div Low
           ov == overflowData.overflows  oh == overflowData.high
<1>1. /\ x \in Nat /\ newest \in Nat /\ x <= Interval /\ Interval <= newest + Low
      /\ Interval \in Nat /\ read[q].time = x % Wrap
      /\ ov \in Nat /\ oh \in 0 .. High - 1
  BY ClockFacts DEF ClockInv, TimesClose, Seen, ReadType
<1>2. /\ h \in 0 .. High - 1 /\ n \in Nat /\ x \div Low \in Nat
      /\ x \div Low = n * High + h
      /\ x = n * Wrap + read[q].time
  <2>1. h = (x % (High * Low)) \div Low BY <1>1 DEF HighBits, Wrap
  <2>2. n = x \div (High * Low) BY DEF Wrap
  <2>3. x % (High * Low) = read[q].time BY <1>1 DEF Wrap
  <2>4. x \in Nat /\ Low \in Nat /\ High \in Nat /\ Low > 0 /\ High > 0 BY <1>1, ClockNats
  <2> HIDE DEF x, n, h
  <2>5. HighDiv(x, High, Low) BY <2>4, HighOf
  <2>6. x = n * (High * Low) + read[q].time BY <2>2, <2>3, <2>5, Zenon DEF HighDiv
  <2>7. x = n * Wrap + read[q].time BY <2>6 DEF Wrap
  <2> QED BY <2>1, <2>2, <2>5, <2>7, Zenon DEF HighDiv
<1>3. p \in Nat /\ x \div Low <= p + 1
  <2>1. x <= newest + Low BY <1>1, ClockNats
  <2> HIDE DEF x
  <2> QED BY <1>1, <2>1, ClockNats, DivSplit, DivClose
<1>4. ASSUME ~late, x \div Low >= p
      PROVE  n = ov + (IF h < oh THEN 1 ELSE 0)
  <2>1. ov * High + oh = p BY <1>4 DEF ClockInv, WordExact
  <2> HIDE DEF x, n, h, p, ov, oh
  <2>2. n * High + h <= ov * High + oh + 1 /\ ov * High + oh <= n * High + h
    BY <1>2, <1>3, <1>4, <2>1
  <2>3. (h = oh => n = ov) /\ (h < oh => n = ov + 1) /\ (oh < h => n = ov)
    BY <1>1, <1>2, <2>2, ClockNats, Nearest
  <2> QED BY <2>3, <1>1, <1>2
<1> HIDE DEF n, x
<1>5. \E k \in Nat : k = n BY <1>2
<1> QED BY <1>2, <1>3, <1>4 DEF x

\* A reader leaves the second step with the high bits counted n times.
LEMMA DoneKeeps ==
  ASSUME ClockInv, NEW q \in Readers, step[q] \in {"data", "replace"},
         Done(q), step' = [step EXCEPT ![q] = "done"],
         UNCHANGED <<passed, pending>>,
         read' \in [Readers -> ReadType], \A r \in Readers \ {q} : read'[r] = read[r],
         read'[q].since <= passed,
         ~late' => /\ read'[q].overflows * Wrap + read'[q].time = read'[q].seen
                   /\ overflowData'.overflows * High + overflowData'.high = read[q].seen \div Low,
         overflowData' \in [high : 0 .. High - 1, overflows : Nat]
  PROVE  ClockInv'
<1> USE ClockFacts
<1>1. /\ late' = (late \/ read[q].seen \div Low < newest \div Low)
      /\ newest' = IF read[q].seen < newest THEN newest ELSE read[q].seen
  BY Zenon DEF Done
<1>2. read[q].seen \in Nat /\ read[q].seen <= Interval + 1
  BY DEF ClockInv, Seen, ReadType
<1>3. newest' \in Nat /\ newest <= newest' /\ newest' <= Interval + 1
  BY <1>1, <1>2 DEF ClockInv, TimesClose
<1>4. late' \in BOOLEAN /\ (late => late') BY <1>1
<1>5. step' \in [Readers -> ReaderSteps] /\ step'[q] = "done" BY DEF ReaderSteps
<1>6. Interval' = Interval BY ClockSame
<1>7. ClockTypes'
  <2>1. ASSUME NEW r \in Readers PROVE read'[r].since <= passed
    BY DEF ClockInv, ClockTypes
  <2>2. passed' \in Nat /\ passed' <= MaxElapsed /\ pending' \in BOOLEAN
    BY DEF ClockInv, ClockTypes
  <2> QED BY <1>3, <1>4, <1>5, <2>1, <2>2 DEF ClockTypes
<1>8. TimesClose'
  <2>1. Interval <= newest + Low BY DEF ClockInv, TimesClose
  <2>2. Interval <= newest' + Low BY <2>1, <1>3, ClockNats
  <2> QED BY <1>3, <1>6, <2>2 DEF TimesClose, ClockInv
<1>9. WordExact'
  <2>1. SUFFICES ASSUME ~late' PROVE newest' \div Low = read[q].seen \div Low
    BY <1>1 DEF WordExact
  <2>2. ~(read[q].seen \div Low < newest \div Low) BY <2>1, <1>1
  <2>3. CASE read[q].seen < newest
    <3>1. newest' = newest BY <1>1, <2>3
    <3>2. read[q].seen \div Low <= newest \div Low
      BY <1>2, <2>3, ClockNats, DivMonotone
    <3>3. read[q].seen \div Low \in Nat /\ newest \div Low \in Nat
      BY <1>2, ClockNats, DivSplit
    <3> DEFINE a == read[q].seen \div Low  b == newest \div Low
    <3>4. a \in Nat /\ b \in Nat /\ a <= b /\ ~(a < b) BY <2>2, <3>2, <3>3
    <3> HIDE DEF a, b
    <3>5. a = b BY <3>4
    <3> QED BY <3>1, <3>5 DEF a, b
  <2>4. CASE ~(read[q].seen < newest) BY <1>1, <2>4
  <2> QED BY <2>3, <2>4
<1>10. ASSUME NEW r \in Readers PROVE (NotEarly(r) /\ NotAhead(r) /\ Seen(r))'
  <2>1. CASE r = q BY <2>1, <1>5 DEF NotEarly, NotAhead, Seen, Wrap
  <2>2. CASE r # q
    <3>1. step'[r] = step[r] /\ read'[r] = read[r] BY <2>2
    <3> QED BY <3>1, <1>4, ClockSame, ReaderKept
  <2> QED BY <2>1, <2>2
<1> QED BY <1>7, <1>8, <1>9, <1>10 DEF ClockInv

\* The word is read: the high bits are those of the word, or have changed.
LEMMA LoadDataKeeps ==
  ASSUME ClockInv, NEW q \in Readers, LoadData(q)
  PROVE  ClockInv'
<1> USE ClockFacts
<1>1. UNCHANGED <<passed, pending, overflowData>> /\ step[q] = "data"
  BY Zenon DEF LoadData, Goes
<1>2. /\ NotEarly(q) /\ NotAhead(q) /\ Seen(q)
  BY DEF ClockInv
<1>3. CASE HighBits(q) = overflowData.high
  <2>1. /\ step' = [step EXCEPT ![q] = "done"] /\ Done(q)
        /\ read' = [read EXCEPT ![q].overflows = overflowData.overflows, ![q].since = 0]
    BY <1>3 DEF LoadData, Goes
  <2>2. read' \in [Readers -> ReadType] BY <2>1, ZenonT(60) DEF ReadType
  <2>3. /\ read'[q].since = 0 /\ read'[q].seen = read[q].seen /\ read'[q].time = read[q].time
        /\ read'[q].overflows = overflowData.overflows
    BY <2>1 DEF ReadType
  <2>4. \A r \in Readers \ {q} : read'[r] = read[r] BY <2>1
  <2>5. ASSUME ~late'
        PROVE  /\ read'[q].overflows * Wrap + read'[q].time = read'[q].seen
               /\ overflowData'.overflows * High + overflowData'.high = read[q].seen \div Low
    <3>1. PICK n \in Nat :
            /\ HighBits(q) \in 0 .. High - 1
            /\ read[q].seen \div Low = n * High + HighBits(q)
            /\ read[q].seen = n * Wrap + read[q].time
            /\ read[q].seen \div Low \in Nat /\ newest \div Low \in Nat
            /\ ~late /\ read[q].seen \div Low >= newest \div Low =>
                 n = overflowData.overflows
                       + (IF HighBits(q) < overflowData.high THEN 1 ELSE 0)
      BY <1>1, HighBitsRight
    <3>2. ~late /\ ~(read[q].seen \div Low < newest \div Low) BY <2>1, <2>5 DEF Done
    <3>3. read[q].seen \div Low >= newest \div Low BY <3>1, <3>2
    <3>4. n = overflowData.overflows + 0
      <4>1. ~(HighBits(q) < overflowData.high) BY <1>3, <3>1
      <4> QED BY <3>1, <3>2, <3>3, <4>1
    <3>5. overflowData.overflows \in Nat OBVIOUS
    <3>6. n = overflowData.overflows BY <3>4, <3>5
    <3> QED BY <3>1, <3>6, <2>3, <1>1, <1>3
  <2>6. read'[q].since <= passed BY <2>3
  <2> QED BY <1>1, <2>1, <2>2, <2>4, <2>5, <2>6, DoneKeeps
<1>4. CASE HighBits(q) # overflowData.high
  <2>1. /\ step' = [step EXCEPT ![q] = "replace"] /\ UNCHANGED <<newest, late>>
        /\ read' = [read EXCEPT ![q].data = overflowData, ![q].since = 0]
    BY <1>4 DEF LoadData, Goes
  <2>2. read' \in [Readers -> ReadType] BY <2>1, ZenonT(60) DEF ReadType
  <2>3. /\ read'[q].since = 0 /\ read'[q].seen = read[q].seen /\ read'[q].time = read[q].time
        /\ read'[q].data = overflowData
    BY <2>1 DEF ReadType
  <2>4. step' \in [Readers -> ReaderSteps] /\ step'[q] = "replace" BY <2>1 DEF ReaderSteps
  <2>5. Interval' = Interval BY <1>1, ClockSame
  <2>6. read[q].seen <= Interval /\ read[q].seen <= Interval + 1 /\ read[q].time = read[q].seen % Wrap
    BY <1>1, <1>2 DEF Seen
  <2>7. HighBits(q)' # read'[q].data.high BY <1>4, <2>3 DEF HighBits
  <2>8. NotEarly(q)' /\ NotAhead(q)'
    <3>1. read'[q].ticks = read[q].ticks /\ read[q].ticks \in Nat /\ read[q].seen * Lap \in Nat
      BY <2>1, ClockNats DEF ReadType
    <3>2. 0 <= read[q].seen * Lap + read[q].ticks BY <3>1
    <3>3. read[q].seen * Lap + read[q].ticks <= passed + Trv BY <1>1, <1>2 DEF NotAhead
    <3>4. read'[q].since <= read'[q].seen * Lap + read'[q].ticks BY <2>3, <3>1, <3>2
    <3>5. read'[q].seen * Lap + read'[q].ticks <= passed' + Trv BY <1>1, <2>3, <3>1, <3>3
    <3> QED BY <2>4, <3>4, <3>5 DEF NotEarly, NotAhead, Lap
  <2>9. Seen(q)' BY <2>3, <2>4, <2>5, <2>6, <2>7 DEF Seen, Wrap
  <2>10. read'[q].since <= passed BY <2>3
  <2>11. \A r \in Readers \ {q} : step'[r] = step[r] /\ read'[r] = read[r] BY <2>1
  <2>12. OneReader(q)
    BY <1>1, <2>1, <2>2, <2>4, <2>8, <2>9, <2>10, <2>11 DEF OneReader, ReadsOnly
  <2> QED BY <2>12, OneReaderKeeps
<1> QED BY <1>3, <1>4

\* The word is replaced: the wrap is counted once.
LEMMA ReplaceKeeps ==
  ASSUME ClockInv, NEW q \in Readers, Replace(q)
  PROVE  ClockInv'
<1> USE ClockFacts
<1>1. /\ UNCHANGED <<passed, pending>> /\ step[q] = "replace" /\ overflowData = read[q].data
      /\ step' = [step EXCEPT ![q] = "done"] /\ Done(q)
      /\ overflowData' = [high |-> HighBits(q), overflows |-> Counted(q)]
      /\ read' = [read EXCEPT ![q].overflows = Counted(q), ![q].data = NothingRead.data]
  BY Zenon DEF Replace, Replaces, Goes
<1>2. Seen(q) BY DEF ClockInv
<1>3. PICK n \in Nat :
            /\ HighBits(q) \in 0 .. High - 1
            /\ read[q].seen \div Low = n * High + HighBits(q)
            /\ read[q].seen = n * Wrap + read[q].time
            /\ read[q].seen \div Low \in Nat /\ newest \div Low \in Nat
            /\ ~late /\ read[q].seen \div Low >= newest \div Low =>
                 n = overflowData.overflows
                       + (IF HighBits(q) < overflowData.high THEN 1 ELSE 0)
  BY <1>1, HighBitsRight
<1>4. Counted(q) = overflowData.overflows + (IF HighBits(q) < overflowData.high THEN 1 ELSE 0)
  BY <1>1 DEF Counted
<1>5. Counted(q) \in Nat BY <1>3, <1>4
<1>6. NothingRead.data \in [high : 0 .. High - 1, overflows : Nat]
  BY ClockNats DEF NothingRead
<1>7. read' \in [Readers -> ReadType]
  <2>1. ASSUME NEW c \in Nat, NEW d \in [high : 0 .. High - 1, overflows : Nat]
        PROVE  [read[q] EXCEPT !.overflows = c, !.data = d] \in ReadType
    BY ZenonT(60) DEF ReadType
  <2>2. [read[q] EXCEPT !.overflows = Counted(q), !.data = NothingRead.data] \in ReadType
    BY <1>5, <1>6, <2>1
  <2>3. read' = [read EXCEPT ![q] = [read[q] EXCEPT !.overflows = Counted(q),
                                                    !.data = NothingRead.data]]
    BY <1>1
  <2> QED BY <2>2, <2>3
<1>8. /\ read'[q].since = read[q].since /\ read'[q].seen = read[q].seen
      /\ read'[q].time = read[q].time /\ read'[q].overflows = Counted(q)
  BY <1>1 DEF ReadType
<1>9. overflowData' \in [high : 0 .. High - 1, overflows : Nat]
      /\ overflowData'.high = HighBits(q) /\ overflowData'.overflows = Counted(q)
  BY <1>1, <1>3, <1>5
<1>10. ASSUME ~late'
       PROVE  /\ read'[q].overflows * Wrap + read'[q].time = read'[q].seen
              /\ overflowData'.overflows * High + overflowData'.high = read[q].seen \div Low
  <2>1. ~late /\ ~(read[q].seen \div Low < newest \div Low) BY <1>1, <1>10 DEF Done
  <2>2. read[q].seen \div Low >= newest \div Low BY <1>3, <2>1
  <2>3. n = Counted(q) BY <1>3, <1>4, <2>1, <2>2
  <2> QED BY <1>3, <1>8, <1>9, <2>3
<1>11. read'[q].since <= passed BY <1>8 DEF ClockInv, ClockTypes
<1>12. \A r \in Readers \ {q} : read'[r] = read[r] BY <1>1
<1> QED BY <1>1, <1>7, <1>9, <1>10, <1>11, <1>12, DoneKeeps

\* The word is not replaced: the reader reads it again.
LEMMA ReplaceFailsKeeps ==
  ASSUME ClockInv, NEW q \in Readers, Replace_Fails(q)
  PROVE  OneReader(q)
<1> USE ClockFacts
<1>1. /\ ReadsOnly /\ step[q] = "replace" /\ step' = [step EXCEPT ![q] = "data"]
      /\ read' = [read EXCEPT ![q].data = NothingRead.data]
  BY Zenon DEF Replace_Fails, Goes
<1>2. NothingRead.data \in [high : 0 .. High - 1, overflows : Nat]
  BY ClockNats DEF NothingRead
<1>3. read' \in [Readers -> ReadType]
  <2>1. ASSUME NEW d \in [high : 0 .. High - 1, overflows : Nat]
        PROVE  [read EXCEPT ![q].data = d] \in [Readers -> ReadType]
    BY DEF ReadType
  <2> QED BY <1>1, <1>2, <2>1
<1>4. /\ read'[q].since = read[q].since /\ read'[q].seen = read[q].seen
      /\ read'[q].time = read[q].time /\ read'[q].ticks = read[q].ticks
  BY <1>1 DEF ReadType
<1>5. step' \in [Readers -> ReaderSteps] /\ step'[q] = "data" BY <1>1 DEF ReaderSteps
<1>6. NotEarly(q) /\ NotAhead(q) /\ Seen(q) /\ read[q].since <= passed
  BY DEF ClockInv, ClockTypes
<1>7. Interval' = Interval BY <1>1, ClockSame DEF ReadsOnly
<1>8. NotEarly(q)' BY <1>1, <1>4, <1>5, <1>6 DEF NotEarly, Lap
<1>9. NotAhead(q)' BY <1>1, <1>4, <1>5, <1>6 DEF NotAhead, Lap, ReadsOnly
<1>10. Seen(q)' BY <1>1, <1>4, <1>5, <1>6, <1>7 DEF Seen, Wrap
<1>11. \A r \in Readers \ {q} : step'[r] = step[r] /\ read'[r] = read[r] BY <1>1
<1> QED BY <1>1, <1>3, <1>4, <1>5, <1>6, <1>8, <1>9, <1>10, <1>11 DEF OneReader
-----------------------------------------------------------------------------
\* Every step of the clock keeps the invariant.
LEMMA ClockStep == ClockInv /\ ClockNext => ClockInv'
<1> SUFFICES ASSUME ClockInv, ClockNext PROVE ClockInv' OBVIOUS
<1>1. CASE Tick \/ TickHandler BY <1>1, ClockTicks
<1>2. ASSUME NEW q \in Readers, ReadTicks(q) PROVE ClockInv'
  BY <1>2, ReadTicksKeeps, OneReaderKeeps
<1>3. ASSUME NEW q \in Readers, ReadOvf(q) PROVE ClockInv'
  BY <1>3, ReadOvfKeeps, OneReaderKeeps
<1>4. ASSUME NEW q \in Readers, ReadTime(q) PROVE ClockInv'
  BY <1>4, ReadTimeKeeps, OneReaderKeeps
<1>5. ASSUME NEW q \in Readers, ReadTicksAgain(q) PROVE ClockInv'
  BY <1>5, ReadTicksAgainKeeps, OneReaderKeeps
<1>6. ASSUME NEW q \in Readers, ReadTimeAgain(q) PROVE ClockInv'
  BY <1>6, ReadTimeAgainKeeps, OneReaderKeeps
<1>7. ASSUME NEW q \in Readers, LoadData(q) PROVE ClockInv'
  BY <1>7, LoadDataKeeps
<1>8. ASSUME NEW q \in Readers, Replace(q) PROVE ClockInv'
  BY <1>8, ReplaceKeeps
<1>9. ASSUME NEW q \in Readers, Replace_Fails(q) PROVE ClockInv'
  BY <1>9, ReplaceFailsKeeps, OneReaderKeeps
<1>10. ASSUME NEW q \in Readers, Return_Now(q) PROVE ClockInv'
  BY <1>10, ReaderStarts, OneReaderKeeps DEF Return_Now, Goes
<1> QED BY <1>1, <1>2, <1>3, <1>4, <1>5, <1>6, <1>7, <1>8, <1>9, <1>10 DEF ClockNext

\* Standing still keeps the invariant.
LEMMA ClockStutters == ClockInv /\ UNCHANGED clockVars => ClockInv'
<1> SUFFICES ASSUME ClockInv, UNCHANGED clockVars PROVE ClockInv' OBVIOUS
<1>1. UNCHANGED <<passed, pending, overflowData, step, read, newest, late>> BY DEF clockVars
<1>2. Interval' = Interval BY <1>1 DEF Interval
<1>3. ClockTypes' BY <1>1 DEF ClockInv, ClockTypes
<1>4. TimesClose' BY <1>1, <1>2 DEF ClockInv, TimesClose
<1>5. WordExact' BY <1>1 DEF ClockInv, WordExact
<1>6. ASSUME NEW r \in Readers PROVE (NotEarly(r) /\ NotAhead(r) /\ Seen(r))'
  <2>1. step'[r] = step[r] /\ read'[r] = read[r] /\ (late => late') BY <1>1
  <2> QED BY <1>1, <2>1, ClockSame, ReaderKept
<1> QED BY <1>3, <1>4, <1>5, <1>6 DEF ClockInv

\* The invariant is what the run checks, and more.
LEMMA ClockExact == ClockInv => ClockTypeOK /\ NowExactUnlessLate
<1> SUFFICES ASSUME ClockInv PROVE ClockTypeOK /\ NowExactUnlessLate OBVIOUS
<1> USE ClockFacts
<1>1. ASSUME NEW r \in Readers
      PROVE  read[r].time < Wrap /\ read[r].ticks <= Trv /\ read[r].since <= passed
  <2>1. read[r].time \in 0 .. Wrap - 1 /\ read[r].ticks \in 0 .. Trv BY DEF ReadType
  <2> QED BY <2>1, ClockNats DEF ClockInv, ClockTypes
<1>2. passed \in 0 .. MaxElapsed BY ClockConstants DEF ClockInv, ClockTypes
<1>3. ClockTypeOK BY <1>1, <1>2 DEF ClockTypeOK, ReaderSteps
<1>4. ASSUME NEW r \in Readers, step[r] = "data"
      PROVE  read[r].seen * (Trv + 1) + read[r].ticks \in read[r].since .. passed + Trv
  <2>1. /\ read[r].since <= read[r].seen * Lap + read[r].ticks
        /\ read[r].seen * Lap + read[r].ticks <= passed + Trv
    BY <1>4 DEF ClockInv, NotEarly, NotAhead
  <2>2. read[r].since \in Nat /\ read[r].seen * Lap + read[r].ticks \in Nat
    <3>1. read[r].since \in Nat /\ read[r].seen \in Nat /\ read[r].ticks \in 0 .. Trv
      BY DEF ReadType
    <3> QED BY <3>1, ClockNats
  <2>3. passed + Trv \in Nat BY ClockNats
  <2>4. read[r].seen * Lap + read[r].ticks \in read[r].since .. passed + Trv
    BY <2>1, <2>2, <2>3
  <2> QED BY <2>4 DEF Lap
<1>5. PairExact BY <1>4 DEF PairExact
<1>6. ~late => NowExact BY DEF NowExact, ClockInv, Seen
<1> QED BY <1>3, <1>5, <1>6 DEF NowExactUnlessLate

\* The clock is exact, however the readers, the counter and the tick handler interleave.
THEOREM ClockCorrect == ClockSpec => [](ClockTypeOK /\ NowExactUnlessLate)
<1>1. ClockInv /\ [ClockNext]_clockVars => ClockInv' BY ClockStep, ClockStutters
<1> QED BY <1>1, ClockStart, ClockExact, PTL DEF ClockSpec
=============================================================================
