------------------------------- MODULE MCValues -------------------------------
(***************************************************************************)
(* The parts of WEOS that stand alone, in one run.  They call nothing of    *)
(* each other and have no state in common: a behaviour is one of the part   *)
(* that `component' names, and the others stay in one initial state.        *)
(***************************************************************************)
EXTENDS LatchSynchronic, LockGuards, HostThread, TimedWait, Clock, AtomicCell,
        IntrusivePtr, FunctionValue, Duration, ExceptionCapture, ObjectPool,
        FutureHandles, StackLayout, ThreadList, Signals, RecursiveMutex, UniquePtr,
        ScopeGuard

\* Nanoseconds, milliseconds and minutes in small: sixths of a tick, halves in a
\* narrow and in a wide type, and three ticks at once.
MCTypes == {[num |-> 1, den |-> 6, width |-> 6], [num |-> 1, den |-> 2, width |-> 4],
            [num |-> 1, den |-> 2, width |-> 6], [num |-> 3, den |-> 1, width |-> 4]}
MCCounts == -10 .. 10

\* The base classes of the exception classes of a program.
MCParent == [app |-> "exception", app_io |-> "app", app_len |-> "length_error",
             placed |-> "weos_exception"]

VARIABLE component

partVars == <<lsVars, lgVars, hostVars, twVars, clockVars, cellVars, ptrVars, functionVars,
              durationVars, captureVars, objectPoolVars, handleVars, stackVars, listVars,
              signalVars, recursiveVars, uniqueVars, scopeVars>>

Components == {"latch", "guards", "host", "timed", "clock", "atomic", "pointer", "function",
               "duration", "exception", "pool", "handles", "stack", "list", "signals",
               "recursive", "unique", "scope"}

ValuesInit ==
  /\ LSInit /\ LGInit /\ HostInit /\ TWInit /\ ClockInit /\ CellInit /\ PtrInit
  /\ FunctionInit /\ DurationInit /\ CaptureInit /\ ObjectPoolInit
  /\ HandlesInit /\ StackInit /\ ListInit /\ SignalsInit /\ RecursiveInit /\ UniqueInit
  /\ ScopeInit
  /\ component \in Components
  /\ component # "latch" => kind = "latch" /\ object = 0
  /\ component # "timed" => offset = 0
  /\ component # "atomic" => size = "small"

\* The part c takes a step, its variables being v; or it stands still.
Part(c, next, v) == IF component = c THEN next ELSE UNCHANGED v

ValuesNext ==
  /\ UNCHANGED component
  /\ Part("latch", LSNext, lsVars)
  /\ Part("guards", LGNext, lgVars)
  /\ Part("host", HostNext, hostVars)
  /\ Part("timed", TWNext, twVars)
  /\ Part("clock", ClockNext, clockVars)
  /\ Part("atomic", CellNext, cellVars)
  /\ Part("pointer", PtrNext, ptrVars)
  /\ Part("function", FunctionNext, functionVars)
  /\ Part("duration", DurationNext, durationVars)
  /\ Part("exception", CaptureNext, captureVars)
  /\ Part("pool", ObjectPoolNext, objectPoolVars)
  /\ Part("handles", HandlesNext, handleVars)
  /\ Part("stack", StackNext, stackVars)
  /\ Part("list", ListNext, listVars)
  /\ Part("signals", SignalsNext, signalVars)
  /\ Part("recursive", RecursiveNext, recursiveVars)
  /\ Part("unique", UniqueNext, uniqueVars)
  /\ Part("scope", ScopeNext, scopeVars)

ValuesSpec == ValuesInit /\ [][ValuesNext]_<<partVars, component>>
-----------------------------------------------------------------------------
\* What is said of the part c, in the behaviours that are its own.
Of(c, said) == component = c => said

\* The types of all the parts.
TypesOK ==
  /\ component \in Components
  /\ Of("latch", LSTypeOK) /\ Of("guards", LGTypeOK) /\ Of("host", HostTypeOK)
  /\ Of("timed", TWTypeOK) /\ Of("clock", ClockTypeOK) /\ Of("atomic", CellTypeOK)
  /\ Of("pointer", PtrTypeOK) /\ Of("function", FunctionTypeOK)
  /\ Of("duration", DurationTypeOK) /\ Of("exception", CaptureTypeOK)
  /\ Of("pool", ObjectPoolTypeOK) /\ Of("handles", HandlesTypeOK) /\ Of("stack", StackTypeOK)
  /\ Of("list", ListTypeOK) /\ Of("signals", SignalsTypeOK)
  /\ Of("recursive", RecursiveTypeOK) /\ Of("unique", UniqueTypeOK)
  /\ Of("scope", ScopeTypeOK)

\* What intrusive_ptr, unique_ptr, function, object_pool, promise and future own they
\* own exactly once: nothing is freed while it is in use, freed twice or lost, whatever
\* is copied, moved, swapped or throws. Scope guards run what they own when they say.
ResourcesOwned ==
  /\ Of("pointer", ReferencesExact) /\ Of("unique", UniqueExact)
  /\ Of("function", CallablesOwned) /\ Of("pool", PoolExact) /\ Of("handles", HandlesExact)
  /\ Of("scope", GuardsTell)

\* A mutex that is locked has exactly one who unlocks it, as often as it was locked,
\* and two threads that lock two mutexes never block each other, whatever lock guards,
\* std::lock, recursive and timed locks are used, fail or time out.
LocksExact == /\ Of("guards", OwnersExact /\ NoCircularWait)
              /\ Of("recursive", LevelsExact)

\* A thread and its stack lie in the memory they were given, the list of threads is
\* sound in the middle of every change, and no signal is lost or reported twice.
ThreadsAccounted == /\ Of("stack", StackExact) /\ Of("list", ListExact)
                    /\ Of("signals", SignalsExact)
=============================================================================
