---------------------------- MODULE RecursiveMutex ----------------------------
(***************************************************************************)
(* recursive_mutex and recursive_timed_mutex (_mutex.hpp, _mutex.cpp),     *)
(* which pass every call to the kernel's mutex; a timed call does so once  *)
(* for each piece of its timeout.  How long the pieces are is in TimedWait.*)
(***************************************************************************)
EXTENDS Naturals

CONSTANTS
  RecThreads,
  MaxLevel,     \* bound: how often a mutex is locked by one thread
  MaxTries,     \* bound: into how many pieces a timeout is cut
  NoThread

ASSUME RecursiveConstants == NoThread \notin RecThreads /\ {MaxLevel, MaxTries} \subseteq Nat

\* osWaitForever
Forever == MaxTries + 1

VARIABLES
  recOwner, recLevel,   \* the control block of the kernel
  recAt,                \* where each thread is: "out" of a call, "ask", "kernel"
  recTries,             \* what is left of the timeout: so many pieces, or Forever
  holds                 \* how often each thread has to unlock the mutex yet

recursiveVars == <<recOwner, recLevel, recAt, recTries, holds>>

RecursiveInit == /\ recOwner = NoThread /\ recLevel = 0
                 /\ recAt = [t \in RecThreads |-> "out"]
                 /\ recTries = [t \in RecThreads |-> 0]
                 /\ holds = [t \in RecThreads |-> 0]

RecGoto(t, a) == recAt' = [recAt EXCEPT ![t] = a]
-----------------------------------------------------------------------------
\* lock() waits for ever, try_lock() looks once, and the timed operations ask for one
\* piece after the other.  The holder may call any of them.
Rec_Call(t, n) ==
  /\ recAt[t] = "out" /\ holds[t] < MaxLevel
  /\ RecGoto(t, "ask")
  /\ recTries' = [recTries EXCEPT ![t] = n]
  /\ UNCHANGED <<recOwner, recLevel, holds>>

\* osMutexWait has the mutex for a thread that asks, or waits.
Rec_Take(t) ==
  /\ recAt[t] # "out" /\ recOwner \in {NoThread, t}
  /\ recOwner' = t /\ recLevel' = recLevel + 1
  /\ holds' = [holds EXCEPT ![t] = @ + 1]
  /\ RecGoto(t, "out")
  /\ UNCHANGED recTries

\* It has not: a call that waits for zero milliseconds returns ...
Rec_Fails(t) ==
  /\ recAt[t] = "ask" /\ recOwner \notin {NoThread, t} /\ recTries[t] = 0
  /\ RecGoto(t, "out")
  /\ UNCHANGED <<recOwner, recLevel, recTries, holds>>

\* ... and the others block.
Rec_Block(t) ==
  /\ recAt[t] = "ask" /\ recOwner \notin {NoThread, t} /\ recTries[t] # 0
  /\ RecGoto(t, "kernel")
  /\ recTries' = [recTries EXCEPT ![t] = IF @ = Forever THEN @ ELSE @ - 1]
  /\ UNCHANGED <<recOwner, recLevel, holds>>

\* A piece ends: the loop goes on, returns false, or, with a time point, looks once
\* more.
Rec_TimeOut(t) ==
  /\ recAt[t] = "kernel" /\ recTries[t] # Forever
  /\ \/ recTries[t] # 0 /\ RecGoto(t, "ask")
     \/ recTries[t] = 0 /\ \E a \in {"out", "ask"} : RecGoto(t, a)
  /\ UNCHANGED <<recOwner, recLevel, recTries, holds>>

\* A timed call that takes the end of a piece for success.
Rec_TimeOut_True(t) ==
  /\ recAt[t] = "kernel" /\ recTries[t] # Forever
  /\ IF recTries[t] = 0 THEN holds' = [holds EXCEPT ![t] = @ + 1] /\ RecGoto(t, "out")
                        ELSE RecGoto(t, "ask") /\ UNCHANGED holds
  /\ UNCHANGED <<recOwner, recLevel, recTries>>

\* unlock(), by a thread that holds the mutex.
Rec_Unlock(t) ==
  /\ recAt[t] = "out" /\ holds[t] > 0
  /\ holds' = [holds EXCEPT ![t] = @ - 1]
  /\ recLevel' = recLevel - 1
  /\ recOwner' = IF recLevel = 1 THEN NoThread ELSE recOwner
  /\ UNCHANGED <<recAt, recTries>>

RecursiveNext ==
  \E t \in RecThreads :
    \/ \E n \in 0 .. Forever : Rec_Call(t, n)
    \/ Rec_Take(t) \/ Rec_Fails(t) \/ Rec_Block(t) \/ Rec_TimeOut(t) \/ Rec_Unlock(t)

RecursiveSpec == RecursiveInit /\ [][RecursiveNext]_recursiveVars
-----------------------------------------------------------------------------
RecursiveTypeOK ==
  /\ recOwner \in RecThreads \cup {NoThread} /\ recLevel \in 0 .. MaxLevel
  /\ recAt \in [RecThreads -> {"out", "ask", "kernel"}]
  /\ recTries \in [RecThreads -> 0 .. Forever]
  /\ holds \in [RecThreads -> 0 .. MaxLevel]

\* "The mutex can be locked recursively by one thread and must be unlocked as often as
\* it has been locked before": whatever calls fail or time out in between, the levels
\* are those of one thread, and exactly as many as it was told.
LevelsExact ==
  /\ recOwner = NoThread <=> recLevel = 0
  /\ \A t \in RecThreads : holds[t] = IF t = recOwner THEN recLevel ELSE 0
=============================================================================
