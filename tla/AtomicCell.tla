------------------------------ MODULE AtomicCell ------------------------------
(***************************************************************************)
(* std::atomic<T> of the ARMCC back end (_armcc/_atomic.hpp).  A value     *)
(* that fits into a word is changed between an exclusive load and an       *)
(* exclusive store, which fails when an exception or a context switch has  *)
(* come in between; a larger one under a global mutex.  A value may be     *)
(* narrower than the word it is stored in: the rest of the word is what    *)
(* happens to lie behind the argument, or a carry.                         *)
(*                                                                         *)
(* There is one processor: a thread may be preempted at any instruction.   *)
(***************************************************************************)
EXTENDS AtomicRegister

CONSTANTS
  Sizes,    \* of the types T
  Rests     \* what the rest of a word can be

ASSUME SizesType == Sizes \subseteq {"small", "large"}
ASSUME SomeRest == 0 \in Rests

VARIABLES
  size,         \* does T fit into a word?
  rest,         \* the bits of the word m_value that are not in T
  instr,        \* the next access of each thread
  old,          \* the value it has loaded
  monitor,      \* the thread whose exclusive load is still exclusive
  g_atomicMutex \* the thread that holds it

cellVars == <<registerVars, size, rest, instr, old, monitor, g_atomicMutex>>

CellInit == /\ RegisterInit
            /\ size \in Sizes /\ rest = 0
            /\ instr = [t \in Users |-> "idle"]
            /\ old = [t \in Users |-> Free]
            /\ monitor = Free
            /\ g_atomicMutex = Free

Follows(t, a, b) == instr[t] = a /\ instr' = [instr EXCEPT ![t] = b]

\* Another thread runs between two instructions: the monitor is cleared.
Preempt == /\ monitor # Free /\ monitor' = Free
           /\ UNCHANGED <<registerVars, size, rest, instr, old, g_atomicMutex>>

\* The monitor belongs to the processor: it is t's if nobody ran in between.
Runs(t) == monitor \in {Free, t}

Call_Operation(t, op) ==
  /\ Runs(t)
  /\ Invoke(t, op)
  /\ Follows(t, "idle", IF size = "large" THEN "lock" ELSE IF op.name = "load" THEN "load" ELSE "ldrex")
  /\ UNCHANGED <<size, rest, old, monitor, g_atomicMutex>>

Sees(t, v) == seen' = [seen EXCEPT ![t] = v]
-----------------------------------------------------------------------------
(* A value that fits into a word. *)

Load(t) == /\ Runs(t)
           /\ Follows(t, "load", "return")
           /\ Sees(t, m_value)
           /\ UNCHANGED <<m_value, call, size, rest, old, monitor, g_atomicMutex>>

\* compare_exchange compares the values, not the words.
Mismatch(t) == call[t].name = "compare_exchange" /\ m_value # call[t].expected

\* old = __ldrex(&m_value)
LoadExclusive(t) == /\ Runs(t)
                    /\ Follows(t, "ldrex", "strex") /\ ~Mismatch(t)
                    /\ old' = [old EXCEPT ![t] = m_value]
                    /\ monitor' = t
                    /\ UNCHANGED <<registerVars, size, rest, g_atomicMutex>>

\* compare_exchange: the value is not the expected one; __clrex().
LoadExclusive_Mismatch(t) == /\ Runs(t)
                             /\ Follows(t, "ldrex", "return") /\ Mismatch(t)
                             /\ Sees(t, m_value)
                             /\ monitor' = Free
                             /\ UNCHANGED <<m_value, call, size, rest, old, g_atomicMutex>>

Stores(t) == /\ m_value' = Applied(call[t], old[t])
             /\ Sees(t, Returned(call[t], old[t]))
             /\ rest' \in IF size = "small" THEN Rests ELSE {0}
             /\ old' = [old EXCEPT ![t] = Free]
             /\ UNCHANGED call

\* A store that does not look at its status.
StoreExclusive_Always(t) == /\ Runs(t)
                            /\ Follows(t, "strex", "return")
                            /\ Stores(t)
                            /\ monitor' = Free
                            /\ UNCHANGED <<size, g_atomicMutex>>

\* __strex(old op arg, &m_value) == 0
StoreExclusive(t) == /\ monitor = t
                     /\ Follows(t, "strex", "return")
                     /\ Stores(t)
                     /\ monitor' = Free
                     /\ UNCHANGED <<size, g_atomicMutex>>

StoreExclusive_Fails(t) == /\ monitor = Free
                           /\ Follows(t, "strex", "ldrex")
                           /\ old' = [old EXCEPT ![t] = Free]
                           /\ UNCHANGED <<registerVars, size, rest, monitor, g_atomicMutex>>
-----------------------------------------------------------------------------
(* A larger one: lock_guard<mutex> lock(g_atomicMutex). *)

Acquire(t) == /\ Follows(t, "lock", "read")
              /\ g_atomicMutex = Free /\ g_atomicMutex' = t
              /\ UNCHANGED <<registerVars, size, rest, old, monitor>>

ReadLocked(t) == /\ Follows(t, "read", "write")
                 /\ old' = [old EXCEPT ![t] = m_value]
                 /\ UNCHANGED <<registerVars, size, rest, monitor, g_atomicMutex>>

WriteLocked(t) == /\ Follows(t, "write", "unlock")
                  /\ Stores(t)
                  /\ UNCHANGED <<size, monitor, g_atomicMutex>>

ReleaseMutex(t) == /\ Follows(t, "unlock", "return")
                   /\ g_atomicMutex' = Free
                   /\ UNCHANGED <<registerVars, size, rest, old, monitor>>
-----------------------------------------------------------------------------
Return_Operation(t) == /\ Runs(t)
                       /\ Follows(t, "return", "idle")
                       /\ Respond(t)
                       /\ UNCHANGED <<size, rest, old, monitor, g_atomicMutex>>

CellNext == \/ Preempt
            \/ \E t \in Users :
                 \/ \E op \in Operations : Call_Operation(t, op)
                 \/ Load(t) \/ LoadExclusive(t) \/ LoadExclusive_Mismatch(t)
                 \/ StoreExclusive(t) \/ StoreExclusive_Fails(t)
                 \/ Acquire(t) \/ ReadLocked(t) \/ WriteLocked(t) \/ ReleaseMutex(t)
                 \/ Return_Operation(t)

CellSpec == CellInit /\ [][CellNext]_cellVars
-----------------------------------------------------------------------------
CellTypeOK ==
  /\ m_value \in Values
  /\ call \in [Users -> Operations \cup {Free}]
  /\ seen \in [Users -> Values \cup {Free}]
  /\ size \in Sizes /\ rest \in Rests
  /\ instr \in [Users -> {"idle", "load", "ldrex", "strex", "lock", "read", "write", "unlock", "return"}]
  /\ old \in [Users -> Values \cup {Free}]
  /\ monitor \in Users \cup {Free} /\ g_atomicMutex \in Users \cup {Free}

\* Every operation takes effect at one moment and returns the value of that moment,
\* whatever preempts it and whatever is stored beside a narrow value: atomic<T>
\* implements the register.
ImplementsRegister == RegisterSpec
=============================================================================
