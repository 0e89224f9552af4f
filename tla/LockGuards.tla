----------------------------- MODULE LockGuards -----------------------------
(***************************************************************************)
(* lock_guard, unique_lock, std::lock and std::try_lock                    *)
(* (_common/_lock_guards.hpp) over mutexes that keep the promise of Lock.  *)
(*                                                                         *)
(* A unique_lock believes in its flag m_locked: who moves, swaps, releases *)
(* or assigns one must leave every mutex with exactly one that unlocks it. *)
(* An operation that throws or fails changes nothing, and is left out.     *)
(***************************************************************************)
EXTENDS FiniteSets, Naturals

CONSTANTS
  Lockers,   \* the threads
  Mutexes,
  Guards,    \* the unique_lock objects of each thread
  Nobody     \* no mutex, no thread

ASSUME NobodyIsNew == Nobody \notin Lockers \cup Mutexes

VARIABLES
  owned,     \* the thread that holds each mutex
  guard,     \* m_mutex and m_locked of each unique_lock
  loose,     \* mutexes that a thread holds without a unique_lock
  at,        \* where each thread is in std::lock or std::try_lock
  pair       \* their arguments, the one that is locked first in front

lgVars == <<owned, guard, loose, at, pair>>

Default == [m_mutex |-> Nobody, m_locked |-> FALSE]
Tied(m, b) == [m_mutex |-> m, m_locked |-> b]

LGInit == /\ owned = [m \in Mutexes |-> Nobody]
          /\ guard = [t \in Lockers |-> [g \in Guards |-> Default]]
          /\ loose = [t \in Lockers |-> {}]
          /\ at = [t \in Lockers |-> "idle"]
          /\ pair = [t \in Lockers |-> <<Nobody, Nobody>>]

\* lock(), try_lock() or a timed try_lock of a mutex succeeds; unlock().
Take(t, m) == owned[m] = Nobody /\ owned' = [owned EXCEPT ![m] = t]
Drop(m) == owned' = [owned EXCEPT ![m] = Nobody]
DropIf(b, m) == IF b THEN Drop(m) ELSE UNCHANGED owned

SetGuard(t, g, v) == guard' = [guard EXCEPT ![t][g] = v]
-----------------------------------------------------------------------------
(* A unique_lock. A default one and one that does not exist are the same. *)

\* A thread uses its unique_locks outside of std::lock and std::try_lock.
Client(t) == at[t] = "idle" /\ UNCHANGED <<at, pair>>

Construct_Lock(t, g, m) == /\ guard[t][g] = Default
                           /\ Take(t, m) /\ SetGuard(t, g, Tied(m, TRUE))
                           /\ Client(t) /\ UNCHANGED loose

\* defer_lock, or an attempt to lock that fails.
Construct_Defer(t, g, m) == /\ guard[t][g] = Default
                            /\ SetGuard(t, g, Tied(m, FALSE))
                            /\ Client(t) /\ UNCHANGED <<owned, loose>>

Construct_Adopt(t, g, m) == /\ guard[t][g] = Default
                            /\ m \in loose[t]
                            /\ loose' = [loose EXCEPT ![t] = @ \ {m}]
                            /\ SetGuard(t, g, Tied(m, TRUE))
                            /\ Client(t) /\ UNCHANGED owned

\* ~unique_lock, ~lock_guard.
Destruct(t, g) == /\ guard[t][g] # Default
                  /\ DropIf(guard[t][g].m_locked, guard[t][g].m_mutex)
                  /\ SetGuard(t, g, Default)
                  /\ Client(t) /\ UNCHANGED loose

\* The move constructor, of h from g, and the assignment of h to g: g unlocks first.
Move_Construct(t, h, g) == /\ guard[t][h] = Default
                           /\ guard' = [guard EXCEPT ![t][h] = guard[t][g], ![t][g] = Default]
                           /\ Client(t) /\ UNCHANGED <<owned, loose>>

\* An assignment that forgets what the target owns.
Move_Assign_NoUnlock(t, g, h) ==
  /\ guard' = [guard EXCEPT ![t][g] = guard[t][h], ![t][h] = Default]
  /\ Client(t) /\ UNCHANGED <<owned, loose>>

Move_Assign(t, g, h) == /\ DropIf(guard[t][g].m_locked, guard[t][g].m_mutex)
                        /\ guard' = [guard EXCEPT ![t][g] = guard[t][h], ![t][h] = Default]
                        /\ Client(t) /\ UNCHANGED loose

Swap(t, g, h) == /\ guard' = [guard EXCEPT ![t][g] = guard[t][h], ![t][h] = guard[t][g]]
                 /\ Client(t) /\ UNCHANGED <<owned, loose>>

\* lock(), try_lock(), try_lock_for(), try_lock_until() that succeed, and unlock().
Guard_Lock(t, g) == /\ guard[t][g].m_mutex # Nobody /\ ~guard[t][g].m_locked
                    /\ Take(t, guard[t][g].m_mutex)
                    /\ guard' = [guard EXCEPT ![t][g].m_locked = TRUE]
                    /\ Client(t) /\ UNCHANGED loose

Guard_Unlock(t, g) == /\ guard[t][g].m_locked
                      /\ Drop(guard[t][g].m_mutex)
                      /\ guard' = [guard EXCEPT ![t][g].m_locked = FALSE]
                      /\ Client(t) /\ UNCHANGED loose

\* release(): "the responsibility is transferred to the caller".
Release(t, g) == /\ guard[t][g] # Default
                 /\ loose' = IF guard[t][g].m_locked
                               THEN [loose EXCEPT ![t] = @ \cup {guard[t][g].m_mutex}] ELSE loose
                 /\ SetGuard(t, g, Default)
                 /\ Client(t) /\ UNCHANGED owned

\* The client unlocks such a mutex itself.
Client_Unlock(t, m) == /\ m \in loose[t]
                       /\ loose' = [loose EXCEPT ![t] = @ \ {m}]
                       /\ Drop(m)
                       /\ Client(t) /\ UNCHANGED guard
-----------------------------------------------------------------------------
(* std::lock and std::try_lock. *)

Moves(t, a, b) == at[t] = a /\ at' = [at EXCEPT ![t] = b]

Returns(t, a) == Moves(t, a, "idle") /\ pair' = [pair EXCEPT ![t] = <<Nobody, Nobody>>]

Holds(t) == {m \in Mutexes : owned[m] = t}

\* A client that calls std::lock holds nothing; otherwise its own order of
\* locking counts.
Lock_Call(t, a, b) == /\ Moves(t, "idle", "first")
                      /\ a # b /\ Holds(t) = {}
                      /\ pair' = [pair EXCEPT ![t] = <<a, b>>]
                      /\ UNCHANGED <<owned, guard, loose>>

\* unique_lock lock(lockable1), which blocks.
Lock_First(t) == /\ Moves(t, "first", "second")
                 /\ Take(t, pair[t][1])
                 /\ UNCHANGED <<guard, loose, pair>>

\* try_lock: unique_lock lock(lockable1, try_to_lock), which does not.
TryLock_First(t, a, b) == /\ Moves(t, "idle", "try second")
                          /\ a # b /\ Take(t, a)
                          /\ pair' = [pair EXCEPT ![t] = <<a, b>>]
                          /\ UNCHANGED <<guard, loose>>

\* lockable2.try_lock() succeeds, and the unique_lock is released ...
Second(t) == /\ \E a \in {"second", "try second"} : Returns(t, a)
             /\ Take(t, pair[t][2])
             /\ loose' = [loose EXCEPT ![t] = @ \cup {pair[t][1], pair[t][2]}]
             /\ UNCHANGED guard

\* ... or fails ...
Second_Fails(t) == /\ Moves(t, "second", "back off") \/ Moves(t, "try second", "give up")
                   /\ owned[pair[t][2]] # Nobody
                   /\ UNCHANGED <<owned, guard, loose, pair>>

\* A second attempt that keeps the first mutex.
Back_Off_Keep(t) == /\ Moves(t, "back off", "first")
                    /\ pair' = [pair EXCEPT ![t] = <<@[2], @[1]>>]
                    /\ UNCHANGED <<owned, guard, loose>>

\* ... and the unique_lock unlocks: std::lock tries the other sequence.
Back_Off(t) == /\ Moves(t, "back off", "first")
               /\ Drop(pair[t][1])
               /\ pair' = [pair EXCEPT ![t] = <<@[2], @[1]>>]
               /\ UNCHANGED <<guard, loose>>

Give_Up(t) == /\ Returns(t, "give up")
              /\ Drop(pair[t][1])
              /\ UNCHANGED <<guard, loose>>
-----------------------------------------------------------------------------
LGNext ==
  \E t \in Lockers :
    \/ \E g \in Guards :
         \/ Destruct(t, g) \/ Guard_Lock(t, g) \/ Guard_Unlock(t, g) \/ Release(t, g)
         \/ \E h \in Guards : Move_Construct(t, h, g) \/ Move_Assign(t, g, h) \/ Swap(t, g, h)
         \/ \E m \in Mutexes : Construct_Lock(t, g, m) \/ Construct_Defer(t, g, m) \/ Construct_Adopt(t, g, m)
    \/ \E m \in Mutexes : Client_Unlock(t, m)
    \/ \E a, b \in Mutexes : Lock_Call(t, a, b) \/ TryLock_First(t, a, b)
    \/ Lock_First(t) \/ Second(t) \/ Second_Fails(t) \/ Back_Off(t) \/ Give_Up(t)

LGSpec == LGInit /\ [][LGNext]_lgVars
-----------------------------------------------------------------------------
LGTypeOK ==
  /\ owned \in [Mutexes -> Lockers \cup {Nobody}]
  /\ guard \in [Lockers -> [Guards -> [m_mutex : Mutexes \cup {Nobody}, m_locked : BOOLEAN]]]
  /\ loose \in [Lockers -> SUBSET Mutexes]
  /\ at \in [Lockers -> {"idle", "first", "second", "back off", "try second", "give up"}]
  /\ pair \in [Lockers -> (Mutexes \cup {Nobody}) \X (Mutexes \cup {Nobody})]

\* Those who will unlock m for t: unique_locks, the client, the unique_lock in
\* std::lock and std::try_lock.
Inner(t) == IF at[t] \in {"second", "back off", "try second", "give up"} THEN {pair[t][1]} ELSE {}

Responsible(t, m) ==
  Cardinality({g \in Guards : guard[t][g] = Tied(m, TRUE)})
    + (IF m \in loose[t] THEN 1 ELSE 0) + (IF m \in Inner(t) THEN 1 ELSE 0)

\* However unique_locks are moved, assigned, swapped and released, and whether or
\* not std::lock and std::try_lock get both mutexes: a thread holds a mutex
\* exactly if one of them, and only one, will unlock it.
OwnersExact ==
  \A t \in Lockers, m \in Mutexes : Responsible(t, m) = (IF owned[m] = t THEN 1 ELSE 0)

\* "Using a dead-lock avoiding algorithm": a thread that blocks in std::lock waits
\* for one that does not block in it, in whatever order each names the mutexes.
NoCircularWait ==
  \A t, u \in Lockers : at[t] = "first" /\ owned[pair[t][1]] = u => at[u] # "first"
=============================================================================
