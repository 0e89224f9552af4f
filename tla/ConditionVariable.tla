-------------------------- MODULE ConditionVariable --------------------------
(***************************************************************************)
(* std::condition_variable (_condition_variable.hpp, .cpp) between its two *)
(* parts: the queue of waiting threads, as WaitQueue promises it, and the  *)
(* mutex of the caller, as Lock promises it.  Its clients share a number   *)
(* of items: consumers call wait(lock, pred) or the timed forms, with the  *)
(* predicate "there is an item", producers add an item and notify, with or *)
(* without the mutex.                                                      *)
(***************************************************************************)
EXTENDS WaitQueue, FiniteSets, Naturals

CONSTANTS
  Producers,
  MaxItems    \* bound: producers start only as long as there is room

Consumers == Waiters
Threads == Consumers \cup Producers

ASSUME ThreadsDisjoint == Waiters \cap Producers = {}
ASSUME MaxItemsType == MaxItems \in Nat

VARIABLES
  holders,    \* the mutex
  items,      \* what the mutex protects
  pc,         \* where each thread is
  timed       \* a consumer is in one of the timed forms

vars == <<phase, outcome, holders, items, pc, timed>>

Mutex == INSTANCE Lock

Init == /\ WQInit
        /\ Mutex!LockInit
        /\ items = 0
        /\ pc = [t \in Threads |-> "idle"]
        /\ timed = [c \in Consumers |-> FALSE]

From(t, l, m) == pc[t] = l /\ pc' = [pc EXCEPT ![t] = m]
Lock(t, l, m) == From(t, l, m) /\ Mutex!Acquire(t) /\ UNCHANGED <<wqVars, items, timed>>
Unlock(t, l, m) == From(t, l, m) /\ Mutex!Release(t) /\ UNCHANGED <<wqVars, items, timed>>
-----------------------------------------------------------------------------
(* A consumer. *)

Consume(c) == /\ From(c, "idle", "lock")
              /\ \E b \in BOOLEAN : timed' = [timed EXCEPT ![c] = b]
              /\ UNCHANGED <<wqVars, holders, items>>

Consume_Lock(c) == Lock(c, "lock", "pred")


\* The predicate holds: the caller takes an item.
Pred_True(c) == /\ From(c, "pred", "unlock")
                /\ items > 0
                /\ items' = items - 1
                /\ UNCHANGED <<wqVars, holders, timed>>

\* A wait that lets go of the mutex before it is in the queue.
Pred_False_Unlocked(c) == /\ From(c, "pred", "link")
                          /\ items = 0
                          /\ Mutex!Release(c)
                          /\ UNCHANGED <<wqVars, items, timed>>

\* The predicate does not hold: another wait.
Pred_False(c) == /\ From(c, "pred", "link")
                 /\ items = 0
                 /\ UNCHANGED <<wqVars, holders, items, timed>>

\* The construction of _t: the thread enters the queue ...
Wait_Construct(c) == /\ pc[c] = "link"
                     /\ Begin(c)
                     /\ UNCHANGED <<holders, items, pc, timed>>

Wait_Link(c) == /\ From(c, "link", "release")
                /\ Enter(c)
                /\ UNCHANGED <<holders, items, timed>>

\* ... and only then lock_releaser releases the mutex.
Wait_Release(c) == Unlock(c, "release", "block")

\* The timeout of a timed form; a notification that came before it wins.
Wait_Timeout(c) == /\ pc[c] = "block" /\ timed[c]
                   /\ GiveUp(c)
                   /\ UNCHANGED <<holders, items, pc, timed>>

\* A wait that returns without the mutex.
Wait_Relock_NoLock(c) == /\ From(c, "block", IF phase[c] = "timeout" THEN "last" ELSE "pred")
                         /\ Leave(c)
                         /\ UNCHANGED <<holders, items, timed>>

\* The thread was woken or gave up, lock_releaser takes the mutex again and the
\* wait returns: a timed form goes on to its last look at the predicate.
Wait_Relock(c) == /\ From(c, "block", IF phase[c] = "timeout" THEN "last" ELSE "pred")
                  /\ Leave(c)
                  /\ Mutex!Acquire(c)
                  /\ UNCHANGED <<items, timed>>

\* A timed form that takes it for granted that the predicate holds at last.
Last_NoCheck(c) == /\ From(c, "last", "unlock")
                   /\ items' = items - 1
                   /\ UNCHANGED <<wqVars, holders, timed>>

\* return pred().
Last(c) == /\ From(c, "last", "unlock")
           /\ items' = IF items > 0 THEN items - 1 ELSE 0
           /\ UNCHANGED <<wqVars, holders, timed>>

Consume_Unlock(c) == Unlock(c, "unlock", "idle")
-----------------------------------------------------------------------------
(* A producer. *)

\* A producer starts only if there will be room for its item (the bound).
Produce(p) == /\ From(p, "idle", "lock")
              /\ items + Cardinality({q \in Producers : pc[q] \in {"lock", "put"}}) < MaxItems
              /\ UNCHANGED <<wqVars, holders, items, timed>>

Produce_Lock(p) == Lock(p, "lock", "put")

\* It adds the item and notifies, before or after it releases the mutex.
Put(p) == /\ \E l \in {"notify", "unlock early"} : From(p, "put", l)
          /\ items' = items + 1
          /\ UNCHANGED <<wqVars, holders, timed>>

Unlock_Early(p) == Unlock(p, "unlock early", "notify free")

\* A notification that a waiting thread does not get.
Notify_Nothing(p, l, m) == /\ From(p, l, m)
                           /\ UNCHANGED <<wqVars, holders, items, timed>>

\* notify_one() or notify_all().
Notify(p, l, m) == /\ From(p, l, m)
                   /\ IF Waiting = {} THEN UNCHANGED wqVars ELSE NotifyOne \/ NotifyAll
                   /\ UNCHANGED <<holders, items, timed>>

Produce_Unlock(p) == Unlock(p, "unlock", "idle")
-----------------------------------------------------------------------------
\* The steps of a thread that runs.
Consumer(c) == \/ Pred_True(c) \/ Pred_False(c) \/ Wait_Construct(c) \/ Wait_Link(c)
               \/ Wait_Release(c) \/ Last(c) \/ Consume_Unlock(c)

Producer(p) == \/ Put(p) \/ Unlock_Early(p) \/ Produce_Unlock(p)
               \/ Notify(p, "notify", "unlock") \/ Notify(p, "notify free", "idle")

\* The steps that wait for the mutex.
ConsumerLocks(c) == Consume_Lock(c) \/ Wait_Relock(c)

Next == \/ \E c \in Consumers : Consume(c) \/ ConsumerLocks(c) \/ Wait_Timeout(c) \/ Consumer(c)
        \/ \E p \in Producers : Produce(p) \/ Produce_Lock(p) \/ Producer(p)

Spec == Init /\ [][Next]_vars

\* Running threads go on and every thread gets the mutex at some time, as
\* Mutex!LockSucceeds promises it. Nobody has to call, and no timeout has to run
\* out before a notification.
Fairness == /\ \A c \in Consumers : WF_vars(Consumer(c)) /\ SF_vars(ConsumerLocks(c))
            /\ \A p \in Producers : WF_vars(Producer(p)) /\ SF_vars(Produce_Lock(p))

FairSpec == Spec /\ Fairness
-----------------------------------------------------------------------------
\* Types; the items stay within what was produced, in particular no consumer
\* takes one that is not there. wait() returns with the mutex locked, whatever has
\* ended it, and a thread that is blocked does not hold it.
TypeOK ==
  /\ phase \in [Consumers -> {"idle", "entering", "waiting", "notified", "timeout"}]
  /\ outcome \in [Consumers -> {"none", "notified", "timeout"}]
  /\ holders \in SUBSET Threads
  /\ items \in 0 .. MaxItems
  /\ timed \in [Consumers -> BOOLEAN]
  /\ \A c \in Consumers : pc[c] \in {"idle", "lock", "pred", "link", "release", "block", "last", "unlock"}
  /\ \A p \in Producers : pc[p] \in {"idle", "lock", "put", "notify", "unlock early", "notify free", "unlock"}
  /\ \A c \in Consumers : /\ c \in holders <=> pc[c] \in {"pred", "link", "release", "last", "unlock"}
                          /\ pc[c] \notin {"link", "release", "block"} => phase[c] = "idle"

\* Consumers that will look at the predicate before they wait again, and
\* producers that still have to notify.
Active == {c \in Consumers : \/ pc[c] \in {"lock", "pred", "last"}
                             \/ phase[c] \in {"notified", "timeout"}}
Notifying == {p \in Producers : pc[p] \in {"notify", "unlock early", "notify free"}}

\* "We can only unlock the lock when we are sure that a signal will reach our
\* thread": while a thread waits, for every item there is a consumer that will look
\* at it or a producer that will notify, so no notification was lost between the
\* predicate and the queue.
NoLostWakeup ==
  Waiting # {} => items <= Cardinality(Active) + Cardinality(Notifying)

\* Items and waiting threads do not stay together for ever.
ItemsServed == items > 0 /\ Waiting # {} ~> items = 0 \/ Waiting = {}
=============================================================================
