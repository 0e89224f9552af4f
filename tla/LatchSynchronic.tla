--------------------------- MODULE LatchSynchronic ---------------------------
(***************************************************************************)
(* weos::latch and weos::synchronic (_latch.hpp, _synchronic.hpp): an      *)
(* atomic object beside a queue of waiting threads.                        *)
(*                                                                         *)
(* Both put a node into the queue before they look at the object, block    *)
(* only if it does not have a value they wait for, and both update the     *)
(* object before they notify.  A latch is one-shot: its object is a        *)
(* counter, everybody waits for zero, and no one looks twice.              *)
(***************************************************************************)
EXTENDS WaitQueue, Naturals, FiniteSets

CONSTANTS
  Updaters,      \* threads and interrupts that update the object and notify
  Kinds,         \* which of the two classes: a subset of {"latch", "synchronic"}
  MaxCount,      \* bound: the greatest counter a latch starts with
  ObjectValues,       \* the values of the object of a synchronic
  DestroyAtZero  \* the latch is destroyed as early as its comment allows it

Callers == Waiters \cup Updaters

ASSUME UsersDisjoint == Waiters \cap Updaters = {}
ASSUME KindsType == Kinds \subseteq {"latch", "synchronic"}
ASSUME MaxCountType == MaxCount \in Nat
ASSUME ObjectsType == ObjectValues \subseteq Nat

VARIABLES
  kind,
  object,     \* m_count, or the atomic object of a synchronic
  place,      \* where each thread is
  until,       \* the values a thread waits for
  down,       \* what the thread subtracts when it looks: 1 in count_down_and_wait
  alive,      \* the latch has not been destroyed
  partial     \* history: the last update was not announced to every waiting thread

ownVars == <<kind, object, place, until, down, alive, partial>>
lsVars == <<wqVars, ownVars>>

LSInit == /\ WQInit
          /\ kind \in Kinds
          /\ object \in IF kind = "latch" THEN 0 .. MaxCount ELSE ObjectValues
          /\ place = [t \in Callers |-> "idle"]
          /\ until = [t \in Waiters |-> {}]
          /\ down = [t \in Waiters |-> 0]
          /\ alive = TRUE
          /\ partial = FALSE

GoesTo(t, a, b) == place[t] = a /\ place' = [place EXCEPT ![t] = b]

\* A call that waits for one of the values in G.
CallFor(t, G, d) == /\ alive
                    /\ GoesTo(t, "idle", "construct")
                    /\ until' = [until EXCEPT ![t] = G]
                    /\ down' = [down EXCEPT ![t] = d]
                    /\ UNCHANGED <<wqVars, kind, object, alive, partial>>

\* The call returns; its locals end.
LSReturn(t, a) == /\ GoesTo(t, a, "idle")
                  /\ until' = [until EXCEPT ![t] = {}]
                  /\ down' = [down EXCEPT ![t] = 0]
-----------------------------------------------------------------------------
(* Calls of a latch.  "0 <= n <= counter": no client counts below zero, those *)
(* who are on their way to count included.                                    *)

OnTheirWay == Cardinality({t \in Waiters : down[t] = 1 /\ place[t] \in {"construct", "look"}})

Latch_Wait(t) == kind = "latch" /\ CallFor(t, {0}, 0)

Latch_CountDownAndWait(t) == /\ kind = "latch" /\ OnTheirWay < object
                             /\ CallFor(t, {0}, 1)

\* count_down(): the compare-and-exchange that succeeds.
Latch_CountDown(t, n) ==
  /\ kind = "latch" /\ alive
  /\ n + OnTheirWay <= object
  /\ object' = object - n
  /\ GoesTo(t, "idle", IF object' = 0 THEN "notify_all" ELSE "idle")
  /\ partial' = (partial /\ object' # 0)
  /\ UNCHANGED <<wqVars, kind, until, down, alive>>

\* ~latch(), by a thread that sees that the counter is zero; at the earliest when
\* the comment of the destructor allows it, otherwise when nobody is inside.
Latch_Destroy(t) ==
  /\ kind = "latch" /\ alive /\ object = 0
  /\ place[t] = "idle"
  /\ DestroyAtZero \/ \A u \in Callers : place[u] = "idle"
  /\ alive' = FALSE
  /\ IF Waiting = {} THEN UNCHANGED wqVars ELSE NotifyAll
  /\ UNCHANGED <<kind, object, place, until, down, partial>>
-----------------------------------------------------------------------------
(* Calls of a synchronic. *)

\* expect(): returns at once if it finds what it waits for.
Synchronic_Expect(t, desired) ==
  /\ kind = "synchronic" /\ object # desired
  /\ CallFor(t, {desired}, 0)

\* expect_update().
Synchronic_ExpectUpdate(t, current) ==
  /\ kind = "synchronic" /\ object = current
  /\ CallFor(t, ObjectValues \ {current}, 0)

\* notify(): stores first, or calls the function that does.
Synchronic_Store(t, value, hint) ==
  /\ kind = "synchronic"
  /\ GoesTo(t, "idle", hint)
  /\ object' = value
  /\ partial' = (hint = "notify_one")
  /\ UNCHANGED <<wqVars, kind, until, down, alive>>
-----------------------------------------------------------------------------
(* Inside a call. *)

\* The constructor of _t: the thread enters the queue.
Construct_Begin(t) == place[t] = "construct" /\ Begin(t) /\ UNCHANGED ownVars

\* A look at the object while the node is not in the queue yet.
Construct_Enter_Looked(t) ==
  /\ GoesTo(t, "construct", IF object - down[t] \in until[t] THEN "leave" ELSE "block")
  /\ object' = object - down[t]
  /\ Enter(t)
  /\ UNCHANGED <<kind, until, down, alive, partial>>

Construct_Enter(t) == /\ GoesTo(t, "construct", "look")
                      /\ Enter(t)
                      /\ UNCHANGED <<kind, object, until, down, alive, partial>>

\* With the node in the queue the thread looks at the object, and counts down if
\* it has to. Who brings the counter to zero here does not notify.
Look(t) ==
  /\ object' = object - down[t]
  /\ GoesTo(t, "look", IF object' \in until[t] THEN "leave" ELSE "block")
  /\ partial' = (partial \/ (down[t] = 1 /\ object' = 0))
  /\ UNCHANGED <<wqVars, kind, until, down, alive>>

\* A blocked thread was notified. A synchronic looks again, with another node.
Woken(t) ==
  /\ phase[t] = "notified" /\ Leave(t)
  /\ IF kind = "latch" THEN LSReturn(t, "block")
                       ELSE GoesTo(t, "block", "construct") /\ UNCHANGED <<until, down>>
  /\ UNCHANGED <<kind, object, alive, partial>>

\* The destructor of _t for a thread that did not block.
Unlink_GiveUp(t) == place[t] = "leave" /\ GiveUp(t) /\ UNCHANGED ownVars

Unlink(t) == /\ LSReturn(t, "leave")
             /\ Leave(t)
             /\ UNCHANGED <<kind, object, alive, partial>>

Notify_All(t) == /\ GoesTo(t, "notify_all", "idle")
                 /\ IF Waiting = {} THEN UNCHANGED wqVars ELSE NotifyAll
                 /\ UNCHANGED <<kind, object, until, down, alive, partial>>

Notify_One(t) == /\ GoesTo(t, "notify_one", "idle")
                 /\ IF Waiting = {} THEN UNCHANGED wqVars ELSE NotifyOne
                 /\ UNCHANGED <<kind, object, until, down, alive, partial>>
-----------------------------------------------------------------------------
WaiterGoes(t) == \/ Construct_Begin(t) \/ Construct_Enter(t) \/ Look(t) \/ Woken(t)
                 \/ Unlink_GiveUp(t) \/ Unlink(t)

LSNext == \/ \E t \in Waiters : \/ Latch_Wait(t) \/ Latch_CountDownAndWait(t)
                               \/ \E v \in ObjectValues : \/ Synchronic_Expect(t, v)
                                                     \/ Synchronic_ExpectUpdate(t, v)
                               \/ WaiterGoes(t)
          \/ \E t \in Updaters : \/ \E n \in 0 .. MaxCount : Latch_CountDown(t, n)
                                \/ \E v \in ObjectValues : \/ Synchronic_Store(t, v, "notify_all")
                                                      \/ Synchronic_Store(t, v, "notify_one")
                                \/ Notify_All(t) \/ Notify_One(t)
          \/ \E t \in Callers : Latch_Destroy(t)

LSSpec == LSInit /\ [][LSNext]_lsVars

\* A running thread goes on. Nobody has to count down or to store.
LSFairness == /\ \A t \in Waiters : WF_lsVars(WaiterGoes(t))
              /\ \A t \in Updaters : WF_lsVars(Notify_All(t) \/ Notify_One(t))

LSFairSpec == LSSpec /\ LSFairness
-----------------------------------------------------------------------------
\* Types. The counter never passes below zero.
LSTypeOK ==
  /\ phase \in [Waiters -> {"idle", "entering", "waiting", "notified", "timeout"}]
  /\ outcome \in [Waiters -> {"none", "notified", "timeout"}]
  /\ kind \in Kinds
  /\ object \in IF kind = "latch" THEN 0 .. MaxCount ELSE ObjectValues
  /\ place \in [Callers -> {"idle", "construct", "look", "block", "leave", "notify_all", "notify_one"}]
  /\ until \in [Waiters -> SUBSET (ObjectValues \cup {0})]
  /\ down \in [Waiters -> 0 .. 1]
  /\ alive \in BOOLEAN /\ partial \in BOOLEAN

\* Blocked, and nobody has notified it yet.
Asleep(t) == place[t] = "block" /\ phase[t] = "waiting"

\* Nobody sleeps through the update it waits for: while a thread is blocked
\* though the object has a value it waits for, somebody is about to
\* notify all. Excepted are updates that their caller announced to one thread only,
\* and the last step of count_down_and_wait(), which announces nothing.
NoSleeperMissed ==
  \A t \in Waiters : Asleep(t) /\ object \in until[t] /\ ~partial
                       => \E u \in Updaters : place[u] = "notify_all"

\* "Threads may block on this latch and will be released once the counter
\* decrements to zero": whoever makes it zero.
LatchReleases ==
  \A t \in Waiters : kind = "latch" /\ place[t] = "block" /\ object = 0 ~> place[t] # "block"

\* "The destructor may only be called if no thread blocks on the latch or if the
\* latch counter has reached zero": then no count_down() uses the queue after it.
LatchAlive == ~alive => \A t \in Updaters : place[t] # "notify_all"
=============================================================================
