------------------------------ MODULE ThreadList ------------------------------
(***************************************************************************)
(* The linked list of the thread states (_thread.cpp), which ThreadLifecycle*)
(* takes for a set.  It is changed and walked in SVC handlers, one at a    *)
(* time and while no thread runs; interrupts walk it in the middle of a    *)
(* handler.                                                                *)
(***************************************************************************)
EXTENDS Naturals, FiniteSets

CONSTANTS
  ThreadStates,     \* memory for shared thread states
  Nil         \* nullptr

ASSUME NilIsNoState == Nil \notin ThreadStates
ASSUME StatesFinite == IsFiniteSet(ThreadStates)

VARIABLES
  g_sharedThreadStates,
  m_next,
  constructed,   \* the states between construction and destruction
  started,       \* those whose task was created
  unlinked,      \* those that were unlinked and not yet destroyed
  handler,       \* the SVC handler that runs: none, create, unlink or forEach
  svcArg,        \* its state
  iter,          \* its iterator
  visits         \* for_each_thread(): how often the function was called with each

listVars == <<g_sharedThreadStates, m_next, constructed, started, unlinked, handler, svcArg, iter,
              visits>>

NoVisits == [s \in ThreadStates |-> 0]

ListInit == /\ g_sharedThreadStates = Nil /\ m_next = [s \in ThreadStates |-> Nil]
            /\ constructed = {} /\ started = {} /\ unlinked = {}
            /\ handler = "none" /\ svcArg = Nil /\ iter = Nil /\ visits = NoVisits

Svc(h, s, i) == handler = "none" /\ handler' = h /\ svcArg' = s /\ iter' = i

SvcReturns == handler' = "none" /\ svcArg' = Nil /\ iter' = Nil
-----------------------------------------------------------------------------
\* The constructor of the state: it is in no list.
List_Construct(s) ==
  /\ handler = "none" /\ s \notin constructed
  /\ constructed' = constructed \cup {s}
  /\ m_next' = [m_next EXCEPT ![s] = Nil]
  /\ UNCHANGED <<g_sharedThreadStates, started, unlinked, handler, svcArg, iter, visits>>

\* weos_createTask: the new state points to the list, and then becomes its head.
List_Create(s) ==
  /\ s \in constructed \ (started \cup unlinked)
  /\ Svc("create", s, Nil)
  /\ m_next' = [m_next EXCEPT ![s] = g_sharedThreadStates]
  /\ UNCHANGED <<g_sharedThreadStates, constructed, started, unlinked, visits>>

List_Head ==
  /\ handler = "create"
  /\ g_sharedThreadStates' = svcArg /\ started' = started \cup {svcArg}
  /\ SvcReturns
  /\ UNCHANGED <<m_next, constructed, unlinked, visits>>

\* weos_unlinkSharedState, in destroy() of any state, started or not.
List_Unlink(s) ==
  /\ s \in constructed \ unlinked
  /\ IF g_sharedThreadStates = s
       THEN g_sharedThreadStates' = m_next[s] /\ Svc("destroy", s, Nil)
       ELSE Svc("unlink", s, g_sharedThreadStates) /\ UNCHANGED g_sharedThreadStates
  /\ UNCHANGED <<m_next, constructed, started, unlinked, visits>>

\* An unlink that skips the state behind the one it looks for.
List_Walk_Skip ==
  /\ handler = "unlink"
  /\ IF iter = Nil THEN handler' = "destroy" /\ UNCHANGED <<m_next, iter>>
     ELSE IF m_next[iter] = svcArg
       THEN /\ m_next' = [m_next EXCEPT ![iter] = Nil]
            /\ handler' = "destroy" /\ UNCHANGED iter
       ELSE iter' = m_next[iter] /\ UNCHANGED <<handler, m_next>>
  /\ UNCHANGED <<g_sharedThreadStates, constructed, started, unlinked, svcArg, visits>>

List_Walk ==
  /\ handler = "unlink"
  /\ IF iter = Nil THEN handler' = "destroy" /\ UNCHANGED <<m_next, iter>>
     ELSE IF m_next[iter] = svcArg
       THEN /\ m_next' = [m_next EXCEPT ![iter] = m_next[svcArg]]
            /\ handler' = "destroy" /\ UNCHANGED iter
       ELSE iter' = m_next[iter] /\ UNCHANGED <<handler, m_next>>
  /\ UNCHANGED <<g_sharedThreadStates, constructed, started, unlinked, svcArg, visits>>

\* The handler returns.
List_Return ==
  /\ handler = "destroy"
  /\ started' = started \ {svcArg} /\ unlinked' = unlinked \cup {svcArg}
  /\ SvcReturns
  /\ UNCHANGED <<g_sharedThreadStates, m_next, constructed, visits>>

\* The thread that called it destroys the state; others may have used the list before.
List_Destroy(s) ==
  /\ handler = "none" /\ s \in unlinked
  /\ constructed' = constructed \ {s} /\ unlinked' = unlinked \ {s}
  /\ UNCHANGED <<g_sharedThreadStates, m_next, started, handler, svcArg, iter, visits>>

\* for_each_thread() of a task; the function may stop the loop.
List_ForEach ==
  /\ Svc("forEach", Nil, g_sharedThreadStates) /\ visits' = NoVisits
  /\ UNCHANGED <<g_sharedThreadStates, m_next, constructed, started, unlinked>>

List_Visit ==
  /\ handler = "forEach" /\ iter # Nil
  /\ visits' = [visits EXCEPT ![iter] = @ + 1]
  /\ iter' = m_next[iter]
  /\ UNCHANGED <<g_sharedThreadStates, m_next, constructed, started, unlinked, handler, svcArg>>

List_ForEachEnds ==
  /\ handler = "forEach"
  /\ SvcReturns /\ visits' = NoVisits
  /\ UNCHANGED <<g_sharedThreadStates, m_next, constructed, started, unlinked>>

ListNext == \/ \E s \in ThreadStates : \/ List_Construct(s) \/ List_Create(s) \/ List_Unlink(s)
                                     \/ List_Destroy(s)
            \/ List_Head \/ List_Walk \/ List_Return
            \/ List_ForEach \/ List_Visit \/ List_ForEachEnds

ListSpec == ListInit /\ [][ListNext]_listVars
-----------------------------------------------------------------------------
ListTypeOK ==
  /\ {g_sharedThreadStates, svcArg, iter} \subseteq ThreadStates \cup {Nil}
  /\ m_next \in [ThreadStates -> ThreadStates \cup {Nil}]
  /\ constructed \subseteq ThreadStates /\ started \subseteq constructed
  /\ unlinked \subseteq constructed \ started
  /\ handler \in {"none", "create", "unlink", "destroy", "forEach"}
  /\ visits \in [ThreadStates -> Nat]

\* Where an interrupt comes by that walks as many steps as there are states, and one more.
Walk == LET at[k \in 1 .. Cardinality(ThreadStates) + 1] ==
              IF k = 1 THEN g_sharedThreadStates
              ELSE IF at[k - 1] \in ThreadStates THEN m_next[at[k - 1]] ELSE Nil
        IN at

\* Whenever an interrupt calls for_each_thread(), also in the middle of a handler that
\* changes the list, it comes by every thread once, and by nothing else: the list
\* has no cycle, holds no destroyed state, and misses no thread but the one whose
\* state is just being destroyed.  So does a task.
ListExact ==
  LET steps == 1 .. Cardinality(ThreadStates) + 1
      seen == {Walk[k] : k \in steps} \ {Nil}
  IN /\ \A i, k \in steps : Walk[i] = Walk[k] /\ Walk[i] # Nil => i = k
     /\ seen = IF handler = "destroy" THEN started \ {svcArg} ELSE started
     /\ \A s \in ThreadStates : visits[s] <= 1
     /\ handler = "forEach" /\ iter = Nil => \A s \in started : visits[s] = 1
=============================================================================
