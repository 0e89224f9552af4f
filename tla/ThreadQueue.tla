----------------------------- MODULE ThreadQueue -----------------------------
(***************************************************************************)
(* The queue of waiting threads, weos_detail::_tq (_tq.hpp, _tq.cpp), on   *)
(* which condition_variable, latch and synchronic are built.               *)
(*                                                                         *)
(* A waiting thread puts a node on its own stack and links it.  The list   *)
(* is changed by three handlers: weos_tq_link and weos_tq_unlink run as an *)
(* SVC of the waiting thread, weos_tq_notify runs as an SVC of a notifying *)
(* thread or directly in an interrupt.  No thread runs while a handler     *)
(* does, but an interrupt may preempt a handler, and another interrupt;    *)
(* the handlers under way form a stack.  Each of their steps is one access *)
(* to memory that a preempting handler could change.                       *)
(***************************************************************************)
EXTENDS Naturals, Sequences, FiniteSets, SequencesExt

CONSTANTS
  Waiters,      \* threads that wait; each has one node
  Prio,         \* the priority of each waiter
  Null,         \* nullptr
  Preemptible,  \* the handlers during which an interrupt notifies this queue
  MaxNesting    \* bound: handlers under way at the same time

ASSUME WaitersFinite == IsFiniteSet(Waiters)
ASSUME PrioType == Prio \in [Waiters -> Nat]
ASSUME NullIsNoNode == Null \notin Waiters
ASSUME PreemptibleType == Preemptible \subseteq {"link", "unlink", "one", "all"}

Links == Waiters \cup {Null}

VARIABLES
  m_h,       \* the head of the queue
  next,      \* m_v without its two lowest bits: the pointer to the next node
  notified,  \* bit 0 of m_v
  unlinked,  \* bit 1 of m_v
  m_s,       \* the tokens of the semaphore in each node
  wpc,       \* where each waiter is; "idle": its node does not exist
  outcome,   \* what the last wait of each waiter returned
  stack      \* the handlers under way, the running one last

nodeVars == <<next, notified, unlinked, m_s>>
vars == <<m_h, nodeVars, wpc, outcome, stack>>

\* A handler under way: the thread it links or unlinks, the step it will take next, and
\* its locals.  The local iv is kept as the pointer and the unlinked bit in it.
Frame(kind, who, pc) == [kind |-> kind, who |-> who, pc |-> pc, i |-> Null, in |-> Null]

Top == stack[Len(stack)]
Push(frame) == stack' = Append(stack, frame)
Return == stack' = Front(stack)
Go(pc, i, in) == stack' = [stack EXCEPT ![Len(stack)] = [Top EXCEPT !.pc = pc, !.i = i, !.in = in]]
Running(kind, pc) == stack # <<>> /\ Top.kind = kind /\ Top.pc = pc

Init ==
  /\ m_h = Null
  /\ next = [w \in Waiters |-> Null]
  /\ notified = [w \in Waiters |-> FALSE]
  /\ unlinked = [w \in Waiters |-> FALSE]
  /\ m_s = [w \in Waiters |-> 0]
  /\ wpc = [w \in Waiters |-> "idle"]
  /\ outcome = [w \in Waiters |-> "none"]
  /\ stack = <<>>

-----------------------------------------------------------------------------
(* A waiting thread                                                        *)

\* _t::_t: a new node, then the SVC that links it.
Construct(w) ==
  /\ stack = <<>> /\ wpc[w] = "idle"
  /\ next' = [next EXCEPT ![w] = Null]
  /\ notified' = [notified EXCEPT ![w] = FALSE]
  /\ unlinked' = [unlinked EXCEPT ![w] = FALSE]
  /\ m_s' = [m_s EXCEPT ![w] = 0]
  /\ wpc' = [wpc EXCEPT ![w] = "blocked"]
  /\ outcome' = [outcome EXCEPT ![w] = "none"]
  /\ Push(Frame("link", w, "head"))
  /\ UNCHANGED m_h

\* The semaphore has a token: wait(), wait_for() and wait_until() succeed.
Wake(w) ==
  /\ stack = <<>> /\ wpc[w] = "blocked" /\ m_s[w] > 0
  /\ m_s' = [m_s EXCEPT ![w] = @ - 1]
  /\ wpc' = [wpc EXCEPT ![w] = "woken"]
  /\ UNCHANGED <<m_h, next, notified, unlinked, outcome, stack>>

\* wait_for() and wait_until() give up at a moment when there is no token.
TimeOut(w) ==
  /\ stack = <<>> /\ wpc[w] = "blocked" /\ m_s[w] = 0
  /\ wpc' = [wpc EXCEPT ![w] = "timeout"]
  /\ UNCHANGED <<m_h, nodeVars, outcome, stack>>

\* The wait returns b.  What the memory of the dead node holds is of no
\* interest as long as QueueExact is true; it is cleared to save states.
Finish(w, b) ==
  /\ wpc' = [wpc EXCEPT ![w] = "idle"]
  /\ next' = [next EXCEPT ![w] = Null]
  /\ notified' = [notified EXCEPT ![w] = FALSE]
  /\ unlinked' = [unlinked EXCEPT ![w] = FALSE]
  /\ m_s' = [m_s EXCEPT ![w] = 0]
  /\ outcome' = [outcome EXCEPT ![w] = IF b THEN "notified" ELSE "timeout"]

\* An unlink() that trusts the timeout.
Unlink_Unlinked_Timeout(w) ==
  /\ stack = <<>> /\ wpc[w] \in {"woken", "timeout"} /\ unlinked[w]
  /\ Finish(w, wpc[w] = "woken")
  /\ UNCHANGED <<m_h, stack>>

\* _t::unlink, after a timeout and in ~_t: a node that somebody else has
\* unlinked needs no SVC.  A token taken is a notification received; after a
\* timeout bit 0 decides.
Unlink_Unlinked(w) ==
  /\ stack = <<>> /\ wpc[w] \in {"woken", "timeout"} /\ unlinked[w]
  /\ Finish(w, wpc[w] = "woken" \/ notified[w])
  /\ UNCHANGED <<m_h, stack>>

\* An unlink() that does nothing about a node that is still linked.
Unlink_Linked_NoSvc(w) ==
  /\ stack = <<>> /\ wpc[w] \in {"woken", "timeout"} /\ ~unlinked[w]
  /\ Finish(w, notified[w])
  /\ UNCHANGED <<m_h, stack>>

\* The test of m_v and the SVC are two steps: a notification may come between.
Unlink_Linked(w) ==
  /\ stack = <<>> /\ wpc[w] \in {"woken", "timeout"} /\ ~unlinked[w]
  /\ wpc' = [wpc EXCEPT ![w] = "unlink"]
  /\ UNCHANGED <<m_h, nodeVars, outcome, stack>>

Unlink_Svc(w) ==
  /\ stack = <<>> /\ wpc[w] = "unlink"
  /\ wpc' = [wpc EXCEPT ![w] = "unlinking"]
  /\ Push(Frame("unlink", w, "load"))
  /\ UNCHANGED <<m_h, nodeVars, outcome>>

\* Back from the SVC.
Unlink_Return(w) ==
  /\ stack = <<>> /\ wpc[w] = "unlinking"
  /\ Finish(w, notified[w])
  /\ UNCHANGED <<m_h, stack>>

-----------------------------------------------------------------------------
(* weos_tq_link(t); i and in are locals of the handler                     *)

\* Line 98: an empty queue is replaced by t, else i is its head.
Link_Head ==
  /\ Running("link", "head")
  /\ IF m_h = Null
       THEN m_h' = Top.who /\ Return
       ELSE Go("next", m_h, Null) /\ UNCHANGED m_h
  /\ UNCHANGED <<nodeVars, wpc, outcome>>

\* A walk that passes over the nodes of lower priority.
Link_Next_Lower ==
  /\ Running("link", "next")
  /\ LET in == next[Top.i] IN
       IF unlinked[Top.i] THEN Go("head", Null, Null)
       ELSE IF in # Null /\ Prio[in] < Prio[Top.who] THEN Go("next", in, Null)
       ELSE Go("store", Top.i, in)
  /\ UNCHANGED <<m_h, nodeVars, wpc, outcome>>

\* Lines 103 to 115: start again when i has left the queue, go on behind a node
\* of the same or a higher priority.
Link_Next ==
  /\ Running("link", "next")
  /\ LET in == next[Top.i] IN
       IF unlinked[Top.i] THEN Go("head", Null, Null)
       ELSE IF in # Null /\ Prio[in] >= Prio[Top.who] THEN Go("next", in, Null)
       ELSE Go("store", Top.i, in)
  /\ UNCHANGED <<m_h, nodeVars, wpc, outcome>>

\* Line 117: the whole of t->m_v is overwritten.
Link_Store ==
  /\ Running("link", "store")
  /\ next' = [next EXCEPT ![Top.who] = Top.in]
  /\ notified' = [notified EXCEPT ![Top.who] = FALSE]
  /\ unlinked' = [unlinked EXCEPT ![Top.who] = FALSE]
  /\ Go("swap", Top.i, Top.in)
  /\ UNCHANGED <<m_h, m_s, wpc, outcome>>

\* Lines 118 to 128: i->m_v changes only by being marked as unlinked.
Link_Swap ==
  /\ Running("link", "swap")
  /\ IF unlinked[Top.i]
       THEN Go("head", Null, Null) /\ UNCHANGED next
       ELSE next' = [next EXCEPT ![Top.i] = Top.who] /\ Return
  /\ UNCHANGED <<m_h, notified, unlinked, m_s, wpc, outcome>>

-----------------------------------------------------------------------------
(* weos_tq_unlink(t); the local in of the frame is tn, the successor of t  *)

Unlink_Load ==
  /\ Running("unlink", "load")
  /\ Go("head", Null, next[Top.who])
  /\ UNCHANGED <<m_h, nodeVars, wpc, outcome>>

\* Lines 141 to 147.
Unlink_Head ==
  /\ Running("unlink", "head")
  /\ IF m_h = Top.who THEN m_h' = Top.in /\ Go("mark", Null, Null)
     ELSE /\ UNCHANGED m_h
          /\ IF m_h = Null THEN Go("mark", Null, Null) ELSE Go("walk", m_h, Top.in)
  /\ UNCHANGED <<nodeVars, wpc, outcome>>

\* Lines 151 to 160, without the exchange.
Unlink_Walk ==
  /\ Running("unlink", "walk")
  /\ CASE next[Top.i] = Null -> Go("mark", Null, Null)
       [] next[Top.i] = Top.who -> Go("swap", Top.i, Top.in)
       [] OTHER -> Go("walk", next[Top.i], Top.in)
  /\ UNCHANGED <<m_h, nodeVars, wpc, outcome>>

\* Line 154: unlike weos_tq_link, the exchange does not look at the bits of i.
\* It fails when i has been marked since iv was read, and is then repeated from
\* the load of iv, which succeeds.
Unlink_Swap ==
  /\ Running("unlink", "swap")
  /\ next' = [next EXCEPT ![Top.i] = Top.in]
  /\ Go("mark", Null, Null)
  /\ UNCHANGED <<m_h, notified, unlinked, m_s, wpc, outcome>>

Unlink_Mark ==
  /\ Running("unlink", "mark")
  /\ unlinked' = [unlinked EXCEPT ![Top.who] = TRUE]
  /\ Return
  /\ UNCHANGED <<m_h, next, notified, m_s, wpc, outcome>>

-----------------------------------------------------------------------------
(* weos_tq_notify                                                          *)

\* notify_one() and notify_all(): called in an interrupt, the handler starts when
\* the list is not empty, be it on top of a preemptible handler.  Called by a
\* thread, it runs as an SVC, a moment after the test: the list may have become
\* empty again.
Notify(kind) ==
  /\ \/ stack = <<>>
     \/ /\ stack # <<>> /\ Len(stack) < MaxNesting
        /\ Top.kind \in Preemptible /\ m_h # Null
  /\ Push(Frame(kind, Null, "head"))
  /\ UNCHANGED <<m_h, nodeVars, wpc, outcome>>

\* A notification that marks the node but forgets its semaphore.
MarkAndPost_NoPost(i) ==
  /\ notified' = [notified EXCEPT ![i] = TRUE]
  /\ unlinked' = [unlinked EXCEPT ![i] = TRUE]
  /\ UNCHANGED m_s

\* i->m_v = iv | 3 and i->m_s.post()
MarkAndPost(i) ==
  /\ notified' = [notified EXCEPT ![i] = TRUE]
  /\ unlinked' = [unlinked EXCEPT ![i] = TRUE]
  /\ m_s' = [m_s EXCEPT ![i] = @ + 1]

\* notify_all takes the whole list ...
All_Head ==
  /\ Running("all", "head")
  /\ m_h' = Null
  /\ IF m_h = Null THEN Return ELSE Go("post", m_h, Null)
  /\ UNCHANGED <<nodeVars, wpc, outcome>>

\* ... and wakes one node after the other; no one else can reach them.
All_Post ==
  /\ Running("all", "post")
  /\ MarkAndPost(Top.i)
  /\ IF next[Top.i] = Null THEN Return ELSE Go("post", next[Top.i], Null)
  /\ UNCHANGED <<m_h, next, wpc, outcome>>

\* notify_one: lines 65 to 73, a first look at the head ...
One_Head ==
  /\ Running("one", "head")
  /\ IF m_h = Null THEN Return ELSE Go("swap", m_h, next[m_h])
  /\ UNCHANGED <<m_h, nodeVars, wpc, outcome>>

\* A notify_one that stores the new head without comparing.
One_Swap_NoCompare ==
  /\ Running("one", "swap")
  /\ m_h' = Top.in
  /\ Go("post", Top.i, Null)
  /\ UNCHANGED <<nodeVars, wpc, outcome>>

\* ... which is replaced by its successor if it is still the head ...
One_Swap ==
  /\ Running("one", "swap")
  /\ CASE m_h = Top.i -> m_h' = Top.in /\ Go("post", Top.i, Null)
       [] m_h = Null  -> Return /\ UNCHANGED m_h
       [] OTHER       -> Go("swap", m_h, next[m_h]) /\ UNCHANGED m_h
  /\ UNCHANGED <<nodeVars, wpc, outcome>>

\* ... and woken.
One_Post ==
  /\ Running("one", "post")
  /\ MarkAndPost(Top.i)
  /\ Return
  /\ UNCHANGED <<m_h, next, wpc, outcome>>

-----------------------------------------------------------------------------

Thread(w) == \/ Wake(w) \/ Unlink_Unlinked(w) \/ Unlink_Linked(w)
             \/ Unlink_Svc(w) \/ Unlink_Return(w)

Handler == \/ Link_Head \/ Link_Next \/ Link_Store \/ Link_Swap
           \/ Unlink_Load \/ Unlink_Head \/ Unlink_Walk \/ Unlink_Swap \/ Unlink_Mark
           \/ All_Head \/ All_Post \/ One_Head \/ One_Swap \/ One_Post

Next == \/ \E w \in Waiters : Construct(w) \/ TimeOut(w) \/ Thread(w)
        \/ \E kind \in {"one", "all"} : Notify(kind)
        \/ Handler

Spec == Init /\ [][Next]_vars

-----------------------------------------------------------------------------
(* The contents of the queue                                               *)

\* The nodes one meets from node (or Null) n on; more steps than there are
\* nodes mean a cycle.
Walk(n) ==
  LET at[k \in 0..Cardinality(Waiters)] ==
        IF k = 0 THEN n ELSE IF at[k - 1] = Null THEN Null ELSE next[at[k - 1]]
  IN at
NodesFrom(n) == {Walk(n)[k] : k \in 0..Cardinality(Waiters)} \ {Null}
Queue == NodesFrom(m_h)

\* The nodes that a notification has taken from the queue and not yet marked.
Carried == (UNION {NodesFrom(stack[k].i) :
                    k \in {j \in 1..Len(stack) : stack[j].kind = "all" /\ stack[j].pc = "post"}})
           \cup {stack[k].i :
                    k \in {j \in 1..Len(stack) : stack[j].kind = "one" /\ stack[j].pc = "post"}}

Linking == {stack[k].who : k \in {j \in 1..Len(stack) : stack[j].kind = "link"}}

\* What a waiter is waiting for, as the abstract queue sees it.
PhaseOf(w) ==
  CASE wpc[w] = "idle" -> "idle"
    [] w \in Linking -> "entering"
    [] wpc[w] # "idle" /\ w \notin Linking /\ w \in Queue -> "waiting"
    [] OTHER -> IF notified[w] \/ w \in Carried THEN "notified" ELSE "timeout"

-----------------------------------------------------------------------------
(* Properties                                                              *)

\* Types: no node is posted twice, and at most one handler that links or unlinks is
\* under way, below all notifications.
TypeOK ==
  /\ m_h \in Links
  /\ next \in [Waiters -> Links]
  /\ notified \in [Waiters -> BOOLEAN]
  /\ unlinked \in [Waiters -> BOOLEAN]
  /\ m_s \in [Waiters -> {0, 1}]
  /\ wpc \in [Waiters -> {"idle", "blocked", "woken", "timeout", "unlink", "unlinking"}]
  /\ outcome \in [Waiters -> {"none", "notified", "timeout"}]
  /\ \A k \in 1..Len(stack) :
       /\ stack[k].kind \in {"link", "unlink", "one", "all"}
       /\ stack[k].pc \in {"head", "next", "store", "swap", "load", "walk", "mark", "post"}
       /\ stack[k].i \in Links /\ stack[k].in \in Links
       /\ stack[k].kind \in {"link", "unlink"} => k = 1 /\ stack[k].who \in Waiters

\* Whenever threads may run, the list holds exactly the nodes that wait and are
\* not marked, each once.  A node too few would be a thread that no
\* notification reaches; a node too many would be a pointer into the stack of a
\* thread that has gone on.
QueueExact ==
  stack = <<>> =>
    /\ Walk(m_h)[Cardinality(Waiters)] = Null
    /\ Queue = {w \in Waiters : wpc[w] # "idle" /\ ~unlinked[w]}

\* A waiter has a token exactly if it was notified and has not taken it: no
\* notification posts a node twice or marks a node without posting it, also
\* when the waiter gives up at the same time.
TokensMatch ==
  stack = <<>> =>
    \A w \in Waiters : wpc[w] # "idle" =>
      m_s[w] = IF notified[w] /\ wpc[w] # "woken" THEN 1 ELSE 0

\* Behind the head, the list is sorted by falling priority; weos_tq_link never
\* puts a node in front of the head.
SortedBehindHead ==
  stack = <<>> =>
    \A k \in 1..Cardinality(Waiters) - 1 :
      LET a == Walk(m_h)[k]
          b == Walk(m_h)[k + 1]
      IN  a # Null /\ b # Null => Prio[a] >= Prio[b]

\* The list with its handlers, interrupts and timeouts is a wait queue: every
\* wait ends by one notification or by giving up, and the value that wait_for()
\* returns says which.  notify_all wakes those who wait at its first access.
Abstract == INSTANCE WaitQueue WITH phase <- [w \in Waiters |-> PhaseOf(w)]
ImplementsWaitQueue == Abstract!WQSpec
=============================================================================
