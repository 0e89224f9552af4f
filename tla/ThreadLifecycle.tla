--------------------------- MODULE ThreadLifecycle ---------------------------
(***************************************************************************)
(* Creation, join, detach and self-destruction of a thread of the          *)
(* CMSIS-RTOS back end (_thread.hpp, _thread.cpp).                         *)
(*                                                                         *)
(* A thread and its handle share one SharedThreadState, which is placed at *)
(* the start of the stack memory of the thread.  The address of the stack  *)
(* block is therefore the identity of the shared state, and releasing the  *)
(* block releases both.  The state is counted by m_referenceCount; the     *)
(* handle and the invoker function drop one reference each, and whoever    *)
(* drops the last one destroys the state and frees the block.              *)
(*                                                                         *)
(* Handles take one step per semaphore operation, atomic access or SVC;    *)
(* threads are preempted anywhere, SVC handlers run to completion.         *)
(***************************************************************************)
EXTENDS Naturals, FiniteSets

CONSTANTS
  Handles,   \* std::thread objects, each used by one client thread at a time
  Tasks,     \* the task control blocks of the kernel (os_active_TCB)
  Heap,      \* stack blocks that ThreadProperties::allocate gets from malloc
  Custom,    \* stacks that a client passes in its thread_attributes
  None       \* nullptr, and the thread id 0

ASSUME StacksDisjoint == Heap \cap Custom = {}
ASSUME NoneIsNothing == None \notin Heap \cup Custom \cup Tasks

Stacks == Heap \cup Custom

VARIABLES
  mem,           \* who may use a stack block: "free", "alloc", or "given": a
                 \* custom stack the client has left to a detached thread
  alive,         \* the blocks that hold a constructed SharedThreadState
  m_finished,    \* the count of the semaphore m_finished of each state
  m_joinedOrDetached,
  m_threadId,
  m_referenceCount,
  g_sharedThreadStates, \* the states in the linked list; every change of the
                 \* list is one SVC and no one depends on its order
  hpc,           \* where each handle is in its operation; "idle" between two
  m_data,        \* the state a handle refers to, or is creating or destroying
  taskId,        \* the local taskId of thread::do_create
  tpc,           \* where each task is in weos_threadInvoker; "none": no task
  arg,           \* the argument of weos_threadInvoker
  threadId       \* the local threadId of weos_threadInvoker

stateVars  == <<m_finished, m_joinedOrDetached, m_threadId, m_referenceCount>>
handleVars == <<hpc, m_data, taskId>>
taskVars   == <<tpc, arg, threadId>>
vars == <<mem, alive, stateVars, g_sharedThreadStates, handleVars, taskVars>>

HandlePc == {"idle", "construct", "start", "setid", "incref",
             "join_wait", "join_decref", "detach_decref", "detach_wait",
             "unlink", "dtor", "free"}
TaskPc == {"none", "run", "await", "decref", "signal_and_terminate",
           "unlink", "dtor", "free", "terminate"}

Init ==
  /\ mem = [b \in Stacks |-> "free"]
  /\ alive = {}
  /\ m_finished = [b \in Stacks |-> 0]
  /\ m_joinedOrDetached = [b \in Stacks |-> 0]
  /\ m_threadId = [b \in Stacks |-> None]
  /\ m_referenceCount = [b \in Stacks |-> 0]
  /\ g_sharedThreadStates = {}
  /\ hpc = [h \in Handles |-> "idle"]
  /\ m_data = [h \in Handles |-> None]
  /\ taskId = [h \in Handles |-> None]
  /\ tpc = [t \in Tasks |-> "none"]
  /\ arg = [t \in Tasks |-> None]
  /\ threadId = [t \in Tasks |-> None]

Goto(h, pc) == hpc' = [hpc EXCEPT ![h] = pc]
TaskGoto(t, pc) == tpc' = [tpc EXCEPT ![t] = pc]

\* The operation of handle h ends and h refers to no thread.
Return(h) == /\ Goto(h, "idle")
             /\ m_data' = [m_data EXCEPT ![h] = None]

\* Block b goes back to the heap, or, when the constructor throws or join()
\* returns, to the client that had lent it.
Release(b) == mem' = [mem EXCEPT ![b] = IF @ = "given" THEN "given" ELSE "free"]

-----------------------------------------------------------------------------
(* thread::create                                                          *)

\* The constructor takes a block from malloc, or the custom stack of its
\* attributes.  bad_alloc leaves everything as it was.
Create_Allocate(h) ==
  /\ hpc[h] = "idle" /\ m_data[h] = None
  /\ \E b \in Stacks :
       /\ mem[b] = "free"
       /\ mem' = [mem EXCEPT ![b] = "alloc"]
       /\ m_data' = [m_data EXCEPT ![h] = b]
  /\ Goto(h, "construct")
  /\ UNCHANGED <<alive, stateVars, g_sharedThreadStates, taskId, taskVars>>

\* The block is too small, or copying the function object throws: the Deleter
\* returns the block.
Create_ConstructThrows(h) ==
  /\ hpc[h] = "construct"
  /\ Release(m_data[h])
  /\ Return(h)
  /\ UNCHANGED <<alive, stateVars, g_sharedThreadStates, taskId, taskVars>>

Create_Construct(h) ==
  /\ hpc[h] = "construct"
  /\ LET b == m_data[h] IN
       /\ alive' = alive \cup {b}
       /\ m_finished' = [m_finished EXCEPT ![b] = 0]
       /\ m_joinedOrDetached' = [m_joinedOrDetached EXCEPT ![b] = 0]
       /\ m_threadId' = [m_threadId EXCEPT ![b] = None]
       /\ m_referenceCount' = [m_referenceCount EXCEPT ![b] = 1]
  /\ Goto(h, "start")
  /\ UNCHANGED <<mem, g_sharedThreadStates, m_data, taskId, taskVars>>

\* weos_createTask: the task exists and its state is listed before the caller
\* learns the task id.
Create_Start(h) ==
  /\ hpc[h] = "start"
  /\ \E t \in Tasks :
       /\ tpc[t] = "none"
       /\ TaskGoto(t, "run")
       /\ arg' = [arg EXCEPT ![t] = m_data[h]]
       /\ taskId' = [taskId EXCEPT ![h] = t]
  /\ g_sharedThreadStates' = g_sharedThreadStates \cup {m_data[h]}
  /\ Goto(h, "setid")
  /\ UNCHANGED <<mem, alive, stateVars, m_data, threadId>>

\* The rest of the stack is too small or too large, or no task control block is
\* left: the exception makes unique_ptr destroy the state.
Create_StartThrows(h) ==
  /\ hpc[h] = "start"
  /\ Goto(h, "unlink")
  /\ UNCHANGED <<mem, alive, stateVars, g_sharedThreadStates, m_data, taskId, taskVars>>

Create_SetId(h) ==
  /\ hpc[h] = "setid"
  /\ m_threadId' = [m_threadId EXCEPT ![m_data[h]] = taskId[h]]
  /\ Goto(h, "incref")
  /\ UNCHANGED <<mem, alive, m_finished, m_joinedOrDetached, m_referenceCount,
                 g_sharedThreadStates, m_data, taskId, taskVars>>

\* A constructor that forgets the reference of the handle.
Create_IncRef_NoCount(h) ==
  /\ hpc[h] = "incref"
  /\ taskId' = [taskId EXCEPT ![h] = None]
  /\ Goto(h, "idle")
  /\ UNCHANGED <<mem, alive, stateVars, g_sharedThreadStates, m_data, taskVars>>

Create_IncRef(h) ==
  /\ hpc[h] = "incref"
  /\ m_referenceCount' = [m_referenceCount EXCEPT ![m_data[h]] = @ + 1]
  /\ taskId' = [taskId EXCEPT ![h] = None]
  /\ Goto(h, "idle")
  /\ UNCHANGED <<mem, alive, m_finished, m_joinedOrDetached, m_threadId,
                 g_sharedThreadStates, m_data, taskVars>>

-----------------------------------------------------------------------------
(* The other operations of a handle                                        *)

\* Move construction and move assignment.  A client that moves into a joinable
\* handle loses a thread; the standard forbids it and the client does not.
Move(g, h) ==
  /\ g # h
  /\ hpc[g] = "idle" /\ m_data[g] = None
  /\ hpc[h] = "idle" /\ m_data[h] # None
  /\ m_data' = [m_data EXCEPT ![g] = m_data[h], ![h] = None]
  /\ UNCHANGED <<mem, alive, stateVars, g_sharedThreadStates, hpc, taskId, taskVars>>

Join_Post(h) ==
  /\ hpc[h] = "idle" /\ m_data[h] # None
  /\ m_joinedOrDetached' = [m_joinedOrDetached EXCEPT ![m_data[h]] = @ + 1]
  /\ Goto(h, "join_wait")
  /\ UNCHANGED <<mem, alive, m_finished, m_threadId, m_referenceCount,
                 g_sharedThreadStates, m_data, taskId, taskVars>>

\* A join() that does not block on m_finished.
Join_Wait_NoBlock(h) ==
  /\ hpc[h] = "join_wait"
  /\ Goto(h, "join_decref")
  /\ UNCHANGED <<mem, alive, stateVars, g_sharedThreadStates, m_data, taskId, taskVars>>

Join_Wait(h) ==
  /\ hpc[h] = "join_wait"
  /\ m_finished[m_data[h]] > 0
  /\ m_finished' = [m_finished EXCEPT ![m_data[h]] = @ - 1]
  /\ Goto(h, "join_decref")
  /\ UNCHANGED <<mem, alive, m_joinedOrDetached, m_threadId, m_referenceCount,
                 g_sharedThreadStates, m_data, taskId, taskVars>>

Join_DecRef(h) ==
  /\ hpc[h] = "join_decref"
  /\ m_referenceCount' = [m_referenceCount EXCEPT ![m_data[h]] = @ - 1]
  /\ IF m_referenceCount[m_data[h]] = 1
       THEN Goto(h, "unlink") /\ UNCHANGED m_data
       ELSE Return(h)
  /\ UNCHANGED <<mem, alive, m_finished, m_joinedOrDetached, m_threadId,
                 g_sharedThreadStates, taskId, taskVars>>

\* A detach() that does not release the invoker.
Detach_Post_NoPost(h) ==
  /\ hpc[h] = "idle" /\ m_data[h] # None
  /\ mem' = [mem EXCEPT ![m_data[h]] = IF m_data[h] \in Custom THEN "given" ELSE @]
  /\ Goto(h, "detach_decref")
  /\ UNCHANGED <<alive, stateVars, g_sharedThreadStates, m_data, taskId, taskVars>>

\* The client never learns when a detached thread has left its custom stack,
\* so it gives the stack away.
Detach_Post(h) ==
  /\ hpc[h] = "idle" /\ m_data[h] # None
  /\ m_joinedOrDetached' = [m_joinedOrDetached EXCEPT ![m_data[h]] = @ + 1]
  /\ mem' = [mem EXCEPT ![m_data[h]] = IF m_data[h] \in Custom THEN "given" ELSE @]
  /\ Goto(h, "detach_decref")
  /\ UNCHANGED <<alive, m_finished, m_threadId, m_referenceCount,
                 g_sharedThreadStates, m_data, taskId, taskVars>>

\* A detach() that destroys the state without waiting for the invoker.
Detach_DecRef_NoWait(h) ==
  /\ hpc[h] = "detach_decref"
  /\ m_referenceCount' = [m_referenceCount EXCEPT ![m_data[h]] = @ - 1]
  /\ IF m_referenceCount[m_data[h]] = 1
       THEN Goto(h, "unlink") /\ UNCHANGED m_data
       ELSE Return(h)
  /\ UNCHANGED <<mem, alive, m_finished, m_joinedOrDetached, m_threadId,
                 g_sharedThreadStates, taskId, taskVars>>

Detach_DecRef(h) ==
  /\ hpc[h] = "detach_decref"
  /\ m_referenceCount' = [m_referenceCount EXCEPT ![m_data[h]] = @ - 1]
  /\ IF m_referenceCount[m_data[h]] = 1
       THEN Goto(h, "detach_wait") /\ UNCHANGED m_data
       ELSE Return(h)
  /\ UNCHANGED <<mem, alive, m_finished, m_joinedOrDetached, m_threadId,
                 g_sharedThreadStates, taskId, taskVars>>

Detach_Wait(h) ==
  /\ hpc[h] = "detach_wait"
  /\ m_finished[m_data[h]] > 0
  /\ m_finished' = [m_finished EXCEPT ![m_data[h]] = @ - 1]
  /\ Goto(h, "unlink")
  /\ UNCHANGED <<mem, alive, m_joinedOrDetached, m_threadId, m_referenceCount,
                 g_sharedThreadStates, m_data, taskId, taskVars>>

-----------------------------------------------------------------------------
(* SharedThreadStateBase::destroy, called by a handle                      *)

\* weos_unlinkSharedState; nothing happens to a state that is not listed.
UnlinkSharedState(b) == g_sharedThreadStates' = g_sharedThreadStates \ {b}

Destroy_Unlink(h) ==
  /\ hpc[h] = "unlink"
  /\ UnlinkSharedState(m_data[h])
  /\ Goto(h, "dtor")
  /\ UNCHANGED <<mem, alive, stateVars, m_data, taskId, taskVars>>

Destroy_Dtor(h) ==
  /\ hpc[h] = "dtor"
  /\ alive' = alive \ {m_data[h]}
  /\ Goto(h, "free")
  /\ UNCHANGED <<mem, stateVars, g_sharedThreadStates, m_data, taskId, taskVars>>

Destroy_Free(h) ==
  /\ hpc[h] = "free"
  /\ Release(m_data[h])
  /\ Return(h)
  /\ UNCHANGED <<alive, stateVars, g_sharedThreadStates, taskId, taskVars>>

-----------------------------------------------------------------------------
(* weos_threadInvoker                                                      *)

\* The threaded function returns.
Invoker_Execute(t) ==
  /\ tpc[t] = "run"
  /\ TaskGoto(t, "await")
  /\ UNCHANGED <<mem, alive, stateVars, g_sharedThreadStates, handleVars, arg, threadId>>

\* An invoker that does not wait for join() or detach().
Invoker_Await_NoBlock(t) ==
  /\ tpc[t] = "await"
  /\ TaskGoto(t, "decref")
  /\ UNCHANGED <<mem, alive, stateVars, g_sharedThreadStates, handleVars, arg, threadId>>

Invoker_Await(t) ==
  /\ tpc[t] = "await"
  /\ m_joinedOrDetached[arg[t]] > 0
  /\ m_joinedOrDetached' = [m_joinedOrDetached EXCEPT ![arg[t]] = @ - 1]
  /\ TaskGoto(t, "decref")
  /\ UNCHANGED <<mem, alive, m_finished, m_threadId, m_referenceCount,
                 g_sharedThreadStates, handleVars, arg, threadId>>

Invoker_DecRef(t) ==
  /\ tpc[t] = "decref"
  /\ m_referenceCount' = [m_referenceCount EXCEPT ![arg[t]] = @ - 1]
  /\ IF m_referenceCount[arg[t]] = 1
       THEN /\ threadId' = [threadId EXCEPT ![t] = m_threadId[arg[t]]]
            /\ TaskGoto(t, "unlink")
       ELSE /\ TaskGoto(t, "signal_and_terminate")
            /\ UNCHANGED threadId
  /\ UNCHANGED <<mem, alive, m_finished, m_joinedOrDetached, m_threadId,
                 g_sharedThreadStates, handleVars, arg>>

\* svcThreadTerminate: the task named id is gone and its control block is free.
TerminateTask(id) ==
  /\ tpc' = [t \in Tasks |-> IF t = id THEN "none" ELSE tpc[t]]
  /\ arg' = [t \in Tasks |-> IF t = id THEN None ELSE arg[t]]
  /\ threadId' = [t \in Tasks |-> IF t = id THEN None ELSE threadId[t]]

\* An invoker that terminates without the signal.
Invoker_SignalAndTerminate_NoSignal(t) ==
  /\ tpc[t] = "signal_and_terminate"
  /\ TerminateTask(m_threadId[arg[t]])
  /\ UNCHANGED <<mem, alive, stateVars, g_sharedThreadStates, handleVars>>

\* weos_terminateTask(&m_finished, m_threadId): one SVC, no context switch
\* between the signal and the end of the task.
Invoker_SignalAndTerminate(t) ==
  /\ tpc[t] = "signal_and_terminate"
  /\ m_finished' = [m_finished EXCEPT ![arg[t]] = @ + 1]
  /\ TerminateTask(m_threadId[arg[t]])
  /\ UNCHANGED <<mem, alive, m_joinedOrDetached, m_threadId, m_referenceCount,
                 g_sharedThreadStates, handleVars>>

\* A destroy() that leaves the state in the list.
Invoker_Unlink_NoUnlink(t) ==
  /\ tpc[t] = "unlink"
  /\ TaskGoto(t, "dtor")
  /\ UNCHANGED <<mem, alive, stateVars, g_sharedThreadStates, handleVars, arg, threadId>>

\* The detached thread holds the last reference: it runs destroy() on its own
\* stack ...
Invoker_Unlink(t) ==
  /\ tpc[t] = "unlink"
  /\ UnlinkSharedState(arg[t])
  /\ TaskGoto(t, "dtor")
  /\ UNCHANGED <<mem, alive, stateVars, handleVars, arg, threadId>>

Invoker_Dtor(t) ==
  /\ tpc[t] = "dtor"
  /\ alive' = alive \ {arg[t]}
  /\ TaskGoto(t, "free")
  /\ UNCHANGED <<mem, stateVars, g_sharedThreadStates, handleVars, arg, threadId>>

\* ... returns the block it is running on ...
Invoker_Free(t) ==
  /\ tpc[t] = "free"
  /\ Release(arg[t])
  /\ TaskGoto(t, "terminate")
  /\ UNCHANGED <<alive, stateVars, g_sharedThreadStates, handleVars, arg, threadId>>

\* ... and only then calls weos_terminateTask(nullptr, threadId).
Invoker_Terminate(t) ==
  /\ tpc[t] = "terminate"
  /\ TerminateTask(threadId[t])
  /\ UNCHANGED <<mem, alive, stateVars, g_sharedThreadStates, handleVars>>

-----------------------------------------------------------------------------

\* The client starts an operation on an idle handle, at will.
Client(h) ==
  \/ Create_Allocate(h)
  \/ \E g \in Handles : Move(g, h)
  \/ Join_Post(h)
  \/ Detach_Post(h)

\* The operation goes on.
Continue(h) ==
  \/ Create_ConstructThrows(h) \/ Create_Construct(h)
  \/ Create_Start(h) \/ Create_StartThrows(h)
  \/ Create_SetId(h) \/ Create_IncRef(h)
  \/ Join_Wait(h) \/ Join_DecRef(h)
  \/ Detach_DecRef(h) \/ Detach_Wait(h)
  \/ Destroy_Unlink(h) \/ Destroy_Dtor(h) \/ Destroy_Free(h)

Invoker(t) ==
  \/ Invoker_Execute(t) \/ Invoker_Await(t) \/ Invoker_DecRef(t)
  \/ Invoker_SignalAndTerminate(t)
  \/ Invoker_Unlink(t) \/ Invoker_Dtor(t) \/ Invoker_Free(t)
  \/ Invoker_Terminate(t)

Next ==
  \/ \E h \in Handles : Client(h) \/ Continue(h)
  \/ \E t \in Tasks : Invoker(t)

Spec == Init /\ [][Next]_vars

\* Every operation that has been started and every thread gets the processor
\* again; threaded functions return.
Fairness ==
  /\ \A h \in Handles : WF_vars(Continue(h))
  /\ \A t \in Tasks : WF_vars(Invoker(t))

FairSpec == Spec /\ Fairness
-----------------------------------------------------------------------------
(* Properties                                                              *)

\* Types: both semaphores of a state count to one at most, and the reference count
\* stays between zero and two.
TypeOK ==
  /\ mem \in [Stacks -> {"free", "alloc", "given"}]
  /\ alive \subseteq Stacks
  /\ m_finished \in [Stacks -> {0, 1}]
  /\ m_joinedOrDetached \in [Stacks -> {0, 1}]
  /\ m_threadId \in [Stacks -> Tasks \cup {None}]
  /\ m_referenceCount \in [Stacks -> 0..2]
  /\ g_sharedThreadStates \subseteq Stacks
  /\ hpc \in [Handles -> HandlePc]
  /\ m_data \in [Handles -> Stacks \cup {None}]
  /\ taskId \in [Handles -> Tasks \cup {None}]
  /\ tpc \in [Tasks -> TaskPc]
  /\ arg \in [Tasks -> Stacks \cup {None}]
  /\ threadId \in [Tasks -> Tasks \cup {None}]

\* The tasks that still work with the shared state in block b.  A task at
\* "terminate" only has its local copy of the thread id.
Attached(b) == {t \in Tasks : arg[t] = b /\ tpc[t] \notin {"none", "terminate"}}

\* The handles whose state is in block b: one at most, see SharedStateAlive.
HandlesOf(b) == {h \in Handles : m_data[h] = b}

\* No use after destruction: whatever a handle or an invoker does next with its
\* shared state, the state is constructed, and no second thread or handle works
\* with the same block.  Join, detach and the invoker each decide on their own,
\* from the value of an atomic counter, who may still touch the semaphores.
SharedStateAlive ==
  /\ \A h \in Handles : m_data[h] # None /\ hpc[h] \notin {"construct", "free"}
                          => m_data[h] \in alive
  /\ \A t \in Tasks : tpc[t] \notin {"none", "free", "terminate"} => arg[t] \in alive
  /\ \A h, g \in Handles : m_data[h] = m_data[g] /\ m_data[h] # None => h = g
  /\ \A t, u \in Tasks : /\ tpc[t] \notin {"none", "terminate"}
                         /\ tpc[u] \notin {"none", "terminate"}
                         /\ arg[t] = arg[u]
                         => t = u

\* The references the handle and the invoker hold on the state in block b.
HandleRefs(b) ==
  {h \in HandlesOf(b) :
     hpc[h] \in {"start", "idle", "join_wait", "join_decref", "detach_decref"}}
TaskRefs(b) == {t \in Attached(b) : tpc[t] \in {"run", "await", "decref"}}
DestroyersOf(b) ==
  {h \in HandlesOf(b) : hpc[h] \in {"unlink", "dtor"}} \cup
  {t \in Attached(b) : tpc[t] \in {"unlink", "dtor"}}

\* m_referenceCount is the number of parties that have not let go of the state,
\* and once one of them has begun to destroy it there is no other party left:
\* the state is neither leaked nor destroyed twice, although the counter starts
\* at one and is raised only after the thread has begun to run.
ReferencesCounted ==
  \A b \in alive :
    /\ DestroyersOf(b) = {} =>
         m_referenceCount[b] = Cardinality(HandleRefs(b)) + Cardinality(TaskRefs(b))
    /\ DestroyersOf(b) # {} => Cardinality(HandlesOf(b)) + Cardinality(Attached(b)) = 1

\* As long as a handle is joinable, its thread exists and m_threadId names it,
\* even when the threaded function has returned: set_signals() and get_id() on
\* the handle never reach a thread control block that belongs to another thread
\* (the comment in weos_threadInvoker gives this as the reason for waiting).
HandleTaskAlive ==
  \A h \in Handles : hpc[h] = "idle" /\ m_data[h] # None =>
    /\ m_threadId[m_data[h]] \in Tasks
    /\ arg[m_threadId[m_data[h]]] = m_data[h]
    /\ tpc[m_threadId[m_data[h]]] \in {"run", "await"}

\* The thread list, which for_each_thread may walk from an interrupt between any
\* two steps, contains no destroyed state, and misses no thread whose function
\* has not ended.
ListedStatesAlive ==
  /\ g_sharedThreadStates \subseteq alive
  /\ \A t \in Tasks : tpc[t] \in {"run", "await"} => arg[t] \in g_sharedThreadStates

\* A stack block is never free, nor at work in another thread, while a thread
\* runs on it.  Only the last steps of a thread that destroyed its own state,
\* between std::free and svcThreadTerminate, are exempt: see StackExclusive.
StackQuiet ==
  \A t \in Tasks : tpc[t] \notin {"none", "terminate"} => mem[arg[t]] # "free"

\* What the comment above weos_terminateTask asks for, of every thread: as the
\* stack may be re-used, nobody else may run before the thread has terminated.
\* So no two tasks ever run on the same stack.
StackExclusive ==
  \A t, u \in Tasks : arg[t] = arg[u] /\ arg[t] # None => t = u

-----------------------------------------------------------------------------
(* The inductive invariant                                                 *)

\* No task works with block b any more.
NoTask(b) == \A t \in Tasks : arg[t] = b => tpc[t] \in {"none", "terminate"}

\* The invoker in block b has not got past its semaphore, on which join() and
\* detach() have posted j times.
Kept(b, t, j) == /\ arg[t] = b /\ tpc[t] \in {"run", "await"}
                 /\ m_joinedOrDetached[b] = j /\ m_finished[b] = 0

\* The invoker has been released by the handle: where it is and what the two
\* semaphores and the counter show, if the handle still holds r references.
Released(b, t, r) ==
  \/ Kept(b, t, 1) /\ m_referenceCount[b] = r + 1
  \/ /\ arg[t] = b /\ tpc[t] = "decref"
     /\ m_joinedOrDetached[b] = 0 /\ m_finished[b] = 0 /\ m_referenceCount[b] = r + 1
  \/ /\ arg[t] = b /\ tpc[t] = "signal_and_terminate"
     /\ m_joinedOrDetached[b] = 0 /\ m_finished[b] = 0 /\ m_referenceCount[b] = r
  \/ /\ NoTask(b)
     /\ m_joinedOrDetached[b] = 0 /\ m_finished[b] = 1 /\ m_referenceCount[b] = r

HandleInv(h) ==
  LET b == m_data[h]
      t == m_threadId[b]
  IN
  /\ b = None => hpc[h] = "idle"
  /\ b # None =>
     /\ mem[b] # "free"
     /\ \A g \in Handles : m_data[g] = b => g = h
     /\ hpc[h] \notin {"construct", "free"} => b \in alive
     /\ hpc[h] \in {"construct", "start", "dtor", "free"} => b \notin g_sharedThreadStates
     /\ hpc[h] \in {"construct", "start", "join_decref", "unlink", "dtor", "free"}
          => NoTask(b)
     /\ hpc[h] \in {"construct", "free"} => b \notin alive
     /\ hpc[h] = "start" => /\ m_referenceCount[b] = 1 /\ m_finished[b] = 0
                            /\ m_joinedOrDetached[b] = 0
     /\ hpc[h] \in {"setid", "incref"} =>
          /\ taskId[h] \in Tasks /\ Kept(b, taskId[h], 0) /\ m_referenceCount[b] = 1
     /\ hpc[h] = "incref" => t = taskId[h]
     /\ hpc[h] \in {"idle", "join_wait", "detach_decref", "detach_wait"} => t \in Tasks
     /\ hpc[h] = "idle" => Kept(b, t, 0) /\ m_referenceCount[b] = 2
     /\ hpc[h] \in {"join_wait", "detach_decref"} => Released(b, t, 1)
     /\ hpc[h] = "join_decref" => m_referenceCount[b] = 1
     /\ hpc[h] = "detach_wait" => Released(b, t, 0) /\ m_referenceCount[b] = 0

TaskInv(t) ==
  LET b == arg[t] IN
  /\ tpc[t] = "none" <=> b = None
  /\ tpc[t] = "terminate" => threadId[t] = t
  /\ tpc[t] \notin {"none", "terminate"} =>
     /\ mem[b] # "free"
     /\ \A u \in Tasks : /\ arg[u] = b
                         /\ tpc[u] \notin {"none", "terminate"}
                         => u = t
     /\ tpc[t] # "free" => b \in alive
     /\ tpc[t] = "free" => b \notin alive
     /\ tpc[t] \in {"run", "await", "decref", "signal_and_terminate", "unlink"}
          => b \in g_sharedThreadStates
     /\ tpc[t] \in {"dtor", "free"} => b \notin g_sharedThreadStates
     /\ tpc[t] = "signal_and_terminate" => \E h \in Handles : m_data[h] = b
     /\ tpc[t] \in {"unlink", "dtor", "free"} =>
          /\ threadId[t] = t
          /\ \A h \in Handles : m_data[h] # b
     /\ \/ \E h \in Handles : m_data[h] = b
        \/ /\ m_threadId[b] = t
           /\ tpc[t] \in {"run", "await"} => Kept(b, t, 1) /\ m_referenceCount[b] = 1
           /\ tpc[t] = "decref" => m_referenceCount[b] = 1

\* Why a free block can be given out, why a destroyed state is not listed, and
\* why none is forgotten.
BlockInv ==
  /\ g_sharedThreadStates \subseteq alive
  /\ \A b \in alive : /\ mem[b] # "free"
                      /\ \/ \E h \in Handles : m_data[h] = b
                         \/ \E t \in Tasks : arg[t] = b /\ tpc[t] \notin {"none", "terminate"}

IInv ==
  /\ TypeOK
  /\ \A h \in Handles : HandleInv(h)
  /\ \A t \in Tasks : TaskInv(t)
  /\ BlockInv

-----------------------------------------------------------------------------
(* Liveness, under FairSpec                                                *)

\* join() returns once the threaded function has returned.
JoinReturns == \A h \in Handles : hpc[h] = "join_wait" ~> hpc[h] = "idle"

\* The block of a detached thread goes back to the heap, whichever of detach()
\* and the invoker comes first.
DetachedReclaimed ==
  \A h \in Handles : \A b \in Heap :
    (hpc[h] = "detach_decref" /\ m_data[h] = b) ~> mem[b] = "free"
=============================================================================
