------------------------ MODULE ThreadLifecycle_proofs ------------------------
(***************************************************************************)
(* IInv is an inductive invariant of the thread life cycle, for any number *)
(* of handles, control blocks and stacks, and implies the safety           *)
(* properties that ThreadLifecycle.cfg checks.                             *)
(***************************************************************************)
EXTENDS ThreadLifecycle, FiniteSetTheorems, TLAPS

\* The invariant splits into four parts; the lemma of an action shows each of
\* them for the next state.
USE NoneIsNothing DEF stateVars, handleVars, taskVars

-----------------------------------------------------------------------------
(* thread::create                                                          *)

\* A free block has no state, no handle and no task.
LEMMA Create_Allocate_IInv == ASSUME IInv, NEW h \in Handles, Create_Allocate(h) PROVE IInv'
  <1> USE DEF IInv
  <1>1. TypeOK'
    BY DEF TypeOK, Stacks, HandlePc, TaskPc, HandleInv, TaskInv, BlockInv,
             NoTask, Kept, Released, Create_Allocate, Goto
  <1>2. ASSUME NEW g \in Handles PROVE HandleInv(g)'
    BY DEF TypeOK, Stacks, HandlePc, TaskPc, HandleInv, TaskInv, BlockInv,
             NoTask, Kept, Released, Create_Allocate, Goto
  <1>3. ASSUME NEW u \in Tasks PROVE TaskInv(u)'
    BY DEF TypeOK, Stacks, HandlePc, TaskPc, HandleInv, TaskInv, BlockInv,
             NoTask, Kept, Released, Create_Allocate, Goto
  <1>4. BlockInv'
    BY DEF TypeOK, Stacks, HandlePc, TaskPc, HandleInv, TaskInv, BlockInv,
             NoTask, Kept, Released, Create_Allocate, Goto
  <1> QED BY <1>1, <1>2, <1>3, <1>4

\* The block goes back as it was taken.
LEMMA Create_ConstructThrows_IInv == ASSUME IInv, NEW h \in Handles, Create_ConstructThrows(h) PROVE IInv'
  <1>0. m_data[h] \in Stacks
    BY DEF IInv, TypeOK, HandleInv, Create_ConstructThrows
  <1> USE DEF IInv
  <1>1. TypeOK'
    BY <1>0 DEF TypeOK, Stacks, HandlePc, TaskPc, HandleInv, TaskInv, BlockInv,
             NoTask, Kept, Released, Create_ConstructThrows, Release, Return, Goto
  <1>2. ASSUME NEW g \in Handles PROVE HandleInv(g)'
    BY <1>0 DEF TypeOK, Stacks, HandlePc, TaskPc, HandleInv, TaskInv, BlockInv,
             NoTask, Kept, Released, Create_ConstructThrows, Release, Return, Goto
  <1>3. ASSUME NEW u \in Tasks PROVE TaskInv(u)'
    BY <1>0 DEF TypeOK, Stacks, HandlePc, TaskPc, HandleInv, TaskInv, BlockInv,
             NoTask, Kept, Released, Create_ConstructThrows, Release, Return, Goto
  <1>4. BlockInv'
    BY <1>0 DEF TypeOK, Stacks, HandlePc, TaskPc, HandleInv, TaskInv, BlockInv,
             NoTask, Kept, Released, Create_ConstructThrows, Release, Return, Goto
  <1> QED BY <1>1, <1>2, <1>3, <1>4

\* The new state holds one reference and is not listed.
LEMMA Create_Construct_IInv == ASSUME IInv, NEW h \in Handles, Create_Construct(h) PROVE IInv'
  <1>0. m_data[h] \in Stacks
    BY DEF IInv, TypeOK, HandleInv, Create_Construct
  <1> USE DEF IInv
  <1>1. TypeOK'
    BY <1>0 DEF TypeOK, Stacks, HandlePc, TaskPc, HandleInv, TaskInv, BlockInv,
             NoTask, Kept, Released, Create_Construct, Goto
  <1>2. ASSUME NEW g \in Handles PROVE HandleInv(g)'
    BY <1>0 DEF TypeOK, Stacks, HandlePc, TaskPc, HandleInv, TaskInv, BlockInv,
             NoTask, Kept, Released, Create_Construct, Goto
  <1>3. ASSUME NEW u \in Tasks PROVE TaskInv(u)'
    BY <1>0 DEF TypeOK, Stacks, HandlePc, TaskPc, HandleInv, TaskInv, BlockInv,
             NoTask, Kept, Released, Create_Construct, Goto
  <1>4. BlockInv'
    BY <1>0 DEF TypeOK, Stacks, HandlePc, TaskPc, HandleInv, TaskInv, BlockInv,
             NoTask, Kept, Released, Create_Construct, Goto
  <1> QED BY <1>1, <1>2, <1>3, <1>4

\* The new task waits for a handle that has not posted.
LEMMA Create_Start_IInv == ASSUME IInv, NEW h \in Handles, Create_Start(h) PROVE IInv'
  <1>0. m_data[h] \in Stacks
    BY DEF IInv, TypeOK, HandleInv, Create_Start
  <1> USE DEF IInv
  <1>1. TypeOK'
    BY <1>0 DEF TypeOK, Stacks, HandlePc, TaskPc, HandleInv, TaskInv, BlockInv,
             NoTask, Kept, Released, Create_Start, Goto, TaskGoto
  <1>2. ASSUME NEW g \in Handles PROVE HandleInv(g)'
    BY <1>0 DEF TypeOK, Stacks, HandlePc, TaskPc, HandleInv, TaskInv, BlockInv,
             NoTask, Kept, Released, Create_Start, Goto, TaskGoto
  <1>3. ASSUME NEW u \in Tasks PROVE TaskInv(u)'
    BY <1>0 DEF TypeOK, Stacks, HandlePc, TaskPc, HandleInv, TaskInv, BlockInv,
             NoTask, Kept, Released, Create_Start, Goto, TaskGoto
  <1>4. BlockInv'
    BY <1>0 DEF TypeOK, Stacks, HandlePc, TaskPc, HandleInv, TaskInv, BlockInv,
             NoTask, Kept, Released, Create_Start, Goto, TaskGoto
  <1> QED BY <1>1, <1>2, <1>3, <1>4

\* The state has no task, so its creator may destroy it.
LEMMA Create_StartThrows_IInv == ASSUME IInv, NEW h \in Handles, Create_StartThrows(h) PROVE IInv'
  <1>0. m_data[h] \in Stacks
    BY DEF IInv, TypeOK, HandleInv, Create_StartThrows
  <1> USE DEF IInv
  <1>1. TypeOK'
    BY <1>0 DEF TypeOK, Stacks, HandlePc, TaskPc, HandleInv, TaskInv, BlockInv,
             NoTask, Kept, Released, Create_StartThrows, Goto
  <1>2. ASSUME NEW g \in Handles PROVE HandleInv(g)'
    BY <1>0 DEF TypeOK, Stacks, HandlePc, TaskPc, HandleInv, TaskInv, BlockInv,
             NoTask, Kept, Released, Create_StartThrows, Goto
  <1>3. ASSUME NEW u \in Tasks PROVE TaskInv(u)'
    BY <1>0 DEF TypeOK, Stacks, HandlePc, TaskPc, HandleInv, TaskInv, BlockInv,
             NoTask, Kept, Released, Create_StartThrows, Goto
  <1>4. BlockInv'
    BY <1>0 DEF TypeOK, Stacks, HandlePc, TaskPc, HandleInv, TaskInv, BlockInv,
             NoTask, Kept, Released, Create_StartThrows, Goto
  <1> QED BY <1>1, <1>2, <1>3, <1>4

\* From here on m_threadId names the task.
LEMMA Create_SetId_IInv == ASSUME IInv, NEW h \in Handles, Create_SetId(h) PROVE IInv'
  <1>0. m_data[h] \in Stacks
    BY DEF IInv, TypeOK, HandleInv, Create_SetId
  <1> USE DEF IInv
  <1>1. TypeOK'
    BY <1>0 DEF TypeOK, Stacks, HandlePc, TaskPc, HandleInv, TaskInv, BlockInv,
             NoTask, Kept, Released, Create_SetId, Goto
  <1>2. ASSUME NEW g \in Handles PROVE HandleInv(g)'
    BY <1>0 DEF TypeOK, Stacks, HandlePc, TaskPc, HandleInv, TaskInv, BlockInv,
             NoTask, Kept, Released, Create_SetId, Goto
  <1>3. ASSUME NEW u \in Tasks PROVE TaskInv(u)'
    BY <1>0 DEF TypeOK, Stacks, HandlePc, TaskPc, HandleInv, TaskInv, BlockInv,
             NoTask, Kept, Released, Create_SetId, Goto
  <1>4. BlockInv'
    BY <1>0 DEF TypeOK, Stacks, HandlePc, TaskPc, HandleInv, TaskInv, BlockInv,
             NoTask, Kept, Released, Create_SetId, Goto
  <1> QED BY <1>1, <1>2, <1>3, <1>4

\* The task cannot have dropped its reference before: nobody has posted.
LEMMA Create_IncRef_IInv == ASSUME IInv, NEW h \in Handles, Create_IncRef(h) PROVE IInv'
  <1>0. m_data[h] \in Stacks
    BY DEF IInv, TypeOK, HandleInv, Create_IncRef
  <1> USE DEF IInv
  <1>1. TypeOK'
    BY <1>0 DEF TypeOK, Stacks, HandlePc, TaskPc, HandleInv, TaskInv, BlockInv,
             NoTask, Kept, Released, Create_IncRef, Goto
  <1>2. ASSUME NEW g \in Handles PROVE HandleInv(g)'
    BY <1>0 DEF TypeOK, Stacks, HandlePc, TaskPc, HandleInv, TaskInv, BlockInv,
             NoTask, Kept, Released, Create_IncRef, Goto
  <1>3. ASSUME NEW u \in Tasks PROVE TaskInv(u)'
    BY <1>0 DEF TypeOK, Stacks, HandlePc, TaskPc, HandleInv, TaskInv, BlockInv,
             NoTask, Kept, Released, Create_IncRef, Goto
  <1>4. BlockInv'
    BY <1>0 DEF TypeOK, Stacks, HandlePc, TaskPc, HandleInv, TaskInv, BlockInv,
             NoTask, Kept, Released, Create_IncRef, Goto
  <1> QED BY <1>1, <1>2, <1>3, <1>4
-----------------------------------------------------------------------------
(* The other operations of a handle                                        *)

\* The state changes hands, and no step of an operation is under way.
LEMMA Move_IInv == ASSUME IInv, NEW h \in Handles, NEW k \in Handles, Move(h, k) PROVE IInv'
  <1>0. m_data[k] \in Stacks
    BY DEF IInv, TypeOK, HandleInv, Move
  <1> USE DEF IInv
  <1>1. TypeOK'
    BY <1>0 DEF TypeOK, Stacks, HandlePc, TaskPc, HandleInv, TaskInv, BlockInv,
             NoTask, Kept, Released, Move
  <1>2. ASSUME NEW g \in Handles PROVE HandleInv(g)'
    BY <1>0 DEF TypeOK, Stacks, HandlePc, TaskPc, HandleInv, TaskInv, BlockInv,
             NoTask, Kept, Released, Move
  <1>3. ASSUME NEW u \in Tasks PROVE TaskInv(u)'
    BY <1>0 DEF TypeOK, Stacks, HandlePc, TaskPc, HandleInv, TaskInv, BlockInv,
             NoTask, Kept, Released, Move
  <1>4. BlockInv'
    BY <1>0 DEF TypeOK, Stacks, HandlePc, TaskPc, HandleInv, TaskInv, BlockInv,
             NoTask, Kept, Released, Move
  <1> QED BY <1>1, <1>2, <1>3, <1>4

\* The invoker is released with both references in place.
LEMMA Join_Post_IInv == ASSUME IInv, NEW h \in Handles, Join_Post(h) PROVE IInv'
  <1>0. m_data[h] \in Stacks
    BY DEF IInv, TypeOK, HandleInv, Join_Post
  <1> USE DEF IInv
  <1>1. TypeOK'
    BY <1>0 DEF TypeOK, Stacks, HandlePc, TaskPc, HandleInv, TaskInv, BlockInv,
             NoTask, Kept, Released, Join_Post, Goto
  <1>2. ASSUME NEW g \in Handles PROVE HandleInv(g)'
    BY <1>0 DEF TypeOK, Stacks, HandlePc, TaskPc, HandleInv, TaskInv, BlockInv,
             NoTask, Kept, Released, Join_Post, Goto
  <1>3. ASSUME NEW u \in Tasks PROVE TaskInv(u)'
    BY <1>0 DEF TypeOK, Stacks, HandlePc, TaskPc, HandleInv, TaskInv, BlockInv,
             NoTask, Kept, Released, Join_Post, Goto
  <1>4. BlockInv'
    BY <1>0 DEF TypeOK, Stacks, HandlePc, TaskPc, HandleInv, TaskInv, BlockInv,
             NoTask, Kept, Released, Join_Post, Goto
  <1> QED BY <1>1, <1>2, <1>3, <1>4

\* The only source of m_finished is the end of the task.
LEMMA Join_Wait_IInv == ASSUME IInv, NEW h \in Handles, Join_Wait(h) PROVE IInv'
  <1>0. m_data[h] \in Stacks
    BY DEF IInv, TypeOK, HandleInv, Join_Wait
  <1> USE DEF IInv
  <1>1. TypeOK'
    BY <1>0 DEF TypeOK, Stacks, HandlePc, TaskPc, HandleInv, TaskInv, BlockInv,
             NoTask, Kept, Released, Join_Wait, Goto
  <1>2. ASSUME NEW g \in Handles PROVE HandleInv(g)'
    BY <1>0 DEF TypeOK, Stacks, HandlePc, TaskPc, HandleInv, TaskInv, BlockInv,
             NoTask, Kept, Released, Join_Wait, Goto
  <1>3. ASSUME NEW u \in Tasks PROVE TaskInv(u)'
    BY <1>0 DEF TypeOK, Stacks, HandlePc, TaskPc, HandleInv, TaskInv, BlockInv,
             NoTask, Kept, Released, Join_Wait, Goto
  <1>4. BlockInv'
    BY <1>0 DEF TypeOK, Stacks, HandlePc, TaskPc, HandleInv, TaskInv, BlockInv,
             NoTask, Kept, Released, Join_Wait, Goto
  <1> QED BY <1>1, <1>2, <1>3, <1>4

\* The task is gone and its reference with it.
LEMMA Join_DecRef_IInv == ASSUME IInv, NEW h \in Handles, Join_DecRef(h) PROVE IInv'
  <1>0. m_data[h] \in Stacks
    BY DEF IInv, TypeOK, HandleInv, Join_DecRef
  <1> USE DEF IInv
  <1>1. TypeOK'
    BY <1>0 DEF TypeOK, Stacks, HandlePc, TaskPc, HandleInv, TaskInv, BlockInv,
             NoTask, Kept, Released, Join_DecRef, Return, Goto
  <1>2. ASSUME NEW g \in Handles PROVE HandleInv(g)'
    BY <1>0 DEF TypeOK, Stacks, HandlePc, TaskPc, HandleInv, TaskInv, BlockInv,
             NoTask, Kept, Released, Join_DecRef, Return, Goto
  <1>3. ASSUME NEW u \in Tasks PROVE TaskInv(u)'
    BY <1>0 DEF TypeOK, Stacks, HandlePc, TaskPc, HandleInv, TaskInv, BlockInv,
             NoTask, Kept, Released, Join_DecRef, Return, Goto
  <1>4. BlockInv'
    BY <1>0 DEF TypeOK, Stacks, HandlePc, TaskPc, HandleInv, TaskInv, BlockInv,
             NoTask, Kept, Released, Join_DecRef, Return, Goto
  <1> QED BY <1>1, <1>2, <1>3, <1>4

\* As for join().
LEMMA Detach_Post_IInv == ASSUME IInv, NEW h \in Handles, Detach_Post(h) PROVE IInv'
  <1>0. m_data[h] \in Stacks
    BY DEF IInv, TypeOK, HandleInv, Detach_Post
  <1> USE DEF IInv
  <1>1. TypeOK'
    BY <1>0 DEF TypeOK, Stacks, HandlePc, TaskPc, HandleInv, TaskInv, BlockInv,
             NoTask, Kept, Released, Detach_Post, Goto
  <1>2. ASSUME NEW g \in Handles PROVE HandleInv(g)'
    BY <1>0 DEF TypeOK, Stacks, HandlePc, TaskPc, HandleInv, TaskInv, BlockInv,
             NoTask, Kept, Released, Detach_Post, Goto
  <1>3. ASSUME NEW u \in Tasks PROVE TaskInv(u)'
    BY <1>0 DEF TypeOK, Stacks, HandlePc, TaskPc, HandleInv, TaskInv, BlockInv,
             NoTask, Kept, Released, Detach_Post, Goto
  <1>4. BlockInv'
    BY <1>0 DEF TypeOK, Stacks, HandlePc, TaskPc, HandleInv, TaskInv, BlockInv,
             NoTask, Kept, Released, Detach_Post, Goto
  <1> QED BY <1>1, <1>2, <1>3, <1>4

\* Either the invoker is past its decrement, or it will find itself alone.
LEMMA Detach_DecRef_IInv == ASSUME IInv, NEW h \in Handles, Detach_DecRef(h) PROVE IInv'
  <1>0. m_data[h] \in Stacks
    BY DEF IInv, TypeOK, HandleInv, Detach_DecRef
  <1> USE DEF IInv
  <1>1. TypeOK'
    BY <1>0 DEF TypeOK, Stacks, HandlePc, TaskPc, HandleInv, TaskInv, BlockInv,
             NoTask, Kept, Released, Detach_DecRef, Return, Goto
  <1>2. ASSUME NEW g \in Handles PROVE HandleInv(g)'
    BY <1>0 DEF TypeOK, Stacks, HandlePc, TaskPc, HandleInv, TaskInv, BlockInv,
             NoTask, Kept, Released, Detach_DecRef, Return, Goto
  <1>3. ASSUME NEW u \in Tasks PROVE TaskInv(u)'
    BY <1>0 DEF TypeOK, Stacks, HandlePc, TaskPc, HandleInv, TaskInv, BlockInv,
             NoTask, Kept, Released, Detach_DecRef, Return, Goto
  <1>4. BlockInv'
    BY <1>0 DEF TypeOK, Stacks, HandlePc, TaskPc, HandleInv, TaskInv, BlockInv,
             NoTask, Kept, Released, Detach_DecRef, Return, Goto
  <1> QED BY <1>1, <1>2, <1>3, <1>4

\* The task is gone.
LEMMA Detach_Wait_IInv == ASSUME IInv, NEW h \in Handles, Detach_Wait(h) PROVE IInv'
  <1>0. m_data[h] \in Stacks
    BY DEF IInv, TypeOK, HandleInv, Detach_Wait
  <1> USE DEF IInv
  <1>1. TypeOK'
    BY <1>0 DEF TypeOK, Stacks, HandlePc, TaskPc, HandleInv, TaskInv, BlockInv,
             NoTask, Kept, Released, Detach_Wait, Goto
  <1>2. ASSUME NEW g \in Handles PROVE HandleInv(g)'
    BY <1>0 DEF TypeOK, Stacks, HandlePc, TaskPc, HandleInv, TaskInv, BlockInv,
             NoTask, Kept, Released, Detach_Wait, Goto
  <1>3. ASSUME NEW u \in Tasks PROVE TaskInv(u)'
    BY <1>0 DEF TypeOK, Stacks, HandlePc, TaskPc, HandleInv, TaskInv, BlockInv,
             NoTask, Kept, Released, Detach_Wait, Goto
  <1>4. BlockInv'
    BY <1>0 DEF TypeOK, Stacks, HandlePc, TaskPc, HandleInv, TaskInv, BlockInv,
             NoTask, Kept, Released, Detach_Wait, Goto
  <1> QED BY <1>1, <1>2, <1>3, <1>4

\* The handle takes the state from the list.
LEMMA Destroy_Unlink_IInv == ASSUME IInv, NEW h \in Handles, Destroy_Unlink(h) PROVE IInv'
  <1>0. m_data[h] \in Stacks
    BY DEF IInv, TypeOK, HandleInv, Destroy_Unlink
  <1> USE DEF IInv
  <1>1. TypeOK'
    BY <1>0 DEF TypeOK, Stacks, HandlePc, TaskPc, HandleInv, TaskInv, BlockInv,
             NoTask, Kept, Released, Destroy_Unlink, Goto, UnlinkSharedState
  <1>2. ASSUME NEW g \in Handles PROVE HandleInv(g)'
    BY <1>0 DEF TypeOK, Stacks, HandlePc, TaskPc, HandleInv, TaskInv, BlockInv,
             NoTask, Kept, Released, Destroy_Unlink, Goto, UnlinkSharedState
  <1>3. ASSUME NEW u \in Tasks PROVE TaskInv(u)'
    BY <1>0 DEF TypeOK, Stacks, HandlePc, TaskPc, HandleInv, TaskInv, BlockInv,
             NoTask, Kept, Released, Destroy_Unlink, Goto, UnlinkSharedState
  <1>4. BlockInv'
    BY <1>0 DEF TypeOK, Stacks, HandlePc, TaskPc, HandleInv, TaskInv, BlockInv,
             NoTask, Kept, Released, Destroy_Unlink, Goto, UnlinkSharedState
  <1> QED BY <1>1, <1>2, <1>3, <1>4

\* The handle destroys the state.
LEMMA Destroy_Dtor_IInv == ASSUME IInv, NEW h \in Handles, Destroy_Dtor(h) PROVE IInv'
  <1>0. m_data[h] \in Stacks
    BY DEF IInv, TypeOK, HandleInv, Destroy_Dtor
  <1> USE DEF IInv
  <1>1. TypeOK'
    BY <1>0 DEF TypeOK, Stacks, HandlePc, TaskPc, HandleInv, TaskInv, BlockInv,
             NoTask, Kept, Released, Destroy_Dtor, Goto
  <1>2. ASSUME NEW g \in Handles PROVE HandleInv(g)'
    BY <1>0 DEF TypeOK, Stacks, HandlePc, TaskPc, HandleInv, TaskInv, BlockInv,
             NoTask, Kept, Released, Destroy_Dtor, Goto
  <1>3. ASSUME NEW u \in Tasks PROVE TaskInv(u)'
    BY <1>0 DEF TypeOK, Stacks, HandlePc, TaskPc, HandleInv, TaskInv, BlockInv,
             NoTask, Kept, Released, Destroy_Dtor, Goto
  <1>4. BlockInv'
    BY <1>0 DEF TypeOK, Stacks, HandlePc, TaskPc, HandleInv, TaskInv, BlockInv,
             NoTask, Kept, Released, Destroy_Dtor, Goto
  <1> QED BY <1>1, <1>2, <1>3, <1>4

\* Nothing refers to the block any more.
LEMMA Destroy_Free_IInv == ASSUME IInv, NEW h \in Handles, Destroy_Free(h) PROVE IInv'
  <1>0. m_data[h] \in Stacks
    BY DEF IInv, TypeOK, HandleInv, Destroy_Free
  <1> USE DEF IInv
  <1>1. TypeOK'
    BY <1>0 DEF TypeOK, Stacks, HandlePc, TaskPc, HandleInv, TaskInv, BlockInv,
             NoTask, Kept, Released, Destroy_Free, Release, Return, Goto
  <1>2. ASSUME NEW g \in Handles PROVE HandleInv(g)'
    BY <1>0 DEF TypeOK, Stacks, HandlePc, TaskPc, HandleInv, TaskInv, BlockInv,
             NoTask, Kept, Released, Destroy_Free, Release, Return, Goto
  <1>3. ASSUME NEW u \in Tasks PROVE TaskInv(u)'
    BY <1>0 DEF TypeOK, Stacks, HandlePc, TaskPc, HandleInv, TaskInv, BlockInv,
             NoTask, Kept, Released, Destroy_Free, Release, Return, Goto
  <1>4. BlockInv'
    BY <1>0 DEF TypeOK, Stacks, HandlePc, TaskPc, HandleInv, TaskInv, BlockInv,
             NoTask, Kept, Released, Destroy_Free, Release, Return, Goto
  <1> QED BY <1>1, <1>2, <1>3, <1>4
-----------------------------------------------------------------------------
(* weos_threadInvoker                                                      *)

\* The function of the thread returns.
LEMMA Invoker_Execute_IInv == ASSUME IInv, NEW t \in Tasks, Invoker_Execute(t) PROVE IInv'
  <1>0. arg[t] \in Stacks
    BY DEF IInv, TypeOK, TaskInv, Invoker_Execute
  <1> USE DEF IInv
  <1>1. TypeOK'
    BY <1>0 DEF TypeOK, Stacks, HandlePc, TaskPc, HandleInv, TaskInv, BlockInv,
             NoTask, Kept, Released, Invoker_Execute, TaskGoto
  <1>2. ASSUME NEW g \in Handles PROVE HandleInv(g)'
    BY <1>0 DEF TypeOK, Stacks, HandlePc, TaskPc, HandleInv, TaskInv, BlockInv,
             NoTask, Kept, Released, Invoker_Execute, TaskGoto
  <1>3. ASSUME NEW u \in Tasks PROVE TaskInv(u)'
    BY <1>0 DEF TypeOK, Stacks, HandlePc, TaskPc, HandleInv, TaskInv, BlockInv,
             NoTask, Kept, Released, Invoker_Execute, TaskGoto
  <1>4. BlockInv'
    BY <1>0 DEF TypeOK, Stacks, HandlePc, TaskPc, HandleInv, TaskInv, BlockInv,
             NoTask, Kept, Released, Invoker_Execute, TaskGoto
  <1> QED BY <1>1, <1>2, <1>3, <1>4

\* Only a handle in join() or detach() has posted.
LEMMA Invoker_Await_IInv == ASSUME IInv, NEW t \in Tasks, Invoker_Await(t) PROVE IInv'
  <1>0. arg[t] \in Stacks
    BY DEF IInv, TypeOK, TaskInv, Invoker_Await
  <1> USE DEF IInv
  <1>1. TypeOK'
    BY <1>0 DEF TypeOK, Stacks, HandlePc, TaskPc, HandleInv, TaskInv, BlockInv,
             NoTask, Kept, Released, Invoker_Await, TaskGoto
  <1>2. ASSUME NEW g \in Handles PROVE HandleInv(g)'
    BY <1>0 DEF TypeOK, Stacks, HandlePc, TaskPc, HandleInv, TaskInv, BlockInv,
             NoTask, Kept, Released, Invoker_Await, TaskGoto
  <1>3. ASSUME NEW u \in Tasks PROVE TaskInv(u)'
    BY <1>0 DEF TypeOK, Stacks, HandlePc, TaskPc, HandleInv, TaskInv, BlockInv,
             NoTask, Kept, Released, Invoker_Await, TaskGoto
  <1>4. BlockInv'
    BY <1>0 DEF TypeOK, Stacks, HandlePc, TaskPc, HandleInv, TaskInv, BlockInv,
             NoTask, Kept, Released, Invoker_Await, TaskGoto
  <1> QED BY <1>1, <1>2, <1>3, <1>4

\* With the last reference no handle is left; else a handle waits for m_finished.
LEMMA Invoker_DecRef_IInv == ASSUME IInv, NEW t \in Tasks, Invoker_DecRef(t) PROVE IInv'
  <1>0. arg[t] \in Stacks
    BY DEF IInv, TypeOK, TaskInv, Invoker_DecRef
  <1> USE DEF IInv
  <1>1. TypeOK'
    BY <1>0 DEF TypeOK, Stacks, HandlePc, TaskPc, HandleInv, TaskInv, BlockInv,
             NoTask, Kept, Released, Invoker_DecRef, TaskGoto
  <1>2. ASSUME NEW g \in Handles PROVE HandleInv(g)'
    BY <1>0 DEF TypeOK, Stacks, HandlePc, TaskPc, HandleInv, TaskInv, BlockInv,
             NoTask, Kept, Released, Invoker_DecRef, TaskGoto
  <1>3. ASSUME NEW u \in Tasks PROVE TaskInv(u)'
    BY <1>0 DEF TypeOK, Stacks, HandlePc, TaskPc, HandleInv, TaskInv, BlockInv,
             NoTask, Kept, Released, Invoker_DecRef, TaskGoto
  <1>4. BlockInv'
    BY <1>0 DEF TypeOK, Stacks, HandlePc, TaskPc, HandleInv, TaskInv, BlockInv,
             NoTask, Kept, Released, Invoker_DecRef, TaskGoto
  <1> QED BY <1>1, <1>2, <1>3, <1>4

\* M_threadId is the task itself.
LEMMA Invoker_SignalAndTerminate_IInv == ASSUME IInv, NEW t \in Tasks, Invoker_SignalAndTerminate(t) PROVE IInv'
  <1>0. arg[t] \in Stacks
    BY DEF IInv, TypeOK, TaskInv, Invoker_SignalAndTerminate
  <1> USE DEF IInv
  <1>1. TypeOK'
    BY <1>0 DEF TypeOK, Stacks, HandlePc, TaskPc, HandleInv, TaskInv, BlockInv,
             NoTask, Kept, Released, Invoker_SignalAndTerminate, TerminateTask
  <1>2. ASSUME NEW g \in Handles PROVE HandleInv(g)'
    BY <1>0 DEF TypeOK, Stacks, HandlePc, TaskPc, HandleInv, TaskInv, BlockInv,
             NoTask, Kept, Released, Invoker_SignalAndTerminate, TerminateTask
  <1>3. ASSUME NEW u \in Tasks PROVE TaskInv(u)'
    BY <1>0 DEF TypeOK, Stacks, HandlePc, TaskPc, HandleInv, TaskInv, BlockInv,
             NoTask, Kept, Released, Invoker_SignalAndTerminate, TerminateTask
  <1>4. BlockInv'
    BY <1>0 DEF TypeOK, Stacks, HandlePc, TaskPc, HandleInv, TaskInv, BlockInv,
             NoTask, Kept, Released, Invoker_SignalAndTerminate, TerminateTask
  <1> QED BY <1>1, <1>2, <1>3, <1>4

\* The thread takes the state from the list.
LEMMA Invoker_Unlink_IInv == ASSUME IInv, NEW t \in Tasks, Invoker_Unlink(t) PROVE IInv'
  <1>0. arg[t] \in Stacks
    BY DEF IInv, TypeOK, TaskInv, Invoker_Unlink
  <1> USE DEF IInv
  <1>1. TypeOK'
    BY <1>0 DEF TypeOK, Stacks, HandlePc, TaskPc, HandleInv, TaskInv, BlockInv,
             NoTask, Kept, Released, Invoker_Unlink, TaskGoto, UnlinkSharedState
  <1>2. ASSUME NEW g \in Handles PROVE HandleInv(g)'
    BY <1>0 DEF TypeOK, Stacks, HandlePc, TaskPc, HandleInv, TaskInv, BlockInv,
             NoTask, Kept, Released, Invoker_Unlink, TaskGoto, UnlinkSharedState
  <1>3. ASSUME NEW u \in Tasks PROVE TaskInv(u)'
    BY <1>0 DEF TypeOK, Stacks, HandlePc, TaskPc, HandleInv, TaskInv, BlockInv,
             NoTask, Kept, Released, Invoker_Unlink, TaskGoto, UnlinkSharedState
  <1>4. BlockInv'
    BY <1>0 DEF TypeOK, Stacks, HandlePc, TaskPc, HandleInv, TaskInv, BlockInv,
             NoTask, Kept, Released, Invoker_Unlink, TaskGoto, UnlinkSharedState
  <1> QED BY <1>1, <1>2, <1>3, <1>4

\* The thread destroys the state.
LEMMA Invoker_Dtor_IInv == ASSUME IInv, NEW t \in Tasks, Invoker_Dtor(t) PROVE IInv'
  <1>0. arg[t] \in Stacks
    BY DEF IInv, TypeOK, TaskInv, Invoker_Dtor
  <1> USE DEF IInv
  <1>1. TypeOK'
    BY <1>0 DEF TypeOK, Stacks, HandlePc, TaskPc, HandleInv, TaskInv, BlockInv,
             NoTask, Kept, Released, Invoker_Dtor, TaskGoto
  <1>2. ASSUME NEW g \in Handles PROVE HandleInv(g)'
    BY <1>0 DEF TypeOK, Stacks, HandlePc, TaskPc, HandleInv, TaskInv, BlockInv,
             NoTask, Kept, Released, Invoker_Dtor, TaskGoto
  <1>3. ASSUME NEW u \in Tasks PROVE TaskInv(u)'
    BY <1>0 DEF TypeOK, Stacks, HandlePc, TaskPc, HandleInv, TaskInv, BlockInv,
             NoTask, Kept, Released, Invoker_Dtor, TaskGoto
  <1>4. BlockInv'
    BY <1>0 DEF TypeOK, Stacks, HandlePc, TaskPc, HandleInv, TaskInv, BlockInv,
             NoTask, Kept, Released, Invoker_Dtor, TaskGoto
  <1> QED BY <1>1, <1>2, <1>3, <1>4

\* The task keeps nothing but its own id.
LEMMA Invoker_Free_IInv == ASSUME IInv, NEW t \in Tasks, Invoker_Free(t) PROVE IInv'
  <1>0. arg[t] \in Stacks
    BY DEF IInv, TypeOK, TaskInv, Invoker_Free
  <1> USE DEF IInv
  <1>1. TypeOK'
    BY <1>0 DEF TypeOK, Stacks, HandlePc, TaskPc, HandleInv, TaskInv, BlockInv,
             NoTask, Kept, Released, Invoker_Free, TaskGoto, Release
  <1>2. ASSUME NEW g \in Handles PROVE HandleInv(g)'
    BY <1>0 DEF TypeOK, Stacks, HandlePc, TaskPc, HandleInv, TaskInv, BlockInv,
             NoTask, Kept, Released, Invoker_Free, TaskGoto, Release
  <1>3. ASSUME NEW u \in Tasks PROVE TaskInv(u)'
    BY <1>0 DEF TypeOK, Stacks, HandlePc, TaskPc, HandleInv, TaskInv, BlockInv,
             NoTask, Kept, Released, Invoker_Free, TaskGoto, Release
  <1>4. BlockInv'
    BY <1>0 DEF TypeOK, Stacks, HandlePc, TaskPc, HandleInv, TaskInv, BlockInv,
             NoTask, Kept, Released, Invoker_Free, TaskGoto, Release
  <1> QED BY <1>1, <1>2, <1>3, <1>4

\* The id is the task itself, whatever the block is used for by now.
LEMMA Invoker_Terminate_IInv == ASSUME IInv, NEW t \in Tasks, Invoker_Terminate(t) PROVE IInv'
  <1> USE DEF IInv
  <1>1. TypeOK'
    BY DEF TypeOK, Stacks, HandlePc, TaskPc, HandleInv, TaskInv, BlockInv,
             NoTask, Kept, Released, Invoker_Terminate, TerminateTask
  <1>2. ASSUME NEW g \in Handles PROVE HandleInv(g)'
    BY DEF TypeOK, Stacks, HandlePc, TaskPc, HandleInv, TaskInv, BlockInv,
             NoTask, Kept, Released, Invoker_Terminate, TerminateTask
  <1>3. ASSUME NEW u \in Tasks PROVE TaskInv(u)'
    BY DEF TypeOK, Stacks, HandlePc, TaskPc, HandleInv, TaskInv, BlockInv,
             NoTask, Kept, Released, Invoker_Terminate, TerminateTask
  <1>4. BlockInv'
    BY DEF TypeOK, Stacks, HandlePc, TaskPc, HandleInv, TaskInv, BlockInv,
             NoTask, Kept, Released, Invoker_Terminate, TerminateTask
  <1> QED BY <1>1, <1>2, <1>3, <1>4
-----------------------------------------------------------------------------
(* The theorems                                                            *)

\* The invariant holds at first.
LEMMA Init_IInv == Init => IInv
  BY DEF Init, IInv, TypeOK, HandlePc, TaskPc, HandleInv, TaskInv, BlockInv

\* Every step keeps the invariant.
LEMMA Next_IInv == IInv /\ [Next]_vars => IInv'
  <1> SUFFICES ASSUME IInv, [Next]_vars PROVE IInv'
    OBVIOUS
  <1>1. ASSUME NEW h \in Handles, Client(h) PROVE IInv'
    BY <1>1, Create_Allocate_IInv, Move_IInv, Join_Post_IInv, Detach_Post_IInv DEF Client
  <1>2. ASSUME NEW h \in Handles, Continue(h) PROVE IInv'
    BY <1>2, Create_ConstructThrows_IInv, Create_Construct_IInv, Create_Start_IInv,
       Create_StartThrows_IInv, Create_SetId_IInv, Create_IncRef_IInv, Join_Wait_IInv,
       Join_DecRef_IInv, Detach_DecRef_IInv, Detach_Wait_IInv, Destroy_Unlink_IInv,
       Destroy_Dtor_IInv, Destroy_Free_IInv DEF Continue
  <1>3. ASSUME NEW t \in Tasks, Invoker(t) PROVE IInv'
    BY <1>3, Invoker_Execute_IInv, Invoker_Await_IInv, Invoker_DecRef_IInv,
       Invoker_SignalAndTerminate_IInv, Invoker_Unlink_IInv, Invoker_Dtor_IInv,
       Invoker_Free_IInv, Invoker_Terminate_IInv DEF Invoker
  <1>4. CASE UNCHANGED vars
    BY <1>4 DEF vars, IInv, TypeOK, HandleInv, TaskInv, BlockInv, NoTask, Kept, Released
  <1> QED BY <1>1, <1>2, <1>3, <1>4 DEF Next

\* The invariant holds in every reachable state.
THEOREM Invariance == Spec => []IInv
  BY Init_IInv, Next_IInv, PTL DEF Spec

\* Every variable keeps its type; in particular no semaphore falls below zero.
THEOREM TypeCorrect == Spec => []TypeOK
  <1>1. IInv => TypeOK
    BY DEF IInv
  <1> QED BY <1>1, Invariance, PTL

\* No handle and no invoker touches a destroyed shared state or the state of
\* another thread.
THEOREM NoUseAfterDestroy == Spec => []SharedStateAlive
  <1>1. IInv => SharedStateAlive
    BY DEF IInv, TypeOK, HandlePc, TaskPc, HandleInv, TaskInv, SharedStateAlive
  <1> QED BY <1>1, Invariance, PTL

\* The handle of a joinable thread names a thread that still exists.
THEOREM JoinableHasTask == Spec => []HandleTaskAlive
  <1>1. IInv => HandleTaskAlive
    BY DEF IInv, TypeOK, HandleInv, Kept, HandleTaskAlive
  <1> QED BY <1>1, Invariance, PTL

\* for_each_thread meets neither a destroyed state nor misses a thread.
THEOREM ListSound == Spec => []ListedStatesAlive
  <1>1. IInv => ListedStatesAlive
    BY DEF IInv, TypeOK, TaskInv, BlockInv, ListedStatesAlive
  <1> QED BY <1>1, Invariance, PTL

\* Until it frees the block itself, a thread runs on a stack nobody else gets.
THEOREM StackKept == Spec => []StackQuiet
  <1>1. IInv => StackQuiet
    BY DEF IInv, TypeOK, TaskInv, StackQuiet
  <1> QED BY <1>1, Invariance, PTL

-----------------------------------------------------------------------------
(* The reference counter                                                   *)

\* A handle shares its block with no other.
LEMMA OneHandle == ASSUME IInv, NEW h \in Handles, m_data[h] # None
                   PROVE  HandlesOf(m_data[h]) = {h}
  BY DEF IInv, HandleInv, HandlesOf

\* A task shares its block with no other.
LEMMA OneTask == ASSUME IInv, NEW t \in Tasks, tpc[t] \notin {"none", "terminate"}
                 PROVE  Attached(arg[t]) = {t}
  BY DEF IInv, TaskInv, Attached

\* One element is counted once.
LEMMA CardOne == ASSUME NEW x PROVE Cardinality({x}) = 1
  BY FS_Singleton

\* No element is counted for none.
LEMMA CardZero == Cardinality({}) = 0
  BY FS_EmptySet

\* While nobody destroys it, the counter of a state is the number of its
\* holders; whoever destroys it is alone.
THEOREM CountExact == Spec => []ReferencesCounted
  <1>1. ASSUME IInv, NEW b \in alive PROVE
          /\ DestroyersOf(b) = {} =>
               m_referenceCount[b] = Cardinality(HandleRefs(b)) + Cardinality(TaskRefs(b))
          /\ DestroyersOf(b) # {} => Cardinality(HandlesOf(b)) + Cardinality(Attached(b)) = 1
    <2>0. b \in Stacks /\ b # None
      BY <1>1, NoneIsNothing DEF IInv, TypeOK, Stacks
    <2>1. ASSUME NEW h \in Handles, m_data[h] = b, NoTask(b) PROVE
            /\ HandlesOf(b) = {h} /\ Attached(b) = {} /\ TaskRefs(b) = {}
            /\ Cardinality(HandlesOf(b)) + Cardinality(Attached(b)) = 1
      <3>1. HandlesOf(b) = {h}
        BY <1>1, <2>0, <2>1, OneHandle
      <3>2. Attached(b) = {}
        BY <2>1 DEF NoTask, Attached
      <3>3. Cardinality(HandlesOf(b)) = 1 /\ Cardinality(Attached(b)) = 0
        BY <3>1, <3>2, CardOne, CardZero
      <3>4. TaskRefs(b) = {}
        BY <3>2 DEF TaskRefs
      <3> QED BY <3>1, <3>2, <3>3, <3>4
    <2>2. CASE \E h \in Handles : m_data[h] = b /\ NoTask(b)
      <3>1. PICK h \in Handles : m_data[h] = b /\ NoTask(b)
        BY <2>2
      <3>2. HandlesOf(b) = {h} /\ Attached(b) = {} /\ TaskRefs(b) = {}
            /\ Cardinality(HandlesOf(b)) + Cardinality(Attached(b)) = 1
        BY <2>1, <3>1
      <3>3. CASE hpc[h] \in {"unlink", "dtor"}
        BY <3>2, <3>3 DEF DestroyersOf
      <3>4. CASE hpc[h] \in {"start", "join_wait", "join_decref", "detach_decref"}
        <4>1. m_referenceCount[b] = 1
          BY <1>1, <2>0, <3>1, <3>4 DEF IInv, HandleInv, Released, Kept, NoTask
        <4>2. HandleRefs(b) = {h} /\ DestroyersOf(b) = {}
          BY <3>2, <3>4 DEF HandleRefs, DestroyersOf
        <4> QED BY <3>2, <4>1, <4>2, CardOne, CardZero
      <3>5. CASE hpc[h] = "detach_wait"
        <4>1. m_referenceCount[b] = 0
          BY <1>1, <2>0, <3>1, <3>5 DEF IInv, HandleInv
        <4>2. HandleRefs(b) = {} /\ DestroyersOf(b) = {}
          BY <3>2, <3>5 DEF HandleRefs, DestroyersOf
        <4> QED BY <3>2, <4>1, <4>2, CardZero
      <3> QED BY <1>1, <2>0, <3>1, <3>3, <3>4, <3>5
              DEF IInv, TypeOK, HandlePc, HandleInv, NoTask, Kept
    <2>3. ASSUME NEW h \in Handles, m_data[h] = b, ~NoTask(b) PROVE
            m_referenceCount[b] = Cardinality(HandleRefs(b)) + Cardinality(TaskRefs(b))
            /\ DestroyersOf(b) = {}
      <3>1. PICK t \in Tasks : arg[t] = b /\ tpc[t] \notin {"none", "terminate"}
        BY <2>3 DEF NoTask
      <3>2. HandlesOf(b) = {h} /\ Attached(b) = {t}
        BY <1>1, <2>0, <2>3, <3>1, OneHandle, OneTask
      <3>3. DestroyersOf(b) = {}
        BY <1>1, <2>0, <2>3, <3>1, <3>2 DEF DestroyersOf, IInv, HandleInv, TaskInv
      <3>4. hpc[h] \in {"setid", "incref", "idle", "join_wait", "detach_decref", "detach_wait"}
        BY <1>1, <2>0, <2>3 DEF IInv, TypeOK, HandlePc, HandleInv
      <3>5. \A u \in Tasks : arg[u] = b /\ tpc[u] \notin {"none", "terminate"} => u = t
        BY <1>1, <3>1 DEF IInv, TaskInv
      <3>6. CASE hpc[h] \in {"setid", "incref"}
        <4>1. m_referenceCount[b] = 1 /\ tpc[t] \in {"run", "await"}
          BY <1>1, <2>0, <2>3, <3>1, <3>5, <3>6 DEF IInv, HandleInv, Kept
        <4>2. HandleRefs(b) = {} /\ TaskRefs(b) = {t}
          BY <3>2, <3>6, <4>1 DEF HandleRefs, TaskRefs
        <4> QED BY <3>3, <4>1, <4>2, CardOne, CardZero
      <3>7. CASE hpc[h] = "idle"
        <4>1. m_referenceCount[b] = 2 /\ tpc[t] \in {"run", "await"}
          BY <1>1, <2>0, <2>3, <3>1, <3>5, <3>7 DEF IInv, HandleInv, Kept
        <4>2. HandleRefs(b) = {h} /\ TaskRefs(b) = {t}
          BY <3>2, <3>7, <4>1 DEF HandleRefs, TaskRefs
        <4> QED BY <3>3, <4>1, <4>2, CardOne
      <3>8. CASE hpc[h] \in {"join_wait", "detach_decref"}
        <4>1. HandleRefs(b) = {h}
          BY <3>2, <3>8 DEF HandleRefs
        <4>2. CASE tpc[t] \in {"run", "await", "decref"}
          <5>1. m_referenceCount[b] = 2
            BY <1>1, <2>0, <2>3, <3>1, <3>5, <3>8, <4>2
               DEF IInv, HandleInv, Released, Kept, NoTask
          <5>2. TaskRefs(b) = {t}
            BY <3>2, <4>2 DEF TaskRefs
          <5>3. Cardinality(HandleRefs(b)) = 1 /\ Cardinality(TaskRefs(b)) = 1
            BY <4>1, <5>2, CardOne
          <5> QED BY <3>3, <5>1, <5>3
        <4>3. CASE tpc[t] \notin {"run", "await", "decref"}
          <5>1. m_referenceCount[b] = 1
            BY <1>1, <2>0, <2>3, <3>1, <3>5, <3>8, <4>3
               DEF IInv, HandleInv, Released, Kept, NoTask
          <5>2. TaskRefs(b) = {}
            BY <3>2, <4>3 DEF TaskRefs
          <5> QED BY <3>3, <4>1, <5>1, <5>2, CardOne, CardZero
        <4> QED BY <4>2, <4>3
      <3>9. CASE hpc[h] = "detach_wait"
        <4>1. m_referenceCount[b] = 0 /\ tpc[t] = "signal_and_terminate"
          BY <1>1, <2>0, <2>3, <3>1, <3>5, <3>9
             DEF IInv, HandleInv, Released, Kept, NoTask
        <4>2. HandleRefs(b) = {} /\ TaskRefs(b) = {}
          BY <3>2, <3>9, <4>1 DEF HandleRefs, TaskRefs
        <4> QED BY <3>3, <4>1, <4>2, CardZero
      <3> QED BY <3>4, <3>6, <3>7, <3>8, <3>9
    <2>4. CASE ~\E h \in Handles : m_data[h] = b
      <3>1. PICK t \in Tasks : arg[t] = b /\ tpc[t] \notin {"none", "terminate"}
        BY <1>1, <2>4 DEF IInv, BlockInv
      <3>2. HandlesOf(b) = {} /\ Attached(b) = {t}
        BY <1>1, <2>4, <3>1, OneTask DEF HandlesOf
      <3>3. CASE tpc[t] \in {"run", "await", "decref"}
        <4>1. m_referenceCount[b] = 1
          BY <1>1, <2>4, <3>1, <3>3 DEF IInv, TaskInv
        <4>2. HandleRefs(b) = {} /\ TaskRefs(b) = {t} /\ DestroyersOf(b) = {}
          BY <3>2, <3>3 DEF HandleRefs, TaskRefs, DestroyersOf
        <4> QED BY <4>1, <4>2, CardOne, CardZero
      <3>4. CASE tpc[t] \in {"unlink", "dtor"}
        <4>1. Cardinality(HandlesOf(b)) + Cardinality(Attached(b)) = 1
          BY <3>2, CardOne, CardZero
        <4>2. DestroyersOf(b) # {}
          BY <3>2, <3>4 DEF DestroyersOf
        <4> QED BY <4>1, <4>2
      <3> QED BY <1>1, <2>4, <3>1, <3>3, <3>4 DEF IInv, TypeOK, TaskPc, TaskInv
    <2> QED BY <2>2, <2>3, <2>4
  <1>2. IInv => ReferencesCounted
    BY <1>1 DEF ReferencesCounted
  <1> QED BY <1>2, Invariance, PTL
=============================================================================
