-------------------------------- MODULE Future --------------------------------
(***************************************************************************)
(* The state that a promise or an async() task shares with a future        *)
(* (_future.hpp, _future.cpp): its reference count, its flags and the      *)
(* one-shot condition variable, from the creation to the deallocation of   *)
(* one state.                                                              *)
(*                                                                         *)
(* Owner makes the state: it owns the promise, or calls async().  Setters  *)
(* set a value or an exception through the promise, Task is the thread of  *)
(* async(), Waiters use the future.  As the interface requires, nobody     *)
(* uses the promise any more when it is destroyed, nor the future when it  *)
(* is destroyed or emptied by get().                                       *)
(***************************************************************************)
EXTENDS Integers, FiniteSets

CONSTANTS
  Setters, Waiters, Owner, Task,
  Modes       \* which ways to make the state are looked at

ASSUME ThreadsDistinct == /\ Setters \cap Waiters = {} /\ Owner # Task
                          /\ {Owner, Task} \cap (Setters \cup Waiters) = {}
ASSUME ModesType == Modes \subseteq {"promise", "async"}

Threads == Setters \cup Waiters \cup {Owner, Task}

VARIABLES
  mode,       \* how the state is made
  refs,       \* m_referenceCount
  flags,      \* m_flags
  exc,        \* m_exception
  tokens,     \* the semaphore of m_cv
  freed,      \* the state, with the stack it is in or owns, was given back
  future,     \* the future object: not yet made, in use, or empty
  threw,      \* the result's constructor has thrown
  pc,         \* where each thread is
  call        \* what for: the set operation or the wait it is in

stateVars == <<mode, refs, flags, exc, tokens, freed, future, threw>>
vars == <<stateVars, pc, call>>

Init ==
  /\ mode \in Modes
  /\ refs = 1 /\ flags = {} /\ exc = "none" /\ tokens = 0
  /\ freed = FALSE /\ future = "none" /\ threw = FALSE
  /\ pc = [t \in Threads |-> IF t = Owner THEN "made" ELSE "idle"]
  /\ call = [t \in Threads |-> "none"]

From(t, l, m) == pc[t] = l /\ pc' = [pc EXCEPT ![t] = m]
CallAs(t, c) == call' = [call EXCEPT ![t] = c]

\* Nobody in S is inside an operation.
Quiet(S) == \A t \in S : pc[t] \in {"idle", "done"}
-----------------------------------------------------------------------------
(* Setting the result. *)

\* promise::set_value() or set_exception(), once per setter.
Set(s) ==
  /\ mode = "promise" /\ pc[Owner] \in {"made", "attached", "own"}
  /\ From(s, "idle", "start")
  /\ \E c \in {"value", "exception"} : CallAs(s, c)
  /\ UNCHANGED stateVars

\* The task of async() calls the function, which returns or throws.
Invoke ==
  /\ From(Task, "run", "start")
  /\ \E c \in {"value", "exception"} : CallAs(Task, c)
  /\ UNCHANGED stateVars

\* Two setters that both go on.
Start_NoTest(t) ==
  /\ From(t, "start", "store")
  /\ flags' = flags \cup {"BeingSatisfied"}
  /\ UNCHANGED <<mode, refs, exc, tokens, freed, future, threw, call>>

\* startSettingValue(): one setter gets through.  For the others it throws,
\* which ends the program in ~promise() and in invoke().
Start(t) ==
  /\ IF "BeingSatisfied" \in flags
       THEN From(t, "start", IF t \in Setters THEN "done" ELSE "terminated") /\ UNCHANGED flags
       ELSE From(t, "start", "store") /\ flags' = flags \cup {"BeingSatisfied"}
  /\ UNCHANGED <<mode, refs, exc, tokens, freed, future, threw, call>>

\* The value is constructed, or the exception stored ...
Store(t) ==
  /\ From(t, "store", "ready")
  /\ exc' = IF call[t] = "value" THEN exc ELSE call[t]
  /\ UNCHANGED <<mode, refs, flags, tokens, freed, future, threw, call>>

\* ... or the constructor of the value throws: set_value() passes it on, invoke()
\* catches it and calls setException().
Store_Throws(t) ==
  /\ t \in Setters \cup {Task} /\ call[t] = "value"
  /\ IF t = Task
       THEN From(t, "store", "start") /\ CallAs(t, "exception")
       ELSE From(t, "store", "done") /\ UNCHANGED call
  /\ threw' = TRUE
  /\ UNCHANGED <<mode, refs, flags, exc, tokens, freed, future>>

SetReady(t) ==
  /\ From(t, "ready", "notify")
  /\ flags' = flags \cup {"Ready"} \cup (IF call[t] = "value" THEN {"ValueConstructed"} ELSE {})
  /\ UNCHANGED <<mode, refs, exc, tokens, freed, future, threw, call>>

\* m_cv.notify().  The task still has to return through its stack.
Notify(t) ==
  /\ From(t, "notify", CASE t = Owner -> "decref" [] t = Task -> "return" [] OTHER -> "done")
  /\ tokens' = tokens + 1
  /\ UNCHANGED <<mode, refs, flags, exc, freed, future, threw, call>>

Return == From(Task, "return", "done") /\ UNCHANGED <<stateVars, call>>
-----------------------------------------------------------------------------
(* Waiting for it. *)

\* The caller has got the future.
Usable == future = "valid" /\ (mode = "async" => pc[Owner] = "done")

\* future::wait() and wait_for().
Wait(w) ==
  /\ Usable
  /\ From(w, "idle", "check")
  /\ \E c \in {"wait", "wait_for"} : CallAs(w, c)
  /\ UNCHANGED stateVars

\* The test of the flag, before and after the semaphore; wait_for() does it once.
Check(t) ==
  /\ IF "Ready" \in flags
       THEN From(t, "check", CASE call[t] = "get" -> "decref" [] call[t] = "destroy" -> "free"
                               [] OTHER -> "idle")
       ELSE From(t, "check", "block")
  /\ UNCHANGED <<stateVars, call>>

\* OneshotConditionVariable::wait(): the semaphore ...
Take(t) ==
  /\ From(t, "block", "post")
  /\ tokens > 0 /\ tokens' = tokens - 1
  /\ UNCHANGED <<mode, refs, flags, exc, freed, future, threw, call>>

TimeOut(w) ==
  /\ call[w] = "wait_for" /\ tokens = 0
  /\ From(w, "block", "idle")
  /\ UNCHANGED <<stateVars, call>>

\* A waiter that keeps the token.
Post_Keep(t) ==
  /\ From(t, "post", IF call[t] = "wait_for" THEN "idle" ELSE "check")
  /\ UNCHANGED <<stateVars, call>>

\* ... is passed on to the next waiter.
Post(t) ==
  /\ From(t, "post", IF call[t] = "wait_for" THEN "idle" ELSE "check")
  /\ tokens' = tokens + 1
  /\ UNCHANGED <<mode, refs, flags, exc, freed, future, threw, call>>

\* future::get() takes the state out of the future and waits; moveValue() or
\* copyValue() then reads the result before the reference is dropped.
Get(w) ==
  /\ Usable /\ Quiet(Waiters)
  /\ From(w, "idle", "check") /\ CallAs(w, "get")
  /\ future' = "empty"
  /\ UNCHANGED <<mode, refs, flags, exc, tokens, freed, threw>>

\* ~future() and the move assignment just drop it.
Drop(w) ==
  /\ Usable /\ Quiet(Waiters)
  /\ From(w, "idle", "decref")
  /\ future' = "empty"
  /\ UNCHANGED <<mode, refs, flags, exc, tokens, freed, threw, call>>
-----------------------------------------------------------------------------
(* The references. *)

\* A state that is destroyed without a look at the flag.
DecRef_NoWait(t) ==
  /\ refs' = refs - 1
  /\ From(t, "decref", IF refs > 1 THEN "done" ELSE "free")
  /\ UNCHANGED <<mode, flags, exc, tokens, freed, future, threw, call>>

\* decReferenceCount(); the last one calls destroy(), which waits first if the
\* state belongs to async().
DecRef(t) ==
  /\ refs' = refs - 1
  /\ IF refs > 1
       THEN From(t, "decref", "done") /\ UNCHANGED call
       ELSE IF mode = "async"
              THEN From(t, "decref", "check") /\ CallAs(t, "destroy")
              ELSE From(t, "decref", "free") /\ UNCHANGED call
  /\ UNCHANGED <<mode, flags, exc, tokens, freed, future, threw>>

\* SharedStateBase::destroy(): the destructor, and the memory.
Free(t) ==
  /\ From(t, "free", "done")
  /\ freed' = TRUE
  /\ UNCHANGED <<mode, refs, flags, exc, tokens, future, threw, call>>

\* The constructor of the future: attachFuture() ...
Attach ==
  /\ From(Owner, IF mode = "promise" THEN "made" ELSE "started", "attached")
  /\ flags' = flags \cup {"FutureAttached"}
  /\ UNCHANGED <<mode, refs, exc, tokens, freed, future, threw, call>>

\* A future that holds no reference of its own.
IncRef_NoCount ==
  /\ From(Owner, "attached", IF mode = "promise" THEN "own" ELSE "decref")
  /\ future' = "valid"
  /\ UNCHANGED <<mode, refs, flags, exc, tokens, freed, threw, call>>

\* ... and incReferenceCount().  async() then drops the reference of its unique_ptr.
IncRef ==
  /\ From(Owner, "attached", IF mode = "promise" THEN "own" ELSE "decref")
  /\ refs' = refs + 1
  /\ future' = "valid"
  /\ UNCHANGED <<mode, flags, exc, tokens, freed, threw, call>>

\* makeAsyncSharedState(): the detached thread starts, or its creation fails and the
\* unique_ptr drops the state.
StartThread ==
  /\ mode = "async"
  /\ pc[Owner] = "made"
  /\ \/ pc' = [pc EXCEPT ![Owner] = "started", ![Task] = "run"]
     \/ pc' = [pc EXCEPT ![Owner] = "decref"]
  /\ UNCHANGED <<stateVars, call>>

\* ~promise(), with or without a future: is a result missing ...
Destroy_IsReady ==
  /\ mode = "promise" /\ pc[Owner] \in {"made", "own"} /\ Quiet(Setters)
  /\ From(Owner, pc[Owner], IF "Ready" \in flags THEN "decref" ELSE "count")
  /\ UNCHANGED <<stateVars, call>>

\* A destructor that miscounts the references.
Destroy_Count_Off ==
  /\ From(Owner, "count", IF refs > 2 THEN "start" ELSE "decref")
  /\ CallAs(Owner, "broken")
  /\ UNCHANGED stateVars

\* ... and is there a future to tell?
Destroy_Count ==
  /\ From(Owner, "count", IF refs > 1 THEN "start" ELSE "decref")
  /\ CallAs(Owner, "broken")
  /\ UNCHANGED stateVars
-----------------------------------------------------------------------------
\* The steps of a thread that runs inside an operation.
Continue(t) == \/ Start(t) \/ Store(t) \/ Store_Throws(t) \/ SetReady(t) \/ Notify(t)
               \/ Check(t) \/ Take(t) \/ Post(t) \/ DecRef(t) \/ Free(t)

Making == Attach \/ IncRef \/ StartThread \/ Destroy_IsReady \/ Destroy_Count

Next == \/ Making \/ Invoke \/ Return
        \/ \E t \in Threads : Continue(t)
        \/ \E s \in Setters : Set(s)
        \/ \E w \in Waiters : Wait(w) \/ TimeOut(w) \/ Get(w) \/ Drop(w)

Spec == Init /\ [][Next]_vars

\* Threads go on, and a semaphore with a token serves each of its waiters at some
\* time. The promise is destroyed at some time.
Fairness == /\ WF_vars(Making) /\ WF_vars(Invoke)
            /\ \A t \in Threads : WF_vars(Continue(t)) /\ SF_vars(Take(t))

FairSpec == Spec /\ Fairness
-----------------------------------------------------------------------------
\* Types; the reference count and the one token never run off. A ready state has
\* either a value or an exception, however many set_value(), set_exception() and
\* ~promise() overlap.
TypeOK ==
  /\ mode \in Modes
  /\ refs \in 0 .. 2
  /\ flags \subseteq {"FutureAttached", "BeingSatisfied", "ValueConstructed", "Ready"}
  /\ exc \in {"none", "exception", "broken"}
  /\ tokens \in 0 .. 1
  /\ freed \in BOOLEAN /\ threw \in BOOLEAN
  /\ future \in {"none", "valid", "empty"}
  /\ call \in [Threads -> {"none", "value", "exception", "broken", "wait", "wait_for", "get", "destroy"}]
  /\ pc \in [Threads -> {"idle", "done", "made", "started", "attached", "own", "run", "return", "count",
                         "start", "store", "ready", "notify", "check", "block", "post", "decref", "free",
                         "terminated"}]
  /\ "Ready" \in flags => (exc = "none" <=> "ValueConstructed" \in flags)

\* The threads that still read or write the state.
InState == {t \in Threads : pc[t] \in {"made", "own", "count", "start", "store", "ready", "notify",
                                       "check", "block", "post", "decref", "free"}}

\* Between a promise and a future nobody touches the state after its deallocation:
\* the setter holds a reference until notify() has returned. With async(), "this
\* function will block, if the future is a result to an async() call and the result
\* is not available, yet": the state is not given back before, and the only one who
\* may still be in it is the thread of async(), in notify().
StateAlive ==
  freed => IF mode = "promise"
           THEN InState = {}
           ELSE "Ready" \in flags /\ InState \subseteq {Task} /\ pc[Task] \in {"notify", "return", "idle", "done"}

\* "If no value or exception has been set in the shared state and at least one
\* future is still attached to it, we have to signal a broken promise."
BrokenPromiseSignalled ==
  mode = "promise" /\ pc[Owner] \in {"decref", "done", "terminated"} /\ future = "valid"
    => "Ready" \in flags

\* The same unless the constructor of the value has thrown.
PromiseKept == threw \/ BrokenPromiseSignalled

\* All the threads that wait on one future return, unless the constructor of the
\* value has thrown: one token is enough for all of them.
WaitReturns ==
  \A w \in Waiters : pc[w] \in {"check", "block", "post"} ~> pc[w] \in {"idle", "done"} \/ threw
=============================================================================
