---------------------------- MODULE FutureHandles ----------------------------
(***************************************************************************)
(* The objects of promise and future (_future.hpp, _future.cpp): what      *)
(* moving, assigning, swapping and destroying them does to the states they *)
(* share.  One thread at a time uses the objects, as they demand; what     *)
(* several threads do inside one state is in Future.                       *)
(***************************************************************************)
EXTENDS Naturals, FiniteSets

CONSTANTS
  Promises, Futures,    \* memory for one object each
  SharedStates,         \* memory for the states
  NoState,              \* nullptr
  Dead                  \* there is no object in the memory

ASSUME HandlesDistinct == {NoState, Dead} \cap SharedStates = {} /\ NoState # Dead

VARIABLES
  promiseState, futureState,    \* m_state
  shared,                       \* the states, or Vacant
  results,                      \* the states that hold an object of the result's type
  terminated                    \* the program has ended in a destructor that throws

handleVars == <<promiseState, futureState, shared, results, terminated>>

Vacant == [refs |-> 0, flags |-> {}, exc |-> "none"]
Fresh == [refs |-> 1, flags |-> {}, exc |-> "none"]

HandlesInit == /\ promiseState = [p \in Promises |-> Dead]
               /\ futureState = [f \in Futures |-> Dead]
               /\ shared = [s \in SharedStates |-> Vacant]
               /\ results = {} /\ terminated = FALSE
-----------------------------------------------------------------------------
(* What is done to the states, seen as a function of them. *)

\* incReferenceCount()
Shared(sh, s) == [sh EXCEPT ![s].refs = @ + 1]

\* decReferenceCount() of the state of an object, if it has one.
Dropped(sh, s) == IF s = NoState THEN sh
                  ELSE IF sh[s].refs > 1 THEN [sh EXCEPT ![s].refs = @ - 1]
                  ELSE [sh EXCEPT ![s] = Vacant]

\* attachFuture()
Attached(sh, s) == [sh EXCEPT ![s].flags = @ \cup {"FutureAttached"}]

\* startSettingValue() passes.
Settable(sh, s) == "BeingSatisfied" \notin sh[s].flags

\* setException()
Failed(sh, s, e) ==
  [sh EXCEPT ![s].flags = @ \cup {"BeingSatisfied", "Ready"}, ![s].exc = e]

\* setValue(); the constructor of the value may throw before the value is there.
Satisfied_Throws(sh, s) == [sh EXCEPT ![s].flags = @ \cup {"BeingSatisfied"}]
Satisfied_Value(sh, s) ==
  [sh EXCEPT ![s].flags = @ \cup {"BeingSatisfied", "ValueConstructed", "Ready"}]

\* ~promise() has to signal a broken promise ...
Breaks(sh, s) == s # NoState /\ "Ready" \notin sh[s].flags /\ sh[s].refs > 1

\* ... before it drops the state.
Broken(sh, s) == Dropped(IF Breaks(sh, s) THEN Failed(sh, s, "broken_promise") ELSE sh, s)

\* A promise that forgets to look for a future.
Broken_Never(sh, s) == Dropped(sh, s)

\* SharedState::destroy() destroys the result, if there is one.
Outlived(sh) == {s \in results : sh[s].refs > 0 \/ "ValueConstructed" \notin shared[s].flags}

\* The states become sh, and those without a reference are destroyed.
Become(sh) == shared' = sh /\ results' = Outlived(sh)

\* ~promise() throws if the state is marked as being satisfied but not ready.
Discard(s) == IF Breaks(shared, s) /\ ~Settable(shared, s)
                THEN terminated' = TRUE /\ UNCHANGED <<shared, results>>
                ELSE Become(Broken(shared, s)) /\ UNCHANGED terminated
-----------------------------------------------------------------------------
(* Promises. *)

Alive(states, h) == ~terminated /\ states[h] # Dead
Unborn(states, h) == ~terminated /\ states[h] = Dead

Promise_Construct(p, s) ==
  /\ Unborn(promiseState, p) /\ shared[s] = Vacant
  /\ promiseState' = [promiseState EXCEPT ![p] = s]
  /\ shared' = [shared EXCEPT ![s] = Fresh]
  /\ UNCHANGED <<futureState, results, terminated>>

Promise_Move(p, q) ==
  /\ Unborn(promiseState, p) /\ Alive(promiseState, q)
  /\ promiseState' = [promiseState EXCEPT ![p] = promiseState[q], ![q] = NoState]
  /\ UNCHANGED <<futureState, shared, results, terminated>>

Promise_Destroy(p) ==
  /\ Alive(promiseState, p)
  /\ promiseState' = [promiseState EXCEPT ![p] = Dead]
  /\ Discard(promiseState[p])
  /\ UNCHANGED futureState

\* A temporary is moved from q, swapped with p, and destroyed with what p had. An
\* assignment to itself empties p and fills it again.
Promise_Assign(p, q) ==
  /\ Alive(promiseState, p) /\ Alive(promiseState, q)
  /\ LET emptied == [promiseState EXCEPT ![q] = NoState]
     IN /\ promiseState' = [emptied EXCEPT ![p] = promiseState[q]]
        /\ Discard(emptied[p])
  /\ UNCHANGED futureState

Promise_Swap(p, q) ==
  /\ p # q /\ Alive(promiseState, p) /\ Alive(promiseState, q)
  /\ promiseState' = [promiseState EXCEPT ![p] = promiseState[q], ![q] = promiseState[p]]
  /\ UNCHANGED <<futureState, shared, results, terminated>>

\* get_future(), which throws if there is no state ("no_state"), or if it was called
\* before for this state ("future_already_retrieved").
Promise_GetFuture(p, f) ==
  /\ Alive(promiseState, p) /\ Unborn(futureState, f)
  /\ LET s == promiseState[p]
     IN /\ s # NoState /\ "FutureAttached" \notin shared[s].flags
        /\ shared' = Shared(Attached(shared, s), s)
        /\ futureState' = [futureState EXCEPT ![f] = s]
  /\ UNCHANGED <<promiseState, results, terminated>>

\* set_value() and set_exception() throw if there is no state, or if it is set
\* already ("promise_already_satisfied").
Promise_Set(p) ==
  /\ Alive(promiseState, p) /\ promiseState[p] # NoState
  /\ LET s == promiseState[p]
     IN /\ Settable(shared, s)
        /\ \/ shared' = Satisfied_Value(shared, s) /\ results' = results \cup {s}
           \/ shared' = Satisfied_Throws(shared, s) /\ UNCHANGED results
           \/ shared' = Failed(shared, s, "exception") /\ UNCHANGED results
  /\ UNCHANGED <<promiseState, futureState, terminated>>

\* make_exceptional_future(): a promise that is set, asked for its future, and
\* destroyed at the return.
MakeExceptionalFuture(f, s) ==
  /\ Unborn(futureState, f) /\ shared[s] = Vacant
  /\ LET set == Failed([shared EXCEPT ![s] = Fresh], s, "exception")
     IN shared' = Broken(Shared(Attached(set, s), s), s)
  /\ futureState' = [futureState EXCEPT ![f] = s]
  /\ UNCHANGED <<promiseState, results, terminated>>
-----------------------------------------------------------------------------
(* Futures. *)

Future_Default(f) ==
  /\ Unborn(futureState, f)
  /\ futureState' = [futureState EXCEPT ![f] = NoState]
  /\ UNCHANGED <<promiseState, shared, results, terminated>>

Future_Move(f, g) ==
  /\ Unborn(futureState, f) /\ Alive(futureState, g)
  /\ futureState' = [futureState EXCEPT ![f] = futureState[g], ![g] = NoState]
  /\ UNCHANGED <<promiseState, shared, results, terminated>>

Future_Destroy(f) ==
  /\ Alive(futureState, f)
  /\ futureState' = [futureState EXCEPT ![f] = Dead]
  /\ Become(Dropped(shared, futureState[f]))
  /\ UNCHANGED <<promiseState, terminated>>

\* A future drops its state first, also if it is assigned to itself: then m_state is
\* cleared last.
Future_Assign(f, g) ==
  /\ Alive(futureState, f) /\ Alive(futureState, g)
  /\ Become(Dropped(shared, futureState[f]))
  /\ futureState' = [[futureState EXCEPT ![f] = futureState[g]] EXCEPT ![g] = NoState]
  /\ UNCHANGED <<promiseState, terminated>>

Future_Swap(f, g) ==
  /\ f # g /\ Alive(futureState, f) /\ Alive(futureState, g)
  /\ futureState' = [futureState EXCEPT ![f] = futureState[g], ![g] = futureState[f]]
  /\ UNCHANGED <<promiseState, shared, results, terminated>>

\* get() returns or throws what the ready state has, and drops it.
Future_Get(f) ==
  /\ Alive(futureState, f) /\ futureState[f] # NoState
  /\ "Ready" \in shared[futureState[f]].flags
  /\ Become(Dropped(shared, futureState[f]))
  /\ futureState' = [futureState EXCEPT ![f] = NoState]
  /\ UNCHANGED <<promiseState, terminated>>
-----------------------------------------------------------------------------
PromisesNext ==
  \/ \E p \in Promises :
       \/ Promise_Destroy(p) \/ Promise_Set(p)
       \/ \E s \in SharedStates : Promise_Construct(p, s)
       \/ \E q \in Promises : Promise_Move(p, q) \/ Promise_Assign(p, q) \/ Promise_Swap(p, q)
       \/ \E f \in Futures : Promise_GetFuture(p, f)
  \/ \E f \in Futures, s \in SharedStates : MakeExceptionalFuture(f, s)

FuturesNext ==
  \E f \in Futures :
    \/ Future_Default(f) \/ Future_Destroy(f) \/ Future_Get(f)
    \/ \E g \in Futures : Future_Move(f, g) \/ Future_Assign(f, g) \/ Future_Swap(f, g)

HandlesNext == PromisesNext \/ FuturesNext

HandlesSpec == HandlesInit /\ [][HandlesNext]_handleVars
-----------------------------------------------------------------------------
HandlesTypeOK ==
  /\ promiseState \in [Promises -> SharedStates \cup {NoState, Dead}]
  /\ futureState \in [Futures -> SharedStates \cup {NoState, Dead}]
  /\ shared \in [SharedStates -> [refs : 0 .. 2, exc : {"none", "exception", "broken_promise"},
                   flags : SUBSET {"FutureAttached", "BeingSatisfied", "ValueConstructed", "Ready"}]]
  /\ results \subseteq SharedStates /\ terminated \in BOOLEAN

\* The promises and the futures that share the state s.
PromisesOf(s) == {p \in Promises : promiseState[p] = s}
FuturesOf(s) == {f \in Futures : futureState[f] = s}

\* However promises and futures are moved, assigned and swapped, a state has at most
\* one of each; it lives as long as it has one of them, and its result with it.  When
\* the promise is gone, a future finds the state ready, with the value, the exception
\* or a broken promise.
HandlesExact ==
  terminated \/ \A s \in SharedStates :
    /\ Cardinality(PromisesOf(s)) <= 1 /\ Cardinality(FuturesOf(s)) <= 1
    /\ shared[s].refs = Cardinality(PromisesOf(s)) + Cardinality(FuturesOf(s))
    /\ s \in results <=> shared[s].refs > 0 /\ "ValueConstructed" \in shared[s].flags
    /\ shared[s].refs > 0 /\ PromisesOf(s) = {} => "Ready" \in shared[s].flags
    /\ "Ready" \in shared[s].flags => (s \in results <=> shared[s].exc = "none")
=============================================================================
