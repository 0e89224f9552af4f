---------------------------- MODULE Values_proofs ----------------------------
(***************************************************************************)
(* The safety of promises and futures in one thread, of scope guards, of   *)
(* captured exceptions and of durations; and then of all parts that stand  *)
(* alone, as they are model-checked.                                       *)
(***************************************************************************)
EXTENDS MCValues, Sync_proofs, Memory_proofs, SequenceTheorems
-----------------------------------------------------------------------------
(* FutureHandles. *)

\* A shared state.
StateRecords == [refs : 0 .. 2, exc : {"none", "exception", "broken_promise"},
                 flags : SUBSET {"FutureAttached", "BeingSatisfied", "ValueConstructed", "Ready"}]

\* A promise refers to s.
HasPromise(s) == \E p \in Promises : promiseState[p] = s
\* A future refers to s.
HasFuture(s) == \E f \in Futures : futureState[f] = s

\* One promise at most and one future at most.
HandlesSingle(s) ==
  /\ \A p, q \in Promises : promiseState[p] = s /\ promiseState[q] = s => p = q
  /\ \A f, g \in Futures : futureState[f] = s /\ futureState[g] = s => f = g

\* What a state r has when it has a promise or not, a future or not, a result or not.
StateRight(r, promise, future, has) ==
  /\ r.refs = (IF promise THEN 1 ELSE 0) + (IF future THEN 1 ELSE 0)
  /\ ~promise /\ ~future => r = Vacant
  /\ future => "FutureAttached" \in r.flags
  /\ has <=> (promise \/ future) /\ "ValueConstructed" \in r.flags
  /\ future /\ ~promise => "Ready" \in r.flags
  /\ "Ready" \in r.flags => /\ "BeingSatisfied" \in r.flags
                            /\ "ValueConstructed" \in r.flags <=> r.exc = "none"
  /\ "ValueConstructed" \in r.flags \/ r.exc # "none" => "Ready" \in r.flags

\* The state s is as its promise and its future need it.
StateKept(s) == StateRight(shared[s], HasPromise(s), HasFuture(s), s \in results)

\* The inductive invariant; after std::terminate() nothing is promised.
HandlesIInv == /\ HandlesTypeOK
               /\ terminated \/ \A s \in SharedStates : HandlesSingle(s) /\ StateKept(s)

\* What Dropped does: a reference goes, and the state with the last one.
LEMMA H_Dropped ==
  ASSUME NEW sh \in [SharedStates -> StateRecords], NEW s \in SharedStates \cup {NoState}
  PROVE  /\ Dropped(sh, s) \in [SharedStates -> StateRecords]
         /\ \A u \in SharedStates : u # s => Dropped(sh, s)[u] = sh[u]
         /\ s \in SharedStates /\ sh[s].refs > 1 =>
              Dropped(sh, s)[s] = [refs |-> sh[s].refs - 1, flags |-> sh[s].flags,
                                   exc |-> sh[s].exc]
         /\ s \in SharedStates /\ ~(sh[s].refs > 1) => Dropped(sh, s)[s] = Vacant
<1>1. CASE s \notin SharedStates
  BY <1>1, HandlesDistinct DEF Dropped
<1>2. CASE s \in SharedStates /\ sh[s].refs > 1
  <2>1. [sh[s] EXCEPT !.refs = @ - 1] \in StateRecords
    BY <1>2 DEF StateRecords
  <2> QED
    BY <1>2, <2>1, HandlesDistinct DEF Dropped, StateRecords
<1>3. CASE s \in SharedStates /\ ~(sh[s].refs > 1)
  BY <1>3, HandlesDistinct DEF Dropped, StateRecords, Vacant
<1> QED
  BY <1>1, <1>2, <1>3

\* What Failed does.
LEMMA H_Failed ==
  ASSUME NEW sh \in [SharedStates -> StateRecords], NEW s \in SharedStates,
         NEW e \in {"exception", "broken_promise"}
  PROVE  /\ Failed(sh, s, e) \in [SharedStates -> StateRecords]
         /\ \A u \in SharedStates : u # s => Failed(sh, s, e)[u] = sh[u]
         /\ Failed(sh, s, e)[s] = [refs |-> sh[s].refs, exc |-> e,
                                   flags |-> sh[s].flags \cup {"BeingSatisfied", "Ready"}]
BY DEF Failed, StateRecords

\* What get_future() does to the state.
LEMMA H_Shared ==
  ASSUME NEW sh \in [SharedStates -> StateRecords], NEW s \in SharedStates, sh[s].refs < 2
  PROVE  /\ Shared(Attached(sh, s), s) \in [SharedStates -> StateRecords]
         /\ \A u \in SharedStates : u # s => Shared(Attached(sh, s), s)[u] = sh[u]
         /\ Shared(Attached(sh, s), s)[s] =
              [refs |-> sh[s].refs + 1, exc |-> sh[s].exc,
               flags |-> sh[s].flags \cup {"FutureAttached"}]
<1> DEFINE got == Attached(sh, s)
<1>1. /\ got \in [SharedStates -> StateRecords]
      /\ \A u \in SharedStates : u # s => got[u] = sh[u]
      /\ got[s] = [refs |-> sh[s].refs, exc |-> sh[s].exc,
                   flags |-> sh[s].flags \cup {"FutureAttached"}]
  BY DEF Attached, StateRecords
<1> HIDE DEF got
<1>2. [got[s] EXCEPT !.refs = @ + 1] \in StateRecords
  BY <1>1 DEF StateRecords
<1>3. /\ Shared(got, s) \in [SharedStates -> StateRecords]
      /\ \A u \in SharedStates : u # s => Shared(got, s)[u] = got[u]
      /\ Shared(got, s)[s] = [refs |-> got[s].refs + 1, exc |-> got[s].exc, flags |-> got[s].flags]
  BY <1>1, <1>2 DEF Shared, StateRecords
<1> QED
  BY <1>1, <1>3 DEF got

\* What set_value() does when the value throws ...
LEMMA H_Satisfied_Throws ==
  ASSUME NEW sh \in [SharedStates -> StateRecords], NEW s \in SharedStates
  PROVE  /\ Satisfied_Throws(sh, s) \in [SharedStates -> StateRecords]
         /\ \A u \in SharedStates : u # s => Satisfied_Throws(sh, s)[u] = sh[u]
         /\ Satisfied_Throws(sh, s)[s] =
              [refs |-> sh[s].refs, exc |-> sh[s].exc,
               flags |-> sh[s].flags \cup {"BeingSatisfied"}]
BY DEF Satisfied_Throws, StateRecords

\* ... and when it does not.
LEMMA H_Satisfied_Value ==
  ASSUME NEW sh \in [SharedStates -> StateRecords], NEW s \in SharedStates
  PROVE  /\ Satisfied_Value(sh, s) \in [SharedStates -> StateRecords]
         /\ \A u \in SharedStates : u # s => Satisfied_Value(sh, s)[u] = sh[u]
         /\ Satisfied_Value(sh, s)[s] =
              [refs |-> sh[s].refs, exc |-> sh[s].exc,
               flags |-> sh[s].flags \cup {"BeingSatisfied", "ValueConstructed", "Ready"}]
BY DEF Satisfied_Value, StateRecords

\* A future drops its state, which then has a promise or is vacant.
LEMMA H_Future_Drops ==
  ASSUME HandlesIInv, ~terminated, NEW s \in SharedStates \cup {NoState},
         s \in SharedStates => HasFuture(s),
         Become(Dropped(shared, s))
  PROVE  /\ shared' \in [SharedStates -> StateRecords] /\ results' \subseteq SharedStates
         /\ \A u \in SharedStates : u # s => shared'[u] = shared[u] /\ (u \in results' <=>
                u \in results)
         /\ s \in SharedStates => StateRight(shared'[s], HasPromise(s), FALSE, s \in results')
<1> DEFINE d == Dropped(shared, s)
<1>1. shared \in [SharedStates -> StateRecords] /\ results \subseteq SharedStates
  BY DEF HandlesIInv, HandlesTypeOK, StateRecords
<1>2. \A u \in SharedStates : StateKept(u)
  BY DEF HandlesIInv
<1>3. /\ d \in [SharedStates -> StateRecords]
      /\ \A u \in SharedStates : u # s => d[u] = shared[u]
      /\ s \in SharedStates /\ shared[s].refs > 1 =>
              d[s] = [refs |-> shared[s].refs - 1, flags |-> shared[s].flags, exc |-> shared[s].exc]
      /\ s \in SharedStates /\ ~(shared[s].refs > 1) => d[s] = Vacant
  BY <1>1, H_Dropped
<1>4. shared' = d /\ results' = {u \in results :
          d[u].refs > 0 \/ "ValueConstructed" \notin shared[u].flags}
  BY DEF Become, Outlived
<1> HIDE DEF d
<1>5. ASSUME NEW u \in SharedStates, u # s PROVE u \in results' <=> u \in results
  BY <1>2, <1>3, <1>4, <1>5 DEF StateKept, StateRight
<1>6. ASSUME s \in SharedStates PROVE StateRight(shared'[s], HasPromise(s), FALSE, s \in results')
  <2>1. StateRight(shared[s], HasPromise(s), TRUE, s \in results)
    BY <1>2, <1>6 DEF StateKept, StateRight
  <2>2. CASE HasPromise(s)
    BY <1>3, <1>4, <1>6, <2>1, <2>2 DEF StateRight
  <2>3. CASE ~HasPromise(s)
    BY <1>3, <1>4, <1>6, <2>1, <2>3 DEF StateRight, Vacant
  <2> QED
    BY <2>2, <2>3
<1> QED
  BY <1>1, <1>3, <1>4, <1>5, <1>6

\* A promise drops its state: a future that is left gets the broken promise.
LEMMA H_Promise_Drops ==
  ASSUME HandlesIInv, ~terminated, NEW s \in SharedStates \cup {NoState},
         s \in SharedStates => HasPromise(s),
         Discard(s)
  PROVE  /\ shared' \in [SharedStates -> StateRecords] /\ results' \subseteq SharedStates
         /\ terminated' \in BOOLEAN
         /\ \/ terminated'
            \/ /\ \A u \in SharedStates : u # s => shared'[u] = shared[u] /\ (u \in results' <=>
                      u \in results)
               /\ s \in SharedStates => StateRight(shared'[s], FALSE, HasFuture(s), s \in results')
<1>1. shared \in [SharedStates -> StateRecords] /\ results \subseteq SharedStates
  BY DEF HandlesIInv, HandlesTypeOK, StateRecords
<1>2. \A u \in SharedStates : StateKept(u)
  BY DEF HandlesIInv
<1>3. CASE Breaks(shared, s) /\ ~Settable(shared, s)
  BY <1>1, <1>3 DEF Discard
<1>4. CASE ~(Breaks(shared, s) /\ ~Settable(shared, s))
  <2> DEFINE b == IF Breaks(shared, s) THEN Failed(shared, s, "broken_promise") ELSE shared
             d == Dropped(b, s)
  <2>1. /\ b \in [SharedStates -> StateRecords]
        /\ \A u \in SharedStates : u # s => b[u] = shared[u]
        /\ s \in SharedStates =>
             b[s] = IF "Ready" \notin shared[s].flags /\ shared[s].refs > 1
                      THEN [refs |-> shared[s].refs, exc |-> "broken_promise",
                            flags |-> shared[s].flags \cup {"BeingSatisfied", "Ready"}]
                      ELSE shared[s]
    <3>1. CASE Breaks(shared, s)
      <4>1. s \in SharedStates /\ "Ready" \notin shared[s].flags /\ shared[s].refs > 1
        BY <3>1 DEF Breaks
      <4>2. b = Failed(shared, s, "broken_promise")
        BY <3>1
      <4>3. /\ Failed(shared, s, "broken_promise") \in [SharedStates -> StateRecords]
            /\ \A u \in SharedStates : u # s => Failed(shared, s, "broken_promise")[u] = shared[u]
            /\ Failed(shared, s, "broken_promise")[s]
                 = [refs |-> shared[s].refs, exc |-> "broken_promise",
                    flags |-> shared[s].flags \cup {"BeingSatisfied", "Ready"}]
        BY <1>1, <4>1, H_Failed
      <4> HIDE DEF b
      <4> QED
        BY <4>1, <4>2, <4>3
    <3>2. CASE ~Breaks(shared, s)
      BY <1>1, <3>2, HandlesDistinct DEF Breaks
    <3> QED
      BY <3>1, <3>2
  <2>2. terminated' = terminated /\ shared' = d
        /\ results' = {u \in results : d[u].refs > 0 \/ "ValueConstructed" \notin shared[u].flags}
    BY <1>4 DEF Discard, Broken, Become, Outlived
  <2>3. s \in SharedStates /\ "Ready" \notin shared[s].flags /\ shared[s].refs > 1
          => "BeingSatisfied" \notin shared[s].flags
    BY <1>4, HandlesDistinct DEF Breaks, Settable
  <2> HIDE DEF b
  <2>4. /\ d \in [SharedStates -> StateRecords]
        /\ \A u \in SharedStates : u # s => d[u] = b[u]
        /\ s \in SharedStates /\ b[s].refs > 1 =>
                d[s] = [refs |-> b[s].refs - 1, flags |-> b[s].flags, exc |-> b[s].exc]
        /\ s \in SharedStates /\ ~(b[s].refs > 1) => d[s] = Vacant
    BY <2>1, H_Dropped
  <2> HIDE DEF d
  <2>5. ASSUME NEW u \in SharedStates, u # s PROVE u \in results' <=> u \in results
    BY <1>2, <2>1, <2>2, <2>4, <2>5 DEF StateKept, StateRight
  <2>6. ASSUME s \in SharedStates PROVE StateRight(shared'[s], FALSE, HasFuture(s), s \in results')
    <3>1. StateRight(shared[s], TRUE, HasFuture(s), s \in results)
      BY <1>2, <2>6 DEF StateKept, StateRight
    <3>2. CASE HasFuture(s)
      <4>1. shared[s].refs = 2 /\ b[s].refs = 2
        BY <2>1, <2>6, <3>1, <3>2 DEF StateRight
      <4>2. d[s] = [refs |-> 1, flags |-> b[s].flags, exc |-> b[s].exc]
        BY <2>4, <2>6, <4>1
      <4>3. CASE "Ready" \in shared[s].flags
        BY <2>1, <2>2, <2>6, <3>1, <3>2, <4>1, <4>2, <4>3 DEF StateRight
      <4>4. CASE "Ready" \notin shared[s].flags
        BY <2>3, <2>1, <2>2, <2>6, <3>1, <3>2, <4>1, <4>2, <4>4 DEF StateRight
      <4> QED
        BY <4>3, <4>4
    <3>3. CASE ~HasFuture(s)
      BY <2>1, <2>2, <2>4, <2>6, <3>1, <3>3 DEF StateRight, Vacant
    <3> QED
      BY <3>2, <3>3
  <2> QED
    BY <1>1, <2>1, <2>2, <2>4, <2>5, <2>6 DEF HandlesIInv, HandlesTypeOK
<1> QED
  BY <1>3, <1>4

\* The calls, one by one: a promise makes its state,
LEMMA H_Promise_Construct ==
  ASSUME HandlesIInv, NEW p \in Promises, NEW o \in SharedStates, Promise_Construct(p, o)
  PROVE  HandlesIInv'
<1> USE HandlesDistinct
<1>1. /\ promiseState \in [Promises -> SharedStates \cup {NoState, Dead}]
      /\ futureState \in [Futures -> SharedStates \cup {NoState, Dead}]
      /\ shared \in [SharedStates -> StateRecords]
      /\ results \subseteq SharedStates /\ terminated = FALSE /\ terminated \in BOOLEAN
  BY DEF HandlesIInv, HandlesTypeOK, StateRecords, Promise_Construct, Unborn
<1>2. \A s \in SharedStates : HandlesSingle(s) /\ StateKept(s)
  BY <1>1 DEF HandlesIInv
<1>3. ~HasPromise(o) /\ ~HasFuture(o) /\ o \notin results
  BY <1>2 DEF StateKept, StateRight, Vacant, Promise_Construct
<1>4. promiseState' \in [Promises -> SharedStates \cup {NoState, Dead}]
  BY <1>1 DEF Promise_Construct, Unborn
<1>5. futureState' \in [Futures -> SharedStates \cup {NoState, Dead}]
  BY <1>1 DEF Promise_Construct, Unborn
<1>6. /\ shared' \in [SharedStates -> StateRecords]
      /\ results' \subseteq SharedStates /\ terminated' \in BOOLEAN
  BY <1>1 DEF Promise_Construct, Unborn, StateRecords, Fresh
<1>7. ASSUME NEW s \in SharedStates PROVE HandlesSingle(s)'
  BY <1>1, <1>2, <1>3 DEF HandlesSingle, HasPromise, Promise_Construct, Unborn
<1>8. ASSUME NEW s \in SharedStates PROVE HasPromise(s)' <=> HasPromise(s) \/ s = o
  BY <1>1, <1>2 DEF HasPromise, HandlesSingle, Promise_Construct, Unborn
<1>9. ASSUME NEW s \in SharedStates PROVE HasFuture(s)' <=> HasFuture(s)
  BY <1>1, <1>2 DEF HasFuture, HandlesSingle, Promise_Construct, Unborn
<1>10. ASSUME NEW s \in SharedStates, ~terminated' PROVE StateKept(s)'
  <2>1. CASE s = o
    <3>1. StateRight(Fresh, TRUE, FALSE, FALSE)
      BY DEF StateRight, Fresh
    <3>2. shared'[s] = Fresh /\ results' = results
      BY <1>1, <2>1 DEF Promise_Construct
    <3> QED
      BY <1>8, <1>9, <1>3, <2>1, <3>1, <3>2 DEF StateKept, StateRight
  <2>2. CASE s # o
    BY <1>1, <1>2, <1>8, <1>9, <2>2 DEF StateKept, StateRight, Promise_Construct
  <2> QED
    BY <2>1, <2>2
<1> QED
  BY <1>4, <1>5, <1>6, <1>7, <1>10 DEF HandlesIInv, HandlesTypeOK, StateRecords

\* is moved from,
LEMMA H_Promise_Move ==
  ASSUME HandlesIInv, NEW p \in Promises, NEW q \in Promises, Promise_Move(p, q)
  PROVE  HandlesIInv'
<1> USE HandlesDistinct
<1>1. /\ promiseState \in [Promises -> SharedStates \cup {NoState, Dead}]
      /\ futureState \in [Futures -> SharedStates \cup {NoState, Dead}]
      /\ shared \in [SharedStates -> StateRecords]
      /\ results \subseteq SharedStates /\ terminated = FALSE /\ terminated \in BOOLEAN
  BY DEF HandlesIInv, HandlesTypeOK, StateRecords, Promise_Move, Alive, Unborn
<1>2. \A s \in SharedStates : HandlesSingle(s) /\ StateKept(s)
  BY <1>1 DEF HandlesIInv
<1>3. promiseState' \in [Promises -> SharedStates \cup {NoState, Dead}]
  BY <1>1 DEF Promise_Move, Alive, Unborn
<1>4. futureState' \in [Futures -> SharedStates \cup {NoState, Dead}]
  BY <1>1 DEF Promise_Move, Alive, Unborn
<1>5. /\ shared' \in [SharedStates -> StateRecords]
      /\ results' \subseteq SharedStates /\ terminated' \in BOOLEAN
  BY <1>1 DEF Promise_Move, Alive, Unborn
<1>6. ASSUME NEW s \in SharedStates PROVE HandlesSingle(s)'
  BY <1>1, <1>2 DEF HandlesSingle, Promise_Move, Alive, Unborn
<1>7. ASSUME NEW s \in SharedStates PROVE HasPromise(s)' <=> HasPromise(s)
  BY <1>1, <1>2 DEF HasPromise, HandlesSingle, Promise_Move, Alive, Unborn
<1>8. ASSUME NEW s \in SharedStates PROVE HasFuture(s)' <=> HasFuture(s)
  BY <1>1, <1>2 DEF HasFuture, HandlesSingle, Promise_Move, Alive, Unborn
<1>9. ASSUME NEW s \in SharedStates, ~terminated' PROVE StateKept(s)'
  BY <1>1, <1>2, <1>7, <1>8 DEF StateKept, StateRight, Promise_Move, Alive, Unborn
<1> QED
  BY <1>3, <1>4, <1>5, <1>6, <1>9 DEF HandlesIInv, HandlesTypeOK, StateRecords

\* is swapped,
LEMMA H_Promise_Swap ==
  ASSUME HandlesIInv, NEW p \in Promises, NEW q \in Promises, Promise_Swap(p, q)
  PROVE  HandlesIInv'
<1> USE HandlesDistinct
<1>1. /\ promiseState \in [Promises -> SharedStates \cup {NoState, Dead}]
      /\ futureState \in [Futures -> SharedStates \cup {NoState, Dead}]
      /\ shared \in [SharedStates -> StateRecords]
      /\ results \subseteq SharedStates /\ terminated = FALSE /\ terminated \in BOOLEAN
  BY DEF HandlesIInv, HandlesTypeOK, StateRecords, Promise_Swap, Alive, Unborn
<1>2. \A s \in SharedStates : HandlesSingle(s) /\ StateKept(s)
  BY <1>1 DEF HandlesIInv
<1>3. promiseState' \in [Promises -> SharedStates \cup {NoState, Dead}]
  BY <1>1 DEF Promise_Swap, Alive, Unborn
<1>4. futureState' \in [Futures -> SharedStates \cup {NoState, Dead}]
  BY <1>1 DEF Promise_Swap, Alive, Unborn
<1>5. /\ shared' \in [SharedStates -> StateRecords]
      /\ results' \subseteq SharedStates /\ terminated' \in BOOLEAN
  BY <1>1 DEF Promise_Swap, Alive, Unborn
<1>6. ASSUME NEW s \in SharedStates PROVE HandlesSingle(s)'
  BY <1>1, <1>2 DEF HandlesSingle, Promise_Swap, Alive, Unborn
<1>7. ASSUME NEW s \in SharedStates PROVE HasPromise(s)' <=> HasPromise(s)
  BY <1>1, <1>2 DEF HasPromise, HandlesSingle, Promise_Swap, Alive, Unborn
<1>8. ASSUME NEW s \in SharedStates PROVE HasFuture(s)' <=> HasFuture(s)
  BY <1>1, <1>2 DEF HasFuture, HandlesSingle, Promise_Swap, Alive, Unborn
<1>9. ASSUME NEW s \in SharedStates, ~terminated' PROVE StateKept(s)'
  BY <1>1, <1>2, <1>7, <1>8 DEF StateKept, StateRight, Promise_Swap, Alive, Unborn
<1> QED
  BY <1>3, <1>4, <1>5, <1>6, <1>9 DEF HandlesIInv, HandlesTypeOK, StateRecords

\* A future is moved from,
LEMMA H_Future_Move ==
  ASSUME HandlesIInv, NEW f \in Futures, NEW g \in Futures, Future_Move(f, g)
  PROVE  HandlesIInv'
<1> USE HandlesDistinct
<1>1. /\ promiseState \in [Promises -> SharedStates \cup {NoState, Dead}]
      /\ futureState \in [Futures -> SharedStates \cup {NoState, Dead}]
      /\ shared \in [SharedStates -> StateRecords]
      /\ results \subseteq SharedStates /\ terminated = FALSE /\ terminated \in BOOLEAN
  BY DEF HandlesIInv, HandlesTypeOK, StateRecords, Future_Move, Alive, Unborn
<1>2. \A s \in SharedStates : HandlesSingle(s) /\ StateKept(s)
  BY <1>1 DEF HandlesIInv
<1>3. promiseState' \in [Promises -> SharedStates \cup {NoState, Dead}]
  BY <1>1 DEF Future_Move, Alive, Unborn
<1>4. futureState' \in [Futures -> SharedStates \cup {NoState, Dead}]
  BY <1>1 DEF Future_Move, Alive, Unborn
<1>5. /\ shared' \in [SharedStates -> StateRecords]
      /\ results' \subseteq SharedStates /\ terminated' \in BOOLEAN
  BY <1>1 DEF Future_Move, Alive, Unborn
<1>6. ASSUME NEW s \in SharedStates PROVE HandlesSingle(s)'
  BY <1>1, <1>2 DEF HandlesSingle, Future_Move, Alive, Unborn
<1>7. ASSUME NEW s \in SharedStates PROVE HasPromise(s)' <=> HasPromise(s)
  BY <1>1, <1>2 DEF HasPromise, HandlesSingle, Future_Move, Alive, Unborn
<1>8. ASSUME NEW s \in SharedStates PROVE HasFuture(s)' <=> HasFuture(s)
  BY <1>1, <1>2 DEF HasFuture, HandlesSingle, Future_Move, Alive, Unborn
<1>9. ASSUME NEW s \in SharedStates, ~terminated' PROVE StateKept(s)'
  BY <1>1, <1>2, <1>7, <1>8 DEF StateKept, StateRight, Future_Move, Alive, Unborn
<1> QED
  BY <1>3, <1>4, <1>5, <1>6, <1>9 DEF HandlesIInv, HandlesTypeOK, StateRecords

\* is swapped,
LEMMA H_Future_Swap ==
  ASSUME HandlesIInv, NEW f \in Futures, NEW g \in Futures, Future_Swap(f, g)
  PROVE  HandlesIInv'
<1> USE HandlesDistinct
<1>1. /\ promiseState \in [Promises -> SharedStates \cup {NoState, Dead}]
      /\ futureState \in [Futures -> SharedStates \cup {NoState, Dead}]
      /\ shared \in [SharedStates -> StateRecords]
      /\ results \subseteq SharedStates /\ terminated = FALSE /\ terminated \in BOOLEAN
  BY DEF HandlesIInv, HandlesTypeOK, StateRecords, Future_Swap, Alive, Unborn
<1>2. \A s \in SharedStates : HandlesSingle(s) /\ StateKept(s)
  BY <1>1 DEF HandlesIInv
<1>3. promiseState' \in [Promises -> SharedStates \cup {NoState, Dead}]
  BY <1>1 DEF Future_Swap, Alive, Unborn
<1>4. futureState' \in [Futures -> SharedStates \cup {NoState, Dead}]
  BY <1>1 DEF Future_Swap, Alive, Unborn
<1>5. /\ shared' \in [SharedStates -> StateRecords]
      /\ results' \subseteq SharedStates /\ terminated' \in BOOLEAN
  BY <1>1 DEF Future_Swap, Alive, Unborn
<1>6. ASSUME NEW s \in SharedStates PROVE HandlesSingle(s)'
  BY <1>1, <1>2 DEF HandlesSingle, Future_Swap, Alive, Unborn
<1>7. ASSUME NEW s \in SharedStates PROVE HasPromise(s)' <=> HasPromise(s)
  BY <1>1, <1>2 DEF HasPromise, HandlesSingle, Future_Swap, Alive, Unborn
<1>8. ASSUME NEW s \in SharedStates PROVE HasFuture(s)' <=> HasFuture(s)
  BY <1>1, <1>2 DEF HasFuture, HandlesSingle, Future_Swap, Alive, Unborn
<1>9. ASSUME NEW s \in SharedStates, ~terminated' PROVE StateKept(s)'
  BY <1>1, <1>2, <1>7, <1>8 DEF StateKept, StateRight, Future_Swap, Alive, Unborn
<1> QED
  BY <1>3, <1>4, <1>5, <1>6, <1>9 DEF HandlesIInv, HandlesTypeOK, StateRecords

\* is made without a state.
LEMMA H_Future_Default ==
  ASSUME HandlesIInv, NEW f \in Futures, Future_Default(f)
  PROVE  HandlesIInv'
<1> USE HandlesDistinct
<1>1. /\ promiseState \in [Promises -> SharedStates \cup {NoState, Dead}]
      /\ futureState \in [Futures -> SharedStates \cup {NoState, Dead}]
      /\ shared \in [SharedStates -> StateRecords]
      /\ results \subseteq SharedStates /\ terminated = FALSE /\ terminated \in BOOLEAN
  BY DEF HandlesIInv, HandlesTypeOK, StateRecords, Future_Default, Alive, Unborn
<1>2. \A s \in SharedStates : HandlesSingle(s) /\ StateKept(s)
  BY <1>1 DEF HandlesIInv
<1>3. promiseState' \in [Promises -> SharedStates \cup {NoState, Dead}]
  BY <1>1 DEF Future_Default, Alive, Unborn
<1>4. futureState' \in [Futures -> SharedStates \cup {NoState, Dead}]
  BY <1>1 DEF Future_Default, Alive, Unborn
<1>5. /\ shared' \in [SharedStates -> StateRecords]
      /\ results' \subseteq SharedStates /\ terminated' \in BOOLEAN
  BY <1>1 DEF Future_Default, Alive, Unborn
<1>6. ASSUME NEW s \in SharedStates PROVE HandlesSingle(s)'
  BY <1>1, <1>2 DEF HandlesSingle, Future_Default, Alive, Unborn
<1>7. ASSUME NEW s \in SharedStates PROVE HasPromise(s)' <=> HasPromise(s)
  BY <1>1, <1>2 DEF HasPromise, HandlesSingle, Future_Default, Alive, Unborn
<1>8. ASSUME NEW s \in SharedStates PROVE HasFuture(s)' <=> HasFuture(s)
  BY <1>1, <1>2 DEF HasFuture, HandlesSingle, Future_Default, Alive, Unborn
<1>9. ASSUME NEW s \in SharedStates, ~terminated' PROVE StateKept(s)'
  BY <1>1, <1>2, <1>7, <1>8 DEF StateKept, StateRight, Future_Default, Alive, Unborn
<1> QED
  BY <1>3, <1>4, <1>5, <1>6, <1>9 DEF HandlesIInv, HandlesTypeOK, StateRecords

\* A promise is destroyed,
LEMMA H_Promise_Destroy ==
  ASSUME HandlesIInv, NEW p \in Promises, Promise_Destroy(p)
  PROVE  HandlesIInv'
<1> USE HandlesDistinct
<1>1. /\ promiseState \in [Promises -> SharedStates \cup {NoState, Dead}]
      /\ futureState \in [Futures -> SharedStates \cup {NoState, Dead}]
      /\ shared \in [SharedStates -> StateRecords]
      /\ results \subseteq SharedStates /\ terminated = FALSE /\ terminated \in BOOLEAN
  BY DEF HandlesIInv, HandlesTypeOK, StateRecords, Promise_Destroy, Alive
<1>2. \A s \in SharedStates : HandlesSingle(s) /\ StateKept(s)
  BY <1>1 DEF HandlesIInv
<1>3. /\ promiseState[p] \in SharedStates \cup {NoState}
      /\ promiseState[p] \in SharedStates => HasPromise(promiseState[p])
      /\ Discard(promiseState[p])
  BY <1>1 DEF HasPromise, Promise_Destroy, Alive
<1>4. /\ shared' \in [SharedStates -> StateRecords] /\ results' \subseteq SharedStates
      /\ terminated' \in BOOLEAN
      /\ \/ terminated'
         \/ /\ \A u \in SharedStates : u # promiseState[p] =>
                   shared'[u] = shared[u] /\ (u \in results' <=> u \in results)
            /\ promiseState[p] \in SharedStates =>
                   StateRight(shared'[promiseState[p]], FALSE, HasFuture(promiseState[p]),
                              promiseState[p] \in results')
  BY <1>1, <1>3, H_Promise_Drops
<1>5. promiseState' \in [Promises -> SharedStates \cup {NoState, Dead}]
  BY <1>1 DEF Promise_Destroy, Alive
<1>6. futureState' \in [Futures -> SharedStates \cup {NoState, Dead}]
  BY <1>1 DEF Promise_Destroy, Alive
<1>7. /\ shared' \in [SharedStates -> StateRecords]
      /\ results' \subseteq SharedStates /\ terminated' \in BOOLEAN
  BY <1>4
<1>8. ASSUME NEW s \in SharedStates PROVE HandlesSingle(s)'
  BY <1>1, <1>2 DEF HandlesSingle, Promise_Destroy, Alive
<1>9. ASSUME NEW s \in SharedStates PROVE HasPromise(s)' <=> HasPromise(s) /\ s # promiseState[p]
  BY <1>1, <1>2 DEF HasPromise, HandlesSingle, Promise_Destroy, Alive
<1>10. ASSUME NEW s \in SharedStates PROVE HasFuture(s)' <=> HasFuture(s)
  BY <1>1, <1>2 DEF HasFuture, HandlesSingle, Promise_Destroy, Alive
<1>11. ASSUME NEW s \in SharedStates, ~terminated' PROVE StateKept(s)'
  <2>1. CASE s = promiseState[p]
    BY <1>9, <1>10, <1>11, <1>4, <2>1 DEF StateKept, StateRight
  <2>2. CASE s # promiseState[p]
    BY <1>2, <1>9, <1>10, <1>11, <1>4, <2>2 DEF StateKept, StateRight
  <2> QED
    BY <2>1, <2>2
<1> QED
  BY <1>5, <1>6, <1>7, <1>8, <1>11 DEF HandlesIInv, HandlesTypeOK, StateRecords

\* assigned,
LEMMA H_Promise_Assign ==
  ASSUME HandlesIInv, NEW p \in Promises, NEW q \in Promises, Promise_Assign(p, q)
  PROVE  HandlesIInv'
<1> USE HandlesDistinct
<1>1. /\ promiseState \in [Promises -> SharedStates \cup {NoState, Dead}]
      /\ futureState \in [Futures -> SharedStates \cup {NoState, Dead}]
      /\ shared \in [SharedStates -> StateRecords]
      /\ results \subseteq SharedStates /\ terminated = FALSE /\ terminated \in BOOLEAN
  BY DEF HandlesIInv, HandlesTypeOK, StateRecords, Promise_Assign, Alive
<1>2. \A s \in SharedStates : HandlesSingle(s) /\ StateKept(s)
  BY <1>1 DEF HandlesIInv
<1>3. /\ [promiseState EXCEPT ![q] = NoState][p] \in SharedStates \cup {NoState}
      /\ [promiseState EXCEPT ![q] = NoState][p] \in SharedStates =>
             HasPromise([promiseState EXCEPT ![q] = NoState][p])
      /\ Discard([promiseState EXCEPT ![q] = NoState][p])
  BY <1>1 DEF HasPromise, Promise_Assign, Alive
<1>4. /\ shared' \in [SharedStates -> StateRecords] /\ results' \subseteq SharedStates
      /\ terminated' \in BOOLEAN
      /\ \/ terminated'
         \/ /\ \A u \in SharedStates : u # [promiseState EXCEPT ![q] = NoState][p] =>
                   shared'[u] = shared[u] /\ (u \in results' <=> u \in results)
            /\ [promiseState EXCEPT ![q] = NoState][p] \in SharedStates =>
                   StateRight(shared'[[promiseState EXCEPT ![q] = NoState][p]], FALSE,
                              HasFuture([promiseState EXCEPT ![q]
                                  = NoState][p]), [promiseState EXCEPT ![q]
                                      = NoState][p] \in results')
  BY <1>1, <1>3, H_Promise_Drops
<1>5. promiseState' \in [Promises -> SharedStates \cup {NoState, Dead}]
  BY <1>1 DEF Promise_Assign, Alive
<1>6. futureState' \in [Futures -> SharedStates \cup {NoState, Dead}]
  BY <1>1 DEF Promise_Assign, Alive
<1>7. /\ shared' \in [SharedStates -> StateRecords]
      /\ results' \subseteq SharedStates /\ terminated' \in BOOLEAN
  BY <1>4
<1>8. ASSUME NEW s \in SharedStates PROVE HandlesSingle(s)'
  BY <1>1, <1>2 DEF HandlesSingle, Promise_Assign, Alive
<1>9. ASSUME NEW s \in SharedStates
      PROVE  HasPromise(s)' <=> HasPromise(s) /\ s # [promiseState EXCEPT ![q] = NoState][p]
  BY <1>1, <1>2 DEF HasPromise, HandlesSingle, Promise_Assign, Alive
<1>10. ASSUME NEW s \in SharedStates PROVE HasFuture(s)' <=> HasFuture(s)
  BY <1>1, <1>2 DEF HasFuture, HandlesSingle, Promise_Assign, Alive
<1>11. ASSUME NEW s \in SharedStates, ~terminated' PROVE StateKept(s)'
  <2>1. CASE s = [promiseState EXCEPT ![q] = NoState][p]
    BY <1>9, <1>10, <1>11, <1>4, <2>1 DEF StateKept, StateRight
  <2>2. CASE s # [promiseState EXCEPT ![q] = NoState][p]
    BY <1>2, <1>9, <1>10, <1>11, <1>4, <2>2 DEF StateKept, StateRight
  <2> QED
    BY <2>1, <2>2
<1> QED
  BY <1>5, <1>6, <1>7, <1>8, <1>11 DEF HandlesIInv, HandlesTypeOK, StateRecords

\* A future is destroyed,
LEMMA H_Future_Destroy ==
  ASSUME HandlesIInv, NEW f \in Futures, Future_Destroy(f)
  PROVE  HandlesIInv'
<1> USE HandlesDistinct
<1>1. /\ promiseState \in [Promises -> SharedStates \cup {NoState, Dead}]
      /\ futureState \in [Futures -> SharedStates \cup {NoState, Dead}]
      /\ shared \in [SharedStates -> StateRecords]
      /\ results \subseteq SharedStates /\ terminated = FALSE /\ terminated \in BOOLEAN
  BY DEF HandlesIInv, HandlesTypeOK, StateRecords, Future_Destroy, Alive
<1>2. \A s \in SharedStates : HandlesSingle(s) /\ StateKept(s)
  BY <1>1 DEF HandlesIInv
<1>3. /\ futureState[f] \in SharedStates \cup {NoState}
      /\ futureState[f] \in SharedStates => HasFuture(futureState[f])
      /\ Become(Dropped(shared, futureState[f]))
  BY <1>1 DEF HasFuture, Future_Destroy, Alive
<1>4. /\ shared' \in [SharedStates -> StateRecords] /\ results' \subseteq SharedStates
      /\ \A u \in SharedStates : u # futureState[f] =>
             shared'[u] = shared[u] /\ (u \in results' <=> u \in results)
      /\ futureState[f] \in SharedStates =>
             StateRight(shared'[futureState[f]], HasPromise(futureState[f]), FALSE,
                        futureState[f] \in results')
  BY <1>1, <1>3, H_Future_Drops
<1>5. promiseState' \in [Promises -> SharedStates \cup {NoState, Dead}]
  BY <1>1 DEF Future_Destroy, Alive
<1>6. futureState' \in [Futures -> SharedStates \cup {NoState, Dead}]
  BY <1>1 DEF Future_Destroy, Alive
<1>7. /\ shared' \in [SharedStates -> StateRecords]
      /\ results' \subseteq SharedStates /\ terminated' \in BOOLEAN
  BY <1>1, <1>4 DEF Future_Destroy, Alive
<1>8. ASSUME NEW s \in SharedStates PROVE HandlesSingle(s)'
  BY <1>1, <1>2 DEF HandlesSingle, Future_Destroy, Alive
<1>9. ASSUME NEW s \in SharedStates PROVE HasPromise(s)' <=> HasPromise(s)
  BY <1>1, <1>2 DEF HasPromise, HandlesSingle, Future_Destroy, Alive
<1>10. ASSUME NEW s \in SharedStates PROVE HasFuture(s)' <=> HasFuture(s) /\ s # futureState[f]
  BY <1>1, <1>2 DEF HasFuture, HandlesSingle, Future_Destroy, Alive
<1>11. ASSUME NEW s \in SharedStates, ~terminated' PROVE StateKept(s)'
  <2>1. CASE s = futureState[f]
    BY <1>9, <1>10, <1>4, <2>1 DEF StateKept, StateRight
  <2>2. CASE s # futureState[f]
    BY <1>2, <1>9, <1>10, <1>4, <2>2 DEF StateKept, StateRight
  <2> QED
    BY <2>1, <2>2
<1> QED
  BY <1>5, <1>6, <1>7, <1>8, <1>11 DEF HandlesIInv, HandlesTypeOK, StateRecords

\* gives its result away,
LEMMA H_Future_Get ==
  ASSUME HandlesIInv, NEW f \in Futures, Future_Get(f)
  PROVE  HandlesIInv'
<1> USE HandlesDistinct
<1>1. /\ promiseState \in [Promises -> SharedStates \cup {NoState, Dead}]
      /\ futureState \in [Futures -> SharedStates \cup {NoState, Dead}]
      /\ shared \in [SharedStates -> StateRecords]
      /\ results \subseteq SharedStates /\ terminated = FALSE /\ terminated \in BOOLEAN
  BY DEF HandlesIInv, HandlesTypeOK, StateRecords, Future_Get, Alive
<1>2. \A s \in SharedStates : HandlesSingle(s) /\ StateKept(s)
  BY <1>1 DEF HandlesIInv
<1>3. /\ futureState[f] \in SharedStates \cup {NoState}
      /\ futureState[f] \in SharedStates => HasFuture(futureState[f])
      /\ Become(Dropped(shared, futureState[f]))
  BY <1>1 DEF HasFuture, Future_Get, Alive
<1>4. /\ shared' \in [SharedStates -> StateRecords] /\ results' \subseteq SharedStates
      /\ \A u \in SharedStates : u # futureState[f] =>
             shared'[u] = shared[u] /\ (u \in results' <=> u \in results)
      /\ futureState[f] \in SharedStates =>
             StateRight(shared'[futureState[f]], HasPromise(futureState[f]), FALSE,
                        futureState[f] \in results')
  BY <1>1, <1>3, H_Future_Drops
<1>5. promiseState' \in [Promises -> SharedStates \cup {NoState, Dead}]
  BY <1>1 DEF Future_Get, Alive
<1>6. futureState' \in [Futures -> SharedStates \cup {NoState, Dead}]
  BY <1>1 DEF Future_Get, Alive
<1>7. /\ shared' \in [SharedStates -> StateRecords]
      /\ results' \subseteq SharedStates /\ terminated' \in BOOLEAN
  BY <1>1, <1>4 DEF Future_Get, Alive
<1>8. ASSUME NEW s \in SharedStates PROVE HandlesSingle(s)'
  BY <1>1, <1>2 DEF HandlesSingle, Future_Get, Alive
<1>9. ASSUME NEW s \in SharedStates PROVE HasPromise(s)' <=> HasPromise(s)
  BY <1>1, <1>2 DEF HasPromise, HandlesSingle, Future_Get, Alive
<1>10. ASSUME NEW s \in SharedStates PROVE HasFuture(s)' <=> HasFuture(s) /\ s # futureState[f]
  BY <1>1, <1>2 DEF HasFuture, HandlesSingle, Future_Get, Alive
<1>11. ASSUME NEW s \in SharedStates, ~terminated' PROVE StateKept(s)'
  <2>1. CASE s = futureState[f]
    BY <1>9, <1>10, <1>4, <2>1 DEF StateKept, StateRight
  <2>2. CASE s # futureState[f]
    BY <1>2, <1>9, <1>10, <1>4, <2>2 DEF StateKept, StateRight
  <2> QED
    BY <2>1, <2>2
<1> QED
  BY <1>5, <1>6, <1>7, <1>8, <1>11 DEF HandlesIInv, HandlesTypeOK, StateRecords

\* is assigned.
LEMMA H_Future_Assign ==
  ASSUME HandlesIInv, NEW f \in Futures, NEW g \in Futures, Future_Assign(f, g)
  PROVE  HandlesIInv'
<1> USE HandlesDistinct
<1>1. /\ promiseState \in [Promises -> SharedStates \cup {NoState, Dead}]
      /\ futureState \in [Futures -> SharedStates \cup {NoState, Dead}]
      /\ shared \in [SharedStates -> StateRecords]
      /\ results \subseteq SharedStates /\ terminated = FALSE /\ terminated \in BOOLEAN
  BY DEF HandlesIInv, HandlesTypeOK, StateRecords, Future_Assign, Alive
<1>2. \A s \in SharedStates : HandlesSingle(s) /\ StateKept(s)
  BY <1>1 DEF HandlesIInv
<1>3. /\ futureState[f] \in SharedStates \cup {NoState}
      /\ futureState[f] \in SharedStates => HasFuture(futureState[f])
      /\ Become(Dropped(shared, futureState[f]))
  BY <1>1 DEF HasFuture, Future_Assign, Alive
<1>4. /\ shared' \in [SharedStates -> StateRecords] /\ results' \subseteq SharedStates
      /\ \A u \in SharedStates : u # futureState[f] =>
             shared'[u] = shared[u] /\ (u \in results' <=> u \in results)
      /\ futureState[f] \in SharedStates =>
             StateRight(shared'[futureState[f]], HasPromise(futureState[f]), FALSE,
                        futureState[f] \in results')
  BY <1>1, <1>3, H_Future_Drops
<1>5. promiseState' \in [Promises -> SharedStates \cup {NoState, Dead}]
  BY <1>1 DEF Future_Assign, Alive
<1>6. futureState' \in [Futures -> SharedStates \cup {NoState, Dead}]
  BY <1>1 DEF Future_Assign, Alive
<1>7. /\ shared' \in [SharedStates -> StateRecords]
      /\ results' \subseteq SharedStates /\ terminated' \in BOOLEAN
  BY <1>1, <1>4 DEF Future_Assign, Alive
<1>8. ASSUME NEW s \in SharedStates PROVE HandlesSingle(s)'
  BY <1>1, <1>2 DEF HandlesSingle, Future_Assign, Alive
<1>9. ASSUME NEW s \in SharedStates PROVE HasPromise(s)' <=> HasPromise(s)
  BY <1>1, <1>2 DEF HasPromise, HandlesSingle, Future_Assign, Alive
<1>10. ASSUME NEW s \in SharedStates PROVE HasFuture(s)' <=> HasFuture(s) /\ s # futureState[f]
  BY <1>1, <1>2 DEF HasFuture, HandlesSingle, Future_Assign, Alive
<1>11. ASSUME NEW s \in SharedStates, ~terminated' PROVE StateKept(s)'
  <2>1. CASE s = futureState[f]
    BY <1>9, <1>10, <1>4, <2>1 DEF StateKept, StateRight
  <2>2. CASE s # futureState[f]
    BY <1>2, <1>9, <1>10, <1>4, <2>2 DEF StateKept, StateRight
  <2> QED
    BY <2>1, <2>2
<1> QED
  BY <1>5, <1>6, <1>7, <1>8, <1>11 DEF HandlesIInv, HandlesTypeOK, StateRecords

\* get_future(), once
LEMMA H_Promise_GetFuture ==
  ASSUME HandlesIInv, NEW p \in Promises, NEW f \in Futures, Promise_GetFuture(p, f)
  PROVE  HandlesIInv'
<1> USE HandlesDistinct
<1>1. /\ promiseState \in [Promises -> SharedStates \cup {NoState, Dead}]
      /\ futureState \in [Futures -> SharedStates \cup {NoState, Dead}]
      /\ shared \in [SharedStates -> StateRecords]
      /\ results \subseteq SharedStates /\ terminated = FALSE /\ terminated \in BOOLEAN
  BY DEF HandlesIInv, HandlesTypeOK, StateRecords, Promise_GetFuture, Alive, Unborn
<1>2. \A s \in SharedStates : HandlesSingle(s) /\ StateKept(s)
  BY <1>1 DEF HandlesIInv
<1>3. /\ promiseState[p] \in SharedStates /\ HasPromise(promiseState[p])
             /\ "FutureAttached" \notin shared[promiseState[p]].flags
      /\ shared' = Shared(Attached(shared, promiseState[p]), promiseState[p])
             /\ results' = results /\ UNCHANGED terminated
  BY <1>1 DEF HasPromise, Promise_GetFuture, Alive, Unborn
<1>4. StateRight(shared[promiseState[p]], TRUE, FALSE, promiseState[p] \in results)
          /\ ~HasFuture(promiseState[p])
  BY <1>2, <1>3 DEF StateKept, StateRight
<1>5. /\ shared' \in [SharedStates -> StateRecords]
      /\ \A u \in SharedStates : u # promiseState[p] => shared'[u] = shared[u]
      /\ shared'[promiseState[p]] = [refs |-> shared[promiseState[p]].refs + 1,
                                     exc |-> shared[promiseState[p]].exc,
            flags |-> shared[promiseState[p]].flags \cup {"FutureAttached"}]
  <2>1. shared[promiseState[p]].refs < 2
    BY <1>4 DEF StateRight
  <2> QED
    BY <1>1, <1>3, <2>1, H_Shared
<1>6. promiseState' \in [Promises -> SharedStates \cup {NoState, Dead}]
  BY <1>1 DEF Promise_GetFuture, Alive, Unborn
<1>7. futureState' \in [Futures -> SharedStates \cup {NoState, Dead}]
  BY <1>1 DEF Promise_GetFuture, Alive, Unborn
<1>8. /\ shared' \in [SharedStates -> StateRecords]
      /\ results' \subseteq SharedStates /\ terminated' \in BOOLEAN
  BY <1>1, <1>3, <1>5
<1>9. ASSUME NEW s \in SharedStates PROVE HandlesSingle(s)'
  BY <1>1, <1>2, <1>4 DEF HandlesSingle, HasFuture, Promise_GetFuture, Alive, Unborn
<1>10. ASSUME NEW s \in SharedStates PROVE HasPromise(s)' <=> HasPromise(s)
  BY <1>1, <1>2 DEF HasPromise, HandlesSingle, Promise_GetFuture, Alive, Unborn
<1>11. ASSUME NEW s \in SharedStates PROVE HasFuture(s)' <=> HasFuture(s) \/ s = promiseState[p]
  BY <1>1, <1>2 DEF HasFuture, HandlesSingle, Promise_GetFuture, Alive, Unborn
<1>12. ASSUME NEW s \in SharedStates, ~terminated' PROVE StateKept(s)'
  <2>1. CASE s = promiseState[p]
    <3>1. StateRight(shared'[s], TRUE, TRUE, s \in results)
      BY <1>4, <1>5, <2>1 DEF StateRight
    <3> QED
      BY <1>10, <1>11, <1>3, <2>1, <3>1 DEF StateKept, StateRight
  <2>2. CASE s # promiseState[p]
    BY <1>2, <1>10, <1>11, <1>3, <1>5, <2>2 DEF StateKept, StateRight
  <2> QED
    BY <2>1, <2>2
<1> QED
  BY <1>6, <1>7, <1>8, <1>9, <1>12 DEF HandlesIInv, HandlesTypeOK, StateRecords

\* set_value() and set_exception(), once
LEMMA H_Promise_Set ==
  ASSUME HandlesIInv, NEW p \in Promises, Promise_Set(p)
  PROVE  HandlesIInv'
<1> USE HandlesDistinct
<1>1. /\ promiseState \in [Promises -> SharedStates \cup {NoState, Dead}]
      /\ futureState \in [Futures -> SharedStates \cup {NoState, Dead}]
      /\ shared \in [SharedStates -> StateRecords]
      /\ results \subseteq SharedStates /\ terminated = FALSE /\ terminated \in BOOLEAN
  BY DEF HandlesIInv, HandlesTypeOK, StateRecords, Promise_Set, Alive
<1>2. \A s \in SharedStates : HandlesSingle(s) /\ StateKept(s)
  BY <1>1 DEF HandlesIInv
<1>3. /\ promiseState[p] \in SharedStates /\ HasPromise(promiseState[p])
             /\ "BeingSatisfied" \notin shared[promiseState[p]].flags
      /\ \/ shared' = Satisfied_Value(shared, promiseState[p])
                /\ results' = results \cup {promiseState[p]}
         \/ shared' = Satisfied_Throws(shared, promiseState[p]) /\ results' = results
         \/ shared' = Failed(shared, promiseState[p], "exception") /\ results' = results
      /\ UNCHANGED terminated
  BY <1>1 DEF HasPromise, Settable, Promise_Set, Alive
<1>4. StateRight(shared[promiseState[p]], TRUE, HasFuture(promiseState[p]),
                 promiseState[p] \in results)
  BY <1>2, <1>3 DEF StateKept, StateRight
<1>5. /\ shared' \in [SharedStates -> StateRecords]
      /\ \A u \in SharedStates : u # promiseState[p] =>
             shared'[u] = shared[u] /\ (u \in results' <=> u \in results)
      /\ StateRight(shared'[promiseState[p]], TRUE, HasFuture(promiseState[p]),
                    promiseState[p] \in results')
  <2>1. CASE shared' = Satisfied_Value(shared, promiseState[p])
            /\ results' = results \cup {promiseState[p]}
    <3>1. promiseState[p] \in SharedStates /\ shared \in [SharedStates -> StateRecords]
      BY <1>1, <1>3
    <3>2. ASSUME NEW o \in SharedStates
          PROVE  /\ Satisfied_Value(shared, o) \in [SharedStates -> StateRecords]
                 /\ \A u \in SharedStates : u # o => Satisfied_Value(shared, o)[u] = shared[u]
                 /\ Satisfied_Value(shared, o)[o] = [refs |-> shared[o].refs, exc |-> shared[o].exc,
                       flags |-> shared[o].flags \cup {"BeingSatisfied", "ValueConstructed",
                                                       "Ready"}]
      BY <1>1, H_Satisfied_Value
    <3>3. /\ Satisfied_Value(shared, promiseState[p]) \in [SharedStates -> StateRecords]
          /\ \A u \in SharedStates : u # promiseState[p] =>
                 Satisfied_Value(shared, promiseState[p])[u] = shared[u]
          /\ Satisfied_Value(shared,
                             promiseState[p])[promiseState[p]]
                                 = [refs |-> shared[promiseState[p]].refs,
                                    exc |-> shared[promiseState[p]].exc,
                flags |-> shared[promiseState[p]].flags \cup {"BeingSatisfied",
                                                              "ValueConstructed", "Ready"}]
      BY <3>1, <3>2
    <3>4. /\ shared' \in [SharedStates -> StateRecords]
          /\ \A u \in SharedStates : u # promiseState[p] => shared'[u] = shared[u]
          /\ shared'[promiseState[p]] = [refs |-> shared[promiseState[p]].refs,
                                         exc |-> shared[promiseState[p]].exc,
                flags |-> shared[promiseState[p]].flags \cup {"BeingSatisfied",
                                                              "ValueConstructed", "Ready"}]
      BY <2>1, <3>3
    <3>5. (promiseState[p] \in results' <=> TRUE) /\ results' \subseteq SharedStates
          /\ \A u \in SharedStates : u # promiseState[p] => (u \in results' <=> u \in results)
      BY <1>1, <1>3, <2>1
    <3>6. StateRight(shared'[promiseState[p]], TRUE, HasFuture(promiseState[p]),
                     promiseState[p] \in results')
      BY <1>3, <1>4, <3>4, <3>5 DEF StateRight
    <3> QED
      BY <1>3, <3>4, <3>5, <3>6
  <2>2. CASE shared' = Satisfied_Throws(shared, promiseState[p]) /\ results' = results
    <3>1. promiseState[p] \in SharedStates /\ shared \in [SharedStates -> StateRecords]
      BY <1>1, <1>3
    <3>2. ASSUME NEW o \in SharedStates
          PROVE  /\ Satisfied_Throws(shared, o) \in [SharedStates -> StateRecords]
                 /\ \A u \in SharedStates : u # o => Satisfied_Throws(shared, o)[u] = shared[u]
                 /\ Satisfied_Throws(shared, o)[o] = [refs |-> shared[o].refs,
                                                      exc |-> shared[o].exc,
                       flags |-> shared[o].flags \cup {"BeingSatisfied"}]
      BY <1>1, H_Satisfied_Throws
    <3>3. /\ Satisfied_Throws(shared, promiseState[p]) \in [SharedStates -> StateRecords]
          /\ \A u \in SharedStates : u # promiseState[p] =>
                 Satisfied_Throws(shared, promiseState[p])[u] = shared[u]
          /\ Satisfied_Throws(shared,
                              promiseState[p])[promiseState[p]]
                                  = [refs |-> shared[promiseState[p]].refs,
                                     exc |-> shared[promiseState[p]].exc,
                flags |-> shared[promiseState[p]].flags \cup {"BeingSatisfied"}]
      BY <3>1, <3>2
    <3>4. /\ shared' \in [SharedStates -> StateRecords]
          /\ \A u \in SharedStates : u # promiseState[p] => shared'[u] = shared[u]
          /\ shared'[promiseState[p]] = [refs |-> shared[promiseState[p]].refs,
                                         exc |-> shared[promiseState[p]].exc,
                flags |-> shared[promiseState[p]].flags \cup {"BeingSatisfied"}]
      BY <2>2, <3>3
    <3>5. (promiseState[p] \in results' <=>
              promiseState[p] \in results) /\ results' \subseteq SharedStates
          /\ \A u \in SharedStates : u # promiseState[p] => (u \in results' <=> u \in results)
      BY <1>1, <1>3, <2>2
    <3>6. StateRight(shared'[promiseState[p]], TRUE, HasFuture(promiseState[p]),
                     promiseState[p] \in results')
      BY <1>3, <1>4, <3>4, <3>5 DEF StateRight
    <3> QED
      BY <1>3, <3>4, <3>5, <3>6
  <2>3. CASE shared' = Failed(shared, promiseState[p], "exception") /\ results' = results
    <3>1. promiseState[p] \in SharedStates /\ shared \in [SharedStates -> StateRecords]
      BY <1>1, <1>3
    <3>2. ASSUME NEW o \in SharedStates
          PROVE  /\ Failed(shared, o, "exception") \in [SharedStates -> StateRecords]
                 /\ \A u \in SharedStates : u # o => Failed(shared, o, "exception")[u] = shared[u]
                 /\ Failed(shared, o, "exception")[o] = [refs |-> shared[o].refs,
                                                         exc |-> "exception",
                       flags |-> shared[o].flags \cup {"BeingSatisfied", "Ready"}]
      BY <1>1, H_Failed
    <3>3. /\ Failed(shared, promiseState[p], "exception") \in [SharedStates -> StateRecords]
          /\ \A u \in SharedStates : u # promiseState[p] =>
                 Failed(shared, promiseState[p], "exception")[u] = shared[u]
          /\ Failed(shared, promiseState[p],
                    "exception")[promiseState[p]] = [refs |-> shared[promiseState[p]].refs,
                                                     exc |-> "exception",
                flags |-> shared[promiseState[p]].flags \cup {"BeingSatisfied", "Ready"}]
      BY <3>1, <3>2
    <3>4. /\ shared' \in [SharedStates -> StateRecords]
          /\ \A u \in SharedStates : u # promiseState[p] => shared'[u] = shared[u]
          /\ shared'[promiseState[p]] = [refs |-> shared[promiseState[p]].refs, exc |-> "exception",
                flags |-> shared[promiseState[p]].flags \cup {"BeingSatisfied", "Ready"}]
      BY <2>3, <3>3
    <3>5. (promiseState[p] \in results' <=>
              promiseState[p] \in results) /\ results' \subseteq SharedStates
          /\ \A u \in SharedStates : u # promiseState[p] => (u \in results' <=> u \in results)
      BY <1>1, <1>3, <2>3
    <3>6. StateRight(shared'[promiseState[p]], TRUE, HasFuture(promiseState[p]),
                     promiseState[p] \in results')
      BY <1>3, <1>4, <3>4, <3>5 DEF StateRight
    <3> QED
      BY <1>3, <3>4, <3>5, <3>6
  <2> QED
    BY <1>3, <2>1, <2>2, <2>3
<1>6. promiseState' \in [Promises -> SharedStates \cup {NoState, Dead}]
  BY <1>1 DEF Promise_Set, Alive
<1>7. futureState' \in [Futures -> SharedStates \cup {NoState, Dead}]
  BY <1>1 DEF Promise_Set, Alive
<1>8. /\ shared' \in [SharedStates -> StateRecords]
      /\ results' \subseteq SharedStates /\ terminated' \in BOOLEAN
  BY <1>1, <1>3, <1>5
<1>9. ASSUME NEW s \in SharedStates PROVE HandlesSingle(s)'
  BY <1>1, <1>2 DEF HandlesSingle, Promise_Set, Alive
<1>10. ASSUME NEW s \in SharedStates PROVE HasPromise(s)' <=> HasPromise(s)
  BY <1>1, <1>2 DEF HasPromise, HandlesSingle, Promise_Set, Alive
<1>11. ASSUME NEW s \in SharedStates PROVE HasFuture(s)' <=> HasFuture(s)
  BY <1>1, <1>2 DEF HasFuture, HandlesSingle, Promise_Set, Alive
<1>12. ASSUME NEW s \in SharedStates, ~terminated' PROVE StateKept(s)'
  <2>1. CASE s = promiseState[p]
    BY <1>10, <1>11, <1>3, <1>5, <2>1 DEF StateKept, StateRight
  <2>2. CASE s # promiseState[p]
    BY <1>2, <1>10, <1>11, <1>3, <1>5, <2>2 DEF StateKept, StateRight
  <2> QED
    BY <2>1, <2>2
<1> QED
  BY <1>6, <1>7, <1>8, <1>9, <1>12 DEF HandlesIInv, HandlesTypeOK, StateRecords

\* A future with an exception.
LEMMA H_MakeExceptionalFuture ==
  ASSUME HandlesIInv, NEW f \in Futures, NEW o \in SharedStates, MakeExceptionalFuture(f, o)
  PROVE  HandlesIInv'
<1> USE HandlesDistinct
<1>1. /\ promiseState \in [Promises -> SharedStates \cup {NoState, Dead}]
      /\ futureState \in [Futures -> SharedStates \cup {NoState, Dead}]
      /\ shared \in [SharedStates -> StateRecords]
      /\ results \subseteq SharedStates /\ terminated = FALSE /\ terminated \in BOOLEAN
  BY DEF HandlesIInv, HandlesTypeOK, StateRecords, MakeExceptionalFuture, Unborn
<1>2. \A s \in SharedStates : HandlesSingle(s) /\ StateKept(s)
  BY <1>1 DEF HandlesIInv
<1>3. ~HasPromise(o) /\ ~HasFuture(o) /\ o \notin results /\ results' = results
          /\ UNCHANGED terminated
  BY <1>2 DEF StateKept, StateRight, Vacant, MakeExceptionalFuture
<1> DEFINE new == [shared EXCEPT ![o] = Fresh]
           set == Failed(new, o, "exception")
           two == Shared(Attached(set, o), o)
<1>4. shared' = Broken(two, o)
  BY DEF MakeExceptionalFuture
<1>5. /\ new \in [SharedStates -> StateRecords] /\ new[o] = Fresh
      /\ \A u \in SharedStates : u # o => new[u] = shared[u]
  BY <1>1 DEF StateRecords, Fresh
<1> HIDE DEF new
<1>6. /\ set \in [SharedStates -> StateRecords]
      /\ set[o] = [refs |-> 1, exc |-> "exception", flags |-> {"BeingSatisfied", "Ready"}]
      /\ \A u \in SharedStates : u # o => set[u] = shared[u]
  <2>1. /\ set \in [SharedStates -> StateRecords]
        /\ \A u \in SharedStates : u # o => set[u] = new[u]
        /\ set[o] = [refs |-> new[o].refs, exc |-> "exception",
                     flags |-> new[o].flags \cup {"BeingSatisfied", "Ready"}]
    BY <1>5, H_Failed
  <2> HIDE DEF set
  <2>2. new[o].refs = 1 /\ new[o].flags = {}
    BY <1>5 DEF Fresh
  <2>3. new[o].flags \cup {"BeingSatisfied", "Ready"} = {"BeingSatisfied", "Ready"}
    BY <2>2
  <2> QED
    BY <1>5, <2>1, <2>2, <2>3
<1> HIDE DEF set
<1>7. /\ two \in [SharedStates -> StateRecords]
      /\ two[o] = [refs |-> 2, exc |-> "exception", flags |-> {"BeingSatisfied", "Ready",
                                                               "FutureAttached"}]
      /\ \A u \in SharedStates : u # o => two[u] = shared[u]
  <2>1. set[o].refs = 1
    BY <1>6
  <2>2. set[o].flags \cup {"FutureAttached"} = {"BeingSatisfied", "Ready", "FutureAttached"}
    BY <1>6
  <2> QED
    BY <1>6, <2>1, <2>2, H_Shared
<1> HIDE DEF two
<1>8. Broken(two, o) = Dropped(two, o)
  BY <1>7 DEF Broken, Breaks
<1>9. /\ shared' \in [SharedStates -> StateRecords]
      /\ shared'[o] = [refs |-> 1, exc |-> "exception", flags |-> {"BeingSatisfied", "Ready",
                                                                   "FutureAttached"}]
      /\ \A u \in SharedStates : u # o => shared'[u] = shared[u]
  BY <1>4, <1>7, <1>8, H_Dropped
<1>10. promiseState' \in [Promises -> SharedStates \cup {NoState, Dead}]
  BY <1>1 DEF MakeExceptionalFuture, Unborn
<1>11. futureState' \in [Futures -> SharedStates \cup {NoState, Dead}]
  BY <1>1 DEF MakeExceptionalFuture, Unborn
<1>12. /\ shared' \in [SharedStates -> StateRecords]
      /\ results' \subseteq SharedStates /\ terminated' \in BOOLEAN
  BY <1>1, <1>3, <1>9
<1>13. ASSUME NEW s \in SharedStates PROVE HandlesSingle(s)'
  BY <1>1, <1>2, <1>3 DEF HandlesSingle, HasFuture, MakeExceptionalFuture, Unborn
<1>14. ASSUME NEW s \in SharedStates PROVE HasPromise(s)' <=> HasPromise(s)
  BY <1>1, <1>2 DEF HasPromise, HandlesSingle, MakeExceptionalFuture, Unborn
<1>15. ASSUME NEW s \in SharedStates PROVE HasFuture(s)' <=> HasFuture(s) \/ s = o
  BY <1>1, <1>2 DEF HasFuture, HandlesSingle, MakeExceptionalFuture, Unborn
<1>16. ASSUME NEW s \in SharedStates, ~terminated' PROVE StateKept(s)'
  <2>1. CASE s = o
    <3>1. StateRight(shared'[o], FALSE, TRUE, FALSE)
      BY <1>9 DEF StateRight
    <3> QED
      BY <1>14, <1>15, <1>3, <2>1, <3>1 DEF StateKept, StateRight
  <2>2. CASE s # o
    BY <1>2, <1>14, <1>15, <1>3, <1>9, <2>2 DEF StateKept, StateRight
  <2> QED
    BY <2>1, <2>2
<1> QED
  BY <1>10, <1>11, <1>12, <1>13, <1>16 DEF HandlesIInv, HandlesTypeOK, StateRecords

\* There are no states yet.
LEMMA H_Init == HandlesInit => HandlesIInv
<1> SUFFICES ASSUME HandlesInit PROVE HandlesIInv
  OBVIOUS
<1> USE HandlesDistinct DEF HandlesInit
<1>1. HandlesTypeOK
  <2>1. Vacant \in StateRecords
    BY DEF Vacant, StateRecords
  <2>2. shared \in [SharedStates -> StateRecords]
    BY <2>1
  <2> QED
    BY <2>2 DEF HandlesTypeOK, StateRecords
<1>2. ASSUME NEW s \in SharedStates PROVE HandlesSingle(s) /\ StateKept(s)
  BY DEF HandlesSingle, StateKept, StateRight, HasPromise, HasFuture, Vacant
<1> QED
  BY <1>1, <1>2 DEF HandlesIInv

\* HandlesIInv is inductive.
LEMMA H_Next == HandlesIInv /\ [HandlesNext]_handleVars => HandlesIInv'
<1> SUFFICES ASSUME HandlesIInv, [HandlesNext]_handleVars PROVE HandlesIInv'
  OBVIOUS
<1>1. CASE PromisesNext
  BY <1>1, H_Promise_Destroy, H_Promise_Set, H_Promise_Construct, H_Promise_Move, H_Promise_Assign,
     H_Promise_Swap, H_Promise_GetFuture, H_MakeExceptionalFuture DEF PromisesNext
<1>2. CASE FuturesNext
  BY <1>2, H_Future_Default, H_Future_Destroy, H_Future_Get, H_Future_Move, H_Future_Assign,
     H_Future_Swap DEF FuturesNext
<1>3. CASE UNCHANGED handleVars
  BY <1>3 DEF handleVars, HandlesIInv, HandlesTypeOK, HandlesSingle, StateKept, HasPromise,
     HasFuture
<1> QED
  BY <1>1, <1>2, <1>3 DEF HandlesNext

\* The invariant is what HandlesExact asks for.
LEMMA H_Exact == HandlesIInv => HandlesExact
<1> SUFFICES ASSUME HandlesIInv, ~terminated, NEW s \in SharedStates
             PROVE  /\ Cardinality(PromisesOf(s)) <= 1 /\ Cardinality(FuturesOf(s)) <= 1
                    /\ shared[s].refs = Cardinality(PromisesOf(s)) + Cardinality(FuturesOf(s))
                    /\ s \in results <=>
                           shared[s].refs > 0 /\ "ValueConstructed" \in shared[s].flags
                    /\ shared[s].refs > 0 /\ PromisesOf(s) = {} => "Ready" \in shared[s].flags
                    /\ "Ready" \in shared[s].flags => (s \in results <=> shared[s].exc = "none")
  BY DEF HandlesExact
<1>1. HandlesSingle(s) /\ StateKept(s)
  BY DEF HandlesIInv
<1>2. ASSUME NEW S, \A x, y \in S : x = y
      PROVE  Cardinality(S) = IF S = {} THEN 0 ELSE 1
  <2>1. CASE S = {}
    BY <2>1, FS_EmptySet
  <2>2. ASSUME NEW x \in S PROVE Cardinality(S) = 1
    <3>1. S = {x}
      BY <1>2, <2>2
    <3> QED
      BY <3>1, FS_Singleton
  <2> QED
    BY <2>1, <2>2
<1>3. Cardinality(PromisesOf(s)) = IF PromisesOf(s) = {} THEN 0 ELSE 1
  BY <1>1, <1>2 DEF PromisesOf, HandlesSingle
<1>4. Cardinality(FuturesOf(s)) = IF FuturesOf(s) = {} THEN 0 ELSE 1
  BY <1>1, <1>2 DEF FuturesOf, HandlesSingle
<1>5. (HasPromise(s) <=> PromisesOf(s) # {}) /\ (HasFuture(s) <=> FuturesOf(s) # {})
  BY DEF HasPromise, HasFuture, PromisesOf, FuturesOf
<1> QED
  BY <1>1, <1>3, <1>4, <1>5 DEF StateKept, StateRight, Vacant

\* Promises and futures own a state together: it lives as long as one of them refers to
\* it, and its result is there, once, for a future that has it (_cmsis_rtos/_future.hpp).
THEOREM HandlesCorrect == HandlesSpec => [](HandlesTypeOK /\ HandlesExact)
<1>1. HandlesIInv => HandlesTypeOK /\ HandlesExact
  BY H_Exact DEF HandlesIInv
<1> QED
  BY <1>1, H_Init, H_Next, PTL DEF HandlesSpec
-----------------------------------------------------------------------------
(* ScopeGuard. *)

\* A frame runs, is left, or is unwound.
ScopeModes == {"runs", "left", "unwound"}
\* What a frame runs.
ScopeSorts == {"scope", "noexcept", "throws"}
\* A guard.
ScopeGuards == [kind : Kinds_Scope, dismissed : BOOLEAN, numExceptions : 0 .. MaxUncaught,
                moved : BOOLEAN]
\* A frame, with its guards.
ScopeFrames == [sort : ScopeSorts, catches : BOOLEAN, mode : ScopeModes, guards : Seq(ScopeGuards)]

\* How many of the first n frames are unwound.
Unwinding(fs, n) == Cardinality({j \in 1 .. n : fs[j].mode = "unwound"})

\* A frame up to n catches what frame n throws, and no noexcept callable is in between.
Catchable(fs, n) ==
  \E i \in 1 .. n : fs[i].catches /\ \A j \in i .. n : fs[j].sort # "noexcept"

\* An exception will be caught; and a frame that it unwinds has only noexcept callables on it.
UnwindingShape(fs) ==
  /\ \A n \in 1 .. Len(fs) : fs[n].mode = "unwound" => Catchable(fs, n)
  /\ \A n \in 1 .. Len(fs) - 1 : fs[n].mode = "unwound" => fs[n + 1].sort = "noexcept"

\* A guard was made when n exceptions were under way. Only guards for any exit are moved.
GuardRight(g, n) == /\ g.moved => g.kind = "exit" /\ g.dismissed
                    /\ g.kind # "exit" => g.numExceptions = n

\* All guards know how many exceptions their frame was entered with.
GuardsRight(fs) == \A i \in 1 .. Len(fs) : \A k \in 1 .. Len(fs[i].guards) :
                     GuardRight(fs[i].guards[k], Unwinding(fs, i - 1))

\* Every exception that is under way unwinds a frame of its own.
FramesRight(fs, u) ==
  /\ fs \in Seq(ScopeFrames) /\ Len(fs) >= 1
  /\ u = Unwinding(fs, Len(fs))
  /\ UnwindingShape(fs) /\ GuardsRight(fs)

\* The inductive invariant.
ScopeIInv == /\ FramesRight(frames, uncaught) /\ uncaught \in 0 .. MaxUncaught
             /\ ended \in [kind : Kinds_Scope \cup {"none"}, unwound : BOOLEAN, moved : BOOLEAN,
                           dismissed : BOOLEAN, ran : BOOLEAN]
             /\ GuardsTell

\* One frame more.
LEMMA Scope_Count ==
  ASSUME NEW fs, NEW n \in Nat
  PROVE  /\ Unwinding(fs, n) \in Nat /\ Unwinding(fs, 0) = 0
         /\ Unwinding(fs, n + 1) = Unwinding(fs, n) + (IF fs[n + 1].mode = "unwound" THEN 1 ELSE 0)
<1> DEFINE U(m) == {j \in 1 .. m : fs[j].mode = "unwound"}
<1>1. \A m \in Nat : IsFiniteSet(U(m)) /\ Cardinality(U(m)) \in Nat
  <2> TAKE m \in Nat
  <2>1. IsFiniteSet(1 .. m)
    BY UpTo
  <2>2. IsFiniteSet(U(m))
    BY <2>1, FS_Subset
  <2> QED
    BY <2>2, FS_CardinalityType
<1>2. U(0) = {}
  OBVIOUS
<1>3. Cardinality(U(n + 1)) = Cardinality(U(n)) + (IF fs[n + 1].mode = "unwound" THEN 1 ELSE 0)
  <2>1. n + 1 \in 1 .. n + 1 /\ n + 1 \notin 1 .. n /\ 1 .. n + 1 = (1 .. n) \cup {n + 1}
    OBVIOUS
  <2>2. CASE fs[n + 1].mode = "unwound"
    <3>1. U(n + 1) = U(n) \cup {n + 1} /\ n + 1 \notin U(n)
      BY <2>1, <2>2
    <3>2. Cardinality(U(n) \cup {n + 1}) = Cardinality(U(n)) + 1
      BY <1>1, <3>1, FS_AddElement
    <3> QED
      BY <2>2, <3>1, <3>2
  <2>3. CASE fs[n + 1].mode # "unwound"
    <3>1. U(n + 1) = U(n)
      BY <2>1, <2>3
    <3>2. Cardinality(U(n)) \in Nat
      BY <1>1
    <3> HIDE DEF U
    <3> QED
      BY <2>3, <3>1, <3>2
  <2> QED
    BY <2>2, <2>3
<1>4. Cardinality(U(0)) = 0
  BY <1>2, FS_EmptySet
<1> QED
  BY <1>1, <1>3, <1>4 DEF Unwinding

\* The count looks at the modes only.
LEMMA Scope_SameCount ==
  ASSUME NEW fs, NEW gs, NEW n \in Nat, \A j \in 1 .. n : gs[j].mode = fs[j].mode
  PROVE  \A i \in 0 .. n : Unwinding(gs, i) = Unwinding(fs, i)
<1> TAKE i \in 0 .. n
<1>1. {j \in 1 .. i : gs[j].mode = "unwound"} = {j \in 1 .. i : fs[j].mode = "unwound"}
  OBVIOUS
<1> QED
  BY <1>1 DEF Unwinding

\* Who catches it does not depend on the modes and on the frames above.
LEMMA Scope_SameCatch ==
  ASSUME NEW fs, NEW gs, NEW n \in Nat,
         \A j \in 1 .. n : gs[j].sort = fs[j].sort /\ gs[j].catches = fs[j].catches
  PROVE  \A i \in 1 .. n : Catchable(fs, i) => Catchable(gs, i)
<1> SUFFICES ASSUME NEW i \in 1 .. n, Catchable(fs, i) PROVE Catchable(gs, i)
  OBVIOUS
<1>1. PICK k \in 1 .. i : fs[k].catches /\ \A j \in k .. i : fs[j].sort # "noexcept"
  BY DEF Catchable
<1>2. k \in 1 .. n /\ \A j \in k .. i : j \in 1 .. n
  OBVIOUS
<1>3. gs[k].catches /\ \A j \in k .. i : gs[j].sort # "noexcept"
  BY <1>1, <1>2
<1> QED
  BY <1>3 DEF Catchable

\* A callable or a scope begins.
LEMMA Scope_Push ==
  ASSUME NEW fs, NEW u, FramesRight(fs, u), NEW f \in ScopeFrames,
         f.mode = "runs", f.guards = <<>>, fs[Len(fs)].mode = "unwound" => f.sort = "noexcept"
  PROVE  FramesRight(Append(fs, f), u)
<1> DEFINE gs == Append(fs, f)
           n == Len(fs)
<1>1. /\ fs \in Seq(ScopeFrames) /\ n >= 1 /\ n \in Nat /\ u = Unwinding(fs, n)
      /\ UnwindingShape(fs) /\ GuardsRight(fs)
  BY DEF FramesRight
<1>2. gs \in Seq(ScopeFrames) /\ Len(gs) = n + 1 /\ gs[n + 1] = f /\ \A j \in 1 .. n : gs[j] = fs[j]
  BY <1>1
<1> HIDE DEF gs
<1>3. \A i \in 0 .. n : Unwinding(gs, i) = Unwinding(fs, i)
  BY <1>1, <1>2, Scope_SameCount
<1>4. Unwinding(gs, n + 1) = Unwinding(gs, n) + 0 /\ Unwinding(gs, n) \in Nat
  <2>1. gs[n + 1].mode # "unwound"
    BY <1>2
  <2> QED
    BY <2>1, <1>1, Scope_Count
<1>5. u = Unwinding(gs, n + 1)
  BY <1>1, <1>3, <1>4
<1>6. \A i \in 1 .. n : Catchable(fs, i) => Catchable(gs, i)
  BY <1>1, <1>2, Scope_SameCatch
<1>7. UnwindingShape(gs)
  <2>1. ASSUME NEW i \in 1 .. n + 1, gs[i].mode = "unwound" PROVE Catchable(gs, i)
    <3>1. i \in 1 .. n
      BY <2>1, <1>2
    <3> QED
      BY <3>1, <2>1, <1>1, <1>2, <1>6 DEF UnwindingShape
  <2>2. ASSUME NEW i \in 1 .. (n + 1) - 1, gs[i].mode = "unwound" PROVE gs[i + 1].sort = "noexcept"
    <3>1. i \in 1 .. n /\ fs[i].mode = "unwound"
      BY <2>2, <1>1, <1>2
    <3>2. CASE i = n
      BY <3>1, <3>2, <1>2
    <3>3. CASE i # n
      <4>1. i \in 1 .. n - 1 /\ i + 1 \in 1 .. n
        BY <3>1, <3>3, <1>1
      <4> QED
        BY <4>1, <3>1, <1>1, <1>2 DEF UnwindingShape
    <3> QED
      BY <3>2, <3>3
  <2> QED
    BY <2>1, <2>2, <1>2 DEF UnwindingShape
<1>8. GuardsRight(gs)
  <2>1. ASSUME NEW i \in 1 .. n + 1, NEW k \in 1 .. Len(gs[i].guards)
        PROVE  GuardRight(gs[i].guards[k], Unwinding(gs, i - 1))
    <3>1. CASE i \in 1 .. n
      <4>1. i - 1 \in 0 .. n /\ gs[i] = fs[i]
        BY <3>1, <1>1, <1>2
      <4> QED
        BY <4>1, <3>1, <1>1, <1>3 DEF GuardsRight
    <3>2. CASE i = n + 1
      BY <3>2, <1>2
    <3> QED
      BY <3>1, <3>2, <1>1
  <2> QED
    BY <2>1, <1>2 DEF GuardsRight
<1>9. Len(gs) >= 1
  BY <1>1, <1>2
<1> QED
  BY <1>2, <1>5, <1>7, <1>8, <1>9 DEF FramesRight, gs

\* Guards are added, removed or dismissed.
LEMMA Scope_SetGuards ==
  ASSUME NEW fs, NEW u, FramesRight(fs, u), NEW gs \in Seq(ScopeFrames), Len(gs) = Len(fs),
         \A j \in 1 .. Len(fs) : /\ gs[j].mode = fs[j].mode /\ gs[j].sort = fs[j].sort
                                 /\ gs[j].catches = fs[j].catches,
         \A i \in 1 .. Len(fs) : \A k \in 1 .. Len(gs[i].guards) :
           GuardRight(gs[i].guards[k], Unwinding(fs, i - 1))
  PROVE  FramesRight(gs, u)
<1> DEFINE n == Len(fs)
<1>1. /\ fs \in Seq(ScopeFrames) /\ n >= 1 /\ n \in Nat /\ u = Unwinding(fs, n)
      /\ UnwindingShape(fs)
  BY DEF FramesRight
<1>2. \A i \in 0 .. n : Unwinding(gs, i) = Unwinding(fs, i)
  BY <1>1, Scope_SameCount
<1>3. \A i \in 1 .. n : Catchable(fs, i) => Catchable(gs, i)
  BY <1>1, Scope_SameCatch
<1>4. UnwindingShape(gs)
  <2>1. \A i \in 1 .. n : gs[i].mode = "unwound" => Catchable(gs, i)
    BY <1>1, <1>3 DEF UnwindingShape
  <2>2. ASSUME NEW i \in 1 .. n - 1, gs[i].mode = "unwound" PROVE gs[i + 1].sort = "noexcept"
    <3>1. i \in 1 .. n /\ i + 1 \in 1 .. n
      BY <1>1
    <3> QED
      BY <3>1, <2>2, <1>1 DEF UnwindingShape
  <2> QED
    BY <2>1, <2>2 DEF UnwindingShape
<1>5. GuardsRight(gs)
  <2>1. \A i \in 1 .. n : i - 1 \in 0 .. n
    BY <1>1
  <2> QED
    BY <2>1, <1>2 DEF GuardsRight
<1> QED
  BY <1>1, <1>2, <1>4, <1>5 DEF FramesRight

\* The innermost frame, which no exception unwinds yet, is left or unwound.
LEMMA Scope_SetMode ==
  ASSUME NEW fs, NEW u, FramesRight(fs, u), NEW gs \in Seq(ScopeFrames), Len(gs) = Len(fs),
         \A j \in 1 .. Len(fs) : /\ gs[j].guards = fs[j].guards /\ gs[j].sort = fs[j].sort
                                 /\ gs[j].catches = fs[j].catches,
         \A j \in 1 .. Len(fs) - 1 : gs[j].mode = fs[j].mode,
         fs[Len(fs)].mode # "unwound",
         gs[Len(fs)].mode = "unwound" => Catchable(fs, Len(fs))
  PROVE  FramesRight(gs, IF gs[Len(fs)].mode = "unwound" THEN u + 1 ELSE u)
<1> DEFINE n == Len(fs)
<1>1. /\ fs \in Seq(ScopeFrames) /\ n >= 1 /\ n \in Nat /\ u = Unwinding(fs, n)
      /\ UnwindingShape(fs) /\ GuardsRight(fs)
  BY DEF FramesRight
<1>2. n - 1 \in Nat /\ (n - 1) + 1 = n
  BY <1>1
<1>3. \A i \in 0 .. n - 1 : Unwinding(gs, i) = Unwinding(fs, i)
  BY <1>2, Scope_SameCount
<1>4. /\ Unwinding(fs, n - 1) \in Nat
      /\ Unwinding(fs, n) = Unwinding(fs, n - 1) + (IF fs[n].mode = "unwound" THEN 1 ELSE 0)
      /\ Unwinding(gs, n) = Unwinding(gs, n - 1) + (IF gs[n].mode = "unwound" THEN 1 ELSE 0)
  <2> DEFINE m == n - 1
  <2>1. m \in Nat /\ m + 1 = n
    BY <1>2
  <2> HIDE DEF m
  <2>2. /\ Unwinding(fs, m) \in Nat
        /\ Unwinding(fs, m + 1) = Unwinding(fs, m) + (IF fs[m + 1].mode = "unwound" THEN 1 ELSE 0)
    BY <2>1, Scope_Count
  <2>3. Unwinding(gs, m + 1) = Unwinding(gs, m) + (IF gs[m + 1].mode = "unwound" THEN 1 ELSE 0)
    BY <2>1, Scope_Count
  <2> QED
    BY <2>1, <2>2, <2>3 DEF m
<1>5. Unwinding(gs, n - 1) = Unwinding(fs, n - 1)
  BY <1>2, <1>3
<1>6. Unwinding(gs, n) = IF gs[n].mode = "unwound" THEN u + 1 ELSE u
  BY <1>1, <1>4, <1>5
<1>7. \A i \in 1 .. n : Catchable(fs, i) => Catchable(gs, i)
  BY <1>1, Scope_SameCatch
<1>8. UnwindingShape(gs)
  <2>1. ASSUME NEW i \in 1 .. n, gs[i].mode = "unwound" PROVE Catchable(gs, i)
    <3>1. CASE i = n
      BY <2>1, <3>1, <1>7
    <3>2. CASE i # n
      <4>1. i \in 1 .. n - 1
        BY <3>2, <1>1
      <4> QED
        BY <4>1, <2>1, <1>1, <1>7 DEF UnwindingShape
    <3> QED
      BY <3>1, <3>2
  <2>2. ASSUME NEW i \in 1 .. n - 1, gs[i].mode = "unwound" PROVE gs[i + 1].sort = "noexcept"
    <3>1. i \in 1 .. n /\ i + 1 \in 1 .. n
      BY <1>1
    <3> QED
      BY <3>1, <2>2, <1>1 DEF UnwindingShape
  <2> QED
    BY <2>1, <2>2 DEF UnwindingShape
<1>9. GuardsRight(gs)
  <2>1. \A i \in 1 .. n : i - 1 \in 0 .. n - 1
    BY <1>1
  <2> QED
    BY <2>1, <1>1, <1>3 DEF GuardsRight
<1> QED
  BY <1>1, <1>6, <1>8, <1>9 DEF FramesRight

\* The innermost frame goes.
LEMMA Scope_Pop ==
  ASSUME NEW fs, NEW u, FramesRight(fs, u), Len(fs) > 1
  PROVE  /\ Front(fs) \in Seq(ScopeFrames) /\ Len(Front(fs)) = Len(fs) - 1
         /\ \A j \in 1 .. Len(fs) - 1 : Front(fs)[j] = fs[j]
         /\ FramesRight(Front(fs), IF fs[Len(fs)].mode = "unwound" THEN u - 1 ELSE u)
<1> DEFINE n == Len(fs)
           gs == Front(fs)
<1>1. /\ fs \in Seq(ScopeFrames) /\ n > 1 /\ n \in Nat /\ u = Unwinding(fs, n)
      /\ UnwindingShape(fs) /\ GuardsRight(fs)
  BY DEF FramesRight
<1>2. gs \in Seq(ScopeFrames) /\ Len(gs) = n - 1 /\ \A j \in 1 .. n - 1 : gs[j] = fs[j]
  BY <1>1 DEF Front
<1> HIDE DEF gs
<1>3. n - 1 \in Nat /\ (n - 1) + 1 = n /\ n - 1 >= 1
  BY <1>1
<1>4. \A i \in 0 .. n - 1 : Unwinding(gs, i) = Unwinding(fs, i)
  BY <1>2, <1>3, Scope_SameCount
<1>5. /\ Unwinding(fs, n - 1) \in Nat
      /\ Unwinding(fs, n) = Unwinding(fs, n - 1) + (IF fs[n].mode = "unwound" THEN 1 ELSE 0)
  BY <1>3, Scope_Count
<1>6. Unwinding(gs, n - 1) = IF fs[n].mode = "unwound" THEN u - 1 ELSE u
  BY <1>1, <1>3, <1>4, <1>5
<1>7. \A i \in 1 .. n - 1 : Catchable(fs, i) => Catchable(gs, i)
  BY <1>2, <1>3, Scope_SameCatch
<1>8. UnwindingShape(gs)
  <2>1. \A i \in 1 .. n - 1 : i \in 1 .. n
    BY <1>1
  <2>2. \A i \in 1 .. (n - 1) - 1 : i \in 1 .. n - 1 /\ i + 1 \in 1 .. n - 1
    BY <1>1
  <2> QED
    BY <2>1, <2>2, <1>1, <1>2, <1>7 DEF UnwindingShape
<1>9. GuardsRight(gs)
  <2>1. \A i \in 1 .. n - 1 : i - 1 \in 0 .. n - 1 /\ i \in 1 .. n
    BY <1>1
  <2> QED
    BY <2>1, <1>1, <1>2, <1>4 DEF GuardsRight
<1> QED
  BY <1>2, <1>3, <1>6, <1>8, <1>9 DEF FramesRight, gs

\* The exceptions below the innermost frame.
LEMMA Scope_NotUnwound ==
  ASSUME NEW fs, NEW u, FramesRight(fs, u)
  PROVE  /\ Unwinding(fs, Len(fs) - 1) \in Nat
         /\ u = Unwinding(fs, Len(fs) - 1) + (IF fs[Len(fs)].mode = "unwound" THEN 1 ELSE 0)
<1> DEFINE m == Len(fs) - 1
<1>1. m \in Nat /\ m + 1 = Len(fs) /\ u = Unwinding(fs, Len(fs))
  BY DEF FramesRight
<1> HIDE DEF m
<1>2. /\ Unwinding(fs, m) \in Nat
      /\ Unwinding(fs, m + 1) = Unwinding(fs, m) + (IF fs[m + 1].mode = "unwound" THEN 1 ELSE 0)
  BY <1>1, Scope_Count
<1> QED
  BY <1>1, <1>2 DEF m

\* A frame with another mode ...
LEMMA Scope_Mode ==
  ASSUME NEW f \in ScopeFrames, NEW m \in ScopeModes
  PROVE  /\ [f EXCEPT !.mode = m] \in ScopeFrames /\ [f EXCEPT !.mode = m].mode = m
         /\ [f EXCEPT !.mode = m].guards = f.guards /\ [f EXCEPT !.mode = m].sort = f.sort
         /\ [f EXCEPT !.mode = m].catches = f.catches
BY DEF ScopeFrames

\* ... or other guards.
LEMMA Scope_Guards ==
  ASSUME NEW f \in ScopeFrames, NEW gl \in Seq(ScopeGuards)
  PROVE  /\ [f EXCEPT !.guards = gl] \in ScopeFrames /\ [f EXCEPT !.guards = gl].mode = f.mode
         /\ [f EXCEPT !.guards = gl].guards = gl /\ [f EXCEPT !.guards = gl].sort = f.sort
         /\ [f EXCEPT !.guards = gl].catches = f.catches
BY DEF ScopeFrames

\* A frame of the stack.
LEMMA Scope_Frame ==
  ASSUME NEW fs \in Seq(ScopeFrames), NEW i \in 1 .. Len(fs)
  PROVE  /\ fs[i] \in ScopeFrames /\ fs[i].sort \in ScopeSorts /\ fs[i].catches \in BOOLEAN
         /\ fs[i].mode \in ScopeModes /\ fs[i].guards \in Seq(ScopeGuards)
         /\ Len(fs[i].guards) \in Nat
         /\ \A k \in 1 .. Len(fs[i].guards) : fs[i].guards[k] \in ScopeGuards
<1>1. fs[i] \in ScopeFrames
  OBVIOUS
<1>2. /\ fs[i].sort \in ScopeSorts /\ fs[i].catches \in BOOLEAN
      /\ fs[i].mode \in ScopeModes /\ fs[i].guards \in Seq(ScopeGuards)
  BY <1>1 DEF ScopeFrames
<1>3. /\ Len(fs[i].guards) \in Nat
      /\ \A k \in 1 .. Len(fs[i].guards) : fs[i].guards[k] \in ScopeGuards
  BY <1>2, SMTT(30)
<1> QED
  BY <1>1, <1>2, <1>3

\* All but the last element of a sequence.
LEMMA Scope_Front ==
  ASSUME NEW S, NEW s \in Seq(S), Len(s) >= 1
  PROVE  /\ Front(s) \in Seq(S) /\ Len(Front(s)) = Len(s) - 1
         /\ \A j \in 1 .. Len(s) - 1 : Front(s)[j] = s[j]
<1> DEFINE n == Len(s)
           m == n - 1
           q == SubSeq(s, 1, m)
<1>1. m \in Nat /\ m \in Int /\ 1 \in Int /\ \A i \in 1 .. m : s[i] \in S
  OBVIOUS
<1> HIDE DEF n, m
<1>2. m - 1 + 1 = m /\ (IF 1 <= m THEN m - 1 + 1 ELSE 0) = m /\ \A i \in 1 .. m : 1 + i - 1 = i
  BY <1>1
<1>3. Front(s) = q
  BY DEF Front, m, n
<1>4. /\ q \in Seq(S) /\ Len(q) = IF 1 <= m THEN m - 1 + 1 ELSE 0
      /\ \A i \in 1 .. m - 1 + 1 : q[i] = s[1 + i - 1]
  BY <1>1, SubSeqProperties
<1> HIDE DEF q
<1> QED
  BY <1>2, <1>3, <1>4 DEF m, n

\* The innermost frame is replaced.
LEMMA Scope_WithTop ==
  ASSUME NEW fs \in Seq(ScopeFrames), Len(fs) >= 1, NEW f \in ScopeFrames
  PROVE  /\ Append(Front(fs), f) \in Seq(ScopeFrames) /\ Len(Append(Front(fs), f)) = Len(fs)
         /\ Append(Front(fs), f)[Len(fs)] = f
         /\ \A j \in 1 .. Len(fs) - 1 : Append(Front(fs), f)[j] = fs[j]
<1> DEFINE n == Len(fs)
           r == Front(fs)
<1>1. n \in Nat /\ n >= 1
  OBVIOUS
<1>2. n \in Nat /\ r \in Seq(ScopeFrames) /\ Len(r) = n - 1 /\ \A j \in 1 .. n - 1 : r[j] = fs[j]
  BY <1>1, Scope_Front
<1> HIDE DEF r
<1>3. /\ Append(r, f) \in Seq(ScopeFrames) /\ Len(Append(r, f)) = n /\ Append(r, f)[n] = f
      /\ \A j \in 1 .. n - 1 : Append(r, f)[j] = r[j]
  BY <1>1, <1>2
<1> QED
  BY <1>2, <1>3 DEF r

\* What is known of the frames.
LEMMA Scope_Frames ==
  ASSUME ScopeIInv
  PROVE  /\ frames \in Seq(ScopeFrames) /\ Len(frames) >= 1 /\ Len(frames) \in Nat
         /\ FramesRight(frames, uncaught) /\ uncaught \in Nat /\ Top = frames[Len(frames)]
         /\ Top \in ScopeFrames /\ Len(frames) \in 1 .. Len(frames)
<1>1. frames \in Seq(ScopeFrames) /\ Len(frames) >= 1 /\ Len(frames) \in Nat
  BY DEF ScopeIInv, FramesRight
<1>2. FramesRight(frames, uncaught) /\ uncaught \in Nat /\ Top = frames[Len(frames)]
  BY DEF ScopeIInv, Top, Last
<1>3. Len(frames) \in 1 .. Len(frames)
  BY <1>1
<1> QED
  BY <1>1, <1>2, <1>3

\* The program starts in a scope that catches everything.
LEMMA Scope_Base ==
  /\ FramesRight(<<Frame("scope", TRUE)>>, 0)
<1> DEFINE f == Frame("scope", TRUE)
           fs == <<f>>
<1>1. f \in ScopeFrames /\ f.mode = "runs" /\ f.guards = <<>> /\ Len(f.guards) = 0
  BY DEF Frame, ScopeFrames, ScopeModes, ScopeSorts
<1> HIDE DEF f
<1>2. fs \in Seq(ScopeFrames) /\ Len(fs) = 1 /\ fs[1] = f
  BY <1>1
<1> HIDE DEF fs
<1>3. Unwinding(fs, 0) = 0 /\ Unwinding(fs, 0 + 1) = Unwinding(fs, 0) + 0
  <2>1. fs[0 + 1].mode # "unwound"
    BY <1>1, <1>2
  <2> QED
    BY <2>1, Scope_Count
<1>4. Unwinding(fs, Len(fs)) = 0
  BY <1>2, <1>3
<1>5. UnwindingShape(fs) /\ GuardsRight(fs)
  BY <1>1, <1>2 DEF UnwindingShape, GuardsRight
<1>6. FramesRight(fs, 0)
  BY <1>2, <1>4, <1>5 DEF FramesRight
<1> QED
  BY <1>6 DEF fs, f

\* At the start it is.
LEMMA Scope_Init == ScopeInit => ScopeIInv
<1> SUFFICES ASSUME ScopeInit PROVE ScopeIInv
  OBVIOUS
<1>1. frames = <<Frame("scope", TRUE)>> /\ uncaught = 0 /\ ended = NoGuard
  BY DEF ScopeInit
<1>2. FramesRight(frames, uncaught)
  BY <1>1, Scope_Base
<1>3. uncaught \in 0 .. MaxUncaught
  BY <1>1, UncaughtBound
<1>4. ended \in [kind : Kinds_Scope \cup {"none"}, unwound : BOOLEAN, moved : BOOLEAN,
                 dismissed : BOOLEAN, ran : BOOLEAN] /\ GuardsTell
  BY <1>1 DEF NoGuard, GuardsTell
<1> QED
  BY <1>2, <1>3, <1>4 DEF ScopeIInv

\* A step that destroys no guard.
LEMMA Scope_Keeps ==
  ASSUME ScopeIInv, ended' = ended, uncaught' \in 0 .. MaxUncaught, FramesRight(frames', uncaught')
  PROVE  ScopeIInv'
BY DEF ScopeIInv, GuardsTell

\* A scope is entered.
LEMMA Scope_Enters ==
  ASSUME ScopeIInv, NEW c \in BOOLEAN, Scope_Enter(c)
  PROVE  ScopeIInv'
<1> DEFINE f == Frame("scope", c)
<1>1. Top.mode = "runs" /\ frames' = Append(frames, f) /\ uncaught' = uncaught /\ ended' = ended
  BY DEF Scope_Enter
<1>2. f \in ScopeFrames /\ f.mode = "runs" /\ f.guards = <<>>
  BY DEF Frame, ScopeFrames, ScopeModes, ScopeSorts
<1> HIDE DEF f
<1>3. FramesRight(Append(frames, f), uncaught)
  BY <1>1, <1>2, Scope_Push, Scope_Frames
<1> QED
  BY <1>1, <1>3, Scope_Keeps DEF ScopeIInv

\* The innermost scope is left in the normal way or by an exception.
LEMMA Scope_Leaves ==
  ASSUME ScopeIInv, Scope_Leave \/ Scope_Throw
  PROVE  ScopeIInv'
<1> DEFINE n == Len(frames)
           m == IF Scope_Throw THEN "unwound" ELSE "left"
           f == [Top EXCEPT !.mode = m]
           gs == Append(Front(frames), f)
<1>1. /\ frames \in Seq(ScopeFrames) /\ n >= 1 /\ n \in Nat /\ n \in 1 .. n
      /\ FramesRight(frames, uncaught) /\ uncaught \in Nat /\ Top = frames[n] /\ Top \in ScopeFrames
  BY Scope_Frames
<1>2. Top.mode = "runs" /\ ended' = ended /\ frames' = gs
      /\ uncaught' = (IF m = "unwound" THEN uncaught + 1 ELSE uncaught)
      /\ m \in ScopeModes
  <2>1. CASE Scope_Throw
    BY <2>1 DEF Scope_Throw, WithTop, ScopeModes
  <2>2. CASE ~Scope_Throw
    BY <2>2 DEF Scope_Leave, WithTop, ScopeModes
  <2> QED
    BY <2>1, <2>2
<1>3. m = "unwound" => uncaught < MaxUncaught /\ Catchable(frames, n)
  BY <1>1 DEF Scope_Throw, Catchable
<1> HIDE DEF m
<1>4. /\ f \in ScopeFrames /\ f.mode = m /\ f.guards = Top.guards /\ f.sort = Top.sort
      /\ f.catches = Top.catches
  BY <1>1, <1>2, Scope_Mode
<1> HIDE DEF f
<1>5. /\ gs \in Seq(ScopeFrames) /\ Len(gs) = n /\ gs[n] = f
      /\ \A j \in 1 .. n - 1 : gs[j] = frames[j]
  BY <1>1, <1>4, Scope_WithTop
<1> HIDE DEF gs
<1>6. \A j \in 1 .. n : /\ gs[j].guards = frames[j].guards /\ gs[j].sort = frames[j].sort
                        /\ gs[j].catches = frames[j].catches
  <2> TAKE j \in 1 .. n
  <2>1. j = n \/ j \in 1 .. n - 1
    BY <1>1
  <2> QED
    BY <2>1, <1>1, <1>4, <1>5
<1>7. gs[n].mode = m /\ frames[n].mode # "unwound"
  BY <1>1, <1>2, <1>4, <1>5
<1>8. FramesRight(gs, IF gs[n].mode = "unwound" THEN uncaught + 1 ELSE uncaught)
  <2>1. \A j \in 1 .. n - 1 : gs[j].mode = frames[j].mode
    BY <1>5
  <2> QED
    BY <2>1, <1>1, <1>3, <1>5, <1>6, <1>7, Scope_SetMode
<1>9. FramesRight(frames', uncaught')
  BY <1>2, <1>7, <1>8
<1>10. uncaught' \in 0 .. MaxUncaught
  BY <1>1, <1>2, <1>3, UncaughtBound DEF ScopeIInv
<1> QED
  BY <1>2, <1>9, <1>10, Scope_Keeps

\* A guard is made.
LEMMA Scope_Constructs ==
  ASSUME ScopeIInv, NEW sort \in Kinds_Scope, Guard_Construct(sort)
  PROVE  ScopeIInv'
<1> DEFINE n == Len(frames)
           g == NewGuard(sort)
           f == [Top EXCEPT !.guards = Append(Top.guards, g)]
           gs == Append(Front(frames), f)
<1>1. /\ frames \in Seq(ScopeFrames) /\ n >= 1 /\ n \in Nat /\ n \in 1 .. n
      /\ FramesRight(frames, uncaught) /\ uncaught \in Nat /\ Top = frames[n] /\ Top \in ScopeFrames
  BY Scope_Frames
<1>2. Top.mode = "runs" /\ frames' = gs /\ uncaught' = uncaught /\ ended' = ended
  BY DEF Guard_Construct, Room, WithTop
<1>3. /\ g \in ScopeGuards /\ g.kind = sort /\ g.moved = FALSE /\ g.numExceptions = uncaught
  BY DEF NewGuard, ScopeGuards, ScopeIInv
<1> HIDE DEF g
<1>4. /\ Top.guards \in Seq(ScopeGuards) /\ Len(Top.guards) \in Nat
  BY <1>1, Scope_Frame
<1>5. /\ Append(Top.guards, g) \in Seq(ScopeGuards)
      /\ Len(Append(Top.guards, g)) = Len(Top.guards) + 1
      /\ Append(Top.guards, g)[Len(Top.guards) + 1] = g
      /\ \A k \in 1 .. Len(Top.guards) : Append(Top.guards, g)[k] = Top.guards[k]
  BY <1>3, <1>4
<1>6. /\ f \in ScopeFrames /\ f.guards = Append(Top.guards, g) /\ f.mode = Top.mode
      /\ f.sort = Top.sort /\ f.catches = Top.catches
  BY <1>1, <1>5, Scope_Guards, ZenonT(60)
<1> HIDE DEF f
<1>7. /\ gs \in Seq(ScopeFrames) /\ Len(gs) = n /\ gs[n] = f
      /\ \A j \in 1 .. n - 1 : gs[j] = frames[j]
  BY <1>1, <1>6, Scope_WithTop
<1> HIDE DEF gs
<1>8. \A j \in 1 .. n : /\ gs[j].mode = frames[j].mode /\ gs[j].sort = frames[j].sort
                        /\ gs[j].catches = frames[j].catches
  <2> TAKE j \in 1 .. n
  <2>1. j = n \/ j \in 1 .. n - 1
    BY <1>1
  <2> QED
    BY <2>1, <1>1, <1>6, <1>7
<1>9. Unwinding(frames, n - 1) = uncaught
  <2>1. /\ Unwinding(frames, n - 1) \in Nat
        /\ uncaught = Unwinding(frames, n - 1) + (IF frames[n].mode = "unwound" THEN 1 ELSE 0)
    BY <1>1, Scope_NotUnwound
  <2> QED
    BY <2>1, <1>1, <1>2
<1>10. ASSUME NEW i \in 1 .. n, NEW k \in 1 .. Len(gs[i].guards)
       PROVE  GuardRight(gs[i].guards[k], Unwinding(frames, i - 1))
  <2>1. CASE i \in 1 .. n - 1
    BY <2>1, <1>1, <1>7 DEF FramesRight, GuardsRight
  <2>2. CASE i = n /\ k \in 1 .. Len(Top.guards)
    <3>1. gs[i].guards[k] = frames[n].guards[k]
      BY <2>2, <1>1, <1>5, <1>6, <1>7
    <3> QED
      BY <3>1, <2>2, <1>1 DEF FramesRight, GuardsRight
  <2>3. CASE i = n /\ k = Len(Top.guards) + 1
    <3>1. gs[i].guards[k] = g
      BY <2>3, <1>5, <1>6, <1>7
    <3> QED
      BY <3>1, <2>3, <1>3, <1>9 DEF GuardRight
  <2>4. i = n => k \in 1 .. Len(Top.guards) \/ k = Len(Top.guards) + 1
    BY <1>4, <1>5, <1>6, <1>7
  <2> QED
    BY <2>1, <2>2, <2>3, <2>4, <1>1
<1>11. FramesRight(gs, uncaught)
  BY <1>1, <1>7, <1>8, <1>10, Scope_SetGuards
<1> QED
  BY <1>2, <1>11, Scope_Keeps DEF ScopeIInv

\* The frames with other guards in one of them.
Guarded(fs, i, gl) == [fs EXCEPT ![i] = [fs[i] EXCEPT !.guards = gl]]

\* They are right if these guards are.
LEMMA Scope_Replace ==
  ASSUME NEW fs, NEW u, FramesRight(fs, u), NEW i \in 1 .. Len(fs), NEW gl \in Seq(ScopeGuards),
         \A k \in 1 .. Len(gl) : GuardRight(gl[k], Unwinding(fs, i - 1))
  PROVE  /\ FramesRight(Guarded(fs, i, gl), u) /\ Len(Guarded(fs, i, gl)) = Len(fs)
         /\ Guarded(fs, i, gl) \in Seq(ScopeFrames)
         /\ Guarded(fs, i, gl)[i].guards = gl
         /\ \A j \in 1 .. Len(fs) : j # i => Guarded(fs, i, gl)[j] = fs[j]
<1> DEFINE f == [fs[i] EXCEPT !.guards = gl]
           gs == [fs EXCEPT ![i] = f]
<1>1. fs \in Seq(ScopeFrames) /\ GuardsRight(fs) /\ fs[i] \in ScopeFrames
  BY DEF FramesRight
<1>2. /\ f \in ScopeFrames /\ f.mode = fs[i].mode /\ f.guards = gl /\ f.sort = fs[i].sort
      /\ f.catches = fs[i].catches
  BY <1>1, Scope_Guards
<1> HIDE DEF f
<1>3. /\ gs \in Seq(ScopeFrames) /\ Len(gs) = Len(fs) /\ gs[i] = f
      /\ \A j \in 1 .. Len(fs) : j # i => gs[j] = fs[j]
  <2>1. /\ gs \in Seq(ScopeFrames) /\ Len(gs) = Len(fs)
        /\ \A j \in 1 .. Len(fs) : gs[j] = IF i = j THEN f ELSE fs[j]
    BY <1>1, <1>2, ExceptSeq
  <2> QED
    BY <2>1
<1> HIDE DEF gs
<1>4. \A j \in 1 .. Len(fs) : /\ gs[j].mode = fs[j].mode /\ gs[j].sort = fs[j].sort
                              /\ gs[j].catches = fs[j].catches
  BY <1>2, <1>3
<1>5. ASSUME NEW j \in 1 .. Len(fs), NEW k \in 1 .. Len(gs[j].guards)
      PROVE  GuardRight(gs[j].guards[k], Unwinding(fs, j - 1))
  <2>1. CASE j = i
    BY <2>1, <1>2, <1>3
  <2>2. CASE j # i
    BY <2>2, <1>1, <1>3 DEF GuardsRight
  <2> QED
    BY <2>1, <2>2
<1>6. FramesRight(gs, u)
  BY <1>3, <1>4, <1>5, Scope_SetGuards
<1>7. Guarded(fs, i, gl) = gs
  BY DEF Guarded, gs, f
<1> QED
  BY <1>2, <1>3, <1>6, <1>7

\* Guards that are dismissed and moved.
LEMMA Scope_Records ==
  ASSUME NEW g \in ScopeGuards, NEW d \in BOOLEAN
  PROVE  /\ [g EXCEPT !.dismissed = d] \in ScopeGuards /\ [g EXCEPT !.dismissed = d].kind = g.kind
         /\ [g EXCEPT !.dismissed = d].moved = g.moved /\ [g EXCEPT !.dismissed = d].dismissed = d
         /\ [g EXCEPT !.dismissed = d].numExceptions = g.numExceptions
         /\ [g EXCEPT !.dismissed = d, !.moved = TRUE] \in ScopeGuards
         /\ [g EXCEPT !.dismissed = d, !.moved = TRUE].kind = g.kind
         /\ [g EXCEPT !.dismissed = d, !.moved = TRUE].dismissed = d
BY DEF ScopeGuards

\* One guard is exchanged.
LEMMA Scope_Exchange ==
  ASSUME NEW fs, NEW u, FramesRight(fs, u), NEW i \in 1 .. Len(fs),
         NEW k \in 1 .. Len(fs[i].guards), NEW h \in ScopeGuards,
         GuardRight(h, Unwinding(fs, i - 1))
  PROVE  FramesRight(Guarded(fs, i, [fs[i].guards EXCEPT ![k] = h]), u)
<1> DEFINE gl == [fs[i].guards EXCEPT ![k] = h]
<1>1. fs \in Seq(ScopeFrames) /\ GuardsRight(fs)
  BY DEF FramesRight
<1>2. fs[i].guards \in Seq(ScopeGuards)
  BY <1>1, Scope_Frame
<1>3. /\ gl \in Seq(ScopeGuards) /\ Len(gl) = Len(fs[i].guards)
      /\ \A j \in 1 .. Len(fs[i].guards) : gl[j] = IF k = j THEN h ELSE fs[i].guards[j]
  BY <1>2, ExceptSeq
<1> HIDE DEF gl
<1>4. \A j \in 1 .. Len(gl) : GuardRight(gl[j], Unwinding(fs, i - 1))
  BY <1>1, <1>3 DEF GuardsRight
<1>5. FramesRight(Guarded(fs, i, gl), u)
  BY <1>3, <1>4, Scope_Replace
<1> QED
  BY <1>5 DEF gl

\* dismiss() of a guard for any exit.
LEMMA Scope_Dismisses ==
  ASSUME ScopeIInv, NEW i \in DOMAIN frames, NEW k \in DOMAIN frames[i].guards, Guard_Dismiss(i, k)
  PROVE  ScopeIInv'
<1> DEFINE g == frames[i].guards[k]
           h == [g EXCEPT !.dismissed = TRUE]
<1>1. frames \in Seq(ScopeFrames) /\ FramesRight(frames, uncaught) /\ GuardsRight(frames)
  BY Scope_Frames DEF FramesRight
<1>2. i \in 1 .. Len(frames) /\ frames[i].guards \in Seq(ScopeGuards)
  <2>1. i \in 1 .. Len(frames)
    BY <1>1
  <2> QED
    BY <2>1, <1>1, Scope_Frame
<1>3. k \in 1 .. Len(frames[i].guards) /\ g \in ScopeGuards
  BY <1>2
<1>4. /\ g.kind = "exit" /\ uncaught' = uncaught /\ ended' = ended
      /\ frames' = [frames EXCEPT ![i].guards[k].dismissed = TRUE]
  BY DEF Guard_Dismiss
<1>5. frames' = Guarded(frames, i, [frames[i].guards EXCEPT ![k] = h])
  BY <1>4 DEF Guarded
<1>6. h \in ScopeGuards /\ h.kind = "exit" /\ h.dismissed = TRUE
  BY <1>3, <1>4, Scope_Records
<1> HIDE DEF h
<1>7. GuardRight(h, Unwinding(frames, i - 1))
  BY <1>6 DEF GuardRight
<1>8. FramesRight(frames', uncaught)
  BY <1>1, <1>2, <1>3, <1>5, <1>6, <1>7, Scope_Exchange
<1> QED
  BY <1>4, <1>8, Scope_Keeps DEF ScopeIInv

\* A guard for any exit is moved: the old one is dismissed.
LEMMA Scope_Moves ==
  ASSUME ScopeIInv, ~MovesAnyGuard, NEW i \in DOMAIN frames, NEW k \in DOMAIN frames[i].guards,
         Guard_Move(i, k)
  PROVE  ScopeIInv'
<1> DEFINE n == Len(frames)
           g == frames[i].guards[k]
           h == [g EXCEPT !.dismissed = (g.kind = "exit"), !.moved = TRUE]
           from == Guarded(frames, i, [frames[i].guards EXCEPT ![k] = h])
           gl == Append(from[n].guards, g)
<1>1. /\ frames \in Seq(ScopeFrames) /\ FramesRight(frames, uncaught) /\ GuardsRight(frames)
      /\ n \in 1 .. n
  BY Scope_Frames DEF FramesRight
<1>2. i \in 1 .. Len(frames) /\ frames[i].guards \in Seq(ScopeGuards)
  <2>1. i \in 1 .. Len(frames)
    BY <1>1
  <2> QED
    BY <2>1, <1>1, Scope_Frame
<1>3. k \in 1 .. Len(frames[i].guards) /\ g \in ScopeGuards
  BY <1>2
<1>4. g.kind = "exit" /\ uncaught' = uncaught /\ ended' = ended
  BY DEF Guard_Move
<1>5. frames' = Guarded(from, n, gl)
  BY DEF Guard_Move, Guarded
<1>6. h \in ScopeGuards /\ h.kind = "exit" /\ h.dismissed = TRUE
  <2> DEFINE d == g.kind = "exit"
             r == [g EXCEPT !.dismissed = d, !.moved = TRUE]
  <2>1. d \in BOOLEAN
    OBVIOUS
  <2> HIDE DEF d
  <2>2. r \in ScopeGuards /\ r.kind = g.kind /\ r.dismissed = d
    BY <2>1, <1>3, Scope_Records
  <2>3. h = r
    BY DEF d
  <2> HIDE DEF h, r
  <2> QED
    BY <2>2, <2>3, <1>4 DEF d
<1>7. GuardRight(g, Unwinding(frames, i - 1))
  BY <1>1, <1>2, <1>3 DEF GuardsRight
<1> HIDE DEF h, g
<1>8. GuardRight(h, Unwinding(frames, i - 1))
  BY <1>6 DEF GuardRight
<1>9. FramesRight(from, uncaught)
  BY <1>1, <1>2, <1>3, <1>6, <1>8, Scope_Exchange DEF g
<1>10. /\ from \in Seq(ScopeFrames) /\ Len(from) = n
  <2>1. from \in Seq(ScopeFrames)
    BY <1>9 DEF FramesRight
  <2>2. Len(from) = n
    BY <1>1, <1>2 DEF Guarded
  <2> QED
    BY <2>1, <2>2
<1> HIDE DEF from
<1>11. from[n].guards \in Seq(ScopeGuards) /\ GuardsRight(from)
  BY <1>1, <1>9, <1>10, Scope_Frame DEF FramesRight
<1>12. /\ gl \in Seq(ScopeGuards) /\ Len(gl) = Len(from[n].guards) + 1
       /\ gl[Len(from[n].guards) + 1] = g
       /\ \A j \in 1 .. Len(from[n].guards) : gl[j] = from[n].guards[j]
  BY <1>3, <1>11
<1> HIDE DEF gl
<1>13. ASSUME NEW j \in 1 .. Len(gl) PROVE GuardRight(gl[j], Unwinding(from, n - 1))
  <2>1. CASE j \in 1 .. Len(from[n].guards)
    BY <2>1, <1>1, <1>10, <1>11, <1>12 DEF GuardsRight
  <2>2. CASE j = Len(from[n].guards) + 1
    BY <2>2, <1>4, <1>7, <1>12 DEF GuardRight
  <2>3. Len(from[n].guards) \in Nat
    BY <1>11
  <2> QED
    BY <2>1, <2>2, <2>3, <1>12
<1>14. FramesRight(Guarded(from, n, gl), uncaught)
  BY <1>1, <1>9, <1>10, <1>12, <1>13, Scope_Replace
<1> QED
  BY <1>4, <1>5, <1>14, Scope_Keeps DEF ScopeIInv

\* The destructor of a guard.
LEMMA Scope_Destructs ==
  ASSUME ScopeIInv, Guard_Destruct
  PROVE  ScopeIInv'
<1> DEFINE n == Len(frames)
           g == Last(Top.guards)
           f == [Top EXCEPT !.guards = Front(Top.guards)]
           gs == Append(Front(frames), f)
           c == Frame(IF g.kind = "success" THEN "throws" ELSE "noexcept", FALSE)
           e == [kind |-> g.kind, unwound |-> Top.mode = "unwound", moved |-> g.moved,
                 dismissed |-> g.dismissed, ran |-> Executes(g)]
<1>1. /\ frames \in Seq(ScopeFrames) /\ n >= 1 /\ n \in Nat /\ n \in 1 .. n
      /\ FramesRight(frames, uncaught) /\ GuardsRight(frames) /\ uncaught \in Nat
      /\ Top = frames[n] /\ Top \in ScopeFrames
  BY Scope_Frames DEF FramesRight
<1>2. /\ Top.mode # "runs" /\ Top.guards # <<>> /\ uncaught' = uncaught /\ ended' = e
      /\ frames' = IF Executes(g) THEN Append(gs, c) ELSE gs
  BY DEF Guard_Destruct, WithTop
<1>3. Top.guards \in Seq(ScopeGuards)
  BY <1>1, Scope_Frame
<1>4. /\ Len(Top.guards) \in Nat /\ Len(Top.guards) >= 1 /\ g = Top.guards[Len(Top.guards)]
      /\ g \in ScopeGuards
  BY <1>2, <1>3 DEF Last
<1>5. GuardRight(g, Unwinding(frames, n - 1))
  BY <1>1, <1>4 DEF GuardsRight
<1>6. /\ Front(Top.guards) \in Seq(ScopeGuards) /\ Len(Front(Top.guards)) = Len(Top.guards) - 1
      /\ \A j \in 1 .. Len(Top.guards) - 1 : Front(Top.guards)[j] = Top.guards[j]
  BY <1>3, <1>4, Scope_Front
<1>7. /\ f \in ScopeFrames /\ f.guards = Front(Top.guards) /\ f.mode = Top.mode
      /\ f.sort = Top.sort /\ f.catches = Top.catches
  BY <1>1, <1>6, Scope_Guards
<1> HIDE DEF f
<1>8. /\ gs \in Seq(ScopeFrames) /\ Len(gs) = n /\ gs[n] = f
      /\ \A j \in 1 .. n - 1 : gs[j] = frames[j]
  BY <1>1, <1>7, Scope_WithTop
<1> HIDE DEF gs, g
<1>9. \A j \in 1 .. n : /\ gs[j].mode = frames[j].mode /\ gs[j].sort = frames[j].sort
                        /\ gs[j].catches = frames[j].catches
  <2> TAKE j \in 1 .. n
  <2>1. j = n \/ j \in 1 .. n - 1
    BY <1>1
  <2> QED
    BY <2>1, <1>1, <1>7, <1>8
<1>10. ASSUME NEW i \in 1 .. n, NEW k \in 1 .. Len(gs[i].guards)
       PROVE  GuardRight(gs[i].guards[k], Unwinding(frames, i - 1))
  <2>1. CASE i \in 1 .. n - 1
    BY <2>1, <1>1, <1>8 DEF GuardsRight
  <2>2. CASE i = n
    <3>1. k \in 1 .. Len(Top.guards) - 1 /\ k \in 1 .. Len(frames[n].guards)
      BY <2>2, <1>1, <1>4, <1>6, <1>7, <1>8
    <3>2. gs[i].guards[k] = frames[n].guards[k]
      BY <3>1, <2>2, <1>1, <1>6, <1>7, <1>8
    <3> QED
      BY <3>1, <3>2, <2>2, <1>1 DEF GuardsRight
  <2> QED
    BY <2>1, <2>2, <1>1
<1>11. FramesRight(gs, uncaught)
  BY <1>1, <1>8, <1>9, <1>10, Scope_SetGuards
<1>12. /\ Unwinding(frames, n - 1) \in Nat
       /\ uncaught = Unwinding(frames, n - 1) + (IF Top.mode = "unwound" THEN 1 ELSE 0)
  BY <1>1, Scope_NotUnwound
<1>13. g.kind \in Kinds_Scope /\ g.moved \in BOOLEAN /\ g.dismissed \in BOOLEAN
  BY <1>4 DEF ScopeGuards
<1>14. /\ g.kind = "exit" => (Executes(g) <=> ~g.dismissed)
       /\ g.kind = "failure" => (Executes(g) <=> Top.mode = "unwound")
       /\ g.kind = "success" => (Executes(g) <=> Top.mode # "unwound")
       /\ Executes(g) \in BOOLEAN
  <2>1. CASE g.kind = "exit"
    BY <2>1, <1>13 DEF Executes
  <2>2. CASE g.kind = "failure"
    <3>1. g.numExceptions = Unwinding(frames, n - 1)
      BY <2>2, <1>5 DEF GuardRight
    <3> QED
      BY <3>1, <2>2, <1>12 DEF Executes
  <2>3. CASE g.kind = "success"
    <3>1. g.numExceptions = Unwinding(frames, n - 1)
      BY <2>3, <1>5 DEF GuardRight
    <3> QED
      BY <3>1, <2>3, <1>12 DEF Executes
  <2> QED
    BY <2>1, <2>2, <2>3, <1>13 DEF Kinds_Scope
<1>15. FramesRight(frames', uncaught)
  <2>1. CASE ~Executes(g)
    BY <2>1, <1>2, <1>11
  <2>2. CASE Executes(g)
    <3>1. c \in ScopeFrames /\ c.mode = "runs" /\ c.guards = <<>>
      BY DEF Frame, ScopeFrames, ScopeModes, ScopeSorts
    <3>2. g.kind # "success" => c.sort = "noexcept"
      BY DEF Frame
    <3> HIDE DEF c
    <3>3. gs[Len(gs)].mode = "unwound" => c.sort = "noexcept"
      BY <3>2, <2>2, <1>1, <1>8, <1>9, <1>14
    <3>4. FramesRight(Append(gs, c), uncaught)
      BY <3>1, <3>3, <1>11, Scope_Push
    <3> QED
      BY <3>4, <2>2, <1>2
  <2> QED
    BY <2>1, <2>2
<1>16. /\ e \in [kind : Kinds_Scope \cup {"none"}, unwound : BOOLEAN, moved : BOOLEAN,
                 dismissed : BOOLEAN, ran : BOOLEAN]
       /\ e.kind = g.kind /\ e.moved = g.moved /\ e.dismissed = g.dismissed
       /\ e.unwound = (Top.mode = "unwound") /\ e.ran = Executes(g)
  BY <1>13, <1>14
<1> HIDE DEF e
<1>17. GuardsTell'
  <2>1. e.ran => ~e.moved
    BY <1>5, <1>13, <1>14, <1>16 DEF GuardRight
  <2>2. e.ran = CASE e.kind = "exit" -> ~e.dismissed
                  [] e.kind = "failure" -> e.unwound
                  [] e.kind = "success" -> ~e.unwound
                  [] OTHER -> FALSE
    <3>1. CASE e.kind = "exit"
      BY <3>1, <1>13, <1>14, <1>16
    <3>2. CASE e.kind = "failure"
      BY <3>2, <1>13, <1>14, <1>16
    <3>3. CASE e.kind = "success"
      BY <3>3, <1>13, <1>14, <1>16
    <3> QED
      BY <3>1, <3>2, <3>3, <1>13, <1>16 DEF Kinds_Scope
  <2> QED
    BY <2>1, <2>2, <1>2 DEF GuardsTell
<1> QED
  BY <1>2, <1>15, <1>16, <1>17 DEF ScopeIInv

\* The frame is over: its exception is caught, or unwinds the frame below, which none
\* unwinds yet.
LEMMA Scope_Ends ==
  ASSUME ScopeIInv, Scope_End
  PROVE  ScopeIInv'
<1> DEFINE n == Len(frames)
           fs == Front(frames)
           below == frames[n - 1]
           caught == Top.mode = "unwound" /\ Top.catches
           v == IF Top.mode = "unwound" THEN uncaught - 1 ELSE uncaught
<1>1. /\ frames \in Seq(ScopeFrames) /\ n \in Nat /\ n \in 1 .. n
      /\ FramesRight(frames, uncaught) /\ UnwindingShape(frames) /\ uncaught \in Nat
      /\ Top = frames[n] /\ Top \in ScopeFrames
  BY Scope_Frames DEF FramesRight
<1>2. /\ n > 1 /\ ended' = ended
      /\ frames' = IF Top.mode = "unwound" /\ ~caught
                     THEN Append(Front(fs), [below EXCEPT !.mode = "unwound"]) ELSE fs
      /\ uncaught' = IF caught THEN uncaught - 1 ELSE uncaught
  BY DEF Scope_End
<1>3. /\ fs \in Seq(ScopeFrames) /\ Len(fs) = n - 1 /\ \A j \in 1 .. n - 1 : fs[j] = frames[j]
      /\ FramesRight(fs, v)
  BY <1>1, <1>2, Scope_Pop
<1>4. v \in 0 .. MaxUncaught
  <2>1. /\ Unwinding(frames, n - 1) \in Nat
        /\ uncaught = Unwinding(frames, n - 1) + (IF Top.mode = "unwound" THEN 1 ELSE 0)
    BY <1>1, Scope_NotUnwound
  <2>2. uncaught \in 0 .. MaxUncaught
    BY DEF ScopeIInv
  <2> QED
    BY <2>1, <2>2, UncaughtBound
<1>5. CASE Top.mode # "unwound" \/ caught
  <2>1. frames' = fs /\ uncaught' = v
    BY <1>5, <1>2
  <2> QED
    BY <2>1, <1>2, <1>3, <1>4, Scope_Keeps
<1>6. CASE Top.mode = "unwound" /\ ~caught
  <2> DEFINE f == [below EXCEPT !.mode = "unwound"]
             gs == Append(Front(fs), f)
             m == n - 1
  <2>1. /\ frames' = gs /\ uncaught' = uncaught /\ v = uncaught - 1 /\ ~Top.catches
    BY <1>2, <1>6
  <2>2. m \in Nat /\ m >= 1 /\ m \in 1 .. n /\ m \in 1 .. n - 1 /\ m + 1 = n /\ below = frames[m]
    BY <1>1, <1>2
  <2>3. PICK i \in 1 .. n : frames[i].catches /\ \A j \in i .. n : frames[j].sort # "noexcept"
    BY <1>1, <1>6 DEF UnwindingShape, Catchable
  <2>4. i # n
    BY <2>1, <2>3, <1>1
  <2>5. i \in 1 .. m /\ \A j \in i .. m : j \in i .. n /\ j \in 1 .. n - 1
    <3>1. n \in Nat /\ m = n - 1 /\ i \in 1 .. n /\ i # n
      BY <2>4, <1>1
    <3> HIDE DEF n, m
    <3>2. i \in Nat /\ 1 <= i /\ i <= m /\ m \in Int
      BY <3>1
    <3>3. i \in 1 .. m
      BY <3>2
    <3>4. ASSUME NEW j \in i .. m PROVE j \in i .. n /\ j \in 1 .. n - 1
      BY <3>1, <3>2
    <3> QED
      BY <3>3, <3>4
  <2>6. n \in i .. n
    BY <2>2, <2>5
  <2>7. frames[m].mode # "unwound"
    BY <2>2, <2>3, <2>6, <1>1 DEF UnwindingShape
  <2>8. Catchable(fs, m)
    <3>1. fs[i].catches /\ \A j \in i .. m : fs[j].sort # "noexcept"
      BY <2>3, <2>5, <1>3
    <3> QED
      BY <3>1, <2>5 DEF Catchable
  <2> HIDE DEF m
  <2>9. fs[m] = below /\ below \in ScopeFrames /\ Len(fs) = m
    BY <2>2, <1>1, <1>3 DEF m
  <2>10. /\ f \in ScopeFrames /\ f.mode = "unwound" /\ f.guards = below.guards
         /\ f.sort = below.sort /\ f.catches = below.catches
    BY <2>9, Scope_Mode DEF ScopeModes
  <2> HIDE DEF f
  <2>11. /\ gs \in Seq(ScopeFrames) /\ Len(gs) = Len(fs) /\ gs[m] = f
         /\ \A j \in 1 .. m - 1 : gs[j] = fs[j]
    BY <2>2, <2>9, <2>10, <1>3, Scope_WithTop
  <2> HIDE DEF gs, below
  <2>12. \A j \in 1 .. m : /\ gs[j].guards = fs[j].guards /\ gs[j].sort = fs[j].sort
                           /\ gs[j].catches = fs[j].catches
    <3> TAKE j \in 1 .. m
    <3>1. j = m \/ j \in 1 .. m - 1
      BY <2>2
    <3> QED
      BY <3>1, <2>9, <2>10, <2>11
  <2>13. \A j \in 1 .. m - 1 : gs[j].mode = fs[j].mode
    BY <2>11
  <2>14. fs[m].mode # "unwound" /\ gs[m].mode = "unwound"
    BY <2>7, <2>9, <2>10, <2>11, <2>2
  <2>15. FramesRight(gs, IF gs[m].mode = "unwound" THEN v + 1 ELSE v)
    BY <2>8, <2>9, <2>11, <2>12, <2>13, <2>14, <1>3, Scope_SetMode
  <2>16. v + 1 = uncaught
    BY <2>1, <1>1
  <2>17. FramesRight(frames', uncaught')
    BY <2>1, <2>14, <2>15, <2>16
  <2>18. uncaught' \in 0 .. MaxUncaught
    BY <2>1 DEF ScopeIInv
  <2> QED
    BY <2>17, <2>18, <1>2, Scope_Keeps
<1> QED
  BY <1>5, <1>6

\* The program starts again.
LEMMA Scope_Restarts ==
  ASSUME ScopeIInv, Scope_Restart
  PROVE  ScopeIInv'
<1>1. frames' = <<Frame("scope", TRUE)>> /\ uncaught' = 0 /\ ended' = NoGuard
  BY DEF Scope_Restart
<1>2. FramesRight(frames', uncaught')
  BY <1>1, Scope_Base
<1>3. uncaught' \in 0 .. MaxUncaught
  BY <1>1, UncaughtBound
<1>4. ended' \in [kind : Kinds_Scope \cup {"none"}, unwound : BOOLEAN, moved : BOOLEAN,
                  dismissed : BOOLEAN, ran : BOOLEAN] /\ GuardsTell'
  BY <1>1 DEF NoGuard, GuardsTell
<1> QED
  BY <1>2, <1>3, <1>4 DEF ScopeIInv

\* Every step keeps the invariant.
LEMMA Scope_Next ==
  ASSUME ~MovesAnyGuard
  PROVE  ScopeIInv /\ [ScopeNext]_scopeVars => ScopeIInv'
<1> SUFFICES ASSUME ScopeIInv, [ScopeNext]_scopeVars PROVE ScopeIInv'
  OBVIOUS
<1>1. CASE UNCHANGED scopeVars
  BY <1>1 DEF scopeVars, ScopeIInv, GuardsTell
<1>2. CASE ScopeNext
  BY <1>2, Scope_Enters, Scope_Leaves, Scope_Constructs, Scope_Dismisses, Scope_Moves,
     Scope_Destructs, Scope_Ends, Scope_Restarts DEF ScopeNext
<1> QED
  BY <1>1, <1>2

\* The type.
LEMMA Scope_Types == ScopeIInv => ScopeTypeOK
<1> SUFFICES ASSUME ScopeIInv PROVE ScopeTypeOK
  OBVIOUS
<1>1. frames \in Seq(ScopeFrames)
  BY Scope_Frames
<1>2. ASSUME NEW i \in DOMAIN frames
      PROVE  /\ frames[i].sort \in {"scope", "noexcept", "throws"} /\ frames[i].catches \in BOOLEAN
             /\ frames[i].mode \in {"runs", "left", "unwound"}
             /\ \A k \in DOMAIN frames[i].guards : frames[i].guards[k] \in ScopeGuards
  <2>1. i \in 1 .. Len(frames)
    BY <1>1
  <2>2. /\ frames[i].sort \in ScopeSorts /\ frames[i].catches \in BOOLEAN
        /\ frames[i].mode \in ScopeModes /\ frames[i].guards \in Seq(ScopeGuards)
    BY <2>1, <1>1, Scope_Frame
  <2>3. \A k \in DOMAIN frames[i].guards : frames[i].guards[k] \in ScopeGuards
    BY <2>2
  <2> QED
    BY <2>2, <2>3 DEF ScopeSorts, ScopeModes
<1> QED
  BY <1>2 DEF ScopeIInv, ScopeTypeOK, ScopeGuards

\* A guard runs its callable exactly if the scope ends as the guard says, as long as only
\* guards for any exit are moved (scopeguard.hpp).
THEOREM GuardsCorrect ==
  ASSUME ~MovesAnyGuard
  PROVE  ScopeSpec => [](ScopeTypeOK /\ GuardsTell)
<1>1. ScopeIInv => GuardsTell
  BY DEF ScopeIInv
<1> QED
  BY <1>1, Scope_Types, Scope_Init, Scope_Next, PTL DEF ScopeSpec
-----------------------------------------------------------------------------
(* ExceptionCapture. *)

LibraryNames == {"bad_alloc", "bad_exception", "logic_error", "runtime_error", "domain_error",
                 "invalid_argument", "length_error", "out_of_range", "overflow_error",
                 "range_error", "underflow_error"}

\* The classes of the library, which are none of the program.
LEMMA Cap_Library ==
  /\ LibraryClasses = LibraryNames \cup {"exception", "weos_exception"}
  /\ \A c \in LibraryNames : Library[c] \in LibraryClasses
  /\ NoClass \notin Classes
  /\ LibraryClasses \subseteq Classes /\ UserClasses \subseteq Classes
  /\ \A c \in LibraryClasses : c \notin UserClasses
<1>1. DOMAIN Library = LibraryNames BY DEF Library, LibraryNames
<1>2. LibraryClasses = LibraryNames \cup {"exception", "weos_exception"}
  BY <1>1 DEF LibraryClasses, Roots
<1>3. \A c \in LibraryNames : Library[c] \in {"exception", "logic_error", "runtime_error"}
  BY DEF Library, LibraryNames
<1>4. {"exception", "logic_error", "runtime_error"} \subseteq LibraryClasses
  BY <1>2 DEF LibraryNames
<1>5. NoClass \notin LibraryClasses BY <1>2 DEF LibraryNames, NoClass
<1>6. UserClasses \cap (LibraryClasses \cup {NoClass}) = {} BY UserParentType
<1> QED BY <1>2, <1>3, <1>4, <1>5, <1>6 DEF Classes

\* The base class of each class.
LEMMA Cap_Parent ==
  /\ \A c \in Classes : Parent[c] \in Classes \cup {NoClass}
  /\ \A c \in LibraryNames : Parent[c] = Library[c]
  /\ Parent["exception"] = NoClass /\ Parent["weos_exception"] = NoClass
<1>1. \A c \in Classes : Parent[c] = IF c \in UserClasses THEN UserParent[c]
                                     ELSE IF c \in Roots THEN NoClass ELSE Library[c]
  BY DEF Parent
<1>2. \A c \in UserClasses : UserParent[c] \in Classes \cup {NoClass}
  BY UserParentType DEF Classes
<1>3. \A c \in Classes : c \in UserClasses \/ c \in Roots \/ c \in LibraryNames
  BY Cap_Library DEF Classes, Roots
<1>4. \A c \in LibraryNames : c \in Classes /\ c \notin UserClasses /\ c \notin Roots
  BY Cap_Library DEF Roots, LibraryNames
<1>5. \A c \in Roots : c \in Classes /\ c \notin UserClasses BY Cap_Library DEF Roots
<1>6. \A c \in Classes : Parent[c] \in Classes \cup {NoClass}
  BY <1>1, <1>2, <1>3, <1>4, Cap_Library
<1>7. \A c \in LibraryNames : Parent[c] = Library[c] BY <1>1, <1>4
<1>8. \A c \in Roots : Parent[c] = NoClass BY <1>1, <1>5
<1> QED BY <1>6, <1>7, <1>8 DEF Roots

\* A set of classes that has the base class of each.
Upward(S) == S \subseteq Classes /\ \A c \in S : Parent[c] = NoClass \/ Parent[c] \in S

\* The base classes are those that no upward set with the class can leave out.
LEMMA Cap_Bases ==
  ASSUME NEW c \in Classes
  PROVE  Bases(c) = {b \in Classes : \A S \in SUBSET Classes : Upward(S) /\ c \in S => b \in S}
BY DEF Bases, BasesOf, Upward

\* They lie in every upward set with the class.
LEMMA Cap_BasesIn ==
  ASSUME NEW c \in Classes, NEW S, Upward(S), c \in S
  PROVE  Bases(c) \subseteq S
BY Cap_Bases DEF Upward

\* They are such a set themselves.
LEMMA Cap_BasesUp ==
  ASSUME NEW c \in Classes
  PROVE  /\ c \in Bases(c) /\ Bases(c) \subseteq Classes
         /\ Upward(Bases(c))
<1>1. c \in Bases(c) /\ Bases(c) \subseteq Classes BY Cap_Bases
<1>2. ASSUME NEW b \in Bases(c), Parent[b] # NoClass PROVE Parent[b] \in Bases(c)
  <2>1. Parent[b] \in Classes BY <1>1, <1>2, Cap_Parent
  <2>2. ASSUME NEW S \in SUBSET Classes, Upward(S), c \in S PROVE Parent[b] \in S
    <3>1. b \in S BY <2>2, Cap_Bases
    <3> QED BY <3>1, <2>2, <1>2 DEF Upward
  <2> QED BY <2>1, <2>2, Cap_Bases
<1> QED BY <1>1, <1>2 DEF Upward

\* What a base class derives from, the class derives from.
LEMMA Cap_Transitive ==
  ASSUME NEW c \in Classes, NEW b \in Bases(c)
  PROVE  b \in Classes /\ Bases(b) \subseteq Bases(c)
<1>1. b \in Classes /\ Upward(Bases(c)) BY Cap_BasesUp
<1> QED BY <1>1, Cap_BasesIn

\* The base classes of a class are itself and those of its base class.
LEMMA Cap_Unfold ==
  ASSUME NEW c \in Classes
  PROVE  /\ Parent[c] = NoClass => Bases(c) = {c}
         /\ Parent[c] # NoClass => Bases(c) = {c} \cup Bases(Parent[c])
<1>1. c \in Bases(c) BY Cap_BasesUp
<1>2. CASE Parent[c] = NoClass
  <2>1. Upward({c}) BY <1>2 DEF Upward
  <2>2. Bases(c) \subseteq {c} BY <2>1, Cap_BasesIn
  <2> QED BY <1>1, <1>2, <2>2
<1>3. CASE Parent[c] # NoClass
  <2> DEFINE p == Parent[c]
  <2>1. p \in Classes /\ p \in Bases(c) BY <1>3, Cap_Parent, Cap_BasesUp DEF Upward
  <2>2. Bases(p) \subseteq Bases(c) BY <2>1, Cap_Transitive
  <2>3. Upward(Bases(p)) /\ p \in Bases(p) /\ Bases(p) \subseteq Classes BY <2>1, Cap_BasesUp
  <2>4. Upward({c} \cup Bases(p)) BY <2>3 DEF Upward
  <2>5. Bases(c) \subseteq {c} \cup Bases(p) BY <2>4, Cap_BasesIn
  <2> QED BY <1>1, <1>3, <2>2, <2>5
<1> QED BY <1>2, <1>3

\* A class has one base class: of two of its base classes one derives from the other.
LEMMA Cap_Chain ==
  ASSUME NEW c \in Classes, NEW a \in Bases(c), NEW b \in Bases(c)
  PROVE  a \in Bases(b) \/ b \in Bases(a)
<1> DEFINE S == {x \in Bases(c) : a \in Bases(x) \/ x \in Bases(a)}
<1>1. Bases(c) \subseteq Classes /\ c \in Bases(c) /\ Upward(Bases(c)) BY Cap_BasesUp
<1>2. ASSUME NEW x \in S, Parent[x] # NoClass PROVE Parent[x] \in S
  <2>1. x \in Classes /\ a \in Classes /\ Parent[x] \in Bases(c) BY <1>1, <1>2 DEF Upward
  <2>2. CASE x \in Bases(a)
    <3>1. Upward(Bases(a)) BY <2>1, Cap_BasesUp
    <3>2. Parent[x] \in Bases(a) BY <3>1, <2>2, <1>2 DEF Upward
    <3> QED BY <3>2, <2>1
  <2>3. CASE x \notin Bases(a)
    <3>1. a \in Bases(x) BY <2>3
    <3>2. a # x BY <2>1, <2>3, Cap_BasesUp
    <3>3. a \in Bases(Parent[x]) BY <3>1, <3>2, <2>1, <1>2, Cap_Unfold
    <3> QED BY <3>3, <2>1
  <2> QED BY <2>2, <2>3
<1>3. S \subseteq Classes BY <1>1
<1>4. Upward(S) BY <1>2, <1>3 DEF Upward
<1>5. Bases(c) \subseteq S BY <1>1, <1>4, Cap_BasesIn
<1> QED BY <1>5

\* The base classes of the classes of the library.
LEMMA Cap_LibraryBases ==
  /\ Bases("exception") = {"exception"}
  /\ \A c \in {"bad_alloc", "bad_exception", "logic_error", "runtime_error"} :
       Bases(c) = {c, "exception"}
  /\ \A c \in {"domain_error", "invalid_argument", "length_error", "out_of_range"} :
       Bases(c) = {c, "logic_error", "exception"}
  /\ \A c \in {"overflow_error", "range_error", "underflow_error"} :
       Bases(c) = {c, "runtime_error", "exception"}
<1>1. /\ "exception" \in Classes /\ LibraryNames \subseteq Classes
      /\ NoClass \notin Classes
  BY Cap_Library
<1>2. Bases("exception") = {"exception"} BY <1>1, Cap_Parent, Cap_Unfold
<1>3. ASSUME NEW c \in {"bad_alloc", "bad_exception", "logic_error", "runtime_error"}
      PROVE  Bases(c) = {c, "exception"}
  <2>1. c \in LibraryNames BY DEF LibraryNames
  <2>2. Library[c] = "exception" BY DEF Library
  <2>3. Parent[c] = "exception" BY <2>1, <2>2, Cap_Parent
  <2>4. c \in Classes /\ Parent[c] # NoClass BY <1>1, <2>1, <2>3
  <2> QED BY <1>2, <2>3, <2>4, Cap_Unfold
<1>4. ASSUME NEW c \in {"domain_error", "invalid_argument", "length_error", "out_of_range"}
      PROVE  Bases(c) = {c, "logic_error", "exception"}
  <2>1. c \in LibraryNames /\ "logic_error" \in LibraryNames BY DEF LibraryNames
  <2>2. Library[c] = "logic_error" BY DEF Library
  <2>3. Parent[c] = "logic_error" BY <2>1, <2>2, Cap_Parent
  <2>4. c \in Classes /\ Parent[c] # NoClass BY <1>1, <2>1, <2>3
  <2> QED BY <1>3, <2>3, <2>4, Cap_Unfold
<1>5. ASSUME NEW c \in {"overflow_error", "range_error", "underflow_error"}
      PROVE  Bases(c) = {c, "runtime_error", "exception"}
  <2>1. c \in LibraryNames /\ "runtime_error" \in LibraryNames BY DEF LibraryNames
  <2>2. Library[c] = "runtime_error" BY DEF Library
  <2>3. Parent[c] = "runtime_error" BY <2>1, <2>2, Cap_Parent
  <2>4. c \in Classes /\ Parent[c] # NoClass BY <1>1, <2>1, <2>3
  <2> QED BY <1>3, <2>3, <2>4, Cap_Unfold
<1> QED BY <1>2, <1>3, <1>4, <1>5
-----------------------------------------------------------------------------
(* The list of handlers: a class comes before its base classes. *)

\* The classes of the list, and where those are that others derive from.
LEMMA Cap_Handlers ==
  /\ DOMAIN Handlers = 1 .. 11
  /\ Handlers \in Seq(Classes)
  /\ \A k \in DOMAIN Handlers : Handlers[k] \in LibraryNames
  /\ \A k \in DOMAIN Handlers :
       /\ Handlers[k] = "logic_error" => k = 7
       /\ Handlers[k] = "runtime_error" => k = 11
       /\ Handlers[k] \in {"domain_error", "invalid_argument", "length_error", "out_of_range"} =>
            k <= 6
       /\ Handlers[k] \in {"overflow_error", "range_error", "underflow_error"} => k <= 10
<1>1. DOMAIN Handlers = 1 .. 11 BY DEF Handlers
<1>2. /\ Handlers[1] = "bad_alloc" /\ Handlers[2] = "bad_exception"
      /\ Handlers[3] = "domain_error" /\ Handlers[4] = "invalid_argument"
      /\ Handlers[5] = "length_error" /\ Handlers[6] = "out_of_range"
      /\ Handlers[7] = "logic_error" /\ Handlers[8] = "overflow_error"
      /\ Handlers[9] = "range_error" /\ Handlers[10] = "underflow_error"
      /\ Handlers[11] = "runtime_error"
  BY DEF Handlers
<1>3. \A k \in 1 .. 11 : k = 1 \/ k = 2 \/ k = 3 \/ k = 4 \/ k = 5 \/ k = 6 \/ k = 7 \/ k = 8
                         \/ k = 9 \/ k = 10 \/ k = 11
  OBVIOUS
<1>4. \A k \in 1 .. 11 : Handlers[k] \in LibraryNames BY <1>2, <1>3 DEF LibraryNames
<1>5. Handlers \in Seq(Classes)
  <2>1. LibraryNames \subseteq Classes BY Cap_Library
  <2> QED BY <2>1 DEF Handlers, LibraryNames
<1>6. ASSUME NEW k \in 1 .. 11
      PROVE /\ Handlers[k] = "logic_error" => k = 7
            /\ Handlers[k] = "runtime_error" => k = 11
            /\ Handlers[k] \in {"domain_error", "invalid_argument", "length_error",
                                "out_of_range"} => k <= 6
            /\ Handlers[k] \in {"overflow_error", "range_error", "underflow_error"} => k <= 10
  BY <1>2, <1>3
<1> QED BY <1>1, <1>4, <1>5, <1>6

\* No handler comes before one for a class that derives from its own.
LEMMA Cap_DerivedFirst ==
  ASSUME NEW i \in DOMAIN Handlers, NEW k \in DOMAIN Handlers, i <= k,
         Handlers[i] \in Bases(Handlers[k])
  PROVE  Handlers[i] = Handlers[k]
<1>1. Handlers[i] \in LibraryNames /\ Handlers[k] \in LibraryNames /\ i \in 1 .. 11 /\ k \in 1 .. 11
  BY Cap_Handlers
<1>2. Handlers[i] # "exception" BY <1>1 DEF LibraryNames
<1>3. CASE Handlers[k] \in {"bad_alloc", "bad_exception", "logic_error", "runtime_error"}
  BY <1>2, <1>3, Cap_LibraryBases
<1>4. CASE Handlers[k] \in {"domain_error", "invalid_argument", "length_error", "out_of_range"}
  <2>1. Handlers[i] \in {Handlers[k], "logic_error", "exception"} BY <1>4, Cap_LibraryBases
  <2>2. k <= 6 /\ (Handlers[i] = "logic_error" => i = 7) BY <1>4, Cap_Handlers
  <2> QED BY <1>1, <1>2, <2>1, <2>2
<1>5. CASE Handlers[k] \in {"overflow_error", "range_error", "underflow_error"}
  <2>1. Handlers[i] \in {Handlers[k], "runtime_error", "exception"} BY <1>5, Cap_LibraryBases
  <2>2. k <= 10 /\ (Handlers[i] = "runtime_error" => i = 11) BY <1>5, Cap_Handlers
  <2> QED BY <1>1, <1>2, <2>1, <2>2
<1> QED BY <1>1, <1>3, <1>4, <1>5 DEF LibraryNames

\* What a list of catch clauses finds.
LEMMA Cap_FirstOf ==
  ASSUME NEW s \in Seq(Classes), NEW names
  PROVE  \/ /\ FirstOf(s, names) = NoClass
            /\ \A k \in DOMAIN s : s[k] \notin names
         \/ /\ FirstOf(s, names) # NoClass
            /\ \E i \in DOMAIN s : /\ FirstOf(s, names) = s[i] /\ s[i] \in names
                                   /\ \A k \in DOMAIN s : s[k] \in names => i <= k
<1> DEFINE ks == {k \in DOMAIN s : s[k] \in names}
           i == CHOOSE k \in ks : \A j \in ks : k <= j
<1>1. CASE ks = {} BY <1>1 DEF FirstOf
<1>2. CASE ks # {}
  <2>1. ks \in SUBSET Nat OBVIOUS
  <2>2. \E k \in ks : \A j \in ks : k <= j
    <3> HIDE DEF ks
    <3> QED BY <1>2, <2>1, LeastNatural
  <2>3. i \in ks /\ \A j \in ks : i <= j BY <2>2
  <2>4. FirstOf(s, names) = s[i] BY <1>2 DEF FirstOf
  <2>5. s[i] \in Classes BY <2>3
  <2>6. s[i] # NoClass BY <2>5, Cap_Library
  <2> HIDE DEF i
  <2> QED BY <2>3, <2>4, <2>6
<1> QED BY <1>1, <1>2
-----------------------------------------------------------------------------
\* The names of an exception are those of one class, weos::exception perhaps mixed in.
Named(names) == \E c \in Classes : names = Bases(c) \/ names = Decorated(c)

\* weos::exception stands in no list of handlers, and no class of the library has it.
LEMMA Cap_Mixed ==
  /\ "weos_exception" \in Classes /\ Bases("weos_exception") = {"weos_exception"}
  /\ "exception" \in Classes /\ Decorated("exception") = {"exception", "weos_exception"}
  /\ \A k \in DOMAIN Handlers :
       /\ Handlers[k] \in Classes
       /\ Handlers[k] # "exception" /\ Handlers[k] # "weos_exception"
<1>1. "weos_exception" \in Classes /\ "exception" \in Classes BY Cap_Library
<1>2. Bases("weos_exception") = {"weos_exception"} BY <1>1, Cap_Parent, Cap_Unfold
<1>3. Decorated("exception") = {"exception", "weos_exception"}
  BY Cap_LibraryBases DEF Decorated
<1>4. \A c \in LibraryNames : c \in Classes /\ c # "exception" /\ c # "weos_exception"
  BY Cap_Library DEF LibraryNames
<1> QED BY <1>1, <1>2, <1>3, <1>4, Cap_Handlers

\* Names are a set of classes, with the base classes of each of them.
LEMMA Cap_Named ==
  ASSUME NEW names, Named(names)
  PROVE  /\ names \in SUBSET Classes /\ names # {}
         /\ \A b \in names : Bases(b) \subseteq names
<1>1. PICK c \in Classes : names = Bases(c) \/ names = Decorated(c) BY DEF Named
<1>2. Bases(c) \subseteq Classes /\ c \in Bases(c) BY Cap_BasesUp
<1>3. \A b \in Bases(c) : Bases(b) \subseteq Bases(c) BY Cap_Transitive
<1> QED BY <1>1, <1>2, <1>3, Cap_Mixed DEF Decorated

\* Of two handlers that catch an exception one is for a base class of the other's.
LEMMA Cap_NamedChain ==
  ASSUME NEW names, Named(names), NEW i \in DOMAIN Handlers, NEW k \in DOMAIN Handlers,
         Handlers[i] \in names, Handlers[k] \in names
  PROVE  Handlers[i] \in Bases(Handlers[k]) \/ Handlers[k] \in Bases(Handlers[i])
<1>1. PICK c \in Classes : names = Bases(c) \/ names = Decorated(c) BY DEF Named
<1>2. Handlers[i] \in Bases(c) /\ Handlers[k] \in Bases(c)
  BY <1>1, Cap_Mixed DEF Decorated
<1> QED BY <1>2, Cap_Chain
-----------------------------------------------------------------------------
\* Two sets of names that the same handlers of the list catch.
AlikeCaught(m, n) == \A k \in DOMAIN Handlers : Handlers[k] \in m <=> Handlers[k] \in n

\* CaptureFaithful, of one exception.
Faithful(e) ==
  /\ AlikeCaught(e.from.names, e.names)
  /\ Listed(e.names) => e.located = e.from.located
  /\ e.from.captureable => e.names = e.from.names /\ e.located = e.from.located
  /\ e.names \subseteq e.from.names \cup {"exception", "weos_exception"}
  /\ e.first # {} => e.names = e.first
  /\ e.located => e.from.located

\* What a variable may hold: nothing, or a faithful exception. One that has been captured
\* is captureable, and is captured as it is the next time.
Sound(e) == /\ e \in Exceptions /\ Named(e.names) /\ Faithful(e)
            /\ e.captureable <=> e.first # {}
            /\ e.from.captureable => e.captureable
Held(e, again) == e = NoException \/ (Sound(e) /\ (again => e.captureable))

CaptureIInv ==
  /\ Held(thrown, FALSE) /\ Held(nested, TRUE) /\ Held(eptr, TRUE)
  /\ converters \in Seq(Classes)

\* NoException has the type of an exception.
LEMMA Cap_NoException == NoException \in Exceptions
BY DEF NoException, Fresh_Exception, Exception, Exceptions, Origins

\* An exception that is new is what was thrown.
LEMMA Cap_Fresh ==
  ASSUME NEW names, Named(names), NEW l \in BOOLEAN, NEW enabled \in BOOLEAN
  PROVE  LET e == Fresh_Exception([names |-> names, located |-> l, captureable |-> enabled])
         IN  Sound(e) /\ e.captureable = enabled
<1> DEFINE o == [names |-> names, located |-> l, captureable |-> enabled]
           e == Fresh_Exception(o)
<1>1. names \in SUBSET Classes /\ names # {} BY Cap_Named
<1>2. o \in Origins BY <1>1 DEF Origins
<1>3. e = [names |-> names, located |-> l, captureable |-> enabled, from |-> o,
           first |-> IF enabled THEN names ELSE {}]
  BY DEF Fresh_Exception, Exception
<1>4. e \in Exceptions BY <1>1, <1>2, <1>3 DEF Exceptions
<1>5. /\ e.names = names /\ e.located = l /\ e.captureable = enabled
      /\ e.from.names = names /\ e.from.located = l /\ e.from.captureable = enabled
      /\ e.first = IF enabled THEN names ELSE {}
  BY <1>3
<1> HIDE DEF e, o
<1>6. Faithful(e) BY <1>5 DEF Faithful, AlikeCaught
<1>7. Sound(e) BY <1>1, <1>4, <1>5, <1>6 DEF Sound
<1> QED BY <1>5, <1>7 DEF e, o

\* So is what the program throws, with its location or without.
LEMMA Cap_Raised ==
  ASSUME NEW c \in Classes, NEW enabled \in BOOLEAN, NEW located \in BOOLEAN
  PROVE  /\ Sound(Raised(c, enabled, located))
         /\ Raised(c, enabled, located).captureable = enabled
<1> DEFINE names == IF ~located THEN Bases(c)
                    ELSE IF "weos_exception" \in Bases(c) THEN {"weos_exception"}
                    ELSE Decorated(c)
<1>1. Named(names) BY Cap_Mixed DEF Named
<1>2. Raised(c, enabled, located) =
        Fresh_Exception([names |-> names, located |-> located, captureable |-> enabled])
  BY DEF Raised
<1> HIDE DEF names
<1> QED BY <1>1, <1>2, Cap_Fresh

\* So are those that take the place of a clone.
LEMMA Cap_Substitutes ==
  ASSUME NEW names, NEW e \in Substitutes(names)
  PROVE  Held(e, TRUE)
<1>1. PICK b \in {"bad_alloc", "bad_exception"} :
        e = Fresh_Exception([names |-> Decorated(b), located |-> FALSE, captureable |-> TRUE])
  BY DEF Substitutes
<1>2. b \in Classes BY Cap_Library DEF LibraryNames
<1>3. Named(Decorated(b)) BY <1>2 DEF Named
<1> QED BY <1>1, <1>3, Cap_Fresh DEF Held
-----------------------------------------------------------------------------
\* A handler of the list that catches an exception catches the class it is turned into.
LEMMA Cap_ListedKeeps ==
  ASSUME NEW names, Named(names), ListedAs(names) # NoClass
  PROVE  /\ ListedAs(names) \in Classes
         /\ Decorated(ListedAs(names)) \subseteq names \cup {"weos_exception"}
         /\ AlikeCaught(names, Decorated(ListedAs(names)))
<1>1. PICK i \in DOMAIN Handlers : /\ ListedAs(names) = Handlers[i] /\ Handlers[i] \in names
                                   /\ \A k \in DOMAIN Handlers : Handlers[k] \in names => i <= k
  BY Cap_Handlers, Cap_FirstOf DEF ListedAs
<1>2. Handlers[i] \in Classes /\ Bases(Handlers[i]) \subseteq names
  BY <1>1, Cap_Mixed, Cap_Named
<1>3. ASSUME NEW k \in DOMAIN Handlers, Handlers[k] \in names
      PROVE  Handlers[k] \in Bases(Handlers[i])
  <2>1. CASE Handlers[i] \in Bases(Handlers[k])
    <3>1. Handlers[i] = Handlers[k] BY <1>1, <1>3, <2>1, Cap_DerivedFirst
    <3> QED BY <3>1, <1>2, Cap_BasesUp
  <2> QED BY <1>1, <1>3, <2>1, Cap_NamedChain
<1> QED BY <1>1, <1>2, <1>3, Cap_Mixed DEF Decorated, AlikeCaught

\* If the list finds nothing, it names no base class.
LEMMA Cap_IsListed ==
  ASSUME NEW names
  PROVE  Listed(names) <=> \E k \in DOMAIN Handlers : Handlers[k] \in names
BY Cap_Handlers, Cap_FirstOf DEF Listed, ListedAs

\* What a clone may be of an exception with the names c: caught by the same handlers of
\* the list, and if by one of them, it has the location.
Cloned(e, d, l) ==
  /\ Named(d) /\ l \in BOOLEAN
  /\ AlikeCaught(e.names, d)
  /\ d \subseteq e.names \cup {"exception", "weos_exception"}
  /\ l => e.located
  /\ Listed(d) => l = e.located
  /\ e.captureable => d = e.names /\ l = e.located

\* The clone is that.
LEMMA Cap_Clone ==
  ASSUME NEW e, Sound(e), converters \in Seq(Classes)
  PROVE  Cloned(e, Clone(e)[1], Clone(e)[2])
<1> DEFINE c == e.names  d == Clone(e)[1]  l == Clone(e)[2]
<1>1. /\ Named(c) /\ e.located \in BOOLEAN /\ e.captureable \in BOOLEAN
  BY DEF Sound, Exceptions
<1>2. CASE e.captureable
  <2>1. d = c /\ l = e.located BY <1>2 DEF Clone
  <2> QED BY <2>1, <1>1 DEF Cloned, AlikeCaught
<1>3. CASE ~e.captureable /\ ListedAs(c) # NoClass
  <2>1. d = Decorated(ListedAs(c)) /\ l = e.located BY <1>3 DEF Clone
  <2>2. /\ ListedAs(c) \in Classes /\ d \subseteq c \cup {"weos_exception"}
        /\ AlikeCaught(c, d)
    BY <2>1, <1>1, <1>3, Cap_ListedKeeps
  <2>3. Named(d) BY <2>1, <2>2 DEF Named
  <2>4. l = e.located /\ l \in BOOLEAN BY <2>1, <1>1
  <2>5. d \subseteq e.names \cup {"exception", "weos_exception"} BY <2>2
  <2> SUFFICES Cloned(e, d, l) OBVIOUS
  <2> HIDE DEF d, l
  <2> QED BY <2>2, <2>3, <2>4, <2>5, <1>3 DEF Cloned
<1>4. CASE ~e.captureable /\ ListedAs(c) = NoClass
  <2>1. \A k \in DOMAIN Handlers : Handlers[k] \notin c BY <1>4, Cap_IsListed DEF Listed
  <2>2. SUFFICES ASSUME Named(d), l = FALSE, d \subseteq c \cup {"exception", "weos_exception"}
                 PROVE  Cloned(e, d, l)
    <3>1. CASE ConvertedTo(c) # NoClass
      <4> DEFINE t == ConvertedTo(c)
      <4>1. d = Bases(t) /\ l = FALSE BY <1>4, <3>1 DEF Clone
      <4>2. t = FirstOf(converters, c) BY <3>1 DEF ConvertedTo
      <4>3. t \in c BY <4>2, <3>1, Cap_FirstOf
      <4>4. t \in Classes /\ Bases(t) \subseteq c BY <4>3, <1>1, Cap_Named
      <4>5. Named(d) BY <4>1, <4>4 DEF Named
      <4> QED BY <4>1, <4>4, <4>5, <2>2
    <3>2. CASE ConvertedTo(c) = NoClass
      <4>1. d = Decorated("exception") /\ l = FALSE BY <1>4, <3>2 DEF Clone
      <4>2. Named(d) BY <4>1, Cap_Mixed DEF Named
      <4> QED BY <4>1, <4>2, Cap_Mixed, <2>2
    <3> QED BY <3>1, <3>2
  <2> HIDE DEF d, l, c
  <2>3. AlikeCaught(c, d) /\ \A k \in DOMAIN Handlers : Handlers[k] \notin d
    BY <2>1, <2>2, Cap_Mixed DEF AlikeCaught
  <2>4. ~Listed(d) BY <2>3, Cap_IsListed
  <2> QED BY <2>2, <2>3, <2>4, <1>4 DEF Cloned, c
<1> QED BY <1>1, <1>2, <1>3, <1>4

\* The clone of a faithful exception is faithful.
LEMMA Cap_Captured ==
  ASSUME NEW e, Sound(e), converters \in Seq(Classes)
  PROVE  Held(Captured(e), TRUE)
<1> DEFINE x == Captured(e)  d == Clone(e)[1]  l == Clone(e)[2]
<1>1. Cloned(e, d, l) BY Cap_Clone
<1>2. x = [names |-> d, located |-> l, captureable |-> TRUE, from |-> e.from,
           first |-> IF e.first = {} THEN d ELSE e.first]
  BY DEF Captured, Exception
<1> HIDE DEF d, l
<1>3. d \in SUBSET Classes /\ d # {} /\ l \in BOOLEAN BY <1>1, Cap_Named DEF Cloned
<1>4. e.from \in Origins /\ e.first \in SUBSET Classes BY DEF Sound, Exceptions
<1>5. x \in Exceptions BY <1>2, <1>3, <1>4 DEF Exceptions
<1>6. /\ x.names = d /\ x.located = l /\ x.from = e.from /\ x.captureable = TRUE
      /\ x.first = IF e.first = {} THEN d ELSE e.first
  BY <1>2
<1> HIDE DEF x
<1>7. Faithful(x)
  <2>1. AlikeCaught(e.from.names, d) BY <1>1 DEF Cloned, AlikeCaught, Sound, Faithful
  <2>2. Listed(d) => l = e.from.located
    <3>1. SUFFICES ASSUME Listed(d) PROVE l = e.from.located OBVIOUS
    <3>2. Listed(e.names) BY <3>1, <1>1, Cap_IsListed DEF Cloned, AlikeCaught
    <3> QED BY <3>1, <3>2, <1>1 DEF Cloned, Sound, Faithful
  <2>3. e.from.captureable => d = e.from.names /\ l = e.from.located
    BY <1>1 DEF Cloned, Sound, Faithful
  <2>4. d \subseteq e.from.names \cup {"exception", "weos_exception"}
    BY <1>1 DEF Cloned, Sound, Faithful
  <2>5. x.first # {} => d = x.first BY <1>1, <1>6 DEF Cloned, Sound, Faithful
  <2>6. l => e.from.located BY <1>1 DEF Cloned, Sound, Faithful
  <2> QED BY <1>6, <2>1, <2>2, <2>3, <2>4, <2>5, <2>6 DEF Faithful
<1>8. x.first # {} BY <1>3, <1>6
<1>9. Named(x.names) BY <1>1, <1>6 DEF Cloned
<1>10. Sound(x) BY <1>5, <1>6, <1>7, <1>8, <1>9 DEF Sound
<1> QED BY <1>6, <1>10 DEF Held, x

\* So is all that a capture may return.
LEMMA Cap_Captures ==
  ASSUME converters \in Seq(Classes)
  PROVE  /\ \A e : Sound(e) => \A x \in Captures(e) : Held(x, TRUE)
         /\ \A c \in Thrown : \A x \in Results(Raised(c, TRUE, FALSE)) \cup Interferes(Bases(c)) :
              Held(x, TRUE)
<1>1. ASSUME NEW e, Sound(e), NEW x \in Results(e) PROVE Held(x, TRUE)
  BY <1>1, Cap_Captured, Cap_Substitutes DEF Results
<1>2. \A c \in Thrown : \A enabled, located \in BOOLEAN : Sound(Raised(c, enabled, located))
  BY ThrownType, Cap_Raised
<1>3. ASSUME NEW names, NEW x \in Interferes(names) PROVE Held(x, TRUE)
  <2>1. PICK c \in Thrown, enabled \in BOOLEAN, located \in BOOLEAN :
          x \in Results(Raised(c, enabled, located))
    BY DEF Interferes
  <2> QED BY <2>1, <1>1, <1>2
<1>4. ASSUME NEW e, Sound(e), NEW x \in Captures(e) PROVE Held(x, TRUE)
  BY <1>1, <1>3, <1>4 DEF Captures
<1> QED BY <1>1, <1>2, <1>3, <1>4
-----------------------------------------------------------------------------
\* The invariant holds at first.
LEMMA Cap_Init == CaptureInit => CaptureIInv
<1> SUFFICES ASSUME CaptureInit PROVE CaptureIInv OBVIOUS
<1>1. thrown = NoException /\ nested = NoException /\ eptr = NoException /\ converters = <<>>
  BY DEF CaptureInit
<1>2. <<>> \in Seq(Classes) OBVIOUS
<1> QED BY <1>1, <1>2 DEF CaptureIInv, Held

\* Every step keeps the invariant.
LEMMA Cap_Step ==
  ASSUME CaptureIInv, CaptureNext
  PROVE  CaptureIInv'
<1>1. /\ Held(thrown, FALSE) /\ Held(nested, TRUE) /\ Held(eptr, TRUE)
      /\ converters \in Seq(Classes)
  BY DEF CaptureIInv
<1>2. Held(NoException, TRUE) /\ Held(NoException, FALSE) BY DEF Held
<1>3. thrown # NoException => \A x \in Captures(thrown) : Held(x, TRUE)
  BY <1>1, Cap_Captures DEF Held
<1>4. \A c \in Thrown : \A x \in Results(Raised(c, TRUE, FALSE)) \cup Interferes(Bases(c)) :
        Held(x, TRUE)
  BY <1>1, Cap_Captures
<1>5. Thrown \subseteq Classes /\ Registered \subseteq Classes BY ThrownType
<1>6. \A e : Held(e, TRUE) => Held(e, FALSE) BY DEF Held
<1>7. \A c \in Thrown : \A enabled, located \in BOOLEAN :
        Held(Raised(c, enabled, located), FALSE)
  BY <1>5, Cap_Raised DEF Held
<1>8. SUFFICES /\ Held(thrown', FALSE) /\ Held(nested', TRUE) /\ Held(eptr', TRUE)
               /\ converters' \in Seq(Classes)
  BY DEF CaptureIInv, Held, Sound, Faithful
<1>9. ASSUME NEW c \in Thrown, MakeExceptionPtr(c) PROVE Held(eptr', TRUE)
  BY <1>4, <1>9 DEF MakeExceptionPtr
<1>10. ASSUME NEW c \in Thrown, NEW enabled \in BOOLEAN, NEW located \in BOOLEAN,
              ThrowWithNested(c, enabled, located)
       PROVE  Held(nested', TRUE)
  BY <1>3, <1>10 DEF ThrowWithNested
<1>11. ASSUME NEW c \in Registered, RegisterExceptionType(c) PROVE converters' \in Seq(Classes)
  <2>1. converters' = <<c>> \o converters BY <1>11 DEF RegisterExceptionType
  <2> QED BY <2>1, <1>1, <1>5
<1>12. CASE \E c \in Thrown : MakeExceptionPtr(c)
  BY <1>1, <1>9, <1>12 DEF MakeExceptionPtr
<1>13. CASE \E c \in Thrown : \E enabled, located \in BOOLEAN : Throw(c, enabled, located)
  BY <1>1, <1>2, <1>7, <1>13 DEF Throw
<1>14. CASE \E c \in Thrown : \E enabled, located \in BOOLEAN :
              ThrowWithNested(c, enabled, located)
  BY <1>1, <1>7, <1>10, <1>14 DEF ThrowWithNested
<1>15. CASE Handled BY <1>1, <1>2, <1>15 DEF Handled
<1>16. CASE CurrentException BY <1>1, <1>3, <1>16 DEF CurrentException
<1>17. CASE ResetExceptionPtr \/ NestedPtr
  BY <1>1, <1>2, <1>17 DEF ResetExceptionPtr, NestedPtr
<1>18. CASE RethrowException \/ RethrowNested
  BY <1>1, <1>2, <1>6, <1>18 DEF RethrowException, RethrowNested, Rethrow
<1>19. CASE \E c \in Registered : RegisterExceptionType(c)
  BY <1>1, <1>11, <1>19 DEF RegisterExceptionType
<1> QED BY <1>12, <1>13, <1>14, <1>15, <1>16, <1>17, <1>18, <1>19 DEF CaptureNext

\* So does standing still.
LEMMA Cap_Next == CaptureIInv /\ [CaptureNext]_captureVars => CaptureIInv'
<1>1. CaptureIInv /\ UNCHANGED captureVars => CaptureIInv'
  BY DEF CaptureIInv, captureVars, Held, Sound, Faithful
<1> QED BY <1>1, Cap_Step

\* The invariant is what the run checks, and more.
LEMMA Cap_Faithful == CaptureIInv => CaptureTypeOK /\ CaptureFaithful
<1> SUFFICES ASSUME CaptureIInv PROVE CaptureTypeOK /\ CaptureFaithful OBVIOUS
<1>1. {thrown, nested, eptr} \subseteq Exceptions
  BY Cap_NoException DEF CaptureIInv, Held, Sound
<1>2. CaptureTypeOK BY <1>1 DEF CaptureIInv, CaptureTypeOK
<1>3. ASSUME NEW e \in {thrown, nested, eptr} \ {NoException} PROVE Faithful(e)
  BY DEF CaptureIInv, Held, Sound
<1> QED BY <1>2, <1>3 DEF CaptureFaithful, Faithful, AlikeCaught

\* However an exception is captured, nested and thrown again, it is caught by the same
\* handlers of the list, and by none it was not thrown for but those for std::exception
\* and weos::exception: for every hierarchy of classes, every order in which they are
\* registered, and whatever constructors throw in between.
THEOREM CaptureCorrect == CaptureSpec => [](CaptureTypeOK /\ CaptureFaithful)
BY Cap_Init, Cap_Next, Cap_Faithful, PTL DEF CaptureSpec
-----------------------------------------------------------------------------
(* Duration.  Powers of two and greatest common divisors are recursive      *)
(* functions: what they compute follows from the least number for which it  *)
(* would not be so.  Then each function is taken on its own: what it does   *)
(* to numbers of ticks is what it should do to times, in a unit that both   *)
(* ticks are multiples of.                                                  *)

\* The beginning of a table of the powers of two.
PowersTo(f, n) == /\ f \in [0 .. n -> Nat] /\ f[0] = 1
                  /\ \A k \in 0 .. n : k # 0 => f[k] = 2 * f[k - 1]

\* It can be as long as one likes: of the lengths it cannot have there would be a least.
LEMMA PowersExist == \A n \in Nat : \E f : PowersTo(f, n)
<1> DEFINE Missing == {n \in Nat : ~(\E f : PowersTo(f, n))}
<1> SUFFICES ASSUME Missing # {} PROVE FALSE
  OBVIOUS
<1>1. PICK m \in Missing : \A k \in Missing : m <= k
  BY LeastNatural
<1>2. CASE m = 0
  <2>1. PowersTo([k \in 0 .. 0 |-> 1], 0)
    BY DEF PowersTo
  <2> QED
    BY <1>1, <1>2, <2>1
<1>3. CASE m # 0
  <2>1. m \in Nat /\ m - 1 \in Nat /\ m - 1 \notin Missing
    BY <1>1, <1>3
  <2>2. PICK f : PowersTo(f, m - 1)
    BY <2>1
  <2> DEFINE g == [k \in 0 .. m |-> IF k = m THEN 2 * f[m - 1] ELSE f[k]]
  <2>3. f \in [0 .. m - 1 -> Nat] /\ f[0] = 1 /\ \A k \in 0 .. m - 1 : k # 0 => f[k] = 2 * f[k - 1]
    BY <2>2 DEF PowersTo
  <2>4. g \in [0 .. m -> Nat]
    BY <2>1, <2>3
  <2>5. g[0] = 1
    BY <2>1, <2>3, <1>3
  <2>6. ASSUME NEW k \in 0 .. m, k # 0 PROVE g[k] = 2 * g[k - 1]
    BY <2>1, <2>3, <2>6
  <2> HIDE DEF g
  <2>7. PowersTo(g, m)
    BY <2>4, <2>5, <2>6 DEF PowersTo
  <2> QED
    BY <1>1, <2>7
<1> QED
  BY <1>2, <1>3

\* Two tables are the same where both have something.
LEMMA PowersAgree ==
  ASSUME NEW f, NEW g, NEW n \in Nat, NEW m \in Nat, PowersTo(f, n), PowersTo(g, m),
         NEW k \in Nat, k <= n, k <= m
  PROVE  f[k] = g[k]
<1> DEFINE Differ == {i \in Nat : i <= n /\ i <= m /\ f[i] # g[i]}
<1> SUFFICES ASSUME Differ # {} PROVE FALSE
  OBVIOUS
<1>1. PICK i \in Differ : \A j \in Differ : i <= j
  BY LeastNatural
<1>2. i # 0
  BY <1>1 DEF PowersTo
<1>3. i \in Nat /\ i - 1 \in Nat /\ i - 1 \notin Differ
  BY <1>1, <1>2
<1>4. f[i - 1] = g[i - 1]
  BY <1>1, <1>3
<1>5. f[i] = 2 * f[i - 1] /\ g[i] = 2 * g[i - 1]
  BY <1>1, <1>2 DEF PowersTo
<1> QED
  BY <1>1, <1>4, <1>5

\* So there is a function with the recursion of PowerOfTwo, ...
LEMMA PowerDef ==
  PowerOfTwo = [n \in Nat |-> IF n = 0 THEN 1 ELSE 2 * PowerOfTwo[n - 1]]
<1> DEFINE table(n) == CHOOSE f : PowersTo(f, n)
<1> DEFINE h == [n \in Nat |-> table(n)[n]]
<1>1. ASSUME NEW n \in Nat PROVE PowersTo(table(n), n)
  BY PowersExist
<1> HIDE DEF table
<1>2. ASSUME NEW n \in Nat PROVE h[n] = IF n = 0 THEN 1 ELSE 2 * h[n - 1]
  <2>1. CASE n = 0
    BY <1>1, <2>1 DEF PowersTo
  <2>2. CASE n # 0
    <3>1. n - 1 \in Nat /\ n - 1 <= n
      BY <2>2
    <3>2. PowersTo(table(n), n) /\ PowersTo(table(n - 1), n - 1)
      BY <1>1, <3>1
    <3>3. table(n)[n - 1] = table(n - 1)[n - 1]
      BY <3>1, <3>2, PowersAgree
    <3>4. table(n)[n] = 2 * table(n)[n - 1]
      BY <2>2, <3>2 DEF PowersTo
    <3> QED
      BY <2>2, <3>1, <3>3, <3>4
  <2> QED
    BY <2>1, <2>2
<1>3. h = [n \in Nat |-> h[n]]
  OBVIOUS
<1> HIDE DEF h
<1>4. h = [n \in Nat |-> IF n = 0 THEN 1 ELSE 2 * h[n - 1]]
  BY <1>2, <1>3
<1> QED
  BY <1>4 DEF PowerOfTwo

\* ... and that is what it is: positive, and twice as large for each bit.
LEMMA Powers ==
  ASSUME NEW n \in Nat
  PROVE  /\ PowerOfTwo[n] \in Nat \ {0}
         /\ n # 0 => PowerOfTwo[n] = 2 * PowerOfTwo[n - 1]
<1> DEFINE Wrong == {k \in Nat : PowerOfTwo[k] \notin Nat \ {0}}
<1>1. \A k \in Nat : PowerOfTwo[k] = IF k = 0 THEN 1 ELSE 2 * PowerOfTwo[k - 1]
  BY PowerDef
<1>2. Wrong = {}
  <2> SUFFICES ASSUME Wrong # {} PROVE FALSE
    OBVIOUS
  <2>1. PICK m \in Wrong : \A k \in Wrong : m <= k
    BY LeastNatural
  <2>2. m \in Nat /\ m # 0
    BY <2>1, <1>1
  <2>3. m - 1 \in Nat /\ m - 1 \notin Wrong
    BY <2>1, <2>2
  <2>4. PowerOfTwo[m - 1] \in Nat \ {0}
    BY <2>3
  <2>5. PowerOfTwo[m] = 2 * PowerOfTwo[m - 1]
    BY <2>2, <1>1
  <2> QED
    BY <2>1, <2>4, <2>5
<1> QED
  BY <1>1, <1>2

\* Narrow keeps what fits and makes everything else fit.
LEMMA Narrowed ==
  ASSUME NEW w \in Nat \ {0}, NEW n \in Int
  PROVE  /\ Narrow(n, w) \in Int /\ Fits(Narrow(n, w), w)
         /\ Fits(n, w) => Narrow(n, w) = n
         /\ RepMin(w) \in Int /\ RepMax(w) \in Nat /\ RepMin(w) < 0
<1> DEFINE p == PowerOfTwo[w - 1] r == n % (2 * p)
<1>1. p \in Nat \ {0} /\ PowerOfTwo[w] = 2 * p
  BY Powers
<1> HIDE DEF p
<1>2. RepMin(w) = -p /\ RepMax(w) = p - 1
  BY DEF RepMin, RepMax, p
<1>3. Narrow(n, w) = IF r >= p THEN r - 2 * p ELSE r
  BY <1>1 DEF Narrow, p
<1>4. r \in 0 .. 2 * p - 1
  BY <1>1
<1> HIDE DEF r
<1>5. Fits(n, w) => r = IF n >= 0 THEN n ELSE n + 2 * p
  <2>1. ASSUME n \in -p .. p - 1 PROVE r = IF n >= 0 THEN n ELSE n + 2 * p
    <3>1. CASE n >= 0
      BY <1>1, <2>1, <3>1 DEF r
    <3>2. CASE n < 0
      BY <1>1, <2>1, <3>2 DEF r
    <3> QED
      BY <3>1, <3>2, <2>1
  <2> QED
    BY <1>2, <2>1 DEF Fits
<1> QED
  BY <1>1, <1>2, <1>3, <1>4, <1>5 DEF Fits

\* d divides n.
Divides(d, n) == \E k \in Nat : n = d * k
\* d divides both a and b.
CommonDivisor(d, a, b) == d \in Nat \ {0} /\ Divides(d, a) /\ Divides(d, b)

\* g is the greatest common divisor of a and b.
IsGcd(g, a, b) ==
  IF a = 0 /\ b = 0 THEN g = 0
  ELSE CommonDivisor(g, a, b) /\ \A d : CommonDivisor(d, a, b) => d <= g

\* A divisor is not larger than what it divides.
LEMMA DivisorSmaller ==
  ASSUME NEW d \in Nat, NEW n \in Nat \ {0}, Divides(d, n)
  PROVE  d <= n
<1>1. PICK k \in Nat : n = d * k
  BY DEF Divides
<1>2. PICK j \in Nat : k = j + 1
  <2>1. k # 0
    BY <1>1
  <2> QED
    BY <2>1
<1>3. n = d * j + d /\ d * j \in Nat
  BY <1>1, <1>2
<1> QED
  BY <1>3

\* There is a greatest common divisor, and only one.
LEMMA GcdExists ==
  ASSUME NEW a \in Nat, NEW b \in Nat
  PROVE  \E g \in Nat : IsGcd(g, a, b)
<1>1. CASE a = 0 /\ b = 0
  BY <1>1 DEF IsGcd
<1>2. CASE ~(a = 0 /\ b = 0)
  <2> DEFINE Below == {n \in Nat : \E d \in Nat : CommonDivisor(d, a, b) /\ n = a + b - d}
  <2>1. ASSUME NEW d, CommonDivisor(d, a, b) PROVE d \in Nat /\ d <= a + b
    BY <2>1, <1>2, DivisorSmaller DEF CommonDivisor
  <2>2. CommonDivisor(1, a, b)
    <3>1. a = 1 * a /\ b = 1 * b
      OBVIOUS
    <3> QED
      BY <3>1 DEF CommonDivisor, Divides
  <2>3. a + b - 1 \in Below
    BY <2>1, <2>2
  <2>4. PICK m \in Below : \A k \in Below : m <= k
    BY <2>3, LeastNatural
  <2>5. PICK g \in Nat : CommonDivisor(g, a, b) /\ m = a + b - g
    BY <2>4
  <2>6. ASSUME NEW d, CommonDivisor(d, a, b) PROVE d <= g
    <3>1. d \in Nat /\ a + b - d \in Nat
      BY <2>1, <2>6
    <3>2. a + b - d \in Below
      BY <3>1, <2>6
    <3>3. m <= a + b - d
      BY <3>2, <2>4
    <3> QED
      BY <3>1, <3>3, <2>5
  <2> QED
    BY <1>2, <2>5, <2>6 DEF IsGcd
<1> QED
  BY <1>1, <1>2

\* There is only one greatest common divisor.
LEMMA GcdUnique ==
  ASSUME NEW a \in Nat, NEW b \in Nat, NEW g, NEW h, IsGcd(g, a, b), IsGcd(h, a, b)
  PROVE  g = h
<1>1. CASE a = 0 /\ b = 0
  BY <1>1 DEF IsGcd
<1>2. CASE ~(a = 0 /\ b = 0)
  <2>1. g <= h /\ h <= g /\ g \in Nat /\ h \in Nat
    BY <1>2 DEF IsGcd, CommonDivisor
  <2> QED
    BY <2>1
<1> QED
  BY <1>1, <1>2

\* What divides two numbers divides the rest of their division, and the other way round.
LEMMA DivideSums ==
  ASSUME NEW d \in Nat \ {0}, NEW b \in Nat, NEW q \in Nat, NEW r \in Nat, Divides(d, b)
  PROVE  Divides(d, b * q + r) <=> Divides(d, r)
<1>1. PICK k \in Nat : b = d * k
  BY DEF Divides
<1>2. b * q = d * (k * q) /\ k * q \in Nat
  BY <1>1
<1>3. ASSUME Divides(d, r) PROVE Divides(d, b * q + r)
  <2>1. PICK j \in Nat : r = d * j
    BY <1>3 DEF Divides
  <2>2. d * (k * q) + d * j = d * (k * q + j) /\ k * q + j \in Nat
    BY <1>2
  <2> QED
    BY <2>1, <2>2, <1>2 DEF Divides
<1>4. ASSUME Divides(d, b * q + r) PROVE Divides(d, r)
  <2> DEFINE l == k * q
  <2>1. PICK j \in Nat : b * q + r = d * j
    BY <1>4 DEF Divides
  <2>2. l \in Nat /\ d * l + r = d * j
    BY <1>2, <2>1
  <2> HIDE DEF l
  <2>3. d * (j - l) = d * j - d * l
    BY <2>2
  <2>4. r = d * (j - l)
    BY <2>2, <2>3
  <2>5. j - l >= 0
    <3> SUFFICES ASSUME j < l PROVE FALSE
      BY <2>2
    <3>1. PICK e \in Nat : l = j + 1 + e
      BY <2>2
    <3>2. d * l = d * j + d + d * e /\ d * e \in Nat /\ d * j \in Nat
      BY <3>1
    <3> QED
      BY <3>2, <2>2
  <2> QED
    BY <2>4, <2>5, <2>2 DEF Divides
<1> QED
  BY <1>3, <1>4

\* Euclid's step.
LEMMA GcdStep ==
  ASSUME NEW a \in Nat, NEW b \in Nat \ {0}, NEW g
  PROVE  IsGcd(g, a, b) <=> IsGcd(g, b, a % b)
<1>1. PICK q \in Nat, r \in Nat : a = b * q + r /\ r = a % b
  <2>1. a \div b \in Nat /\ a % b \in Nat /\ a = (a \div b) * b + (a % b)
    BY DivSplit
  <2>2. PICK q \in Nat, r \in Nat : q = a \div b /\ r = a % b
    BY <2>1
  <2>3. a = q * b + r
    BY <2>1, <2>2, Zenon
  <2>4. a = b * q + r
    BY <2>3
  <2> QED
    BY <2>2, <2>4, Zenon
<1>2. \A d : CommonDivisor(d, a, b) <=> CommonDivisor(d, b, r)
  BY <1>1, DivideSums DEF CommonDivisor
<1>3. IsGcd(g, a, b) <=> IsGcd(g, b, r)
  BY <1>2 DEF IsGcd
<1> QED
  BY <1>1, <1>3

\* Its end.
LEMMA GcdZero ==
  ASSUME NEW a \in Nat
  PROVE  IsGcd(a, a, 0)
<1>1. CASE a = 0
  BY <1>1 DEF IsGcd
<1>2. CASE a # 0
  <2>1. a = a * 1 /\ 0 = a * 0
    OBVIOUS
  <2>2. CommonDivisor(a, a, 0)
    BY <2>1, <1>2 DEF CommonDivisor, Divides
  <2>3. ASSUME NEW d, CommonDivisor(d, a, 0) PROVE d <= a
    BY <2>3, <1>2, DivisorSmaller DEF CommonDivisor
  <2> QED
    BY <1>2, <2>2, <2>3 DEF IsGcd
<1> QED
  BY <1>1, <1>2

\* The greatest common divisor is a solution of the recursion of static_gcd_impl, so ...
LEMMA GcdDef ==
  static_gcd_impl = [p \in Nat \X Nat |->
                       IF p[2] = 0 THEN p[1] ELSE static_gcd_impl[<<p[2], p[1] % p[2]>>]]
<1> DEFINE h == [p \in Nat \X Nat |-> CHOOSE g \in Nat : IsGcd(g, p[1], p[2])]
<1>1. ASSUME NEW a \in Nat, NEW b \in Nat PROVE IsGcd(h[<<a, b>>], a, b)
  <2>1. h[<<a, b>>] = CHOOSE g \in Nat : IsGcd(g, a, b)
    OBVIOUS
  <2> HIDE DEF h
  <2> QED
    BY <2>1, GcdExists
<1>2. h = [p \in Nat \X Nat |-> h[p]]
  OBVIOUS
<1> HIDE DEF h
<1>3. ASSUME NEW a \in Nat, NEW b \in Nat
      PROVE  h[<<a, b>>] = IF b = 0 THEN a ELSE h[<<b, a % b>>]
  <2>1. CASE b = 0
    <3>1. IsGcd(h[<<a, 0>>], a, 0) /\ IsGcd(a, a, 0)
      BY <1>1, GcdZero
    <3> QED
      BY <2>1, <3>1, GcdUnique
  <2>2. CASE b # 0
    <3>1. a % b \in Nat
      BY <2>2
    <3>2. IsGcd(h[<<a, b>>], b, a % b)
      BY <1>1, <2>2, GcdStep
    <3>3. IsGcd(h[<<b, a % b>>], b, a % b)
      BY <1>1, <3>1
    <3>4. h[<<a, b>>] = h[<<b, a % b>>]
      BY <3>1, <3>2, <3>3, GcdUnique
    <3> QED
      BY <2>2, <3>4
  <2> QED
    BY <2>1, <2>2
<1>4. ASSUME NEW p \in Nat \X Nat
      PROVE  h[p] = IF p[2] = 0 THEN p[1] ELSE h[<<p[2], p[1] % p[2]>>]
  <2>1. p = <<p[1], p[2]>> /\ p[1] \in Nat /\ p[2] \in Nat
    OBVIOUS
  <2>2. h[<<p[1], p[2]>>] = IF p[2] = 0 THEN p[1] ELSE h[<<p[2], p[1] % p[2]>>]
    BY <1>3, <2>1
  <2> QED
    BY <2>1, <2>2
<1>5. h = [p \in Nat \X Nat |-> IF p[2] = 0 THEN p[1] ELSE h[<<p[2], p[1] % p[2]>>]]
  BY <1>2, <1>4
<1> QED
  BY <1>5 DEF static_gcd_impl

\* ... it is what static_gcd returns: of the second numbers for which it were not, there
\* would be a least.
LEMMA GcdCorrect ==
  ASSUME NEW a \in Nat, NEW b \in Nat
  PROVE  IsGcd(static_gcd(a, b), a, b)
<1> DEFINE Wrong == {n \in Nat : \E k \in Nat : ~IsGcd(static_gcd_impl[<<k, n>>], k, n)}
<1>1. ASSUME NEW k \in Nat, NEW n \in Nat
      PROVE  static_gcd_impl[<<k, n>>] = IF n = 0 THEN k ELSE static_gcd_impl[<<n, k % n>>]
  <2> DEFINE p == <<k, n>>
  <2>1. p \in Nat \X Nat /\ p[1] = k /\ p[2] = n
    OBVIOUS
  <2> HIDE DEF p
  <2>2. static_gcd_impl[p] = IF p[2] = 0 THEN p[1] ELSE static_gcd_impl[<<p[2], p[1] % p[2]>>]
    BY <2>1, GcdDef
  <2>3. static_gcd_impl[p] = IF n = 0 THEN k ELSE static_gcd_impl[<<n, k % n>>]
    BY <2>1, <2>2
  <2> QED
    BY <2>3 DEF p
<1>2. Wrong = {}
  <2> SUFFICES ASSUME Wrong # {} PROVE FALSE
    OBVIOUS
  <2>1. PICK m \in Wrong : \A n \in Wrong : m <= n
    BY LeastNatural
  <2>2. PICK k \in Nat : ~IsGcd(static_gcd_impl[<<k, m>>], k, m)
    BY <2>1
  <2>3. m # 0
    BY <2>1, <2>2, <1>1, GcdZero
  <2>4. m \in Nat /\ k % m \in Nat /\ k % m < m
    BY <2>1, <2>3
  <2>5. k % m \notin Wrong
    BY <2>1, <2>4
  <2>6. IsGcd(static_gcd_impl[<<m, k % m>>], m, k % m)
    BY <2>4, <2>5
  <2>7. static_gcd_impl[<<k, m>>] = static_gcd_impl[<<m, k % m>>]
    BY <2>3, <2>4, <1>1
  <2>8. IsGcd(static_gcd_impl[<<k, m>>], k, m)
    BY <2>3, <2>4, <2>6, <2>7, GcdStep
  <2> QED
    BY <2>2, <2>8
<1> QED
  BY <1>2 DEF static_gcd

\* Comparisons of products with a positive factor.
LEMMA TimesPositive ==
  ASSUME NEW a \in Int, NEW b \in Int, NEW c \in Nat \ {0}
  PROVE  /\ a * c \in Int
         /\ a <= b <=> a * c <= b * c
         /\ a < b <=> a * c < b * c
         /\ a = b <=> a * c = b * c
<1>1. ASSUME NEW x \in Int, NEW y \in Int, x < y PROVE x * c < y * c
  <2>1. PICK e \in Nat : y = x + 1 + e
    <3>1. y - x - 1 \in Nat /\ y = x + 1 + (y - x - 1)
      BY <1>1
    <3> QED
      BY <3>1
  <2>2. y * c = x * c + c + e * c /\ e * c \in Nat /\ x * c \in Int
    BY <2>1
  <2> QED
    BY <2>2
<1>2. a * c \in Int /\ b * c \in Int
  OBVIOUS
<1> QED
  BY <1>1, <1>2

\* Division of a multiple.
LEMMA DivideMultiple ==
  ASSUME NEW d \in Nat \ {0}, NEW n \in Nat, Divides(d, n)
  PROVE  n \div d \in Nat /\ n = d * (n \div d)
<1>1. PICK k \in Nat : n = d * k
  BY DEF Divides
<1>2. n \div d \in Nat /\ n % d \in 0 .. d - 1 /\ n = (n \div d) * d + (n % d)
  BY DivSplit
<1> DEFINE q == n \div d  r == n % d
<1>3. q \in Nat /\ r \in 0 .. d - 1 /\ n = q * d + r
  BY <1>2, Zenon
<1> HIDE DEF q, r
<1>4. k * d <= (q + 1) * d - 1 /\ q * d <= k * d
  <2>1. n = k * d /\ (q + 1) * d = q * d + d /\ q * d \in Nat
    BY <1>1, <1>3
  <2> QED
    BY <2>1, <1>3
<1>5. k * d < (q + 1) * d
  <2>1. (q + 1) * d \in Int /\ k * d \in Int
    BY <1>3
  <2> QED
    BY <2>1, <1>4
<1>6. k < q + 1 /\ q <= k
  BY <1>3, <1>4, <1>5, TimesPositive
<1>7. k = q
  BY <1>3, <1>6
<1> QED
  BY <1>1, <1>3, <1>7 DEF q

\* What static_gcd returns for positive numbers.
LEMMA GcdFacts ==
  ASSUME NEW a \in Nat \ {0}, NEW b \in Nat \ {0}, NEW g, g = static_gcd(a, b)
  PROVE  /\ g \in Nat \ {0} /\ g = static_gcd(b, a)
         /\ a \div g \in Nat \ {0} /\ a = g * (a \div g)
         /\ b \div g \in Nat \ {0} /\ b = g * (b \div g)
         /\ Divides(b, a) => g = b
<1>1. CommonDivisor(g, a, b) /\ \A d : CommonDivisor(d, a, b) => d <= g
  BY GcdCorrect DEF IsGcd
<1>2. g \in Nat \ {0} /\ Divides(g, a) /\ Divides(g, b)
  BY <1>1 DEF CommonDivisor
<1>3. /\ a \div g \in Nat /\ a = g * (a \div g)
      /\ b \div g \in Nat /\ b = g * (b \div g)
  BY <1>2, DivideMultiple
<1>4. a \div g # 0 /\ b \div g # 0
  <2>1. g * 0 = 0
    BY <1>2
  <2> QED
    BY <1>3, <2>1
<1>5. g = static_gcd(b, a)
  <2>1. IsGcd(g, b, a)
    BY <1>1 DEF IsGcd, CommonDivisor
  <2>2. IsGcd(static_gcd(b, a), b, a)
    BY GcdCorrect
  <2> QED
    BY <2>1, <2>2, GcdUnique
<1>6. ASSUME Divides(b, a) PROVE g = b
  <2>1. b = b * 1
    OBVIOUS
  <2>2. CommonDivisor(b, a, b)
    BY <1>6, <2>1 DEF CommonDivisor, Divides
  <2>3. b <= g
    BY <1>1, <2>2
  <2>4. g <= b
    BY <1>2, DivisorSmaller
  <2> QED
    BY <1>2, <2>3, <2>4
<1> QED
  BY <1>2, <1>3, <1>4, <1>5, <1>6

\* The least common multiple is one, and divides the product.
LEMMA LcmFacts ==
  ASSUME NEW a \in Nat \ {0}, NEW b \in Nat \ {0}, NEW m, m = static_lcm(a, b)
  PROVE  /\ m \in Nat \ {0} /\ m = static_lcm(b, a)
         /\ Divides(a, m) /\ Divides(b, m) /\ Divides(m, a * b)
<1> DEFINE g == static_gcd(a, b)
<1>1. /\ g \in Nat \ {0} /\ g = static_gcd(b, a)
      /\ a \div g \in Nat \ {0} /\ a = g * (a \div g)
      /\ b \div g \in Nat \ {0} /\ b = g * (b \div g)
  BY GcdFacts
<1>2. m = (a \div g) * b /\ static_lcm(b, a) = (b \div g) * a
  BY <1>1, Zenon DEF static_lcm
<1> DEFINE p == a \div g  q == b \div g
<1>3. /\ p \in Nat \ {0} /\ q \in Nat \ {0} /\ a = g * p /\ b = g * q
      /\ m = p * b /\ static_lcm(b, a) = q * a
  BY <1>1, <1>2, Zenon
<1> HIDE DEF g, p, q
<1>4. p * b = a * q /\ q * a = a * q /\ p * b = b * p /\ a * b = (p * b) * g
  BY <1>1, <1>3
<1>5. m = a * q /\ m = b * p /\ a * b = m * g /\ m = static_lcm(b, a)
  BY <1>3, <1>4
<1>6. m \in Nat \ {0}
  BY <1>3
<1> QED
  BY <1>1, <1>3, <1>5, <1>6 DEF Divides

\* A duration type, also a common type.
Period == [num : Nat \ {0}, den : Nat \ {0}, width : Nat \ {0}]

\* Ticks are positive.
LEMMA TickFacts ==
  ASSUME NEW t \in Period, NEW u \in Nat \ {0}, Divides(t.den, u)
  PROVE  /\ u \div t.den \in Nat \ {0} /\ u = t.den * (u \div t.den)
         /\ TickOf(t, u) = (u \div t.den) * t.num /\ TickOf(t, u) \in Nat \ {0}
<1>1. t.den \in Nat \ {0} /\ t.num \in Nat \ {0}
  BY DEF Period
<1>2. u \div t.den \in Nat /\ u = t.den * (u \div t.den)
  BY <1>1, DivideMultiple
<1>3. u \div t.den # 0
  <2>1. t.den * 0 = 0
    BY <1>1
  <2> QED
    BY <1>2, <2>1
<1>4. \A a, b \in Nat \ {0} : a * b \in Nat \ {0}
  OBVIOUS
<1> QED
  BY <1>1, <1>2, <1>3, <1>4 DEF TickOf

\* The ratio of the periods is that of their ticks.
LEMMA RatioFacts ==
  ASSUME NEW s \in Period, NEW t \in Period, NEW r, r = ratio_divide(s, t)
  PROVE  /\ r.num \in Nat \ {0} /\ r.den \in Nat \ {0}
         /\ \A u \in Nat \ {0} : Divides(s.den, u) /\ Divides(t.den, u)
              => TickOf(s, u) * r.den = TickOf(t, u) * r.num
         /\ Divides(s.den * t.num, s.num * t.den) => r.den = 1
<1>1. /\ s.num \in Nat \ {0} /\ s.den \in Nat \ {0}
      /\ t.num \in Nat \ {0} /\ t.den \in Nat \ {0}
  BY DEF Period
<1> DEFINE n == s.num * t.den  d == s.den * t.num
<1>2. n \in Nat \ {0} /\ d \in Nat \ {0}
  BY <1>1
<1>3. r.num = n \div static_gcd(n, d) /\ r.den = d \div static_gcd(n, d)
  BY DEF ratio_divide
<1> HIDE DEF n, d
<1> DEFINE g == static_gcd(n, d)
<1>4. /\ g \in Nat \ {0}
      /\ n \div g \in Nat \ {0} /\ n = g * (n \div g)
      /\ d \div g \in Nat \ {0} /\ d = g * (d \div g)
      /\ Divides(d, n) => g = d
  BY <1>2, GcdFacts
<1>5. /\ r.num \in Nat \ {0} /\ r.den \in Nat \ {0} /\ n = g * r.num /\ d = g * r.den
  BY <1>3, <1>4, Zenon
<1>6. ASSUME Divides(d, n) PROVE r.den = 1
  <2>1. d * r.den = d * 1
    BY <1>2, <1>4, <1>5, <1>6
  <2>2. r.den * d = 1 * d
    BY <2>1, <1>2, <1>5
  <2> QED
    BY <2>2, <1>2, <1>5, TimesPositive
<1> HIDE DEF g
<1>7. ASSUME NEW u \in Nat \ {0}, Divides(s.den, u), Divides(t.den, u)
      PROVE  TickOf(s, u) * r.den = TickOf(t, u) * r.num
  <2> DEFINE a == u \div s.den  b == u \div t.den
  <2>1. /\ a \in Nat \ {0} /\ u = s.den * a /\ TickOf(s, u) = a * s.num
        /\ b \in Nat \ {0} /\ u = t.den * b /\ TickOf(t, u) = b * t.num
    BY <1>7, TickFacts
  <2> HIDE DEF a, b
  <2> DEFINE x == TickOf(s, u)  y == TickOf(t, u)
  <2>2. x \in Nat /\ y \in Nat /\ x = a * s.num /\ y = b * t.num
    BY <1>1, <2>1
  <2>3. x * d = (u * s.num) * t.num
    <3>1. x * d = (a * s.num) * (s.den * t.num)
      BY <2>2 DEF d
    <3>2. (a * s.num) * (s.den * t.num) = ((s.den * a) * s.num) * t.num
      BY <1>1, <2>1
    <3> QED
      BY <3>1, <3>2, <2>1
  <2>4. y * n = (u * s.num) * t.num
    <3>1. y * n = (b * t.num) * (s.num * t.den)
      BY <2>2 DEF n
    <3>2. (b * t.num) * (s.num * t.den) = ((t.den * b) * s.num) * t.num
      BY <1>1, <2>1
    <3> QED
      BY <3>1, <3>2, <2>1
  <2> HIDE DEF x, y
  <2>5. x * (g * r.den) = y * (g * r.num)
    BY <2>3, <2>4, <1>5
  <2>6. (x * r.den) * g = (y * r.num) * g
    <3>1. g \in Nat /\ x \in Nat /\ y \in Nat
      BY <2>2, <1>4
    <3>2. \A i, j, k \in Nat : i * (j * k) = (i * k) * j
      OBVIOUS
    <3> QED
      BY <2>5, <3>1, <3>2, <1>5
  <2>7. x * r.den \in Int /\ y * r.num \in Int
    BY <2>2, <1>5
  <2>8. x * r.den = y * r.num
    BY <2>6, <2>7, <1>4, TimesPositive
  <2> QED
    BY <2>8 DEF x, y
<1>8. s.den * t.num = d /\ s.num * t.den = n
  BY DEF n, d
<1> QED
  BY <1>5, <1>6, <1>7, <1>8

\* The common type: both types are multiples of it.
LEMMA CommonFacts ==
  ASSUME NEW t \in Period, NEW v \in Period, NEW c, c = CommonType(t, v)
  PROVE  /\ c \in Period /\ c = CommonType(v, t)
         /\ Divides(c.den, t.den * v.den)
         /\ ratio_divide(t, c).den = 1 /\ ratio_divide(v, c).den = 1
<1>1. /\ t.num \in Nat \ {0} /\ t.den \in Nat \ {0} /\ t.width \in Nat \ {0}
      /\ v.num \in Nat \ {0} /\ v.den \in Nat \ {0} /\ v.width \in Nat \ {0}
  BY DEF Period
<1>2. /\ c.num = static_gcd(t.num, v.num) /\ c.den = static_lcm(t.den, v.den)
      /\ c = [num |-> c.num, den |-> c.den,
              width |-> IF t.width >= v.width THEN t.width ELSE v.width]
  BY DEF CommonType
<1>3. /\ c.num \in Nat \ {0} /\ c.num = static_gcd(v.num, t.num)
      /\ t.num \div c.num \in Nat \ {0} /\ t.num = c.num * (t.num \div c.num)
      /\ v.num \div c.num \in Nat \ {0} /\ v.num = c.num * (v.num \div c.num)
  BY <1>1, <1>2, GcdFacts
<1>4. /\ c.den \in Nat \ {0} /\ c.den = static_lcm(v.den, t.den)
      /\ Divides(t.den, c.den) /\ Divides(v.den, c.den) /\ Divides(c.den, t.den * v.den)
  BY <1>1, <1>2, LcmFacts
<1>5. c \in Period
  <2>1. (IF t.width >= v.width THEN t.width ELSE v.width) \in Nat \ {0}
    BY <1>1
  <2> QED
    BY <1>2, <1>3, <1>4, <2>1 DEF Period
<1>6. c = CommonType(v, t)
  <2>1. (IF t.width >= v.width THEN t.width ELSE v.width)
          = IF v.width >= t.width THEN v.width ELSE t.width
    BY <1>1
  <2> QED
    BY <1>2, <1>3, <1>4, <2>1 DEF CommonType
<1>7. ASSUME NEW p \in Nat \ {0}, NEW x \in Nat \ {0}, NEW m \in Nat \ {0}, NEW d \in Nat \ {0},
             NEW l \in Nat \ {0}, x = m * p, Divides(d, l)
      PROVE  Divides(d * m, x * l)
  <2>1. PICK k \in Nat : l = d * k
    BY <1>7 DEF Divides
  <2>2. x * l = (d * m) * (p * k) /\ p * k \in Nat
    BY <1>7, <2>1
  <2> QED
    BY <2>2 DEF Divides
<1>8. Divides(t.den * c.num, t.num * c.den) /\ Divides(v.den * c.num, v.num * c.den)
  BY <1>1, <1>3, <1>4, <1>7
<1> QED
  BY <1>4, <1>5, <1>6, <1>8, RatioFacts

\* The integer division of C++: the rest is smaller than the divisor and has the sign of
\* the dividend.
LEMMA QuotientFacts ==
  ASSUME NEW a \in Int, NEW b \in Int, b # 0, NEW q, q = Quotient(a, b)
  PROVE  /\ q \in Int
         /\ \E s \in Int :
              /\ a = q * b + s /\ Magnitude(s) < Magnitude(b)
              /\ a >= 0 => s >= 0 /\ q * b >= 0
              /\ a <= 0 => s <= 0 /\ q * b <= 0
<1> DEFINE m == Magnitude(a)  n == Magnitude(b)
<1>1. /\ m \in Nat /\ n \in Nat /\ n > 0
      /\ m = (IF a >= 0 THEN a ELSE -a) /\ n = (IF b >= 0 THEN b ELSE -b)
  BY DEF Magnitude
<1> HIDE DEF m, n
<1>2. q = IF (a >= 0) = (b > 0) THEN m \div n ELSE -(m \div n)
  BY DEF Quotient, m, n
<1> DEFINE k == m \div n  l == m % n
<1>3. k \in Nat /\ l \in 0 .. n - 1 /\ m = k * n + l
  BY <1>1, DivSplit
<1> HIDE DEF k, l
<1>4. q = IF (a >= 0) = (b > 0) THEN k ELSE -k
  BY <1>2 DEF k
<1>5. q \in Int
  BY <1>3, <1>4
<1>6. k * n \in Nat /\ l \in Nat /\ l < n
  BY <1>1, <1>3
<1>7. q * b = IF a >= 0 THEN k * n ELSE -(k * n)
  <2>1. CASE b > 0
    BY <2>1, <1>1, <1>3, <1>4
  <2>2. CASE b < 0
    BY <2>2, <1>1, <1>3, <1>4
  <2> QED
    BY <2>1, <2>2
<1> DEFINE s == IF a >= 0 THEN l ELSE -l
<1>8. s \in Int /\ Magnitude(s) < Magnitude(b)
  BY <1>6 DEF Magnitude, n
<1>9. a = q * b + s
  BY <1>1, <1>3, <1>6, <1>7
<1>10. /\ a >= 0 => s >= 0 /\ q * b >= 0
       /\ a <= 0 => s <= 0 /\ q * b <= 0
  BY <1>1, <1>3, <1>6, <1>7
<1> HIDE DEF s
<1> QED
  BY <1>5, <1>8, <1>9, <1>10

\* q ticks of t are k ticks of f without a fraction, and without any if d is one.
CutOff(k, f, q, t, d) ==
  /\ q \in Int /\ q * t \in Int /\ k * f \in Int
  /\ k >= 0 => 0 <= q * t /\ q * t <= k * f /\ k * f < q * t + t
  /\ k <= 0 => 0 >= q * t /\ q * t >= k * f /\ k * f > q * t - t
  /\ d = 1 => q * t = k * f

\* A number of ticks of t and what it means, to the fraction that is dropped: k ticks of
\* f, times n, divided by d.
LEMMA CastArithmetic ==
  ASSUME NEW f \in Nat \ {0}, NEW t \in Nat \ {0}, NEW n \in Nat \ {0}, NEW d \in Nat \ {0},
         f * d = t * n, NEW k \in Int, NEW q, q = Quotient(k * n, d)
  PROVE  CutOff(k, f, q, t, d)
<1>1. k * n \in Int /\ (k >= 0 => k * n >= 0) /\ (k <= 0 => k * n <= 0)
  <2>1. 0 * n = 0
    OBVIOUS
  <2>2. (k <= 0 <=> k * n <= 0 * n) /\ (0 <= k <=> 0 * n <= k * n)
    BY TimesPositive
  <2> QED
    BY <2>1, <2>2
<1> DEFINE a == k * n
<1>2. a \in Int /\ q = Quotient(a, d) /\ d \in Int /\ d # 0
  BY <1>1
<1> HIDE DEF a
<1>13. /\ q \in Int
       /\ \E s \in Int : /\ a = q * d + s /\ Magnitude(s) < Magnitude(d)
                         /\ a >= 0 => s >= 0 /\ q * d >= 0
                         /\ a <= 0 => s <= 0 /\ q * d <= 0
  BY <1>2, QuotientFacts
<1>3. PICK s \in Int :
         /\ k * n = q * d + s /\ Magnitude(s) < Magnitude(d)
         /\ k >= 0 => s >= 0 /\ q * d >= 0
         /\ k <= 0 => s <= 0 /\ q * d <= 0
  BY <1>1, <1>13 DEF a
<1> DEFINE e == k * f - q * t
<1>4. q * t \in Int /\ k * f \in Int /\ e \in Int /\ k * f = q * t + e
  BY <1>13
<1>5. e * d = s * t
  <2>1. e * d = (k * f) * d - (q * t) * d
    BY <1>13
  <2>2. (k * f) * d = k * (f * d)
    OBVIOUS
  <2>3. k * (t * n) = t * (k * n)
    OBVIOUS
  <2>4. t * (q * d + s) = (q * t) * d + s * t
    BY <1>13
  <2>5. (k * f) * d = (q * t) * d + s * t
    BY <2>2, <2>3, <2>4, <1>3
  <2>6. (k * f) * d \in Int /\ (q * t) * d \in Int /\ s * t \in Int
    BY <1>4
  <2> HIDE DEF e
  <2> QED
    BY <2>1, <2>5, <2>6
<1> HIDE DEF e
<1>6. ASSUME NEW x \in Int, NEW y \in Nat \ {0}
      PROVE  (0 <= x <=> 0 <= x * y) /\ (x <= 0 <=> x * y <= 0)
  <2>1. 0 * y = 0
    OBVIOUS
  <2> QED
    BY <2>1, TimesPositive
<1>7. (0 <= e <=> 0 <= s) /\ (e <= 0 <=> s <= 0)
  BY <1>4, <1>5, <1>6
<1>8. /\ (0 <= q <=> 0 <= q * d) /\ (q <= 0 <=> q * d <= 0)
      /\ (0 <= q <=> 0 <= q * t) /\ (q <= 0 <=> q * t <= 0)
  BY <1>13, <1>6
<1>9. s < d /\ -d < s
  BY <1>3 DEF Magnitude
<1>10. e < t /\ -t < e
  <2>1. s * t < d * t /\ (-d) * t < s * t
    BY <1>9, TimesPositive
  <2>2. d * t = t * d /\ (-d) * t = (-t) * d
    OBVIOUS
  <2>3. e * d < t * d /\ (-t) * d < e * d
    BY <2>1, <2>2, <1>5
  <2> QED
    BY <2>3, <1>4, TimesPositive
<1>14. e \in Int
  BY <1>4
<1>11. d = 1 => e = 0
  BY <1>7, <1>9, <1>14
<1>12. q * d \in Int
  BY <1>13
<1> QED
  BY <1>13, <1>3, <1>4, <1>7, <1>8, <1>10, <1>11, <1>12 DEF CutOff

\* A duration.
IsDuration(x) == x = MakeDuration(x.type, x.count) /\ x.type \in Period /\ x.count \in Int

\* A number of ticks between zero and one that the type can hold fits.
LEMMA HeldFits ==
  ASSUME NEW t \in Period, NEW u \in Nat \ {0}, Divides(t.den, u), NEW m \in Int, CanHold(t, m, u),
         NEW q \in Int,
         \/ (0 <= q * TickOf(t, u) /\ q * TickOf(t, u) <= m)
         \/ (0 >= q * TickOf(t, u) /\ q * TickOf(t, u) >= m)
  PROVE  Fits(q, t.width) /\ CanHold(t, q * TickOf(t, u), u)
<1> DEFINE k == TickOf(t, u)
<1>1. k \in Nat \ {0} /\ t.width \in Nat \ {0}
  BY TickFacts DEF Period
<1>2. RepMin(t.width) \in Int /\ RepMax(t.width) \in Nat /\ RepMin(t.width) < 0
  BY <1>1, Narrowed
<1> DEFINE lo == RepMin(t.width)  hi == RepMax(t.width)
<1>3. lo * k <= m /\ m <= hi * k
  BY DEF CanHold
<1>4. (0 <= q * k /\ q * k <= m) \/ (0 >= q * k /\ q * k >= m)
  OBVIOUS
<1> HIDE DEF k
<1>5. lo \in Int /\ hi \in Nat /\ lo < 0
  BY <1>2
<1> HIDE DEF lo, hi
<1>6. lo * k < 0 /\ 0 <= hi * k /\ lo * k \in Int /\ hi * k \in Int /\ q * k \in Int
  <2>1. lo * k < 0 * k /\ 0 * k <= hi * k /\ 0 * k = 0
    BY <1>1, <1>5, TimesPositive
  <2> QED
    BY <2>1, <1>1, <1>5
<1>7. lo * k <= q * k /\ q * k <= hi * k
  BY <1>3, <1>4, <1>6
<1>8. lo <= q /\ q <= hi
  BY <1>1, <1>5, <1>7, TimesPositive
<1> QED
  BY <1>5, <1>7, <1>8 DEF Fits, CanHold, lo, hi, k

\* A cast: its result fits its type, and drops less than a tick, towards zero, or nothing.
LEMMA CastFacts ==
  ASSUME NEW x, IsDuration(x), NEW t \in Period, NEW u \in Nat \ {0},
         Divides(x.type.den, u), Divides(t.den, u), NEW y, y = CastTo(x, t)
  PROVE  /\ IsDuration(y) /\ y.type = t /\ Representable(y)
         /\ Meaning(x, u) \in Int /\ Meaning(y, u) \in Int
         /\ CanHold(t, Meaning(x, u), u) =>
              /\ Meaning(x, u) >= 0 => /\ 0 <= Meaning(y, u) /\ Meaning(y, u) <= Meaning(x, u)
                                       /\ Meaning(x, u) < Meaning(y, u) + TickOf(t, u)
              /\ Meaning(x, u) <= 0 => /\ 0 >= Meaning(y, u) /\ Meaning(y, u) >= Meaning(x, u)
                                       /\ Meaning(x, u) > Meaning(y, u) - TickOf(t, u)
              /\ CanHold(t, Meaning(y, u), u)
              /\ ratio_divide(x.type, t).den = 1 => Meaning(y, u) = Meaning(x, u)
<1> DEFINE r == ratio_divide(x.type, t)  q == Quotient(x.count * r.num, r.den)
           f == TickOf(x.type, u)  k == TickOf(t, u)
<1>1. x.type \in Period /\ x.count \in Int /\ t.width \in Nat \ {0}
  BY DEF IsDuration, Period
<1>2. r.num \in Nat \ {0} /\ r.den \in Nat \ {0} /\ f * r.den = k * r.num
  BY <1>1, RatioFacts
<1>3. f \in Nat \ {0} /\ k \in Nat \ {0}
  BY <1>1, TickFacts
<1>4. y = MakeDuration(t, Narrow(q, t.width))
  BY DEF CastTo
<1> HIDE DEF f, k, r
<1> DEFINE n == r.num  d == r.den  c == x.count
<1>13. c \in Int /\ n \in Nat \ {0} /\ d \in Nat \ {0} /\ f * d = k * n /\ q = Quotient(c * n, d)
  BY <1>1, <1>2
<1> HIDE DEF q, n, d, c
<1>14. /\ q \in Int /\ q * k \in Int /\ c * f \in Int
       /\ c >= 0 => 0 <= q * k /\ q * k <= c * f /\ c * f < q * k + k
       /\ c <= 0 => 0 >= q * k /\ q * k >= c * f /\ c * f > q * k - k
       /\ d = 1 => q * k = c * f
  <2>1. CutOff(c, f, q, k, d)
    BY <1>3, <1>13, CastArithmetic
  <2> QED
    BY <2>1 DEF CutOff
<1>5. /\ q \in Int /\ q * k \in Int /\ x.count * f \in Int
      /\ x.count >= 0 => 0 <= q * k /\ q * k <= x.count * f /\ x.count * f < q * k + k
      /\ x.count <= 0 => 0 >= q * k /\ q * k >= x.count * f /\ x.count * f > q * k - k
      /\ r.den = 1 => q * k = x.count * f
  BY <1>14, Zenon DEF c, d
<1>15. q \in Int
  BY <1>14
<1>6. y.type = t /\ y.count = Narrow(q, t.width)
  BY <1>4 DEF MakeDuration
<1>7. /\ y.count \in Int /\ Fits(y.count, t.width) /\ (Fits(q, t.width) => y.count = q)
  BY <1>1, <1>15, <1>6, Narrowed
<1>8. IsDuration(y) /\ Representable(y)
  BY <1>4, <1>6, <1>7 DEF IsDuration, Representable, MakeDuration
<1>9. Meaning(x, u) = x.count * f /\ Meaning(y, u) = y.count * k /\ y.count * k \in Int
  <2>1. y.count * k \in Int
    BY <1>3, <1>7
  <2> QED
    BY <1>6, <2>1 DEF Meaning, f, k
<1>10. (x.count >= 0 <=> x.count * f >= 0) /\ (x.count <= 0 <=> x.count * f <= 0)
  <2>1. 0 * f = 0
    BY <1>3
  <2>2. (x.count <= 0 <=> x.count * f <= 0 * f) /\ (0 <= x.count <=> 0 * f <= x.count * f)
    BY <1>1, <1>3, TimesPositive
  <2> QED
    BY <2>1, <2>2, <1>1, <1>5
<1>11. ASSUME CanHold(t, x.count * f, u) PROVE y.count = q /\ CanHold(t, q * k, u)
  <2>1. (0 <= q * k /\ q * k <= x.count * f) \/ (0 >= q * k /\ q * k >= x.count * f)
    BY <1>1, <1>5
  <2>2. Fits(q, t.width) /\ CanHold(t, q * k, u)
    BY <2>1, <1>5, <1>11, HeldFits DEF k
  <2> QED
    BY <2>2, <1>7
<1>12. ASSUME CanHold(t, x.count * f, u)
       PROVE  /\ x.count * f >= 0 => /\ 0 <= y.count * k /\ y.count * k <= x.count * f
                                     /\ x.count * f < y.count * k + k
              /\ x.count * f <= 0 => /\ 0 >= y.count * k /\ y.count * k >= x.count * f
                                     /\ x.count * f > y.count * k - k
              /\ CanHold(t, y.count * k, u)
              /\ r.den = 1 => y.count * k = x.count * f
  BY <1>5, <1>10, <1>11, <1>12
<1> QED
  BY <1>5, <1>6, <1>8, <1>9, <1>12 DEF k, r

\* DurationsExact, of any call.
ExactCall(f, x, y, z, b) ==
  LET c == CommonType(x.type, y.type)
      u == x.type.den * y.type.den
      l == Meaning(x, u)
      r == Meaning(y, u)
      m == Meaning(z, u)
      tick == TickOf(y.type, u)
      casts == CanHold(y.type, l, u)
      assigns == CanHold(x.type, r, u)
      both == CanHold(c, l, u) /\ CanHold(c, r, u)
  IN  CASE f = "cast" /\ casts -> Truncates(l, m, tick)
        [] f = "ceil" /\ casts /\ CanHold(c, l, u) -> m >= l /\ l > m - tick
        [] f = "convert" /\ casts -> m = l
        [] f = "compare" /\ both -> b = <<l < r, r < l, l = r>>
        [] f = "sum" /\ both -> m = l + r
        [] f = "difference" /\ both -> m = l - r
        [] f = "+=" /\ assigns -> m = l + r
        [] f = "-=" /\ assigns -> m = l - r
        [] f = "%=" /\ assigns -> /\ Magnitude(m) < Magnitude(r) /\ m * l >= 0
                                 /\ (l - m) % Magnitude(r) = 0
        [] f = "*=" -> m = l * y.count
        [] f = "/=" -> /\ Truncates(Magnitude(l), Magnitude(m * y.count), Magnitude(r))
                       /\ m * l * y.count >= 0
        [] OTHER -> TRUE

\* Two durations in a unit of which their types and the common one are multiples.
LEMMA PairFacts ==
  ASSUME NEW x, IsDuration(x), NEW y, IsDuration(y), NEW c, c = CommonType(x.type, y.type),
         NEW u, u = x.type.den * y.type.den
  PROVE  /\ x.type \in Period /\ y.type \in Period /\ c \in Period /\ u \in Nat \ {0}
         /\ Divides(x.type.den, u) /\ Divides(y.type.den, u) /\ Divides(c.den, u)
         /\ c = CommonType(y.type, x.type)
         /\ ratio_divide(x.type, c).den = 1 /\ ratio_divide(y.type, c).den = 1
<1>1. x.type \in Period /\ y.type \in Period
  BY DEF IsDuration
<1>2. x.type.den \in Nat \ {0} /\ y.type.den \in Nat \ {0}
  BY <1>1 DEF Period
<1>3. u \in Nat \ {0} /\ u = y.type.den * x.type.den
  BY <1>2
<1>4. Divides(x.type.den, u) /\ Divides(y.type.den, u)
  BY <1>2, <1>3 DEF Divides
<1> QED
  BY <1>1, <1>3, <1>4, CommonFacts

\* In the common type, a duration means what it did.
LEMMA CommonCast ==
  ASSUME NEW x, IsDuration(x), NEW y, IsDuration(y), NEW c, c = CommonType(x.type, y.type),
         NEW u, u = x.type.den * y.type.den
  PROVE  /\ Meaning(x, u) \in Int /\ CastTo(x, c).count \in Int
         /\ Meaning(y, u) \in Int /\ CastTo(y, c).count \in Int
         /\ TickOf(c, u) \in Nat \ {0}
         /\ CanHold(c, Meaning(x, u), u) => CastTo(x, c).count * TickOf(c, u) = Meaning(x, u)
         /\ CanHold(c, Meaning(y, u), u) => CastTo(y, c).count * TickOf(c, u) = Meaning(y, u)
<1>1. /\ c \in Period /\ u \in Nat \ {0}
      /\ Divides(x.type.den, u) /\ Divides(y.type.den, u) /\ Divides(c.den, u)
      /\ ratio_divide(x.type, c).den = 1 /\ ratio_divide(y.type, c).den = 1
  BY PairFacts
<1>2. ASSUME NEW z, IsDuration(z), Divides(z.type.den, u), ratio_divide(z.type, c).den = 1
      PROVE  /\ Meaning(z, u) \in Int /\ CastTo(z, c).count \in Int
             /\ CanHold(c, Meaning(z, u), u) => CastTo(z, c).count * TickOf(c, u) = Meaning(z, u)
  <2> DEFINE w == CastTo(z, c)
  <2>1. /\ IsDuration(w) /\ w.type = c /\ Meaning(z, u) \in Int
        /\ CanHold(c, Meaning(z, u), u) /\ Meaning(z, u) >= 0 => Meaning(w, u) = Meaning(z, u)
        /\ CanHold(c, Meaning(z, u), u) /\ Meaning(z, u) <= 0 => Meaning(w, u) = Meaning(z, u)
    BY <1>1, <1>2, CastFacts
  <2>2. w.count \in Int /\ Meaning(w, u) = w.count * TickOf(c, u)
    BY <2>1 DEF IsDuration, Meaning
  <2> HIDE DEF w
  <2> QED
    BY <2>1, <2>2 DEF w
<1>3. TickOf(c, u) \in Nat \ {0}
  BY <1>1, TickFacts
<1> QED
  BY <1>1, <1>2, <1>3

\* duration_cast and the implicit conversion.
LEMMA Exact_Cast ==
  ASSUME NEW x, IsDuration(x), NEW y, IsDuration(y), NEW z, z = CastTo(x, y.type)
  PROVE  /\ Representable(z) /\ ExactCall("cast", x, y, z, <<>>)
         /\ Converts(x.type, y.type) => ExactCall("convert", x, y, z, <<>>)
<1> DEFINE u == x.type.den * y.type.den  l == Meaning(x, u)  m == Meaning(z, u)
           k == TickOf(y.type, u)
<1>1. /\ y.type \in Period /\ u \in Nat \ {0} /\ Divides(x.type.den, u) /\ Divides(y.type.den, u)
  BY PairFacts
<1> HIDE DEF u
<1>2. /\ Representable(z) /\ l \in Int /\ m \in Int
      /\ CanHold(y.type, l, u) =>
           /\ l >= 0 => 0 <= m /\ m <= l /\ l < m + k
           /\ l <= 0 => 0 >= m /\ m >= l /\ l > m - k
           /\ ratio_divide(x.type, y.type).den = 1 => m = l
  BY <1>1, CastFacts
<1>3. k \in Nat \ {0}
  BY <1>1, TickFacts
<1> HIDE DEF l, m, k
<1>4. CanHold(y.type, l, u) => Truncates(l, m, k)
  BY <1>2, <1>3 DEF Truncates
<1>5. Converts(x.type, y.type) => (CanHold(y.type, l, u) => m = l)
  BY <1>2 DEF Converts
<1> QED
  BY <1>2, <1>4, <1>5 DEF ExactCall, u, l, m, k

\* Comparisons.
LEMMA LessFacts ==
  ASSUME NEW x, IsDuration(x), NEW y, IsDuration(y), NEW c, c = CommonType(x.type, y.type),
         NEW u, u = x.type.den * y.type.den,
         CanHold(c, Meaning(x, u), u), CanHold(c, Meaning(y, u), u)
  PROVE  /\ Less(x, y) <=> Meaning(x, u) < Meaning(y, u)
         /\ Less(y, x) <=> Meaning(y, u) < Meaning(x, u)
         /\ Equal(x, y) <=> Meaning(x, u) = Meaning(y, u)
<1> DEFINE a == CastTo(x, c).count  b == CastTo(y, c).count  k == TickOf(c, u)
<1>1. /\ a \in Int /\ b \in Int /\ k \in Nat \ {0}
      /\ a * k = Meaning(x, u) /\ b * k = Meaning(y, u)
  BY CommonCast
<1>2. /\ Less(x, y) <=> a < b
      /\ Less(y, x) <=> b < a
      /\ Equal(x, y) <=> a = b
  <2>1. c = CommonType(y.type, x.type)
    BY PairFacts
  <2> QED
    BY <2>1 DEF Less, Equal
<1> HIDE DEF a, b, k
<1>3. (a < b <=> a * k < b * k) /\ (b < a <=> b * k < a * k) /\ (a = b <=> a * k = b * k)
  BY <1>1, TimesPositive
<1> QED
  BY <1>1, <1>2, <1>3

\* The comparisons compare what the durations mean.
LEMMA Exact_Compare ==
  ASSUME NEW x, IsDuration(x), NEW y, IsDuration(y), NEW z
  PROVE  ExactCall("compare", x, y, z, <<Less(x, y), Less(y, x), Equal(x, y)>>)
<1> DEFINE c == CommonType(x.type, y.type)  u == x.type.den * y.type.den
           l == Meaning(x, u)  r == Meaning(y, u)
<1>1. ASSUME CanHold(c, l, u) /\ CanHold(c, r, u)
      PROVE  /\ Less(x, y) <=> l < r
             /\ Less(y, x) <=> r < l
             /\ Equal(x, y) <=> l = r
  BY <1>1, LessFacts
<1> HIDE DEF l, r, c, u
<1>2. Less(x, y) \in BOOLEAN /\ Less(y, x) \in BOOLEAN /\ Equal(x, y) \in BOOLEAN
  BY DEF Less, Equal
<1>3. CanHold(c, l, u) /\ CanHold(c, r, u)
        => <<Less(x, y), Less(y, x), Equal(x, y)>> = <<l < r, r < l, l = r>>
  BY <1>1, <1>2
<1> QED
  BY <1>3 DEF ExactCall, l, r, c, u

\* Sums and differences.
LEMMA Exact_Sum ==
  ASSUME NEW x, IsDuration(x), NEW y, IsDuration(y)
  PROVE  /\ ExactCall("sum", x, y, Plus(x, y), <<>>)
         /\ ExactCall("difference", x, y, Minus(x, y), <<>>)
<1> DEFINE c == CommonType(x.type, y.type)  u == x.type.den * y.type.den
           l == Meaning(x, u)  r == Meaning(y, u)
           a == CastTo(x, c).count  b == CastTo(y, c).count  k == TickOf(c, u)
<1>1. /\ a \in Int /\ b \in Int /\ k \in Nat \ {0} /\ l \in Int /\ r \in Int
      /\ CanHold(c, l, u) => a * k = l
      /\ CanHold(c, r, u) => b * k = r
  BY CommonCast
<1>2. Meaning(Plus(x, y), u) = (a + b) * k /\ Meaning(Minus(x, y), u) = (a - b) * k
  BY DEF Plus, Minus, Meaning, MakeDuration
<1> HIDE DEF a, b, c, k, l, r, u
<1>3. (a + b) * k = a * k + b * k /\ (a - b) * k = a * k - b * k
  BY <1>1
<1>4. CanHold(c, l, u) /\ CanHold(c, r, u)
        => Meaning(Plus(x, y), u) = l + r /\ Meaning(Minus(x, y), u) = l - r
  BY <1>1, <1>2, <1>3
<1> QED
  BY <1>4 DEF ExactCall, c, l, r, u

\* ceil(): between the result of the cast and the next tick.
LEMMA Exact_Ceil ==
  ASSUME NEW x, IsDuration(x), NEW y, IsDuration(y)
  PROVE  ExactCall("ceil", x, y, CeilTo(x, y.type), <<>>)
<1> DEFINE c == CommonType(x.type, y.type)  u == x.type.den * y.type.den
           l == Meaning(x, u)  k == TickOf(y.type, u)
           z == CastTo(x, y.type)  m == Meaning(z, u)
<1> SUFFICES ASSUME CanHold(y.type, l, u), CanHold(c, l, u)
             PROVE  Meaning(CeilTo(x, y.type), u) >= l /\ l > Meaning(CeilTo(x, y.type), u) - k
  BY DEF ExactCall
<1>1. /\ y.type \in Period /\ c \in Period /\ u \in Nat \ {0}
      /\ Divides(x.type.den, u) /\ Divides(y.type.den, u) /\ Divides(c.den, u)
  BY PairFacts
<1>2. k \in Nat \ {0}
  BY <1>1, TickFacts
<1>3. /\ IsDuration(z) /\ z.type = y.type /\ l \in Int /\ m \in Int
      /\ l >= 0 => 0 <= m /\ m <= l /\ l < m + k
      /\ l <= 0 => 0 >= m /\ m >= l /\ l > m - k
  BY <1>1, CastFacts
<1>4. m = z.count * k /\ z.count \in Int
  BY <1>3 DEF Meaning, IsDuration
<1>5. CanHold(c, m, u)
  <2> DEFINE kc == TickOf(c, u)
  <2>1. /\ kc \in Nat \ {0} /\ RepMin(c.width) \in Int /\ RepMax(c.width) \in Nat
        /\ RepMin(c.width) < 0
    <3>1. c.width \in Nat \ {0}
      BY <1>1 DEF Period
    <3> QED
      BY <3>1, <1>1, TickFacts, Narrowed
  <2> DEFINE lo == RepMin(c.width)  hi == RepMax(c.width)
  <2>2. lo * kc <= l /\ l <= hi * kc
    BY DEF CanHold
  <2>3. lo \in Int /\ hi \in Nat /\ lo < 0
    BY <2>1
  <2> HIDE DEF lo, hi, kc, l, m
  <2>6. kc \in Nat \ {0}
    BY <2>1
  <2>7. 0 * kc = 0
    BY <2>6
  <2>8. lo * kc < 0 * kc /\ 0 * kc <= hi * kc /\ lo * kc \in Int /\ hi * kc \in Int
    BY <2>6, <2>3, TimesPositive
  <2>4. lo * kc < 0 /\ 0 <= hi * kc /\ lo * kc \in Int /\ hi * kc \in Int
    BY <2>7, <2>8
  <2>5. lo * kc <= m /\ m <= hi * kc
    BY <2>2, <2>4, <1>3
  <2> QED
    BY <2>5 DEF CanHold, lo, hi, kc
<1>6. Less(z, x) <=> m < l
  <2>1. c = CommonType(z.type, x.type) /\ u = z.type.den * x.type.den
    <3>1. c = CommonType(y.type, x.type)
      BY PairFacts
    <3>2. x.type.den \in Nat /\ y.type.den \in Nat
      BY DEF IsDuration, Period
    <3>3. u = y.type.den * x.type.den
      BY <3>2
    <3> QED
      BY <3>1, <3>3, <1>3
  <2> HIDE DEF c, u, z
  <2> QED
    BY <2>1, <1>3, <1>5, LessFacts
<1>7. Meaning(CeilTo(x, y.type), u) = IF m < l THEN m + k ELSE m
  <2>1. CASE m < l
    <3>1. CeilTo(x, y.type) = MakeDuration(y.type, z.count + 1)
      BY <2>1, <1>6, Zenon DEF CeilTo
    <3>2. Meaning(CeilTo(x, y.type), u) = (z.count + 1) * k
      BY <3>1 DEF Meaning, MakeDuration
    <3> HIDE DEF z, k, m, l
    <3>3. (z.count + 1) * k = z.count * k + k
      BY <1>2, <1>4
    <3> QED
      BY <2>1, <3>2, <3>3, <1>4
  <2>2. CASE ~(m < l)
    <3>1. CeilTo(x, y.type) = z
      BY <2>2, <1>6, Zenon DEF CeilTo
    <3> QED
      BY <3>1, <2>2
  <2> QED
    BY <2>1, <2>2
<1> HIDE DEF m, l, k, z, u, c
<1> QED
  BY <1>2, <1>3, <1>7

\* A multiple of a number leaves no rest.
LEMMA ModMultiple ==
  ASSUME NEW p \in Int, NEW n \in Nat \ {0}
  PROVE  (p * n) % n = 0
<1> DEFINE v == p * n
<1>1. v \in Int /\ v % n \in 0 .. n - 1 /\ v = (v \div n) * n + (v % n) /\ v \div n \in Int
  OBVIOUS
<1> DEFINE q == v \div n  s == v % n
<1>2. q \in Int /\ s \in 0 .. n - 1 /\ p * n = q * n + s
  BY <1>1, Zenon
<1> HIDE DEF q, s, v
<1>3. q * n <= p * n /\ p * n < (q + 1) * n
  <2>1. (q + 1) * n = q * n + n /\ q * n \in Int
    BY <1>2
  <2> QED
    BY <1>2, <2>1
<1>4. q <= p /\ p < q + 1
  <2>1. q + 1 \in Int
    BY <1>2
  <2> QED
    BY <1>2, <1>3, <2>1, TimesPositive
<1>5. s = 0
  BY <1>2, <1>4
<1> QED
  BY <1>5 DEF s, v

\* Magnitudes, times a positive number.
LEMMA MagnitudeTimes ==
  ASSUME NEW x \in Int, NEW k \in Nat \ {0}
  PROVE  /\ x * k \in Int /\ Magnitude(x) \in Nat /\ Magnitude(x * k) = Magnitude(x) * k
         /\ (x >= 0 <=> x * k >= 0) /\ (x <= 0 <=> x * k <= 0)
<1>1. 0 * k = 0
  OBVIOUS
<1>2. (0 <= x <=> 0 <= x * k) /\ (x <= 0 <=> x * k <= 0) /\ x * k \in Int
  BY <1>1, TimesPositive
<1>3. (-x) * k = -(x * k)
  OBVIOUS
<1> QED
  BY <1>2, <1>3 DEF Magnitude

\* Two numbers that are not on different sides of zero have a product that is not negative.
LEMMA SameSides ==
  ASSUME NEW a \in Int, NEW b \in Int, a >= 0 => b >= 0, a <= 0 => b <= 0
  PROVE  a * b >= 0
<1>1. CASE a >= 0
  BY <1>1
<1>2. CASE a <= 0
  <2>1. -a \in Nat /\ -b \in Nat /\ (-a) * (-b) = a * b
    BY <1>2
  <2>2. (-a) * (-b) \in Nat
    BY <2>1
  <2> QED
    BY <2>1, <2>2
<1> QED
  BY <1>1, <1>2

\* += and -=, in ticks of k.
LEMMA AssignTerms ==
  ASSUME NEW n \in Int, NEW a \in Int, NEW k \in Nat \ {0}
  PROVE  (n + a) * k = n * k + a * k /\ (n - a) * k = n * k - a * k
OBVIOUS

\* m is what l leaves when it is divided by r.
Remains(l, r, m) == Magnitude(m) < Magnitude(r) /\ m * l >= 0 /\ (l - m) % Magnitude(r) = 0

\* %=, in ticks of k.
LEMMA RestTerms ==
  ASSUME NEW n \in Int, NEW a \in Int, a # 0, NEW k \in Nat \ {0},
         NEW l, l = n * k, NEW r, r = a * k, NEW m, m = (n - Quotient(n, a) * a) * k
  PROVE  Remains(l, r, m)
<1> DEFINE q == Quotient(n, a)
<1>1. /\ q \in Int
      /\ \E s \in Int :
              /\ n = q * a + s /\ Magnitude(s) < Magnitude(a)
              /\ n >= 0 => s >= 0 /\ q * a >= 0
              /\ n <= 0 => s <= 0 /\ q * a <= 0
  BY QuotientFacts
<1>2. m = (n - q * a) * k
  OBVIOUS
<1> HIDE DEF q
<1>3. PICK s \in Int :
        /\ n = q * a + s /\ Magnitude(s) < Magnitude(a)
        /\ n >= 0 => s >= 0
        /\ n <= 0 => s <= 0
  BY <1>1
<1>4. q * a \in Int
  BY <1>1
<1>5. n - q * a = s
  BY <1>3, <1>4
<1>6. m = s * k
  BY <1>2, <1>5
<1>7. /\ m \in Int /\ l \in Int /\ r \in Int /\ Magnitude(m) = Magnitude(s) * k
      /\ Magnitude(r) = Magnitude(a) * k /\ Magnitude(s) \in Nat /\ Magnitude(a) \in Nat
      /\ (n >= 0 <=> l >= 0) /\ (n <= 0 <=> l <= 0)
      /\ (s >= 0 <=> m >= 0) /\ (s <= 0 <=> m <= 0)
  <2>1. /\ r \in Int /\ Magnitude(r) = Magnitude(a) * k /\ Magnitude(a) \in Nat
    BY MagnitudeTimes
  <2>2. l \in Int /\ (n >= 0 <=> l >= 0) /\ (n <= 0 <=> l <= 0)
    BY MagnitudeTimes
  <2>4. /\ s * k \in Int /\ Magnitude(s * k) = Magnitude(s) * k /\ Magnitude(s) \in Nat
        /\ (s >= 0 <=> s * k >= 0) /\ (s <= 0 <=> s * k <= 0)
    BY MagnitudeTimes
  <2>3. /\ m \in Int /\ Magnitude(m) = Magnitude(s) * k /\ Magnitude(s) \in Nat
        /\ (s >= 0 <=> m >= 0) /\ (s <= 0 <=> m <= 0)
    BY <1>6, <2>4, Zenon
  <2> QED
    BY <2>1, <2>2, <2>3
<1>8. Magnitude(m) < Magnitude(r)
  <2> DEFINE i == Magnitude(s)  j == Magnitude(a)
  <2>1. i \in Int /\ j \in Int /\ i < j
    BY <1>3, <1>7
  <2> HIDE DEF i, j
  <2>2. i * k < j * k
    BY <2>1, TimesPositive
  <2> QED
    BY <2>2, <1>7 DEF i, j
<1>9. l * m >= 0
  BY <1>3, <1>7, SameSides
<1>10. m * l >= 0
  BY <1>7, <1>9
<1>11. l - m = q * r
  <2>1. l = (q * a + s) * k
    BY <1>3
  <2>2. (q * a + s) * k = q * (a * k) + s * k
    BY <1>1
  <2>3. l = q * r + m /\ q * r \in Int
    BY <1>1, <1>6, <1>7, <2>1, <2>2
  <2> QED
    BY <1>7, <2>3
<1>12. PICK p \in Int : q * r = p * Magnitude(r)
  <2>1. CASE r >= 0
    BY <2>1, <1>1 DEF Magnitude
  <2>2. CASE ~(r >= 0)
    <3>1. Magnitude(r) = -r /\ -q \in Int
      BY <2>2, <1>1 DEF Magnitude
    <3>2. q * r = (-q) * (-r)
      BY <1>1, <1>7
    <3> QED
      BY <3>1, <3>2
  <2> QED
    BY <2>1, <2>2
<1>13. Magnitude(r) \in Nat \ {0}
  <2>1. a * k # 0
    <3>1. a < 0 \/ 0 < a
      OBVIOUS
    <3>2. (a >= 0 <=> a * k >= 0) /\ (a <= 0 <=> a * k <= 0) /\ a * k \in Int
      BY MagnitudeTimes
    <3> QED
      BY <3>1, <3>2
  <2> QED
    BY <1>7, <2>1 DEF Magnitude
<1> DEFINE g == Magnitude(r)
<1>14. g \in Nat \ {0} /\ l - m = p * g
  BY <1>11, <1>12, <1>13
<1> HIDE DEF g
<1>15. (p * g) % g = 0
  BY <1>14, ModMultiple
<1>16. (l - m) % g = 0
  BY <1>14, <1>15, Zenon
<1> QED
  BY <1>8, <1>10, <1>16 DEF g, Remains

\* *= and /=, in ticks of k.
LEMMA ScaleTerms ==
  ASSUME NEW n \in Int, NEW a \in Int, NEW k \in Nat \ {0},
         NEW l, l = n * k, NEW r, r = a * k
  PROVE  /\ (n * a) * k = l * a
         /\ a # 0 => LET m == Quotient(n, a) * k
                     IN  /\ Truncates(Magnitude(l), Magnitude(m * a), Magnitude(r))
                         /\ m * l * a >= 0
<1>1. (n * a) * k = l * a
  OBVIOUS
<1>2. ASSUME a # 0, NEW m, m = Quotient(n, a) * k
      PROVE  Truncates(Magnitude(l), Magnitude(m * a), Magnitude(r)) /\ m * l * a >= 0
  <2> DEFINE q == Quotient(n, a)
  <2>1. /\ q \in Int
        /\ \E s \in Int :
              /\ n = q * a + s /\ Magnitude(s) < Magnitude(a)
              /\ n >= 0 => s >= 0 /\ q * a >= 0
              /\ n <= 0 => s <= 0 /\ q * a <= 0
    BY <1>2, QuotientFacts
  <2>2. m = q * k
    BY <1>2
  <2> HIDE DEF q
  <2>3. PICK s \in Int :
          /\ n = q * a + s /\ Magnitude(s) < Magnitude(a)
          /\ n >= 0 => s >= 0 /\ q * a >= 0
          /\ n <= 0 => s <= 0 /\ q * a <= 0
    BY <2>1
  <2> DEFINE w == q * a
  <2>4. w \in Int
    BY <2>1
  <2>5. m * a = w * k /\ m * l * a = (n * w) * (k * k)
    BY <2>1, <2>2
  <2> HIDE DEF w
  <2>6. n = w + s /\ (n >= 0 => s >= 0 /\ w >= 0) /\ (n <= 0 => s <= 0 /\ w <= 0)
    BY <2>3 DEF w
  <2>7. /\ Magnitude(l) = Magnitude(n) * k /\ Magnitude(m * a) = Magnitude(w) * k
        /\ Magnitude(r) = Magnitude(a) * k
        /\ Magnitude(n) \in Nat /\ Magnitude(w) \in Nat /\ Magnitude(a) \in Nat
    BY <2>4, <2>5, MagnitudeTimes
  <2>8. Magnitude(w) <= Magnitude(n) /\ Magnitude(n) < Magnitude(w) + Magnitude(a)
    <3>1. Magnitude(n) = Magnitude(w) + Magnitude(s) /\ Magnitude(s) \in Nat
      BY <2>4, <2>6 DEF Magnitude
    <3> QED
      BY <3>1, <2>3, <2>7
  <2>9. Truncates(Magnitude(l), Magnitude(m * a), Magnitude(r))
    <3> DEFINE x == Magnitude(n)  y == Magnitude(w)  z == Magnitude(a)
    <3>1. x \in Nat /\ y \in Nat /\ z \in Nat /\ y <= x /\ x < y + z /\ y + z \in Nat
      BY <2>7, <2>8
    <3> HIDE DEF x, y, z
    <3>2. y * k <= x * k /\ x * k < (y + z) * k
      BY <3>1, TimesPositive
    <3>3. (y + z) * k = y * k + z * k /\ x * k >= 0
      BY <3>1
    <3>4. Truncates(x * k, y * k, z * k)
      BY <3>2, <3>3 DEF Truncates
    <3> QED
      BY <3>4, <2>7 DEF x, y, z
  <2>10. n * w >= 0
    BY <2>4, <2>6, SameSides
  <2>11. (n * w) * (k * k) >= 0
    BY <2>4, <2>10
  <2> QED
    BY <2>5, <2>9, <2>11
<1> QED
  BY <1>1, <1>2

\* The assignments whose operand is a duration.
LEMMA Exact_Assign ==
  ASSUME NEW x, IsDuration(x), NEW y, IsDuration(y), Converts(y.type, x.type),
         NEW o \in {"+=", "-=", "%="}, NEW a, a = CastTo(y, x.type).count,
         o = "%=" => a # 0,
         NEW z, z = MakeDuration(x.type, Assigned(o, x.count, a))
  PROVE  ExactCall(o, x, y, z, <<>>)
<1> DEFINE u == x.type.den * y.type.den  l == Meaning(x, u)  r == Meaning(y, u)
           m == Meaning(z, u)  k == TickOf(x.type, u)  n == x.count
<1>1. /\ x.type \in Period /\ u \in Nat \ {0} /\ Divides(x.type.den, u) /\ Divides(y.type.den, u)
  BY PairFacts
<1>2. k \in Nat \ {0} /\ n \in Int
  BY <1>1, TickFacts DEF IsDuration
<1>3. l = n * k /\ m = Assigned(o, n, a) * k
  BY DEF Meaning, MakeDuration
<1>4. a \in Int /\ (CanHold(x.type, r, u) => r = a * k)
  <2> DEFINE w == CastTo(y, x.type)
  <2> HIDE DEF u
  <2>1. /\ IsDuration(w) /\ w.type = x.type /\ Meaning(y, u) \in Int
        /\ CanHold(x.type, Meaning(y, u), u) =>
             (ratio_divide(y.type, x.type).den = 1 => Meaning(w, u) = Meaning(y, u))
    BY <1>1, CastFacts
  <2>2. ratio_divide(y.type, x.type).den = 1
    BY DEF Converts
  <2>3. w.count \in Int /\ Meaning(w, u) = w.count * k
    BY <2>1 DEF IsDuration, Meaning
  <2> HIDE DEF w, k
  <2>4. CanHold(x.type, Meaning(y, u), u) => Meaning(w, u) = Meaning(y, u)
    BY <2>1, <2>2
  <2>5. a = w.count
    BY DEF w
  <2> QED
    BY <2>3, <2>4, <2>5
<1> HIDE DEF l, r, m, k, n, u
<1>5. CASE o = "+="
  <2>1. CanHold(x.type, r, u) => m = l + r
    BY <1>2, <1>3, <1>4, <1>5, AssignTerms DEF Assigned
  <2> QED
    BY <1>5, <2>1 DEF ExactCall, l, r, m, u
<1>6. CASE o = "-="
  <2>1. CanHold(x.type, r, u) => m = l - r
    BY <1>2, <1>3, <1>4, <1>6, AssignTerms DEF Assigned
  <2> QED
    BY <1>6, <2>1 DEF ExactCall, l, r, m, u
<1>7. CASE o = "%="
  <2>1. a # 0 /\ m = (n - Quotient(n, a) * a) * k
    BY <1>3, <1>7 DEF Assigned
  <2>2. ASSUME CanHold(x.type, r, u)
        PROVE  Remains(l, r, m)
    <3>1. r = a * k /\ a \in Int /\ l = n * k /\ n \in Int /\ k \in Nat \ {0}
      BY <2>2, <1>2, <1>3, <1>4, Zenon
    <3> QED
      BY <2>1, <3>1, RestTerms
  <2> QED
    BY <1>7, <2>2 DEF ExactCall, Remains, l, r, m, u
<1> QED
  BY <1>5, <1>6, <1>7

\* Those whose operand is a number.
LEMMA Exact_Scale ==
  ASSUME NEW x, IsDuration(x), NEW a \in Int, NEW o \in {"*=", "/="}, o = "/=" => a # 0,
         NEW y, y = MakeDuration(x.type, a),
         NEW z, z = MakeDuration(x.type, Assigned(o, x.count, a))
  PROVE  ExactCall(o, x, y, z, <<>>)
<1> DEFINE u == x.type.den * y.type.den  l == Meaning(x, u)  r == Meaning(y, u)
           m == Meaning(z, u)  k == TickOf(x.type, u)  n == x.count
<1>0. IsDuration(y)
  BY DEF IsDuration, MakeDuration
<1>1. /\ x.type \in Period /\ u \in Nat \ {0} /\ Divides(x.type.den, u)
  BY <1>0, PairFacts
<1>2. k \in Nat \ {0} /\ n \in Int
  BY <1>1, TickFacts DEF IsDuration
<1>3. l = n * k /\ m = Assigned(o, n, a) * k /\ r = a * k /\ y.count = a
  BY DEF Meaning, MakeDuration
<1> HIDE DEF l, r, m, k, n, u
<1>4. /\ (n * a) * k = l * a
      /\ a # 0 => /\ Truncates(Magnitude(l), Magnitude((Quotient(n, a) * k) * a), Magnitude(r))
                  /\ (Quotient(n, a) * k) * l * a >= 0
  BY <1>2, <1>3, ScaleTerms
<1>5. CASE o = "*="
  <2>1. m = l * y.count
    BY <1>3, <1>4, <1>5 DEF Assigned
  <2> QED
    BY <1>5, <2>1 DEF ExactCall, l, r, m, u
<1>6. CASE o = "/="
  <2>1. m = Quotient(n, a) * k
    BY <1>3, <1>6 DEF Assigned
  <2>2. /\ Truncates(Magnitude(l), Magnitude(m * y.count), Magnitude(r))
        /\ m * l * y.count >= 0
    BY <2>1, <1>3, <1>4, <1>6, Zenon
  <2> QED
    BY <1>6, <2>2 DEF ExactCall, l, r, m, u
<1> QED
  BY <1>5, <1>6

\* What is computed with are durations, and so is zero.
LEMMA KnownDurations ==
  /\ \A x \in AnyDuration : IsDuration(x)
  /\ \A t \in Types : \A x \in DurationsOf(t) :
       x.type = t /\ x \in AnyDuration /\ x = MakeDuration(t, x.count)
  /\ Zero \in AnyDuration /\ Representable(Zero)
<1>1. ASSUME NEW t \in Types
      PROVE  t \in Period
  BY TypesType DEF Period
<1>2. ASSUME NEW t \in Types, NEW x \in DurationsOf(t)
      PROVE  x.type = t /\ x \in AnyDuration /\ x = MakeDuration(t, x.count) /\ x.count \in Int
  BY <1>2, CountsType DEF DurationsOf, AnyDuration, MakeDuration
<1>3. ASSUME NEW x \in AnyDuration PROVE IsDuration(x)
  <2>1. PICK t \in Types : x \in DurationsOf(t)
    BY DEF AnyDuration
  <2>2. x.type = t /\ x = MakeDuration(t, x.count) /\ x.count \in Int /\ t \in Period
    BY <2>1, <1>1, <1>2
  <2> QED
    BY <2>2, Zenon DEF IsDuration
<1>4. PICK t \in Types : Zero = MakeDuration(t, 0)
  BY TypesType DEF Zero
<1>5. Fits(0, t.width)
  <2>1. t.width \in Nat \ {0}
    BY <1>1 DEF Period
  <2>2. RepMin(t.width) \in Int /\ RepMax(t.width) \in Nat /\ RepMin(t.width) < 0
    BY <2>1, Narrowed
  <2> QED
    BY <2>2 DEF Fits
<1>6. Zero \in DurationsOf(t) /\ Representable(Zero)
  BY <1>4, <1>5, CountsType DEF DurationsOf, Representable, MakeDuration
<1> QED
  BY <1>2, <1>3, <1>6

-----------------------------------------------------------------------------

\* The invariant.
DurationParts == DurationTypeOK /\ ExactCall(callee, lhs, rhs, result, answer)

\* The functions that are called.
DurationFunctions == {"none", "cast", "ceil", "compare", "sum", "difference", "convert",
                      "+=", "-=", "%=", "*=", "/="}

\* A call whose operands and result are those of a function.
LEMMA CallParts ==
  ASSUME NEW f \in DurationFunctions, NEW x \in AnyDuration, NEW y \in AnyDuration,
         NEW z, Representable(z), NEW b \in Seq(BOOLEAN), ExactCall(f, x, y, z, b),
         Calls(f, x, y, z, b)
  PROVE  DurationParts'
<1>1. callee' = f /\ lhs' = x /\ rhs' = y /\ result' = z /\ answer' = b
  BY DEF Calls
<1>2. ExactCall(f, x, y, z, b)'
  BY <1>1
<1> QED
  BY <1>1 DEF DurationParts, DurationTypeOK, DurationFunctions, Representable

\* The invariant holds at first.
LEMMA InitDuration == DurationInit => DurationParts
<1> SUFFICES ASSUME DurationInit PROVE DurationParts
  OBVIOUS
<1>1. Zero \in AnyDuration /\ Representable(Zero)
  BY KnownDurations
<1>2. callee = "none" /\ lhs = Zero /\ rhs = Zero /\ result = Zero /\ answer = <<>>
  BY DEF DurationInit
<1>3. ExactCall("none", lhs, rhs, result, answer)
  BY DEF ExactCall
<1>4. answer \in Seq(BOOLEAN)
  BY <1>2
<1> QED
  BY <1>1, <1>2, <1>3, <1>4 DEF DurationParts, DurationTypeOK

\* Each of the calls, whose operands are durations.
LEMMA CallExact ==
  ASSUME NEW x \in AnyDuration, NEW y \in AnyDuration, Call_Any(x, y)
  PROVE  DurationParts'
<1> DEFINE t == y.type  c == CommonType(x.type, y.type)
<1>1. IsDuration(x) /\ IsDuration(y)
  BY KnownDurations
<1>2. <<>> \in Seq(BOOLEAN)
  OBVIOUS
<1>3. /\ Representable(CastTo(x, y.type)) /\ ExactCall("cast", x, y, CastTo(x, y.type), <<>>)
      /\ Converts(x.type, y.type) => ExactCall("convert", x, y, CastTo(x, y.type), <<>>)
  BY <1>1, Exact_Cast
<1>4. CASE Call_Cast(x, y)
  <2>1. Calls("cast", x, y, CastTo(x, y.type), <<>>) /\ "cast" \in DurationFunctions
    BY <1>4 DEF Call_Cast, DurationFunctions
  <2> QED
    BY <2>1, <1>2, <1>3, CallParts
<1>5. CASE Call_Convert(x, y)
  <2>1. /\ Calls("convert", x, y, CastTo(x, y.type), <<>>) /\ Converts(x.type, y.type)
        /\ "convert" \in DurationFunctions
    BY <1>5 DEF Call_Convert, DurationFunctions
  <2> QED
    BY <2>1, <1>2, <1>3, CallParts
<1>6. CASE Call_Ceil(x, y)
  <2>1. /\ Calls("ceil", x, y, CeilTo(x, y.type), <<>>) /\ Representable(CeilTo(x, y.type))
        /\ "ceil" \in DurationFunctions
    BY <1>6 DEF Call_Ceil, DurationFunctions
  <2>2. ExactCall("ceil", x, y, CeilTo(x, y.type), <<>>)
    BY <1>1, Exact_Ceil
  <2> QED
    BY <2>1, <2>2, <1>2, CallParts
<1>7. CASE Call_Compare(x, y)
  <2>1. /\ Calls("compare", x, y, Zero, <<Less(x, y), Less(y, x), Equal(x, y)>>)
        /\ Representable(Zero)
        /\ "compare" \in DurationFunctions
    BY <1>7, KnownDurations DEF Call_Compare, DurationFunctions
  <2>2. ExactCall("compare", x, y, Zero, <<Less(x, y), Less(y, x), Equal(x, y)>>)
    BY <1>1, Exact_Compare
  <2>3. <<Less(x, y), Less(y, x), Equal(x, y)>> \in Seq(BOOLEAN)
    <3>1. Less(x, y) \in BOOLEAN /\ Less(y, x) \in BOOLEAN /\ Equal(x, y) \in BOOLEAN
      BY DEF Less, Equal
    <3>2. \A i, j, k \in BOOLEAN : <<i, j, k>> \in Seq(BOOLEAN)
      OBVIOUS
    <3> QED
      BY <3>1, <3>2, Zenon
  <2> QED
    BY <2>1, <2>2, <2>3, CallParts
<1>8. CASE Call_Sum(x, y)
  <2>1. /\ Calls("sum", x, y, Plus(x, y), <<>>) /\ Representable(Plus(x, y))
        /\ "sum" \in DurationFunctions
    BY <1>8 DEF Call_Sum, DurationFunctions
  <2>2. ExactCall("sum", x, y, Plus(x, y), <<>>)
    BY <1>1, Exact_Sum
  <2> QED
    BY <2>1, <2>2, <1>2, CallParts
<1>9. CASE Call_Difference(x, y)
  <2>1. /\ Calls("difference", x, y, Minus(x, y), <<>>) /\ Representable(Minus(x, y))
        /\ "difference" \in DurationFunctions
    BY <1>9 DEF Call_Difference, DurationFunctions
  <2>2. ExactCall("difference", x, y, Minus(x, y), <<>>)
    BY <1>1, Exact_Sum
  <2> QED
    BY <2>1, <2>2, <1>2, CallParts
<1>10. CASE \E o \in {"+=", "-=", "%="} : Call_Assign(o, x, y)
  <2>1. PICK o \in {"+=", "-=", "%="} : Call_Assign(o, x, y)
    BY <1>10
  <2> DEFINE a == CastTo(y, x.type).count  z == MakeDuration(x.type, Assigned(o, x.count, a))
  <2>2. /\ Converts(y.type, x.type) /\ (o = "%=" => a # 0) /\ Representable(z)
        /\ Calls(o, x, y, z, <<>>)
    BY <2>1 DEF Call_Assign
  <2>3. o \in DurationFunctions
    BY DEF DurationFunctions
  <2>4. ExactCall(o, x, y, z, <<>>)
    BY <2>2, <1>1, Exact_Assign
  <2> HIDE DEF z, a
  <2> QED
    BY <2>2, <2>3, <2>4, <1>2, CallParts
<1> QED
  BY <1>4, <1>5, <1>6, <1>7, <1>8, <1>9, <1>10 DEF Call_Any

\* Those whose operand is a number.
LEMMA ScaleExact ==
  ASSUME NEW x \in AnyDuration, NEW y \in DurationsOf(x.type), NEW o \in {"*=", "/="},
         Call_Scale(o, x, y.count)
  PROVE  DurationParts'
<1> DEFINE a == y.count  z == MakeDuration(x.type, Assigned(o, x.count, a))
<1>1. IsDuration(x) /\ x.type \in Types
  <2>1. PICK t \in Types : x \in DurationsOf(t)
    BY DEF AnyDuration
  <2> QED
    BY <2>1, KnownDurations
<1>2. y \in AnyDuration /\ y = MakeDuration(x.type, a) /\ IsDuration(y) /\ a \in Int
  BY <1>1, KnownDurations DEF IsDuration
<1>3. (o = "/=" => a # 0) /\ Representable(z) /\ Calls(o, x, y, z, <<>>)
  BY <1>2 DEF Call_Scale
<1>4. o \in DurationFunctions /\ <<>> \in Seq(BOOLEAN)
  BY DEF DurationFunctions
<1>5. ExactCall(o, x, y, z, <<>>)
  BY <1>1, <1>2, <1>3, Exact_Scale
<1> HIDE DEF a, z
<1> QED
  BY <1>2, <1>3, <1>4, <1>5, CallParts

\* Every call keeps it.
LEMMA NextDuration == DurationParts /\ [DurationNext]_durationVars => DurationParts'
<1> SUFFICES ASSUME DurationParts, [DurationNext]_durationVars PROVE DurationParts'
  OBVIOUS
<1>1. ASSUME NEW x \in AnyDuration,
             \/ \E y \in AnyDuration : Call_Any(x, y)
             \/ \E y \in DurationsOf(x.type), o \in {"*=", "/="} : Call_Scale(o, x, y.count)
      PROVE  DurationParts'
  BY <1>1, CallExact, ScaleExact
<1>2. CASE Return_Duration
  <2>1. /\ Calls("none", Zero, Zero, Zero, <<>>)
        /\ "none" \in DurationFunctions /\ <<>> \in Seq(BOOLEAN)
    BY <1>2 DEF Return_Duration, Calls, DurationFunctions
  <2>2. ExactCall("none", Zero, Zero, Zero, <<>>)
    BY DEF ExactCall
  <2> QED
    BY <2>1, <2>2, KnownDurations, CallParts
<1>3. CASE UNCHANGED durationVars
  BY <1>3 DEF durationVars, DurationParts, DurationTypeOK, Representable
<1> QED
  BY <1>1, <1>2, <1>3 DEF DurationNext

\* The functions of durations give what the durations mean in seconds, as long as the numbers
\* they compute fit, whatever the periods, the widths and the numbers of ticks (_chrono.hpp).
THEOREM DurationsCorrect == DurationSpec => [](DurationTypeOK /\ DurationsExact)
<1>1. DurationParts => DurationTypeOK /\ DurationsExact
  BY DEF DurationParts, DurationsExact, ExactCall
<1> QED
  BY <1>1, InitDuration, NextDuration, PTL DEF DurationSpec
-----------------------------------------------------------------------------
(* All parts in one run: none changes what another has. *)

\* A behaviour of all parts is one of each part.
LEMMA ValuesParts ==
  /\ ValuesInit => /\ LSInit /\ LGInit /\ HostInit /\ TWInit /\ CellInit /\ PtrInit /\ FunctionInit
                   /\ ObjectPoolInit /\ HandlesInit /\ StackInit /\ ListInit /\ SignalsInit
                   /\ RecursiveInit /\ UniqueInit /\ ScopeInit /\ ClockInit /\ CaptureInit
                   /\ DurationInit
  /\ [ValuesNext]_<<partVars, component>> =>
        /\ [LSNext]_lsVars /\ [LGNext]_lgVars /\ [HostNext]_hostVars /\ [TWNext]_twVars
        /\ [CellNext]_cellVars /\ [PtrNext]_ptrVars /\ [FunctionNext]_functionVars
        /\ [ObjectPoolNext]_objectPoolVars /\ [HandlesNext]_handleVars /\ [StackNext]_stackVars
        /\ [ListNext]_listVars /\ [SignalsNext]_signalVars /\ [RecursiveNext]_recursiveVars
        /\ [UniqueNext]_uniqueVars /\ [ScopeNext]_scopeVars /\ [ClockNext]_clockVars
        /\ [CaptureNext]_captureVars /\ [DurationNext]_durationVars
BY DEF ValuesInit, ValuesNext, Part, partVars

\* NoSleeperMissed, NobodyOversleeps, TimeoutKept and ImplementsRegister of the run: a
\* sleeper of a latch or synchronic is told (_latch.hpp, _synchronic.hpp), a waiting thread
\* of the host too (_cxx11/_thread.cpp), a timed wait lasts as long as it was asked to
\* (_cmsis_rtos/_semaphore.hpp), and an atomic operation takes effect at once (_atomic.hpp).
THEOREM ValuesWaits ==
  ValuesSpec => /\ [](NoSleeperMissed /\ NobodyOversleeps /\ TimeoutKept)
                /\ ImplementsRegister
<1>1. ValuesSpec => LSSpec
  BY ValuesParts, PTL DEF ValuesSpec, LSSpec
<1>2. ValuesSpec => HostSpec
  BY ValuesParts, PTL DEF ValuesSpec, HostSpec
<1>3. ValuesSpec => TWSpec
  BY ValuesParts, PTL DEF ValuesSpec, TWSpec
<1>4. ValuesSpec => CellSpec
  BY ValuesParts, PTL DEF ValuesSpec, CellSpec
<1> QED
  BY <1>1, <1>2, <1>3, <1>4, SleepersTold, HostWaits, TimeoutsKept, AtomicCellCorrect, PTL

\* LocksExact: a locked mutex has exactly one who unlocks it, as often as it was locked, and
\* two threads that lock two mutexes never block each other (mutex.hpp, _mutex.hpp).
THEOREM ValuesLocks == ValuesSpec => []LocksExact
<1>1. ValuesSpec => LGSpec
  BY ValuesParts, PTL DEF ValuesSpec, LGSpec
<1>2. ValuesSpec => RecursiveSpec
  BY ValuesParts, PTL DEF ValuesSpec, RecursiveSpec
<1>3. (OwnersExact /\ NoCircularWait) /\ LevelsExact => LocksExact
  BY DEF LocksExact, Of
<1> QED
  BY <1>1, <1>2, <1>3, OneUnlocks, LockOrderFree, RecursiveLevels, PTL

\* ThreadsAccounted: stacks lie in their memory, the list of threads is sound for an
\* interrupt at any time, and no signal is lost (_cmsis_rtos/_thread.cpp, _thread.hpp).
THEOREM ValuesThreads == ValuesSpec => []ThreadsAccounted
<1>1. ValuesSpec => StackSpec
  BY ValuesParts, PTL DEF ValuesSpec, StackSpec
<1>2. ValuesSpec => ListSpec
  BY ValuesParts, PTL DEF ValuesSpec, ListSpec
<1>3. ValuesSpec => SignalsSpec
  BY ValuesParts, PTL DEF ValuesSpec, SignalsSpec
<1>4. StackExact /\ ListExact /\ SignalsExact => ThreadsAccounted
  BY DEF ThreadsAccounted, Of
<1> QED
  BY <1>1, <1>2, <1>3, <1>4, StackCorrect, ListCorrect, SignalsKept, PTL

\* ResourcesOwned: intrusive_ptr, unique_ptr, function, object_pool, promise and future own
\* what they own exactly once, and scope guards run when they say, if none is moved.
THEOREM ValuesOwned ==
  ASSUME ~MovesAnyGuard
  PROVE  ValuesSpec => []ResourcesOwned
<1>1. ValuesSpec => PtrSpec
  BY ValuesParts, PTL DEF ValuesSpec, PtrSpec
<1>2. ValuesSpec => UniqueSpec
  BY ValuesParts, PTL DEF ValuesSpec, UniqueSpec
<1>3. ValuesSpec => FunctionSpec
  BY ValuesParts, PTL DEF ValuesSpec, FunctionSpec
<1>4. ValuesSpec => ObjectPoolSpec
  BY ValuesParts, PTL DEF ValuesSpec, ObjectPoolSpec
<1>5. ValuesSpec => HandlesSpec
  BY ValuesParts, PTL DEF ValuesSpec, HandlesSpec
<1>6. ValuesSpec => ScopeSpec
  BY ValuesParts, PTL DEF ValuesSpec, ScopeSpec
<1>7. ScopeSpec => [](ScopeTypeOK /\ GuardsTell)
  BY GuardsCorrect
<1>8. ReferencesExact /\ UniqueExact /\ CallablesOwned /\ PoolExact /\ HandlesExact /\ GuardsTell
        => ResourcesOwned
  BY DEF ResourcesOwned, Of
<1> QED
  BY <1>1, <1>2, <1>3, <1>4, <1>5, <1>6, <1>7, <1>8, PointersCorrect, UniqueCorrect,
     CallablesCorrect, PoolCorrect, HandlesCorrect, PTL

\* NowExactUnlessLate: now() counts every wrap of the kernel's time once, however readers, the
\* counter and the tick handler interleave (_chrono_clocks.cpp).
THEOREM ValuesClock == ValuesSpec => []NowExactUnlessLate
<1>1. ValuesSpec => ClockSpec
  BY ValuesParts, PTL DEF ValuesSpec, ClockSpec
<1> QED
  BY <1>1, ClockCorrect, PTL

\* DurationsExact: casts, comparisons and sums of durations are what the durations mean in
\* seconds (_common/_chrono.hpp).
THEOREM ValuesDurations == ValuesSpec => []DurationsExact
<1>1. ValuesSpec => DurationSpec
  BY ValuesParts, PTL DEF ValuesSpec, DurationSpec
<1> QED
  BY <1>1, DurationsCorrect, PTL

\* CaptureFaithful: a captured exception is caught by the handlers that would have caught
\* the one that was thrown (_armcc/_exception.cpp).
THEOREM ValuesExceptions == ValuesSpec => []CaptureFaithful
<1>1. ValuesSpec => CaptureSpec
  BY ValuesParts, PTL DEF ValuesSpec, CaptureSpec
<1> QED
  BY <1>1, CaptureCorrect, PTL

\* TypesOK: the variables of every part keep their types, so that no part reaches a state
\* its code has no name for; of scope guards, if none is moved.
THEOREM ValuesTypes ==
  ASSUME ~MovesAnyGuard
  PROVE  ValuesSpec => []TypesOK
<1>1. ValuesSpec => LSSpec
  BY ValuesParts, PTL DEF ValuesSpec, LSSpec
<1>2. ValuesSpec => LGSpec
  BY ValuesParts, PTL DEF ValuesSpec, LGSpec
<1>3. ValuesSpec => HostSpec
  BY ValuesParts, PTL DEF ValuesSpec, HostSpec
<1>4. ValuesSpec => TWSpec
  BY ValuesParts, PTL DEF ValuesSpec, TWSpec
<1>5. ValuesSpec => ClockSpec
  BY ValuesParts, PTL DEF ValuesSpec, ClockSpec
<1>6. ValuesSpec => CellSpec
  BY ValuesParts, PTL DEF ValuesSpec, CellSpec
<1>7. ValuesSpec => PtrSpec
  BY ValuesParts, PTL DEF ValuesSpec, PtrSpec
<1>8. ValuesSpec => FunctionSpec
  BY ValuesParts, PTL DEF ValuesSpec, FunctionSpec
<1>9. ValuesSpec => DurationSpec
  BY ValuesParts, PTL DEF ValuesSpec, DurationSpec
<1>10. ValuesSpec => CaptureSpec
  BY ValuesParts, PTL DEF ValuesSpec, CaptureSpec
<1>11. ValuesSpec => ObjectPoolSpec
  BY ValuesParts, PTL DEF ValuesSpec, ObjectPoolSpec
<1>12. ValuesSpec => HandlesSpec
  BY ValuesParts, PTL DEF ValuesSpec, HandlesSpec
<1>13. ValuesSpec => StackSpec
  BY ValuesParts, PTL DEF ValuesSpec, StackSpec
<1>14. ValuesSpec => ListSpec
  BY ValuesParts, PTL DEF ValuesSpec, ListSpec
<1>15. ValuesSpec => SignalsSpec
  BY ValuesParts, PTL DEF ValuesSpec, SignalsSpec
<1>16. ValuesSpec => RecursiveSpec
  BY ValuesParts, PTL DEF ValuesSpec, RecursiveSpec
<1>17. ValuesSpec => UniqueSpec
  BY ValuesParts, PTL DEF ValuesSpec, UniqueSpec
<1>18. ValuesSpec => ScopeSpec
  BY ValuesParts, PTL DEF ValuesSpec, ScopeSpec
<1>19. ScopeSpec => [](ScopeTypeOK /\ GuardsTell)
  BY GuardsCorrect
<1>20. ValuesSpec => [](component \in Components)
  <2>1. ValuesInit => component \in Components
    BY DEF ValuesInit
  <2>2. component \in Components /\ [ValuesNext]_<<partVars, component>>
          => (component \in Components)'
    BY DEF ValuesNext
  <2> QED
    BY <2>1, <2>2, PTL DEF ValuesSpec
<1>21. LSTypeOK /\ LGTypeOK /\ HostTypeOK /\ TWTypeOK /\ ClockTypeOK /\ CellTypeOK
         => /\ Of("latch", LSTypeOK) /\ Of("guards", LGTypeOK) /\ Of("host", HostTypeOK)
            /\ Of("timed", TWTypeOK) /\ Of("clock", ClockTypeOK) /\ Of("atomic", CellTypeOK)
  BY DEF Of
<1>22. PtrTypeOK /\ FunctionTypeOK /\ DurationTypeOK /\ CaptureTypeOK /\ ObjectPoolTypeOK
       /\ HandlesTypeOK
         => /\ Of("pointer", PtrTypeOK) /\ Of("function", FunctionTypeOK)
            /\ Of("duration", DurationTypeOK) /\ Of("exception", CaptureTypeOK)
            /\ Of("pool", ObjectPoolTypeOK) /\ Of("handles", HandlesTypeOK)
  BY DEF Of
<1>23. StackTypeOK /\ ListTypeOK /\ SignalsTypeOK /\ RecursiveTypeOK /\ UniqueTypeOK /\ ScopeTypeOK
         => /\ Of("stack", StackTypeOK) /\ Of("list", ListTypeOK)
            /\ Of("signals", SignalsTypeOK) /\ Of("recursive", RecursiveTypeOK)
            /\ Of("unique", UniqueTypeOK) /\ Of("scope", ScopeTypeOK)
  BY DEF Of
<1>24. ValuesSpec => [](LSTypeOK /\ LGTypeOK /\ HostTypeOK /\ TWTypeOK /\ ClockTypeOK /\ CellTypeOK)
  BY <1>1, <1>2, <1>3, <1>4, <1>5, <1>6,
     LatchTypes, OneUnlocks, HostWaits, TimeoutsKept, ClockCorrect, CellTypes, PTL
<1>25. ValuesSpec => [](PtrTypeOK /\ FunctionTypeOK /\ DurationTypeOK
                      /\ CaptureTypeOK /\ ObjectPoolTypeOK /\ HandlesTypeOK)
  BY <1>7, <1>8, <1>9, <1>10, <1>11, <1>12,
     PointersCorrect, CallablesCorrect, DurationsCorrect, CaptureCorrect, PoolCorrect,
     HandlesCorrect, PTL
<1>26. ValuesSpec => [](StackTypeOK /\ ListTypeOK /\ SignalsTypeOK
                      /\ RecursiveTypeOK /\ UniqueTypeOK /\ ScopeTypeOK)
  BY <1>13, <1>14, <1>15, <1>16, <1>17, <1>18,
     StackCorrect, ListCorrect, SignalsKept, RecursiveLevels, UniqueCorrect, <1>19, PTL
<1>27. LSTypeOK /\ LGTypeOK /\ HostTypeOK /\ TWTypeOK /\ ClockTypeOK /\ CellTypeOK
       /\ PtrTypeOK /\ FunctionTypeOK /\ DurationTypeOK /\ CaptureTypeOK /\ ObjectPoolTypeOK
       /\ HandlesTypeOK /\ StackTypeOK /\ ListTypeOK /\ SignalsTypeOK
       /\ RecursiveTypeOK /\ UniqueTypeOK /\ ScopeTypeOK /\ component \in Components
         => TypesOK
  BY <1>21, <1>22, <1>23 DEF TypesOK
<1> QED
  BY <1>20, <1>24, <1>25, <1>26, <1>27, PTL
=============================================================================
