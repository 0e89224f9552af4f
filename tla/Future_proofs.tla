---------------------------- MODULE Future_proofs ----------------------------
(***************************************************************************)
(* The safety of Future for any number of setters and waiters.  The        *)
(* argument: every reference has a holder, the maker or the future, and    *)
(* whoever is in the state owes it to one of the two; and from the flag    *)
(* BeingSatisfied on there is one baton, which the thread that sets the    *)
(* result brings to the semaphore and the waiters hand on.                 *)
(***************************************************************************)
EXTENDS Future, TLAPS

Setting == {"start", "store", "ready", "notify"}
Waiting == {"check", "block", "post"}

\* Where each thread can be, and for what.
Places ==
  /\ pc[Owner] \in IF mode = "promise"
                     THEN Setting \cup {"made", "attached", "own", "count", "decref", "free", "done",
                                        "terminated"}
                     ELSE Waiting \cup {"made", "started", "attached", "decref", "free", "done"}
  /\ pc[Task] \in Setting \cup {"idle", "run", "return", "done", "terminated"}
  /\ mode = "promise" \/ pc[Owner] = "made" => pc[Task] = "idle"
  /\ \A s \in Setters :
       /\ pc[s] \in Setting \cup {"idle", "done"}
       /\ pc[s] \in Setting => mode = "promise" /\ pc[Owner] \in {"made", "attached", "own"}
  /\ \A w \in Waiters : pc[w] \in Waiting \cup {"idle", "decref", "free", "done"}
  /\ \A t \in Threads : pc[t] \in {"start", "store", "ready"} => call[t] \in {"value", "exception", "broken"}
  /\ pc[Owner] \in Waiting => call[Owner] = "destroy"
  /\ pc[Owner] \in {"made", "started", "attached"} => future = "none"

\* w has taken the state out of the future and not yet dropped it.
Emptied(w) == pc[w] = "decref" \/ (pc[w] \in Waiting /\ call[w] = "get")

\* t has dropped the last reference and destroys the state.
Last(t) == pc[t] = "free" \/ (pc[t] \in Waiting /\ call[t] = "destroy")

\* The future in use has only waiters; the one that emptied it is alone.
FutureUse ==
  /\ future = "none" => \A w \in Waiters : pc[w] = "idle"
  /\ future = "valid" => \A w \in Waiters : ~Emptied(w) /\ ~Last(w)
  /\ future = "empty" =>
       /\ \A w \in Waiters : pc[w] \notin {"idle", "done"} => Emptied(w) \/ Last(w)
       /\ \A v, w \in Waiters : pc[v] \notin {"idle", "done"} /\ pc[w] \notin {"idle", "done"} => v = w

OwnerHolds == pc[Owner] \in Setting \cup {"made", "started", "attached", "own", "count", "decref",
                                          "terminated"}
FutureHolds == future = "valid" \/ \E w \in Waiters : Emptied(w)

\* The counter is the number of holders.
RefsHeld == refs = (IF OwnerHolds THEN 1 ELSE 0) + (IF FutureHolds THEN 1 ELSE 0)

\* Only the last one destroys, once.
DestroyedLast ==
  /\ freed => refs = 0
  /\ \A t \in Waiters \cup {Owner} : Last(t) => refs = 0 /\ ~freed
  /\ \A t, u \in Waiters \cup {Owner} : Last(t) /\ Last(u) => t = u
  /\ \A t \in Waiters \cup {Owner} : mode = "async" /\ (pc[t] = "free" \/ freed) => "Ready" \in flags

Baton(t) == pc[t] \in {"store", "ready", "notify", "post"}

\* One thread at most carries the result or its token.
OneBaton ==
  /\ \A t, u \in Threads : Baton(t) /\ Baton(u) => t = u
  /\ \A t \in Threads : Baton(t) => tokens = 0 /\ "BeingSatisfied" \in flags
  /\ \A t \in Threads : Baton(t) => (pc[t] \in {"notify", "post"} <=> "Ready" \in flags)
  /\ tokens # 0 => "Ready" \in flags
  /\ "Ready" \in flags => "BeingSatisfied" \in flags
  /\ "ValueConstructed" \in flags => "Ready" \in flags

\* What is stored under the baton; who stores nothing has thrown.
Stored ==
  /\ "BeingSatisfied" \notin flags => exc = "none"
  /\ \A t \in Threads : pc[t] = "store" => exc = "none"
  /\ \A t \in Threads : pc[t] = "ready" => (exc = "none" <=> call[t] = "value")
  /\ "BeingSatisfied" \in flags /\ "Ready" \notin flags /\ ~threw => \E t \in Threads : pc[t] \in {"store", "ready"}
  /\ mode = "async" /\ "Ready" \in flags => pc[Task] \in {"notify", "return", "done"}

IInv == /\ TypeOK /\ Places /\ FutureUse /\ RefsHeld /\ DestroyedLast /\ OneBaton /\ Stored
        /\ PromiseKept

\* The invariant holds at first.
LEMMA Init_IInv == Init => IInv
<1> SUFFICES ASSUME Init PROVE IInv
  OBVIOUS
<1> USE ThreadsDistinct, ModesType DEF Init, Threads
<1>1. TypeOK
  <2>1. pc \in [Threads -> {"idle", "done", "made", "started", "attached", "own", "run", "return", "count",
                            "start", "store", "ready", "notify", "check", "block", "post", "decref", "free",
                            "terminated"}]
    OBVIOUS
  <2>2. call \in [Threads -> {"none", "value", "exception", "broken", "wait", "wait_for", "get", "destroy"}]
    OBVIOUS
  <2>3. mode \in Modes /\ refs \in 0 .. 2 /\ exc \in {"none", "exception", "broken"} /\ tokens \in 0 .. 1
    OBVIOUS
  <2>4. freed \in BOOLEAN /\ threw \in BOOLEAN /\ future \in {"none", "valid", "empty"} /\ flags = {}
    OBVIOUS
  <2> HIDE DEF Init, Threads
  <2> QED
    BY <2>1, <2>2, <2>3, <2>4 DEF TypeOK, Threads
<1>2. Places /\ FutureUse /\ RefsHeld /\ DestroyedLast
  BY DEF Places, Setting, Waiting, FutureUse, Emptied, Last, RefsHeld, OwnerHolds, FutureHolds,
         DestroyedLast
<1>3. OneBaton /\ Stored /\ PromiseKept
  BY DEF OneBaton, Baton, Stored, PromiseKept, BrokenPromiseSignalled
<1> QED
  BY <1>1, <1>2, <1>3 DEF IInv
-----------------------------------------------------------------------------
(* Setting the result. *)

\* A setter comes only while the maker holds its reference.
LEMMA Set_IInv ==
  ASSUME IInv, NEW s \in Setters, Set(s) PROVE IInv'
<1> USE ThreadsDistinct, ModesType DEF IInv, TypeOK, Threads, Set, stateVars, From, CallAs
<1>1. TypeOK'
  BY SMTT(20) DEF Places, Setting, Waiting, OneBaton, Baton, Stored, RefsHeld, OwnerHolds,
     FutureHolds, Emptied
<1>2. Places'
  BY SMTT(20) DEF Places, Setting, Waiting, FutureUse
<1>3. FutureUse'
  BY SMTT(20) DEF Places, Setting, Waiting, FutureUse, Emptied, Last, DestroyedLast, RefsHeld,
     OwnerHolds, FutureHolds
<1>4. RefsHeld'
  BY SMTT(20) DEF Places, Setting, Waiting, FutureUse, Emptied, Last, RefsHeld, OwnerHolds,
     FutureHolds, DestroyedLast
<1>5. DestroyedLast'
  BY SMTT(20) DEF Places, Setting, Waiting, FutureUse, Emptied, Last, RefsHeld, OwnerHolds,
     FutureHolds, DestroyedLast, OneBaton
<1>6. OneBaton'
  BY SMTT(20) DEF Places, Setting, Waiting, Baton, OneBaton
<1>7. Stored'
  BY SMTT(20) DEF Places, Setting, Waiting, Baton, OneBaton, Stored
<1>8. PromiseKept'
  BY SMTT(20) DEF Places, Setting, Waiting, FutureUse, OneBaton, Baton, Stored, RefsHeld,
     OwnerHolds, FutureHolds, Emptied, Last, DestroyedLast, PromiseKept, BrokenPromiseSignalled
<1> QED
  BY <1>1, <1>2, <1>3, <1>4, <1>5, <1>6, <1>7, <1>8

\* The task starts on what it was made for.
LEMMA Invoke_IInv ==
  ASSUME IInv, Invoke PROVE IInv'
<1> USE ThreadsDistinct, ModesType DEF IInv, TypeOK, Threads, Invoke, stateVars, From, CallAs
<1>1. TypeOK'
  BY SMTT(20) DEF Places, Setting, Waiting, OneBaton, Baton, Stored, RefsHeld, OwnerHolds,
     FutureHolds, Emptied
<1>2. Places'
  BY SMTT(20) DEF Places, Setting, Waiting, FutureUse
<1>3. FutureUse'
  BY SMTT(20) DEF Places, Setting, Waiting, FutureUse, Emptied, Last, DestroyedLast, RefsHeld,
     OwnerHolds, FutureHolds
<1>4. RefsHeld'
  BY SMTT(20) DEF Places, Setting, Waiting, FutureUse, Emptied, Last, RefsHeld, OwnerHolds,
     FutureHolds, DestroyedLast
<1>5. DestroyedLast'
  BY SMTT(20) DEF Places, Setting, Waiting, FutureUse, Emptied, Last, RefsHeld, OwnerHolds,
     FutureHolds, DestroyedLast, OneBaton
<1>6. OneBaton'
  BY SMTT(20) DEF Places, Setting, Waiting, Baton, OneBaton
<1>7. Stored'
  BY SMTT(20) DEF Places, Setting, Waiting, Baton, OneBaton, Stored
<1>8. PromiseKept'
  BY SMTT(20) DEF Places, Setting, Waiting, FutureUse, OneBaton, Baton, Stored, RefsHeld,
     OwnerHolds, FutureHolds, Emptied, Last, DestroyedLast, PromiseKept, BrokenPromiseSignalled
<1> QED
  BY <1>1, <1>2, <1>3, <1>4, <1>5, <1>6, <1>7, <1>8

\* The first one takes the baton; the others end.
LEMMA Start_IInv ==
  ASSUME IInv, NEW t \in Threads, Start(t) PROVE IInv'
<1> USE ThreadsDistinct, ModesType DEF IInv, TypeOK, Threads, Start, From
<1>1. TypeOK'
  <2>1. pc' \in [Threads -> {"idle", "done", "made", "started", "attached", "own", "run", "return", "count",
                             "start", "store", "ready", "notify", "check", "block", "post", "decref", "free",
                             "terminated"}]
    BY SMTT(30)
  <2>2. flags' \subseteq {"FutureAttached", "BeingSatisfied", "ValueConstructed", "Ready"}
    OBVIOUS
  <2> QED
    BY <2>1, <2>2
<1>2. Places'
  BY SMTT(20) DEF Places, Setting, Waiting, FutureUse
<1>3. FutureUse'
  BY SMTT(20) DEF Places, Setting, Waiting, FutureUse, Emptied, Last, DestroyedLast, RefsHeld,
     OwnerHolds, FutureHolds
<1>4. RefsHeld'
  BY SMTT(20) DEF Places, Setting, Waiting, FutureUse, Emptied, Last, RefsHeld, OwnerHolds,
     FutureHolds, DestroyedLast
<1>5. DestroyedLast'
  BY SMTT(20) DEF Places, Setting, Waiting, FutureUse, Emptied, Last, RefsHeld, OwnerHolds,
     FutureHolds, DestroyedLast, OneBaton
<1>6. OneBaton'
  BY SMTT(20) DEF Places, Setting, Waiting, Baton, OneBaton
<1>7. Stored'
  BY SMTT(20) DEF Places, Setting, Waiting, Baton, OneBaton, Stored
<1>8. PromiseKept'
  BY SMTT(20) DEF Places, Setting, Waiting, FutureUse, OneBaton, Baton, Stored, RefsHeld,
     OwnerHolds, FutureHolds, Emptied, Last, DestroyedLast, PromiseKept, BrokenPromiseSignalled
<1> QED
  BY <1>1, <1>2, <1>3, <1>4, <1>5, <1>6, <1>7, <1>8

\* The holder of the baton stores the result it is called for.
LEMMA Store_IInv ==
  ASSUME IInv, NEW t \in Threads, Store(t) PROVE IInv'
<1> USE ThreadsDistinct, ModesType DEF IInv, TypeOK, Threads, Store, From
<1>1. TypeOK'
  BY SMTT(20) DEF Places, Setting, Waiting, OneBaton, Baton, Stored, RefsHeld, OwnerHolds,
     FutureHolds, Emptied
<1>2. Places'
  BY SMTT(20) DEF Places, Setting, Waiting, FutureUse
<1>3. FutureUse'
  BY SMTT(20) DEF Places, Setting, Waiting, FutureUse, Emptied, Last, DestroyedLast, RefsHeld,
     OwnerHolds, FutureHolds
<1>4. RefsHeld'
  BY SMTT(20) DEF Places, Setting, Waiting, FutureUse, Emptied, Last, RefsHeld, OwnerHolds,
     FutureHolds, DestroyedLast
<1>5. DestroyedLast'
  BY SMTT(20) DEF Places, Setting, Waiting, FutureUse, Emptied, Last, RefsHeld, OwnerHolds,
     FutureHolds, DestroyedLast, OneBaton
<1>6. OneBaton'
  BY SMTT(20) DEF Places, Setting, Waiting, Baton, OneBaton
<1>7. Stored'
  BY SMTT(20) DEF Places, Setting, Waiting, Baton, OneBaton, Stored
<1>8. PromiseKept'
  BY SMTT(20) DEF Places, Setting, Waiting, FutureUse, OneBaton, Baton, Stored, RefsHeld,
     OwnerHolds, FutureHolds, Emptied, Last, DestroyedLast, PromiseKept, BrokenPromiseSignalled
<1> QED
  BY <1>1, <1>2, <1>3, <1>4, <1>5, <1>6, <1>7, <1>8

\* The baton is lost, which threw says.
LEMMA Store_Throws_IInv ==
  ASSUME IInv, NEW t \in Threads, Store_Throws(t) PROVE IInv'
<1> USE ThreadsDistinct, ModesType DEF IInv, TypeOK, Threads, Store_Throws, From, CallAs
<1>1. TypeOK'
  BY SMTT(20) DEF Places, Setting, Waiting, OneBaton, Baton, Stored, RefsHeld, OwnerHolds,
     FutureHolds, Emptied
<1>2. Places'
  BY SMTT(20) DEF Places, Setting, Waiting, FutureUse
<1>3. FutureUse'
  BY SMTT(20) DEF Places, Setting, Waiting, FutureUse, Emptied, Last, DestroyedLast, RefsHeld,
     OwnerHolds, FutureHolds
<1>4. RefsHeld'
  BY SMTT(20) DEF Places, Setting, Waiting, FutureUse, Emptied, Last, RefsHeld, OwnerHolds,
     FutureHolds, DestroyedLast
<1>5. DestroyedLast'
  BY SMTT(20) DEF Places, Setting, Waiting, FutureUse, Emptied, Last, RefsHeld, OwnerHolds,
     FutureHolds, DestroyedLast, OneBaton
<1>6. OneBaton'
  BY SMTT(20) DEF Places, Setting, Waiting, Baton, OneBaton
<1>7. Stored'
  BY SMTT(20) DEF Places, Setting, Waiting, Baton, OneBaton, Stored
<1>8. PromiseKept'
  BY SMTT(20) DEF Places, Setting, Waiting, FutureUse, OneBaton, Baton, Stored, RefsHeld,
     OwnerHolds, FutureHolds, Emptied, Last, DestroyedLast, PromiseKept, BrokenPromiseSignalled
<1> QED
  BY <1>1, <1>2, <1>3, <1>4, <1>5, <1>6, <1>7, <1>8

\* The flag follows the result.
LEMMA SetReady_IInv ==
  ASSUME IInv, NEW t \in Threads, SetReady(t) PROVE IInv'
<1> USE ThreadsDistinct, ModesType DEF IInv, TypeOK, Threads, SetReady, From
<1>1. TypeOK'
  BY SMTT(20) DEF Places, Setting, Waiting, OneBaton, Baton, Stored, RefsHeld, OwnerHolds,
     FutureHolds, Emptied
<1>2. Places'
  BY SMTT(20) DEF Places, Setting, Waiting, FutureUse
<1>3. FutureUse'
  BY SMTT(20) DEF Places, Setting, Waiting, FutureUse, Emptied, Last, DestroyedLast, RefsHeld,
     OwnerHolds, FutureHolds
<1>4. RefsHeld'
  BY SMTT(20) DEF Places, Setting, Waiting, FutureUse, Emptied, Last, RefsHeld, OwnerHolds,
     FutureHolds, DestroyedLast
<1>5. DestroyedLast'
  BY SMTT(20) DEF Places, Setting, Waiting, FutureUse, Emptied, Last, RefsHeld, OwnerHolds,
     FutureHolds, DestroyedLast, OneBaton
<1>6. OneBaton'
  BY SMTT(20) DEF Places, Setting, Waiting, Baton, OneBaton
<1>7. Stored'
  BY SMTT(20) DEF Places, Setting, Waiting, Baton, OneBaton, Stored
<1>8. PromiseKept'
  BY SMTT(20) DEF Places, Setting, Waiting, FutureUse, OneBaton, Baton, Stored, RefsHeld,
     OwnerHolds, FutureHolds, Emptied, Last, DestroyedLast, PromiseKept, BrokenPromiseSignalled
<1> QED
  BY <1>1, <1>2, <1>3, <1>4, <1>5, <1>6, <1>7, <1>8

\* The baton becomes the token of the semaphore.
LEMMA Notify_IInv ==
  ASSUME IInv, NEW t \in Threads, Notify(t) PROVE IInv'
<1> USE ThreadsDistinct, ModesType DEF IInv, TypeOK, Threads, Notify, From
<1>1. TypeOK'
  BY SMTT(20) DEF Places, Setting, Waiting, OneBaton, Baton, Stored, RefsHeld, OwnerHolds,
     FutureHolds, Emptied
<1>2. Places'
  BY SMTT(20) DEF Places, Setting, Waiting, FutureUse
<1>3. FutureUse'
  BY SMTT(20) DEF Places, Setting, Waiting, FutureUse, Emptied, Last, DestroyedLast, RefsHeld,
     OwnerHolds, FutureHolds
<1>4. RefsHeld'
  BY SMTT(20) DEF Places, Setting, Waiting, FutureUse, Emptied, Last, RefsHeld, OwnerHolds,
     FutureHolds, DestroyedLast
<1>5. DestroyedLast'
  BY SMTT(20) DEF Places, Setting, Waiting, FutureUse, Emptied, Last, RefsHeld, OwnerHolds,
     FutureHolds, DestroyedLast, OneBaton
<1>6. OneBaton'
  BY SMTT(20) DEF Places, Setting, Waiting, Baton, OneBaton
<1>7. Stored'
  BY SMTT(20) DEF Places, Setting, Waiting, Baton, OneBaton, Stored
<1>8. PromiseKept'
  BY SMTT(20) DEF Places, Setting, Waiting, FutureUse, OneBaton, Baton, Stored, RefsHeld,
     OwnerHolds, FutureHolds, Emptied, Last, DestroyedLast, PromiseKept, BrokenPromiseSignalled
<1> QED
  BY <1>1, <1>2, <1>3, <1>4, <1>5, <1>6, <1>7, <1>8

\* The task has let go of the baton.
LEMMA Return_IInv ==
  ASSUME IInv, Return PROVE IInv'
<1> USE ThreadsDistinct, ModesType DEF IInv, TypeOK, Threads, Return, stateVars, From
<1>1. TypeOK'
  BY SMTT(20) DEF Places, Setting, Waiting, OneBaton, Baton, Stored, RefsHeld, OwnerHolds,
     FutureHolds, Emptied
<1>2. Places'
  BY SMTT(20) DEF Places, Setting, Waiting, FutureUse
<1>3. FutureUse'
  BY SMTT(20) DEF Places, Setting, Waiting, FutureUse, Emptied, Last, DestroyedLast, RefsHeld,
     OwnerHolds, FutureHolds
<1>4. RefsHeld'
  BY SMTT(20) DEF Places, Setting, Waiting, FutureUse, Emptied, Last, RefsHeld, OwnerHolds,
     FutureHolds, DestroyedLast
<1>5. DestroyedLast'
  BY SMTT(20) DEF Places, Setting, Waiting, FutureUse, Emptied, Last, RefsHeld, OwnerHolds,
     FutureHolds, DestroyedLast, OneBaton
<1>6. OneBaton'
  BY SMTT(20) DEF Places, Setting, Waiting, Baton, OneBaton
<1>7. Stored'
  BY SMTT(20) DEF Places, Setting, Waiting, Baton, OneBaton, Stored
<1>8. PromiseKept'
  BY SMTT(20) DEF Places, Setting, Waiting, FutureUse, OneBaton, Baton, Stored, RefsHeld,
     OwnerHolds, FutureHolds, Emptied, Last, DestroyedLast, PromiseKept, BrokenPromiseSignalled
<1> QED
  BY <1>1, <1>2, <1>3, <1>4, <1>5, <1>6, <1>7, <1>8

-----------------------------------------------------------------------------
(* Waiting for it. *)

\* A waiter lives on the reference of its future.
LEMMA Wait_IInv ==
  ASSUME IInv, NEW w \in Waiters, Wait(w) PROVE IInv'
<1> USE ThreadsDistinct, ModesType DEF IInv, TypeOK, Threads, Wait, stateVars, From, CallAs, Usable
<1>1. TypeOK'
  BY SMTT(20) DEF Places, Setting, Waiting, OneBaton, Baton, Stored, RefsHeld, OwnerHolds,
     FutureHolds, Emptied
<1>2. Places'
  BY SMTT(20) DEF Places, Setting, Waiting, FutureUse
<1>3. FutureUse'
  BY SMTT(20) DEF Places, Setting, Waiting, FutureUse, Emptied, Last, DestroyedLast, RefsHeld,
     OwnerHolds, FutureHolds
<1>4. RefsHeld'
  BY SMTT(20) DEF Places, Setting, Waiting, FutureUse, Emptied, Last, RefsHeld, OwnerHolds,
     FutureHolds, DestroyedLast
<1>5. DestroyedLast'
  BY SMTT(20) DEF Places, Setting, Waiting, FutureUse, Emptied, Last, RefsHeld, OwnerHolds,
     FutureHolds, DestroyedLast, OneBaton
<1>6. OneBaton'
  BY SMTT(20) DEF Places, Setting, Waiting, Baton, OneBaton
<1>7. Stored'
  BY SMTT(20) DEF Places, Setting, Waiting, Baton, OneBaton, Stored
<1>8. PromiseKept'
  BY SMTT(20) DEF Places, Setting, Waiting, FutureUse, OneBaton, Baton, Stored, RefsHeld,
     OwnerHolds, FutureHolds, Emptied, Last, DestroyedLast, PromiseKept, BrokenPromiseSignalled
<1> QED
  BY <1>1, <1>2, <1>3, <1>4, <1>5, <1>6, <1>7, <1>8

\* Whoever finds no result blocks; the destroyer of an async() state goes on with one.
LEMMA Check_IInv ==
  ASSUME IInv, NEW t \in Threads, Check(t) PROVE IInv'
<1> USE ThreadsDistinct, ModesType DEF IInv, TypeOK, Threads, Check, stateVars, From
<1>1. TypeOK'
  BY SMTT(20) DEF Places, Setting, Waiting, OneBaton, Baton, Stored, RefsHeld, OwnerHolds,
     FutureHolds, Emptied
<1>2. Places'
  BY SMTT(20) DEF Places, Setting, Waiting, FutureUse
<1>3. FutureUse'
  BY SMTT(20) DEF Places, Setting, Waiting, FutureUse, Emptied, Last, DestroyedLast, RefsHeld,
     OwnerHolds, FutureHolds
<1>4. RefsHeld'
  BY SMTT(20) DEF Places, Setting, Waiting, FutureUse, Emptied, Last, RefsHeld, OwnerHolds,
     FutureHolds, DestroyedLast
<1>5. DestroyedLast'
  BY SMTT(20) DEF Places, Setting, Waiting, FutureUse, Emptied, Last, RefsHeld, OwnerHolds,
     FutureHolds, DestroyedLast, OneBaton
<1>6. OneBaton'
  BY SMTT(20) DEF Places, Setting, Waiting, Baton, OneBaton
<1>7. Stored'
  BY SMTT(20) DEF Places, Setting, Waiting, Baton, OneBaton, Stored
<1>8. PromiseKept'
  BY SMTT(20) DEF Places, Setting, Waiting, FutureUse, OneBaton, Baton, Stored, RefsHeld,
     OwnerHolds, FutureHolds, Emptied, Last, DestroyedLast, PromiseKept, BrokenPromiseSignalled
<1> QED
  BY <1>1, <1>2, <1>3, <1>4, <1>5, <1>6, <1>7, <1>8

\* The token becomes the baton again.
LEMMA Take_IInv ==
  ASSUME IInv, NEW t \in Threads, Take(t) PROVE IInv'
<1> USE ThreadsDistinct, ModesType DEF IInv, TypeOK, Threads, Take, From
<1>1. TypeOK'
  BY SMTT(20) DEF Places, Setting, Waiting, OneBaton, Baton, Stored, RefsHeld, OwnerHolds,
     FutureHolds, Emptied
<1>2. Places'
  BY SMTT(20) DEF Places, Setting, Waiting, FutureUse
<1>3. FutureUse'
  BY SMTT(20) DEF Places, Setting, Waiting, FutureUse, Emptied, Last, DestroyedLast, RefsHeld,
     OwnerHolds, FutureHolds
<1>4. RefsHeld'
  BY SMTT(20) DEF Places, Setting, Waiting, FutureUse, Emptied, Last, RefsHeld, OwnerHolds,
     FutureHolds, DestroyedLast
<1>5. DestroyedLast'
  BY SMTT(20) DEF Places, Setting, Waiting, FutureUse, Emptied, Last, RefsHeld, OwnerHolds,
     FutureHolds, DestroyedLast, OneBaton
<1>6. OneBaton'
  BY SMTT(20) DEF Places, Setting, Waiting, Baton, OneBaton
<1>7. Stored'
  BY SMTT(20) DEF Places, Setting, Waiting, Baton, OneBaton, Stored
<1>8. PromiseKept'
  BY SMTT(20) DEF Places, Setting, Waiting, FutureUse, OneBaton, Baton, Stored, RefsHeld,
     OwnerHolds, FutureHolds, Emptied, Last, DestroyedLast, PromiseKept, BrokenPromiseSignalled
<1> QED
  BY <1>1, <1>2, <1>3, <1>4, <1>5, <1>6, <1>7, <1>8

\* wait_for() goes back with nothing in its hands.
LEMMA TimeOut_IInv ==
  ASSUME IInv, NEW w \in Waiters, TimeOut(w) PROVE IInv'
<1> USE ThreadsDistinct, ModesType DEF IInv, TypeOK, Threads, TimeOut, stateVars, From
<1>1. TypeOK'
  BY SMTT(20) DEF Places, Setting, Waiting, OneBaton, Baton, Stored, RefsHeld, OwnerHolds,
     FutureHolds, Emptied
<1>2. Places'
  BY SMTT(20) DEF Places, Setting, Waiting, FutureUse
<1>3. FutureUse'
  BY SMTT(20) DEF Places, Setting, Waiting, FutureUse, Emptied, Last, DestroyedLast, RefsHeld,
     OwnerHolds, FutureHolds
<1>4. RefsHeld'
  BY SMTT(20) DEF Places, Setting, Waiting, FutureUse, Emptied, Last, RefsHeld, OwnerHolds,
     FutureHolds, DestroyedLast
<1>5. DestroyedLast'
  BY SMTT(20) DEF Places, Setting, Waiting, FutureUse, Emptied, Last, RefsHeld, OwnerHolds,
     FutureHolds, DestroyedLast, OneBaton
<1>6. OneBaton'
  BY SMTT(20) DEF Places, Setting, Waiting, Baton, OneBaton
<1>7. Stored'
  BY SMTT(20) DEF Places, Setting, Waiting, Baton, OneBaton, Stored
<1>8. PromiseKept'
  BY SMTT(20) DEF Places, Setting, Waiting, FutureUse, OneBaton, Baton, Stored, RefsHeld,
     OwnerHolds, FutureHolds, Emptied, Last, DestroyedLast, PromiseKept, BrokenPromiseSignalled
<1> QED
  BY <1>1, <1>2, <1>3, <1>4, <1>5, <1>6, <1>7, <1>8

\* The baton goes back as the token.
LEMMA Post_IInv ==
  ASSUME IInv, NEW t \in Threads, Post(t) PROVE IInv'
<1> USE ThreadsDistinct, ModesType DEF IInv, TypeOK, Threads, Post, From
<1>1. TypeOK'
  BY SMTT(20) DEF Places, Setting, Waiting, OneBaton, Baton, Stored, RefsHeld, OwnerHolds,
     FutureHolds, Emptied
<1>2. Places'
  BY SMTT(20) DEF Places, Setting, Waiting, FutureUse
<1>3. FutureUse'
  BY SMTT(20) DEF Places, Setting, Waiting, FutureUse, Emptied, Last, DestroyedLast, RefsHeld,
     OwnerHolds, FutureHolds
<1>4. RefsHeld'
  BY SMTT(20) DEF Places, Setting, Waiting, FutureUse, Emptied, Last, RefsHeld, OwnerHolds,
     FutureHolds, DestroyedLast
<1>5. DestroyedLast'
  BY SMTT(20) DEF Places, Setting, Waiting, FutureUse, Emptied, Last, RefsHeld, OwnerHolds,
     FutureHolds, DestroyedLast, OneBaton
<1>6. OneBaton'
  BY SMTT(20) DEF Places, Setting, Waiting, Baton, OneBaton
<1>7. Stored'
  BY SMTT(20) DEF Places, Setting, Waiting, Baton, OneBaton, Stored
<1>8. PromiseKept'
  BY SMTT(20) DEF Places, Setting, Waiting, FutureUse, OneBaton, Baton, Stored, RefsHeld,
     OwnerHolds, FutureHolds, Emptied, Last, DestroyedLast, PromiseKept, BrokenPromiseSignalled
<1> QED
  BY <1>1, <1>2, <1>3, <1>4, <1>5, <1>6, <1>7, <1>8

\* The reference of the future passes to the waiter that empties it.
LEMMA Get_IInv ==
  ASSUME IInv, NEW w \in Waiters, Get(w) PROVE IInv'
<1> USE ThreadsDistinct, ModesType DEF IInv, TypeOK, Threads, Get, From, CallAs, Usable, Quiet
<1>1. TypeOK'
  BY SMTT(20) DEF Places, Setting, Waiting, OneBaton, Baton, Stored, RefsHeld, OwnerHolds,
     FutureHolds, Emptied
<1>2. Places'
  BY SMTT(20) DEF Places, Setting, Waiting, FutureUse
<1>3. FutureUse'
  BY SMTT(20) DEF Places, Setting, Waiting, FutureUse, Emptied, Last, DestroyedLast, RefsHeld,
     OwnerHolds, FutureHolds
<1>4. RefsHeld'
  BY SMTT(20) DEF Places, Setting, Waiting, FutureUse, Emptied, Last, RefsHeld, OwnerHolds,
     FutureHolds, DestroyedLast
<1>5. DestroyedLast'
  BY SMTT(20) DEF Places, Setting, Waiting, FutureUse, Emptied, Last, RefsHeld, OwnerHolds,
     FutureHolds, DestroyedLast, OneBaton
<1>6. OneBaton'
  BY SMTT(20) DEF Places, Setting, Waiting, Baton, OneBaton
<1>7. Stored'
  BY SMTT(20) DEF Places, Setting, Waiting, Baton, OneBaton, Stored
<1>8. PromiseKept'
  BY SMTT(20) DEF Places, Setting, Waiting, FutureUse, OneBaton, Baton, Stored, RefsHeld,
     OwnerHolds, FutureHolds, Emptied, Last, DestroyedLast, PromiseKept, BrokenPromiseSignalled
<1> QED
  BY <1>1, <1>2, <1>3, <1>4, <1>5, <1>6, <1>7, <1>8

\* So it does when the future is dropped.
LEMMA Drop_IInv ==
  ASSUME IInv, NEW w \in Waiters, Drop(w) PROVE IInv'
<1> USE ThreadsDistinct, ModesType DEF IInv, TypeOK, Threads, Drop, From, Usable, Quiet
<1>1. TypeOK'
  BY SMTT(20) DEF Places, Setting, Waiting, OneBaton, Baton, Stored, RefsHeld, OwnerHolds,
     FutureHolds, Emptied
<1>2. Places'
  BY SMTT(20) DEF Places, Setting, Waiting, FutureUse
<1>3. FutureUse'
  BY SMTT(20) DEF Places, Setting, Waiting, FutureUse, Emptied, Last, DestroyedLast, RefsHeld,
     OwnerHolds, FutureHolds
<1>4. RefsHeld'
  BY SMTT(20) DEF Places, Setting, Waiting, FutureUse, Emptied, Last, RefsHeld, OwnerHolds,
     FutureHolds, DestroyedLast
<1>5. DestroyedLast'
  BY SMTT(20) DEF Places, Setting, Waiting, FutureUse, Emptied, Last, RefsHeld, OwnerHolds,
     FutureHolds, DestroyedLast, OneBaton
<1>6. OneBaton'
  BY SMTT(20) DEF Places, Setting, Waiting, Baton, OneBaton
<1>7. Stored'
  BY SMTT(20) DEF Places, Setting, Waiting, Baton, OneBaton, Stored
<1>8. PromiseKept'
  BY SMTT(20) DEF Places, Setting, Waiting, FutureUse, OneBaton, Baton, Stored, RefsHeld,
     OwnerHolds, FutureHolds, Emptied, Last, DestroyedLast, PromiseKept, BrokenPromiseSignalled
<1> QED
  BY <1>1, <1>2, <1>3, <1>4, <1>5, <1>6, <1>7, <1>8

-----------------------------------------------------------------------------
(* The references. *)

\* One holder less; the last one becomes the destroyer.
LEMMA DecRef_IInv ==
  ASSUME IInv, NEW t \in Threads, DecRef(t) PROVE IInv'
<1> USE ThreadsDistinct, ModesType DEF IInv, TypeOK, Threads, DecRef, From, CallAs
<1>1. TypeOK'
  BY SMTT(20) DEF Places, Setting, Waiting, OneBaton, Baton, Stored, RefsHeld, OwnerHolds,
     FutureHolds, Emptied
<1>2. Places'
  BY SMTT(20) DEF Places, Setting, Waiting, FutureUse
<1>3. FutureUse'
  BY SMTT(20) DEF Places, Setting, Waiting, FutureUse, Emptied, Last, DestroyedLast, RefsHeld,
     OwnerHolds, FutureHolds
<1>4. RefsHeld'
  BY SMTT(20) DEF Places, Setting, Waiting, FutureUse, Emptied, Last, RefsHeld, OwnerHolds,
     FutureHolds, DestroyedLast
<1>5. DestroyedLast'
  BY SMTT(20) DEF Places, Setting, Waiting, FutureUse, Emptied, Last, RefsHeld, OwnerHolds,
     FutureHolds, DestroyedLast, OneBaton
<1>6. OneBaton'
  BY SMTT(20) DEF Places, Setting, Waiting, Baton, OneBaton
<1>7. Stored'
  BY SMTT(20) DEF Places, Setting, Waiting, Baton, OneBaton, Stored
<1>8. PromiseKept'
  BY SMTT(20) DEF Places, Setting, Waiting, FutureUse, OneBaton, Baton, Stored, RefsHeld,
     OwnerHolds, FutureHolds, Emptied, Last, DestroyedLast, PromiseKept, BrokenPromiseSignalled
<1> QED
  BY <1>1, <1>2, <1>3, <1>4, <1>5, <1>6, <1>7, <1>8

\* Only the last one gets here.
LEMMA Free_IInv ==
  ASSUME IInv, NEW t \in Threads, Free(t) PROVE IInv'
<1> USE ThreadsDistinct, ModesType DEF IInv, TypeOK, Threads, Free, From
<1>1. TypeOK'
  BY SMTT(20) DEF Places, Setting, Waiting, OneBaton, Baton, Stored, RefsHeld, OwnerHolds,
     FutureHolds, Emptied
<1>2. Places'
  BY SMTT(20) DEF Places, Setting, Waiting, FutureUse
<1>3. FutureUse'
  BY SMTT(20) DEF Places, Setting, Waiting, FutureUse, Emptied, Last, DestroyedLast, RefsHeld,
     OwnerHolds, FutureHolds
<1>4. RefsHeld'
  BY SMTT(20) DEF Places, Setting, Waiting, FutureUse, Emptied, Last, RefsHeld, OwnerHolds,
     FutureHolds, DestroyedLast
<1>5. DestroyedLast'
  BY SMTT(20) DEF Places, Setting, Waiting, FutureUse, Emptied, Last, RefsHeld, OwnerHolds,
     FutureHolds, DestroyedLast, OneBaton
<1>6. OneBaton'
  BY SMTT(20) DEF Places, Setting, Waiting, Baton, OneBaton
<1>7. Stored'
  BY SMTT(20) DEF Places, Setting, Waiting, Baton, OneBaton, Stored
<1>8. PromiseKept'
  BY SMTT(20) DEF Places, Setting, Waiting, FutureUse, OneBaton, Baton, Stored, RefsHeld,
     OwnerHolds, FutureHolds, Emptied, Last, DestroyedLast, PromiseKept, BrokenPromiseSignalled
<1> QED
  BY <1>1, <1>2, <1>3, <1>4, <1>5, <1>6, <1>7, <1>8

\* The flag counts nothing.
LEMMA Attach_IInv ==
  ASSUME IInv, Attach PROVE IInv'
<1> USE ThreadsDistinct, ModesType DEF IInv, TypeOK, Threads, Attach, From
<1>1. TypeOK'
  BY SMTT(20) DEF Places, Setting, Waiting, OneBaton, Baton, Stored, RefsHeld, OwnerHolds,
     FutureHolds, Emptied
<1>2. Places'
  BY SMTT(20) DEF Places, Setting, Waiting, FutureUse
<1>3. FutureUse'
  BY SMTT(20) DEF Places, Setting, Waiting, FutureUse, Emptied, Last, DestroyedLast, RefsHeld,
     OwnerHolds, FutureHolds
<1>4. RefsHeld'
  BY SMTT(20) DEF Places, Setting, Waiting, FutureUse, Emptied, Last, RefsHeld, OwnerHolds,
     FutureHolds, DestroyedLast
<1>5. DestroyedLast'
  BY SMTT(20) DEF Places, Setting, Waiting, FutureUse, Emptied, Last, RefsHeld, OwnerHolds,
     FutureHolds, DestroyedLast, OneBaton
<1>6. OneBaton'
  BY SMTT(20) DEF Places, Setting, Waiting, Baton, OneBaton
<1>7. Stored'
  BY SMTT(20) DEF Places, Setting, Waiting, Baton, OneBaton, Stored
<1>8. PromiseKept'
  BY SMTT(20) DEF Places, Setting, Waiting, FutureUse, OneBaton, Baton, Stored, RefsHeld,
     OwnerHolds, FutureHolds, Emptied, Last, DestroyedLast, PromiseKept, BrokenPromiseSignalled
<1> QED
  BY <1>1, <1>2, <1>3, <1>4, <1>5, <1>6, <1>7, <1>8

\* The future becomes the second holder.
LEMMA IncRef_IInv ==
  ASSUME IInv, IncRef PROVE IInv'
<1> USE ThreadsDistinct, ModesType DEF IInv, TypeOK, Threads, IncRef, From
<1>1. TypeOK'
  BY SMTT(20) DEF FutureUse, Places, Setting, Waiting, OneBaton, Baton, Stored, RefsHeld,
     OwnerHolds, FutureHolds, Emptied
<1>2. Places'
  BY SMTT(20) DEF Places, Setting, Waiting, FutureUse
<1>3. FutureUse'
  BY SMTT(20) DEF Places, Setting, Waiting, FutureUse, Emptied, Last, DestroyedLast, RefsHeld,
     OwnerHolds, FutureHolds
<1>4. RefsHeld'
  BY SMTT(20) DEF Places, Setting, Waiting, FutureUse, Emptied, Last, RefsHeld, OwnerHolds,
     FutureHolds, DestroyedLast
<1>5. DestroyedLast'
  BY SMTT(20) DEF Places, Setting, Waiting, FutureUse, Emptied, Last, RefsHeld, OwnerHolds,
     FutureHolds, DestroyedLast, OneBaton
<1>6. OneBaton'
  BY SMTT(20) DEF Places, Setting, Waiting, Baton, OneBaton
<1>7. Stored'
  BY SMTT(20) DEF Places, Setting, Waiting, Baton, OneBaton, Stored
<1>8. PromiseKept'
  BY SMTT(20) DEF Places, Setting, Waiting, FutureUse, OneBaton, Baton, Stored, RefsHeld,
     OwnerHolds, FutureHolds, Emptied, Last, DestroyedLast, PromiseKept, BrokenPromiseSignalled
<1> QED
  BY <1>1, <1>2, <1>3, <1>4, <1>5, <1>6, <1>7, <1>8

\* The task runs on the reference of the maker, or there is none.
LEMMA StartThread_IInv ==
  ASSUME IInv, StartThread PROVE IInv'
<1> USE ThreadsDistinct, ModesType DEF IInv, TypeOK, Threads, StartThread, stateVars
<1>1. TypeOK'
  BY SMTT(20) DEF Places, Setting, Waiting, OneBaton, Baton, Stored, RefsHeld, OwnerHolds,
     FutureHolds, Emptied
<1>2. Places'
  BY SMTT(20) DEF Places, Setting, Waiting, FutureUse
<1>3. FutureUse'
  BY SMTT(20) DEF Places, Setting, Waiting, FutureUse, Emptied, Last, DestroyedLast, RefsHeld,
     OwnerHolds, FutureHolds
<1>4. RefsHeld'
  BY SMTT(20) DEF Places, Setting, Waiting, FutureUse, Emptied, Last, RefsHeld, OwnerHolds,
     FutureHolds, DestroyedLast
<1>5. DestroyedLast'
  BY SMTT(20) DEF Places, Setting, Waiting, FutureUse, Emptied, Last, RefsHeld, OwnerHolds,
     FutureHolds, DestroyedLast, OneBaton
<1>6. OneBaton'
  BY SMTT(20) DEF Places, Setting, Waiting, Baton, OneBaton
<1>7. Stored'
  BY SMTT(20) DEF Places, Setting, Waiting, Baton, OneBaton, Stored
<1>8. PromiseKept'
  BY SMTT(20) DEF Places, Setting, Waiting, FutureUse, OneBaton, Baton, Stored, RefsHeld,
     OwnerHolds, FutureHolds, Emptied, Last, DestroyedLast, PromiseKept, BrokenPromiseSignalled
<1> QED
  BY <1>1, <1>2, <1>3, <1>4, <1>5, <1>6, <1>7, <1>8

\* With all setters gone, a promise without a result looks for a future.
LEMMA Destroy_IsReady_IInv ==
  ASSUME IInv, Destroy_IsReady PROVE IInv'
<1> USE ThreadsDistinct, ModesType DEF IInv, TypeOK, Threads, Destroy_IsReady, stateVars, From,
    Quiet
<1>1. TypeOK'
  BY SMTT(20) DEF Places, Setting, Waiting, OneBaton, Baton, Stored, RefsHeld, OwnerHolds,
     FutureHolds, Emptied
<1>2. Places'
  BY SMTT(20) DEF Places, Setting, Waiting, FutureUse
<1>3. FutureUse'
  BY SMTT(20) DEF Places, Setting, Waiting, FutureUse, Emptied, Last, DestroyedLast, RefsHeld,
     OwnerHolds, FutureHolds
<1>4. RefsHeld'
  BY SMTT(20) DEF Places, Setting, Waiting, FutureUse, Emptied, Last, RefsHeld, OwnerHolds,
     FutureHolds, DestroyedLast
<1>5. DestroyedLast'
  BY SMTT(20) DEF Places, Setting, Waiting, FutureUse, Emptied, Last, RefsHeld, OwnerHolds,
     FutureHolds, DestroyedLast, OneBaton
<1>6. OneBaton'
  BY SMTT(20) DEF Places, Setting, Waiting, Baton, OneBaton
<1>7. Stored'
  BY SMTT(20) DEF Places, Setting, Waiting, Baton, OneBaton, Stored
<1>8. PromiseKept'
  BY SMTT(20) DEF Places, Setting, Waiting, FutureUse, OneBaton, Baton, Stored, RefsHeld,
     OwnerHolds, FutureHolds, Emptied, Last, DestroyedLast, PromiseKept, BrokenPromiseSignalled
<1> QED
  BY <1>1, <1>2, <1>3, <1>4, <1>5, <1>6, <1>7, <1>8

\* The counter tells whether there is one.
LEMMA Destroy_Count_IInv ==
  ASSUME IInv, Destroy_Count PROVE IInv'
<1> USE ThreadsDistinct, ModesType DEF IInv, TypeOK, Threads, Destroy_Count, stateVars, From, CallAs
<1>1. TypeOK'
  BY SMTT(20) DEF Places, Setting, Waiting, OneBaton, Baton, Stored, RefsHeld, OwnerHolds,
     FutureHolds, Emptied
<1>2. Places'
  BY SMTT(20) DEF Places, Setting, Waiting, FutureUse
<1>3. FutureUse'
  BY SMTT(20) DEF Places, Setting, Waiting, FutureUse, Emptied, Last, DestroyedLast, RefsHeld,
     OwnerHolds, FutureHolds
<1>4. RefsHeld'
  BY SMTT(20) DEF Places, Setting, Waiting, FutureUse, Emptied, Last, RefsHeld, OwnerHolds,
     FutureHolds, DestroyedLast
<1>5. DestroyedLast'
  BY SMTT(20) DEF Places, Setting, Waiting, FutureUse, Emptied, Last, RefsHeld, OwnerHolds,
     FutureHolds, DestroyedLast, OneBaton
<1>6. OneBaton'
  BY SMTT(20) DEF Places, Setting, Waiting, Baton, OneBaton
<1>7. Stored'
  BY SMTT(20) DEF Places, Setting, Waiting, Baton, OneBaton, Stored
<1>8. PromiseKept'
  BY SMTT(20) DEF Places, Setting, Waiting, FutureUse, OneBaton, Baton, Stored, RefsHeld,
     OwnerHolds, FutureHolds, Emptied, Last, DestroyedLast, PromiseKept, BrokenPromiseSignalled
<1> QED
  BY <1>1, <1>2, <1>3, <1>4, <1>5, <1>6, <1>7, <1>8
-----------------------------------------------------------------------------

\* The actions together.
LEMMA Next_IInv == IInv /\ [Next]_vars => IInv'
<1> SUFFICES ASSUME IInv, [Next]_vars PROVE IInv'
  OBVIOUS
<1>1. CASE UNCHANGED vars
  BY <1>1 DEF vars, stateVars, IInv, TypeOK, Places, FutureUse, Emptied, Last, RefsHeld, OwnerHolds,
              FutureHolds, DestroyedLast, OneBaton, Baton, Stored, PromiseKept, BrokenPromiseSignalled
<1>2. CASE Making \/ Invoke \/ Return
  BY <1>2, Attach_IInv, IncRef_IInv, StartThread_IInv, Destroy_IsReady_IInv, Destroy_Count_IInv,
     Invoke_IInv, Return_IInv DEF Making
<1>3. ASSUME NEW t \in Threads, Continue(t) PROVE IInv'
  BY <1>3, Start_IInv, Store_IInv, Store_Throws_IInv, SetReady_IInv, Notify_IInv, Check_IInv,
     Take_IInv, Post_IInv, DecRef_IInv, Free_IInv DEF Continue
<1>4. ASSUME NEW s \in Setters, Set(s) PROVE IInv'
  BY <1>4, Set_IInv
<1>5. ASSUME NEW w \in Waiters, Wait(w) \/ TimeOut(w) \/ Get(w) \/ Drop(w) PROVE IInv'
  BY <1>5, Wait_IInv, TimeOut_IInv, Get_IInv, Drop_IInv
<1> QED
  BY <1>1, <1>2, <1>3, <1>4, <1>5 DEF Next

\* The invariant holds in every reachable state.
THEOREM Invariance == Spec => []IInv
<1>1. QED
  BY Init_IInv, Next_IInv, PTL DEF Spec

\* The reference count never leaves 0 .. 2, the semaphore has one token at most, and
\* a ready state has either a value or an exception, however many setters overlap.
THEOREM TypeCorrect == Spec => []TypeOK
<1>1. IInv => TypeOK
  BY DEF IInv
<1>2. QED
  BY <1>1, Invariance, PTL

\* Nobody is in the shared state after its deallocation, but the thread of async()
\* that is in notify().
THEOREM NoUseAfterFree == Spec => []StateAlive
<1>1. ASSUME IInv, freed, mode = "promise" PROVE InState = {}
  BY <1>1, ThreadsDistinct DEF IInv, TypeOK, Places, Setting, Waiting, FutureUse, Emptied, Last,
     RefsHeld, OwnerHolds, FutureHolds, DestroyedLast, Threads, InState
<1>2. ASSUME IInv, freed, mode # "promise"
      PROVE  "Ready" \in flags /\ InState \subseteq {Task} /\ pc[Task] \in {"notify", "return", "done"}
  <2>1. mode = "async" /\ "Ready" \in flags
    BY <1>2, ModesType DEF IInv, TypeOK, DestroyedLast
  <2>2. pc[Task] \in {"notify", "return", "done"}
    BY <2>1, <1>2 DEF IInv, Stored
  <2>3. InState \subseteq {Task}
    BY <1>2, <2>1, ThreadsDistinct DEF IInv, TypeOK, Places, Setting, Waiting, FutureUse,
       Emptied, Last,
       RefsHeld, OwnerHolds, FutureHolds, DestroyedLast, Threads, InState
  <2> QED
    BY <2>1, <2>2, <2>3
<1>3. IInv => StateAlive
  BY <1>1, <1>2 DEF StateAlive
<1>4. QED
  BY <1>3, Invariance, PTL

\* A promise that goes without a result signals it to its future, unless the
\* constructor of a value has thrown.
THEOREM BrokenPromiseTold == Spec => []PromiseKept
<1>1. IInv => PromiseKept
  BY DEF IInv
<1>2. QED
  BY <1>1, Invariance, PTL

\* The reference count is the number of its holders, the maker and the future, and
\* the last one to drop its reference is the only one to destroy the state, once.
THEOREM CountExact == Spec => [](RefsHeld /\ DestroyedLast)
<1>1. IInv => RefsHeld /\ DestroyedLast
  BY DEF IInv
<1>2. QED
  BY <1>1, Invariance, PTL
=============================================================================
