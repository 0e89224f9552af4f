---------------------- MODULE ConditionVariable_proofs ----------------------
(***************************************************************************)
(* No notification of a condition variable is lost, for any number of      *)
(* consumers and producers.  The argument: from its look at the predicate  *)
(* until it is in the queue a consumer holds the mutex, so no item is put  *)
(* meanwhile; and every item put afterwards has a producer that will       *)
(* notify, whose notification makes a waiting consumer an active one.      *)
(***************************************************************************)
EXTENDS ConditionVariable, FiniteSetTheorems, TLAPS

ConsumerPlaces == {"idle", "lock", "pred", "link", "release", "block", "last", "unlock"}
ProducerPlaces == {"idle", "lock", "put", "notify", "unlock early", "notify free", "unlock"}

\* The types, with the domains of the functions.
CVTypes ==
  /\ phase \in [Consumers -> {"idle", "entering", "waiting", "notified", "timeout"}]
  /\ outcome \in [Consumers -> {"none", "notified", "timeout"}]
  /\ timed \in [Consumers -> BOOLEAN]
  /\ pc \in [Threads -> ConsumerPlaces \cup ProducerPlaces]
  /\ items \in Nat
  /\ \A c \in Consumers : pc[c] \in ConsumerPlaces
  /\ \A p \in Producers : pc[p] \in ProducerPlaces

\* Who holds the mutex, and what the queue has of a consumer at each place.
CVPlaces ==
  /\ holders \subseteq Threads /\ \A s, t \in holders : s = t
  /\ \A c \in Consumers : c \in holders <=> pc[c] \in {"pred", "link", "release", "last", "unlock"}
  /\ \A p \in Producers : p \in holders <=> pc[p] \in {"put", "notify", "unlock early", "unlock"}
  /\ \A c \in Consumers : /\ pc[c] = "link" => phase[c] \in {"idle", "entering"}
                          /\ pc[c] = "release" => phase[c] \in {"waiting", "notified"}
                          /\ pc[c] = "block" => phase[c] \in {"waiting", "notified", "timeout"}
                          /\ pc[c] \notin {"link", "release", "block"} => phase[c] = "idle"

\* From the predicate to the queue the mutex is kept, so nobody has put an item.
StillFalse == \A c \in Consumers : pc[c] \in {"link", "release"} => items = 0

\* The producers that have started, but not yet put their items.
Coming == {q \in Producers : pc[q] \in {"lock", "put"}}
Busy == {t \in Threads : pc[t] # "idle"}

\* Only so many threads have called as steps were taken; the room suffices for the
\* items that come.
RoomLeft == IsFiniteSet(Busy) /\ items + Cardinality(Coming) <= MaxItems

IInv == CVTypes /\ CVPlaces /\ StillFalse /\ RoomLeft /\ NoLostWakeup

\* A producer that has notified, for a consumer that was notified.
LEMMA CV_Trade == \A a, n \in Nat : (a + 1) + (n - 1) = a + n
OBVIOUS

\* One element more ...
LEMMA CV_Grows ==
  ASSUME NEW S, IsFiniteSet(S), NEW x, x \notin S, NEW T, T = S \cup {x}
  PROVE  Cardinality(S) \in Nat /\ Cardinality(T) = Cardinality(S) + 1
BY FS_AddElement, FS_CardinalityType

\* ... and one less.
LEMMA CV_Shrinks ==
  ASSUME NEW S, IsFiniteSet(S), NEW x \in S, NEW T, T = S \ {x}
  PROVE  /\ Cardinality(S) \in Nat /\ Cardinality(T) \in Nat
         /\ Cardinality(T) = Cardinality(S) - 1
BY FS_RemoveElement, FS_CardinalityType

\* The three counts of the invariant are numbers, for only busy threads are counted.
LEMMA CV_Finite ==
  ASSUME CVTypes, CVPlaces, RoomLeft
  PROVE  /\ IsFiniteSet(Active) /\ Cardinality(Active) \in Nat
         /\ IsFiniteSet(Notifying) /\ Cardinality(Notifying) \in Nat
         /\ IsFiniteSet(Coming) /\ Cardinality(Coming) \in Nat
<1>1. Active \subseteq Busy /\ Notifying \subseteq Busy /\ Coming \subseteq Busy
  BY DEF CVPlaces, Busy, Active, Notifying, Coming, Threads, Consumers
<1>2. IsFiniteSet(Active) /\ IsFiniteSet(Notifying) /\ IsFiniteSet(Coming)
  BY <1>1, FS_Subset DEF RoomLeft
<1> QED
  BY <1>2, FS_CardinalityType

\* One more call, or one less.
LEMMA CV_BusyFinite ==
  ASSUME RoomLeft, NEW t \in Threads, NEW l, NEW m, CVTypes, From(t, l, m) PROVE IsFiniteSet(Busy')
<1>1. Busy' \subseteq Busy \cup {t}
  BY DEF Busy, From, CVTypes
<1>2. IsFiniteSet(Busy \cup {t})
  BY FS_AddElement DEF RoomLeft
<1> QED
  BY <1>1, <1>2, FS_Subset

\* At first nobody has called.
LEMMA CV_Init == Init => IInv
<1> SUFFICES ASSUME Init PROVE IInv
  OBVIOUS
<1> USE ThreadsDisjoint, MaxItemsType DEF Init, WQInit, Mutex!LockInit, Threads, Consumers
<1>1. CVTypes /\ CVPlaces /\ StillFalse
  BY DEF CVTypes, CVPlaces, StillFalse, ConsumerPlaces, ProducerPlaces
<1>2. Busy = {} /\ Coming = {} /\ Waiting = {}
  BY DEF Busy, Coming, Waiting
<1>3. RoomLeft /\ NoLostWakeup
  BY <1>2, FS_EmptySet DEF RoomLeft, NoLostWakeup
<1> QED
  BY <1>1, <1>3 DEF IInv

\* consume() begins: the caller is going to look at the predicate.
LEMMA CV_Consume == ASSUME IInv, NEW c \in Consumers, Consume(c) PROVE IInv'
<1> USE ThreadsDisjoint DEF Threads, Consumers
<1>1. CVTypes /\ CVPlaces /\ StillFalse /\ RoomLeft /\ NoLostWakeup
  BY DEF IInv
<1>2. /\ IsFiniteSet(Active) /\ Cardinality(Active) \in Nat
      /\ IsFiniteSet(Notifying) /\ Cardinality(Notifying) \in Nat
      /\ IsFiniteSet(Coming) /\ Cardinality(Coming) \in Nat
  BY <1>1, CV_Finite
<1>3. items \in Nat /\ items' = items
  BY <1>1 DEF CVTypes, Consume, From, wqVars
<1>4. CVTypes'
  BY <1>1, <1>3 DEF CVTypes, ConsumerPlaces, ProducerPlaces, Consume, From, wqVars
<1>5. CVPlaces'
  BY <1>1 DEF CVTypes, CVPlaces, Consume, From, wqVars
<1>6. StillFalse'
  BY <1>1 DEF CVTypes, StillFalse, Consume, From, wqVars
<1>7. Active' = Active \cup {c} /\ c \notin Active
  <2>1. /\ phase' = phase /\ phase[c] = "idle" /\ pc[c] = "idle" /\ pc'[c] = "lock"
        /\ \A d \in Consumers \ {c} : pc'[d] = pc[d]
    BY <1>1 DEF CVTypes, CVPlaces, Consume, From, wqVars
  <2> QED
    BY <2>1 DEF Active
<1>8. Cardinality(Active') = Cardinality(Active) + 1
  BY <1>2, <1>7, CV_Grows
<1>9. Notifying' = Notifying
  BY <1>1 DEF CVTypes, Notifying, Consume, From, wqVars
<1>10. Coming' = Coming
  BY <1>1 DEF CVTypes, Coming, Consume, From, wqVars
<1>11. IsFiniteSet(Busy')
  BY <1>1, CV_BusyFinite DEF Consume, From, wqVars
<1>12. RoomLeft'
  BY <1>1, <1>2, <1>3, <1>10, <1>11, MaxItemsType DEF RoomLeft
<1>13. Waiting' \subseteq Waiting
  BY <1>1 DEF Waiting, CVTypes, Consume, From, wqVars
<1>14. NoLostWakeup'
  BY <1>1, <1>2, <1>3, <1>8, <1>9, <1>13 DEF NoLostWakeup
<1> QED
  BY <1>4, <1>5, <1>6, <1>12, <1>14 DEF IInv

\* The caller takes the mutex.
LEMMA CV_Consume_Lock == ASSUME IInv, NEW c \in Consumers, Consume_Lock(c) PROVE IInv'
<1> USE ThreadsDisjoint DEF Threads, Consumers
<1>1. CVTypes /\ CVPlaces /\ StillFalse /\ RoomLeft /\ NoLostWakeup
  BY DEF IInv
<1>2. /\ IsFiniteSet(Active) /\ Cardinality(Active) \in Nat
      /\ IsFiniteSet(Notifying) /\ Cardinality(Notifying) \in Nat
      /\ IsFiniteSet(Coming) /\ Cardinality(Coming) \in Nat
  BY <1>1, CV_Finite
<1>3. items \in Nat /\ items' = items
  BY <1>1 DEF CVTypes, Consume_Lock, Lock, From, Mutex!Acquire, wqVars
<1>4. CVTypes'
  BY <1>1, <1>3 DEF CVTypes, ConsumerPlaces, ProducerPlaces, Consume_Lock, Lock, From,
       Mutex!Acquire, wqVars
<1>5. CVPlaces'
  BY <1>1 DEF CVTypes, CVPlaces, Consume_Lock, Lock, From, Mutex!Acquire, wqVars
<1>6. StillFalse'
  BY <1>1 DEF CVTypes, StillFalse, Consume_Lock, Lock, From, Mutex!Acquire, wqVars
<1>7. Active' = Active
  BY <1>1 DEF CVTypes, CVPlaces, Active, Consume_Lock, Lock, From, Mutex!Acquire, wqVars
<1>8. Notifying' = Notifying
  BY <1>1 DEF CVTypes, Notifying, Consume_Lock, Lock, From, Mutex!Acquire, wqVars
<1>9. Coming' = Coming
  BY <1>1 DEF CVTypes, Coming, Consume_Lock, Lock, From, Mutex!Acquire, wqVars
<1>10. IsFiniteSet(Busy')
  BY <1>1, CV_BusyFinite DEF Consume_Lock, Lock, From, Mutex!Acquire, wqVars
<1>11. RoomLeft'
  BY <1>1, <1>2, <1>3, <1>9, <1>10, MaxItemsType DEF RoomLeft
<1>12. Waiting' \subseteq Waiting
  BY <1>1 DEF Waiting, CVTypes, Consume_Lock, Lock, From, Mutex!Acquire, wqVars
<1>13. NoLostWakeup'
  BY <1>1, <1>2, <1>3, <1>7, <1>8, <1>12 DEF NoLostWakeup
<1> QED
  BY <1>4, <1>5, <1>6, <1>11, <1>13 DEF IInv

\* It takes an item while it holds the mutex, so no other consumer is between the
\* predicate and the queue.
LEMMA CV_Pred_True == ASSUME IInv, NEW c \in Consumers, Pred_True(c) PROVE IInv'
<1> USE ThreadsDisjoint DEF Threads, Consumers
<1>1. CVTypes /\ CVPlaces /\ StillFalse /\ RoomLeft /\ NoLostWakeup
  BY DEF IInv
<1>2. /\ IsFiniteSet(Active) /\ Cardinality(Active) \in Nat
      /\ IsFiniteSet(Notifying) /\ Cardinality(Notifying) \in Nat
      /\ IsFiniteSet(Coming) /\ Cardinality(Coming) \in Nat
  BY <1>1, CV_Finite
<1>3. items \in Nat /\ items > 0 /\ items' = items - 1
  BY <1>1 DEF CVTypes, Pred_True, From, wqVars
<1>4. CVTypes'
  <2>1. phase' \in [Consumers -> {"idle", "entering", "waiting", "notified", "timeout"}]
    BY <1>1 DEF CVTypes, Pred_True, From, wqVars
  <2>2. outcome' \in [Consumers -> {"none", "notified", "timeout"}]
    BY <1>1 DEF CVTypes, Pred_True, From, wqVars
  <2>3. timed' \in [Consumers -> BOOLEAN]
    BY <1>1 DEF CVTypes, Pred_True, From, wqVars
  <2>4. /\ pc' \in [Threads -> ConsumerPlaces \cup ProducerPlaces]
        /\ \A d \in Consumers : pc'[d] \in ConsumerPlaces
        /\ \A q \in Producers : pc'[q] \in ProducerPlaces
    BY <1>1 DEF CVTypes, ConsumerPlaces, ProducerPlaces, Pred_True, From, wqVars
  <2>5. items' \in Nat
    BY <1>3
  <2> QED
    BY <2>1, <2>2, <2>3, <2>4, <2>5 DEF CVTypes
<1>5. CVPlaces'
  <2>1. /\ UNCHANGED <<holders, phase>>
        /\ pc'[c] = "unlock" /\ \A d \in Threads \ {c} : pc'[d] = pc[d]
    BY <1>1 DEF CVTypes, Pred_True, From, wqVars
  <2>2. pc[c] = "pred"
    BY DEF Pred_True, From, wqVars
  <2> QED
    BY <1>1, <2>1, <2>2 DEF CVPlaces
<1>6. StillFalse'
  <2>1. c \in holders /\ pc[c] \notin {"link", "release"}
    BY <1>1 DEF CVPlaces, Pred_True, From, wqVars
  <2>2. \A d \in Consumers : pc[d] \notin {"link", "release"}
    BY <1>1, <2>1 DEF CVPlaces
  <2>3. \A d \in Consumers : pc'[d] \notin {"link", "release"}
    BY <1>1, <2>2 DEF CVTypes, Pred_True, From, wqVars
  <2> QED
    BY <2>3 DEF StillFalse
<1>7. Active' = Active \ {c} /\ c \in Active
  BY <1>1 DEF CVTypes, CVPlaces, Active, Pred_True, From, wqVars
<1>8. Cardinality(Active') \in Nat /\ Cardinality(Active') = Cardinality(Active) - 1
  BY <1>2, <1>7, CV_Shrinks
<1>9. Notifying' = Notifying
  BY <1>1 DEF CVTypes, Notifying, Pred_True, From, wqVars
<1>10. Coming' = Coming
  BY <1>1 DEF CVTypes, Coming, Pred_True, From, wqVars
<1>11. IsFiniteSet(Busy')
  BY <1>1, CV_BusyFinite DEF Pred_True, From, wqVars
<1>12. RoomLeft'
  BY <1>1, <1>2, <1>3, <1>10, <1>11, MaxItemsType DEF RoomLeft
<1>13. Waiting' \subseteq Waiting
  BY <1>1 DEF Waiting, CVTypes, Pred_True, From, wqVars
<1>14. NoLostWakeup'
  BY <1>1, <1>2, <1>3, <1>8, <1>9, <1>13 DEF NoLostWakeup
<1> QED
  BY <1>4, <1>5, <1>6, <1>12, <1>14 DEF IInv

\* It finds no item: it is no longer active, but there is nothing to look at.
LEMMA CV_Pred_False == ASSUME IInv, NEW c \in Consumers, Pred_False(c) PROVE IInv'
<1> USE ThreadsDisjoint DEF Threads, Consumers
<1>1. CVTypes /\ CVPlaces /\ StillFalse /\ RoomLeft /\ NoLostWakeup
  BY DEF IInv
<1>2. /\ IsFiniteSet(Active) /\ Cardinality(Active) \in Nat
      /\ IsFiniteSet(Notifying) /\ Cardinality(Notifying) \in Nat
      /\ IsFiniteSet(Coming) /\ Cardinality(Coming) \in Nat
  BY <1>1, CV_Finite
<1>3. items \in Nat /\ items' = items /\ items = 0
  BY <1>1 DEF CVTypes, Pred_False, From, wqVars
<1>4. CVTypes'
  BY <1>1, <1>3 DEF CVTypes, ConsumerPlaces, ProducerPlaces, Pred_False, From, wqVars
<1>5. CVPlaces'
  BY <1>1 DEF CVTypes, CVPlaces, Pred_False, From, wqVars
<1>6. StillFalse'
  BY <1>1 DEF CVTypes, StillFalse, Pred_False, From, wqVars
<1>7. Active' = Active \ {c} /\ c \in Active
  BY <1>1 DEF CVTypes, CVPlaces, Active, Pred_False, From, wqVars
<1>8. Cardinality(Active') \in Nat /\ Cardinality(Active') = Cardinality(Active) - 1
  BY <1>2, <1>7, CV_Shrinks
<1>9. Notifying' = Notifying
  BY <1>1 DEF CVTypes, Notifying, Pred_False, From, wqVars
<1>10. Coming' = Coming
  BY <1>1 DEF CVTypes, Coming, Pred_False, From, wqVars
<1>11. IsFiniteSet(Busy')
  BY <1>1, CV_BusyFinite DEF Pred_False, From, wqVars
<1>12. RoomLeft'
  BY <1>1, <1>2, <1>3, <1>10, <1>11, MaxItemsType DEF RoomLeft
<1>13. Waiting' \subseteq Waiting
  BY <1>1 DEF Waiting, CVTypes, Pred_False, From, wqVars
<1>14. NoLostWakeup'
  <2>1. Waiting # {} => items <= Cardinality(Active) + Cardinality(Notifying)
    BY <1>1 DEF NoLostWakeup
  <2>2. Cardinality(Notifying') \in Nat /\ Cardinality(Notifying') = Cardinality(Notifying)
    BY <1>2, <1>9
  <2>3. Waiting # {} => items' <= Cardinality(Active') + Cardinality(Notifying')
    BY <1>2, <1>3, <1>8, <2>1, <2>2
  <2> QED
    BY <1>13, <2>3 DEF NoLostWakeup
<1> QED
  BY <1>4, <1>5, <1>6, <1>12, <1>14 DEF IInv

\* _t is constructed: nothing that is counted changes.
LEMMA CV_Wait_Construct == ASSUME IInv, NEW c \in Consumers, Wait_Construct(c) PROVE IInv'
<1> USE ThreadsDisjoint DEF Threads, Consumers
<1>1. CVTypes /\ CVPlaces /\ StillFalse /\ RoomLeft /\ NoLostWakeup
  BY DEF IInv
<1>2. /\ IsFiniteSet(Active) /\ Cardinality(Active) \in Nat
      /\ IsFiniteSet(Notifying) /\ Cardinality(Notifying) \in Nat
      /\ IsFiniteSet(Coming) /\ Cardinality(Coming) \in Nat
  BY <1>1, CV_Finite
<1>3. items \in Nat /\ items' = items
  BY <1>1 DEF CVTypes, Wait_Construct, Begin
<1>4. CVTypes'
  BY <1>1, <1>3 DEF CVTypes, ConsumerPlaces, ProducerPlaces, Wait_Construct, Begin
<1>5. CVPlaces'
  BY <1>1 DEF CVTypes, CVPlaces, Wait_Construct, Begin
<1>6. StillFalse'
  BY <1>1 DEF CVTypes, StillFalse, Wait_Construct, Begin
<1>7. Active' = Active
  BY <1>1 DEF CVTypes, CVPlaces, Active, Wait_Construct, Begin
<1>8. Notifying' = Notifying
  BY <1>1 DEF CVTypes, Notifying, Wait_Construct, Begin
<1>9. Coming' = Coming
  BY <1>1 DEF CVTypes, Coming, Wait_Construct, Begin
<1>10. IsFiniteSet(Busy')
  BY <1>1 DEF RoomLeft, Busy, Wait_Construct, Begin
<1>11. RoomLeft'
  BY <1>1, <1>2, <1>3, <1>9, <1>10, MaxItemsType DEF RoomLeft
<1>12. Waiting' \subseteq Waiting
  BY <1>1 DEF Waiting, CVTypes, Wait_Construct, Begin
<1>13. NoLostWakeup'
  BY <1>1, <1>2, <1>3, <1>7, <1>8, <1>12 DEF NoLostWakeup
<1> QED
  BY <1>4, <1>5, <1>6, <1>11, <1>13 DEF IInv

\* The consumer is in the queue, and still there is no item.
LEMMA CV_Wait_Link == ASSUME IInv, NEW c \in Consumers, Wait_Link(c) PROVE IInv'
<1> USE ThreadsDisjoint DEF Threads, Consumers
<1>1. CVTypes /\ CVPlaces /\ StillFalse /\ RoomLeft /\ NoLostWakeup
  BY DEF IInv
<1>2. /\ IsFiniteSet(Active) /\ Cardinality(Active) \in Nat
      /\ IsFiniteSet(Notifying) /\ Cardinality(Notifying) \in Nat
      /\ IsFiniteSet(Coming) /\ Cardinality(Coming) \in Nat
  BY <1>1, CV_Finite
<1>3. items \in Nat /\ items' = items
  BY <1>1 DEF CVTypes, Wait_Link, From, Enter
<1>4. CVTypes'
  BY <1>1, <1>3 DEF CVTypes, ConsumerPlaces, ProducerPlaces, Wait_Link, From, Enter
<1>5. CVPlaces'
  BY <1>1 DEF CVTypes, CVPlaces, Wait_Link, From, Enter
<1>6. StillFalse'
  BY <1>1 DEF CVTypes, StillFalse, Wait_Link, From, Enter
<1>7. Active' = Active
  BY <1>1 DEF CVTypes, CVPlaces, Active, Wait_Link, From, Enter
<1>8. Notifying' = Notifying
  BY <1>1 DEF CVTypes, Notifying, Wait_Link, From, Enter
<1>9. Coming' = Coming
  BY <1>1 DEF CVTypes, Coming, Wait_Link, From, Enter
<1>10. IsFiniteSet(Busy')
  BY <1>1, CV_BusyFinite DEF Wait_Link, From, Enter
<1>11. RoomLeft'
  BY <1>1, <1>2, <1>3, <1>9, <1>10, MaxItemsType DEF RoomLeft
<1>12. items' = 0
  BY <1>1 DEF StillFalse, Wait_Link, From
<1>13. NoLostWakeup'
  BY <1>2, <1>7, <1>8, <1>12 DEF NoLostWakeup
<1> QED
  BY <1>4, <1>5, <1>6, <1>11, <1>13 DEF IInv

\* lock_releaser releases the mutex, with the thread in the queue.
LEMMA CV_Wait_Release == ASSUME IInv, NEW c \in Consumers, Wait_Release(c) PROVE IInv'
<1> USE ThreadsDisjoint DEF Threads, Consumers
<1>1. CVTypes /\ CVPlaces /\ StillFalse /\ RoomLeft /\ NoLostWakeup
  BY DEF IInv
<1>2. /\ IsFiniteSet(Active) /\ Cardinality(Active) \in Nat
      /\ IsFiniteSet(Notifying) /\ Cardinality(Notifying) \in Nat
      /\ IsFiniteSet(Coming) /\ Cardinality(Coming) \in Nat
  BY <1>1, CV_Finite
<1>3. items \in Nat /\ items' = items
  BY <1>1 DEF CVTypes, Wait_Release, Unlock, From, Mutex!Release, wqVars
<1>4. CVTypes'
  BY <1>1, <1>3 DEF CVTypes, ConsumerPlaces, ProducerPlaces, Wait_Release, Unlock, From,
       Mutex!Release, wqVars
<1>5. CVPlaces'
  BY <1>1 DEF CVTypes, CVPlaces, Wait_Release, Unlock, From, Mutex!Release, wqVars
<1>6. StillFalse'
  BY <1>1 DEF CVTypes, StillFalse, Wait_Release, Unlock, From, Mutex!Release, wqVars
<1>7. Active' = Active
  BY <1>1 DEF CVTypes, CVPlaces, Active, Wait_Release, Unlock, From, Mutex!Release, wqVars
<1>8. Notifying' = Notifying
  BY <1>1 DEF CVTypes, Notifying, Wait_Release, Unlock, From, Mutex!Release, wqVars
<1>9. Coming' = Coming
  BY <1>1 DEF CVTypes, Coming, Wait_Release, Unlock, From, Mutex!Release, wqVars
<1>10. IsFiniteSet(Busy')
  BY <1>1, CV_BusyFinite DEF Wait_Release, Unlock, From, Mutex!Release, wqVars
<1>11. RoomLeft'
  BY <1>1, <1>2, <1>3, <1>9, <1>10, MaxItemsType DEF RoomLeft
<1>12. Waiting' \subseteq Waiting
  BY <1>1 DEF Waiting, CVTypes, Wait_Release, Unlock, From, Mutex!Release, wqVars
<1>13. NoLostWakeup'
  BY <1>1, <1>2, <1>3, <1>7, <1>8, <1>12 DEF NoLostWakeup
<1> QED
  BY <1>4, <1>5, <1>6, <1>11, <1>13 DEF IInv

\* A timed form gives up: the consumer will look once more.
LEMMA CV_Wait_Timeout == ASSUME IInv, NEW c \in Consumers, Wait_Timeout(c) PROVE IInv'
<1> USE ThreadsDisjoint DEF Threads, Consumers
<1>1. CVTypes /\ CVPlaces /\ StillFalse /\ RoomLeft /\ NoLostWakeup
  BY DEF IInv
<1>2. /\ IsFiniteSet(Active) /\ Cardinality(Active) \in Nat
      /\ IsFiniteSet(Notifying) /\ Cardinality(Notifying) \in Nat
      /\ IsFiniteSet(Coming) /\ Cardinality(Coming) \in Nat
  BY <1>1, CV_Finite
<1>3. items \in Nat /\ items' = items
  BY <1>1 DEF CVTypes, Wait_Timeout, GiveUp
<1>4. CVTypes'
  BY <1>1, <1>3 DEF CVTypes, ConsumerPlaces, ProducerPlaces, Wait_Timeout, GiveUp
<1>5. CVPlaces'
  BY <1>1 DEF CVTypes, CVPlaces, Wait_Timeout, GiveUp
<1>6. StillFalse'
  BY <1>1 DEF CVTypes, StillFalse, Wait_Timeout, GiveUp
<1>7. Active' = Active \cup {c} /\ c \notin Active
  <2>1. /\ pc' = pc /\ pc[c] = "block" /\ phase[c] = "waiting" /\ phase'[c] = "timeout"
        /\ \A d \in Consumers \ {c} : phase'[d] = phase[d]
    BY <1>1 DEF CVTypes, Wait_Timeout, GiveUp
  <2> QED
    BY <2>1 DEF Active
<1>8. Cardinality(Active') = Cardinality(Active) + 1
  BY <1>2, <1>7, CV_Grows
<1>9. Notifying' = Notifying
  BY <1>1 DEF CVTypes, Notifying, Wait_Timeout, GiveUp
<1>10. Coming' = Coming
  BY <1>1 DEF CVTypes, Coming, Wait_Timeout, GiveUp
<1>11. IsFiniteSet(Busy')
  BY <1>1 DEF RoomLeft, Busy, Wait_Timeout, GiveUp
<1>12. RoomLeft'
  BY <1>1, <1>2, <1>3, <1>10, <1>11, MaxItemsType DEF RoomLeft
<1>13. Waiting' \subseteq Waiting
  BY <1>1 DEF Waiting, CVTypes, Wait_Timeout, GiveUp
<1>14. NoLostWakeup'
  BY <1>1, <1>2, <1>3, <1>8, <1>9, <1>13 DEF NoLostWakeup
<1> QED
  BY <1>4, <1>5, <1>6, <1>12, <1>14 DEF IInv

\* The wait returns: notified or not, the consumer stays active.
LEMMA CV_Wait_Relock == ASSUME IInv, NEW c \in Consumers, Wait_Relock(c) PROVE IInv'
<1> USE ThreadsDisjoint DEF Threads, Consumers
<1>1. CVTypes /\ CVPlaces /\ StillFalse /\ RoomLeft /\ NoLostWakeup
  BY DEF IInv
<1>2. /\ IsFiniteSet(Active) /\ Cardinality(Active) \in Nat
      /\ IsFiniteSet(Notifying) /\ Cardinality(Notifying) \in Nat
      /\ IsFiniteSet(Coming) /\ Cardinality(Coming) \in Nat
  BY <1>1, CV_Finite
<1>3. items \in Nat /\ items' = items
  BY <1>1 DEF CVTypes, Wait_Relock, Leave, From, Mutex!Acquire
<1>4. CVTypes'
  BY <1>1, <1>3 DEF CVTypes, ConsumerPlaces, ProducerPlaces, Wait_Relock, Leave, From, Mutex!Acquire
<1>5. CVPlaces'
  BY <1>1 DEF CVTypes, CVPlaces, Wait_Relock, Leave, From, Mutex!Acquire
<1>6. StillFalse'
  BY <1>1 DEF CVTypes, StillFalse, Wait_Relock, Leave, From, Mutex!Acquire
<1>7. Active' = Active
  BY <1>1 DEF CVTypes, CVPlaces, Active, Wait_Relock, Leave, From, Mutex!Acquire
<1>8. Notifying' = Notifying
  BY <1>1 DEF CVTypes, Notifying, Wait_Relock, Leave, From, Mutex!Acquire
<1>9. Coming' = Coming
  BY <1>1 DEF CVTypes, Coming, Wait_Relock, Leave, From, Mutex!Acquire
<1>10. IsFiniteSet(Busy')
  BY <1>1, CV_BusyFinite DEF Wait_Relock, Leave, From, Mutex!Acquire
<1>11. RoomLeft'
  BY <1>1, <1>2, <1>3, <1>9, <1>10, MaxItemsType DEF RoomLeft
<1>12. Waiting' \subseteq Waiting
  BY <1>1 DEF Waiting, CVTypes, Wait_Relock, Leave, From, Mutex!Acquire
<1>13. NoLostWakeup'
  BY <1>1, <1>2, <1>3, <1>7, <1>8, <1>12 DEF NoLostWakeup
<1> QED
  BY <1>4, <1>5, <1>6, <1>11, <1>13 DEF IInv

\* The last look of a timed form takes the item, if there is one.
LEMMA CV_Last == ASSUME IInv, NEW c \in Consumers, Last(c) PROVE IInv'
<1> USE ThreadsDisjoint DEF Threads, Consumers
<1>1. CVTypes /\ CVPlaces /\ StillFalse /\ RoomLeft /\ NoLostWakeup
  BY DEF IInv
<1>2. /\ IsFiniteSet(Active) /\ Cardinality(Active) \in Nat
      /\ IsFiniteSet(Notifying) /\ Cardinality(Notifying) \in Nat
      /\ IsFiniteSet(Coming) /\ Cardinality(Coming) \in Nat
  BY <1>1, CV_Finite
<1>3. items \in Nat /\ items' = IF items > 0 THEN items - 1 ELSE 0
  BY <1>1 DEF CVTypes, Last, From, wqVars
<1>4. CVTypes'
  <2>1. phase' \in [Consumers -> {"idle", "entering", "waiting", "notified", "timeout"}]
    BY <1>1 DEF CVTypes, Last, From, wqVars
  <2>2. outcome' \in [Consumers -> {"none", "notified", "timeout"}]
    BY <1>1 DEF CVTypes, Last, From, wqVars
  <2>3. timed' \in [Consumers -> BOOLEAN]
    BY <1>1 DEF CVTypes, Last, From, wqVars
  <2>4. /\ pc' \in [Threads -> ConsumerPlaces \cup ProducerPlaces]
        /\ \A d \in Consumers : pc'[d] \in ConsumerPlaces
        /\ \A q \in Producers : pc'[q] \in ProducerPlaces
    BY <1>1 DEF CVTypes, ConsumerPlaces, ProducerPlaces, Last, From, wqVars
  <2>5. items' \in Nat
    BY <1>3
  <2> QED
    BY <2>1, <2>2, <2>3, <2>4, <2>5 DEF CVTypes
<1>5. CVPlaces'
  <2>1. /\ UNCHANGED <<holders, phase>>
        /\ pc'[c] = "unlock" /\ \A d \in Threads \ {c} : pc'[d] = pc[d]
    BY <1>1 DEF CVTypes, Last, From, wqVars
  <2>2. pc[c] = "last"
    BY DEF Last, From, wqVars
  <2> QED
    BY <1>1, <2>1, <2>2 DEF CVPlaces
<1>6. StillFalse'
  <2>1. c \in holders /\ pc[c] \notin {"link", "release"}
    BY <1>1 DEF CVPlaces, Last, From, wqVars
  <2>2. \A d \in Consumers : pc[d] \notin {"link", "release"}
    BY <1>1, <2>1 DEF CVPlaces
  <2>3. \A d \in Consumers : pc'[d] \notin {"link", "release"}
    BY <1>1, <2>2 DEF CVTypes, Last, From, wqVars
  <2> QED
    BY <2>3 DEF StillFalse
<1>7. Active' = Active \ {c} /\ c \in Active
  BY <1>1 DEF CVTypes, CVPlaces, Active, Last, From, wqVars
<1>8. Cardinality(Active') \in Nat /\ Cardinality(Active') = Cardinality(Active) - 1
  BY <1>2, <1>7, CV_Shrinks
<1>9. Notifying' = Notifying
  BY <1>1 DEF CVTypes, Notifying, Last, From, wqVars
<1>10. Coming' = Coming
  BY <1>1 DEF CVTypes, Coming, Last, From, wqVars
<1>11. IsFiniteSet(Busy')
  BY <1>1, CV_BusyFinite DEF Last, From, wqVars
<1>12. RoomLeft'
  BY <1>1, <1>2, <1>3, <1>10, <1>11, MaxItemsType DEF RoomLeft
<1>13. Waiting' \subseteq Waiting
  BY <1>1 DEF Waiting, CVTypes, Last, From, wqVars
<1>14. NoLostWakeup'
  <2>1. Waiting # {} => items <= Cardinality(Active) + Cardinality(Notifying)
    BY <1>1 DEF NoLostWakeup
  <2>2. Cardinality(Notifying') \in Nat /\ Cardinality(Notifying') = Cardinality(Notifying)
    BY <1>2, <1>9
  <2>3. Waiting # {} => items' <= Cardinality(Active') + Cardinality(Notifying')
    BY <1>2, <1>3, <1>8, <2>1, <2>2
  <2> QED
    BY <1>13, <2>3 DEF NoLostWakeup
<1> QED
  BY <1>4, <1>5, <1>6, <1>12, <1>14 DEF IInv

\* The caller is done.
LEMMA CV_Consume_Unlock == ASSUME IInv, NEW c \in Consumers, Consume_Unlock(c) PROVE IInv'
<1> USE ThreadsDisjoint DEF Threads, Consumers
<1>1. CVTypes /\ CVPlaces /\ StillFalse /\ RoomLeft /\ NoLostWakeup
  BY DEF IInv
<1>2. /\ IsFiniteSet(Active) /\ Cardinality(Active) \in Nat
      /\ IsFiniteSet(Notifying) /\ Cardinality(Notifying) \in Nat
      /\ IsFiniteSet(Coming) /\ Cardinality(Coming) \in Nat
  BY <1>1, CV_Finite
<1>3. items \in Nat /\ items' = items
  BY <1>1 DEF CVTypes, Consume_Unlock, Unlock, From, Mutex!Release, wqVars
<1>4. CVTypes'
  BY <1>1, <1>3 DEF CVTypes, ConsumerPlaces, ProducerPlaces, Consume_Unlock, Unlock, From,
       Mutex!Release, wqVars
<1>5. CVPlaces'
  BY <1>1 DEF CVTypes, CVPlaces, Consume_Unlock, Unlock, From, Mutex!Release, wqVars
<1>6. StillFalse'
  BY <1>1 DEF CVTypes, StillFalse, Consume_Unlock, Unlock, From, Mutex!Release, wqVars
<1>7. Active' = Active
  BY <1>1 DEF CVTypes, CVPlaces, Active, Consume_Unlock, Unlock, From, Mutex!Release, wqVars
<1>8. Notifying' = Notifying
  BY <1>1 DEF CVTypes, Notifying, Consume_Unlock, Unlock, From, Mutex!Release, wqVars
<1>9. Coming' = Coming
  BY <1>1 DEF CVTypes, Coming, Consume_Unlock, Unlock, From, Mutex!Release, wqVars
<1>10. IsFiniteSet(Busy')
  BY <1>1, CV_BusyFinite DEF Consume_Unlock, Unlock, From, Mutex!Release, wqVars
<1>11. RoomLeft'
  BY <1>1, <1>2, <1>3, <1>9, <1>10, MaxItemsType DEF RoomLeft
<1>12. Waiting' \subseteq Waiting
  BY <1>1 DEF Waiting, CVTypes, Consume_Unlock, Unlock, From, Mutex!Release, wqVars
<1>13. NoLostWakeup'
  BY <1>1, <1>2, <1>3, <1>7, <1>8, <1>12 DEF NoLostWakeup
<1> QED
  BY <1>4, <1>5, <1>6, <1>11, <1>13 DEF IInv

\* A producer starts: there is room for its item.
LEMMA CV_Produce == ASSUME IInv, NEW p \in Producers, Produce(p) PROVE IInv'
<1> USE ThreadsDisjoint DEF Threads, Consumers
<1>1. CVTypes /\ CVPlaces /\ StillFalse /\ RoomLeft /\ NoLostWakeup
  BY DEF IInv
<1>2. /\ IsFiniteSet(Active) /\ Cardinality(Active) \in Nat
      /\ IsFiniteSet(Notifying) /\ Cardinality(Notifying) \in Nat
      /\ IsFiniteSet(Coming) /\ Cardinality(Coming) \in Nat
  BY <1>1, CV_Finite
<1>3. items \in Nat /\ items' = items
  BY <1>1 DEF CVTypes, Produce, From, wqVars
<1>4. CVTypes'
  BY <1>1, <1>3 DEF CVTypes, ConsumerPlaces, ProducerPlaces, Produce, From, wqVars
<1>5. CVPlaces'
  BY <1>1 DEF CVTypes, CVPlaces, Produce, From, wqVars
<1>6. StillFalse'
  BY <1>1 DEF CVTypes, StillFalse, Produce, From, wqVars
<1>7. Active' = Active
  <2>1. phase' = phase /\ \A d \in Consumers : pc'[d] = pc[d]
    BY <1>1 DEF CVTypes, Produce, From, wqVars
  <2> QED
    BY <2>1 DEF Active
<1>8. Notifying' = Notifying
  BY <1>1 DEF CVTypes, Notifying, Produce, From, wqVars
<1>9. Coming' = Coming \cup {p} /\ p \notin Coming
  BY <1>1 DEF CVTypes, Coming, Produce, From, wqVars
<1>10. Cardinality(Coming') = Cardinality(Coming) + 1
  BY <1>2, <1>9, CV_Grows
<1>11. IsFiniteSet(Busy')
  BY <1>1, CV_BusyFinite DEF Produce, From, wqVars
<1>12. RoomLeft'
  <2>1. items + Cardinality(Coming) < MaxItems
    BY DEF Produce, Coming
  <2> QED
    BY <1>2, <1>3, <1>10, <1>11, <2>1, MaxItemsType DEF RoomLeft
<1>13. Waiting' \subseteq Waiting
  BY <1>1 DEF Waiting, CVTypes, Produce, From, wqVars
<1>14. NoLostWakeup'
  BY <1>1, <1>2, <1>3, <1>7, <1>8, <1>13 DEF NoLostWakeup
<1> QED
  BY <1>4, <1>5, <1>6, <1>12, <1>14 DEF IInv

\* It takes the mutex.
LEMMA CV_Produce_Lock == ASSUME IInv, NEW p \in Producers, Produce_Lock(p) PROVE IInv'
<1> USE ThreadsDisjoint DEF Threads, Consumers
<1>1. CVTypes /\ CVPlaces /\ StillFalse /\ RoomLeft /\ NoLostWakeup
  BY DEF IInv
<1>2. /\ IsFiniteSet(Active) /\ Cardinality(Active) \in Nat
      /\ IsFiniteSet(Notifying) /\ Cardinality(Notifying) \in Nat
      /\ IsFiniteSet(Coming) /\ Cardinality(Coming) \in Nat
  BY <1>1, CV_Finite
<1>3. items \in Nat /\ items' = items
  BY <1>1 DEF CVTypes, Produce_Lock, Lock, From, Mutex!Acquire, wqVars
<1>4. CVTypes'
  BY <1>1, <1>3 DEF CVTypes, ConsumerPlaces, ProducerPlaces, Produce_Lock, Lock, From,
       Mutex!Acquire, wqVars
<1>5. CVPlaces'
  BY <1>1 DEF CVTypes, CVPlaces, Produce_Lock, Lock, From, Mutex!Acquire, wqVars
<1>6. StillFalse'
  BY <1>1 DEF CVTypes, StillFalse, Produce_Lock, Lock, From, Mutex!Acquire, wqVars
<1>7. Active' = Active
  BY <1>1 DEF CVTypes, CVPlaces, Active, Produce_Lock, Lock, From, Mutex!Acquire, wqVars
<1>8. Notifying' = Notifying
  BY <1>1 DEF CVTypes, Notifying, Produce_Lock, Lock, From, Mutex!Acquire, wqVars
<1>9. Coming' = Coming
  BY <1>1 DEF CVTypes, Coming, Produce_Lock, Lock, From, Mutex!Acquire, wqVars
<1>10. IsFiniteSet(Busy')
  BY <1>1, CV_BusyFinite DEF Produce_Lock, Lock, From, Mutex!Acquire, wqVars
<1>11. RoomLeft'
  BY <1>1, <1>2, <1>3, <1>9, <1>10, MaxItemsType DEF RoomLeft
<1>12. Waiting' \subseteq Waiting
  BY <1>1 DEF Waiting, CVTypes, Produce_Lock, Lock, From, Mutex!Acquire, wqVars
<1>13. NoLostWakeup'
  BY <1>1, <1>2, <1>3, <1>7, <1>8, <1>12 DEF NoLostWakeup
<1> QED
  BY <1>4, <1>5, <1>6, <1>11, <1>13 DEF IInv

\* It puts the item and owes a notification.
LEMMA CV_Put == ASSUME IInv, NEW p \in Producers, Put(p) PROVE IInv'
<1> USE ThreadsDisjoint DEF Threads, Consumers
<1>1. CVTypes /\ CVPlaces /\ StillFalse /\ RoomLeft /\ NoLostWakeup
  BY DEF IInv
<1>2. /\ IsFiniteSet(Active) /\ Cardinality(Active) \in Nat
      /\ IsFiniteSet(Notifying) /\ Cardinality(Notifying) \in Nat
      /\ IsFiniteSet(Coming) /\ Cardinality(Coming) \in Nat
  BY <1>1, CV_Finite
<1>3. items \in Nat /\ items' = items + 1
  BY <1>1 DEF CVTypes, Put, From, wqVars
<1>4. CVTypes'
  <2>1. phase' \in [Consumers -> {"idle", "entering", "waiting", "notified", "timeout"}]
    BY <1>1 DEF CVTypes, Put, From, wqVars
  <2>2. outcome' \in [Consumers -> {"none", "notified", "timeout"}]
    BY <1>1 DEF CVTypes, Put, From, wqVars
  <2>3. timed' \in [Consumers -> BOOLEAN]
    BY <1>1 DEF CVTypes, Put, From, wqVars
  <2>4. /\ pc' \in [Threads -> ConsumerPlaces \cup ProducerPlaces]
        /\ \A d \in Consumers : pc'[d] \in ConsumerPlaces
        /\ \A q \in Producers : pc'[q] \in ProducerPlaces
    BY <1>1 DEF CVTypes, ConsumerPlaces, ProducerPlaces, Put, From, wqVars
  <2>5. items' \in Nat
    BY <1>3
  <2> QED
    BY <2>1, <2>2, <2>3, <2>4, <2>5 DEF CVTypes
<1>5. CVPlaces'
  BY <1>1 DEF CVTypes, CVPlaces, Put, From, wqVars
<1>6. StillFalse'
  <2>1. p \in holders /\ pc[p] \notin {"link", "release"}
    BY <1>1 DEF CVPlaces, Put, From, wqVars
  <2>2. \A d \in Consumers : pc[d] \notin {"link", "release"}
    BY <1>1, <2>1 DEF CVPlaces
  <2>3. \A d \in Consumers : pc'[d] \notin {"link", "release"}
    BY <1>1, <2>2 DEF CVTypes, Put, From, wqVars
  <2> QED
    BY <2>3 DEF StillFalse
<1>7. Active' = Active
  BY <1>1 DEF CVTypes, CVPlaces, Active, Put, From, wqVars
<1>8. Notifying' = Notifying \cup {p} /\ p \notin Notifying
  BY <1>1 DEF CVTypes, Notifying, Put, From, wqVars
<1>9. Cardinality(Notifying') = Cardinality(Notifying) + 1
  BY <1>2, <1>8, CV_Grows
<1>10. Coming' = Coming \ {p} /\ p \in Coming
  BY <1>1 DEF CVTypes, Coming, Put, From, wqVars
<1>11. Cardinality(Coming') \in Nat /\ Cardinality(Coming') = Cardinality(Coming) - 1
  BY <1>2, <1>10, CV_Shrinks
<1>12. IsFiniteSet(Busy')
  BY <1>1, CV_BusyFinite DEF Put, From, wqVars
<1>13. RoomLeft'
  BY <1>1, <1>2, <1>3, <1>11, <1>12, MaxItemsType DEF RoomLeft
<1>14. Waiting' \subseteq Waiting
  BY <1>1 DEF Waiting, CVTypes, Put, From, wqVars
<1>15. NoLostWakeup'
  BY <1>1, <1>2, <1>3, <1>7, <1>9, <1>14 DEF NoLostWakeup
<1> QED
  BY <1>4, <1>5, <1>6, <1>13, <1>15 DEF IInv

\* It releases the mutex first and still owes the notification.
LEMMA CV_Unlock_Early == ASSUME IInv, NEW p \in Producers, Unlock_Early(p) PROVE IInv'
<1> USE ThreadsDisjoint DEF Threads, Consumers
<1>1. CVTypes /\ CVPlaces /\ StillFalse /\ RoomLeft /\ NoLostWakeup
  BY DEF IInv
<1>2. /\ IsFiniteSet(Active) /\ Cardinality(Active) \in Nat
      /\ IsFiniteSet(Notifying) /\ Cardinality(Notifying) \in Nat
      /\ IsFiniteSet(Coming) /\ Cardinality(Coming) \in Nat
  BY <1>1, CV_Finite
<1>3. items \in Nat /\ items' = items
  BY <1>1 DEF CVTypes, Unlock_Early, Unlock, From, Mutex!Release, wqVars
<1>4. CVTypes'
  BY <1>1, <1>3 DEF CVTypes, ConsumerPlaces, ProducerPlaces, Unlock_Early, Unlock, From,
       Mutex!Release, wqVars
<1>5. CVPlaces'
  BY <1>1 DEF CVTypes, CVPlaces, Unlock_Early, Unlock, From, Mutex!Release, wqVars
<1>6. StillFalse'
  BY <1>1 DEF CVTypes, StillFalse, Unlock_Early, Unlock, From, Mutex!Release, wqVars
<1>7. Active' = Active
  BY <1>1 DEF CVTypes, CVPlaces, Active, Unlock_Early, Unlock, From, Mutex!Release, wqVars
<1>8. Notifying' = Notifying
  BY <1>1 DEF CVTypes, Notifying, Unlock_Early, Unlock, From, Mutex!Release, wqVars
<1>9. Coming' = Coming
  BY <1>1 DEF CVTypes, Coming, Unlock_Early, Unlock, From, Mutex!Release, wqVars
<1>10. IsFiniteSet(Busy')
  BY <1>1, CV_BusyFinite DEF Unlock_Early, Unlock, From, Mutex!Release, wqVars
<1>11. RoomLeft'
  BY <1>1, <1>2, <1>3, <1>9, <1>10, MaxItemsType DEF RoomLeft
<1>12. Waiting' \subseteq Waiting
  BY <1>1 DEF Waiting, CVTypes, Unlock_Early, Unlock, From, Mutex!Release, wqVars
<1>13. NoLostWakeup'
  BY <1>1, <1>2, <1>3, <1>7, <1>8, <1>12 DEF NoLostWakeup
<1> QED
  BY <1>4, <1>5, <1>6, <1>11, <1>13 DEF IInv

\* It is done.
LEMMA CV_Produce_Unlock == ASSUME IInv, NEW p \in Producers, Produce_Unlock(p) PROVE IInv'
<1> USE ThreadsDisjoint DEF Threads, Consumers
<1>1. CVTypes /\ CVPlaces /\ StillFalse /\ RoomLeft /\ NoLostWakeup
  BY DEF IInv
<1>2. /\ IsFiniteSet(Active) /\ Cardinality(Active) \in Nat
      /\ IsFiniteSet(Notifying) /\ Cardinality(Notifying) \in Nat
      /\ IsFiniteSet(Coming) /\ Cardinality(Coming) \in Nat
  BY <1>1, CV_Finite
<1>3. items \in Nat /\ items' = items
  BY <1>1 DEF CVTypes, Produce_Unlock, Unlock, From, Mutex!Release, wqVars
<1>4. CVTypes'
  BY <1>1, <1>3 DEF CVTypes, ConsumerPlaces, ProducerPlaces, Produce_Unlock, Unlock, From,
       Mutex!Release, wqVars
<1>5. CVPlaces'
  BY <1>1 DEF CVTypes, CVPlaces, Produce_Unlock, Unlock, From, Mutex!Release, wqVars
<1>6. StillFalse'
  BY <1>1 DEF CVTypes, StillFalse, Produce_Unlock, Unlock, From, Mutex!Release, wqVars
<1>7. Active' = Active
  BY <1>1 DEF CVTypes, CVPlaces, Active, Produce_Unlock, Unlock, From, Mutex!Release, wqVars
<1>8. Notifying' = Notifying
  BY <1>1 DEF CVTypes, Notifying, Produce_Unlock, Unlock, From, Mutex!Release, wqVars
<1>9. Coming' = Coming
  BY <1>1 DEF CVTypes, Coming, Produce_Unlock, Unlock, From, Mutex!Release, wqVars
<1>10. IsFiniteSet(Busy')
  BY <1>1, CV_BusyFinite DEF Produce_Unlock, Unlock, From, Mutex!Release, wqVars
<1>11. RoomLeft'
  BY <1>1, <1>2, <1>3, <1>9, <1>10, MaxItemsType DEF RoomLeft
<1>12. Waiting' \subseteq Waiting
  BY <1>1 DEF Waiting, CVTypes, Produce_Unlock, Unlock, From, Mutex!Release, wqVars
<1>13. NoLostWakeup'
  BY <1>1, <1>2, <1>3, <1>7, <1>8, <1>12 DEF NoLostWakeup
<1> QED
  BY <1>4, <1>5, <1>6, <1>11, <1>13 DEF IInv

\* notify_one(), notify_all(): nobody waits any more, or one more consumer is active
\* for the producer that has notified.
LEMMA CV_Notify ==
  ASSUME IInv, NEW p \in Producers, NEW l, NEW m,
         \/ l = "notify" /\ m = "unlock"
         \/ l = "notify free" /\ m = "idle",
         Notify(p, l, m)
  PROVE  IInv'
<1> USE ThreadsDisjoint DEF Threads, Consumers
<1>1. CVTypes /\ CVPlaces /\ StillFalse /\ RoomLeft /\ NoLostWakeup
  BY DEF IInv
<1>2. /\ IsFiniteSet(Active) /\ Cardinality(Active) \in Nat
      /\ IsFiniteSet(Notifying) /\ Cardinality(Notifying) \in Nat
      /\ IsFiniteSet(Coming) /\ Cardinality(Coming) \in Nat
  BY <1>1, CV_Finite
<1>3. From(p, l, m) /\ UNCHANGED <<holders, items, timed>>
  BY DEF Notify
<1>4. \A q \in Consumers : pc'[q] = pc[q]
  BY <1>3, <1>1 DEF From, CVTypes
\* What the notification does to the queue.
<1>5. /\ UNCHANGED outcome
      /\ \/ UNCHANGED phase /\ Waiting = {}
         \/ \E w \in Waiting : phase' = [phase EXCEPT ![w] = "notified"]
         \/ phase' = [w \in Waiters |-> IF w \in Waiting THEN "notified" ELSE phase[w]]
  BY DEF Notify, NotifyOne, NotifyAll, wqVars
<1>6. /\ DOMAIN phase' = Waiters
      /\ \A w \in Waiters : phase'[w] = phase[w] \/ (phase[w] = "waiting" /\ phase'[w] = "notified")
  <2>1. CASE UNCHANGED phase
    BY <1>1, <2>1 DEF CVTypes
  <2>2. ASSUME NEW w \in Waiting, phase' = [phase EXCEPT ![w] = "notified"]
        PROVE  <1>6!1
    BY <1>1, <2>2 DEF CVTypes, Waiting
  <2> QED
    BY <1>1, <1>5, <2>1, <2>2 DEF CVTypes, Waiting
<1>7. CVTypes'
  <2>1. phase' \in [Consumers -> {"idle", "entering", "waiting", "notified", "timeout"}]
    BY <1>1, <1>5 DEF CVTypes, Waiting
  <2>2. /\ pc' \in [Threads -> ConsumerPlaces \cup ProducerPlaces]
        /\ \A d \in Consumers : pc'[d] \in ConsumerPlaces
        /\ \A q \in Producers : pc'[q] \in ProducerPlaces
    BY <1>3, <1>1 DEF CVTypes, ConsumerPlaces, ProducerPlaces, From
  <2> QED
    BY <1>3, <1>1, <1>5, <2>1, <2>2 DEF CVTypes
<1>8. CVPlaces'
  <2>1. pc[p] = l /\ pc'[p] = m /\ \A q \in Producers \ {p} : pc'[q] = pc[q]
    BY <1>3, <1>1 DEF CVTypes, From
  <2>2. \A q \in Producers : q \in holders <=> pc'[q] \in {"put", "notify", "unlock early", "unlock"}
    BY <1>1, <2>1 DEF CVPlaces
  <2>3. \A c \in Consumers :
           /\ pc'[c] = "link" => phase'[c] \in {"idle", "entering"}
           /\ pc'[c] = "release" => phase'[c] \in {"waiting", "notified"}
           /\ pc'[c] = "block" => phase'[c] \in {"waiting", "notified", "timeout"}
           /\ pc'[c] \notin {"link", "release", "block"} => phase'[c] = "idle"
    <3>1. \A c \in Consumers : phase[c] = "waiting" => pc[c] \in {"release", "block"}
      BY <1>1 DEF CVPlaces
    <3>2. \A c \in Consumers : pc[c] \notin {"link", "release", "block"} => phase[c] = "idle"
      BY <1>1 DEF CVPlaces
    <3>3. ASSUME NEW c \in Consumers, pc'[c] \notin {"link", "release", "block"}
          PROVE  phase'[c] = "idle"
      BY <1>4, <1>6, <3>1, <3>2, <3>3
    <3>4. ASSUME NEW c \in Consumers PROVE pc'[c] = "link" => phase'[c] \in {"idle", "entering"}
      BY <1>1, <1>4, <1>6 DEF CVPlaces
    <3>5. ASSUME NEW c \in Consumers PROVE pc'[c] = "release" => phase'[c] \in {"waiting", "notified"}
      BY <1>1, <1>4, <1>6 DEF CVPlaces
    <3>6. ASSUME NEW c \in Consumers
          PROVE  pc'[c] = "block" => phase'[c] \in {"waiting", "notified", "timeout"}
      BY <1>1, <1>4, <1>6 DEF CVPlaces
    <3> QED
      BY <3>3, <3>4, <3>5, <3>6
  <2> QED
    BY <1>3, <1>1, <1>4, <2>2, <2>3 DEF CVPlaces
<1>9. StillFalse'
  BY <1>3, <1>1, <1>4 DEF StillFalse
<1>10. Coming' = Coming
  BY <1>3, <1>1 DEF CVTypes, Coming, From
<1>11. IsFiniteSet(Busy')
  BY <1>3, <1>1, CV_BusyFinite
<1>12. RoomLeft'
  BY <1>3, <1>1, <1>10, <1>11 DEF RoomLeft
<1>13. Notifying' = Notifying \ {p} /\ p \in Notifying
  BY <1>3, <1>1 DEF CVTypes, Notifying, From
<1>14. Cardinality(Notifying') = Cardinality(Notifying) - 1
  BY <1>2, <1>13, CV_Shrinks
<1>15. NoLostWakeup'
  <2>1. CASE Waiting = {} /\ UNCHANGED phase
    BY <2>1 DEF NoLostWakeup, Waiting
  <2>2. ASSUME NEW w \in Waiting, phase' = [phase EXCEPT ![w] = "notified"]
        PROVE  NoLostWakeup'
    <3>1. /\ w \in Consumers /\ phase[w] = "waiting" /\ phase'[w] = "notified"
          /\ \A d \in Consumers \ {w} : phase'[d] = phase[d]
      BY <1>1, <2>2 DEF CVTypes, Waiting
    <3>2. pc[w] \notin {"lock", "pred", "last"}
      BY <1>1, <3>1 DEF CVPlaces
    <3>3. Active' = Active \cup {w} /\ w \notin Active
      BY <1>4, <3>1, <3>2 DEF Active
    <3>4. Cardinality(Active') = Cardinality(Active) + 1
      BY <1>2, <3>3, CV_Grows
    <3>5. items \in Nat /\ items' = items /\ Waiting # {}
      BY <1>3, <1>1, <2>2 DEF CVTypes
    <3>6. items <= Cardinality(Active) + Cardinality(Notifying)
      BY <1>1, <3>5 DEF NoLostWakeup
    <3>7. Cardinality(Active') + Cardinality(Notifying') = Cardinality(Active) + Cardinality(Notifying)
      BY <1>2, <1>14, <3>4, CV_Trade
    <3>8. items' <= Cardinality(Active') + Cardinality(Notifying')
      BY <3>5, <3>6, <3>7
    <3> QED
      BY <3>8 DEF NoLostWakeup
  <2>3. CASE phase' = [w \in Waiters |-> IF w \in Waiting THEN "notified" ELSE phase[w]]
    <3>1. Waiting' = {}
      BY <2>3 DEF Waiting
    <3> QED
      BY <3>1 DEF NoLostWakeup
  <2> QED
    BY <1>5, <2>1, <2>2, <2>3
<1> QED
  BY <1>7, <1>8, <1>9, <1>12, <1>15 DEF IInv

\* Nothing changes.
LEMMA CV_Stutter == IInv /\ UNCHANGED vars => IInv'
<1> SUFFICES ASSUME IInv, UNCHANGED vars PROVE IInv'
  OBVIOUS
<1>1. CVTypes' /\ CVPlaces' /\ StillFalse'
  BY DEF IInv, CVTypes, CVPlaces, StillFalse, vars
<1>2. RoomLeft'
  BY DEF IInv, RoomLeft, Busy, Coming, vars
<1>3. NoLostWakeup'
  BY DEF IInv, NoLostWakeup, Active, Notifying, Waiting, vars
<1> QED
  BY <1>1, <1>2, <1>3 DEF IInv

\* IInv is inductive.
LEMMA CV_Next == IInv /\ [Next]_vars => IInv'
<1> SUFFICES ASSUME IInv, [Next]_vars PROVE IInv'
  OBVIOUS
<1>1. ASSUME NEW c \in Consumers,
             Consume(c) \/ ConsumerLocks(c) \/ Wait_Timeout(c) \/ Consumer(c)
      PROVE  IInv'
  BY <1>1, CV_Consume, CV_Consume_Lock, CV_Wait_Relock, CV_Wait_Timeout, CV_Pred_True,
     CV_Pred_False, CV_Wait_Construct, CV_Wait_Link, CV_Wait_Release, CV_Last,
     CV_Consume_Unlock DEF ConsumerLocks, Consumer
<1>2. ASSUME NEW p \in Producers, Produce(p) \/ Produce_Lock(p) \/ Producer(p)
      PROVE  IInv'
  BY <1>2, CV_Produce, CV_Produce_Lock, CV_Put, CV_Unlock_Early, CV_Produce_Unlock, CV_Notify
  DEF Producer
<1> QED
  BY <1>1, <1>2, CV_Stutter DEF Next

\* The inductive invariant holds of every behaviour of Spec.
THEOREM Invariance == Spec => []IInv
BY CV_Init, CV_Next, PTL DEF Spec

\* TypeOK: the types, never more items than were produced and never fewer than none,
\* and wait() returns with the mutex locked however it ends
\* (_condition_variable.hpp, lock_releaser).
THEOREM TypeCorrect == Spec => []TypeOK
<1>1. IInv => TypeOK
  <2> SUFFICES ASSUME IInv PROVE TypeOK
    OBVIOUS
  <2>1. items \in 0 .. MaxItems
    BY CV_Finite, MaxItemsType DEF IInv, RoomLeft, CVTypes
  <2> QED
    BY <2>1 DEF IInv, CVTypes, CVPlaces, TypeOK, ConsumerPlaces, ProducerPlaces
<1> QED
  BY <1>1, Invariance, PTL

\* NoLostWakeup: the thread is in the queue before the mutex is released, so no
\* notification falls between the predicate and the wait
\* (_condition_variable.cpp, wait()).
THEOREM NothingLost == Spec => []NoLostWakeup
<1>1. IInv => NoLostWakeup
  BY DEF IInv
<1> QED
  BY <1>1, Invariance, PTL
=============================================================================
