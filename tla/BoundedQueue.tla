---------------------------- MODULE BoundedQueue ----------------------------
(***************************************************************************)
(* What a message queue promises: at most Capacity elements are on their   *)
(* way, each of them is received once, by one receiver, in the order and   *)
(* with the value in which it was sent.                                    *)
(***************************************************************************)
EXTENDS Naturals, Sequences

CONSTANTS Receivers, Elements, Capacity, Nothing

VARIABLES
  queue,   \* the elements, the next one first
  got      \* what each receiver has got last

bqVars == <<queue, got>>

BQInit == /\ queue = <<>>
          /\ got = [r \in Receivers |-> Nothing]

Put(e) == /\ Len(queue) < Capacity
          /\ queue' = Append(queue, e)
          /\ UNCHANGED got

Get(r) == /\ queue # <<>>
          /\ got' = [got EXCEPT ![r] = Head(queue)]
          /\ queue' = Tail(queue)

\* The receiver has consumed its element, or could not move it.
Forget(r) == /\ got' = [got EXCEPT ![r] = Nothing]
             /\ UNCHANGED queue

BQNext == \/ \E e \in Elements : Put(e)
          \/ \E r \in Receivers : Get(r) \/ Forget(r)

BQSpec == BQInit /\ [][BQNext]_bqVars
=============================================================================
