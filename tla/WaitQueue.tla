------------------------------ MODULE WaitQueue ------------------------------
(***************************************************************************)
(* What a queue of waiting threads promises: a thread that waits is woken  *)
(* by exactly one notification, or gives up by itself, never both, and it  *)
(* is told which of the two has happened.                                  *)
(***************************************************************************)
CONSTANT Waiters

VARIABLES
  phase,    \* "idle", "entering", "waiting", "notified" or "timeout"
  outcome   \* what the last wait of each thread returned

wqVars == <<phase, outcome>>

Waiting == {w \in Waiters : phase[w] = "waiting"}

WQInit == /\ phase = [w \in Waiters |-> "idle"]
          /\ outcome = [w \in Waiters |-> "none"]

\* A thread begins to wait ...
Begin(w) == /\ phase[w] = "idle"
            /\ phase' = [phase EXCEPT ![w] = "entering"]
            /\ outcome' = [outcome EXCEPT ![w] = "none"]

\* ... and enters the queue.
Enter(w) == /\ phase[w] = "entering"
            /\ phase' = [phase EXCEPT ![w] = "waiting"]
            /\ UNCHANGED outcome

\* One waiting thread is notified; without one, nothing happens.
NotifyOne == /\ \E w \in Waiting : phase' = [phase EXCEPT ![w] = "notified"]
             /\ UNCHANGED outcome

\* All threads that wait at this moment are notified.
NotifyAll == /\ Waiting # {}
             /\ phase' = [w \in Waiters |-> IF w \in Waiting THEN "notified" ELSE phase[w]]
             /\ UNCHANGED outcome

\* A thread that is still waiting gives up.
GiveUp(w) == /\ phase[w] = "waiting"
             /\ phase' = [phase EXCEPT ![w] = "timeout"]
             /\ UNCHANGED outcome

\* The wait returns and says why.
Leave(w) == /\ phase[w] \in {"notified", "timeout"}
            /\ outcome' = [outcome EXCEPT ![w] = phase[w]]
            /\ phase' = [phase EXCEPT ![w] = "idle"]

WQNext == \/ NotifyOne \/ NotifyAll
          \/ \E w \in Waiters : Begin(w) \/ Enter(w) \/ GiveUp(w) \/ Leave(w)

WQSpec == WQInit /\ [][WQNext]_wqVars
=============================================================================
