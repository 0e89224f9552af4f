-------------------------------- MODULE Lock --------------------------------
(***************************************************************************)
(* What a mutex promises: at any time it has at most one holder, and the   *)
(* holder keeps it until it releases it.                                   *)
(***************************************************************************)
CONSTANT Threads

VARIABLE holders   \* the threads that have been told that they hold the mutex

LockVars == <<holders>>

LockInit == holders = {}

Acquire(t) == holders = {} /\ holders' = {t}
Release(t) == holders = {t} /\ holders' = {}

LockNext == \E t \in Threads : Acquire(t) \/ Release(t)

LockSpec == LockInit /\ [][LockNext]_LockVars
=============================================================================
