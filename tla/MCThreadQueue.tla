---------------------------- MODULE MCThreadQueue ----------------------------
(***************************************************************************)
(* Three waiters, one of them of a lower priority than the others.         *)
(***************************************************************************)
EXTENDS ThreadQueue

CONSTANTS low, mid1, mid2
MCWaiters == {low, mid1, mid2}
MCPrio == [w \in MCWaiters |-> IF w = low THEN 1 ELSE 2]
=============================================================================
