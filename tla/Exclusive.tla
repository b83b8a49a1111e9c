----------------------------- MODULE Exclusive ------------------------------
(***************************************************************************)
(* What an exclusive section promises: whoever is inside is alone, and     *)
(* only a process that finds the section empty may enter.  The work on a   *)
(* shard of the operator (ShardLease) and the bodies of a fleet lock       *)
(* (LockSteps) are shown to implement it.                                  *)
(***************************************************************************)
CONSTANT Process

VARIABLE inside  \* the processes in the section

Init == inside = {}

Enter(p) == inside = {} /\ inside' = {p}

Leave(p) == p \in inside /\ inside' = inside \ {p}

Next == \E p \in Process : Enter(p) \/ Leave(p)

Spec == Init /\ [][Next]_inside
=============================================================================
