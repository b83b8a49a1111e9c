----------------------------- MODULE MCLockSteps ----------------------------
(***************************************************************************)
(* LockSteps on a small instance: two runs with one step each, on two      *)
(* instances.                                                              *)
(***************************************************************************)
EXTENDS LockSteps, TLC

CONSTANTS i1, i2, r1, r2, s1, s2

OneStepEach == (s1 :> r1) @@ (s2 :> r2)

Apart == (r1 :> i1) @@ (r2 :> i2)

\* The two runs, each with its step and its instance, may change places.
Symmetry ==
    {p \in Permutations(Instance \cup Run \cup Step) :
       \A s \in Step : /\ p[s] \in Step
                      /\ p[RunOf[s]] = RunOf[p[s]]
                      /\ p[StartsAt[RunOf[s]]] = StartsAt[RunOf[p[s]]]}
=============================================================================
