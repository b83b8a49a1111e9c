-------------------------- MODULE MCBroodOperation --------------------------
(***************************************************************************)
(* BroodOperation on two controllers, of one wave or of two.               *)
(***************************************************************************)
EXTENDS BroodOperation, TLC

Op(verb, policy, parallel, wave) ==
    [verb |-> verb, failurePolicy |-> policy, maxParallel |-> parallel, wave |-> wave]

\* A script and an upgrade wave after wave, a reconcile one after the other.
Mixed ==
    {Op("executeGroovy", "FailFast", 2, <<0, 1>>), Op("upgrade", "FailTidy", 2, <<0, 1>>),
     Op("reconcile", "FailAtEnd", 1, <<0, 0>>)}
=============================================================================
