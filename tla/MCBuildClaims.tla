--------------------------- MODULE MCBuildClaims ----------------------------
(***************************************************************************)
(* BuildClaims on small instances: two keys with one run each, or one key  *)
(* that two runs claim.                                                    *)
(***************************************************************************)
EXTENDS BuildClaims, TLC

CONSTANTS i1, i2, r1, r2, k1, k2, rev

OneKey == [r \in Run |-> k1]

TwoKeys == (r1 :> k1) @@ (r2 :> k2)

\* All runs build one revision; r1 was created first.
OneRevision == [r \in Run |-> rev]

NoRevisions == [r \in Run |-> NoRevision]

InOrder == [r \in Run |-> IF r = r1 THEN 1 ELSE 2]

Everywhere == Instance \X Run

\* r1 may be claimed by both instances, r2 by the first alone.
OneMoves == {<<i1, r1>>, <<i2, r1>>, <<i1, r2>>}

\* Each run has an instance of its own.
Apart == {<<i1, r1>>, <<i2, r2>>}
=============================================================================
