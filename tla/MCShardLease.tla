---------------------------- MODULE MCShardLease ----------------------------
(***************************************************************************)
(* ShardLease with two replicas.  ShardShutdown has the times of the code  *)
(* in units of five seconds, rounded down; ShardExclusive has the smallest *)
(* times in which every wait runs out before the lease does.               *)
(***************************************************************************)
EXTENDS ShardLease, TLC

CONSTANTS r1, r2

\* Sound where Calms is FALSE: only the calm times tell the owner apart.
Alike == Permutations(Replica)
=============================================================================
