---------------------------- MODULE MCEventPath ----------------------------
(***************************************************************************)
(* Model values for EventPath: the builds r1, r2 and the requests h1, h2.  *)
(***************************************************************************)
EXTENDS EventPath

CONSTANTS r1, r2, h1, h2
=============================================================================
