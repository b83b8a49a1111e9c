----------------------------- MODULE FencedLock -----------------------------
(***************************************************************************)
(* What a lock with fencing tokens promises when holds may end without     *)
(* their holder's knowledge: every hold replaces the one before it and has *)
(* the next token, and a step gets a token only with the hold that has it, *)
(* and keeps it or loses it.  Whoever guards a resource by refusing lower  *)
(* tokens than the highest it saw then never takes a write of an older     *)
(* hold after a write of a newer one.  The fleet lock (LockSteps) is shown *)
(* to implement it.                                                        *)
(***************************************************************************)
EXTENDS Naturals

CONSTANTS
    Run,
    Step,
    RunOf    \* the run of each step

VARIABLES
    last,    \* the last token
    holds,   \* the hold, if there is one: its run and its token
    tokens   \* the token that each step has, or 0

vars == <<last, holds, tokens>>

Init ==
    /\ last = 0
    /\ holds = {}
    /\ tokens = [s \in Step |-> 0]

\* Run r gets the lock, from no one or from a holder whose hold ended.
Grant(r) ==
    /\ last' = last + 1
    /\ holds' = {[run |-> r, token |-> last + 1]}
    /\ \E S \in SUBSET {s \in Step : RunOf[s] = r} :
          tokens' = [s \in Step |-> IF s \in S THEN last + 1 ELSE tokens[s]]

\* A hold ends, steps lose their tokens.
End ==
    /\ last' = last
    /\ holds' \subseteq holds
    /\ \E S \in SUBSET Step : tokens' = [s \in Step |-> IF s \in S THEN 0 ELSE tokens[s]]

Next == (\E r \in Run : Grant(r)) \/ End

Spec == Init /\ [][Next]_vars
=============================================================================
