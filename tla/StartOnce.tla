----------------------------- MODULE StartOnce ------------------------------
(***************************************************************************)
(* What the build claims promise, without cells, claims, numbers, fences   *)
(* or messages: an intent is permitted once, to one runner, and that       *)
(* runner starts it at most once.  BuildClaims is shown to implement it.   *)
(***************************************************************************)
CONSTANTS
    Intent,
    Runner,  \* a run on an instance
    Nobody

VARIABLES
    permit,  \* who may start each intent
    started  \* the starts, each with its intent and its runner

Init ==
    /\ permit = [k \in Intent |-> Nobody]
    /\ started = {}

\* The permit is given once and for good.
Permit(k, p) ==
    /\ permit[k] = Nobody
    /\ permit' = [permit EXCEPT ![k] = p]
    /\ UNCHANGED started

\* The one start of an intent, by the runner with its permit.
Start(k) ==
    /\ permit[k] # Nobody
    /\ \A b \in started : b.intent # k
    /\ \E b \in started' \ started :
          /\ b.intent = k
          /\ b.by = permit[k]
          /\ started' = started \cup {b}
    /\ UNCHANGED permit

Next == \E k \in Intent : Start(k) \/ \E p \in Runner : Permit(k, p)

Spec == Init /\ [][Next]_<<permit, started>>
=============================================================================
