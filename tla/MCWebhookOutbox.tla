--------------------------- MODULE MCWebhookOutbox ---------------------------
(***************************************************************************)
(* Instances of WebhookOutbox for TLC.                                     *)
(***************************************************************************)
EXTENDS WebhookOutbox, TLC

CONSTANTS r1, d1, d2

OneRun == {r1}
TwoDispatchers == {d1, d2}
=============================================================================
