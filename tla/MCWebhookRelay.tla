--------------------------- MODULE MCWebhookRelay ---------------------------
(***************************************************************************)
(* Instances of WebhookRelay for model checking.                           *)
(***************************************************************************)
EXTENDS WebhookRelay, TLC

RequestSymmetry == Permutations(Webhooks)
=============================================================================
