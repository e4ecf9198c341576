--------------------------- MODULE MCWebhookAbuse ---------------------------
(***************************************************************************)
(* Instances of WebhookAbuse for model checking.                           *)
(***************************************************************************)
EXTENDS WebhookAbuse, TLC

HandlerSymmetry == Permutations(Handlers)
=============================================================================
