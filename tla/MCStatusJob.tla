----------------------------- MODULE MCStatusJob -----------------------------
(***************************************************************************)
(* Instances of StatusJob for model checking.                              *)
(***************************************************************************)
EXTENDS StatusJob, TLC
=============================================================================
