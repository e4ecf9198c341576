----------------------------- MODULE MCBotAccess -----------------------------
(***************************************************************************)
(* Instances of BotAccess for model checking.                              *)
(***************************************************************************)
EXTENDS BotAccess, TLC

AccessSymmetry == Permutations(Commands)
=============================================================================
