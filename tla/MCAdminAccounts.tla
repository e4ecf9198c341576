--------------------------- MODULE MCAdminAccounts ---------------------------
(***************************************************************************)
(* Instances of AdminAccounts for model checking.                          *)
(***************************************************************************)
EXTENDS AdminAccounts, TLC

AccountsSymmetry ==
    Permutations(Users) \cup Permutations(Sessions) \cup Permutations(Handlers)
=============================================================================
