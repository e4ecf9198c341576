------------------------ MODULE MCDelegatedCredential ------------------------
(***************************************************************************)
(* Instances of DelegatedCredential for model checking.                    *)
(***************************************************************************)
EXTENDS DelegatedCredential, TLC

CredentialSymmetry ==
    Permutations(Accounts) \cup Permutations(Refreshers) \cup Permutations(Admins)
=============================================================================
