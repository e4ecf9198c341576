------------------------- MODULE MCSettingsOverrides -------------------------
(***************************************************************************)
(* Instances of SettingsOverrides for model checking.                      *)
(***************************************************************************)
EXTENDS SettingsOverrides, TLC

CONSTANTS o1, o2

BothOrigins == {o1, o2}
FirstOrigin == {o1}

SettingsSymmetry == Permutations(Handlers)
=============================================================================
