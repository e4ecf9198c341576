--------------------------- MODULE MCInstanceStart ---------------------------
(***************************************************************************)
(* Instances of InstanceStart for model checking.                          *)
(***************************************************************************)
EXTENDS InstanceStart, TLC
=============================================================================
