----------------------------- MODULE MCOpenData -----------------------------
(***************************************************************************)
(* Instances of OpenData for TLC.                                          *)
(***************************************************************************)
EXTENDS OpenData, TLC

Symmetry == Permutations(Job)
=============================================================================
