------------------------------ MODULE MCIngest ------------------------------
(***************************************************************************)
(* Instances of Ingest for TLC.                                            *)
(***************************************************************************)
EXTENDS Ingest, TLC

Symmetry == Permutations(Id) \union Permutations(Run) \union Permutations(Value)
=============================================================================
