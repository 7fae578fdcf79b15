------------------------------- MODULE MCStorage -------------------------------
(* Instances of Storage for TLC. *)
EXTENDS Storage, TLC

Symmetry == Permutations(Calls)
================================================================================
