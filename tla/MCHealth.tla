------------------------------ MODULE MCHealth ------------------------------
(* A small instance of Health for TLC. *)
EXTENDS Health, TLC

Symmetry == Permutations(UUIDs)
=============================================================================
