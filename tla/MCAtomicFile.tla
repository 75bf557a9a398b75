---------------------------- MODULE MCAtomicFile ----------------------------
(* A small instance of AtomicFile for TLC. *)
EXTENDS AtomicFile, TLC

(* The documents that Xray accepts are alike. *)
Symmetry == Permutations(Accepted)
=============================================================================
