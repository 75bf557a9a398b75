-------------------------- MODULE MCRelayInstaller --------------------------
(* A small instance of RelayInstaller for TLC. *)
EXTENDS RelayInstaller, TLC

Symmetry == Permutations(Settings)
=============================================================================
