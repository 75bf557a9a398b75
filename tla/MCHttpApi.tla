----------------------------- MODULE MCHttpApi -----------------------------
(* Small instances of HttpApi for TLC. *)
EXTENDS HttpApi, Integers, FiniteSets, TLC

MCInitialUsers == {list \in SUBSET Entry : Cardinality(list) <= 1}

Symmetry == Permutations(Names) \cup Permutations(UUIDs) \cup Permutations(Handlers)
=============================================================================
