--------------------------- MODULE MCConfigStore ---------------------------
(* Small instances of ConfigStore and UserRegistry for TLC. *)
EXTENDS ConfigStoreInv, TLC

(* At most one user to start with: every other list is reached by adding. *)
MCInitialUsers == {list \in SUBSET Entry : Cardinality(list) <= 1}

OneMirror == <<"ws-in">>

Symmetry == Permutations(Names) \cup Permutations(UUIDs) \cup Permutations(Handlers)

=============================================================================
