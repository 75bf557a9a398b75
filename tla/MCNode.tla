------------------------------- MODULE MCNode -------------------------------
(* Small instances of Node for TLC. *)
EXTENDS NodeInv, TLC

MCInitialUsers == {{}}

OneMirror == <<"ws-in">>

Symmetry == Permutations(Names) \cup Permutations(UUIDs) \cup Permutations(Handlers)

(* At most one user an inbound.  The mirror may have been copied, left     *)
(* empty, or have an old id or a user of its own, in the file and in the   *)
(* running process.                                                        *)
MCInitialNodes ==
    LET lists == {list \in SUBSET Entry : Cardinality(list) <= 1}
        Pair(p, m) == [t \in Inbounds |-> IF t = Primary THEN p ELSE m]
    IN  {n \in {[file |-> Pair(p, f), live |-> Pair(p, l)] :
                   p \in lists, f \in lists, l \in lists} : Tidy(n.file)}

(* Xray has booted from the file as it is, mirror and all. *)
MCBootedNodes == {n \in MCInitialNodes : n.live = n.file}
=============================================================================
