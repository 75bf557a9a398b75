---------------------------- MODULE MCClientLists ----------------------------
(* A small instance of ClientLists for TLC. *)
EXTENDS ClientLists

(* The mirror that is looked for first is not in the document. *)
MCMirrors == <<"ws", "grpc">>

(* Lists as the program or a person may leave them, well-formed ones       *)
(* included, the mirror in step with the primary or not.                   *)
MCEntries ==
    [email : Names, id : UUIDs, flow : {FALSE}]
        \cup {Junk, [email |-> Blank, id |-> CHOOSE id \in UUIDs : TRUE, flow |-> FALSE]}
MCDocuments ==
    {[t \in Inbounds |-> [readable |-> t = Primary \/ r, clients |-> IF t = Primary THEN p ELSE m]] :
        p \in BoundedSeq(MCEntries, 2), m \in BoundedSeq(MCEntries, 2), r \in BOOLEAN}
=============================================================================
