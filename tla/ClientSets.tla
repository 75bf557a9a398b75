------------------------------ MODULE ClientSets ------------------------------
(***************************************************************************)
(* What the other modules take the client lists of config.json for: a set  *)
(* of users an inbound, changed by the operators of Clients.  ClientLists  *)
(* implements it with the lists themselves.  Of lists that are no such     *)
(* sets, because a person has spoilt them, it promises nothing.            *)
(***************************************************************************)
EXTENDS Clients

CONSTANTS Inbounds, Primary

VARIABLES file,
          sound    \* every list is a set of users

vars == <<file, sound>>

Fresh == UUIDs \ UNION {IdsOf(file[t]) : t \in Inbounds}

Init == sound => \A t \in Inbounds : file[t] \subseteq Entry /\ WellFormed(file[t])

AddBulk ==
    \E names \in SUBSET (Names \ NamesOf(file[Primary])) : \E added \in NewUsers(names, Fresh) :
        file' = [t \in Inbounds |-> AddUsersToList(file[t], added)]

Delete ==
    \E name \in NamesOf(file[Primary]) :
        file' = [t \in Inbounds |-> RemoveUsersFromList(file[t], {name})]

Rotate ==
    \E name \in NamesOf(file[Primary]), id \in Fresh :
        file' = [t \in Inbounds |-> RotateUserInList(file[t], name, id)]

DeleteAll == file' = [t \in Inbounds |-> {}]

ReconcileMirror ==
    \E t \in Inbounds \ {Primary} :
        /\ ~SameUserSet(file[t], file[Primary])
        /\ file' = [file EXCEPT ![t] = AddUsersToList({}, file[Primary])]

Operation == AddBulk \/ Delete \/ Rotate \/ DeleteAll \/ ReconcileMirror

Next == sound => Operation /\ sound'

Spec == Init /\ [][Next]_vars
===============================================================================
