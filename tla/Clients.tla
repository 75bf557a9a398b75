------------------------------ MODULE Clients ------------------------------
(***************************************************************************)
(* The client list of one VLESS inbound of config.json, and the helpers of *)
(* store.go that read and rewrite it.                                      *)
(*                                                                         *)
(* A list is a set of entries.  Its order is never observed (List sorts,   *)
(* Xray keys users by email) and the `flow` field never decides anything,  *)
(* so both are left out.  An inbound's list can in principle repeat a name *)
(* or an id; WellFormed says when it does not.                             *)
(***************************************************************************)
CONSTANTS Names,    \* user names, the "email" of a client
          UUIDs     \* the ids randomUUID can draw

Entry == [name : Names, uuid : UUIDs]

NamesOf(list) == {e.name : e \in list}
IdsOf(list)   == {e.uuid : e \in list}
Without(list, names) == {e \in list : e.name \notin names}

(* decodeUserRecords accepts a list only when names and ids are unique. *)
WellFormed(list) ==
    \A d, e \in list : d.name = e.name \/ d.uuid = e.uuid => d = e

(* Users for some names with ids drawn from ids: one user a name, all ids  *)
(* different, as randomUUID makes them.                                    *)
NewUsers(names, ids) ==
    {{[name |-> n, uuid |-> id[n]] : n \in names} :
        id \in {f \in [names -> ids] : \A m, n \in names : f[m] = f[n] => m = n}}

(* addUsersToList: a name the list already has keeps the entry it has. *)
AddUsersToList(list, added) ==
    list \cup {e \in added : e.name \notin NamesOf(list)}

(* removeUsersFromList: every entry under one of the names goes. *)
RemoveUsersFromList(list, names) == Without(list, names)

(* rotateUserInList: replaces the id under the name, and adds the user to  *)
(* a list that lacks it.                                                   *)
RotateUserInList(list, name, id) ==
    Without(list, {name}) \cup {[name |-> name, uuid |-> id]}

(* sameUserSet compares lengths, then looks every target name up: with     *)
(* distinct target names that is equality of the two sets of entries.      *)
SameUserSet(list, target) == list = target
=============================================================================
