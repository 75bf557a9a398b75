----------------------------- MODULE ClientLists -----------------------------
(***************************************************************************)
(* The client lists of config.json as they are: JSON arrays, in an order,  *)
(* with whatever a person has left in them: values that are no objects,    *)
(* clients without a name or an id, duplicates, a flow where none belongs; *)
(* in inbounds that may be no VLESS inbounds.  One action an operation of  *)
(* ConfigStore, down to the document it writes; how it is written and      *)
(* applied is in AtomicFile and ConfigStore.                               *)
(*                                                                         *)
(* Of the configured mirrors those in Inbounds are in the document.  A     *)
(* randomUUID is one the document does not have.                           *)
(***************************************************************************)
EXTENDS Integers, SequencesExt

CONSTANTS Names, UUIDs,
          Inbounds,   \* tags of the managed inbounds in the document
          Primary,
          Mirrors,    \* tags of ConfigStore.mirrors, configured order
          Documents,  \* what the program may find in the file
          Blank,      \* no name, or no id, once trimmed
          Junk        \* an entry that is no object

ASSUME ListsAssumption ==
    /\ Primary \in Inbounds
    /\ Inbounds \subseteq {Primary} \cup ToSet(Mirrors)
    /\ IsFiniteSet(Names)
    /\ Blank \notin Names \cup UUIDs

VARIABLES document,  \* the inbounds of config.json
          last       \* the last operation and its answer

vars == <<document, last>>

-----------------------------------------------------------------------------
(* readable: findUserList accepts the inbound, or finds fault with it.     *)
Client  == [email : Names \cup {Blank}, id : UUIDs \cup {Blank}, flow : BOOLEAN]
Entries == Client \cup {Junk}
Inbound == [readable : BOOLEAN, clients : Seq(Entries)]

ASSUME DocumentsAssumption == Documents \subseteq [Inbounds -> Inbound] /\ Junk \notin Client

IsObject(x) == x # Junk
Emails(list) == {list[i].email : i \in {j \in DOMAIN list : IsObject(list[j])}}
Ids(list) == {list[i].id : i \in {j \in DOMAIN list : IsObject(list[j])}}
Is(x, name) == IsObject(x) /\ x.email = name

List(t) == document[t].clients
Fresh == UUIDs \ UNION {Ids(List(t)) : t \in Inbounds}

(* decodeUserRecords gives its records in the order of the list. *)
Decodable(list) ==
    /\ Junk \notin ToSet(list)
    /\ Blank \notin Emails(list) \cup Ids(list)
    /\ \A i, j \in DOMAIN list :
          list[i].email = list[j].email \/ list[i].id = list[j].id => i = j

Kinds == {"none", "addBulk", "delete", "rotate", "deleteAll", "reconcileMirror"}

ListsTypeOK ==
    /\ document \in [Inbounds -> Inbound]
    /\ last \in [kind : Kinds, names : SUBSET Names, tag : Inbounds,
                 code : {"ok", "notFound", "error"}]

Init ==
    /\ document \in Documents
    /\ last = [kind |-> "none", names |-> {}, tag |-> Primary, code |-> "ok"]

-----------------------------------------------------------------------------
(* The helpers on lists. *)

(* Mutant: the two arguments are swapped. *)
UserSwapped(name, id) == [email |-> id, id |-> name, flow |-> FALSE]

User(name, id) == [email |-> name, id |-> id, flow |-> FALSE]

(* The elements of a list that are in S, in their order: SelectSeq, which  *)
(* the proofs cannot unfold.                                               *)
Keep(list, S) ==
    LET kept[i \in 0..Len(list)] ==
            IF i = 0 THEN <<>>
            ELSE IF list[i] \in S THEN Append(kept[i - 1], list[i])
            ELSE kept[i - 1]
    IN  kept[Len(list)]

(* The entries that concern none of these names. *)
Others(names) == {x \in Entries : ~IsObject(x) \/ x.email \notin names}

(* Mutant: the names the list has are not looked at. *)
AddUsersToListAgain(list, added) == list \o added

(* A name the list has is passed over. *)
AddUsersToList(list, added) ==
    list \o Keep(added, {r \in Client : r.email \notin Emails(list)})

(* A value that is no object stays. *)
RemoveUsersFromList(list, name) == Keep(list, Others({name}))

(* Mutant: a rotation is a removal and an addition. *)
SetIdAppended(list, name, id) ==
    Append(Keep(list, Others({name})), User(name, id))

(* The first client of that name gets the id, in its place. *)
SetId(list, name, id) ==
    [list EXCEPT ![SelectInSeq(list, LAMBDA x : Is(x, name))].id = id]

(* Mutant: a name the list lacks is let pass. *)
RotateUserInListOnly(list, name, id) ==
    IF name \in Emails(list) THEN SetId(list, name, id) ELSE list

RotateUserInList(list, name, id) ==
    IF name \in Emails(list) THEN SetId(list, name, id) ELSE Append(list, User(name, id))

(* Mutant: the ids are not compared. *)
SameUserSetByName(list, target) ==
    /\ Len(list) = Len(target)
    /\ Emails(list) = Emails(target)

(* The map of names to ids keeps the last of several clients of one name. *)
SameUserSet(list, target) ==
    /\ Len(list) = Len(target)
    /\ Junk \notin ToSet(list)
    /\ \A r \in ToSet(target) :
          /\ r.email \in Emails(list)
          /\ list[SelectLastInSeq(list, LAMBDA x : Is(x, r.email))].id = r.id

(* Mutant: the primary's entries are taken as they are. *)
StrippedNot(list) == list

(* addUsersToList makes new clients of the records, without a flow. *)
Stripped(list) == [i \in DOMAIN list |-> [list[i] EXCEPT !.flow = FALSE]]

-----------------------------------------------------------------------------
(* The operations. *)

Answer(kind, names, tag, code) ==
    last' = [kind |-> kind, names |-> names, tag |-> tag, code |-> code]

Refuse(kind, names, code) == Answer(kind, names, Primary, code) /\ UNCHANGED document

(* Mutant: the first absent mirror ends the loop. *)
MirroredUntilAbsent ==
    {t \in Inbounds \ {Primary} :
        \A i \in 1..SelectInSeq(Mirrors, LAMBDA m : m = t) : Mirrors[i] \in Inbounds}

(* mirrorUsers passes over a mirror that the document does not have. *)
Mirrored == Inbounds \ {Primary}

(* The new primary list is committed and the mirrors are mutated. *)
MirrorUsers(list, mirrors) ==
    document' = [t \in Inbounds |->
        IF t = Primary THEN [document[t] EXCEPT !.clients = list]
        ELSE IF t \in Mirrored THEN [document[t] EXCEPT !.clients = mirrors[t]]
        ELSE document[t]]

MirrorsReadable == \A t \in Inbounds \ {Primary} : document[t].readable

(* Names in the order of the request, which holds none twice. *)
AddBulk(names) ==
    LET list == List(Primary)
        fresh == Keep(names, Names \ Emails(list))
        asked == ToSet(names)
    IN  IF ~document[Primary].readable \/ ~Decodable(list)
            THEN Refuse("addBulk", asked, "error")
        ELSE IF fresh = <<>> THEN Refuse("addBulk", asked, "ok")
        ELSE IF ~MirrorsReadable THEN Refuse("addBulk", asked, "error")
        ELSE \E id \in Injection(DOMAIN fresh, Fresh) :
                LET added == [i \in DOMAIN fresh |-> User(fresh[i], id[i])]
                IN  /\ MirrorUsers(list \o [i \in DOMAIN added |-> [added[i] EXCEPT !.flow = TRUE]],
                                   [t \in Mirrored |-> AddUsersToList(List(t), added)])
                    /\ Answer("addBulk", asked, Primary, "ok")

(* Delete goes through the whole list and takes every client of that name. *)
Delete(name) ==
    LET list == List(Primary)
    IN  IF ~document[Primary].readable \/ Junk \in ToSet(list)
            THEN Refuse("delete", {name}, "error")
        ELSE IF name \notin Emails(list) THEN Refuse("delete", {name}, "notFound")
        ELSE IF ~MirrorsReadable THEN Refuse("delete", {name}, "error")
        ELSE /\ MirrorUsers(RemoveUsersFromList(list, name),
                            [t \in Mirrored |-> RemoveUsersFromList(List(t), name)])
             /\ Answer("delete", {name}, Primary, "ok")

(* Rotate goes as far as the first client of that name. *)
Rotate(name) ==
    LET list == List(Primary)
        at == SelectInSeq(list, LAMBDA x : Is(x, name))
        seen == IF at = 0 THEN list ELSE SubSeq(list, 1, at)
    IN  IF ~document[Primary].readable \/ Junk \in ToSet(seen)
            THEN Refuse("rotate", {name}, "error")
        ELSE IF at = 0 THEN Refuse("rotate", {name}, "notFound")
        ELSE IF ~MirrorsReadable THEN Refuse("rotate", {name}, "error")
        ELSE \E id \in Fresh :
                /\ MirrorUsers(SetId(list, name, id),
                               [t \in Mirrored |-> RotateUserInList(List(t), name, id)])
                /\ Answer("rotate", {name}, Primary, "ok")

(* DeleteAll asks for no order in the list and leaves none. *)
DeleteAll ==
    IF ~document[Primary].readable THEN Refuse("deleteAll", {}, "error")
    ELSE IF List(Primary) = <<>> THEN Refuse("deleteAll", {}, "ok")
    ELSE IF ~MirrorsReadable THEN Refuse("deleteAll", {}, "error")
    ELSE MirrorUsers(<<>>, [t \in Mirrored |-> <<>>]) /\ Answer("deleteAll", {}, Primary, "ok")

ReconcileMirror(t) ==
    /\ t # Primary
    /\ LET sound == document[Primary].readable /\ document[t].readable /\ Decodable(List(Primary))
           same == SameUserSet(List(t), List(Primary))
       IN  /\ Answer("reconcileMirror", {}, t, IF sound THEN "ok" ELSE "error")
           /\ \/ sound /\ ~same
                 /\ document' = [document EXCEPT ![t].clients =
                                    AddUsersToList(<<>>, Stripped(List(Primary)))]
              \/ (sound => same) /\ UNCHANGED document

Next ==
    \/ \E S \in SUBSET Names \ {{}} : \E names \in SetToSeqs(S) : AddBulk(names)
    \/ \E name \in Names : Delete(name) \/ Rotate(name)
    \/ DeleteAll
    \/ \E t \in Inbounds : ReconcileMirror(t)

Spec == Init /\ [][Next]_vars

-----------------------------------------------------------------------------
(* Properties. *)

(* On lists that decodeUserRecords accepts, whatever their order and flow, *)
(* the operations do to the sets of users what Clients says, and keep them *)
(* such lists; so the models that work on sets lose nothing (store.go's    *)
(* list helpers, sameUserSet, mirrorUsers).                                *)
Users(list) == {[name |-> list[i].email, uuid |-> list[i].id] :
                   i \in {j \in DOMAIN list : IsObject(list[j])}}
Sound == \A t \in Inbounds : document[t].readable /\ Decodable(List(t))
Sets == INSTANCE ClientSets WITH
    file <- [t \in Inbounds |-> Users(List(t))], sound <- Sound
ListsAreSets == Sets!Spec

(* An operation on some names leaves every other entry of every list       *)
(* alone: the values that are no objects, the nameless, the other users    *)
(* with their duplicates, in their order; and a rotation keeps the user's  *)
(* own place (store.go:406-407; removeUsersFromList, rotateUserInList).    *)
Places(list) == [i \in DOMAIN list |-> IF IsObject(list[i]) THEN list[i].email ELSE Junk]

OthersUntouched ==
    [][last'.kind \in {"addBulk", "delete", "rotate"} =>
        \A t \in Inbounds :
            /\ Keep(List(t)', Others(last'.names)) = Keep(List(t), Others(last'.names))
            /\ last'.kind = "rotate" /\ last'.names \subseteq Emails(List(t)) =>
                  Places(List(t)') = Places(List(t))]_vars

(* No operation spoils a list: what decodeUserRecords accepts it accepts   *)
(* afterwards, so that no mutation locks out the next one or the next      *)
(* start of vless-api (AddBulk, Rotate, reconcileMirror).                  *)
StaysDecodable ==
    [][\A t \in Inbounds : Decodable(List(t)) => Decodable(List(t)')]_vars

(* A flow stays with the primary: a mirror that came without one has none, *)
(* though it gets its clients from the primary (addUsersToList,            *)
(* rotateUserInList, reconcileMirror).                                     *)
FlowOf(list) == {list[i].flow : i \in {j \in DOMAIN list : IsObject(list[j])}}
FlowStaysHome ==
    [][\A t \in Inbounds \ {Primary} :
          TRUE \notin FlowOf(List(t)) => TRUE \notin FlowOf(List(t)')]_vars

(* A deletion that is answered with success has taken the name, with all   *)
(* its duplicates, out of every list of the document, however spoilt the   *)
(* mirrors are; and a rotation has put the name on all (Delete, Rotate,    *)
(* DeleteAll, mirrorUsers).                                                *)
NoneIsLeft ==
    [][last'.code = "ok" =>
        \A t \in Inbounds :
            /\ last'.kind = "delete" => last'.names \cap Emails(List(t)') = {}
            /\ last'.kind = "rotate" => last'.names \subseteq Emails(List(t)')
            /\ last'.kind = "deleteAll" /\ List(Primary) # <<>> => List(t)' = <<>>]_vars

(* A reconciled mirror has the clients of the primary list, each once and  *)
(* no more, whatever it held before (sameUserSet, reconcileMirror).        *)
ReconciledIsPrimary ==
    last.kind = "reconcileMirror" /\ last.code = "ok" =>
        /\ Decodable(List(last.tag))
        /\ Users(List(last.tag)) = Users(List(Primary))
=============================================================================
