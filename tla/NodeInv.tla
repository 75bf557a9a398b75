------------------------------- MODULE NodeInv -------------------------------
(***************************************************************************)
(* The inductive invariant behind the properties of Node.  A reconciliation*)
(* that fails leaves mirrors off parity and vless-api serves all the same, *)
(* so this one, unlike that of ConfigStore, relies on the primary inbound. *)
(***************************************************************************)
EXTENDS Node, ConfigStoreInv

(* The mutation under way: the delta describes what becomes of the primary *)
(* list, and no other list gets more than that.                            *)
Consistent(w) ==
    /\ WellFormed(w.original[Primary]) /\ WellFormed(w.updated[Primary])
    /\ w.updated[Primary] = Kept(w) \cup w.added
    /\ w.removed = {} \/ NamesOf(w.added) \subseteq w.removed
    /\ IdsOf(w.added) \subseteq issued \ revoked
    /\ Tidy(w.original) /\ Tidy(w.updated)
    /\ \A t \in Inbounds :
          /\ IdsOf(w.original[t]) \subseteq issued \ revoked
          /\ w.updated[t] \subseteq Without(w.original[t], w.removed) \cup w.added

MutationInv ==
    \A h \in Handlers : lock = h =>
        /\ Consistent(work[h])
        /\ pc[h] = "write" => Untouched(work[h])
        /\ Remaining(work[h])

(* A list that decodeUserRecords rejects never gets beyond LoadUsers. *)
ListsInv ==
    /\ Tidy(file)
    /\ \A t \in Inbounds : IdsOf(file[t]) \subseteq issued \ revoked
    /\ revoked \subseteq issued
    /\ main \notin {"down", "probe", "load"} => WellFormed(file[Primary])

(* Where the primary inbound of Xray is in the middle of a mutation, and   *)
(* what the calls made to it are good for.                                 *)
PrimaryMidway(w) ==
    /\ Kept(w) \subseteq live[Primary]
    /\ \/ live[Primary] \subseteq w.original[Primary]
       \/ live[Primary] \subseteq w.updated[Primary]

PrimaryDone(w) ==
    \A s \in Present : TagOf(s) = Primary =>
        /\ s \notin w.toRemove => live[Primary] \subseteq w.updated[Primary]
        /\ s \notin w.toAdd => w.added \subseteq live[Primary]

PrimaryInv ==
    /\ xray # "up" => live = NoUsers
    /\ xray = "up" /\ ~adrift /\ ~cut =>
          /\ lock = Free => live[Primary] = file[Primary]
          /\ \A h \in Handlers : lock = h =>
                /\ pc[h] = "write" => live[Primary] = file[Primary]
                /\ PrimaryMidway(work[h])
                /\ pc[h] = "apply" => PrimaryDone(work[h])

(* How far the reconciliation is: the mirrors before this one are done,    *)
(* and this one is at parity in the file once its turn has come.  An Xray  *)
(* that starts anew meanwhile reads lists that are at parity.              *)
Named(t) == liveAPI /\ xray = "up" => NamesOf(file[Primary]) \subseteq NamesOf(live[t])

ReconciledInv ==
    main \in {"reconcile", "query", "register"} =>
        /\ \A i \in 1..(mirror - 1) : TagOf(i) \in Inbounds =>
              file[TagOf(i)] = file[Primary] /\ (TagOf(i) # Primary => Named(TagOf(i)))
        /\ main # "reconcile" =>
              /\ mirror <= Len(Mirrors)
              /\ TagOf(mirror) \in Inbounds
              /\ file[TagOf(mirror)] = file[Primary]
        /\ main = "register" =>
              /\ missing \subseteq file[Primary]
              /\ xray = "up" =>
                    \A e \in file[Primary] : e \in missing \/ e.name \in NamesOf(live[TagOf(mirror)])

(* Over deaths and startups: the mutex excludes, the mutation under way is *)
(* consistent, no list has a revoked id, the primary inbound of Xray is    *)
(* where the mutation has brought it, and reconciliation has done what it  *)
(* has passed (persistAndApply, ReconcileMirrorInbounds).                  *)
NInv == CoreInv /\ MutationInv /\ ListsInv /\ PrimaryInv /\ ReconciledInv
=============================================================================
