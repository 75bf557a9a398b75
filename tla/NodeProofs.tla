----------------------------- MODULE NodeProofs -----------------------------
(***************************************************************************)
(* What holds of a node over all the lives of vless-api, for every set of  *)
(* names, ids, handlers and inbounds, every list of mirrors and every node *)
(* it is installed on.  The steps taken while it serves are those of       *)
(* ConfigStore, so its lemmas are used here again.  The mirrors are those  *)
(* of Settings, whose theorems come last.                                  *)
(***************************************************************************)
EXTENDS NodeInv, ConfigStoreProofs, MCStartup, SequenceTheorems

LEMMA MirrorsLength == Len(Mirrors) \in Nat /\ 0 \in Present
<1>1. Len(Mirrors) \in Nat
  BY InboundsAssumption
<1>2. 0 \in Slots
  BY <1>1 DEF Slots
<1> QED
  BY <1>1, <1>2, InboundsAssumption DEF Present, TagOf

LEMMA MirrorTag ==
    ASSUME NEW i \in 1..Len(Mirrors)
    PROVE  TagOf(i) = Mirrors[i]
  BY MirrorsLength DEF TagOf

-----------------------------------------------------------------------------
(* Types. *)

LEMMA StartupTyped ==
    ASSUME NodeTypeOK, ReconciledInv, StartupStep
    PROVE  NodeTypeOK'
<1>1. UNCHANGED <<xray, adrift, lock, pc, op, work, reply, issued, revoked, cut>>
  BY DEF StartupStep, Startup, storeVars, Launch, Probe, LoadUsers, SkipAbsentMirror,
         ReconcileFile, QueryLiveMirror, RegisterMissing, ReconcileReturns, ReconcileFails
<1>2. /\ TypeOK /\ Len(Mirrors) \in Nat /\ file[Primary] \subseteq Entry
      /\ missing \in SUBSET Entry
  BY MirrorsLength, InboundsAssumption DEF NodeTypeOK, TypeOK, XrayTypeOK, Roster
<1> USE DEF NodeTypeOK, TypeOK, XrayTypeOK, NextMirror
<1>3. CASE Launch \/ LoadUsers
  BY <1>1, <1>2, <1>3 DEF Launch, LoadUsers
<1>8. CASE Probe
  <2>1. liveAPI' \in BOOLEAN
    BY <1>8 DEF Probe
  <2> QED
    BY <1>1, <1>2, <1>8, <2>1 DEF Probe
<1>4. CASE SkipAbsentMirror \/ ReconcileReturns \/ ReconcileFails
  BY <1>1, <1>2, <1>4 DEF SkipAbsentMirror, ReconcileReturns, ReconcileFails
<1>5. CASE ReconcileFile
  BY <1>1, <1>2, <1>5 DEF ReconcileFile, AddUsersToList, NamesOf, Roster
<1>6. CASE QueryLiveMirror
  <2>1. missing' \subseteq Entry
    BY <1>2, <1>6 DEF QueryLiveMirror
  <2>2. mirror \in 1..Len(Mirrors)
    BY <1>2, <1>6 DEF QueryLiveMirror, ReconciledInv
  <2> QED
    BY <1>1, <1>2, <1>6, <2>1, <2>2 DEF QueryLiveMirror
<1>7. CASE RegisterMissing
  <2>1. live' \in Roster
    BY <1>2, <1>7, CommandsTyped DEF RegisterMissing
  <2>2. mirror \in 1..Len(Mirrors)
    BY <1>2, <1>7 DEF RegisterMissing, ReconciledInv
  <2> QED
    BY <1>1, <1>2, <1>7, <2>1, <2>2 DEF RegisterMissing
<1> QED
  BY <1>3, <1>4, <1>5, <1>6, <1>7, <1>8 DEF StartupStep

-----------------------------------------------------------------------------
(* Reconciliation. *)

(* The mirror whose turn it is, and what has been done for it. *)
LEMMA TurnFacts ==
    ASSUME NodeTypeOK, ReconciledInv, main \in {"query", "register"}
    PROVE  /\ mirror \in 1..Len(Mirrors)
           /\ TagOf(mirror) \in Inbounds
           /\ file[TagOf(mirror)] = file[Primary]
  BY MirrorsLength DEF NodeTypeOK, ReconciledInv

(* A mirror that the file has and whose users Xray knows by name is done.  *)
LEMMA MirrorDone ==
    ASSUME NodeTypeOK, ReconciledInv, main \in {"reconcile", "query", "register"},
           UNCHANGED <<xray, liveAPI>>, NextMirror,
           \A t \in Inbounds : file[t] = file[Primary] => file'[t] = file'[Primary],
           \A t \in Inbounds : Named(t) => Named(t)',
           mirror \in 1..Len(Mirrors),
           \A t \in Inbounds : t = TagOf(mirror) =>
               file'[t] = file'[Primary] /\ (t # Primary => Named(t)')
    PROVE  ReconciledInv'
<1>1. mirror' = mirror + 1 /\ main' = "reconcile" /\ mirror \in Nat
  BY MirrorsLength DEF NextMirror
<1>2. ASSUME NEW i \in 1..(mirror' - 1), TagOf(i) \in Inbounds
      PROVE  /\ file'[TagOf(i)] = file'[Primary]
             /\ TagOf(i) # Primary => Named(TagOf(i))'
  <2>1. i \in 1..(mirror - 1) \/ i = mirror
    BY <1>1, <1>2
  <2> QED
    BY <1>2, <2>1 DEF ReconciledInv
<1> QED
  BY <1>1, <1>2 DEF ReconciledInv, TagOf

LEMMA StartupReconciled ==
    ASSUME NodeTypeOK, ReconciledInv, StartupStep
    PROVE  ReconciledInv'
<1>1. CASE Launch \/ Probe \/ ReconcileReturns \/ ReconcileFails
  BY <1>1 DEF Launch, Probe, ReconcileReturns, ReconcileFails, ReconciledInv
<1>2. CASE LoadUsers
  BY <1>2 DEF LoadUsers, ReconciledInv
<1>3. CASE SkipAbsentMirror
  <2>1. mirror \in 1..Len(Mirrors)
    BY <1>3, MirrorsLength DEF SkipAbsentMirror, NodeTypeOK
  <2> QED
    BY <1>3, <2>1, MirrorDone DEF SkipAbsentMirror, Startup, Named
<1>4. CASE ReconcileFile
  <2>0. PICK tag : tag = TagOf(mirror)
    OBVIOUS
  <2>1. /\ mirror \in 1..Len(Mirrors) /\ main = "reconcile" /\ tag \in Inbounds
        /\ UNCHANGED <<xray, live, liveAPI, missing>>
    BY <2>0, <1>4, MirrorsLength DEF ReconcileFile, NodeTypeOK, Startup
  <2>2. /\ file'[Primary] = file[Primary]
        /\ file'[tag] = file[Primary]
        /\ \A t \in Inbounds : t # tag => file'[t] = file[t]
    <3>1. AddUsersToList({}, file[Primary]) = file[Primary]
      BY DEF AddUsersToList, NamesOf
    <3>2. file \in Roster
      BY DEF NodeTypeOK, TypeOK, XrayTypeOK
    <3>3. CASE UNCHANGED file /\ file[tag] = file[Primary]
      BY <3>3
    <3>4. CASE file[tag] # file[Primary] /\ file' = [file EXCEPT ![tag] = file[Primary]]
      BY <2>1, <3>2, <3>4, InboundsAssumption DEF Roster
    <3> QED
      BY <2>0, <1>4, <3>1, <3>3, <3>4 DEF ReconcileFile, SameUserSet
  <2>3. \A t \in Inbounds : /\ file[t] = file[Primary] => file'[t] = file'[Primary]
                            /\ Named(t) => Named(t)'
    BY <2>0, <2>1, <2>2 DEF Named
  <2>4. CASE liveAPI /\ main' = "query" /\ UNCHANGED mirror
    <3>1. ASSUME NEW i \in 1..(mirror - 1), TagOf(i) \in Inbounds
          PROVE  /\ file'[TagOf(i)] = file'[Primary]
                 /\ TagOf(i) # Primary => Named(TagOf(i))'
      BY <2>0, <2>1, <2>3, <3>1 DEF ReconciledInv
    <3> QED
      BY <2>0, <2>1, <2>2, <2>4, <3>1 DEF ReconciledInv, TagOf
  <2>5. CASE ~liveAPI /\ NextMirror
    <3>1. Named(tag)'
      BY <2>0, <2>1, <2>5 DEF Named
    <3> QED
      BY <2>0, <2>1, <2>2, <2>3, <2>5, <3>1, MirrorDone
  <2> QED
    BY <2>0, <1>4, <2>4, <2>5 DEF ReconcileFile
<1>5. CASE QueryLiveMirror
  <2>0. PICK tag : tag = TagOf(mirror)
    OBVIOUS
  <2>1. /\ mirror \in 1..Len(Mirrors) /\ tag \in Inbounds /\ file[tag] = file[Primary]
    BY <2>0, <1>5, TurnFacts DEF QueryLiveMirror
  <2>2. /\ UNCHANGED <<file, xray, live, liveAPI>>
        /\ missing' = {e \in file[Primary] : e.name \notin NamesOf(live[tag])}
    BY <2>0, <1>5 DEF QueryLiveMirror, Startup, InboundUsers
  <2>3. CASE missing' = {} /\ NextMirror
    <3>1. Named(tag)'
      BY <2>0, <2>2, <2>3 DEF Named, NamesOf
    <3> QED
      BY <2>0, <1>5, <2>1, <2>2, <2>3, <3>1, MirrorDone DEF QueryLiveMirror, Named
  <2>4. CASE main' = "register" /\ UNCHANGED mirror
    BY <2>0, <1>5, <2>1, <2>2, <2>4 DEF QueryLiveMirror, ReconciledInv, Named
  <2> QED
    BY <2>0, <1>5, <2>3, <2>4 DEF QueryLiveMirror
<1>6. CASE RegisterMissing
  <2>0. PICK tag : tag = TagOf(mirror)
    OBVIOUS
  <2>1. /\ mirror \in 1..Len(Mirrors) /\ tag \in Inbounds /\ file[tag] = file[Primary]
        /\ main = "register"
        /\ UNCHANGED <<file, xray, liveAPI>>
    BY <2>0, <1>6, TurnFacts DEF RegisterMissing, Startup
  <2>2. CASE AddUsers(tag, missing) /\ NextMirror
    <3>1. /\ live'[tag] = live[tag] \cup missing
          /\ \A t \in Inbounds : live[t] \subseteq live'[t]
      BY <2>0, <2>1, <2>2 DEF AddUsers, NodeTypeOK, TypeOK, XrayTypeOK, Roster
    <3>2. \A e \in file[Primary] : e \in missing \/ e.name \in NamesOf(live[tag])
      BY <2>0, <2>1, <2>2 DEF ReconciledInv, AddUsers
    <3>3. Named(tag)'
      BY <2>0, <2>1, <3>1, <3>2 DEF Named, NamesOf
    <3>4. \A t \in Inbounds : Named(t) => Named(t)'
      BY <2>0, <2>1, <3>1 DEF Named, NamesOf
    <3> QED
      BY <2>0, <2>1, <2>2, <3>3, <3>4, MirrorDone
  <2>3. CASE main' = "serving"
    BY <2>0, <2>3 DEF ReconciledInv
  <2> QED
    BY <2>0, <1>6, <2>2, <2>3 DEF RegisterMissing
<1> QED
  BY <1>1, <1>2, <1>3, <1>4, <1>5, <1>6 DEF StartupStep

(* An Xray that boots while vless-api reconciles reads what is reconciled. *)
LEMMA XrayReconciled ==
    ASSUME NodeTypeOK, ReconciledInv, XrayMoves
    PROVE  ReconciledInv'
<1>1. UNCHANGED <<file, liveAPI, main, mirror, missing>>
  BY DEF XrayMoves, XrayBoots, XrayFails, nodeVars
<1>2. CASE xray' # "up"
  BY <1>1, <1>2 DEF ReconciledInv, Named, TagOf
<1>3. CASE live' = file
  <2>1. \A t \in Inbounds : file[t] = file[Primary] => Named(t)'
    BY <1>1, <1>3 DEF Named
  <2>2. main = "register" =>
           \A e \in file[Primary] : e.name \in NamesOf(live'[TagOf(mirror)])
    BY <1>3, TurnFacts DEF NamesOf
  <2> QED
    BY <1>1, <2>1, <2>2 DEF ReconciledInv, TagOf
<1> QED
  BY <1>2, <1>3 DEF XrayMoves, XrayBoots, XrayFails, Boots, BootFails, Dies

-----------------------------------------------------------------------------
(* The mutations, as far as the primary inbound goes. *)

(* A step of the store while vless-api serves. *)
Served == main = "serving" /\ UNCHANGED nodeVars

LEMMA ServedReconciled ==
    ASSUME Served
    PROVE  ReconciledInv'
  BY DEF Served, nodeVars, ReconciledInv

LEMMA NodeHolder ==
    ASSUME NInv, NEW h \in Handlers, pc[h] \in Mutating
    PROVE  /\ lock = h
           /\ Consistent(work[h])
           /\ Remaining(work[h])
           /\ pc[h] = "write" => Untouched(work[h])
           /\ file = FileOf(h)
           /\ \A g \in Handlers : g # h => lock # g
  BY DEF NInv, CoreInv, Mutex, MutationInv

LEMMA ConsistentFacts ==
    ASSUME NEW w, Consistent(w)
    PROVE  /\ Kept(w) \subseteq w.original[Primary]
           /\ Kept(w) \subseteq w.updated[Primary]
           /\ w.added \subseteq w.updated[Primary]
           /\ \A t \in Inbounds : IdsOf(w.updated[t]) \subseteq issued \ revoked
           /\ w.removed = {} => w.original[Primary] \subseteq w.updated[Primary]
           /\ \A e \in Kept(w) : e.name \notin w.removed
           /\ \A e \in w.original[Primary] : e.name \notin w.removed => e \in Kept(w)
<1>1. /\ w.updated[Primary] = Kept(w) \cup w.added
      /\ IdsOf(w.added) \subseteq issued \ revoked
      /\ \A t \in Inbounds :
            /\ IdsOf(w.original[t]) \subseteq issued \ revoked
            /\ w.updated[t] \subseteq Without(w.original[t], w.removed) \cup w.added
  BY DEF Consistent
<1>2. ASSUME NEW t \in Inbounds
      PROVE  IdsOf(w.updated[t]) \subseteq issued \ revoked
  BY <1>1 DEF IdsOf, Without
<1> QED
  BY <1>1, <1>2 DEF Kept, Without

(* A document whose ids are no revoked ones, and whose mirrors do not use  *)
(* an id of the primary for another name, stays so when users with new ids *)
(* are added and others removed.                                           *)
LEMMA TidyUpdate ==
    ASSUME NEW roster, NEW updated, NEW added,
           Tidy(roster), WellFormed(updated[Primary]), added \subseteq updated[Primary],
           \A t \in Inbounds : /\ updated[t] \subseteq roster[t] \cup added
                               /\ IdsOf(roster[t]) \cap IdsOf(added) = {}
    PROVE  Tidy(updated)
<1>0. Primary \in Inbounds
  BY InboundsAssumption
<1> SUFFICES ASSUME NEW t \in Inbounds, NEW d \in updated[t], NEW e \in updated[Primary],
                    d.uuid = e.uuid
             PROVE  d.name = e.name
  BY DEF Tidy
<1>1. CASE d \in added
  BY <1>1 DEF WellFormed
<1>2. CASE d \in roster[t] /\ e \in roster[Primary]
  BY <1>2 DEF Tidy
<1>3. CASE d \in roster[t] /\ e \in added
  BY <1>3 DEF IdsOf
<1> QED
  BY <1>0, <1>1, <1>2, <1>3

LEMMA NodePersist ==
    ASSUME TypeOK, NInv, NEW h \in Handlers, Served, lock = Free,
           NEW updated \in Roster, NEW removed \in SUBSET Names, NEW added \in SUBSET Entry,
           PersistAndApply(h, updated, removed, added),
           WellFormed(updated[Primary]),
           updated[Primary] = Without(file[Primary], removed) \cup added,
           removed = {} \/ NamesOf(added) \subseteq removed,
           IdsOf(added) \cap issued = {},
           \A t \in Inbounds : updated[t] \subseteq Without(file[t], removed) \cup added
    PROVE  NInv'
<1>1. /\ \A g \in Handlers : lock # g /\ pc[g] \notin Mutating /\ work[g] = NoWork
      /\ WellFormed(file[Primary]) /\ Tidy(file)
      /\ \A t \in Inbounds : IdsOf(file[t]) \subseteq issued \ revoked
      /\ revoked \subseteq issued
  BY FreeAssumption DEF NInv, CoreInv, Mutex, ListsInv, Served
<1>2. /\ lock' = h
      /\ issued' = issued \cup IdsOf(added)
      /\ UNCHANGED <<file, xray, live, revoked, adrift, main, cut>>
  BY DEF PersistAndApply, Served, nodeVars
<1>3. /\ work'[h].original = file
      /\ work'[h].updated = updated
      /\ work'[h].removed = removed
      /\ work'[h].added = added
      /\ work'[h].toRemove = IF removed = {} THEN {} ELSE Present
      /\ work'[h].toAdd = IF added = {} THEN {} ELSE Present
  BY DEF PersistAndApply, TypeOK
<1>4. /\ pc'[h] = "write"
      /\ \A g \in Handlers : g # h => work'[g] = work[g] /\ pc'[g] = pc[g]
  BY DEF PersistAndApply, TypeOK
<1>5. CoreInv'
  <2>1. Mutex'
    BY <1>1, <1>2, <1>4 DEF Mutex, Mutating
  <2>2. (\A g \in Handlers : lock = g => file = FileOf(g))'
    BY <1>2, <1>3, <1>4 DEF FileOf
  <2> QED
    BY <1>2, <2>1, <2>2 DEF NInv, CoreInv
<1>6. Tidy(updated)
  <2>1. \A t \in Inbounds : /\ updated[t] \subseteq file[t] \cup added
                           /\ IdsOf(file[t]) \cap IdsOf(added) = {}
    BY <1>1 DEF Without
  <2> QED
    BY <1>1, <2>1, TidyUpdate
<1>7. MutationInv'
  <2>1. Consistent(work[h])'
    <3>1. IdsOf(added) \subseteq issued' \ revoked'
      BY <1>1, <1>2
    <3>2. \A t \in Inbounds : IdsOf(file[t]) \subseteq issued' \ revoked'
      BY <1>1, <1>2
    <3>3. Tidy(work'[h].original) /\ Tidy(work'[h].updated)
      BY <1>1, <1>3, <1>6
    <3> QED
      BY <1>1, <1>3, <3>1, <3>2, <3>3 DEF Consistent, Kept
  <2>2. Untouched(work[h])' /\ Remaining(work[h])'
    BY <1>3 DEF Untouched, Remaining
  <2> QED
    BY <1>2, <2>1, <2>2 DEF MutationInv
<1>8. ListsInv'
  BY <1>1, <1>2 DEF ListsInv, Tidy
<1>9. PrimaryInv'
  <2>1. xray = "up" /\ ~adrift /\ ~cut => live[Primary] = file[Primary]
    BY DEF NInv, PrimaryInv
  <2>2. Without(file[Primary], removed) \subseteq file[Primary]
    BY DEF Without
  <2>3. live[Primary] = file[Primary] => PrimaryMidway(work[h])'
    BY <1>2, <1>3, <2>2 DEF PrimaryMidway, Kept
  <2> QED
    BY <1>2, <1>4, <2>1, <2>3, FreeAssumption DEF NInv, PrimaryInv
<1> QED
  BY <1>5, <1>7, <1>8, <1>9, ServedReconciled DEF NInv

(* Any return: the mutex is free again and nothing is under way. *)
LEMMA NodeAnswer ==
    ASSUME TypeOK, NInv, NEW h \in Handlers, Served, lock \in {Free, h},
           NEW code, NEW users, Answer(h, code, users),
           ListsInv',
           (xray # "up" => live = NoUsers)',
           (xray = "up" /\ ~adrift /\ ~cut => live[Primary] = file[Primary])'
    PROVE  NInv'
<1>1. \A g \in Handlers : g # h => lock # g /\ pc[g] \notin Mutating /\ work[g] = NoWork
  BY FreeAssumption DEF NInv, CoreInv, Mutex
<1>2. /\ lock' = Free
      /\ pc'[h] = "done" /\ work'[h] = NoWork
      /\ \A g \in Handlers : g # h => pc'[g] = pc[g] /\ work'[g] = work[g]
  BY DEF Answer, TypeOK
<1>3. CoreInv'
  <2>1. Mutex'
    BY <1>1, <1>2, FreeAssumption DEF Mutex, Mutating
  <2>2. (IdsOf(file[Primary]) \cup revoked \subseteq issued)'
    BY InboundsAssumption DEF ListsInv
  <2> QED
    BY <1>2, <2>1, <2>2, FreeAssumption DEF CoreInv
<1>4. MutationInv' /\ PrimaryInv'
  BY <1>2, FreeAssumption DEF MutationInv, PrimaryInv
<1> QED
  BY <1>3, <1>4, ServedReconciled DEF NInv

LEMMA ListsKept ==
    ASSUME NInv, Served, UNCHANGED <<file, issued, revoked>>
    PROVE  ListsInv'
  BY DEF NInv, ListsInv, Tidy, Served, nodeVars

LEMMA NodeEarlyAnswer ==
    ASSUME TypeOK, NInv, NEW h \in Handlers, Served, lock = Free,
           NEW code, NEW users, AnswerUnchanged(h, code, users)
    PROVE  NInv'
<1>1. ListsInv'
  BY ListsKept DEF AnswerUnchanged
<1>2. /\ (xray # "up" => live = NoUsers)'
      /\ (xray = "up" /\ ~adrift /\ ~cut => live[Primary] = file[Primary])'
  BY DEF AnswerUnchanged, NInv, PrimaryInv, Served, nodeVars
<1> QED
  BY <1>1, <1>2, NodeAnswer DEF AnswerUnchanged

LEMMA NodeBegin ==
    ASSUME TypeOK, NInv, NEW h \in Handlers, Served, Begin(h)
    PROVE  NInv'
<1>1. lock = Free
  BY DEF Begin, LoadFails, List, AddBulk, Delete, Rotate, DeleteAll, Acquires
<1>2. /\ WellFormed(file[Primary])
      /\ IdsOf(file[Primary]) \subseteq issued
      /\ file[Primary] \in SUBSET Entry
  BY InboundsAssumption
  DEF NInv, ListsInv, Served, TypeOK, XrayTypeOK, Roster
<1>3. CASE LoadFails(h)
  BY <1>1, <1>3, NodeEarlyAnswer DEF LoadFails
<1>4. CASE List(h)
  BY <1>1, <1>4, NodeEarlyAnswer DEF List
<1>5. CASE AddBulk(h)
  <2> DEFINE fresh == op[h].names \ NamesOf(file[Primary])
  <2>1. CASE AnswerUnchanged(h, "ok", {})
    BY <1>1, <2>1, NodeEarlyAnswer
  <2>2. ASSUME NEW added \in NewUsers(fresh, UUIDs \ issued),
               PersistAndApply(h, [t \in Inbounds |-> AddUsersToList(file[t], added)], {}, added)
        PROVE  NInv'
    <3> DEFINE updated == [t \in Inbounds |-> AddUsersToList(file[t], added)]
    <3>1. /\ NamesOf(added) = fresh
          /\ IdsOf(added) \subseteq UUIDs \ issued
          /\ WellFormed(added)
      BY NewUsersFacts
    <3>2. added \in SUBSET Entry
      BY RequestNames, NewUsersTyped
    <3>3. updated \in Roster
      BY <3>2, ListHelpersTyped DEF TypeOK, XrayTypeOK, Roster, AddUsersToList
    <3>4. AddUsersToList(file[Primary], added) = file[Primary] \cup added
      BY <3>1 DEF AddUsersToList, NamesOf
    <3>5. WellFormed(file[Primary] \cup added)
      BY <1>2, <3>1, JoinWellFormed
    <3>6. updated[Primary] = Without(file[Primary], {}) \cup added
      BY <3>4, InboundsAssumption DEF Without
    <3>7. \A t \in Inbounds : updated[t] \subseteq Without(file[t], {}) \cup added
      BY DEF AddUsersToList, Without
    <3>8. WellFormed(updated[Primary]) /\ IdsOf(added) \cap issued = {}
      BY <3>1, <3>4, <3>5, InboundsAssumption
    <3> HIDE DEF updated
    <3> QED
      BY <1>1, <2>2, <3>2, <3>3, <3>6, <3>7, <3>8, NodePersist DEF updated
  <2> QED
    BY <1>5, <2>1, <2>2 DEF AddBulk
<1>6. CASE Delete(h)
  <2>1. CASE AnswerUnchanged(h, "notFound", {})
    BY <1>1, <2>1, NodeEarlyAnswer
  <2>2. CASE PersistAndApply(h, [t \in Inbounds |-> RemoveUsersFromList(file[t], op[h].names)],
                             op[h].names, {})
    <3> DEFINE updated == [t \in Inbounds |-> RemoveUsersFromList(file[t], op[h].names)]
    <3>1. updated \in Roster
      BY RequestNames DEF TypeOK, XrayTypeOK, Roster, RemoveUsersFromList, Without
    <3>2. WellFormed(updated[Primary])
      BY <1>2, WithoutWellFormed, InboundsAssumption DEF RemoveUsersFromList
    <3>3. \A t \in Inbounds : updated[t] = Without(file[t], op[h].names) \cup {}
      BY DEF RemoveUsersFromList
    <3>4. NamesOf({}) = {} /\ IdsOf({}) = {}
      BY DEF NamesOf, IdsOf
    <3> HIDE DEF updated
    <3> QED
      BY <1>1, <2>2, <3>1, <3>2, <3>3, <3>4, RequestNames, NodePersist, InboundsAssumption
      DEF updated
  <2> QED
    BY <1>6, <2>1, <2>2 DEF Delete
<1>7. CASE Rotate(h)
  <2>1. CASE AnswerUnchanged(h, "notFound", {})
    BY <1>1, <2>1, NodeEarlyAnswer
  <2>2. ASSUME NEW name \in op[h].names, NEW id \in UUIDs \ issued,
               PersistAndApply(h, [t \in Inbounds |-> RotateUserInList(file[t], name, id)],
                               {name}, {[name |-> name, uuid |-> id]})
        PROVE  NInv'
    <3> DEFINE updated == [t \in Inbounds |-> RotateUserInList(file[t], name, id)]
               added == {[name |-> name, uuid |-> id]}
    <3>1. name \in Names
      BY RequestNames
    <3>2. added \in SUBSET Entry
      BY <3>1 DEF Entry
    <3>3. updated \in Roster
      BY <3>2 DEF TypeOK, XrayTypeOK, Roster, RotateUserInList, Without
    <3>4. NamesOf(added) = {name} /\ IdsOf(added) = {id} /\ WellFormed(added)
      BY DEF NamesOf, IdsOf, WellFormed
    <3>5. WellFormed(Without(file[Primary], {name}) \cup added)
      <4> DEFINE kept == Without(file[Primary], {name})
      <4> HIDE DEF kept, added
      <4>1. /\ WellFormed(kept)
            /\ NamesOf(kept) \cap {name} = {}
            /\ IdsOf(kept) \subseteq issued
        BY <1>2, WithoutWellFormed DEF kept
      <4>2. NamesOf(kept) \cap NamesOf(added) = {} /\ IdsOf(kept) \cap IdsOf(added) = {}
        BY <3>4, <4>1
      <4>3. WellFormed(kept \cup added)
        BY <3>4, <4>1, <4>2, JoinWellFormed
      <4> QED
        BY <4>3 DEF kept
    <3>6. \A t \in Inbounds : updated[t] = Without(file[t], {name}) \cup added
      BY DEF RotateUserInList
    <3>7. WellFormed(updated[Primary])
      BY <3>5, <3>6, InboundsAssumption
    <3>8. {name} \in SUBSET Names /\ NamesOf(added) \subseteq {name} /\ IdsOf(added) \cap issued = {}
      BY <3>1, <3>4
    <3>9. PersistAndApply(h, updated, {name}, added)
      BY <2>2
    <3>10. /\ updated[Primary] = Without(file[Primary], {name}) \cup added
           /\ \A t \in Inbounds : updated[t] \subseteq Without(file[t], {name}) \cup added
      BY <3>6, InboundsAssumption
    <3> HIDE DEF updated, added
    <3> QED
      BY <1>1, <3>2, <3>3, <3>7, <3>8, <3>9, <3>10, NodePersist
  <2> QED
    BY <1>7, <2>1, <2>2 DEF Rotate
<1>8. CASE DeleteAll(h)
  <2>1. CASE AnswerUnchanged(h, "ok", {})
    BY <1>1, <2>1, NodeEarlyAnswer
  <2>2. CASE PersistAndApply(h, NoUsers, NamesOf(file[Primary]), {})
    <3>1. NoUsers \in Roster /\ NamesOf(file[Primary]) \in SUBSET Names
      BY <1>2 DEF NoUsers, Roster, NamesOf, Entry
    <3>2. WellFormed(NoUsers[Primary])
      BY InboundsAssumption DEF NoUsers, WellFormed
    <3>3. NoUsers[Primary] = Without(file[Primary], NamesOf(file[Primary])) \cup {}
      BY InboundsAssumption DEF NoUsers, Without, NamesOf
    <3>4. NamesOf({}) = {} /\ IdsOf({}) = {}
      BY DEF NamesOf, IdsOf
    <3>5. \A t \in Inbounds :
             NoUsers[t] \subseteq Without(file[t], NamesOf(file[Primary])) \cup {}
      BY DEF NoUsers
    <3> QED
      BY <1>1, <2>2, <3>1, <3>2, <3>3, <3>4, <3>5, NodePersist
  <2> QED
    BY <1>8, <2>1, <2>2 DEF DeleteAll
<1> QED
  BY <1>3, <1>4, <1>5, <1>6, <1>7, <1>8 DEF Begin

-----------------------------------------------------------------------------
(* The steps of persistAndApply. *)

LEMMA NodeMidway ==
    ASSUME NInv, NEW h \in Handlers, pc[h] \in Mutating
    PROVE  /\ xray # "up" => live = NoUsers
           /\ xray = "up" /\ ~adrift /\ ~cut =>
                 /\ PrimaryMidway(work[h])
                 /\ pc[h] = "apply" => PrimaryDone(work[h])
                 /\ pc[h] = "write" => live[Primary] = file[Primary]
  BY NodeHolder DEF NInv, PrimaryInv

(* A step of the holder inside persistAndApply. *)
LEMMA NodeStay ==
    ASSUME TypeOK, NInv, NEW h \in Handlers, pc[h] \in Mutating, Served,
           UNCHANGED <<lock, issued, revoked>>,
           pc'[h] \in Mutating, pc'[h] # "write",
           \A g \in Handlers : g # h => pc'[g] = pc[g] /\ work'[g] = work[g],
           /\ work'[h].original = work[h].original
           /\ work'[h].updated = work[h].updated
           /\ work'[h].removed = work[h].removed
           /\ work'[h].added = work[h].added,
           Remaining(work[h])',
           file' = FileOf(h)',
           (xray # "up" => live = NoUsers)',
           (xray = "up" /\ ~adrift /\ ~cut =>
               PrimaryMidway(work[h]) /\ (pc[h] = "apply" => PrimaryDone(work[h])))'
    PROVE  NInv'
<1>1. /\ lock = h
      /\ Consistent(work[h])
      /\ \A g \in Handlers : g # h => lock # g
  BY NodeHolder
<1>2. Consistent(work[h])'
  BY <1>1 DEF Consistent, Kept, Tidy
<1>3. MutationInv'
  BY <1>1, <1>2 DEF MutationInv
<1>4. ListsInv'
  <2>1. PICK w : w = work[h]
    OBVIOUS
  <2>2. file' = w.original \/ file' = w.updated
    BY <2>1 DEF FileOf
  <2>3. \A t \in Inbounds : /\ IdsOf(w.original[t]) \subseteq issued \ revoked
                            /\ IdsOf(w.updated[t]) \subseteq issued \ revoked
    BY <1>1, <2>1, ConsistentFacts DEF Consistent
  <2>4. /\ WellFormed(w.original[Primary]) /\ WellFormed(w.updated[Primary])
        /\ Tidy(w.original) /\ Tidy(w.updated)
    BY <1>1, <2>1 DEF Consistent
  <2>5. revoked \subseteq issued
    BY DEF NInv, ListsInv
  <2> QED
    BY <2>2, <2>3, <2>4, <2>5 DEF ListsInv
<1>5. CoreInv'
  <2>1. Mutex'
    BY <1>1 DEF NInv, CoreInv, Mutex
  <2>2. (IdsOf(file[Primary]) \cup revoked \subseteq issued)'
    BY <1>4, InboundsAssumption DEF ListsInv
  <2> QED
    BY <1>1, <2>1, <2>2 DEF CoreInv
<1>6. PrimaryInv'
  BY <1>1, FreeAssumption DEF PrimaryInv
<1> QED
  BY <1>3, <1>4, <1>5, <1>6, ServedReconciled DEF NInv

LEMMA NodeWrite ==
    ASSUME TypeOK, NInv, NEW h \in Handlers, Served, Write(h)
    PROVE  NInv'
<1>1. pc[h] = "write" /\ pc[h] \in Mutating
  BY DEF Write, Mutating
<1>2. /\ file' = work[h].updated
      /\ pc'[h] \in {"apply", "restart"}
      /\ \A g \in Handlers : g # h => pc'[g] = pc[g]
      /\ UNCHANGED <<xray, live, lock, work, issued, revoked, adrift>>
  BY DEF Write, Goto, TypeOK
<1>3. file' = FileOf(h)'
  BY <1>2 DEF FileOf
<1>4. Remaining(work[h])'
  BY <1>1, <1>2, NodeHolder DEF Remaining
<1>5. ASSUME xray = "up", ~adrift, ~cut
      PROVE  PrimaryDone(work[h])
  <2>1. live[Primary] = work[h].original[Primary] /\ Consistent(work[h]) /\ Untouched(work[h])
    BY <1>1, <1>5, NodeHolder, NodeMidway DEF FileOf
  <2>2. work[h].removed = {} => work[h].original[Primary] \subseteq work[h].updated[Primary]
    BY <2>1, ConsistentFacts
  <2> QED
    BY <2>1, <2>2 DEF PrimaryDone, Untouched
<1>6. (xray = "up" /\ ~adrift /\ ~cut =>
          PrimaryMidway(work[h]) /\ (pc[h] = "apply" => PrimaryDone(work[h])))'
  BY <1>1, <1>2, <1>5, NodeMidway DEF PrimaryMidway, Kept, PrimaryDone, Served, nodeVars, TagOf
<1> QED
  BY <1>1, <1>2, <1>3, <1>4, <1>6, NodeMidway, NodeStay DEF Mutating

LEMMA NodeWriteFails ==
    ASSUME TypeOK, NInv, NEW h \in Handlers, Served, WriteFails(h)
    PROVE  NInv'
<1>1. pc[h] = "write" /\ pc[h] \in Mutating
  BY DEF WriteFails, Mutating
<1>2. ListsInv'
  BY ListsKept DEF WriteFails, AnswerUnchanged
<1>3. /\ (xray # "up" => live = NoUsers)'
      /\ (xray = "up" /\ ~adrift /\ ~cut => live[Primary] = file[Primary])'
  BY <1>1, NodeMidway DEF WriteFails, AnswerUnchanged, Served, nodeVars
<1> QED
  BY <1>1, <1>2, <1>3, NodeHolder, NodeAnswer DEF WriteFails, AnswerUnchanged

LEMMA NodeRestore ==
    ASSUME TypeOK, NInv, NEW h \in Handlers, Served, Restore(h)
    PROVE  NInv'
<1>1. pc[h] = "restore" /\ pc[h] \in Mutating
  BY DEF Restore, Mutating
<1>2. /\ file' = work[h].original
      /\ pc'[h] = "rerestart"
      /\ \A g \in Handlers : g # h => pc'[g] = pc[g]
      /\ UNCHANGED <<xray, live, lock, work, issued, revoked, adrift>>
  BY DEF Restore, Goto, TypeOK
<1>3. file' = FileOf(h)'
  BY <1>2 DEF FileOf
<1>4. Remaining(work[h])'
  BY <1>1, <1>2, NodeHolder DEF Remaining
<1>5. (xray = "up" /\ ~adrift /\ ~cut =>
          PrimaryMidway(work[h]) /\ (pc[h] = "apply" => PrimaryDone(work[h])))'
  BY <1>1, <1>2, NodeMidway DEF PrimaryMidway, Kept, Served, nodeVars
<1> QED
  BY <1>1, <1>2, <1>3, <1>4, <1>5, NodeMidway, NodeStay DEF Mutating

LEMMA NodeRemove ==
    ASSUME TypeOK, NInv, NEW h \in Handlers, Served, Remove(h)
    PROVE  NInv'
<1>0. PICK w : w = work[h]
  OBVIOUS
<1>1. PICK s \in Slots :
         /\ NextRemoval(h, s)
         /\ \/ /\ RemoveUsers(TagOf(s), w.removed)
               /\ work' = [work EXCEPT ![h].toRemove = @ \ {s}]
               /\ UNCHANGED pc
            \/ /\ RemoveUsersFails(TagOf(s), w.removed)
               /\ Goto(h, "restore")
               /\ UNCHANGED work
         /\ UNCHANGED <<file, xray, liveAPI, lock, op, reply, issued, revoked, adrift>>
  BY <1>0 DEF Remove
<1>2. /\ pc[h] = "apply" /\ pc[h] \in Mutating
      /\ s \in w.toRemove
  BY <1>0, <1>1 DEF NextRemoval, First, Mutating
<1>3. Consistent(w) /\ Remaining(w) /\ file = w.updated
  BY <1>0, <1>2, NodeHolder DEF FileOf
<1>4. s \in Present /\ TagOf(s) \in Inbounds
  BY <1>0, <1>2, PresentTags DEF TypeOK, Work
<1>5. PICK gone \in SUBSET w.removed :
         /\ \A t \in Inbounds :
               live'[t] = IF t = TagOf(s) THEN Without(live[TagOf(s)], gone) ELSE live[t]
         /\ RemoveUsers(TagOf(s), w.removed) => gone = w.removed
         /\ xray # "up" /\ live = NoUsers => live' = NoUsers
  BY <1>1, <1>4, RemovalOfUsers
<1>6. /\ work'[h].original = w.original
      /\ work'[h].updated = w.updated
      /\ work'[h].removed = w.removed
      /\ work'[h].added = w.added
      /\ work'[h].toAdd = w.toAdd
      /\ work'[h].toRemove \subseteq w.toRemove
      /\ \A g \in Handlers : g # h => work'[g] = work[g]
  BY <1>0, <1>1 DEF TypeOK, Work
<1>7. /\ pc'[h] \in {"apply", "restore"}
      /\ pc'[h] = "apply" =>
            RemoveUsers(TagOf(s), w.removed) /\ work'[h].toRemove = w.toRemove \ {s}
      /\ \A g \in Handlers : g # h => pc'[g] = pc[g]
  BY <1>0, <1>1, <1>2 DEF Goto, TypeOK, Work
<1>8. Remaining(work[h])'
  BY <1>3, <1>6 DEF Remaining
<1>9. file' = FileOf(h)'
  BY <1>1, <1>3, <1>6, <1>7 DEF FileOf
<1>10. ASSUME xray = "up", ~adrift, ~cut
       PROVE  PrimaryMidway(work[h])' /\ (pc[h] = "apply" => PrimaryDone(work[h]))'
  <2>1. PrimaryMidway(w) /\ PrimaryDone(w)
    BY <1>0, <1>2, <1>10, NodeMidway
  <2>2. \A e \in Kept(w) : e.name \notin gone
    BY <1>3, <1>5, ConsistentFacts
  <2>3. live'[Primary] \subseteq live[Primary]
    BY <1>5, InboundsAssumption DEF Without
  <2>4. Kept(w) \subseteq live'[Primary]
    BY <1>5, <2>1, <2>2, InboundsAssumption DEF PrimaryMidway, Without
  <2>5. PrimaryMidway(work[h])'
    BY <1>6, <2>1, <2>3, <2>4 DEF PrimaryMidway, Kept
  <2>6. ASSUME pc'[h] = "apply"
        PROVE  PrimaryDone(work[h])'
    <3>1. /\ gone = w.removed
          /\ work'[h].toRemove = w.toRemove \ {s}
      BY <1>5, <1>7, <2>6
    <3>2. ASSUME TagOf(s) = Primary
          PROVE  live'[Primary] \subseteq w.updated[Primary]
      <4>1. CASE live[Primary] \subseteq w.original[Primary]
        <5> SUFFICES ASSUME NEW e \in live'[Primary]
                     PROVE  e \in w.updated[Primary]
          OBVIOUS
        <5>1. e \in live[Primary] /\ e.name \notin w.removed
          BY <1>5, <3>1, <3>2, InboundsAssumption DEF Without
        <5> QED
          BY <1>3, <4>1, <5>1, ConsistentFacts
      <4>2. CASE live[Primary] \subseteq w.updated[Primary]
        BY <2>3, <4>2
      <4> QED
        BY <2>1, <4>1, <4>2 DEF PrimaryMidway
    <3>3. ASSUME NEW q \in Present, TagOf(q) = Primary, q \notin work'[h].toRemove
          PROVE  live'[Primary] \subseteq w.updated[Primary]
      BY <2>1, <2>3, <3>1, <3>2, <3>3 DEF PrimaryDone
    <3>4. ASSUME NEW q \in Present, q \notin work'[h].toAdd
          PROVE  w.added \subseteq live'[Primary]
      BY <1>2, <1>3, <1>6, <3>4 DEF Remaining
    <3> QED
      BY <1>6, <3>3, <3>4 DEF PrimaryDone, TagOf
  <2> QED
    BY <2>5, <2>6
<1>11. (xray = "up" /\ ~adrift /\ ~cut =>
          PrimaryMidway(work[h]) /\ (pc[h] = "apply" => PrimaryDone(work[h])))'
  BY <1>1, <1>10 DEF Served, nodeVars
<1>12. (xray # "up" => live = NoUsers)'
  BY <1>1, <1>2, <1>5, NodeMidway
<1> QED
  BY <1>0, <1>1, <1>2, <1>6, <1>7, <1>8, <1>9, <1>11, <1>12, NodeStay DEF Mutating

LEMMA NodeAdd ==
    ASSUME TypeOK, NInv, NEW h \in Handlers, Served, Add(h)
    PROVE  NInv'
<1>0. PICK w : w = work[h]
  OBVIOUS
<1>1. PICK s \in Slots :
         /\ NextAddition(h, s)
         /\ \/ /\ AddUsers(TagOf(s), w.added)
               /\ work' = [work EXCEPT ![h].toAdd = @ \ {s}]
               /\ UNCHANGED pc
            \/ /\ AddUsersFails(TagOf(s), w.added)
               /\ Goto(h, "restore")
               /\ UNCHANGED work
         /\ UNCHANGED <<file, xray, liveAPI, lock, op, reply, issued, revoked, adrift>>
  BY <1>0 DEF Add
<1>2. /\ pc[h] = "apply" /\ pc[h] \in Mutating
      /\ w.toRemove = {} /\ s \in w.toAdd
  BY <1>0, <1>1 DEF NextAddition, First, Mutating
<1>3. Consistent(w) /\ Remaining(w) /\ file = w.updated
  BY <1>0, <1>2, NodeHolder DEF FileOf
<1>4. s \in Present /\ TagOf(s) \in Inbounds
  BY <1>0, <1>2, PresentTags DEF TypeOK, Work
<1>5. PICK in \in SUBSET w.added :
         /\ \A t \in Inbounds :
               live'[t] = IF t = TagOf(s) THEN live[TagOf(s)] \cup in ELSE live[t]
         /\ AddUsers(TagOf(s), w.added) => in = w.added
         /\ xray # "up" /\ live = NoUsers => live' = NoUsers
  BY <1>1, <1>4, AdditionOfUsers
<1>6. /\ work'[h].original = w.original
      /\ work'[h].updated = w.updated
      /\ work'[h].removed = w.removed
      /\ work'[h].added = w.added
      /\ work'[h].toRemove = {}
      /\ work'[h].toAdd \subseteq w.toAdd
      /\ \A g \in Handlers : g # h => work'[g] = work[g]
  BY <1>0, <1>1, <1>2 DEF TypeOK, Work
<1>7. /\ pc'[h] \in {"apply", "restore"}
      /\ pc'[h] = "apply" =>
            AddUsers(TagOf(s), w.added) /\ work'[h].toAdd = w.toAdd \ {s}
      /\ \A g \in Handlers : g # h => pc'[g] = pc[g]
  BY <1>0, <1>1, <1>2 DEF Goto, TypeOK, Work
<1>8. Remaining(work[h])'
  BY <1>3, <1>6 DEF Remaining
<1>9. file' = FileOf(h)'
  BY <1>1, <1>3, <1>6, <1>7 DEF FileOf
<1>10. ASSUME xray = "up", ~adrift, ~cut
       PROVE  PrimaryMidway(work[h])' /\ (pc[h] = "apply" => PrimaryDone(work[h]))'
  <2>1. PrimaryMidway(w) /\ PrimaryDone(w)
    BY <1>0, <1>2, <1>10, NodeMidway
  <2>2. live[Primary] \subseteq w.updated[Primary]
    BY <1>2, <2>1, MirrorsLength DEF PrimaryDone, TagOf
  <2>3. /\ live[Primary] \subseteq live'[Primary]
        /\ live'[Primary] \subseteq w.updated[Primary]
    BY <1>3, <1>5, <2>2, ConsistentFacts, InboundsAssumption
  <2>4. PrimaryMidway(work[h])'
    BY <1>6, <2>1, <2>3 DEF PrimaryMidway, Kept
  <2>5. ASSUME pc'[h] = "apply"
        PROVE  PrimaryDone(work[h])'
    <3>1. /\ in = w.added
          /\ work'[h].toAdd = w.toAdd \ {s}
      BY <1>5, <1>7, <2>5
    <3>2. TagOf(s) = Primary => w.added \subseteq live'[Primary]
      BY <1>4, <1>5, <3>1
    <3>3. ASSUME NEW q \in Present, TagOf(q) = Primary, q \notin work'[h].toAdd
          PROVE  w.added \subseteq live'[Primary]
      BY <2>1, <2>3, <3>1, <3>2, <3>3 DEF PrimaryDone
    <3> QED
      BY <1>6, <2>3, <3>3 DEF PrimaryDone, TagOf
  <2> QED
    BY <2>4, <2>5
<1>11. (xray = "up" /\ ~adrift /\ ~cut =>
          PrimaryMidway(work[h]) /\ (pc[h] = "apply" => PrimaryDone(work[h])))'
  BY <1>1, <1>10 DEF Served, nodeVars
<1>12. (xray # "up" => live = NoUsers)'
  BY <1>1, <1>2, <1>5, NodeMidway
<1> QED
  BY <1>0, <1>1, <1>2, <1>6, <1>7, <1>8, <1>9, <1>11, <1>12, NodeStay DEF Mutating

(* The ids that a mutation takes off the primary list are left on no       *)
(* mirror: a mirror has them under the same names, which go there as well. *)
LEMMA RevokedGone ==
    ASSUME NEW w, Consistent(w), NEW t \in Inbounds
    PROVE  IdsOf(w.updated[t]) \cap (IdsOf(w.original[Primary]) \ IdsOf(w.updated[Primary])) = {}
<1> SUFFICES ASSUME NEW e \in w.updated[t], NEW d \in w.original[Primary],
                    d.uuid = e.uuid
             PROVE  \E c \in w.updated[Primary] : c.uuid = d.uuid
  BY DEF IdsOf
<1>1. CASE e \in w.added
  BY <1>1, ConsistentFacts
<1>2. CASE e \in w.original[t] /\ e.name \notin w.removed
  <2>1. e.name = d.name
    BY <1>2 DEF Consistent, Tidy
  <2>2. d \in Kept(w)
    BY <1>2, <2>1, ConsistentFacts
  <2> QED
    BY <2>2, ConsistentFacts
<1> QED
  BY <1>1, <1>2 DEF Consistent, Without

LEMMA NodeSucceed ==
    ASSUME TypeOK, NInv, NEW h \in Handlers, Served, pc[h] \in {"apply", "restart"},
           Succeed(h),
           (xray # "up" => live = NoUsers)',
           (xray = "up" /\ ~adrift /\ ~cut => live[Primary] = file[Primary])'
    PROVE  NInv'
<1>1. /\ pc[h] \in Mutating
      /\ FileOf(h) = work[h].updated
  BY DEF Mutating, FileOf
<1>2. PICK w : w = work[h]
  OBVIOUS
<1>3. lock = h /\ Consistent(w) /\ file = w.updated
  BY <1>1, <1>2, NodeHolder
<1>4. ListsInv'
  <2>1. /\ UNCHANGED <<file, issued, main>>
        /\ revoked' = revoked \cup (IdsOf(w.original[Primary]) \ IdsOf(w.updated[Primary]))
    BY <1>2 DEF Succeed, Served, nodeVars
  <2>2. \A t \in Inbounds : IdsOf(file[t]) \subseteq issued' \ revoked'
    BY <1>3, <2>1, RevokedGone DEF NInv, ListsInv
  <2>3. IdsOf(w.original[Primary]) \subseteq issued
    BY <1>3, InboundsAssumption DEF Consistent
  <2>4. revoked' \subseteq issued'
    BY <2>1, <2>3 DEF NInv, ListsInv
  <2> QED
    BY <2>1, <2>2, <2>4 DEF NInv, ListsInv, Tidy
<1> QED
  BY <1>3, <1>4, NodeAnswer DEF Succeed

LEMMA NodeApplied ==
    ASSUME TypeOK, NInv, NEW h \in Handlers, Served, Applied(h)
    PROVE  NInv'
<1>1. pc[h] = "apply" /\ pc[h] \in Mutating
  BY DEF Applied, Mutating
<1>2. Consistent(work[h]) /\ file = work[h].updated
  BY <1>1, NodeHolder DEF FileOf
<1>3. UNCHANGED <<file, xray, live, adrift, cut>>
  BY DEF Applied, Succeed, Served, nodeVars
<1>4. ASSUME xray = "up", ~adrift, ~cut
      PROVE  live[Primary] = file[Primary]
  <2>1. PrimaryMidway(work[h]) /\ PrimaryDone(work[h])
    BY <1>1, <1>4, NodeMidway
  <2>2. 0 \notin work[h].toRemove /\ 0 \notin work[h].toAdd /\ 0 \in Present /\ TagOf(0) = Primary
    BY MirrorsLength DEF Applied, TagOf
  <2>3. live[Primary] \subseteq work[h].updated[Primary] /\ work[h].added \subseteq live[Primary]
    BY <2>1, <2>2 DEF PrimaryDone
  <2>4. Kept(work[h]) \subseteq live[Primary]
    BY <2>1 DEF PrimaryMidway
  <2> QED
    BY <1>2, <2>3, <2>4 DEF Consistent
<1>5. xray # "up" => live = NoUsers
  BY <1>1, NodeMidway
<1> QED
  BY <1>1, <1>3, <1>4, <1>5, NodeSucceed DEF Applied

LEMMA NodeRestartXray ==
    ASSUME TypeOK, NInv, NEW h \in Handlers, Served, RestartXray(h)
    PROVE  NInv'
<1>1. pc[h] = "restart" /\ pc[h] \in Mutating
  BY DEF RestartXray, Mutating
<1>2. CASE Restart /\ Succeed(h)
  BY <1>1, <1>2, NodeSucceed DEF Restart
<1>3. CASE /\ RestartFails
           /\ Goto(h, "restore")
           /\ UNCHANGED <<file, liveAPI, lock, op, work, reply, issued, revoked, adrift>>
  <2>1. /\ pc'[h] = "restore"
        /\ \A g \in Handlers : g # h => pc'[g] = pc[g]
    BY <1>3 DEF Goto, TypeOK
  <2>2. file' = FileOf(h)'
    BY <1>1, <1>3, <2>1, NodeHolder DEF FileOf
  <2>3. Remaining(work[h])'
    BY <1>1, <1>3, NodeHolder DEF Remaining
  <2>4. (xray = "up" /\ ~adrift /\ ~cut =>
            PrimaryMidway(work[h]) /\ (pc[h] = "apply" => PrimaryDone(work[h])))'
    BY <1>1, <1>3, <2>1, NodeMidway, SystemctlOutcomes
    DEF PrimaryMidway, Kept, Served, nodeVars
  <2>5. (xray # "up" => live = NoUsers)'
    BY <1>1, <1>3, NodeMidway, SystemctlOutcomes
  <2> QED
    BY <1>1, <1>3, <2>1, <2>2, <2>3, <2>4, <2>5, NodeStay DEF Mutating
<1> QED
  BY <1>2, <1>3 DEF RestartXray

LEMMA NodeRollbackFails ==
    ASSUME TypeOK, NInv, NEW h \in Handlers, Served, pc[h] \in {"restore", "rerestart"},
           RollbackFails(h),
           (xray # "up" => live = NoUsers)'
    PROVE  NInv'
<1>1. lock = h
  BY NodeHolder DEF Mutating
<1>2. ListsInv'
  BY ListsKept DEF RollbackFails
<1>3. (xray = "up" /\ ~adrift /\ ~cut => live[Primary] = file[Primary])'
  BY DEF RollbackFails
<1> QED
  BY <1>1, <1>2, <1>3, NodeAnswer DEF RollbackFails

LEMMA NodeRestoreFails ==
    ASSUME TypeOK, NInv, NEW h \in Handlers, Served, RestoreFails(h)
    PROVE  NInv'
  BY NodeMidway, NodeRollbackFails DEF RestoreFails, Mutating

LEMMA NodeRestartRestored ==
    ASSUME TypeOK, NInv, NEW h \in Handlers, Served, RestartRestored(h)
    PROVE  NInv'
<1>1. pc[h] = "rerestart" /\ pc[h] \in Mutating
  BY DEF RestartRestored, Mutating
<1>2. CASE /\ Restart
           /\ Answer(h, "restored", {})
           /\ UNCHANGED <<file, liveAPI, issued, revoked, adrift>>
  <2>1. ListsInv'
    BY <1>2, ListsKept
  <2>2. xray' # "up" /\ live' = NoUsers
    BY <1>2 DEF Restart
  <2> QED
    BY <1>1, <1>2, <2>1, <2>2, NodeHolder, NodeAnswer
<1>3. CASE RestartFails /\ RollbackFails(h)
  <2>1. (xray # "up" => live = NoUsers)'
    BY <1>1, <1>3, NodeMidway, SystemctlOutcomes
  <2> QED
    BY <1>1, <1>3, <2>1, NodeRollbackFails
<1> QED
  BY <1>2, <1>3 DEF RestartRestored

LEMMA NodeCallReturn ==
    ASSUME TypeOK, NInv, NEW h \in Handlers, Served, Call(h) \/ Return(h)
    PROVE  NInv'
<1>1. /\ UNCHANGED <<file, xray, live, lock, work, issued, revoked, adrift, main, cut>>
      /\ pc[h] \notin Mutating /\ pc'[h] \notin Mutating
      /\ \A g \in Handlers : g # h => pc'[g] = pc[g]
  BY DEF Call, Return, Mutating, TypeOK, Served, nodeVars
<1>2. lock # h
  BY <1>1 DEF NInv, CoreInv, Mutex
<1>3. CoreInv'
  BY <1>1, <1>2 DEF NInv, CoreInv, Mutex, FileOf
<1>4. MutationInv'
  BY <1>1, <1>2 DEF NInv, MutationInv, Consistent, Kept, Tidy, Untouched, Remaining
<1>5. PrimaryInv'
  BY <1>1, <1>2 DEF NInv, PrimaryInv, PrimaryMidway, PrimaryDone, Kept, TagOf
<1> QED
  BY <1>1, <1>3, <1>4, <1>5, ListsKept, ServedReconciled DEF NInv

(* Xray and its unit, on their own and on the service endpoints. *)
LEMMA NodeEnvironment ==
    ASSUME NodeTypeOK, NInv, (Served /\ ServiceAction) \/ XrayMoves
    PROVE  NInv'
<1>1. UNCHANGED <<file, lock, pc, work, issued, revoked, main>>
  BY DEF Served, nodeVars, XrayMoves, XrayBoots, XrayFails, ServiceAction, storeVars
<1>2. CoreInv' /\ ListsInv'
  BY <1>1 DEF NInv, CoreInv, Mutex, FileOf, ListsInv, Tidy
<1>3. MutationInv'
  BY <1>1 DEF NInv, MutationInv, Consistent, Kept, Tidy, Untouched, Remaining
<1>4. PrimaryInv'
  <2>1. CASE XrayBoots
    <3>1. xray' = "up" /\ live' = file
      BY <2>1 DEF XrayBoots, Boots
    <3>2. ASSUME NEW h \in Handlers, lock = h
          PROVE  PrimaryMidway(work[h])' /\ (pc[h] = "apply" => PrimaryDone(work[h])')
      <4>1. PICK w : w = work[h]
        OBVIOUS
      <4>2. Consistent(w) /\ file = FileOf(h)
        BY <3>2, <4>1 DEF NInv, CoreInv, MutationInv
      <4>3. /\ file = w.original \/ file = w.updated
            /\ pc[h] = "apply" => file = w.updated
        BY <4>1, <4>2 DEF FileOf
      <4>4. /\ Kept(w) \subseteq file[Primary] /\ work'[h] = w
            /\ w.added \subseteq w.updated[Primary]
        BY <1>1, <4>1, <4>2, <4>3, ConsistentFacts
      <4>5. PrimaryMidway(work[h])'
        BY <3>1, <4>3, <4>4 DEF PrimaryMidway, Kept
      <4>6. pc[h] = "apply" => PrimaryDone(work[h])'
        BY <3>1, <4>3, <4>4 DEF PrimaryDone, TagOf
      <4> QED
        BY <4>5, <4>6
    <3> QED
      BY <1>1, <3>1, <3>2 DEF PrimaryInv
  <2>2. CASE (Served /\ ServiceAction) \/ (XrayFails /\ UNCHANGED nodeVars)
    <3>1. /\ UNCHANGED <<adrift, cut>>
          /\ \/ xray' = xray /\ live' = live
             \/ xray' # "up" /\ (live' = NoUsers \/ (xray # "up" /\ live' = live))
      BY <2>2, SystemctlOutcomes DEF Served, nodeVars, XrayFails, ServiceAction
    <3>2. CASE xray' = xray /\ live' = live
      BY <1>1, <3>1, <3>2 DEF NInv, PrimaryInv, PrimaryMidway, PrimaryDone, Kept, TagOf
    <3>3. CASE xray' # "up" /\ (live' = NoUsers \/ (xray # "up" /\ live' = live))
      BY <3>3 DEF NInv, PrimaryInv
    <3> QED
      BY <3>1, <3>2, <3>3
  <2> QED
    BY <2>1, <2>2 DEF XrayMoves
<1> QED
  BY <1>2, <1>3, <1>4, ServedReconciled, XrayReconciled DEF NInv

-----------------------------------------------------------------------------
(* Startup and death. *)

(* Reconciliation writes the primary list to a mirror, and adds users that *)
(* the primary inbound has to an inbound of Xray.                          *)
LEMMA StartupEffect ==
    ASSUME NodeTypeOK, NInv, StartupStep
    PROVE  /\ \A t \in Inbounds : file'[t] \in {file[t], file[Primary]}
           /\ UNCHANGED file \/ WellFormed(file[Primary])
           /\ main' \notin {"down", "probe", "load"} => WellFormed(file[Primary])
           /\ xray # "up" => live' = live
           /\ live[Primary] \subseteq live'[Primary]
           /\ live'[Primary] \subseteq live[Primary] \cup file[Primary]
<1>0. main' \notin {"down", "probe", "load"} => WellFormed(file[Primary])
  BY DEF NInv, ListsInv, NextMirror,
         StartupStep, Launch, Probe, LoadUsers, SkipAbsentMirror, ReconcileFile,
         QueryLiveMirror, RegisterMissing, ReconcileReturns, ReconcileFails
<1>1. CASE ReconcileFile
  <2>1. AddUsersToList({}, file[Primary]) = file[Primary] /\ file \in Roster
    BY DEF AddUsersToList, NamesOf, NodeTypeOK, TypeOK, XrayTypeOK
  <2>2. UNCHANGED live /\ WellFormed(file[Primary])
    BY <1>1 DEF ReconcileFile
  <2>3. UNCHANGED file \/ file' = [file EXCEPT ![TagOf(mirror)] = file[Primary]]
    BY <1>1, <2>1 DEF ReconcileFile
  <2> QED
    BY <1>0, <2>1, <2>2, <2>3 DEF Roster
<1>2. CASE RegisterMissing
  <2>1. PICK tag \in Inbounds : tag = TagOf(mirror)
    BY <1>2, TurnFacts DEF RegisterMissing, NInv
  <2>2. UNCHANGED file /\ missing \subseteq file[Primary]
    BY <1>2 DEF RegisterMissing, NInv, ReconciledInv
  <2>3. PICK in \in SUBSET missing :
           /\ \A t \in Inbounds :
                 live'[t] = IF t = tag THEN live[tag] \cup in ELSE live[t]
           /\ xray # "up" /\ live = NoUsers => live' = NoUsers
    BY <1>2, <2>1, AdditionOfUsers DEF RegisterMissing, NodeTypeOK
  <2>4. xray # "up" => live' = live
    BY <2>3 DEF NInv, PrimaryInv
  <2> QED
    BY <1>0, <2>2, <2>3, <2>4, InboundsAssumption
<1> QED
  BY <1>0, <1>1, <1>2
  DEF StartupStep, Launch, Probe, LoadUsers, SkipAbsentMirror, QueryLiveMirror,
      ReconcileReturns, ReconcileFails

LEMMA NodeStartup ==
    ASSUME NodeTypeOK, NInv, StartupStep
    PROVE  NInv'
<1>1. /\ UNCHANGED <<xray, adrift, cut, lock, pc, op, work, reply, issued, revoked>>
      /\ lock = Free
  BY DEF NodeTypeOK, StartupStep, Startup, storeVars, Launch, Probe, LoadUsers,
         SkipAbsentMirror, ReconcileFile, QueryLiveMirror, RegisterMissing,
         ReconcileReturns, ReconcileFails
<1>2. Primary \in Inbounds /\ file'[Primary] = file[Primary]
  BY StartupEffect, InboundsAssumption
<1>3. CoreInv' /\ MutationInv'
  BY <1>1, <1>2, FreeAssumption DEF NInv, CoreInv, Mutex, MutationInv
<1>4. ListsInv'
  <2>1. Tidy(file)'
    <3> SUFFICES ASSUME NEW t \in Inbounds, NEW d \in file'[t], NEW e \in file[Primary],
                        d.uuid = e.uuid
                 PROVE  d.name = e.name
      BY <1>2 DEF Tidy
    <3>1. CASE d \in file[t]
      BY <3>1 DEF NInv, ListsInv, Tidy
    <3>2. CASE WellFormed(file[Primary]) /\ d \in file[Primary]
      BY <3>2 DEF WellFormed
    <3> QED
      BY <3>1, <3>2, StartupEffect
  <2>2. \A t \in Inbounds : IdsOf(file'[t]) \subseteq issued \ revoked
    BY <1>2, StartupEffect DEF NInv, ListsInv
  <2> QED
    BY <1>1, <1>2, <2>1, <2>2, StartupEffect DEF NInv, ListsInv
<1>5. PrimaryInv'
  <2>1. xray # "up" => live' = NoUsers
    BY StartupEffect DEF NInv, PrimaryInv
  <2>2. live[Primary] = file[Primary] => live'[Primary] = file[Primary]
    BY StartupEffect
  <2> QED
    BY <1>1, <1>2, <2>1, <2>2, FreeAssumption DEF NInv, PrimaryInv
<1> QED
  BY <1>3, <1>4, <1>5, StartupReconciled DEF NInv

(* A death inside a mutation leaves the file and Xray apart only if the    *)
(* mutation had written the file.                                          *)
LEMMA NodeDeath ==
    ASSUME NodeTypeOK, NInv, Die
    PROVE  NodeTypeOK' /\ NInv'
<1>1. /\ lock' = Free /\ main' = "down" /\ mirror' = 1 /\ missing' = {}
      /\ \A h \in Handlers : pc'[h] = "idle" /\ work'[h] = NoWork
      /\ UNCHANGED <<file, xray, live, liveAPI, issued, revoked, adrift>>
      /\ cut' = (cut \/ Unfinished)
  BY DEF Die
<1>2. NodeTypeOK'
  <2>1. NoWork \in Work
    BY DEF NoWork, Work, NoUsers, Roster
  <2>2. TypeOK'
    BY <1>1, <2>1 DEF Die, NodeTypeOK, TypeOK, XrayTypeOK, NoReply, Reply
  <2>3. 1 \in 1..(Len(Mirrors) + 1)
    BY MirrorsLength
  <2> QED
    BY <1>1, <2>2, <2>3 DEF NodeTypeOK
<1>3. ListsInv'
  BY <1>1 DEF NInv, ListsInv, Tidy
<1>4. CoreInv' /\ MutationInv' /\ ReconciledInv'
  BY <1>1, <1>3, FreeAssumption, InboundsAssumption
  DEF CoreInv, Mutex, Mutating, MutationInv, ReconciledInv, ListsInv
<1>5. PrimaryInv'
  <2>1. ASSUME xray = "up", ~adrift, ~cut, ~Unfinished
        PROVE  live[Primary] = file[Primary]
    <3>1. CASE lock = Free
      BY <2>1, <3>1 DEF NInv, PrimaryInv
    <3>2. CASE lock # Free
      <4>1. PICK h \in Handlers : lock = h
        BY <3>2 DEF NodeTypeOK, TypeOK
      <4>2. pc[h] = "write"
        BY <2>1, <4>1 DEF Unfinished, NInv, CoreInv, Mutex, Mutating
      <4> QED
        BY <2>1, <4>1, <4>2 DEF NInv, PrimaryInv
    <3> QED
      BY <3>1, <3>2
  <2> QED
    BY <1>1, <2>1, FreeAssumption DEF NInv, PrimaryInv
<1> QED
  BY <1>2, <1>3, <1>4, <1>5 DEF NInv

-----------------------------------------------------------------------------
(* The inductive invariant. *)

LEMMA NodeInvInit == NodeInit => NodeTypeOK /\ NInv
<1> SUFFICES ASSUME NodeInit
             PROVE  NodeTypeOK /\ NInv
  OBVIOUS
<1>1. PICK n \in InitialNodes :
         /\ file = n.file
         /\ live = n.live
         /\ issued = UNION {IdsOf(n.file[t]) \cup IdsOf(n.live[t]) : t \in Inbounds}
  BY DEF NodeInit
<1>2. /\ file \in Roster /\ live \in Roster
      /\ live[Primary] = file[Primary] /\ Tidy(file)
  BY <1>1, InitialNodesAssumption
<1>3. issued \subseteq UUIDs
  BY <1>1, <1>2 DEF Roster, IdsOf, Entry
<1>4. \A t \in Inbounds : IdsOf(file[t]) \subseteq issued
  BY <1>1
<1>5. NodeTypeOK
  <2>1. NoWork \in Work
    BY DEF NoWork, Work, NoUsers, Roster
  <2>2. NoReply \in Reply
    BY DEF NoReply, Reply
  <2>3. 1 \in 1..(Len(Mirrors) + 1)
    BY MirrorsLength
  <2> QED
    BY <1>2, <1>3, <2>1, <2>2, <2>3 DEF NodeInit, NodeTypeOK, TypeOK, XrayTypeOK
<1>6. NInv
  BY <1>2, <1>4, FreeAssumption, InboundsAssumption
  DEF NodeInit, NInv, CoreInv, Mutex, Mutating, MutationInv, ListsInv, PrimaryInv, ReconciledInv
<1> QED
  BY <1>5, <1>6

LEMMA NodeInvStep == NodeTypeOK /\ NInv /\ [NodeNext]_allVars => (NodeTypeOK /\ NInv)'
<1> SUFFICES ASSUME NodeTypeOK, NInv, [NodeNext]_allVars
             PROVE  NodeTypeOK' /\ NInv'
  OBVIOUS
<1>1. CASE StartupStep
  BY <1>1, StartupTyped, NodeStartup DEF NInv
<1>2. CASE Die
  BY <1>2, NodeDeath
<1>3. CASE Serving
  <2>1. Served /\ TypeOK
    BY <1>3 DEF Serving, Served, NodeTypeOK
  <2>2. TypeOK'
    BY <1>3, <2>1, TypeStep DEF Serving, Next
  <2>3. NodeTypeOK'
    BY <2>1, <2>2 DEF NodeTypeOK, Served, nodeVars
  <2>4. ASSUME NEW h \in Handlers, Step(h)
        PROVE  NInv'
    BY <2>1, <2>4, NodeCallReturn, NodeBegin, NodeWrite, NodeWriteFails, NodeRemove, NodeAdd,
       NodeApplied, NodeRestartXray, NodeRestore, NodeRestoreFails, NodeRestartRestored
    DEF Step, Proceed
  <2> QED
    BY <1>3, <2>1, <2>3, <2>4, NodeEnvironment DEF Serving
<1>4. CASE XrayMoves
  <2>1. TypeOK'
    BY <1>4, TypeStep DEF XrayMoves, NodeTypeOK, Next
  <2>2. NodeTypeOK'
    BY <1>4, <2>1
    DEF XrayMoves, XrayBoots, XrayFails, NodeTypeOK, nodeVars, storeVars
  <2> QED
    BY <1>4, <2>2, NodeEnvironment
<1>5. CASE UNCHANGED allVars
  <2>1. NodeTypeOK'
    BY <1>5 DEF allVars, vars, storeVars, nodeVars, NodeTypeOK, TypeOK, XrayTypeOK
  <2>2. CoreInv' /\ MutationInv' /\ ListsInv'
    BY <1>5 DEF allVars, vars, storeVars, nodeVars, NInv, CoreInv, Mutex, FileOf, ListsInv, Tidy,
                MutationInv, Consistent, Kept, Untouched, Remaining
  <2>3. PrimaryInv'
    BY <1>5 DEF allVars, vars, storeVars, nodeVars, NInv, PrimaryInv, PrimaryMidway, PrimaryDone,
                Kept, TagOf
  <2>4. ReconciledInv'
    BY <1>5 DEF allVars, vars, nodeVars, NInv, ReconciledInv, Named, TagOf
  <2> QED
    BY <2>1, <2>2, <2>3, <2>4 DEF NInv
<1> QED
  BY <1>1, <1>2, <1>3, <1>4, <1>5 DEF NodeNext

(* The inductive invariant holds of every behaviour of the node. *)
THEOREM NodeInvariance == NodeSpec => [](NodeTypeOK /\ NInv)
  BY NodeInvInit, NodeInvStep, PTL DEF NodeSpec

(* NodeTypeOK: the variables of the node keep their types, and the store   *)
(* is at rest while vless-api starts up (main).                            *)
THEOREM NodeTypeCorrect == NodeSpec => []NodeTypeOK
  BY NodeInvariance, PTL

-----------------------------------------------------------------------------
(* What follows from it. *)

LEMMA PrimaryFollowsFileInv == NodeTypeOK /\ NInv => PrimaryFollowsFile
<1> SUFFICES ASSUME NodeTypeOK, NInv, xray = "up", ~adrift, ~cut
             PROVE  Without(live[Primary], InFlight) = Without(file[Primary], InFlight)
  BY DEF PrimaryFollowsFile
<1>1. CASE lock = Free
  BY <1>1 DEF NInv, PrimaryInv
<1>2. CASE lock # Free
  <2>1. PICK h \in Handlers : lock = h
    BY <1>2 DEF NodeTypeOK, TypeOK
  <2>2. PICK w : w = work[h]
    OBVIOUS
  <2>3. /\ Consistent(w) /\ PrimaryMidway(w)
        /\ file = w.original \/ file = w.updated
    BY <2>1, <2>2 DEF NInv, CoreInv, MutationInv, PrimaryInv, FileOf
  <2>4. w.removed \cup NamesOf(w.added) \subseteq InFlight
    BY <2>2 DEF InFlight
  <2>5. ASSUME NEW list, Kept(w) \subseteq list,
               list \subseteq w.original[Primary] \/ list \subseteq w.updated[Primary]
        PROVE  Without(list, InFlight) = Without(Kept(w), InFlight)
    <3>1. ASSUME NEW e \in list, e.name \notin InFlight
          PROVE  e \in Kept(w)
      <4>1. e.name \notin w.removed /\ e \notin w.added
        BY <2>4, <3>1 DEF NamesOf
      <4> QED
        BY <2>3, <2>5, <4>1, ConsistentFacts DEF Consistent
    <3> QED
      BY <2>5, <3>1 DEF Without
  <2>6. Without(live[Primary], InFlight) = Without(Kept(w), InFlight)
    BY <2>3, <2>5 DEF PrimaryMidway
  <2>7. Without(file[Primary], InFlight) = Without(Kept(w), InFlight)
    BY <2>3, <2>5, ConsistentFacts
  <2> QED
    BY <2>6, <2>7
<1> QED
  BY <1>1, <1>2

(* PrimaryFollowsFile: over deaths and startups, a running Xray has on the *)
(* primary inbound the users of config.json.                               *)
THEOREM PrimaryFollowsFileAlways == NodeSpec => []PrimaryFollowsFile
  BY NodeInvariance, PrimaryFollowsFileInv, PTL

(* RevokedStaysOutOfFile: no revoked id is ever in config.json again, with *)
(* deaths inside rollbacks and reconciliation in between.                  *)
THEOREM RevokedStaysOutOfFileAlways == NodeSpec => []RevokedStaysOutOfFile
<1>1. NInv => RevokedStaysOutOfFile
  BY DEF NInv, ListsInv, RevokedStaysOutOfFile
<1> QED
  BY <1>1, NodeInvariance, PTL

LEMMA ReturnAtParity ==
    ASSUME NodeTypeOK, NInv, ReconcileReturns
    PROVE  ReconciledMirrors'
<1>1. /\ main = "reconcile" /\ mirror = Len(Mirrors) + 1
      /\ UNCHANGED <<file, xray, live, liveAPI>>
  BY DEF ReconcileReturns, Startup
<1>2. ASSUME NEW t \in Inbounds
      PROVE  file[t] = file[Primary] /\ (t # Primary => Named(t))
  <2>1. CASE t = Primary
    BY <2>1
  <2>2. CASE t # Primary
    <3>1. PICK i \in 1..Len(Mirrors) : t = Mirrors[i]
      BY <2>2, InboundsAssumption
    <3>2. t = TagOf(i) /\ i \in 1..(mirror - 1)
      BY <1>1, <3>1, MirrorTag, MirrorsLength
    <3> QED
      BY <1>1, <2>2, <3>2 DEF NInv, ReconciledInv
  <2> QED
    BY <2>1, <2>2
<1>3. ASSUME NEW t \in Inbounds \ {Primary}, liveAPI, xray = "up"
      PROVE  NamesOf(file[t]) \subseteq NamesOf(live[t])
  BY <1>2, <1>3 DEF Named
<1> QED
  BY <1>1, <1>2, <1>3 DEF ReconciledMirrors

(* ReconcileReachesParity: a reconciliation that returns without an error  *)
(* has brought every installed mirror to parity.                           *)
THEOREM ReconcileReachesParityAlways == NodeSpec => ReconcileReachesParity
<1>1. NodeTypeOK /\ NInv /\ [NodeNext]_allVars
         => [ReconcileReturns => ReconciledMirrors']_allVars
  BY ReturnAtParity
<1> QED
  BY <1>1, NodeInvariance, PTL DEF NodeSpec, ReconcileReachesParity

-----------------------------------------------------------------------------
(* The node implements UserRegistry, deaths included. *)

(* The registries of the store and of the node differ in how they start. *)
LEMMA SameEffects == \A r : MortalRegistry!Effects(r) = Registry!Effects(r)
<1>1. /\ \A list : MortalRegistry!NamesOf(list) = Registry!NamesOf(list)
      /\ \A list : MortalRegistry!IdsOf(list) = Registry!IdsOf(list)
      /\ \A list, names : MortalRegistry!Without(list, names) = Registry!Without(list, names)
      /\ \A names, ids : MortalRegistry!NewUsers(names, ids) = Registry!NewUsers(names, ids)
  BY DEF MortalRegistry!NamesOf, Registry!NamesOf, MortalRegistry!IdsOf, Registry!IdsOf,
         MortalRegistry!Without, Registry!Without, MortalRegistry!NewUsers, Registry!NewUsers
<1>2. /\ MortalRegistry!Unused = Registry!Unused
      /\ \A names : MortalRegistry!Known(names) <=> Registry!Known(names)
  BY <1>1 DEF MortalRegistry!Unused, Registry!Unused, MortalRegistry!Known, Registry!Known
<1>3. ASSUME NEW names
      PROVE  MortalRegistry!AddEffects(names) = Registry!AddEffects(names)
  BY <1>1, <1>2 DEF MortalRegistry!AddEffects, Registry!AddEffects
<1>4. \A names : MortalRegistry!RemoveEffects(names) = Registry!RemoveEffects(names)
  BY <1>1 DEF MortalRegistry!RemoveEffects, Registry!RemoveEffects
<1>5. ASSUME NEW names
      PROVE  MortalRegistry!RotateEffects(names) = Registry!RotateEffects(names)
  BY <1>1, <1>2 DEF MortalRegistry!RotateEffects, Registry!RotateEffects
<1> QED
  BY <1>1, <1>2, <1>3, <1>4, <1>5 DEF MortalRegistry!Effects, Registry!Effects

LEMMA SameSteps == [Registry!Next]_(Registry!vars) => [MortalRegistry!Next]_(MortalRegistry!vars)
<1>1. \A names : MortalRegistry!Known(names) <=> Registry!Known(names)
  BY DEF MortalRegistry!Known, MortalRegistry!NamesOf, Registry!Known, Registry!NamesOf
<1>2. ASSUME NEW h \in Handlers
      PROVE  /\ Registry!Serve(h) => MortalRegistry!Serve(h)
             /\ Registry!NotFound(h) => MortalRegistry!NotFound(h)
             /\ Registry!LeaveInDoubt(h) => MortalRegistry!LeaveInDoubt(h)
  BY <1>1, SameEffects
  DEF Registry!Serve, MortalRegistry!Serve, Registry!Pending, MortalRegistry!Pending,
      Registry!NotFound, MortalRegistry!NotFound, Registry!Reply, MortalRegistry!Reply,
      Registry!LeaveInDoubt, MortalRegistry!LeaveInDoubt,
      Registry!NoRequest, MortalRegistry!NoRequest, Registry!NoReply, MortalRegistry!NoReply,
      Registry!IdsOf, MortalRegistry!IdsOf
<1>3. ASSUME NEW h \in Handlers
      PROVE  /\ Registry!Submit(h) => MortalRegistry!Submit(h)
             /\ Registry!Refuse(h) => MortalRegistry!Refuse(h)
             /\ Registry!Take(h) => MortalRegistry!Take(h)
  BY DEF Registry!Submit, MortalRegistry!Submit, Registry!Refuse, MortalRegistry!Refuse,
         Registry!Take, MortalRegistry!Take, Registry!Pending, MortalRegistry!Pending,
         Registry!Reply, MortalRegistry!Reply, Registry!Requests, MortalRegistry!Requests,
         Registry!NoRequest, MortalRegistry!NoRequest, Registry!NoReply, MortalRegistry!NoReply
<1>4. Registry!Next => MortalRegistry!Next
  BY <1>2, <1>3 DEF Registry!Next, MortalRegistry!Next, Registry!Finish, MortalRegistry!Finish
<1>5. UNCHANGED Registry!vars => UNCHANGED MortalRegistry!vars
  BY DEF Registry!vars, MortalRegistry!vars
<1> QED
  BY <1>4, <1>5

(* A death takes every request along; one of them may have taken effect. *)
LEMMA DeathVanishes ==
    ASSUME TypeOK, CoreInv, Stages, Promise, Die
    PROVE  Stages' /\ Promise' /\ MortalRegistry!Vanish
<1>1. /\ lock' = Free
      /\ pc' = [h \in Handlers |-> "idle"]
      /\ op' = [h \in Handlers |-> NoRequest]
      /\ reply' = [h \in Handlers |-> NoReply]
      /\ UNCHANGED <<file, revoked>>
  BY DEF Die
<1>2. Stages' /\ Promise'
  BY <1>1, FreeAssumption DEF Stages, Promise
<1>3. Registered' = file[Primary]
  BY <1>1, FreeAssumption DEF Registered, Undecided
<1>4. \/ Registered' = Registered
      \/ \E h \in Handlers : /\ MortalRegistry!Pending(h)
                             /\ \E effect \in MortalRegistry!Effects(op[h]) :
                                   Registered' = effect.next
  <2>1. CASE lock = Free
    BY <1>3, <2>1, RegisteredFacts
  <2>2. CASE lock # Free
    <3>1. PICK h \in Handlers : lock = h
      BY <2>2 DEF TypeOK
    <3>2. CASE file = work[h].original
      BY <1>3, <3>1, <3>2, RegisteredFacts
    <3>3. CASE file = work[h].updated
      <4>1. op[h] # NoRequest /\ reply[h] = NoReply
        BY <3>1 DEF CoreInv, Mutex, Mutating, Stages
      <4>2. MortalRegistry!Pending(h)
        BY <4>1 DEF MortalRegistry!Pending, MortalRegistry!NoRequest, NoRequest,
                    MortalRegistry!NoReply, NoReply
      <4>3. Effect(h) \in MortalRegistry!Effects(op[h]) /\ Effect(h).next = Registered'
        BY <1>3, <3>1, <3>3, SameEffects DEF Promise, Effect
      <4> QED
        BY <4>2, <4>3
    <3> QED
      BY <3>1, <3>2, <3>3 DEF CoreInv, FileOf
  <2> QED
    BY <2>1, <2>2
<1> QED
  BY <1>1, <1>2, <1>4 DEF MortalRegistry!Vanish, MortalRegistry!NoRequest, NoRequest,
                          MortalRegistry!NoReply, NoReply

LEMMA NodeRefinementInit == NodeInit => Stages /\ Promise /\ MortalRegistry!Init
<1> SUFFICES ASSUME NodeInit
             PROVE  Stages /\ Promise /\ MortalRegistry!Init
  OBVIOUS
<1>1. Stages /\ Promise
  BY FreeAssumption DEF NodeInit, Stages, Promise
<1>2. Registered = file[Primary]
  BY FreeAssumption DEF NodeInit, Registered, Undecided
<1>3. Registered \in {n.file[Primary] : n \in InitialNodes}
  BY <1>2 DEF NodeInit
<1> QED
  BY <1>1, <1>3 DEF NodeInit, MortalRegistry!Init, MortalRegistry!NoRequest, NoRequest,
                    MortalRegistry!NoReply, NoReply

LEMMA NodeRefinementStep ==
    NodeTypeOK /\ NInv /\ Stages /\ Promise /\ [NodeNext]_allVars
        => /\ Stages' /\ Promise'
           /\ [MortalRegistry!Next \/ MortalRegistry!Vanish]_(MortalRegistry!vars)
<1> SUFFICES ASSUME NodeTypeOK, NInv, Stages, Promise, [NodeNext]_allVars
             PROVE  /\ Stages' /\ Promise'
                    /\ [MortalRegistry!Next \/ MortalRegistry!Vanish]_(MortalRegistry!vars)
  OBVIOUS
<1>1. TypeOK /\ CoreInv
  BY DEF NodeTypeOK, NInv
<1>2. CASE Die
  BY <1>1, <1>2, DeathVanishes
<1>3. CASE StartupStep
  <2>1. UNCHANGED <<lock, pc, op, work, reply, revoked>> /\ lock = Free
    BY <1>3 DEF NodeTypeOK, StartupStep, Startup, storeVars, Launch, Probe, LoadUsers,
           SkipAbsentMirror, ReconcileFile, QueryLiveMirror, RegisterMissing,
           ReconcileReturns, ReconcileFails
  <2>2. file'[Primary] = file[Primary]
    BY <1>3, StartupEffect, InboundsAssumption
  <2>3. Registered' = Registered
    BY <2>1, <2>2, FreeAssumption DEF Registered, Undecided
  <2>4. Stages' /\ Promise'
    BY <2>1, <2>3, FreeAssumption DEF Stages, Promise
  <2> QED
    BY <2>1, <2>3, <2>4 DEF MortalRegistry!vars
<1>4. CASE Serving \/ XrayMoves \/ UNCHANGED allVars
  <2>1. [Next]_vars
    BY <1>4 DEF Serving, XrayMoves, allVars, Next
  <2> QED
    BY <1>1, <2>1, RefinementStep, SameSteps
<1> QED
  BY <1>2, <1>3, <1>4 DEF NodeNext

(* RegistrySurvives: over all the lives of vless-api every request still   *)
(* takes effect in one step, and one that a death interrupts takes effect  *)
(* at most once and is not acknowledged (main, ConfigStore).               *)
THEOREM NodeImplementsRegistry == NodeSpec => RegistrySurvives
<1>1. NodeInit => Stages /\ Promise /\ MortalRegistry!Init
  BY NodeRefinementInit
<1>2. NodeTypeOK /\ NInv /\ Stages /\ Promise /\ [NodeNext]_allVars
        => /\ Stages' /\ Promise'
           /\ [MortalRegistry!Next \/ MortalRegistry!Vanish]_(MortalRegistry!vars)
  BY NodeRefinementStep
<1>3. NodeSpec => [](NodeTypeOK /\ NInv)
  BY NodeInvariance
<1> QED
  BY <1>1, <1>2, <1>3, PTL DEF NodeSpec, RegistrySurvives, MortalRegistry!MortalSpec
-----------------------------------------------------------------------------
(* What loadSettings and main make of an environment, for every one, of    *)
(* any number of extra inbounds: what a start goes by.                     *)

(* A number in range did parse (intEnvOr).                                 *)
LEMMA InRangeIsAsked ==
    ASSUME NEW text, NEW fallback, InRange(IntEnvOr(text, fallback))
    PROVE  IntEnvOr(text, fallback) = IF text = Unset THEN fallback ELSE text
<1>1. CASE text = Unset
  BY <1>1 DEF IntEnvOr
<1>2. CASE text # Unset /\ text = Garbage
  <2>1. IntEnvOr(text, fallback) = -1
    BY <1>2 DEF IntEnvOr
  <2>2. -1 \notin 1..65535
    OBVIOUS
  <2> QED BY <2>1, <2>2 DEF InRange
<1>3. CASE text # Unset /\ text # Garbage
  BY <1>3, Zenon DEF IntEnvOr
<1> QED BY <1>1, <1>2, <1>3

(* The slots of the store's mirrors: the ws inbound, if there is one, and  *)
(* then the extra ones in their order (MirrorsOf).                         *)
LEMMA MirrorSlots ==
    ASSUME NEW env \in Environments
    PROVE  LET ms == MirrorsOf(SettingsOf(env))
               w  == IF env.wsTag = Unset THEN 0 ELSE 1
           IN  /\ Len(ms) = w + Len(env.extra)
               /\ DOMAIN ms = 1..Len(ms)
               /\ w = 1 => ms[1] = Mirror(env.wsTag, IntEnvOr(env.wsPort, 0))
               /\ \A i \in DOMAIN ms : i > w =>
                     /\ i - w \in DOMAIN env.extra
                     /\ ms[i] = Mirror(env.extra[i - w].tag, env.extra[i - w].port)
<1> DEFINE ms == MirrorsOf(SettingsOf(env))
           ex == ExtraInbounds(env)
           w  == IF env.wsTag = Unset THEN 0 ELSE 1
           ws == IF env.wsTag = Unset THEN <<>>
                 ELSE <<Mirror(env.wsTag, IntEnvOr(env.wsPort, 0))>>
<1>1. env.extra \in Seq(ExtraEntries) /\ Len(env.extra) \in Nat
             /\ DOMAIN env.extra = 1..Len(env.extra)
  BY DEF Environments
<1>2. ex \in Seq({ex[i] : i \in 1..Len(env.extra)}) /\ Len(ex) = Len(env.extra)
  BY <1>1 DEF ExtraInbounds
<1>3. ws \in Seq({Mirror(env.wsTag, IntEnvOr(env.wsPort, 0))}) /\ Len(ws) = w
  <2>1. CASE env.wsTag = Unset
    BY <2>1
  <2>2. CASE env.wsTag # Unset
    BY <2>2
  <2> QED BY <2>1, <2>2
<1>a. w = 1 => ws[1] = Mirror(env.wsTag, IntEnvOr(env.wsPort, 0))
  OBVIOUS
<1>b. w \in {0, 1}
  OBVIOUS
<1>4. ms = ws \o ex
  BY DEF MirrorsOf, SettingsOf
<1> DEFINE All == {ex[i] : i \in 1..Len(env.extra)} \cup {Mirror(env.wsTag, IntEnvOr(env.wsPort, 0))}
<1>5. ex \in Seq(All) /\ ws \in Seq(All)
  <2>1. ASSUME NEW S, NEW T, NEW s \in Seq(S), S \subseteq T
        PROVE  s \in Seq(T)
    BY <2>1
  <2> HIDE DEF ws, ex
  <2> QED BY <1>2, <1>3, <2>1
<1> HIDE DEF ws, ex, All, w, ms
<1>6. /\ Len(ms) = w + Len(env.extra) /\ DOMAIN ms = 1..Len(ms)
      /\ \A i \in 1..Len(ms) : ms[i] = IF i <= Len(ws) THEN ws[i] ELSE ex[i - Len(ws)]
  <2>1. ws \o ex \in Seq(All) /\ Len(ws \o ex) = Len(ws) + Len(ex)
    BY <1>5, ConcatProperties
  <2>2. \A i \in 1..Len(ws) + Len(ex) :
           (ws \o ex)[i] = IF i <= Len(ws) THEN ws[i] ELSE ex[i - Len(ws)]
    BY <1>5, ConcatProperties
  <2> QED BY <1>2, <1>3, <1>4, <2>1, <2>2
<1>7. w = 1 => ms[1] = Mirror(env.wsTag, IntEnvOr(env.wsPort, 0))
  BY <1>1, <1>3, <1>a, <1>6
<1>8. ASSUME NEW i \in DOMAIN ms, i > w
      PROVE  /\ i - w \in DOMAIN env.extra
             /\ ms[i] = Mirror(env.extra[i - w].tag, env.extra[i - w].port)
  <2>1. i - w \in 1..Len(env.extra) /\ ms[i] = ex[i - w]
    BY <1>1, <1>3, <1>b, <1>6, <1>8
  <2>2. ex[i - w] = Mirror(env.extra[i - w].tag, env.extra[i - w].port)
    BY <2>1 DEF ex, ExtraInbounds
  <2> QED BY <1>1, <2>1, <2>2
<1> QED BY <1>6, <1>7, <1>8 DEF w, ms

(* The store never mirrors the primary inbound, and has a tag twice only   *)
(* where EXTRA_INBOUNDS has that tag twice, and never the ws inbound's     *)
(* (parseExtraInbounds, Validate, main).                                   *)
THEOREM MirrorsAlwaysSound ==
    ASSUME NEW env \in Environments, Loads(env)
    PROVE  SoundMirrors(env)
<1> DEFINE ms == MirrorsOf(SettingsOf(env))
           tags == MirrorTags(env)
           w  == IF env.wsTag = Unset THEN 0 ELSE 1
           primary == SettingsOf(env).inboundTag
<1>1. /\ Len(ms) = w + Len(env.extra) /\ DOMAIN ms = 1..Len(ms)
      /\ w = 1 => ms[1] = Mirror(env.wsTag, IntEnvOr(env.wsPort, 0))
      /\ \A i \in DOMAIN ms : i > w =>
            /\ i - w \in DOMAIN env.extra
            /\ ms[i] = Mirror(env.extra[i - w].tag, env.extra[i - w].port)
  BY MirrorSlots
<1>2. Len(env.extra) \in Nat /\ DOMAIN env.extra = 1..Len(env.extra)
  BY DEF Environments
<1>3. /\ env.wsTag # Unset => env.wsTag # primary
      /\ \A i \in DOMAIN env.extra :
            env.extra[i].tag # primary /\ env.extra[i].tag # env.wsTag
  BY <1>2 DEF Loads, Valid, SettingsOf, ExtraInbounds, Mirror
<1>4. DOMAIN tags = DOMAIN ms /\ \A i \in DOMAIN ms : tags[i] = ms[i].tag
  BY <1>1 DEF MirrorTags
<1>b. w \in {0, 1} /\ (w = 1 => env.wsTag # Unset)
  OBVIOUS
<1> HIDE DEF tags, primary, w, ms
<1>5. /\ w = 1 => env.wsTag # Unset /\ (1 \in DOMAIN ms => tags[1] = env.wsTag)
      /\ \A i \in DOMAIN ms : i > w =>
            i - w \in DOMAIN env.extra /\ tags[i] = env.extra[i - w].tag
      /\ \A i \in DOMAIN ms : i \in Nat /\ (i > w \/ (i = 1 /\ w = 1))
  <2>1. w = 1 /\ 1 \in DOMAIN ms => tags[1] = env.wsTag
    BY <1>1, <1>4 DEF Mirror
  <2>2. ASSUME NEW i \in DOMAIN ms, i > w
        PROVE  i - w \in DOMAIN env.extra /\ tags[i] = env.extra[i - w].tag
    <3>1. /\ i - w \in DOMAIN env.extra
          /\ ms[i] = Mirror(env.extra[i - w].tag, env.extra[i - w].port)
      BY <1>1, <2>2
    <3> QED BY <1>4, <3>1 DEF Mirror
  <2>3. ASSUME NEW i \in DOMAIN ms
        PROVE  i \in Nat /\ (i > w \/ (i = 1 /\ w = 1))
    BY <1>1, <1>2, <1>b, <2>3
  <2> QED BY <1>b, <2>1, <2>2, <2>3
<1>6. ASSUME NEW i \in DOMAIN tags PROVE tags[i] # primary
  BY <1>3, <1>4, <1>5
<1>7. ASSUME NEW i \in DOMAIN tags, NEW j \in DOMAIN tags, i # j, tags[i] = tags[j]
      PROVE  /\ tags[i] # env.wsTag
             /\ \E k, l \in DOMAIN env.extra :
                   k # l /\ env.extra[k].tag = tags[i] /\ env.extra[l].tag = tags[i]
  <2>1. i > w /\ j > w
    BY <1>3, <1>4, <1>5, <1>7
  <2>2. i - w # j - w
    BY <1>4, <1>5, <1>7, <1>b, <2>1
  <2>3. /\ i - w \in DOMAIN env.extra /\ j - w \in DOMAIN env.extra
        /\ tags[i] = env.extra[i - w].tag /\ tags[i] = env.extra[j - w].tag
    BY <1>4, <1>5, <1>7, <2>1
  <2>4. tags[i] # env.wsTag
    BY <1>3, <2>3
  <2> QED BY <2>2, <2>3, <2>4
<1> QED BY <1>6, <1>7 DEF SoundMirrors, tags, primary

(* The ports in use are those asked for (intEnvOr, parseExtraInbounds,     *)
(* Validate).                                                              *)
THEOREM PortsAlwaysAsked ==
    ASSUME NEW env \in Environments, Loads(env)
    PROVE  AskedPorts(env)
<1> DEFINE ms == MirrorsOf(SettingsOf(env))
           w  == IF env.wsTag = Unset THEN 0 ELSE 1
<1>1. /\ Len(ms) = w + Len(env.extra) /\ DOMAIN ms = 1..Len(ms)
      /\ w = 1 => ms[1] = Mirror(env.wsTag, IntEnvOr(env.wsPort, 0))
      /\ \A i \in DOMAIN ms : i > w =>
            /\ i - w \in DOMAIN env.extra
            /\ ms[i] = Mirror(env.extra[i - w].tag, env.extra[i - w].port)
  BY MirrorSlots
<1>2. Len(env.extra) \in Nat /\ DOMAIN env.extra = 1..Len(env.extra)
  BY DEF Environments
<1>3. /\ InRange(IntEnvOr(env.vlessPort, 443))
      /\ env.wsTag # Unset => InRange(IntEnvOr(env.wsPort, 0))
      /\ \A i \in DOMAIN env.extra :
            InRange(env.extra[i].port) /\ env.extra[i].tag # env.wsTag
  BY <1>2 DEF Loads, Valid, SettingsOf, ExtraInbounds, Mirror, Parses
<1>4. SettingsOf(env).vlessPort = IF env.vlessPort = Unset THEN 443 ELSE env.vlessPort
  BY <1>3, InRangeIsAsked, Zenon DEF SettingsOf
<1>b. w \in {0, 1} /\ (w = 1 <=> env.wsTag # Unset)
  OBVIOUS
<1> HIDE DEF ms, w
<1>5. ASSUME NEW i \in DOMAIN ms
      PROVE  InRange(ms[i].port) /\ (ms[i].tag = env.wsTag => ms[i].port = env.wsPort)
  <2>1. CASE i > w
    <3>1. /\ i - w \in DOMAIN env.extra
          /\ ms[i] = Mirror(env.extra[i - w].tag, env.extra[i - w].port)
      BY <1>1, <1>5, <2>1
    <3> QED BY <1>3, <3>1 DEF Mirror
  <2>2. CASE ~(i > w)
    <3>1. i = 1 /\ w = 1 /\ env.wsTag # Unset
      BY <1>1, <1>2, <1>5, <1>b, <2>2
    <3>2. ms[1].port = IntEnvOr(env.wsPort, 0) /\ InRange(ms[1].port)
      BY <1>1, <1>3, <3>1 DEF Mirror
    <3>3. IntEnvOr(env.wsPort, 0) = env.wsPort
      <4>1. CASE env.wsPort = Unset
        <5>1. IntEnvOr(env.wsPort, 0) = 0 /\ ~InRange(0)
          BY <4>1 DEF IntEnvOr, InRange
        <5> QED BY <1>3, <3>1, <5>1
      <4>2. CASE env.wsPort # Unset
        BY <1>3, <3>1, <4>2, InRangeIsAsked, Zenon
      <4> QED BY <4>1, <4>2
    <3> QED BY <3>1, <3>2, <3>3
  <2> QED BY <2>1, <2>2
<1> QED BY <1>4, <1>5 DEF AskedPorts, ms

LEMMA MCEnvironmentsAre == MCEnvironments \subseteq Environments
<1>1. UNION {[1..n -> ExtraEntries] : n \in 0..2} \subseteq Seq(ExtraEntries)
  <2>1. ASSUME NEW n \in 0..2, NEW s \in [1..n -> ExtraEntries]
        PROVE  s \in Seq(ExtraEntries)
    <3>1. n \in Nat
      OBVIOUS
    <3> QED
      BY <3>1, SeqDef
  <2> QED
    BY <2>1
<1> QED
  BY <1>1 DEF MCEnvironments, Environments

(* So a running process mirrors no inbound onto itself, and none twice but *)
(* what EXTRA_INBOUNDS repeats, in all the environments the run goes       *)
(* through (parseExtraInbounds, Validate, main).                           *)
THEOREM MirrorsAreSoundAlways == NodeSpec => []MirrorsAreSound
<1>1. MirrorsAreSound
  BY MCEnvironmentsAre, MirrorsAlwaysSound DEF MirrorsAreSound, AllMirrorsSound
<1> QED
  BY <1>1, PTL

(* And it uses the ports that it was given there (intEnvOr, Validate).     *)
THEOREM PortsAreAskedAlways == NodeSpec => []PortsAreAsked
<1>1. PortsAreAsked
  BY MCEnvironmentsAre, PortsAlwaysAsked DEF PortsAreAsked, AllPortsAsked
<1> QED
  BY <1>1, PTL
=============================================================================
