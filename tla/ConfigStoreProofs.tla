------------------------- MODULE ConfigStoreProofs -------------------------
(***************************************************************************)
(* Proofs about ConfigStore, for every set of names, ids, handlers and     *)
(* inbounds and every configured list of mirrors: its types, its safety    *)
(* invariants, and that it implements UserRegistry.                        *)
(***************************************************************************)
EXTENDS ConfigStoreInv, TLAPS

-----------------------------------------------------------------------------
(* Type correctness. *)

(* The list helpers of store.go return client lists. *)
LEMMA ListHelpersTyped ==
    ASSUME NEW list \in SUBSET Entry, NEW added \in SUBSET Entry,
           NEW names \in SUBSET Names, NEW name \in Names, NEW id \in UUIDs
    PROVE  /\ Without(list, names) \in SUBSET Entry
           /\ AddUsersToList(list, added) \in SUBSET Entry
           /\ RemoveUsersFromList(list, names) \in SUBSET Entry
           /\ RotateUserInList(list, name, id) \in SUBSET Entry
  BY DEF Without, AddUsersToList, RemoveUsersFromList, RotateUserInList, Entry

(* New users are users of the names asked for, with ids of the pool given. *)
LEMMA NewUsersTyped ==
    ASSUME NEW names \in SUBSET Names, NEW ids \in SUBSET UUIDs,
           NEW users \in NewUsers(names, ids)
    PROVE  users \in SUBSET Entry
  BY DEF NewUsers, Entry

LEMMA RequestNames ==
    ASSUME TypeOK, NEW h \in Handlers
    PROVE  op[h].names \in SUBSET Names
  BY DEF TypeOK, Requests, NoRequest

(* An early answer keeps the types. *)
LEMMA AnswerTyped ==
    ASSUME TypeOK, NEW h \in Handlers,
           NEW code \in {"ok", "notFound", "error", "restored", "rollbackFailed"},
           NEW users \in SUBSET Entry, Answer(h, code, users)
    PROVE  /\ lock' \in Handlers \cup {Free}
           /\ pc' \in [Handlers -> {"idle", "waiting", "write", "apply", "restart",
                                    "restore", "rerestart", "done"}]
           /\ op' \in [Handlers -> Requests \cup {NoRequest}]
           /\ work' \in [Handlers -> Work]
           /\ reply' \in [Handlers -> Reply]
<1>1. NoWork \in Work
  BY DEF NoWork, Work, Roster, NoUsers
<1>2. [code |-> code, users |-> users] \in Reply
  BY DEF Reply
<1> QED
  BY <1>1, <1>2 DEF TypeOK, Answer

LEMMA AnswerUnchangedTyped ==
    ASSUME TypeOK, NEW h \in Handlers,
           NEW code \in {"ok", "notFound", "error", "restored", "rollbackFailed"},
           NEW users \in SUBSET Entry, AnswerUnchanged(h, code, users)
    PROVE  TypeOK'
  BY AnswerTyped DEF TypeOK, XrayTypeOK, AnswerUnchanged

LEMMA PersistAndApplyTyped ==
    ASSUME TypeOK, NEW h \in Handlers, NEW updated \in Roster,
           NEW removed \in SUBSET Names, NEW added \in SUBSET Entry,
           PersistAndApply(h, updated, removed, added)
    PROVE  TypeOK'
<1>1. work' \in [Handlers -> Work]
  BY DEF TypeOK, XrayTypeOK, PersistAndApply, Work
<1>2. IdsOf(added) \subseteq UUIDs
  BY DEF IdsOf, Entry
<1> QED
  BY <1>1, <1>2 DEF TypeOK, XrayTypeOK, PersistAndApply

LEMMA BeginTyped ==
    ASSUME TypeOK, NEW h \in Handlers, Begin(h)
    PROVE  TypeOK'
<1>1. file[Primary] \in SUBSET Entry
  BY InboundsAssumption DEF TypeOK, XrayTypeOK, Roster
<1>2. CASE LoadFails(h)
  BY <1>2, AnswerUnchangedTyped DEF LoadFails
<1>3. CASE List(h)
  BY <1>1, <1>3, AnswerUnchangedTyped DEF List
<1>4. CASE AddBulk(h)
  <2> DEFINE fresh == op[h].names \ NamesOf(file[Primary])
  <2>1. CASE AnswerUnchanged(h, "ok", {})
    BY <2>1, AnswerUnchangedTyped
  <2>2. ASSUME NEW added \in NewUsers(fresh, UUIDs \ issued),
               PersistAndApply(h, [t \in Inbounds |-> AddUsersToList(file[t], added)], {}, added)
        PROVE  TypeOK'
    <3>1. added \in SUBSET Entry
      BY RequestNames, NewUsersTyped
    <3>2. [t \in Inbounds |-> AddUsersToList(file[t], added)] \in Roster
      BY <3>1, ListHelpersTyped DEF TypeOK, XrayTypeOK, Roster, AddUsersToList
    <3> QED
      BY <2>2, <3>1, <3>2, PersistAndApplyTyped
  <2> QED
    BY <1>4, <2>1, <2>2 DEF AddBulk
<1>5. CASE Delete(h)
  <2>1. CASE AnswerUnchanged(h, "notFound", {})
    BY <2>1, AnswerUnchangedTyped
  <2>2. [t \in Inbounds |-> RemoveUsersFromList(file[t], op[h].names)] \in Roster
    BY RequestNames DEF TypeOK, XrayTypeOK, Roster, RemoveUsersFromList, Without
  <2> QED
    BY <1>5, <2>1, <2>2, RequestNames, PersistAndApplyTyped DEF Delete
<1>6. CASE Rotate(h)
  <2>1. CASE AnswerUnchanged(h, "notFound", {})
    BY <2>1, AnswerUnchangedTyped
  <2>2. ASSUME NEW name \in op[h].names, NEW id \in UUIDs \ issued,
               PersistAndApply(h, [t \in Inbounds |-> RotateUserInList(file[t], name, id)],
                               {name}, {[name |-> name, uuid |-> id]})
        PROVE  TypeOK'
    <3>1. name \in Names
      BY RequestNames
    <3>2. {[name |-> name, uuid |-> id]} \in SUBSET Entry
      BY <3>1 DEF Entry
    <3>3. [t \in Inbounds |-> RotateUserInList(file[t], name, id)] \in Roster
      BY <3>2 DEF TypeOK, XrayTypeOK, Roster, RotateUserInList, Without
    <3> QED
      BY <2>2, <3>1, <3>2, <3>3, PersistAndApplyTyped
  <2> QED
    BY <1>6, <2>1, <2>2 DEF Rotate
<1>7. CASE DeleteAll(h)
  <2>1. CASE AnswerUnchanged(h, "ok", {})
    BY <2>1, AnswerUnchangedTyped
  <2>2. NoUsers \in Roster
    BY DEF NoUsers, Roster
  <2>3. NamesOf(file[Primary]) \in SUBSET Names
    BY <1>1 DEF NamesOf, Entry
  <2> QED
    BY <1>7, <2>1, <2>2, <2>3, PersistAndApplyTyped DEF DeleteAll
<1> QED
  BY <1>2, <1>3, <1>4, <1>5, <1>6, <1>7 DEF Begin

(* The commands of systemctl and `xray api` keep the types of the process. *)
LEMMA XrayTyped ==
    ASSUME TypeOK,
           \/ Restart \/ RestartFails \/ Start \/ StartFails \/ Stop \/ StopFails
           \/ Boots \/ BootFails \/ Dies
    PROVE  /\ xray' \in {"up", "booting", "down"}
           /\ live' \in Roster
<1>1. NoUsers \in Roster
  BY DEF NoUsers, Roster
<1> QED
  BY <1>1 DEF TypeOK, XrayTypeOK, Restart, RestartFails, Start, StartFails, Stop, StopFails,
              Boots, BootFails, Dies

LEMMA CommandsTyped ==
    ASSUME TypeOK, NEW tag, NEW names \in SUBSET Names, NEW added \in SUBSET Entry,
           \/ RemoveUsers(tag, names) \/ RemoveUsersFails(tag, names)
           \/ AddUsers(tag, added) \/ AddUsersFails(tag, added)
    PROVE  live' \in Roster
<1>1. \A t \in Inbounds : live[t] \subseteq Entry
  BY DEF TypeOK, XrayTypeOK, Roster
<1>2. ASSUME NEW gone, live' = [live EXCEPT ![tag] = Without(@, gone)]
      PROVE  live' \in Roster
  BY <1>1, <1>2 DEF TypeOK, XrayTypeOK, Roster, Without
<1>3. ASSUME NEW in \in SUBSET added, live' = [live EXCEPT ![tag] = @ \cup in]
      PROVE  live' \in Roster
  BY <1>1, <1>3 DEF TypeOK, XrayTypeOK, Roster
<1>4. \A e \in SUBSET (added \ Refused(tag, added)) : e \in SUBSET added
  OBVIOUS
<1> QED
  BY <1>2, <1>3, <1>4 DEF RemoveUsers, RemoveUsersFails, AddUsers, AddUsersFails

LEMMA ProceedTyped ==
    ASSUME TypeOK, NEW h \in Handlers, Proceed(h)
    PROVE  TypeOK'
<1>1. /\ work[h] \in Work
      /\ work[h].removed \in SUBSET Names
      /\ work[h].added \in SUBSET Entry
      /\ work[h].original \in Roster
      /\ work[h].updated \in Roster
  BY DEF TypeOK, Work
<1>2. Result(h) \in SUBSET Entry
  BY <1>1, InboundsAssumption DEF Result, Roster
<1>3. ASSUME Succeed(h), xray' \in {"up", "booting", "down"}, live' \in Roster
      PROVE  TypeOK'
  <2>1. IdsOf(work[h].original[Primary]) \subseteq UUIDs
    BY <1>1, InboundsAssumption DEF Roster, IdsOf, Entry
  <2> QED
    BY <1>2, <1>3, <2>1, AnswerTyped DEF Succeed, TypeOK, XrayTypeOK
<1>4. ASSUME RollbackFails(h), xray' \in {"up", "booting", "down"}, live' \in Roster
      PROVE  TypeOK'
  BY <1>4, AnswerTyped DEF RollbackFails, TypeOK, XrayTypeOK
<1>5. CASE Write(h)
  BY <1>1, <1>5 DEF Write, Goto, TypeOK, XrayTypeOK
<1>6. CASE WriteFails(h)
  BY <1>6, AnswerUnchangedTyped DEF WriteFails
<1>7. CASE Remove(h)
  <2>1. PICK s \in Slots :
           /\ NextRemoval(h, s)
           /\ \/ /\ RemoveUsers(TagOf(s), work[h].removed)
                 /\ work' = [work EXCEPT ![h].toRemove = @ \ {s}]
                 /\ UNCHANGED pc
              \/ /\ RemoveUsersFails(TagOf(s), work[h].removed)
                 /\ Goto(h, "restore")
                 /\ UNCHANGED work
           /\ UNCHANGED <<file, xray, liveAPI, lock, op, reply, issued, revoked, adrift>>
    BY <1>7 DEF Remove
  <2>2. live' \in Roster
    BY <1>1, <2>1, CommandsTyped
  <2>3. work' \in [Handlers -> Work]
    BY <2>1 DEF TypeOK, Work
  <2> QED
    BY <2>1, <2>2, <2>3 DEF TypeOK, XrayTypeOK, Goto
<1>8. CASE Add(h)
  <2>1. PICK s \in Slots :
           /\ NextAddition(h, s)
           /\ \/ /\ AddUsers(TagOf(s), work[h].added)
                 /\ work' = [work EXCEPT ![h].toAdd = @ \ {s}]
                 /\ UNCHANGED pc
              \/ /\ AddUsersFails(TagOf(s), work[h].added)
                 /\ Goto(h, "restore")
                 /\ UNCHANGED work
           /\ UNCHANGED <<file, xray, liveAPI, lock, op, reply, issued, revoked, adrift>>
    BY <1>8 DEF Add
  <2>2. live' \in Roster
    BY <1>1, <2>1, CommandsTyped
  <2>3. work' \in [Handlers -> Work]
    BY <2>1 DEF TypeOK, Work
  <2> QED
    BY <2>1, <2>2, <2>3 DEF TypeOK, XrayTypeOK, Goto
<1>9. CASE Applied(h)
  BY <1>3, <1>9 DEF Applied, TypeOK, XrayTypeOK
<1>10. CASE RestartXray(h)
  <2>1. xray' \in {"up", "booting", "down"} /\ live' \in Roster
    BY <1>10, XrayTyped DEF RestartXray
  <2> QED
    BY <1>3, <1>10, <2>1 DEF RestartXray, Goto, TypeOK, XrayTypeOK
<1>11. CASE Restore(h)
  BY <1>1, <1>11 DEF Restore, Goto, TypeOK, XrayTypeOK
<1>12. CASE RestoreFails(h)
  BY <1>4, <1>12 DEF RestoreFails, TypeOK, XrayTypeOK
<1>13. CASE RestartRestored(h)
  <2>1. xray' \in {"up", "booting", "down"} /\ live' \in Roster
    BY <1>13, XrayTyped DEF RestartRestored
  <2>2. ASSUME Answer(h, "restored", {}), UNCHANGED <<file, liveAPI, issued, revoked, adrift>>
        PROVE  TypeOK'
    BY <2>1, <2>2, AnswerTyped DEF TypeOK, XrayTypeOK
  <2> QED
    BY <1>4, <1>13, <2>1, <2>2 DEF RestartRestored
<1> QED
  BY <1>5, <1>6, <1>7, <1>8, <1>9, <1>10, <1>11, <1>12, <1>13 DEF Proceed

LEMMA TypeInit == Init => TypeOK
<1> SUFFICES ASSUME Init
             PROVE  TypeOK
  OBVIOUS
<1>1. PICK list \in InitialUsers :
         /\ file = [t \in Inbounds |-> list]
         /\ issued = IdsOf(list)
  BY DEF Init
<1>2. list \in SUBSET Entry
  BY InitialUsersAssumption
<1>3. NoWork \in Work /\ NoReply \in Reply
  BY DEF NoWork, Work, Roster, NoUsers, NoReply, Reply
<1>4. issued \subseteq UUIDs
  BY <1>1, <1>2 DEF IdsOf, Entry
<1>5. file \in Roster
  BY <1>1, <1>2 DEF Roster
<1> QED
  BY <1>3, <1>4, <1>5 DEF Init, TypeOK, XrayTypeOK

LEMMA TypeStep == TypeOK /\ [Next]_vars => TypeOK'
<1> SUFFICES ASSUME TypeOK, [Next]_vars
             PROVE  TypeOK'
  OBVIOUS
<1>1. ASSUME NEW h \in Handlers, Call(h)
      PROVE  TypeOK'
  BY <1>1 DEF Call, TypeOK, XrayTypeOK
<1>2. ASSUME NEW h \in Handlers, Return(h)
      PROVE  TypeOK'
  <2>1. NoReply \in Reply
    BY DEF NoReply, Reply
  <2> QED
    BY <1>2, <2>1 DEF Return, TypeOK, XrayTypeOK
<1>3. CASE XrayBoots
  BY <1>3, XrayTyped DEF XrayBoots, storeVars, TypeOK, XrayTypeOK
<1>4. CASE XrayFails
  BY <1>4, XrayTyped DEF XrayFails, storeVars, TypeOK, XrayTypeOK
<1>5. CASE ServiceAction
  BY <1>5, XrayTyped DEF ServiceAction, storeVars, TypeOK, XrayTypeOK
<1>6. CASE UNCHANGED vars
  BY <1>6 DEF vars, storeVars, TypeOK, XrayTypeOK
<1> QED
  BY <1>1, <1>2, <1>3, <1>4, <1>5, <1>6, BeginTyped, ProceedTyped DEF Next, Step

(* TypeOK holds of every behaviour of the store. *)
THEOREM TypeCorrect == Spec => []TypeOK
  BY TypeInit, TypeStep, PTL DEF Spec

-----------------------------------------------------------------------------
(* The inductive invariant: the steps that start a mutation. *)

LEMMA NewUsersFacts ==
    ASSUME NEW names, NEW ids, NEW users \in NewUsers(names, ids)
    PROVE  /\ NamesOf(users) = names
           /\ IdsOf(users) \subseteq ids
           /\ WellFormed(users)
<1>1. PICK id \in [names -> ids] :
         /\ \A m, n \in names : id[m] = id[n] => m = n
         /\ users = {[name |-> n, uuid |-> id[n]] : n \in names}
  BY DEF NewUsers
<1>2. \A u \in users : \E n \in names : u = [name |-> n, uuid |-> id[n]]
  BY <1>1
<1>3. \A n \in names : \E u \in users : u.name = n
  <2> SUFFICES ASSUME NEW n \in names
               PROVE  \E u \in users : u.name = n
    OBVIOUS
  <2>1. [name |-> n, uuid |-> id[n]] \in users
    BY <1>1
  <2> QED
    BY <2>1
<1>4. NamesOf(users) = names
  BY <1>2, <1>3 DEF NamesOf
<1>5. IdsOf(users) \subseteq ids
  BY <1>1, <1>2 DEF IdsOf
<1>6. WellFormed(users)
  <2> SUFFICES ASSUME NEW d \in users, NEW e \in users,
                      d.name = e.name \/ d.uuid = e.uuid
               PROVE  d = e
    BY DEF WellFormed
  <2>1. PICK m \in names : d = [name |-> m, uuid |-> id[m]]
    BY <1>2
  <2>2. PICK n \in names : e = [name |-> n, uuid |-> id[n]]
    BY <1>2
  <2>3. m = n
    BY <1>1, <2>1, <2>2
  <2> QED
    BY <2>1, <2>2, <2>3
<1> QED
  BY <1>4, <1>5, <1>6

(* Two well-formed lists without a name or an id in common may be joined. *)
LEMMA JoinWellFormed ==
    ASSUME NEW a, NEW b, WellFormed(a), WellFormed(b),
           NamesOf(a) \cap NamesOf(b) = {}, IdsOf(a) \cap IdsOf(b) = {}
    PROVE  WellFormed(a \cup b)
  BY DEF WellFormed, NamesOf, IdsOf

LEMMA WithoutWellFormed ==
    ASSUME NEW list, NEW names, WellFormed(list)
    PROVE  /\ WellFormed(Without(list, names))
           /\ IdsOf(Without(list, names)) \subseteq IdsOf(list)
           /\ NamesOf(Without(list, names)) \cap names = {}
  BY DEF WellFormed, Without, IdsOf, NamesOf

(* While the mutex is free nobody mutates, and Xray agrees with the file.  *)
LEMMA FreeFacts ==
    ASSUME TypeOK, IInv, lock = Free
    PROVE  \A g \in Handlers : lock # g /\ pc[g] \notin Mutating /\ work[g] = NoWork
  BY FreeAssumption DEF IInv, Mutex

(* A mutation that starts from the agreed state with a sound delta. *)
LEMMA PersistInv ==
    ASSUME TypeOK, IInv, NEW h \in Handlers, lock = Free,
           NEW updated \in Roster, NEW removed \in SUBSET Names, NEW added \in SUBSET Entry,
           PersistAndApply(h, updated, removed, added),
           Uniform(updated),
           updated[Primary] = Without(file[Primary], removed) \cup added,
           removed = {} \/ NamesOf(added) \subseteq removed,
           IdsOf(added) \cap issued = {}
    PROVE  IInv'
<1>1. \A g \in Handlers : lock # g /\ pc[g] \notin Mutating /\ work[g] = NoWork
  BY FreeFacts
<1>2. /\ lock' = h
      /\ pc' = [pc EXCEPT ![h] = "write"]
      /\ issued' = issued \cup IdsOf(added)
      /\ UNCHANGED <<file, xray, live, revoked, adrift>>
  BY DEF PersistAndApply
<1>3. /\ work'[h].original = file
      /\ work'[h].updated = updated
      /\ work'[h].removed = removed
      /\ work'[h].added = added
      /\ work'[h].toRemove = IF removed = {} THEN {} ELSE Present
      /\ work'[h].toAdd = IF added = {} THEN {} ELSE Present
  BY DEF PersistAndApply, TypeOK
<1>4. \A g \in Handlers : g # h => work'[g] = work[g] /\ pc'[g] = pc[g]
  BY DEF PersistAndApply, TypeOK
<1>5. pc'[h] = "write"
  BY <1>2 DEF TypeOK
<1>6. Mutex'
  BY <1>1, <1>2, <1>4, <1>5 DEF Mutex, Mutating
<1>7. FileInv'
  BY <1>2 DEF IInv, FileInv, Uniform
<1>8. Sound(work[h])'
  BY <1>2, <1>3 DEF IInv, FileInv, Sound, Kept, Uniform
<1>9. Untouched(work[h])' /\ Remaining(work[h])'
  BY <1>3 DEF Untouched, Remaining
<1>10. WorkInv'
  BY <1>2, <1>3, <1>5, <1>8, <1>9 DEF WorkInv, FileOf
<1>11. ASSUME xray = "up", ~adrift
       PROVE  live = file /\ Midway(work[h])'
  <2>1. live = file
    BY <1>11 DEF IInv, LiveInv
  <2>2. Without(file[Primary], removed) \subseteq file[Primary]
    BY DEF Without
  <2> QED
    BY <1>2, <1>3, <2>1, <2>2 DEF Midway, Between, Kept, IInv, FileInv, Uniform
<1>12. LiveInv'
  BY <1>2, <1>5, <1>11, FreeAssumption DEF IInv, LiveInv
<1> QED
  BY <1>6, <1>7, <1>10, <1>12 DEF IInv

(* Any return: the mutex is free again and nothing is under way. *)
LEMMA AnswerInv ==
    ASSUME TypeOK, IInv, NEW h \in Handlers, lock \in {Free, h},
           NEW code, NEW users, Answer(h, code, users),
           FileInv',
           (xray # "up" => live = NoUsers)',
           (xray = "up" /\ ~adrift => live = file)'
    PROVE  IInv'
<1>1. \A g \in Handlers : g # h => lock # g /\ pc[g] \notin Mutating /\ work[g] = NoWork
  BY FreeAssumption DEF IInv, Mutex
<1>2. /\ lock' = Free
      /\ pc'[h] = "done" /\ work'[h] = NoWork
      /\ \A g \in Handlers : g # h => pc'[g] = pc[g] /\ work'[g] = work[g]
  BY DEF Answer, TypeOK
<1>3. Mutex'
  BY <1>1, <1>2, FreeAssumption DEF Mutex, Mutating
<1>4. WorkInv' /\ LiveInv'
  BY <1>2, FreeAssumption DEF WorkInv, LiveInv
<1> QED
  BY <1>3, <1>4 DEF IInv

LEMMA EarlyAnswerInv ==
    ASSUME TypeOK, IInv, NEW h \in Handlers, lock = Free,
           NEW code, NEW users, AnswerUnchanged(h, code, users)
    PROVE  IInv'
<1>1. FileInv'
  BY DEF AnswerUnchanged, IInv, FileInv, Uniform
<1>2. (xray # "up" => live = NoUsers)' /\ (xray = "up" /\ ~adrift => live = file)'
  BY DEF AnswerUnchanged, IInv, LiveInv
<1> QED
  BY <1>1, <1>2, AnswerInv DEF AnswerUnchanged

LEMMA BeginInv ==
    ASSUME TypeOK, IInv, NEW h \in Handlers, Begin(h)
    PROVE  IInv'
<1>1. lock = Free
  BY DEF Begin, LoadFails, List, AddBulk, Delete, Rotate, DeleteAll, Acquires
<1>2. /\ Uniform(file)
      /\ IdsOf(file[Primary]) \subseteq issued
      /\ file[Primary] \in SUBSET Entry
  BY InboundsAssumption DEF IInv, FileInv, TypeOK, XrayTypeOK, Roster
<1>3. CASE LoadFails(h)
  BY <1>1, <1>3, EarlyAnswerInv DEF LoadFails
<1>4. CASE List(h)
  BY <1>1, <1>4, EarlyAnswerInv DEF List
<1>5. CASE AddBulk(h)
  <2> DEFINE fresh == op[h].names \ NamesOf(file[Primary])
  <2>1. CASE AnswerUnchanged(h, "ok", {})
    BY <1>1, <2>1, EarlyAnswerInv
  <2>2. ASSUME NEW added \in NewUsers(fresh, UUIDs \ issued),
               PersistAndApply(h, [t \in Inbounds |-> AddUsersToList(file[t], added)], {}, added)
        PROVE  IInv'
    <3> DEFINE updated == [t \in Inbounds |-> AddUsersToList(file[t], added)]
    <3>1. /\ NamesOf(added) = fresh
          /\ IdsOf(added) \subseteq UUIDs \ issued
          /\ WellFormed(added)
      BY NewUsersFacts
    <3>2. added \in SUBSET Entry
      BY RequestNames, NewUsersTyped
    <3>3. updated \in Roster
      BY <3>2, ListHelpersTyped DEF TypeOK, XrayTypeOK, Roster, AddUsersToList
    <3>4. AddUsersToList(file[Primary], added) = file[Primary] \cup added
      BY <3>1 DEF AddUsersToList, NamesOf
    <3>5. WellFormed(file[Primary] \cup added)
      BY <1>2, <3>1, JoinWellFormed DEF Uniform
    <3>6. Uniform(updated)
      BY <1>2, <3>4, <3>5, InboundsAssumption DEF Uniform
    <3>7. updated[Primary] = Without(file[Primary], {}) \cup added
      BY <3>4, InboundsAssumption DEF Without
    <3> QED
      BY <1>1, <2>2, <3>1, <3>2, <3>3, <3>6, <3>7, PersistInv
  <2> QED
    BY <1>5, <2>1, <2>2 DEF AddBulk
<1>6. CASE Delete(h)
  <2>1. CASE AnswerUnchanged(h, "notFound", {})
    BY <1>1, <2>1, EarlyAnswerInv
  <2>2. CASE PersistAndApply(h, [t \in Inbounds |-> RemoveUsersFromList(file[t], op[h].names)],
                             op[h].names, {})
    <3> DEFINE updated == [t \in Inbounds |-> RemoveUsersFromList(file[t], op[h].names)]
    <3>1. updated \in Roster
      BY RequestNames DEF TypeOK, XrayTypeOK, Roster, RemoveUsersFromList, Without
    <3>2. Uniform(updated)
      BY <1>2, WithoutWellFormed, InboundsAssumption DEF Uniform, RemoveUsersFromList
    <3>3. updated[Primary] = Without(file[Primary], op[h].names) \cup {}
      BY InboundsAssumption DEF RemoveUsersFromList
    <3>4. NamesOf({}) = {} /\ IdsOf({}) = {}
      BY DEF NamesOf, IdsOf
    <3> HIDE DEF updated
    <3> QED
      BY <1>1, <2>2, <3>1, <3>2, <3>3, <3>4, RequestNames, PersistInv DEF updated
  <2> QED
    BY <1>6, <2>1, <2>2 DEF Delete
<1>7. CASE Rotate(h)
  <2>1. CASE AnswerUnchanged(h, "notFound", {})
    BY <1>1, <2>1, EarlyAnswerInv
  <2>2. ASSUME NEW name \in op[h].names, NEW id \in UUIDs \ issued,
               PersistAndApply(h, [t \in Inbounds |-> RotateUserInList(file[t], name, id)],
                               {name}, {[name |-> name, uuid |-> id]})
        PROVE  IInv'
    <3> DEFINE updated == [t \in Inbounds |-> RotateUserInList(file[t], name, id)]
               added == {[name |-> name, uuid |-> id]}
    <3>1. name \in Names
      BY RequestNames
    <3>2. added \in SUBSET Entry
      BY <3>1 DEF Entry
    <3>3. updated \in Roster
      BY <3>2 DEF TypeOK, XrayTypeOK, Roster, RotateUserInList, Without
    <3>4. NamesOf(added) = {name} /\ IdsOf(added) = {id} /\ WellFormed(added)
      BY DEF NamesOf, IdsOf, WellFormed
    <3>5. WellFormed(Without(file[Primary], {name}) \cup added)
      <4> DEFINE kept == Without(file[Primary], {name})
      <4> HIDE DEF kept, added
      <4>1. /\ WellFormed(kept)
            /\ NamesOf(kept) \cap {name} = {}
            /\ IdsOf(kept) \subseteq issued
        BY <1>2, WithoutWellFormed DEF Uniform, kept
      <4>2. NamesOf(kept) \cap NamesOf(added) = {} /\ IdsOf(kept) \cap IdsOf(added) = {}
        BY <3>4, <4>1
      <4>3. WellFormed(kept \cup added)
        BY <3>4, <4>1, <4>2, JoinWellFormed
      <4> QED
        BY <4>3 DEF kept
    <3>6. Uniform(updated)
      BY <1>2, <3>5, InboundsAssumption DEF Uniform, RotateUserInList
    <3>7. updated[Primary] = Without(file[Primary], {name}) \cup added
      BY InboundsAssumption DEF RotateUserInList
    <3>8. {name} \in SUBSET Names /\ NamesOf(added) \subseteq {name} /\ IdsOf(added) \cap issued = {}
      BY <3>1, <3>4
    <3> QED
      BY <1>1, <2>2, <3>2, <3>3, <3>6, <3>7, <3>8, PersistInv
  <2> QED
    BY <1>7, <2>1, <2>2 DEF Rotate
<1>8. CASE DeleteAll(h)
  <2>1. CASE AnswerUnchanged(h, "ok", {})
    BY <1>1, <2>1, EarlyAnswerInv
  <2>2. CASE PersistAndApply(h, NoUsers, NamesOf(file[Primary]), {})
    <3>1. NoUsers \in Roster /\ NamesOf(file[Primary]) \in SUBSET Names
      BY <1>2 DEF NoUsers, Roster, NamesOf, Entry
    <3>2. Uniform(NoUsers)
      BY InboundsAssumption DEF Uniform, NoUsers, WellFormed
    <3>3. NoUsers[Primary] = Without(file[Primary], NamesOf(file[Primary])) \cup {}
      BY InboundsAssumption DEF NoUsers, Without, NamesOf
    <3>4. NamesOf({}) = {} /\ IdsOf({}) = {}
      BY DEF NamesOf, IdsOf
    <3> QED
      BY <1>1, <2>2, <3>1, <3>2, <3>3, <3>4, PersistInv
  <2> QED
    BY <1>8, <2>1, <2>2 DEF DeleteAll
<1> QED
  BY <1>3, <1>4, <1>5, <1>6, <1>7, <1>8 DEF Begin

-----------------------------------------------------------------------------
(* The inductive invariant: the steps of persistAndApply. *)

LEMMA HolderFacts ==
    ASSUME TypeOK, IInv, NEW h \in Handlers, pc[h] \in Mutating
    PROVE  /\ lock = h
           /\ Sound(work[h])
           /\ Remaining(work[h])
           /\ pc[h] = "write" => Untouched(work[h])
           /\ file = FileOf(h)
           /\ \A g \in Handlers : g # h => lock # g
  BY DEF IInv, Mutex, WorkInv

LEMMA SoundFacts ==
    ASSUME NEW w, Sound(w)
    PROVE  /\ Kept(w) \subseteq w.original[Primary]
           /\ Kept(w) \subseteq w.updated[Primary]
           /\ w.added \subseteq w.updated[Primary]
           /\ IdsOf(w.updated[Primary]) \subseteq issued \ revoked
           /\ w.removed = {} => w.original[Primary] \subseteq w.updated[Primary]
           /\ \A e \in Kept(w) : e.name \notin w.removed
           /\ \A e \in w.original[Primary] : e.name \notin w.removed => e \in Kept(w)
  BY DEF Sound, Kept, Without, IdsOf

(* A step of the holder inside persistAndApply. *)
LEMMA StayInv ==
    ASSUME TypeOK, IInv, NEW h \in Handlers, pc[h] \in Mutating,
           UNCHANGED <<lock, issued, revoked>>,
           pc'[h] \in Mutating, pc'[h] # "write",
           \A g \in Handlers : g # h => pc'[g] = pc[g] /\ work'[g] = work[g],
           /\ work'[h].original = work[h].original
           /\ work'[h].updated = work[h].updated
           /\ work'[h].removed = work[h].removed
           /\ work'[h].added = work[h].added,
           Remaining(work[h])',
           file' = FileOf(h)',
           (xray # "up" => live = NoUsers)',
           (xray = "up" /\ ~adrift =>
               Midway(work[h]) /\ (pc[h] = "apply" => Done(work[h])))'
    PROVE  IInv'
<1>1. /\ lock = h
      /\ Sound(work[h])
      /\ \A g \in Handlers : g # h => lock # g
  BY HolderFacts
<1>2. Mutex'
  BY <1>1 DEF IInv, Mutex
<1>3. Sound(work[h])'
  BY <1>1 DEF Sound, Kept, Uniform
<1>4. WorkInv'
  BY <1>1, <1>3 DEF WorkInv
<1>5. FileInv'
  <2>1. \/ file' = work[h].original
        \/ file' = work[h].updated
    BY DEF FileOf
  <2>2. IdsOf(work[h].updated[Primary]) \subseteq issued \ revoked
    BY <1>1, SoundFacts
  <2> QED
    BY <1>1, <2>1, <2>2 DEF FileInv, Sound, IInv, Uniform
<1>6. LiveInv'
  BY <1>1, FreeAssumption DEF LiveInv
<1> QED
  BY <1>2, <1>4, <1>5, <1>6 DEF IInv

(* Between is all that LiveInv says of Xray outside of "apply". *)
LEMMA MidwayFacts ==
    ASSUME TypeOK, IInv, NEW h \in Handlers, pc[h] \in Mutating
    PROVE  /\ xray # "up" => live = NoUsers
           /\ xray = "up" /\ ~adrift =>
                 Midway(work[h]) /\ (pc[h] = "apply" => Done(work[h]))
           /\ xray = "up" /\ ~adrift /\ pc[h] = "write" => live = file
  BY HolderFacts DEF IInv, LiveInv

LEMMA WriteInv ==
    ASSUME TypeOK, IInv, NEW h \in Handlers, Write(h)
    PROVE  IInv'
<1>1. pc[h] = "write" /\ pc[h] \in Mutating
  BY DEF Write, Mutating
<1>2. /\ file' = work[h].updated
      /\ pc'[h] \in {"apply", "restart"}
      /\ \A g \in Handlers : g # h => pc'[g] = pc[g]
      /\ UNCHANGED <<xray, live, lock, work, issued, revoked, adrift>>
  BY DEF Write, Goto, TypeOK
<1>3. file' = FileOf(h)'
  BY <1>2 DEF FileOf
<1>4. Remaining(work[h])'
  BY <1>1, <1>2, HolderFacts DEF Remaining
<1>5. ASSUME xray = "up", ~adrift
      PROVE  Done(work[h])
  <2>1. live = work[h].original /\ Sound(work[h]) /\ Untouched(work[h])
    BY <1>1, <1>5, HolderFacts, MidwayFacts DEF FileOf
  <2>2. \A s \in Present : live[TagOf(s)] = work[h].original[Primary]
    BY <2>1 DEF Sound, Uniform, Present
  <2>3. ASSUME NEW s \in Present, s \notin work[h].toRemove
        PROVE  live[TagOf(s)] \subseteq work[h].updated[Primary]
    BY <2>1, <2>2, <2>3, SoundFacts DEF Untouched
  <2>4. ASSUME NEW s \in Present, s \notin work[h].toAdd
        PROVE  work[h].added \subseteq live[TagOf(s)]
    BY <2>1, <2>4 DEF Untouched
  <2> QED
    BY <2>3, <2>4 DEF Done
<1>6. (xray = "up" /\ ~adrift => Midway(work[h]) /\ (pc[h] = "apply" => Done(work[h])))'
  BY <1>1, <1>2, <1>5, MidwayFacts DEF Midway, Between, Kept, Done
<1> QED
  BY <1>1, <1>2, <1>3, <1>4, <1>6, MidwayFacts, StayInv DEF Mutating

LEMMA WriteFailsInv ==
    ASSUME TypeOK, IInv, NEW h \in Handlers, WriteFails(h)
    PROVE  IInv'
<1>1. pc[h] = "write" /\ pc[h] \in Mutating
  BY DEF WriteFails, Mutating
<1>2. FileInv'
  BY DEF WriteFails, AnswerUnchanged, IInv, FileInv, Uniform
<1>3. (xray # "up" => live = NoUsers)' /\ (xray = "up" /\ ~adrift => live = file)'
  BY <1>1, MidwayFacts DEF WriteFails, AnswerUnchanged
<1> QED
  BY <1>1, <1>2, <1>3, HolderFacts, AnswerInv DEF WriteFails, AnswerUnchanged

LEMMA RestoreInv ==
    ASSUME TypeOK, IInv, NEW h \in Handlers, Restore(h)
    PROVE  IInv'
<1>1. pc[h] = "restore" /\ pc[h] \in Mutating
  BY DEF Restore, Mutating
<1>2. /\ file' = work[h].original
      /\ pc'[h] = "rerestart"
      /\ \A g \in Handlers : g # h => pc'[g] = pc[g]
      /\ UNCHANGED <<xray, live, lock, work, issued, revoked, adrift>>
  BY DEF Restore, Goto, TypeOK
<1>3. file' = FileOf(h)'
  BY <1>2 DEF FileOf
<1>4. Remaining(work[h])'
  BY <1>1, <1>2, HolderFacts DEF Remaining
<1>5. (xray = "up" /\ ~adrift => Midway(work[h]) /\ (pc[h] = "apply" => Done(work[h])))'
  BY <1>1, <1>2, MidwayFacts DEF Midway, Between, Kept
<1> QED
  BY <1>1, <1>2, <1>3, <1>4, <1>5, MidwayFacts, StayInv DEF Mutating

(* A call of `xray api` touches one inbound, and nothing while Xray is not *)
(* up.                                                                     *)
LEMMA RemovalOfUsers ==
    ASSUME TypeOK, NEW tag \in Inbounds, NEW names,
           RemoveUsers(tag, names) \/ RemoveUsersFails(tag, names)
    PROVE  \E gone \in SUBSET names :
              /\ \A t \in Inbounds :
                    live'[t] = IF t = tag THEN Without(live[tag], gone) ELSE live[t]
              /\ RemoveUsers(tag, names) => gone = names
              /\ xray # "up" /\ live = NoUsers => live' = NoUsers
<1>1. CASE RemoveUsers(tag, names)
  <2>1. \A t \in Inbounds :
          live'[t] = IF t = tag THEN Without(live[tag], names) ELSE live[t]
    BY <1>1 DEF RemoveUsers, TypeOK, XrayTypeOK, Roster
  <2> QED
    BY <1>1, <2>1 DEF RemoveUsers
<1>2. CASE ~RemoveUsers(tag, names)
  <2>1. PICK gone \in (IF xray = "up" THEN SUBSET names ELSE {{}}) :
           live' = [live EXCEPT ![tag] = Without(@, gone)]
    BY <1>2 DEF RemoveUsersFails
  <2>2. \A t \in Inbounds :
          live'[t] = IF t = tag THEN Without(live[tag], gone) ELSE live[t]
    BY <2>1 DEF TypeOK, XrayTypeOK, Roster
  <2>3. xray # "up" /\ live = NoUsers => live' = NoUsers
    BY <2>1 DEF NoUsers, Without
  <2> QED
    BY <1>2, <2>1, <2>2, <2>3
<1> QED
  BY <1>1, <1>2

LEMMA AdditionOfUsers ==
    ASSUME TypeOK, NEW tag \in Inbounds, NEW added,
           AddUsers(tag, added) \/ AddUsersFails(tag, added)
    PROVE  \E in \in SUBSET added :
              /\ \A t \in Inbounds :
                    live'[t] = IF t = tag THEN live[tag] \cup in ELSE live[t]
              /\ AddUsers(tag, added) => in = added
              /\ xray # "up" /\ live = NoUsers => live' = NoUsers
<1>1. CASE AddUsers(tag, added)
  <2>1. \A t \in Inbounds :
          live'[t] = IF t = tag THEN live[tag] \cup added ELSE live[t]
    BY <1>1 DEF AddUsers, TypeOK, XrayTypeOK, Roster
  <2> QED
    BY <1>1, <2>1 DEF AddUsers
<1>2. CASE ~AddUsers(tag, added)
  <2>1. PICK in \in (IF xray = "up" THEN SUBSET (added \ Refused(tag, added)) ELSE {{}}) :
           live' = [live EXCEPT ![tag] = @ \cup in]
    BY <1>2 DEF AddUsersFails
  <2>2. \A t \in Inbounds :
          live'[t] = IF t = tag THEN live[tag] \cup in ELSE live[t]
    BY <2>1 DEF TypeOK, XrayTypeOK, Roster
  <2>3. xray # "up" /\ live = NoUsers => live' = NoUsers
    BY <2>1 DEF NoUsers
  <2>4. in \in SUBSET added
    BY <2>1
  <2> QED
    BY <1>2, <2>2, <2>3, <2>4
<1> QED
  BY <1>1, <1>2

LEMMA PresentTags ==
    /\ \A s \in Present : TagOf(s) \in Inbounds
    /\ \A t \in Inbounds : \E s \in Present : TagOf(s) = t
<1>1. ASSUME NEW t \in Inbounds
      PROVE  \E s \in Present : TagOf(s) = t
  <2>1. Len(Mirrors) \in Nat
    BY InboundsAssumption
  <2>2. CASE t = Primary
    BY <2>1, <2>2 DEF Present, Slots, TagOf
  <2>3. CASE t # Primary
    <3>1. PICK i \in 1..Len(Mirrors) : t = Mirrors[i]
      BY <2>3, InboundsAssumption
    <3>2. i \in Slots /\ i # 0
      BY <2>1, <3>1 DEF Slots
    <3>3. TagOf(i) = t
      BY <3>1, <3>2 DEF TagOf
    <3> QED
      BY <3>2, <3>3 DEF Present
  <2> QED
    BY <2>2, <2>3
<1> QED
  BY <1>1 DEF Present

LEMMA RemoveInv ==
    ASSUME TypeOK, IInv, NEW h \in Handlers, Remove(h)
    PROVE  IInv'
<1> DEFINE w == work[h]
<1>1. PICK s \in Slots :
         /\ NextRemoval(h, s)
         /\ \/ /\ RemoveUsers(TagOf(s), w.removed)
               /\ work' = [work EXCEPT ![h].toRemove = @ \ {s}]
               /\ UNCHANGED pc
            \/ /\ RemoveUsersFails(TagOf(s), w.removed)
               /\ Goto(h, "restore")
               /\ UNCHANGED work
         /\ UNCHANGED <<file, xray, liveAPI, lock, op, reply, issued, revoked, adrift>>
  BY DEF Remove
<1>2. /\ pc[h] = "apply" /\ pc[h] \in Mutating
      /\ s \in w.toRemove
  BY <1>1 DEF NextRemoval, First, Mutating
<1>3. Sound(w) /\ Remaining(w) /\ file = w.updated
  BY <1>2, HolderFacts DEF FileOf
<1>4. s \in Present /\ TagOf(s) \in Inbounds
  BY <1>2, PresentTags DEF TypeOK, Work
<1>5. PICK gone \in SUBSET w.removed :
         /\ \A t \in Inbounds :
               live'[t] = IF t = TagOf(s) THEN Without(live[TagOf(s)], gone) ELSE live[t]
         /\ RemoveUsers(TagOf(s), w.removed) => gone = w.removed
         /\ xray # "up" /\ live = NoUsers => live' = NoUsers
  <2>1. RemoveUsers(TagOf(s), w.removed) \/ RemoveUsersFails(TagOf(s), w.removed)
    BY <1>1
  <2> HIDE DEF w
  <2> QED
    BY <1>4, <2>1, RemovalOfUsers
<1>6. /\ work'[h].original = w.original
      /\ work'[h].updated = w.updated
      /\ work'[h].removed = w.removed
      /\ work'[h].added = w.added
      /\ work'[h].toAdd = w.toAdd
      /\ work'[h].toRemove \subseteq w.toRemove
      /\ \A g \in Handlers : g # h => work'[g] = work[g]
  BY <1>1 DEF TypeOK, Work
<1>7. /\ pc'[h] \in {"apply", "restore"}
      /\ pc'[h] = "apply" =>
            RemoveUsers(TagOf(s), w.removed) /\ work'[h].toRemove = w.toRemove \ {s}
      /\ \A g \in Handlers : g # h => pc'[g] = pc[g]
  BY <1>1, <1>2 DEF Goto, TypeOK, Work
<1>8. Remaining(work[h])'
  BY <1>3, <1>6 DEF Remaining
<1>9. file' = FileOf(h)'
  BY <1>1, <1>3, <1>6, <1>7 DEF FileOf
<1>10. ASSUME xray = "up", ~adrift
       PROVE  Midway(work[h])' /\ (pc[h] = "apply" => Done(work[h]))'
  <2>1. Midway(w) /\ Done(w)
    BY <1>2, <1>10, MidwayFacts
  <2>2. \A e \in Kept(w) : e.name \notin gone
    BY <1>3, <1>5, SoundFacts
  <2>3. \A t \in Inbounds : live'[t] \subseteq live[t]
    BY <1>5 DEF Without
  <2>4. ASSUME NEW roster, Between(Kept(w), roster)
        PROVE  \A t \in Inbounds : Kept(w) \subseteq live'[t] /\ live'[t] \subseteq roster[Primary]
    BY <1>5, <2>2, <2>3, <2>4 DEF Between, Without
  <2>5. Midway(work[h])'
    BY <1>6, <2>1, <2>4 DEF Midway, Between, Kept
  <2>6. ASSUME pc'[h] = "apply"
        PROVE  Done(work[h])'
    <3>1. /\ gone = w.removed
          /\ work'[h].toRemove = w.toRemove \ {s}
      BY <1>5, <1>7, <2>6
    <3>2. live'[TagOf(s)] \subseteq w.updated[Primary]
      <4>1. CASE Between(Kept(w), w.original)
        <5> SUFFICES ASSUME NEW e \in live'[TagOf(s)]
                     PROVE  e \in w.updated[Primary]
          OBVIOUS
        <5>1. e \in live[TagOf(s)] /\ e.name \notin w.removed
          BY <1>4, <1>5, <3>1 DEF Without
        <5>2. e \in w.original[Primary]
          BY <1>4, <4>1, <5>1 DEF Between
        <5> QED
          BY <1>3, <5>1, <5>2, SoundFacts
      <4>2. CASE Between(Kept(w), w.updated)
        BY <1>4, <2>3, <4>2 DEF Between
      <4> QED
        BY <2>1, <4>1, <4>2 DEF Midway
    <3>3. ASSUME NEW q \in Present, q \notin work'[h].toRemove
          PROVE  live'[TagOf(q)] \subseteq w.updated[Primary]
      BY <2>1, <2>3, <3>1, <3>2, <3>3, PresentTags DEF Done
    <3>4. ASSUME NEW q \in Present, q \notin work'[h].toAdd
          PROVE  w.added \subseteq live'[TagOf(q)]
      BY <1>2, <1>3, <1>6, <3>4 DEF Remaining
    <3> QED
      BY <1>6, <3>3, <3>4 DEF Done
  <2> QED
    BY <2>5, <2>6
<1> QED
  BY <1>1, <1>2, <1>5, <1>6, <1>7, <1>8, <1>9, <1>10, MidwayFacts, StayInv DEF Mutating

LEMMA AddInv ==
    ASSUME TypeOK, IInv, NEW h \in Handlers, Add(h)
    PROVE  IInv'
<1> DEFINE w == work[h]
<1>1. PICK s \in Slots :
         /\ NextAddition(h, s)
         /\ \/ /\ AddUsers(TagOf(s), w.added)
               /\ work' = [work EXCEPT ![h].toAdd = @ \ {s}]
               /\ UNCHANGED pc
            \/ /\ AddUsersFails(TagOf(s), w.added)
               /\ Goto(h, "restore")
               /\ UNCHANGED work
         /\ UNCHANGED <<file, xray, liveAPI, lock, op, reply, issued, revoked, adrift>>
  BY DEF Add
<1>2. /\ pc[h] = "apply" /\ pc[h] \in Mutating
      /\ w.toRemove = {} /\ s \in w.toAdd
  BY <1>1 DEF NextAddition, First, Mutating
<1>3. Sound(w) /\ Remaining(w) /\ file = w.updated
  BY <1>2, HolderFacts DEF FileOf
<1>4. s \in Present /\ TagOf(s) \in Inbounds
  BY <1>2, PresentTags DEF TypeOK, Work
<1>5. PICK in \in SUBSET w.added :
         /\ \A t \in Inbounds :
               live'[t] = IF t = TagOf(s) THEN live[TagOf(s)] \cup in ELSE live[t]
         /\ AddUsers(TagOf(s), w.added) => in = w.added
         /\ xray # "up" /\ live = NoUsers => live' = NoUsers
  <2>1. AddUsers(TagOf(s), w.added) \/ AddUsersFails(TagOf(s), w.added)
    BY <1>1
  <2> HIDE DEF w
  <2> QED
    BY <1>4, <2>1, AdditionOfUsers
<1>6. /\ work'[h].original = w.original
      /\ work'[h].updated = w.updated
      /\ work'[h].removed = w.removed
      /\ work'[h].added = w.added
      /\ work'[h].toRemove = {}
      /\ work'[h].toAdd \subseteq w.toAdd
      /\ \A g \in Handlers : g # h => work'[g] = work[g]
  BY <1>1, <1>2 DEF TypeOK, Work
<1>7. /\ pc'[h] \in {"apply", "restore"}
      /\ pc'[h] = "apply" =>
            AddUsers(TagOf(s), w.added) /\ work'[h].toAdd = w.toAdd \ {s}
      /\ \A g \in Handlers : g # h => pc'[g] = pc[g]
  BY <1>1, <1>2 DEF Goto, TypeOK, Work
<1>8. Remaining(work[h])'
  BY <1>3, <1>6 DEF Remaining
<1>9. file' = FileOf(h)'
  BY <1>1, <1>3, <1>6, <1>7 DEF FileOf
<1>10. ASSUME xray = "up", ~adrift
       PROVE  Midway(work[h])' /\ (pc[h] = "apply" => Done(work[h]))'
  <2>1. Midway(w) /\ Done(w)
    BY <1>2, <1>10, MidwayFacts
  <2>2. \A t \in Inbounds : live[t] \subseteq w.updated[Primary]
    BY <1>2, <2>1, PresentTags DEF Done
  <2>3. \A t \in Inbounds : Kept(w) \subseteq live[t]
    BY <2>1 DEF Midway, Between
  <2>4. \A t \in Inbounds : live[t] \subseteq live'[t] /\ live'[t] \subseteq w.updated[Primary]
    BY <1>3, <1>5, <2>2, SoundFacts
  <2>5. Midway(work[h])'
    BY <1>6, <2>3, <2>4 DEF Midway, Between, Kept
  <2>6. ASSUME pc'[h] = "apply"
        PROVE  Done(work[h])'
    <3>1. /\ in = w.added
          /\ work'[h].toAdd = w.toAdd \ {s}
      BY <1>5, <1>7, <2>6
    <3>2. w.added \subseteq live'[TagOf(s)]
      BY <1>4, <1>5, <3>1
    <3>3. ASSUME NEW q \in Present, q \notin work'[h].toAdd
          PROVE  w.added \subseteq live'[TagOf(q)]
      BY <2>1, <2>4, <3>1, <3>2, <3>3, PresentTags DEF Done
    <3> QED
      BY <1>6, <2>4, <3>3, PresentTags DEF Done
  <2> QED
    BY <2>5, <2>6
<1> QED
  BY <1>1, <1>2, <1>5, <1>6, <1>7, <1>8, <1>9, <1>10, MidwayFacts, StayInv DEF Mutating

(* Every way to command systemd leaves Xray as it was or not up. *)
LEMMA SystemctlOutcomes ==
    ASSUME Restart \/ RestartFails \/ Start \/ StartFails \/ Stop \/ StopFails
           \/ BootFails \/ Dies
    PROVE  \/ xray' = xray /\ live' = live
           \/ xray' # "up" /\ (live' = NoUsers \/ (xray # "up" /\ live' = live))
<1>1. CASE Start
  BY <1>1 DEF Start
<1>2. CASE Restart \/ Stop \/ BootFails \/ Dies
  BY <1>2 DEF Restart, Stop, BootFails, Dies
<1>3. CASE UNCHANGED <<xray, live>>
  BY <1>3
<1> QED
  BY <1>1, <1>2, <1>3 DEF RestartFails, StartFails, StopFails

(* The answer "ok": the file holds what was asked for, and so does Xray if *)
(* it is up.                                                               *)
LEMMA SucceedInv ==
    ASSUME TypeOK, IInv, NEW h \in Handlers, pc[h] \in {"apply", "restart"},
           Succeed(h),
           (xray # "up" => live = NoUsers)',
           (xray = "up" /\ ~adrift => live = file)'
    PROVE  IInv'
<1>1. /\ pc[h] \in Mutating
      /\ FileOf(h) = work[h].updated
  BY DEF Mutating, FileOf
<1>2. lock = h /\ Sound(work[h]) /\ file = work[h].updated
  BY <1>1, HolderFacts
<1>3. IdsOf(file[Primary]) \subseteq issued \ revoked
  BY DEF IInv, FileInv
<1>4. IdsOf(work[h].original[Primary]) \subseteq issued
  BY <1>2 DEF Sound
<1>5. FileInv'
  <2>1. /\ UNCHANGED <<file, issued>>
        /\ revoked' = revoked \cup (IdsOf(work[h].original[Primary]) \ IdsOf(file[Primary]))
    BY <1>2 DEF Succeed
  <2>2. Uniform(file)'
    BY <2>1 DEF IInv, FileInv, Uniform
  <2>3. revoked' \subseteq issued'
    BY <1>4, <2>1 DEF IInv, FileInv
  <2>4. IdsOf(file[Primary]) \subseteq issued' \ revoked'
    BY <1>3, <2>1
  <2> QED
    BY <2>1, <2>2, <2>3, <2>4 DEF FileInv
<1> QED
  BY <1>2, <1>5, AnswerInv DEF Succeed

LEMMA AppliedInv ==
    ASSUME TypeOK, IInv, NEW h \in Handlers, Applied(h)
    PROVE  IInv'
<1>1. pc[h] = "apply" /\ pc[h] \in Mutating
  BY DEF Applied, Mutating
<1>2. Sound(work[h]) /\ file = work[h].updated
  BY <1>1, HolderFacts DEF FileOf
<1>3. UNCHANGED <<file, xray, live, adrift>>
  BY DEF Applied, Succeed
<1>4. ASSUME xray = "up", ~adrift
      PROVE  live = file
  <2>1. Midway(work[h]) /\ Done(work[h])
    BY <1>1, <1>4, MidwayFacts
  <2>2. ASSUME NEW t \in Inbounds
        PROVE  live[t] = file[t]
    <3>1. PICK s \in Present : TagOf(s) = t
      BY PresentTags
    <3>2. live[t] \subseteq work[h].updated[Primary] /\ work[h].added \subseteq live[t]
      BY <2>1, <3>1 DEF Done, Applied
    <3>3. Kept(work[h]) \subseteq live[t]
      BY <2>1 DEF Midway, Between
    <3>4. file[t] = Kept(work[h]) \cup work[h].added
      BY <1>2 DEF Sound, Uniform
    <3> QED
      BY <1>2, <3>2, <3>3, <3>4 DEF Sound
  <2> QED
    BY <2>2 DEF TypeOK, XrayTypeOK, Roster
<1>5. xray # "up" => live = NoUsers
  BY <1>1, MidwayFacts
<1> QED
  BY <1>1, <1>3, <1>4, <1>5, SucceedInv DEF Applied

LEMMA RestartXrayInv ==
    ASSUME TypeOK, IInv, NEW h \in Handlers, RestartXray(h)
    PROVE  IInv'
<1>1. pc[h] = "restart" /\ pc[h] \in Mutating
  BY DEF RestartXray, Mutating
<1>2. CASE Restart /\ Succeed(h)
  BY <1>1, <1>2, SucceedInv DEF Restart
<1>3. CASE /\ RestartFails
           /\ Goto(h, "restore")
           /\ UNCHANGED <<file, liveAPI, lock, op, work, reply, issued, revoked, adrift>>
  <2>1. /\ pc'[h] = "restore"
        /\ \A g \in Handlers : g # h => pc'[g] = pc[g]
    BY <1>3 DEF Goto, TypeOK
  <2>2. file' = FileOf(h)'
    BY <1>1, <1>3, <2>1, HolderFacts DEF FileOf
  <2>3. Remaining(work[h])'
    BY <1>1, <1>3, HolderFacts DEF Remaining
  <2>4. (xray = "up" /\ ~adrift => Midway(work[h]) /\ (pc[h] = "apply" => Done(work[h])))'
    BY <1>1, <1>3, <2>1, MidwayFacts, SystemctlOutcomes DEF Midway, Between, Kept
  <2>5. (xray # "up" => live = NoUsers)'
    BY <1>1, <1>3, MidwayFacts, SystemctlOutcomes
  <2> QED
    BY <1>1, <1>3, <2>1, <2>2, <2>3, <2>4, <2>5, StayInv DEF Mutating
<1> QED
  BY <1>2, <1>3 DEF RestartXray

(* A failed rollback sets adrift, which excuses Xray but not the file. *)
LEMMA RollbackFailsInv ==
    ASSUME TypeOK, IInv, NEW h \in Handlers, pc[h] \in {"restore", "rerestart"},
           RollbackFails(h),
           (xray # "up" => live = NoUsers)'
    PROVE  IInv'
<1>1. lock = h
  BY HolderFacts DEF Mutating
<1>2. FileInv'
  BY DEF RollbackFails, IInv, FileInv, Uniform
<1>3. (xray = "up" /\ ~adrift => live = file)'
  BY DEF RollbackFails
<1> QED
  BY <1>1, <1>2, <1>3, AnswerInv DEF RollbackFails

LEMMA RestoreFailsInv ==
    ASSUME TypeOK, IInv, NEW h \in Handlers, RestoreFails(h)
    PROVE  IInv'
  BY MidwayFacts, RollbackFailsInv DEF RestoreFails, Mutating

LEMMA RestartRestoredInv ==
    ASSUME TypeOK, IInv, NEW h \in Handlers, RestartRestored(h)
    PROVE  IInv'
<1>1. pc[h] = "rerestart" /\ pc[h] \in Mutating
  BY DEF RestartRestored, Mutating
<1>2. CASE /\ Restart
           /\ Answer(h, "restored", {})
           /\ UNCHANGED <<file, liveAPI, issued, revoked, adrift>>
  <2>1. FileInv'
    BY <1>2 DEF IInv, FileInv, Uniform
  <2>2. xray' # "up" /\ live' = NoUsers
    BY <1>2 DEF Restart
  <2> QED
    BY <1>1, <1>2, <2>1, <2>2, HolderFacts, AnswerInv
<1>3. CASE RestartFails /\ RollbackFails(h)
  <2>1. (xray # "up" => live = NoUsers)'
    BY <1>1, <1>3, MidwayFacts, SystemctlOutcomes
  <2> QED
    BY <1>1, <1>3, <2>1, RollbackFailsInv
<1> QED
  BY <1>2, <1>3 DEF RestartRestored

(* Xray and its unit on their own: none of them moves the store. *)
LEMMA EnvironmentInv ==
    ASSUME TypeOK, IInv, XrayBoots \/ XrayFails \/ ServiceAction
    PROVE  IInv'
<1>1. UNCHANGED <<file, lock, pc, work, issued, revoked>>
  BY DEF XrayBoots, XrayFails, ServiceAction, storeVars
<1>2. Mutex' /\ FileInv'
  BY <1>1 DEF IInv, Mutex, FileInv, Uniform
<1>3. WorkInv'
  BY <1>1 DEF IInv, WorkInv, Sound, Untouched, Remaining, FileOf, Uniform, Kept
<1>4. CASE XrayBoots
  <2>1. xray' = "up" /\ live' = file
    BY <1>4 DEF XrayBoots, Boots
  <2>2. ASSUME NEW h \in Handlers, lock = h
        PROVE  /\ Midway(work[h])'
               /\ (pc[h] = "apply" => Done(work[h]))'
    <3>1. Sound(work[h]) /\ file = FileOf(h)
      BY <2>2 DEF IInv, WorkInv
    <3>2. \/ file = work[h].original
          \/ file = work[h].updated
      BY <3>1 DEF FileOf
    <3>3. Midway(work[h])'
      BY <1>1, <2>1, <3>1, <3>2, SoundFacts DEF Midway, Between, Kept, Sound, Uniform
    <3>4. pc[h] = "apply" => Done(work[h])'
      <4> SUFFICES ASSUME pc[h] = "apply"
                   PROVE  Done(work[h])'
        OBVIOUS
      <4>1. \A s \in Present : file[TagOf(s)] = work[h].updated[Primary]
        BY <3>1, PresentTags DEF FileOf, Sound, Uniform
      <4>2. work[h].added \subseteq work[h].updated[Primary]
        BY <3>1, SoundFacts
      <4> QED
        BY <1>1, <2>1, <4>1, <4>2 DEF Done
    <3> QED
      BY <1>1, <3>3, <3>4
  <2>3. LiveInv'
    BY <1>1, <2>1, <2>2 DEF LiveInv
  <2> QED
    BY <1>2, <1>3, <2>3 DEF IInv
<1>5. CASE XrayFails \/ ServiceAction
  <2>1. /\ UNCHANGED adrift
        /\ \/ xray' = xray /\ live' = live
           \/ xray' # "up" /\ (live' = NoUsers \/ (xray # "up" /\ live' = live))
    BY <1>5, SystemctlOutcomes DEF XrayFails, ServiceAction
  <2>2. LiveInv'
    <3>1. CASE xray' = xray /\ live' = live
      BY <1>1, <2>1, <3>1 DEF IInv, LiveInv, Midway, Between, Kept, Done
    <3>2. CASE xray' # "up" /\ (live' = NoUsers \/ (xray # "up" /\ live' = live))
      BY <3>2 DEF IInv, LiveInv
    <3> QED
      BY <2>1, <3>1, <3>2
  <2> QED
    BY <1>2, <1>3, <2>2 DEF IInv
<1> QED
  BY <1>4, <1>5

-----------------------------------------------------------------------------
LEMMA InvInit == Init => IInv
<1> SUFFICES ASSUME Init
             PROVE  IInv
  OBVIOUS
<1>1. PICK list \in InitialUsers :
         file = [t \in Inbounds |-> list] /\ issued = IdsOf(list)
  BY DEF Init
<1>2. FileInv
  BY <1>1, InboundsAssumption, InitialUsersAssumption DEF Init, FileInv, Uniform
<1>3. Mutex /\ WorkInv /\ LiveInv
  BY FreeAssumption DEF Init, Mutex, Mutating, WorkInv, LiveInv
<1> QED
  BY <1>2, <1>3 DEF IInv

LEMMA InvStep == TypeOK /\ IInv /\ [Next]_vars => IInv'
<1> SUFFICES ASSUME TypeOK, IInv, [Next]_vars
             PROVE  IInv'
  OBVIOUS
<1>1. ASSUME NEW h \in Handlers, Call(h) \/ Return(h)
      PROVE  IInv'
  <2>1. /\ UNCHANGED <<file, xray, live, lock, work, issued, revoked, adrift>>
        /\ pc[h] \notin Mutating /\ pc'[h] \notin Mutating
        /\ \A g \in Handlers : g # h => pc'[g] = pc[g]
    BY <1>1 DEF Call, Return, Mutating, TypeOK
  <2>2. lock # h
    BY <2>1 DEF IInv, Mutex
  <2>3. Mutex' /\ FileInv'
    BY <2>1 DEF IInv, Mutex, FileInv, Uniform
  <2>4. WorkInv'
    BY <2>1, <2>2 DEF IInv, WorkInv, Sound, Untouched, Remaining, FileOf, Uniform, Kept
  <2>5. LiveInv'
    BY <2>1, <2>2 DEF IInv, LiveInv, Midway, Between, Kept, Done
  <2> QED
    BY <2>3, <2>4, <2>5 DEF IInv
<1>2. ASSUME NEW h \in Handlers, Proceed(h)
      PROVE  IInv'
  BY <1>2, WriteInv, WriteFailsInv, RemoveInv, AddInv, AppliedInv, RestartXrayInv,
     RestoreInv, RestoreFailsInv, RestartRestoredInv DEF Proceed
<1>3. CASE UNCHANGED vars
  BY <1>3 DEF vars, storeVars, IInv, Mutex, WorkInv, FileInv, LiveInv, Sound, Untouched,
              Remaining, FileOf, Uniform, Kept, Midway, Between, Done
<1> QED
  BY <1>1, <1>2, <1>3, BeginInv, EnvironmentInv DEF Next, Step

(* The inductive invariant holds of every behaviour of the store. *)
THEOREM Invariance == Spec => [](TypeOK /\ IInv)
<1>1. Init => TypeOK /\ IInv
  BY TypeInit, InvInit
<1>2. TypeOK /\ IInv /\ [Next]_vars => (TypeOK /\ IInv)'
  BY TypeStep, InvStep
<1> QED
  BY <1>1, <1>2, PTL DEF Spec

-----------------------------------------------------------------------------
(* The safety properties. *)

(* Either the mutex is free or some handler holds it with its mutation. *)
LEMMA HolderExists ==
    ASSUME TypeOK, IInv, lock # Free
    PROVE  /\ lock \in Handlers
           /\ pc[lock] \in Mutating
           /\ Sound(work[lock])
           /\ \/ file = work[lock].original
              \/ file = work[lock].updated
  BY DEF TypeOK, IInv, Mutex, WorkInv, FileOf

(* A list between the kept users and either version differs from the kept  *)
(* users only in names of the mutation.                                    *)
LEMMA OthersKept ==
    ASSUME NEW w, Sound(w), NEW names, w.removed \cup NamesOf(w.added) \subseteq names,
           NEW list, Kept(w) \subseteq list,
           list \subseteq w.original[Primary] \/ list \subseteq w.updated[Primary]
    PROVE  Without(list, names) = Without(Kept(w), names)
<1>1. ASSUME NEW e \in list, e.name \notin names
      PROVE  e \in Kept(w)
  <2>1. CASE e \in w.original[Primary]
    BY <1>1, <2>1, SoundFacts
  <2>2. CASE e \in w.updated[Primary]
    BY <1>1, <2>2 DEF Sound, NamesOf
  <2> QED
    BY <2>1, <2>2
<1> QED
  BY <1>1 DEF Without

LEMMA LiveFollowsFileInv == TypeOK /\ IInv => LiveFollowsFile
<1> SUFFICES ASSUME TypeOK, IInv, xray = "up", ~adrift, NEW t \in Inbounds
             PROVE  Without(live[t], InFlight) = Without(file[t], InFlight)
  BY DEF LiveFollowsFile
<1>1. CASE lock = Free
  BY <1>1 DEF IInv, LiveInv
<1>2. CASE lock # Free
  <2> DEFINE w == work[lock]
  <2>1. /\ lock \in Handlers
        /\ pc[lock] \in Mutating
        /\ Sound(w)
        /\ file = w.original \/ file = w.updated
    BY <1>2, HolderExists
  <2>2. Midway(w)
    BY <2>1, MidwayFacts
  <2>3. w.removed \cup NamesOf(w.added) \subseteq InFlight
    BY <2>1 DEF InFlight
  <2>4. /\ Kept(w) \subseteq live[t]
        /\ live[t] \subseteq w.original[Primary] \/ live[t] \subseteq w.updated[Primary]
    BY <2>2 DEF Midway, Between
  <2>5. Without(live[t], InFlight) = Without(Kept(w), InFlight)
    BY <2>1, <2>3, <2>4, OthersKept
  <2>6. file[t] = w.original[Primary] \/ file[t] = w.updated[Primary]
    BY <2>1 DEF Sound, Uniform
  <2>7. Without(file[t], InFlight) = Without(Kept(w), InFlight)
    BY <2>1, <2>3, <2>6, SoundFacts, OthersKept
  <2> QED
    BY <2>5, <2>7
<1> QED
  BY <1>1, <1>2

LEMMA OneKeyPerNameInv == TypeOK /\ IInv => OneKeyPerName
<1> SUFFICES ASSUME TypeOK, IInv, ~adrift
             PROVE  \A s, t \in Inbounds : \A d \in live[s], e \in live[t] :
                        d.name = e.name => d = e
  BY DEF OneKeyPerName
<1>1. PICK list : WellFormed(list) /\ \A t \in Inbounds : live[t] \subseteq list
  <2>1. CASE xray # "up"
    <3>1. WellFormed({}) /\ \A t \in Inbounds : live[t] \subseteq {}
      BY <2>1 DEF IInv, LiveInv, NoUsers, WellFormed
    <3> QED
      BY <3>1
  <2>2. CASE xray = "up" /\ lock = Free
    <3>1. WellFormed(file[Primary]) /\ \A t \in Inbounds : live[t] \subseteq file[Primary]
      BY <2>2 DEF IInv, LiveInv, FileInv, Uniform
    <3> QED
      BY <3>1
  <2>3. CASE xray = "up" /\ lock # Free
    <3>1. Sound(work[lock]) /\ Midway(work[lock])
      BY <2>3, HolderExists, MidwayFacts
    <3>2. \/ \A t \in Inbounds : live[t] \subseteq work[lock].original[Primary]
          \/ \A t \in Inbounds : live[t] \subseteq work[lock].updated[Primary]
      BY <3>1 DEF Midway, Between
    <3> QED
      BY <3>1, <3>2 DEF Sound, Uniform
  <2> QED
    BY <2>1, <2>2, <2>3
<1> QED
  BY <1>1 DEF WellFormed

LEMMA RevokedStaysRevokedInv == TypeOK /\ IInv => RevokedStaysRevoked
<1> SUFFICES ASSUME TypeOK, IInv, NEW t \in Inbounds
             PROVE  /\ IdsOf(file[t]) \cap revoked = {}
                    /\ ~adrift => IdsOf(live[t]) \cap revoked = {}
  BY DEF RevokedStaysRevoked
<1>1. IdsOf(file[t]) \cap revoked = {}
  BY DEF IInv, FileInv, Uniform
<1>2. ASSUME ~adrift
      PROVE  IdsOf(live[t]) \cap revoked = {}
  <2>1. CASE xray # "up"
    BY <2>1 DEF IInv, LiveInv, NoUsers, IdsOf
  <2>2. CASE xray = "up" /\ lock = Free
    BY <1>1, <1>2, <2>2 DEF IInv, LiveInv
  <2>3. CASE xray = "up" /\ lock # Free
    <3>1. Sound(work[lock]) /\ Midway(work[lock])
      BY <1>2, <2>3, HolderExists, MidwayFacts
    <3>2. \/ live[t] \subseteq work[lock].original[Primary]
          \/ live[t] \subseteq work[lock].updated[Primary]
      BY <3>1 DEF Midway, Between
    <3>3. /\ IdsOf(work[lock].original[Primary]) \cap revoked = {}
          /\ IdsOf(work[lock].updated[Primary]) \cap revoked = {}
      BY <3>1, SoundFacts DEF Sound
    <3>4. \A list : live[t] \subseteq list => IdsOf(live[t]) \subseteq IdsOf(list)
      BY DEF IdsOf
    <3> QED
      BY <3>2, <3>3, <3>4
  <2> QED
    BY <2>1, <2>2, <2>3
<1> QED
  BY <1>1, <1>2

(* LiveFollowsFile: with no mutation in flight and no failed rollback, a   *)
(* running Xray accepts exactly the users of config.json, on every         *)
(* inbound; during a mutation all other users are undisturbed.             *)
THEOREM LiveFollowsFileAlways == Spec => []LiveFollowsFile
  BY Invariance, LiveFollowsFileInv, PTL

(* OneKeyPerName: two ids of one name are never accepted at once. *)
THEOREM OneKeyPerNameAlways == Spec => []OneKeyPerName
  BY Invariance, OneKeyPerNameInv, PTL

(* RevokedStaysRevoked: an id whose removal was acknowledged never returns *)
(* to config.json, nor to Xray unless a rollback failed.                   *)
THEOREM RevokedStaysRevokedAlways == Spec => []RevokedStaysRevoked
  BY Invariance, RevokedStaysRevokedInv, PTL

(* MirrorsInParity: every mirror carries the users of the primary inbound. *)
THEOREM MirrorsInParityAlways == Spec => []MirrorsInParity
<1>1. IInv => MirrorsInParity
  BY DEF IInv, FileInv, Uniform, MirrorsInParity
<1> QED
  BY <1>1, Invariance, PTL
-----------------------------------------------------------------------------
(* ConfigStore implements UserRegistry: every step of the store is a step *)
(* of the registry or leaves it alone.                                     *)

(* What the handlers' variables say of a request's stage. *)
Stages ==
    \A h \in Handlers : /\ op[h] = NoRequest <=> pc[h] = "idle"
                        /\ reply[h] = NoReply <=> pc[h] # "done"

(* The effect that the mutation under way will have if it succeeds. *)
Effect(h) == [next |-> work[h].updated[Primary], result |-> Result(h)]

(* It is one the registry allows for the request. *)
Promise == \A h \in Handlers : lock = h => Effect(h) \in Registry!Effects(op[h])

-----------------------------------------------------------------------------
(* The registry that the store shows. *)

LEMMA CoreHolder ==
    ASSUME CoreInv, NEW h \in Handlers, pc[h] \in Mutating
    PROVE  lock = h /\ file = FileOf(h)
  BY DEF CoreInv, Mutex

LEMMA RegisteredFacts ==
    ASSUME TypeOK, CoreInv
    PROVE  /\ lock = Free => Registered = file[Primary]
           /\ \A h \in Handlers : lock = h => Registered = work[h].original[Primary]
<1>1. ASSUME lock = Free
      PROVE  Registered = file[Primary]
  BY <1>1, FreeAssumption DEF Registered, Undecided
<1>2. ASSUME NEW h \in Handlers, lock = h
      PROVE  Registered = work[h].original[Primary]
  <2>1. CASE pc[h] \in {"apply", "restart", "restore"}
    BY <1>2, <2>1 DEF Registered, Undecided
  <2>2. CASE pc[h] \in {"write", "rerestart"}
    <3>1. file = work[h].original
      BY <1>2, <2>2 DEF CoreInv, FileOf
    <3>2. ~\E g \in Handlers : Undecided(g)
      BY <1>2, <2>2 DEF Undecided
    <3> QED
      BY <3>1, <3>2 DEF Registered
  <2> QED
    BY <1>2, <2>1, <2>2 DEF CoreInv, Mutex, Mutating
<1> QED
  BY <1>1, <1>2

LEMMA CoreOfIInv == IInv => CoreInv
  BY FreeAssumption DEF IInv, WorkInv, FileInv, CoreInv

(* What a request may do depends on the registry and the revoked ids only. *)
LEMMA EffectsKept ==
    ASSUME NEW h \in Handlers, UNCHANGED <<Registered, revoked, op[h]>>
    PROVE  Registry!Effects(op[h])' = Registry!Effects(op[h])
  BY DEF Registry!Effects, Registry!AddEffects, Registry!RemoveEffects,
         Registry!RotateEffects, Registry!Known, Registry!Unused

(* The client lists of the registry are those of the store. *)
LEMMA SameLists ==
    /\ \A list : Registry!NamesOf(list) = NamesOf(list)
    /\ \A list : Registry!IdsOf(list) = IdsOf(list)
    /\ \A list, names : Registry!Without(list, names) = Without(list, names)
    /\ \A names, ids : Registry!NewUsers(names, ids) = NewUsers(names, ids)
  BY DEF Registry!NamesOf, NamesOf, Registry!IdsOf, IdsOf, Registry!Without, Without,
         Registry!NewUsers, NewUsers

(* A larger pool of ids allows more new users. *)
LEMMA NewUsersMonotone ==
    ASSUME NEW names, NEW ids, NEW pool, ids \subseteq pool
    PROVE  NewUsers(names, ids) \subseteq NewUsers(names, pool)
<1> SUFFICES ASSUME NEW users \in NewUsers(names, ids)
             PROVE  users \in NewUsers(names, pool)
  OBVIOUS
<1>1. PICK id \in [names -> ids] :
         /\ \A m, n \in names : id[m] = id[n] => m = n
         /\ users = {[name |-> n, uuid |-> id[n]] : n \in names}
  BY DEF NewUsers
<1>2. id \in [names -> pool]
  BY <1>1
<1> QED
  BY <1>1, <1>2 DEF NewUsers

(* One name with one id of the pool. *)
LEMMA NewUser ==
    ASSUME NEW name, NEW ids, NEW id \in ids
    PROVE  {[name |-> name, uuid |-> id]} \in NewUsers({name}, ids)
<1> DEFINE f == [n \in {name} |-> id]
<1>1. f \in [{name} -> ids] /\ \A m, n \in {name} : f[m] = f[n] => m = n
  OBVIOUS
<1>2. {[name |-> n, uuid |-> f[n]] : n \in {name}} = {[name |-> name, uuid |-> id]}
  OBVIOUS
<1> QED
  BY <1>1, <1>2 DEF NewUsers

(* The requests a handler serves, by kind. *)
LEMMA RequestFacts ==
    ASSUME TypeOK, NEW h \in Handlers
    PROVE  /\ op[h] # NoRequest => op[h].kind # "none"
           /\ op[h].kind \in {"delete", "rotate"} => \E n \in Names : op[h].names = {n}
           /\ op[h].kind = "add" => op[h].names # {}
           /\ op[h].kind \in {"list", "deleteAll"} => op[h].names = {}
<1>1. CASE op[h] = NoRequest
  BY <1>1 DEF NoRequest
<1>2. CASE op[h] \in [kind : {"list", "deleteAll"}, names : {{}}]
  BY <1>2
<1>3. CASE op[h] \in [kind : {"add"}, names : (SUBSET Names) \ {{}}]
  BY <1>3
<1>4. CASE op[h] \in [kind : {"delete", "rotate"}, names : {{n} : n \in Names}]
  BY <1>4
<1> QED
  BY <1>1, <1>2, <1>3, <1>4 DEF TypeOK, Requests

-----------------------------------------------------------------------------
(* What each kind of request does with the mutex is an effect the registry *)
(* allows.                                                                 *)

LEMMA NoNewUsers ==
    ASSUME NEW ids
    PROVE  {} \in NewUsers({}, ids)
<1> DEFINE f == [n \in {} |-> n]
<1>1. f \in [{} -> ids] /\ \A m, n \in {} : f[m] = f[n] => m = n
  OBVIOUS
<1>2. {[name |-> n, uuid |-> f[n]] : n \in {}} = {}
  OBVIOUS
<1> QED
  BY <1>1, <1>2 DEF NewUsers

(* The ids the registry may give out include those never issued. *)
LEMMA UnusedFacts ==
    ASSUME TypeOK, CoreInv, lock = Free
    PROVE  UUIDs \ issued \subseteq Registry!Unused
<1>1. Registered = file[Primary]
  BY RegisteredFacts
<1>2. IdsOf(file[Primary]) \cup revoked \subseteq issued
  BY DEF CoreInv
<1> QED
  BY <1>1, <1>2, SameLists DEF Registry!Unused

LEMMA ListEffect ==
    ASSUME TypeOK, CoreInv, lock = Free, NEW h \in Handlers, op[h].kind = "list"
    PROVE  [next |-> file[Primary], result |-> file[Primary]] \in Registry!Effects(op[h])
  BY RegisteredFacts DEF Registry!Effects

LEMMA AddEffect ==
    ASSUME TypeOK, CoreInv, lock = Free, NEW h \in Handlers, op[h].kind = "add",
           NEW added \in NewUsers(op[h].names \ NamesOf(file[Primary]), UUIDs \ issued)
    PROVE  [next |-> AddUsersToList(file[Primary], added), result |-> added]
               \in Registry!Effects(op[h])
<1> DEFINE fresh == op[h].names \ NamesOf(file[Primary])
<1>1. added \in NewUsers(fresh, Registry!Unused)
  BY UnusedFacts, NewUsersMonotone
<1>2. NamesOf(added) = fresh
  BY NewUsersFacts
<1>3. AddUsersToList(file[Primary], added) = file[Primary] \cup added
  BY <1>2 DEF AddUsersToList, NamesOf
<1>4. Registered = file[Primary]
  BY RegisteredFacts
<1>5. [next |-> file[Primary] \cup added, result |-> added] \in Registry!AddEffects(op[h].names)
  BY <1>1, <1>4, SameLists DEF Registry!AddEffects
<1> QED
  BY <1>3, <1>5 DEF Registry!Effects

LEMMA KnownFacts ==
    ASSUME TypeOK, CoreInv, lock = Free, NEW h \in Handlers,
           op[h].kind \in {"delete", "rotate"}
    PROVE  Registry!Known(op[h].names) <=> ~Unknown(h)
<1>1. Registered = file[Primary]
  BY RegisteredFacts
<1> QED
  BY <1>1, RequestFacts, SameLists DEF Registry!Known, Unknown

LEMMA DeleteEffect ==
    ASSUME TypeOK, CoreInv, lock = Free, NEW h \in Handlers, op[h].kind = "delete", ~Unknown(h)
    PROVE  [next |-> Without(file[Primary], op[h].names),
            result |-> file[Primary] \ Without(file[Primary], op[h].names)]
               \in Registry!Effects(op[h])
<1>1. Registered = file[Primary] /\ Registry!Known(op[h].names)
  BY RegisteredFacts, KnownFacts
<1> QED
  BY <1>1, SameLists DEF Registry!Effects, Registry!RemoveEffects

LEMMA RotateEffect ==
    ASSUME TypeOK, CoreInv, lock = Free, NEW h \in Handlers, op[h].kind = "rotate", ~Unknown(h),
           NEW name \in op[h].names, NEW id \in UUIDs \ issued
    PROVE  [next |-> RotateUserInList(file[Primary], name, id),
            result |-> {[name |-> name, uuid |-> id]}] \in Registry!Effects(op[h])
<1>1. Registered = file[Primary] /\ Registry!Known(op[h].names)
  BY RegisteredFacts, KnownFacts
<1>2. op[h].names = {name}
  BY RequestFacts
<1>3. {[name |-> name, uuid |-> id]} \in NewUsers({name}, Registry!Unused)
  BY UnusedFacts, NewUser
<1>4. [next |-> RotateUserInList(file[Primary], name, id),
       result |-> {[name |-> name, uuid |-> id]}] \in Registry!RotateEffects(op[h].names)
  BY <1>1, <1>2, <1>3, SameLists DEF Registry!RotateEffects, RotateUserInList
<1> QED
  BY <1>1, <1>4 DEF Registry!Effects

LEMMA DeleteAllEffect ==
    ASSUME TypeOK, CoreInv, lock = Free, NEW h \in Handlers, op[h].kind = "deleteAll"
    PROVE  [next |-> {}, result |-> file[Primary]] \in Registry!Effects(op[h])
<1>1. Registered = file[Primary]
  BY RegisteredFacts
<1>2. Without(file[Primary], NamesOf(file[Primary])) = {}
  BY DEF Without, NamesOf
<1>3. [next |-> {}, result |-> file[Primary]]
         \in Registry!RemoveEffects(Registry!NamesOf(Registered))
  BY <1>1, <1>2, SameLists DEF Registry!RemoveEffects
<1> QED
  BY <1>3 DEF Registry!Effects

-----------------------------------------------------------------------------
(* Steps that keep the mutation under way, if any, keep its promise. *)

LEMMA PromiseKept ==
    ASSUME Promise, UNCHANGED <<lock, Registered, revoked>>,
           \A h \in Handlers : lock = h =>
               /\ op'[h] = op[h]
               /\ work'[h].original = work[h].original
               /\ work'[h].updated = work[h].updated
               /\ work'[h].added = work[h].added
    PROVE  Promise'
<1> SUFFICES ASSUME NEW h \in Handlers, lock' = h
             PROVE  Effect(h)' \in Registry!Effects(op[h])'
  BY DEF Promise
<1>1. Effect(h)' = Effect(h)
  BY DEF Effect, Result
<1>2. Registry!Effects(op[h])' = Registry!Effects(op[h])
  BY EffectsKept
<1> QED
  BY <1>1, <1>2 DEF Promise

LEMMA Stutter ==
    ASSUME UNCHANGED <<Registered, op, reply, revoked>>
    PROVE  [Registry!Next]_(Registry!vars)
  BY DEF Registry!vars

(* An answer frees the mutex; what it tells is for the registry to judge.  *)
LEMMA AnswerFacts ==
    ASSUME TypeOK, Stages, NEW h \in Handlers, pc[h] \notin {"idle", "done"},
           NEW code, code # "none", NEW users, Answer(h, code, users)
    PROVE  /\ Stages' /\ Promise'
           /\ Registered' = file'[Primary]
           /\ UNCHANGED op
           /\ Registry!Pending(h)
           /\ Registry!Reply(h, code, users)
<1>1. /\ pc'[h] = "done" /\ reply'[h] # NoReply
      /\ \A g \in Handlers : g # h => pc'[g] = pc[g] /\ reply'[g] = reply[g]
      /\ op' = op
      /\ lock' = Free
  BY DEF Answer, TypeOK, NoReply
<1>2. Stages'
  BY <1>1 DEF Stages
<1>3. Promise' /\ Registered' = file'[Primary]
  BY <1>1, FreeAssumption DEF Promise, Registered, Undecided
<1>4. Registry!Pending(h)
  BY DEF Registry!Pending, Stages, Registry!NoRequest, NoRequest, Registry!NoReply, NoReply
<1>5. Registry!Reply(h, code, users)
  BY DEF Registry!Reply, Answer
<1> QED
  BY <1>1, <1>2, <1>3, <1>4, <1>5

(* "ok" after an allowed effect that revokes the ids it removes. *)
LEMMA ServeStep ==
    ASSUME NEW h \in Handlers, Registry!Pending(h), NEW result, Registry!Reply(h, "ok", result),
           [next |-> Registered', result |-> result] \in Registry!Effects(op[h]),
           revoked' = revoked \cup (IdsOf(Registered) \ IdsOf(Registered')), UNCHANGED op
    PROVE  Registry!Next
<1> DEFINE effect == [next |-> Registered', result |-> result]
<1>1. /\ effect \in Registry!Effects(op[h])
      /\ Registered' = effect.next
      /\ Registry!Reply(h, "ok", effect.result)
      /\ revoked' = revoked \cup (Registry!IdsOf(Registered) \ Registry!IdsOf(effect.next))
  BY SameLists
<1> HIDE DEF effect
<1>2. Registry!Serve(h)
  BY <1>1 DEF Registry!Serve
<1> QED
  BY <1>2 DEF Registry!Next, Registry!Finish

LEMMA RefuseStep ==
    ASSUME NEW h \in Handlers, Registry!Pending(h), NEW code \in {"error", "restored"},
           Registry!Reply(h, code, {}), UNCHANGED <<Registered, op, revoked>>
    PROVE  Registry!Next
  BY DEF Registry!Refuse, Registry!Next, Registry!Finish

LEMMA NotFoundStep ==
    ASSUME NEW h \in Handlers, Registry!Pending(h), Registry!Reply(h, "notFound", {}),
           op[h].kind \in {"delete", "rotate"}, ~Registry!Known(op[h].names),
           UNCHANGED <<Registered, op, revoked>>
    PROVE  Registry!Next
  BY DEF Registry!NotFound, Registry!Next, Registry!Finish

LEMMA InDoubtStep ==
    ASSUME NEW h \in Handlers, Registry!Pending(h), Registry!Reply(h, "rollbackFailed", {}),
           UNCHANGED <<op, revoked>>,
           \/ Registered' = Registered
           \/ \E result : [next |-> Registered', result |-> result] \in Registry!Effects(op[h])
    PROVE  Registry!Next
<1>1. \/ Registered' = Registered
      \/ \E effect \in Registry!Effects(op[h]) : Registered' = effect.next
  OBVIOUS
<1>2. Registry!LeaveInDoubt(h)
  BY <1>1 DEF Registry!LeaveInDoubt
<1> QED
  BY <1>2 DEF Registry!Next, Registry!Finish

-----------------------------------------------------------------------------
(* The steps of the store. *)

LEMMA CallStep ==
    ASSUME TypeOK, CoreInv, Stages, Promise, NEW h \in Handlers, Call(h)
    PROVE  Stages' /\ Promise' /\ [Registry!Next]_(Registry!vars)
<1>1. PICK r \in Requests : op' = [op EXCEPT ![h] = r]
  BY DEF Call
<1>2. /\ pc[h] = "idle" /\ op[h] = NoRequest
      /\ pc'[h] = "waiting" /\ op'[h] # NoRequest
      /\ \A g \in Handlers : g # h => pc'[g] = pc[g] /\ op'[g] = op[g]
  BY <1>1 DEF Call, TypeOK, Stages, Requests, NoRequest
<1>3. UNCHANGED <<file, lock, work, reply, revoked>>
  BY DEF Call
<1>4. \A g \in Handlers : Undecided(g)' <=> Undecided(g)
  BY <1>2, <1>3 DEF Undecided
<1>5. Registered' = Registered
  BY <1>3, <1>4 DEF Registered
<1>6. Stages'
  BY <1>2, <1>3 DEF Stages
<1>7. lock # h
  BY <1>2 DEF CoreInv, Mutex, Mutating
<1>8. Promise'
  BY <1>2, <1>3, <1>5, <1>7, PromiseKept
<1>9. Registry!Submit(h)
  BY <1>1, <1>2, <1>3, <1>5 DEF Registry!Submit, Registry!Requests, Requests,
     Registry!NoRequest, NoRequest
<1> QED
  BY <1>6, <1>8, <1>9 DEF Registry!Next

LEMMA ReturnStep ==
    ASSUME TypeOK, CoreInv, Stages, Promise, NEW h \in Handlers, Return(h)
    PROVE  Stages' /\ Promise' /\ [Registry!Next]_(Registry!vars)
<1>1. /\ pc[h] = "done" /\ reply[h] # NoReply
      /\ pc'[h] = "idle" /\ op'[h] = NoRequest /\ reply'[h] = NoReply
      /\ \A g \in Handlers : g # h =>
            pc'[g] = pc[g] /\ op'[g] = op[g] /\ reply'[g] = reply[g]
  BY DEF Return, TypeOK, Stages
<1>2. UNCHANGED <<file, lock, work, revoked>>
  BY DEF Return
<1>3. \A g \in Handlers : Undecided(g)' <=> Undecided(g)
  BY <1>1, <1>2 DEF Undecided
<1>4. Registered' = Registered
  BY <1>2, <1>3 DEF Registered
<1>5. Stages'
  BY <1>1 DEF Stages
<1>6. lock # h
  BY <1>1 DEF CoreInv, Mutex, Mutating
<1>7. Promise'
  BY <1>1, <1>2, <1>4, <1>6, PromiseKept
<1>8. Registry!Take(h)
  BY <1>1, <1>2, <1>4 DEF Return, Registry!Take, Registry!NoReply, NoReply,
     Registry!NoRequest, NoRequest
<1> QED
  BY <1>5, <1>7, <1>8 DEF Registry!Next

(* An early answer "ok" changes nothing, and is an effect of the request   *)
(* that leaves the registry as it was.                                     *)
LEMMA EarlyOkStep ==
    ASSUME TypeOK, CoreInv, Stages, lock = Free, NEW h \in Handlers, pc[h] = "waiting",
           NEW users, AnswerUnchanged(h, "ok", users),
           [next |-> file[Primary], result |-> users] \in Registry!Effects(op[h])
    PROVE  Stages' /\ Promise' /\ Registry!Next
<1>1. /\ Answer(h, "ok", users)
      /\ UNCHANGED <<file, revoked>>
  BY DEF AnswerUnchanged
<1>2. /\ Stages' /\ Promise'
      /\ Registered' = file'[Primary]
      /\ UNCHANGED op
      /\ Registry!Pending(h)
      /\ Registry!Reply(h, "ok", users)
  BY <1>1, AnswerFacts
<1>3. Registered = file[Primary]
  BY RegisteredFacts
<1>4. revoked' = revoked \cup (IdsOf(Registered) \ IdsOf(Registered'))
  BY <1>1, <1>2, <1>3
<1>5. [next |-> Registered', result |-> users] \in Registry!Effects(op[h])
  BY <1>1, <1>2
<1> QED
  BY <1>2, <1>4, <1>5, ServeStep

(* A mutation begins with an effect the registry allows. *)
LEMMA PersistStep ==
    ASSUME TypeOK, CoreInv, Stages, Promise, lock = Free, NEW h \in Handlers, pc[h] = "waiting",
           NEW updated, NEW removed, NEW added, PersistAndApply(h, updated, removed, added),
           [next |-> updated[Primary],
            result |-> IF added # {} THEN added ELSE file[Primary] \ updated[Primary]]
               \in Registry!Effects(op[h])
    PROVE  Stages' /\ Promise' /\ [Registry!Next]_(Registry!vars)
<1>1. /\ pc'[h] = "write" /\ lock' = h
      /\ \A g \in Handlers : g # h => pc'[g] = pc[g]
      /\ work'[h].original = file /\ work'[h].updated = updated /\ work'[h].added = added
      /\ UNCHANGED <<file, op, reply, revoked>>
  BY DEF PersistAndApply, TypeOK
<1>2. Registered = file[Primary]
  BY RegisteredFacts
<1>3. Registered' = file[Primary]
  BY <1>1 DEF Registered, Undecided
<1>4. Stages'
  BY <1>1 DEF Stages
<1>5. Effect(h)' = [next |-> updated[Primary],
                    result |-> IF added # {} THEN added ELSE file[Primary] \ updated[Primary]]
  BY <1>1 DEF Effect, Result
<1>6. Registry!Effects(op[h])' = Registry!Effects(op[h])
  BY <1>1, <1>2, <1>3, EffectsKept
<1>7. Promise'
  BY <1>1, <1>5, <1>6 DEF Promise
<1> QED
  BY <1>1, <1>2, <1>3, <1>4, <1>7, Stutter

(* Unknown names change nothing. *)
LEMMA UnknownStep ==
    ASSUME TypeOK, CoreInv, Stages, lock = Free, NEW h \in Handlers, pc[h] = "waiting",
           op[h].kind \in {"delete", "rotate"}, Unknown(h), AnswerUnchanged(h, "notFound", {})
    PROVE  Stages' /\ Promise' /\ Registry!Next
<1>1. /\ Answer(h, "notFound", {})
      /\ UNCHANGED <<file, revoked>>
  BY DEF AnswerUnchanged
<1>2. /\ Stages' /\ Promise'
      /\ Registered' = file'[Primary]
      /\ UNCHANGED op
      /\ Registry!Pending(h)
      /\ Registry!Reply(h, "notFound", {})
  BY <1>1, AnswerFacts
<1>3. Registered = file[Primary] /\ ~Registry!Known(op[h].names)
  BY RegisteredFacts, KnownFacts
<1> QED
  BY <1>1, <1>2, <1>3, NotFoundStep

LEMMA BeginStep ==
    ASSUME TypeOK, CoreInv, Stages, Promise, NEW h \in Handlers, Begin(h)
    PROVE  Stages' /\ Promise' /\ [Registry!Next]_(Registry!vars)
<1>1. lock = Free /\ pc[h] = "waiting"
  BY DEF Begin, LoadFails, List, AddBulk, Delete, Rotate, DeleteAll, Acquires
<1>2. CASE LoadFails(h)
  <2>1. /\ Answer(h, "error", {})
        /\ UNCHANGED <<file, revoked>>
    BY <1>2 DEF LoadFails, AnswerUnchanged
  <2>2. /\ Stages' /\ Promise'
        /\ Registered' = file'[Primary]
        /\ UNCHANGED op
        /\ Registry!Pending(h)
        /\ Registry!Reply(h, "error", {})
    BY <1>1, <2>1, AnswerFacts
  <2>3. Registered = file[Primary]
    BY <1>1, RegisteredFacts
  <2> QED
    BY <2>1, <2>2, <2>3, RefuseStep
<1>3. CASE List(h)
  BY <1>1, <1>3, ListEffect, EarlyOkStep DEF List, Acquires
<1>4. CASE AddBulk(h)
  <2> DEFINE fresh == op[h].names \ NamesOf(file[Primary])
  <2>1. op[h].kind = "add"
    BY <1>4 DEF AddBulk, Acquires
  <2>2. CASE fresh = {} /\ AnswerUnchanged(h, "ok", {})
    <3>1. {} \in NewUsers(fresh, UUIDs \ issued)
      BY <2>2, NoNewUsers
    <3>2. AddUsersToList(file[Primary], {}) = file[Primary]
      BY DEF AddUsersToList
    <3>3. [next |-> file[Primary], result |-> {}] \in Registry!Effects(op[h])
      BY <1>1, <2>1, <3>1, <3>2, AddEffect
    <3> QED
      BY <1>1, <2>2, <3>3, EarlyOkStep
  <2>3. ASSUME fresh # {}, NEW added \in NewUsers(fresh, UUIDs \ issued),
               PersistAndApply(h, [t \in Inbounds |-> AddUsersToList(file[t], added)], {}, added)
        PROVE  Stages' /\ Promise' /\ [Registry!Next]_(Registry!vars)
    <3> DEFINE updated == [t \in Inbounds |-> AddUsersToList(file[t], added)]
    <3>1. added # {}
      BY <2>3, NewUsersFacts DEF NamesOf
    <3>2. updated[Primary] = AddUsersToList(file[Primary], added)
      BY InboundsAssumption
    <3>3. [next |-> updated[Primary], result |-> added] \in Registry!Effects(op[h])
      BY <1>1, <2>1, <3>2, AddEffect
    <3> HIDE DEF updated
    <3>4. PersistAndApply(h, updated, {}, added)
      BY <2>3 DEF updated
    <3>5. [next |-> updated[Primary],
           result |-> IF added # {} THEN added ELSE file[Primary] \ updated[Primary]]
             \in Registry!Effects(op[h])
      BY <3>1, <3>3
    <3> QED
      BY <1>1, <3>4, <3>5, PersistStep
  <2> QED
    BY <1>4, <2>2, <2>3 DEF AddBulk
<1>5. CASE Delete(h)
  <2>1. op[h].kind = "delete"
    BY <1>5 DEF Delete, Acquires
  <2>2. CASE Unknown(h) /\ AnswerUnchanged(h, "notFound", {})
    BY <1>1, <2>1, <2>2, UnknownStep
  <2>3. CASE ~Unknown(h)
    <3> DEFINE updated == [t \in Inbounds |-> RemoveUsersFromList(file[t], op[h].names)]
    <3>1. updated[Primary] = Without(file[Primary], op[h].names)
      BY InboundsAssumption DEF RemoveUsersFromList
    <3>2. PersistAndApply(h, updated, op[h].names, {})
      BY <1>5, <2>3 DEF Delete
    <3> HIDE DEF updated
    <3>3. [next |-> updated[Primary],
           result |-> IF {} # {} THEN {} ELSE file[Primary] \ updated[Primary]]
             \in Registry!Effects(op[h])
      BY <1>1, <2>1, <2>3, <3>1, DeleteEffect
    <3> QED
      BY <1>1, <3>2, <3>3, PersistStep
  <2> QED
    BY <1>5, <2>2, <2>3 DEF Delete
<1>6. CASE Rotate(h)
  <2>1. op[h].kind = "rotate"
    BY <1>6 DEF Rotate, Acquires
  <2>2. CASE Unknown(h) /\ AnswerUnchanged(h, "notFound", {})
    BY <1>1, <2>1, <2>2, UnknownStep
  <2>3. ASSUME ~Unknown(h), NEW name \in op[h].names, NEW id \in UUIDs \ issued,
               PersistAndApply(h, [t \in Inbounds |-> RotateUserInList(file[t], name, id)],
                               {name}, {[name |-> name, uuid |-> id]})
        PROVE  Stages' /\ Promise' /\ [Registry!Next]_(Registry!vars)
    <3> DEFINE updated == [t \in Inbounds |-> RotateUserInList(file[t], name, id)]
               added == {[name |-> name, uuid |-> id]}
    <3>1. updated[Primary] = RotateUserInList(file[Primary], name, id)
      BY InboundsAssumption
    <3>2. [next |-> updated[Primary], result |-> added] \in Registry!Effects(op[h])
      BY <1>1, <2>1, <2>3, <3>1, RotateEffect
    <3>3. added # {}
      OBVIOUS
    <3> HIDE DEF updated, added
    <3>4. PersistAndApply(h, updated, {name}, added)
      BY <2>3 DEF updated, added
    <3>5. [next |-> updated[Primary],
           result |-> IF added # {} THEN added ELSE file[Primary] \ updated[Primary]]
             \in Registry!Effects(op[h])
      BY <3>2, <3>3
    <3> QED
      BY <1>1, <3>4, <3>5, PersistStep
  <2> QED
    BY <1>6, <2>2, <2>3 DEF Rotate
<1>7. CASE DeleteAll(h)
  <2>1. op[h].kind = "deleteAll"
    BY <1>7 DEF DeleteAll, Acquires
  <2>2. [next |-> {}, result |-> file[Primary]] \in Registry!Effects(op[h])
    BY <1>1, <2>1, DeleteAllEffect
  <2>3. CASE file[Primary] = {} /\ AnswerUnchanged(h, "ok", {})
    <3>1. [next |-> file[Primary], result |-> {}] \in Registry!Effects(op[h])
      BY <2>2, <2>3
    <3> QED
      BY <1>1, <2>3, <3>1, EarlyOkStep
  <2>4. CASE PersistAndApply(h, NoUsers, NamesOf(file[Primary]), {})
    <3>1. NoUsers[Primary] = {}
      BY InboundsAssumption DEF NoUsers
    <3>2. [next |-> NoUsers[Primary],
           result |-> IF {} # {} THEN {} ELSE file[Primary] \ NoUsers[Primary]]
             \in Registry!Effects(op[h])
      BY <2>2, <3>1
    <3> QED
      BY <1>1, <2>4, <3>2, PersistStep
  <2> QED
    BY <1>7, <2>3, <2>4 DEF DeleteAll
<1> QED
  BY <1>2, <1>3, <1>4, <1>5, <1>6, <1>7 DEF Begin

(* A step inside persistAndApply that does not answer: the file it writes  *)
(* is not the registry's yet, or no longer.                                *)
LEMMA StayStep ==
    ASSUME TypeOK, CoreInv, Stages, Promise, NEW h \in Handlers, pc[h] \in Mutating,
           pc'[h] \in Mutating,
           \A g \in Handlers : g # h => pc'[g] = pc[g],
           UNCHANGED <<lock, op, reply, revoked>>,
           /\ work'[h].original = work[h].original
           /\ work'[h].updated = work[h].updated
           /\ work'[h].added = work[h].added,
           pc'[h] \in {"write", "rerestart"} => file' = work[h].original
    PROVE  Stages' /\ Promise' /\ [Registry!Next]_(Registry!vars)
<1>1. lock = h
  BY CoreHolder
<1>2. Registered = work[h].original[Primary]
  BY <1>1, RegisteredFacts
<1>3. Registered' = work[h].original[Primary]
  <2>1. CASE pc'[h] \in {"apply", "restart", "restore"}
    BY <1>1, <2>1 DEF Registered, Undecided
  <2>2. CASE pc'[h] \in {"write", "rerestart"}
    <3>1. ~\E g \in Handlers : Undecided(g)'
      BY <1>1, <2>2 DEF Undecided
    <3> QED
      BY <2>2, <3>1 DEF Registered
  <2> QED
    BY <2>1, <2>2 DEF Mutating
<1>4. Stages'
  BY DEF Stages, Mutating
<1>5. Promise'
  BY <1>1, <1>2, <1>3, PromiseKept
<1> QED
  BY <1>2, <1>3, <1>4, <1>5, Stutter

(* The mutation under way succeeds: the file becomes the registry. *)
LEMMA SucceedStep ==
    ASSUME TypeOK, CoreInv, Stages, Promise, NEW h \in Handlers, pc[h] \in {"apply", "restart"},
           Succeed(h)
    PROVE  Stages' /\ Promise' /\ [Registry!Next]_(Registry!vars)
<1>1. lock = h /\ file = work[h].updated
  BY CoreHolder DEF Mutating, FileOf
<1>2. /\ Answer(h, "ok", Result(h))
      /\ UNCHANGED file
      /\ revoked' = revoked \cup (IdsOf(work[h].original[Primary])
                                      \ IdsOf(work[h].updated[Primary]))
  BY DEF Succeed
<1>3. /\ Stages' /\ Promise'
      /\ Registered' = file'[Primary]
      /\ UNCHANGED op
      /\ Registry!Pending(h)
      /\ Registry!Reply(h, "ok", Result(h))
  BY <1>2, AnswerFacts
<1>4. Registered = work[h].original[Primary]
  BY <1>1, RegisteredFacts
<1>5. Registered' = work[h].updated[Primary]
  BY <1>1, <1>2, <1>3
<1>6. [next |-> Registered', result |-> Result(h)] \in Registry!Effects(op[h])
  BY <1>1, <1>5 DEF Promise, Effect
<1>7. revoked' = revoked \cup (IdsOf(Registered) \ IdsOf(Registered'))
  BY <1>2, <1>4, <1>5
<1> QED
  BY <1>3, <1>6, <1>7, ServeStep

(* A mutation is given up with its original file in place. *)
LEMMA GiveUpStep ==
    ASSUME TypeOK, CoreInv, Stages, Promise, NEW h \in Handlers, pc[h] \in {"write", "rerestart"},
           NEW code \in {"error", "restored"}, Answer(h, code, {}),
           UNCHANGED <<file, revoked>>
    PROVE  Stages' /\ Promise' /\ [Registry!Next]_(Registry!vars)
<1>1. lock = h /\ file = work[h].original
  BY CoreHolder DEF Mutating, FileOf
<1>2. /\ Stages' /\ Promise'
      /\ Registered' = file'[Primary]
      /\ UNCHANGED op
      /\ Registry!Pending(h)
      /\ Registry!Reply(h, code, {})
  BY AnswerFacts
<1>3. Registered' = Registered
  BY <1>1, <1>2, RegisteredFacts
<1> QED
  BY <1>2, <1>3, RefuseStep

(* The rollback fails: the file is the new one or the original one.        *)
LEMMA RollbackFailsStep ==
    ASSUME TypeOK, CoreInv, Stages, Promise, NEW h \in Handlers, pc[h] \in {"restore", "rerestart"},
           RollbackFails(h)
    PROVE  Stages' /\ Promise' /\ [Registry!Next]_(Registry!vars)
<1>1. lock = h /\ file \in {work[h].original, work[h].updated}
  BY CoreHolder DEF Mutating, FileOf
<1>2. /\ Answer(h, "rollbackFailed", {})
      /\ UNCHANGED <<file, revoked>>
  BY DEF RollbackFails
<1>3. /\ Stages' /\ Promise'
      /\ Registered' = file'[Primary]
      /\ UNCHANGED op
      /\ Registry!Pending(h)
      /\ Registry!Reply(h, "rollbackFailed", {})
  BY <1>2, AnswerFacts
<1>4. CASE file = work[h].original
  <2>1. Registered' = Registered
    BY <1>1, <1>2, <1>3, <1>4, RegisteredFacts
  <2> QED
    BY <1>2, <1>3, <2>1, InDoubtStep
<1>5. CASE file = work[h].updated
  <2>1. [next |-> Registered', result |-> Result(h)] \in Registry!Effects(op[h])
    BY <1>1, <1>2, <1>3, <1>5 DEF Promise, Effect
  <2> QED
    BY <1>2, <1>3, <2>1, InDoubtStep
<1> QED
  BY <1>1, <1>4, <1>5

LEMMA ProceedStep ==
    ASSUME TypeOK, CoreInv, Stages, Promise, NEW h \in Handlers, Proceed(h)
    PROVE  Stages' /\ Promise' /\ [Registry!Next]_(Registry!vars)
<1>1. CASE Write(h)
  BY <1>1, StayStep DEF Write, Goto, Mutating, TypeOK
<1>2. CASE WriteFails(h)
  BY <1>2, GiveUpStep DEF WriteFails, AnswerUnchanged
<1>3. CASE Remove(h)
  <2>1. /\ pc[h] = "apply" /\ pc'[h] \in {"apply", "restore"}
        /\ \A g \in Handlers : g # h => pc'[g] = pc[g]
        /\ UNCHANGED <<lock, op, reply, revoked>>
    BY <1>3 DEF Remove, NextRemoval, Goto, TypeOK
  <2>2. /\ work'[h].original = work[h].original
        /\ work'[h].updated = work[h].updated
        /\ work'[h].added = work[h].added
    BY <1>3 DEF Remove, TypeOK, Work
  <2> QED
    BY <2>1, <2>2, StayStep DEF Mutating
<1>4. CASE Add(h)
  <2>1. /\ pc[h] = "apply" /\ pc'[h] \in {"apply", "restore"}
        /\ \A g \in Handlers : g # h => pc'[g] = pc[g]
        /\ UNCHANGED <<lock, op, reply, revoked>>
    BY <1>4 DEF Add, NextAddition, Goto, TypeOK
  <2>2. /\ work'[h].original = work[h].original
        /\ work'[h].updated = work[h].updated
        /\ work'[h].added = work[h].added
    BY <1>4 DEF Add, TypeOK, Work
  <2> QED
    BY <2>1, <2>2, StayStep DEF Mutating
<1>5. CASE Applied(h)
  BY <1>5, SucceedStep DEF Applied
<1>6. CASE RestartXray(h)
  <2>1. CASE Succeed(h)
    BY <1>6, <2>1, SucceedStep DEF RestartXray
  <2>2. CASE Goto(h, "restore") /\ UNCHANGED <<lock, op, work, reply, revoked>>
    BY <1>6, <2>2, StayStep DEF RestartXray, Goto, Mutating, TypeOK
  <2> QED
    BY <1>6, <2>1, <2>2 DEF RestartXray
<1>7. CASE Restore(h)
  BY <1>7, StayStep DEF Restore, Goto, Mutating, TypeOK
<1>8. CASE RestoreFails(h)
  BY <1>8, RollbackFailsStep DEF RestoreFails
<1>9. CASE RestartRestored(h)
  BY <1>9, GiveUpStep, RollbackFailsStep DEF RestartRestored
<1> QED
  BY <1>1, <1>2, <1>3, <1>4, <1>5, <1>6, <1>7, <1>8, <1>9 DEF Proceed

(* Xray and the service endpoints do not touch the registry. *)
LEMMA EnvironmentStep ==
    ASSUME TypeOK, CoreInv, Stages, Promise, UNCHANGED <<file, storeVars>>
    PROVE  Stages' /\ Promise' /\ [Registry!Next]_(Registry!vars)
<1>1. UNCHANGED <<lock, pc, op, work, reply, revoked>>
  BY DEF storeVars
<1>2. Registered' = Registered
  BY <1>1 DEF Registered, Undecided
<1>3. Stages' /\ Promise'
  BY <1>1, <1>2, PromiseKept DEF Stages
<1> QED
  BY <1>1, <1>2, <1>3, Stutter

LEMMA RefinementStep ==
    TypeOK /\ CoreInv /\ Stages /\ Promise /\ [Next]_vars
        => Stages' /\ Promise' /\ [Registry!Next]_(Registry!vars)
<1> SUFFICES ASSUME TypeOK, CoreInv, Stages, Promise, [Next]_vars
             PROVE  Stages' /\ Promise' /\ [Registry!Next]_(Registry!vars)
  OBVIOUS
<1>1. ASSUME NEW h \in Handlers, Step(h)
      PROVE  Stages' /\ Promise' /\ [Registry!Next]_(Registry!vars)
  BY <1>1, CallStep, BeginStep, ProceedStep, ReturnStep DEF Step
<1>2. CASE XrayBoots \/ XrayFails \/ ServiceAction \/ UNCHANGED vars
  <2>1. UNCHANGED <<file, storeVars>>
    BY <1>2 DEF XrayBoots, XrayFails, ServiceAction, vars
  <2> QED
    BY <2>1, EnvironmentStep
<1> QED
  BY <1>1, <1>2 DEF Next

LEMMA RefinementInit == Init => Stages /\ Promise /\ Registry!Init
<1> SUFFICES ASSUME Init
             PROVE  Stages /\ Promise /\ Registry!Init
  OBVIOUS
<1>1. Stages
  BY DEF Init, Stages
<1>2. Promise
  BY FreeAssumption DEF Init, Promise
<1>3. Registered \in InitialUsers
  BY FreeAssumption, InboundsAssumption DEF Init, Registered, Undecided
<1> QED
  BY <1>1, <1>2, <1>3 DEF Init, Registry!Init, Registry!NoRequest, NoRequest,
     Registry!NoReply, NoReply

(* RegistryImplemented: every behaviour of the store is one of the atomic  *)
(* registry, so no update is lost, nothing uncommitted is read, and every  *)
(* answer tells what happened (ConfigStore of store.go).                   *)
THEOREM StoreImplementsRegistry == Spec => RegistryImplemented
<1>1. Init => Stages /\ Promise /\ Registry!Init
  BY RefinementInit
<1>2. TypeOK /\ IInv /\ Stages /\ Promise /\ [Next]_vars
        => Stages' /\ Promise' /\ [Registry!Next]_(Registry!vars)
  BY RefinementStep, CoreOfIInv
<1>3. Spec => [](TypeOK /\ IInv)
  BY Invariance
<1> QED
  BY <1>1, <1>2, <1>3, PTL DEF Spec, RegistryImplemented, Registry!Spec

=============================================================================
