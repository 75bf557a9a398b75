---------------------------- MODULE ConfigStore ----------------------------
(***************************************************************************)
(* The ConfigStore of store.go in one lifetime of the vless-api process,   *)
(* with the HTTP handlers that call it and the Xray process it manages.    *)
(*                                                                         *)
(* Each handler goroutine serves one request at a time.  A mutation takes  *)
(* the mutex, loads config.json, computes the new client lists, writes the *)
(* file, and then brings the running Xray in step: user by user through    *)
(* the live API, or by a restart when the process found no API.  If that   *)
(* fails it puts the file back and restarts Xray.  Every file write and    *)
(* every command is a step of its own that can fail, and Xray and the      *)
(* service endpoints, which take no lock, move between any two of them.    *)
(***************************************************************************)
EXTENDS Xray, Integers, Sequences, FiniteSets

CONSTANTS Handlers,      \* handler goroutines
          Primary,       \* VLESS_INBOUND_TAG
          Mirrors,       \* tags of ConfigStore.mirrors, configured order
          InitialUsers   \* the client lists the process may start from

ASSUME InboundsAssumption ==
    /\ Primary \in Inbounds
    /\ Mirrors \in Seq(STRING)
    /\ Inbounds \subseteq {Primary} \cup {Mirrors[i] : i \in 1..Len(Mirrors)}
    /\ Inbounds \subseteq STRING

(* main refuses to start on a primary list that decodeUserRecords rejects. *)
ASSUME InitialUsersAssumption ==
    /\ InitialUsers \subseteq SUBSET Entry
    /\ \A list \in InitialUsers : WellFormed(list)

VARIABLES liveAPI,   \* s.liveAPI /= nil, decided once by main's Probe
          lock,      \* holder of s.mu, or Free
          pc,        \* where each handler is
          op,        \* the request a handler serves
          work,      \* the local variables of a mutation
          reply,     \* what the handler answered, until it returns
          issued,    \* history: every id handed to a mutation
          revoked,   \* history: ids whose removal was acknowledged
          adrift     \* history: a failed rollback was reported and Xray has
                     \*          not reloaded the file since

storeVars == <<lock, pc, op, work, reply, issued, revoked>>
vars == <<file, xray, live, liveAPI, adrift, storeVars>>

-----------------------------------------------------------------------------
Free == "free"
ASSUME FreeAssumption == Free \notin Handlers

NoRequest == [kind |-> "none", names |-> {}]
Requests ==
    [kind : {"list", "deleteAll"}, names : {{}}]
        \cup [kind : {"add"}, names : (SUBSET Names) \ {{}}]
        \cup [kind : {"delete", "rotate"}, names : {{n} : n \in Names}]

NoReply == [code |-> "none", users |-> {}]
Reply == [code : {"none", "ok", "notFound", "error", "restored", "rollbackFailed"},
          users : SUBSET Entry]

(* Slot 0 is the primary inbound, slot i the mirror Mirrors[i].  A mirror  *)
(* config.json does not have is not Present: mirrorUsers skips it.         *)
Slots   == 0..Len(Mirrors)
TagOf(s) == IF s = 0 THEN Primary ELSE Mirrors[s]
Present == {s \in Slots : TagOf(s) \in Inbounds}

(* original and updated are the document as loaded and as rewritten,       *)
(* removed and added the userDelta, toRemove and toAdd the inbounds that   *)
(* applyLive has still to visit.                                           *)
Work == [original : Roster, updated : Roster,
         removed : SUBSET Names, added : SUBSET Entry,
         toRemove : SUBSET Present, toAdd : SUBSET Present]
NoWork == [original |-> NoUsers, updated |-> NoUsers,
           removed |-> {}, added |-> {}, toRemove |-> {}, toAdd |-> {}]

(* The types of the variables; applyLive's calls go to inbounds that the   *)
(* file has, for Xray has no others (mirrorUsers, persistAndApply).        *)
TypeOK ==
    /\ XrayTypeOK
    /\ liveAPI \in BOOLEAN
    /\ lock \in Handlers \cup {Free}
    /\ pc \in [Handlers -> {"idle", "waiting", "write", "apply", "restart",
                            "restore", "rerestart", "done"}]
    /\ op \in [Handlers -> Requests \cup {NoRequest}]
    /\ work \in [Handlers -> Work]
    /\ reply \in [Handlers -> Reply]
    /\ issued \subseteq UUIDs
    /\ revoked \subseteq UUIDs
    /\ adrift \in BOOLEAN

(* vless-api has just started over a running Xray that booted from the     *)
(* file, with every mirror reconciled.                                     *)
Init ==
    /\ \E list \in InitialUsers :
          /\ file = [t \in Inbounds |-> list]
          /\ issued = IdsOf(list)
    /\ xray = "up"
    /\ live = file
    /\ liveAPI \in BOOLEAN
    /\ lock = Free
    /\ pc = [h \in Handlers |-> "idle"]
    /\ op = [h \in Handlers |-> NoRequest]
    /\ work = [h \in Handlers |-> NoWork]
    /\ reply = [h \in Handlers |-> NoReply]
    /\ revoked = {}
    /\ adrift = FALSE

-----------------------------------------------------------------------------
(* A request arrives; the handler's response reaches the client. *)

Call(h) ==
    /\ pc[h] = "idle"
    /\ \E r \in Requests : op' = [op EXCEPT ![h] = r]
    /\ pc' = [pc EXCEPT ![h] = "waiting"]
    /\ UNCHANGED <<file, xray, live, liveAPI, lock, work, reply, issued, revoked, adrift>>

Return(h) ==
    /\ pc[h] = "done"
    /\ pc' = [pc EXCEPT ![h] = "idle"]
    /\ op' = [op EXCEPT ![h] = NoRequest]
    /\ reply' = [reply EXCEPT ![h] = NoReply]
    /\ UNCHANGED <<file, xray, live, liveAPI, lock, work, issued, revoked, adrift>>

(* Mutant: the return after a failed rollback forgets to unlock. *)
AnswerKeepingLock(h, code, users) ==
    /\ reply' = [reply EXCEPT ![h] = [code |-> code, users |-> users]]
    /\ pc' = [pc EXCEPT ![h] = "done"]
    /\ work' = [work EXCEPT ![h] = NoWork]
    /\ lock' = IF code = "rollbackFailed" THEN lock ELSE Free
    /\ UNCHANGED op

(* The mutex is released by every return. *)
Answer(h, code, users) ==
    /\ reply' = [reply EXCEPT ![h] = [code |-> code, users |-> users]]
    /\ pc' = [pc EXCEPT ![h] = "done"]
    /\ work' = [work EXCEPT ![h] = NoWork]
    /\ lock' = Free
    /\ UNCHANGED op

-----------------------------------------------------------------------------
(* With the mutex: load the file, decide, and either answer at once or go  *)
(* on to persistAndApply.                                                  *)

(* Mutant: a mutation that does not take the mutex. *)
AcquiresUnlocked(h, kind) == pc[h] = "waiting" /\ op[h].kind = kind

Acquires(h, kind) == pc[h] = "waiting" /\ lock = Free /\ op[h].kind = kind

AnswerUnchanged(h, code, users) ==
    /\ Answer(h, code, users)
    /\ UNCHANGED <<file, xray, live, liveAPI, issued, revoked, adrift>>

(* The file cannot be read or parsed, decodeUserRecords rejects the list,  *)
(* or randomUUID fails.                                                    *)
LoadFails(h) ==
    /\ pc[h] = "waiting"
    /\ lock = Free
    /\ AnswerUnchanged(h, "error", {})

PersistAndApply(h, updated, removed, added) ==
    /\ work' = [work EXCEPT ![h] = [original |-> file, updated |-> updated,
                                    removed |-> removed, added |-> added,
                                    toRemove |-> IF removed = {} THEN {} ELSE Present,
                                    toAdd |-> IF added = {} THEN {} ELSE Present]]
    /\ lock' = h
    /\ pc' = [pc EXCEPT ![h] = "write"]
    /\ issued' = issued \cup IdsOf(added)
    /\ UNCHANGED <<file, xray, live, liveAPI, op, reply, revoked, adrift>>

List(h) ==
    /\ Acquires(h, "list")
    /\ WellFormed(file[Primary])
    /\ AnswerUnchanged(h, "ok", file[Primary])

AddBulk(h) ==
    LET fresh == op[h].names \ NamesOf(file[Primary])
    IN  /\ Acquires(h, "add")
        /\ WellFormed(file[Primary])
        /\ \/ fresh = {} /\ AnswerUnchanged(h, "ok", {})
           \/ /\ fresh # {}
              /\ \E added \in NewUsers(fresh, UUIDs \ issued) :
                    PersistAndApply(h, [t \in Inbounds |-> AddUsersToList(file[t], added)],
                                    {}, added)

(* Delete and Rotate look one name up in the primary list. *)
Unknown(h) == op[h].names \cap NamesOf(file[Primary]) = {}

Delete(h) ==
    /\ Acquires(h, "delete")
    /\ \/ Unknown(h) /\ AnswerUnchanged(h, "notFound", {})
       \/ /\ ~Unknown(h)
          /\ PersistAndApply(h, [t \in Inbounds |-> RemoveUsersFromList(file[t], op[h].names)],
                             op[h].names, {})

(* Mutant: the new id is written to the primary inbound only. *)
RotatePrimaryOnly(h) ==
    /\ Acquires(h, "rotate")
    /\ \/ Unknown(h) /\ AnswerUnchanged(h, "notFound", {})
       \/ /\ ~Unknown(h)
          /\ \E name \in op[h].names, id \in UUIDs \ issued :
                PersistAndApply(h, [file EXCEPT ![Primary] = RotateUserInList(@, name, id)],
                                {name}, {[name |-> name, uuid |-> id]})

Rotate(h) ==
    /\ Acquires(h, "rotate")
    /\ \/ Unknown(h) /\ AnswerUnchanged(h, "notFound", {})
       \/ /\ ~Unknown(h)
          /\ \E name \in op[h].names, id \in UUIDs \ issued :
                PersistAndApply(h, [t \in Inbounds |-> RotateUserInList(file[t], name, id)],
                                {name}, {[name |-> name, uuid |-> id]})

DeleteAll(h) ==
    /\ Acquires(h, "deleteAll")
    /\ \/ file[Primary] = {} /\ AnswerUnchanged(h, "ok", {})
       \/ /\ file[Primary] # {}
          /\ PersistAndApply(h, NoUsers, NamesOf(file[Primary]), {})

Begin(h) == LoadFails(h) \/ List(h) \/ AddBulk(h) \/ Delete(h) \/ Rotate(h) \/ DeleteAll(h)

-----------------------------------------------------------------------------
(* persistAndApply, holding the mutex. *)

Goto(h, label) == pc' = [pc EXCEPT ![h] = label]

(* writeAtomic: all or nothing. *)
Write(h) ==
    /\ pc[h] = "write"
    /\ file' = work[h].updated
    /\ Goto(h, IF liveAPI /\ (work[h].added # {} \/ work[h].removed # {})
               THEN "apply" ELSE "restart")
    /\ UNCHANGED <<xray, live, liveAPI, lock, op, work, reply, issued, revoked, adrift>>

(* Mutant: a failed write leaves the new content behind. *)
WriteFailsTorn(h) ==
    /\ pc[h] = "write"
    /\ file' = work[h].updated
    /\ Answer(h, "error", {})
    /\ UNCHANGED <<xray, live, liveAPI, issued, revoked, adrift>>

WriteFails(h) ==
    /\ pc[h] = "write"
    /\ AnswerUnchanged(h, "error", {})

First(s, slots) == s \in slots /\ \A q \in slots : s <= q

(* applyLive removes everywhere, primary first, before it adds anywhere. *)
NextRemoval(h, s) == pc[h] = "apply" /\ First(s, work[h].toRemove)
(* Mutant: additions do not wait for the removals. *)
NextAdditionEager(h, s) == pc[h] = "apply" /\ First(s, work[h].toAdd)

NextAddition(h, s) ==
    /\ pc[h] = "apply"
    /\ work[h].toRemove = {}
    /\ First(s, work[h].toAdd)

Remove(h) ==
    \E s \in Slots :
        /\ NextRemoval(h, s)
        /\ \/ /\ RemoveUsers(TagOf(s), work[h].removed)
              /\ work' = [work EXCEPT ![h].toRemove = @ \ {s}]
              /\ UNCHANGED pc
           \/ /\ RemoveUsersFails(TagOf(s), work[h].removed)
              /\ Goto(h, "restore")
              /\ UNCHANGED work
        /\ UNCHANGED <<file, xray, liveAPI, lock, op, reply, issued, revoked, adrift>>

Add(h) ==
    \E s \in Slots :
        /\ NextAddition(h, s)
        /\ \/ /\ AddUsers(TagOf(s), work[h].added)
              /\ work' = [work EXCEPT ![h].toAdd = @ \ {s}]
              /\ UNCHANGED pc
           \/ /\ AddUsersFails(TagOf(s), work[h].added)
              /\ Goto(h, "restore")
              /\ UNCHANGED work
        /\ UNCHANGED <<file, xray, liveAPI, lock, op, reply, issued, revoked, adrift>>

(* What a successful mutation returns: the users it added, or for a        *)
(* deletion the users that are gone.                                       *)
Result(h) ==
    IF work[h].added # {} THEN work[h].added
    ELSE work[h].original[Primary] \ work[h].updated[Primary]

Succeed(h) ==
    /\ Answer(h, "ok", Result(h))
    /\ revoked' = revoked \cup (IdsOf(work[h].original[Primary])
                                   \ IdsOf(work[h].updated[Primary]))
    /\ UNCHANGED <<file, liveAPI, issued, adrift>>

Applied(h) ==
    /\ pc[h] = "apply"
    /\ work[h].toRemove = {} /\ work[h].toAdd = {}
    /\ Succeed(h)
    /\ UNCHANGED <<xray, live>>

(* Without the live API the new file is applied by a restart. *)
RestartXray(h) ==
    /\ pc[h] = "restart"
    /\ \/ Restart /\ Succeed(h)
       \/ /\ RestartFails
          /\ Goto(h, "restore")
          /\ UNCHANGED <<file, liveAPI, lock, op, work, reply, issued, revoked, adrift>>

(* Mutant: a rollback that fails is reported as one that worked. *)
RollbackFailsSilently(h) ==
    /\ Answer(h, "restored", {})
    /\ adrift' = TRUE
    /\ UNCHANGED <<file, liveAPI, issued, revoked>>

RollbackFails(h) ==
    /\ Answer(h, "rollbackFailed", {})
    /\ adrift' = TRUE
    /\ UNCHANGED <<file, liveAPI, issued, revoked>>

(* Mutant: the rollback writes the new document again. *)
RestoreUpdated(h) ==
    /\ pc[h] = "restore"
    /\ file' = work[h].updated
    /\ Goto(h, "rerestart")
    /\ UNCHANGED <<xray, live, liveAPI, lock, op, work, reply, issued, revoked, adrift>>

(* The rollback: put the file back, then restart Xray on it. *)
Restore(h) ==
    /\ pc[h] = "restore"
    /\ file' = work[h].original
    /\ Goto(h, "rerestart")
    /\ UNCHANGED <<xray, live, liveAPI, lock, op, work, reply, issued, revoked, adrift>>

RestoreFails(h) ==
    /\ pc[h] = "restore"
    /\ RollbackFails(h)
    /\ UNCHANGED <<xray, live>>

(* Mutant: the rollback does not restart Xray on the restored file. *)
RestoredWithoutRestart(h) ==
    /\ pc[h] = "rerestart"
    /\ Answer(h, "restored", {})
    /\ UNCHANGED <<file, xray, live, liveAPI, issued, revoked, adrift>>

RestartRestored(h) ==
    /\ pc[h] = "rerestart"
    /\ \/ /\ Restart
          /\ Answer(h, "restored", {})
          /\ UNCHANGED <<file, liveAPI, issued, revoked, adrift>>
       \/ RestartFails /\ RollbackFails(h)

Proceed(h) ==
    \/ Write(h) \/ WriteFails(h)
    \/ Remove(h) \/ Add(h) \/ Applied(h)
    \/ RestartXray(h)
    \/ Restore(h) \/ RestoreFails(h) \/ RestartRestored(h)

-----------------------------------------------------------------------------
(* Xray and its unit move without asking the store: on their own, and on   *)
(* /api/start, /api/stop and /api/restart, which do not take the mutex.    *)

XrayBoots == Boots /\ adrift' = FALSE /\ UNCHANGED <<file, liveAPI, storeVars>>

XrayFails == (BootFails \/ Dies) /\ UNCHANGED <<file, liveAPI, adrift, storeVars>>

ServiceAction ==
    /\ Start \/ StartFails \/ Stop \/ StopFails \/ Restart \/ RestartFails
    /\ UNCHANGED <<file, liveAPI, adrift, storeVars>>

Step(h) == Call(h) \/ Begin(h) \/ Proceed(h) \/ Return(h)

Next == (\E h \in Handlers : Step(h)) \/ XrayBoots \/ XrayFails \/ ServiceAction

Spec == Init /\ [][Next]_vars

(* Every write and command ends, the latter within CommandRuntime.Timeout, *)
(* and sync.Mutex hands itself to a waiter that has starved for 1 ms.      *)
Fairness ==
    \A h \in Handlers : SF_vars(Begin(h)) /\ WF_vars(Proceed(h)) /\ WF_vars(Return(h))

FairSpec == Spec /\ Fairness
-----------------------------------------------------------------------------
(* Properties. *)

(* The names the mutation in flight is about. *)
InFlight == UNION {work[h].removed \cup NamesOf(work[h].added) : h \in Handlers}

(* Whenever Xray runs, it accepts on every inbound exactly the users of    *)
(* config.json, but for the users a mutation is working on at that moment; *)
(* so with no mutation in flight the two agree, whichever commands failed, *)
(* restarted or were overtaken before.  Only a failed rollback, which is   *)
(* reported, excuses a difference (persistAndApply, applyLive).            *)
LiveFollowsFile ==
    xray = "up" /\ ~adrift =>
        \A t \in Inbounds : Without(live[t], InFlight) = Without(file[t], InFlight)

(* An id whose deletion or rotation was acknowledged never comes back: not *)
(* to the file by the rollback of another mutation, which writes back the  *)
(* bytes it loaded, and not to a running Xray (Delete, Rotate, DeleteAll). *)
RevokedStaysRevoked ==
    \A t \in Inbounds :
        /\ IdsOf(file[t]) \cap revoked = {}
        /\ ~adrift => IdsOf(live[t]) \cap revoked = {}

(* At no moment of a rotation do two ids of one name work, not even on     *)
(* different inbounds: applyLive removes on every inbound before it adds   *)
(* on any.                                                                 *)
OneKeyPerName ==
    ~adrift =>
        \A s, t \in Inbounds : \A d \in live[s], e \in live[t] :
            d.name = e.name => d = e

(* Every mirror in the file carries the users of the primary inbound, also *)
(* when mirrors repeat, are missing, and mutations fail half-way           *)
(* (mirrorUsers and the three list helpers).                               *)
MirrorsInParity == \A t \in Inbounds : file[t] = file[Primary]

(* A request that arrives is answered, even with handlers competing for    *)
(* the mutex and every command free to fail.                               *)
EveryRequestIsAnswered ==
    \A h \in Handlers : pc[h] = "waiting" ~> pc[h] = "done"

-----------------------------------------------------------------------------
(* The store implements UserRegistry.  Until a mutation is answered, the   *)
(* registry is what it loaded: nobody can see the file it has written.     *)
Undecided(h) == lock = h /\ pc[h] \in {"apply", "restart", "restore"}

Registered ==
    IF \E h \in Handlers : Undecided(h)
    THEN work[lock].original[Primary]
    ELSE file[Primary]

Registry == INSTANCE UserRegistry WITH users <- Registered, request <- op

(* Each request takes effect at one moment, entirely or not at all, on the *)
(* registry the earlier ones left, and its answer tells which: no lost     *)
(* update, no dirty read, no error after a lasting effect (ConfigStore).   *)
RegistryImplemented == Registry!Spec
=============================================================================
