---------------------------- MODULE UserRegistry ----------------------------
(***************************************************************************)
(* What the HTTP API promises its clients, with no lock, file, restart or  *)
(* mirror in sight: one registry of users, and requests that take effect   *)
(* on it in one step each, between their arrival and their answer.         *)
(*                                                                         *)
(*   "ok"              the request took effect, with the users returned    *)
(*   "notFound"        there was no such user, and nothing changed         *)
(*   "error",          nothing changed (for "restored", because the        *)
(*   "restored"        original configuration was put back)                *)
(*   "rollbackFailed"  the one answer that leaves the caller in doubt: the *)
(*                     request took effect or it did not                   *)
(***************************************************************************)
EXTENDS Clients

CONSTANTS Handlers, InitialUsers

VARIABLES users,     \* the registered users
          request,   \* the request each handler serves
          reply,     \* its answer
          revoked    \* ids of users whose deletion or rotation was answered "ok"

vars == <<users, request, reply, revoked>>

NoRequest == [kind |-> "none", names |-> {}]
NoReply   == [code |-> "none", users |-> {}]

Requests ==
    [kind : {"list", "deleteAll"}, names : {{}}]
        \cup [kind : {"add"}, names : (SUBSET Names) \ {{}}]
        \cup [kind : {"delete", "rotate"}, names : {{n} : n \in Names}]

Init == /\ users \in InitialUsers
        /\ request = [h \in Handlers |-> NoRequest]
        /\ reply = [h \in Handlers |-> NoReply]
        /\ revoked = {}

Submit(h) ==
    /\ request[h] = NoRequest
    /\ \E r \in Requests : request' = [request EXCEPT ![h] = r]
    /\ UNCHANGED <<users, reply, revoked>>

Pending(h) == request[h] # NoRequest /\ reply[h] = NoReply

Reply(h, code, result) ==
    reply' = [reply EXCEPT ![h] = [code |-> code, users |-> result]]

-----------------------------------------------------------------------------
(* What each kind of request may do to the registry: next is the registry  *)
(* it leaves, result the users it returns.  The empty set of effects: the  *)
(* request cannot succeed.                                                 *)

Unused == UUIDs \ (IdsOf(users) \cup revoked)

AddEffects(names) ==
    {[next |-> users \cup new, result |-> new] :
        new \in NewUsers(names \ NamesOf(users), Unused)}

RemoveEffects(names) ==
    {[next |-> Without(users, names), result |-> users \ Without(users, names)]}

RotateEffects(names) ==
    {[next |-> Without(users, names) \cup new, result |-> new] :
        new \in NewUsers(names, Unused)}

Known(names) == names \subseteq NamesOf(users)

Effects(r) ==
    CASE r.kind = "list" -> {[next |-> users, result |-> users]}
      [] r.kind = "add" -> AddEffects(r.names)
      [] r.kind = "delete" /\ Known(r.names) -> RemoveEffects(r.names)
      [] r.kind = "rotate" /\ Known(r.names) -> RotateEffects(r.names)
      [] r.kind = "deleteAll" -> RemoveEffects(NamesOf(users))
      [] OTHER -> {}

-----------------------------------------------------------------------------
Serve(h) ==
    /\ Pending(h)
    /\ \E effect \in Effects(request[h]) :
          /\ users' = effect.next
          /\ Reply(h, "ok", effect.result)
          /\ revoked' = revoked \cup (IdsOf(users) \ IdsOf(effect.next))
    /\ UNCHANGED request

NotFound(h) ==
    /\ Pending(h)
    /\ request[h].kind \in {"delete", "rotate"}
    /\ ~Known(request[h].names)
    /\ Reply(h, "notFound", {})
    /\ UNCHANGED <<users, request, revoked>>

Refuse(h) ==
    /\ Pending(h)
    /\ \E code \in {"error", "restored"} : Reply(h, code, {})
    /\ UNCHANGED <<users, request, revoked>>

LeaveInDoubt(h) ==
    /\ Pending(h)
    /\ \/ UNCHANGED users
       \/ \E effect \in Effects(request[h]) : users' = effect.next
    /\ Reply(h, "rollbackFailed", {})
    /\ UNCHANGED <<request, revoked>>

Finish(h) == Serve(h) \/ NotFound(h) \/ Refuse(h) \/ LeaveInDoubt(h)

Take(h) ==
    /\ reply[h] # NoReply
    /\ request' = [request EXCEPT ![h] = NoRequest]
    /\ reply' = [reply EXCEPT ![h] = NoReply]
    /\ UNCHANGED <<users, revoked>>

Next == \E h \in Handlers : Submit(h) \/ Finish(h) \/ Take(h)

Spec == Init /\ [][Next]_vars

-----------------------------------------------------------------------------
(* A process that can die takes every request with it, unanswered.  At     *)
(* most one of them, the one that held the mutex, has taken effect.        *)
Vanish ==
    /\ request' = [h \in Handlers |-> NoRequest]
    /\ reply' = [h \in Handlers |-> NoReply]
    /\ UNCHANGED revoked
    /\ \/ UNCHANGED users
       \/ \E h \in Handlers : /\ Pending(h)
                             /\ \E effect \in Effects(request[h]) : users' = effect.next

MortalSpec == Init /\ [][Next \/ Vanish]_vars
=============================================================================
