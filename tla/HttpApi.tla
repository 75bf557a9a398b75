------------------------------ MODULE HttpApi ------------------------------
(***************************************************************************)
(* The HTTP side of vless-api (server.go) and the backend that calls it.   *)
(* Behind the handlers is UserRegistry, which ConfigStore implements: one  *)
(* goroutine a call, each call taking effect at one moment.  Here is what  *)
(* lies between that moment and the caller: the checks before a handler    *)
(* runs, the status code it chooses, the response that is lost or late,    *)
(* the death of the process, and the retry.                                *)
(*                                                                         *)
(* A response is lost when the caller gives up or WriteTimeout closes the  *)
(* connection.  Nothing cancels the handler, which waits for the mutex and *)
(* takes effect all the same, perhaps after the call that retried it.      *)
(***************************************************************************)
EXTENDS UserRegistry

CONSTANTS NoKey,    \* the backend knows that a name has no key
          Unsure    \* it cannot know which key a name has, if any

ASSUME KeysAssumption == NoKey \notin UUIDs /\ Unsure \notin UUIDs \cup {NoKey}
ASSUME InitialUsersAssumption == InitialUsers \subseteq SUBSET Entry

VARIABLES call,     \* the HTTP call each goroutine serves
          answer,   \* the response that the checks before the store have written
          waiting,  \* the goroutines whose caller still waits
          view,     \* the key the backend has stored for each name
          haunted   \* history: the names an abandoned call could still change
                    \*          when this call took effect

httpVars == <<vars, call, answer, waiting, view, haunted>>

-----------------------------------------------------------------------------
KindOf == [list |-> "list", add |-> "add", addBulk |-> "add",
           delete |-> "delete", rotate |-> "rotate", deleteAll |-> "deleteAll"]
Routes == DOMAIN KindOf

(* What may be wrong with a call: its key, its method, its body, its names.*)
Flaws(route) ==
    {"none", "key", "method"} \cup (IF route \in {"list", "deleteAll"} THEN {} ELSE {"body", "name"})

HttpCalls == {c \in [route : Routes, names : SUBSET Names] :
                 /\ [kind |-> KindOf[c.route], names |-> c.names] \in Requests
                 /\ c.route = "add" => \E n \in Names : c.names = {n}}
NoCall == [route |-> "none", names |-> {}]

(* json tells writeError from http.NotFound. *)
Answers == [status : {200, 400, 404, 405, 409, 500}, json : BOOLEAN, users : SUBSET Entry]
NoAnswer == [status |-> 0, json |-> FALSE, users |-> {}]
Failure(status) == [status |-> status, json |-> TRUE, users |-> {}]

(* The names a call is about, and those whose keys it can change. *)
Subject(c) == IF c.route \in {"list", "deleteAll"} THEN Names ELSE c.names
Touched(c) == IF c.route = "list" THEN {} ELSE Subject(c)

EntriesOf(list, n) == {e \in list : e.name = n}
KeyOf(list, n) ==
    IF EntriesOf(list, n) = {} THEN NoKey ELSE (CHOOSE e \in EntriesOf(list, n) : TRUE).uuid

(* The types, and that a call is answered once: by the checks, or by the   *)
(* handler (authenticate, require, the handlers of server.go).             *)
HttpTypeOK ==
    /\ users \subseteq Entry
    /\ call \in [Handlers -> HttpCalls \cup {NoCall}]
    /\ answer \in [Handlers -> Answers \cup {NoAnswer}]
    /\ waiting \subseteq Handlers
    /\ view \in [Names -> UUIDs \cup {NoKey, Unsure}]
    /\ haunted \in [Handlers -> SUBSET Names]
    /\ \A h \in Handlers : answer[h] # NoAnswer => request[h] = NoRequest

(* The backend has listed the users. *)
HttpInit ==
    /\ Init
    /\ call = [h \in Handlers |-> NoCall]
    /\ answer = [h \in Handlers |-> NoAnswer]
    /\ waiting = {}
    /\ view = [n \in Names |-> KeyOf(users, n)]
    /\ haunted = [h \in Handlers |-> {}]

-----------------------------------------------------------------------------
(* Mutant: a call with a wrong key is refused in the API's own format. *)
FlawAnswerUniform(c, flaw) ==
    IF flaw = "key" THEN Failure(404)
    ELSE IF flaw = "method" THEN Failure(405)
    ELSE IF flaw = "name" /\ KindOf[c.route] \in {"delete", "rotate"} THEN Failure(500)
    ELSE Failure(400)

(* authenticate, require, decodeBody and the validation of names answer    *)
(* before the store is touched.  Delete and Rotate return an invalid name  *)
(* like any other error.                                                   *)
FlawAnswer(c, flaw) ==
    IF flaw = "key" THEN [NoAnswer EXCEPT !.status = 404]
    ELSE IF flaw = "method" THEN Failure(405)
    ELSE IF flaw = "name" /\ KindOf[c.route] \in {"delete", "rotate"} THEN Failure(500)
    ELSE Failure(400)

(* Mutant: any failed add is a conflict. *)
StatusesConflict(c, code, result) ==
    IF c.route = "add" /\ (code # "ok" \/ result = {}) THEN {409}
    ELSE IF code = "ok" THEN {200}
    ELSE IF code = "notFound" THEN {404}
    ELSE IF c.route = "addBulk" THEN {400, 500} ELSE {500}

(* The status a handler gives to what the store returned.  addUsersBulk    *)
(* looks for "name" in the error, and the error of a failed os.Rename, the *)
(* rollback's included, has the word in it.                                *)
Statuses(c, code, result) ==
    IF c.route = "add" /\ code = "ok" /\ result = {} THEN {409}
    ELSE IF code = "ok" THEN {200}
    ELSE IF code = "notFound" THEN {404}
    ELSE IF c.route = "addBulk" THEN {400, 500} ELSE {500}

-----------------------------------------------------------------------------
(* Mutant: no return after the response to a flawed call. *)
DispatchOn(h, c, flaw) ==
    /\ request' = [request EXCEPT ![h] = [kind |-> KindOf[c.route], names |-> c.names]]
    /\ answer' = [answer EXCEPT ![h] = IF flaw = "none" THEN NoAnswer ELSE FlawAnswer(c, flaw)]

(* A flawed call is answered at once, a sound one goes to the store. *)
Dispatch(h, c, flaw) ==
    \/ /\ flaw = "none"
       /\ request' = [request EXCEPT ![h] = [kind |-> KindOf[c.route], names |-> c.names]]
       /\ UNCHANGED answer
    \/ /\ flaw # "none"
       /\ answer' = [answer EXCEPT ![h] = FlawAnswer(c, flaw)]
       /\ UNCHANGED request

(* The backend has one call at a time out for a name. *)
Busy == UNION {Subject(call[h]) : h \in waiting}

Send(h) ==
    /\ call[h] = NoCall
    /\ \E c \in HttpCalls :
          /\ Subject(c) \cap Busy = {}
          /\ call' = [call EXCEPT ![h] = c]
          /\ \E flaw \in Flaws(c.route) : Dispatch(h, c, flaw)
    /\ waiting' = waiting \cup {h}
    /\ UNCHANGED <<users, reply, revoked, view, haunted>>

Abandoned == {h \in Handlers \ waiting : Pending(h)}

(* The store serves the call. *)
Handle(h) ==
    /\ Finish(h)
    /\ haunted' = [haunted EXCEPT ![h] =
                    Subject(call[h]) \cap UNION {Touched(call[z]) : z \in Abandoned \ {h}}]
    /\ UNCHANGED <<call, answer, waiting, view>>

(* The responses a handler may write now. *)
Responses(h) ==
    IF answer[h] # NoAnswer THEN {answer[h]}
    ELSE IF reply[h] = NoReply THEN {}
    ELSE {[status |-> status, json |-> TRUE, users |-> reply[h].users] :
            status \in Statuses(call[h], reply[h].code, reply[h].users)}

(* The goroutine is through with its call. *)
Finished(h) ==
    /\ call' = [call EXCEPT ![h] = NoCall]
    /\ answer' = [answer EXCEPT ![h] = NoAnswer]
    /\ haunted' = [haunted EXCEPT ![h] = {}]
    /\ IF reply[h] = NoReply THEN UNCHANGED vars ELSE Take(h)

(* The response to an abandoned call goes to a closed connection. *)
Discard(h) ==
    /\ h \notin waiting
    /\ Responses(h) # {}
    /\ Finished(h)
    /\ UNCHANGED <<waiting, view>>

(* What an answer tells the backend of a name: its key; nothing; or that   *)
(* it cannot know.                                                         *)
Settles(c, a) ==
    IF a.status = 200 THEN
        IF c.route \in {"add", "addBulk", "rotate"} THEN NamesOf(a.users)
        ELSE IF c.route = "delete" THEN c.names ELSE Names
    ELSE IF a.status = 404 /\ a.json THEN c.names ELSE {}

Unsettles(c, a) ==
    IF a.status = 500 \/ (a.status = 400 /\ c.route = "addBulk") THEN Touched(c) ELSE {}

Told(c, a) == IF c.route \in {"delete", "deleteAll"} THEN {} ELSE a.users

Doubting(names) == [n \in Names |-> IF n \in names THEN Unsure ELSE view[n]]

Receive(h) ==
    LET c == call[h]
    IN  /\ h \in waiting
        /\ \E a \in Responses(h) :
              view' = [n \in Names |->
                          IF n \in Unsettles(c, a) THEN Unsure
                          ELSE IF n \in Settles(c, a) \ haunted[h] THEN KeyOf(Told(c, a), n)
                          ELSE view[n]]
        /\ waiting' = waiting \ {h}
        /\ Finished(h)

(* A response under way is lost; a handler at work goes on. *)
GiveUp(h) ==
    /\ h \in waiting
    /\ waiting' = waiting \ {h}
    /\ view' = Doubting(Touched(call[h]))
    /\ IF Responses(h) # {} THEN Finished(h) ELSE UNCHANGED <<vars, call, answer, haunted>>

(* vless-api dies and starts again; every connection is reset. *)
Die ==
    /\ Vanish
    /\ call' = [h \in Handlers |-> NoCall]
    /\ answer' = [h \in Handlers |-> NoAnswer]
    /\ waiting' = {}
    /\ view' = Doubting(UNION {Touched(call[h]) : h \in waiting})
    /\ haunted' = [h \in Handlers |-> {}]

HttpNext ==
    \/ \E h \in Handlers : Send(h) \/ Handle(h) \/ Discard(h) \/ Receive(h) \/ GiveUp(h)
    \/ Die

HttpSpec == HttpInit /\ [][HttpNext]_httpVars

-----------------------------------------------------------------------------
(* Properties. *)

(* The backend's stored key of a name is the key vless-api has, unless a   *)
(* call on that name is out, or one was given up or answered in doubt and  *)
(* no later answer has settled it; an answer settles nothing while an      *)
(* abandoned call on the name may still run (server.go's handlers).        *)
ViewIsTrue ==
    \A n \in Names \ Busy : view[n] # Unsure => view[n] = KeyOf(users, n)

(* A backend that is sure of a name is never surprised: it is not told 409 *)
(* of a name it knows to be free nor 404 of one it knows to be taken, also *)
(* when retries and other calls run beside its own (addUser, deleteUser,   *)
(* rotateUser).                                                            *)
NoSurprises ==
    \A h \in waiting : \A a \in Responses(h), n \in Touched(call[h]) :
        /\ a.status = 409 => view[n] # NoKey
        /\ a.status = 404 /\ a.json => view[n] \in {NoKey, Unsure}

-----------------------------------------------------------------------------
(* The inductive invariant behind them. *)

(* A goroutine's request is that of its call, and its only answer so far   *)
(* is that of a check or that of the store.                                *)
OneCall(h) ==
    /\ request[h] # NoRequest =>
          /\ call[h] \in HttpCalls
          /\ request[h] = [kind |-> KindOf[call[h].route], names |-> call[h].names]
    /\ reply[h] # NoReply => request[h] # NoRequest
    /\ answer[h] # NoAnswer =>
          /\ call[h] \in HttpCalls
          /\ \E flaw \in Flaws(call[h].route) \ {"none"} :
                answer[h] = FlawAnswer(call[h], flaw)
    /\ h \in waiting => call[h] \in HttpCalls
    /\ reply[h] = NoReply => haunted[h] = {}
    /\ call[h] \in HttpCalls => haunted[h] \subseteq Subject(call[h])

Codes == {"none", "ok", "notFound", "error", "restored", "rollbackFailed"}

CallsInv ==
    /\ request \in [Handlers -> Requests \cup {NoRequest}]
    /\ reply \in [Handlers -> [code : Codes, users : SUBSET Entry]]
    /\ \A h \in Handlers : OneCall(h)

(* One caller at a time is out for a name, and is told of no other name.   *)
Apart ==
    /\ \A g, h \in waiting : g # h => Subject(call[g]) \cap Subject(call[h]) = {}
    /\ \A h \in Handlers : \A a \in Responses(h) : Settles(call[h], a) \subseteq Subject(call[h])

(* While an abandoned call may still change a name the backend is unsure   *)
(* of it, and an answer from meanwhile settles nothing.                    *)
Haunting ==
    /\ \A z \in Abandoned, n \in Names : n \in Touched(call[z]) => view[n] = Unsure
    /\ \A h \in waiting : \A n \in haunted[h] : view[n] = Unsure
    /\ \A h \in waiting, z \in Abandoned :
          reply[h] # NoReply => Subject(call[h]) \cap Touched(call[z]) \subseteq haunted[h]

(* What an answer settles is so until it is received. *)
Truthful ==
    \A h \in waiting : \A a \in Responses(h) : \A n \in Settles(call[h], a) \ haunted[h] :
        KeyOf(Told(call[h], a), n) = KeyOf(users, n)

(* What the backend believes of a name is so, or the answer under way will *)
(* put it right.                                                           *)
Corrects(h, n) ==
    /\ n \in Touched(call[h])
    /\ Responses(h) # {}
    /\ \A a \in Responses(h) : n \in Settles(call[h], a) \cup Unsettles(call[h], a)

Believed ==
    \A n \in Names :
        \/ view[n] \in {Unsure, KeyOf(users, n)}
        \/ \E h \in waiting : Corrects(h, n)

(* The backend's beliefs are right, doubted, or about to be put right, and *)
(* no answer to come contradicts them, whatever abandoned calls still do   *)
(* (the handlers of server.go).                                            *)
HInv == CallsInv /\ Apart /\ Haunting /\ Truthful /\ Believed /\ NoSurprises
=============================================================================
