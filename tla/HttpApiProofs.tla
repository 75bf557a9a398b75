---------------------------- MODULE HttpApiProofs ----------------------------
(***************************************************************************)
(* What a backend may believe of the users it has asked vless-api for:     *)
(* HttpApi!ViewIsTrue and HttpApi!NoSurprises, for any names, keys and     *)
(* number of calls at a time.                                              *)
(***************************************************************************)
EXTENDS HttpApi, TLAPS

-----------------------------------------------------------------------------
(* Keys. *)

LEMMA KeyFacts ==
    ASSUME NEW list \in SUBSET Entry, NEW n \in Names
    PROVE  /\ n \in NamesOf(list) <=> EntriesOf(list, n) # {}
           /\ n \in NamesOf(list) => KeyOf(list, n) \in UUIDs
           /\ n \notin NamesOf(list) => KeyOf(list, n) = NoKey
<1>1. n \in NamesOf(list) <=> EntriesOf(list, n) # {}
  BY DEF NamesOf, EntriesOf
<1>2. ASSUME EntriesOf(list, n) # {}
      PROVE  KeyOf(list, n) \in UUIDs
  <2>1. (CHOOSE e \in EntriesOf(list, n) : TRUE) \in EntriesOf(list, n)
    BY <1>2
  <2>2. \A e \in EntriesOf(list, n) : e.uuid \in UUIDs
    BY DEF EntriesOf, Entry
  <2> QED
    BY <1>2, <2>1, <2>2 DEF KeyOf
<1> QED
  BY <1>1, <1>2 DEF KeyOf

LEMMA SameKey ==
    ASSUME NEW f, NEW g, NEW n, EntriesOf(f, n) = EntriesOf(g, n)
    PROVE  KeyOf(f, n) = KeyOf(g, n)
BY DEF KeyOf

LEMMA NewUsersNames ==
    ASSUME NEW names \in SUBSET Names, NEW ids \in SUBSET UUIDs, NEW new \in NewUsers(names, ids)
    PROVE  new \subseteq Entry /\ NamesOf(new) = names
<1>1. PICK id \in [names -> ids] : new = {[name |-> n, uuid |-> id[n]] : n \in names}
  BY DEF NewUsers
<1>2. \A u \in new : \E n \in names : u = [name |-> n, uuid |-> id[n]]
  BY <1>1
<1>3. ASSUME NEW n \in names
      PROVE  \E u \in new : u.name = n
  <2>1. [name |-> n, uuid |-> id[n]] \in new
    BY <1>1
  <2> QED
    BY <2>1
<1>4. NamesOf(new) = names
  BY <1>2, <1>3 DEF NamesOf
<1>5. new \subseteq Entry
  BY <1>1 DEF Entry
<1> QED
  BY <1>4, <1>5

-----------------------------------------------------------------------------
(* Calls, and what the store may make of them. *)

LEMMA CallFacts ==
    ASSUME NEW c \in HttpCalls
    PROVE  /\ c # NoCall
           /\ c.names \subseteq Names
           /\ c.route \in {"list", "add", "addBulk", "delete", "rotate", "deleteAll"}
           /\ KindOf[c.route] = (IF c.route = "addBulk" THEN "add" ELSE c.route)
           /\ [kind |-> KindOf[c.route], names |-> c.names] # NoRequest
           /\ c.route \in {"delete", "rotate", "add"} => \E n \in Names : c.names = {n}
           /\ c.route \in {"list", "deleteAll"} => Subject(c) = Names
           /\ c.route \notin {"list", "deleteAll"} => Subject(c) = c.names
           /\ Subject(c) \subseteq Names
           /\ Touched(c) \subseteq Subject(c)
<1>1. /\ c.route \in {"list", "add", "addBulk", "delete", "rotate", "deleteAll"}
      /\ c.names \in SUBSET Names
      /\ [kind |-> KindOf[c.route], names |-> c.names] \in Requests
      /\ c.route = "add" => \E n \in Names : c.names = {n}
  BY DEF HttpCalls, Routes, KindOf
<1>2. KindOf[c.route] = (IF c.route = "addBulk" THEN "add" ELSE c.route)
  BY <1>1 DEF KindOf
<1>3. c.route \in {"delete", "rotate"} => \E n \in Names : c.names = {n}
  BY <1>1, <1>2 DEF Requests
<1>4. KindOf[c.route] # "none" /\ c # NoCall
  BY <1>1, <1>2 DEF NoCall
<1>5. [kind |-> KindOf[c.route], names |-> c.names] # NoRequest
  BY <1>4 DEF NoRequest
<1> QED
  BY <1>1, <1>2, <1>3, <1>4, <1>5 DEF Subject, Touched

(* The names that an answer with status 200 settles. *)
Granted(c, result) ==
    IF c.route \in {"add", "addBulk", "rotate"} THEN NamesOf(result)
    ELSE IF c.route = "delete" THEN c.names ELSE Names

LEMMA EffectFacts ==
    ASSUME NEW c \in HttpCalls, users \subseteq Entry,
           NEW effect \in Effects([kind |-> KindOf[c.route], names |-> c.names])
    PROVE  /\ effect.next \subseteq Entry /\ effect.result \subseteq Entry
           /\ Granted(c, effect.result) \subseteq Subject(c)
           /\ \A n \in Names : n \notin Touched(c) =>
                 EntriesOf(effect.next, n) = EntriesOf(users, n)
           /\ \A n \in Names : n \notin Granted(c, effect.result) =>
                 EntriesOf(effect.next, n) = EntriesOf(users, n)
           /\ \A n \in Granted(c, effect.result) :
                 EntriesOf(effect.next, n) =
                    EntriesOf(IF c.route \in {"delete", "deleteAll"} THEN {} ELSE effect.result, n)
           /\ c.route = "add" /\ effect.result = {} => c.names \subseteq NamesOf(users)
<1> DEFINE r == [kind |-> KindOf[c.route], names |-> c.names]
           unused == UUIDs \ (IdsOf(users) \cup revoked)
<1>0. /\ c.names \subseteq Names /\ r.names = c.names
      /\ c.route \in {"list", "add", "addBulk", "delete", "rotate", "deleteAll"}
      /\ r.kind = (IF c.route = "addBulk" THEN "add" ELSE c.route)
      /\ c.route \in {"list", "deleteAll"} => Subject(c) = Names
      /\ c.route \notin {"list", "deleteAll"} => Subject(c) = c.names
      /\ Touched(c) = (IF c.route = "list" THEN {} ELSE Subject(c))
  BY CallFacts DEF Touched
<1> HIDE DEF r
<1>1. CASE c.route = "list"
  <2>1. effect = [next |-> users, result |-> users]
    BY <1>0, <1>1 DEF Effects, r
  <2> QED
    BY <1>0, <1>1, <2>1 DEF Granted
<1>2. CASE c.route \in {"add", "addBulk"}
  <2>1. effect \in AddEffects(c.names)
    BY <1>0, <1>2 DEF Effects, r
  <2>2. PICK new \in NewUsers(c.names \ NamesOf(users), unused) :
           effect = [next |-> users \cup new, result |-> new]
    BY <2>1 DEF AddEffects, Unused
  <2>3. new \subseteq Entry /\ NamesOf(new) = c.names \ NamesOf(users)
    BY <1>0, <2>2, NewUsersNames
  <2>4. \A n : EntriesOf(users \cup new, n) = EntriesOf(users, n) \cup EntriesOf(new, n)
    BY DEF EntriesOf
  <2>5. \A n : /\ n \notin NamesOf(new) => EntriesOf(new, n) = {}
               /\ n \notin NamesOf(users) => EntriesOf(users, n) = {}
    BY DEF EntriesOf, NamesOf
  <2>6. new = {} => NamesOf(new) = {}
    BY DEF NamesOf
  <2>7. Granted(c, new) = NamesOf(new)
    BY <1>2 DEF Granted
  <2>8. effect.next = users \cup new /\ effect.result = new
    BY <2>2
  <2> QED
    BY <1>0, <1>2, <2>3, <2>4, <2>5, <2>6, <2>7, <2>8
<1>3. CASE c.route = "rotate"
  <2>1. effect \in RotateEffects(c.names)
    BY <1>0, <1>3 DEF Effects, r
  <2>2. PICK new \in NewUsers(c.names, unused) :
           effect = [next |-> Without(users, c.names) \cup new, result |-> new]
    BY <2>1 DEF RotateEffects, Unused
  <2>3. new \subseteq Entry /\ NamesOf(new) = c.names
    BY <1>0, <2>2, NewUsersNames
  <2>4. \A n : EntriesOf(Without(users, c.names) \cup new, n) =
                  EntriesOf(Without(users, c.names), n) \cup EntriesOf(new, n)
    BY DEF EntriesOf
  <2>5. \A n : /\ n \notin NamesOf(new) => EntriesOf(new, n) = {}
               /\ n \in c.names => EntriesOf(Without(users, c.names), n) = {}
               /\ n \notin c.names => EntriesOf(Without(users, c.names), n) = EntriesOf(users, n)
    BY DEF EntriesOf, NamesOf, Without
  <2>6. Granted(c, new) = NamesOf(new) /\ Without(users, c.names) \subseteq Entry
    BY <1>3 DEF Granted, Without
  <2>7. effect.next = Without(users, c.names) \cup new /\ effect.result = new
    BY <2>2
  <2> QED
    BY <1>0, <1>3, <2>3, <2>4, <2>5, <2>6, <2>7
<1>4. CASE c.route \in {"delete", "deleteAll"}
  <2> DEFINE gone == IF c.route = "delete" THEN c.names ELSE NamesOf(users)
  <2>1. effect \in RemoveEffects(gone)
    BY <1>0, <1>4 DEF Effects, r
  <2>2. effect.next = Without(users, gone) /\ effect.result \subseteq users
    BY <2>1 DEF RemoveEffects
  <2>3. \A n : /\ n \in gone => EntriesOf(Without(users, gone), n) = {}
               /\ n \notin gone => EntriesOf(Without(users, gone), n) = EntriesOf(users, n)
               /\ n \notin NamesOf(users) => EntriesOf(users, n) = {}
               /\ EntriesOf({}, n) = {}
    BY DEF EntriesOf, NamesOf, Without
  <2>4. Without(users, gone) \subseteq Entry
    BY DEF Without
  <2>5. Granted(c, effect.result) = (IF c.route = "delete" THEN c.names ELSE Names)
    BY <1>4 DEF Granted
  <2> QED
    BY <1>0, <1>4, <2>2, <2>3, <2>4, <2>5
<1> QED
  BY <1>0, <1>1, <1>2, <1>3, <1>4

-----------------------------------------------------------------------------
(* Responses. *)

(* A check's answer is a failure that settles nothing: its 404 is not      *)
(* JSON, and it is never a conflict.                                       *)
LEMMA FlawAnswerFacts ==
    ASSUME NEW c \in HttpCalls, NEW flaw \in Flaws(c.route) \ {"none"}
    PROVE  /\ FlawAnswer(c, flaw) \in Answers
           /\ FlawAnswer(c, flaw) # NoAnswer
           /\ FlawAnswer(c, flaw).status \notin {200, 409}
           /\ ~(FlawAnswer(c, flaw).status = 404 /\ FlawAnswer(c, flaw).json)
           /\ FlawAnswer(c, flaw).users = {}
<1> DEFINE a == FlawAnswer(c, flaw)
<1>1. CASE flaw = "key"
  <2>1. a = [NoAnswer EXCEPT !.status = 404]
    BY <1>1 DEF FlawAnswer
  <2>2. a \in [status : {404}, json : {FALSE}, users : {{}}]
    BY <2>1 DEF NoAnswer
  <2> HIDE DEF a
  <2>3. a \in Answers
    BY <2>2 DEF Answers
  <2>4. a.status = 404 /\ ~a.json /\ a.users = {}
    BY <2>2
  <2>5. NoAnswer.status = 0
    BY DEF NoAnswer
  <2> QED
    BY <2>3, <2>4, <2>5 DEF a
<1>2. CASE flaw # "key"
  <2>1. PICK s \in {400, 405, 500} : a = [status |-> s, json |-> TRUE, users |-> {}]
    BY <1>2 DEF FlawAnswer, Failure
  <2> HIDE DEF a
  <2>2. a \in Answers
    BY <2>1 DEF Answers
  <2>3. a.status = s /\ a.users = {} /\ a # NoAnswer
    BY <2>1 DEF NoAnswer
  <2> QED
    BY <2>2, <2>3 DEF a
<1> QED
  BY <1>1, <1>2

(* The answer of a check. *)
LEMMA CheckResponse ==
    ASSUME HttpTypeOK, CallsInv, NEW h \in Handlers, answer[h] # NoAnswer
    PROVE  /\ Responses(h) = {answer[h]}
           /\ answer[h] \in Answers
           /\ answer[h].users = {}
           /\ call[h] \in HttpCalls
           /\ Settles(call[h], answer[h]) = {}
           /\ answer[h].status # 409
           /\ ~(answer[h].status = 404 /\ answer[h].json)
           /\ reply[h] = NoReply
<1>1. call[h] \in HttpCalls /\ reply[h] = NoReply
  BY DEF CallsInv, HttpTypeOK, OneCall
<1>2. PICK flaw \in Flaws(call[h].route) \ {"none"} : answer[h] = FlawAnswer(call[h], flaw)
  BY DEF CallsInv, OneCall
<1>3. Responses(h) = {answer[h]}
  BY DEF Responses
<1>4. /\ answer[h] \in Answers /\ answer[h].users = {}
      /\ answer[h].status \notin {200, 409}
      /\ ~(answer[h].status = 404 /\ answer[h].json)
  BY <1>1, <1>2, FlawAnswerFacts
<1>5. Settles(call[h], answer[h]) = {}
  BY <1>4 DEF Settles
<1> QED
  BY <1>1, <1>3, <1>4, <1>5

(* The answer of the store. *)
Response(h, status) == [status |-> status, json |-> TRUE, users |-> reply[h].users]

LEMMA StoreResponse ==
    ASSUME HttpTypeOK, CallsInv, NEW h \in Handlers, reply[h] # NoReply
    PROVE  /\ call[h] \in HttpCalls /\ answer[h] = NoAnswer
           /\ request[h] # NoRequest
           /\ request[h] = [kind |-> KindOf[call[h].route], names |-> call[h].names]
           /\ Responses(h) # {}
           /\ \A a \in Responses(h) :
                 \E status \in Statuses(call[h], reply[h].code, reply[h].users) :
                    a = Response(h, status)
<1>1. /\ call[h] \in HttpCalls /\ request[h] # NoRequest
      /\ request[h] = [kind |-> KindOf[call[h].route], names |-> call[h].names]
  BY DEF CallsInv, OneCall
<1>2. answer[h] = NoAnswer
  BY <1>1 DEF HttpTypeOK
<1>3. Responses(h) = {Response(h, status) : status \in
                         Statuses(call[h], reply[h].code, reply[h].users)}
  BY <1>2 DEF Responses, Response
<1>4. Statuses(call[h], reply[h].code, reply[h].users) # {}
  BY DEF Statuses
<1> QED
  BY <1>1, <1>2, <1>3, <1>4

(* What an answer of the store tells the backend, whatever its status. *)
LEMMA StoreAnswer ==
    ASSUME NEW c \in HttpCalls, NEW code \in Codes, NEW result \in SUBSET Entry,
           NEW status \in Statuses(c, code, result), NEW a,
           a = [status |-> status, json |-> TRUE, users |-> result]
    PROVE  /\ a \in Answers
           /\ code = "ok" => Settles(c, a) = Granted(c, result) /\ Unsettles(c, a) = {}
           /\ code = "notFound" => Settles(c, a) = c.names /\ Unsettles(c, a) = {}
           /\ code \notin {"ok", "notFound"} => Settles(c, a) = {} /\ Unsettles(c, a) = Touched(c)
           /\ a.status = 409 => code = "ok" /\ c.route = "add" /\ result = {}
           /\ a.status = 404 => code = "notFound"
<1>1. a.status = status /\ a.json = TRUE /\ a.users = result
  OBVIOUS
<1>2. /\ code = "ok" => status = IF c.route = "add" /\ result = {} THEN 409 ELSE 200
      /\ code = "notFound" => status = 404
      /\ code \notin {"ok", "notFound"} => status = 500 \/ (status = 400 /\ c.route = "addBulk")
  BY DEF Statuses
<1>3. a \in Answers
  BY <1>2 DEF Answers
<1>4. c.route = "add" /\ result = {} => Granted(c, result) = {}
  BY DEF Granted, NamesOf
<1>5. code = "ok" => Settles(c, a) = Granted(c, result) /\ Unsettles(c, a) = {}
  BY <1>1, <1>2, <1>4 DEF Settles, Unsettles, Granted
<1>6. code = "notFound" => Settles(c, a) = c.names /\ Unsettles(c, a) = {}
  BY <1>1, <1>2 DEF Settles, Unsettles
<1>7. code \notin {"ok", "notFound"} => Settles(c, a) = {} /\ Unsettles(c, a) = Touched(c)
  BY <1>1, <1>2 DEF Settles, Unsettles
<1>8. (status = 409 => code = "ok" /\ c.route = "add" /\ result = {})
      /\ (status = 404 => code = "notFound")
  BY DEF Statuses
<1> QED
  BY <1>1, <1>3, <1>5, <1>6, <1>7, <1>8

LEMMA NoResponse ==
    ASSUME HttpTypeOK, CallsInv, NEW h \in Handlers
    PROVE  Responses(h) = {} <=> answer[h] = NoAnswer /\ reply[h] = NoReply
<1>1. answer[h] # NoAnswer => Responses(h) # {}
  BY CheckResponse
<1>2. reply[h] # NoReply => Responses(h) # {}
  BY StoreResponse
<1>3. answer[h] = NoAnswer /\ reply[h] = NoReply => Responses(h) = {}
  BY DEF Responses
<1> QED
  BY <1>1, <1>2, <1>3

LEMMA SameResponses ==
    ASSUME NEW h, call'[h] = call[h], answer'[h] = answer[h], reply'[h] = reply[h]
    PROVE  Responses(h)' = Responses(h)
BY DEF Responses

-----------------------------------------------------------------------------
(* What each step does, one goroutine at a time. *)

Same(g) ==
    /\ call'[g] = call[g] /\ answer'[g] = answer[g]
    /\ request'[g] = request[g] /\ reply'[g] = reply[g] /\ haunted'[g] = haunted[g]

Through(h) ==
    /\ call'[h] = NoCall /\ answer'[h] = NoAnswer
    /\ request'[h] = NoRequest /\ reply'[h] = NoReply /\ haunted'[h] = {}

LEMMA SendFacts ==
    ASSUME HttpTypeOK, CallsInv, NEW h \in Handlers, Send(h)
    PROVE  \E c \in HttpCalls, flaw \in Flaws(call'[h].route) :
              /\ Subject(c) \cap Busy = {}
              /\ call'[h] = c
              /\ flaw = "none" =>
                    /\ request'[h] = [kind |-> KindOf[c.route], names |-> c.names]
                    /\ answer'[h] = NoAnswer
              /\ flaw # "none" => request'[h] = NoRequest /\ answer'[h] = FlawAnswer(c, flaw)
              /\ reply'[h] = NoReply /\ reply[h] = NoReply /\ haunted'[h] = {}
              /\ request[h] = NoRequest /\ answer[h] = NoAnswer
              /\ h \notin waiting /\ waiting' = waiting \cup {h}
              /\ UNCHANGED <<users, view, reply, haunted>>
              /\ \A g \in Handlers \ {h} : Same(g)
<1>1. PICK c \in HttpCalls :
         /\ Subject(c) \cap Busy = {}
         /\ call' = [call EXCEPT ![h] = c]
         /\ \E flaw \in Flaws(c.route) : Dispatch(h, c, flaw)
  BY DEF Send
<1>2. PICK flaw \in Flaws(c.route) : Dispatch(h, c, flaw)
  BY <1>1
<1>3. NoCall \notin HttpCalls
  BY CallFacts
<1>4. /\ call[h] = NoCall /\ waiting' = waiting \cup {h}
      /\ UNCHANGED <<users, reply, view, haunted>>
  BY DEF Send
<1>5. /\ request[h] = NoRequest /\ answer[h] = NoAnswer /\ reply[h] = NoReply
      /\ h \notin waiting /\ haunted[h] = {}
  BY <1>3, <1>4 DEF CallsInv, OneCall
<1>6. call'[h] = c /\ \A g \in Handlers \ {h} : call'[g] = call[g]
  BY <1>1 DEF HttpTypeOK
<1>7. /\ flaw = "none" =>
            /\ request'[h] = [kind |-> KindOf[c.route], names |-> c.names]
            /\ answer'[h] = NoAnswer
      /\ flaw # "none" => request'[h] = NoRequest /\ answer'[h] = FlawAnswer(c, flaw)
      /\ \A g \in Handlers \ {h} : request'[g] = request[g] /\ answer'[g] = answer[g]
  BY <1>2, <1>5 DEF Dispatch, HttpTypeOK, CallsInv, OneCall
<1> QED
  BY <1>1, <1>4, <1>5, <1>6, <1>7 DEF Same

LEMMA HandleFacts ==
    ASSUME HttpTypeOK, CallsInv, NEW h \in Handlers, Handle(h)
    PROVE  /\ call[h] \in HttpCalls
           /\ answer[h] = NoAnswer /\ reply[h] = NoReply /\ Pending(h)
           /\ UNCHANGED <<call, request, answer, waiting, view>>
           /\ haunted'[h] = Subject(call[h]) \cap UNION {Touched(call[z]) : z \in Abandoned \ {h}}
           /\ \A g \in Handlers \ {h} : Same(g)
           /\ \E code \in Codes \ {"none"}, result \in SUBSET Entry :
                 /\ reply' = [reply EXCEPT ![h] = [code |-> code, users |-> result]]
                 /\ \/ /\ code = "ok"
                       /\ \E effect \in Effects(request[h]) :
                             result = effect.result /\ users' = effect.next
                    \/ /\ code = "notFound" /\ users' = users /\ result = {}
                       /\ call[h].route \in {"delete", "rotate"}
                       /\ ~(call[h].names \subseteq NamesOf(users))
                    \/ code \in {"error", "restored"} /\ users' = users /\ result = {}
                    \/ /\ code = "rollbackFailed" /\ result = {}
                       /\ \/ users' = users
                          \/ \E effect \in Effects(request[h]) : users' = effect.next
<1>1. Pending(h) /\ request' = request
  BY DEF Handle, Finish, Serve, NotFound, Refuse, LeaveInDoubt
<1>2. /\ call[h] \in HttpCalls /\ answer[h] = NoAnswer /\ reply[h] = NoReply
      /\ request[h] = [kind |-> KindOf[call[h].route], names |-> call[h].names]
  BY <1>1 DEF Pending, CallsInv, HttpTypeOK, OneCall
<1>3. /\ UNCHANGED <<call, answer, waiting, view>>
      /\ haunted' = [haunted EXCEPT ![h] =
            Subject(call[h]) \cap UNION {Touched(call[z]) : z \in Abandoned \ {h}}]
  BY DEF Handle
<1>4. \A effect \in Effects(request[h]) : effect.result \in SUBSET Entry
  BY <1>2, EffectFacts DEF HttpTypeOK
<1>5. /\ request[h].names = call[h].names
      /\ request[h].kind \in {"delete", "rotate"} => call[h].route \in {"delete", "rotate"}
  BY <1>2, CallFacts
<1>6. \E code \in Codes \ {"none"}, result \in SUBSET Entry :
         /\ reply' = [reply EXCEPT ![h] = [code |-> code, users |-> result]]
         /\ \/ /\ code = "ok"
               /\ \E effect \in Effects(request[h]) :
                     result = effect.result /\ users' = effect.next
            \/ /\ code = "notFound" /\ users' = users /\ result = {}
               /\ call[h].route \in {"delete", "rotate"}
               /\ ~(call[h].names \subseteq NamesOf(users))
            \/ code \in {"error", "restored"} /\ users' = users /\ result = {}
            \/ /\ code = "rollbackFailed" /\ result = {}
               /\ \/ users' = users
                  \/ \E effect \in Effects(request[h]) : users' = effect.next
  <2>1. CASE Serve(h)
    BY <1>4, <2>1 DEF Serve, Reply, Codes
  <2>2. CASE NotFound(h)
    BY <1>5, <2>2 DEF NotFound, Reply, Known, Codes
  <2>3. CASE Refuse(h)
    BY <2>3 DEF Refuse, Reply, Codes
  <2>4. CASE LeaveInDoubt(h)
    BY <2>4 DEF LeaveInDoubt, Reply, Codes
  <2> QED
    BY <2>1, <2>2, <2>3, <2>4 DEF Handle, Finish
<1>7. \A g \in Handlers \ {h} : reply'[g] = reply[g] /\ haunted'[g] = haunted[g]
  BY <1>3, <1>6 DEF CallsInv, HttpTypeOK, OneCall
<1>8. haunted'[h] = Subject(call[h]) \cap UNION {Touched(call[z]) : z \in Abandoned \ {h}}
  BY <1>3 DEF HttpTypeOK
<1> QED
  BY <1>1, <1>2, <1>3, <1>6, <1>7, <1>8 DEF Same

LEMMA FinishedFacts ==
    ASSUME HttpTypeOK, CallsInv, NEW h \in Handlers, Responses(h) # {}, Finished(h)
    PROVE  /\ users' = users
           /\ Through(h)
           /\ \A g \in Handlers \ {h} : Same(g)
           /\ ~Pending(h)
<1>1. /\ call' = [call EXCEPT ![h] = NoCall] /\ answer' = [answer EXCEPT ![h] = NoAnswer]
      /\ haunted' = [haunted EXCEPT ![h] = {}]
  BY DEF Finished
<1>2. CASE reply[h] = NoReply
  <2>1. request[h] = NoRequest
    BY <1>2, NoResponse DEF HttpTypeOK
  <2>2. UNCHANGED <<users, request, reply>>
    BY <1>2 DEF Finished, vars
  <2> QED
    BY <1>1, <1>2, <2>1, <2>2 DEF HttpTypeOK, Same, Through, Pending
<1>3. CASE reply[h] # NoReply
  <2>1. /\ users' = users
        /\ request' = [request EXCEPT ![h] = NoRequest]
        /\ reply' = [reply EXCEPT ![h] = NoReply]
    BY <1>3 DEF Finished, Take
  <2> QED
    BY <1>1, <1>3, <2>1 DEF HttpTypeOK, CallsInv, Same, Through, Pending, OneCall
<1> QED
  BY <1>2, <1>3

-----------------------------------------------------------------------------
(* The types, and one answer a call. *)

LEMMA OneCallKept ==
    ASSUME NEW g \in Handlers, OneCall(g), Same(g), g \in waiting' => g \in waiting
    PROVE  OneCall(g)'
BY DEF OneCall, Same

LEMMA OneCallOver ==
    ASSUME NEW g \in Handlers, Through(g), g \notin waiting'
    PROVE  OneCall(g)'
<1>1. NoCall \notin HttpCalls
  BY CallFacts
<1> QED
  BY <1>1 DEF OneCall, Through

LEMMA TypedSend ==
    ASSUME HttpTypeOK, CallsInv, NEW h \in Handlers, Send(h)
    PROVE  HttpTypeOK' /\ CallsInv'
<1>1. PICK c \in HttpCalls, flaw \in Flaws(call'[h].route) :
         /\ call'[h] = c
         /\ flaw = "none" =>
               /\ request'[h] = [kind |-> KindOf[c.route], names |-> c.names]
               /\ answer'[h] = NoAnswer
         /\ flaw # "none" => request'[h] = NoRequest /\ answer'[h] = FlawAnswer(c, flaw)
         /\ reply'[h] = NoReply /\ haunted'[h] = {} /\ waiting' = waiting \cup {h}
         /\ UNCHANGED <<users, view, reply, haunted>>
         /\ \A g \in Handlers \ {h} : Same(g)
  BY SendFacts
<1>2. [kind |-> KindOf[c.route], names |-> c.names] \in Requests
  BY DEF HttpCalls
<1>3. flaw # "none" => answer'[h] \in Answers
  BY <1>1, FlawAnswerFacts
<1>4. /\ call' \in [Handlers -> HttpCalls \cup {NoCall}]
      /\ answer' \in [Handlers -> Answers \cup {NoAnswer}]
      /\ request' \in [Handlers -> Requests \cup {NoRequest}]
  <2>1. PICK d \in HttpCalls : call' = [call EXCEPT ![h] = d]
    BY DEF Send
  <2>2. DOMAIN answer' = Handlers /\ DOMAIN request' = Handlers
    BY DEF Send, Dispatch, HttpTypeOK, CallsInv
  <2>3. answer' = [g \in Handlers |-> answer'[g]] /\ request' = [g \in Handlers |-> request'[g]]
    BY DEF Send, Dispatch, HttpTypeOK, CallsInv
  <2>4. \A g \in Handlers : answer'[g] \in Answers \cup {NoAnswer}
    BY <1>1, <1>3 DEF Same, HttpTypeOK
  <2>5. \A g \in Handlers : request'[g] \in Requests \cup {NoRequest}
    BY <1>1, <1>2 DEF Same, CallsInv
  <2> QED
    BY <2>1, <2>3, <2>4, <2>5 DEF HttpTypeOK
<1>5. OneCall(h)'
  BY <1>1 DEF OneCall
<1>6. \A g \in Handlers \ {h} : OneCall(g)'
  BY <1>1, OneCallKept DEF CallsInv
<1>7. \A g \in Handlers : answer'[g] # NoAnswer => request'[g] = NoRequest
  BY <1>1 DEF Same, HttpTypeOK
<1> QED
  BY <1>1, <1>4, <1>5, <1>6, <1>7 DEF HttpTypeOK, CallsInv

LEMMA TypedHandle ==
    ASSUME HttpTypeOK, CallsInv, NEW h \in Handlers, Handle(h)
    PROVE  HttpTypeOK' /\ CallsInv'
<1>1. PICK code \in Codes \ {"none"}, result \in SUBSET Entry :
         /\ reply' = [reply EXCEPT ![h] = [code |-> code, users |-> result]]
         /\ users' = users \/ \E effect \in Effects(request[h]) : users' = effect.next
  BY HandleFacts
<1>2. /\ call[h] \in HttpCalls /\ answer[h] = NoAnswer /\ request[h] # NoRequest
      /\ UNCHANGED <<call, request, answer, waiting, view>>
      /\ haunted'[h] \subseteq Subject(call[h])
      /\ \A g \in Handlers \ {h} : Same(g)
  BY HandleFacts DEF Pending
<1>3. users' \subseteq Entry
  <2>1. request[h] = [kind |-> KindOf[call[h].route], names |-> call[h].names]
    BY <1>2 DEF CallsInv, OneCall
  <2> QED
    BY <1>1, <1>2, <2>1, EffectFacts DEF HttpTypeOK
<1>4. reply' \in [Handlers -> [code : Codes, users : SUBSET Entry]]
  BY <1>1 DEF CallsInv
<1>5. haunted' \in [Handlers -> SUBSET Names]
  <2>1. Subject(call[h]) \subseteq Names
    BY <1>2, CallFacts
  <2> QED
    BY <2>1 DEF Handle, HttpTypeOK
<1>6. reply'[h] # NoReply
  <2>1. reply'[h].code # "none"
    BY <1>1 DEF CallsInv
  <2> QED
    BY <2>1 DEF NoReply
<1>7. OneCall(h)'
  BY <1>2, <1>6 DEF OneCall, CallsInv
<1>8. \A g \in Handlers \ {h} : OneCall(g)'
  BY <1>2, OneCallKept DEF CallsInv
<1> QED
  BY <1>2, <1>3, <1>4, <1>5, <1>7, <1>8 DEF HttpTypeOK, CallsInv

(* A goroutine is through, its caller still there or not. *)
LEMMA TypedFinished ==
    ASSUME HttpTypeOK, CallsInv, NEW h \in Handlers, Responses(h) # {}, Finished(h),
           waiting' = waiting \ {h}, view' \in [Names -> UUIDs \cup {NoKey, Unsure}]
    PROVE  HttpTypeOK' /\ CallsInv'
<1>1. users' = users /\ Through(h) /\ \A g \in Handlers \ {h} : Same(g)
  BY FinishedFacts
<1>2. /\ call' \in [Handlers -> HttpCalls \cup {NoCall}]
      /\ answer' \in [Handlers -> Answers \cup {NoAnswer}]
      /\ haunted' \in [Handlers -> SUBSET Names]
  BY DEF Finished, HttpTypeOK
<1>3. /\ request' \in [Handlers -> Requests \cup {NoRequest}]
      /\ reply' \in [Handlers -> [code : Codes, users : SUBSET Entry]]
  <2>1. NoReply \in [code : Codes, users : SUBSET Entry]
    BY DEF NoReply, Codes
  <2> QED
    BY <2>1 DEF Finished, Take, vars, CallsInv
<1>4. \A g \in Handlers : OneCall(g)'
  BY <1>1, OneCallKept, OneCallOver DEF CallsInv
<1>5. \A g \in Handlers : answer'[g] # NoAnswer => request'[g] = NoRequest
  BY <1>1 DEF Same, Through, HttpTypeOK
<1> QED
  BY <1>1, <1>2, <1>3, <1>4, <1>5 DEF HttpTypeOK, CallsInv

LEMMA AnswerFacts ==
    ASSUME HttpTypeOK, CallsInv, NEW h \in Handlers, NEW a \in Responses(h)
    PROVE  /\ a \in Answers /\ call[h] \in HttpCalls /\ Told(call[h], a) \in SUBSET Entry
           /\ Unsettles(call[h], a) \subseteq Touched(call[h])
           /\ reply[h] = NoReply => Settles(call[h], a) = {}
           /\ ~Pending(h)
<1>1. CASE answer[h] # NoAnswer
  <2>1. a = answer[h] /\ a \in Answers /\ a.users = {} /\ call[h] \in HttpCalls
        /\ Settles(call[h], a) = {} /\ request[h] = NoRequest
    BY <1>1, CheckResponse DEF HttpTypeOK
  <2> QED
    BY <2>1 DEF Told, Unsettles, Pending
<1>2. CASE answer[h] = NoAnswer
  <2>1. reply[h] # NoReply
    BY <1>2, NoResponse
  <2>2. PICK status \in Statuses(call[h], reply[h].code, reply[h].users) : a = Response(h, status)
    BY <2>1, StoreResponse
  <2>3. call[h] \in HttpCalls /\ reply[h].code \in Codes /\ reply[h].users \in SUBSET Entry
    BY <2>1, StoreResponse DEF CallsInv
  <2>4. a \in Answers /\ a.users = reply[h].users
    BY <2>2, <2>3, StoreAnswer DEF Response
  <2> QED
    BY <2>1, <2>3, <2>4 DEF Told, Unsettles, Pending
<1> QED
  BY <1>1, <1>2

LEMMA TypedStep == HttpTypeOK /\ CallsInv /\ [HttpNext]_httpVars => HttpTypeOK' /\ CallsInv'
<1> SUFFICES ASSUME HttpTypeOK, CallsInv, [HttpNext]_httpVars
             PROVE  HttpTypeOK' /\ CallsInv'
  OBVIOUS
<1>0. \A names : Doubting(names) \in [Names -> UUIDs \cup {NoKey, Unsure}]
  BY DEF Doubting, HttpTypeOK
<1>1. ASSUME NEW h \in Handlers, Send(h)
      PROVE  HttpTypeOK' /\ CallsInv'
  BY <1>1, TypedSend
<1>2. ASSUME NEW h \in Handlers, Handle(h)
      PROVE  HttpTypeOK' /\ CallsInv'
  BY <1>2, TypedHandle
<1>3. ASSUME NEW h \in Handlers, Discard(h)
      PROVE  HttpTypeOK' /\ CallsInv'
  <2>1. /\ Responses(h) # {} /\ Finished(h) /\ waiting' = waiting /\ view' = view
        /\ h \notin waiting
    BY <1>3 DEF Discard
  <2> QED
    BY <2>1, TypedFinished DEF HttpTypeOK
<1>4. ASSUME NEW h \in Handlers, Receive(h)
      PROVE  HttpTypeOK' /\ CallsInv'
  <2>1. PICK a \in Responses(h) :
           view' = [n \in Names |->
                       IF n \in Unsettles(call[h], a) THEN Unsure
                       ELSE IF n \in Settles(call[h], a) \ haunted[h] THEN KeyOf(Told(call[h], a), n)
                       ELSE view[n]]
    BY <1>4 DEF Receive
  <2>2. \A n \in Names : KeyOf(Told(call[h], a), n) \in UUIDs \cup {NoKey}
    BY AnswerFacts, KeyFacts
  <2>3. view' \in [Names -> UUIDs \cup {NoKey, Unsure}]
    BY <2>1, <2>2 DEF HttpTypeOK
  <2> QED
    BY <1>4, <2>1, <2>3, TypedFinished DEF Receive
<1>5. ASSUME NEW h \in Handlers, GiveUp(h)
      PROVE  HttpTypeOK' /\ CallsInv'
  <2>1. waiting' = waiting \ {h} /\ view' \in [Names -> UUIDs \cup {NoKey, Unsure}]
    BY <1>0, <1>5 DEF GiveUp
  <2>2. CASE Responses(h) # {}
    BY <1>5, <2>1, <2>2, TypedFinished DEF GiveUp
  <2>3. CASE Responses(h) = {}
    <3>1. UNCHANGED <<users, request, reply, call, answer, haunted>>
      BY <1>5, <2>3 DEF GiveUp, vars
    <3>2. \A g \in Handlers : OneCall(g)'
      BY <2>1, <3>1, OneCallKept DEF CallsInv, Same
    <3> QED
      BY <2>1, <3>1, <3>2 DEF HttpTypeOK, CallsInv
  <2> QED
    BY <2>2, <2>3
<1>6. CASE Die
  <2>1. users' \subseteq Entry
    <3>1. CASE users' = users
      BY <3>1 DEF HttpTypeOK
    <3>2. ASSUME NEW h \in Handlers, Pending(h), NEW effect \in Effects(request[h]),
                 users' = effect.next
          PROVE  users' \subseteq Entry
      <4>1. /\ call[h] \in HttpCalls
            /\ request[h] = [kind |-> KindOf[call[h].route], names |-> call[h].names]
        BY <3>2 DEF Pending, CallsInv, OneCall
      <4> QED
        BY <3>2, <4>1, EffectFacts DEF HttpTypeOK
    <3> QED
      BY <1>6, <3>1, <3>2 DEF Die, Vanish
  <2>2. NoReply \in [code : Codes, users : SUBSET Entry]
    BY DEF NoReply, Codes
  <2>3. /\ request' = [g \in Handlers |-> NoRequest] /\ reply' = [g \in Handlers |-> NoReply]
        /\ call' = [g \in Handlers |-> NoCall] /\ answer' = [g \in Handlers |-> NoAnswer]
        /\ waiting' = {} /\ haunted' = [g \in Handlers |-> {}]
        /\ view' \in [Names -> UUIDs \cup {NoKey, Unsure}]
    BY <1>0, <1>6 DEF Die, Vanish
  <2>4. \A g \in Handlers : OneCall(g)'
    BY <2>3, OneCallOver DEF Through
  <2> QED
    BY <2>1, <2>2, <2>3, <2>4 DEF HttpTypeOK, CallsInv
<1>7. CASE UNCHANGED httpVars
  <2>1. /\ UNCHANGED <<users, request, reply, call, answer, waiting, view, haunted>>
    BY <1>7 DEF httpVars, vars
  <2> QED
    BY <2>1 DEF HttpTypeOK, CallsInv, OneCall
<1> QED
  BY <1>1, <1>2, <1>3, <1>4, <1>5, <1>6, <1>7 DEF HttpNext

-----------------------------------------------------------------------------
(* The shapes of the steps, for the invariants. *)

LEMMA SameShape ==
    ASSUME NEW g, Same(g)
    PROVE  Responses(g)' = Responses(g) /\ Pending(g)' = Pending(g)
BY SameResponses DEF Same, Pending

LEMMA ThroughShape ==
    ASSUME NEW h, Through(h)
    PROVE  Responses(h)' = {} /\ ~Pending(h)'
BY DEF Through, Responses, Pending

(* A response is written, or lost. *)
Ended(h) ==
    /\ Responses(h) # {}
    /\ users' = users
    /\ Through(h)
    /\ \A g \in Handlers \ {h} : Same(g)
    /\ waiting' = waiting \ {h}

(* A caller gives up a call that is at work. *)
Left(h) ==
    /\ Responses(h) = {} /\ h \in waiting
    /\ users' = users
    /\ \A g \in Handlers : Same(g)
    /\ waiting' = waiting \ {h}
    /\ view' = Doubting(Touched(call[h]))

LEMMA EndFacts ==
    ASSUME HttpTypeOK, CallsInv, NEW h \in Handlers
    PROVE  /\ Discard(h) => Ended(h) /\ view' = view /\ h \notin waiting
           /\ Receive(h) => Ended(h) /\ h \in waiting
           /\ GiveUp(h) => Left(h) \/ (Ended(h) /\ h \in waiting /\ view' = Doubting(Touched(call[h])))
<1>1. ASSUME Discard(h)
      PROVE  Ended(h) /\ view' = view /\ h \notin waiting
  <2>1. /\ Responses(h) # {} /\ Finished(h) /\ h \notin waiting
        /\ waiting' = waiting /\ view' = view
    BY <1>1 DEF Discard
  <2> QED
    BY <2>1, FinishedFacts DEF Ended
<1>2. ASSUME Receive(h)
      PROVE  Ended(h) /\ h \in waiting
  <2>1. /\ Responses(h) # {} /\ Finished(h) /\ h \in waiting /\ waiting' = waiting \ {h}
    BY <1>2 DEF Receive
  <2> QED
    BY <2>1, FinishedFacts DEF Ended
<1>3. ASSUME GiveUp(h)
      PROVE  Left(h) \/ (Ended(h) /\ h \in waiting /\ view' = Doubting(Touched(call[h])))
  <2>1. h \in waiting /\ waiting' = waiting \ {h} /\ view' = Doubting(Touched(call[h]))
    BY <1>3 DEF GiveUp
  <2>2. CASE Responses(h) # {}
    BY <1>3, <2>1, <2>2, FinishedFacts DEF GiveUp, Ended
  <2>3. CASE Responses(h) = {}
    <3>1. UNCHANGED <<users, request, reply, call, answer, haunted>>
      BY <1>3, <2>3 DEF GiveUp, vars
    <3> QED
      BY <2>1, <2>3, <3>1 DEF Left, Same
  <2> QED
    BY <2>2, <2>3
<1> QED
  BY <1>1, <1>2, <1>3

(* The store's answer, when it has just given one. *)
LEMMA Served ==
    ASSUME HttpTypeOK, CallsInv, NEW h \in Handlers, Handle(h)
    PROVE  \E code \in Codes \ {"none"}, result \in SUBSET Entry :
              /\ Responses(h)' # {}
              /\ \A a \in Responses(h)' :
                    \E status \in Statuses(call[h], code, result) :
                       a = [status |-> status, json |-> TRUE, users |-> result]
              /\ \/ /\ code = "ok"
                    /\ \E effect \in Effects(request[h]) :
                          result = effect.result /\ users' = effect.next
                 \/ /\ code = "notFound" /\ users' = users /\ result = {}
                    /\ call[h].route \in {"delete", "rotate"}
                    /\ ~(call[h].names \subseteq NamesOf(users))
                 \/ code \in {"error", "restored"} /\ users' = users /\ result = {}
                 \/ /\ code = "rollbackFailed" /\ result = {}
                    /\ \/ users' = users
                       \/ \E effect \in Effects(request[h]) : users' = effect.next
<1>1. PICK code \in Codes \ {"none"}, result \in SUBSET Entry :
         /\ reply' = [reply EXCEPT ![h] = [code |-> code, users |-> result]]
         /\ \/ /\ code = "ok"
               /\ \E effect \in Effects(request[h]) :
                     result = effect.result /\ users' = effect.next
            \/ /\ code = "notFound" /\ users' = users /\ result = {}
               /\ call[h].route \in {"delete", "rotate"}
               /\ ~(call[h].names \subseteq NamesOf(users))
            \/ code \in {"error", "restored"} /\ users' = users /\ result = {}
            \/ /\ code = "rollbackFailed" /\ result = {}
               /\ \/ users' = users
                  \/ \E effect \in Effects(request[h]) : users' = effect.next
  BY HandleFacts
<1>2. answer'[h] = NoAnswer /\ call'[h] = call[h]
  BY HandleFacts
<1>3. reply'[h].code = code /\ reply'[h].users = result
  BY <1>1 DEF CallsInv
<1>4. reply'[h] # NoReply
  BY <1>3 DEF NoReply
<1>5. Responses(h)' = {[status |-> status, json |-> TRUE, users |-> result] :
                          status \in Statuses(call[h], code, result)}
  BY <1>2, <1>3, <1>4 DEF Responses
<1>6. Statuses(call[h], code, result) # {}
  BY DEF Statuses
<1> QED
  BY <1>1, <1>5, <1>6

(* The answers a call can have at once, if any. *)
LEMMA SentAnswers ==
    ASSUME HttpTypeOK, CallsInv, NEW h \in Handlers, Send(h)
    PROVE  \A a \in Responses(h)' :
              /\ Settles(call'[h], a) = {}
              /\ a.status # 409
              /\ ~(a.status = 404 /\ a.json)
<1>1. PICK c \in HttpCalls, flaw \in Flaws(call'[h].route) :
         /\ call'[h] = c /\ reply'[h] = NoReply
         /\ flaw = "none" => answer'[h] = NoAnswer
         /\ flaw # "none" => answer'[h] = FlawAnswer(c, flaw)
  BY SendFacts
<1>2. CASE flaw = "none"
  BY <1>1, <1>2 DEF Responses
<1>3. CASE flaw # "none"
  <2>1. /\ FlawAnswer(c, flaw) # NoAnswer
        /\ FlawAnswer(c, flaw).status \notin {200, 409}
        /\ ~(FlawAnswer(c, flaw).status = 404 /\ FlawAnswer(c, flaw).json)
    BY <1>1, <1>3, FlawAnswerFacts
  <2>2. Responses(h)' = {FlawAnswer(c, flaw)}
    BY <1>1, <1>3, <2>1 DEF Responses
  <2>3. Settles(c, FlawAnswer(c, flaw)) = {}
    BY <2>1 DEF Settles
  <2> QED
    BY <1>1, <2>1, <2>2, <2>3
<1> QED
  BY <1>2, <1>3

-----------------------------------------------------------------------------
LEMMA ApartStep == HttpTypeOK /\ CallsInv /\ Apart /\ [HttpNext]_httpVars => Apart'
<1> SUFFICES ASSUME HttpTypeOK, CallsInv, Apart, [HttpNext]_httpVars
             PROVE  Apart'
  OBVIOUS
<1>0. ASSUME NEW g \in Handlers, Same(g)
      PROVE  \A a \in Responses(g)' : Settles(call'[g], a) \subseteq Subject(call'[g])
  BY <1>0, SameShape DEF Apart, Same
<1>t. waiting \subseteq Handlers
  BY DEF HttpTypeOK
<1>1. ASSUME NEW h \in Handlers, Send(h)
      PROVE  Apart'
  <2>1. PICK c \in HttpCalls, flaw \in Flaws(call'[h].route) :
           /\ Subject(c) \cap Busy = {} /\ call'[h] = c
           /\ h \notin waiting /\ waiting' = waiting \cup {h}
           /\ \A g \in Handlers \ {h} : Same(g)
    BY <1>1, SendFacts
  <2>2. \A g \in waiting : call'[g] = call[g] /\ Subject(c) \cap Subject(call[g]) = {}
    BY <1>t, <2>1 DEF Busy, Same
  <2>3. \A f, g \in waiting' : f # g => Subject(call'[f]) \cap Subject(call'[g]) = {}
    BY <2>1, <2>2 DEF Apart
  <2>4. \A a \in Responses(h)' : Settles(call'[h], a) \subseteq Subject(call'[h])
    BY <1>1, SentAnswers
  <2> QED
    BY <1>0, <2>1, <2>3, <2>4 DEF Apart
<1>2. ASSUME NEW h \in Handlers, Handle(h)
      PROVE  Apart'
  <2>1. /\ call[h] \in HttpCalls /\ call' = call /\ waiting' = waiting
        /\ \A g \in Handlers \ {h} : Same(g)
    BY <1>2, HandleFacts
  <2>2. PICK code \in Codes \ {"none"}, result \in SUBSET Entry :
           /\ \A a \in Responses(h)' :
                 \E status \in Statuses(call[h], code, result) :
                    a = [status |-> status, json |-> TRUE, users |-> result]
           /\ code = "ok" => \E effect \in Effects(request[h]) : result = effect.result
           /\ code = "notFound" => call[h].route \in {"delete", "rotate"}
    BY <1>2, Served
  <2>3. request[h] = [kind |-> KindOf[call[h].route], names |-> call[h].names]
    BY <1>2, HandleFacts DEF Pending, CallsInv, OneCall
  <2>4. code = "ok" => Granted(call[h], result) \subseteq Subject(call[h])
    BY <2>1, <2>2, <2>3, EffectFacts DEF HttpTypeOK
  <2>5. code = "notFound" => call[h].names = Subject(call[h])
    BY <2>2 DEF Subject
  <2>6. \A a \in Responses(h)' : Settles(call[h], a) \subseteq Subject(call[h])
    BY <2>1, <2>2, <2>4, <2>5, StoreAnswer
  <2> QED
    BY <1>0, <1>t, <2>1, <2>6 DEF Apart
<1>3. ASSUME NEW h \in Handlers, Ended(h)
      PROVE  Apart'
  <2>1. \A g \in waiting' : g # h /\ g \in waiting /\ call'[g] = call[g]
    BY <1>3, <1>t DEF Ended, Same
  <2>2. Responses(h)' = {}
    BY <1>3, ThroughShape DEF Ended
  <2> QED
    BY <1>0, <1>3, <2>1, <2>2 DEF Apart, Ended
<1>4. ASSUME NEW h \in Handlers, Left(h)
      PROVE  Apart'
  BY <1>0, <1>t, <1>4 DEF Apart, Left, Same
<1>5. CASE Die
  <2>1. waiting' = {} /\ \A g \in Handlers : Through(g)
    BY <1>5 DEF Die, Vanish, Through
  <2> QED
    BY <2>1, ThroughShape DEF Apart
<1>6. CASE UNCHANGED httpVars
  <2>1. waiting' = waiting /\ \A g \in Handlers : Same(g)
    BY <1>6 DEF httpVars, vars, Same
  <2> QED
    BY <1>0, <1>t, <2>1 DEF Apart, Same
<1> QED
  BY <1>1, <1>2, <1>3, <1>4, <1>5, <1>6, EndFacts DEF HttpNext

-----------------------------------------------------------------------------
(* Haunting. *)

(* The names of a call that is received concern nobody else. *)
LEMMA ReceivedNames ==
    ASSUME HttpTypeOK, CallsInv, Apart, NEW h \in Handlers, Receive(h)
    PROVE  \E a \in Responses(h) :
              /\ view' = [n \in Names |->
                             IF n \in Unsettles(call[h], a) THEN Unsure
                             ELSE IF n \in Settles(call[h], a) \ haunted[h]
                                  THEN KeyOf(Told(call[h], a), n)
                             ELSE view[n]]
              /\ Settles(call[h], a) \subseteq Subject(call[h])
              /\ Unsettles(call[h], a) \subseteq Subject(call[h])
<1>1. PICK a \in Responses(h) :
         view' = [n \in Names |->
                     IF n \in Unsettles(call[h], a) THEN Unsure
                     ELSE IF n \in Settles(call[h], a) \ haunted[h] THEN KeyOf(Told(call[h], a), n)
                     ELSE view[n]]
  BY DEF Receive
<1>2. Touched(call[h]) \subseteq Subject(call[h])
  BY AnswerFacts, CallFacts
<1> QED
  BY <1>1, <1>2, AnswerFacts DEF Apart

LEMMA HauntingSend ==
    ASSUME HttpTypeOK, CallsInv, Haunting, NEW h \in Handlers, Send(h)
    PROVE  Haunting'
<1>1. /\ h \notin waiting /\ waiting' = waiting \cup {h}
      /\ request[h] = NoRequest /\ reply'[h] = NoReply /\ haunted'[h] = {}
      /\ view' = view /\ \A g \in Handlers \ {h} : Same(g)
  BY SendFacts
<1>2. Abandoned' = Abandoned /\ h \notin Abandoned
  BY <1>1, SameShape DEF Abandoned, Pending
<1>3. Abandoned \subseteq Handlers /\ waiting \subseteq Handlers
  BY DEF Abandoned, HttpTypeOK
<1>4. \A g \in Abandoned \cup waiting : Same(g)
  BY <1>1, <1>2, <1>3
<1>5. \A z \in Abandoned', n \in Names : n \in Touched(call'[z]) => view'[n] = Unsure
  BY <1>1, <1>2, <1>4 DEF Haunting, Same
<1>6. \A g \in waiting' : \A n \in haunted'[g] : view'[n] = Unsure
  BY <1>1, <1>4 DEF Haunting, Same
<1>7. \A g \in waiting', z \in Abandoned' :
         reply'[g] # NoReply => Subject(call'[g]) \cap Touched(call'[z]) \subseteq haunted'[g]
  BY <1>1, <1>2, <1>4 DEF Haunting, Same
<1> QED
  BY <1>5, <1>6, <1>7 DEF Haunting

LEMMA HauntingHandle ==
    ASSUME HttpTypeOK, CallsInv, Haunting, NEW h \in Handlers, Handle(h)
    PROVE  Haunting'
<1>1. /\ UNCHANGED <<call, request, answer, waiting, view>>
      /\ haunted'[h] = Subject(call[h]) \cap UNION {Touched(call[z]) : z \in Abandoned \ {h}}
      /\ \A g \in Handlers \ {h} : Same(g)
      /\ call[h] \in HttpCalls
  BY HandleFacts
<1>2. ~Pending(h)'
  <2>1. PICK code \in Codes \ {"none"}, result \in SUBSET Entry :
           reply' = [reply EXCEPT ![h] = [code |-> code, users |-> result]]
    BY HandleFacts
  <2>2. reply'[h].code # "none"
    BY <2>1 DEF CallsInv
  <2> QED
    BY <2>2 DEF Pending, NoReply
<1>3. Abandoned' \subseteq Abandoned \ {h} /\ Abandoned \subseteq Handlers /\ waiting \subseteq Handlers
  BY <1>1, <1>2, SameShape DEF Abandoned, HttpTypeOK
<1>4. Subject(call[h]) \subseteq Names
  BY <1>1, CallFacts
<1>5. \A z \in Abandoned', n \in Names : n \in Touched(call'[z]) => view'[n] = Unsure
  BY <1>1, <1>3 DEF Haunting
<1>6. \A g \in waiting' : \A n \in haunted'[g] : view'[n] = Unsure
  <2>1. \A n \in haunted'[h] : view'[n] = Unsure
    BY <1>1, <1>4 DEF Haunting
  <2>2. \A g \in waiting' \ {h} : \A n \in haunted'[g] : view'[n] = Unsure
    BY <1>1, <1>3 DEF Haunting, Same
  <2> QED
    BY <2>1, <2>2
<1>7. \A g \in waiting', z \in Abandoned' :
         reply'[g] # NoReply => Subject(call'[g]) \cap Touched(call'[z]) \subseteq haunted'[g]
  <2>1. \A z \in Abandoned' : Subject(call'[h]) \cap Touched(call'[z]) \subseteq haunted'[h]
    BY <1>1, <1>3
  <2>2. \A g \in waiting' \ {h}, z \in Abandoned' :
           reply'[g] # NoReply => Subject(call'[g]) \cap Touched(call'[z]) \subseteq haunted'[g]
    BY <1>1, <1>3 DEF Haunting, Same
  <2> QED
    BY <2>1, <2>2
<1> QED
  BY <1>5, <1>6, <1>7 DEF Haunting

(* When a call has ended the others see it only in the backend's view. *)
LEMMA HauntingEnded ==
    ASSUME HttpTypeOK, CallsInv, Haunting, NEW h \in Handlers, Ended(h),
           \A z \in Abandoned \ {h}, n \in Names :
              n \in Touched(call[z]) /\ view[n] = Unsure => view'[n] = Unsure,
           \A g \in waiting \ {h}, n \in Names :
              n \in haunted[g] /\ view[n] = Unsure => view'[n] = Unsure
    PROVE  Haunting'
<1>1. \A g \in Handlers \ {h} : Same(g)
  BY DEF Ended
<1>2. ~Pending(h)' /\ waiting' = waiting \ {h}
  BY ThroughShape DEF Ended
<1>3. Abandoned' \subseteq Abandoned \ {h} /\ Abandoned \subseteq Handlers /\ waiting \subseteq Handlers
  BY <1>1, <1>2, SameShape DEF Abandoned, HttpTypeOK
<1>4. \A g \in waiting : haunted[g] \subseteq Names
  BY <1>3 DEF HttpTypeOK
<1>5. \A z \in Abandoned', n \in Names : n \in Touched(call'[z]) => view'[n] = Unsure
  BY <1>1, <1>3 DEF Haunting, Same
<1>6. \A g \in waiting' : \A n \in haunted'[g] : view'[n] = Unsure
  BY <1>1, <1>2, <1>3, <1>4 DEF Haunting, Same
<1>7. \A g \in waiting', z \in Abandoned' :
         reply'[g] # NoReply => Subject(call'[g]) \cap Touched(call'[z]) \subseteq haunted'[g]
  BY <1>1, <1>2, <1>3 DEF Haunting, Same
<1> QED
  BY <1>5, <1>6, <1>7 DEF Haunting

LEMMA HauntingReceive ==
    ASSUME HttpTypeOK, CallsInv, Apart, Haunting, NEW h \in Handlers, Receive(h)
    PROVE  Haunting'
<1>1. Ended(h) /\ h \in waiting
  BY EndFacts
<1>2. PICK a \in Responses(h) :
         /\ view' = [n \in Names |->
                        IF n \in Unsettles(call[h], a) THEN Unsure
                        ELSE IF n \in Settles(call[h], a) \ haunted[h]
                             THEN KeyOf(Told(call[h], a), n)
                        ELSE view[n]]
         /\ Settles(call[h], a) \subseteq Subject(call[h])
  BY ReceivedNames
<1>3. \A n \in Names : n \notin Settles(call[h], a) \ haunted[h] /\ view[n] = Unsure => view'[n] = Unsure
  BY <1>2
<1>4. \A z \in Abandoned, n \in Names :
         n \in Touched(call[z]) => n \notin Settles(call[h], a) \ haunted[h]
  <2>1. CASE reply[h] = NoReply
    BY <1>2, <2>1, AnswerFacts
  <2>2. CASE reply[h] # NoReply
    BY <1>1, <1>2, <2>2 DEF Haunting
  <2> QED
    BY <2>1, <2>2
<1>5. \A g \in waiting \ {h}, n \in Names :
         n \in haunted[g] => n \notin Settles(call[h], a) \ haunted[h]
  <2>1. \A g \in waiting : haunted[g] \subseteq Subject(call[g])
    BY DEF CallsInv, OneCall, HttpTypeOK
  <2> QED
    BY <1>1, <1>2, <2>1 DEF Apart
<1> QED
  BY <1>1, <1>3, <1>4, <1>5, HauntingEnded

LEMMA HauntingLeft ==
    ASSUME HttpTypeOK, CallsInv, Apart, Haunting, NEW h \in Handlers, Left(h)
    PROVE  Haunting'
<1>1. /\ h \in waiting /\ waiting' = waiting \ {h} /\ \A g \in Handlers : Same(g)
      /\ view' = [n \in Names |-> IF n \in Touched(call[h]) THEN Unsure ELSE view[n]]
  BY DEF Left, Doubting
<1>2. waiting \subseteq Handlers /\ Abandoned' \subseteq Abandoned \cup {h} /\ Abandoned' \subseteq Handlers
  BY <1>1, SameShape DEF Abandoned, HttpTypeOK
<1>3. \A n \in Names : view[n] = Unsure => view'[n] = Unsure
  BY <1>1
<1>4. \A z \in Abandoned', n \in Names : n \in Touched(call'[z]) => view'[n] = Unsure
  BY <1>1, <1>2, <1>3 DEF Haunting, Same
<1>5. \A g \in waiting' : \A n \in haunted'[g] : view'[n] = Unsure
  BY <1>1, <1>2, <1>3 DEF Haunting, Same, HttpTypeOK
<1>6. \A g \in waiting', z \in Abandoned' :
         reply'[g] # NoReply => Subject(call'[g]) \cap Touched(call'[z]) \subseteq haunted'[g]
  <2> SUFFICES ASSUME NEW g \in waiting', NEW z \in Abandoned', reply'[g] # NoReply
               PROVE  Subject(call'[g]) \cap Touched(call'[z]) \subseteq haunted'[g]
    OBVIOUS
  <2>1. g \in waiting /\ g # h /\ Same(g) /\ Same(z)
    BY <1>1, <1>2
  <2>2. CASE z = h
    <3>1. Touched(call[h]) \subseteq Subject(call[h])
      BY <1>1, <1>2, CallFacts DEF CallsInv, OneCall
    <3>2. Subject(call[g]) \cap Subject(call[h]) = {}
      BY <1>1, <2>1 DEF Apart
    <3> QED
      BY <2>1, <2>2, <3>1, <3>2 DEF Same
  <2>3. CASE z # h
    BY <1>2, <2>1, <2>3 DEF Haunting, Same
  <2> QED
    BY <2>2, <2>3
<1> QED
  BY <1>4, <1>5, <1>6 DEF Haunting

LEMMA HauntingStep ==
    HttpTypeOK /\ CallsInv /\ Apart /\ Haunting /\ [HttpNext]_httpVars => Haunting'
<1> SUFFICES ASSUME HttpTypeOK, CallsInv, Apart, Haunting, [HttpNext]_httpVars
             PROVE  Haunting'
  OBVIOUS
<1>1. ASSUME NEW h \in Handlers, Discard(h)
      PROVE  Haunting'
  BY <1>1, EndFacts, HauntingEnded
<1>2. ASSUME NEW h \in Handlers, GiveUp(h)
      PROVE  Haunting'
  <2>1. CASE Left(h)
    BY <2>1, HauntingLeft
  <2>2. CASE Ended(h) /\ view' = Doubting(Touched(call[h]))
    <3>1. \A n \in Names : view[n] = Unsure => view'[n] = Unsure
      BY <2>2 DEF Doubting
    <3> QED
      BY <2>2, <3>1, HauntingEnded
  <2> QED
    BY <1>2, <2>1, <2>2, EndFacts
<1>3. CASE Die
  <2>1. waiting' = {} /\ \A g \in Handlers : Through(g)
    BY <1>3 DEF Die, Vanish, Through
  <2>2. Abandoned' = {}
    BY <2>1, ThroughShape DEF Abandoned
  <2> QED
    BY <2>1, <2>2 DEF Haunting
<1>4. CASE UNCHANGED httpVars
  BY <1>4 DEF httpVars, vars, Haunting, Abandoned, Pending
<1> QED
  BY <1>1, <1>2, <1>3, <1>4, HauntingSend, HauntingHandle, HauntingReceive DEF HttpNext

-----------------------------------------------------------------------------
(* What a call changes, it changes under its own names. *)
LEMMA HandleKeys ==
    ASSUME HttpTypeOK, CallsInv, NEW h \in Handlers, Handle(h)
    PROVE  \A n \in Names : n \notin Touched(call[h]) => KeyOf(users', n) = KeyOf(users, n)
<1>1. users' = users \/ \E effect \in Effects(request[h]) : users' = effect.next
  BY Served
<1>2. /\ call[h] \in HttpCalls
      /\ request[h] = [kind |-> KindOf[call[h].route], names |-> call[h].names]
  BY HandleFacts DEF Pending, CallsInv, OneCall
<1>3. CASE users' = users
  BY <1>3
<1>4. ASSUME NEW effect \in Effects(request[h]), users' = effect.next
      PROVE  \A n \in Names : n \notin Touched(call[h]) => KeyOf(users', n) = KeyOf(users, n)
  <2>1. \A n \in Names : n \notin Touched(call[h]) =>
           EntriesOf(users', n) = EntriesOf(users, n)
    BY <1>2, <1>4, EffectFacts DEF HttpTypeOK
  <2> QED
    BY <2>1, SameKey
<1> QED
  BY <1>1, <1>3, <1>4

(* The calls that another goroutine serves meanwhile have other names, or  *)
(* the answer under way settles nothing of theirs.                         *)
LEMMA OthersNames ==
    ASSUME HttpTypeOK, CallsInv, Apart, Haunting, NEW h \in Handlers, Handle(h),
           NEW g \in waiting, g # h, NEW a \in Responses(g),
           NEW n \in Settles(call[g], a) \ haunted[g]
    PROVE  n \notin Touched(call[h])
<1>1. g \in Handlers /\ n \in Subject(call[g])
  BY DEF Apart, HttpTypeOK
<1>2. reply[g] # NoReply
  BY <1>1, AnswerFacts
<1>3. call[h] \in HttpCalls /\ Touched(call[h]) \subseteq Subject(call[h]) /\ Pending(h)
  BY HandleFacts, CallFacts
<1>4. CASE h \in waiting
  BY <1>1, <1>3, <1>4 DEF Apart
<1>5. CASE h \notin waiting
  BY <1>1, <1>2, <1>3, <1>5 DEF Abandoned, Haunting
<1> QED
  BY <1>4, <1>5

LEMMA TruthfulHandle ==
    ASSUME HttpTypeOK, CallsInv, Apart, Haunting, Truthful, NEW h \in Handlers, Handle(h)
    PROVE  Truthful'
<1>1. /\ call[h] \in HttpCalls /\ UNCHANGED <<call, waiting>>
      /\ \A g \in Handlers \ {h} : Same(g)
      /\ request[h] = [kind |-> KindOf[call[h].route], names |-> call[h].names]
  BY HandleFacts DEF Pending, CallsInv, OneCall
<1>2. ASSUME NEW a \in Responses(h)', NEW n \in Settles(call[h], a)
      PROVE  KeyOf(Told(call[h], a), n) = KeyOf(users', n)
  <2>1. PICK code \in Codes \ {"none"}, result \in SUBSET Entry :
           /\ \E status \in Statuses(call[h], code, result) :
                 a = [status |-> status, json |-> TRUE, users |-> result]
           /\ code = "ok" => \E effect \in Effects(request[h]) :
                                result = effect.result /\ users' = effect.next
           /\ code = "notFound" => /\ users' = users /\ result = {}
                                   /\ call[h].route \in {"delete", "rotate"}
                                   /\ ~(call[h].names \subseteq NamesOf(users))
    BY Served
  <2>2. PICK status \in Statuses(call[h], code, result) :
           a = [status |-> status, json |-> TRUE, users |-> result]
    BY <2>1
  <2>3. a.users = result
    BY <2>2
  <2>4. code \in {"ok", "notFound"}
    BY <1>1, <1>2, <2>2, StoreAnswer
  <2>5. CASE code = "ok"
    <3>1. n \in Granted(call[h], result)
      BY <1>1, <1>2, <2>2, <2>5, StoreAnswer
    <3>2. PICK effect \in Effects(request[h]) : result = effect.result /\ users' = effect.next
      BY <2>1, <2>5
    <3>3. EntriesOf(users', n) =
             EntriesOf(IF call[h].route \in {"delete", "deleteAll"} THEN {} ELSE result, n)
      BY <1>1, <3>1, <3>2, EffectFacts DEF HttpTypeOK
    <3> QED
      BY <2>3, <3>3, SameKey DEF Told
  <2>6. CASE code = "notFound"
    <3>1. n \in call[h].names
      BY <1>1, <1>2, <2>2, <2>6, StoreAnswer
    <3>2. n \in Names /\ n \notin NamesOf(users)
      BY <1>1, <2>1, <2>6, <3>1, CallFacts
    <3>3. EntriesOf(users, n) = {} /\ EntriesOf({}, n) = {}
      BY <3>2 DEF EntriesOf, NamesOf
    <3>4. Told(call[h], a) = {}
      BY <2>1, <2>3, <2>6 DEF Told
    <3>5. KeyOf({}, n) = KeyOf(users, n)
      BY <3>3 DEF KeyOf
    <3> QED
      BY <2>1, <2>6, <3>4, <3>5
  <2> QED
    BY <2>4, <2>5, <2>6
<1>3. ASSUME NEW g \in waiting', g # h, NEW a \in Responses(g)',
             NEW n \in Settles(call'[g], a) \ haunted'[g]
      PROVE  KeyOf(Told(call'[g], a), n) = KeyOf(users', n)
  <2>1. g \in waiting /\ g \in Handlers /\ Same(g)
    BY <1>1, <1>3 DEF HttpTypeOK
  <2>2. Responses(g)' = Responses(g) /\ n \in Settles(call[g], a) \ haunted[g]
    BY <1>3, <2>1, SameShape DEF Same
  <2>3. n \in Names /\ n \notin Touched(call[h])
    <3>1. call[g] \in HttpCalls
      BY <2>1 DEF CallsInv, OneCall
    <3> QED
      BY <1>3, <2>1, <2>2, <3>1, OthersNames, CallFacts DEF Apart
  <2> QED
    BY <1>3, <2>1, <2>2, <2>3, HandleKeys DEF Truthful, Same
<1> QED
  BY <1>1, <1>2, <1>3 DEF Truthful

LEMMA TruthfulStep ==
    HttpTypeOK /\ CallsInv /\ Apart /\ Haunting /\ Truthful /\ [HttpNext]_httpVars => Truthful'
<1> SUFFICES ASSUME HttpTypeOK, CallsInv, Apart, Haunting, Truthful, [HttpNext]_httpVars
             PROVE  Truthful'
  OBVIOUS
<1>t. waiting \subseteq Handlers
  BY DEF HttpTypeOK
<1>0. ASSUME users' = users, \A g \in waiting' : g \in waiting /\ Same(g)
      PROVE  Truthful'
  BY <1>0, SameShape DEF Truthful, Same
<1>1. ASSUME NEW h \in Handlers, Send(h)
      PROVE  Truthful'
  <2>1. /\ h \notin waiting /\ waiting' = waiting \cup {h} /\ users' = users
        /\ \A g \in Handlers \ {h} : Same(g)
    BY <1>1, SendFacts
  <2>2. \A a \in Responses(h)' : Settles(call'[h], a) = {}
    BY <1>1, SentAnswers
  <2>3. \A g \in waiting : Same(g) /\ Responses(g)' = Responses(g)
    BY <1>t, <2>1, SameShape
  <2> QED
    BY <2>1, <2>2, <2>3 DEF Truthful, Same
<1>2. ASSUME NEW h \in Handlers, Ended(h) \/ Left(h)
      PROVE  Truthful'
  BY <1>t, <1>0, <1>2 DEF Ended, Left
<1>3. CASE Die
  BY <1>3 DEF Die, Truthful
<1>4. CASE UNCHANGED httpVars
  BY <1>0, <1>4 DEF httpVars, vars, Same
<1> QED
  BY <1>1, <1>2, <1>3, <1>4, TruthfulHandle, EndFacts DEF HttpNext

-----------------------------------------------------------------------------
(* Belief. *)

LEMMA SameCorrects ==
    ASSUME NEW g, Same(g), NEW n
    PROVE  Corrects(g, n)' <=> Corrects(g, n)
BY SameShape DEF Corrects, Same

(* The keys of what Handle changes are those its answer corrects. *)
LEMMA BelievedHandle ==
    ASSUME HttpTypeOK, CallsInv, Haunting, Believed, NEW h \in Handlers, Handle(h)
    PROVE  Believed'
<1>1. /\ call[h] \in HttpCalls /\ UNCHANGED <<call, waiting, view>>
      /\ \A g \in Handlers \ {h} : Same(g)
      /\ request[h] = [kind |-> KindOf[call[h].route], names |-> call[h].names]
      /\ Responses(h) = {} /\ Pending(h)
  BY HandleFacts, NoResponse DEF Pending, CallsInv, OneCall
<1> SUFFICES ASSUME NEW n \in Names
             PROVE  \/ view'[n] \in {Unsure, KeyOf(users', n)}
                    \/ \E g \in waiting' : Corrects(g, n)'
  BY DEF Believed
<1>2. CASE KeyOf(users', n) = KeyOf(users, n)
  <2>1. CASE view[n] \in {Unsure, KeyOf(users, n)}
    BY <1>1, <1>2, <2>1
  <2>2. ASSUME NEW g \in waiting, Corrects(g, n)
        PROVE  \E f \in waiting' : Corrects(f, n)'
    <3>1. g # h /\ g \in Handlers
      BY <1>1, <2>2 DEF Corrects, HttpTypeOK
    <3> QED
      BY <1>1, <2>2, <3>1, SameCorrects
  <2> QED
    BY <2>1, <2>2 DEF Believed
<1>3. CASE KeyOf(users', n) # KeyOf(users, n)
  <2>1. n \in Touched(call[h])
    BY <1>3, HandleKeys
  <2>2. CASE h \notin waiting
    BY <1>1, <2>1, <2>2 DEF Abandoned, Haunting
  <2>3. CASE h \in waiting
    <3>1. PICK code \in Codes \ {"none"}, result \in SUBSET Entry :
             /\ Responses(h)' # {}
             /\ \A a \in Responses(h)' :
                   \E status \in Statuses(call[h], code, result) :
                      a = [status |-> status, json |-> TRUE, users |-> result]
             /\ \/ /\ code = "ok"
                   /\ \E effect \in Effects(request[h]) :
                         result = effect.result /\ users' = effect.next
                \/ users' = users
                \/ code = "rollbackFailed"
      BY Served
    <3>2. CASE code = "ok"
      <4>1. PICK effect \in Effects(request[h]) : result = effect.result /\ users' = effect.next
        BY <1>3, <3>1, <3>2
      <4>2. n \in Granted(call[h], result)
        BY <1>1, <1>3, <4>1, EffectFacts, SameKey DEF HttpTypeOK
      <4>3. \A a \in Responses(h)' : n \in Settles(call[h], a)
        BY <1>1, <3>1, <3>2, <4>2, StoreAnswer
      <4> QED
        BY <1>1, <2>1, <2>3, <3>1, <4>3 DEF Corrects
    <3>3. CASE code = "rollbackFailed"
      <4>1. \A a \in Responses(h)' : n \in Unsettles(call[h], a)
        BY <1>1, <2>1, <3>1, <3>3, StoreAnswer
      <4> QED
        BY <1>1, <2>1, <2>3, <3>1, <4>1 DEF Corrects
    <3> QED
      BY <1>3, <3>1, <3>2, <3>3
  <2> QED
    BY <2>2, <2>3
<1> QED
  BY <1>2, <1>3

LEMMA BelievedReceive ==
    ASSUME HttpTypeOK, CallsInv, Haunting, Truthful, Believed, NEW h \in Handlers, Receive(h)
    PROVE  Believed'
<1>1. /\ Ended(h) /\ h \in waiting /\ users' = users /\ waiting' = waiting \ {h}
      /\ \A g \in Handlers \ {h} : Same(g)
  BY EndFacts DEF Ended
<1>2. PICK a \in Responses(h) :
         view' = [n \in Names |->
                     IF n \in Unsettles(call[h], a) THEN Unsure
                     ELSE IF n \in Settles(call[h], a) \ haunted[h] THEN KeyOf(Told(call[h], a), n)
                     ELSE view[n]]
  BY DEF Receive
<1> SUFFICES ASSUME NEW n \in Names
             PROVE  \/ view'[n] \in {Unsure, KeyOf(users', n)}
                    \/ \E g \in waiting' : Corrects(g, n)'
  BY DEF Believed
<1>3. n \in Settles(call[h], a) \ haunted[h] => KeyOf(Told(call[h], a), n) = KeyOf(users, n)
  BY <1>1 DEF Truthful
<1>4. CASE view[n] \in {Unsure, KeyOf(users, n)}
  BY <1>1, <1>2, <1>3, <1>4
<1>5. ASSUME NEW g \in waiting, Corrects(g, n)
      PROVE  \/ view'[n] \in {Unsure, KeyOf(users', n)}
             \/ \E f \in waiting' : Corrects(f, n)'
  <2>1. CASE g = h
    <3>1. n \in Settles(call[h], a) \cup Unsettles(call[h], a)
      BY <1>5, <2>1 DEF Corrects
    <3>2. n \in haunted[h] => view[n] = Unsure
      BY <1>1 DEF Haunting
    <3> QED
      BY <1>1, <1>2, <1>3, <3>1, <3>2
  <2>2. CASE g # h
    <3>1. Same(g) /\ g \in waiting'
      BY <1>1, <2>2 DEF HttpTypeOK
    <3> QED
      BY <1>5, <3>1, SameCorrects
  <2> QED
    BY <2>1, <2>2
<1> QED
  BY <1>4, <1>5 DEF Believed

(* The caller of h gives it up, with a response under way or not. *)
LEMMA BelievedGivenUp ==
    ASSUME HttpTypeOK, CallsInv, Believed, NEW h \in Handlers, Ended(h) \/ Left(h),
           view' = Doubting(Touched(call[h]))
    PROVE  Believed'
<1>1. /\ users' = users /\ waiting' = waiting \ {h}
      /\ \A g \in Handlers \ {h} : Same(g)
  BY DEF Ended, Left
<1> SUFFICES ASSUME NEW n \in Names
             PROVE  \/ view'[n] \in {Unsure, KeyOf(users', n)}
                    \/ \E g \in waiting' : Corrects(g, n)'
  BY DEF Believed
<1>2. view'[n] = IF n \in Touched(call[h]) THEN Unsure ELSE view[n]
  BY DEF Doubting
<1>3. CASE view[n] \in {Unsure, KeyOf(users, n)}
  BY <1>1, <1>2, <1>3
<1>4. ASSUME NEW g \in waiting, Corrects(g, n)
      PROVE  \/ view'[n] \in {Unsure, KeyOf(users', n)}
             \/ \E f \in waiting' : Corrects(f, n)'
  <2>1. CASE g = h
    BY <1>2, <1>4, <2>1 DEF Corrects
  <2>2. CASE g # h
    <3>1. Same(g) /\ g \in waiting'
      BY <1>1, <2>2 DEF HttpTypeOK
    <3> QED
      BY <1>4, <3>1, SameCorrects
  <2> QED
    BY <2>1, <2>2
<1> QED
  BY <1>3, <1>4 DEF Believed

(* The process dies with every call: what one of them has changed is       *)
(* doubted by its caller, or was by the one who gave it up.                *)
LEMMA BelievedDie ==
    ASSUME HttpTypeOK, CallsInv, Haunting, Believed, Die
    PROVE  Believed'
<1> SUFFICES ASSUME NEW n \in Names
             PROVE  view'[n] \in {Unsure, KeyOf(users', n)}
  BY DEF Believed
<1>1. view'[n] = IF n \in UNION {Touched(call[h]) : h \in waiting} THEN Unsure ELSE view[n]
  BY DEF Die, Doubting
<1>2. CASE \E h \in waiting : n \in Touched(call[h])
  BY <1>1, <1>2
<1>3. CASE \A h \in waiting : n \notin Touched(call[h])
  <2>1. view[n] \in {Unsure, KeyOf(users, n)} /\ view'[n] = view[n]
    BY <1>1, <1>3 DEF Believed, Corrects
  <2>2. CASE users' = users
    BY <2>1, <2>2
  <2>3. ASSUME NEW h \in Handlers, Pending(h), NEW effect \in Effects(request[h]),
               users' = effect.next
        PROVE  view'[n] \in {Unsure, KeyOf(users', n)}
    <3>1. /\ call[h] \in HttpCalls
          /\ request[h] = [kind |-> KindOf[call[h].route], names |-> call[h].names]
      BY <2>3 DEF Pending, CallsInv, OneCall
    <3>2. CASE n \in Touched(call[h])
      BY <1>3, <2>1, <2>3, <3>2 DEF Abandoned, Haunting
    <3>3. CASE n \notin Touched(call[h])
      <4>1. EntriesOf(users', n) = EntriesOf(users, n)
        BY <2>3, <3>1, <3>3, EffectFacts DEF HttpTypeOK
      <4> QED
        BY <2>1, <4>1, SameKey
    <3> QED
      BY <3>2, <3>3
  <2> QED
    BY <2>2, <2>3 DEF Die, Vanish
<1> QED
  BY <1>2, <1>3

LEMMA BelievedStep ==
    HttpTypeOK /\ CallsInv /\ Haunting /\ Truthful /\ Believed /\ [HttpNext]_httpVars => Believed'
<1> SUFFICES ASSUME HttpTypeOK, CallsInv, Haunting, Truthful, Believed, [HttpNext]_httpVars
             PROVE  Believed'
  OBVIOUS
<1>0. ASSUME users' = users, view' = view, \A g \in waiting : g \in waiting' /\ Same(g)
      PROVE  Believed'
  BY <1>0, SameCorrects DEF Believed
<1>1. ASSUME NEW h \in Handlers, Send(h)
      PROVE  Believed'
  <2>1. /\ h \notin waiting /\ waiting' = waiting \cup {h} /\ users' = users /\ view' = view
        /\ \A g \in Handlers \ {h} : Same(g)
    BY <1>1, SendFacts
  <2> QED
    BY <1>0, <2>1 DEF HttpTypeOK
<1>2. ASSUME NEW h \in Handlers, Discard(h)
      PROVE  Believed'
  <2>1. /\ h \notin waiting /\ waiting' = waiting \ {h} /\ users' = users /\ view' = view
        /\ \A g \in Handlers \ {h} : Same(g)
    BY <1>2, EndFacts DEF Ended
  <2> QED
    BY <1>0, <2>1 DEF HttpTypeOK
<1>3. ASSUME NEW h \in Handlers, GiveUp(h)
      PROVE  Believed'
  BY <1>3, EndFacts, BelievedGivenUp DEF Left
<1>4. CASE UNCHANGED httpVars
  BY <1>0, <1>4 DEF httpVars, vars, Same
<1> QED
  BY <1>1, <1>2, <1>3, <1>4, BelievedHandle, BelievedReceive, BelievedDie DEF HttpNext

-----------------------------------------------------------------------------
(* No surprises. *)

(* Nobody else is about to correct a name that h was called for. *)
LEMMA KnownBefore ==
    ASSUME HttpTypeOK, CallsInv, Apart, Believed, NEW h \in waiting, Responses(h) = {},
           NEW n \in Names, n \in Subject(call[h])
    PROVE  view[n] \in {Unsure, KeyOf(users, n)}
<1> SUFFICES ASSUME NEW g \in waiting, Corrects(g, n)
             PROVE  FALSE
  BY DEF Believed
<1>1. g # h /\ g \in Handlers /\ n \in Touched(call[g])
  BY DEF Corrects, HttpTypeOK
<1>2. n \in Subject(call[g])
  BY <1>1, CallFacts DEF CallsInv, OneCall
<1> QED
  BY <1>1, <1>2 DEF Apart

LEMMA NoSurprisesHandle ==
    ASSUME HttpTypeOK, CallsInv, Apart, Believed, NoSurprises, NEW h \in Handlers, Handle(h)
    PROVE  NoSurprises'
<1>1. /\ call[h] \in HttpCalls /\ UNCHANGED <<call, waiting, view>>
      /\ \A g \in Handlers \ {h} : Same(g)
      /\ request[h] = [kind |-> KindOf[call[h].route], names |-> call[h].names]
      /\ Responses(h) = {}
  BY HandleFacts, NoResponse DEF Pending, CallsInv, OneCall
<1>2. ASSUME h \in waiting, NEW a \in Responses(h)', NEW n \in Touched(call[h])
      PROVE  /\ a.status = 409 => view[n] # NoKey
             /\ a.status = 404 => view[n] \in {NoKey, Unsure}
  <2>1. n \in Names /\ n \in Subject(call[h])
    BY <1>1, <1>2, CallFacts
  <2>2. view[n] \in {Unsure, KeyOf(users, n)}
    BY <1>1, <1>2, <2>1, KnownBefore
  <2>3. PICK code \in Codes \ {"none"}, result \in SUBSET Entry :
           /\ \E status \in Statuses(call[h], code, result) :
                 a = [status |-> status, json |-> TRUE, users |-> result]
           /\ code = "ok" => \E effect \in Effects(request[h]) : result = effect.result
           /\ code = "notFound" => /\ call[h].route \in {"delete", "rotate"}
                                   /\ ~(call[h].names \subseteq NamesOf(users))
    BY <1>2, Served
  <2>4. ASSUME a.status = 409
        PROVE  view[n] # NoKey
    <3>1. code = "ok" /\ call[h].route = "add" /\ result = {}
      BY <1>1, <2>3, <2>4, StoreAnswer
    <3>2. PICK effect \in Effects(request[h]) : effect.result = {}
      BY <2>3, <3>1
    <3>3. call[h].names \subseteq NamesOf(users)
      BY <1>1, <3>1, <3>2, EffectFacts DEF HttpTypeOK
    <3>4. n \in NamesOf(users)
      BY <2>1, <3>1, <3>3 DEF Subject
    <3>5. KeyOf(users, n) \in UUIDs
      BY <2>1, <3>4, KeyFacts DEF HttpTypeOK
    <3> QED
      BY <2>2, <3>5, KeysAssumption
  <2>5. ASSUME a.status = 404
        PROVE  view[n] \in {NoKey, Unsure}
    <3>1. /\ call[h].route \in {"delete", "rotate"}
          /\ ~(call[h].names \subseteq NamesOf(users))
      BY <1>1, <2>3, <2>5, StoreAnswer
    <3>2. PICK m \in Names : call[h].names = {m}
      BY <1>1, <3>1, CallFacts
    <3>3. n = m /\ n \notin NamesOf(users)
      BY <2>1, <3>1, <3>2 DEF Subject
    <3>4. KeyOf(users, n) = NoKey
      BY <2>1, <3>3, KeyFacts DEF HttpTypeOK
    <3> QED
      BY <2>2, <3>4
  <2> QED
    BY <2>4, <2>5
<1>3. \A g \in waiting \ {h} : Same(g) /\ Responses(g)' = Responses(g)
  BY <1>1, SameShape DEF HttpTypeOK
<1> QED
  BY <1>1, <1>2, <1>3 DEF NoSurprises, Same

(* When a call has ended the view of the other callers' names is as before.*)
LEMMA NoSurprisesEnded ==
    ASSUME HttpTypeOK, CallsInv, Apart, NoSurprises, NEW h \in waiting, Ended(h) \/ Left(h),
           \A n \in Names : n \notin Subject(call[h]) => view'[n] = view[n]
    PROVE  NoSurprises'
<1>1. waiting' = waiting \ {h} /\ \A g \in Handlers \ {h} : Same(g)
  BY DEF Ended, Left
<1> SUFFICES ASSUME NEW g \in waiting', NEW a \in Responses(g)', NEW n \in Touched(call'[g])
             PROVE  /\ a.status = 409 => view'[n] # NoKey
                    /\ a.status = 404 /\ a.json => view'[n] \in {NoKey, Unsure}
  BY DEF NoSurprises
<1>2. g \in waiting /\ g # h /\ Same(g) /\ Responses(g)' = Responses(g)
  BY <1>1, SameShape DEF HttpTypeOK
<1>3. n \in Names /\ n \in Subject(call[g])
  BY <1>2, CallFacts DEF CallsInv, OneCall, Same, HttpTypeOK
<1>4. view'[n] = view[n]
  BY <1>2, <1>3 DEF Apart
<1> QED
  BY <1>2, <1>4 DEF NoSurprises, Same

LEMMA NoSurprisesStep ==
    HttpTypeOK /\ CallsInv /\ Apart /\ Believed /\ NoSurprises /\ [HttpNext]_httpVars
       => NoSurprises'
<1> SUFFICES ASSUME HttpTypeOK, CallsInv, Apart, Believed, NoSurprises, [HttpNext]_httpVars
             PROVE  NoSurprises'
  OBVIOUS
<1>0. ASSUME view' = view, \A g \in waiting' : g \in waiting /\ Same(g)
      PROVE  NoSurprises'
  BY <1>0, SameShape DEF NoSurprises, Same
<1>1. ASSUME NEW h \in Handlers, Send(h)
      PROVE  NoSurprises'
  <2>1. /\ h \notin waiting /\ waiting' = waiting \cup {h} /\ view' = view
        /\ \A g \in Handlers \ {h} : Same(g)
    BY <1>1, SendFacts
  <2>2. \A g \in waiting : Same(g) /\ Responses(g)' = Responses(g)
    BY <2>1, SameShape DEF HttpTypeOK
  <2> QED
    BY <1>1, <2>1, <2>2, SentAnswers DEF NoSurprises, Same
<1>2. ASSUME NEW h \in Handlers, Discard(h)
      PROVE  NoSurprises'
  <2>1. /\ h \notin waiting /\ waiting' = waiting \ {h} /\ view' = view
        /\ \A g \in Handlers \ {h} : Same(g)
    BY <1>2, EndFacts DEF Ended
  <2> QED
    BY <1>0, <2>1 DEF HttpTypeOK
<1>3. ASSUME NEW h \in Handlers, Receive(h)
      PROVE  NoSurprises'
  <2>1. \A n \in Names : n \notin Subject(call[h]) => view'[n] = view[n]
    BY <1>3, ReceivedNames
  <2> QED
    BY <1>3, <2>1, EndFacts, NoSurprisesEnded
<1>4. ASSUME NEW h \in Handlers, GiveUp(h)
      PROVE  NoSurprises'
  <2>1. h \in waiting /\ view' = Doubting(Touched(call[h]))
    BY <1>4 DEF GiveUp
  <2>2. Touched(call[h]) \subseteq Subject(call[h])
    BY <2>1, CallFacts DEF CallsInv, OneCall
  <2>3. \A n \in Names : n \notin Subject(call[h]) => view'[n] = view[n]
    BY <2>1, <2>2 DEF Doubting
  <2> QED
    BY <1>4, <2>1, <2>3, EndFacts, NoSurprisesEnded
<1>5. CASE Die
  BY <1>5 DEF Die, NoSurprises
<1>6. CASE UNCHANGED httpVars
  BY <1>0, <1>6 DEF httpVars, vars, Same
<1> QED
  BY <1>1, <1>2, <1>3, <1>4, <1>5, <1>6, NoSurprisesHandle DEF HttpNext

-----------------------------------------------------------------------------
LEMMA HttpInitial == HttpInit => HttpTypeOK /\ HInv
<1> SUFFICES ASSUME HttpInit
             PROVE  HttpTypeOK /\ HInv
  OBVIOUS
<1>1. /\ users \subseteq Entry /\ waiting = {}
      /\ request = [h \in Handlers |-> NoRequest] /\ reply = [h \in Handlers |-> NoReply]
      /\ call = [h \in Handlers |-> NoCall] /\ answer = [h \in Handlers |-> NoAnswer]
      /\ haunted = [h \in Handlers |-> {}] /\ view = [n \in Names |-> KeyOf(users, n)]
  BY InitialUsersAssumption DEF HttpInit, Init
<1>2. \A n \in Names : KeyOf(users, n) \in UUIDs \cup {NoKey}
  BY <1>1, KeyFacts
<1>3. HttpTypeOK
  BY <1>1, <1>2 DEF HttpTypeOK
<1>4. NoReply \in [code : Codes, users : SUBSET Entry] /\ NoCall \notin HttpCalls
  BY CallFacts DEF NoReply, Codes
<1>5. CallsInv
  BY <1>1, <1>4 DEF CallsInv, OneCall
<1>6. \A h \in Handlers : Responses(h) = {} /\ ~Pending(h)
  BY <1>1 DEF Responses, Pending
<1>7. Apart /\ Haunting /\ Truthful /\ Believed /\ NoSurprises
  BY <1>1, <1>6 DEF Apart, Haunting, Abandoned, Truthful, Believed, NoSurprises
<1> QED
  BY <1>3, <1>5, <1>7 DEF HInv

(* What the backend believes is right, doubted, or about to be put right,  *)
(* and no answer to come contradicts it, whatever abandoned calls still do *)
(* (HInv; the handlers of server.go).                                      *)
THEOREM HttpInvariance == HttpSpec => [](HttpTypeOK /\ HInv)
<1>1. HttpTypeOK /\ HInv /\ [HttpNext]_httpVars => (HttpTypeOK /\ HInv)'
  BY TypedStep, ApartStep, HauntingStep, TruthfulStep, BelievedStep, NoSurprisesStep DEF HInv
<1> QED
  BY HttpInitial, <1>1, PTL DEF HttpSpec

(* The types; and a call is answered once, by the checks or by its handler *)
(* (HttpTypeOK; authenticate, require).                                    *)
THEOREM HttpTypeCorrect == HttpSpec => []HttpTypeOK
BY HttpInvariance, PTL

(* A backend that stores what the answers tell it has the key of every     *)
(* name it is sure of, over lost and late answers, retries, and the death  *)
(* of vless-api (ViewIsTrue).                                              *)
THEOREM ViewIsTrueAlways == HttpSpec => []ViewIsTrue
<1>1. HttpTypeOK /\ HInv => ViewIsTrue
  <2> SUFFICES ASSUME HttpTypeOK, HInv, NEW n \in Names \ Busy, view[n] # Unsure
               PROVE  view[n] = KeyOf(users, n)
    BY DEF ViewIsTrue
  <2>1. ASSUME NEW h \in waiting, Corrects(h, n)
        PROVE  FALSE
    <3>1. n \in Subject(call[h])
      BY <2>1, CallFacts DEF Corrects, HInv, CallsInv, OneCall, HttpTypeOK
    <3> QED
      BY <3>1 DEF Busy
  <2> QED
    BY <2>1 DEF HInv, Believed
<1> QED
  BY <1>1, HttpInvariance, PTL

(* It is never told 409 of a name it knows to be free nor 404 of one it    *)
(* knows to be taken (NoSurprises; addUser, deleteUser, rotateUser).       *)
THEOREM NoSurprisesAlways == HttpSpec => []NoSurprises
<1>1. HInv => NoSurprises
  BY DEF HInv
<1> QED
  BY <1>1, HttpInvariance, PTL
=============================================================================
