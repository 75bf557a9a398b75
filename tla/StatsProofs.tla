----------------------------- MODULE StatsProofs -----------------------------
(***************************************************************************)
(* That no caller of /api/stats counts more bytes than there were, for any *)
(* users, callers and goroutines, and that every byte is with one owner:   *)
(* Stats!NeverOvercounts and Stats!EveryByteOnce.                          *)
(***************************************************************************)
EXTENDS Stats, FiniteSetTheorems, WellFoundedInduction, TLAPS

-----------------------------------------------------------------------------
(* Vectors of byte counts, one number at a time. *)

LEMMA ZeroFacts == Zero \in Bytes /\ \A c \in Counters : Zero[c] = 0
BY DEF Zero, Bytes

LEMMA PlusFacts ==
    ASSUME NEW f \in Bytes, NEW g \in Bytes
    PROVE  /\ Plus(f, g) \in Bytes
           /\ \A c \in Counters : f[c] \in Nat /\ g[c] \in Nat /\ Plus(f, g)[c] = f[c] + g[c]
BY DEF Plus, Bytes

LEMMA SinceFacts ==
    ASSUME NEW f \in Bytes, NEW g \in Bytes
    PROVE  /\ Since(f, g) \in Bytes
           /\ \A c \in Counters :
                 /\ f[c] \in Nat /\ g[c] \in Nat
                 /\ Since(f, g)[c] = IF g[c] < f[c] THEN g[c] ELSE g[c] - f[c]
<1>1. \A c \in Counters : f[c] \in Nat /\ g[c] \in Nat
  BY DEF Bytes
<1>2. \A c \in Counters : (IF g[c] < f[c] THEN g[c] ELSE g[c] - f[c]) \in Nat
  BY <1>1
<1> QED
  BY <1>1, <1>2 DEF Since, Bytes

LEMMA SameBytes ==
    ASSUME NEW f \in Bytes, NEW g \in Bytes, \A c \in Counters : f[c] = g[c]
    PROVE  f = g
BY DEF Bytes

(* A counter that has not moved, one that is zero, and one never seen. *)
LEMMA SinceCases ==
    ASSUME NEW f \in Bytes
    PROVE  Since(f, f) = Zero /\ Since(f, Zero) = Zero /\ Since(Zero, f) = f
<1>1. Since(f, f) = Zero
  BY SinceFacts, ZeroFacts, SameBytes
<1>2. Since(f, Zero) = Zero
  BY SinceFacts, ZeroFacts, SameBytes
<1>3. Since(Zero, f) = f
  BY SinceFacts, ZeroFacts, SameBytes
<1> QED
  BY <1>1, <1>2, <1>3

LEMMA PlusZero ==
    ASSUME NEW f \in Bytes
    PROVE  Plus(f, Zero) = f
BY PlusFacts, ZeroFacts, SameBytes

LEMMA AtMostLess ==
    ASSUME NEW f \in Bytes, NEW g \in Bytes, NEW t \in Bytes, AtMost(Plus(f, g), t)
    PROVE  AtMost(f, t)
<1> SUFFICES ASSUME NEW c \in Counters
             PROVE  f[c] <= t[c]
  BY DEF AtMost
<1>1. f[c] \in Nat /\ g[c] \in Nat /\ t[c] \in Nat /\ Plus(f, g)[c] = f[c] + g[c]
  BY PlusFacts DEF Bytes
<1>2. Plus(f, g)[c] <= t[c]
  BY DEF AtMost
<1> QED
  BY <1>1, <1>2

-----------------------------------------------------------------------------
(* xray api statsquery names every counter that has moved, and the parser  *)
(* reads each from the entry with its user and its direction.              *)
LEMMA ParsedIsCounted ==
    ASSUME NEW values \in Bytes
    PROVE  ParseUserTraffic(StatQuery(values)) = values
<1> DEFINE stat == StatQuery(values)
           entries(c) == {s \in stat : s.user = c[1] /\ s.direction = c[2]}
           read(c) == IF entries(c) = {} THEN 0 ELSE (CHOOSE s \in entries(c) : TRUE).value
<1>1. ASSUME NEW c \in Counters
      PROVE  read(c) = values[c]
  <2>1. \A d \in Counters : d[1] = c[1] /\ d[2] = c[2] => d = c
    BY DEF Counters
  <2>2. \A s \in entries(c) : s.value = values[c] /\ values[c] # 0
    <3>1. SUFFICES ASSUME NEW s \in entries(c)
                   PROVE  s.value = values[c] /\ values[c] # 0
      OBVIOUS
    <3>2. PICK d \in Counters : /\ values[d] # 0
                                /\ s = [user |-> d[1], direction |-> d[2], value |-> values[d]]
      BY DEF StatQuery
    <3>3. d[1] = c[1] /\ d[2] = c[2]
      BY <3>2
    <3> QED
      BY <2>1, <3>2, <3>3
  <2>3. CASE entries(c) = {}
    <3>1. ASSUME values[c] # 0
          PROVE  [user |-> c[1], direction |-> c[2], value |-> values[c]] \in entries(c)
      BY <3>1 DEF StatQuery
    <3> QED
      BY <2>3, <3>1
  <2>4. CASE entries(c) # {}
    <3>1. (CHOOSE s \in entries(c) : TRUE) \in entries(c)
      BY <2>4
    <3> QED
      BY <2>2, <2>4, <3>1
  <2> QED
    BY <2>3, <2>4
<1>2. ParseUserTraffic(StatQuery(values)) = [c \in Counters |-> read(c)]
  BY DEF ParseUserTraffic
<1> HIDE DEF read
<1>3. [c \in Counters |-> read(c)] = [c \in Counters |-> values[c]]
  BY <1>1
<1>4. [c \in Counters |-> values[c]] = values
  BY DEF Bytes
<1> QED
  BY <1>2, <1>3, <1>4

-----------------------------------------------------------------------------
LEMMA StatsInit == Init => StatsInv
<1> SUFFICES ASSUME Init
             PROVE  StatsInv
  OBVIOUS
<1> USE ZeroFacts
<1>1. StatsTypeOK
  BY DEF Init, StatsTypeOK
<1>2. OneCallEach
  BY DEF Init, OneCallEach
<1>3. AtMost(Zero, traffic)
  BY DEF Init, AtMost
<1>4. Plus(Zero, Zero) = Zero /\ Since(Zero, Zero) = Zero
  BY PlusZero, SinceCases
<1>5. Credit
  BY <1>3, <1>4, StatsAssumption DEF Init, Credit
<1> QED
  BY <1>1, <1>2, <1>5 DEF StatsInv

LEMMA StatsTyped == StatsTypeOK /\ OneCallEach /\ [Next]_vars => StatsTypeOK'
<1> SUFFICES ASSUME StatsTypeOK, OneCallEach, [Next]_vars
             PROVE  StatsTypeOK'
  OBVIOUS
<1> USE ZeroFacts DEF StatsTypeOK
<1>0. Plus(lost, counter) \in Bytes /\ \A g \in Goroutines : Plus(lost, result[g]) \in Bytes
  BY PlusFacts
<1>1. CASE Flow
  BY <1>1 DEF Flow, Bytes
<1>2. CASE XrayRestarts
  BY <1>0, <1>2 DEF XrayRestarts
<1>3. ASSUME NEW g \in Goroutines, NEW p \in Pollers, Ask(g, p)
      PROVE  StatsTypeOK'
  BY <1>3 DEF Ask
<1>4. ASSUME NEW g \in Goroutines, Query(g)
      PROVE  StatsTypeOK'
  BY <1>4, ParsedIsCounted DEF Query
<1>5. ASSUME NEW g \in Goroutines, QueryFails(g)
      PROVE  StatsTypeOK'
  BY <1>0, <1>5 DEF QueryFails, Answered
<1>6. ASSUME NEW g \in Goroutines, Deliver(g)
      PROVE  StatsTypeOK'
  <2>1. caller[g] \in Pollers /\ result[g] \in Bytes /\ last[caller[g]] \in Bytes
    BY <1>6 DEF Deliver, OneCallEach
  <2>2. /\ Plus(total[caller[g]], result[g]) \in Bytes
        /\ Plus(total[caller[g]], Since(last[caller[g]], result[g])) \in Bytes
    BY <2>1, PlusFacts, SinceFacts
  <2> QED
    BY <1>6, <2>1, <2>2 DEF Deliver, Answered
<1>7. ASSUME NEW g \in Goroutines, Drop(g)
      PROVE  StatsTypeOK'
  BY <1>0, <1>7 DEF Drop, Answered
<1>8. ASSUME NEW g \in Goroutines, GiveUp(g)
      PROVE  StatsTypeOK'
  BY <1>8 DEF GiveUp
<1>9. CASE UNCHANGED vars
  BY <1>9 DEF vars
<1> QED
  BY <1>1, <1>2, <1>3, <1>4, <1>5, <1>6, <1>7, <1>8, <1>9 DEF Next

LEMMA OneCallEachStep == StatsTypeOK /\ OneCallEach /\ [Next]_vars => OneCallEach'
<1> SUFFICES ASSUME StatsTypeOK, OneCallEach, [Next]_vars
             PROVE  OneCallEach'
  OBVIOUS
<1> USE DEF StatsTypeOK, OneCallEach
<1>1. CASE Flow \/ XrayRestarts \/ UNCHANGED vars
  BY <1>1 DEF Flow, XrayRestarts, vars
<1>2. ASSUME NEW g \in Goroutines, NEW p \in Pollers, Ask(g, p)
      PROVE  OneCallEach'
  BY <1>2 DEF Ask, Waiting
<1>3. ASSUME NEW g \in Goroutines, Query(g)
      PROVE  OneCallEach'
  BY <1>3 DEF Query
<1>4. ASSUME NEW g \in Goroutines, QueryFails(g) \/ Deliver(g) \/ Drop(g)
      PROVE  OneCallEach'
  BY <1>4 DEF QueryFails, Deliver, Drop, Answered
<1>5. ASSUME NEW g \in Goroutines, GiveUp(g)
      PROVE  OneCallEach'
  BY <1>5 DEF GiveUp
<1> QED
  BY <1>1, <1>2, <1>3, <1>4, <1>5 DEF Next

-----------------------------------------------------------------------------
(* The counters start afresh, by a restart or a reset, or stay: what a     *)
(* poller has with what it would add stays covered.                        *)
LEMMA CreditOverReset ==
    ASSUME StatsTypeOK, NEW t \in Bytes, NEW seen \in Bytes,
           AtMost(Plus(t, Since(seen, counter)), traffic),
           counter' \in {counter, Zero}, traffic' = traffic
    PROVE  AtMost(Plus(t, Since(seen, counter')), traffic')
<1>1. counter \in Bytes /\ traffic \in Bytes /\ Since(seen, counter) \in Bytes
  BY SinceFacts DEF StatsTypeOK
<1>2. CASE counter' = counter
  BY <1>2
<1>3. CASE counter' = Zero
  <2>1. Plus(t, Since(seen, counter')) = t
    BY <1>3, SinceCases, PlusZero
  <2>2. AtMost(t, traffic)
    BY <1>1, AtMostLess
  <2> QED
    BY <2>1, <2>2
<1> QED
  BY <1>2, <1>3

(* A byte goes through. *)
LEMMA CreditOverFlow ==
    ASSUME StatsTypeOK, StatsTypeOK', Flow, NEW t \in Bytes, NEW seen \in Bytes,
           AtMost(Plus(t, Since(seen, counter)), traffic)
    PROVE  AtMost(Plus(t, Since(seen, counter')), traffic')
<1> SUFFICES ASSUME NEW c \in Counters
             PROVE  Plus(t, Since(seen, counter'))[c] <= traffic'[c]
  BY DEF AtMost
<1>1. /\ counter[c] \in Nat /\ traffic[c] \in Nat /\ seen[c] \in Nat /\ t[c] \in Nat
      /\ counter \in Bytes /\ counter' \in Bytes
  BY DEF StatsTypeOK, Bytes
<1>2. \/ counter'[c] = counter[c] /\ traffic'[c] = traffic[c]
      \/ counter'[c] = counter[c] + 1 /\ traffic'[c] = traffic[c] + 1
  BY <1>1 DEF Flow, StatsTypeOK, Bytes
<1>3. /\ Plus(t, Since(seen, counter))[c] = t[c] + Since(seen, counter)[c]
      /\ Plus(t, Since(seen, counter'))[c] = t[c] + Since(seen, counter')[c]
  BY <1>1, PlusFacts, SinceFacts
<1>4. /\ Since(seen, counter)[c] =
            IF counter[c] < seen[c] THEN counter[c] ELSE counter[c] - seen[c]
      /\ Since(seen, counter')[c] =
            IF counter'[c] < seen[c] THEN counter'[c] ELSE counter'[c] - seen[c]
  BY <1>1, SinceFacts
<1>5. Plus(t, Since(seen, counter))[c] <= traffic[c]
  BY DEF AtMost
<1> QED
  BY <1>1, <1>2, <1>3, <1>4, <1>5

(* What an answer on its way will be added to, and compared with later.    *)
LEMMA CreditTypes ==
    ASSUME StatsTypeOK, OneCallEach, NEW p \in Pollers
    PROVE  /\ total[p] \in Bytes /\ last[p] \in Bytes
           /\ \A a \in Bytes : /\ Remembered(p, a) \in Bytes
                               /\ Plus(total[p], Since(last[p], a)) \in Bytes
<1>1. total[p] \in Bytes /\ last[p] \in Bytes
  BY DEF StatsTypeOK
<1> QED
  BY <1>1, ZeroFacts, PlusFacts, SinceFacts DEF Remembered

(* Xray's side of the steps: nothing of the callers changes. *)
LEMMA CreditXray ==
    ASSUME StatsTypeOK, StatsTypeOK', OneCallEach, Credit,
           Flow \/ (counter' \in {counter, Zero} /\ traffic' = traffic),
           last' = last, total' = total,
           \A g \in Goroutines : heard'[g] /\ pc'[g] = "answer" =>
              heard[g] /\ pc[g] = "answer" /\ caller'[g] = caller[g] /\ result'[g] = result[g]
    PROVE  Credit'
<1>1. ASSUME NEW t \in Bytes, NEW seen \in Bytes, AtMost(Plus(t, Since(seen, counter)), traffic)
      PROVE  AtMost(Plus(t, Since(seen, counter')), traffic')
  BY <1>1, CreditOverFlow, CreditOverReset
<1>2. ASSUME NEW p \in Pollers
      PROVE  AtMost(Plus(total[p], Since(last[p], counter')), traffic')
  BY <1>1, CreditTypes DEF Credit
<1>3. ASSUME NEW g \in Goroutines, heard'[g], pc'[g] = "answer"
      PROVE  AtMost(Plus(Plus(total[caller'[g]], Since(last[caller'[g]], result'[g])),
                         Since(Remembered(caller'[g], result'[g]), counter')), traffic')
  <2>1. heard[g] /\ pc[g] = "answer" /\ caller'[g] = caller[g] /\ result'[g] = result[g]
    BY <1>3
  <2>2. caller[g] \in Pollers /\ result[g] \in Bytes
    BY <2>1 DEF OneCallEach, StatsTypeOK
  <2>3. /\ Plus(total[caller[g]], Since(last[caller[g]], result[g])) \in Bytes
        /\ Remembered(caller[g], result[g]) \in Bytes
    BY <2>2, CreditTypes
  <2>4. AtMost(Plus(Plus(total[caller[g]], Since(last[caller[g]], result[g])),
                    Since(Remembered(caller[g], result[g]), counter)), traffic)
    BY <2>1 DEF Credit
  <2> QED
    BY <1>1, <2>1, <2>3, <2>4
<1> QED
  BY <1>2, <1>3 DEF Credit, Remembered

(* Xray tells g the counters, and resets them if g asks for it: the answer *)
(* is covered by what its caller was covered for before.                   *)
LEMMA CreditQuery ==
    ASSUME StatsTypeOK, StatsTypeOK', OneCallEach, Credit,
           NEW g \in Goroutines, Query(g)
    PROVE  Credit'
<1> DEFINE p == caller[g]
<1>0. /\ p \in Pollers /\ counter \in Bytes
      /\ result' = [result EXCEPT ![g] = counter]
      /\ counter' = IF p \in Resetting THEN Zero ELSE counter
      /\ UNCHANGED <<caller, heard, last, total, traffic>>
      /\ pc' = [pc EXCEPT ![g] = "answer"]
  BY ParsedIsCounted DEF Query, Reset, OneCallEach, StatsTypeOK
<1>1. ASSUME NEW t \in Bytes, NEW seen \in Bytes, AtMost(Plus(t, Since(seen, counter)), traffic)
      PROVE  AtMost(Plus(t, Since(seen, counter')), traffic')
  BY <1>0, <1>1, CreditOverReset
<1>2. ASSUME NEW q \in Pollers
      PROVE  AtMost(Plus(total[q], Since(last[q], counter')), traffic')
  BY <1>1, CreditTypes DEF Credit
<1>3. ASSUME NEW h \in Goroutines, h # g, heard'[h], pc'[h] = "answer"
      PROVE  AtMost(Plus(Plus(total[caller[h]], Since(last[caller[h]], result'[h])),
                         Since(Remembered(caller[h], result'[h]), counter')), traffic')
  <2>1. heard[h] /\ pc[h] = "answer" /\ result'[h] = result[h]
    BY <1>0, <1>3 DEF StatsTypeOK
  <2>2. caller[h] \in Pollers /\ result[h] \in Bytes
    BY <2>1 DEF OneCallEach, StatsTypeOK
  <2>3. /\ Plus(total[caller[h]], Since(last[caller[h]], result[h])) \in Bytes
        /\ Remembered(caller[h], result[h]) \in Bytes
    BY <2>2, CreditTypes
  <2>4. AtMost(Plus(Plus(total[caller[h]], Since(last[caller[h]], result[h])),
                    Since(Remembered(caller[h], result[h]), counter)), traffic)
    BY <2>1 DEF Credit
  <2> QED
    BY <1>1, <2>1, <2>3, <2>4
<1>4. AtMost(Plus(Plus(total[p], Since(last[p], result'[g])),
                  Since(Remembered(p, result'[g]), counter')), traffic')
  <2>1. result'[g] = counter
    BY <1>0 DEF StatsTypeOK
  <2>2. Since(Remembered(p, counter), counter') = Zero
    BY <1>0, SinceCases, ZeroFacts DEF Remembered
  <2>3. Plus(total[p], Since(last[p], counter)) \in Bytes
    BY <1>0, CreditTypes
  <2>4. AtMost(Plus(total[p], Since(last[p], counter)), traffic)
    BY <1>0 DEF Credit
  <2> QED
    BY <1>0, <2>1, <2>2, <2>3, <2>4, PlusZero
<1> HIDE DEF p
<1>5. ASSUME NEW h \in Goroutines, heard'[h], pc'[h] = "answer"
      PROVE  AtMost(Plus(Plus(total'[caller'[h]], Since(last'[caller'[h]], result'[h])),
                         Since(Remembered(caller'[h], result'[h]), counter')), traffic')
  BY <1>0, <1>3, <1>4, <1>5 DEF p
<1>6. \A q \in Resetting : last'[q] = Zero
  BY <1>0 DEF Credit
<1> QED
  BY <1>0, <1>2, <1>5, <1>6 DEF Credit, Remembered

(* The caller of g adds its answer up, and has no other on its way. *)
LEMMA CreditDeliver ==
    ASSUME StatsTypeOK, StatsTypeOK', OneCallEach, Credit,
           NEW g \in Goroutines, Deliver(g)
    PROVE  Credit'
<1> DEFINE p == caller[g]
<1>0. /\ p \in Pollers /\ heard[g] /\ pc[g] = "answer" /\ result[g] \in Bytes
      /\ last' = [last EXCEPT ![p] = Remembered(p, result[g])]
      /\ UNCHANGED <<counter, traffic>>
      /\ \A h \in Goroutines : heard'[h] =>
            h # g /\ heard[h] /\ pc'[h] = pc[h] /\ caller'[h] = caller[h] /\ result'[h] = result[h]
  BY DEF Deliver, Answered, Remembered, OneCallEach, StatsTypeOK
<1>1. total' = [total EXCEPT ![p] = Plus(total[p], Since(last[p], result[g]))]
  <2>1. p \in Resetting => Since(last[p], result[g]) = result[g]
    BY <1>0, SinceCases DEF Credit
  <2> QED
    BY <2>1 DEF Deliver
<1>2. ASSUME NEW q \in Pollers
      PROVE  AtMost(Plus(total'[q], Since(last'[q], counter')), traffic')
  <2>1. CASE q = p
    BY <1>0, <1>1, <2>1 DEF Credit, StatsTypeOK
  <2>2. CASE q # p
    <3>1. total'[q] = total[q] /\ last'[q] = last[q]
      BY <1>0, <1>1, <2>2 DEF StatsTypeOK
    <3> QED
      BY <1>0, <3>1 DEF Credit
  <2> QED
    BY <2>1, <2>2
<1>3. ASSUME NEW h \in Goroutines, heard'[h], pc'[h] = "answer"
      PROVE  AtMost(Plus(Plus(total'[caller'[h]], Since(last'[caller'[h]], result'[h])),
                         Since(Remembered(caller'[h], result'[h]), counter')), traffic')
  <2>1. h # g /\ heard[h] /\ pc[h] = "answer" /\ caller'[h] = caller[h] /\ result'[h] = result[h]
    BY <1>0, <1>3
  <2>2. caller[h] # p /\ caller[h] \in Pollers
    BY <1>0, <2>1 DEF OneCallEach
  <2>3. total'[caller[h]] = total[caller[h]] /\ last'[caller[h]] = last[caller[h]]
    BY <1>0, <1>1, <2>2 DEF StatsTypeOK
  <2>4. AtMost(Plus(Plus(total[caller[h]], Since(last[caller[h]], result[h])),
                    Since(Remembered(caller[h], result[h]), counter)), traffic)
    BY <2>1 DEF Credit
  <2> QED
    BY <1>0, <2>1, <2>3, <2>4
<1>4. \A q \in Resetting : last'[q] = Zero
  BY <1>0, StatsAssumption DEF Credit, StatsTypeOK, Remembered
<1> HIDE DEF p
<1> QED
  BY <1>2, <1>3, <1>4 DEF Credit, Remembered

LEMMA CreditStep ==
    StatsTypeOK /\ StatsTypeOK' /\ OneCallEach /\ Credit /\ [Next]_vars => Credit'
<1> SUFFICES ASSUME StatsTypeOK, StatsTypeOK', OneCallEach, Credit, [Next]_vars
             PROVE  Credit'
  OBVIOUS
<1>1. CASE Flow
  <2>1. last' = last /\ total' = total
    BY <1>1 DEF Flow
  <2>2. caller' = caller /\ pc' = pc /\ heard' = heard /\ result' = result
    BY <1>1 DEF Flow
  <2> QED
    BY <1>1, <2>1, <2>2, CreditXray
<1>2. CASE XrayRestarts
  BY <1>2, CreditXray DEF XrayRestarts
<1>3. ASSUME NEW g \in Goroutines, NEW p \in Pollers, Ask(g, p)
      PROVE  Credit'
  BY <1>3, CreditXray DEF Ask, StatsTypeOK
<1>4. ASSUME NEW g \in Goroutines, Query(g)
      PROVE  Credit'
  BY <1>4, CreditQuery
<1>5. ASSUME NEW g \in Goroutines, QueryFails(g)
      PROVE  Credit'
  BY <1>5, CreditXray DEF QueryFails, Answered, StatsTypeOK
<1>6. ASSUME NEW g \in Goroutines, Deliver(g)
      PROVE  Credit'
  BY <1>6, CreditDeliver
<1>7. ASSUME NEW g \in Goroutines, Drop(g)
      PROVE  Credit'
  BY <1>7, CreditXray DEF Drop, Answered, StatsTypeOK
<1>8. ASSUME NEW g \in Goroutines, GiveUp(g)
      PROVE  Credit'
  BY <1>8, CreditXray DEF GiveUp, StatsTypeOK
<1>9. CASE UNCHANGED vars
  BY <1>9, CreditXray DEF vars
<1> QED
  BY <1>1, <1>2, <1>3, <1>4, <1>5, <1>6, <1>7, <1>8, <1>9 DEF Next

-----------------------------------------------------------------------------
(* Sums over finite sets.                                                  *)

(* Induction over the subsets of a finite set, without an operator: a set  *)
(* of them has one that no other lies in.                                  *)
LEMMA LeastSubset ==
    ASSUME NEW S, IsFiniteSet(S), NEW T, T \subseteq SUBSET S, T # {}
    PROVE  \E x \in T : \A y \in SUBSET x : y # x => y \notin T
<1>1. IsWellFoundedOn(StrictSubsetOrdering(S), SUBSET S)
  BY FS_StrictSubsetOrderingWellFounded, FS_FiniteSubsetsOfFinite
<1>2. PICK x \in T : \A y \in T : <<y, x>> \notin StrictSubsetOrdering(S)
  BY <1>1, WFMin, Zenon
<1> QED
  BY <1>2 DEF StrictSubsetOrdering

(* The function MapThenFoldSet is defined by: there is one, and only one,  *)
(* for every finite set.                                                   *)
Pick(s) == CHOOSE x \in s : TRUE
Partial(f, S, it) ==
    it = [s \in SUBSET S |-> IF s = {} THEN 0 ELSE f[Pick(s)] + it[s \ {Pick(s)}]]

LEMMA PickIn == \A s : s # {} => Pick(s) \in s
BY DEF Pick

LEMMA PartialAt ==
    ASSUME NEW f, NEW S, NEW it, Partial(f, S, it), NEW s \in SUBSET S
    PROVE  it[s] = IF s = {} THEN 0 ELSE f[Pick(s)] + it[s \ {Pick(s)}]
BY DEF Partial

LEMMA PartialUnique ==
    ASSUME NEW f, NEW S, NEW R, IsFiniteSet(S), NEW it, NEW jt,
           Partial(f, S, it), Partial(f, R, jt), NEW s \in SUBSET S, s \subseteq R
    PROVE  it[s] = jt[s]
<1> DEFINE T == {t \in SUBSET S : t \subseteq R /\ it[t] # jt[t]}
<1> SUFFICES ASSUME T # {}
             PROVE  FALSE
  OBVIOUS
<1>0. T \subseteq SUBSET S /\ T # {}
  OBVIOUS
<1> HIDE DEF T
<1>1. PICK t \in T : \A u \in SUBSET t : u # t => u \notin T
  BY <1>0, LeastSubset, Zenon
<1> USE DEF T
<1>2. t \in SUBSET S /\ t \in SUBSET R /\ it[t] # jt[t]
  OBVIOUS
<1>3. t # {}
  BY <1>2, PartialAt
<1>4. Pick(t) \in t
  BY <1>3, PickIn
<1>5. it[t \ {Pick(t)}] = jt[t \ {Pick(t)}]
  BY <1>1, <1>2, <1>4
<1>6. /\ it[t] = f[Pick(t)] + it[t \ {Pick(t)}]
      /\ jt[t] = f[Pick(t)] + jt[t \ {Pick(t)}]
  <2> HIDE DEF T
  <2>1. it[t] = f[Pick(t)] + it[t \ {Pick(t)}]
    BY <1>2, <1>3, PartialAt
  <2>2. jt[t] = f[Pick(t)] + jt[t \ {Pick(t)}]
    BY <1>2, <1>3, PartialAt
  <2> QED
    BY <2>1, <2>2
<1> QED
  BY <1>2, <1>5, <1>6

LEMMA PartialExists ==
    ASSUME NEW f, NEW S, IsFiniteSet(S)
    PROVE  \E it : Partial(f, S, it)
<1> DEFINE T == {s \in SUBSET S : ~\E it : Partial(f, s, it)}
<1> SUFFICES ASSUME T # {}
             PROVE  FALSE
  OBVIOUS
<1>0. T \subseteq SUBSET S /\ T # {}
  OBVIOUS
<1> HIDE DEF T
<1>1. PICK u \in T : \A s \in SUBSET u : s # u => s \notin T
  BY <1>0, LeastSubset, Zenon
<1> USE DEF T
<1> DEFINE part(s) == CHOOSE it : Partial(f, s, it)
           next(s) == f[Pick(s)] + part(s \ {Pick(s)})[s \ {Pick(s)}]
           it == [s \in SUBSET u |-> IF s = {} THEN 0 ELSE next(s)]
<1>2. ASSUME NEW s \in SUBSET u, s # u
      PROVE  Partial(f, s, part(s))
  <2>1. \E jt : Partial(f, s, jt)
    BY <1>1, <1>2
  <2> QED
    BY <2>1
<1>3. ASSUME NEW s \in SUBSET u, s # u
      PROVE  it[s] = part(s)[s]
  <2>1. CASE s = {}
    BY <1>2, <1>3, <2>1, PartialAt
  <2>2. CASE s # {}
    <3>1. Pick(s) \in s
      BY <2>2, PickIn
    <3>2. s \ {Pick(s)} \in SUBSET s /\ s \ {Pick(s)} \in SUBSET u /\ s \ {Pick(s)} # u
      BY <3>1
    <3>3. Partial(f, s, part(s)) /\ Partial(f, s \ {Pick(s)}, part(s \ {Pick(s)}))
      BY <1>2, <1>3, <3>2
    <3>4. IsFiniteSet(s)
      BY FS_Subset
    <3> HIDE DEF part
    <3>5. part(s)[s \ {Pick(s)}] = part(s \ {Pick(s)})[s \ {Pick(s)}]
      BY <3>2, <3>3, <3>4, PartialUnique
    <3>6. part(s)[s] = f[Pick(s)] + part(s)[s \ {Pick(s)}]
      BY <2>2, <3>3, PartialAt
    <3> QED
      BY <2>2, <3>5, <3>6
  <2> QED
    BY <2>1, <2>2
<1>4. Partial(f, u, it)
  <2>1. ASSUME NEW s \in SUBSET u, s # {}
        PROVE  next(s) = f[Pick(s)] + it[s \ {Pick(s)}]
    <3>1. Pick(s) \in s
      BY <2>1, PickIn
    <3>2. s \ {Pick(s)} \in SUBSET u /\ s \ {Pick(s)} # u
      BY <3>1
    <3> QED
      BY <1>3, <3>2
  <2> HIDE DEF next
  <2>2. it = [s \in SUBSET u |-> IF s = {} THEN 0 ELSE f[Pick(s)] + it[s \ {Pick(s)}]]
    BY <2>1
  <2> QED
    BY <2>2 DEF Partial
<1> QED
  BY <1>1, <1>4

LEMMA SumIsPartial ==
    ASSUME NEW f, NEW S, IsFiniteSet(S)
    PROVE  \E it : Partial(f, S, it) /\ SumOver(f, S) = it[S]
<1> DEFINE it == CHOOSE jt : Partial(f, S, jt)
<1>1. Partial(f, S, it)
  BY PartialExists
<1>2. SumOver(f, S) = it[S]
  BY Zenon DEF SumOver, MapThenSumSet, MapThenFoldSet, Partial, Pick
<1> QED
  BY <1>1, <1>2

LEMMA SumOfNone == ASSUME NEW f PROVE SumOver(f, {}) = 0
BY SumIsPartial, PartialAt, FS_EmptySet

LEMMA SumPicked ==
    ASSUME NEW f, NEW S, IsFiniteSet(S), S # {}
    PROVE  SumOver(f, S) = f[Pick(S)] + SumOver(f, S \ {Pick(S)})
<1> DEFINE R == S \ {Pick(S)}
<1>1. PICK it : Partial(f, S, it) /\ SumOver(f, S) = it[S]
  BY SumIsPartial
<1>2. IsFiniteSet(R)
  BY FS_Subset
<1>3. PICK jt : Partial(f, R, jt) /\ SumOver(f, R) = jt[R]
  BY <1>2, SumIsPartial
<1>4. it[R] = jt[R]
  BY <1>1, <1>3, PartialUnique
<1>5. it[S] = f[Pick(S)] + it[R]
  BY <1>1, PartialAt
<1> QED
  BY <1>1, <1>3, <1>4, <1>5

(* A sum of numbers is a number.                                           *)
LEMMA SumIsNat ==
    ASSUME NEW f, NEW S, IsFiniteSet(S), \A x \in S : f[x] \in Nat
    PROVE  SumOver(f, S) \in Nat
<1> DEFINE T == {s \in SUBSET S : SumOver(f, s) \notin Nat}
<1> SUFFICES ASSUME T # {}
             PROVE  FALSE
  OBVIOUS
<1>0. T \subseteq SUBSET S /\ T # {}
  OBVIOUS
<1> HIDE DEF T
<1>1. PICK s \in T : \A u \in SUBSET s : u # s => u \notin T
  BY <1>0, LeastSubset, Zenon
<1> USE DEF T
<1>2. s # {}
  BY SumOfNone
<1>3. Pick(s) \in s
  BY <1>2, PickIn
<1>4. SumOver(f, s \ {Pick(s)}) \in Nat /\ f[Pick(s)] \in Nat
  BY <1>1, <1>3
<1>5. SumOver(f, s) = f[Pick(s)] + SumOver(f, s \ {Pick(s)})
  BY <1>2, FS_Subset, SumPicked
<1> QED
  BY <1>4, <1>5

(* Any summand can be taken out.                                           *)
LEMMA SumTaking ==
    ASSUME NEW f, NEW S, IsFiniteSet(S), \A x \in S : f[x] \in Nat, NEW y \in S
    PROVE  SumOver(f, S) = f[y] + SumOver(f, S \ {y})
<1> DEFINE T == {s \in SUBSET S : \E x \in s : SumOver(f, s) # f[x] + SumOver(f, s \ {x})}
<1> SUFFICES ASSUME T # {}
             PROVE  FALSE
  OBVIOUS
<1>0. T \subseteq SUBSET S /\ T # {}
  OBVIOUS
<1> HIDE DEF T
<1>1. PICK s \in T : \A u \in SUBSET s : u # s => u \notin T
  BY <1>0, LeastSubset, Zenon
<1> USE DEF T
<1>2. PICK x \in s : SumOver(f, s) # f[x] + SumOver(f, s \ {x})
  OBVIOUS
<1> DEFINE p == Pick(s)
<1>3. p \in s
  BY PickIn
<1>4. ASSUME NEW u \in SUBSET s
      PROVE  IsFiniteSet(u) /\ SumOver(f, u) \in Nat
  <2>1. u \in SUBSET S
    OBVIOUS
  <2> QED
    BY <2>1, FS_Subset, SumIsNat
<1>5. SumOver(f, s) = f[p] + SumOver(f, s \ {p})
  BY <1>4, SumPicked
<1> HIDE DEF p
<1>6. p # x
  BY <1>2, <1>5
<1>7. SumOver(f, s \ {p}) = f[x] + SumOver(f, (s \ {p}) \ {x})
  BY <1>1, <1>3, <1>6
<1>8. SumOver(f, s \ {x}) = f[p] + SumOver(f, (s \ {x}) \ {p})
  BY <1>1, <1>3, <1>6
<1> DEFINE r == SumOver(f, (s \ {p}) \ {x})
<1>9. SumOver(f, (s \ {x}) \ {p}) = r
  <2>1. (s \ {x}) \ {p} = (s \ {p}) \ {x}
    OBVIOUS
  <2> QED
    BY <2>1
<1>10. f[x] \in Nat /\ f[p] \in Nat /\ r \in Nat
  BY <1>3, <1>4
<1> HIDE DEF T, r
<1>11. SumOver(f, s \ {p}) = f[x] + r /\ SumOver(f, s \ {x}) = f[p] + r
  BY <1>7, <1>8, <1>9 DEF r
<1> QED
  BY <1>2, <1>5, <1>10, <1>11

(* A sum depends on its summands only.                                     *)
LEMMA SumSame ==
    ASSUME NEW f, NEW g, NEW S, IsFiniteSet(S), \A x \in S : f[x] = g[x]
    PROVE  SumOver(f, S) = SumOver(g, S)
<1> DEFINE T == {s \in SUBSET S : SumOver(f, s) # SumOver(g, s)}
<1> SUFFICES ASSUME T # {}
             PROVE  FALSE
  OBVIOUS
<1>0. T \subseteq SUBSET S /\ T # {}
  OBVIOUS
<1> HIDE DEF T
<1>1. PICK s \in T : \A u \in SUBSET s : u # s => u \notin T
  BY <1>0, LeastSubset, Zenon
<1> USE DEF T
<1>2. s # {}
  BY SumOfNone
<1>3. Pick(s) \in s
  BY <1>2, PickIn
<1>4. SumOver(f, s \ {Pick(s)}) = SumOver(g, s \ {Pick(s)})
  BY <1>1, <1>3
<1>5. /\ SumOver(f, s) = f[Pick(s)] + SumOver(f, s \ {Pick(s)})
      /\ SumOver(g, s) = g[Pick(s)] + SumOver(g, s \ {Pick(s)})
  BY <1>2, FS_Subset, SumPicked
<1> QED
  BY <1>3, <1>4, <1>5

LEMMA SumOfZeros ==
    ASSUME NEW f, NEW S, IsFiniteSet(S), \A x \in S : f[x] = 0
    PROVE  SumOver(f, S) = 0
<1> DEFINE T == {s \in SUBSET S : SumOver(f, s) # 0}
<1> SUFFICES ASSUME T # {}
             PROVE  FALSE
  OBVIOUS
<1>0. T \subseteq SUBSET S /\ T # {}
  OBVIOUS
<1> HIDE DEF T
<1>1. PICK s \in T : \A u \in SUBSET s : u # s => u \notin T
  BY <1>0, LeastSubset, Zenon
<1> USE DEF T
<1>2. s # {}
  BY SumOfNone
<1>3. Pick(s) \in s
  BY <1>2, PickIn
<1>4. SumOver(f, s \ {Pick(s)}) = 0 /\ f[Pick(s)] = 0
  BY <1>1, <1>3
<1>5. SumOver(f, s) = f[Pick(s)] + SumOver(f, s \ {Pick(s)})
  BY <1>2, FS_Subset, SumPicked
<1> QED
  BY <1>4, <1>5

-----------------------------------------------------------------------------
(* Every byte is with one owner.                                           *)

Coming(c) == SumOver([g \in Goroutines |-> result[g][c]], UnderWay)
Billed(c) == SumOver([p \in Pollers |-> total[p][c]], Resetting)

LEMMA SumsAreNat ==
    ASSUME StatsTypeOK, NEW c \in Counters
    PROVE  /\ IsFiniteSet(UnderWay) /\ IsFiniteSet(Resetting)
           /\ \A g \in Goroutines : [h \in Goroutines |-> result[h][c]][g] = result[g][c]
                                       /\ result[g][c] \in Nat
           /\ \A p \in Pollers : [q \in Pollers |-> total[q][c]][p] = total[p][c]
                                    /\ total[p][c] \in Nat
           /\ Coming(c) \in Nat /\ Billed(c) \in Nat
<1>1. IsFiniteSet(UnderWay) /\ IsFiniteSet(Resetting)
  BY StatsAssumption, FS_Subset DEF UnderWay
<1>2. /\ \A g \in Goroutines : result[g][c] \in Nat
      /\ \A p \in Pollers : total[p][c] \in Nat
  BY DEF StatsTypeOK, Bytes
<1>3. Coming(c) \in Nat
  BY <1>1, <1>2, SumIsNat DEF Coming, UnderWay
<1>4. Billed(c) \in Nat
  BY <1>1, <1>2, SumIsNat, StatsAssumption DEF Billed
<1> QED
  BY <1>1, <1>2, <1>3, <1>4

LEMMA ComingKeeps ==
    ASSUME StatsTypeOK, NEW c \in Counters,
           UnderWay' = UnderWay, \A g \in UnderWay : result'[g] = result[g]
    PROVE  Coming(c)' = Coming(c)
<1> DEFINE f == [g \in Goroutines |-> result[g][c]]
           k == [g \in Goroutines |-> result'[g][c]]
<1>1. \A g \in UnderWay : k[g] = f[g]
  BY DEF UnderWay
<1> HIDE DEF f, k
<1>2. SumOver(k, UnderWay) = SumOver(f, UnderWay)
  BY <1>1, SumsAreNat, SumSame
<1> QED
  BY <1>2 DEF Coming, f, k

(* An answer sets out.                                                     *)
LEMMA ComingJoins ==
    ASSUME StatsTypeOK, StatsTypeOK', NEW c \in Counters,
           NEW g \in Goroutines, g \notin UnderWay,
           UnderWay' = UnderWay \cup {g}, \A h \in UnderWay : result'[h] = result[h]
    PROVE  Coming(c)' = result'[g][c] + Coming(c)
<1> DEFINE f == [h \in Goroutines |-> result[h][c]]
           k == [h \in Goroutines |-> result'[h][c]]
<1>1. \A h \in UnderWay : k[h] = f[h]
  BY DEF UnderWay
<1>2. /\ IsFiniteSet(UnderWay) /\ IsFiniteSet(UnderWay')
      /\ \A h \in UnderWay' : k[h] \in Nat
      /\ k[g] = result'[g][c]
  <2>1. UnderWay \subseteq Goroutines
    BY DEF UnderWay
  <2>2. \A h \in Goroutines : k[h] \in Nat
    BY DEF StatsTypeOK, Bytes
  <2>3. IsFiniteSet(UnderWay) /\ IsFiniteSet(UnderWay \cup {g})
    BY SumsAreNat, FS_AddElement
  <2> QED
    BY <2>1, <2>2, <2>3
<1> HIDE DEF f, k
<1>3. SumOver(k, UnderWay') = k[g] + SumOver(k, UnderWay' \ {g})
  BY <1>2, SumTaking
<1>4. UnderWay' \ {g} = UnderWay
  OBVIOUS
<1>5. SumOver(k, UnderWay) = SumOver(f, UnderWay)
  BY <1>1, <1>2, SumSame
<1> QED
  BY <1>2, <1>3, <1>4, <1>5 DEF Coming, f, k

(* An answer comes in, or is dropped.                                      *)
LEMMA ComingLeaves ==
    ASSUME StatsTypeOK, StatsTypeOK', NEW c \in Counters,
           NEW g \in UnderWay,
           UnderWay' = UnderWay \ {g}, \A h \in UnderWay' : result'[h] = result[h]
    PROVE  Coming(c) = result[g][c] + Coming(c)' /\ Coming(c)' \in Nat
<1> DEFINE f == [h \in Goroutines |-> result[h][c]]
           k == [h \in Goroutines |-> result'[h][c]]
<1>1. \A h \in UnderWay' : f[h] = k[h]
  BY DEF UnderWay
<1>2. /\ IsFiniteSet(UnderWay) /\ IsFiniteSet(UnderWay')
      /\ \A h \in UnderWay : f[h] \in Nat /\ k[h] \in Nat
      /\ f[g] = result[g][c]
  <2>1. UnderWay \subseteq Goroutines
    BY DEF UnderWay
  <2>2. \A h \in Goroutines : f[h] \in Nat /\ k[h] \in Nat
    BY DEF StatsTypeOK, Bytes
  <2>3. IsFiniteSet(UnderWay) /\ IsFiniteSet(UnderWay \ {g})
    BY SumsAreNat, FS_RemoveElement
  <2> QED
    BY <2>1, <2>2, <2>3
<1> HIDE DEF f, k
<1>3. SumOver(f, UnderWay) = f[g] + SumOver(f, UnderWay \ {g})
  BY <1>2, SumTaking
<1>4. SumOver(f, UnderWay') = SumOver(k, UnderWay') /\ SumOver(k, UnderWay') \in Nat
  BY <1>1, <1>2, SumSame, SumIsNat
<1> QED
  BY <1>2, <1>3, <1>4 DEF Coming, f, k

LEMMA BilledKeeps ==
    ASSUME StatsTypeOK, NEW c \in Counters, \A p \in Resetting : total'[p] = total[p]
    PROVE  Billed(c)' = Billed(c)
<1> DEFINE f == [p \in Pollers |-> total[p][c]]
           k == [p \in Pollers |-> total'[p][c]]
<1>1. \A p \in Resetting : k[p] = f[p]
  BY StatsAssumption
<1> HIDE DEF f, k
<1>2. SumOver(k, Resetting) = SumOver(f, Resetting)
  BY <1>1, SumsAreNat, SumSame
<1> QED
  BY <1>2 DEF Billed, f, k

(* A caller that resets adds up what it was told.                          *)
LEMMA BilledGrows ==
    ASSUME StatsTypeOK, StatsTypeOK', NEW c \in Counters,
           NEW p \in Resetting, NEW x \in Bytes, total' = [total EXCEPT ![p] = Plus(total[p], x)]
    PROVE  Billed(c)' = x[c] + Billed(c)
<1> DEFINE f == [q \in Pollers |-> total[q][c]]
           k == [q \in Pollers |-> total'[q][c]]
           rest == Resetting \ {p}
<1>1. /\ \A q \in rest : k[q] = f[q]
      /\ k[p] = f[p] + x[c] /\ f[p] \in Nat /\ x[c] \in Nat
  <2>1. p \in Pollers /\ total[p] \in Bytes
    BY StatsAssumption DEF StatsTypeOK
  <2>2. Plus(total[p], x)[c] = total[p][c] + x[c] /\ total[p][c] \in Nat /\ x[c] \in Nat
    BY <2>1, PlusFacts
  <2>3. \A q \in rest : q \in Pollers /\ total'[q] = total[q]
    BY StatsAssumption DEF StatsTypeOK
  <2> QED
    BY <2>1, <2>2, <2>3 DEF StatsTypeOK
<1>2. /\ IsFiniteSet(Resetting) /\ IsFiniteSet(rest)
      /\ \A q \in Resetting : f[q] \in Nat /\ k[q] \in Nat
  <2>1. \A q \in Pollers : f[q] \in Nat /\ k[q] \in Nat
    BY DEF StatsTypeOK, Bytes
  <2> QED
    BY <2>1, SumsAreNat, FS_RemoveElement, StatsAssumption
<1> HIDE DEF f, k
<1>3. SumOver(f, Resetting) = f[p] + SumOver(f, rest)
  BY <1>2, SumTaking
<1>4. SumOver(k, Resetting) = k[p] + SumOver(k, rest)
  BY <1>2, SumTaking
<1>5. SumOver(k, rest) = SumOver(f, rest) /\ SumOver(f, rest) \in Nat
  BY <1>1, <1>2, SumSame, SumIsNat
<1> QED
  BY <1>1, <1>3, <1>4, <1>5 DEF Billed, f, k

LEMMA OnceInit == Init => EveryByteOnce
<1> SUFFICES ASSUME Init, NEW c \in Counters
             PROVE  traffic[c] = counter[c] + lost[c] + Coming(c) + Billed(c)
  BY DEF EveryByteOnce, Coming, Billed
<1>1. traffic[c] = 0 /\ counter[c] = 0 /\ lost[c] = 0
  BY ZeroFacts DEF Init
<1>2. Coming(c) = 0
  <2>1. UnderWay = {}
    BY DEF Init, UnderWay
  <2> QED
    BY <2>1, SumOfNone DEF Coming
<1>3. Billed(c) = 0
  <2> DEFINE f == [p \in Pollers |-> total[p][c]]
  <2>1. IsFiniteSet(Resetting) /\ \A p \in Resetting : f[p] = 0
    BY ZeroFacts, StatsAssumption, FS_Subset DEF Init
  <2> HIDE DEF f
  <2>2. SumOver(f, Resetting) = 0
    BY <2>1, SumOfZeros
  <2> QED
    BY <2>2 DEF Billed, f
<1> QED
  BY <1>1, <1>2, <1>3

LEMMA OnceStep ==
    StatsTypeOK /\ StatsTypeOK' /\ OneCallEach /\ EveryByteOnce /\ [Next]_vars => EveryByteOnce'
<1> SUFFICES ASSUME StatsTypeOK, StatsTypeOK', OneCallEach, EveryByteOnce, [Next]_vars,
                    NEW c \in Counters
             PROVE  traffic'[c] = counter'[c] + lost'[c] + Coming(c)' + Billed(c)'
  BY DEF EveryByteOnce, Coming, Billed
<1>0. /\ traffic[c] = counter[c] + lost[c] + Coming(c) + Billed(c)
      /\ traffic[c] \in Nat /\ counter[c] \in Nat /\ lost[c] \in Nat
      /\ Coming(c) \in Nat /\ Billed(c) \in Nat
      /\ Zero[c] = 0 /\ Plus(lost, counter)[c] = lost[c] + counter[c]
      /\ \A g \in Goroutines : /\ result[g][c] \in Nat
                               /\ Plus(lost, result[g])[c] = lost[c] + result[g][c]
  <2>1. lost \in Bytes /\ counter \in Bytes /\ \A g \in Goroutines : result[g] \in Bytes
    BY DEF StatsTypeOK
  <2>2. traffic[c] = counter[c] + lost[c] + Coming(c) + Billed(c)
    BY DEF EveryByteOnce, Coming, Billed
  <2>3. /\ \A g \in Goroutines : /\ result[g][c] \in Nat
                                 /\ Plus(lost, result[g])[c] = lost[c] + result[g][c]
        /\ Plus(lost, counter)[c] = lost[c] + counter[c]
    BY <2>1, PlusFacts
  <2> QED
    BY <2>1, <2>2, <2>3, SumsAreNat, ZeroFacts DEF StatsTypeOK, Bytes
<1>1. CASE Flow
  <2>1. Coming(c)' = Coming(c) /\ Billed(c)' = Billed(c)
    BY <1>1, ComingKeeps, BilledKeeps DEF Flow, UnderWay
  <2>2. \/ counter'[c] = counter[c] /\ traffic'[c] = traffic[c]
        \/ counter'[c] = counter[c] + 1 /\ traffic'[c] = traffic[c] + 1
    BY <1>1 DEF Flow, StatsTypeOK, Bytes
  <2> QED
    BY <1>0, <1>1, <2>1, <2>2 DEF Flow
<1>2. CASE XrayRestarts
  <2>1. Coming(c)' = Coming(c) /\ Billed(c)' = Billed(c)
    BY <1>2, ComingKeeps, BilledKeeps DEF XrayRestarts, UnderWay
  <2> QED
    BY <1>0, <1>2, <2>1 DEF XrayRestarts
<1>3. ASSUME NEW g \in Goroutines, NEW p \in Pollers, Ask(g, p)
      PROVE  traffic'[c] = counter'[c] + lost'[c] + Coming(c)' + Billed(c)'
  <2>1. UnderWay' = UnderWay
    BY <1>3 DEF Ask, UnderWay, StatsTypeOK
  <2>2. Coming(c)' = Coming(c) /\ Billed(c)' = Billed(c)
    BY <1>3, <2>1, ComingKeeps, BilledKeeps DEF Ask
  <2> QED
    BY <1>0, <1>3, <2>2 DEF Ask
<1>4. ASSUME NEW g \in Goroutines, Query(g)
      PROVE  traffic'[c] = counter'[c] + lost'[c] + Coming(c)' + Billed(c)'
  <2>1. /\ result' = [result EXCEPT ![g] = counter]
        /\ g \notin UnderWay
        /\ UnderWay' = IF Reset(g) THEN UnderWay \cup {g} ELSE UnderWay
        /\ \A h \in UnderWay : result'[h] = result[h]
    BY <1>4, ParsedIsCounted DEF Query, Reset, UnderWay, StatsTypeOK
  <2>2. Billed(c)' = Billed(c)
    BY <1>4, BilledKeeps DEF Query
  <2>3. CASE Reset(g)
    <3>1. Coming(c)' = counter[c] + Coming(c)
      BY <2>1, <2>3, ComingJoins DEF StatsTypeOK
    <3> QED
      BY <1>0, <1>4, <2>2, <2>3, <3>1 DEF Query
  <2>4. CASE ~Reset(g)
    <3>1. Coming(c)' = Coming(c)
      BY <2>1, <2>4, ComingKeeps
    <3> QED
      BY <1>0, <1>4, <2>2, <2>4, <3>1 DEF Query
  <2> QED
    BY <2>3, <2>4
<1>5. ASSUME NEW g \in Goroutines, QueryFails(g)
      PROVE  traffic'[c] = counter'[c] + lost'[c] + Coming(c)' + Billed(c)'
  <2>1. UnderWay' = UnderWay /\ \A h \in UnderWay : result'[h] = result[h]
    BY <1>5 DEF QueryFails, Answered, UnderWay, StatsTypeOK
  <2>2. Coming(c)' = Coming(c) /\ Billed(c)' = Billed(c)
    BY <1>5, <2>1, ComingKeeps, BilledKeeps DEF QueryFails
  <2> QED
    BY <1>0, <1>5, <2>2 DEF QueryFails
<1>6. ASSUME NEW g \in Goroutines, Deliver(g)
      PROVE  traffic'[c] = counter'[c] + lost'[c] + Coming(c)' + Billed(c)'
  <2>1. /\ caller[g] \in Pollers /\ result[g] \in Bytes
        /\ UnderWay' = UnderWay \ {g}
        /\ \A h \in UnderWay' : result'[h] = result[h]
        /\ g \in UnderWay <=> caller[g] \in Resetting
    BY <1>6, StatsAssumption DEF Deliver, Answered, OneCallEach, UnderWay, StatsTypeOK
  <2>2. CASE caller[g] \in Resetting
    <3>1. Coming(c) = result[g][c] + Coming(c)' /\ Coming(c)' \in Nat
      BY <2>1, <2>2, ComingLeaves
    <3>2. Billed(c)' = result[g][c] + Billed(c)
      BY <1>6, <2>1, <2>2, BilledGrows DEF Deliver
    <3> QED
      BY <1>0, <1>6, <3>1, <3>2 DEF Deliver
  <2>3. CASE caller[g] \notin Resetting
    <3>1. UnderWay' = UnderWay
      BY <2>1, <2>3
    <3>2. Coming(c)' = Coming(c)
      BY <2>1, <3>1, ComingKeeps
    <3>3. \A p \in Resetting : total'[p] = total[p]
      BY <1>6, <2>3, StatsAssumption DEF Deliver, StatsTypeOK
    <3> QED
      BY <1>0, <1>6, <3>2, <3>3, BilledKeeps DEF Deliver
  <2> QED
    BY <2>2, <2>3
<1>7. ASSUME NEW g \in Goroutines, Drop(g)
      PROVE  traffic'[c] = counter'[c] + lost'[c] + Coming(c)' + Billed(c)'
  <2>1. /\ UnderWay' = UnderWay \ {g}
        /\ \A h \in UnderWay' : result'[h] = result[h]
        /\ g \in UnderWay <=> caller[g] \in Resetting
    BY <1>7, StatsAssumption DEF Drop, Answered, OneCallEach, UnderWay, StatsTypeOK
  <2>2. Billed(c)' = Billed(c)
    BY <1>7, BilledKeeps DEF Drop
  <2>3. CASE caller[g] \in Resetting
    <3>1. Coming(c) = result[g][c] + Coming(c)' /\ Coming(c)' \in Nat
      BY <2>1, <2>3, ComingLeaves
    <3> QED
      BY <1>0, <1>7, <2>2, <2>3, <3>1 DEF Drop
  <2>4. CASE caller[g] \notin Resetting
    <3>1. Coming(c)' = Coming(c)
      BY <2>1, <2>4, ComingKeeps
    <3> QED
      BY <1>0, <1>7, <2>2, <2>4, <3>1 DEF Drop
  <2> QED
    BY <2>3, <2>4
<1>8. ASSUME NEW g \in Goroutines, GiveUp(g)
      PROVE  traffic'[c] = counter'[c] + lost'[c] + Coming(c)' + Billed(c)'
  <2>1. Coming(c)' = Coming(c) /\ Billed(c)' = Billed(c)
    BY <1>8, ComingKeeps, BilledKeeps DEF GiveUp, UnderWay
  <2> QED
    BY <1>0, <1>8, <2>1 DEF GiveUp
<1>9. CASE UNCHANGED vars
  <2>1. Coming(c)' = Coming(c) /\ Billed(c)' = Billed(c)
    BY <1>9, ComingKeeps, BilledKeeps DEF vars, UnderWay
  <2> QED
    BY <1>0, <1>9, <2>1 DEF vars
<1> QED
  BY <1>1, <1>2, <1>3, <1>4, <1>5, <1>6, <1>7, <1>8, <1>9 DEF Next

-----------------------------------------------------------------------------
(* Every caller has one call at a time, and its sum, with the answer that  *)
(* may still come, is covered by the bytes there were (StatsInv;           *)
(* UserTraffic, stats).                                                    *)
THEOREM StatsInvariance == Spec => []StatsInv
<1>1. StatsInv /\ [Next]_vars => StatsInv'
  BY StatsTyped, OneCallEachStep, CreditStep DEF StatsInv
<1> QED
  BY StatsInit, <1>1, PTL DEF Spec

(* No caller of /api/stats counts a byte that was not there, over restarts *)
(* of Xray, resets by others and lost answers, for any number of users and *)
(* callers (NeverOvercounts; stats).                                       *)
THEOREM NeverOvercountsAlways == Spec => []NeverOvercounts
<1>1. StatsInv => NeverOvercounts
  <2> SUFFICES ASSUME StatsInv, NEW p \in Pollers
               PROVE  AtMost(total[p], traffic)
    BY DEF NeverOvercounts
  <2>1. /\ total[p] \in Bytes /\ traffic \in Bytes
        /\ Since(last[p], counter) \in Bytes
    BY SinceFacts DEF StatsInv, StatsTypeOK
  <2>2. AtMost(Plus(total[p], Since(last[p], counter)), traffic)
    BY DEF StatsInv, Credit
  <2> QED
    BY <2>1, <2>2, AtMostLess
<1> QED
  BY <1>1, StatsInvariance, PTL

(* Every byte is in Xray, on its way to one caller, added up by one of     *)
(* them, or lost, however many callers reset (EveryByteOnce; UserTraffic). *)
THEOREM EveryByteOnceAlways == Spec => []EveryByteOnce
<1>1. StatsInv /\ EveryByteOnce /\ [Next]_vars => (StatsInv /\ EveryByteOnce)'
  BY StatsTyped, OneCallEachStep, CreditStep, OnceStep DEF StatsInv
<1>2. Init => StatsInv /\ EveryByteOnce
  BY StatsInit, OnceInit
<1> QED
  BY <1>1, <1>2, PTL DEF Spec

(* No byte is counted by two callers that reset.                           *)
NoByteTwice ==
    \A p, q \in Resetting : p # q => AtMost(Plus(total[p], total[q]), traffic)

(* NoByteTwice in every state, however many callers reset (UserTraffic).   *)
THEOREM NoByteCountedTwice == Spec => []NoByteTwice
<1>1. StatsInv /\ EveryByteOnce => NoByteTwice
  <2> SUFFICES ASSUME StatsInv, EveryByteOnce, NEW p \in Resetting, NEW q \in Resetting, p # q,
                      NEW c \in Counters
               PROVE  Plus(total[p], total[q])[c] <= traffic[c]
    BY DEF NoByteTwice, AtMost
  <2> DEFINE f == [r \in Pollers |-> total[r][c]]
             others == (Resetting \ {p}) \ {q}
  <2>1. /\ traffic[c] = counter[c] + lost[c] + Coming(c) + Billed(c)
        /\ counter[c] \in Nat /\ lost[c] \in Nat /\ Coming(c) \in Nat
    BY SumsAreNat DEF EveryByteOnce, Coming, Billed, StatsInv, StatsTypeOK, Bytes
  <2>2. /\ Plus(total[p], total[q])[c] = f[p] + f[q]
        /\ \A r \in Resetting : f[r] \in Nat
    <3>1. \A r \in Resetting : r \in Pollers /\ total[r] \in Bytes
      BY StatsAssumption DEF StatsInv, StatsTypeOK
    <3> QED
      BY <3>1, PlusFacts
  <2>3. IsFiniteSet(Resetting) /\ IsFiniteSet(Resetting \ {p}) /\ IsFiniteSet(others)
    BY StatsAssumption, FS_Subset
  <2> HIDE DEF f
  <2>4. SumOver(f, Resetting) = f[p] + SumOver(f, Resetting \ {p})
    BY <2>2, <2>3, SumTaking
  <2>5. SumOver(f, Resetting \ {p}) = f[q] + SumOver(f, others)
    BY <2>2, <2>3, SumTaking
  <2>6. SumOver(f, others) \in Nat
    BY <2>2, <2>3, SumIsNat
  <2>7. Billed(c) = f[p] + f[q] + SumOver(f, others)
    BY <2>2, <2>4, <2>5, <2>6 DEF Billed, f
  <2> QED
    BY <2>1, <2>2, <2>6, <2>7
<1> QED
  BY <1>1, StatsInvariance, EveryByteOnceAlways, PTL
=============================================================================
