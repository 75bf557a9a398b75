-------------------------- MODULE ClientListsProofs --------------------------
EXTENDS ClientLists, SequenceTheorems, FiniteSetTheorems, WellFoundedInduction, TLAPS

-----------------------------------------------------------------------------
(* Induction without an operator: a set of numbers has a least one, and a  *)
(* set of lists one that is empty or goes beyond one that is not in it.    *)

LEMMA LeastNumber ==
    ASSUME NEW T, T \subseteq Nat, T # {}
    PROVE  \E n \in T : \A m \in T : n <= m
<1>1. PICK n \in T : \A m \in T : <<m, n>> \notin OpToRel(<, Nat)
  BY NatLessThanWellFounded, WFMin, Zenon
<1>2. \A m \in T : ~(m < n)
  BY <1>1 DEF OpToRel
<1> QED
  BY <1>2

LEMMA FrontAndLast ==
    ASSUME NEW X, NEW s \in Seq(X), s # <<>>
    PROVE  \E t \in Seq(X), x \in X : s = Append(t, x) /\ Len(s) = Len(t) + 1
<1> DEFINE n == Len(s)
           t == [i \in 1..(n - 1) |-> s[i]]
<1>1. n \in Nat /\ n > 0 /\ \A i \in 1..n : s[i] \in X
  BY EmptySeq, LenProperties, ElementOfSeq
<1>2. t \in Seq(X) /\ Len(t) = n - 1 /\ s[n] \in X
  BY <1>1
<1>3. Append(t, s[n]) \in Seq(X) /\ Len(Append(t, s[n])) = n
  BY <1>1, <1>2, AppendProperties
<1>4. \A i \in 1..n : Append(t, s[n])[i] = s[i]
  BY <1>1, <1>2, AppendProperties
<1> HIDE DEF t
<1>5. Append(t, s[n]) = s
  BY <1>1, <1>3, <1>4, SeqEqual
<1> QED
  BY <1>1, <1>2, <1>5

LEMMA LeastList ==
    ASSUME NEW X, NEW T, T \subseteq Seq(X), T # {}
    PROVE  \/ <<>> \in T
           \/ \E t \in Seq(X), x \in X : Append(t, x) \in T /\ t \notin T
<1> DEFINE lengths == {Len(s) : s \in T}
<1>1. lengths \subseteq Nat /\ lengths # {}
  BY LenProperties
<1> HIDE DEF lengths
<1>2. PICK n \in lengths : \A m \in lengths : n <= m
  BY <1>1, LeastNumber
<1> USE DEF lengths
<1>3. PICK s \in T : Len(s) = n
  OBVIOUS
<1>4. CASE s = <<>>
  BY <1>4
<1>5. CASE s # <<>>
  <2>1. PICK t \in Seq(X), x \in X : s = Append(t, x) /\ Len(s) = Len(t) + 1
    BY <1>5, FrontAndLast
  <2>2. t \notin T
    BY <1>2, <1>3, <2>1, LenProperties
  <2> QED
    BY <2>1, <2>2
<1> QED
  BY <1>4, <1>5

-----------------------------------------------------------------------------
(* Keep, by the end of its list.                                           *)

Kept(list, S, n, kept) ==
    kept = [i \in 0..n |-> IF i = 0 THEN <<>>
                           ELSE IF list[i] \in S THEN Append(kept[i - 1], list[i])
                           ELSE kept[i - 1]]

LEMMA KeptZero ==
    ASSUME NEW list, NEW S, NEW n \in Nat, NEW k, Kept(list, S, n, k)
    PROVE  k[0] = <<>>
BY DEF Kept

LEMMA KeptNext ==
    ASSUME NEW list, NEW S, NEW n \in Nat, NEW k, Kept(list, S, n, k), NEW i \in 1..n
    PROVE  k[i] = IF list[i] \in S THEN Append(k[i - 1], list[i]) ELSE k[i - 1]
<1> DEFINE f(h) == IF h = 0 THEN <<>>
                   ELSE IF list[h] \in S THEN Append(k[h - 1], list[h])
                   ELSE k[h - 1]
<1>1. k = [h \in 0..n |-> f(h)]
  BY DEF Kept
<1>2. f(i) = IF list[i] \in S THEN Append(k[i - 1], list[i]) ELSE k[i - 1]
  OBVIOUS
<1> HIDE DEF f
<1>3. k[i] = f(i)
  BY <1>1
<1> QED
  BY <1>2, <1>3

LEMMA KeptExists ==
    ASSUME NEW list, NEW S, NEW n \in Nat
    PROVE  \E k : Kept(list, S, n, k)
<1> DEFINE T == {m \in Nat : ~\E k : Kept(list, S, m, k)}
<1> SUFFICES ASSUME T # {}
             PROVE  FALSE
  OBVIOUS
<1>1. T \subseteq Nat /\ T # {}
  OBVIOUS
<1> HIDE DEF T
<1>2. PICK m \in T : \A j \in T : m <= j
  BY <1>1, LeastNumber
<1> USE DEF T
<1>3. CASE m = 0
  <2> DEFINE k == [i \in 0..0 |-> <<>>]
  <2>1. k = [i \in 0..0 |-> IF i = 0 THEN <<>>
                            ELSE IF list[i] \in S THEN Append(k[i - 1], list[i])
                            ELSE k[i - 1]]
    OBVIOUS
  <2>2. Kept(list, S, 0, k)
    BY <2>1 DEF Kept
  <2> QED
    BY <1>3, <2>2
<1>4. CASE m # 0
  <2>1. m - 1 \in Nat /\ m - 1 \notin T
    BY <1>2, <1>4
  <2>2. PICK j : Kept(list, S, m - 1, j)
    BY <2>1
  <2> DEFINE next(i) == IF list[i] \in S THEN Append(j[i - 1], list[i]) ELSE j[i - 1]
             k == [i \in 0..m |-> IF i = 0 THEN <<>> ELSE next(i)]
  <2>3. ASSUME NEW i \in 0..(m - 1)
        PROVE  k[i] = j[i]
    <3> HIDE DEF T
    <3>1. i \in 0..m
      BY <1>1
    <3>2. CASE i = 0
      BY <2>1, <2>2, <3>1, <3>2, KeptZero
    <3>3. CASE i # 0
      <4>1. j[i] = next(i)
        BY <2>1, <2>2, <3>3, KeptNext
      <4> QED
        BY <3>1, <3>3, <4>1
    <3> QED
      BY <3>2, <3>3
  <2>4. ASSUME NEW i \in 0..m, i # 0
        PROVE  next(i) = IF list[i] \in S THEN Append(k[i - 1], list[i]) ELSE k[i - 1]
    <3>1. i - 1 \in 0..(m - 1)
      BY <2>1, <2>4
    <3> QED
      BY <2>3, <3>1
  <2> HIDE DEF next
  <2>5. k = [i \in 0..m |-> IF i = 0 THEN <<>>
                            ELSE IF list[i] \in S THEN Append(k[i - 1], list[i])
                            ELSE k[i - 1]]
    BY <2>4
  <2>6. Kept(list, S, m, k)
    BY <2>5 DEF Kept
  <2> QED
    BY <2>6
<1> QED
  BY <1>3, <1>4

LEMMA KeptAgree ==
    ASSUME NEW list, NEW other, NEW S, NEW n \in Nat, NEW m \in Nat, n <= m, NEW k, NEW j,
           Kept(list, S, n, k), Kept(other, S, m, j),
           \A i \in 1..n : list[i] = other[i] \/ (list[i] \notin S /\ other[i] \notin S)
    PROVE  k[n] = j[n]
<1> DEFINE T == {i \in 0..n : k[i] # j[i]}
<1> SUFFICES ASSUME T # {}
             PROVE  FALSE
  OBVIOUS
<1>1. T \subseteq Nat /\ T # {}
  OBVIOUS
<1> HIDE DEF T
<1>2. PICK i \in T : \A h \in T : i <= h
  BY <1>1, LeastNumber
<1>3. i \in 0..n /\ i \in 0..m /\ k[i] # j[i]
  BY DEF T
<1>4. i # 0
  <2>1. k[0] = <<>> /\ j[0] = <<>>
    BY KeptZero, Zenon
  <2> QED
    BY <1>3, <2>1
<1>5. k[i - 1] = j[i - 1]
  BY <1>2, <1>3, <1>4 DEF T
<1>6. k[i] = IF list[i] \in S THEN Append(k[i - 1], list[i]) ELSE k[i - 1]
  BY <1>3, <1>4, KeptNext
<1>7. j[i] = IF other[i] \in S THEN Append(j[i - 1], other[i]) ELSE j[i - 1]
  BY <1>3, <1>4, KeptNext
<1>8. list[i] = other[i] \/ (list[i] \notin S /\ other[i] \notin S)
  BY <1>3, <1>4
<1> QED
  BY <1>3, <1>5, <1>6, <1>7, <1>8

LEMMA KeepIsKept ==
    ASSUME NEW list, NEW S, Len(list) \in Nat
    PROVE  \E k : Kept(list, S, Len(list), k) /\ Keep(list, S) = k[Len(list)]
<1> DEFINE k == CHOOSE j : Kept(list, S, Len(list), j)
<1>1. Kept(list, S, Len(list), k)
  BY KeptExists
<1>2. Keep(list, S) = k[Len(list)]
  BY Zenon DEF Keep, Kept
<1> QED
  BY <1>1, <1>2

LEMMA KeepNone == ASSUME NEW S PROVE Keep(<<>>, S) = <<>>
<1>1. Len(<<>>) = 0
  OBVIOUS
<1>2. PICK k : Kept(<<>>, S, 0, k) /\ Keep(<<>>, S) = k[0]
  BY <1>1, KeepIsKept
<1>3. 0 \in Nat
  OBVIOUS
<1>4. k[0] = <<>>
  BY <1>2, <1>3, KeptZero, Zenon
<1> QED
  BY <1>2, <1>4

LEMMA KeepAppend ==
    ASSUME NEW X, NEW s \in Seq(X), NEW x \in X, NEW S
    PROVE  Keep(Append(s, x), S) = IF x \in S THEN Append(Keep(s, S), x) ELSE Keep(s, S)
<1> DEFINE n == Len(s)
           t == Append(s, x)
<1>1. /\ n \in Nat /\ Len(t) = n + 1 /\ n + 1 \in Nat
      /\ \A i \in 1..n : s[i] = t[i]
      /\ t[n + 1] = x
  BY LenProperties, AppendProperties
<1> HIDE DEF n, t
<1>2. PICK k : Kept(s, S, n, k) /\ Keep(s, S) = k[n]
  BY <1>1, KeepIsKept DEF n
<1>3. PICK j : Kept(t, S, n + 1, j) /\ Keep(t, S) = j[n + 1]
  BY <1>1, KeepIsKept
<1>4. k[n] = j[n]
  BY <1>1, <1>2, <1>3, KeptAgree
<1>5. n + 1 \in 1..(n + 1) /\ (n + 1) - 1 = n
  BY <1>1
<1>6. j[n + 1] = IF t[n + 1] \in S THEN Append(j[(n + 1) - 1], t[n + 1]) ELSE j[(n + 1) - 1]
  BY <1>1, <1>3, <1>5, KeptNext
<1> QED
  BY <1>1, <1>2, <1>3, <1>4, <1>5, <1>6 DEF t

-----------------------------------------------------------------------------
(* What a list holds, and what is held once.                               *)

LEMMA Elements ==
    ASSUME NEW X, NEW s \in Seq(X)
    PROVE  /\ ToSet(s) = {s[i] : i \in 1..Len(s)}
           /\ ToSet(s) \subseteq X
           /\ \A i \in 1..Len(s) : s[i] \in ToSet(s)
           /\ Len(s) \in Nat
           /\ DOMAIN s = 1..Len(s)
BY LenProperties, ElementOfSeq DEF ToSet

LEMMA ElementsOfNone == ToSet(<<>>) = {}
BY DEF ToSet

LEMMA ElementsOfAppend ==
    ASSUME NEW X, NEW s \in Seq(X), NEW x \in X
    PROVE  ToSet(Append(s, x)) = ToSet(s) \cup {x}
<1> DEFINE t == Append(s, x)
<1>1. /\ t \in Seq(X)
      /\ Len(t) = Len(s) + 1
      /\ \A i \in 1..Len(s) : t[i] = s[i]
      /\ t[Len(s) + 1] = x
  BY AppendProperties
<1> HIDE DEF t
<1>2. ToSet(t) = {t[i] : i \in 1..Len(t)} /\ ToSet(s) = {s[i] : i \in 1..Len(s)}
  BY <1>1, Elements
<1>3. Len(s) \in Nat
  BY Elements
<1>4. ASSUME NEW y PROVE y \in ToSet(t) <=> y \in ToSet(s) \cup {x}
  <2>1. CASE y \in ToSet(t)
    <3>1. PICK i \in 1..Len(t) : y = t[i]
      BY <1>2, <2>1
    <3>2. CASE i = Len(s) + 1
      BY <1>1, <3>1, <3>2, <2>1
    <3>3. CASE i # Len(s) + 1
      <4>1. i \in 1..Len(s)
        BY <1>1, <1>3, <3>3
      <4> QED
        BY <1>1, <1>2, <3>1, <4>1, <2>1
    <3> QED
      BY <3>2, <3>3
  <2>2. CASE y \in ToSet(s)
    <3>1. PICK i \in 1..Len(s) : y = s[i]
      BY <1>2, <2>2
    <3>2. i \in 1..Len(t) /\ y = t[i]
      BY <1>1, <1>3, <3>1
    <3> QED
      BY <1>2, <3>2, <2>2
  <2>3. CASE y = x
    <3>1. Len(t) \in 1..Len(t)
      BY <1>1, <1>3
    <3>2. t[Len(t)] \in ToSet(t)
      BY <1>2, <3>1
    <3> QED
      BY <1>1, <2>3, <3>2
  <2> QED
    BY <2>1, <2>2, <2>3
<1> QED
  BY <1>4 DEF t

LEMMA KeepElements ==
    ASSUME NEW X, NEW s \in Seq(X), NEW S
    PROVE  /\ Keep(s, S) \in Seq(X)
           /\ ToSet(Keep(s, S)) = ToSet(s) \cap S
<1> DEFINE T == {t \in Seq(X) : ~(Keep(t, S) \in Seq(X) /\ ToSet(Keep(t, S)) = ToSet(t) \cap S)}
<1> SUFFICES ASSUME T # {}
             PROVE  FALSE
  OBVIOUS
<1>1. T \subseteq Seq(X) /\ T # {}
  OBVIOUS
<1> HIDE DEF T
<1>2. CASE <<>> \in T
  BY <1>2, KeepNone, ElementsOfNone, EmptySeq DEF T
<1>3. ASSUME NEW t \in Seq(X), NEW x \in X, Append(t, x) \in T, t \notin T
      PROVE  FALSE
  <2>1. Keep(t, S) \in Seq(X) /\ ToSet(Keep(t, S)) = ToSet(t) \cap S
    BY <1>3 DEF T
  <2>2. ToSet(Append(t, x)) = ToSet(t) \cup {x}
    BY ElementsOfAppend
  <2>3. CASE x \in S
    <3>1. Keep(Append(t, x), S) = Append(Keep(t, S), x)
      BY <2>3, KeepAppend
    <3>2. Append(Keep(t, S), x) \in Seq(X)
      BY <2>1, AppendProperties
    <3>3. ToSet(Append(Keep(t, S), x)) = ToSet(Keep(t, S)) \cup {x}
      BY <2>1, ElementsOfAppend
    <3>4. ToSet(Keep(Append(t, x), S)) = ToSet(Append(t, x)) \cap S
      BY <2>1, <2>2, <2>3, <3>1, <3>3
    <3> QED
      BY <1>3, <3>1, <3>2, <3>4 DEF T
  <2>4. CASE x \notin S
    <3>1. Keep(Append(t, x), S) = Keep(t, S)
      BY <2>4, KeepAppend
    <3>4. ToSet(Keep(Append(t, x), S)) = ToSet(Append(t, x)) \cap S
      BY <2>1, <2>2, <2>4, <3>1
    <3> QED
      BY <1>3, <2>1, <3>1, <3>4 DEF T
  <2> QED
    BY <2>3, <2>4
<1> QED
  BY <1>1, <1>2, <1>3, LeastList

(* A list whose elements are all kept is kept whole.                       *)
LEMMA KeepAll ==
    ASSUME NEW X, NEW s \in Seq(X), NEW S, ToSet(s) \subseteq S
    PROVE  Keep(s, S) = s
<1> DEFINE T == {t \in Seq(X) : ToSet(t) \subseteq S /\ Keep(t, S) # t}
<1> SUFFICES ASSUME T # {}
             PROVE  FALSE
  OBVIOUS
<1>1. T \subseteq Seq(X) /\ T # {}
  OBVIOUS
<1> HIDE DEF T
<1>2. CASE <<>> \in T
  BY <1>2, KeepNone DEF T
<1>3. ASSUME NEW t \in Seq(X), NEW x \in X, Append(t, x) \in T, t \notin T
      PROVE  FALSE
  <2>1. ToSet(Append(t, x)) = ToSet(t) \cup {x}
    BY ElementsOfAppend
  <2>2. ToSet(t) \subseteq S /\ x \in S /\ Keep(Append(t, x), S) # Append(t, x)
    BY <1>3, <2>1 DEF T
  <2>3. Keep(t, S) = t
    BY <1>3, <2>2 DEF T
  <2>4. Keep(Append(t, x), S) = Append(t, x)
    BY <2>2, <2>3, KeepAppend
  <2> QED
    BY <2>2, <2>4
<1> QED
  BY <1>1, <1>2, <1>3, LeastList

LEMMA KeepNothing ==
    ASSUME NEW X, NEW s \in Seq(X), NEW S, ToSet(s) \cap S = {}
    PROVE  Keep(s, S) = <<>>
<1>1. Keep(s, S) \in Seq(X) /\ ToSet(Keep(s, S)) = {}
  BY KeepElements
<1>2. Len(Keep(s, S)) \in Nat /\ 1 \notin 1..Len(Keep(s, S))
  <2>1. Len(Keep(s, S)) \in Nat /\ \A i \in 1..Len(Keep(s, S)) : Keep(s, S)[i] \in {}
    BY <1>1, Elements
  <2> QED
    BY <2>1
<1>3. Len(Keep(s, S)) = 0
  BY <1>2
<1> QED
  BY <1>1, <1>3, EmptySeq

LEMMA AppendToConcat ==
    ASSUME NEW X, NEW s \in Seq(X), NEW t \in Seq(X), NEW x \in X
    PROVE  /\ s \o t \in Seq(X)
           /\ Append(t, x) \in Seq(X)
           /\ s \o Append(t, x) = Append(s \o t, x)
<1>1. s \o t \in Seq(X) /\ Append(t, x) \in Seq(X) /\ <<x>> \in Seq(X)
  BY ConcatProperties, AppendProperties
<1>2. Append(t, x) = t \o <<x>> /\ Append(s \o t, x) = (s \o t) \o <<x>>
  BY <1>1, AppendIsConcat
<1> QED
  BY <1>1, <1>2, ConcatAssociative

LEMMA KeepConcat ==
    ASSUME NEW X, NEW s \in Seq(X), NEW t \in Seq(X), NEW S
    PROVE  /\ Keep(s \o t, S) = Keep(s, S) \o Keep(t, S)
           /\ ToSet(s \o t) = ToSet(s) \cup ToSet(t)
<1> DEFINE T == {u \in Seq(X) : ~ /\ Keep(s \o u, S) = Keep(s, S) \o Keep(u, S)
                                  /\ ToSet(s \o u) = ToSet(s) \cup ToSet(u)}
<1> SUFFICES ASSUME T # {}
             PROVE  FALSE
  OBVIOUS
<1>1. T \subseteq Seq(X) /\ T # {}
  OBVIOUS
<1> HIDE DEF T
<1>2. CASE <<>> \in T
  <2>1. Keep(s, S) \in Seq(X)
    BY KeepElements
  <2>2. s \o <<>> = s /\ Keep(s, S) \o <<>> = Keep(s, S)
    BY <2>1, ConcatEmptySeq
  <2> QED
    BY <1>2, <2>2, KeepNone, ElementsOfNone DEF T
<1>3. ASSUME NEW u \in Seq(X), NEW x \in X, Append(u, x) \in T, u \notin T
      PROVE  FALSE
  <2>1. /\ Keep(s \o u, S) = Keep(s, S) \o Keep(u, S)
        /\ ToSet(s \o u) = ToSet(s) \cup ToSet(u)
    BY <1>3 DEF T
  <2>2. /\ s \o u \in Seq(X)
        /\ s \o Append(u, x) = Append(s \o u, x)
    BY AppendToConcat
  <2>3. ToSet(s \o Append(u, x)) = ToSet(s) \cup ToSet(Append(u, x))
    <3>1. ToSet(Append(u, x)) = ToSet(u) \cup {x} /\ ToSet(Append(s \o u, x)) = ToSet(s \o u) \cup {x}
      BY <2>2, ElementsOfAppend
    <3> QED
      BY <2>1, <2>2, <3>1
  <2>4. Keep(s, S) \in Seq(X) /\ Keep(u, S) \in Seq(X)
    BY KeepElements
  <2>5. Keep(s \o Append(u, x), S) = Keep(s, S) \o Keep(Append(u, x), S)
    <3>1. CASE x \in S
      <4>1. Keep(Append(u, x), S) = Append(Keep(u, S), x)
        BY <3>1, KeepAppend
      <4>2. Keep(Append(s \o u, x), S) = Append(Keep(s \o u, S), x)
        BY <2>2, <3>1, KeepAppend
      <4>3. Keep(s, S) \o Append(Keep(u, S), x) = Append(Keep(s, S) \o Keep(u, S), x)
        BY <2>4, AppendToConcat
      <4> QED
        BY <2>1, <2>2, <4>1, <4>2, <4>3
    <3>2. CASE x \notin S
      <4>1. Keep(Append(u, x), S) = Keep(u, S) /\ Keep(Append(s \o u, x), S) = Keep(s \o u, S)
        BY <2>2, <3>2, KeepAppend
      <4> QED
        BY <2>1, <2>2, <4>1
    <3> QED
      BY <3>1, <3>2
  <2> QED
    BY <1>3, <2>3, <2>5 DEF T
<1> QED
  BY <1>1, <1>2, <1>3, LeastList

LEMMA KeepTwice ==
    ASSUME NEW X, NEW s \in Seq(X), NEW S
    PROVE  Keep(Keep(s, S), S) = Keep(s, S)
<1>1. Keep(s, S) \in Seq(X) /\ ToSet(Keep(s, S)) \subseteq S
  BY KeepElements
<1> QED
  BY <1>1, KeepAll

(* What differs only where nothing is kept, keeps the same.                *)
LEMMA KeepAlike ==
    ASSUME NEW s, NEW t, NEW S, Len(s) \in Nat, Len(s) = Len(t),
           \A i \in 1..Len(s) : s[i] = t[i] \/ (s[i] \notin S /\ t[i] \notin S)
    PROVE  Keep(s, S) = Keep(t, S)
<1>1. PICK k : Kept(s, S, Len(s), k) /\ Keep(s, S) = k[Len(s)]
  BY KeepIsKept
<1>2. PICK j : Kept(t, S, Len(s), j) /\ Keep(t, S) = j[Len(s)]
  BY KeepIsKept
<1>3. Len(s) <= Len(s)
  OBVIOUS
<1>4. k[Len(s)] = j[Len(s)]
  BY <1>1, <1>2, <1>3, KeptAgree, SMTT(30)
<1> QED
  BY <1>1, <1>2, <1>4

(* An element that is in a list once is kept once.                         *)
LEMMA InjectiveAppend ==
    ASSUME NEW X, NEW s \in Seq(X), NEW x \in X
    PROVE  IsInjective(Append(s, x)) <=> IsInjective(s) /\ x \notin ToSet(s)
<1> DEFINE t == Append(s, x)
           n == Len(s)
<1>1. /\ n \in Nat
      /\ DOMAIN s = 1..n /\ DOMAIN t = 1..(n + 1)
      /\ \A i \in 1..n : t[i] = s[i]
      /\ t[n + 1] = x
      /\ ToSet(s) = {s[i] : i \in 1..n}
  BY AppendProperties, Elements
<1> HIDE DEF t, n
<1>2. ASSUME IsInjective(t)
      PROVE  IsInjective(s) /\ x \notin ToSet(s)
  BY <1>1, <1>2 DEF IsInjective
<1>3. ASSUME IsInjective(s), x \notin ToSet(s)
      PROVE  IsInjective(t)
  <2> SUFFICES ASSUME NEW a \in 1..(n + 1), NEW b \in 1..(n + 1), t[a] = t[b]
               PROVE  a = b
    BY <1>1 DEF IsInjective
  <2>1. CASE a \in 1..n /\ b \in 1..n
    BY <1>1, <1>3, <2>1 DEF IsInjective
  <2>2. CASE a \notin 1..n /\ b \notin 1..n
    BY <1>1, <2>2
  <2>3. CASE a \in 1..n /\ b \notin 1..n
    <3>1. b = n + 1
      BY <1>1, <2>3
    <3> QED
      BY <1>1, <1>3, <2>3, <3>1
  <2>4. CASE a \notin 1..n /\ b \in 1..n
    <3>1. a = n + 1
      BY <1>1, <2>4
    <3> QED
      BY <1>1, <1>3, <2>4, <3>1
  <2> QED
    BY <2>1, <2>2, <2>3, <2>4
<1> QED
  BY <1>2, <1>3 DEF t

LEMMA KeepInjective ==
    ASSUME NEW X, NEW s \in Seq(X), NEW S, IsInjective(s)
    PROVE  IsInjective(Keep(s, S))
<1> DEFINE T == {t \in Seq(X) : IsInjective(t) /\ ~IsInjective(Keep(t, S))}
<1> SUFFICES ASSUME T # {}
             PROVE  FALSE
  OBVIOUS
<1>1. T \subseteq Seq(X) /\ T # {}
  OBVIOUS
<1> HIDE DEF T
<1>2. CASE <<>> \in T
  BY <1>2, KeepNone DEF T
<1>3. ASSUME NEW t \in Seq(X), NEW x \in X, Append(t, x) \in T, t \notin T
      PROVE  FALSE
  <2>1. IsInjective(t) /\ x \notin ToSet(t) /\ ~IsInjective(Keep(Append(t, x), S))
    BY <1>3, InjectiveAppend DEF T
  <2>2. IsInjective(Keep(t, S))
    BY <1>3, <2>1 DEF T
  <2>3. Keep(t, S) \in Seq(X) /\ x \notin ToSet(Keep(t, S))
    BY <2>1, KeepElements
  <2>4. IsInjective(Append(Keep(t, S), x))
    BY <2>2, <2>3, InjectiveAppend
  <2> QED
    BY <2>1, <2>2, <2>4, KeepAppend
<1> QED
  BY <1>1, <1>2, <1>3, LeastList

-----------------------------------------------------------------------------
(* Lists of clients: their names, ids and flows, and decoding.             *)

LEMMA Objects ==
    ASSUME NEW x \in Entries
    PROVE  IsObject(x) <=> x \in Client
BY DocumentsAssumption DEF Entries, IsObject

LEMMA FieldsAre ==
    ASSUME NEW list \in Seq(Entries)
    PROVE  /\ Emails(list) = {x.email : x \in {y \in ToSet(list) : IsObject(y)}}
           /\ Ids(list) = {x.id : x \in {y \in ToSet(list) : IsObject(y)}}
           /\ FlowOf(list) = {x.flow : x \in {y \in ToSet(list) : IsObject(y)}}
           /\ Users(list) = {[name |-> x.email, uuid |-> x.id] : x \in {y \in ToSet(list) : IsObject(y)}}
<1>1. /\ ToSet(list) = {list[i] : i \in 1..Len(list)}
      /\ DOMAIN list = 1..Len(list)
  BY Elements
<1> QED
  BY <1>1 DEF Emails, Ids, FlowOf, Users

LEMMA FieldTypes ==
    ASSUME NEW list \in Seq(Entries)
    PROVE  /\ Emails(list) \subseteq Names \cup {Blank}
           /\ Ids(list) \subseteq UUIDs \cup {Blank}
<1>1. \A x \in ToSet(list) : IsObject(x) => x \in Client
  BY Elements, Objects
<1> QED
  BY <1>1, FieldsAre DEF Client

LEMMA FieldsOfAppend ==
    ASSUME NEW list \in Seq(Entries), NEW x \in Client
    PROVE  /\ Append(list, x) \in Seq(Entries)
           /\ Emails(Append(list, x)) = Emails(list) \cup {x.email}
           /\ Ids(Append(list, x)) = Ids(list) \cup {x.id}
           /\ FlowOf(Append(list, x)) = FlowOf(list) \cup {x.flow}
<1>1. x \in Entries /\ IsObject(x)
  BY DocumentsAssumption DEF Entries, IsObject
<1>2. Append(list, x) \in Seq(Entries) /\ ToSet(Append(list, x)) = ToSet(list) \cup {x}
  BY <1>1, AppendProperties, ElementsOfAppend
<1>3. {y \in ToSet(Append(list, x)) : IsObject(y)} = {y \in ToSet(list) : IsObject(y)} \cup {x}
  BY <1>1, <1>2
<1> QED
  BY <1>2, <1>3, FieldsAre

LEMMA FieldsOfConcat ==
    ASSUME NEW list \in Seq(Entries), NEW more \in Seq(Entries)
    PROVE  /\ list \o more \in Seq(Entries)
           /\ Emails(list \o more) = Emails(list) \cup Emails(more)
           /\ Ids(list \o more) = Ids(list) \cup Ids(more)
           /\ FlowOf(list \o more) = FlowOf(list) \cup FlowOf(more)
           /\ Users(list \o more) = Users(list) \cup Users(more)
<1>1. list \o more \in Seq(Entries) /\ ToSet(list \o more) = ToSet(list) \cup ToSet(more)
  <2>1. /\ Keep(list \o more, {}) = Keep(list, {}) \o Keep(more, {})
        /\ ToSet(list \o more) = ToSet(list) \cup ToSet(more)
    BY KeepConcat
  <2> QED
    BY <2>1, ConcatProperties
<1>2. {y \in ToSet(list \o more) : IsObject(y)}
        = {y \in ToSet(list) : IsObject(y)} \cup {y \in ToSet(more) : IsObject(y)}
  BY <1>1
<1> QED
  BY <1>1, <1>2, FieldsAre

LEMMA FieldsOfKeep ==
    ASSUME NEW list \in Seq(Entries), NEW S
    PROVE  /\ Keep(list, S) \in Seq(Entries)
           /\ Emails(Keep(list, S)) \subseteq Emails(list)
           /\ Ids(Keep(list, S)) \subseteq Ids(list)
           /\ FlowOf(Keep(list, S)) \subseteq FlowOf(list)
           /\ Users(Keep(list, S)) \subseteq Users(list)
<1>1. Keep(list, S) \in Seq(Entries) /\ ToSet(Keep(list, S)) \subseteq ToSet(list)
  BY KeepElements
<1>2. {y \in ToSet(Keep(list, S)) : IsObject(y)} \subseteq {y \in ToSet(list) : IsObject(y)}
  BY <1>1
<1> QED
  BY <1>1, <1>2, FieldsAre

(* A list is decodable as long as what is added to it is new.              *)
LEMMA DecodableAppend ==
    ASSUME NEW list \in Seq(Entries), NEW x \in Entries
    PROVE  Decodable(Append(list, x)) <=>
              /\ Decodable(list)
              /\ x # Junk /\ x.email # Blank /\ x.id # Blank
              /\ x.email \notin Emails(list) /\ x.id \notin Ids(list)
<1> DEFINE t == Append(list, x)
           n == Len(list)
<1>1. /\ n \in Nat /\ DOMAIN list = 1..n /\ DOMAIN t = 1..(n + 1)
      /\ \A i \in 1..n : t[i] = list[i]
      /\ t[n + 1] = x
  BY AppendProperties, Elements
<1>2. ToSet(t) = ToSet(list) \cup {x} /\ ToSet(list) = {list[i] : i \in 1..n}
  BY ElementsOfAppend, Elements
<1> SUFFICES ASSUME Junk \notin ToSet(list), x # Junk
             PROVE  Decodable(t) <=>
                      /\ Decodable(list)
                      /\ x.email # Blank /\ x.id # Blank
                      /\ x.email \notin Emails(list) /\ x.id \notin Ids(list)
  BY <1>2 DEF Decodable
<1>3. x \in Client
  BY Objects DEF IsObject
<1>4. /\ Emails(t) = Emails(list) \cup {x.email}
      /\ Ids(t) = Ids(list) \cup {x.id}
      /\ Junk \notin ToSet(t)
  BY <1>2, <1>3, FieldsOfAppend
<1>5. /\ Emails(list) = {list[i].email : i \in 1..n}
      /\ Ids(list) = {list[i].id : i \in 1..n}
  BY <1>1, <1>2 DEF Emails, Ids, IsObject
<1> HIDE DEF t, n
<1>6. ASSUME Decodable(t)
      PROVE  /\ Decodable(list)
             /\ x.email # Blank /\ x.id # Blank
             /\ x.email \notin Emails(list) /\ x.id \notin Ids(list)
  <2>1. \A i, j \in 1..(n + 1) : t[i].email = t[j].email \/ t[i].id = t[j].id => i = j
    BY <1>1, <1>6 DEF Decodable
  <2>2. \A i, j \in 1..n : list[i].email = list[j].email \/ list[i].id = list[j].id => i = j
    BY <1>1, <2>1
  <2>3. \A i \in 1..n : list[i].email # x.email /\ list[i].id # x.id
    BY <1>1, <2>1
  <2>4. Blank \notin Emails(t) \cup Ids(t)
    BY <1>6 DEF Decodable
  <2>5. Decodable(list)
    BY <1>1, <1>4, <2>2, <2>4 DEF Decodable
  <2> QED
    BY <1>4, <1>5, <2>3, <2>4, <2>5
<1>7. ASSUME Decodable(list), x.email # Blank, x.id # Blank,
             x.email \notin Emails(list), x.id \notin Ids(list)
      PROVE  Decodable(t)
  <2>1. \A i, j \in 1..n : list[i].email = list[j].email \/ list[i].id = list[j].id => i = j
    BY <1>1, <1>7 DEF Decodable
  <2>2. \A i \in 1..n : list[i].email # x.email /\ list[i].id # x.id
    BY <1>5, <1>7
  <2>3. ASSUME NEW i \in 1..(n + 1), NEW j \in 1..(n + 1),
               t[i].email = t[j].email \/ t[i].id = t[j].id
        PROVE  i = j
    <3>1. CASE i \in 1..n /\ j \in 1..n
      BY <1>1, <2>1, <2>3, <3>1
    <3>2. CASE i = n + 1 /\ j = n + 1
      BY <3>2
    <3>3. CASE i \in 1..n /\ j = n + 1
      BY <1>1, <2>2, <2>3, <3>3
    <3>4. CASE i = n + 1 /\ j \in 1..n
      BY <1>1, <2>2, <2>3, <3>4
    <3> QED
      BY <1>1, <3>1, <3>2, <3>3, <3>4
  <2>4. Blank \notin Emails(t) \cup Ids(t)
    BY <1>4, <1>7 DEF Decodable
  <2> QED
    BY <1>1, <1>4, <2>3, <2>4 DEF Decodable
<1> QED
  BY <1>6, <1>7

LEMMA DecodableNone == Decodable(<<>>)
BY ElementsOfNone DEF Decodable, Emails, Ids

LEMMA DecodableKeep ==
    ASSUME NEW list \in Seq(Entries), NEW S, Decodable(list)
    PROVE  Decodable(Keep(list, S))
<1> DEFINE T == {t \in Seq(Entries) : Decodable(t) /\ ~Decodable(Keep(t, S))}
<1> SUFFICES ASSUME T # {}
             PROVE  FALSE
  OBVIOUS
<1>1. T \subseteq Seq(Entries) /\ T # {}
  OBVIOUS
<1> HIDE DEF T
<1>2. CASE <<>> \in T
  BY <1>2, KeepNone DEF T
<1>3. ASSUME NEW t \in Seq(Entries), NEW x \in Entries, Append(t, x) \in T, t \notin T
      PROVE  FALSE
  <2>1. Decodable(Append(t, x)) /\ ~Decodable(Keep(Append(t, x), S))
    BY <1>3 DEF T
  <2>2. Decodable(t) /\ Decodable(Keep(t, S))
    BY <1>3, <2>1, DecodableAppend DEF T
  <2>3. /\ Keep(t, S) \in Seq(Entries)
        /\ Emails(Keep(t, S)) \subseteq Emails(t)
        /\ Ids(Keep(t, S)) \subseteq Ids(t)
    BY FieldsOfKeep
  <2>4. Decodable(Append(Keep(t, S), x))
    BY <2>1, <2>2, <2>3, DecodableAppend
  <2> QED
    BY <2>1, <2>2, <2>4, KeepAppend
<1> QED
  BY <1>1, <1>2, <1>3, LeastList

LEMMA DecodableConcat ==
    ASSUME NEW list \in Seq(Entries), NEW more \in Seq(Entries), Decodable(list), Decodable(more),
           Emails(list) \cap Emails(more) = {}, Ids(list) \cap Ids(more) = {}
    PROVE  Decodable(list \o more)
<1> DEFINE T == {t \in Seq(Entries) :
                    /\ Decodable(t) /\ Emails(list) \cap Emails(t) = {} /\ Ids(list) \cap Ids(t) = {}
                    /\ ~Decodable(list \o t)}
<1> SUFFICES ASSUME T # {}
             PROVE  FALSE
  OBVIOUS
<1>1. T \subseteq Seq(Entries) /\ T # {}
  OBVIOUS
<1> HIDE DEF T
<1>2. CASE <<>> \in T
  BY <1>2, ConcatEmptySeq DEF T
<1>3. ASSUME NEW t \in Seq(Entries), NEW x \in Entries, Append(t, x) \in T, t \notin T
      PROVE  FALSE
  <2>1. /\ Decodable(Append(t, x))
        /\ Emails(list) \cap Emails(Append(t, x)) = {} /\ Ids(list) \cap Ids(Append(t, x)) = {}
        /\ ~Decodable(list \o Append(t, x))
    BY <1>3 DEF T
  <2>2. /\ Decodable(t)
        /\ x # Junk /\ x.email # Blank /\ x.id # Blank
        /\ x.email \notin Emails(t) /\ x.id \notin Ids(t)
    BY <2>1, DecodableAppend
  <2>3. x \in Client
    BY <2>2, Objects DEF IsObject
  <2>4. /\ Emails(Append(t, x)) = Emails(t) \cup {x.email}
        /\ Ids(Append(t, x)) = Ids(t) \cup {x.id}
    BY <2>3, FieldsOfAppend
  <2>5. Decodable(list \o t)
    BY <1>3, <2>1, <2>2, <2>4 DEF T
  <2>6. /\ list \o t \in Seq(Entries)
        /\ Emails(list \o t) = Emails(list) \cup Emails(t)
        /\ Ids(list \o t) = Ids(list) \cup Ids(t)
    BY FieldsOfConcat
  <2>7. x.email \notin Emails(list \o t) /\ x.id \notin Ids(list \o t)
    BY <2>1, <2>2, <2>4, <2>6
  <2>8. Decodable(Append(list \o t, x))
    BY <2>2, <2>5, <2>6, <2>7, DecodableAppend, Zenon
  <2>9. list \o Append(t, x) = Append(list \o t, x)
    BY AppendToConcat
  <2> QED
    BY <2>1, <2>8, <2>9
<1> QED
  BY <1>1, <1>2, <1>3, LeastList

-----------------------------------------------------------------------------
(* The first and the last client of a name, and the new id of the first.   *)

FirstAt(list, name) == SelectInSeq(list, LAMBDA x : Is(x, name))
LastAt(list, name)  == SelectLastInSeq(list, LAMBDA x : Is(x, name))

LEMMA FirstOf ==
    ASSUME NEW list \in Seq(Entries), NEW name, NEW at, at = FirstAt(list, name)
    PROVE  IF name \in Emails(list) THEN at \in 1..Len(list) /\ Is(list[at], name)
                                    ELSE at = 0
<1> DEFINE I == {i \in 1..Len(list) : Is(list[i], name)}
<1>1. at = IF I # {} THEN Min(I) ELSE 0
  BY Zenon DEF SelectInSeq, FirstAt
<1>2. name \in Emails(list) <=> I # {}
  BY Elements DEF Emails, Is
<1>3. I \subseteq Nat /\ I \subseteq 1..Len(list) /\ \A i \in I : Is(list[i], name)
  OBVIOUS
<1> HIDE DEF I
<1>4. ASSUME I # {}
      PROVE  Min(I) \in I
  <2>1. PICK n \in I : \A m \in I : n <= m
    BY <1>3, <1>4, LeastNumber
  <2> QED
    BY <2>1, Zenon DEF Min
<1> QED
  BY <1>1, <1>2, <1>3, <1>4

LEMMA LastOf ==
    ASSUME NEW list \in Seq(Entries), NEW name \in Emails(list), NEW at, at = LastAt(list, name)
    PROVE  at \in 1..Len(list) /\ Is(list[at], name)
<1> DEFINE n == Len(list)
           I == {i \in 1..n : Is(list[i], name)}
           J == {n - i : i \in I}
<1>1. at = IF I # {} THEN Max(I) ELSE 0
  BY Zenon DEF SelectLastInSeq, LastAt
<1>2. n \in Nat /\ I # {}
  BY Elements DEF Emails, Is
<1>3. I \subseteq 1..n /\ \A i \in I : Is(list[i], name)
  OBVIOUS
<1> HIDE DEF I, n
<1>4. J \subseteq Nat /\ J # {}
  <2>1. \A i \in I : n - i \in Nat
    BY <1>2, <1>3
  <2> QED
    BY <1>2, <2>1
<1>5. PICK k \in J : \A m \in J : k <= m
  <2> HIDE DEF J
  <2> QED
    BY <1>4, LeastNumber
<1>6. PICK i \in I : k = n - i
  BY <1>5
<1>7. \A m \in I : i >= m
  <2> TAKE m \in I
  <2>1. n - i <= n - m
    BY <1>5, <1>6
  <2> QED
    BY <1>2, <1>3, <2>1
<1>8. Max(I) \in I
  BY <1>6, <1>7, Zenon DEF Max
<1> QED
  BY <1>1, <1>2, <1>3, <1>8 DEF n

LEMMA UserIsClient ==
    ASSUME NEW name \in Names, NEW id \in UUIDs
    PROVE  /\ User(name, id) \in Client /\ User(name, id) \in Entries
           /\ IsObject(User(name, id))
           /\ User(name, id).email = name /\ User(name, id).id = id /\ User(name, id).flow = FALSE
           /\ name # Blank /\ id # Blank
<1>1. User(name, id) \in Client
  BY DEF User, Client
<1> QED
  BY <1>1, ListsAssumption, DocumentsAssumption DEF User, Entries, IsObject

LEMMA SetIdAt ==
    ASSUME NEW list \in Seq(Entries), NEW name \in Emails(list), NEW id \in UUIDs, NEW new,
           new = SetId(list, name, id)
    PROVE  /\ new \in Seq(Entries) /\ Len(new) = Len(list)
           /\ \E at \in 1..Len(list) :
                 /\ list[at] \in Client /\ list[at].email = name
                 /\ new[at] \in Client
                 /\ new[at].email = name /\ new[at].id = id /\ new[at].flow = list[at].flow
                 /\ \A j \in 1..Len(list) : j # at => new[j] = list[j]
<1> DEFINE at == FirstAt(list, name)
<1>1. at \in 1..Len(list) /\ Is(list[at], name)
  BY FirstOf
<1>2. new = [list EXCEPT ![at] = [list[at] EXCEPT !.id = id]]
  BY Zenon DEF SetId, FirstAt
<1> HIDE DEF at
<1>3. list[at] \in Entries
  BY <1>1, ElementOfSeq
<1>4. list[at] \in Client /\ list[at].email = name
  BY <1>1, <1>3, Objects DEF Is
<1> DEFINE changed == [list[at] EXCEPT !.id = id]
<1>5. /\ changed \in Client /\ changed \in Entries
      /\ changed.email = name /\ changed.id = id /\ changed.flow = list[at].flow
  BY <1>4 DEF Client, Entries
<1> HIDE DEF changed
<1>6. /\ new \in Seq(Entries) /\ Len(new) = Len(list)
      /\ \A j \in 1..Len(list) : new[j] = IF j = at THEN changed ELSE list[j]
  BY <1>1, <1>2, <1>5, ExceptSeq DEF changed
<1> QED
  BY <1>1, <1>4, <1>5, <1>6

LEMMA SetIdFields ==
    ASSUME NEW list \in Seq(Entries), NEW name \in Emails(list), NEW id \in UUIDs
    PROVE  /\ SetId(list, name, id) \in Seq(Entries)
           /\ Emails(SetId(list, name, id)) = Emails(list)
           /\ FlowOf(SetId(list, name, id)) = FlowOf(list)
           /\ Ids(SetId(list, name, id)) \subseteq Ids(list) \cup {id}
           /\ Places(SetId(list, name, id)) = Places(list)
           /\ Keep(SetId(list, name, id), Others({name})) = Keep(list, Others({name}))
<1> DEFINE new == SetId(list, name, id)
<1>0. new = SetId(list, name, id)
  OBVIOUS
<1> HIDE DEF new
<1>1. /\ new \in Seq(Entries) /\ Len(new) = Len(list)
      /\ DOMAIN new = 1..Len(list) /\ DOMAIN list = 1..Len(list)
  BY <1>0, SetIdAt, Elements
<1>2. PICK at \in 1..Len(list) :
         /\ list[at] \in Client /\ list[at].email = name
         /\ new[at] \in Client
         /\ new[at].email = name /\ new[at].id = id /\ new[at].flow = list[at].flow
         /\ \A j \in 1..Len(list) : j # at => new[j] = list[j]
  BY <1>0, SetIdAt
<1>3. IsObject(list[at]) /\ IsObject(new[at])
  BY <1>2, DocumentsAssumption DEF IsObject
<1>4. \A j \in 1..Len(list) :
         /\ IsObject(new[j]) <=> IsObject(list[j])
         /\ new[j].email = list[j].email
         /\ new[j].flow = list[j].flow
         /\ new[j].id = list[j].id \/ new[j].id = id
  BY <1>2, <1>3
<1>5. Emails(new) = Emails(list) /\ FlowOf(new) = FlowOf(list)
  BY <1>1, <1>4 DEF Emails, FlowOf
<1>6. Ids(new) \subseteq Ids(list) \cup {id}
  BY <1>1, <1>4 DEF Ids
<1>7. Places(new) = Places(list)
  BY <1>1, <1>4 DEF Places
<1>8. Keep(new, Others({name})) = Keep(list, Others({name}))
  <2>1. list[at] \notin Others({name}) /\ new[at] \notin Others({name})
    BY <1>2, <1>3 DEF Others
  <2>2. \A j \in 1..Len(list) : new[j] = list[j]
           \/ (new[j] \notin Others({name}) /\ list[j] \notin Others({name}))
    BY <1>2, <2>1
  <2>3. Len(list) \in Nat
    BY Elements
  <2> QED
    BY <1>1, <2>2, <2>3, KeepAlike
<1> QED
  BY <1>0, <1>1, <1>5, <1>6, <1>7, <1>8

LEMMA SetIdDecodable ==
    ASSUME NEW list \in Seq(Entries), NEW name \in Emails(list), NEW id \in UUIDs,
           Decodable(list), id \notin Ids(list)
    PROVE  Decodable(SetId(list, name, id))
<1> DEFINE new == SetId(list, name, id)
<1>0. new = SetId(list, name, id)
  OBVIOUS
<1> HIDE DEF new
<1>1. /\ new \in Seq(Entries) /\ Len(new) = Len(list)
      /\ DOMAIN new = 1..Len(list) /\ DOMAIN list = 1..Len(list)
      /\ ToSet(new) = {new[j] : j \in 1..Len(list)} /\ ToSet(list) = {list[j] : j \in 1..Len(list)}
  BY <1>0, SetIdAt, Elements
<1>2. PICK at \in 1..Len(list) :
         /\ list[at] \in Client /\ list[at].email = name
         /\ new[at] \in Client
         /\ new[at].email = name /\ new[at].id = id /\ new[at].flow = list[at].flow
         /\ \A j \in 1..Len(list) : j # at => new[j] = list[j]
  BY <1>0, SetIdAt
<1>3. Junk \notin ToSet(new) /\ Junk \notin ToSet(list)
  BY <1>1, <1>2, DocumentsAssumption DEF Decodable
<1>4. Blank \notin Emails(new) \cup Ids(new)
  <2>1. Blank \notin Emails(list) \cup Ids(list) /\ Blank # id
    BY ListsAssumption DEF Decodable
  <2>2. Blank \notin Emails(new)
    BY <1>0, <2>1, SetIdFields
  <2>3. Ids(new) \subseteq Ids(list) \cup {id}
    BY <1>0, SetIdFields
  <2> QED
    BY <2>1, <2>2, <2>3
<1>5. \A i, j \in 1..Len(list) : list[i].email = list[j].email \/ list[i].id = list[j].id => i = j
  BY <1>1 DEF Decodable
<1>6. \A j \in 1..Len(list) : list[j].id # id
  BY <1>1, <1>3 DEF Ids, IsObject
<1>7. ASSUME NEW i \in 1..Len(list), NEW j \in 1..Len(list),
             new[i].email = new[j].email \/ new[i].id = new[j].id
      PROVE  i = j
  <2>1. CASE i # at /\ j # at
    BY <1>2, <1>5, <1>7, <2>1
  <2>2. CASE i = at /\ j # at
    BY <1>2, <1>5, <1>6, <1>7, <2>2
  <2>3. CASE i # at /\ j = at
    BY <1>2, <1>5, <1>6, <1>7, <2>3
  <2> QED
    BY <2>1, <2>2, <2>3
<1> QED
  BY <1>0, <1>1, <1>3, <1>4, <1>7 DEF Decodable

-----------------------------------------------------------------------------
(* The helpers that make a list of an inbound, one property after the      *)
(* other.                                                                  *)

Made(fresh, ids, b) == [i \in DOMAIN fresh |-> [email |-> fresh[i], id |-> ids[i], flow |-> b]]

LEMMA MadeClients ==
    ASSUME NEW fresh \in Seq(Names), NEW ids \in [DOMAIN fresh -> UUIDs], NEW b \in BOOLEAN,
           NEW added, added = Made(fresh, ids, b)
    PROVE  /\ added \in Seq(Entries)
           /\ Junk \notin ToSet(added)
           /\ Emails(added) = ToSet(fresh)
           /\ Ids(added) \subseteq {ids[i] : i \in DOMAIN fresh}
           /\ FlowOf(added) \subseteq {b}
           /\ Users(added) = {[name |-> fresh[i], uuid |-> ids[i]] : i \in DOMAIN fresh}
           /\ IsInjective(fresh) /\ IsInjective(ids) => Decodable(added)
<1> DEFINE n == Len(fresh)
<1>1. n \in Nat /\ DOMAIN fresh = 1..n /\ \A i \in 1..n : fresh[i] \in Names /\ ids[i] \in UUIDs
  BY Elements, ElementOfSeq
<1> HIDE DEF n
<1>2. \A i \in 1..n : /\ added[i] \in Client
                      /\ added[i].email = fresh[i] /\ added[i].id = ids[i] /\ added[i].flow = b
  BY <1>1 DEF Client, Made
<1>3. \A i \in 1..n : IsObject(added[i])
  BY <1>2, DocumentsAssumption DEF IsObject
<1>4. added \in Seq(Client) /\ DOMAIN added = 1..n
  <2>1. added = [i \in 1..n |-> added[i]]
    BY <1>1 DEF Made
  <2> QED
    BY <1>1, <1>2, <2>1
<1>5. added \in Seq(Entries)
  BY <1>4, SeqMonotonic DEF Entries
<1>6. Junk \notin ToSet(added)
  BY <1>3, <1>4 DEF IsObject, ToSet
<1>7. {j \in DOMAIN added : IsObject(added[j])} = 1..n
  BY <1>3, <1>4
<1>8. Emails(added) = ToSet(fresh)
  BY <1>1, <1>2, <1>7 DEF Emails, ToSet
<1>9. Ids(added) \subseteq {ids[i] : i \in DOMAIN fresh}
  BY <1>1, <1>2, <1>7 DEF Ids
<1>10. FlowOf(added) \subseteq {b}
  BY <1>2, <1>7 DEF FlowOf
<1>11. Users(added) = {[name |-> fresh[i], uuid |-> ids[i]] : i \in DOMAIN fresh}
  BY <1>1, <1>2, <1>7 DEF Users
<1>12. ASSUME IsInjective(fresh), IsInjective(ids)
       PROVE  Decodable(added)
  <2>1. Blank \notin Emails(added) \cup Ids(added)
    <3>1. Emails(added) \subseteq Names
      BY <1>8, Elements
    <3>2. Ids(added) \subseteq UUIDs
      BY <1>1, <1>9
    <3> QED
      BY <3>1, <3>2, ListsAssumption
  <2>2. ASSUME NEW i \in 1..n, NEW j \in 1..n,
               added[i].email = added[j].email \/ added[i].id = added[j].id
        PROVE  i = j
    BY <1>1, <1>2, <1>12, <2>2 DEF IsInjective
  <2> QED
    BY <1>4, <1>6, <2>1, <2>2 DEF Decodable
<1> QED
  BY <1>5, <1>6, <1>8, <1>9, <1>10, <1>11, <1>12

LEMMA AddedTo ==
    ASSUME NEW list \in Seq(Entries), NEW added \in Seq(Entries)
    PROVE  /\ AddUsersToList(list, added) \in Seq(Entries)
           /\ FlowOf(AddUsersToList(list, added)) \subseteq FlowOf(list) \cup FlowOf(added)
           /\ Decodable(list) /\ Decodable(added) /\ Ids(list) \cap Ids(added) = {} =>
                 Decodable(AddUsersToList(list, added))
<1> DEFINE S == {r \in Client : r.email \notin Emails(list)}
           new == Keep(added, S)
<1>1. AddUsersToList(list, added) = list \o new
  BY DEF AddUsersToList
<1>2. /\ new \in Seq(Entries)
      /\ ToSet(new) = ToSet(added) \cap S
      /\ Ids(new) \subseteq Ids(added)
      /\ FlowOf(new) \subseteq FlowOf(added)
      /\ Decodable(added) => Decodable(new)
  BY FieldsOfKeep, KeepElements, DecodableKeep
<1> HIDE DEF new
<1>3. Emails(list) \cap Emails(new) = {}
  <2>1. Emails(new) = {x.email : x \in {y \in ToSet(new) : IsObject(y)}}
    BY <1>2, FieldsAre
  <2> QED
    BY <1>2, <2>1
<1>4. /\ list \o new \in Seq(Entries)
      /\ FlowOf(list \o new) = FlowOf(list) \cup FlowOf(new)
  BY <1>2, FieldsOfConcat
<1>5. ASSUME Decodable(list), Decodable(added), Ids(list) \cap Ids(added) = {}
      PROVE  Decodable(list \o new)
  <2>1. Decodable(new) /\ Ids(list) \cap Ids(new) = {}
    BY <1>2, <1>5
  <2> QED
    BY <1>2, <1>3, <1>5, <2>1, DecodableConcat
<1> QED
  BY <1>1, <1>2, <1>4, <1>5

LEMMA AddedLeaves ==
    ASSUME NEW list \in Seq(Entries), NEW added \in Seq(Entries), NEW names,
           Junk \notin ToSet(added), Emails(added) \subseteq names
    PROVE  /\ Keep(AddUsersToList(list, added), Others(names)) = Keep(list, Others(names))
           /\ Keep(list \o added, Others(names)) = Keep(list, Others(names))
<1> DEFINE O == Others(names)
           S == {r \in Client : r.email \notin Emails(list)}
           new == Keep(added, S)
<1>1. ToSet(added) \cap O = {}
  BY FieldsAre, Elements DEF Others, IsObject
<1>2. new \in Seq(Entries) /\ ToSet(new) \cap O = {}
  BY <1>1, KeepElements
<1>3. Keep(added, O) = <<>> /\ Keep(new, O) = <<>>
  BY <1>1, <1>2, KeepNothing
<1> HIDE DEF O, new
<1>4. Keep(list \o added, O) = Keep(list, O) \o Keep(added, O)
  BY KeepConcat
<1>5. Keep(list \o new, O) = Keep(list, O) \o Keep(new, O)
  BY <1>2, KeepConcat
<1>6. Keep(list, O) \o <<>> = Keep(list, O)
  <2>1. Keep(list, O) \in Seq(Entries)
    BY KeepElements
  <2> QED
    BY <2>1, ConcatEmptySeq
<1> QED
  BY <1>3, <1>4, <1>5, <1>6 DEF O, new, AddUsersToList

LEMMA RemovedFrom ==
    ASSUME NEW list \in Seq(Entries), NEW name
    PROVE  /\ RemoveUsersFromList(list, name) \in Seq(Entries)
           /\ name \notin Emails(RemoveUsersFromList(list, name))
           /\ FlowOf(RemoveUsersFromList(list, name)) \subseteq FlowOf(list)
           /\ Decodable(list) => Decodable(RemoveUsersFromList(list, name))
           /\ Keep(RemoveUsersFromList(list, name), Others({name})) = Keep(list, Others({name}))
<1> DEFINE O == Others({name})
<1>1. /\ Keep(list, O) \in Seq(Entries)
      /\ ToSet(Keep(list, O)) = ToSet(list) \cap O
      /\ FlowOf(Keep(list, O)) \subseteq FlowOf(list)
  BY KeepElements, FieldsOfKeep
<1>2. name \notin Emails(Keep(list, O))
  BY <1>1, FieldsAre DEF Others
<1>3. Decodable(list) => Decodable(Keep(list, O))
  BY DecodableKeep
<1>4. Keep(Keep(list, O), O) = Keep(list, O)
  BY KeepTwice
<1> QED
  BY <1>1, <1>2, <1>3, <1>4 DEF RemoveUsersFromList

LEMMA RotatedIn ==
    ASSUME NEW list \in Seq(Entries), NEW name \in Names, NEW id \in UUIDs
    PROVE  /\ RotateUserInList(list, name, id) \in Seq(Entries)
           /\ name \in Emails(RotateUserInList(list, name, id))
           /\ FlowOf(RotateUserInList(list, name, id)) \subseteq FlowOf(list) \cup {FALSE}
           /\ Decodable(list) /\ id \notin Ids(list) => Decodable(RotateUserInList(list, name, id))
           /\ Keep(RotateUserInList(list, name, id), Others({name})) = Keep(list, Others({name}))
           /\ name \in Emails(list) => Places(RotateUserInList(list, name, id)) = Places(list)
<1>1. CASE name \in Emails(list)
  <2>1. RotateUserInList(list, name, id) = SetId(list, name, id)
    BY <1>1 DEF RotateUserInList
  <2>2. Decodable(list) /\ id \notin Ids(list) => Decodable(SetId(list, name, id))
    BY <1>1, SetIdDecodable
  <2>3. /\ SetId(list, name, id) \in Seq(Entries)
        /\ Emails(SetId(list, name, id)) = Emails(list)
        /\ FlowOf(SetId(list, name, id)) = FlowOf(list)
        /\ Places(SetId(list, name, id)) = Places(list)
        /\ Keep(SetId(list, name, id), Others({name})) = Keep(list, Others({name}))
    BY <1>1, SetIdFields
  <2> QED
    BY <1>1, <2>1, <2>2, <2>3
<1>2. CASE name \notin Emails(list)
  <2> DEFINE x == User(name, id)
             new == Append(list, x)
  <2>1. RotateUserInList(list, name, id) = new
    BY <1>2 DEF RotateUserInList
  <2>2. /\ x \in Client /\ x \in Entries /\ IsObject(x)
        /\ x.email = name /\ x.id = id /\ x.flow = FALSE
        /\ name # Blank /\ id # Blank
    BY UserIsClient
  <2> HIDE DEF x
  <2>3. /\ new \in Seq(Entries)
        /\ Emails(new) = Emails(list) \cup {name}
        /\ FlowOf(new) = FlowOf(list) \cup {FALSE}
    BY <2>2, FieldsOfAppend
  <2>4. Decodable(list) /\ id \notin Ids(list) => Decodable(new)
    BY <1>2, <2>2, DecodableAppend DEF IsObject
  <2>5. x \notin Others({name})
    BY <2>2 DEF Others
  <2>6. Keep(new, Others({name})) = Keep(list, Others({name}))
    BY <2>2, <2>5, KeepAppend
  <2> QED
    BY <1>2, <2>1, <2>3, <2>4, <2>6
<1> QED
  BY <1>1, <1>2

LEMMA StrippedIs ==
    ASSUME NEW list \in Seq(Entries), Decodable(list)
    PROVE  /\ Stripped(list) \in Seq(Entries)
           /\ Users(Stripped(list)) = Users(list)
           /\ FlowOf(Stripped(list)) \subseteq {FALSE}
           /\ Decodable(Stripped(list))
           /\ AddUsersToList(<<>>, Stripped(list)) = Stripped(list)
<1> DEFINE n == Len(list)
           new == Stripped(list)
<1>1. /\ n \in Nat /\ DOMAIN list = 1..n
      /\ ToSet(list) = {list[i] : i \in 1..n}
      /\ \A i \in 1..n : list[i] \in Entries
  BY Elements, ElementOfSeq
<1>2. Junk \notin ToSet(list)
  BY DEF Decodable
<1>3. \A i \in 1..n : list[i] \in Client
  BY <1>1, <1>2 DEF Entries
<1>4. new = [i \in 1..n |-> [list[i] EXCEPT !.flow = FALSE]]
  BY <1>1 DEF Stripped
<1> HIDE DEF new, n
<1>5. \A i \in 1..n : /\ new[i] \in Client
                      /\ new[i].email = list[i].email /\ new[i].id = list[i].id
                      /\ new[i].flow = FALSE
  BY <1>3, <1>4 DEF Client
<1>6. new \in Seq(Client) /\ DOMAIN new = 1..n
  <2>1. new = [i \in 1..n |-> new[i]]
    BY <1>4
  <2> QED
    BY <1>1, <1>5, <2>1
<1>7. new \in Seq(Entries) /\ ToSet(new) \subseteq Client /\ Junk \notin ToSet(new)
  BY <1>6, SeqMonotonic, Elements, DocumentsAssumption DEF Entries
<1>8. /\ {j \in DOMAIN new : IsObject(new[j])} = 1..n
      /\ {j \in DOMAIN list : IsObject(list[j])} = 1..n
  BY <1>1, <1>3, <1>5, <1>6, DocumentsAssumption DEF IsObject
<1>9. /\ Users(new) = Users(list) /\ Emails(new) = Emails(list) /\ Ids(new) = Ids(list)
      /\ FlowOf(new) \subseteq {FALSE}
  BY <1>5, <1>8 DEF Users, Emails, Ids, FlowOf
<1>10. Decodable(new)
  BY <1>1, <1>5, <1>6, <1>7, <1>9 DEF Decodable
<1>11. AddUsersToList(<<>>, new) = new
  <2>1. Emails(<<>>) = {}
    BY DEF Emails
  <2>2. {r \in Client : r.email \notin Emails(<<>>)} = Client
    BY <2>1
  <2>3. Keep(new, Client) = new
    BY <1>7, KeepAll
  <2>4. <<>> \o new = new
    BY <1>7, ConcatEmptySeq
  <2> QED
    BY <2>2, <2>3, <2>4 DEF AddUsersToList
<1> QED
  BY <1>7, <1>9, <1>10, <1>11 DEF new

-----------------------------------------------------------------------------
(* What an operation does to every list at once.                           *)

(* A change leaves the inbounds what they were but for their clients.      *)
Kindred ==
    /\ document' \in [Inbounds -> Inbound]
    /\ \A t \in Inbounds : document'[t].readable = document[t].readable

LEMMA MirroredLists ==
    ASSUME ListsTypeOK, NEW list \in Seq(Entries), NEW mirrors \in [Inbounds \ {Primary} -> Seq(Entries)],
           MirrorUsers(list, mirrors)
    PROVE  /\ Kindred
           /\ List(Primary)' = list
           /\ \A t \in Inbounds \ {Primary} : List(t)' = mirrors[t]
<1>1. document \in [Inbounds -> Inbound] /\ Primary \in Inbounds
  BY ListsAssumption DEF ListsTypeOK
<1>2. \A t \in Inbounds : document[t] \in [readable : BOOLEAN, clients : Seq(Entries)]
  BY <1>1 DEF Inbound
<1>3. document' = [t \in Inbounds |->
          IF t = Primary THEN [document[t] EXCEPT !.clients = list]
                         ELSE [document[t] EXCEPT !.clients = mirrors[t]]]
  BY DEF MirrorUsers, Mirrored
<1>4. /\ document'[Primary].clients = list
      /\ \A t \in Inbounds \ {Primary} : document'[t].clients = mirrors[t]
      /\ \A t \in Inbounds : document'[t].readable = document[t].readable
  BY <1>1, <1>2, <1>3
<1>5. document' \in [Inbounds -> Inbound]
  BY <1>1, <1>2, <1>3 DEF Inbound
<1> QED
  BY <1>4, <1>5 DEF List, Kindred

LEMMA ListsAreLists ==
    ASSUME ListsTypeOK
    PROVE  \A t \in Inbounds : List(t) \in Seq(Entries)
BY DEF ListsTypeOK, Inbound, List

LEMMA FreshIs ==
    ASSUME NEW id \in Fresh
    PROVE  id \in UUIDs /\ \A t \in Inbounds : id \notin Ids(List(t))
BY DEF Fresh

LEMMA WithFlow ==
    ASSUME NEW r \in Client, NEW c
    PROVE  [r EXCEPT !.flow = c] = [email |-> r.email, id |-> r.id, flow |-> c]
BY DEF Client

LEMMA AddBulkDoes ==
    ASSUME ListsTypeOK, NEW N \in SUBSET Names, NEW names \in SetToSeqs(N), AddBulk(names)
    PROVE  /\ last'.kind = "addBulk" /\ last'.names = ToSet(names)
           /\ last' \in [kind : Kinds, names : SUBSET Names, tag : Inbounds,
                         code : {"ok", "notFound", "error"}]
           /\ \/ UNCHANGED document
              \/ /\ Kindred
                 /\ \E fresh \in Seq(Names) : \E ids \in Injection(DOMAIN fresh, Fresh) :
                       /\ IsInjective(fresh)
                       /\ ToSet(fresh) = ToSet(names) \ Emails(List(Primary))
                       /\ List(Primary)' = List(Primary) \o Made(fresh, ids, TRUE)
                       /\ \A t \in Inbounds \ {Primary} :
                             List(t)' = AddUsersToList(List(t), Made(fresh, ids, FALSE))
<1>1. names \in Seq(Names) /\ IsInjective(names)
  <2>1. IsFiniteSet(N)
    BY ListsAssumption, FS_Subset
  <2>2. Cardinality(N) \in Nat
    BY <2>1, FS_CardinalityType
  <2> QED
    BY <2>2 DEF SetToSeqs, IsInjective
<1>2. Primary \in Inbounds /\ ToSet(names) \subseteq Names
  BY <1>1, Elements, ListsAssumption
<1>3. \A code \in {"ok", "error"} :
         Answer("addBulk", ToSet(names), Primary, code) =>
            /\ last'.kind = "addBulk" /\ last'.names = ToSet(names)
            /\ last' \in [kind : Kinds, names : SUBSET Names, tag : Inbounds,
                          code : {"ok", "notFound", "error"}]
  BY <1>2 DEF Answer, Kinds
<1> DEFINE list == List(Primary)
           fresh == Keep(names, Names \ Emails(list))
<1>4. CASE \E code \in {"ok", "error"} : Refuse("addBulk", ToSet(names), code)
  BY <1>3, <1>4 DEF Refuse
<1>5. CASE \E ids \in Injection(DOMAIN fresh, Fresh) :
              LET added == [i \in DOMAIN fresh |-> User(fresh[i], ids[i])]
              IN  /\ MirrorUsers(list \o [i \in DOMAIN added |-> [added[i] EXCEPT !.flow = TRUE]],
                                 [t \in Mirrored |-> AddUsersToList(List(t), added)])
                  /\ Answer("addBulk", ToSet(names), Primary, "ok")
  <2>1. PICK ids \in Injection(DOMAIN fresh, Fresh) :
              LET added == [i \in DOMAIN fresh |-> User(fresh[i], ids[i])]
              IN  /\ MirrorUsers(list \o [i \in DOMAIN added |-> [added[i] EXCEPT !.flow = TRUE]],
                                 [t \in Mirrored |-> AddUsersToList(List(t), added)])
                  /\ Answer("addBulk", ToSet(names), Primary, "ok")
    BY <1>5
  <2> DEFINE added == [i \in DOMAIN fresh |-> User(fresh[i], ids[i])]
             own == [i \in DOMAIN added |-> [added[i] EXCEPT !.flow = TRUE]]
  <2>2. /\ fresh \in Seq(Names) /\ IsInjective(fresh)
        /\ ToSet(fresh) = ToSet(names) \cap (Names \ Emails(list))
    BY <1>1, KeepElements, KeepInjective
  <2>3. ToSet(fresh) = ToSet(names) \ Emails(list)
    BY <1>2, <2>2
  <2>4. /\ MirrorUsers(list \o own, [t \in Mirrored |-> AddUsersToList(List(t), added)])
        /\ Answer("addBulk", ToSet(names), Primary, "ok")
    BY <2>1
  <2> HIDE DEF fresh
  <2>5. added = Made(fresh, ids, FALSE)
    BY DEF User, Made
  <2> HIDE DEF added
  <2>6. own = Made(fresh, ids, TRUE)
    <3>1. DOMAIN added = DOMAIN fresh
      BY <2>5 DEF Made
    <3>2. ASSUME NEW i \in DOMAIN fresh
          PROVE  [added[i] EXCEPT !.flow = TRUE]
                    = [email |-> fresh[i], id |-> ids[i], flow |-> TRUE]
      <4>1. added[i] = [email |-> fresh[i], id |-> ids[i], flow |-> FALSE]
        BY <2>5 DEF Made
      <4>2. fresh[i] \in Names /\ ids[i] \in UUIDs
        BY <2>2, Elements, ElementOfSeq, FreshIs DEF Injection
      <4>3. /\ added[i] \in Client
            /\ added[i].email = fresh[i] /\ added[i].id = ids[i]
        BY <4>1, <4>2 DEF Client
      <4>4. [added[i] EXCEPT !.flow = TRUE]
               = [email |-> added[i].email, id |-> added[i].id, flow |-> TRUE]
        BY <4>3, WithFlow, Zenon
      <4> QED
        BY <4>3, <4>4, Zenon
    <3> QED
      BY <3>1, <3>2 DEF Made
  <2> HIDE DEF own
  <2>7. ids \in [DOMAIN fresh -> UUIDs]
    BY FreshIs DEF Injection
  <2>8. added \in Seq(Entries) /\ own \in Seq(Entries)
    BY <2>2, <2>5, <2>6, <2>7, MadeClients
  <2> DEFINE mirrors == [t \in Inbounds \ {Primary} |-> AddUsersToList(List(t), added)]
  <2>9. MirrorUsers(list \o own, mirrors)
    BY <2>4 DEF Mirrored
  <2>10. list \o own \in Seq(Entries)
    BY <1>2, <2>8, ListsAreLists, ConcatProperties
  <2>11. mirrors \in [Inbounds \ {Primary} -> Seq(Entries)]
    BY <2>8, ListsAreLists, AddedTo
  <2>12. /\ Kindred
         /\ List(Primary)' = list \o own
         /\ \A t \in Inbounds \ {Primary} : List(t)' = AddUsersToList(List(t), added)
    <3> HIDE DEF mirrors, list
    <3>1. /\ Kindred
          /\ List(Primary)' = list \o own
          /\ \A t \in Inbounds \ {Primary} : List(t)' = mirrors[t]
      BY <2>9, <2>10, <2>11, MirroredLists
    <3> QED
      BY <3>1 DEF mirrors
  <2> QED
    BY <1>3, <2>2, <2>3, <2>4, <2>5, <2>6, <2>12
<1> QED
  BY <1>4, <1>5, Zenon DEF AddBulk

LEMMA AddBulkAdds ==
    ASSUME ListsTypeOK, NEW N \in SUBSET Names, NEW names \in SetToSeqs(N), AddBulk(names),
           ~UNCHANGED document
    PROVE  \E own, added \in Seq(Entries) :
              /\ Junk \notin ToSet(own) /\ Junk \notin ToSet(added)
              /\ Decodable(own) /\ Decodable(added)
              /\ Emails(own) = ToSet(names) \ Emails(List(Primary))
              /\ Emails(added) = Emails(own)
              /\ Ids(own) \subseteq Fresh /\ Ids(added) \subseteq Fresh
              /\ FlowOf(added) \subseteq {FALSE}
              /\ List(Primary)' = List(Primary) \o own
              /\ \A t \in Inbounds \ {Primary} : List(t)' = AddUsersToList(List(t), added)
<1>1. PICK fresh \in Seq(Names) : \E ids \in Injection(DOMAIN fresh, Fresh) :
         /\ IsInjective(fresh)
         /\ ToSet(fresh) = ToSet(names) \ Emails(List(Primary))
         /\ List(Primary)' = List(Primary) \o Made(fresh, ids, TRUE)
         /\ \A t \in Inbounds \ {Primary} :
               List(t)' = AddUsersToList(List(t), Made(fresh, ids, FALSE))
  BY AddBulkDoes
<1>2. PICK ids \in Injection(DOMAIN fresh, Fresh) :
         /\ IsInjective(fresh)
         /\ ToSet(fresh) = ToSet(names) \ Emails(List(Primary))
         /\ List(Primary)' = List(Primary) \o Made(fresh, ids, TRUE)
         /\ \A t \in Inbounds \ {Primary} :
               List(t)' = AddUsersToList(List(t), Made(fresh, ids, FALSE))
  BY <1>1
<1> DEFINE own == Made(fresh, ids, TRUE)
           added == Made(fresh, ids, FALSE)
<1>3. ids \in [DOMAIN fresh -> UUIDs] /\ IsInjective(ids) /\ \A i \in DOMAIN fresh : ids[i] \in Fresh
  BY FreshIs DEF Injection
<1>4. /\ own \in Seq(Entries) /\ added \in Seq(Entries)
      /\ Junk \notin ToSet(own) /\ Junk \notin ToSet(added)
      /\ Decodable(own) /\ Decodable(added)
      /\ Emails(own) = ToSet(fresh) /\ Emails(added) = ToSet(fresh)
      /\ Ids(own) \subseteq {ids[i] : i \in DOMAIN fresh}
      /\ Ids(added) \subseteq {ids[i] : i \in DOMAIN fresh}
      /\ FlowOf(added) \subseteq {FALSE}
  BY <1>2, <1>3, MadeClients
<1>5. /\ List(Primary)' = List(Primary) \o own
      /\ \A t \in Inbounds \ {Primary} : List(t)' = AddUsersToList(List(t), added)
  BY <1>2
<1> HIDE DEF own, added
<1>6. /\ Emails(own) = ToSet(names) \ Emails(List(Primary))
      /\ Emails(added) = Emails(own)
      /\ Ids(own) \subseteq Fresh /\ Ids(added) \subseteq Fresh
  BY <1>2, <1>3, <1>4
<1> QED
  BY <1>4, <1>5, <1>6

LEMMA DeleteDoes ==
    ASSUME ListsTypeOK, NEW name \in Names, Delete(name)
    PROVE  /\ last'.kind = "delete" /\ last'.names = {name}
           /\ last' \in [kind : Kinds, names : SUBSET Names, tag : Inbounds,
                         code : {"ok", "notFound", "error"}]
           /\ \/ UNCHANGED document /\ last'.code # "ok"
              \/ /\ Kindred
                 /\ name \in Emails(List(Primary))
                 /\ \A t \in Inbounds : List(t)' = RemoveUsersFromList(List(t), name)
<1>1. \A code \in {"ok", "notFound", "error"} :
         Answer("delete", {name}, Primary, code) =>
            /\ last'.kind = "delete" /\ last'.names = {name} /\ last'.code = code
            /\ last' \in [kind : Kinds, names : SUBSET Names, tag : Inbounds,
                          code : {"ok", "notFound", "error"}]
  BY ListsAssumption DEF Answer, Kinds
<1> DEFINE new == RemoveUsersFromList(List(Primary), name)
           mirrors == [t \in Inbounds \ {Primary} |-> RemoveUsersFromList(List(t), name)]
<1>2. CASE \E code \in {"notFound", "error"} : Refuse("delete", {name}, code)
  BY <1>1, <1>2 DEF Refuse
<1>3. CASE /\ name \in Emails(List(Primary))
           /\ MirrorUsers(new, mirrors)
           /\ Answer("delete", {name}, Primary, "ok")
  <2>1. /\ new \in Seq(Entries)
        /\ mirrors \in [Inbounds \ {Primary} -> Seq(Entries)]
    BY ListsAssumption, ListsAreLists, RemovedFrom
  <2> HIDE DEF new, mirrors
  <2>2. /\ Kindred
        /\ List(Primary)' = new
        /\ \A t \in Inbounds \ {Primary} : List(t)' = mirrors[t]
    BY <1>3, <2>1, MirroredLists
  <2>3. \A t \in Inbounds : List(t)' = RemoveUsersFromList(List(t), name)
    BY <2>2 DEF new, mirrors
  <2> QED
    BY <1>1, <1>3, <2>2, <2>3
<1> QED
  BY <1>2, <1>3 DEF Delete, Mirrored

LEMMA RotateDoes ==
    ASSUME ListsTypeOK, NEW name \in Names, Rotate(name)
    PROVE  /\ last'.kind = "rotate" /\ last'.names = {name}
           /\ last' \in [kind : Kinds, names : SUBSET Names, tag : Inbounds,
                         code : {"ok", "notFound", "error"}]
           /\ \/ UNCHANGED document /\ last'.code # "ok"
              \/ /\ Kindred
                 /\ name \in Emails(List(Primary))
                 /\ \E id \in Fresh : \A t \in Inbounds :
                       List(t)' = RotateUserInList(List(t), name, id)
<1>1. \A code \in {"ok", "notFound", "error"} :
         Answer("rotate", {name}, Primary, code) =>
            /\ last'.kind = "rotate" /\ last'.names = {name} /\ last'.code = code
            /\ last' \in [kind : Kinds, names : SUBSET Names, tag : Inbounds,
                          code : {"ok", "notFound", "error"}]
  BY ListsAssumption DEF Answer, Kinds
<1>2. List(Primary) \in Seq(Entries) /\ Primary \in Inbounds
  BY ListsAssumption, ListsAreLists
<1> DEFINE at == FirstAt(List(Primary), name)
           new(id) == SetId(List(Primary), name, id)
           mirrors(id) == [t \in Inbounds \ {Primary} |-> RotateUserInList(List(t), name, id)]
<1>3. at # 0 => name \in Emails(List(Primary))
  <2>1. IF name \in Emails(List(Primary))
        THEN at \in 1..Len(List(Primary)) /\ Is(List(Primary)[at], name)
        ELSE at = 0
    BY <1>2, FirstOf
  <2> HIDE DEF at
  <2> QED
    BY <2>1
<1>4. \/ \E code \in {"notFound", "error"} : Refuse("rotate", {name}, code)
      \/ at # 0 /\ \E id \in Fresh : /\ MirrorUsers(new(id), mirrors(id))
                                     /\ Answer("rotate", {name}, Primary, "ok")
  BY Zenon DEF Rotate, Mirrored, FirstAt
<1> HIDE DEF at
<1>5. CASE \E code \in {"notFound", "error"} : Refuse("rotate", {name}, code)
  BY <1>1, <1>5 DEF Refuse
<1>6. ASSUME name \in Emails(List(Primary)), NEW id \in Fresh,
             MirrorUsers(new(id), mirrors(id)), Answer("rotate", {name}, Primary, "ok")
      PROVE  Kindred /\ \A t \in Inbounds : List(t)' = RotateUserInList(List(t), name, id)
  <2>1. new(id) = RotateUserInList(List(Primary), name, id)
    BY <1>6 DEF RotateUserInList
  <2>2. new(id) \in Seq(Entries)
    BY <1>2, <2>1, FreshIs, RotatedIn
  <2>3. mirrors(id) \in [Inbounds \ {Primary} -> Seq(Entries)]
    BY FreshIs, ListsAreLists, RotatedIn
  <2> DEFINE own == new(id)
             others == mirrors(id)
  <2>4. own \in Seq(Entries) /\ others \in [Inbounds \ {Primary} -> Seq(Entries)]
        /\ MirrorUsers(own, others)
    BY <1>6, <2>2, <2>3
  <2> HIDE DEF own, others
  <2>5. /\ Kindred
        /\ List(Primary)' = own
        /\ \A t \in Inbounds \ {Primary} : List(t)' = others[t]
    BY <2>4, MirroredLists
  <2> QED
    BY <2>1, <2>5 DEF own, others
<1> QED
  BY <1>1, <1>3, <1>4, <1>5, <1>6

LEMMA DeleteAllDoes ==
    ASSUME ListsTypeOK, DeleteAll
    PROVE  /\ last'.kind = "deleteAll"
           /\ last' \in [kind : Kinds, names : SUBSET Names, tag : Inbounds,
                         code : {"ok", "notFound", "error"}]
           /\ \/ UNCHANGED document /\ (last'.code = "ok" => List(Primary) = <<>>)
              \/ Kindred /\ \A t \in Inbounds : List(t)' = <<>>
<1>1. \A code \in {"ok", "error"} :
         Answer("deleteAll", {}, Primary, code) =>
            /\ last'.kind = "deleteAll" /\ last'.code = code
            /\ last' \in [kind : Kinds, names : SUBSET Names, tag : Inbounds,
                          code : {"ok", "notFound", "error"}]
  BY ListsAssumption DEF Answer, Kinds
<1> DEFINE mirrors == [t \in Inbounds \ {Primary} |-> <<>>]
<1>2. CASE \/ Refuse("deleteAll", {}, "error")
           \/ List(Primary) = <<>> /\ Refuse("deleteAll", {}, "ok")
  BY <1>1, <1>2 DEF Refuse
<1>3. CASE MirrorUsers(<<>>, mirrors) /\ Answer("deleteAll", {}, Primary, "ok")
  <2>1. <<>> \in Seq(Entries) /\ mirrors \in [Inbounds \ {Primary} -> Seq(Entries)]
    BY EmptySeq
  <2>2. \A t \in Inbounds \ {Primary} : mirrors[t] = <<>>
    OBVIOUS
  <2> HIDE DEF mirrors
  <2>3. /\ Kindred
        /\ List(Primary)' = <<>>
        /\ \A t \in Inbounds \ {Primary} : List(t)' = mirrors[t]
    BY <1>3, <2>1, MirroredLists
  <2> QED
    BY <1>1, <1>3, <2>2, <2>3
<1> QED
  BY <1>2, <1>3 DEF DeleteAll, Mirrored

LEMMA ReconcileDoes ==
    ASSUME ListsTypeOK, NEW t \in Inbounds, ReconcileMirror(t)
    PROVE  /\ t # Primary
           /\ last'.kind = "reconcileMirror" /\ last'.tag = t
           /\ last' \in [kind : Kinds, names : SUBSET Names, tag : Inbounds,
                         code : {"ok", "notFound", "error"}]
           /\ last'.code = "ok" => Decodable(List(Primary))
           /\ \/ /\ UNCHANGED document
                 /\ last'.code = "ok" => SameUserSet(List(t), List(Primary))
              \/ /\ Kindred
                 /\ Decodable(List(Primary)) /\ ~SameUserSet(List(t), List(Primary))
                 /\ List(t)' = Stripped(List(Primary))
                 /\ \A u \in Inbounds \ {t} : List(u)' = List(u)
<1> DEFINE sound == document[Primary].readable /\ document[t].readable /\ Decodable(List(Primary))
           same == SameUserSet(List(t), List(Primary))
<1>1. /\ t # Primary
      /\ Answer("reconcileMirror", {}, t, IF sound THEN "ok" ELSE "error")
      /\ \/ /\ sound /\ ~same
            /\ document' = [document EXCEPT ![t].clients =
                               AddUsersToList(<<>>, Stripped(List(Primary)))]
         \/ (sound => same) /\ UNCHANGED document
  BY DEF ReconcileMirror
<1>2. sound => Decodable(List(Primary))
  OBVIOUS
<1> HIDE DEF sound, same
<1>3. /\ last'.kind = "reconcileMirror" /\ last'.tag = t
      /\ last' \in [kind : Kinds, names : SUBSET Names, tag : Inbounds,
                    code : {"ok", "notFound", "error"}]
      /\ last'.code = "ok" => sound
  BY <1>1 DEF Answer, Kinds
<1>4. CASE (sound => same) /\ UNCHANGED document
  BY <1>1, <1>2, <1>3, <1>4 DEF same
<1>5. CASE /\ sound /\ ~same
           /\ document' = [document EXCEPT ![t].clients =
                              AddUsersToList(<<>>, Stripped(List(Primary)))]
  <2>1. List(Primary) \in Seq(Entries) /\ Decodable(List(Primary))
    BY <1>2, <1>5, ListsAreLists, ListsAssumption
  <2> DEFINE new == Stripped(List(Primary))
  <2>2. new \in Seq(Entries) /\ AddUsersToList(<<>>, new) = new
    BY <2>1, StrippedIs
  <2> HIDE DEF new
  <2>3. document' = [document EXCEPT ![t].clients = new]
    BY <1>5, <2>2 DEF new
  <2>4. document \in [Inbounds -> [readable : BOOLEAN, clients : Seq(Entries)]]
    BY DEF ListsTypeOK, Inbound
  <2>5. document' \in [Inbounds -> [readable : BOOLEAN, clients : Seq(Entries)]]
    BY <2>2, <2>3, <2>4
  <2>6. /\ document'[t].clients = new
        /\ \A u \in Inbounds : document'[u].readable = document[u].readable
        /\ \A u \in Inbounds \ {t} : document'[u] = document[u]
    BY <2>3, <2>4
  <2> QED
    BY <1>1, <1>3, <1>5, <2>1, <2>5, <2>6 DEF Kindred, List, Inbound, new, same
<1> QED
  BY <1>1, <1>4, <1>5

-----------------------------------------------------------------------------
(* Lists that sameUserSet takes for the same are: as many places, and a    *)
(* place of its own for every user of the target.                          *)

LEMMA SameIsEqual ==
    ASSUME NEW list \in Seq(Entries), NEW target \in Seq(Entries),
           Decodable(target), SameUserSet(list, target)
    PROVE  Decodable(list) /\ Users(list) = Users(target)
<1> DEFINE n == Len(target)
           f == [i \in 1..n |-> LastAt(list, target[i].email)]
<1>1. /\ n \in Nat /\ Len(list) = n
      /\ DOMAIN list = 1..n /\ DOMAIN target = 1..n
      /\ ToSet(list) = {list[i] : i \in 1..n} /\ ToSet(target) = {target[i] : i \in 1..n}
  BY Elements DEF SameUserSet
<1>2. /\ Junk \notin ToSet(list) /\ Junk \notin ToSet(target)
      /\ Blank \notin Emails(target) \cup Ids(target)
      /\ \A i, j \in 1..n : target[i].email = target[j].email \/ target[i].id = target[j].id => i = j
  BY <1>1 DEF SameUserSet, Decodable
<1>3. \A r \in ToSet(target) : r.email \in Emails(list) /\ list[LastAt(list, r.email)].id = r.id
  BY Zenon DEF SameUserSet, LastAt
<1> HIDE DEF n
<1>4. ASSUME NEW i \in 1..n
      PROVE  /\ f[i] \in 1..n
             /\ list[f[i]].email = target[i].email /\ list[f[i]].id = target[i].id
  <2>1. target[i].email \in Emails(list) /\ list[LastAt(list, target[i].email)].id = target[i].id
    BY <1>1, <1>3
  <2>2. /\ LastAt(list, target[i].email) \in 1..Len(list)
        /\ Is(list[LastAt(list, target[i].email)], target[i].email)
    BY <2>1, LastOf
  <2> QED
    BY <1>1, <2>1, <2>2 DEF Is
<1> HIDE DEF f
<1>5. f \in [1..n -> 1..n]
  <2>1. f = [i \in 1..n |-> f[i]]
    BY DEF f
  <2> QED
    BY <1>4, <2>1
<1>6. f \in Injection(1..n, 1..n)
  BY <1>2, <1>4, <1>5 DEF Injection, IsInjective
<1>7. f \in Surjection(1..n, 1..n)
  <2>1. IsFiniteSet(1..n)
    BY <1>1, FS_Interval
  <2> QED
    BY <1>6, <2>1, FS_Injection
<1>8. ASSUME NEW j \in 1..n
      PROVE  \E i \in 1..n :
                f[i] = j /\ list[j].email = target[i].email /\ list[j].id = target[i].id
  <2>1. \E i \in 1..n : f[i] = j
    BY <1>7, Zenon DEF Surjection
  <2> QED
    BY <1>4, <2>1
<1>9. /\ {j \in DOMAIN list : IsObject(list[j])} = 1..n
      /\ {j \in DOMAIN target : IsObject(target[j])} = 1..n
  BY <1>1, <1>2 DEF IsObject
<1>10. Users(list) = Users(target)
  <2>1. /\ Users(list) = {[name |-> list[i].email, uuid |-> list[i].id] : i \in 1..n}
        /\ Users(target) = {[name |-> target[i].email, uuid |-> target[i].id] : i \in 1..n}
    BY <1>9 DEF Users
  <2>2. ASSUME NEW u \in Users(list)
        PROVE  u \in Users(target)
    <3>1. PICK j \in 1..n : u = [name |-> list[j].email, uuid |-> list[j].id]
      BY <2>1
    <3>2. PICK i \in 1..n : list[j].email = target[i].email /\ list[j].id = target[i].id
      BY <1>8
    <3> QED
      BY <2>1, <3>1, <3>2
  <2>3. Users(target) \subseteq Users(list)
    BY <1>4, <2>1
  <2> QED
    BY <2>2, <2>3
<1>11. Blank \notin Emails(list) \cup Ids(list)
  <2>1. /\ Emails(list) = {list[i].email : i \in 1..n} /\ Ids(list) = {list[i].id : i \in 1..n}
        /\ Emails(target) = {target[i].email : i \in 1..n} /\ Ids(target) = {target[i].id : i \in 1..n}
    BY <1>9 DEF Emails, Ids
  <2>2. Emails(list) \subseteq Emails(target) /\ Ids(list) \subseteq Ids(target)
    <3>1. ASSUME NEW j \in 1..n
          PROVE  list[j].email \in Emails(target) /\ list[j].id \in Ids(target)
      <4>1. PICK i \in 1..n : list[j].email = target[i].email /\ list[j].id = target[i].id
        BY <1>8
      <4> QED
        BY <2>1, <4>1
    <3> QED
      BY <2>1, <3>1
  <2> QED
    BY <1>2, <2>2
<1>12. ASSUME NEW i \in 1..n, NEW j \in 1..n,
              list[i].email = list[j].email \/ list[i].id = list[j].id
       PROVE  i = j
  <2>1. PICK g \in 1..n : f[g] = i /\ list[i].email = target[g].email /\ list[i].id = target[g].id
    BY <1>8
  <2>2. PICK h \in 1..n : f[h] = j /\ list[j].email = target[h].email /\ list[j].id = target[h].id
    BY <1>8
  <2>3. g = h
    BY <1>2, <1>12, <2>1, <2>2
  <2> QED
    BY <2>1, <2>2, <2>3
<1> QED
  BY <1>1, <1>2, <1>10, <1>11, <1>12 DEF Decodable

-----------------------------------------------------------------------------
(* Types. *)

LEMMA TypeInit == Init => ListsTypeOK
BY DocumentsAssumption, ListsAssumption DEF Init, ListsTypeOK, Kinds

LEMMA TypeStep == ListsTypeOK /\ [Next]_vars => ListsTypeOK'
<1> SUFFICES ASSUME ListsTypeOK, [Next]_vars
             PROVE  ListsTypeOK'
  OBVIOUS
<1>1. ASSUME NEW N \in SUBSET Names, NEW names \in SetToSeqs(N), AddBulk(names)
      PROVE  ListsTypeOK'
  BY <1>1, AddBulkDoes DEF ListsTypeOK, Kindred
<1>2. ASSUME NEW name \in Names, Delete(name)
      PROVE  ListsTypeOK'
  BY <1>2, DeleteDoes DEF ListsTypeOK, Kindred
<1>3. ASSUME NEW name \in Names, Rotate(name)
      PROVE  ListsTypeOK'
  BY <1>3, RotateDoes DEF ListsTypeOK, Kindred
<1>4. CASE DeleteAll
  BY <1>4, DeleteAllDoes DEF ListsTypeOK, Kindred
<1>5. ASSUME NEW t \in Inbounds, ReconcileMirror(t)
      PROVE  ListsTypeOK'
  BY <1>5, ReconcileDoes DEF ListsTypeOK, Kindred
<1>6. CASE UNCHANGED vars
  BY <1>6 DEF vars, ListsTypeOK
<1> QED
  BY <1>1, <1>2, <1>3, <1>4, <1>5, <1>6 DEF Next

(* The lists stay lists of clients and of what is no client, and the       *)
(* answers answers (ConfigStore's operations).                             *)
THEOREM ListsTypeCorrect == Spec => []ListsTypeOK
<1>1. ListsTypeOK /\ [Next]_vars => ListsTypeOK'
  BY TypeStep
<1> QED
  BY <1>1, TypeInit, PTL DEF Spec

-----------------------------------------------------------------------------
(* The reconciled mirror. *)

LEMMA ReconciledInit == Init => ReconciledIsPrimary
BY DEF Init, ReconciledIsPrimary

LEMMA ReconciledStep == ListsTypeOK /\ ReconciledIsPrimary /\ [Next]_vars => ReconciledIsPrimary'
<1> SUFFICES ASSUME ListsTypeOK, ReconciledIsPrimary, [Next]_vars
             PROVE  ReconciledIsPrimary'
  OBVIOUS
<1>1. ASSUME NEW N \in SUBSET Names, NEW names \in SetToSeqs(N), AddBulk(names)
      PROVE  ReconciledIsPrimary'
  BY <1>1, AddBulkDoes DEF ReconciledIsPrimary
<1>2. ASSUME NEW name \in Names, Delete(name)
      PROVE  ReconciledIsPrimary'
  BY <1>2, DeleteDoes DEF ReconciledIsPrimary
<1>3. ASSUME NEW name \in Names, Rotate(name)
      PROVE  ReconciledIsPrimary'
  BY <1>3, RotateDoes DEF ReconciledIsPrimary
<1>4. CASE DeleteAll
  BY <1>4, DeleteAllDoes DEF ReconciledIsPrimary
<1>5. ASSUME NEW t \in Inbounds, ReconcileMirror(t)
      PROVE  ReconciledIsPrimary'
  <2> SUFFICES ASSUME last'.code = "ok"
               PROVE  Decodable(List(t)') /\ Users(List(t)') = Users(List(Primary)')
    <3>1. last'.tag = t
      BY <1>5, ReconcileDoes
    <3> QED
      BY <3>1 DEF ReconciledIsPrimary, List
  <2>1. /\ t # Primary /\ Decodable(List(Primary))
        /\ \/ UNCHANGED document /\ SameUserSet(List(t), List(Primary))
           \/ /\ List(t)' = Stripped(List(Primary))
              /\ \A u \in Inbounds \ {t} : List(u)' = List(u)
    BY <1>5, ReconcileDoes
  <2>2. Primary \in Inbounds /\ List(t) \in Seq(Entries) /\ List(Primary) \in Seq(Entries)
    BY ListsAssumption, ListsAreLists
  <2>3. CASE UNCHANGED document /\ SameUserSet(List(t), List(Primary))
    <3>1. Decodable(List(t)) /\ Users(List(t)) = Users(List(Primary))
      BY <2>1, <2>2, <2>3, SameIsEqual
    <3>2. List(t)' = List(t) /\ List(Primary)' = List(Primary)
      BY <2>3 DEF List
    <3> QED
      BY <3>1, <3>2
  <2>4. CASE /\ List(t)' = Stripped(List(Primary))
             /\ \A u \in Inbounds \ {t} : List(u)' = List(u)
    <3>1. /\ Decodable(Stripped(List(Primary)))
          /\ Users(Stripped(List(Primary))) = Users(List(Primary))
      BY <2>1, <2>2, StrippedIs
    <3>2. List(Primary)' = List(Primary)
      BY <2>1, <2>2, <2>4
    <3> QED
      BY <2>4, <3>1, <3>2
  <2> QED
    BY <2>1, <2>3, <2>4
<1>6. CASE UNCHANGED vars
  BY <1>6 DEF vars, ReconciledIsPrimary, List
<1> QED
  BY <1>1, <1>2, <1>3, <1>4, <1>5, <1>6 DEF Next

(* A mirror that reconcileMirror answers for has the primary's users, each *)
(* once, whether it was rewritten or was found to have them: that the      *)
(* lengths agree and every user of the primary is looked up with success   *)
(* leaves no place for another or for a second (sameUserSet).              *)
THEOREM ReconciledIsPrimaryAlways == Spec => []ReconciledIsPrimary
<1>1. ListsTypeOK /\ ReconciledIsPrimary /\ [Next]_vars => ReconciledIsPrimary'
  BY ReconciledStep
<1> QED
  BY <1>1, ReconciledInit, ListsTypeCorrect, PTL DEF Spec

-----------------------------------------------------------------------------
(* What the steps leave alone. *)

DecodableStays == \A t \in Inbounds : Decodable(List(t)) => Decodable(List(t)')

LEMMA DecodableStep == ListsTypeOK /\ [Next]_vars => DecodableStays
<1> SUFFICES ASSUME ListsTypeOK, [Next]_vars, NEW t \in Inbounds, Decodable(List(t))
             PROVE  Decodable(List(t)')
  BY DEF DecodableStays
<1> USE ListsAreLists
<1>0. List(t) \in Seq(Entries) /\ Primary \in Inbounds
  BY ListsAssumption
<1>1. CASE UNCHANGED document
  BY <1>1 DEF List
<1>2. ASSUME NEW N \in SUBSET Names, NEW names \in SetToSeqs(N), AddBulk(names), ~UNCHANGED document
      PROVE  Decodable(List(t)')
  <2>1. PICK own \in Seq(Entries), added \in Seq(Entries) :
           /\ Decodable(own) /\ Decodable(added)
           /\ Emails(own) = ToSet(names) \ Emails(List(Primary))
           /\ Ids(own) \subseteq Fresh /\ Ids(added) \subseteq Fresh
           /\ List(Primary)' = List(Primary) \o own
           /\ \A u \in Inbounds \ {Primary} : List(u)' = AddUsersToList(List(u), added)
    BY <1>2, AddBulkAdds
  <2>4. Ids(List(t)) \cap Ids(own) = {} /\ Ids(List(t)) \cap Ids(added) = {}
    BY <2>1, FreshIs
  <2>5. CASE t = Primary
    <3>1. Emails(List(t)) \cap Emails(own) = {}
      BY <2>1, <2>5
    <3>2. Decodable(List(t) \o own)
      BY <1>0, <2>1, <2>4, <3>1, DecodableConcat
    <3> QED
      BY <2>1, <2>5, <3>2
  <2>6. CASE t # Primary
    <3>1. Decodable(AddUsersToList(List(t), added))
      BY <1>0, <2>1, <2>4, AddedTo
    <3> QED
      BY <2>1, <2>6, <3>1
  <2> QED
    BY <2>5, <2>6
<1>3. ASSUME NEW name \in Names, Delete(name), ~UNCHANGED document
      PROVE  Decodable(List(t)')
  <2>1. List(t)' = RemoveUsersFromList(List(t), name)
    BY <1>3, DeleteDoes
  <2> QED
    BY <1>0, <2>1, RemovedFrom
<1>4. ASSUME NEW name \in Names, Rotate(name), ~UNCHANGED document
      PROVE  Decodable(List(t)')
  <2>1. PICK id \in Fresh : \A u \in Inbounds : List(u)' = RotateUserInList(List(u), name, id)
    BY <1>4, RotateDoes
  <2>2. id \in UUIDs /\ id \notin Ids(List(t))
    BY FreshIs
  <2>3. Decodable(RotateUserInList(List(t), name, id))
    BY <1>0, <2>2, RotatedIn
  <2> QED
    BY <2>1, <2>3
<1>5. CASE DeleteAll /\ ~UNCHANGED document
  BY <1>5, DeleteAllDoes, DecodableNone
<1>6. ASSUME NEW u \in Inbounds, ReconcileMirror(u), ~UNCHANGED document
      PROVE  Decodable(List(t)')
  <2>1. /\ Decodable(List(Primary))
        /\ List(u)' = Stripped(List(Primary))
        /\ \A v \in Inbounds \ {u} : List(v)' = List(v)
    BY <1>6, ReconcileDoes
  <2>2. Decodable(Stripped(List(Primary)))
    BY <1>0, <2>1, StrippedIs
  <2> QED
    BY <2>1, <2>2
<1> QED
  BY <1>1, <1>2, <1>3, <1>4, <1>5, <1>6 DEF Next, vars

(* No operation makes a list that decodeUserRecords refuses of one that it *)
(* accepts (AddBulk, Delete, Rotate, DeleteAll, reconcileMirror).          *)
THEOREM StaysDecodableAlways == Spec => StaysDecodable
<1>1. ListsTypeOK /\ [Next]_vars => [DecodableStays]_vars
  BY DecodableStep
<1> QED
  BY <1>1, ListsTypeCorrect, PTL DEF Spec, StaysDecodable, DecodableStays

FlowStays ==
    \A t \in Inbounds \ {Primary} : TRUE \notin FlowOf(List(t)) => TRUE \notin FlowOf(List(t)')

LEMMA FlowStep == ListsTypeOK /\ [Next]_vars => FlowStays
<1> SUFFICES ASSUME ListsTypeOK, [Next]_vars, NEW t \in Inbounds \ {Primary}, TRUE \notin FlowOf(List(t))
             PROVE  TRUE \notin FlowOf(List(t)')
  BY DEF FlowStays
<1>0. List(t) \in Seq(Entries) /\ List(Primary) \in Seq(Entries) /\ TRUE # FALSE
  BY ListsAssumption, ListsAreLists
<1>1. CASE UNCHANGED document
  BY <1>1 DEF List
<1>2. ASSUME NEW N \in SUBSET Names, NEW names \in SetToSeqs(N), AddBulk(names), ~UNCHANGED document
      PROVE  TRUE \notin FlowOf(List(t)')
  <2>1. PICK added \in Seq(Entries) :
           /\ FlowOf(added) \subseteq {FALSE}
           /\ \A u \in Inbounds \ {Primary} : List(u)' = AddUsersToList(List(u), added)
    BY <1>2, AddBulkAdds
  <2>4. FlowOf(AddUsersToList(List(t), added)) \subseteq FlowOf(List(t)) \cup FlowOf(added)
    BY <1>0, <2>1, AddedTo
  <2>5. TRUE \notin FlowOf(AddUsersToList(List(t), added))
    BY <1>0, <2>1, <2>4
  <2> QED
    BY <2>1, <2>5
<1>3. ASSUME NEW name \in Names, Delete(name), ~UNCHANGED document
      PROVE  TRUE \notin FlowOf(List(t)')
  <2>1. List(t)' = RemoveUsersFromList(List(t), name)
    BY <1>3, DeleteDoes
  <2>2. FlowOf(RemoveUsersFromList(List(t), name)) \subseteq FlowOf(List(t))
    BY <1>0, RemovedFrom
  <2> QED
    BY <2>1, <2>2
<1>4. ASSUME NEW name \in Names, Rotate(name), ~UNCHANGED document
      PROVE  TRUE \notin FlowOf(List(t)')
  <2>1. PICK id \in Fresh : \A u \in Inbounds : List(u)' = RotateUserInList(List(u), name, id)
    BY <1>4, RotateDoes
  <2>2. FlowOf(RotateUserInList(List(t), name, id)) \subseteq FlowOf(List(t)) \cup {FALSE}
    BY <1>0, FreshIs, RotatedIn
  <2> QED
    BY <1>0, <2>1, <2>2
<1>5. CASE DeleteAll /\ ~UNCHANGED document
  <2>1. List(t)' = <<>>
    BY <1>5, DeleteAllDoes
  <2>2. FlowOf(<<>>) = {}
    BY DEF FlowOf
  <2> QED
    BY <2>1, <2>2
<1>6. ASSUME NEW u \in Inbounds, ReconcileMirror(u), ~UNCHANGED document
      PROVE  TRUE \notin FlowOf(List(t)')
  <2>1. /\ Decodable(List(Primary))
        /\ List(u)' = Stripped(List(Primary))
        /\ \A v \in Inbounds \ {u} : List(v)' = List(v)
    BY <1>6, ReconcileDoes
  <2>2. FlowOf(Stripped(List(Primary))) \subseteq {FALSE}
    BY <1>0, <2>1, StrippedIs
  <2> QED
    BY <1>0, <2>1, <2>2
<1> QED
  BY <1>1, <1>2, <1>3, <1>4, <1>5, <1>6 DEF Next, vars

(* No mirror gets a flow, though the primary has one and its users are     *)
(* what the mirrors are made of (addUsersToList, rotateUserInList).        *)
THEOREM FlowStaysHomeAlways == Spec => FlowStaysHome
<1>1. ListsTypeOK /\ [Next]_vars => [FlowStays]_vars
  BY FlowStep
<1> QED
  BY <1>1, ListsTypeCorrect, PTL DEF Spec, FlowStaysHome, FlowStays

LeavesNone ==
    last'.code = "ok" =>
        \A t \in Inbounds :
            /\ last'.kind = "delete" => last'.names \cap Emails(List(t)') = {}
            /\ last'.kind = "rotate" => last'.names \subseteq Emails(List(t)')
            /\ last'.kind = "deleteAll" /\ List(Primary) # <<>> => List(t)' = <<>>

LEMMA NoneIsLeftStep == ListsTypeOK /\ Next => LeavesNone
<1> SUFFICES ASSUME ListsTypeOK, Next, last'.code = "ok"
             PROVE  \A t \in Inbounds :
                       /\ last'.kind = "delete" => last'.names \cap Emails(List(t)') = {}
                       /\ last'.kind = "rotate" => last'.names \subseteq Emails(List(t)')
                       /\ last'.kind = "deleteAll" /\ List(Primary) # <<>> => List(t)' = <<>>
  BY DEF LeavesNone
<1>1. ASSUME NEW N \in SUBSET Names, NEW names \in SetToSeqs(N), AddBulk(names)
      PROVE  last'.kind = "addBulk"
  BY <1>1, AddBulkDoes
<1>2. ASSUME NEW name \in Names, Delete(name), NEW t \in Inbounds
      PROVE  last'.kind = "delete" /\ last'.names \cap Emails(List(t)') = {}
  <2>1. /\ last'.kind = "delete" /\ last'.names = {name}
        /\ List(t)' = RemoveUsersFromList(List(t), name)
    BY <1>2, DeleteDoes
  <2>2. name \notin Emails(RemoveUsersFromList(List(t), name))
    BY ListsAreLists, RemovedFrom
  <2> QED
    BY <2>1, <2>2
<1>3. ASSUME NEW name \in Names, Rotate(name), NEW t \in Inbounds
      PROVE  last'.kind = "rotate" /\ last'.names \subseteq Emails(List(t)')
  <2>1. last'.kind = "rotate" /\ last'.names = {name}
    BY <1>3, RotateDoes
  <2>2. PICK id \in Fresh : \A u \in Inbounds : List(u)' = RotateUserInList(List(u), name, id)
    BY <1>3, RotateDoes
  <2>3. name \in Emails(RotateUserInList(List(t), name, id))
    BY FreshIs, ListsAreLists, RotatedIn
  <2> QED
    BY <2>1, <2>2, <2>3
<1>4. ASSUME DeleteAll, NEW t \in Inbounds
      PROVE  last'.kind = "deleteAll" /\ (List(Primary) # <<>> => List(t)' = <<>>)
  BY <1>4, DeleteAllDoes
<1>5. ASSUME NEW u \in Inbounds, ReconcileMirror(u)
      PROVE  last'.kind = "reconcileMirror"
  BY <1>5, ReconcileDoes
<1> QED
  BY <1>1, <1>2, <1>3, <1>4, <1>5 DEF Next

(* A deletion or a rotation that is answered with success has gone through *)
(* all the lists of the document (Delete, Rotate, DeleteAll, mirrorUsers). *)
THEOREM NoneIsLeftAlways == Spec => NoneIsLeft
<1>1. ListsTypeOK /\ [Next]_vars => [LeavesNone]_vars
  BY NoneIsLeftStep
<1> QED
  BY <1>1, ListsTypeCorrect, PTL DEF Spec, NoneIsLeft, LeavesNone

LeavesOthers ==
    last'.kind \in {"addBulk", "delete", "rotate"} =>
        \A t \in Inbounds :
            /\ Keep(List(t)', Others(last'.names)) = Keep(List(t), Others(last'.names))
            /\ last'.kind = "rotate" /\ last'.names \subseteq Emails(List(t)) =>
                  Places(List(t)') = Places(List(t))

LEMMA OthersStep == ListsTypeOK /\ Next => LeavesOthers
<1> SUFFICES ASSUME ListsTypeOK, Next, last'.kind \in {"addBulk", "delete", "rotate"}, NEW t \in Inbounds
             PROVE  /\ Keep(List(t)', Others(last'.names)) = Keep(List(t), Others(last'.names))
                    /\ last'.kind = "rotate" /\ last'.names \subseteq Emails(List(t)) =>
                          Places(List(t)') = Places(List(t))
  BY DEF LeavesOthers
<1>0. List(t) \in Seq(Entries)
  BY ListsAreLists
<1>1. CASE UNCHANGED document
  <2>1. List(t)' = List(t)
    BY <1>1 DEF List
  <2> QED
    BY <2>1
<1>2. ASSUME NEW N \in SUBSET Names, NEW names \in SetToSeqs(N), AddBulk(names), ~UNCHANGED document
      PROVE  /\ last'.kind = "addBulk"
             /\ Keep(List(t)', Others(last'.names)) = Keep(List(t), Others(last'.names))
  <2>1. last'.kind = "addBulk" /\ last'.names = ToSet(names)
    BY <1>2, AddBulkDoes
  <2>2. PICK own \in Seq(Entries), added \in Seq(Entries) :
           /\ Junk \notin ToSet(own) /\ Junk \notin ToSet(added)
           /\ Emails(own) = ToSet(names) \ Emails(List(Primary))
           /\ Emails(added) = Emails(own)
           /\ List(Primary)' = List(Primary) \o own
           /\ \A u \in Inbounds \ {Primary} : List(u)' = AddUsersToList(List(u), added)
    BY <1>2, AddBulkAdds
  <2> DEFINE O == Others(ToSet(names))
  <2>3. Emails(own) \subseteq ToSet(names) /\ Emails(added) \subseteq ToSet(names)
    BY <2>2
  <2>4. Keep(List(t) \o own, O) = Keep(List(t), O)
    BY <1>0, <2>2, <2>3, AddedLeaves
  <2>5. Keep(AddUsersToList(List(t), added), O) = Keep(List(t), O)
    BY <1>0, <2>2, <2>3, AddedLeaves
  <2>6. Keep(List(t)', O) = Keep(List(t), O)
    BY <2>2, <2>4, <2>5
  <2> QED
    BY <2>1, <2>6
<1>3. ASSUME NEW name \in Names, Delete(name), ~UNCHANGED document
      PROVE  /\ last'.kind = "delete"
             /\ Keep(List(t)', Others(last'.names)) = Keep(List(t), Others(last'.names))
  <2>1. /\ last'.kind = "delete" /\ last'.names = {name}
        /\ List(t)' = RemoveUsersFromList(List(t), name)
    BY <1>3, DeleteDoes
  <2>2. Keep(RemoveUsersFromList(List(t), name), Others({name})) = Keep(List(t), Others({name}))
    BY <1>0, RemovedFrom
  <2> QED
    BY <2>1, <2>2
<1>4. ASSUME NEW name \in Names, Rotate(name), ~UNCHANGED document
      PROVE  /\ Keep(List(t)', Others(last'.names)) = Keep(List(t), Others(last'.names))
             /\ last'.names \subseteq Emails(List(t)) => Places(List(t)') = Places(List(t))
  <2>1. last'.names = {name}
    BY <1>4, RotateDoes
  <2>2. PICK id \in Fresh : \A u \in Inbounds : List(u)' = RotateUserInList(List(u), name, id)
    BY <1>4, RotateDoes
  <2> DEFINE new == RotateUserInList(List(t), name, id)
  <2>3. /\ Keep(new, Others({name})) = Keep(List(t), Others({name}))
        /\ name \in Emails(List(t)) => Places(new) = Places(List(t))
    BY <1>0, FreshIs, RotatedIn
  <2>4. List(t)' = new
    BY <2>2
  <2> HIDE DEF new
  <2> QED
    BY <2>1, <2>3, <2>4
<1>5. CASE DeleteAll
  BY <1>5, DeleteAllDoes
<1>6. ASSUME NEW u \in Inbounds, ReconcileMirror(u)
      PROVE  FALSE
  BY <1>6, ReconcileDoes
<1> QED
  BY <1>1, <1>2, <1>3, <1>4, <1>5, <1>6 DEF Next

(* AddBulk, Delete and Rotate leave every entry of the other names where   *)
(* and what it is, and a rotation the user's own place                     *)
(* (removeUsersFromList, rotateUserInList, addUsersToList).                *)
THEOREM OthersUntouchedAlways == Spec => OthersUntouched
<1>1. ListsTypeOK /\ [Next]_vars => [LeavesOthers]_vars
  BY OthersStep
<1> QED
  BY <1>1, ListsTypeCorrect, PTL DEF Spec, OthersUntouched, LeavesOthers

-----------------------------------------------------------------------------
(* The lists as the sets of users that Clients and ClientSets take them    *)
(* for.                                                                    *)

LEMMA UsersOf ==
    ASSUME NEW list \in Seq(Entries)
    PROVE  /\ Sets!NamesOf(Users(list)) = Emails(list)
           /\ Sets!IdsOf(Users(list)) = Ids(list)
<1> DEFINE objects == {x \in ToSet(list) : IsObject(x)}
<1>1. /\ Users(list) = {[name |-> x.email, uuid |-> x.id] : x \in objects}
      /\ Emails(list) = {x.email : x \in objects}
      /\ Ids(list) = {x.id : x \in objects}
  BY FieldsAre
<1> HIDE DEF objects
<1>2. \A x \in objects : /\ [name |-> x.email, uuid |-> x.id] \in Users(list)
                         /\ x.email \in Emails(list) /\ x.id \in Ids(list)
  BY <1>1
<1>3. ASSUME NEW e \in Users(list)
      PROVE  e.name \in Emails(list) /\ e.uuid \in Ids(list)
  <2>1. PICK x \in objects : e = [name |-> x.email, uuid |-> x.id]
    BY <1>1
  <2> QED
    BY <1>2, <2>1
<1>4. ASSUME NEW n \in Emails(list)
      PROVE  n \in Sets!NamesOf(Users(list))
  <2>1. PICK x \in objects : n = x.email
    BY <1>1
  <2>2. [name |-> x.email, uuid |-> x.id].name = n
    BY <2>1
  <2> QED
    BY <1>2, <2>2, Zenon DEF Sets!NamesOf
<1>5. ASSUME NEW n \in Ids(list)
      PROVE  n \in Sets!IdsOf(Users(list))
  <2>1. PICK x \in objects : n = x.id
    BY <1>1
  <2>2. [name |-> x.email, uuid |-> x.id].uuid = n
    BY <2>1
  <2> QED
    BY <1>2, <2>2, Zenon DEF Sets!IdsOf
<1>6. Sets!NamesOf(Users(list)) \subseteq Emails(list) /\ Sets!IdsOf(Users(list)) \subseteq Ids(list)
  BY <1>3 DEF Sets!NamesOf, Sets!IdsOf
<1> QED
  BY <1>4, <1>5, <1>6

LEMMA UsersInList ==
    ASSUME NEW list \in Seq(Entries), NEW u
    PROVE  u \in Users(list) <=>
              \E x \in ToSet(list) : IsObject(x) /\ u = [name |-> x.email, uuid |-> x.id]
BY FieldsAre

LEMMA UsersAdded ==
    ASSUME NEW list \in Seq(Entries), NEW added \in Seq(Entries)
    PROVE  Users(AddUsersToList(list, added)) = Sets!AddUsersToList(Users(list), Users(added))
<1> DEFINE S == {r \in Client : r.email \notin Emails(list)}
           new == Keep(added, S)
           late == {e \in Users(added) : e.name \notin Emails(list)}
<1>1. new \in Seq(Entries) /\ ToSet(new) = ToSet(added) \cap S
  BY KeepElements
<1>2. \A x \in ToSet(added) : IsObject(x) <=> x \in Client
  BY Objects, Elements
<1> HIDE DEF new
<1>3. ASSUME NEW u
      PROVE  u \in Users(new) <=> u \in late
  <2>1. ASSUME u \in Users(new)
        PROVE  u \in late
    <3>1. PICK x \in ToSet(new) : IsObject(x) /\ u = [name |-> x.email, uuid |-> x.id]
      BY <1>1, <2>1, UsersInList
    <3>2. x \in ToSet(added) /\ x.email \notin Emails(list)
      BY <1>1
    <3>3. u \in Users(added)
      BY <3>1, <3>2, UsersInList
    <3> QED
      BY <3>1, <3>2, <3>3
  <2>2. ASSUME u \in late
        PROVE  u \in Users(new)
    <3>1. u \in Users(added) /\ u.name \notin Emails(list)
      BY <2>2
    <3>2. PICK x \in ToSet(added) : IsObject(x) /\ u = [name |-> x.email, uuid |-> x.id]
      BY <3>1, UsersInList
    <3>3. x.email \notin Emails(list)
      BY <3>1, <3>2
    <3>4. x \in ToSet(new)
      BY <1>1, <1>2, <3>2, <3>3
    <3> QED
      BY <1>1, <3>2, <3>4, UsersInList
  <2> QED
    BY <2>1, <2>2
<1>4. Users(new) = late
  <2> HIDE DEF late
  <2> QED
    BY <1>3
<1>5. Users(list \o new) = Users(list) \cup Users(new)
  BY <1>1, FieldsOfConcat
<1>6. AddUsersToList(list, added) = list \o new
  BY DEF AddUsersToList, new
<1> QED
  BY <1>4, <1>5, <1>6, UsersOf DEF Sets!AddUsersToList

LEMMA UsersRemoved ==
    ASSUME NEW list \in Seq(Entries), NEW name
    PROVE  Users(RemoveUsersFromList(list, name)) = Sets!RemoveUsersFromList(Users(list), {name})
<1> DEFINE new == RemoveUsersFromList(list, name)
           rest == {e \in Users(list) : e.name \notin {name}}
<1>1. new \in Seq(Entries) /\ ToSet(new) = ToSet(list) \cap Others({name})
  BY KeepElements DEF RemoveUsersFromList
<1>2. \A x \in ToSet(list) : x \in Entries
  BY Elements
<1> HIDE DEF new
<1>3. ASSUME NEW u
      PROVE  u \in Users(new) <=> u \in rest
  <2>1. ASSUME u \in Users(new)
        PROVE  u \in rest
    <3>1. PICK x \in ToSet(new) : IsObject(x) /\ u = [name |-> x.email, uuid |-> x.id]
      BY <1>1, <2>1, UsersInList
    <3>2. x \in ToSet(list) /\ x.email # name
      BY <1>1, <3>1 DEF Others
    <3>3. u \in Users(list)
      BY <3>1, <3>2, UsersInList
    <3> QED
      BY <3>1, <3>2, <3>3
  <2>2. ASSUME u \in rest
        PROVE  u \in Users(new)
    <3>1. u \in Users(list) /\ u.name # name
      BY <2>2
    <3>2. PICK x \in ToSet(list) : IsObject(x) /\ u = [name |-> x.email, uuid |-> x.id]
      BY <3>1, UsersInList
    <3>3. x \in Others({name})
      BY <1>2, <3>1, <3>2 DEF Others
    <3> QED
      BY <1>1, <3>2, <3>3, UsersInList
  <2> QED
    BY <2>1, <2>2
<1>4. Users(new) = rest
  <2> HIDE DEF rest
  <2> QED
    BY <1>3
<1> QED
  BY <1>4 DEF new, Sets!RemoveUsersFromList, Sets!Without

LEMMA DecodableUsers ==
    ASSUME NEW list \in Seq(Entries), Decodable(list)
    PROVE  /\ Users(list) = {[name |-> list[i].email, uuid |-> list[i].id] : i \in 1..Len(list)}
           /\ \A i \in 1..Len(list) : list[i] \in Client
           /\ Users(list) \subseteq Sets!Entry
           /\ Sets!WellFormed(Users(list))
<1>1. /\ DOMAIN list = 1..Len(list) /\ ToSet(list) = {list[i] : i \in 1..Len(list)}
      /\ \A i \in 1..Len(list) : list[i] \in Entries
  BY Elements, ElementOfSeq
<1>2. \A i \in 1..Len(list) : list[i] \in Client /\ IsObject(list[i])
  BY <1>1 DEF Decodable, Entries, IsObject
<1>3. Users(list) = {[name |-> list[i].email, uuid |-> list[i].id] : i \in 1..Len(list)}
  BY <1>1, <1>2 DEF Users
<1>4. \A i \in 1..Len(list) : list[i].email \in Names /\ list[i].id \in UUIDs
  <2>1. \A i \in 1..Len(list) : list[i].email \in Emails(list) /\ list[i].id \in Ids(list)
    BY <1>1, <1>2 DEF Emails, Ids
  <2>2. Emails(list) \subseteq Names \cup {Blank} /\ Ids(list) \subseteq UUIDs \cup {Blank}
    BY FieldTypes
  <2> QED
    BY <2>1, <2>2 DEF Decodable
<1>5. Users(list) \subseteq Sets!Entry
  BY <1>3, <1>4 DEF Sets!Entry
<1>6. \A i, j \in 1..Len(list) : list[i].email = list[j].email \/ list[i].id = list[j].id => i = j
  BY <1>1 DEF Decodable
<1>7. Sets!WellFormed(Users(list))
  <2> SUFFICES ASSUME NEW d \in Users(list), NEW e \in Users(list), d.name = e.name \/ d.uuid = e.uuid
               PROVE  d = e
    BY DEF Sets!WellFormed
  <2>1. PICK i \in 1..Len(list) : d = [name |-> list[i].email, uuid |-> list[i].id]
    BY <1>3
  <2>2. PICK j \in 1..Len(list) : e = [name |-> list[j].email, uuid |-> list[j].id]
    BY <1>3
  <2>3. list[i].email = list[j].email \/ list[i].id = list[j].id
    BY <2>1, <2>2
  <2> QED
    BY <1>6, <2>1, <2>2, <2>3
<1> QED
  BY <1>2, <1>3, <1>5, <1>7

LEMMA UsersRotated ==
    ASSUME NEW list \in Seq(Entries), Decodable(list), NEW name \in Names, NEW id \in UUIDs
    PROVE  Users(RotateUserInList(list, name, id)) = Sets!RotateUserInList(Users(list), name, id)
<1> DEFINE u == [name |-> name, uuid |-> id]
           rest == {e \in Users(list) : e.name \notin {name}}
<1>1. Sets!RotateUserInList(Users(list), name, id) = rest \cup {u}
  BY DEF Sets!RotateUserInList, Sets!Without
<1>2. /\ Users(list) = {[name |-> list[i].email, uuid |-> list[i].id] : i \in 1..Len(list)}
      /\ \A i \in 1..Len(list) : list[i] \in Client
  BY DecodableUsers
<1>3. /\ DOMAIN list = 1..Len(list)
      /\ \A i, j \in 1..Len(list) : list[i].email = list[j].email => i = j
  BY Elements DEF Decodable
<1>4. CASE name \in Emails(list)
  <2> DEFINE new == SetId(list, name, id)
  <2>1. new \in Seq(Entries) /\ Len(new) = Len(list) /\ DOMAIN new = 1..Len(list)
    BY <1>4, SetIdAt, Elements
  <2>2. PICK at \in 1..Len(list) :
           /\ list[at] \in Client /\ list[at].email = name
           /\ new[at] \in Client
           /\ new[at].email = name /\ new[at].id = id
           /\ \A j \in 1..Len(list) : j # at => new[j] = list[j]
    BY <1>4, SetIdAt
  <2> HIDE DEF new
  <2>3. \A j \in 1..Len(list) : IsObject(new[j])
    BY <1>2, <2>2, DocumentsAssumption DEF IsObject
  <2>4. Users(new) = {[name |-> new[i].email, uuid |-> new[i].id] : i \in 1..Len(list)}
    BY <2>1, <2>3 DEF Users
  <2>5. ASSUME NEW v \in Users(new)
        PROVE  v \in rest \cup {u}
    <3>1. PICK i \in 1..Len(list) : v = [name |-> new[i].email, uuid |-> new[i].id]
      BY <2>4
    <3>2. CASE i = at
      BY <2>2, <3>1, <3>2
    <3>3. CASE i # at
      <4>1. v = [name |-> list[i].email, uuid |-> list[i].id] /\ list[i].email # name
        BY <1>3, <2>2, <3>1, <3>3
      <4> QED
        BY <1>2, <4>1
    <3> QED
      BY <3>2, <3>3
  <2>6. ASSUME NEW v \in rest \cup {u}
        PROVE  v \in Users(new)
    <3>1. CASE v = u
      BY <2>2, <2>4, <3>1
    <3>2. CASE v \in rest
      <4>1. PICK i \in 1..Len(list) : v = [name |-> list[i].email, uuid |-> list[i].id]
        BY <1>2, <3>2
      <4>2. i # at
        BY <2>2, <3>2, <4>1
      <4> QED
        BY <2>2, <2>4, <4>1, <4>2
    <3> QED
      BY <3>1, <3>2
  <2>7. Users(new) = rest \cup {u}
    <3> HIDE DEF rest, u
    <3> QED
      BY <2>5, <2>6
  <2> QED
    BY <1>1, <1>4, <2>7 DEF RotateUserInList, new
<1>5. CASE name \notin Emails(list)
  <2> DEFINE new == Append(list, User(name, id))
  <2>1. /\ User(name, id) \in Entries /\ IsObject(User(name, id))
        /\ User(name, id).email = name /\ User(name, id).id = id
    BY UserIsClient
  <2>2. new \in Seq(Entries) /\ ToSet(new) = ToSet(list) \cup {User(name, id)}
    BY <2>1, AppendProperties, ElementsOfAppend
  <2> HIDE DEF new
  <2>3. Users(new) = Users(list) \cup {u}
    <3>1. ASSUME NEW v
          PROVE  v \in Users(new) <=> v \in Users(list) \/ v = u
      <4>1. v \in Users(new) <=>
               \E x \in ToSet(new) : IsObject(x) /\ v = [name |-> x.email, uuid |-> x.id]
        BY <2>2, UsersInList
      <4>2. v \in Users(list) <=>
               \E x \in ToSet(list) : IsObject(x) /\ v = [name |-> x.email, uuid |-> x.id]
        BY UsersInList
      <4> QED
        BY <2>1, <2>2, <4>1, <4>2
    <3> HIDE DEF u
    <3> QED
      BY <3>1
  <2>4. rest = Users(list)
    <3>1. \A e \in Users(list) : e.name \in Emails(list)
      BY UsersOf DEF Sets!NamesOf
    <3> QED
      BY <1>5, <3>1
  <2> QED
    BY <1>1, <1>5, <2>3, <2>4 DEF RotateUserInList, new
<1> QED
  BY <1>4, <1>5

(* Lists of the same users have as many places: a place of the one has a   *)
(* place of its own in the other.                                          *)
LEMMA AsManyPlaces ==
    ASSUME NEW list \in Seq(Entries), NEW target \in Seq(Entries), Decodable(list), Decodable(target),
           Users(list) \subseteq Users(target)
    PROVE  Len(list) <= Len(target)
<1> DEFINE n == Len(list)
           m == Len(target)
           f == [i \in 1..n |-> CHOOSE j \in 1..m : target[j].email = list[i].email]
<1>1. n \in Nat /\ m \in Nat
  BY Elements
<1>2. \A i, j \in 1..n : list[i].email = list[j].email => i = j
  BY Elements DEF Decodable
<1>3. ASSUME NEW i \in 1..n
      PROVE  \E j \in 1..m : target[j].email = list[i].email
  <2>1. [name |-> list[i].email, uuid |-> list[i].id] \in Users(target)
    BY DecodableUsers
  <2>2. PICK j \in 1..m : [name |-> list[i].email, uuid |-> list[i].id]
                            = [name |-> target[j].email, uuid |-> target[j].id]
    BY <2>1, DecodableUsers
  <2> QED
    BY <2>2
<1> HIDE DEF n, m
<1>4. \A i \in 1..n : f[i] \in 1..m /\ target[f[i]].email = list[i].email
  BY <1>3
<1>5. f \in [1..n -> 1..m]
  BY <1>4
<1> HIDE DEF f
<1>6. f \in Injection(1..n, 1..m)
  BY <1>2, <1>4, <1>5 DEF Injection, IsInjective
<1>7. Cardinality(1..n) <= Cardinality(1..m)
  <2>1. IsFiniteSet(1..m)
    BY <1>1, FS_Interval
  <2> QED
    BY <1>6, <2>1, FS_Injection
<1>8. n <= m
  <2>1. /\ Cardinality(1..n) = IF 1 > n THEN 0 ELSE n - 1 + 1
        /\ Cardinality(1..m) = IF 1 > m THEN 0 ELSE m - 1 + 1
    BY <1>1, FS_Interval
  <2>2. Cardinality(1..n) = n /\ Cardinality(1..m) = m
    BY <1>1, <2>1
  <2> QED
    BY <1>7, <2>2
<1> QED
  BY <1>8 DEF n, m

LEMMA EqualIsSame ==
    ASSUME NEW list \in Seq(Entries), NEW target \in Seq(Entries), Decodable(list), Decodable(target),
           Users(list) = Users(target)
    PROVE  SameUserSet(list, target)
<1>1. Len(list) = Len(target)
  <2>1. Len(list) <= Len(target) /\ Len(target) <= Len(list)
    BY AsManyPlaces
  <2> QED
    BY <2>1, Elements
<1>2. Junk \notin ToSet(list)
  BY DEF Decodable
<1>3. ASSUME NEW r \in ToSet(target)
      PROVE  r.email \in Emails(list) /\ list[LastAt(list, r.email)].id = r.id
  <2>1. IsObject(r)
    BY DEF Decodable, IsObject
  <2>2. [name |-> r.email, uuid |-> r.id] \in Users(list)
    BY <2>1, UsersInList
  <2>3. r.email \in Emails(list)
    <3>1. r.email \in Sets!NamesOf(Users(list))
      BY <2>2 DEF Sets!NamesOf
    <3> QED
      BY <3>1, UsersOf
  <2> DEFINE at == LastAt(list, r.email)
  <2>4. at \in 1..Len(list) /\ Is(list[at], r.email)
    BY <2>3, LastOf
  <2> HIDE DEF at
  <2>5. [name |-> list[at].email, uuid |-> list[at].id] \in Users(list)
    BY <2>4, DecodableUsers
  <2>6. list[at].id = r.id
    BY <2>2, <2>4, <2>5, DecodableUsers DEF Sets!WellFormed, Is
  <2> QED
    BY <2>3, <2>6 DEF at
<1> QED
  BY <1>1, <1>2, <1>3, Zenon DEF SameUserSet, LastAt

-----------------------------------------------------------------------------
(* Step by step. *)

LEMMA FreshOfSets ==
    ASSUME ListsTypeOK
    PROVE  Sets!Fresh = Fresh
<1> DEFINE ids == {Ids(List(t)) : t \in Inbounds}
<1>1. {Sets!IdsOf([t \in Inbounds |-> Users(List(t))][u]) : u \in Inbounds} = ids
  <2>1. \A u \in Inbounds : Sets!IdsOf([t \in Inbounds |-> Users(List(t))][u]) = Ids(List(u))
    BY ListsAreLists, UsersOf
  <2> QED
    BY <2>1
<1> QED
  BY <1>1 DEF Sets!Fresh, Fresh

(* The users of a bulk are new users of their names, as NewUsers has them. *)
LEMMA MadeAreNew ==
    ASSUME ListsTypeOK, NEW fresh \in Seq(Names), NEW ids \in Injection(DOMAIN fresh, Fresh),
           IsInjective(fresh), NEW b \in BOOLEAN
    PROVE  Users(Made(fresh, ids, b)) \in Sets!NewUsers(ToSet(fresh), Sets!Fresh)
<1> DEFINE N == ToSet(fresh)
           at(n) == CHOOSE i \in DOMAIN fresh : fresh[i] = n
           f == [n \in N |-> ids[at(n)]]
           made == {[name |-> fresh[i], uuid |-> ids[i]] : i \in DOMAIN fresh}
<1>1. /\ ids \in [DOMAIN fresh -> UUIDs]
      /\ \A i \in DOMAIN fresh : ids[i] \in Fresh
      /\ \A i, j \in DOMAIN fresh : ids[i] = ids[j] => i = j
      /\ \A i, j \in DOMAIN fresh : fresh[i] = fresh[j] => i = j
  BY FreshIs DEF Injection, IsInjective
<1>2. Users(Made(fresh, ids, b)) = made
  BY <1>1, MadeClients
<1>3. N = {fresh[i] : i \in DOMAIN fresh}
  BY DEF ToSet
<1>4. \A n \in N : at(n) \in DOMAIN fresh /\ fresh[at(n)] = n
  BY <1>3
<1>5. \A i \in DOMAIN fresh : fresh[i] \in N /\ at(fresh[i]) = i
  BY <1>1, <1>3, <1>4
<1> HIDE DEF at, N
<1>6. f \in [N -> Fresh] /\ \A m, n \in N : f[m] = f[n] => m = n
  BY <1>1, <1>4
<1>7. {[name |-> n, uuid |-> f[n]] : n \in N} = made
  <2>1. ASSUME NEW n \in N
        PROVE  [name |-> n, uuid |-> f[n]] \in made
    BY <1>4
  <2>2. ASSUME NEW i \in DOMAIN fresh
        PROVE  [name |-> fresh[i], uuid |-> ids[i]] \in {[name |-> n, uuid |-> f[n]] : n \in N}
    BY <1>5
  <2> QED
    BY <2>1, <2>2
<1> HIDE DEF f, made
<1>8. f \in {g \in [N -> Fresh] : \A m, n \in N : g[m] = g[n] => m = n}
  BY <1>6
<1> QED
  BY <1>2, <1>7, <1>8, FreshOfSets DEF Sets!NewUsers, N

LEMMA SetsInit == Init => Sets!Init
<1> SUFFICES ASSUME Init, Sound
             PROVE  \A t \in Inbounds : /\ Users(List(t)) \subseteq Sets!Entry
                                        /\ Sets!WellFormed(Users(List(t)))
  BY DEF Sets!Init
<1>1. ListsTypeOK
  BY TypeInit
<1> QED
  BY <1>1, ListsAreLists, DecodableUsers DEF Sound

LEMMA SoundStays ==
    ASSUME ListsTypeOK, [Next]_vars, Kindred, Sound
    PROVE  Sound'
<1>1. \A t \in Inbounds : document[t].readable /\ Decodable(List(t))
  BY DEF Sound
<1>2. \A t \in Inbounds : Decodable(List(t)')
  BY <1>1, DecodableStep DEF DecodableStays
<1>3. \A t \in Inbounds : document'[t].readable
  BY <1>1 DEF Kindred
<1> QED
  BY <1>2, <1>3 DEF Sound, List

LEMMA SetsStep == ListsTypeOK /\ [Next]_vars => [Sets!Next]_(Sets!vars)
<1> DEFINE file == [t \in Inbounds |-> Users(List(t))]
<1> SUFFICES ASSUME ListsTypeOK, [Next]_vars
             PROVE  [Sets!Next]_(Sets!vars)
  OBVIOUS
<1>0. /\ Primary \in Inbounds
      /\ \A t \in Inbounds : List(t) \in Seq(Entries)
      /\ \A t \in Inbounds : file[t] = Users(List(t))
  BY ListsAssumption, ListsAreLists
<1>1. CASE UNCHANGED document
  <2>1. file' = file /\ Sound' = Sound
    BY <1>1 DEF List, Sound
  <2> QED
    BY <2>1 DEF Sets!vars
<1>2. SUFFICES ASSUME Sound, ~UNCHANGED document
               PROVE  Sets!Operation /\ Sound'
  BY <1>1 DEF Sets!Next
<1>3. \A t \in Inbounds : Decodable(List(t))
  BY <1>2 DEF Sound
<1>4. ASSUME NEW N \in SUBSET Names, NEW names \in SetToSeqs(N), AddBulk(names)
      PROVE  Sets!AddBulk /\ Kindred
  <2>1. PICK fresh \in Seq(Names) : \E ids \in Injection(DOMAIN fresh, Fresh) :
           /\ Kindred
           /\ IsInjective(fresh)
           /\ ToSet(fresh) = ToSet(names) \ Emails(List(Primary))
           /\ List(Primary)' = List(Primary) \o Made(fresh, ids, TRUE)
           /\ \A t \in Inbounds \ {Primary} :
                 List(t)' = AddUsersToList(List(t), Made(fresh, ids, FALSE))
    BY <1>2, <1>4, AddBulkDoes
  <2>2. PICK ids \in Injection(DOMAIN fresh, Fresh) :
           /\ Kindred
           /\ IsInjective(fresh)
           /\ ToSet(fresh) = ToSet(names) \ Emails(List(Primary))
           /\ List(Primary)' = List(Primary) \o Made(fresh, ids, TRUE)
           /\ \A t \in Inbounds \ {Primary} :
                 List(t)' = AddUsersToList(List(t), Made(fresh, ids, FALSE))
    BY <2>1
  <2> DEFINE own == Made(fresh, ids, TRUE)
             added == Made(fresh, ids, FALSE)
             users == Users(added)
  <2>3. ids \in [DOMAIN fresh -> UUIDs]
    BY FreshIs DEF Injection
  <2>4. /\ own \in Seq(Entries) /\ added \in Seq(Entries)
        /\ Users(own) = users
        /\ Emails(own) = ToSet(fresh)
    BY <2>3, MadeClients
  <2>5. users \in Sets!NewUsers(ToSet(fresh), Sets!Fresh)
    BY <2>2, MadeAreNew
  <2>6. List(Primary)' = List(Primary) \o own
        /\ \A t \in Inbounds \ {Primary} : List(t)' = AddUsersToList(List(t), added)
    BY <2>2
  <2>7. ToSet(fresh) \in SUBSET (Names \ Sets!NamesOf(file[Primary]))
    <3>1. Sets!NamesOf(Users(List(Primary))) = Emails(List(Primary))
      BY <1>0, UsersOf
    <3>2. ToSet(fresh) \subseteq Names
      BY Elements
    <3> QED
      BY <1>0, <2>2, <3>1, <3>2
  <2> HIDE DEF own, added
  <2>8. ASSUME NEW t \in Inbounds
        PROVE  Users(List(t)') = Sets!AddUsersToList(Users(List(t)), users)
    <3>1. CASE t = Primary
      <4>1. Users(List(t) \o own) = Users(List(t)) \cup users
        BY <1>0, <2>4, FieldsOfConcat
      <4>2. \A e \in users : e.name \in ToSet(fresh)
        BY <2>4, UsersOf DEF Sets!NamesOf
      <4>3. \A e \in users : e.name \notin Sets!NamesOf(Users(List(t)))
        BY <1>0, <2>2, <3>1, <4>2, UsersOf
      <4>4. Sets!AddUsersToList(Users(List(t)), users) = Users(List(t)) \cup users
        BY <4>3 DEF Sets!AddUsersToList
      <4> QED
        BY <2>6, <3>1, <4>1, <4>4
    <3>2. CASE t # Primary
      BY <1>0, <2>4, <2>6, <3>2, UsersAdded
    <3> QED
      BY <3>1, <3>2
  <2> HIDE DEF users
  <2>9. file' = [t \in Inbounds |-> Sets!AddUsersToList(file[t], users)]
    BY <1>0, <2>8
  <2> QED
    BY <2>2, <2>5, <2>7, <2>9 DEF Sets!AddBulk
<1>5. ASSUME NEW name \in Names, Delete(name)
      PROVE  Sets!Delete /\ Kindred
  <2>1. /\ Kindred
        /\ name \in Emails(List(Primary))
        /\ \A t \in Inbounds : List(t)' = RemoveUsersFromList(List(t), name)
    BY <1>2, <1>5, DeleteDoes
  <2>2. name \in Sets!NamesOf(file[Primary])
    BY <1>0, <2>1, UsersOf
  <2>3. \A t \in Inbounds : Users(List(t)') = Sets!RemoveUsersFromList(Users(List(t)), {name})
    BY <1>0, <2>1, UsersRemoved
  <2>4. file' = [t \in Inbounds |-> Sets!RemoveUsersFromList(file[t], {name})]
    BY <1>0, <2>3
  <2> QED
    BY <2>1, <2>2, <2>4 DEF Sets!Delete
<1>6. ASSUME NEW name \in Names, Rotate(name)
      PROVE  Sets!Rotate /\ Kindred
  <2>1. /\ Kindred
        /\ name \in Emails(List(Primary))
        /\ \E id \in Fresh : \A t \in Inbounds : List(t)' = RotateUserInList(List(t), name, id)
    BY <1>2, <1>6, RotateDoes
  <2>2. PICK id \in Fresh : \A t \in Inbounds : List(t)' = RotateUserInList(List(t), name, id)
    BY <2>1
  <2>3. name \in Sets!NamesOf(file[Primary]) /\ id \in Sets!Fresh
    BY <1>0, <2>1, UsersOf, FreshOfSets
  <2>4. \A t \in Inbounds : Users(List(t)') = Sets!RotateUserInList(Users(List(t)), name, id)
    BY <1>0, <1>3, <2>2, FreshIs, UsersRotated
  <2>5. file' = [t \in Inbounds |-> Sets!RotateUserInList(file[t], name, id)]
    BY <1>0, <2>4
  <2> QED
    BY <2>1, <2>3, <2>5 DEF Sets!Rotate
<1>7. CASE DeleteAll
  <2>1. Kindred /\ \A t \in Inbounds : List(t)' = <<>>
    BY <1>2, <1>7, DeleteAllDoes
  <2>2. Users(<<>>) = {}
    BY DEF Users
  <2>3. file' = [t \in Inbounds |-> {}]
    BY <2>1, <2>2
  <2>4. Sets!DeleteAll /\ Kindred
    BY <2>1, <2>3 DEF Sets!DeleteAll
  <2>5. Sound'
    BY <1>2, <2>4, SoundStays
  <2> QED
    BY <2>4, <2>5 DEF Sets!Operation
<1>8. ASSUME NEW t \in Inbounds, ReconcileMirror(t)
      PROVE  Sets!ReconcileMirror /\ Kindred
  <2>1. /\ t # Primary /\ Kindred
        /\ ~SameUserSet(List(t), List(Primary))
        /\ List(t)' = Stripped(List(Primary))
        /\ \A u \in Inbounds \ {t} : List(u)' = List(u)
    BY <1>2, <1>8, ReconcileDoes
  <2>2. Users(List(t)) # Users(List(Primary))
    BY <1>0, <1>3, <2>1, EqualIsSame
  <2>3. Users(Stripped(List(Primary))) = Users(List(Primary))
    BY <1>0, <1>3, StrippedIs
  <2>4. Sets!AddUsersToList({}, file[Primary]) = Users(List(Primary))
    BY <1>0 DEF Sets!AddUsersToList, Sets!NamesOf
  <2>5. \A u \in Inbounds : Users(List(u)') = IF u = t THEN Users(List(Primary)) ELSE Users(List(u))
    BY <2>1, <2>3
  <2>6. file' = [file EXCEPT ![t] = Sets!AddUsersToList({}, file[Primary])]
    BY <1>0, <2>4, <2>5
  <2>7. ~Sets!SameUserSet(file[t], file[Primary])
    BY <1>0, <2>2 DEF Sets!SameUserSet
  <2> QED
    BY <2>1, <2>6, <2>7 DEF Sets!ReconcileMirror
<1>9. CASE UNCHANGED vars
  BY <1>2, <1>9 DEF vars
<1> QED
  BY <1>2, <1>4, <1>5, <1>6, <1>7, <1>8, <1>9, SoundStays DEF Next, Sets!Operation

(* On lists that decodeUserRecords accepts the operations do to the users  *)
(* what Clients has them do to sets, so that what is proved with Clients   *)
(* is proved of the lists: AddBulk, Delete, Rotate and DeleteAll through   *)
(* mirrorUsers, and reconcileMirror.                                       *)
THEOREM ListsImplementSets == Spec => ListsAreSets
<1>1. ListsTypeOK /\ [Next]_vars => [Sets!Next]_(Sets!vars)
  BY SetsStep
<1>2. Init => Sets!Init
  BY SetsInit
<1> QED
  BY <1>1, <1>2, ListsTypeCorrect, PTL DEF Spec, ListsAreSets, Sets!Spec
=============================================================================
