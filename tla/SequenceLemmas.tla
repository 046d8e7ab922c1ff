--------------------------- MODULE SequenceLemmas ---------------------------
(***************************************************************************)
(* What queue operations do to the elements of a sequence, and to the      *)
(* number of times that members of a set occur in it.                      *)
(***************************************************************************)
EXTENDS SequencesExt, FiniteSetTheorems, SequenceTheorems, TLAPS

LEMMA FunctionSeq ==
    ASSUME NEW X, NEW n \in Nat, NEW f \in [1..n -> X]
    PROVE  f \in Seq(X) /\ Len(f) = n
OBVIOUS

(* push_back(), pop_front() and clear().                                   *)
LEMMA AppendSet ==
    ASSUME NEW X, NEW q \in Seq(X), NEW e \in X
    PROVE  /\ Append(q, e) \in Seq(X)
           /\ ToSet(Append(q, e)) = ToSet(q) \cup {e}
<1>1. /\ DOMAIN q = 1..Len(q)
      /\ DOMAIN Append(q, e) = 1..(Len(q) + 1)
      /\ \A i \in 1..Len(q) : Append(q, e)[i] = q[i]
      /\ Append(q, e)[Len(q) + 1] = e
      /\ Len(q) \in Nat
      /\ Append(q, e) \in Seq(X)
  OBVIOUS
<1> QED
  BY <1>1 DEF ToSet

LEMMA TailSet ==
    ASSUME NEW X, NEW q \in Seq(X), q # <<>>
    PROVE  /\ Head(q) \in X /\ Tail(q) \in Seq(X)
           /\ ToSet(q) = {Head(q)} \cup ToSet(Tail(q))
<1>1. /\ DOMAIN q = 1..Len(q)
      /\ DOMAIN Tail(q) = 1..(Len(q) - 1)
      /\ \A i \in 1..(Len(q) - 1) : Tail(q)[i] = q[i + 1]
      /\ Head(q) = q[1]
      /\ Len(q) \in Nat \ {0}
      /\ Head(q) \in X /\ Tail(q) \in Seq(X)
  OBVIOUS
<1>2. \A i \in 1..Len(q) :
          i = 1 \/ (i - 1 \in 1..(Len(q) - 1) /\ q[i] = Tail(q)[i - 1])
  BY <1>1
<1>3. 1 \in 1..Len(q) /\ \A i \in 1..(Len(q) - 1) : i + 1 \in 1..Len(q)
  BY <1>1
<1>4. {Head(q)} \cup ToSet(Tail(q)) \subseteq ToSet(q)
  BY <1>1, <1>3 DEF ToSet
<1>5. ASSUME NEW i \in 1..Len(q)
      PROVE  q[i] \in {Head(q)} \cup ToSet(Tail(q))
  BY <1>1, <1>2 DEF ToSet
<1> QED
  BY <1>1, <1>4, <1>5 DEF ToSet

LEMMA EmptySet == ToSet(<<>>) = {} /\ \A X : <<>> \in Seq(X)
BY DEF ToSet

LEMMA SetType ==
    ASSUME NEW X, NEW q \in Seq(X)
    PROVE  ToSet(q) \subseteq X
BY DEF ToSet

LEMMA ConcatSet ==
    ASSUME NEW X, NEW p \in Seq(X), NEW q \in Seq(X)
    PROVE  p \o q \in Seq(X) /\ ToSet(p \o q) = ToSet(p) \cup ToSet(q)
<1> DEFINE m == Len(p)
           n == Len(q)
           pq == p \o q
<1>1. /\ m \in Nat /\ n \in Nat /\ pq \in Seq(X)
      /\ DOMAIN p = 1..m /\ DOMAIN q = 1..n /\ DOMAIN pq = 1..(m + n)
      /\ \A i \in 1..(m + n) : pq[i] = IF i <= m THEN p[i] ELSE q[i - m]
  OBVIOUS
<1> HIDE DEF m, n, pq
<1>2. ASSUME NEW i \in 1..(m + n)
      PROVE  pq[i] \in ToSet(p) \cup ToSet(q)
  <2>1. CASE i <= m
    <3>1. i \in 1..m
      BY <1>1, <2>1
    <3> QED
      BY <1>1, <2>1, <3>1 DEF ToSet
  <2>2. CASE ~(i <= m)
    <3>1. i - m \in 1..n
      BY <1>1, <2>2
    <3> QED
      BY <1>1, <2>2, <3>1 DEF ToSet
  <2> QED
    BY <2>1, <2>2
<1>3. \A i \in 1..m : i \in 1..(m + n) /\ pq[i] = p[i]
  BY <1>1
<1>4. \A i \in 1..n : i + m \in 1..(m + n) /\ pq[i + m] = q[i]
  BY <1>1
<1>5. ToSet(p) \subseteq ToSet(pq)
  BY <1>1, <1>3 DEF ToSet
<1>6. ToSet(q) \subseteq ToSet(pq)
  BY <1>1, <1>4, ZenonT(60) DEF ToSet
<1>7. ToSet(pq) \subseteq ToSet(p) \cup ToSet(q)
  BY <1>1, <1>2 DEF ToSet
<1>8. pq \in Seq(X) /\ ToSet(pq) = ToSet(p) \cup ToSet(q)
  BY <1>1, <1>5, <1>6, <1>7
<1> QED
  BY <1>8 DEF pq

----------------------------------------------------------------------------

Places(q, S) == {i \in DOMAIN q : q[i] \in S}
Occurrences(q, S) == Cardinality(Places(q, S))

(* The number is a number, and none only if nothing of S is in there.      *)
LEMMA CountType ==
    ASSUME NEW X, NEW q \in Seq(X), NEW S
    PROVE  /\ IsFiniteSet(Places(q, S))
           /\ Occurrences(q, S) \in Nat
           /\ Occurrences(q, S) = 0 <=> \A i \in DOMAIN q : q[i] \notin S
           /\ Occurrences(q, S) = Cardinality({i \in DOMAIN q : q[i] \in S})
<1>1. DOMAIN q = 1..Len(q) /\ Len(q) \in Nat
  OBVIOUS
<1>2. IsFiniteSet(1..Len(q))
  BY <1>1, FS_Interval
<1>3. Places(q, S) \subseteq 1..Len(q)
  BY <1>1 DEF Places
<1>4. IsFiniteSet(Places(q, S))
  BY <1>2, <1>3, FS_Subset
<1>5. Occurrences(q, S) \in Nat
  BY <1>4, FS_CardinalityType DEF Occurrences
<1>6. Occurrences(q, S) = 0 <=> Places(q, S) = {}
  BY <1>4, FS_EmptySet DEF Occurrences
<1>7. Places(q, S) = {} <=> \A i \in DOMAIN q : q[i] \notin S
  BY DEF Places
<1> QED
  BY <1>4, <1>5, <1>6, <1>7 DEF Occurrences, Places

LEMMA CountEmpty == ASSUME NEW S PROVE Occurrences(<<>>, S) = 0
<1>1. Places(<<>>, S) = {}
  BY DEF Places
<1> QED
  BY <1>1, FS_EmptySet DEF Occurrences

(* push_back().                                                            *)
LEMMA CountAppend ==
    ASSUME NEW X, NEW q \in Seq(X), NEW e \in X, NEW S
    PROVE  Occurrences(Append(q, e), S) =
               Occurrences(q, S) + IF e \in S THEN 1 ELSE 0
<1> DEFINE n == Len(q) + 1
           p == Append(q, e)
<1>1. /\ DOMAIN q = 1..Len(q) /\ DOMAIN p = 1..n
      /\ Len(q) \in Nat /\ n \notin DOMAIN q
      /\ \A i \in 1..Len(q) : p[i] = q[i]
      /\ p[n] = e
  OBVIOUS
<1> HIDE DEF p
<1>2. 1..n = (1..Len(q)) \cup {n}
  BY <1>1
<1> HIDE DEF n
<1>3. Places(p, S) = IF e \in S THEN Places(q, S) \cup {n} ELSE Places(q, S)
  <2>1. CASE e \in S
    BY <1>1, <1>2, <2>1 DEF Places
  <2>2. CASE e \notin S
    BY <1>1, <1>2, <2>2 DEF Places
  <2> QED
    BY <2>1, <2>2
<1>4. n \notin Places(q, S) /\ IsFiniteSet(Places(q, S)) /\ Occurrences(q, S) \in Nat
  BY <1>1, CountType DEF Places
<1>5. Cardinality(Places(q, S) \cup {n}) = Cardinality(Places(q, S)) + 1
  BY <1>4, FS_AddElement
<1>6. Occurrences(p, S) = Occurrences(q, S) + IF e \in S THEN 1 ELSE 0
  BY <1>3, <1>4, <1>5 DEF Occurrences
<1> QED
  BY <1>6 DEF p

(* One sequence after another.                                             *)
LEMMA CountConcat ==
    ASSUME NEW X, NEW p \in Seq(X), NEW q \in Seq(X), NEW S
    PROVE  Occurrences(p \o q, S) = Occurrences(p, S) + Occurrences(q, S)
<1> DEFINE m == Len(p)
           n == Len(q)
           B == Places(q, S)
           f == [i \in B |-> i + m]
           C == {i + m : i \in B}
           pq == p \o q
<1>1. /\ m \in Nat /\ n \in Nat
      /\ DOMAIN p = 1..m /\ DOMAIN q = 1..n /\ DOMAIN pq = 1..(m + n)
      /\ \A i \in 1..(m + n) : pq[i] = IF i <= m THEN p[i] ELSE q[i - m]
  OBVIOUS
<1> HIDE DEF m, n, pq
<1>2. /\ IsFiniteSet(Places(p, S)) /\ IsFiniteSet(B)
      /\ Occurrences(p, S) \in Nat /\ Occurrences(q, S) \in Nat
  BY CountType
<1>3. B \subseteq 1..n /\ Places(p, S) \subseteq 1..m
  BY <1>1 DEF Places
<1>4. Places(pq, S) = Places(p, S) \cup C
  <2>1. \A i \in 1..(m + n) : i \in 1..m \/ (i - m \in 1..n /\ i = i - m + m)
    BY <1>1
  <2>2. \A i \in 1..m : i \in 1..(m + n) /\ i <= m
    BY <1>1
  <2>3. \A i \in 1..n : i + m \in 1..(m + n) /\ ~(i + m <= m) /\ i + m - m = i
    BY <1>1
  <2>4. \A i \in 1..(m + n) : ~(i <= m) => i - m \in 1..n
    BY <1>1
  <2>5. ASSUME NEW i \in Places(pq, S)  PROVE i \in Places(p, S) \cup C
    <3>1. i \in 1..(m + n) /\ pq[i] \in S
      BY <1>1 DEF Places
    <3>2. CASE i <= m
      <4>1. i \in 1..m
        BY <1>1, <3>1, <3>2
      <4> QED
        BY <1>1, <3>1, <3>2, <4>1 DEF Places
    <3>3. CASE ~(i <= m)
      <4>1. i - m \in 1..n /\ q[i - m] \in S
        BY <1>1, <2>4, <3>1, <3>3
      <4>2. i - m \in B /\ i = (i - m) + m
        BY <1>1, <2>1, <3>1, <4>1 DEF Places
      <4> QED
        BY <4>2
    <3> QED
      BY <3>2, <3>3
  <2>6. Places(p, S) \subseteq Places(pq, S)
    BY <1>1, <2>2 DEF Places
  <2>7. C \subseteq Places(pq, S)
    BY <1>1, <2>3 DEF Places
  <2> QED
    BY <2>5, <2>6, <2>7
<1>5. Places(p, S) \cap C = {}
  BY <1>1, <1>3
<1>6. f \in Bijection(B, C)
  <2>1. f \in [B -> C]
    OBVIOUS
  <2>2. \A i, j \in B : f[i] = f[j] => i = j
    BY <1>1, <1>3
  <2>3. \A c \in C : \E i \in B : f[i] = c
    OBVIOUS
  <2> QED
    BY <2>1, <2>2, <2>3 DEF Bijection, Injection, Surjection, IsInjective
<1>7. IsFiniteSet(C) /\ Cardinality(C) = Cardinality(B)
  BY <1>2, <1>6, FS_Bijection DEF ExistsBijection
<1>8. Cardinality(Places(p, S) \cup C)
        = Cardinality(Places(p, S)) + Cardinality(C) - Cardinality(Places(p, S) \cap C)
  BY <1>2, <1>7, FS_Union
<1>9. Cardinality(Places(p, S) \cap C) = 0
  BY <1>5, FS_EmptySet
<1>10. Occurrences(pq, S) = Occurrences(p, S) + Occurrences(q, S)
  BY <1>2, <1>4, <1>7, <1>8, <1>9 DEF Occurrences
<1> QED
  BY <1>10 DEF pq

(* pop_front().                                                            *)
LEMMA CountTail ==
    ASSUME NEW X, NEW q \in Seq(X), q # <<>>, NEW S
    PROVE  /\ Head(q) \in X /\ Tail(q) \in Seq(X)
           /\ Occurrences(q, S) =
                  Occurrences(Tail(q), S) + IF Head(q) \in S THEN 1 ELSE 0
<1> DEFINE h == Head(q)
           t == Tail(q)
           p == <<h>>
<1>1. h \in X /\ t \in Seq(X) /\ Len(q) \in Nat /\ 1 \in 1..Len(q) /\ h = q[1]
  BY HeadTailProperties, EmptySeq
<1>2. q = p \o t
  <2>1. SubSeq(q, 1, Len(q)) = <<q[1]>> \o SubSeq(q, 2, Len(q))
    BY <1>1, SubSeqRecursiveFirst
  <2> QED
    BY <1>1, <2>1, SubSeqFull, TailIsSubSeq
<1>3. p \in Seq(X) /\ Occurrences(p, S) = IF h \in S THEN 1 ELSE 0
  <2>1. p \in Seq(X) /\ DOMAIN p = {1} /\ p[1] = h
    BY <1>1
  <2>2. Places(p, S) = IF h \in S THEN {1} ELSE {}
    BY <2>1 DEF Places
  <2> QED
    BY <2>1, <2>2, FS_EmptySet, FS_Singleton DEF Occurrences
<1> HIDE DEF h, t, p
<1>4. Occurrences(q, S) = Occurrences(p, S) + Occurrences(t, S)
  BY <1>1, <1>2, <1>3, CountConcat
<1>5. Occurrences(t, S) \in Nat
  BY <1>1, CountType
<1> QED
  BY <1>1, <1>3, <1>4, <1>5 DEF h, t

(* SetToSeq() lists each element once.                                     *)
LEMMA SetToSeqFacts ==
    ASSUME NEW S, IsFiniteSet(S)
    PROVE  /\ SetToSeq(S) \in Seq(S)
           /\ ToSet(SetToSeq(S)) = S
           /\ \A x : Occurrences(SetToSeq(S), {x}) = IF x \in S THEN 1 ELSE 0
<1> DEFINE n == Cardinality(S)
           f == SetToSeq(S)
<1>1. n \in Nat /\ ExistsBijection(1..n, S)
  BY FS_CardinalityType
<1>2. \E g \in [1..n -> S] : IsInjective(g)
  BY <1>1 DEF ExistsBijection, Bijection, Injection, IsInjective
<1>3. f \in [1..n -> S] /\ IsInjective(f)
  BY <1>2 DEF SetToSeq
<1>4. f \in Injection(1..n, S)
  BY <1>3 DEF Injection
<1>5. IsFiniteSet(1..n) /\ Cardinality(1..n) = n
  BY <1>1, FS_Interval
<1>6. f \in Surjection(1..n, S)
  BY <1>4, <1>5, FS_Injection
<1>7. f \in Seq(S) /\ DOMAIN f = 1..n /\ Len(f) = n
  BY <1>1, <1>3
<1>8. ToSet(f) = S
  BY <1>6, <1>7 DEF Surjection, ToSet
<1>9. ASSUME NEW x
      PROVE  Occurrences(f, {x}) = IF x \in S THEN 1 ELSE 0
  <2>1. Occurrences(f, {x}) = Cardinality({i \in DOMAIN f : f[i] \in {x}})
    BY <1>7, CountType
  <2>2. CASE x \in S
    <3>1. PICK i \in DOMAIN f : f[i] = x
      BY <1>8, <2>2 DEF ToSet
    <3>2. {k \in DOMAIN f : f[k] \in {x}} = {i}
      BY <1>3, <3>1 DEF IsInjective
    <3> QED
      BY <2>1, <2>2, <3>2, FS_Singleton
  <2>3. CASE x \notin S
    <3>1. {k \in DOMAIN f : f[k] \in {x}} = {}
      BY <1>3, <2>3
    <3> QED
      BY <2>1, <2>3, <3>1, FS_EmptySet
  <2> QED
    BY <2>2, <2>3
<1> QED
  BY <1>7, <1>8, <1>9
=============================================================================
