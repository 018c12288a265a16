--------------------------- MODULE SequenceLemmas ---------------------------
(***************************************************************************)
(* What the proofs of this project need to know about sequences and finite *)
(* sets: what FlattenSeq, which the community modules define by recursion, *)
(* computes, and how often a value occurs in a sequence that is put        *)
(* together; induction, up to a bound and along a family of sets instead  *)
(* of a predicate, what a recursively defined sum adds up to, and when an  *)
(* arrangement of a set is complete.                                       *)
(***************************************************************************)
EXTENDS Integers, FiniteSetsExt, SequencesExt, WellFoundedInduction, FiniteSetTheorems, SequenceTheorems, TLAPS

----------------------------------------------------------------------------
(* Induction, in the form the proofs of this project use: a non-empty set   *)
(* of naturals has a least element, so a claim about every natural follows  *)
(* by looking at the least one for which it would fail.                     *)

(* Every non-empty set of naturals has a least element. *)
LEMMA LeastNatural ==
  ASSUME NEW T \in SUBSET Nat, T # {}
  PROVE  \E m \in T : \A k \in T : m <= k
<1> DEFINE R == OpToRel(<, Nat)
<1>1. IsWellFoundedOn(R, Nat)
  BY NatLessThanWellFounded
<1>2. \A x, y \in Nat : <<x, y>> \in R <=> x < y
  BY DEF OpToRel
<1> HIDE DEF R
<1>3. PICK x \in T : \A y \in T : ~(<<y, x>> \in R)
  BY <1>1, WFMin
<1>4. \A y \in T : x \in Nat /\ y \in Nat /\ ~(y < x)
  BY <1>2, <1>3, Zenon
<1>5. QED
  BY <1>4

(* Min finds it: the operator the models use for "the first list that is   *)
(* not empty" and "the first entry with this hash".                        *)
LEMMA MinIsLeast ==
  ASSUME NEW T \in SUBSET Nat, T # {}
  PROVE  Min(T) \in T /\ \A k \in T : Min(T) <= k
<1>1. \E m \in T : \A k \in T : m =< k
  BY LeastNatural
<1>2. QED
  BY <1>1 DEF Min

(* Induction up to a bound: a set of naturals that holds 0, and with every *)
(* number below n also the next one, holds all numbers up to n.            *)
LEMMA UpTo ==
  ASSUME NEW n \in Nat, NEW P, 0 \in P,
         \A i \in 0 .. n - 1 : i \in P => i + 1 \in P
  PROVE  0 .. n \subseteq P
<1> DEFINE T == {i \in 0 .. n : i \notin P}
<1> SUFFICES ASSUME T # {} PROVE FALSE
  OBVIOUS
<1>1. T \in SUBSET Nat
  OBVIOUS
<1> HIDE DEF T
<1>2. PICK m \in T : \A k \in T : m <= k
  BY <1>1, LeastNatural
<1>3. m \in 0 .. n /\ m \notin P /\ m # 0
  BY DEF T
<1>4. m - 1 \in 0 .. n - 1 /\ m - 1 \notin T
  BY <1>2, <1>3
<1>5. m - 1 \in P
  BY <1>3, <1>4 DEF T
<1>6. (m - 1) + 1 \in P
  BY <1>4, <1>5
<1>7. QED
  BY <1>3, <1>6

----------------------------------------------------------------------------
(* Sequences *)

(* g computes the concatenations of the first sequences of q. *)
Flattens(g, q, n) ==
  \A i \in 1 .. n : g[i] = IF i = 1 THEN q[i] ELSE g[i - 1] \o q[i]

Agree(f, g, n) == \A i \in 1 .. n : f[i] = g[i]

(* There is only one such function. *)
LEMMA FlattensUnique ==
  ASSUME NEW n \in Nat, NEW q, NEW f, NEW g, Flattens(f, q, n), Flattens(g, q, n)
  PROVE  Agree(f, g, n)
<1> DEFINE P == {i \in 0 .. n : i = 0 \/ f[i] = g[i]}
<1>1. 0 \in P
  OBVIOUS
<1>2. ASSUME NEW i \in 0 .. n - 1, i \in P PROVE i + 1 \in P
  <2>1. i + 1 \in 1 .. n /\ (i + 1) - 1 = i /\ (i # 0 => i + 1 # 1)
    OBVIOUS
  <2>2. /\ f[i + 1] = IF i + 1 = 1 THEN q[i + 1] ELSE f[i] \o q[i + 1]
        /\ g[i + 1] = IF i + 1 = 1 THEN q[i + 1] ELSE g[i] \o q[i + 1]
    BY <2>1 DEF Flattens
  <2>3. f[i + 1] = g[i + 1]
    BY <1>2, <2>1, <2>2
  <2>4. QED
    BY <2>1, <2>3
<1> HIDE DEF P
<1>3. 0 .. n \subseteq P
  BY <1>1, <1>2, UpTo
<1>4. QED
  BY <1>3 DEF P, Agree

(* There is one. *)
LEMMA FlattensExists ==
  ASSUME NEW S, NEW n \in Nat, NEW q \in [1 .. n -> Seq(S)]
  PROVE  \E g \in [1 .. n -> Seq(S)] : Flattens(g, q, n)
<1> DEFINE P == {k \in 0 .. n : \E g \in [1 .. k -> Seq(S)] : Flattens(g, q, k)}
<1>1. 0 \in P
  <2> DEFINE g == [i \in 1 .. 0 |-> <<>>]
  <2>1. g \in [1 .. 0 -> Seq(S)] /\ Flattens(g, q, 0)
    BY DEF Flattens
  <2> HIDE DEF g
  <2>2. \E f \in [1 .. 0 -> Seq(S)] : Flattens(f, q, 0)
    BY <2>1
  <2>3. 0 \in 0 .. n
    OBVIOUS
  <2>4. QED
    BY <2>2, <2>3, Zenon
<1>2. ASSUME NEW k \in 0 .. n - 1, k \in P PROVE k + 1 \in P
  <2>1. PICK g \in [1 .. k -> Seq(S)] : Flattens(g, q, k)
    BY <1>2
  <2> DEFINE last == IF k = 0 THEN q[1] ELSE g[k] \o q[k + 1]
             h == [i \in 1 .. k + 1 |-> IF i \in 1 .. k THEN g[i] ELSE last]
  <2>2. k + 1 \in 0 .. n /\ k + 1 \in 1 .. n /\ (k # 0 => k \in 1 .. k)
    OBVIOUS
  <2>3. last \in Seq(S)
    <3>1. CASE k = 0
      BY <2>2, <3>1
    <3>2. CASE k # 0
      <4>1. g[k] \in Seq(S) /\ q[k + 1] \in Seq(S)
        BY <2>2, <3>2
      <4>2. QED
        BY <3>2, <4>1
    <3>3. QED
      BY <3>1, <3>2
  <2>4. h \in [1 .. k + 1 -> Seq(S)]
    BY <2>3
  <2>5. Flattens(h, q, k + 1)
    <3> SUFFICES ASSUME NEW i \in 1 .. k + 1
                 PROVE  h[i] = IF i = 1 THEN q[i] ELSE h[i - 1] \o q[i]
      BY DEF Flattens
    <3> HIDE DEF last
    <3>1. CASE i \in 1 .. k
      <4>1. h[i] = g[i] /\ (i # 1 => i - 1 \in 1 .. k /\ h[i - 1] = g[i - 1])
        BY <3>1
      <4>2. QED
        BY <2>1, <3>1, <4>1 DEF Flattens
    <3>2. CASE i \notin 1 .. k
      <4>1. i = k + 1 /\ h[i] = last /\ (i # 1 => k \in 1 .. k /\ h[k] = g[k] /\ i - 1 = k)
        BY <3>2
      <4>2. QED
        BY <4>1 DEF last
    <3>3. QED
      BY <3>1, <3>2
  <2> HIDE DEF h
  <2>6. QED
    BY <2>2, <2>4, <2>5
<1> HIDE DEF P
<1>3. 0 .. n \subseteq P
  BY <1>1, <1>2, UpTo
<1>4. n \in P
  BY <1>3
<1>5. QED
  BY <1>4 DEF P

(* FlattenSeq is its last value. *)
LEMMA FlattenValue ==
  ASSUME NEW S, NEW q \in Seq(Seq(S)), Len(q) # 0,
         NEW g \in [1 .. Len(q) -> Seq(S)], Flattens(g, q, Len(q))
  PROVE  FlattenSeq(q) = g[Len(q)]
<1> DEFINE n == Len(q)
           flatten[i \in 1 .. Len(q)] == IF i = 1 THEN q[i] ELSE flatten[i - 1] \o q[i]
<1>1. n \in Nat /\ n # 0 /\ n \in 1 .. n
  OBVIOUS
<1>2. FlattenSeq(q) = flatten[n]
  BY DEF FlattenSeq
<1>3. g = [i \in 1 .. n |-> IF i = 1 THEN q[i] ELSE g[i - 1] \o q[i]]
  BY DEF Flattens
<1>4. flatten = [i \in 1 .. n |-> IF i = 1 THEN q[i] ELSE flatten[i - 1] \o q[i]]
  BY <1>3
<1> HIDE DEF flatten
<1>5. Flattens(flatten, q, n)
  BY <1>4 DEF Flattens
<1> HIDE DEF n
<1>6. \A i \in 1 .. n : flatten[i] = g[i]
  BY <1>1, <1>5, FlattensUnique DEF n, Agree
<1>7. QED
  BY <1>1, <1>2, <1>6 DEF n

(* A batch added at the end is added at the end of the flattened sequence. *)
LEMMA FlattenAppend ==
  ASSUME NEW S, NEW d \in Seq(Seq(S)), NEW t \in Seq(S)
  PROVE  /\ FlattenSeq(d) \in Seq(S)
         /\ FlattenSeq(Append(d, t)) = FlattenSeq(d) \o t
<1> DEFINE n == Len(d)
           m == n + 1
           e == Append(d, t)
<1>1. /\ n \in Nat /\ d \in [1 .. n -> Seq(S)]
      /\ m \in Nat /\ m \in 1 .. m /\ m # 0 /\ 1 .. n \subseteq 1 .. m
      /\ n # 0 => n \in 1 .. n /\ m # 1 /\ m - 1 = n
  OBVIOUS
<1>2. e \in Seq(Seq(S)) /\ Len(e) = m /\ e[m] = t /\ \A i \in 1 .. n : e[i] = d[i]
  OBVIOUS
<1> HIDE DEF n, e, m
<1>3. e \in [1 .. m -> Seq(S)]
  BY <1>2, LenProperties
<1>4. PICK h \in [1 .. m -> Seq(S)] : Flattens(h, e, m)
  BY <1>1, <1>3, FlattensExists
<1>5. FlattenSeq(e) = h[m]
  BY <1>1, <1>2, <1>4, FlattenValue
<1>6. CASE n = 0
  <2>1. FlattenSeq(d) = <<>>
    BY <1>6 DEF FlattenSeq, n
  <2>2. m = 1
    BY <1>6 DEF m
  <2>3. h[1] = t
    BY <1>1, <1>2, <1>4, <2>2 DEF Flattens
  <2>4. <<>> \o t = t
    OBVIOUS
  <2>5. QED
    BY <1>5, <2>1, <2>2, <2>3, <2>4 DEF e
<1>7. CASE n # 0
  <2>1. PICK g \in [1 .. n -> Seq(S)] : Flattens(g, d, n)
    BY <1>1, FlattensExists
  <2>2. FlattenSeq(d) = g[n]
    BY <1>7, <2>1, FlattenValue DEF n
  <2>3. Flattens(h, d, n)
    BY <1>1, <1>2, <1>4 DEF Flattens
  <2>4. \A i \in 1 .. n : h[i] = g[i]
    <3>1. n \in Nat
      BY <1>1
    <3>2. Agree(h, g, n)
      BY <2>1, <2>3, <3>1, FlattensUnique, Zenon
    <3>3. QED
      BY <3>2 DEF Agree
  <2>5. h[m] = h[n] \o t
    BY <1>1, <1>2, <1>4, <1>7 DEF Flattens
  <2>6. QED
    BY <1>1, <1>5, <1>7, <2>2, <2>4, <2>5 DEF e
<1>8. QED
  BY <1>6, <1>7

(* A flattened sequence holds what its members hold. *)
LEMMA FlattenRange ==
  ASSUME NEW S, NEW q \in Seq(Seq(S))
  PROVE  Range(FlattenSeq(q)) = UNION {Range(q[i]) : i \in 1 .. Len(q)}
<1> DEFINE n == Len(q)
           U(k) == UNION {Range(q[i]) : i \in 1 .. k}
<1>1. n \in Nat /\ q \in [1 .. n -> Seq(S)]
  OBVIOUS
<1>2. CASE n = 0
  BY <1>2 DEF FlattenSeq, Range
<1>3. CASE n # 0
  <2> HIDE DEF n
  <2>1. PICK g \in [1 .. n -> Seq(S)] : Flattens(g, q, n)
    BY <1>1, FlattensExists
  <2>2. FlattenSeq(q) = g[n]
    BY <1>3, <2>1, FlattenValue DEF n
  <2> DEFINE P == {k \in 0 .. n : k = 0 \/ Range(g[k]) = U(k)}
  <2>3. 0 \in P
    BY <1>1
  <2>4. ASSUME NEW k \in 0 .. n - 1, k \in P PROVE k + 1 \in P
    <3>1. k + 1 \in 1 .. n /\ (k + 1) - 1 = k /\ k + 1 \in 0 .. n
      BY <1>1
    <3>2. \A i : i \in 1 .. k + 1 <=> i \in 1 .. k \/ i = k + 1
      OBVIOUS
    <3>3. U(k + 1) = U(k) \cup Range(q[k + 1])
      BY <3>2
    <3>4. g[k + 1] = IF k + 1 = 1 THEN q[k + 1] ELSE g[k] \o q[k + 1]
      <4> HIDE DEF P
      <4>1. QED
        BY <2>1, <3>1 DEF Flattens
    <3>5. Range(g[k + 1]) = U(k + 1)
      <4>1. CASE k = 0
        <5>1. U(0) = {}
          OBVIOUS
        <5>2. QED
          BY <3>3, <3>4, <4>1, <5>1
      <4>2. CASE k # 0
        <5>1. k + 1 # 1
          BY <4>2
        <5>2. k \in 1 .. n
          BY <1>1, <4>2
        <5>3. g[k] \in Seq(S) /\ q[k + 1] \in Seq(S)
          BY <1>1, <3>1, <5>2
        <5>4. Range(g[k] \o q[k + 1]) = Range(g[k]) \cup Range(q[k + 1])
          BY <5>3, RangeConcatenation
        <5>5. Range(g[k]) = U(k)
          BY <2>4, <4>2
        <5> HIDE DEF U
        <5>6. QED
          BY <3>3, <3>4, <5>1, <5>4, <5>5
      <4>3. QED
        BY <4>1, <4>2
    <3>6. QED
      BY <3>1, <3>5
  <2> HIDE DEF P
  <2>5. 0 .. n \subseteq P
    BY <1>1, <2>3, <2>4, UpTo
  <2>6. Range(g[n]) = U(n)
    <3>1. n \in P
      BY <1>1, <2>5
    <3>2. QED
      BY <1>3, <3>1 DEF P
  <2>7. QED
    BY <2>2, <2>6 DEF n
<1>4. QED
  BY <1>2, <1>3

----------------------------------------------------------------------------
(* How often x occurs in s. *)
Count(x, s) == Cardinality({i \in DOMAIN s : s[i] = x})

(* The number of occurrences is a natural number. *)
LEMMA CountType ==
  ASSUME NEW S, NEW s \in Seq(S), NEW x
  PROVE  /\ IsFiniteSet({i \in DOMAIN s : s[i] = x})
         /\ Count(x, s) \in Nat
<1>1. IsFiniteSet(1 .. Len(s)) /\ DOMAIN s = 1 .. Len(s)
  BY FS_Interval, Len(s) \in Int, 1 \in Int
<1>2. IsFiniteSet({i \in DOMAIN s : s[i] = x})
  BY <1>1, FS_Subset
<1>3. QED
  BY <1>2, FS_CardinalityType DEF Count

(* Nothing occurs in the empty sequence. *)
LEMMA CountEmpty ==
  ASSUME NEW x
  PROVE  Count(x, <<>>) = 0
<1>1. {i \in DOMAIN <<>> : <<>>[i] = x} = {}
  OBVIOUS
<1>2. QED
  BY <1>1, FS_EmptySet DEF Count

(* Occurrences add up over a concatenation. *)
LEMMA CountConcat ==
  ASSUME NEW S, NEW s \in Seq(S), NEW t \in Seq(S), NEW x
  PROVE  Count(x, s \o t) = Count(x, s) + Count(x, t)
<1> DEFINE m == Len(s)
           n == Len(t)
           c == s \o t
           A == {i \in DOMAIN s : s[i] = x}
           B == {i \in DOMAIN t : t[i] = x}
           C == {i \in DOMAIN c : c[i] = x}
           D == C \ A
           f == [i \in B |-> m + i]
<1>1. m \in Nat /\ n \in Nat /\ DOMAIN s = 1 .. m /\ DOMAIN t = 1 .. n
  OBVIOUS
<1>2. /\ DOMAIN c = 1 .. m + n
      /\ \A i \in 1 .. m : c[i] = s[i]
      /\ \A i \in 1 .. n : c[m + i] = t[i]
  OBVIOUS
<1>3. /\ \A i : i \in A <=> i \in 1 .. m /\ s[i] = x
      /\ \A i : i \in B <=> i \in 1 .. n /\ t[i] = x
      /\ \A i : i \in C <=> i \in 1 .. m + n /\ c[i] = x
  BY <1>1, <1>2
<1>4. IsFiniteSet(A) /\ IsFiniteSet(B)
  BY CountType
<1> HIDE DEF m, n, c, A, B, C
<1>5. A \subseteq C
  <2>1. \A i \in 1 .. m : i \in 1 .. m + n
    BY <1>1
  <2>2. QED
    BY <1>2, <1>3, <2>1
<1>6. \A i \in B : f[i] \in D
  <2> SUFFICES ASSUME NEW i \in B PROVE m + i \in D
    OBVIOUS
  <2>1. i \in 1 .. n /\ t[i] = x
    BY <1>3
  <2>2. m + i \in 1 .. m + n /\ m + i \notin 1 .. m
    BY <1>1, <2>1
  <2>3. c[m + i] = x
    BY <1>2, <2>1
  <2>4. QED
    BY <1>3, <2>2, <2>3
<1>7. \A i, j \in B : f[i] = f[j] => i = j
  <2>1. \A i \in B : i \in Int
    BY <1>3
  <2>2. QED
    BY <1>1, <2>1
<1>8. \A k \in D : \E i \in B : f[i] = k
  <2> SUFFICES ASSUME NEW k \in D PROVE \E i \in B : f[i] = k
    OBVIOUS
  <2>1. k \in 1 .. m + n /\ c[k] = x /\ k \notin A
    BY <1>3
  <2>2. k \notin 1 .. m
    BY <1>2, <1>3, <2>1
  <2>3. k - m \in 1 .. n /\ k = m + (k - m)
    BY <1>1, <2>1, <2>2
  <2>4. t[k - m] = x
    BY <1>2, <2>1, <2>3
  <2>5. k - m \in B
    BY <1>3, <2>3, <2>4
  <2>6. QED
    BY <2>3, <2>5
<1>9. ExistsBijection(B, D)
  <2>1. f \in [B -> D]
    BY <1>6
  <2> HIDE DEF f
  <2>2. f \in Bijection(B, D)
    BY <1>7, <1>8, <2>1 DEF Bijection, Injection, Surjection, IsInjective
  <2>3. QED
    BY <2>2 DEF ExistsBijection
<1>10. IsFiniteSet(D) /\ Cardinality(D) = Cardinality(B)
  BY <1>4, <1>9, FS_Bijection
<1>11. A \cup D = C /\ A \cap D = {}
  BY <1>5
<1> HIDE DEF D
<1>12. Cardinality(A \cup D) = Cardinality(A) + Cardinality(D) - Cardinality(A \cap D)
  BY <1>4, <1>10, FS_Union
<1>13. Cardinality(C) = Cardinality(A) + Cardinality(B)
  <2>1. Cardinality(A) \in Nat /\ Cardinality(B) \in Nat /\ Cardinality({}) = 0
    BY <1>4, FS_CardinalityType, FS_EmptySet
  <2> HIDE DEF f
  <2>2. Cardinality(C) = Cardinality(A) + Cardinality(D) - 0
    BY <1>11, <1>12, <2>1
  <2>3. QED
    BY <1>10, <2>1, <2>2
<1>14. QED
  BY <1>13 DEF Count, A, B, C, c

(* A value added at the end occurs once more. *)
LEMMA CountAppend ==
  ASSUME NEW S, NEW s \in Seq(S), NEW y \in S, NEW x
  PROVE  Count(x, Append(s, y)) = Count(x, s) + (IF x = y THEN 1 ELSE 0)
<1>1. <<y>> \in Seq(S) /\ Append(s, y) = s \o <<y>>
  OBVIOUS
<1>2. Count(x, s \o <<y>>) = Count(x, s) + Count(x, <<y>>)
  BY <1>1, CountConcat
<1>3. Count(x, <<y>>) = IF x = y THEN 1 ELSE 0
  <2>1. {i \in DOMAIN <<y>> : <<y>>[i] = x} = IF x = y THEN {1} ELSE {}
    OBVIOUS
  <2>2. QED
    BY <2>1, FS_EmptySet, FS_Singleton DEF Count
<1>4. QED
  BY <1>1, <1>2, <1>3

(* e has one more y and one less z than s, and of any other x as many.     *)
Exchanged(x, s, e, z, y) ==
  /\ x = y => Count(x, e) = Count(x, s) + 1
  /\ x = z => Count(x, e) = Count(x, s) - 1
  /\ x # y /\ x # z => Count(x, e) = Count(x, s)

(* Overwriting one place takes one occurrence of the old value away and    *)
(* adds one of the new.                                                    *)
LEMMA CountExcept ==
  ASSUME NEW S, NEW s \in Seq(S), NEW k \in 1 .. Len(s), NEW y \in S, NEW x, s[k] # y,
         NEW e, e = [s EXCEPT ![k] = y]
  PROVE  Exchanged(x, s, e, s[k], y)
<1> DEFINE A == {i \in DOMAIN s : s[i] = x}
           C == {i \in DOMAIN e : e[i] = x}
<1>1. DOMAIN s = 1 .. Len(s) /\ DOMAIN e = 1 .. Len(s)
  OBVIOUS
<1>2. \A i \in 1 .. Len(s) : e[i] = IF i = k THEN y ELSE s[i]
  BY <1>1
<1>3. IsFiniteSet(A) /\ Cardinality(A) \in Nat
  BY CountType DEF Count
<1>4. CASE x = y
  <2>1. C = A \cup {k} /\ k \notin A
    BY <1>1, <1>2, <1>4
  <2> HIDE DEF A, C
  <2>2. Cardinality(C) = Cardinality(A) + 1
    BY <1>3, <2>1, FS_AddElement
  <2>3. QED
    BY <1>4, <2>2 DEF Count, Exchanged, A, C
<1>5. CASE x = s[k]
  <2>1. C = A \ {k} /\ k \in A
    BY <1>1, <1>2, <1>5
  <2> HIDE DEF A, C
  <2>2. Cardinality(C) = Cardinality(A) - 1
    BY <1>3, <2>1, FS_RemoveElement
  <2>3. QED
    BY <1>5, <2>2 DEF Count, Exchanged, A, C
<1>6. CASE x # y /\ x # s[k]
  <2>1. C = A
    BY <1>1, <1>2, <1>6
  <2>2. QED
    BY <1>6, <2>1 DEF Count, Exchanged
<1>7. QED
  BY <1>4, <1>5, <1>6

----------------------------------------------------------------------------
(* Finite sets *)


(* Induction over a finite set: a family of subsets that holds the empty   *)
(* set, and with every set also the set with one more element, holds all.  *)
LEMMA SetInduction ==
  ASSUME NEW S, IsFiniteSet(S), NEW P, {} \in P,
         \A T \in SUBSET S : \A x \in S \ T : T \in P => T \cup {x} \in P
  PROVE  \A T \in SUBSET S : T \in P
<1> DEFINE A == {n \in Nat : \E T \in SUBSET S : T \notin P /\ Cardinality(T) = n}
<1> SUFFICES ASSUME NEW U \in SUBSET S, U \notin P PROVE FALSE
  OBVIOUS
<1>1. Cardinality(U) \in A
  BY FS_Subset, FS_CardinalityType
<1>2. A \in SUBSET Nat
  OBVIOUS
<1> HIDE DEF A
<1>3. PICK n \in A : \A k \in A : n <= k
  BY <1>1, <1>2, LeastNatural
<1>4. PICK T \in SUBSET S : T \notin P /\ Cardinality(T) = n
  BY DEF A
<1>5. T # {} /\ IsFiniteSet(T)
  BY <1>4, FS_Subset
<1>6. PICK x \in T : TRUE
  BY <1>5
<1>7. T \ {x} \in SUBSET S /\ x \in S \ (T \ {x}) /\ (T \ {x}) \cup {x} = T
  OBVIOUS
<1>8. T \ {x} \notin P
  BY <1>4, <1>7, Zenon
<1>9. Cardinality(T \ {x}) = n - 1 /\ n - 1 \in Nat
  <2>1. IsFiniteSet(T \ {x}) /\ Cardinality(T \ {x}) = Cardinality(T) - 1
    BY <1>5, FS_RemoveElement
  <2>2. Cardinality(T \ {x}) \in Nat
    BY <2>1, FS_CardinalityType
  <2>3. QED
    BY <1>4, <2>1, <2>2
<1>10. n - 1 \in A
  BY <1>7, <1>8, <1>9 DEF A
<1>11. n \in Nat
  BY <1>2
<1>12. QED
  BY <1>3, <1>10, <1>11

(* The sum of a function of naturals, counted: one unit for each number up *)
(* to f[x], for each x.                                                    *)
Units(f, S) == {p \in S \X Nat : p[2] # 0 /\ p[2] <= f[p[1]]}

(* One more element adds its value. *)
LEMMA UnitsAdd ==
  ASSUME NEW S, NEW x, x \notin S, NEW f, f[x] \in Nat, IsFiniteSet(Units(f, S))
  PROVE  /\ IsFiniteSet(Units(f, S \cup {x}))
         /\ Cardinality(Units(f, S \cup {x})) = Cardinality(Units(f, S)) + f[x]
<1> DEFINE U == Units(f, S)
           V == {x} \X (1 .. f[x])
<1>1. Units(f, S \cup {x}) = U \cup V
  BY DEF Units
<1>2. U \cap V = {}
  BY DEF Units
<1>3. IsFiniteSet(V) /\ Cardinality(V) = f[x]
  <2>1. IsFiniteSet(1 .. f[x]) /\ Cardinality(1 .. f[x]) = f[x]
    BY FS_Interval
  <2>2. IsFiniteSet({x}) /\ Cardinality({x}) = 1
    BY FS_Singleton
  <2> DEFINE I == 1 .. f[x]
             X == {x}
  <2> HIDE DEF I, X
  <2>3. IsFiniteSet(X \X I) /\ Cardinality(X \X I) = Cardinality(X) * Cardinality(I)
    BY <2>1, <2>2, FS_Product DEF I, X
  <2>4. QED
    BY <2>1, <2>2, <2>3 DEF I, X
<1> HIDE DEF U, V
<1>4. IsFiniteSet(U) /\ Cardinality(U) \in Nat
  BY FS_CardinalityType DEF U
<1>5. IsFiniteSet(U \cup V) /\ Cardinality(U \cup V) = Cardinality(U) + Cardinality(V) - Cardinality(U \cap V)
  BY <1>3, <1>4, FS_Union
<1>6. Cardinality(U \cap V) = 0
  BY <1>2, FS_EmptySet
<1>7. Cardinality(U \cup V) = Cardinality(U) + f[x]
  BY <1>3, <1>4, <1>5, <1>6
<1>8. QED
  BY <1>1, <1>5, <1>7 DEF U

(* The units of a finite set are finite. *)
LEMMA UnitsFinite ==
  ASSUME NEW S, IsFiniteSet(S), NEW f, \A x \in S : f[x] \in Nat
  PROVE  \A T \in SUBSET S : IsFiniteSet(Units(f, T)) /\ Cardinality(Units(f, T)) \in Nat
<1> DEFINE P == {T \in SUBSET S : IsFiniteSet(Units(f, T))}
<1>1. {} \in P
  <2>1. Units(f, {}) = {}
    BY DEF Units
  <2>2. QED
    BY <2>1, FS_EmptySet
<1>2. ASSUME NEW T \in SUBSET S, NEW x \in S \ T, T \in P PROVE T \cup {x} \in P
  BY <1>2, UnitsAdd
<1> HIDE DEF P
<1>3. \A T \in SUBSET S : T \in P
  BY <1>1, <1>2, SetInduction
<1>4. QED
  BY <1>3, FS_CardinalityType DEF P

(* The fold is that count: the count satisfies the equation that defines   *)
(* the fold, and only one function on the subsets does.                    *)
LEMMA SumIsUnits ==
  ASSUME NEW S, IsFiniteSet(S), NEW f, \A x \in S : f[x] \in Nat
  PROVE  /\ SumFunctionOnSet(f, S) = Cardinality(Units(f, S))
         /\ SumFunctionOnSet(f, S) \in Nat
<1> DEFINE iter[s \in SUBSET S] ==
             IF s = {} THEN 0 ELSE f[CHOOSE x \in s : TRUE] + iter[s \ {CHOOSE x \in s : TRUE}]
           count == [s \in SUBSET S |-> Cardinality(Units(f, s))]
<1>1. SumFunctionOnSet(f, S) = iter[S]
  BY DEF SumFunctionOnSet, FoldFunctionOnSet, MapThenFoldSet
<1>2. ASSUME NEW s \in SUBSET S
      PROVE  count[s] = IF s = {} THEN 0
                        ELSE f[CHOOSE x \in s : TRUE] + count[s \ {CHOOSE x \in s : TRUE}]
  <2>1. CASE s = {}
    <3>1. Units(f, s) = {}
      BY <2>1 DEF Units
    <3>2. QED
      BY <2>1, <3>1, FS_EmptySet
  <2>2. CASE s # {}
    <3> DEFINE x == CHOOSE x \in s : TRUE
    <3>1. x \in s
      BY <2>2
    <3> HIDE DEF x
    <3>2. /\ IsFiniteSet(Units(f, s \ {x})) /\ Cardinality(Units(f, s \ {x})) \in Nat
          /\ s \ {x} \in SUBSET S /\ (s \ {x}) \cup {x} = s /\ f[x] \in Nat
      BY <3>1, UnitsFinite
    <3> DEFINE t == s \ {x}
    <3>3. x \notin t
      OBVIOUS
    <3> HIDE DEF t
    <3>4. Cardinality(Units(f, t \cup {x})) = Cardinality(Units(f, t)) + f[x]
      BY <3>2, <3>3, UnitsAdd DEF t
    <3>5. count[s] = f[x] + count[s \ {x}]
      <4>1. count[s] = Cardinality(Units(f, t \cup {x})) /\ count[s \ {x}] = Cardinality(Units(f, t))
        BY <3>2 DEF t
      <4>2. Cardinality(Units(f, t)) \in Nat /\ f[x] \in Nat
        BY <3>2 DEF t
      <4> HIDE DEF count
      <4>3. QED
        BY <3>4, <4>1, <4>2
    <3>6. QED
      BY <2>2, <3>5 DEF x
  <2>3. QED
    BY <2>1, <2>2
<1>3. count = [s \in SUBSET S |->
                 IF s = {} THEN 0
                 ELSE f[CHOOSE x \in s : TRUE] + count[s \ {CHOOSE x \in s : TRUE}]]
  BY <1>2
<1> HIDE DEF count
<1>4. iter = [s \in SUBSET S |->
                IF s = {} THEN 0
                ELSE f[CHOOSE x \in s : TRUE] + iter[s \ {CHOOSE x \in s : TRUE}]]
  BY <1>3
<1> HIDE DEF iter
<1> DEFINE P == {s \in SUBSET S : iter[s] = count[s]}
<1>5. \A s \in SUBSET S : s \in P
  <2> DEFINE A == {n \in Nat : \E s \in SUBSET S : iter[s] # count[s] /\ Cardinality(s) = n}
  <2> SUFFICES ASSUME NEW u \in SUBSET S, iter[u] # count[u] PROVE FALSE
    OBVIOUS
  <2>1. Cardinality(u) \in A
    BY FS_Subset, FS_CardinalityType
  <2>2. A \in SUBSET Nat
    OBVIOUS
  <2> HIDE DEF A
  <2>3. PICK n \in A : \A k \in A : n <= k
    BY <2>1, <2>2, LeastNatural
  <2>4. PICK s \in SUBSET S : iter[s] # count[s] /\ Cardinality(s) = n
    BY DEF A
  <2>5. IsFiniteSet(s) /\ n \in Nat
    BY <2>2, FS_Subset
  <2>6. s # {}
    BY <1>3, <1>4, <2>4
  <2> DEFINE x == CHOOSE x \in s : TRUE
  <2>7. x \in s
    BY <2>6
  <2>8. iter[s] = f[x] + iter[s \ {x}] /\ count[s] = f[x] + count[s \ {x}]
    BY <1>3, <1>4, <2>6
  <2> HIDE DEF x
  <2>9. iter[s \ {x}] # count[s \ {x}]
    BY <2>4, <2>8
  <2>10. Cardinality(s \ {x}) = n - 1 /\ n - 1 \in Nat
    <3>1. IsFiniteSet(s \ {x}) /\ Cardinality(s \ {x}) = Cardinality(s) - 1
      BY <2>5, <2>7, FS_RemoveElement
    <3>2. Cardinality(s \ {x}) \in Nat
      BY <3>1, FS_CardinalityType
    <3>3. QED
      BY <2>4, <3>1, <3>2
  <2>11. n - 1 \in A
    BY <2>9, <2>10 DEF A
  <2>12. QED
    BY <2>3, <2>5, <2>11
<1>6. iter[S] = Cardinality(Units(f, S))
  BY <1>5 DEF count
<1>7. QED
  BY <1>1, <1>6, UnitsFinite

(* What the sums of the models need: the empty sum, one more element, and  *)
(* that only the values at the elements count.                             *)
LEMMA SumAdd ==
  ASSUME NEW S, IsFiniteSet(S), NEW f, \A x \in S : f[x] \in Nat
  PROVE  /\ S = {} => SumFunctionOnSet(f, S) = 0
         /\ \A x : x \notin S /\ f[x] \in Nat =>
              /\ SumFunctionOnSet(f, S \cup {x}) = SumFunctionOnSet(f, S) + f[x]
              /\ SumFunctionOnSet(f, S \cup {x}) \in Nat
<1>1. ASSUME S = {} PROVE SumFunctionOnSet(f, S) = 0
  <2>1. Units(f, S) = {}
    BY <1>1 DEF Units
  <2>2. QED
    BY <2>1, SumIsUnits, FS_EmptySet
<1>2. ASSUME NEW x, x \notin S, f[x] \in Nat
      PROVE  /\ SumFunctionOnSet(f, S \cup {x}) = SumFunctionOnSet(f, S) + f[x]
             /\ SumFunctionOnSet(f, S \cup {x}) \in Nat
  <2> DEFINE T == S \cup {x}
  <2>1. IsFiniteSet(T) /\ \A y \in T : f[y] \in Nat
    BY <1>2, FS_AddElement
  <2> HIDE DEF T
  <2>2. SumFunctionOnSet(f, T) = Cardinality(Units(f, T)) /\ SumFunctionOnSet(f, T) \in Nat
    BY <2>1, SumIsUnits
  <2>3. SumFunctionOnSet(f, S) = Cardinality(Units(f, S))
    BY SumIsUnits
  <2>4. IsFiniteSet(Units(f, S))
    BY UnitsFinite
  <2>5. Cardinality(Units(f, T)) = Cardinality(Units(f, S)) + f[x]
    BY <1>2, <2>4, UnitsAdd DEF T
  <2>6. QED
    BY <2>2, <2>3, <2>5 DEF T
<1>3. QED
  BY <1>1, <1>2

(* Functions that agree on a set have the same sum over it. *)
LEMMA SumSame ==
  ASSUME NEW S, IsFiniteSet(S), NEW f, NEW g,
         \A x \in S : f[x] \in Nat /\ f[x] = g[x]
  PROVE  SumFunctionOnSet(f, S) = SumFunctionOnSet(g, S)
<1>1. Units(f, S) = Units(g, S)
  BY DEF Units
<1>2. QED
  BY <1>1, SumIsUnits

----------------------------------------------------------------------------
(* Arrangements *)

(* There are n numbers from 1 to n. *)
LEMMA FirstSize ==
  \A n \in Nat : IsFiniteSet(1 .. n) /\ Cardinality(1 .. n) = n
BY FS_Interval

(* The range of a sequence is what is at its positions. *)
LEMMA InRange ==
  ASSUME NEW S, NEW q \in Seq(S)
  PROVE  \A x : x \in Range(q) <=> \E k \in 1 .. Len(q) : x = q[k]
<1>1. DOMAIN q = 1 .. Len(q)
  OBVIOUS
<1>2. QED
  BY <1>1, Zenon DEF Range

(* A sequence without repetitions is as long as its range is large. *)
LEMMA InjectiveLength ==
  ASSUME NEW S, NEW q \in Seq(S), IsInjective(q)
  PROVE  IsFiniteSet(Range(q)) /\ Cardinality(Range(q)) = Len(q)
<1> DEFINE D == 1 .. Len(q)
           R == Range(q)
<1>1. IsFiniteSet(D) /\ Cardinality(D) = Len(q)
  BY FirstSize
<1>2. q \in Surjection(D, R) /\ q \in Injection(D, R)
  BY DEF Surjection, Injection, Range, IsInjective
<1> HIDE DEF D, R
<1>3. IsFiniteSet(R) /\ Cardinality(R) = Cardinality(D)
  BY <1>1, <1>2, FS_Surjection
<1>4. QED
  BY <1>1, <1>3 DEF R

(* A sequence as long as its range is large has no repetitions. *)
LEMMA FullLength ==
  ASSUME NEW S, NEW q \in Seq(S), Cardinality(Range(q)) = Len(q)
  PROVE  IsInjective(q)
<1> DEFINE D == 1 .. Len(q)
           R == Range(q)
<1>1. IsFiniteSet(D) /\ Cardinality(D) = Len(q)
  BY FirstSize
<1>2. q \in Surjection(D, R)
  BY DEF Surjection, Range
<1> HIDE DEF D, R
<1>3. Cardinality(D) = Cardinality(R)
  BY <1>1 DEF R
<1>4. q \in Injection(D, R)
  BY <1>1, <1>2, <1>3, FS_SurjSameCardinalityImpliesInj
<1>5. QED
  BY <1>4 DEF Injection

(* The range of a sequence is finite and no larger than the sequence. *)
LEMMA RangeFinite ==
  ASSUME NEW S, NEW q \in Seq(S)
  PROVE  IsFiniteSet(Range(q)) /\ Cardinality(Range(q)) <= Len(q) /\ Range(q) \subseteq S
<1> DEFINE D == 1 .. Len(q)
           R == Range(q)
<1>1. IsFiniteSet(D) /\ Cardinality(D) = Len(q)
  BY FirstSize
<1>2. q \in Surjection(D, R) /\ R \subseteq S
  BY DEF Surjection, Range
<1> HIDE DEF D, R
<1>3. IsFiniteSet(R) /\ Cardinality(R) <= Cardinality(D)
  BY <1>1, <1>2, FS_Surjection
<1>4. QED
  BY <1>1, <1>2, <1>3 DEF R

(* An arrangement of a finite set holds each element once. *)
LEMMA Arrangement ==
  ASSUME NEW S, IsFiniteSet(S), NEW s \in SetToSeqs(S)
  PROVE  /\ s \in Seq(S) /\ Len(s) = Cardinality(S)
         /\ IsInjective(s) /\ Range(s) = S
<1> DEFINE n == Cardinality(S)
           D == 1 .. n
<1>1. n \in Nat
  BY FS_CardinalityType
<1>2. s \in [D -> S] /\ \A i, j \in D : i # j => s[i] # s[j]
  BY DEF SetToSeqs
<1>3. s \in Seq(S) /\ Len(s) = n /\ DOMAIN s = D
  BY <1>1, <1>2
<1>4. IsInjective(s)
  BY <1>2 DEF IsInjective
<1>5. s \in Injection(D, S)
  BY <1>2, <1>4 DEF Injection
<1>6. Cardinality(D) = n
  BY <1>1, FirstSize
<1>7. s \in Surjection(D, S)
  <2> HIDE DEF D
  <2>1. Cardinality(D) = Cardinality(S)
    BY <1>6
  <2>2. QED
    BY <1>5, <2>1, FS_Injection
<1>8. Range(s) = S
  BY <1>2, <1>7 DEF Surjection, Range
<1>9. QED
  BY <1>3, <1>4, <1>8

(* Every finite set has one, and SetToSeq is one. *)
LEMMA SetToSeqArranges ==
  ASSUME NEW S, IsFiniteSet(S)
  PROVE  SetToSeq(S) \in SetToSeqs(S)
<1> DEFINE D == 1 .. Cardinality(S)
<1>1. ExistsBijection(D, S)
  BY FS_CardinalityType
<1>2. \E f \in [D -> S] : IsInjective(f)
  BY <1>1 DEF ExistsBijection, Bijection, Injection
<1>3. SetToSeq(S) \in [D -> S] /\ IsInjective(SetToSeq(S))
  BY <1>2 DEF SetToSeq
<1>4. QED
  BY <1>3 DEF SetToSeqs, IsInjective

(* Appending entries that are new keeps them apart. *)
LEMMA ConcatIs ==
  ASSUME NEW S, NEW x \in Seq(S), NEW q \in Seq(S), IsInjective(x), IsInjective(q),
         Range(q) \cap Range(x) = {}
  PROVE  /\ x \o q \in Seq(S) /\ Len(x \o q) = Len(x) + Len(q) /\ IsInjective(x \o q)
         /\ \A e : e \in Range(x \o q) <=> e \in Range(x) \/ e \in Range(q)
<1> DEFINE c == x \o q
           k == Len(x)
           l == Len(q)
<1>1. /\ c \in Seq(S) /\ Len(c) = k + l /\ k \in Nat /\ l \in Nat
      /\ \A i \in 1 .. k : c[i] = x[i]
      /\ \A i \in 1 .. l : c[k + i] = q[i]
  OBVIOUS
<1>2. /\ \A e : e \in Range(x) <=> \E i \in 1 .. k : e = x[i]
      /\ \A e : e \in Range(q) <=> \E i \in 1 .. l : e = q[i]
  BY InRange
<1> HIDE DEF c, k, l
<1>3. \A e : e \in Range(c) <=> \E i \in 1 .. k + l : e = c[i]
  BY <1>1, InRange
<1>4. \A i \in 1 .. k + l : i \in 1 .. k \/ (i - k \in 1 .. l /\ i = k + (i - k))
  BY <1>1
<1>5. \A i \in 1 .. k : i \in 1 .. k + l
  BY <1>1
<1>6. \A i \in 1 .. l : k + i \in 1 .. k + l
  BY <1>1
<1>7. ASSUME NEW e PROVE e \in Range(c) <=> e \in Range(x) \/ e \in Range(q)
  <2>1. ASSUME e \in Range(c) PROVE e \in Range(x) \/ e \in Range(q)
    <3>1. PICK i \in 1 .. k + l : e = c[i]
      BY <1>3, <2>1
    <3>2. CASE i \in 1 .. k
      BY <1>1, <1>2, <3>1, <3>2
    <3>3. CASE i - k \in 1 .. l /\ i = k + (i - k)
      <4>1. e = q[i - k]
        BY <1>1, <3>1, <3>3
      <4>2. QED
        BY <1>2, <3>3, <4>1
    <3>4. QED
      BY <1>4, <3>2, <3>3
  <2>2. ASSUME e \in Range(x) PROVE e \in Range(c)
    BY <1>1, <1>2, <1>3, <1>5, <2>2
  <2>3. ASSUME e \in Range(q) PROVE e \in Range(c)
    <3>1. PICK i \in 1 .. l : e = q[i]
      BY <1>2, <2>3
    <3>2. e = c[k + i]
      BY <1>1, <3>1
    <3>3. QED
      BY <1>3, <1>6, <3>2
  <2>4. QED
    BY <2>1, <2>2, <2>3
<1>8. ASSUME NEW i \in 1 .. k + l, NEW j \in 1 .. k + l, c[i] = c[j] PROVE i = j
  <2>1. /\ \A a, b \in 1 .. k : x[a] = x[b] => a = b
        /\ \A a, b \in 1 .. l : q[a] = q[b] => a = b
    <3>1. DOMAIN x = 1 .. k /\ DOMAIN q = 1 .. l
      BY DEF k, l
    <3>2. QED
      BY <3>1 DEF IsInjective
  <2>2. \A a \in 1 .. k, b \in 1 .. l : x[a] # q[b]
    BY <1>2
  <2>3. CASE i \in 1 .. k /\ j \in 1 .. k
    BY <1>1, <1>8, <2>1, <2>3
  <2>4. CASE i \in 1 .. k /\ j - k \in 1 .. l /\ j = k + (j - k)
    <3>1. c[i] = x[i] /\ c[j] = q[j - k]
      BY <1>1, <2>4
    <3>2. QED
      BY <1>8, <2>2, <2>4, <3>1
  <2>5. CASE j \in 1 .. k /\ i - k \in 1 .. l /\ i = k + (i - k)
    <3>1. c[j] = x[j] /\ c[i] = q[i - k]
      BY <1>1, <2>5
    <3>2. QED
      BY <1>8, <2>2, <2>5, <3>1
  <2>6. CASE i - k \in 1 .. l /\ i = k + (i - k) /\ j - k \in 1 .. l /\ j = k + (j - k)
    <3>1. c[i] = q[i - k] /\ c[j] = q[j - k]
      BY <1>1, <2>6
    <3>2. i - k = j - k
      BY <1>8, <2>1, <2>6, <3>1
    <3>3. QED
      BY <1>1, <3>2
  <2>7. QED
    BY <1>4, <2>3, <2>4, <2>5, <2>6
<1>9. DOMAIN c = 1 .. k + l
  BY <1>1
<1>10. IsInjective(c)
  BY <1>8, <1>9 DEF IsInjective
<1>11. QED
  BY <1>1, <1>7, <1>10 DEF c, k, l

(* A part of an interval that holds with every number the smaller ones is  *)
(* a beginning of the interval, as long as it is large.                    *)
LEMMA Beginning ==
  ASSUME NEW a \in Nat, NEW b \in Nat, a <= b, NEW A \in SUBSET (a + 1 .. b),
         \A p \in A : \A i \in a + 1 .. p : i \in A
  PROVE  /\ Cardinality(A) \in Nat /\ a + Cardinality(A) <= b
         /\ \A p \in a + 1 .. b : p \in A <=> p <= a + Cardinality(A)
<1> DEFINE T == {m \in Nat : a <= m /\ m <= b /\ \A i \in a + 1 .. b : i \in A => i <= m}
<1>1. b \in T
  OBVIOUS
<1>2. T \in SUBSET Nat
  OBVIOUS
<1> HIDE DEF T
<1>3. PICK m \in T : \A k \in T : m <= k
  BY <1>1, <1>2, LeastNatural
<1>4. m \in Nat /\ a <= m /\ m <= b /\ \A i \in a + 1 .. b : i \in A => i <= m
  BY <1>3 DEF T
<1>5. m # a => m \in A
  <2> SUFFICES ASSUME m # a, m \notin A PROVE FALSE
    OBVIOUS
  <2>1. m - 1 \in T
    BY <1>4 DEF T
  <2>2. QED
    BY <1>3, <1>4, <2>1
<1>6. A = a + 1 .. m
  <2>1. ASSUME NEW i \in A PROVE i \in a + 1 .. m
    <3>1. i \in a + 1 .. b
      OBVIOUS
    <3>2. QED
      BY <1>4, <3>1
  <2>2. ASSUME NEW i \in a + 1 .. m PROVE i \in A
    <3>1. m # a
      BY <1>4
    <3>2. QED
      BY <1>5, <3>1
  <2>3. QED
    BY <2>1, <2>2
<1>7. Cardinality(a + 1 .. m) = m - a
  <2>1. a + 1 \in Int /\ m \in Int
    BY <1>4
  <2> DEFINE c == a + 1
  <2> HIDE DEF c
  <2>2. Cardinality(c .. m) = IF c > m THEN 0 ELSE m - c + 1
    BY <2>1, FS_Interval DEF c
  <2>3. QED
    BY <1>4, <2>2 DEF c
<1>8. QED
  BY <1>4, <1>6, <1>7

----------------------------------------------------------------------------
(* Recursion *)

(* f follows next from x until Stop, for the x of measure below k. *)
Follows(f, m, next, val, Stop, D, k) ==
  \A x \in D : m[x] < k => f[x] = IF x \in Stop THEN val[x] ELSE f[next[x]]

AgreeBelow(f, g, m, D, j, k) == \A x \in D : m[x] < j /\ m[x] < k => f[x] = g[x]

(* Two such functions agree where both do. *)
LEMMA FollowsUnique ==
  ASSUME NEW D, NEW m \in [D -> Nat], NEW Stop, NEW val, NEW next \in [D -> D],
         \A x \in D \ Stop : m[next[x]] < m[x],
         NEW f, NEW g, NEW j \in Nat, NEW k \in Nat,
         Follows(f, m, next, val, Stop, D, j), Follows(g, m, next, val, Stop, D, k)
  PROVE  AgreeBelow(f, g, m, D, j, k)
<1> DEFINE T == {n \in Nat : \E x \in D : m[x] = n /\ n < j /\ n < k /\ f[x] # g[x]}
<1> SUFFICES ASSUME NEW y \in D, m[y] < j, m[y] < k, f[y] # g[y] PROVE FALSE
  BY DEF AgreeBelow
<1>1. m[y] \in T /\ T \in SUBSET Nat
  OBVIOUS
<1> HIDE DEF T
<1>2. PICK n \in T : \A i \in T : n <= i
  BY <1>1, LeastNatural
<1>3. PICK x \in D : m[x] = n /\ n < j /\ n < k /\ f[x] # g[x]
  BY DEF T
<1>4. x \notin Stop /\ f[x] = f[next[x]] /\ g[x] = g[next[x]]
  BY <1>3 DEF Follows
<1>5. m[next[x]] < n /\ m[next[x]] \in Nat /\ next[x] \in D /\ n \in Nat
  BY <1>3, <1>4
<1>6. m[next[x]] \in T
  BY <1>3, <1>4, <1>5 DEF T
<1>7. QED
  BY <1>2, <1>5, <1>6

(* f is what the loop computes. *)
Loops(f, next, val, Stop, D) ==
  \A x \in D : f[x] = IF x \in Stop THEN val[x] ELSE f[next[x]]

(* A loop that makes progress computes a function. *)
LEMMA TailRecursion ==
  ASSUME NEW D, NEW m \in [D -> Nat], NEW Stop, NEW V, NEW val \in [D -> V],
         NEW next \in [D -> D], \A x \in D \ Stop : m[next[x]] < m[x]
  PROVE  \E f \in [D -> V] : Loops(f, next, val, Stop, D)
<1> DEFINE Ok(f, k) == Follows(f, m, next, val, Stop, D, k)
           Fs == [D -> V]
           Bad == {k \in Nat : ~\E f \in Fs : Ok(f, k)}
<1>1. \A k \in Nat : \E f \in Fs : Ok(f, k)
  <2> SUFFICES ASSUME Bad # {} PROVE FALSE
    OBVIOUS
  <2>1. Bad \in SUBSET Nat
    OBVIOUS
  <2> HIDE DEF Bad
  <2>2. PICK k \in Bad : \A i \in Bad : k <= i
    BY <2>1, LeastNatural
  <2>3. k \in Nat /\ ~\E f \in Fs : Ok(f, k)
    BY DEF Bad
  <2>4. k # 0
    <3>1. k = 0 => Ok(val, k)
      BY DEF Follows
    <3>2. QED
      BY <2>3, <3>1
  <2>5. k - 1 \in Nat /\ k - 1 \notin Bad
    BY <2>2, <2>3, <2>4
  <2>6. PICK f \in Fs : Ok(f, k - 1)
    BY <2>5 DEF Bad
  <2> DEFINE g == [x \in D |-> IF x \in Stop THEN val[x] ELSE f[next[x]]]
  <2>7. g \in Fs
    OBVIOUS
  <2>8. Ok(g, k)
    <3> SUFFICES ASSUME NEW x \in D, m[x] < k
                 PROVE  g[x] = IF x \in Stop THEN val[x] ELSE g[next[x]]
      BY DEF Follows
    <3>1. CASE x \in Stop
      BY <3>1
    <3>2. CASE x \notin Stop
      <4> DEFINE y == next[x]
      <4>1. y \in D /\ m[y] < m[x] /\ m[y] \in Nat /\ m[x] \in Nat
        BY <3>2
      <4> HIDE DEF y
      <4>2. m[y] < k - 1
        BY <2>3, <4>1
      <4>3. f[y] = IF y \in Stop THEN val[y] ELSE f[next[y]]
        BY <2>6, <4>1, <4>2 DEF Follows
      <4>4. g[y] = f[y]
        BY <4>1, <4>3
      <4>5. QED
        BY <3>2, <4>4 DEF y
    <3>3. QED
      BY <3>1, <3>2
  <2>9. QED
    BY <2>3, <2>7, <2>8
<1> DEFINE G == [k \in Nat |-> CHOOSE f \in Fs : Ok(f, k)]
           h == [x \in D |-> G[m[x] + 1][x]]
<1>2. \A k \in Nat : G[k] \in Fs /\ Ok(G[k], k)
  BY <1>1
<1> HIDE DEF G
<1>3. h \in Fs
  BY <1>2
<1>4. ASSUME NEW x \in D PROVE h[x] = IF x \in Stop THEN val[x] ELSE h[next[x]]
  <2> DEFINE k == m[x] + 1
  <2>1. k \in Nat /\ m[x] \in Nat /\ m[x] < k /\ h[x] = G[k][x] /\ Ok(G[k], k)
    BY <1>2
  <2>2. G[k][x] = IF x \in Stop THEN val[x] ELSE G[k][next[x]]
    BY <2>1 DEF Follows
  <2>3. CASE x \in Stop
    BY <2>1, <2>2, <2>3
  <2>4. CASE x \notin Stop
    <3> DEFINE y == next[x]
               j == m[y] + 1
    <3>1. y \in D /\ m[y] < m[x] /\ m[y] \in Nat /\ j \in Nat /\ m[y] < j /\ m[y] < k
      BY <2>1, <2>4
    <3>2. Ok(G[j], j) /\ h[y] = G[j][y]
      BY <1>2, <3>1
    <3> HIDE DEF y, j, k
    <3>3. G[k][y] = G[j][y]
      <4> HIDE DEF h
      <4>1. k \in Nat /\ Follows(G[k], m, next, val, Stop, D, k)
        BY <2>1
      <4>2. j \in Nat /\ Follows(G[j], m, next, val, Stop, D, j)
        BY <3>1, <3>2
      <4>3. AgreeBelow(G[k], G[j], m, D, k, j)
        BY <4>1, <4>2, FollowsUnique, Zenon
      <4>4. QED
        BY <3>1, <4>3 DEF AgreeBelow
    <3>4. QED
      BY <2>1, <2>2, <2>4, <3>2, <3>3 DEF y
  <2>5. QED
    BY <2>3, <2>4
<1> HIDE DEF h
<1>5. Loops(h, next, val, Stop, D)
  BY <1>4 DEF Loops
<1>6. QED
  BY <1>3, <1>5

(* f starts with a and continues with H. *)
Iterates(f, a, H, n) == f[0] = a /\ \A i \in 1 .. n : f[i] = H[i][f[i - 1]]

(* A function of the naturals up to n may be defined from its predecessor. *)
LEMMA Iteration ==
  ASSUME NEW n \in Nat, NEW V, NEW a \in V, NEW H \in [1 .. n -> [V -> V]]
  PROVE  \E f \in [0 .. n -> V] : Iterates(f, a, H, n)
<1> DEFINE Ok(f, k) == f[0] = a /\ \A i \in 1 .. k : f[i] = H[i][f[i - 1]]
           P == {k \in 0 .. n : \E f \in [0 .. n -> V] : Ok(f, k)}
<1>1. 0 \in P
  <2> DEFINE f == [i \in 0 .. n |-> a]
  <2>1. f \in [0 .. n -> V] /\ Ok(f, 0) /\ 0 \in 0 .. n
    OBVIOUS
  <2> HIDE DEF f
  <2>2. QED
    BY <2>1
<1>2. ASSUME NEW k \in 0 .. n - 1, k \in P PROVE k + 1 \in P
  <2>1. PICK f \in [0 .. n -> V] : Ok(f, k)
    BY <1>2
  <2> DEFINE b == H[k + 1][f[k]]
             g == [f EXCEPT ![k + 1] = b]
  <2>2. k \in 0 .. n /\ k + 1 \in 0 .. n /\ k + 1 \in 1 .. n /\ k + 1 # 0
    OBVIOUS
  <2>3. b \in V
    <3>1. f[k] \in V /\ H[k + 1] \in [V -> V]
      BY <2>2
    <3>2. QED
      BY <3>1
  <2> HIDE DEF b
  <2>4. g \in [0 .. n -> V] /\ g[k + 1] = b /\ \A i \in 0 .. k : g[i] = f[i]
    BY <2>2, <2>3
  <2> HIDE DEF g
  <2>5. ASSUME NEW i \in 1 .. k + 1 PROVE g[i] = H[i][g[i - 1]]
    <3>1. i - 1 \in 0 .. k
      OBVIOUS
    <3>2. CASE i = k + 1
      <4>1. g[i - 1] = f[k]
        BY <2>4, <3>1, <3>2
      <4>2. QED
        BY <2>4, <3>2, <4>1 DEF b
    <3>3. CASE i # k + 1
      <4>1. i \in 1 .. k /\ i \in 0 .. k
        BY <3>3
      <4>2. QED
        BY <2>1, <2>4, <3>1, <4>1
    <3>4. QED
      BY <3>2, <3>3
  <2>6. g[0] = a
    BY <2>1, <2>4
  <2>7. QED
    BY <2>2, <2>4, <2>5, <2>6
<1> HIDE DEF P
<1>3. 0 .. n \subseteq P
  BY <1>1, <1>2, UpTo
<1>4. n \in P
  BY <1>3
<1>5. QED
  BY <1>4 DEF P, Iterates
=============================================================================
