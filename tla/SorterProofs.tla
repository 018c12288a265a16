---------------------------- MODULE SorterProofs ----------------------------
(***************************************************************************)
(* The sorter, for any rows, workers, plans and inputs: a top-k heap keeps *)
(* the best rows, the merge packages partition the output, no row of the   *)
(* result is in freed memory, and the rows come out in order and complete. *)
(***************************************************************************)
EXTENDS Sorter, SequenceLemmas

----------------------------------------------------------------------------
(* Orders of rows *)

(* Keys are numbers. *)
LEMMA KeyType == \A x \in Tuples : Key[x] \in Int
BY SorterAssumption

(* A row never comes after a row with a greater key. *)
InOrder(q) == \A i, j \in 1 .. Len(q) : i <= j => Key[q[i]] <= Key[q[j]]

(* Comparing neighbours compares all. *)
LEMMA OrderedInOrder ==
  ASSUME NEW q \in Seq(Tuples)
  PROVE  Ordered(q) <=> InOrder(q)
<1>1. \A i \in 1 .. Len(q) : Key[q[i]] \in Int
  BY KeyType
<1>2. ASSUME Ordered(q), NEW i \in 1 .. Len(q), NEW j \in 1 .. Len(q), i <= j
      PROVE  Key[q[i]] <= Key[q[j]]
  <2> DEFINE P == {d \in 0 .. j - i : Key[q[i]] <= Key[q[i + d]]}
             n == j - i
  <2>1. n \in Nat /\ 0 \in P
    BY <1>1, <1>2
  <2>2. ASSUME NEW d \in 0 .. n - 1, d \in P PROVE d + 1 \in P
    <3> DEFINE e == i + d
    <3>1. e \in 1 .. Len(q) - 1 /\ e \in 1 .. Len(q) /\ e + 1 \in 1 .. Len(q) /\ d + 1 \in 0 .. j - i
      BY <1>2
    <3>2. Key[q[e]] <= Key[q[e + 1]]
      BY <1>1, <1>2, <3>1 DEF Ordered, cmp_fn
    <3>3. Key[q[i]] <= Key[q[e]]
      BY <2>2
    <3>4. Key[q[i]] <= Key[q[e + 1]]
      BY <1>1, <3>1, <3>2, <3>3
    <3>5. e + 1 = i + (d + 1)
      OBVIOUS
    <3>6. QED
      BY <3>1, <3>4, <3>5
  <2> HIDE DEF P
  <2>3. 0 .. n \subseteq P
    BY <2>1, <2>2, UpTo
  <2>4. n \in P /\ i + n = j
    BY <2>1, <2>3
  <2>5. QED
    BY <2>4 DEF P
<1>3. ASSUME InOrder(q), NEW i \in 1 .. Len(q) - 1 PROVE ~cmp_fn(q[i + 1], q[i])
  <2>1. i \in 1 .. Len(q) /\ i + 1 \in 1 .. Len(q) /\ i <= i + 1
    OBVIOUS
  <2>2. Key[q[i]] <= Key[q[i + 1]]
    BY <1>3, <2>1 DEF InOrder
  <2>3. QED
    BY <1>1, <2>1, <2>2 DEF cmp_fn
<1>4. QED
  BY <1>2, <1>3 DEF Ordered, InOrder

(* The first row of a heap is a greatest one. *)
LEMMA HeapTop ==
  ASSUME NEW q \in Seq(Tuples), IsHeap(q)
  PROVE  \A i \in 1 .. Len(q) : Key[q[i]] <= Key[q[1]]
<1> DEFINE T == {i \in 1 .. Len(q) : ~(Key[q[i]] <= Key[q[1]])}
<1> SUFFICES ASSUME T # {} PROVE FALSE
  OBVIOUS
<1>1. T \in SUBSET Nat
  OBVIOUS
<1> HIDE DEF T
<1>2. PICK i \in T : \A j \in T : i <= j
  BY <1>1, LeastNatural
<1>3. i \in 1 .. Len(q) /\ ~(Key[q[i]] <= Key[q[1]])
  BY DEF T
<1>4. \A j \in 1 .. Len(q) : Key[q[j]] \in Int
  BY KeyType
<1>5. i # 1
  BY <1>3, <1>4
<1> DEFINE j == i \div 2
<1>6. j \in 1 .. Len(q) /\ j < i /\ i \in 2 .. Len(q)
  BY <1>3, <1>5
<1>7. Key[q[i]] <= Key[q[j]]
  BY <1>3, <1>4, <1>6 DEF IsHeap, cmp_fn
<1> HIDE DEF j
<1>8. j \notin T
  BY <1>2, <1>3, <1>6
<1>9. Key[q[j]] <= Key[q[1]]
  BY <1>6, <1>8 DEF T
<1>10. QED
  BY <1>3, <1>4, <1>6, <1>7, <1>9

(* A sort arranges the rows in order. *)
LEMMA SortingsAre ==
  ASSUME NEW S \in SUBSET Tuples, IsFiniteSet(S), NEW s \in SetSortings(S)
  PROVE  /\ s \in Seq(S) /\ s \in Seq(Tuples) /\ Len(s) = Cardinality(S)
         /\ IsInjective(s) /\ Range(s) = S /\ Ordered(s) /\ InOrder(s)
<1>1. s \in SetToSeqs(S) /\ Ordered(s)
  BY DEF SetSortings
<1>2. s \in Seq(S) /\ Len(s) = Cardinality(S) /\ IsInjective(s) /\ Range(s) = S
  BY <1>1, Arrangement
<1>3. s \in Seq(Tuples)
  BY <1>2
<1>4. QED
  BY <1>1, <1>2, <1>3, OrderedInOrder

(* One more row has its place in an ordered arrangement. *)
LEMMA InsertOrdered ==
  ASSUME NEW S \in SUBSET Tuples, IsFiniteSet(S), NEW x \in Tuples \ S, NEW s \in SetSortings(S)
  PROVE  SetSortings(S \cup {x}) # {}
<1> DEFINE n == Len(s)
           A == {i \in 0 + 1 .. n : Key[s[i]] <= Key[x]}
           k == Cardinality(A)
           t == [i \in 1 .. n + 1 |-> IF i <= k THEN s[i] ELSE IF i = k + 1 THEN x ELSE s[i - 1]]
           U == S \cup {x}
<1>1. /\ s \in Seq(S) /\ s \in Seq(Tuples) /\ n = Cardinality(S) /\ n \in Nat
      /\ IsInjective(s) /\ Range(s) = S /\ InOrder(s)
  BY SortingsAre
<1>2. /\ \A i \in 1 .. n : Key[s[i]] \in Int /\ s[i] \in S /\ s[i] # x
      /\ Key[x] \in Int
  BY <1>1, KeyType
<1>3. k \in Nat /\ k <= n /\ \A p \in 1 .. n : p \in A <=> p <= k
  <2> HIDE DEF n
  <2>1. ASSUME NEW p \in A, NEW i \in 0 + 1 .. p PROVE i \in A
    <3>1. p \in 1 .. n /\ i \in 1 .. n /\ i <= p
      BY <1>1
    <3>2. Key[s[i]] <= Key[s[p]]
      BY <1>1, <3>1 DEF InOrder, n
    <3>3. QED
      BY <1>2, <3>1, <3>2
  <2>2. A \in SUBSET (0 + 1 .. n)
    OBVIOUS
  <2> HIDE DEF A
  <2> DEFINE a == 0
  <2>3. a \in Nat /\ a <= n
    BY <1>1
  <2>4. /\ Cardinality(A) \in Nat /\ a + Cardinality(A) <= n
        /\ \A p \in a + 1 .. n : p \in A <=> p <= a + Cardinality(A)
    BY <1>1, <2>1, <2>2, <2>3, Beginning
  <2>5. QED
    BY <1>1, <2>4
<1>4. \A p \in 1 .. n : Key[s[p]] <= Key[x] <=> p <= k
  BY <1>3
<1> HIDE DEF A, k
<1>5. t \in [1 .. n + 1 -> U]
  BY <1>1, <1>2, <1>3
<1>6. Cardinality(U) = n + 1
  BY <1>1, FS_AddElement
<1>7. ASSUME NEW i \in 1 .. n + 1, NEW j \in 1 .. n + 1, i < j PROVE t[i] # t[j]
  <2>1. \A a, b \in 1 .. n : a # b => s[a] # s[b]
    BY <1>1 DEF IsInjective
  <2>2. QED
    BY <1>1, <1>2, <1>3, <1>7, <2>1
<1>8. t \in SetToSeqs(U)
  <2>1. \A i, j \in 1 .. n + 1 : i # j => t[i] # t[j]
    <3> HIDE DEF t
    <3>1. QED
      BY <1>1, <1>7
  <2> HIDE DEF t, U
  <2>2. QED
    BY <1>5, <1>6, <2>1 DEF SetToSeqs
<1>9. Len(t) = n + 1
  BY <1>1, <1>5
<1>10. ASSUME NEW i \in 1 .. n PROVE Key[t[i]] <= Key[t[i + 1]]
  <2>1. i + 1 \in 1 .. n + 1 /\ i \in 1 .. n + 1
    BY <1>1
  <2>2. CASE i + 1 <= k
    <3>1. t[i] = s[i] /\ t[i + 1] = s[i + 1] /\ i + 1 \in 1 .. n
      BY <1>1, <1>3, <2>1, <2>2
    <3>2. QED
      BY <1>1, <3>1 DEF InOrder
  <2>3. CASE i = k
    <3>1. t[i] = s[i] /\ t[i + 1] = x
      BY <1>1, <1>3, <2>1, <2>3
    <3>2. QED
      BY <1>4, <2>3, <3>1
  <2>4. CASE i = k + 1
    <3>1. t[i] = x /\ t[i + 1] = s[i]
      BY <1>1, <1>3, <2>1, <2>4
    <3>2. QED
      BY <1>2, <1>3, <1>4, <2>4, <3>1
  <2>5. CASE i > k + 1
    <3>1. t[i] = s[i - 1] /\ t[i + 1] = s[i] /\ i - 1 \in 1 .. n
      BY <1>1, <1>3, <2>1, <2>5
    <3>2. QED
      BY <1>1, <3>1 DEF InOrder
  <2>6. QED
    BY <1>1, <1>3, <2>2, <2>3, <2>4, <2>5
<1>11. Ordered(t)
  <2>1. \A i \in 1 .. n + 1 : Key[t[i]] \in Int
    <3>1. U \subseteq Tuples
      OBVIOUS
    <3> HIDE DEF t, U
    <3>2. QED
      BY <1>5, <3>1, KeyType
  <2> SUFFICES ASSUME NEW i \in 1 .. Len(t) - 1 PROVE ~(Key[t[i + 1]] < Key[t[i]])
    BY DEF Ordered, cmp_fn
  <2> HIDE DEF t
  <2>2. i \in 1 .. n /\ i + 1 \in 1 .. n + 1 /\ i \in 1 .. n + 1
    BY <1>1, <1>9
  <2>3. QED
    BY <1>10, <2>1, <2>2
<1>12. QED
  BY <1>8, <1>11 DEF SetSortings

(* Every finite set of rows can be sorted. *)
LEMMA SortingExists ==
  ASSUME NEW S \in SUBSET Tuples, IsFiniteSet(S)
  PROVE  SetSortings(S) # {}
<1> DEFINE P == {T \in SUBSET S : SetSortings(T) # {}}
<1>1. {} \in P
  <2>1. SetToSeq({}) \in SetToSeqs({})
    BY FS_EmptySet, SetToSeqArranges
  <2>2. Len(SetToSeq({})) = 0
    BY <2>1, FS_EmptySet, Arrangement
  <2>3. Ordered(SetToSeq({}))
    BY <2>2 DEF Ordered
  <2>4. SetToSeq({}) \in SetSortings({})
    BY <2>1, <2>3 DEF SetSortings
  <2>5. QED
    BY <2>4
<1>2. ASSUME NEW T \in SUBSET S, NEW x \in S \ T, T \in P PROVE T \cup {x} \in P
  <2>1. PICK s : s \in SetSortings(T)
    BY <1>2
  <2>2. IsFiniteSet(T) /\ T \in SUBSET Tuples /\ x \in Tuples \ T
    BY FS_Subset
  <2>3. SetSortings(T \cup {x}) # {}
    BY <2>1, <2>2, InsertOrdered
  <2>4. QED
    BY <2>3
<1> HIDE DEF P
<1>3. \A T \in SUBSET S : T \in P
  BY <1>1, <1>2, SetInduction
<1>4. QED
  BY <1>3 DEF P

(* Every one of the first n values of q is one of the first n - 1 of r. *)
AmongFirst(q, r, n) == \A i \in 1 .. n : \E h \in 1 .. n - 1 : q[i] = r[h]

Distinct(q, n) == \A i, j \in 1 .. n : i # j => q[i] # q[j]

(* The first n values of a sequence without repetition are not n - 1 values. *)
LEMMA TooMany ==
  ASSUME NEW n \in Nat \ {0}, NEW q, NEW r, Distinct(q, n)
  PROVE  ~AmongFirst(q, r, n)
<1> SUFFICES ASSUME AmongFirst(q, r, n) PROVE FALSE
  OBVIOUS
<1> DEFINE S == 1 .. n
           m == n - 1
           T == 1 .. m
           f == [i \in S |-> CHOOSE h \in T : q[i] = r[h]]
<1>1. IsFiniteSet(S) /\ Cardinality(S) = n /\ m \in Nat
  BY FirstSize
<1>2. IsFiniteSet(T) /\ Cardinality(T) = m
  BY <1>1, FirstSize
<1>3. \A i \in S : f[i] \in T /\ q[i] = r[f[i]]
  BY DEF AmongFirst
<1>4. f \in [S -> T]
  BY <1>3
<1>5. Cardinality(T) < Cardinality(S)
  BY <1>1, <1>2
<1> HIDE DEF f, S, T
<1>6. PICK x, y \in S : x # y /\ f[x] = f[y]
  BY <1>1, <1>2, <1>4, <1>5, FS_PigeonHole
<1>7. QED
  BY <1>3, <1>6 DEF S, Distinct

(* The best rows of a set, in order, have the keys of the first rows of    *)
(* any ordered arrangement of the set.                                     *)
LEMMA SameRank ==
  ASSUME NEW I \in SUBSET Tuples, IsFiniteSet(I), NEW all \in SetSortings(I),
         NEW q \in Seq(Tuples), IsInjective(q), Range(q) \subseteq I, InOrder(q),
         \A a \in Range(q), b \in I \ Range(q) : ~cmp_fn(b, a),
         NEW i \in 1 .. Len(q)
  PROVE  i \in 1 .. Len(all) /\ Key[q[i]] = Key[all[i]]
<1>1. /\ all \in Seq(Tuples) /\ Len(all) = Cardinality(I) /\ IsInjective(all)
      /\ Range(all) = I /\ InOrder(all)
  BY SortingsAre
<1>2. Len(q) <= Len(all)
  BY <1>1, InjectiveLength, FS_Subset
<1>3. i \in 1 .. Len(all) /\ i \in Nat \ {0}
  BY <1>1, <1>2
<1>4. /\ \A j \in 1 .. Len(q) : q[j] \in Range(q) /\ q[j] \in I /\ Key[q[j]] \in Int
      /\ \A j \in 1 .. Len(all) : all[j] \in I /\ Key[all[j]] \in Int
      /\ \A x \in I : \E h \in 1 .. Len(all) : x = all[h]
      /\ \A x \in Range(q) : \E h \in 1 .. Len(q) : x = q[h]
  BY <1>1, KeyType DEF Range
<1>5. Distinct(q, i) /\ Distinct(all, i)
  BY <1>1, <1>3 DEF IsInjective, Distinct
<1>6. ~(Key[q[i]] < Key[all[i]])
  <2> SUFFICES ASSUME Key[q[i]] < Key[all[i]] PROVE FALSE
    OBVIOUS
  <2>1. ASSUME NEW j \in 1 .. i PROVE \E h \in 1 .. i - 1 : q[j] = all[h]
    <3>1. j \in 1 .. Len(q) /\ j <= i
      OBVIOUS
    <3>2. PICK h \in 1 .. Len(all) : q[j] = all[h]
      BY <1>4, <3>1
    <3>3. Key[all[h]] < Key[all[i]]
      <4>1. Key[q[j]] <= Key[q[i]]
        BY <3>1 DEF InOrder
      <4>2. QED
        BY <1>3, <1>4, <3>1, <3>2, <4>1
    <3>4. ~(i <= h)
      BY <1>1, <1>3, <1>4, <3>3 DEF InOrder
    <3>5. QED
      BY <3>2, <3>4
  <2>2. AmongFirst(q, all, i)
    BY <2>1 DEF AmongFirst
  <2>3. QED
    BY <1>3, <1>5, <2>2, TooMany
<1>7. ~(Key[all[i]] < Key[q[i]])
  <2> SUFFICES ASSUME Key[all[i]] < Key[q[i]] PROVE FALSE
    OBVIOUS
  <2>1. ASSUME NEW j \in 1 .. i PROVE \E h \in 1 .. i - 1 : all[j] = q[h]
    <3>1. j \in 1 .. Len(all) /\ j <= i
      BY <1>3
    <3>2. Key[all[j]] < Key[q[i]]
      <4>1. Key[all[j]] <= Key[all[i]]
        BY <1>1, <1>3, <3>1 DEF InOrder
      <4>2. QED
        BY <1>3, <1>4, <3>1, <4>1
    <3>3. all[j] \in Range(q)
      BY <1>4, <3>1, <3>2 DEF cmp_fn
    <3>4. PICK h \in 1 .. Len(q) : all[j] = q[h]
      BY <1>4, <3>3
    <3>5. ~(i <= h)
      BY <1>4, <3>2, <3>4 DEF InOrder
    <3>6. QED
      BY <3>4, <3>5
  <2>2. AmongFirst(all, q, i)
    BY <2>1 DEF AmongFirst
  <2>3. QED
    BY <1>3, <1>5, <2>2, TooMany
<1>8. QED
  BY <1>3, <1>4, <1>6, <1>7

----------------------------------------------------------------------------
(* The heap *)

(* Exchanging two rows keeps the rows. *)
LEMMA SwapKeeps ==
  ASSUME NEW q \in Seq(Tuples), NEW i \in 1 .. Len(q), NEW j \in 1 .. Len(q)
  PROVE  /\ Swap(q, i, j) \in Seq(Tuples) /\ Len(Swap(q, i, j)) = Len(q)
         /\ \A k \in 1 .. Len(q) :
              Swap(q, i, j)[k] = IF k = j THEN q[i] ELSE IF k = i THEN q[j] ELSE q[k]
         /\ Range(Swap(q, i, j)) = Range(q)
         /\ IsInjective(q) => IsInjective(Swap(q, i, j))
<1> DEFINE s == Swap(q, i, j)
<1>1. /\ s \in Seq(Tuples) /\ Len(s) = Len(q)
      /\ \A k \in 1 .. Len(q) : s[k] = IF k = j THEN q[i] ELSE IF k = i THEN q[j] ELSE q[k]
  BY DEF Swap
<1> HIDE DEF s
<1>2. DOMAIN s = 1 .. Len(q) /\ DOMAIN q = 1 .. Len(q)
  BY <1>1
<1>3. Range(s) = Range(q)
  <2>1. ASSUME NEW k \in 1 .. Len(q) PROVE \E h \in 1 .. Len(q) : s[k] = q[h]
    BY <1>1
  <2>2. ASSUME NEW k \in 1 .. Len(q) PROVE \E h \in 1 .. Len(q) : q[k] = s[h]
    <3>1. CASE k = i
      BY <1>1, <3>1
    <3>2. CASE k = j
      BY <1>1, <3>2
    <3>3. CASE k # i /\ k # j
      BY <1>1, <3>3
    <3>4. QED
      BY <3>1, <3>2, <3>3
  <2>3. ASSUME NEW x \in Range(s) PROVE x \in Range(q)
    <3>1. PICK k \in 1 .. Len(q) : x = s[k]
      BY <1>1, InRange
    <3>2. PICK h \in 1 .. Len(q) : x = q[h]
      BY <2>1, <3>1
    <3>3. QED
      BY <3>2, InRange
  <2>4. ASSUME NEW x \in Range(q) PROVE x \in Range(s)
    <3>1. PICK k \in 1 .. Len(q) : x = q[k]
      BY InRange
    <3>2. PICK h \in 1 .. Len(s) : x = s[h]
      BY <1>1, <2>2, <3>1
    <3>3. QED
      BY <1>1, <3>2, InRange
  <2>5. QED
    BY <2>3, <2>4
<1>4. IsInjective(q) => IsInjective(s)
  BY <1>1, <1>2 DEF IsInjective
<1>5. QED
  BY <1>1, <1>3, <1>4 DEF s

(* Where sifting stops, and the next position otherwise. *)
Settled(h) == 2 * h.idx > Len(h.q) \/ ~cmp_fn(h.q[h.idx], h.q[Child(h.q, h.idx)])

Down(h) == [q |-> Swap(h.q, h.idx, Child(h.q, h.idx)), idx |-> Child(h.q, h.idx)]

Below(h) == IF h.idx <= Len(h.q) THEN Len(h.q) - h.idx ELSE 0

(* One round of the loop goes further down. *)
LEMMA DownGoesDown ==
  ASSUME NEW h \in HeapPositions, ~Settled(h)
  PROVE  /\ h.idx \in 1 .. Len(h.q) /\ Child(h.q, h.idx) \in 1 .. Len(h.q)
         /\ Child(h.q, h.idx) \in {2 * h.idx, 2 * h.idx + 1} /\ h.idx < Child(h.q, h.idx)
         /\ Down(h) \in HeapPositions /\ Below(Down(h)) < Below(h)
<1> DEFINE q == h.q
           i == h.idx
           c == Child(h.q, h.idx)
<1>1. q \in Seq(Tuples) /\ i \in Nat \ {0} /\ Len(q) \in Nat
  BY DEF HeapPositions
<1>2. 2 * i <= Len(q)
  BY <1>1 DEF Settled
<1>3. c \in {2 * i, 2 * i + 1} /\ c \in 1 .. Len(q) /\ i < c /\ i \in 1 .. Len(q)
  BY <1>1, <1>2 DEF Child
<1> HIDE DEF c
<1>4. Swap(q, i, c) \in Seq(Tuples) /\ Len(Swap(q, i, c)) = Len(q)
  BY <1>1, <1>3, SwapKeeps
<1>5. Down(h) = [q |-> Swap(q, i, c), idx |-> c]
  BY DEF Down, c
<1>6. Down(h) \in HeapPositions
  BY <1>3, <1>4, <1>5 DEF HeapPositions
<1>7. Below(Down(h)) = Len(q) - c /\ Below(h) = Len(q) - i
  BY <1>1, <1>3, <1>4, <1>5 DEF Below
<1>8. QED
  BY <1>1, <1>3, <1>6, <1>7 DEF c

(* The loop ends, so SiftDown is the function its equation says. *)
LEMMA SiftDownEquation ==
  ASSUME NEW h \in HeapPositions
  PROVE  SiftDown[h] = IF Settled(h) THEN h.q ELSE SiftDown[Down(h)]
<1> DEFINE D == HeapPositions
           Stop == {x \in D : Settled(x)}
           m == [x \in D |-> Below(x)]
           val == [x \in D |-> x.q]
           next == [x \in D |-> IF Settled(x) THEN x ELSE Down(x)]
           V == Seq(Tuples)
<1>1. m \in [D -> Nat]
  BY DEF Below, HeapPositions
<1>2. val \in [D -> V]
  BY DEF HeapPositions
<1>3. next \in [D -> D]
  BY DownGoesDown
<1>4. \A x \in D \ Stop : m[next[x]] < m[x]
  BY <1>3, DownGoesDown
<1>5. \A x \in D : /\ x \in Stop <=> Settled(x)
                   /\ val[x] = x.q
                   /\ ~Settled(x) => next[x] = Down(x)
  OBVIOUS
<1> HIDE DEF D, Stop, m, val, next, V
<1>6. PICK f \in [D -> V] : Loops(f, next, val, Stop, D)
  BY <1>1, <1>2, <1>3, <1>4, TailRecursion, Zenon
<1>7. \A x \in D : f[x] = IF Settled(x) THEN x.q ELSE f[Down(x)]
  BY <1>5, <1>6 DEF Loops
<1>8. f = [x \in D |-> IF Settled(x) THEN x.q ELSE f[Down(x)]]
  BY <1>7
<1>9. SiftDown = CHOOSE g : g = [x \in D |-> IF Settled(x) THEN x.q ELSE g[Down(x)]]
  BY DEF SiftDown, Settled, Down, D, HeapPositions
<1>10. SiftDown = [x \in D |-> IF Settled(x) THEN x.q ELSE SiftDown[Down(x)]]
  BY <1>8, <1>9
<1>11. h \in D
  BY DEF D
<1>12. QED
  BY <1>10, <1>11

(* A heap, but for one position and its children. *)
NearHeap(q, i) ==
  \A j \in 2 .. Len(q) :
    IF j \div 2 = i THEN i # 1 => Key[q[j]] <= Key[q[i \div 2]] ELSE Key[q[j]] <= Key[q[j \div 2]]

(* r is q, rearranged as a heap. *)
Repaired(q, r) ==
  /\ r \in Seq(Tuples) /\ Len(r) = Len(q) /\ Range(r) = Range(q)
  /\ IsInjective(q) => IsInjective(r)
  /\ IsHeap(r)

(* The child that takes part is the greater one. *)
LEMMA GreaterChild ==
  ASSUME NEW q \in Seq(Tuples), NEW i \in Nat \ {0}, NEW j \in 2 .. Len(q), j \div 2 = i
  PROVE  Child(q, i) \in 2 .. Len(q) /\ Key[q[j]] <= Key[q[Child(q, i)]] /\ 2 * i <= Len(q)
<1>1. j = 2 * i \/ j = 2 * i + 1
  OBVIOUS
<1>2. \A k \in 1 .. Len(q) : Key[q[k]] \in Int
  BY KeyType
<1>3. CASE 2 * i < Len(q)
  <2>1. 2 * i \in 1 .. Len(q) /\ 2 * i + 1 \in 1 .. Len(q)
    BY <1>3
  <2>2. QED
    BY <1>1, <1>2, <1>3, <2>1 DEF Child, cmp_fn
<1>4. CASE ~(2 * i < Len(q))
  <2>1. j = 2 * i /\ Child(q, i) = 2 * i
    BY <1>1, <1>4 DEF Child
  <2>2. QED
    BY <1>2, <2>1
<1>5. QED
  BY <1>3, <1>4

(* Where the loop stops, the heap is repaired. *)
LEMMA SettledHeap ==
  ASSUME NEW h \in HeapPositions, NearHeap(h.q, h.idx), Settled(h)
  PROVE  IsHeap(h.q)
<1> DEFINE q == h.q
           i == h.idx
<1>1. q \in Seq(Tuples) /\ i \in Nat \ {0}
  BY DEF HeapPositions
<1>2. \A k \in 1 .. Len(q) : Key[q[k]] \in Int
  BY <1>1, KeyType
<1> SUFFICES ASSUME NEW j \in 2 .. Len(q) PROVE ~cmp_fn(q[j \div 2], q[j])
  BY DEF IsHeap
<1>3. j \in 1 .. Len(q) /\ j \div 2 \in 1 .. Len(q)
  BY <1>1
<1>4. CASE j \div 2 = i
  <2>1. Child(q, i) \in 2 .. Len(q) /\ Key[q[j]] <= Key[q[Child(q, i)]] /\ 2 * i <= Len(q)
    BY <1>1, <1>4, GreaterChild
  <2>2. ~(Key[q[i]] < Key[q[Child(q, i)]])
    BY <1>1, <2>1 DEF Settled, cmp_fn
  <2> DEFINE c == Child(q, i)
  <2> HIDE DEF c
  <2>3. c \in 1 .. Len(q) /\ Key[q[j]] <= Key[q[c]] /\ ~(Key[q[i]] < Key[q[c]])
    BY <2>1, <2>2 DEF c
  <2>4. ~(Key[q[i]] < Key[q[j]])
    BY <1>2, <1>3, <1>4, <2>3
  <2>5. QED
    BY <1>4, <2>4 DEF cmp_fn
<1>5. CASE j \div 2 # i
  BY <1>2, <1>3, <1>5 DEF NearHeap, cmp_fn
<1>6. QED
  BY <1>4, <1>5

(* Otherwise the fault moves down. *)
LEMMA NearHeapDown ==
  ASSUME NEW h \in HeapPositions, NearHeap(h.q, h.idx), ~Settled(h)
  PROVE  NearHeap(Down(h).q, Down(h).idx)
<1> DEFINE q == h.q
           i == h.idx
           c == Child(h.q, h.idx)
           s == Swap(q, i, c)
<1>1. q \in Seq(Tuples) /\ i \in Nat \ {0} /\ Len(q) \in Nat
  BY DEF HeapPositions
<1>2. i \in 1 .. Len(q) /\ c \in 1 .. Len(q) /\ c \in {2 * i, 2 * i + 1} /\ i < c
  BY DownGoesDown
<1>3. Key[q[i]] < Key[q[c]]
  BY DEF Settled, cmp_fn
<1>4. Down(h).q = s /\ Down(h).idx = c
  BY DEF Down
<1>5. ASSUME NEW j \in 2 .. Len(q), j \div 2 = i PROVE Key[q[j]] <= Key[q[c]]
  BY <1>1, <1>5, GreaterChild
<1> HIDE DEF c
<1>6. /\ Len(s) = Len(q)
      /\ \A k \in 1 .. Len(q) : s[k] = IF k = c THEN q[i] ELSE IF k = i THEN q[c] ELSE q[k]
  BY <1>1, <1>2 DEF Swap
<1>7. \A k \in 1 .. Len(q) : Key[q[k]] \in Int
  BY <1>1, KeyType
<1> HIDE DEF s
<1>8. ASSUME NEW j \in 2 .. Len(q)
      PROVE  IF j \div 2 = c THEN c # 1 => Key[s[j]] <= Key[s[c \div 2]]
                             ELSE Key[s[j]] <= Key[s[j \div 2]]
  <2> DEFINE p == j \div 2
  <2>1. p \in 1 .. Len(q) /\ j \in 1 .. Len(q) /\ p < j
    BY <1>1
  <2>2. CASE p = c
    <3>1. j # c /\ j # i /\ c \div 2 = i
      BY <1>1, <1>2, <2>1, <2>2
    <3>2. s[j] = q[j] /\ s[i] = q[c]
      BY <1>2, <1>6, <2>1, <3>1
    <3>3. Key[q[j]] <= Key[q[c]]
      BY <1>2, <2>2 DEF NearHeap
    <3>4. QED
      BY <2>2, <3>1, <3>2, <3>3
  <2>3. CASE p = i
    <3>1. p # c /\ j # i /\ s[p] = q[c]
      BY <1>2, <1>6, <2>1, <2>3
    <3>2. CASE j = c
      <4>1. s[j] = q[i]
        BY <1>2, <1>6, <3>2
      <4>2. QED
        BY <1>2, <1>3, <1>7, <3>1, <4>1
    <3>3. CASE j # c
      <4>1. s[j] = q[j]
        BY <1>2, <1>6, <2>1, <3>1, <3>3
      <4>2. QED
        BY <1>5, <2>3, <3>1, <4>1
    <3>4. QED
      BY <3>2, <3>3
  <2>4. CASE p # c /\ p # i
    <3>1. s[p] = q[p]
      BY <1>2, <1>6, <2>1, <2>4
    <3>2. j # c
      BY <1>1, <1>2, <2>4
    <3>3. CASE j = i
      <4>1. s[j] = q[c] /\ i # 1
        BY <1>2, <1>6, <2>1, <3>2, <3>3
      <4>2. c \in 2 .. Len(q) /\ c \div 2 = i
        BY <1>1, <1>2
      <4>3. Key[q[c]] <= Key[q[i \div 2]]
        BY <4>1, <4>2 DEF NearHeap
      <4>4. QED
        BY <2>4, <3>1, <3>3, <4>1, <4>3
    <3>4. CASE j # i
      <4>1. s[j] = q[j]
        BY <1>2, <1>6, <2>1, <3>2, <3>4
      <4>2. Key[q[j]] <= Key[q[p]]
        BY <2>4 DEF NearHeap
      <4>3. QED
        BY <2>4, <3>1, <4>1, <4>2
    <3>5. QED
      BY <3>3, <3>4
  <2>5. QED
    BY <2>2, <2>3, <2>4
<1>9. QED
  BY <1>4, <1>6, <1>8 DEF NearHeap

(* HeapSiftDown repairs the heap. *)
LEMMA SiftDownRepairs ==
  ASSUME NEW h \in HeapPositions, NearHeap(h.q, h.idx)
  PROVE  Repaired(h.q, SiftDown[h])
<1> DEFINE Bad(x) == NearHeap(x.q, x.idx) /\ ~Repaired(x.q, SiftDown[x])
           T == {n \in Nat : \E x \in HeapPositions : Below(x) = n /\ Bad(x)}
<1> SUFFICES ASSUME Bad(h) PROVE FALSE
  OBVIOUS
<1>1. \A x \in HeapPositions : Below(x) \in Nat
  BY DEF Below, HeapPositions
<1>2. Below(h) \in T /\ T \in SUBSET Nat
  BY <1>1
<1> HIDE DEF T
<1>3. PICK n \in T : \A k \in T : n <= k
  BY <1>2, LeastNatural
<1>4. PICK x \in HeapPositions : Below(x) = n /\ Bad(x)
  BY DEF T
<1>5. SiftDown[x] = IF Settled(x) THEN x.q ELSE SiftDown[Down(x)]
  BY SiftDownEquation
<1>6. x.q \in Seq(Tuples)
  BY DEF HeapPositions
<1>7. ~Settled(x)
  <2> SUFFICES ASSUME Settled(x) PROVE FALSE
    OBVIOUS
  <2>1. IsHeap(x.q)
    BY <1>4, SettledHeap
  <2>2. QED
    BY <1>4, <1>5, <1>6, <2>1 DEF Repaired
<1> DEFINE y == Down(x)
<1>8. y \in HeapPositions /\ Below(y) < Below(x)
  BY <1>7, DownGoesDown
<1>9. NearHeap(y.q, y.idx)
  BY <1>4, <1>7, NearHeapDown
<1>10. /\ Len(y.q) = Len(x.q) /\ Range(y.q) = Range(x.q)
       /\ IsInjective(x.q) => IsInjective(y.q)
  <2> DEFINE c == Child(x.q, x.idx)
  <2>1. x.idx \in 1 .. Len(x.q) /\ c \in 1 .. Len(x.q)
    BY <1>7, DownGoesDown
  <2>2. y.q = Swap(x.q, x.idx, c)
    BY DEF Down
  <2> HIDE DEF c, y
  <2>3. QED
    BY <1>6, <2>1, <2>2, SwapKeeps
<1> HIDE DEF y
<1>11. ~Repaired(y.q, SiftDown[y])
  BY <1>4, <1>5, <1>7, <1>10 DEF Repaired, y
<1>12. Below(y) \in T
  BY <1>1, <1>8, <1>9, <1>11 DEF T
<1>13. QED
  BY <1>1, <1>3, <1>4, <1>8, <1>12

----------------------------------------------------------------------------
(* The best rows *)

(* How many rows of S the plan p wants: all, or the first ones. *)
Wanted(S, p) == IF p.limited THEN Min({p.offset + p.limit, Cardinality(S)}) ELSE Cardinality(S)

(* q holds the best rows of S, as many as the plan p wants. *)
Best(q, S, p) ==
  /\ IsInjective(q) /\ Range(q) \subseteq S /\ Len(q) = Wanted(S, p)
  /\ \A a \in Range(q), b \in S \ Range(q) : Key[a] <= Key[b]

(* The lesser of two numbers. *)
LEMMA MinOfTwo == \A a, b \in Nat : Min({a, b}) = IF a <= b THEN a ELSE b
<1> SUFFICES ASSUME NEW a \in Nat, NEW b \in Nat PROVE Min({a, b}) = IF a <= b THEN a ELSE b
  OBVIOUS
<1> DEFINE T == {a, b}
<1>1. T \in SUBSET Nat /\ T # {}
  OBVIOUS
<1> HIDE DEF T
<1>2. Min(T) \in T /\ \A k \in T : Min(T) <= k
  BY <1>1, MinIsLeast
<1>3. QED
  BY <1>2 DEF T

(* Plans are numbers. *)
LEMMA PlanType ==
  \A p \in Plans : /\ p.limited \in BOOLEAN /\ p.limit \in Nat /\ p.offset \in Nat
                   /\ p.limited => p.offset + p.limit \in Nat \ {0}
BY PlansAssumption

(* What Wanted is, by cases. *)
LEMMA WantedIs ==
  ASSUME NEW S, IsFiniteSet(S), NEW p \in Plans
  PROVE  /\ Cardinality(S) \in Nat
         /\ ~p.limited => Wanted(S, p) = Cardinality(S)
         /\ p.limited => Wanted(S, p) = IF p.offset + p.limit <= Cardinality(S)
                                        THEN p.offset + p.limit ELSE Cardinality(S)
         /\ Wanted(S, p) \in Nat /\ Wanted(S, p) <= Cardinality(S)
<1>1. Cardinality(S) \in Nat
  BY FS_CardinalityType
<1> DEFINE k == p.offset + p.limit
           n == Cardinality(S)
<1>2. p.limited \in BOOLEAN /\ k \in Nat
  BY PlanType
<1>3. n \in Nat
  BY <1>1
<1>4. Wanted(S, p) = IF p.limited THEN Min({k, n}) ELSE n
  BY DEF Wanted
<1> HIDE DEF k, n
<1>5. Min({k, n}) = IF k <= n THEN k ELSE n
  BY <1>2, <1>3, MinOfTwo
<1>6. QED
  BY <1>2, <1>3, <1>4, <1>5 DEF k, n

(* A sequence of as many rows as there are holds them all. *)
LEMMA HoldsAll ==
  ASSUME NEW S, IsFiniteSet(S), NEW V, NEW q \in Seq(V), IsInjective(q), Range(q) \subseteq S,
         Len(q) = Cardinality(S)
  PROVE  Range(q) = S
BY InjectiveLength, FS_Subset

(* Appending a new row. *)
LEMMA AppendRow ==
  ASSUME NEW q \in Seq(Tuples), NEW r \in Tuples
  PROVE  /\ Append(q, r) \in Seq(Tuples) /\ Len(Append(q, r)) = Len(q) + 1
         /\ Range(Append(q, r)) = Range(q) \cup {r}
         /\ IsInjective(q) /\ r \notin Range(q) => IsInjective(Append(q, r))
         /\ Front(Append(q, r)) = q /\ Append(q, r)[Len(q) + 1] = r
<1> DEFINE a == Append(q, r)
           n == Len(q)
<1>1. /\ a \in Seq(Tuples) /\ Len(a) = n + 1 /\ n \in Nat /\ a[n + 1] = r
      /\ \A i \in 1 .. n : a[i] = q[i]
  OBVIOUS
<1>2. Front(a) = q
  BY <1>1 DEF Front
<1> HIDE DEF a
<1>3. Range(a) = Range(q) \cup {r}
  <2>1. ASSUME NEW x \in Range(a) PROVE x \in Range(q) \cup {r}
    <3>1. PICK k \in 1 .. Len(a) : x = a[k]
      BY <1>1, InRange
    <3>2. CASE k = n + 1
      BY <1>1, <3>1, <3>2
    <3>3. CASE k # n + 1
      <4>1. k \in 1 .. Len(q) /\ x = q[k]
        BY <1>1, <3>1, <3>3
      <4>2. QED
        BY <4>1, InRange
    <3>4. QED
      BY <3>2, <3>3
  <2>2. ASSUME NEW x \in Range(q) PROVE x \in Range(a)
    <3>1. PICK k \in 1 .. Len(q) : x = q[k]
      BY InRange
    <3>2. k \in 1 .. Len(a) /\ x = a[k]
      BY <1>1, <3>1
    <3>3. QED
      BY <1>1, <3>2, InRange
  <2>3. r \in Range(a)
    <3>1. n + 1 \in 1 .. Len(a)
      BY <1>1
    <3>2. QED
      BY <1>1, <3>1, InRange
  <2>4. QED
    BY <2>1, <2>2, <2>3
<1>4. ASSUME IsInjective(q), r \notin Range(q) PROVE IsInjective(a)
  <2>1. DOMAIN a = 1 .. n + 1 /\ DOMAIN q = 1 .. n
    BY <1>1
  <2>2. \A i \in 1 .. n : q[i] # r
    BY <1>4, InRange
  <2>3. QED
    BY <1>1, <1>4, <2>1, <2>2 DEF IsInjective
<1>5. QED
  BY <1>1, <1>2, <1>3, <1>4 DEF a

(* t is q with r in the place of its first row. *)
FirstReplaced(t, q, r) ==
  /\ t \in Seq(Tuples) /\ Len(t) = Len(q) /\ IsInjective(t)
  /\ Range(t) = (Range(q) \ {q[1]}) \cup {r}
  /\ t[1] = r /\ \A i \in 2 .. Len(q) : t[i] = q[i]

(* Replacing the first row. *)
LEMMA ReplaceFirst ==
  ASSUME NEW q \in Seq(Tuples), Len(q) # 0, NEW r \in Tuples, IsInjective(q), r \notin Range(q),
         NEW t, t = [q EXCEPT ![1] = r]
  PROVE  FirstReplaced(t, q, r)
<1> DEFINE n == Len(q)
<1>1. n \in Nat \ {0} /\ 1 \in 1 .. n
  OBVIOUS
<1>2. /\ t \in Seq(Tuples) /\ Len(t) = n
      /\ \A i \in 1 .. n : t[i] = IF i = 1 THEN r ELSE q[i]
  BY <1>1
<1>3. DOMAIN t = 1 .. n /\ DOMAIN q = 1 .. n
  BY <1>2
<1>4. \A i \in 1 .. n : q[i] # r
  BY InRange
<1>5. IsInjective(t)
  BY <1>2, <1>3, <1>4 DEF IsInjective
<1>6. \A i \in 2 .. n : q[i] # q[1] /\ i \in 1 .. n
  BY <1>1, <1>3 DEF IsInjective
<1>7. Range(t) = (Range(q) \ {q[1]}) \cup {r}
  <2>1. ASSUME NEW x \in Range(t) PROVE x \in (Range(q) \ {q[1]}) \cup {r}
    <3>1. PICK k \in 1 .. Len(t) : x = t[k]
      BY ONLY <1>2, <2>1, InRange
    <3>2. CASE k = 1
      BY <1>1, <1>2, <3>1, <3>2
    <3>3. CASE k # 1
      <4>1. k \in 2 .. n /\ x = q[k]
        BY <1>2, <3>1, <3>3
      <4>2. QED
        BY <1>6, <4>1, InRange
    <3>4. QED
      BY <3>2, <3>3
  <2>2. ASSUME NEW x \in Range(q) \ {q[1]} PROVE x \in Range(t)
    <3>1. PICK k \in 1 .. n : x = q[k]
      BY InRange
    <3>2. k \in 1 .. Len(t) /\ x = t[k]
      BY <1>2, <3>1
    <3>3. QED
      BY <1>2, <3>2, InRange
  <2>3. r \in Range(t)
    <3>1. 1 \in 1 .. Len(t) /\ r = t[1]
      BY <1>1, <1>2
    <3>2. QED
      BY <1>2, <3>1, InRange
  <2>4. QED
    BY <2>1, <2>2, <2>3
<1>8. QED
  BY <1>1, <1>2, <1>5, <1>6, <1>7 DEF FirstReplaced

(* A full sorter p that keeps the best rows of S and r. *)
KeepsFull(p, q, S, r) ==
  /\ p \in Seq(Tuples) /\ Len(p) = Len(q) /\ IsHeap(p) /\ IsInjective(p)
  /\ Range(p) \subseteq S \cup {r}
  /\ \A a \in Range(p), b \in (S \cup {r}) \ Range(p) : Key[a] <= Key[b]

(* A row that is kept although the sorter is full takes the place of the   *)
(* worst one.                                                              *)
LEMMA FullStep ==
  ASSUME NEW S \in SUBSET Tuples, NEW q \in Seq(Tuples), NEW r \in Tuples \ S, Len(q) # 0,
         IsInjective(q), Range(q) \subseteq S, IsHeap(q),
         \A a \in Range(q), b \in S \ Range(q) : Key[a] <= Key[b],
         NEW p, p = IF cmp_fn(r, q[1]) THEN HeapSiftDown([q EXCEPT ![1] = r]) ELSE q
  PROVE  KeepsFull(p, q, S, r)
<1>1. /\ \A a \in Range(q) : Key[a] <= Key[q[1]]
      /\ q[1] \in Range(q)
  <2>1. \A i \in 1 .. Len(q) : Key[q[i]] <= Key[q[1]]
    BY HeapTop
  <2>2. 1 \in 1 .. Len(q)
    OBVIOUS
  <2>3. QED
    BY <2>1, <2>2, InRange
<1>2. \A a \in S \cup {r} : Key[a] \in Int
  BY KeyType
<1>3. CASE ~cmp_fn(r, q[1])
  <2>1. p = q /\ Key[q[1]] <= Key[r]
    BY <1>1, <1>2, <1>3 DEF cmp_fn
  <2>2. \A a \in Range(q) : Key[a] <= Key[r]
    BY <1>1, <1>2, <2>1
  <2>3. QED
    BY <2>1, <2>2 DEF KeepsFull
<1>4. CASE cmp_fn(r, q[1])
  <2> DEFINE t == [q EXCEPT ![1] = r]
             h == [q |-> t, idx |-> 1]
  <2>1. r \notin Range(q)
    OBVIOUS
  <2> HIDE DEF t
  <2>2. /\ t \in Seq(Tuples) /\ Len(t) = Len(q) /\ IsInjective(t)
        /\ Range(t) = (Range(q) \ {q[1]}) \cup {r}
        /\ t[1] = r /\ \A i \in 2 .. Len(q) : t[i] = q[i]
    <3>1. t = [q EXCEPT ![1] = r]
      BY DEF t
    <3>2. FirstReplaced(t, q, r)
      BY <2>1, <3>1, ReplaceFirst
    <3>3. QED
      BY <3>2 DEF FirstReplaced
  <2>3. p = SiftDown[h] /\ Key[r] < Key[q[1]]
    BY <1>4 DEF HeapSiftDown, t, cmp_fn
  <2>4. h \in HeapPositions /\ h.q = t /\ h.idx = 1
    BY <2>2 DEF HeapPositions
  <2>5. NearHeap(t, 1)
    <3> SUFFICES ASSUME NEW j \in 2 .. Len(t), j \div 2 # 1 PROVE Key[t[j]] <= Key[t[j \div 2]]
      BY DEF NearHeap
    <3>1. j \in 2 .. Len(q) /\ j \div 2 \in 2 .. Len(q) /\ j \in 1 .. Len(q) /\ j \div 2 \in 1 .. Len(q)
      BY <2>2
    <3>2. ~(Key[q[j \div 2]] < Key[q[j]])
      BY <3>1 DEF IsHeap, cmp_fn
    <3>3. Key[q[j]] \in Int /\ Key[q[j \div 2]] \in Int
      BY <3>1, KeyType
    <3>4. t[j] = q[j] /\ t[j \div 2] = q[j \div 2]
      BY <2>2, <3>1
    <3>5. QED
      BY <3>2, <3>3, <3>4
  <2> HIDE DEF h
  <2>6. Repaired(t, p)
    BY <2>3, <2>4, <2>5, SiftDownRepairs
  <2>7. /\ p \in Seq(Tuples) /\ Len(p) = Len(q) /\ IsHeap(p) /\ IsInjective(p)
        /\ Range(p) = (Range(q) \ {q[1]}) \cup {r}
    BY <2>2, <2>6 DEF Repaired
  <2>8. ASSUME NEW a \in Range(p), NEW b \in (S \cup {r}) \ Range(p) PROVE Key[a] <= Key[b]
    <3>1. (a \in Range(q) \/ a = r) /\ (b = q[1] \/ b \in S \ Range(q)) /\ a \in S \cup {r} /\ b \in S
      BY <1>1, <2>7
    <3>2. Key[a] <= Key[q[1]]
      BY <1>1, <1>2, <2>3, <3>1
    <3>3. Key[q[1]] <= Key[b]
      BY <1>1, <1>2, <3>1
    <3>4. QED
      BY <1>1, <1>2, <3>1, <3>2, <3>3
  <2>9. QED
    BY <1>1, <2>7, <2>8 DEF KeepsFull
<1>5. QED
  BY <1>3, <1>4

(* Every arrival leaves the best rows, and a full sorter a heap            *)
(* (AllocInputTupleTopKFinish).                                            *)
LEMMA TopKFinishKeeps ==
  ASSUME plan \in Plans, plan.limited, NEW S \in SUBSET Tuples, IsFiniteSet(S),
         NEW q \in Seq(Tuples), NEW r \in Tuples \ S, Best(q, S, plan),
         Len(q) = top_k => IsHeap(q), NEW p \in TopKFinish(Append(q, r))
  PROVE  /\ p \in Seq(Tuples) /\ Best(p, S \cup {r}, plan)
         /\ Len(p) = top_k => IsHeap(p)
<1> DEFINE a == Append(q, r)
           K == top_k
           n == Len(q)
           U == S \cup {r}
           c == Cardinality(S)
<1>1. K \in Nat \ {0} /\ K = plan.offset + plan.limit
  BY PlanType DEF top_k
<1>2. c \in Nat /\ n = IF K <= c THEN K ELSE c
  BY <1>1, WantedIs DEF Best
<1>3. IsFiniteSet(U) /\ Cardinality(U) = c + 1
  BY FS_AddElement
<1>4. Wanted(U, plan) = IF K <= c + 1 THEN K ELSE c + 1
  <2> HIDE DEF U
  <2>1. QED
    BY <1>1, <1>3, WantedIs
<1>5. IsInjective(q) /\ Range(q) \subseteq S /\ n \in Nat /\ r \notin Range(q)
  BY DEF Best
<1>6. /\ a \in Seq(Tuples) /\ Len(a) = n + 1 /\ Range(a) = Range(q) \cup {r} /\ IsInjective(a)
      /\ Front(a) = q /\ a[n + 1] = r
  BY <1>5, AppendRow
<1>7. n = c => Range(a) = U
  BY <1>5, <1>6, HoldsAll
<1> HIDE DEF a, K, n, U, c
<1>8. CASE n + 1 < K
  <2>1. p = a
    BY <1>6, <1>8 DEF TopKFinish, K, a, n
  <2>2. n = c
    BY <1>1, <1>2, <1>5, <1>8
  <2>3. Len(p) = Wanted(U, plan) /\ Len(p) # K
    BY <1>1, <1>2, <1>4, <1>6, <1>8, <2>1, <2>2
  <2>4. QED
    BY <1>6, <1>7, <2>1, <2>2, <2>3 DEF Best, U, K
<1>9. CASE n + 1 = K
  <2>1. p \in Heaps(a)
    BY <1>6, <1>9 DEF TopKFinish, K, a, n
  <2>2. n = c
    BY <1>1, <1>2, <1>5, <1>9
  <2>3. p \in SetToSeqs(U) /\ IsHeap(p)
    BY <1>7, <2>1, <2>2 DEF Heaps
  <2>4. p \in Seq(U) /\ Len(p) = c + 1 /\ IsInjective(p) /\ Range(p) = U
    BY <1>3, <2>3, Arrangement
  <2>5. p \in Seq(Tuples)
    BY <2>4 DEF U
  <2>6. Len(p) = Wanted(U, plan)
    BY <1>1, <1>2, <1>4, <1>9, <2>2, <2>4
  <2>7. QED
    BY <2>3, <2>4, <2>5, <2>6 DEF Best, U
<1>10. CASE n + 1 > K
  <2>1. n = K /\ n # 0 /\ IsHeap(q) /\ Len(q) # 0
    BY <1>1, <1>2, <1>5, <1>10 DEF K, n
  <2>2. p = IF cmp_fn(r, q[1]) THEN HeapSiftDown([q EXCEPT ![1] = r]) ELSE q
    <3>1. ~(Len(a) < top_k) /\ Len(a) # top_k
      BY <1>1, <1>5, <1>6, <1>10 DEF K
    <3>2. p = IF cmp_fn(a[Len(a)], Front(a)[1]) THEN HeapSiftDown([Front(a) EXCEPT ![1] = a[Len(a)]])
                                                ELSE Front(a)
      BY <3>1 DEF TopKFinish, a
    <3>3. QED
      BY <1>6, <3>2
  <2>3. KeepsFull(p, q, S, r)
    <3>1. \A x \in Range(q), b \in S \ Range(q) : Key[x] <= Key[b]
      BY DEF Best
    <3>2. QED
      BY <1>5, <2>1, <2>2, <3>1, FullStep
  <2>4. Len(p) = Wanted(U, plan)
    BY <1>1, <1>2, <1>4, <2>1, <2>3 DEF n, KeepsFull
  <2>5. QED
    BY <2>3, <2>4 DEF Best, U, KeepsFull
<1>11. QED
  BY <1>1, <1>5, <1>8, <1>9, <1>10

----------------------------------------------------------------------------
(* The result *)

(* p is the first m rows of q. *)
FirstRows(p, q, m) ==
  /\ p \in Seq(Tuples) /\ Len(p) = m /\ \A i \in 1 .. m : p[i] = q[i]
  /\ IsInjective(q) => IsInjective(p)
  /\ InOrder(q) => InOrder(p)
  /\ Range(p) \subseteq Range(q)

(* A trimmed vector. *)
LEMMA TakeFirst ==
  ASSUME NEW q \in Seq(Tuples), NEW m \in 0 .. Len(q)
  PROVE  FirstRows(SubSeq(q, 1, m), q, m)
<1> DEFINE p == SubSeq(q, 1, m)
<1>1. p \in Seq(Tuples) /\ Len(p) = m /\ \A i \in 1 .. m : p[i] = q[i] /\ i \in 1 .. Len(q)
  OBVIOUS
<1>2. DOMAIN p = 1 .. m /\ DOMAIN q = 1 .. Len(q)
  BY <1>1
<1> HIDE DEF p
<1>3. IsInjective(q) => IsInjective(p)
  BY <1>1, <1>2 DEF IsInjective
<1>4. InOrder(q) => InOrder(p)
  BY <1>1 DEF InOrder
<1>5. ASSUME NEW x \in Range(p) PROVE x \in Range(q)
  <2>1. PICK k \in 1 .. Len(p) : x = p[k]
    BY <1>1, InRange
  <2>2. k \in 1 .. Len(q) /\ x = q[k]
    BY <1>1, <2>1
  <2>3. QED
    BY <2>2, InRange
<1>6. QED
  BY <1>1, <1>3, <1>4, <1>5 DEF FirstRows, p

(* If i rows of an ordered sequence are not greater than b, its i-th is    *)
(* not either.                                                             *)
LEMMA EnoughLess ==
  ASSUME NEW q \in Seq(Tuples), InOrder(q), NEW A \in SUBSET Range(q), NEW i \in 1 .. Len(q),
         NEW b \in Tuples, \A a \in A : Key[a] <= Key[b], i <= Cardinality(A)
  PROVE  Key[q[i]] <= Key[b]
<1> SUFFICES ASSUME ~(Key[q[i]] <= Key[b]) PROVE FALSE
  OBVIOUS
<1> DEFINE p == SubSeq(q, 1, i - 1)
<1>1. i - 1 \in 0 .. Len(q) /\ i \in Nat
  OBVIOUS
<1>2. FirstRows(p, q, i - 1)
  BY <1>1, TakeFirst
<1> HIDE DEF p
<1>3. p \in Seq(Tuples) /\ Len(p) = i - 1 /\ \A j \in 1 .. i - 1 : p[j] = q[j]
  BY <1>2 DEF FirstRows
<1>4. ASSUME NEW a \in A PROVE a \in Range(p)
  <2>1. PICK j \in 1 .. Len(q) : a = q[j]
    BY InRange
  <2>2. Key[q[j]] \in Int /\ Key[q[i]] \in Int /\ Key[b] \in Int
    BY KeyType
  <2>3. ~(i <= j)
    BY <2>1, <2>2 DEF InOrder
  <2>4. j \in 1 .. Len(p) /\ a = p[j]
    BY <1>1, <1>3, <2>1, <2>3
  <2>5. QED
    BY <1>3, <2>4, InRange
<1>5. IsFiniteSet(Range(p)) /\ Cardinality(Range(p)) <= i - 1
  BY <1>3, RangeFinite
<1>6. A \in SUBSET Range(p)
  BY <1>4
<1>7. Cardinality(A) <= Cardinality(Range(p)) /\ IsFiniteSet(A)
  BY <1>5, <1>6, FS_Subset
<1>8. Cardinality(A) \in Nat /\ Cardinality(Range(p)) \in Nat
  BY <1>5, <1>7, FS_CardinalityType
<1>9. QED
  BY <1>1, <1>5, <1>7, <1>8

(* R leaves out rows of I only if it has enough better ones. *)
Enough(R, I, p) ==
  \A b \in I \ R :
    p.limited /\ \E A \in SUBSET R : Cardinality(A) = p.offset + p.limit /\ \A a \in A : Key[a] <= Key[b]

(* Sorting such rows and trimming the result leaves the best rows.         *)
LEMMA TrimBest ==
  ASSUME plan \in Plans, NEW I \in SUBSET Tuples, IsFiniteSet(I), NEW R \in SUBSET I,
         Enough(R, I, plan), NEW q \in Seq(Tuples), IsInjective(q), Range(q) = R, InOrder(q)
  PROVE  /\ Trim(q) \in Seq(Tuples) /\ Best(Trim(q), I, plan) /\ InOrder(Trim(q))
         /\ Range(Trim(q)) \subseteq R
<1> DEFINE K == plan.offset + plan.limit
           t == Trim(q)
           m == Len(t)
           n == Len(q)
           c == Cardinality(I)
<1>1. plan.limited \in BOOLEAN /\ K \in Nat /\ top_k = K
  BY PlanType DEF top_k
<1>2. m \in 0 .. n /\ FirstRows(t, q, m) /\ n \in Nat
      /\ m = IF plan.limited /\ K < n THEN K ELSE n
  <2>1. CASE plan.limited /\ K < n
    <3>1. t = SubSeq(q, 1, K) /\ K \in 0 .. n
      BY <1>1, <2>1 DEF Trim
    <3>2. FirstRows(t, q, K)
      BY <3>1, TakeFirst
    <3>3. QED
      BY <2>1, <3>1, <3>2 DEF FirstRows
  <2>2. CASE ~(plan.limited /\ K < n)
    <3>1. t = q
      BY <1>1, <2>2 DEF Trim
    <3>2. QED
      BY <2>2, <3>1 DEF FirstRows
  <2>3. QED
    BY <2>1, <2>2
<1>3. IsFiniteSet(R) /\ Cardinality(R) = n /\ n <= c /\ c \in Nat
  BY InjectiveLength, FS_Subset, FS_CardinalityType
<1>4. R # I => plan.limited /\ K <= n
  <2> SUFFICES ASSUME NEW b \in I \ R PROVE plan.limited /\ K <= n
    OBVIOUS
  <2>1. plan.limited /\ \E A \in SUBSET R : Cardinality(A) = K
    BY DEF Enough
  <2>2. QED
    BY <1>3, <2>1, FS_Subset
<1>5. R = I => n = c
  BY <1>3
<1>6. m = Wanted(I, plan)
  <2>1. /\ ~plan.limited => Wanted(I, plan) = c
        /\ plan.limited => Wanted(I, plan) = IF K <= c THEN K ELSE c
    BY WantedIs
  <2> HIDE DEF t, K, c, n, m
  <2>2. QED
    BY <1>1, <1>2, <1>3, <1>4, <1>5, <2>1
<1>7. ASSUME NEW a \in Range(t), NEW b \in I \ Range(t) PROVE Key[a] <= Key[b]
  <2>1. t \in Seq(Tuples)
    BY <1>2 DEF FirstRows
  <2>2. PICK i \in 1 .. m : a = t[i]
    BY <2>1, InRange
  <2>3. i \in 1 .. n /\ a = q[i]
    BY <1>2, <2>2 DEF FirstRows
  <2>4. CASE b \in R
    <3>1. PICK j \in 1 .. n : b = q[j]
      BY <2>4, InRange
    <3>2. j \notin 1 .. m
      <4> SUFFICES ASSUME j \in 1 .. m PROVE FALSE
        OBVIOUS
      <4>1. b = t[j]
        BY <1>2, <3>1 DEF FirstRows
      <4>2. QED
        BY <2>1, <4>1, InRange
    <3>3. i <= j
      BY <1>2, <2>2, <3>1, <3>2
    <3>4. QED
      BY <2>3, <3>1, <3>3 DEF InOrder
  <2>5. CASE b \notin R
    <3>1. PICK A \in SUBSET R : Cardinality(A) = K /\ \A x \in A : Key[x] <= Key[b]
      BY <2>5 DEF Enough
    <3>2. plan.limited
      BY <2>5 DEF Enough
    <3>3. i <= Cardinality(A)
      BY <1>1, <1>2, <2>2, <3>1, <3>2
    <3>4. b \in Tuples
      OBVIOUS
    <3>5. Key[q[i]] <= Key[b]
      BY <2>3, <3>1, <3>3, <3>4, EnoughLess
    <3>6. QED
      BY <2>3, <3>5
  <2>6. QED
    BY <2>4, <2>5
<1>8. QED
  BY <1>2, <1>6, <1>7 DEF FirstRows, Best

----------------------------------------------------------------------------
(* The work packages *)

(* The sorted vectors of the thread-local sorters tl: none empty, no row   *)
(* in two of them.                                                         *)
Locals(loc, tl) ==
  /\ IsFiniteSet(tl) /\ Cardinality(tl) \in Nat \ {0, 1}
  /\ loc \in [tl -> Seq(Tuples)]
  /\ \A w \in tl : Len(loc[w]) # 0 /\ InOrder(loc[w])
  /\ \A w, v \in tl : w # v => Range(loc[w]) \cap Range(loc[v]) = {}

(* The candidates for a splitter are read inside the vectors. *)
LEMMA CandidateIndex ==
  ASSUME NEW L \in Nat \ {0}, NEW n \in Nat \ {0}, NEW i \in 1 .. n - 1
  PROVE  i * (L \div n) + 1 \in 1 .. L
<1> DEFINE d == L \div n
<1>1. d \in Nat /\ n * d <= L
  OBVIOUS
<1> HIDE DEF d
<1>2. i * d + d <= n * d /\ i * d \in Nat /\ n * d \in Nat
  BY <1>1
<1>3. CASE d = 0
  <2>1. i * d = 0
    BY <1>3
  <2>2. QED
    BY <2>1 DEF d
<1>4. CASE d # 0
  <2>1. i * d + 1 <= L
    BY <1>1, <1>2, <1>4
  <2>2. QED
    BY <1>2, <2>1 DEF d
<1>5. QED
  BY <1>3, <1>4

(* A splitter is a row. *)
LEMMA SplitterType ==
  ASSUME NEW tl, NEW loc, Locals(loc, tl), NEW i \in 1 .. Cardinality(tl) - 1
  PROVE  Splitter(loc, tl, i) \in Tuples
<1> DEFINE n == Cardinality(tl)
           f == [w \in tl |-> loc[w][i * (Len(loc[w]) \div n) + 1]]
           C == {loc[w][i * (Len(loc[w]) \div n) + 1] : w \in tl}
<1>1. n \in Nat \ {0, 1} /\ i \in 1 .. n - 1 /\ IsFiniteSet(tl)
  BY DEF Locals
<1>2. \A w \in tl : f[w] \in Range(loc[w]) /\ f[w] \in Tuples
  <2> SUFFICES ASSUME NEW w \in tl PROVE f[w] \in Range(loc[w]) /\ f[w] \in Tuples
    OBVIOUS
  <2> DEFINE q == loc[w]
             L == Len(q)
             k == i * (L \div n) + 1
  <2>1. q \in Seq(Tuples) /\ L \in Nat \ {0}
    BY DEF Locals
  <2> HIDE DEF L, n
  <2>2. k \in 1 .. L
    BY <1>1, <2>1, CandidateIndex
  <2>3. f[w] = q[k]
    BY DEF L
  <2> HIDE DEF f, k, q
  <2>4. q[k] \in Range(q)
    BY <2>1, <2>2, InRange DEF L
  <2>5. q[k] \in Tuples
    BY <2>1, <2>2 DEF L
  <2>6. QED
    BY <2>3, <2>4, <2>5 DEF q
<1>3. f \in Surjection(tl, C)
  BY DEF Surjection
<1>4. f \in Injection(tl, C)
  <2>1. \A w, v \in tl : f[w] = f[v] => w = v
    BY <1>2 DEF Locals
  <2>2. f \in [tl -> C] /\ DOMAIN f = tl
    OBVIOUS
  <2> HIDE DEF f, C
  <2>3. QED
    BY <2>1, <2>2 DEF Injection, IsInjective
<1>5. C \in SUBSET Tuples
  BY <1>2
<1>6. Splitter(loc, tl, i) = (CHOOSE s \in SetSortings(C) : TRUE)[n \div 2 + 1]
  BY DEF Splitter
<1> HIDE DEF C, f
<1>7. IsFiniteSet(C) /\ Cardinality(C) = n
  BY <1>1, <1>3, <1>4, FS_Surjection
<1>8. PICK s \in SetSortings(C) : s = CHOOSE x \in SetSortings(C) : TRUE
  BY <1>5, <1>7, SortingExists
<1>9. s \in Seq(Tuples) /\ Len(s) = n
  BY <1>5, <1>7, SortingsAre
<1>10. n \div 2 + 1 \in 1 .. n
  BY <1>1
<1> HIDE DEF n
<1>11. QED
  BY <1>6, <1>8, <1>9, <1>10

(* Where the next package ends, if this one ends at e. *)
NextCut(loc, tl, i, e) ==
  [w \in tl |->
     IF i = Cardinality(tl) - 1 THEN Len(loc[w])
     ELSE e[w] + Cardinality({j \in e[w] + 1 .. Len(loc[w]) :
                                ~cmp_fn(Splitter(loc, tl, i), loc[w][j])})]

(* A cut is a number for each sorter. *)
LEMMA NextCutType ==
  ASSUME NEW tl, NEW loc, Locals(loc, tl), NEW i, NEW e \in [tl -> Nat]
  PROVE  NextCut(loc, tl, i, e) \in [tl -> Nat]
<1> SUFFICES ASSUME NEW w \in tl
             PROVE  /\ Len(loc[w]) \in Nat
                    /\ e[w] + Cardinality({j \in e[w] + 1 .. Len(loc[w]) :
                                ~cmp_fn(Splitter(loc, tl, i), loc[w][j])}) \in Nat
  BY DEF NextCut
<1>1. Len(loc[w]) \in Nat /\ e[w] \in Nat
  BY DEF Locals
<1> DEFINE a == e[w] + 1
           b == Len(loc[w])
           A == {j \in a .. b : ~cmp_fn(Splitter(loc, tl, i), loc[w][j])}
<1>2. a \in Int /\ b \in Int
  BY <1>1
<1>3. A \in SUBSET (a .. b)
  OBVIOUS
<1> HIDE DEF A, a, b
<1>4. IsFiniteSet(a .. b)
  BY <1>2, FS_Interval
<1>5. Cardinality(A) \in Nat
  BY <1>3, <1>4, FS_Subset, FS_CardinalityType
<1>6. QED
  BY <1>1, <1>5 DEF A, a, b

(* The cuts follow each other. *)
LEMMA CutsFollow ==
  ASSUME NEW tl, NEW loc, Locals(loc, tl)
  PROVE  /\ Cuts(loc, tl) \in [0 .. Cardinality(tl) - 1 -> [tl -> Nat]]
         /\ \A w \in tl : Cuts(loc, tl)[0][w] = 0
         /\ \A i \in 1 .. Cardinality(tl) - 1 :
              Cuts(loc, tl)[i] = NextCut(loc, tl, i, Cuts(loc, tl)[i - 1])
<1> DEFINE n == Cardinality(tl)
           m == n - 1
           V == [tl -> Nat]
           a == [w \in tl |-> 0]
           H == [i \in 1 .. m |-> [e \in V |-> NextCut(loc, tl, i, e)]]
           Eq(g) == g = [i \in 0 .. n - 1 |->
                           [w \in tl |->
                              IF i = 0 THEN 0
                              ELSE IF i = n - 1 THEN Len(loc[w])
                              ELSE g[i - 1][w]
                                     + Cardinality({j \in g[i - 1][w] + 1 .. Len(loc[w]) :
                                          ~cmp_fn(Splitter(loc, tl, i), loc[w][j])})]]
           cuts == Cuts(loc, tl)
<1>1. n \in Nat \ {0, 1} /\ m \in Nat
  BY DEF Locals
<1>2. H \in [1 .. m -> [V -> V]] /\ a \in V
  BY NextCutType
<1>3. cuts = CHOOSE g : Eq(g)
  BY DEF Cuts
<1>4. \A i \in 1 .. m : \A e \in V : H[i][e] = NextCut(loc, tl, i, e)
  OBVIOUS
<1> HIDE DEF V, H, cuts
<1>5. PICK f \in [0 .. m -> V] : Iterates(f, a, H, m)
  <2> HIDE DEF a, m
  <2>1. QED
    BY <1>1, <1>2, Iteration
<1>6. Eq(f)
  <2>1. \A i \in 1 .. m : i - 1 \in 0 .. m /\ i \in 0 .. m /\ i # 0
    BY <1>1
  <2>2. \A i \in 1 .. m : f[i] = NextCut(loc, tl, i, f[i - 1])
    BY <1>4, <1>5, <2>1 DEF Iterates
  <2>3. f[0] = [w \in tl |-> 0]
    BY <1>5 DEF Iterates
  <2>4. ASSUME NEW i \in 0 .. n - 1
        PROVE  f[i] = [w \in tl |->
                         IF i = 0 THEN 0
                         ELSE IF i = n - 1 THEN Len(loc[w])
                         ELSE f[i - 1][w]
                                + Cardinality({j \in f[i - 1][w] + 1 .. Len(loc[w]) :
                                     ~cmp_fn(Splitter(loc, tl, i), loc[w][j])})]
    <3>1. CASE i = 0
      BY <2>3, <3>1
    <3>2. CASE i # 0
      <4>1. i \in 1 .. m
        BY <1>1, <3>2
      <4>2. QED
        BY <2>2, <3>2, <4>1 DEF NextCut
    <3>3. QED
      BY <3>1, <3>2
  <2>5. f = [i \in 0 .. n - 1 |-> f[i]]
    OBVIOUS
  <2>6. QED
    BY <2>4, <2>5
<1>7. Eq(cuts)
  BY <1>3, <1>6
<1>8. /\ DOMAIN cuts = 0 .. m /\ \A w \in tl : cuts[0][w] = 0
      /\ cuts[0] = a
      /\ \A i \in 1 .. m : cuts[i] = NextCut(loc, tl, i, cuts[i - 1])
  <2>1. \A i \in 0 .. m :
          cuts[i] = [w \in tl |->
                       IF i = 0 THEN 0
                       ELSE IF i = n - 1 THEN Len(loc[w])
                       ELSE cuts[i - 1][w]
                              + Cardinality({j \in cuts[i - 1][w] + 1 .. Len(loc[w]) :
                                   ~cmp_fn(Splitter(loc, tl, i), loc[w][j])})]
    BY <1>7
  <2>2. DOMAIN cuts = 0 .. m
    BY <1>7
  <2>3. 0 \in 0 .. m /\ \A i \in 1 .. m : i \in 0 .. m /\ i # 0
    BY <1>1
  <2>4. cuts[0] = a
    BY <2>1, <2>3
  <2>5. ASSUME NEW i \in 1 .. m PROVE cuts[i] = NextCut(loc, tl, i, cuts[i - 1])
    <3>1. i \in 0 .. m /\ i # 0
      BY <2>3
    <3> DEFINE s == cuts[i - 1]
    <3>2. cuts[i] = [w \in tl |->
                       IF i = 0 THEN 0
                       ELSE IF i = n - 1 THEN Len(loc[w])
                       ELSE s[w] + Cardinality({j \in s[w] + 1 .. Len(loc[w]) :
                                     ~cmp_fn(Splitter(loc, tl, i), loc[w][j])})]
      BY <2>1, <3>1
    <3> HIDE DEF s
    <3>3. cuts[i] = NextCut(loc, tl, i, s)
      BY <3>1, <3>2 DEF NextCut
    <3>4. QED
      BY <3>3 DEF s
  <2>6. QED
    BY <2>2, <2>4, <2>5
<1> DEFINE P == {i \in 0 .. m : cuts[i] \in V}
<1>9. 0 \in P
  BY <1>1, <1>2, <1>8
<1>10. ASSUME NEW i \in 0 .. m - 1, i \in P PROVE i + 1 \in P
  <2>1. i + 1 \in 1 .. m /\ i + 1 \in 0 .. m /\ (i + 1) - 1 = i
    BY <1>1
  <2>2. cuts[i] \in [tl -> Nat]
    BY <1>10 DEF V
  <2>3. cuts[i + 1] = NextCut(loc, tl, i + 1, cuts[i])
    BY <1>8, <2>1
  <2>4. cuts[i + 1] \in [tl -> Nat]
    BY <2>2, <2>3, NextCutType
  <2>5. QED
    BY <2>1, <2>4 DEF V
<1> HIDE DEF P
<1>11. 0 .. m \subseteq P
  BY <1>1, <1>9, <1>10, UpTo
<1>12. cuts \in [0 .. m -> V]
  <2>1. \A i \in 0 .. m : cuts[i] \in V
    BY <1>11 DEF P
  <2>2. cuts = [i \in 0 .. m |-> cuts[i]]
    BY <1>7
  <2>3. QED
    BY <2>1, <2>2
<1>13. QED
  BY <1>8, <1>12 DEF V, cuts

(* A cut inside the vectors that no row before it is greater than a row    *)
(* after it.                                                               *)
Separates(e, loc, tl) ==
  /\ \A w \in tl : e[w] <= Len(loc[w])
  /\ \A w, v \in tl : \A p \in 1 .. e[w], r \in e[v] + 1 .. Len(loc[v]) :
       Key[loc[w][p]] <= Key[loc[v][r]]

(* In one vector, the next cut is after the rows up to the splitter.       *)
LEMMA NextCutAt ==
  ASSUME NEW tl, NEW loc, Locals(loc, tl), NEW i \in 1 .. Cardinality(tl) - 1,
         i # Cardinality(tl) - 1, NEW e \in [tl -> Nat], NEW w \in tl, e[w] <= Len(loc[w])
  PROVE  LET f == NextCut(loc, tl, i, e)
         IN  /\ e[w] <= f[w] /\ f[w] <= Len(loc[w])
             /\ \A p \in e[w] + 1 .. Len(loc[w]) :
                  p <= f[w] <=> Key[loc[w][p]] <= Key[Splitter(loc, tl, i)]
<1> DEFINE q == loc[w]
           a == e[w]
           b == Len(loc[w])
           s == Splitter(loc, tl, i)
           A == {j \in a + 1 .. b : ~cmp_fn(s, q[j])}
           f == NextCut(loc, tl, i, e)
<1>1. q \in Seq(Tuples) /\ InOrder(q) /\ a \in Nat /\ b \in Nat /\ a <= b /\ b = Len(q)
  BY DEF Locals
<1>2. s \in Tuples
  BY SplitterType
<1>3. f[w] = a + Cardinality(A)
  BY DEF NextCut
<1> HIDE DEF q, a, b, s, f
<1>4. Key[s] \in Int /\ \A j \in 1 .. b : Key[q[j]] \in Int
  BY <1>1, <1>2, KeyType
<1>5. \A j \in a + 1 .. b : j \in A <=> Key[q[j]] <= Key[s]
  BY <1>1, <1>4 DEF cmp_fn
<1>6. A \in SUBSET (a + 1 .. b)
  OBVIOUS
<1> HIDE DEF A
<1>7. ASSUME NEW p \in A, NEW j \in a + 1 .. p PROVE j \in A
  <2>1. p \in a + 1 .. b
    BY <1>6
  <2>2. j \in 1 .. b /\ p \in 1 .. b /\ j <= p /\ j \in a + 1 .. b
    BY <1>1, <2>1
  <2>3. Key[q[j]] <= Key[q[p]]
    BY <1>1, <2>2 DEF InOrder
  <2>4. Key[q[p]] <= Key[s]
    BY <1>5, <2>1
  <2>5. QED
    BY <1>4, <1>5, <2>2, <2>3, <2>4
<1>8. /\ Cardinality(A) \in Nat /\ a + Cardinality(A) <= b
      /\ \A p \in a + 1 .. b : p \in A <=> p <= a + Cardinality(A)
  BY <1>1, <1>6, <1>7, Beginning
<1>9. /\ a <= f[w] /\ f[w] <= b
      /\ \A p \in a + 1 .. b : p <= f[w] <=> Key[q[p]] <= Key[s]
  BY <1>1, <1>3, <1>5, <1>8
<1>10. QED
  BY <1>9 DEF q, a, b, s, f

(* Cutting at a splitter separates again. *)
LEMMA NextCutSeparates ==
  ASSUME NEW tl, NEW loc, Locals(loc, tl), NEW i \in 1 .. Cardinality(tl) - 1,
         NEW e \in [tl -> Nat], Separates(e, loc, tl)
  PROVE  /\ Separates(NextCut(loc, tl, i, e), loc, tl)
         /\ \A w \in tl : e[w] <= NextCut(loc, tl, i, e)[w]
<1> DEFINE f == NextCut(loc, tl, i, e)
           s == Splitter(loc, tl, i)
<1>1. f \in [tl -> Nat] /\ s \in Tuples
  BY NextCutType, SplitterType
<1>2. \A w \in tl : loc[w] \in Seq(Tuples) /\ Len(loc[w]) \in Nat /\ e[w] \in Nat /\ e[w] <= Len(loc[w])
  BY DEF Locals, Separates
<1>3. CASE i = Cardinality(tl) - 1
  <2>1. \A w \in tl : f[w] = Len(loc[w])
    BY <1>3 DEF NextCut
  <2> HIDE DEF f
  <2>2. QED
    BY <1>2, <2>1 DEF Separates, f
<1>4. CASE i # Cardinality(tl) - 1
  <2>1. \A w \in tl :
          /\ e[w] <= f[w] /\ f[w] <= Len(loc[w])
          /\ \A p \in e[w] + 1 .. Len(loc[w]) : p <= f[w] <=> Key[loc[w][p]] <= Key[s]
    BY <1>2, <1>4, NextCutAt
  <2> HIDE DEF f, s
  <2>2. ASSUME NEW w \in tl, NEW v \in tl, NEW p \in 1 .. f[w], NEW r \in f[v] + 1 .. Len(loc[v])
        PROVE  Key[loc[w][p]] <= Key[loc[v][r]]
    <3>1. /\ e[v] \in Nat /\ f[v] \in Nat /\ e[v] <= f[v] /\ Len(loc[v]) \in Nat
          /\ e[w] \in Nat /\ f[w] \in Nat /\ f[w] <= Len(loc[w]) /\ Len(loc[w]) \in Nat
      BY <1>1, <1>2, <2>1
    <3>2. r \in e[v] + 1 .. Len(loc[v]) /\ ~(r <= f[v]) /\ r \in 1 .. Len(loc[v])
          /\ p \in 1 .. Len(loc[w])
      BY <3>1
    <3>3. ~(Key[loc[v][r]] <= Key[s])
      BY <2>1, <3>2
    <3>4. Key[s] \in Int /\ Key[loc[v][r]] \in Int /\ Key[loc[w][p]] \in Int
      BY <1>1, <1>2, <3>2, KeyType
    <3>5. CASE p \in 1 .. e[w]
      BY <3>2, <3>5 DEF Separates
    <3>6. CASE p \notin 1 .. e[w]
      <4>1. p \in e[w] + 1 .. Len(loc[w]) /\ p <= f[w]
        BY <3>1, <3>2, <3>6
      <4>2. Key[loc[w][p]] <= Key[s]
        BY <2>1, <4>1
      <4>3. QED
        BY <3>3, <3>4, <4>2
    <3>7. QED
      BY <3>5, <3>6
  <2>3. QED
    BY <2>1, <2>2 DEF Separates, f
<1>5. QED
  BY <1>3, <1>4

(* What the work packages are made of: cuts from the beginning to the end  *)
(* of the vectors, each after the one before it, each separating.          *)
AreCuts(cuts, loc, tl, m) ==
  /\ cuts \in [0 .. m -> [tl -> Nat]]
  /\ \A w \in tl : cuts[0][w] = 0 /\ cuts[m][w] = Len(loc[w])
  /\ \A i \in 0 .. m : Separates(cuts[i], loc, tl)
  /\ \A i \in 1 .. m : \A w \in tl : cuts[i - 1][w] <= cuts[i][w]

(* The loop over the splitters computes such cuts. *)
LEMMA CutsAre ==
  ASSUME NEW tl, NEW loc, Locals(loc, tl)
  PROVE  AreCuts(Cuts(loc, tl), loc, tl, Cardinality(tl) - 1)
<1> DEFINE n == Cardinality(tl)
           m == n - 1
           cuts == Cuts(loc, tl)
           P == {i \in 0 .. m : Separates(cuts[i], loc, tl)}
<1>1. n \in Nat \ {0, 1} /\ m \in Nat \ {0}
  BY DEF Locals
<1>2. /\ cuts \in [0 .. m -> [tl -> Nat]]
      /\ \A w \in tl : cuts[0][w] = 0
      /\ \A i \in 1 .. m : cuts[i] = NextCut(loc, tl, i, cuts[i - 1])
  BY CutsFollow
<1> HIDE DEF cuts
<1>3. 0 \in P
  <2>1. 0 \in 0 .. m
    BY <1>1
  <2>2. \A w \in tl : Len(loc[w]) \in Nat
    BY DEF Locals
  <2>3. Separates(cuts[0], loc, tl)
    BY <1>2, <2>2 DEF Separates
  <2>4. QED
    BY <2>1, <2>3
<1>4. ASSUME NEW i \in 0 .. m - 1, Separates(cuts[i], loc, tl)
      PROVE  /\ Separates(cuts[i + 1], loc, tl)
             /\ \A w \in tl : cuts[i][w] <= cuts[i + 1][w]
             /\ i + 1 \in 0 .. m
  <2> DEFINE k == i + 1
  <2>1. k \in 1 .. n - 1 /\ k \in 1 .. m /\ k - 1 = i /\ i \in 0 .. m /\ k \in 0 .. m
    BY <1>1
  <2>2. cuts[k] = NextCut(loc, tl, k, cuts[i]) /\ cuts[i] \in [tl -> Nat]
    BY <1>2, <2>1
  <2> HIDE DEF k, n, m
  <2>3. k \in 1 .. Cardinality(tl) - 1
    BY <2>1 DEF n
  <2>4. /\ Separates(NextCut(loc, tl, k, cuts[i]), loc, tl)
        /\ \A w \in tl : cuts[i][w] <= NextCut(loc, tl, k, cuts[i])[w]
    BY <1>4, <2>2, <2>3, NextCutSeparates
  <2>5. QED
    BY <2>1, <2>2, <2>4 DEF k
<1>5. \A i \in 0 .. m - 1 : i \in P => i + 1 \in P
  BY <1>4
<1>6. 0 .. m \subseteq P
  <2> HIDE DEF P, m
  <2>1. QED
    BY <1>1, <1>3, <1>5, UpTo
<1>7. \A i \in 0 .. m : Separates(cuts[i], loc, tl)
  BY <1>6
<1>8. ASSUME NEW i \in 1 .. m, NEW w \in tl PROVE cuts[i - 1][w] <= cuts[i][w]
  <2> DEFINE k == i - 1
  <2>1. k \in 0 .. m - 1 /\ k \in 0 .. m /\ k + 1 = i
    BY <1>1
  <2> HIDE DEF k
  <2>2. Separates(cuts[k], loc, tl)
    BY <1>7, <2>1
  <2>3. cuts[k][w] <= cuts[k + 1][w]
    BY <1>4, <2>1, <2>2
  <2>4. QED
    BY <2>1, <2>3 DEF k
<1>9. \A w \in tl : cuts[m][w] = Len(loc[w])
  <2>1. m \in 1 .. m
    BY <1>1
  <2>2. cuts[m] = NextCut(loc, tl, m, cuts[m - 1])
    BY <1>2, <2>1
  <2>3. QED
    BY <2>2 DEF NextCut
<1>10. QED
  BY <1>2, <1>7, <1>8, <1>9 DEF AreCuts, cuts

(* How many rows are in ranges. *)
Size(r) == r.last - r.first + 1

Sizes(ranges) == [r \in ranges |-> Size(r)]

(* The range of sorter w between two cuts. *)
RangeOf(w, from, to) == [s |-> w, first |-> from[w] + 1, last |-> to[w]]

(* The rows before one cut and those of the package after it are the rows  *)
(* before the next cut.                                                    *)
LEMMA PackageSize ==
  ASSUME NEW tl, IsFiniteSet(tl), NEW from \in [tl -> Nat], NEW to \in [tl -> Nat],
         \A w \in tl : from[w] <= to[w]
  PROVE  /\ SumFunction(to) = SumFunction(from) + SumFunction(Sizes(InputRanges(from, to)))
         /\ SumFunction(from) \in Nat /\ SumFunction(to) \in Nat
         /\ SumFunction(Sizes(InputRanges(from, to))) \in Nat
         /\ IsFiniteSet(InputRanges(from, to))
<1> DEFINE R(T) == {RangeOf(w, from, to) : w \in {v \in T : from[v] < to[v]}}
           g == Sizes(R(tl))
           Ok(T) == /\ IsFiniteSet(R(T))
                    /\ SumFunctionOnSet(to, T) =
                         SumFunctionOnSet(from, T) + SumFunctionOnSet(g, R(T))
           P == {T \in SUBSET tl : Ok(T)}
<1>1. InputRanges(from, to) = R(tl)
  BY DEF InputRanges, RangeOf
<1>2. \A w \in tl : from[w] \in Nat /\ to[w] \in Nat
  OBVIOUS
<1>3. \A r \in R(tl) : g[r] \in Nat
  BY <1>2 DEF RangeOf, Sizes, Size
<1> HIDE DEF g
<1>4. {} \in P
  <2>1. R({}) = {}
    OBVIOUS
  <2>2. SumFunctionOnSet(to, {}) = 0 /\ SumFunctionOnSet(from, {}) = 0 /\ SumFunctionOnSet(g, {}) = 0
    BY FS_EmptySet, SumAdd
  <2>3. Ok({})
    BY <2>1, <2>2, FS_EmptySet
  <2>4. QED
    BY <2>3
<1>5. ASSUME NEW T \in SUBSET tl, NEW x \in tl \ T, T \in P PROVE T \cup {x} \in P
  <2> DEFINE U == T \cup {x}
             rx == RangeOf(x, from, to)
  <2>1. IsFiniteSet(T)
    BY FS_Subset
  <2>2. Ok(T)
    BY <1>5
  <2>3. \A w \in T : from[w] \in Nat /\ to[w] \in Nat
    BY <1>2
  <2>4. /\ SumFunctionOnSet(to, U) = SumFunctionOnSet(to, T) + to[x]
        /\ SumFunctionOnSet(from, U) = SumFunctionOnSet(from, T) + from[x]
    BY <1>2, <2>1, <2>3, SumAdd
  <2>5. SumFunctionOnSet(to, T) \in Nat /\ SumFunctionOnSet(from, T) \in Nat
    BY <2>1, <2>3, SumIsUnits
  <2>6. R(T) \subseteq R(tl) /\ \A r \in R(T) : g[r] \in Nat
    BY <1>3
  <2>7. SumFunctionOnSet(g, R(T)) \in Nat
    <3> DEFINE A == R(T)
    <3> HIDE DEF A
    <3>1. IsFiniteSet(A) /\ \A r \in A : g[r] \in Nat
      BY <2>2, <2>6 DEF A
    <3>2. SumFunctionOnSet(g, A) \in Nat
      BY <3>1, SumIsUnits
    <3>3. QED
      BY <3>2 DEF A
  <2>8. CASE from[x] < to[x]
    <3>1. R(U) = R(T) \cup {rx} /\ rx \notin R(T) /\ rx \in R(tl)
      BY <2>8 DEF RangeOf
    <3>2. g[rx] = to[x] - from[x] /\ g[rx] \in Nat
      BY <1>2, <2>8, <3>1 DEF g, Sizes, Size, RangeOf
    <3> DEFINE A == R(T)
    <3> HIDE DEF A, rx
    <3>3. IsFiniteSet(A) /\ rx \notin A /\ \A r \in A : g[r] \in Nat
      BY <2>2, <2>6, <3>1 DEF A
    <3>4. SumFunctionOnSet(g, A \cup {rx}) = SumFunctionOnSet(g, A) + g[rx]
      BY <3>2, <3>3, SumAdd
    <3>5. IsFiniteSet(A \cup {rx})
      BY <3>3, FS_AddElement
    <3>6. SumFunctionOnSet(g, R(U)) = SumFunctionOnSet(g, R(T)) + (to[x] - from[x]) /\ IsFiniteSet(R(U))
      BY <3>1, <3>2, <3>4, <3>5 DEF A
    <3> HIDE DEF R, U
    <3>7. QED
      BY <1>2, <2>2, <2>4, <2>5, <2>7, <3>6 DEF U
  <2>9. CASE ~(from[x] < to[x])
    <3>1. R(U) = R(T) /\ from[x] = to[x]
      BY <1>2, <2>9
    <3> HIDE DEF R, U
    <3>2. QED
      BY <1>2, <2>2, <2>4, <2>5, <2>7, <3>1 DEF U
  <2>10. QED
    BY <2>8, <2>9
<1>6. \A T \in SUBSET tl : T \in P
  <2> HIDE DEF P
  <2>1. QED
    BY <1>4, <1>5, SetInduction
<1>7. Ok(tl)
  BY <1>6
<1>8. /\ SumFunction(to) = SumFunctionOnSet(to, tl) /\ SumFunction(from) = SumFunctionOnSet(from, tl)
      /\ SumFunction(Sizes(InputRanges(from, to))) = SumFunctionOnSet(g, R(tl))
  <2>1. DOMAIN to = tl /\ DOMAIN from = tl /\ DOMAIN g = R(tl)
    BY DEF g, Sizes
  <2>2. QED
    BY <1>1, <2>1 DEF SumFunction, g
<1>9. SumFunctionOnSet(to, tl) \in Nat /\ SumFunctionOnSet(from, tl) \in Nat
  BY <1>2, SumIsUnits
<1>10. SumFunctionOnSet(g, R(tl)) \in Nat
  <2> DEFINE A == R(tl)
  <2> HIDE DEF A
  <2>1. IsFiniteSet(A) /\ \A r \in A : g[r] \in Nat
    BY <1>3, <1>7 DEF A
  <2>2. SumFunctionOnSet(g, A) \in Nat
    BY <2>1, SumIsUnits
  <2>3. QED
    BY <2>2 DEF A
<1>11. QED
  BY <1>1, <1>7, <1>8, <1>9, <1>10

(* Vectors that share no row hold as many rows as they are long.           *)
LEMMA RowCount ==
  ASSUME NEW tl, IsFiniteSet(tl), NEW loc, NEW len,
         \A w \in tl : loc[w] \in Seq(Tuples) /\ IsInjective(loc[w]) /\ len[w] = Len(loc[w]),
         \A w, v \in tl : w # v => Range(loc[w]) \cap Range(loc[v]) = {}
  PROVE  /\ IsFiniteSet(UNION {Range(loc[w]) : w \in tl})
         /\ Cardinality(UNION {Range(loc[w]) : w \in tl}) = SumFunctionOnSet(len, tl)
<1> DEFINE R(T) == UNION {Range(loc[w]) : w \in T}
           Ok(T) == IsFiniteSet(R(T)) /\ Cardinality(R(T)) = SumFunctionOnSet(len, T)
           P == {T \in SUBSET tl : Ok(T)}
<1>1. \A w \in tl : len[w] \in Nat /\ IsFiniteSet(Range(loc[w])) /\ Cardinality(Range(loc[w])) = len[w]
  BY InjectiveLength
<1>2. {} \in P
  <2>1. R({}) = {}
    OBVIOUS
  <2>2. SumFunctionOnSet(len, {}) = 0
    BY FS_EmptySet, SumAdd
  <2>3. QED
    BY <2>1, <2>2, FS_EmptySet
<1>3. ASSUME NEW T \in SUBSET tl, NEW x \in tl \ T, T \in P PROVE T \cup {x} \in P
  <2> DEFINE U == T \cup {x}
             A == R(T)
             B == Range(loc[x])
  <2>1. IsFiniteSet(T) /\ \A w \in T : len[w] \in Nat
    BY <1>1, FS_Subset
  <2>2. SumFunctionOnSet(len, U) = SumFunctionOnSet(len, T) + len[x]
    BY <1>1, <2>1, SumAdd
  <2>3. R(U) = A \cup B /\ A \cap B = {}
    OBVIOUS
  <2>4. IsFiniteSet(A) /\ Cardinality(A) = SumFunctionOnSet(len, T)
    BY <1>3
  <2>5. IsFiniteSet(B) /\ Cardinality(B) = len[x]
    BY <1>1
  <2>6. Cardinality(A) \in Nat /\ Cardinality(B) \in Nat
    BY <2>4, <2>5, FS_CardinalityType
  <2>7. IsFiniteSet(A \cup B) /\ Cardinality(A \cup B) = Cardinality(A) + Cardinality(B)
    <3> HIDE DEF A, B
    <3>1. Cardinality(A \cap B) = 0
      BY <2>3, FS_EmptySet
    <3>2. /\ IsFiniteSet(A \cup B)
          /\ Cardinality(A \cup B) = Cardinality(A) + Cardinality(B) - Cardinality(A \cap B)
      BY <2>4, <2>5, FS_Union
    <3>3. QED
      BY <2>6, <3>1, <3>2
  <2> HIDE DEF A, B, R
  <2>8. QED
    BY <2>2, <2>3, <2>4, <2>5, <2>7 DEF U
<1>4. \A T \in SUBSET tl : T \in P
  <2> HIDE DEF P
  <2>1. QED
    BY <1>2, <1>3, SetInduction
<1>5. QED
  BY <1>4

(* Bounds that never go down. *)
Rising(B, m) == B \in [0 .. m -> Nat] /\ \A i \in 1 .. m : B[i - 1] <= B[i]

(* Comparing neighbours compares all. *)
LEMMA RisingAll ==
  ASSUME NEW m \in Nat, NEW B, Rising(B, m), NEW i \in 0 .. m, NEW j \in 0 .. m, i <= j
  PROVE  B[i] <= B[j]
<1> DEFINE n == j - i
           P == {d \in 0 .. n : B[i] <= B[i + d]}
<1>1. n \in Nat /\ \A k \in 0 .. m : B[k] \in Nat
  BY DEF Rising
<1>2. 0 \in P
  BY <1>1
<1>3. ASSUME NEW d \in 0 .. n - 1, d \in P PROVE d + 1 \in P
  <2> DEFINE e == i + d + 1
  <2>1. e \in 1 .. m /\ e \in 0 .. m /\ e - 1 = i + d /\ i + d \in 0 .. m /\ d + 1 \in 0 .. n
    BY <1>1
  <2>2. B[i + d] <= B[e]
    BY <2>1 DEF Rising
  <2>3. B[i] <= B[i + d]
    BY <1>3
  <2>4. B[i] <= B[e] /\ e = i + (d + 1)
    BY <1>1, <2>1, <2>2, <2>3
  <2>5. QED
    BY <2>1, <2>4
<1> HIDE DEF P
<1>4. 0 .. n \subseteq P
  BY <1>1, <1>2, <1>3, UpTo
<1>5. n \in P /\ i + n = j
  BY <1>1, <1>4
<1>6. QED
  BY <1>5 DEF P

(* Every number between the first and the last bound is between two.       *)
LEMMA RisingFind ==
  ASSUME NEW m \in Nat, NEW B, Rising(B, m), NEW p \in Nat, B[0] < p, p <= B[m]
  PROVE  \E k \in 1 .. m : B[k - 1] < p /\ p <= B[k]
<1> DEFINE T == {k \in 0 .. m : p <= B[k]}
<1>1. m \in T /\ T \in SUBSET Nat
  OBVIOUS
<1> HIDE DEF T
<1>2. PICK k \in T : \A i \in T : k <= i
  BY <1>1, LeastNatural
<1>3. k \in 0 .. m /\ p <= B[k]
  BY DEF T
<1>4. \A i \in 0 .. m : B[i] \in Nat
  BY DEF Rising
<1>5. k # 0
  BY <1>3, <1>4
<1>6. k - 1 \in 0 .. m /\ k - 1 \notin T
  BY <1>2, <1>3, <1>5
<1>7. B[k - 1] < p
  BY <1>4, <1>6 DEF T
<1>8. QED
  BY <1>3, <1>5, <1>7

(* The output positions of a package. *)
Span(p) == p.dest .. p.dest - 1 + SumFunction(Sizes(p.ranges))

(* What the merge starts from: packages whose spans follow each other from *)
(* the first output position to the last.                                  *)
Partition(pkgs, N, m) ==
  /\ \A p \in 1 .. N : \E k \in 1 .. m : p \in Span(pkgs[k])
  /\ \A k \in 1 .. m : Span(pkgs[k]) \subseteq 1 .. N
  /\ \A j, k \in 1 .. m : j < k => \A x \in Span(pkgs[j]), y \in Span(pkgs[k]) : x < y

(* No rows are before the first cut. *)
LEMMA SumOfNone ==
  ASSUME NEW S, IsFiniteSet(S), NEW f, \A x \in S : f[x] = 0
  PROVE  SumFunctionOnSet(f, S) = 0
<1>1. Units(f, S) = {}
  BY DEF Units
<1>2. \A x \in S : f[x] \in Nat
  OBVIOUS
<1>3. QED
  BY <1>1, <1>2, SumIsUnits, FS_EmptySet

(* Together the packages write every output position once. *)
LEMMA PackagesPartition ==
  ASSUME NEW tl, NEW loc, Locals(loc, tl), NEW m, m = Cardinality(tl) - 1,
         NEW cuts, cuts = Cuts(loc, tl)
  PROVE  /\ Partition(WorkPackages(loc, tl), SumFunction(cuts[m]), m)
         /\ \A k \in 1 .. m : /\ WorkPackages(loc, tl)[k].dest \in Nat \ {0}
                              /\ WorkPackages(loc, tl)[k].ranges = InputRanges(cuts[k - 1], cuts[k])
         /\ DOMAIN WorkPackages(loc, tl) = 1 .. m
<1> DEFINE W == WorkPackages(loc, tl)
           B == [k \in 0 .. m |-> SumFunction(cuts[k])]
<1>1. IsFiniteSet(tl) /\ m \in Nat \ {0}
  BY DEF Locals
<1>2. AreCuts(cuts, loc, tl, m)
  BY CutsAre
<1>3. W = [i \in 1 .. m |-> [ranges |-> InputRanges(cuts[i - 1], cuts[i]), dest |-> WritePos(cuts[i - 1])]]
  BY DEF WorkPackages
<1> HIDE DEF W
<1>4. ASSUME NEW k \in 1 .. m
      PROVE  /\ k - 1 \in 0 .. m /\ k \in 0 .. m /\ cuts[k - 1] \in [tl -> Nat] /\ cuts[k] \in [tl -> Nat]
             /\ \A w \in tl : cuts[k - 1][w] <= cuts[k][w]
  <2>1. k - 1 \in 0 .. m /\ k \in 0 .. m
    BY <1>1
  <2>2. QED
    BY <1>2, <2>1 DEF AreCuts
<1>5. \A k \in 0 .. m : B[k] \in Nat
  <2> SUFFICES ASSUME NEW k \in 0 .. m PROVE SumFunction(cuts[k]) \in Nat
    OBVIOUS
  <2>1. cuts[k] \in [tl -> Nat]
    BY <1>2 DEF AreCuts
  <2>2. SumFunctionOnSet(cuts[k], tl) \in Nat
    BY <1>1, <2>1, SumIsUnits
  <2>3. QED
    BY <2>1, <2>2 DEF SumFunction
<1>6. ASSUME NEW k \in 1 .. m
      PROVE  /\ W[k].dest = B[k - 1] + 1 /\ W[k].ranges = InputRanges(cuts[k - 1], cuts[k])
             /\ B[k] = B[k - 1] + SumFunction(Sizes(W[k].ranges))
             /\ SumFunction(Sizes(W[k].ranges)) \in Nat
             /\ B[k - 1] \in Nat /\ B[k] \in Nat
  <2>1. W[k] = [ranges |-> InputRanges(cuts[k - 1], cuts[k]), dest |-> WritePos(cuts[k - 1])]
    BY <1>3
  <2>2. B[k - 1] = SumFunction(cuts[k - 1]) /\ B[k] = SumFunction(cuts[k]) /\ B[k - 1] \in Nat /\ B[k] \in Nat
    BY <1>4, <1>5
  <2>3. WritePos(cuts[k - 1]) = 1 + SumFunction(cuts[k - 1])
    BY DEF WritePos
  <2> DEFINE from == cuts[k - 1]
             to == cuts[k]
  <2>4. from \in [tl -> Nat] /\ to \in [tl -> Nat] /\ \A w \in tl : from[w] <= to[w]
    BY <1>4
  <2> HIDE DEF from, to
  <2>5. /\ SumFunction(to) = SumFunction(from) + SumFunction(Sizes(InputRanges(from, to)))
        /\ SumFunction(Sizes(InputRanges(from, to))) \in Nat
    BY <1>1, <2>4, PackageSize
  <2> HIDE DEF B
  <2>6. QED
    BY <2>1, <2>2, <2>3, <2>5 DEF from, to
<1>7. \A k \in 1 .. m : Span(W[k]) = B[k - 1] + 1 .. B[k]
  <2> SUFFICES ASSUME NEW k \in 1 .. m PROVE Span(W[k]) = B[k - 1] + 1 .. B[k]
    OBVIOUS
  <2> DEFINE d == W[k].dest
             n == SumFunction(Sizes(W[k].ranges))
             a == B[k - 1]
             b == B[k]
  <2>1. d = a + 1 /\ b = a + n /\ n \in Nat /\ a \in Nat /\ b \in Nat
    BY <1>6
  <2>2. Span(W[k]) = d .. d - 1 + n
    BY DEF Span
  <2> HIDE DEF d, n, a, b
  <2>3. d .. d - 1 + n = a + 1 .. b
    BY <2>1
  <2>4. QED
    BY <2>2, <2>3 DEF a, b
<1>8. Rising(B, m)
  <2>1. B \in [0 .. m -> Nat]
    BY <1>5
  <2> HIDE DEF B
  <2>2. ASSUME NEW k \in 1 .. m PROVE B[k - 1] <= B[k]
    <3> DEFINE n == SumFunction(Sizes(W[k].ranges))
               a == B[k - 1]
               b == B[k]
    <3>1. b = a + n /\ n \in Nat /\ a \in Nat /\ b \in Nat
      BY <1>6
    <3> HIDE DEF n, a, b
    <3>2. a <= b
      BY <3>1
    <3>3. QED
      BY <3>2 DEF a, b
  <2>3. QED
    BY <2>1, <2>2 DEF Rising
<1>9. B[0] = 0
  <2>1. 0 \in 0 .. m /\ cuts[0] \in [tl -> Nat] /\ \A w \in tl : cuts[0][w] = 0
    BY <1>1, <1>2 DEF AreCuts
  <2>2. SumFunctionOnSet(cuts[0], tl) = 0
    BY <1>1, <2>1, SumOfNone
  <2>3. QED
    BY <2>1, <2>2 DEF SumFunction
<1>10. B[m] = SumFunction(cuts[m]) /\ m \in 0 .. m /\ 0 \in 0 .. m
  BY <1>1
<1> HIDE DEF B
<1>11. ASSUME NEW p \in 1 .. B[m] PROVE \E k \in 1 .. m : p \in Span(W[k])
  <2>1. p \in Nat /\ B[0] < p /\ p <= B[m]
    BY <1>5, <1>9, <1>10
  <2>2. PICK k \in 1 .. m : B[k - 1] < p /\ p <= B[k]
    BY <1>1, <1>8, <2>1, RisingFind
  <2>3. p \in B[k - 1] + 1 .. B[k]
    BY <1>6, <2>1, <2>2
  <2>4. QED
    BY <1>7, <2>2, <2>3
<1>12. ASSUME NEW k \in 1 .. m PROVE Span(W[k]) \subseteq 1 .. B[m]
  <2>1. B[k] <= B[m] /\ B[m] \in Nat
    BY <1>1, <1>4, <1>5, <1>8, <1>10, RisingAll
  <2> DEFINE a == B[k - 1]
             b == B[k]
             e == B[m]
  <2>2. Span(W[k]) = a + 1 .. b /\ a \in Nat /\ b \in Nat /\ b <= e /\ e \in Nat
    BY <1>6, <1>7, <2>1
  <2> HIDE DEF a, b, e
  <2>3. a + 1 .. b \subseteq 1 .. e
    BY <2>2
  <2>4. QED
    BY <2>2, <2>3 DEF e
<1>13. ASSUME NEW j \in 1 .. m, NEW k \in 1 .. m, j < k, NEW x \in Span(W[j]), NEW y \in Span(W[k])
       PROVE  x < y
  <2> DEFINE i == k - 1
  <2>1. i \in 0 .. m /\ j \in 0 .. m /\ j <= i
    BY <1>1, <1>13
  <2> HIDE DEF i
  <2>2. B[j] <= B[i]
    BY <1>1, <1>8, <2>1, RisingAll
  <2>3. x \in B[j - 1] + 1 .. B[j] /\ y \in B[i] + 1 .. B[k]
    BY <1>7 DEF i
  <2>4. B[j - 1] \in Nat /\ B[j] \in Nat /\ B[i] \in Nat /\ B[k] \in Nat
    BY <1>6 DEF i
  <2>5. QED
    BY <2>2, <2>3, <2>4
<1>14. Partition(W, B[m], m)
  BY <1>11, <1>12, <1>13 DEF Partition
<1>15. \A k \in 1 .. m : W[k].dest \in Nat \ {0} /\ W[k].ranges = InputRanges(cuts[k - 1], cuts[k])
  BY <1>6
<1>16. DOMAIN W = 1 .. m
  BY <1>3
<1>17. QED
  BY <1>10, <1>14, <1>15, <1>16 DEF W

----------------------------------------------------------------------------
(* The merge of one package *)

(* The rows of a range, and of the ranges a package has still to merge. *)
Cell(loc, r) == {loc[r.s][p] : p \in r.first .. r.last}
Left(loc, ranges) == UNION {Cell(loc, r) : r \in ranges}

(* Ranges of different sorters, none empty, none past the end. *)
GoodRanges(loc, ranges) ==
  /\ IsFiniteSet(ranges) /\ ranges \subseteq [s : Workers, first : Nat \ {0}, last : Nat]
  /\ \A r \in ranges : r.first <= r.last /\ r.last <= Len(loc[r.s])
  /\ \A r, q \in ranges : r.s = q.s => r = q

(* What merging the first tuple of a range does to a package. *)
Advanced(loc, R, r, A) ==
  /\ GoodRanges(loc, A)
  /\ SumFunction(Sizes(R)) \in Nat \ {0} /\ SumFunction(Sizes(A)) = SumFunction(Sizes(R)) - 1
  /\ loc[r.s][r.first] \in Left(loc, R) /\ Left(loc, A) \subseteq Left(loc, R)
  /\ \A x \in Left(loc, R) : x = loc[r.s][r.first] \/ x \in Left(loc, A)

(* A package without ranges has nothing to write. *)
LEMMA RangesSum ==
  ASSUME NEW loc, NEW R, GoodRanges(loc, R)
  PROVE  /\ SumFunction(Sizes(R)) \in Nat
         /\ R = {} => SumFunction(Sizes(R)) = 0
<1>1. IsFiniteSet(R) /\ \A r \in R : Sizes(R)[r] \in Nat
  BY DEF GoodRanges, Sizes, Size
<1>2. DOMAIN Sizes(R) = R
  BY DEF Sizes
<1>3. SumFunction(Sizes(R)) = SumFunctionOnSet(Sizes(R), R)
  BY <1>2 DEF SumFunction
<1>4. SumFunctionOnSet(Sizes(R), R) \in Nat
  BY <1>1, SumIsUnits
<1>5. R = {} => SumFunctionOnSet(Sizes(R), R) = 0
  BY <1>1, SumAdd
<1>6. QED
  BY <1>3, <1>4, <1>5

(* Merging a tuple takes one row off the package. *)
LEMMA AdvanceSum ==
  ASSUME NEW loc, NEW R, GoodRanges(loc, R), NEW r \in R
  PROVE  /\ SumFunction(Sizes(R)) \in Nat \ {0}
         /\ SumFunction(Sizes(Advance(R, r))) = SumFunction(Sizes(R)) - 1
<1> DEFINE S == R \ {r}
           n == [s |-> r.s, first |-> r.first + 1, last |-> r.last]
           A == Advance(R, r)
           f == Sizes(R)
           g == Sizes(A)
<1>1. /\ r.s \in Workers /\ r.first \in Nat \ {0} /\ r.last \in Nat /\ r.first <= r.last
      /\ IsFiniteSet(R) /\ \A q \in R : Size(q) \in Nat
  BY DEF GoodRanges, Size
<1>2. IsFiniteSet(S) /\ R = S \cup {r} /\ r \notin S
  BY <1>1, FS_Subset
<1>3. \A q \in R : f[q] = Size(q)
  BY DEF Sizes
<1>4. SumFunctionOnSet(f, S) \in Nat /\ SumFunctionOnSet(f, R) = SumFunctionOnSet(f, S) + f[r]
  <2> HIDE DEF f
  <2>1. \A q \in S : f[q] \in Nat
    BY <1>1, <1>3
  <2>2. f[r] \in Nat
    BY <1>1, <1>3
  <2>3. SumFunctionOnSet(f, S) \in Nat
    BY <1>2, <2>1, SumIsUnits
  <2>4. SumFunctionOnSet(f, S \cup {r}) = SumFunctionOnSet(f, S) + f[r]
    BY <1>2, <2>1, <2>2, SumAdd
  <2>5. QED
    BY <1>2, <2>3, <2>4
<1>5. f[r] = r.last - r.first + 1 /\ f[r] \in Nat \ {0}
  BY <1>1, <1>3 DEF Size
<1>6. DOMAIN f = R /\ DOMAIN g = A /\ \A q \in A : g[q] = Size(q)
  BY DEF Sizes
<1>7. n \notin S
  BY DEF GoodRanges
<1>8. \A q \in S : f[q] \in Nat /\ (q \in A => f[q] = g[q])
  BY <1>1, <1>3, <1>6
<1> HIDE DEF f, g
<1>9. CASE r.first = r.last
  <2>1. A = S
    BY <1>9 DEF Advance
  <2>2. \A q \in S : f[q] \in Nat /\ f[q] = g[q]
    BY <1>8, <2>1
  <2>3. SumFunctionOnSet(f, S) = SumFunctionOnSet(g, S)
    BY <1>2, <2>2, SumSame
  <2>4. f[r] = 1
    BY <1>1, <1>5, <1>9
  <2>5. QED
    BY <1>4, <1>6, <2>1, <2>3, <2>4 DEF SumFunction, f, g
<1>10. CASE r.first # r.last
  <2>1. A = S \cup {n}
    BY <1>10 DEF Advance
  <2>2. \A q \in S : f[q] \in Nat /\ f[q] = g[q]
    BY <1>8, <2>1
  <2>3. SumFunctionOnSet(f, S) = SumFunctionOnSet(g, S)
    BY <1>2, <2>2, SumSame
  <2>4. g[n] = Size(n) /\ Size(n) = r.last - (r.first + 1) + 1
    BY <1>6, <2>1 DEF Size
  <2>5. g[n] = f[r] - 1 /\ g[n] \in Nat
    BY <1>1, <1>5, <2>4
  <2>6. \A q \in S : g[q] \in Nat
    BY <2>2
  <2> HIDE DEF n, S
  <2>7. SumFunctionOnSet(g, S \cup {n}) = SumFunctionOnSet(g, S) + g[n]
    BY <1>2, <1>7, <2>5, <2>6, SumAdd
  <2>8. SumFunctionOnSet(g, A) = SumFunctionOnSet(f, R) - 1 /\ SumFunctionOnSet(f, R) \in Nat \ {0}
    BY <1>4, <1>5, <2>1, <2>3, <2>5, <2>7
  <2>9. QED
    BY <1>6, <2>8 DEF SumFunction, f, g
<1>11. QED
  BY <1>9, <1>10

(* The tuple merged leaves the package, the others stay. *)
LEMMA AdvanceKeeps ==
  ASSUME NEW loc, NEW R, GoodRanges(loc, R), NEW r \in R
  PROVE  Advanced(loc, R, r, Advance(R, r))
<1> DEFINE S == R \ {r}
           n == [s |-> r.s, first |-> r.first + 1, last |-> r.last]
           A == Advance(R, r)
<1>1. /\ r.s \in Workers /\ r.first \in Nat \ {0} /\ r.last \in Nat /\ r.first <= r.last
      /\ r.last <= Len(loc[r.s]) /\ IsFiniteSet(R)
  BY DEF GoodRanges
<1>2. \A q \in A : q \in S \/ (q = n /\ r.first # r.last)
  BY DEF Advance
<1>3. n.s = r.s /\ n.first = r.first + 1 /\ n.last = r.last
  OBVIOUS
<1>4. n \in [s : Workers, first : Nat \ {0}, last : Nat]
  BY <1>1
<1>5. GoodRanges(loc, A)
  <2>1. IsFiniteSet(S) /\ IsFiniteSet(S \cup {n}) /\ IsFiniteSet(A)
    <3>1. IsFiniteSet(S)
      BY <1>1, FS_Subset
    <3>2. IsFiniteSet(S \cup {n})
      BY <3>1, FS_AddElement
    <3>3. A \subseteq S \cup {n}
      BY <1>2
    <3>4. QED
      BY <3>1, <3>2, <3>3, FS_Subset
  <2>2. A \subseteq [s : Workers, first : Nat \ {0}, last : Nat]
    BY <1>2, <1>4 DEF GoodRanges
  <2>3. ASSUME NEW q \in A PROVE q.first <= q.last /\ q.last <= Len(loc[q.s])
    <3>1. CASE q \in S
      BY <3>1 DEF GoodRanges
    <3>2. CASE q = n /\ r.first # r.last
      <4> HIDE DEF n
      <4>1. QED
        BY <1>1, <1>3, <3>2
    <3>3. QED
      BY <1>2, <3>1, <3>2
  <2>4. ASSUME NEW q \in A, NEW p \in A, q.s = p.s PROVE q = p
    <3>1. \A x \in S : x.s # r.s
      BY DEF GoodRanges
    <3> HIDE DEF n
    <3>2. QED
      BY <1>2, <1>3, <2>4, <3>1 DEF GoodRanges
  <2>5. QED
    BY <2>1, <2>2, <2>3, <2>4 DEF GoodRanges
<1>6. loc[r.s][r.first] \in Left(loc, R)
  <2>1. r.first \in r.first .. r.last
    BY <1>1
  <2>2. QED
    BY <2>1 DEF Left, Cell
<1>7. Left(loc, A) \subseteq Left(loc, R)
  <2> SUFFICES ASSUME NEW q \in A, NEW p \in q.first .. q.last
               PROVE  loc[q.s][p] \in Left(loc, R)
    BY DEF Left, Cell
  <2>1. CASE q \in S
    BY <2>1 DEF Left, Cell
  <2>2. CASE q = n
    <3>1. p \in r.first .. r.last /\ q.s = r.s
      BY <1>1, <1>3, <2>2
    <3>2. QED
      BY <3>1 DEF Left, Cell
  <2>3. QED
    BY <1>2, <2>1, <2>2
<1>8. ASSUME NEW x \in Left(loc, R) PROVE x = loc[r.s][r.first] \/ x \in Left(loc, A)
  <2>0. PICK q \in R : x \in Cell(loc, q)
    BY DEF Left
  <2>1. PICK p \in q.first .. q.last : x = loc[q.s][p]
    BY <2>0 DEF Cell
  <2>2. CASE q # r
    <3>1. q \in A
      BY <2>2 DEF Advance
    <3>2. QED
      BY <2>1, <3>1 DEF Left, Cell
  <2>3. CASE q = r /\ p # r.first
    <3>1. r.first # r.last /\ p \in n.first .. n.last /\ n.s = r.s
      BY <1>1, <1>3, <2>3
    <3>2. n \in A
      BY <3>1 DEF Advance
    <3> HIDE DEF n, A
    <3>3. QED
      BY <2>1, <2>3, <3>1, <3>2 DEF Left, Cell
  <2>4. QED
    BY <2>1, <2>2, <2>3
<1>9. QED
  BY <1>5, <1>6, <1>7, <1>8, AdvanceSum DEF Advanced

(* The front of the heap is a least row of the package. *)
LEMMA FrontIsLeast ==
  ASSUME NEW loc \in [Workers -> Seq(Tuples)], \A w \in Workers : InOrder(loc[w]),
         NEW R, GoodRanges(loc, R), NEW r \in R,
         \A q \in R : Key[loc[r.s][r.first]] <= Key[loc[q.s][q.first]]
  PROVE  /\ \A y \in Left(loc, R) : Key[loc[r.s][r.first]] <= Key[y]
         /\ \A y \in Left(loc, R) : y \in Tuples
<1> SUFFICES ASSUME NEW q \in R, NEW p \in q.first .. q.last
             PROVE  Key[loc[r.s][r.first]] <= Key[loc[q.s][p]] /\ loc[q.s][p] \in Tuples
  BY DEF Left, Cell
<1>1. ASSUME NEW z \in R, NEW i \in z.first .. z.last
      PROVE /\ z.s \in Workers /\ z.first \in 1 .. Len(loc[z.s]) /\ i \in 1 .. Len(loc[z.s])
            /\ z.first <= i
            /\ loc[z.s] \in Seq(Tuples) /\ loc[z.s][i] \in Tuples /\ Key[loc[z.s][i]] \in Int
            /\ z.first \in z.first .. z.last
  <2>1. /\ z.s \in Workers /\ z.first \in Nat \ {0} /\ z.last \in Nat /\ z.first <= z.last
        /\ z.last <= Len(loc[z.s])
    BY DEF GoodRanges
  <2>2. loc[z.s] \in Seq(Tuples) /\ Len(loc[z.s]) \in Nat
    BY <2>1
  <2>3. i \in 1 .. Len(loc[z.s]) /\ z.first \in 1 .. Len(loc[z.s]) /\ z.first <= i /\ z.first \in z.first .. z.last
    BY <2>1, <2>2
  <2>4. loc[z.s][i] \in Tuples
    BY <2>2, <2>3
  <2>5. QED
    BY <2>1, <2>2, <2>3, <2>4, KeyType
<1>2. Key[loc[q.s][q.first]] <= Key[loc[q.s][p]]
  BY <1>1 DEF InOrder
<1>3. Key[loc[r.s][r.first]] <= Key[loc[q.s][q.first]]
  OBVIOUS
<1>4. r.first \in r.first .. r.last /\ q.first \in q.first .. q.last
  BY <1>1 DEF GoodRanges
<1>5. Key[loc[r.s][r.first]] \in Int /\ Key[loc[q.s][q.first]] \in Int /\ Key[loc[q.s][p]] \in Int
  BY <1>1, <1>4
<1>6. QED
  BY <1>1, <1>2, <1>3, <1>5

----------------------------------------------------------------------------
(* The merge of all packages *)

(* The output positions written so far. *)
Done(G) == {i \in DOMAIN G : G[i] # NULL}

Packages(loc, W) ==
  /\ DOMAIN W \subseteq Nat
  /\ \A k \in DOMAIN W : W[k].dest \in Nat \ {0} /\ GoodRanges(loc, W[k].ranges)

(* The positions not written are the spans, which follow each other. *)
Places(G, W) ==
  /\ \A k \in DOMAIN W : Span(W[k]) \subseteq DOMAIN G
  /\ \A i \in DOMAIN G : G[i] = NULL <=> \E k \in DOMAIN W : i \in Span(W[k])
  /\ \A j, k \in DOMAIN W : j < k => \A x \in Span(W[j]), y \in Span(W[k]) : x < y

(* What is written is in order, and what is left belongs where it will go. *)
InPlace(loc, G, W) ==
  /\ \A i, j \in Done(G) : i < j => Key[G[i]] <= Key[G[j]]
  /\ \A k \in DOMAIN W : \A y \in Left(loc, W[k].ranges), i \in Done(G) :
       /\ i < W[k].dest => Key[G[i]] <= Key[y]
       /\ i > W[k].dest => Key[y] <= Key[G[i]]
  /\ \A j, k \in DOMAIN W : j < k =>
       \A x \in Left(loc, W[j].ranges), y \in Left(loc, W[k].ranges) : Key[x] <= Key[y]

(* Every row is written or left in a package. *)
Covers(R, loc, G, W) ==
  /\ \A i \in Done(G) : G[i] \in R
  /\ \A x \in R : \/ \E i \in Done(G) : x = G[i]
                  \/ \E k \in DOMAIN W : x \in Left(loc, W[k].ranges)

(* One step of the merge: package k puts the first row of range r out.      *)
Puts(loc, G, W, k, r, H, V) ==
  /\ k \in DOMAIN W /\ r \in W[k].ranges
  /\ \A q \in W[k].ranges : Key[loc[r.s][r.first]] <= Key[loc[q.s][q.first]]
  /\ H = [G EXCEPT ![W[k].dest] = loc[r.s][r.first]]
  /\ V = [W EXCEPT ![k] = [ranges |-> Advance(W[k].ranges, r), dest |-> W[k].dest + 1]]

(* What the step does to the package's span and rows. *)
PutsOne(loc, G, W, k, r, H, V) ==
  /\ DOMAIN H = DOMAIN G /\ DOMAIN V = DOMAIN W
  /\ \A j \in DOMAIN W : j # k => V[j] = W[j]
  /\ V[k].dest = W[k].dest + 1 /\ W[k].dest \in Nat \ {0}
  /\ Advanced(loc, W[k].ranges, r, V[k].ranges)
  /\ W[k].dest \in Span(W[k]) /\ Span(V[k]) = Span(W[k]) \ {W[k].dest}
  /\ H[W[k].dest] = loc[r.s][r.first]
  /\ \A i \in DOMAIN G : i # W[k].dest => H[i] = G[i]
  /\ loc[r.s][r.first] \in Tuples
  /\ \A y \in Left(loc, W[k].ranges) : y \in Tuples /\ Key[loc[r.s][r.first]] <= Key[y]

(* A merge step writes one position and takes one row off one package. *)
LEMMA PutsOneRow ==
  ASSUME NEW loc \in [Workers -> Seq(Tuples)], \A w \in Workers : InOrder(loc[w]),
         NEW G, NEW W, NEW k, NEW r, NEW H, NEW V, Packages(loc, W), Places(G, W),
         Puts(loc, G, W, k, r, H, V)
  PROVE  PutsOne(loc, G, W, k, r, H, V)
<1> DEFINE R == W[k].ranges
           d == W[k].dest
           n == SumFunction(Sizes(R))
           v == loc[r.s][r.first]
<1>1. k \in DOMAIN W /\ r \in R /\ \A q \in R : Key[v] <= Key[loc[q.s][q.first]]
  BY DEF Puts
<1>2. d \in Nat \ {0} /\ GoodRanges(loc, R)
  BY <1>1 DEF Packages
<1>3. H = [G EXCEPT ![d] = v] /\ V = [W EXCEPT ![k] = [ranges |-> Advance(R, r), dest |-> d + 1]]
  BY DEF Puts
<1> HIDE DEF R, d, v
<1>4. DOMAIN H = DOMAIN G /\ \A i \in DOMAIN G : i # d => H[i] = G[i]
  BY <1>3
<1>5. /\ DOMAIN V = DOMAIN W /\ \A j \in DOMAIN W : j # k => V[j] = W[j]
      /\ V[k] = [ranges |-> Advance(R, r), dest |-> d + 1]
  BY <1>1, <1>3
<1>6. V[k].dest = d + 1 /\ V[k].ranges = Advance(R, r)
  BY <1>5
<1>7. Advanced(loc, R, r, V[k].ranges)
  BY <1>1, <1>2, <1>6, AdvanceKeeps
<1>8. n \in Nat \ {0} /\ SumFunction(Sizes(V[k].ranges)) = n - 1
  BY <1>7 DEF Advanced
<1> HIDE DEF n
<1>9. Span(W[k]) = d .. d - 1 + n
  BY DEF Span, d, n, R
<1>10. Span(V[k]) = d + 1 .. d + 1 - 1 + (n - 1)
  <2>1. Span(V[k]) = V[k].dest .. V[k].dest - 1 + SumFunction(Sizes(V[k].ranges))
    BY DEF Span
  <2>2. QED
    BY ONLY <1>2, <1>6, <1>8, <2>1
<1>11. d \in Span(W[k]) /\ Span(V[k]) = Span(W[k]) \ {d}
  BY <1>2, <1>8, <1>9, <1>10
<1>12. H[d] = v
  <2>1. d \in DOMAIN G
    BY <1>1, <1>11 DEF Places
  <2>2. QED
    BY <1>3, <2>1
<1>13. \A y \in Left(loc, R) : y \in Tuples /\ Key[v] <= Key[y]
  BY <1>1, <1>2, FrontIsLeast DEF v
<1>14. v \in Tuples
  BY <1>7, <1>13 DEF Advanced, v
<1>15. QED
  BY <1>2, <1>4, <1>5, <1>6, <1>7, <1>11, <1>12, <1>13, <1>14 DEF PutsOne, R, d, v

(* The packages keep their shape. *)
LEMMA PackagesStep ==
  ASSUME NEW loc, NEW G, NEW W, NEW k, NEW r, NEW H, NEW V, Packages(loc, W), k \in DOMAIN W,
         PutsOne(loc, G, W, k, r, H, V)
  PROVE  Packages(loc, V)
<1>1. V[k].dest \in Nat \ {0} /\ GoodRanges(loc, V[k].ranges)
  BY DEF PutsOne, Advanced
<1>2. QED
  BY <1>1 DEF PutsOne, Packages

(* A step takes exactly the position it writes from the unwritten ones. *)
LEMMA PlacesStep ==
  ASSUME NEW loc, NEW G, NEW W, NEW k, NEW r, NEW H, NEW V, k \in DOMAIN W, DOMAIN W \subseteq Nat,
         DOMAIN G \subseteq Nat, Places(G, W), PutsOne(loc, G, W, k, r, H, V)
  PROVE  Places(H, V) /\ W[k].dest \in DOMAIN G /\ G[W[k].dest] = NULL
<1> DEFINE d == W[k].dest
<1>1. /\ DOMAIN H = DOMAIN G /\ DOMAIN V = DOMAIN W
      /\ \A j \in DOMAIN W : j # k => Span(V[j]) = Span(W[j])
      /\ d \in Span(W[k]) /\ Span(V[k]) = Span(W[k]) \ {d}
      /\ H[d] # NULL /\ \A i \in DOMAIN G : i # d => H[i] = G[i]
  BY SorterAssumption DEF PutsOne
<1>2. d \in DOMAIN G /\ G[d] = NULL
  BY <1>1 DEF Places
<1> HIDE DEF d
<1>3. \A j \in DOMAIN W : Span(V[j]) \subseteq Span(W[j]) /\ d \notin Span(V[j])
  <2> SUFFICES ASSUME NEW j \in DOMAIN W PROVE Span(V[j]) \subseteq Span(W[j]) /\ d \notin Span(V[j])
    OBVIOUS
  <2>1. CASE j = k
    BY <1>1, <2>1
  <2>2. CASE j # k
    <3>1. j < k \/ k < j
      BY <2>2
    <3>2. d \in Nat /\ Span(W[j]) \subseteq DOMAIN G
      BY <1>2 DEF Places
    <3>3. d \notin Span(W[j])
      <4> SUFFICES ASSUME d \in Span(W[j]) PROVE d < d
        BY <3>2
      <4>1. QED
        BY <1>1, <3>1 DEF Places
    <3>4. QED
      BY <1>1, <2>2, <3>3
  <2>3. QED
    BY <2>1, <2>2
<1>4. \A i \in DOMAIN H : H[i] = NULL <=> \E j \in DOMAIN V : i \in Span(V[j])
  <2> SUFFICES ASSUME NEW i \in DOMAIN G
               PROVE  H[i] = NULL <=> \E j \in DOMAIN W : i \in Span(V[j])
    BY <1>1
  <2>1. CASE i = d
    BY <1>1, <1>3, <2>1
  <2>2. CASE i # d
    <3>1. H[i] = NULL <=> \E j \in DOMAIN W : i \in Span(W[j])
      BY <1>1, <2>2 DEF Places
    <3>2. \A j \in DOMAIN W : i \in Span(W[j]) <=> i \in Span(V[j])
      BY <1>1, <2>2
    <3>3. QED
      BY <3>1, <3>2
  <2>3. QED
    BY <2>1, <2>2
<1>5. \A j \in DOMAIN V : Span(V[j]) \subseteq DOMAIN H
  BY <1>1, <1>3 DEF Places
<1>6. \A i, j \in DOMAIN V : i < j => \A x \in Span(V[i]), y \in Span(V[j]) : x < y
  BY <1>1, <1>3 DEF Places
<1>7. QED
  BY <1>2, <1>4, <1>5, <1>6 DEF Places, d

(* The row put out belongs where it is put. *)
LEMMA InPlaceStep ==
  ASSUME NEW loc, NEW G, NEW W, NEW k, NEW r, NEW H, NEW V, k \in DOMAIN W, DOMAIN W \subseteq Nat,
         DOMAIN G \subseteq Nat, Packages(loc, W), Places(G, W), InPlace(loc, G, W),
         \A j \in DOMAIN W : Left(loc, W[j].ranges) # {} => W[j].dest \in Span(W[j]),
         PutsOne(loc, G, W, k, r, H, V)
  PROVE  InPlace(loc, H, V)
<1> DEFINE d == W[k].dest
           v == loc[r.s][r.first]
           L(j) == Left(loc, W[j].ranges)
           M(j) == Left(loc, V[j].ranges)
<1>1. /\ DOMAIN H = DOMAIN G /\ DOMAIN V = DOMAIN W /\ V[k].dest = d + 1 /\ d \in Nat
      /\ \A j \in DOMAIN W : j # k => V[j] = W[j]
      /\ H[d] = v /\ v \in Tuples /\ \A i \in DOMAIN G : i # d => H[i] = G[i]
      /\ \A y \in L(k) : Key[v] <= Key[y]
      /\ v \in L(k) /\ d \in Span(W[k])
  BY DEF PutsOne, Advanced
<1>2. d \in DOMAIN G /\ G[d] = NULL /\ v # NULL
  <2>1. d \in DOMAIN G /\ G[d] = NULL
    BY <1>1 DEF Places
  <2>2. QED
    BY <1>1, <2>1, SorterAssumption
<1>3. \A j \in DOMAIN W : M(j) \subseteq L(j)
  <2> SUFFICES ASSUME NEW j \in DOMAIN W PROVE M(j) \subseteq L(j)
    OBVIOUS
  <2>1. CASE j = k
    BY <2>1 DEF PutsOne, Advanced
  <2>2. CASE j # k
    BY <1>1, <2>2
  <2>3. QED
    BY <2>1, <2>2
<1>4. Done(H) = Done(G) \cup {d} /\ d \notin Done(G) /\ \A i \in Done(G) : H[i] = G[i] /\ i \in Nat
  BY <1>1, <1>2 DEF Done
<1>5. \A i \in Done(G) : (i < d => Key[G[i]] <= Key[v]) /\ (i > d => Key[v] <= Key[G[i]])
  BY <1>1 DEF InPlace
<1>6. \A i, j \in Done(H) : i < j => Key[H[i]] <= Key[H[j]]
  <2> SUFFICES ASSUME NEW i \in Done(H), NEW j \in Done(H), i < j PROVE Key[H[i]] <= Key[H[j]]
    OBVIOUS
  <2>1. CASE i \in Done(G) /\ j \in Done(G)
    BY <1>4, <2>1 DEF InPlace
  <2>2. CASE i = d /\ j \in Done(G)
    <3>1. j > d
      BY <1>1, <1>4, <2>2
    <3>2. QED
      BY <1>1, <1>4, <1>5, <2>2, <3>1
  <2>3. CASE j = d /\ i \in Done(G)
    BY <1>1, <1>4, <1>5, <2>3
  <2>4. i # d \/ j # d
    BY <1>1
  <2>5. QED
    BY <1>4, <2>1, <2>2, <2>3, <2>4
<1>7. ASSUME NEW j \in DOMAIN W, NEW y \in M(j), NEW i \in Done(H)
      PROVE  (i < V[j].dest => Key[H[i]] <= Key[y]) /\ (i > V[j].dest => Key[y] <= Key[H[i]])
  <2>1. y \in L(j)
    BY <1>3
  <2>2. CASE j = k
    <3>1. CASE i = d
      <4>1. ~(i > V[j].dest)
        BY <1>1, <2>2, <3>1
      <4>2. QED
        BY <1>1, <2>1, <2>2, <3>1, <4>1
    <3>2. CASE i # d
      <4>1. i \in Done(G) /\ H[i] = G[i] /\ i \in Nat
        BY <1>4, <3>2
      <4>2. (i < d => Key[G[i]] <= Key[y]) /\ (i > d => Key[y] <= Key[G[i]])
        BY <2>1, <2>2, <4>1 DEF InPlace
      <4>3. (i < V[j].dest => i < d) /\ (i > V[j].dest => i > d)
        BY <1>1, <2>2, <3>2, <4>1
      <4>4. QED
        BY <4>1, <4>2, <4>3
    <3>3. QED
      BY <3>1, <3>2
  <2>3. CASE j # k
    <3>1. V[j].dest = W[j].dest /\ W[j].dest \in Nat
      BY <1>1, <2>3 DEF Packages
    <3>2. CASE i = d
      <4>1. W[j].dest \in Span(W[j])
        BY <2>1
      <4>2. CASE j < k
        <5>1. W[j].dest < d
          BY <1>1, <4>1, <4>2 DEF Places
        <5>2. Key[y] <= Key[v]
          BY <1>1, <2>1, <4>2 DEF InPlace
        <5>3. ~(i < V[j].dest)
          BY <1>1, <3>1, <3>2, <5>1
        <5>4. QED
          BY <1>1, <3>2, <5>2, <5>3
      <4>3. CASE k < j
        <5>1. d < W[j].dest
          BY <1>1, <4>1, <4>3 DEF Places
        <5>2. Key[v] <= Key[y]
          BY <1>1, <2>1, <4>3 DEF InPlace
        <5>3. ~(i > V[j].dest)
          BY <1>1, <3>1, <3>2, <5>1
        <5>4. QED
          BY <1>1, <3>2, <5>2, <5>3
      <4>4. j < k \/ k < j
        BY <2>3
      <4>5. QED
        BY <4>2, <4>3, <4>4
    <3>3. CASE i # d
      <4>1. i \in Done(G) /\ H[i] = G[i]
        BY <1>4, <3>3
      <4>2. QED
        BY <2>1, <3>1, <4>1 DEF InPlace
    <3>4. QED
      BY <3>2, <3>3
  <2>4. QED
    BY <2>2, <2>3
<1>8. ASSUME NEW i \in DOMAIN W, NEW j \in DOMAIN W, i < j, NEW x \in M(i), NEW y \in M(j)
      PROVE  Key[x] <= Key[y]
  <2>1. x \in L(i) /\ y \in L(j)
    BY <1>3
  <2>2. QED
    BY <1>8, <2>1 DEF InPlace
<1>9. QED
  BY <1>1, <1>6, <1>7, <1>8 DEF InPlace

(* No row is lost in a step. *)
LEMMA CoversStep ==
  ASSUME NEW loc, NEW R, NEW G, NEW W, NEW k, NEW r, NEW H, NEW V, k \in DOMAIN W, Places(G, W),
         Covers(R, loc, G, W), loc[r.s][r.first] \in R, PutsOne(loc, G, W, k, r, H, V)
  PROVE  Covers(R, loc, H, V)
<1> DEFINE d == W[k].dest
           v == loc[r.s][r.first]
<1>1. /\ DOMAIN H = DOMAIN G /\ DOMAIN V = DOMAIN W
      /\ \A j \in DOMAIN W : j # k => V[j] = W[j]
      /\ H[d] = v /\ v \in Tuples /\ \A i \in DOMAIN G : i # d => H[i] = G[i]
      /\ d \in Span(W[k]) /\ v \in R
      /\ \A x \in Left(loc, W[k].ranges) : x = v \/ x \in Left(loc, V[k].ranges)
  BY DEF PutsOne, Advanced
<1>2. d \in DOMAIN G /\ G[d] = NULL /\ v # NULL
  <2>1. d \in DOMAIN G /\ G[d] = NULL
    BY <1>1 DEF Places
  <2>2. QED
    BY <1>1, <2>1, SorterAssumption
<1> HIDE DEF d, v
<1>3. Done(H) = Done(G) \cup {d} /\ \A i \in Done(G) : H[i] = G[i]
  BY <1>1, <1>2 DEF Done
<1>4. \A i \in Done(H) : H[i] \in R
  BY <1>1, <1>3 DEF Covers
<1>5. ASSUME NEW x \in R
      PROVE  \/ \E i \in Done(H) : x = H[i]
             \/ \E j \in DOMAIN V : x \in Left(loc, V[j].ranges)
  <2>1. CASE \E i \in Done(G) : x = G[i]
    BY <1>3, <2>1
  <2>2. CASE \E j \in DOMAIN W : x \in Left(loc, W[j].ranges)
    <3>1. PICK j \in DOMAIN W : x \in Left(loc, W[j].ranges)
      BY <2>2
    <3>2. CASE x = v
      BY <1>1, <1>3, <3>2
    <3>3. CASE x # v
      <4>1. x \in Left(loc, V[j].ranges)
        BY <1>1, <3>1, <3>3
      <4>2. QED
        BY <1>1, <4>1
    <3>4. QED
      BY <3>2, <3>3
  <2>3. QED
    BY <2>1, <2>2 DEF Covers
<1>6. QED
  BY <1>4, <1>5 DEF Covers

(* The rows between two cuts. *)
Between(lo, tl, from, to, x) == \E w \in tl : \E p \in from[w] + 1 .. to[w] : x = lo[w][p]

(* A row is left in a new package when it is between the two cuts. *)
LEMMA LeftAtFirst ==
  ASSUME NEW lo, NEW tl, NEW from \in [tl -> Nat], NEW to \in [tl -> Nat], NEW x
  PROVE  x \in Left(lo, InputRanges(from, to)) <=> Between(lo, tl, from, to, x)
<1>1. \A r : r \in InputRanges(from, to) <=> \E w \in tl : from[w] < to[w] /\ r = RangeOf(w, from, to)
  BY DEF InputRanges, RangeOf
<1>2. \A w \in tl : /\ RangeOf(w, from, to).s = w /\ RangeOf(w, from, to).first = from[w] + 1
                    /\ RangeOf(w, from, to).last = to[w]
  BY DEF RangeOf
<1>3. ASSUME x \in Left(lo, InputRanges(from, to))
      PROVE  Between(lo, tl, from, to, x)
  <2>1. PICK r \in InputRanges(from, to) : x \in Cell(lo, r)
    BY <1>3 DEF Left
  <2>2. PICK w \in tl : r = RangeOf(w, from, to)
    BY <1>1, <2>1
  <2>3. PICK p \in r.first .. r.last : x = lo[r.s][p]
    BY <2>1 DEF Cell
  <2>4. QED
    BY <1>2, <2>2, <2>3 DEF Between
<1>4. ASSUME NEW w \in tl, NEW p \in from[w] + 1 .. to[w], x = lo[w][p]
      PROVE  x \in Left(lo, InputRanges(from, to))
  <2>1. from[w] < to[w]
    OBVIOUS
  <2> DEFINE r == RangeOf(w, from, to)
  <2>2. r \in InputRanges(from, to)
    BY <1>1, <2>1
  <2>3. r.s = w /\ r.first = from[w] + 1 /\ r.last = to[w]
    BY <1>2
  <2> HIDE DEF r
  <2>4. x \in Cell(lo, r)
    BY <1>4, <2>3 DEF Cell
  <2>5. QED
    BY <2>2, <2>4 DEF Left
<1>5. QED
  BY <1>3, <1>4 DEF Between

(* The ranges of a new package are of different sorters and not empty. *)
LEMMA GoodAtFirst ==
  ASSUME NEW lo, NEW tl \in SUBSET Workers, IsFiniteSet(tl),
         NEW from \in [tl -> Nat], NEW to \in [tl -> Nat],
         \A w \in tl : from[w] <= to[w] /\ to[w] <= Len(lo[w])
  PROVE  GoodRanges(lo, InputRanges(from, to))
<1>1. IsFiniteSet(InputRanges(from, to))
  BY PackageSize
<1>2. \A r \in InputRanges(from, to) : \E w \in tl : from[w] < to[w] /\ r = RangeOf(w, from, to)
  BY DEF InputRanges, RangeOf
<1>3. ASSUME NEW r \in InputRanges(from, to)
      PROVE  /\ r \in [s : Workers, first : Nat \ {0}, last : Nat]
             /\ r.first <= r.last /\ r.last <= Len(lo[r.s]) /\ r = RangeOf(r.s, from, to)
  <2>1. PICK w \in tl : from[w] < to[w] /\ r = RangeOf(w, from, to)
    BY <1>2
  <2>2. from[w] \in Nat /\ to[w] \in Nat /\ w \in Workers /\ to[w] <= Len(lo[w])
    OBVIOUS
  <2>3. QED
    BY <2>1, <2>2 DEF RangeOf
<1>4. QED
  BY <1>1, <1>3 DEF GoodRanges

(* The state the merge tasks start from. *)
LEMMA MergeStarts ==
  ASSUME NEW tl \in SUBSET Workers, NEW loc, Locals(loc, tl), NEW lo \in [Workers -> Seq(Tuples)],
         \A w \in Workers : lo[w] = IF w \in tl THEN loc[w] ELSE <<>>,
         NEW m, m = Cardinality(tl) - 1, NEW cuts, cuts = Cuts(loc, tl),
         NEW W, W = WorkPackages(loc, tl),
         NEW N, N = SumFunction(cuts[m]), NEW G, G = [i \in 1 .. N |-> NULL]
  PROVE  /\ DOMAIN W = 1 .. m /\ Packages(lo, W) /\ Places(G, W) /\ InPlace(lo, G, W)
         /\ Covers(UNION {Range(lo[w]) : w \in Workers}, lo, G, W)
<1> DEFINE L(k) == Left(lo, W[k].ranges)
<1>1. IsFiniteSet(tl) /\ m \in Nat \ {0} /\ loc \in [tl -> Seq(Tuples)]
  BY DEF Locals
<1>2. AreCuts(cuts, loc, tl, m)
  BY CutsAre
<1>3. /\ Partition(W, N, m) /\ DOMAIN W = 1 .. m
      /\ \A k \in 1 .. m : W[k].dest \in Nat \ {0} /\ W[k].ranges = InputRanges(cuts[k - 1], cuts[k])
  BY PackagesPartition
<1>4. ASSUME NEW k \in 1 .. m
      PROVE  /\ k - 1 \in 0 .. m /\ k \in 0 .. m /\ cuts[k - 1] \in [tl -> Nat] /\ cuts[k] \in [tl -> Nat]
             /\ \A w \in tl : cuts[k - 1][w] <= cuts[k][w] /\ cuts[k][w] <= Len(loc[w])
             /\ Separates(cuts[k], loc, tl)
  <2>1. k - 1 \in 0 .. m /\ k \in 0 .. m
    BY <1>1
  <2>2. QED
    BY <1>2, <2>1 DEF AreCuts, Separates
<1>5. Packages(lo, W)
  <2>1. ASSUME NEW k \in 1 .. m PROVE GoodRanges(lo, W[k].ranges)
    <3> DEFINE from == cuts[k - 1]
               to == cuts[k]
    <3>1. from \in [tl -> Nat] /\ to \in [tl -> Nat] /\ \A w \in tl : from[w] <= to[w] /\ to[w] <= Len(lo[w])
      BY <1>4
    <3> HIDE DEF from, to
    <3>2. GoodRanges(lo, InputRanges(from, to))
      BY <1>1, <3>1, GoodAtFirst
    <3>3. QED
      BY <1>3, <3>2 DEF from, to
  <2>2. QED
    BY <1>1, <1>3, <2>1 DEF Packages
<1>6. DOMAIN G = 1 .. N /\ \A i \in DOMAIN G : G[i] = NULL
  OBVIOUS
<1>7. Done(G) = {}
  BY <1>6 DEF Done
<1>8. Places(G, W)
  BY <1>3, <1>6 DEF Places, Partition
<1>9. ASSUME NEW k \in 1 .. m, NEW x
      PROVE  x \in L(k) <=> Between(loc, tl, cuts[k - 1], cuts[k], x)
  <2> DEFINE from == cuts[k - 1]
             to == cuts[k]
  <2>1. from \in [tl -> Nat] /\ to \in [tl -> Nat]
    BY <1>4
  <2>2. L(k) = Left(lo, InputRanges(from, to))
    BY <1>3
  <2> HIDE DEF from, to, L
  <2>3. x \in Left(lo, InputRanges(from, to)) <=> Between(lo, tl, from, to, x)
    BY <2>1, LeftAtFirst
  <2>4. \A w \in tl : lo[w] = loc[w]
    OBVIOUS
  <2>5. Between(lo, tl, from, to, x) <=> Between(loc, tl, from, to, x)
    BY ONLY <2>4 DEF Between
  <2>6. QED
    BY <2>2, <2>3, <2>5 DEF from, to
<1>10. ASSUME NEW j \in 1 .. m, NEW k \in 1 .. m, j < k, NEW x \in L(j), NEW y \in L(k)
       PROVE  Key[x] <= Key[y]
  <2> HIDE DEF L
  <2>0. Between(loc, tl, cuts[j - 1], cuts[j], x) /\ Between(loc, tl, cuts[k - 1], cuts[k], y)
    BY <1>9
  <2>1. PICK w \in tl : \E p \in cuts[j - 1][w] + 1 .. cuts[j][w] : x = loc[w][p]
    BY <2>0 DEF Between
  <2>2. PICK p \in cuts[j - 1][w] + 1 .. cuts[j][w] : x = loc[w][p]
    BY <2>1
  <2>3. PICK v \in tl : \E r \in cuts[k - 1][v] + 1 .. cuts[k][v] : y = loc[v][r]
    BY <2>0 DEF Between
  <2>4. PICK r \in cuts[k - 1][v] + 1 .. cuts[k][v] : y = loc[v][r]
    BY <2>3
  <2> DEFINE B == [i \in 0 .. m |-> cuts[i][v]]
             i == k - 1
  <2>5. Rising(B, m)
    <3>1. \A h \in 0 .. m : cuts[h] \in [tl -> Nat]
      BY <1>2 DEF AreCuts
    <3>2. B \in [0 .. m -> Nat]
      BY <3>1
    <3>3. \A h \in 1 .. m : B[h - 1] <= B[h]
      BY <1>4
    <3>4. QED
      BY <3>2, <3>3 DEF Rising
  <2>6. j \in 0 .. m /\ i \in 0 .. m /\ j <= i
    BY <1>1, <1>10
  <2>7. B[j] = cuts[j][v] /\ B[i] = cuts[i][v]
    BY <2>6
  <2> HIDE DEF B, i
  <2>8. B[j] <= B[i]
    BY <1>1, <2>5, <2>6, RisingAll
  <2>9. cuts[j][v] \in Nat /\ cuts[i][v] \in Nat /\ cuts[j][v] <= cuts[i][v] /\ cuts[k][v] \in Nat
    BY <1>4, <2>5, <2>6, <2>7, <2>8 DEF Rising, i
  <2>10. /\ cuts[j - 1][w] \in Nat /\ cuts[j][w] \in Nat /\ cuts[k][v] <= Len(loc[v])
         /\ Len(loc[v]) \in Nat
    <3>1. loc[v] \in Seq(Tuples)
      BY <1>1
    <3>2. Len(loc[v]) \in Nat
      BY <3>1
    <3>3. cuts[j - 1] \in [tl -> Nat] /\ cuts[j] \in [tl -> Nat]
      BY <1>4
    <3>4. cuts[k][v] <= Len(loc[v])
      BY <1>4
    <3>5. QED
      BY <3>2, <3>3, <3>4
  <2>11. p \in 1 .. cuts[j][w] /\ r \in cuts[j][v] + 1 .. Len(loc[v])
    <3> DEFINE a == cuts[j - 1][w]
               b == cuts[j][w]
               c == cuts[j][v]
               e == cuts[i][v]
               f == cuts[k][v]
               l == Len(loc[v])
    <3>1. /\ a \in Nat /\ b \in Nat /\ c \in Nat /\ e \in Nat /\ f \in Nat /\ l \in Nat
          /\ p \in a + 1 .. b /\ r \in e + 1 .. f /\ c <= e /\ f <= l
      BY <2>9, <2>10 DEF i
    <3> HIDE DEF a, b, c, e, f, l
    <3>2. p \in 1 .. b /\ r \in c + 1 .. l
      BY ONLY <3>1
    <3>3. QED
      BY <3>2 DEF b, c, l
  <2>12. Separates(cuts[j], loc, tl)
    BY <1>4
  <2>13. Key[loc[w][p]] <= Key[loc[v][r]]
    BY <2>11, <2>12 DEF Separates
  <2>14. QED
    BY <2>2, <2>4, <2>13
<1>11. InPlace(lo, G, W)
  BY <1>3, <1>7, <1>10 DEF InPlace
<1>12. ASSUME NEW x, NEW w \in Workers, x \in Range(lo[w])
       PROVE  \E k \in 1 .. m : x \in L(k)
  <2>1. PICK p \in 1 .. Len(lo[w]) : x = lo[w][p]
    <3>1. lo[w] \in Seq(Tuples)
      OBVIOUS
    <3>2. QED
      BY <1>12, <3>1, InRange
  <2>2. w \in tl /\ lo[w] = loc[w]
    <3>1. lo[w] # <<>>
      BY <2>1
    <3>2. QED
      BY <3>1
  <2> DEFINE B == [i \in 0 .. m |-> cuts[i][w]]
  <2>3. Rising(B, m)
    <3>1. \A h \in 0 .. m : cuts[h] \in [tl -> Nat]
      BY <1>2 DEF AreCuts
    <3>2. B \in [0 .. m -> Nat]
      BY <2>2, <3>1
    <3>3. \A h \in 1 .. m : B[h - 1] <= B[h]
      BY <1>4, <2>2
    <3>4. QED
      BY <3>2, <3>3 DEF Rising
  <2>4. B[0] = 0 /\ B[m] = Len(loc[w])
    <3>1. cuts[0][w] = 0 /\ cuts[m][w] = Len(loc[w])
      BY <1>2, <2>2 DEF AreCuts
    <3>2. 0 \in 0 .. m /\ m \in 0 .. m
      BY <1>1
    <3>3. QED
      BY <3>1, <3>2
  <2>5. p \in Nat /\ B[0] < p /\ p <= B[m]
    <3>1. Len(loc[w]) \in Nat
      BY <1>1, <2>2
    <3>2. QED
      BY <2>1, <2>2, <2>4, <3>1
  <2>6. \A h \in 0 .. m : B[h] = cuts[h][w] /\ B[h] \in Nat
    BY <2>3 DEF Rising
  <2> HIDE DEF B
  <2>7. PICK k \in 1 .. m : B[k - 1] < p /\ p <= B[k]
    BY <1>1, <2>3, <2>5, RisingFind
  <2>8. B[k - 1] = cuts[k - 1][w] /\ B[k] = cuts[k][w] /\ B[k - 1] \in Nat /\ B[k] \in Nat
    BY <1>4, <2>6
  <2>9. p \in cuts[k - 1][w] + 1 .. cuts[k][w]
    BY <2>5, <2>7, <2>8
  <2> HIDE DEF L
  <2>10. x \in L(k)
    <3>1. Between(loc, tl, cuts[k - 1], cuts[k], x)
      BY <2>1, <2>2, <2>9 DEF Between
    <3>2. QED
      BY <1>9, <3>1
  <2>11. QED
    BY <2>10
<1>13. Covers(UNION {Range(lo[w]) : w \in Workers}, lo, G, W)
  BY <1>3, <1>7, <1>12 DEF Covers
<1>14. QED
  BY <1>3, <1>5, <1>8, <1>11, <1>13

----------------------------------------------------------------------------
(* The inductive invariant *)

STypeOK ==
  /\ parallel \in BOOLEAN /\ plan \in Plans /\ input \in Inputs
  /\ phase \in {"fill", "merge", "built", "ready", "done"}
  /\ pending \subseteq input
  /\ tuples \in [Sorters -> Seq(Tuples \cup {NULL})]
  /\ \A s \in Sorters : s # Global \/ phase # "merge" => tuples[s] \in Seq(Tuples)
  /\ storage \in [Sorters -> SUBSET input] /\ owned \subseteq input /\ freed = {}

(* Until the sorters are merged, every row consumed is in the storage of    *)
(* one sorter that rows are put into.                                       *)
StorageInv ==
  phase \in {"fill", "merge"} =>
    /\ \A r \in input : r \in pending \/ \E s \in Sorters : r \in storage[s]
    /\ \A s \in Sorters : storage[s] \cap pending = {}
    /\ \A s, t \in Sorters : s # t => storage[s] \cap storage[t] = {}
    /\ \A s \in Sorters : s \in (IF parallel THEN Workers ELSE {Global}) \/ storage[s] = {}

(* A sorter holds the best of its rows, and a full one is a heap. *)
KeptInv ==
  /\ \A s \in Sorters :
       phase = "fill" \/ (phase = "merge" /\ s # Global) => Best(tuples[s], storage[s], plan)
  /\ phase = "fill" /\ plan.limited =>
       \A s \in Sorters : Len(tuples[s]) = top_k => IsHeap(tuples[s])

(* The sorted vectors the tasks merge, and the rows in them. *)
Local == [w \in Workers |-> tuples[w]]
Rows == UNION {Range(Local[w]) : w \in Workers}

MergeInv ==
  phase = "merge" =>
    /\ parallel /\ pending = {}
    /\ \A w \in Workers : InOrder(Local[w])
    /\ Len(tuples[Global]) = Cardinality(Rows)
    /\ Packages(Local, work) /\ Places(tuples[Global], work)
    /\ InPlace(Local, tuples[Global], work) /\ Covers(Rows, Local, tuples[Global], work)

(* Once sorted, the global sorter holds the best rows of the input, in      *)
(* order, in memory it owns.                                                *)
BuiltInv ==
  phase \in {"built", "ready", "done"} =>
    /\ Best(tuples[Global], input, plan) /\ InOrder(tuples[Global])
    /\ Range(tuples[Global]) \subseteq storage[Global] \cup owned
    /\ \A w \in Workers : storage[w] = {}
    /\ phase = "done" => out = SubSeq(tuples[Global], plan.offset + 1, Len(tuples[Global]))

SInv == STypeOK /\ StorageInv /\ KeptInv /\ MergeInv /\ BuiltInv

(* The rows of a query are rows, and finitely many. *)
LEMMA InputRows ==
  ASSUME STypeOK
  PROVE  /\ input \subseteq Tuples /\ IsFiniteSet(input) /\ Global \in Sorters /\ Workers \subseteq Sorters
         /\ \A s \in Sorters : storage[s] \subseteq Tuples /\ storage[s] \subseteq input /\ IsFiniteSet(storage[s])
<1>1. input \subseteq Tuples /\ IsFiniteSet(input)
  BY SorterAssumption DEF STypeOK
<1>2. Global \in Sorters /\ Workers \subseteq Sorters
  BY DEF Sorters
<1>3. \A s \in Sorters : storage[s] \subseteq input
  BY DEF STypeOK
<1>4. \A s \in Sorters : IsFiniteSet(storage[s])
  BY <1>1, <1>3, FS_Subset
<1>5. QED
  BY <1>1, <1>2, <1>3, <1>4

(* An empty sorter holds the best of no rows. *)
LEMMA EmptyBest ==
  ASSUME NEW p \in Plans
  PROVE  /\ <<>> \in Seq(Tuples) /\ Best(<<>>, {}, p)
         /\ p.limited => Len(<<>>) # p.offset + p.limit
<1>1. IsInjective(<<>>) /\ Range(<<>>) = {} /\ Len(<<>>) = 0
  BY DEF IsInjective, Range
<1>2. Wanted({}, p) = 0
  BY WantedIs, FS_EmptySet
<1>3. QED
  BY <1>1, <1>2, PlanType DEF Best

(* All sorters are empty at first. *)
LEMMA SInitHolds == Init => SInv
<1> SUFFICES ASSUME Init PROVE SInv
  OBVIOUS
<1>1. \A s \in Sorters : tuples[s] = <<>> /\ storage[s] = {}
  BY DEF Init
<1>2. STypeOK
  BY <1>1 DEF Init, STypeOK
<1>3. StorageInv
  BY <1>1 DEF Init, StorageInv
<1>4. KeptInv
  <2>1. plan \in Plans /\ phase = "fill"
    BY DEF Init
  <2>2. Best(<<>>, {}, plan) /\ (plan.limited => Len(<<>>) # top_k)
    BY <2>1, EmptyBest DEF top_k
  <2>3. QED
    BY <1>1, <2>1, <2>2 DEF KeptInv
<1>5. MergeInv /\ BuiltInv
  BY DEF Init, MergeInv, BuiltInv
<1>6. QED
  BY <1>2, <1>3, <1>4, <1>5 DEF SInv

(* What an insertion makes of a sorter. *)
Inserted(q, p, S, r) ==
  p \in Seq(Tuples) /\ Best(p, S \cup {r}, plan) /\ (plan.limited /\ Len(p) = top_k => IsHeap(p))

(* AllocInputTuple, with the top-k step if the plan has a limit, keeps the best rows. *)
LEMMA InsertKeeps ==
  ASSUME plan \in Plans, NEW S \in SUBSET Tuples, IsFiniteSet(S), NEW q \in Seq(Tuples),
         NEW r \in Tuples \ S, Best(q, S, plan), plan.limited /\ Len(q) = top_k => IsHeap(q),
         NEW p \in IF plan.limited THEN TopKFinish(Append(q, r)) ELSE {Append(q, r)}
  PROVE  Inserted(q, p, S, r)
<1>1. CASE plan.limited
  <2>1. p \in TopKFinish(Append(q, r)) /\ (Len(q) = top_k => IsHeap(q))
    BY <1>1
  <2>2. p \in Seq(Tuples) /\ Best(p, S \cup {r}, plan) /\ (Len(p) = top_k => IsHeap(p))
    BY <1>1, <2>1, TopKFinishKeeps
  <2>3. QED
    BY <2>2 DEF Inserted
<1>2. CASE ~plan.limited
  <2>1. p = Append(q, r)
    BY <1>2
  <2>2. IsInjective(q) /\ Range(q) \subseteq S /\ Len(q) = Cardinality(S) /\ Cardinality(S) \in Nat
    BY <1>2, WantedIs DEF Best
  <2>3. Range(q) = S
    BY <2>2, HoldsAll
  <2>4. p \in Seq(Tuples) /\ Len(p) = Len(q) + 1 /\ Range(p) = S \cup {r} /\ IsInjective(p)
    BY <2>1, <2>2, <2>3, AppendRow
  <2>5. IsFiniteSet(S \cup {r}) /\ Cardinality(S \cup {r}) = Cardinality(S) + 1
    BY FS_AddElement
  <2>6. Wanted(S \cup {r}, plan) = Cardinality(S \cup {r})
    BY <1>2, <2>5, WantedIs
  <2>7. QED
    BY <1>2, <2>2, <2>4, <2>5, <2>6 DEF Inserted, Best
<1>3. QED
  BY <1>1, <1>2, PlanType

(* Inserting a row keeps the invariant. *)
LEMMA InsertStep ==
  ASSUME SInv, NEW s \in Sorters, NEW r \in Tuples, InsertIntoSorter(s, r)
  PROVE  SInv'
<1> DEFINE q == tuples[s]
           S == storage[s]
<1>1. /\ phase = "fill" /\ r \in pending /\ s \in (IF parallel THEN Workers ELSE {Global})
      /\ pending' = pending \ {r} /\ storage' = [storage EXCEPT ![s] = S \cup {r}]
      /\ UNCHANGED <<parallel, plan, input, phase, owned, freed, sorted, work, out>>
  BY DEF InsertIntoSorter, query
<1>2. PICK p \in IF plan.limited THEN TopKFinish(Append(q, r)) ELSE {Append(q, r)} :
        tuples' = [tuples EXCEPT ![s] = p]
  BY DEF InsertIntoSorter
<1>3. /\ STypeOK /\ StorageInv /\ KeptInv
      /\ tuples \in [Sorters -> Seq(Tuples \cup {NULL})] /\ storage \in [Sorters -> SUBSET input]
      /\ plan \in Plans /\ pending \subseteq input
  BY DEF SInv, STypeOK
<1>4. S \in SUBSET Tuples /\ IsFiniteSet(S) /\ q \in Seq(Tuples) /\ r \in Tuples \ S /\ r \in input
  <2>1. S \subseteq Tuples /\ IsFiniteSet(S)
    BY <1>3, InputRows
  <2>2. q \in Seq(Tuples)
    BY <1>1, <1>3 DEF STypeOK
  <2>3. r \notin S
    BY <1>1, <1>3 DEF StorageInv
  <2>4. QED
    BY <1>1, <1>3, <2>1, <2>2, <2>3
<1>5. Best(q, S, plan) /\ (plan.limited /\ Len(q) = top_k => IsHeap(q))
  BY <1>1, <1>3 DEF KeptInv
<1> HIDE DEF q, S
<1>6. Inserted(q, p, S, r)
  BY <1>3, <1>4, <1>5, InsertKeeps
<1>7. p \in Seq(Tuples) /\ Best(p, S \cup {r}, plan) /\ (plan.limited /\ Len(p) = top_k => IsHeap(p))
  BY <1>6 DEF Inserted
<1>8. /\ \A t \in Sorters : t # s => tuples'[t] = tuples[t] /\ storage'[t] = storage[t]
      /\ tuples'[s] = p /\ storage'[s] = S \cup {r}
      /\ tuples' \in [Sorters -> Seq(Tuples \cup {NULL})] /\ storage' \in [Sorters -> SUBSET input]
  <2>1. p \in Seq(Tuples \cup {NULL})
    BY <1>7
  <2>2. S \cup {r} \in SUBSET input
    BY <1>3, <1>4 DEF S
  <2>3. QED
    BY <1>1, <1>2, <1>3, <2>1, <2>2
<1>9. STypeOK'
  <2>1. \A t \in Sorters : tuples'[t] \in Seq(Tuples)
    BY <1>1, <1>3, <1>7, <1>8 DEF STypeOK
  <2>2. QED
    BY <1>1, <1>3, <1>8, <2>1 DEF STypeOK
<1>10. StorageInv'
  <2>1. \A x \in input : x \in pending' \/ \E t \in Sorters : x \in storage'[t]
    <3> SUFFICES ASSUME NEW x \in input, x \notin pending' PROVE \E t \in Sorters : x \in storage'[t]
      OBVIOUS
    <3>1. CASE x = r
      BY <1>8, <3>1
    <3>2. CASE x # r
      <4>1. PICK t \in Sorters : x \in storage[t]
        BY <1>1, <1>3, <3>2 DEF StorageInv
      <4>2. x \in storage'[t]
        BY <1>8, <4>1 DEF S
      <4>3. QED
        BY <4>2
    <3>3. QED
      BY <3>1, <3>2
  <2>2. \A t \in Sorters : storage[t] \cap pending = {}
    BY <1>1, <1>3 DEF StorageInv
  <2>3. \A t \in Sorters : storage'[t] \cap pending' = {}
    BY <1>1, <1>8, <2>2 DEF S
  <2>4. \A t, u \in Sorters : t # u => storage[t] \cap storage[u] = {}
    BY <1>1, <1>3 DEF StorageInv
  <2>5. \A t, u \in Sorters : t # u => storage'[t] \cap storage'[u] = {}
    BY <1>1, <1>8, <2>2, <2>4 DEF S
  <2>6. \A t \in Sorters : t \in (IF parallel THEN Workers ELSE {Global}) \/ storage'[t] = {}
    BY <1>1, <1>3, <1>8 DEF StorageInv
  <2>7. QED
    BY <1>1, <2>1, <2>3, <2>5, <2>6 DEF StorageInv
<1>11. KeptInv'
  <2>1. \A t \in Sorters : Best(tuples'[t], storage'[t], plan)
    BY <1>1, <1>3, <1>7, <1>8 DEF KeptInv
  <2>2. plan.limited => \A t \in Sorters : Len(tuples'[t]) = top_k => IsHeap(tuples'[t])
    BY <1>1, <1>3, <1>7, <1>8 DEF KeptInv
  <2>3. top_k' = top_k
    BY <1>1 DEF top_k
  <2>4. QED
    BY <1>1, <2>1, <2>2, <2>3 DEF KeptInv
<1>12. (MergeInv /\ BuiltInv)'
  BY <1>1 DEF MergeInv, BuiltInv
<1>13. QED
  BY <1>9, <1>10, <1>11, <1>12 DEF SInv

(* Sorting a vector keeps its rows and so what is best about it. *)
LEMMA SortingKeepsBest ==
  ASSUME NEW S \in SUBSET Tuples, IsFiniteSet(S), NEW t \in Seq(Tuples), NEW p, Best(t, S, p),
         NEW q \in Sortings(t)
  PROVE  q \in Seq(Tuples) /\ Best(q, S, p) /\ InOrder(q) /\ Range(q) = Range(t) /\ Len(q) = Len(t)
<1>1. IsInjective(t) /\ Range(t) \subseteq S
  BY DEF Best
<1>2. IsFiniteSet(Range(t)) /\ Cardinality(Range(t)) = Len(t) /\ Range(t) \in SUBSET Tuples
  BY <1>1, InjectiveLength
<1>3. q \in SetSortings(Range(t))
  BY DEF Sortings
<1>4. /\ q \in Seq(Tuples) /\ Len(q) = Cardinality(Range(t))
      /\ IsInjective(q) /\ Range(q) = Range(t) /\ InOrder(q)
  BY <1>2, <1>3, SortingsAre
<1>5. QED
  BY <1>2, <1>4 DEF Best

(* The serial sort arranges the best rows of the input. *)
LEMMA SortStep ==
  ASSUME SInv, Sort
  PROVE  SInv'
<1> DEFINE S == storage[Global]
           t == tuples[Global]
<1>1. /\ phase = "fill" /\ pending = {} /\ ~parallel /\ phase' = "built"
      /\ UNCHANGED <<parallel, plan, input, pending, storage, owned, freed, work, out>>
  BY DEF Sort, query
<1>2. PICK q \in Sortings(t) : tuples' = [tuples EXCEPT ![Global] = q]
  BY DEF Sort
<1>3. /\ STypeOK /\ StorageInv /\ KeptInv
      /\ tuples \in [Sorters -> Seq(Tuples \cup {NULL})]
  BY DEF SInv, STypeOK
<1>4. Global \in Sorters /\ Workers \subseteq Sorters /\ S \subseteq Tuples /\ IsFiniteSet(S) /\ S \subseteq input
  BY <1>3, InputRows
<1>5. t \in Seq(Tuples) /\ Best(t, S, plan)
  BY <1>1, <1>3, <1>4 DEF STypeOK, KeptInv
<1>6. \A w \in Workers : storage[w] = {}
  BY <1>1, <1>3, <1>4, SorterAssumption DEF StorageInv
<1>7. S = input
  <2>1. \A r \in input : \E s \in Sorters : r \in storage[s]
    BY <1>1, <1>3 DEF StorageInv
  <2>2. QED
    BY <1>4, <1>6, <2>1 DEF Sorters
<1> HIDE DEF S, t
<1>8. q \in Seq(Tuples) /\ Best(q, S, plan) /\ InOrder(q) /\ Range(q) = Range(t)
  BY <1>4, <1>5, SortingKeepsBest
<1>9. /\ tuples' \in [Sorters -> Seq(Tuples \cup {NULL})] /\ tuples'[Global] = q
      /\ \A s \in Sorters : tuples'[s] \in Seq(Tuples)
  <2>1. q \in Seq(Tuples \cup {NULL})
    BY <1>8
  <2>2. \A s \in Sorters : tuples[s] \in Seq(Tuples)
    BY <1>1, <1>3 DEF STypeOK
  <2>3. QED
    BY <1>2, <1>3, <1>4, <1>8, <2>1, <2>2
<1>10. STypeOK'
  BY <1>1, <1>3, <1>9 DEF STypeOK
<1>11. BuiltInv'
  <2>1. Best(q, input, plan) /\ Range(q) \subseteq storage[Global] \cup owned
    BY <1>7, <1>8 DEF S, Best
  <2>2. QED
    BY <1>1, <1>6, <1>8, <1>9, <2>1 DEF BuiltInv
<1>12. StorageInv' /\ KeptInv' /\ MergeInv'
  BY <1>1 DEF StorageInv, KeptInv, MergeInv
<1>13. QED
  BY <1>10, <1>11, <1>12 DEF SInv

(* The rows the sorters kept are enough for the query, and no two sorters  *)
(* kept the same row.                                                      *)
LEMMA RowsEnough ==
  ASSUME STypeOK, StorageInv, KeptInv, phase \in {"fill", "merge"}, parallel, pending = {}
  PROVE  /\ Local \in [Workers -> Seq(Tuples)] /\ Rows \subseteq input /\ Enough(Rows, input, plan)
         /\ \A w \in Workers : /\ IsInjective(Local[w]) /\ Range(Local[w]) \subseteq storage[w]
                               /\ Local[w] = <<>> => storage[w] = {}
         /\ \A w, v \in Workers : w # v => Range(Local[w]) \cap Range(Local[v]) = {}
<1>1. Local \in [Workers -> Seq(Tuples)] /\ \A w \in Workers : Local[w] = tuples[w]
  BY InputRows, SorterAssumption DEF Local, STypeOK
<1>2. ASSUME NEW w \in Workers
      PROVE  /\ w \in Sorters /\ storage[w] \subseteq input /\ IsFiniteSet(storage[w])
             /\ Best(Local[w], storage[w], plan) /\ Local[w] \in Seq(Tuples)
             /\ IsInjective(Local[w]) /\ Range(Local[w]) \subseteq storage[w]
  <2>1. w \in Sorters /\ w # Global /\ storage[w] \subseteq input /\ IsFiniteSet(storage[w])
    BY InputRows, SorterAssumption
  <2>2. Best(Local[w], storage[w], plan)
    BY <1>1, <2>1 DEF KeptInv
  <2>3. QED
    BY <1>1, <2>1, <2>2 DEF Best
<1>3. ASSUME NEW w \in Workers, NEW b \in storage[w] \ Range(Local[w])
      PROVE  plan.limited /\ \E A \in SUBSET Range(Local[w]) :
               Cardinality(A) = plan.offset + plan.limit /\ \A a \in A : Key[a] <= Key[b]
  <2> DEFINE q == Local[w]
             S == storage[w]
  <2>1. plan \in Plans /\ IsFiniteSet(S) /\ Best(q, S, plan) /\ q \in Seq(Tuples)
    BY <1>2 DEF STypeOK
  <2> HIDE DEF q, S
  <2>2. /\ Len(q) = Wanted(S, plan) /\ IsInjective(q) /\ Range(q) \subseteq S
        /\ \A a \in Range(q), x \in S \ Range(q) : Key[a] <= Key[x]
    BY <2>1 DEF Best
  <2>3. Len(q) # Cardinality(S)
    <3> SUFFICES ASSUME Len(q) = Cardinality(S) PROVE FALSE
      OBVIOUS
    <3>1. Range(q) = S
      BY <2>1, <2>2, HoldsAll
    <3>2. QED
      BY <3>1 DEF q, S
  <2>4. plan.limited /\ Len(q) = plan.offset + plan.limit
    BY <2>1, <2>2, <2>3, WantedIs, PlanType
  <2>5. Cardinality(Range(q)) = Len(q)
    BY <2>1, <2>2, InjectiveLength
  <2>6. \A a \in Range(q) : Key[a] <= Key[b]
    BY <2>2 DEF q, S
  <2>7. QED
    BY <2>4, <2>5, <2>6 DEF q
<1>4. Rows \subseteq input
  BY <1>2 DEF Rows
<1>5. Enough(Rows, input, plan)
  <2> SUFFICES ASSUME NEW b \in input \ Rows
               PROVE  plan.limited /\ \E A \in SUBSET Rows :
                        Cardinality(A) = plan.offset + plan.limit /\ \A a \in A : Key[a] <= Key[b]
    BY DEF Enough
  <2>1. PICK s \in Sorters : b \in storage[s]
    BY DEF StorageInv
  <2>2. s \in Workers
    BY <2>1 DEF StorageInv
  <2>3. b \in storage[s] \ Range(Local[s]) /\ Range(Local[s]) \subseteq Rows
    BY <2>1, <2>2 DEF Rows
  <2>4. QED
    BY <1>3, <2>2, <2>3
<1>6. ASSUME NEW w \in Workers, Local[w] = <<>> PROVE storage[w] = {}
  <2> SUFFICES ASSUME NEW b \in storage[w] PROVE FALSE
    OBVIOUS
  <2>1. Range(Local[w]) = {}
    BY <1>6 DEF Range
  <2>2. PICK A \in SUBSET Range(Local[w]) : plan.limited /\ Cardinality(A) = plan.offset + plan.limit
    BY <1>3, <2>1
  <2>3. plan.offset + plan.limit = 0
    BY <2>1, <2>2, FS_EmptySet
  <2>4. QED
    BY <2>2, <2>3, PlanType DEF STypeOK
<1>7. ASSUME NEW w \in Workers, NEW v \in Workers, w # v PROVE Range(Local[w]) \cap Range(Local[v]) = {}
  <2>1. storage[w] \cap storage[v] = {}
    BY <1>2, <1>7 DEF StorageInv
  <2>2. QED
    BY <1>2, <2>1
<1>8. QED
  BY <1>1, <1>2, <1>4, <1>5, <1>6, <1>7

(* Taking the sorters over moves every row's memory to the global sorter. *)
LEMMA MoveStorageStep ==
  ASSUME STypeOK, StorageInv, KeptInv, phase \in {"fill", "merge"}, parallel, pending = {}, MoveStorage
  PROVE  /\ storage' \in [Sorters -> SUBSET input] /\ owned' \subseteq input
         /\ \A w \in Workers : storage'[w] = {}
         /\ Rows \subseteq owned'
<1>1. /\ owned' = owned \cup UNION {storage[w] : w \in tl_sorters}
      /\ storage' = [s \in Sorters |-> IF s \in tl_sorters THEN {} ELSE storage[s]]
  BY DEF MoveStorage
<1>2. Workers \subseteq Sorters /\ \A s \in Sorters : storage[s] \subseteq input
  BY InputRows
<1>3. \A w \in Workers : Local[w] = tuples[w]
  BY DEF Local
<1>4. tl_sorters \subseteq Workers /\ \A w \in Workers : w \notin tl_sorters => Local[w] = <<>>
  BY <1>3 DEF tl_sorters
<1>5. \A w \in Workers : (w \notin tl_sorters => storage[w] = {}) /\ Range(Local[w]) \subseteq storage[w]
  BY <1>4, RowsEnough
<1>6. storage' \in [Sorters -> SUBSET input] /\ owned' \subseteq input
  BY <1>1, <1>2, <1>4 DEF STypeOK
<1>7. \A w \in Workers : storage'[w] = {}
  BY <1>1, <1>2, <1>5
<1>8. Rows \subseteq owned'
  <2> SUFFICES ASSUME NEW w \in Workers, NEW x \in Range(Local[w]) PROVE x \in owned'
    BY DEF Rows
  <2>1. x \in storage[w] /\ w \in tl_sorters
    BY <1>5
  <2>2. QED
    BY <1>1, <2>1
<1>9. QED
  BY <1>6, <1>7, <1>8

(* A sorted arrangement of the rows the sorters kept, trimmed, is what the  *)
(* global sorter should hold.                                              *)
LEMMA BuiltFrom ==
  ASSUME STypeOK, StorageInv, KeptInv, phase \in {"fill", "merge"}, parallel, pending = {}, MoveStorage,
         NEW q \in Seq(Tuples), IsInjective(q), Range(q) = Rows, InOrder(q),
         tuples' = [s \in Sorters |-> IF s = Global THEN Trim(q) ELSE <<>>],
         phase' = "built", UNCHANGED <<parallel, plan, input, pending, freed, out>>
  PROVE  SInv'
<1>1. /\ storage' \in [Sorters -> SUBSET input] /\ owned' \subseteq input
      /\ \A w \in Workers : storage'[w] = {}
      /\ Rows \subseteq owned'
  BY MoveStorageStep
<1>2. Rows \subseteq input /\ Enough(Rows, input, plan) /\ plan \in Plans
  BY RowsEnough DEF STypeOK
<1>3. input \subseteq Tuples /\ IsFiniteSet(input) /\ Global \in Sorters
  BY InputRows
<1>4. /\ Trim(q) \in Seq(Tuples) /\ Best(Trim(q), input, plan) /\ InOrder(Trim(q))
      /\ Range(Trim(q)) \subseteq Rows
  BY <1>2, <1>3, TrimBest
<1> DEFINE t == Trim(q)
<1> HIDE DEF t
<1>5. tuples' = [s \in Sorters |-> IF s = Global THEN t ELSE <<>>] /\ t \in Seq(Tuples)
  BY <1>4 DEF t
<1>6. /\ tuples' \in [Sorters -> Seq(Tuples \cup {NULL})] /\ tuples'[Global] = t
      /\ \A s \in Sorters : tuples'[s] \in Seq(Tuples)
  <2>1. t \in Seq(Tuples \cup {NULL}) /\ <<>> \in Seq(Tuples \cup {NULL}) /\ <<>> \in Seq(Tuples)
    BY <1>5
  <2>2. QED
    BY <1>3, <1>5, <2>1
<1>7. STypeOK'
  BY <1>1, <1>6 DEF STypeOK
<1>8. BuiltInv'
  <2>1. Range(t) \subseteq storage'[Global] \cup owned' /\ Best(t, input, plan) /\ InOrder(t)
    BY <1>1, <1>4 DEF t
  <2>2. QED
    BY <1>1, <1>6, <2>1 DEF BuiltInv
<1>9. StorageInv' /\ KeptInv' /\ MergeInv'
  BY DEF StorageInv, KeptInv, MergeInv
<1>10. QED
  BY <1>7, <1>8, <1>9 DEF SInv

(* The serial sort of all thread-local sorters arranges enough rows. *)
LEMMA SortSeriallyStep ==
  ASSUME SInv, SortParallelSerially
  PROVE  SInv'
<1> DEFINE V == {tuples[w] : w \in tl_sorters}
           f == FlattenSeq(SetToSeq(V))
<1>1. /\ phase = "fill" /\ pending = {} /\ parallel /\ phase' = "built" /\ MoveStorage
      /\ UNCHANGED <<parallel, plan, input, pending, freed, out>>
      /\ STypeOK /\ StorageInv /\ KeptInv
  BY DEF SortParallelSerially, query, SInv
<1>2. PICK q \in Sortings(f) : tuples' = [s \in Sorters |-> IF s = Global THEN Trim(q) ELSE <<>>]
  BY DEF SortParallelSerially
<1>3. Local \in [Workers -> Seq(Tuples)] /\ Rows \subseteq input
  BY <1>1, RowsEnough
<1>4. tl_sorters \subseteq Workers /\ \A w \in Workers : Local[w] = tuples[w] /\ tuples[w] \in Seq(Tuples)
  BY <1>3 DEF tl_sorters, Local
<1>5. V \in SUBSET Seq(Tuples)
  BY <1>4
<1>6. IsFiniteSet(V)
  <2> DEFINE g == [w \in tl_sorters |-> tuples[w]]
  <2>1. g \in Surjection(tl_sorters, V)
    BY DEF Surjection
  <2>2. IsFiniteSet(tl_sorters)
    BY <1>4, SorterAssumption, FS_Subset
  <2>3. QED
    BY <2>1, <2>2, FS_Surjection
<1>7. \A x : x \in Rows <=> \E v \in V : x \in Range(v)
  <2>1. \A w \in Workers : w \notin tl_sorters => Range(Local[w]) = {}
    BY <1>4 DEF tl_sorters, Range
  <2>2. QED
    BY <1>4, <2>1 DEF Rows
<1> HIDE DEF V
<1> DEFINE z == SetToSeq(V)
<1>8. z \in Seq(V) /\ Range(z) = V
  BY <1>6, SetToSeqArranges, Arrangement
<1> HIDE DEF z
<1>9. z \in Seq(Seq(Tuples))
  BY <1>5, <1>8
<1>10. Range(FlattenSeq(z)) = UNION {Range(z[i]) : i \in 1 .. Len(z)}
  BY <1>9, FlattenRange
<1>11. \A v : v \in V <=> \E i \in 1 .. Len(z) : v = z[i]
  BY <1>8, InRange
<1>12. Range(f) = Rows
  <2>1. \A x : x \in Range(FlattenSeq(z)) <=> x \in Rows
    BY <1>7, <1>10, <1>11
  <2>2. QED
    BY <2>1 DEF f, z
<1>13. IsFiniteSet(Rows) /\ Rows \in SUBSET Tuples
  BY <1>1, <1>3, InputRows, FS_Subset
<1>14. q \in SetSortings(Rows)
  BY <1>2, <1>12 DEF Sortings
<1>15. q \in Seq(Tuples) /\ IsInjective(q) /\ Range(q) = Rows /\ InOrder(q)
  BY <1>13, <1>14, SortingsAre
<1>16. QED
  BY <1>1, <1>2, <1>15, BuiltFrom

(* The parallel sort cuts the sorted vectors into packages that can be merged. *)
LEMMA SortParallelStep ==
  ASSUME SInv, SortParallel
  PROVE  SInv'
<1> DEFINE tl == tl_sorters
           m == Cardinality(tl) - 1
           lo == [w \in Workers |-> tuples'[w]]
<1>1. /\ phase = "fill" /\ pending = {} /\ parallel /\ phase' = "merge" /\ tl # {} /\ ~UseSerialSort
      /\ UNCHANGED <<parallel, plan, input, pending, storage, owned, freed, out>>
      /\ STypeOK /\ StorageInv /\ KeptInv
  BY DEF SortParallel, query, SInv
<1>2. PICK loc \in [tl -> UNION {Sortings(tuples[w]) : w \in tl}] :
        /\ \A w \in tl : Range(loc[w]) = Range(tuples[w])
        /\ work' = WorkPackages(loc, tl)
        /\ tuples' = [s \in Sorters |->
                        IF s = Global THEN [i \in 1 .. num_tuples |-> NULL]
                        ELSE IF s \in tl THEN loc[s] ELSE tuples[s]]
  BY DEF SortParallel
<1>3. /\ Local \in [Workers -> Seq(Tuples)]
      /\ \A w \in Workers : Local[w] = tuples[w]
      /\ \A w, v \in Workers : w # v => Range(Local[w]) \cap Range(Local[v]) = {}
  BY <1>1, RowsEnough DEF Local
<1>4. tl \in SUBSET Workers /\ IsFiniteSet(tl) /\ Cardinality(tl) \in Nat \ {0, 1}
  <2>1. tl \in SUBSET Workers
    BY DEF tl_sorters
  <2>2. IsFiniteSet(tl)
    BY <2>1, SorterAssumption, FS_Subset
  <2>3. Cardinality(tl) # 0 /\ Cardinality(tl) # 1 /\ Cardinality(tl) \in Nat
    BY <1>1, <2>2, FS_EmptySet, FS_CardinalityType DEF UseSerialSort
  <2>4. QED
    BY <2>1, <2>2, <2>3
<1>5. \A w \in Workers : w \notin tl => tuples[w] = <<>>
  BY DEF tl_sorters
<1>6. \A w \in tl : tuples[w] # <<>>
  BY DEF tl_sorters
<1>7. num_tuples = SumFunction([w \in tl |-> Len(tuples[w])])
  BY DEF num_tuples
<1> HIDE DEF tl
<1>8. ASSUME NEW w \in tl
      PROVE  /\ loc[w] \in Seq(Tuples) /\ Best(loc[w], storage[w], plan) /\ InOrder(loc[w])
             /\ Len(loc[w]) = Len(tuples[w]) /\ Len(loc[w]) # 0 /\ IsInjective(loc[w])
             /\ Range(loc[w]) = Range(Local[w])
  <2>1. w \in Workers /\ w \in Sorters /\ w # Global
    BY <1>4, SorterAssumption DEF Sorters
  <2>2. /\ storage[w] \subseteq Tuples /\ IsFiniteSet(storage[w]) /\ tuples[w] \in Seq(Tuples)
        /\ Best(tuples[w], storage[w], plan)
    BY <1>1, <2>1, InputRows DEF STypeOK, KeptInv
  <2>3. PICK v \in tl : loc[w] \in Sortings(tuples[v])
    BY <1>2
  <2>4. loc[w] \in SetSortings(Range(tuples[v]))
    BY <2>3 DEF Sortings
  <2>5. Range(tuples[v]) \in SUBSET Tuples /\ IsFiniteSet(Range(tuples[v]))
    <3>1. tuples[v] \in Seq(Tuples)
      BY <1>3, <1>4
    <3>2. QED
      BY <3>1, RangeFinite
  <2>6. Range(loc[w]) = Range(tuples[v])
    BY <2>4, <2>5, SortingsAre
  <2>7. loc[w] \in Sortings(tuples[w])
    <3>1. Range(tuples[v]) = Range(tuples[w])
      BY <1>2, <2>6
    <3>2. QED
      BY <2>4, <3>1 DEF Sortings
  <2>8. /\ loc[w] \in Seq(Tuples) /\ Best(loc[w], storage[w], plan) /\ InOrder(loc[w])
        /\ Range(loc[w]) = Range(tuples[w]) /\ Len(loc[w]) = Len(tuples[w])
    BY <2>2, <2>7, SortingKeepsBest
  <2>9. Len(tuples[w]) # 0
    BY <1>6, <2>2
  <2>10. QED
    BY <1>3, <2>1, <2>8, <2>9 DEF Best
<1>9. Locals(loc, tl)
  <2>1. loc \in [tl -> Seq(Tuples)]
    BY <1>2, <1>8
  <2>2. \A w, v \in tl : w # v => Range(loc[w]) \cap Range(loc[v]) = {}
    BY <1>3, <1>4, <1>8
  <2>3. QED
    BY <1>4, <1>8, <2>1, <2>2 DEF Locals
<1> DEFINE cuts == Cuts(loc, tl)
           N == SumFunction(cuts[m])
           G == [i \in 1 .. N |-> NULL]
<1>10. cuts[m] \in [tl -> Nat] /\ \A w \in tl : cuts[m][w] = Len(loc[w])
  <2>1. AreCuts(cuts, loc, tl, m)
    BY <1>9, CutsAre
  <2>2. m \in 0 .. m
    BY <1>4
  <2>3. QED
    BY <2>1, <2>2 DEF AreCuts
<1> HIDE DEF cuts
<1>11. N = num_tuples
  <2>1. cuts[m] = [w \in tl |-> Len(tuples[w])]
    BY <1>8, <1>10
  <2>2. QED
    BY <1>7, <2>1
<1>12. N \in Nat /\ N = SumFunctionOnSet(cuts[m], tl)
  <2>1. N = SumFunctionOnSet(cuts[m], tl)
    BY <1>10 DEF SumFunction
  <2>2. SumFunctionOnSet(cuts[m], tl) \in Nat
    BY <1>4, <1>10, SumIsUnits
  <2>3. QED
    BY <2>1, <2>2
<1> HIDE DEF N, m
<1>13. tuples' = [s \in Sorters |-> IF s = Global THEN G ELSE IF s \in tl THEN loc[s] ELSE tuples[s]]
  BY <1>2, <1>11
<1>14. G \in Seq(Tuples \cup {NULL}) /\ Len(G) = N
  <2>1. G \in [1 .. N -> Tuples \cup {NULL}]
    OBVIOUS
  <2>2. QED
    BY <1>12, <2>1
<1> HIDE DEF G
<1>15. /\ tuples'[Global] = G
       /\ \A w \in Workers : /\ w \in Sorters /\ w # Global
                             /\ tuples'[w] = IF w \in tl THEN loc[w] ELSE <<>>
                             /\ tuples'[w] \in Seq(Tuples)
  <2>1. Global \in Sorters /\ \A w \in Workers : w \in Sorters /\ w # Global
    BY SorterAssumption DEF Sorters
  <2>2. tuples'[Global] = G
    BY <1>13, <2>1
  <2>3. ASSUME NEW w \in Workers
        PROVE  tuples'[w] = (IF w \in tl THEN loc[w] ELSE <<>>) /\ tuples'[w] \in Seq(Tuples)
    <3>1. tuples'[w] = IF w \in tl THEN loc[w] ELSE tuples[w]
      BY <1>13, <2>1
    <3>2. CASE w \in tl
      BY <1>8, <3>1, <3>2
    <3>3. CASE w \notin tl
      <4>1. tuples'[w] = <<>>
        BY <1>5, <3>1, <3>3
      <4>2. QED
        BY <3>3, <4>1
    <3>4. QED
      BY <3>2, <3>3
  <2>4. QED
    BY <2>1, <2>2, <2>3
<1>16. tuples' \in [Sorters -> Seq(Tuples \cup {NULL})]
  <2>1. \A s \in Sorters : s = Global \/ s \in Workers
    BY DEF Sorters
  <2>2. \A s \in Sorters : tuples'[s] \in Seq(Tuples \cup {NULL})
    BY <1>14, <1>15, <2>1
  <2>3. DOMAIN tuples' = Sorters /\ tuples' = [s \in Sorters |-> tuples'[s]]
    BY <1>13
  <2>4. QED
    BY <2>2, <2>3
<1>17. /\ lo \in [Workers -> Seq(Tuples)] /\ \A w \in Workers : lo[w] = IF w \in tl THEN loc[w] ELSE <<>>
  BY <1>15
<1>18. Local' = lo /\ Rows' = UNION {Range(lo[w]) : w \in Workers}
  BY DEF Local, Rows
<1> HIDE DEF lo
<1>19. /\ Packages(lo, work') /\ Places(G, work') /\ InPlace(lo, G, work')
       /\ Covers(UNION {Range(lo[w]) : w \in Workers}, lo, G, work')
  BY <1>2, <1>4, <1>9, <1>17, MergeStarts DEF m, cuts, N, G
<1>20. \A w \in Workers : InOrder(lo[w])
  <2>1. InOrder(<<>>)
    BY DEF InOrder
  <2>2. QED
    BY <1>8, <1>17, <2>1
<1>21. N = Cardinality(Rows')
  <2>1. Rows' = UNION {Range(loc[w]) : w \in tl}
    <3>1. Range(<<>>) = {}
      BY DEF Range
    <3>2. QED
      BY <1>4, <1>17, <1>18, <3>1
  <2> DEFINE len == cuts[m]
  <2>2. \A w \in tl : loc[w] \in Seq(Tuples) /\ IsInjective(loc[w]) /\ len[w] = Len(loc[w])
    BY <1>8, <1>10
  <2>3. \A w, v \in tl : w # v => Range(loc[w]) \cap Range(loc[v]) = {}
    BY <1>9 DEF Locals
  <2> HIDE DEF len
  <2>4. Cardinality(UNION {Range(loc[w]) : w \in tl}) = SumFunctionOnSet(len, tl)
    BY <1>4, <2>2, <2>3, RowCount
  <2>5. QED
    BY <1>12, <2>1, <2>4 DEF len
<1>22. MergeInv'
  BY <1>1, <1>14, <1>15, <1>18, <1>19, <1>20, <1>21 DEF MergeInv
<1>23. KeptInv'
  <2>1. ASSUME NEW w \in Workers PROVE Best(tuples'[w], storage[w], plan)
    <3>1. CASE w \in tl
      BY <1>8, <1>15, <3>1
    <3>2. CASE w \notin tl
      <4>1. tuples'[w] = tuples[w]
        BY <1>5, <1>15, <3>2
      <4>2. QED
        BY <1>1, <1>15, <4>1 DEF KeptInv
    <3>3. QED
      BY <3>1, <3>2
  <2>2. \A s \in Sorters : s # Global => s \in Workers
    BY DEF Sorters
  <2>3. QED
    BY <1>1, <2>1, <2>2 DEF KeptInv
<1>24. STypeOK'
  <2>1. \A s \in Sorters : s # Global => s \in Workers
    BY DEF Sorters
  <2>2. QED
    BY <1>1, <1>15, <1>16, <2>1 DEF STypeOK
<1>25. StorageInv' /\ BuiltInv'
  BY <1>1 DEF StorageInv, BuiltInv
<1>26. QED
  BY <1>22, <1>23, <1>24, <1>25 DEF SInv

(* What the tasks know of the packages. *)
LEMMA MergeFacts ==
  ASSUME SInv, phase = "merge"
  PROVE  /\ STypeOK /\ StorageInv /\ KeptInv /\ parallel /\ pending = {}
         /\ Local \in [Workers -> Seq(Tuples)] /\ \A w \in Workers : Local[w] = tuples[w] /\ InOrder(Local[w])
         /\ Rows \subseteq Tuples
         /\ Len(tuples[Global]) = Cardinality(Rows) /\ DOMAIN work \subseteq Nat
         /\ tuples[Global] \in Seq(Tuples \cup {NULL}) /\ DOMAIN tuples[Global] = 1 .. Len(tuples[Global])
         /\ Len(tuples[Global]) \in Nat
         /\ Packages(Local, work) /\ Places(tuples[Global], work)
         /\ InPlace(Local, tuples[Global], work) /\ Covers(Rows, Local, tuples[Global], work)
<1>1. STypeOK /\ StorageInv /\ KeptInv /\ parallel /\ pending = {} /\ MergeInv
  BY DEF SInv, MergeInv
<1>2. Local \in [Workers -> Seq(Tuples)] /\ \A w \in Workers : Local[w] = tuples[w]
  BY <1>1, RowsEnough DEF Local
<1>3. Rows \subseteq Tuples
  BY <1>1, RowsEnough, InputRows
<1>4. tuples[Global] \in Seq(Tuples \cup {NULL})
  BY <1>1, InputRows DEF STypeOK
<1>5. DOMAIN tuples[Global] = 1 .. Len(tuples[Global]) /\ Len(tuples[Global]) \in Nat
  BY <1>4
<1>6. QED
  BY <1>1, <1>2, <1>3, <1>4, <1>5 DEF MergeInv, Packages

(* A step of any merge task keeps the invariant. *)
LEMMA MergeStepKeeps ==
  ASSUME SInv, NEW k, MergeStep(k)
  PROVE  SInv'
<1> DEFINE G == tuples[Global]
           H == tuples'[Global]
           R == work[k].ranges
           d == work[k].dest
<1>1. /\ phase = "merge" /\ k \in DOMAIN work
      /\ UNCHANGED <<parallel, plan, input, phase, pending, storage, owned, freed, sorted, out>>
  BY DEF MergeStep, query
<1>2. PICK r \in Merge(R) :
        /\ tuples' = [tuples EXCEPT ![Global] = [G EXCEPT ![d] = FrontTuple(r)]]
        /\ work' = [work EXCEPT ![k] = [ranges |-> Advance(R, r), dest |-> d + 1]]
  BY DEF MergeStep
<1>3. /\ STypeOK /\ StorageInv /\ KeptInv /\ parallel /\ pending = {}
      /\ Local \in [Workers -> Seq(Tuples)] /\ \A w \in Workers : Local[w] = tuples[w] /\ InOrder(Local[w])
  BY <1>1, MergeFacts
<1>4. /\ Rows \subseteq Tuples /\ Len(G) = Cardinality(Rows) /\ DOMAIN work \subseteq Nat
      /\ G \in Seq(Tuples \cup {NULL}) /\ DOMAIN G \subseteq Nat /\ DOMAIN G = 1 .. Len(G) /\ Len(G) \in Nat
      /\ Packages(Local, work) /\ Places(G, work) /\ InPlace(Local, G, work) /\ Covers(Rows, Local, G, work)
  BY <1>1, MergeFacts
<1>5. GoodRanges(Local, R) /\ r \in R
  BY <1>1, <1>2, <1>4 DEF Packages, Merge
<1>6. ASSUME NEW q \in R
      PROVE  /\ q.s \in Workers /\ FrontTuple(q) = Local[q.s][q.first] /\ FrontTuple(q) \in Range(Local[q.s])
             /\ FrontTuple(q) \in Tuples /\ Key[FrontTuple(q)] \in Int
  <2>1. q.s \in Workers /\ q.first \in Nat \ {0} /\ q.last \in Nat /\ q.first <= q.last /\ q.last <= Len(Local[q.s])
    BY <1>5 DEF GoodRanges
  <2>2. Local[q.s] \in Seq(Tuples) /\ Len(Local[q.s]) \in Nat /\ Local[q.s] = tuples[q.s]
    BY <1>3, <2>1
  <2>3. q.first \in 1 .. Len(Local[q.s])
    BY <2>1, <2>2
  <2>4. Local[q.s][q.first] \in Tuples
    BY <2>2, <2>3
  <2>5. Local[q.s][q.first] \in Range(Local[q.s])
    BY <2>2, <2>3, InRange
  <2>6. QED
    BY <2>1, <2>2, <2>4, <2>5, KeyType DEF FrontTuple
<1>7. \A q \in R : Key[FrontTuple(r)] <= Key[FrontTuple(q)]
  <2> SUFFICES ASSUME NEW q \in R PROVE Key[FrontTuple(r)] <= Key[FrontTuple(q)]
    OBVIOUS
  <2>1. ~cmp_fn(FrontTuple(q), FrontTuple(r))
    BY <1>2 DEF Merge
  <2>2. Key[FrontTuple(q)] \in Int /\ Key[FrontTuple(r)] \in Int
    BY <1>5, <1>6
  <2>3. QED
    BY <2>1, <2>2 DEF cmp_fn
<1> DEFINE v == Local[r.s][r.first]
<1>8. FrontTuple(r) = v /\ v \in Tuples /\ v \in Rows
  BY <1>5, <1>6 DEF Rows
<1>9. \A q \in R : Key[v] <= Key[Local[q.s][q.first]]
  BY <1>6, <1>7, <1>8
<1>10. Global \in Sorters /\ tuples \in [Sorters -> Seq(Tuples \cup {NULL})]
  BY <1>3, InputRows DEF STypeOK
<1>11. H = [G EXCEPT ![d] = v]
  BY <1>2, <1>8, <1>10
<1>12. \A s \in Sorters : s # Global => tuples'[s] = tuples[s]
  BY <1>2, <1>10
<1>13. H \in Seq(Tuples \cup {NULL}) /\ Len(H) = Len(G)
  <2>1. G \in [1 .. Len(G) -> Tuples \cup {NULL}]
    BY <1>4
  <2> HIDE DEF v, d, G, H
  <2>2. H \in [1 .. Len(G) -> Tuples \cup {NULL}]
    BY <1>8, <1>11, <2>1
  <2>3. QED
    BY <1>4, <2>2 DEF G
<1>14. tuples' \in [Sorters -> Seq(Tuples \cup {NULL})]
  <2> DEFINE e == [G EXCEPT ![d] = FrontTuple(r)]
  <2>1. e = H
    BY <1>8, <1>11
  <2> HIDE DEF e, H
  <2>2. tuples' = [tuples EXCEPT ![Global] = e]
    BY <1>2 DEF e
  <2>3. QED
    BY <1>10, <1>13, <2>1, <2>2
<1>15. Puts(Local, G, work, k, r, H, work')
  BY <1>1, <1>2, <1>5, <1>9, <1>11 DEF Puts
<1> HIDE DEF G, H
<1>16. PutsOne(Local, G, work, k, r, H, work')
  BY <1>3, <1>4, <1>15, PutsOneRow
<1>17. Packages(Local, work')
  BY <1>1, <1>4, <1>16, PackagesStep
<1>18. Places(H, work')
  BY <1>1, <1>4, <1>16, PlacesStep
<1>19. ASSUME NEW j \in DOMAIN work, Left(Local, work[j].ranges) # {}
       PROVE  work[j].dest \in Span(work[j])
  <2> DEFINE A == work[j].ranges
             b == work[j].dest
             n == SumFunction(Sizes(A))
  <2>1. GoodRanges(Local, A) /\ b \in Nat
    BY <1>4 DEF Packages
  <2>2. PICK q : q \in A
    BY <1>19 DEF Left
  <2> HIDE DEF A
  <2>3. n \in Nat \ {0}
    BY <2>1, <2>2, AdvanceSum
  <2> HIDE DEF b, n
  <2>4. b \in b .. b - 1 + n
    BY <2>1, <2>3
  <2>5. QED
    BY <2>4 DEF Span, b, n, A
<1>20. InPlace(Local, H, work')
  BY <1>1, <1>4, <1>16, <1>19, InPlaceStep
<1>21. Covers(Rows, Local, H, work')
  BY <1>1, <1>4, <1>8, <1>16, CoversStep
<1>22. \A w \in Workers : tuples'[w] = tuples[w]
  BY <1>12, SorterAssumption DEF Sorters
<1>23. Local' = Local
  BY <1>22 DEF Local
<1>24. Rows' = Rows
  BY <1>23 DEF Rows
<1>25. MergeInv'
  BY <1>1, <1>3, <1>4, <1>13, <1>17, <1>18, <1>20, <1>21, <1>23, <1>24 DEF MergeInv, G, H
<1>26. KeptInv'
  BY <1>1, <1>3, <1>12 DEF KeptInv
<1>27. STypeOK'
  BY <1>1, <1>3, <1>12, <1>14 DEF STypeOK
<1>28. StorageInv' /\ BuiltInv'
  BY <1>1, <1>3 DEF StorageInv, BuiltInv
<1>29. QED
  BY <1>25, <1>26, <1>27, <1>28 DEF SInv

(* When the last task ends, the output is the kept rows in order. *)
LEMMA FinishStep ==
  ASSUME SInv, FinishSort
  PROVE  SInv'
<1> DEFINE G == tuples[Global]
<1>1. /\ phase = "merge" /\ phase' = "built" /\ MoveStorage
      /\ \A k \in DOMAIN work : work[k].ranges = {}
      /\ tuples' = [s \in Sorters |-> IF s = Global THEN Trim(tuples[s]) ELSE <<>>]
      /\ UNCHANGED <<parallel, plan, input, pending, freed, out>>
  BY DEF FinishSort, query
<1>2. /\ STypeOK /\ StorageInv /\ KeptInv /\ parallel /\ pending = {}
      /\ Rows \subseteq Tuples /\ Len(G) = Cardinality(Rows) /\ DOMAIN G = 1 .. Len(G) /\ Len(G) \in Nat
      /\ G \in Seq(Tuples \cup {NULL})
  BY <1>1, MergeFacts
<1>3. /\ Packages(Local, work) /\ Places(G, work)
      /\ InPlace(Local, G, work) /\ Covers(Rows, Local, G, work)
  BY <1>1, MergeFacts
<1> HIDE DEF G
<1>4. ASSUME NEW k \in DOMAIN work PROVE Span(work[k]) = {} /\ Left(Local, work[k].ranges) = {}
  <2> DEFINE A == work[k].ranges
             b == work[k].dest
             n == SumFunction(Sizes(A))
  <2>1. GoodRanges(Local, A) /\ b \in Nat /\ A = {}
    BY <1>1, <1>3 DEF Packages
  <2> HIDE DEF A
  <2>2. n = 0
    BY <2>1, RangesSum
  <2> HIDE DEF b, n
  <2>3. b .. b - 1 + n = {}
    BY <2>1, <2>2
  <2>4. QED
    BY <2>1, <2>3 DEF Span, Left, b, n, A
<1>5. Done(G) = DOMAIN G
  BY <1>3, <1>4 DEF Places, Done
<1>6. G \in Seq(Tuples)
  <2>1. \A i \in 1 .. Len(G) : G[i] \in Tuples
    BY <1>2, <1>3, <1>5 DEF Covers
  <2>2. QED
    BY <1>2, <2>1
<1>7. Range(G) = Rows
  <2>1. \A x : x \in Range(G) <=> \E i \in 1 .. Len(G) : x = G[i]
    BY <1>6, InRange
  <2>2. \A x \in Rows : \E i \in 1 .. Len(G) : x = G[i]
    BY <1>2, <1>3, <1>4, <1>5 DEF Covers
  <2>3. \A i \in 1 .. Len(G) : G[i] \in Rows
    BY <1>2, <1>3, <1>5 DEF Covers
  <2>4. QED
    BY <2>1, <2>2, <2>3
<1>8. IsInjective(G)
  BY <1>2, <1>6, <1>7, FullLength
<1>9. InOrder(G)
  <2> SUFFICES ASSUME NEW i \in 1 .. Len(G), NEW j \in 1 .. Len(G), i <= j PROVE Key[G[i]] <= Key[G[j]]
    BY DEF InOrder
  <2>1. CASE i < j
    BY <1>2, <1>3, <1>5, <2>1 DEF InPlace
  <2>2. CASE i = j
    <3>1. Key[G[i]] \in Int
      BY <1>6, KeyType
    <3>2. QED
      BY <2>2, <3>1
  <2>3. QED
    BY <2>1, <2>2
<1>10. tuples' = [s \in Sorters |-> IF s = Global THEN Trim(G) ELSE <<>>]
  BY <1>1 DEF G
<1>11. QED
  BY <1>1, <1>2, <1>6, <1>7, <1>8, <1>9, <1>10, BuiltFrom

(* Destroying the thread-local sorters frees no row. *)
LEMMA TearDownStep ==
  ASSUME SInv, TearDownPipelineState
  PROVE  SInv'
<1>1. /\ phase = "built" /\ phase' = "ready"
      /\ freed' = UNION {storage[w] : w \in Workers}
      /\ storage' = [s \in Sorters |-> IF s = Global THEN storage[s] ELSE {}]
      /\ UNCHANGED <<parallel, plan, input, pending, tuples, owned, out>>
      /\ STypeOK /\ BuiltInv
  BY DEF TearDownPipelineState, query, SInv
<1>2. \A w \in Workers : storage[w] = {} /\ w \in Sorters /\ w # Global
  BY <1>1, InputRows, SorterAssumption DEF BuiltInv
<1>3. freed' = {} /\ storage'[Global] = storage[Global] /\ \A w \in Workers : storage'[w] = {}
  BY <1>1, <1>2, InputRows
<1>4. storage' \in [Sorters -> SUBSET input]
  BY <1>1 DEF STypeOK
<1>5. STypeOK'
  BY <1>1, <1>3, <1>4 DEF STypeOK
<1>6. BuiltInv'
  BY <1>1, <1>3 DEF BuiltInv
<1>7. StorageInv' /\ KeptInv' /\ MergeInv'
  BY <1>1 DEF StorageInv, KeptInv, MergeInv
<1>8. QED
  BY <1>5, <1>6, <1>7 DEF SInv

(* The scan passes on the rows after the offset. *)
LEMMA ScanStep ==
  ASSUME SInv, ScanSorter
  PROVE  SInv'
<1>1. /\ phase = "ready" /\ phase' = "done"
      /\ out' = SubSeq(tuples[Global], plan.offset + 1, Len(tuples[Global]))
      /\ UNCHANGED <<parallel, plan, input, pending, tuples, storage, owned, freed>>
      /\ STypeOK /\ BuiltInv
  BY DEF ScanSorter, query, SInv
<1>2. STypeOK'
  BY <1>1 DEF STypeOK
<1>3. BuiltInv'
  BY <1>1 DEF BuiltInv
<1>4. StorageInv' /\ KeptInv' /\ MergeInv'
  BY <1>1 DEF StorageInv, KeptInv, MergeInv
<1>5. QED
  BY <1>2, <1>3, <1>4 DEF SInv

(* A step that changes nothing keeps the invariant. *)
LEMMA SUnchanged ==
  ASSUME SInv, UNCHANGED vars
  PROVE  SInv'
<1>1. UNCHANGED <<parallel, plan, input, phase, pending, tuples, storage, owned, freed, sorted, work, out>>
  BY DEF vars, query
<1>2. Local' = Local
  BY <1>1 DEF Local
<1>3. Rows' = Rows
  BY <1>2 DEF Rows
<1>4. STypeOK' /\ StorageInv' /\ KeptInv' /\ BuiltInv'
  BY <1>1 DEF SInv, STypeOK, StorageInv, KeptInv, BuiltInv, top_k
<1>5. MergeInv'
  BY <1>1, <1>2, <1>3 DEF SInv, MergeInv
<1>6. QED
  BY <1>4, <1>5 DEF SInv

(* Whichever way rows are spread over the sorters, cut at splitters and     *)
(* merged, SInv holds: the kept rows suffice, the packages fill the output  *)
(* in order, and the sorted rows are the best ones in memory that lives.    *)
THEOREM SInvariantHolds == Spec => []SInv
<1>1. Init => SInv
  BY SInitHolds
<1>2. SInv /\ [Next]_vars => SInv'
  <2> SUFFICES ASSUME SInv, [Next]_vars PROVE SInv'
    OBVIOUS
  <2>1. ASSUME NEW s \in Sorters, NEW r \in Tuples, InsertIntoSorter(s, r) PROVE SInv'
    BY <2>1, InsertStep
  <2>2. CASE Sort
    BY <2>2, SortStep
  <2>3. CASE SortParallelSerially
    BY <2>3, SortSeriallyStep
  <2>4. CASE SortParallel
    BY <2>4, SortParallelStep
  <2>5. ASSUME NEW k \in 1 .. Cardinality(Workers) - 1, MergeStep(k) PROVE SInv'
    BY <2>5, MergeStepKeeps
  <2>6. CASE FinishSort
    BY <2>6, FinishStep
  <2>7. CASE TearDownPipelineState
    BY <2>7, TearDownStep
  <2>8. CASE ScanSorter
    BY <2>8, ScanStep
  <2>9. CASE UNCHANGED vars
    BY <2>9, SUnchanged
  <2>10. QED
    BY <2>1, <2>2, <2>3, <2>4, <2>5, <2>6, <2>7, <2>8, <2>9 DEF Next
<1>3. QED
  BY <1>1, <1>2, PTL DEF Spec

(* The comparison function is the order of the keys. *)
LEMMA NotLess ==
  \A x, y \in Tuples : ~cmp_fn(y, x) <=> Key[x] <= Key[y]
BY KeyType DEF cmp_fn

(* AllocInputTupleTopKFinish keeps the best rows and a worst one on top.    *)
THEOREM TopKIsKept == Spec => []TopKKept
<1>1. SInv => TopKKept
  <2> SUFFICES ASSUME SInv, phase = "fill", plan.limited, NEW s \in Sorters
               PROVE  /\ IsInjective(tuples[s]) /\ Range(tuples[s]) \subseteq storage[s]
                      /\ Len(tuples[s]) = Min({top_k, Cardinality(storage[s])})
                      /\ \A a \in Range(tuples[s]), b \in storage[s] \ Range(tuples[s]) : ~cmp_fn(b, a)
                      /\ Len(tuples[s]) = top_k => \A a \in Range(tuples[s]) : ~cmp_fn(tuples[s][1], a)
    BY DEF TopKKept
  <2> DEFINE q == tuples[s]
             S == storage[s]
  <2>1. STypeOK /\ KeptInv
    BY DEF SInv
  <2>2. q \in Seq(Tuples) /\ Best(q, S, plan) /\ (Len(q) = top_k => IsHeap(q)) /\ S \subseteq Tuples
    BY <2>1, InputRows DEF STypeOK, KeptInv
  <2> HIDE DEF q, S
  <2>3. IsInjective(q) /\ Range(q) \subseteq S /\ Len(q) = Min({top_k, Cardinality(S)})
    BY <2>2 DEF Best, Wanted, top_k
  <2>4. \A a \in Range(q), b \in S \ Range(q) : ~cmp_fn(b, a)
    BY <2>2, NotLess DEF Best
  <2>5. ASSUME Len(q) = top_k, NEW a \in Range(q) PROVE ~cmp_fn(q[1], a)
    <3>1. PICK i \in 1 .. Len(q) : a = q[i]
      BY <2>2, InRange
    <3>2. Key[q[i]] <= Key[q[1]]
      BY <2>2, <2>5, HeapTop
    <3>3. q[1] \in Tuples /\ q[i] \in Tuples
      BY <2>2
    <3>4. QED
      BY <3>1, <3>2, <3>3, NotLess
  <2>6. QED
    BY <2>3, <2>4, <2>5 DEF q, S
<1>2. QED
  BY <1>1, SInvariantHolds, PTL

(* The merge tasks of SortParallel share the output without a gap or an     *)
(* overlap, for any number of workers and any splitters.                    *)
THEOREM PackagesPartitionHolds == Spec => []PackagesPartitionOutput
<1>1. SInv => PackagesPartitionOutput
  <2> SUFFICES ASSUME SInv, phase = "merge"
               PROVE  /\ {i \in DOMAIN tuples[Global] : tuples[Global][i] = NULL} =
                           UNION {ToWrite(k) : k \in DOMAIN work}
                      /\ \A j, k \in DOMAIN work : j # k => ToWrite(j) \cap ToWrite(k) = {}
    BY DEF PackagesPartitionOutput
  <2>1. Places(tuples[Global], work) /\ DOMAIN work \subseteq Nat /\ DOMAIN tuples[Global] \subseteq Nat
    BY MergeFacts
  <2>2. \A k \in DOMAIN work : ToWrite(k) = Span(work[k])
    BY DEF ToWrite, Span, Sizes, Size
  <2>3. {i \in DOMAIN tuples[Global] : tuples[Global][i] = NULL} = UNION {ToWrite(k) : k \in DOMAIN work}
    BY <2>1, <2>2 DEF Places
  <2>4. ASSUME NEW j \in DOMAIN work, NEW k \in DOMAIN work, j # k,
               NEW x \in ToWrite(j), x \in ToWrite(k)
        PROVE  FALSE
    <3>1. x \in Span(work[j]) /\ x \in Span(work[k]) /\ x \in Nat
      BY <2>1, <2>2, <2>4 DEF Places
    <3>2. j < k \/ k < j
      BY <2>1, <2>4
    <3>3. x < x
      BY <2>1, <3>1, <3>2 DEF Places
    <3>4. QED
      BY <3>1, <3>3
  <2>5. QED
    BY <2>3, <2>4
<1>2. QED
  BY <1>1, SInvariantHolds, PTL

(* The sorted rows are never in the memory of a destroyed sorter. *)
THEOREM NothingFreed == Spec => []NoFreedTuple
<1>1. SInv => NoFreedTuple
  BY DEF SInv, STypeOK, BuiltInv, NoFreedTuple
<1>2. QED
  BY <1>1, SInvariantHolds, PTL

(* The rest of a vector after the first o rows. *)
RestOf(s, q, o) ==
  /\ Len(s) = IF o < Len(q) THEN Len(q) - o ELSE 0
  /\ DOMAIN s = 1 .. Len(s)
  /\ \A i \in DOMAIN s : i + o \in 1 .. Len(q) /\ s[i] = q[i + o]

(* SkipRows(offset) leaves the rows after the first offset ones. *)
LEMMA SkipRows ==
  ASSUME NEW V, NEW q \in Seq(V), NEW o \in Nat
  PROVE  RestOf(SubSeq(q, o + 1, Len(q)), q, o)
BY DEF RestOf

(* The scan passes on what the query asks for: the reference answer's keys *)
(* in its order, rows of the input, none twice.                             *)
THEOREM SortIsExact == Spec => []SortExact
<1>1. ASSUME SInv, phase = "done"
      PROVE  LET all    == CHOOSE s \in SetSortings(input) : TRUE
                 last   == IF plan.limited THEN Min({Len(all), top_k}) ELSE Len(all)
                 answer == SubSeq(all, plan.offset + 1, last)
             IN  /\ Len(out) = Len(answer) /\ IsInjective(out) /\ Range(out) \subseteq input
                 /\ \A i \in DOMAIN out : Key[out[i]] = Key[answer[i]]
  <2> DEFINE all    == CHOOSE s \in SetSortings(input) : TRUE
             last   == IF plan.limited THEN Min({Len(all), top_k}) ELSE Len(all)
             answer == SubSeq(all, plan.offset + 1, last)
             q      == tuples[Global]
             o      == plan.offset
             pre    == SubSeq(all, 1, last)
  <2>1. /\ STypeOK /\ BuiltInv /\ input \subseteq Tuples /\ IsFiniteSet(input) /\ plan \in Plans /\ o \in Nat
        /\ q \in Seq(Tuples) /\ top_k = plan.offset + plan.limit /\ (plan.limited => top_k \in Nat)
    BY <1>1, InputRows, PlanType DEF SInv, STypeOK, top_k
  <2>2. Best(q, input, plan) /\ InOrder(q) /\ out = SubSeq(q, o + 1, Len(q))
    BY <1>1, <2>1 DEF BuiltInv
  <2>3. all \in SetSortings(input)
    BY <2>1, SortingExists
  <2> HIDE DEF all
  <2>4. all \in Seq(Tuples) /\ Len(all) = Cardinality(input) /\ Len(all) \in Nat
    BY <2>1, <2>3, SortingsAre
  <2>5. IsInjective(q) /\ Range(q) \subseteq input /\ Len(q) = Wanted(input, plan)
    BY <2>2 DEF Best
  <2>6. last = Len(q) /\ Len(q) <= Len(all) /\ Len(q) \in Nat
    <3>1. plan.limited => Min({Len(all), top_k}) = IF Len(all) <= top_k THEN Len(all) ELSE top_k
      BY <2>1, <2>4, MinOfTwo
    <3>2. plan.limited => Wanted(input, plan) = IF top_k <= Len(all) THEN top_k ELSE Len(all)
      BY <2>1, <2>4, WantedIs
    <3>3. ~plan.limited => Wanted(input, plan) = Len(all)
      BY <2>1, <2>4, WantedIs
    <3>4. QED
      BY <2>1, <2>4, <2>5, <3>1, <3>2, <3>3
  <2> HIDE DEF q, o, last
  <2>7. RestOf(out, q, o)
    BY <2>1, <2>2, SkipRows
  <2>8. pre \in Seq(Tuples) /\ Len(pre) = Len(q) /\ \A i \in 1 .. Len(q) : pre[i] = all[i]
    BY <2>4, <2>6
  <2>9. answer = SubSeq(pre, o + 1, Len(pre))
    <3>1. SubSeq(all, o + 1, Len(q)) = SubSeq(pre, o + 1, Len(q))
      BY <2>1, <2>4, <2>6, <2>8
    <3>2. QED
      BY <2>6, <2>8, <3>1 DEF o
  <2> HIDE DEF answer, pre
  <2>10. RestOf(answer, pre, o)
    BY <2>1, <2>8, <2>9, SkipRows
  <2>11. Len(out) = Len(answer)
    BY <2>7, <2>8, <2>10 DEF RestOf
  <2>12. \A i \in 1 .. Len(q) : Key[q[i]] = Key[all[i]]
    <3> SUFFICES ASSUME NEW i \in 1 .. Len(q) PROVE Key[q[i]] = Key[all[i]]
      OBVIOUS
    <3>1. \A a \in Range(q), b \in input \ Range(q) : ~cmp_fn(b, a)
      BY <2>1, <2>2, <2>5, NotLess DEF Best
    <3>2. QED
      BY <2>1, <2>2, <2>3, <2>5, <3>1, SameRank
  <2>13. \A i \in DOMAIN out : Key[out[i]] = Key[answer[i]]
    <3> SUFFICES ASSUME NEW i \in DOMAIN out PROVE Key[out[i]] = Key[answer[i]]
      OBVIOUS
    <3>1. i + o \in 1 .. Len(q) /\ out[i] = q[i + o]
      BY <2>7 DEF RestOf
    <3>2. i \in DOMAIN answer /\ answer[i] = pre[i + o]
      BY <2>7, <2>10, <2>11 DEF RestOf
    <3>3. QED
      BY <2>8, <2>12, <3>1, <3>2
  <2>14. IsInjective(out)
    <3> SUFFICES ASSUME NEW i \in DOMAIN out, NEW j \in DOMAIN out, out[i] = out[j] PROVE i = j
      BY DEF IsInjective
    <3>1. i + o \in 1 .. Len(q) /\ j + o \in 1 .. Len(q) /\ q[i + o] = q[j + o] /\ i \in Nat /\ j \in Nat
      BY <2>7 DEF RestOf
    <3>2. i + o = j + o
      BY <2>1, <2>5, <3>1 DEF IsInjective
    <3>3. QED
      BY <2>1, <3>1, <3>2
  <2>15. Range(out) \subseteq input
    <3> SUFFICES ASSUME NEW i \in DOMAIN out PROVE out[i] \in input
      BY DEF Range
    <3>1. i + o \in 1 .. Len(q) /\ out[i] = q[i + o]
      BY <2>7 DEF RestOf
    <3>2. q[i + o] \in Range(q)
      BY <2>1, <3>1, InRange
    <3>3. QED
      BY <2>5, <3>1, <3>2
  <2>16. QED
    BY <2>11, <2>13, <2>14, <2>15 DEF all, last, answer
<1>2. SInv => SortExact
  BY <1>1 DEF SortExact
<1>3. QED
  BY <1>2, SInvariantHolds, PTL
=============================================================================
