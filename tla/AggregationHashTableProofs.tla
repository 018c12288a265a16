--------------------- MODULE AggregationHashTableProofs ---------------------
(***************************************************************************)
(* Proofs about the aggregation hash table: however rows are spread over   *)
(* thread-local tables, grown, flushed, spliced and merged, no partial     *)
(* aggregate is lost or counted twice, and every group is returned once.   *)
(***************************************************************************)
EXTENDS AggregationHashTable, SequenceLemmas

Links == [Rows -> Rows \cup {NULL}]

----------------------------------------------------------------------------
(* Lists *)

(* The list from h is the set L in the order of falling rank: every entry  *)
(* links to the one with the next lower rank.                              *)
Ranked(n, h, L, rank) ==
  /\ \A e, f \in L : rank[e] = rank[f] => e = f
  /\ IF L = {} THEN h = NULL ELSE h \in L /\ \A e \in L : rank[e] <= rank[h]
  /\ \A e \in L :
       \/ n[e] = NULL /\ \A f \in L : rank[e] <= rank[f]
       \/ /\ n[e] \in L /\ rank[n[e]] < rank[e]
          /\ \A f \in L : rank[f] < rank[e] => rank[f] <= rank[n[e]]

(* The entries met from h are those of L, each once. *)
IsChain(n, h, L) == L \subseteq Rows /\ \E rank \in [L -> Nat] : Ranked(n, h, L, rank)

(* What a walk visits: at[i] is its i-th entry, or NULL after the end. *)
Visits(n, h, at, k) ==
  /\ at[1] = h
  /\ \A i \in 1 .. k - 1 : at[i + 1] = IF at[i] = NULL THEN NULL ELSE n[at[i]]

WalkOf(at, k) == [i \in 1 .. Cardinality({j \in 1 .. k : at[j] # NULL}) |-> at[i]]

(* A walk visits one entry after the other. *)
LEMMA WalkVisits ==
  ASSUME NEW n \in Links, NEW h \in Rows \cup {NULL},
         NEW k, k = Cardinality(Rows) + 1
  PROVE  \E at \in [1 .. k -> Rows \cup {NULL}] :
           Visits(n, h, at, k) /\ Walk(n, h) = WalkOf(at, k)
<1> DEFINE V == Rows \cup {NULL}
           step == [x \in V |-> IF x = NULL THEN NULL ELSE n[x]]
           m == k - 1
           H == [i \in 1 .. m |-> step]
<1>1. Cardinality(Rows) \in Nat
  BY RowsAssumption, FS_CardinalityType
<1>2. k \in Nat /\ m \in Nat /\ k = m + 1 /\ 1 \in 1 .. k
  BY <1>1
<1>3. step \in [V -> V] /\ \A x \in V : step[x] = IF x = NULL THEN NULL ELSE n[x]
  BY RowsAssumption DEF Links
<1> HIDE DEF step
<1>4. H \in [1 .. m -> [V -> V]] /\ \A i \in 1 .. m : H[i] = step
  BY <1>3
<1> HIDE DEF H, m
<1>5. PICK f \in [0 .. m -> V] : Iterates(f, h, H, m)
  BY <1>2, <1>4, Iteration
<1> DEFINE a == [i \in 1 .. k |-> f[i - 1]]
<1>6. \A i \in 1 .. k : i - 1 \in 0 .. m
  BY <1>2
<1>7. a \in [1 .. k -> V] /\ \A i \in 1 .. k : a[i] = f[i - 1]
  BY <1>6
<1> HIDE DEF a
<1>8. a[1] = h
  BY <1>2, <1>5, <1>7 DEF Iterates
<1>9. ASSUME NEW i \in 1 .. k, i # 1 PROVE a[i] = IF a[i - 1] = NULL THEN NULL ELSE n[a[i - 1]]
  <2>1. i - 1 \in 1 .. m /\ i - 1 \in 1 .. k /\ (i - 1) - 1 \in 0 .. m
    BY <1>2, <1>9
  <2>2. f[i - 1] = H[i - 1][f[(i - 1) - 1]]
    BY <1>5, <2>1 DEF Iterates
  <2>3. a[i - 1] = f[(i - 1) - 1] /\ f[(i - 1) - 1] \in V
    BY <1>7, <2>1
  <2>4. f[i - 1] = step[a[i - 1]]
    BY <1>4, <2>1, <2>2, <2>3
  <2>5. QED
    BY <1>3, <1>7, <1>9, <2>3, <2>4
<1> DEFINE F(at) == [i \in 1 .. Cardinality(Rows) + 1 |->
                       IF i = 1 THEN h ELSE IF at[i - 1] = NULL THEN NULL ELSE n[at[i - 1]]]
           c == CHOOSE at : at = F(at)
<1>10. a = F(a)
  <2>1. F(a) = [i \in 1 .. k |->
                  IF i = 1 THEN h ELSE IF a[i - 1] = NULL THEN NULL ELSE n[a[i - 1]]]
    OBVIOUS
  <2> HIDE DEF F
  <2>2. \A i \in 1 .. k : F(a)[i] = a[i]
    BY <1>8, <1>9, <2>1
  <2>3. a = [i \in 1 .. k |-> a[i]] /\ F(a) = [i \in 1 .. k |-> F(a)[i]]
    BY <1>7, <2>1
  <2>4. QED
    BY <2>2, <2>3
<1>11. c = F(c)
  BY <1>10, Zenon
<1> HIDE DEF c
<1>12. \A i \in 1 .. k : c[i] = IF i = 1 THEN h ELSE IF c[i - 1] = NULL THEN NULL ELSE n[c[i - 1]]
  BY <1>11
<1>13. c = [i \in 1 .. k |-> c[i]]
  <2>1. F(c) = [i \in 1 .. k |->
                  IF i = 1 THEN h ELSE IF c[i - 1] = NULL THEN NULL ELSE n[c[i - 1]]]
    OBVIOUS
  <2> HIDE DEF F
  <2>2. QED
    BY <1>11, <1>12, <2>1
<1> HIDE DEF F
<1>14. c \in [1 .. k -> V]
  <2> DEFINE P == {i \in Nat : i + 1 \in 1 .. k => c[i + 1] \in V}
  <2>1. 0 \in P
    BY <1>12
  <2>2. ASSUME NEW i \in 0 .. m - 1, i \in P PROVE i + 1 \in P
    <3>1. i + 1 \in 1 .. k /\ (i + 1) + 1 \in 1 .. k /\ (i + 1) + 1 # 1 /\ ((i + 1) + 1) - 1 = i + 1
      BY <1>2
    <3>2. c[i + 1] \in V
      BY <2>2, <3>1
    <3>3. c[(i + 1) + 1] = IF c[i + 1] = NULL THEN NULL ELSE n[c[i + 1]]
      BY <1>12, <3>1
    <3>4. QED
      BY <3>2, <3>3 DEF Links
  <2> HIDE DEF P
  <2>3. 0 .. m \subseteq P
    BY <1>2, <2>1, <2>2, UpTo
  <2>4. ASSUME NEW i \in 1 .. k PROVE c[i] \in V
    <3>1. i - 1 \in 0 .. m /\ (i - 1) + 1 = i
      BY <1>2
    <3>2. QED
      BY <2>3, <3>1 DEF P
  <2>5. QED
    BY <1>13, <2>4
<1>15. Visits(n, h, c, k)
  <2>1. c[1] = h
    BY <1>2, <1>12
  <2>2. ASSUME NEW i \in 1 .. k - 1 PROVE c[i + 1] = IF c[i] = NULL THEN NULL ELSE n[c[i]]
    <3>1. i + 1 \in 1 .. k /\ i + 1 # 1 /\ (i + 1) - 1 = i
      BY <1>2
    <3>2. QED
      BY <1>12, <3>1
  <2>3. QED
    BY <2>1, <2>2 DEF Visits
<1>16. Walk(n, h) = WalkOf(c, k)
  BY DEF Walk, WalkOf, c, F
<1>17. QED
  BY <1>14, <1>15, <1>16

(* A walk from h meets the entries of L, each once, and ends at an entry   *)
(* without a successor.                                                    *)
MeetsExactly(n, h, L) ==
  /\ Walk(n, h) \in Seq(Rows) /\ IsInjective(Walk(n, h)) /\ Range(Walk(n, h)) = L
  /\ L # {} => /\ Len(Walk(n, h)) \in 1 .. Len(Walk(n, h))
               /\ n[Walk(n, h)[Len(Walk(n, h))]] = NULL

(* The entry a walk is at has a lower rank than those it visited before. *)
Falling(at, rank, L, i) ==
  /\ at[i] \in L \cup {NULL}
  /\ \A j \in 1 .. i - 1 : at[i] # NULL => at[j] \in L /\ rank[at[i]] < rank[at[j]]

(* Walking along a list visits it in order. *)
LEMMA VisitsFall ==
  ASSUME NEW n \in Links, NEW h, NEW L \in SUBSET Rows, NEW rank \in [L -> Nat],
         Ranked(n, h, L, rank), NEW k \in Nat \ {0}, NEW at, Visits(n, h, at, k)
  PROVE  \A i \in 1 .. k : Falling(at, rank, L, i)
<1> DEFINE P == {i \in Nat : i + 1 \in 1 .. k => Falling(at, rank, L, i + 1)}
           m == k - 1
<1>1. m \in Nat /\ k = m + 1
  OBVIOUS
<1> HIDE DEF m
<1>2. 0 \in P
  <2>1. at[1] = h /\ h \in L \cup {NULL}
    BY DEF Visits, Ranked
  <2>2. \A j \in 1 .. 1 - 1 : FALSE
    OBVIOUS
  <2>3. QED
    BY <2>1, <2>2 DEF Falling
<1>3. ASSUME NEW i \in 0 .. m - 1, i \in P PROVE i + 1 \in P
  <2> DEFINE a == at[i + 1]
             b == at[(i + 1) + 1]
  <2>1. i + 1 \in 1 .. k - 1 /\ i + 1 \in 1 .. k /\ (i + 1) + 1 \in 1 .. k
    BY <1>1
  <2>2. Falling(at, rank, L, i + 1)
    BY <1>3, <2>1
  <2>3. b = IF a = NULL THEN NULL ELSE n[a]
    BY <2>1 DEF Visits
  <2>4. a \in L \cup {NULL}
    BY <2>2 DEF Falling
  <2>5. b # NULL => a \in L /\ b \in L /\ rank[b] < rank[a]
    BY <2>3, <2>4 DEF Ranked
  <2>6. ASSUME NEW j \in 1 .. ((i + 1) + 1) - 1, b # NULL PROVE at[j] \in L /\ rank[b] < rank[at[j]]
    <3>1. CASE j = i + 1
      BY <2>5, <2>6, <3>1, RowsAssumption
    <3>2. CASE j # i + 1
      <4>1. j \in 1 .. (i + 1) - 1
        BY <3>2
      <4>2. a # NULL
        BY <2>5, <2>6, RowsAssumption
      <4>3. at[j] \in L /\ rank[a] < rank[at[j]]
        BY <2>2, <4>1, <4>2 DEF Falling
      <4>4. QED
        <5>1. rank[a] \in Nat /\ rank[b] \in Nat /\ rank[b] < rank[a]
          BY <2>5, <2>6
        <5>2. QED
          BY <4>3, <5>1
    <3>3. QED
      BY <3>1, <3>2
  <2>7. QED
    BY <2>3, <2>4, <2>5, <2>6 DEF Falling
<1> HIDE DEF P
<1>4. 0 .. m \subseteq P
  BY <1>1, <1>2, <1>3, UpTo
<1>5. ASSUME NEW i \in 1 .. k PROVE Falling(at, rank, L, i)
  <2>1. i - 1 \in 0 .. m /\ (i - 1) + 1 = i
    BY <1>1
  <2>2. QED
    BY <1>4, <2>1 DEF P
<1>6. QED
  BY <1>5

(* A list is what a walk from its first entry meets. *)
LEMMA WalkMeets ==
  ASSUME NEW n \in Links, NEW h, NEW L, IsChain(n, h, L)
  PROVE  MeetsExactly(n, h, L)
<1> DEFINE k == Cardinality(Rows) + 1
           walk == Walk(n, h)
<1>1. Cardinality(Rows) \in Nat /\ k \in Nat \ {0} /\ Cardinality(Rows) = k - 1
  BY RowsAssumption, FS_CardinalityType
<1>2. L \in SUBSET Rows
  BY DEF IsChain
<1>3. PICK rank \in [L -> Nat] : Ranked(n, h, L, rank)
  BY DEF IsChain
<1>4. h \in Rows \cup {NULL}
  BY <1>2, <1>3 DEF Ranked
<1> HIDE DEF k
<1>5. PICK at \in [1 .. k -> Rows \cup {NULL}] : Visits(n, h, at, k) /\ walk = WalkOf(at, k)
  BY <1>4, WalkVisits DEF k
<1>6. \A i \in 1 .. k : Falling(at, rank, L, i)
  BY <1>1, <1>2, <1>3, <1>5, VisitsFall
<1> DEFINE A == {j \in 1 .. k : at[j] # NULL}
           c == Cardinality(A)
<1>7. /\ c \in Nat /\ c <= k
      /\ \A p \in 1 .. k : p \in A <=> p <= c
  <2>1. ASSUME NEW p \in A, NEW i \in 1 .. p PROVE i \in A
    <3>1. CASE i = p
      BY <3>1
    <3>2. CASE i # p
      <4>1. p \in 1 .. k /\ at[p] # NULL /\ i \in 1 .. p - 1 /\ i \in 1 .. k
        BY <3>2, <1>1
      <4>2. at[i] \in L
        BY <1>6, <4>1 DEF Falling
      <4>3. QED
        BY <1>2, <4>1, <4>2, RowsAssumption
    <3>3. QED
      BY <3>1, <3>2
  <2>2. A \in SUBSET (0 + 1 .. k) /\ \A p \in A : \A i \in 0 + 1 .. p : i \in A
    BY <2>1
  <2> HIDE DEF A
  <2>3. /\ Cardinality(A) \in Nat /\ 0 + Cardinality(A) <= k
        /\ \A p \in 0 + 1 .. k : p \in A <=> p <= 0 + Cardinality(A)
    <3>1. k \in Nat /\ 0 \in Nat /\ 0 <= k
      BY <1>1
    <3>2. QED
      BY <2>2, <3>1, Beginning
  <2>4. QED
    BY <2>3
<1>8. walk = [i \in 1 .. c |-> at[i]]
  BY <1>5 DEF WalkOf
<1> HIDE DEF c, walk
<1>9. \A i \in 1 .. c : i \in 1 .. k /\ at[i] # NULL
  <2>1. ASSUME NEW i \in 1 .. c PROVE i \in A
    BY <1>1, <1>7
  <2>2. QED
    BY <2>1
<1> HIDE DEF A
<1>10. ASSUME NEW i \in 1 .. c PROVE at[i] \in L /\ rank[at[i]] \in Nat
  BY <1>6, <1>9 DEF Falling
<1>11. walk \in Seq(Rows) /\ Len(walk) = c /\ \A i \in 1 .. c : walk[i] = at[i]
  BY <1>2, <1>7, <1>8, <1>10
<1>12. IsInjective(walk)
  <2>1. ASSUME NEW i \in 1 .. c, NEW j \in 1 .. c, i < j PROVE at[i] # at[j]
    <3>1. j \in 1 .. k /\ at[j] # NULL /\ i \in 1 .. j - 1
      BY <1>9, <2>1
    <3>2. rank[at[j]] < rank[at[i]] /\ rank[at[i]] \in Nat /\ rank[at[j]] \in Nat
      BY <1>6, <1>10, <3>1 DEF Falling
    <3>3. QED
      BY <3>2
  <2>2. ASSUME NEW i \in 1 .. c, NEW j \in 1 .. c, at[i] = at[j] PROVE i = j
    <3>1. i \in Int /\ j \in Int /\ ~(i < j) /\ ~(j < i)
      BY <2>1, <2>2, <1>7
    <3>2. QED
      BY <3>1
  <2>3. DOMAIN walk = 1 .. c
    BY <1>8
  <2>4. QED
    BY <1>11, <2>2, <2>3 DEF IsInjective
<1>13. \A x : x \in Range(walk) <=> \E i \in 1 .. c : x = at[i]
  BY <1>11, InRange
<1>14. c <= Cardinality(Rows)
  <2>1. Cardinality(Range(walk)) = c
    BY <1>11, <1>12, InjectiveLength
  <2>2. Range(walk) \subseteq Rows
    BY <1>2, <1>10, <1>13
  <2>3. QED
    BY <2>1, <2>2, RowsAssumption, FS_Subset
<1>15. c + 1 \in 1 .. k /\ at[c + 1] = NULL
  <2>1. c + 1 \in 1 .. k /\ c + 1 \notin A
    BY <1>1, <1>7, <1>14
  <2>2. QED
    BY <2>1 DEF A
<1>16. L # {} => c # 0
  <2>1. at[1] = h
    BY <1>5 DEF Visits
  <2>2. L # {} => h \in L
    BY <1>3 DEF Ranked
  <2>3. QED
    BY <1>2, <1>15, <2>1, <2>2, RowsAssumption
<1>17. c # 0 => at[c] \in L /\ n[at[c]] = NULL
  <2>1. ASSUME c # 0 PROVE at[c] \in L /\ n[at[c]] = NULL
    <3>1. c \in 1 .. c /\ c \in 1 .. k - 1
      BY <1>1, <1>7, <1>14, <2>1
    <3>2. at[c + 1] = n[at[c]]
      BY <1>5, <1>9, <3>1 DEF Visits
    <3>3. QED
      BY <1>10, <1>15, <3>1, <3>2
  <2>2. QED
    BY <2>1
<1>18. ASSUME NEW e \in L, e \notin Range(walk) PROVE FALSE
  <2> DEFINE P == {i \in Nat : i + 1 \in 1 .. c => rank[e] < rank[at[i + 1]]}
             m == c - 1
  <2>1. m \in Nat /\ c = m + 1
    BY <1>7, <1>16
  <2> HIDE DEF m
  <2>2. rank[e] \in Nat /\ \A i \in 1 .. c : rank[e] # rank[at[i]]
    <3>1. \A i \in 1 .. c : at[i] \in L /\ at[i] # e
      BY <1>10, <1>13, <1>18
    <3>2. QED
      BY <1>3, <3>1 DEF Ranked
  <2>3. 0 \in P
    <3>1. at[1] = h /\ rank[e] <= rank[h]
      BY <1>3, <1>5 DEF Visits, Ranked
    <3>2. 1 \in 1 .. c /\ rank[at[1]] \in Nat /\ rank[e] # rank[at[1]]
      BY <1>10, <2>1, <2>2
    <3>3. QED
      BY <2>2, <3>1, <3>2
  <2>4. ASSUME NEW i \in 0 .. m - 1, i \in P PROVE i + 1 \in P
    <3> DEFINE a == at[i + 1]
               b == at[(i + 1) + 1]
    <3>1. i + 1 \in 1 .. c /\ (i + 1) + 1 \in 1 .. c /\ i + 1 \in 1 .. k - 1
      BY <1>1, <1>14, <2>1
    <3>2. rank[e] < rank[a] /\ a \in L /\ a # NULL
      BY <1>9, <1>10, <2>4, <3>1
    <3>3. b = n[a]
      BY <1>5, <3>1, <3>2 DEF Visits
    <3>4. b # NULL /\ b \in L /\ rank[b] # rank[e] /\ rank[b] \in Nat
      BY <1>9, <1>10, <2>2, <3>1
    <3>5. rank[e] <= rank[b]
      BY <1>3, <3>2, <3>3, <3>4 DEF Ranked
    <3>6. QED
      BY <2>2, <3>4, <3>5
  <2> HIDE DEF P
  <2>5. 0 .. m \subseteq P
    BY <2>1, <2>3, <2>4, UpTo
  <2>6. rank[e] < rank[at[c]]
    <3>1. m \in P /\ m + 1 \in 1 .. c
      BY <2>1, <2>5
    <3>2. QED
      BY <2>1, <3>1 DEF P
  <2>7. rank[at[c]] <= rank[e]
    BY <1>2, <1>3, <1>17, <2>1, RowsAssumption DEF Ranked
  <2>8. rank[at[c]] \in Nat
    BY <1>10, <2>1
  <2>9. QED
    BY <2>2, <2>6, <2>7, <2>8
<1>19. Range(walk) = L
  <2>1. \A x : x \in Range(walk) => x \in L
    BY <1>10, <1>13
  <2>2. \A x : x \in L => x \in Range(walk)
    BY <1>18
  <2>3. QED
    BY <2>1, <2>2
<1>20. L # {} => c \in 1 .. c /\ n[walk[c]] = NULL
  BY <1>7, <1>11, <1>16, <1>17
<1>21. QED
  BY <1>11, <1>12, <1>19, <1>20 DEF MeetsExactly, walk

(* The list from NULL is empty. *)
LEMMA ChainEmpty == ASSUME NEW n PROVE IsChain(n, NULL, {})
<1> DEFINE rank == [e \in {} |-> 0]
<1>1. rank \in [{} -> Nat] /\ Ranked(n, NULL, {}, rank)
  BY DEF Ranked
<1>2. QED
  BY <1>1 DEF IsChain

(* Only the empty list begins with NULL, and one entry alone has no successor. *)
LEMMA ChainEnds ==
  ASSUME NEW n, NEW h, NEW L, IsChain(n, h, L)
  PROVE  /\ L \subseteq Rows /\ (h = NULL <=> L = {}) /\ (L # {} => h \in L)
         /\ \A e, f \in L : n[e] = NULL /\ n[f] = NULL => e = f
         /\ \A e \in L : n[e] \in L \cup {NULL}
<1>1. L \subseteq Rows
  BY DEF IsChain
<1>2. PICK rank \in [L -> Nat] : Ranked(n, h, L, rank)
  BY DEF IsChain
<1>3. (h = NULL <=> L = {}) /\ (L # {} => h \in L)
  BY <1>1, <1>2, RowsAssumption DEF Ranked
<1>4. ASSUME NEW e \in L, NEW f \in L, n[e] = NULL, n[f] = NULL PROVE e = f
  <2>1. rank[e] <= rank[f] /\ rank[f] <= rank[e]
    BY <1>1, <1>2, <1>4, RowsAssumption DEF Ranked
  <2>2. rank[e] = rank[f]
    BY <2>1
  <2>3. QED
    BY <1>2, <2>2 DEF Ranked
<1>5. \A e \in L : n[e] \in L \cup {NULL}
  BY <1>2 DEF Ranked
<1>6. QED
  BY <1>1, <1>3, <1>4, <1>5

(* A list does not change when links outside it do. *)
LEMMA ChainSame ==
  ASSUME NEW n, NEW o, NEW h, NEW L, IsChain(n, h, L), \A e \in L : o[e] = n[e]
  PROVE  IsChain(o, h, L)
<1>1. PICK rank \in [L -> Nat] : Ranked(n, h, L, rank)
  BY DEF IsChain
<1>2. Ranked(o, h, L, rank)
  BY <1>1 DEF Ranked
<1>3. QED
  BY <1>2 DEF IsChain

(* Without its first entry a list is the one from the second entry. *)
LEMMA ChainRest ==
  ASSUME NEW n, NEW h, NEW L, IsChain(n, h, L), L # {}
  PROVE  IsChain(n, n[h], L \ {h})
<1>1. PICK rank \in [L -> Nat] : Ranked(n, h, L, rank)
  BY DEF IsChain
<1> DEFINE R == L \ {h}
           r == [e \in R |-> rank[e]]
<1>2. r \in [R -> Nat] /\ \A e \in R : r[e] = rank[e]
  OBVIOUS
<1>3. h \in L /\ L \subseteq Rows /\ \A e \in L : rank[e] <= rank[h]
  BY <1>1 DEF Ranked, IsChain
<1>4. ASSUME NEW e \in R PROVE rank[e] < rank[h]
  <2>1. rank[e] # rank[h] /\ rank[e] <= rank[h]
    BY <1>1, <1>3 DEF Ranked
  <2>2. QED
    BY <1>3, <2>1
<1> HIDE DEF r
<1>5. IF R = {} THEN n[h] = NULL ELSE n[h] \in R /\ \A e \in R : r[e] <= r[n[h]]
  <2>1. CASE n[h] = NULL
    <3>1. \A f \in L : rank[h] <= rank[f]
      BY <1>1, <1>3, <2>1, RowsAssumption DEF Ranked
    <3>2. \A e \in R : rank[h] <= rank[e] /\ rank[e] < rank[h] /\ rank[e] \in Nat /\ rank[h] \in Nat
      BY <1>3, <1>4, <3>1
    <3>3. R = {}
      BY <3>2
    <3>4. QED
      BY <2>1, <3>3
  <2>2. CASE n[h] # NULL
    <3>1. /\ n[h] \in L /\ rank[n[h]] < rank[h]
          /\ \A f \in L : rank[f] < rank[h] => rank[f] <= rank[n[h]]
      BY <1>1, <1>3, <2>2 DEF Ranked
    <3>2. n[h] \in R
      BY <1>3, <3>1
    <3>3. QED
      BY <1>2, <1>4, <3>1, <3>2
  <2>3. QED
    BY <2>1, <2>2
<1>6. ASSUME NEW e \in R
      PROVE  \/ n[e] = NULL /\ \A f \in R : r[e] <= r[f]
             \/ /\ n[e] \in R /\ r[n[e]] < r[e]
                /\ \A f \in R : r[f] < r[e] => r[f] <= r[n[e]]
  <2>1. CASE n[e] = NULL /\ \A f \in L : rank[e] <= rank[f]
    BY <1>2, <2>1
  <2>2. CASE /\ n[e] \in L /\ rank[n[e]] < rank[e]
             /\ \A f \in L : rank[f] < rank[e] => rank[f] <= rank[n[e]]
    <3>1. n[e] # h
      BY <1>3, <1>4, <2>2
    <3>2. QED
      BY <1>2, <2>2, <3>1
  <2>3. QED
    BY <1>1, <2>1, <2>2 DEF Ranked
<1>7. \A e, f \in R : r[e] = r[f] => e = f
  BY <1>1, <1>2 DEF Ranked
<1> HIDE DEF R
<1>8. Ranked(n, n[h], R, r)
  BY <1>5, <1>6, <1>7 DEF Ranked
<1>9. R \subseteq Rows
  BY <1>3 DEF R
<1>10. QED
  BY <1>2, <1>8, <1>9 DEF IsChain, R

(* The entries of D were put before the list from h, the one with the      *)
(* greatest position first; top is the first entry after that.             *)
Stacked(n, o, h, top, L, D, pos) ==
  /\ \A e, f \in D : pos[e] = pos[f] => e = f
  /\ \A e \in L : o[e] = n[e]
  /\ IF D = {} THEN top = h ELSE top \in D /\ \A e \in D : pos[e] <= pos[top]
  /\ \A e \in D :
       \/ o[e] = h /\ \A f \in D : pos[e] <= pos[f]
       \/ /\ o[e] \in D /\ pos[o[e]] < pos[e]
          /\ \A f \in D : pos[f] < pos[e] => pos[f] <= pos[o[e]]

(* Pushing entries on a list makes a longer list. *)
LEMMA ChainStack ==
  ASSUME NEW n, NEW o, NEW h, NEW top, NEW L, NEW D \in SUBSET Rows, NEW pos \in [D -> Nat],
         IsChain(n, h, L), D \cap L = {}, Stacked(n, o, h, top, L, D, pos)
  PROVE  IsChain(o, top, L \cup D)
<1>1. PICK rank \in [L -> Nat] : Ranked(n, h, L, rank)
  BY DEF IsChain
<1>2. L \subseteq Rows /\ NULL \notin L
  BY RowsAssumption DEF IsChain
<1>3. L # {} => h \in L /\ h # NULL /\ \A e \in L : rank[e] <= rank[h]
  BY <1>1, <1>2 DEF Ranked
<1> DEFINE K == IF L = {} THEN 0 ELSE rank[h] + 1
           S == L \cup D
           r == [e \in S |-> IF e \in L THEN rank[e] ELSE K + pos[e]]
<1>4. K \in Nat
  BY <1>3
<1>5. ASSUME NEW e \in L PROVE rank[e] < K
  <2>1. K = rank[h] + 1 /\ rank[e] <= rank[h] /\ rank[e] \in Nat /\ rank[h] \in Nat
    BY <1>3
  <2> HIDE DEF K
  <2>2. QED
    BY <2>1
<1> HIDE DEF K
<1>6. /\ r \in [S -> Nat]
      /\ \A e \in L : r[e] = rank[e] /\ r[e] < K /\ r[e] \in Nat
      /\ \A e \in D : r[e] = K + pos[e] /\ r[e] >= K /\ r[e] \in Nat /\ e \notin L
  BY <1>4, <1>5
<1> HIDE DEF r
<1>7. ASSUME NEW e \in S, NEW f \in S, r[e] = r[f] PROVE e = f
  <2>1. CASE e \in L /\ f \in L
    BY <1>1, <1>6, <1>7, <2>1 DEF Ranked
  <2>2. CASE e \in D /\ f \in D
    <3>1. pos[e] = pos[f]
      <4>1. pos[e] \in Nat /\ pos[f] \in Nat /\ K + pos[e] = K + pos[f]
        BY <1>6, <1>7, <2>2
      <4>2. \A x, y \in Nat : K + x = K + y => x = y
        BY <1>4
      <4>3. QED
        BY <4>1, <4>2
    <3>2. QED
      BY <2>2, <3>1 DEF Stacked
  <2>3. CASE (e \in L /\ f \in D) \/ (e \in D /\ f \in L)
    BY <1>4, <1>6, <1>7, <2>3
  <2>4. QED
    BY <2>1, <2>2, <2>3
<1>8. IF S = {} THEN top = NULL ELSE top \in S /\ \A e \in S : r[e] <= r[top]
  <2>1. CASE D = {}
    <3>1. top = h /\ S = L
      BY <2>1 DEF Stacked
    <3>2. L = {} => h = NULL
      BY <1>1 DEF Ranked
    <3>3. QED
      BY <1>3, <1>6, <3>1, <3>2
  <2>2. CASE D # {}
    <3>1. top \in D /\ \A e \in D : pos[e] <= pos[top]
      BY <2>2 DEF Stacked
    <3>2. ASSUME NEW e \in S PROVE r[e] <= r[top]
      <4>1. CASE e \in L
        BY <1>4, <1>6, <3>1, <4>1
      <4>2. CASE e \in D
        <5>1. pos[e] <= pos[top] /\ pos[e] \in Nat /\ pos[top] \in Nat
          BY <3>1, <4>2
        <5>2. r[e] = K + pos[e] /\ r[top] = K + pos[top]
          BY <1>6, <3>1, <4>2
        <5>3. QED
          BY <1>4, <5>1, <5>2
      <4>3. QED
        BY <4>1, <4>2
    <3>3. QED
      BY <3>1, <3>2
  <2>3. QED
    BY <2>1, <2>2
<1>9. ASSUME NEW e \in S
      PROVE  \/ o[e] = NULL /\ \A f \in S : r[e] <= r[f]
             \/ /\ o[e] \in S /\ r[o[e]] < r[e]
                /\ \A f \in S : r[f] < r[e] => r[f] <= r[o[e]]
  <2>1. CASE e \in L
    <3>1. o[e] = n[e]
      BY <2>1 DEF Stacked
    <3>2. CASE n[e] = NULL /\ \A f \in L : rank[e] <= rank[f]
      <4>1. \A f \in S : r[e] <= r[f]
        BY <1>4, <1>6, <2>1, <3>2
      <4>2. QED
        BY <3>1, <3>2, <4>1
    <3>3. CASE /\ n[e] \in L /\ rank[n[e]] < rank[e]
               /\ \A f \in L : rank[f] < rank[e] => rank[f] <= rank[n[e]]
      <4>1. ASSUME NEW f \in S, r[f] < r[e] PROVE r[f] <= r[n[e]]
        <5>1. f \in L
          BY <1>4, <1>6, <2>1, <4>1
        <5>2. QED
          BY <1>6, <2>1, <3>3, <4>1, <5>1
      <4>2. r[n[e]] < r[e] /\ n[e] \in S
        BY <1>6, <2>1, <3>3
      <4>3. QED
        BY <3>1, <4>1, <4>2
    <3>4. QED
      BY <1>1, <2>1, <3>2, <3>3 DEF Ranked
  <2>2. CASE e \in D
    <3>1. CASE o[e] = h /\ \A f \in D : pos[e] <= pos[f]
      <4>1. \A f \in D : r[e] <= r[f]
        <5>1. ASSUME NEW f \in D PROVE r[e] <= r[f]
          <6>1. pos[e] <= pos[f] /\ pos[e] \in Nat /\ pos[f] \in Nat
            BY <2>2, <3>1
          <6>2. r[e] = K + pos[e] /\ r[f] = K + pos[f]
            BY <1>6, <2>2
          <6>3. QED
            BY <1>4, <6>1, <6>2
        <5>2. QED
          BY <5>1
      <4>2. CASE L = {}
        <5>1. h = NULL /\ S = D
          BY <1>1, <4>2 DEF Ranked
        <5>2. QED
          BY <3>1, <4>1, <5>1
      <4>3. CASE L # {}
        <5>1. h \in L /\ r[h] < r[e]
          BY <1>3, <1>4, <1>6, <2>2, <4>3
        <5>2. ASSUME NEW f \in S, r[f] < r[e] PROVE r[f] <= r[h]
          <6>1. f \in L
            BY <1>6, <2>2, <4>1, <5>2
          <6>2. QED
            BY <1>3, <1>6, <5>1, <6>1
        <5>3. QED
          BY <3>1, <5>1, <5>2
      <4>4. QED
        BY <4>2, <4>3
    <3>2. CASE /\ o[e] \in D /\ pos[o[e]] < pos[e]
               /\ \A f \in D : pos[f] < pos[e] => pos[f] <= pos[o[e]]
      <4> DEFINE g == o[e]
      <4>1. /\ g \in D /\ pos[g] \in Nat /\ pos[e] \in Nat /\ pos[g] < pos[e]
            /\ r[g] = K + pos[g] /\ r[e] = K + pos[e]
        BY <1>6, <2>2, <3>2
      <4>2. r[g] < r[e]
        BY <1>4, <4>1
      <4>3. ASSUME NEW f \in S, r[f] < r[e] PROVE r[f] <= r[g]
        <5>1. CASE f \in L
          BY <1>4, <1>6, <4>1, <5>1
        <5>2. CASE f \in D
          <6>1. r[f] = K + pos[f] /\ pos[f] \in Nat
            BY <1>6, <5>2
          <6>2. pos[f] < pos[e]
            BY <1>4, <4>1, <4>3, <6>1
          <6>3. pos[f] <= pos[g]
            BY <3>2, <5>2, <6>2
          <6>4. QED
            BY <1>4, <4>1, <6>1, <6>3
        <5>3. QED
          BY <5>1, <5>2
      <4>4. QED
        BY <4>1, <4>2, <4>3
    <3>3. QED
      BY <2>2, <3>1, <3>2 DEF Stacked
  <2>3. QED
    BY <2>1, <2>2
<1>10. S \subseteq Rows
  BY <1>2
<1> HIDE DEF S
<1>11. Ranked(o, top, S, r)
  BY <1>7, <1>8, <1>9 DEF Ranked
<1>12. QED
  BY <1>6, <1>10, <1>11 DEF IsChain, S

(* The list L ends at tl. *)
EndsAt(n, L, tl) == IF L = {} THEN tl = NULL ELSE tl \in L /\ n[tl] = NULL

(* Linking the end of a list to the first entry of another concatenates them. *)
LEMMA ChainAppend ==
  ASSUME NEW n, NEW o, NEW a, NEW b, NEW A, NEW B, NEW t,
         IsChain(n, a, A), IsChain(n, b, B), A \cap B = {}, A # {}, EndsAt(n, A, t),
         o[t] = b, \A e \in (A \cup B) \ {t} : o[e] = n[e]
  PROVE  IsChain(o, a, A \cup B)
<1>1. PICK ra \in [A -> Nat] : Ranked(n, a, A, ra)
  BY DEF IsChain
<1>2. IsChain(o, b, B)
  <2>1. \A e \in B : o[e] = n[e]
    BY DEF EndsAt
  <2>2. QED
    BY <2>1, ChainSame
<1>3. A \in SUBSET Rows /\ t \in A /\ n[t] = NULL
  BY DEF IsChain, EndsAt
<1>4. Stacked(o, o, b, a, B, A, ra)
  <2>1. ASSUME NEW e \in A
        PROVE  \/ o[e] = b /\ \A f \in A : ra[e] <= ra[f]
               \/ /\ o[e] \in A /\ ra[o[e]] < ra[e]
                  /\ \A f \in A : ra[f] < ra[e] => ra[f] <= ra[o[e]]
    <3>1. CASE e = t
      BY <1>1, <1>3, <3>1, RowsAssumption DEF Ranked
    <3>2. CASE e # t
      <4>1. o[e] = n[e] /\ n[e] # NULL
        BY <1>3, <3>2, ChainEnds
      <4>2. QED
        BY <1>1, <4>1 DEF Ranked
    <3>3. QED
      BY <3>1, <3>2
  <2>2. a \in A /\ \A e \in A : ra[e] <= ra[a]
    BY <1>1 DEF Ranked
  <2>3. \A e, f \in A : ra[e] = ra[f] => e = f
    BY <1>1 DEF Ranked
  <2>4. QED
    BY <2>1, <2>2, <2>3 DEF Stacked
<1>5. IsChain(o, a, B \cup A)
  BY <1>2, <1>3, <1>4, ChainStack
<1>6. B \cup A = A \cup B
  OBVIOUS
<1>7. QED
  BY <1>5, <1>6

(* Positions in a sequence without repetitions. *)
LEMMA PositionIs ==
  ASSUME NEW S, NEW q \in Seq(S), IsInjective(q)
  PROVE  /\ DOMAIN q = 1 .. Len(q) /\ Len(q) \in Nat
         /\ \A i \in 1 .. Len(q) : (CHOOSE j \in DOMAIN q : q[j] = q[i]) = i
         /\ \A e : e \in Range(q) <=> \E i \in 1 .. Len(q) : e = q[i]
<1>1. DOMAIN q = 1 .. Len(q) /\ Len(q) \in Nat
  OBVIOUS
<1>2. ASSUME NEW i \in 1 .. Len(q) PROVE (CHOOSE j \in DOMAIN q : q[j] = q[i]) = i
  <2> DEFINE c == CHOOSE j \in DOMAIN q : q[j] = q[i]
  <2>1. c \in DOMAIN q /\ q[c] = q[i]
    BY <1>1
  <2> HIDE DEF c
  <2>2. c = i
    BY <1>1, <2>1 DEF IsInjective
  <2>3. QED
    BY <2>2 DEF c
<1>3. \A e : e \in Range(q) <=> \E i \in 1 .. Len(q) : e = q[i]
  BY InRange
<1>4. QED
  BY <1>1, <1>2, <1>3

(* o are the links n after the entries of q were pushed on the list from h. *)
LinkedUp(n, o, h, q) ==
  /\ \A e \in Rows \ Range(q) : o[e] = n[e]
  /\ \A i \in 1 .. Len(q) : o[q[i]] = IF i = 1 THEN h ELSE q[i - 1]

(* The links after pushing the entries of a sequence. *)
LEMMA PushedLinks ==
  ASSUME NEW n \in Links, NEW h \in Rows \cup {NULL}, NEW q \in Seq(Rows), IsInjective(q)
  PROVE  /\ Pushed(n, h, q) \in Links /\ Top(h, q) \in Rows \cup {NULL}
         /\ LinkedUp(n, Pushed(n, h, q), h, q)
<1> DEFINE o == Pushed(n, h, q)
           P(e) == CHOOSE j \in DOMAIN q : q[j] = e
<1>1. \A e \in Rows : o[e] = IF e \notin Range(q) THEN n[e]
                             ELSE IF P(e) = 1 THEN h ELSE q[P(e) - 1]
  BY DEF Pushed
<1>2. o = [e \in Rows |-> o[e]]
  BY DEF Pushed
<1> HIDE DEF o, P
<1>3. /\ DOMAIN q = 1 .. Len(q) /\ Len(q) \in Nat
      /\ \A i \in 1 .. Len(q) : P(q[i]) = i
      /\ \A e : e \in Range(q) <=> \E i \in 1 .. Len(q) : e = q[i]
  BY PositionIs DEF P
<1>4. ASSUME NEW i \in 1 .. Len(q) PROVE o[q[i]] = IF i = 1 THEN h ELSE q[i - 1]
  <2>1. q[i] \in Rows /\ q[i] \in Range(q)
    BY <1>3
  <2>2. QED
    BY <1>1, <1>3, <2>1
<1>5. \A e \in Rows \ Range(q) : o[e] = n[e]
  BY <1>1
<1>6. ASSUME NEW e \in Rows PROVE o[e] \in Rows \cup {NULL}
  <2>1. CASE e \in Range(q)
    <3>1. PICK i \in 1 .. Len(q) : e = q[i]
      BY <1>3, <2>1
    <3>2. i # 1 => i - 1 \in 1 .. Len(q)
      BY <1>3
    <3>3. i # 1 => q[i - 1] \in Rows
      BY <1>3, <3>2
    <3>4. QED
      BY <1>4, <3>1, <3>3
  <2>2. CASE e \notin Range(q)
    BY <1>5, <2>2 DEF Links
  <2>3. QED
    BY <2>1, <2>2
<1>7. Top(h, q) \in Rows \cup {NULL}
  <2>1. CASE q = <<>>
    BY <2>1 DEF Top
  <2>2. CASE q # <<>>
    <3>1. Len(q) \in 1 .. Len(q)
      BY <1>3, <2>2
    <3>2. q[Len(q)] \in Rows
      BY <3>1, <1>3
    <3>3. QED
      BY <2>2, <3>2 DEF Top
  <2>3. QED
    BY <2>1, <2>2
<1>8. QED
  BY <1>2, <1>4, <1>5, <1>6, <1>7 DEF Links, LinkedUp, o

(* Pushing a sequence of entries on a list. *)
LEMMA PushedChain ==
  ASSUME NEW n \in Links, NEW h, NEW L, IsChain(n, h, L),
         NEW q \in Seq(Rows), IsInjective(q), Range(q) \cap L = {}
  PROVE  IsChain(Pushed(n, h, q), Top(h, q), L \cup Range(q))
<1> DEFINE o == Pushed(n, h, q)
           D == Range(q)
           pos == [e \in D |-> CHOOSE j \in DOMAIN q : q[j] = e]
<1>1. h \in Rows \cup {NULL} /\ L \subseteq Rows
  BY ChainEnds
<1>2. /\ \A e \in Rows \ D : o[e] = n[e]
      /\ \A i \in 1 .. Len(q) : o[q[i]] = IF i = 1 THEN h ELSE q[i - 1]
  <2>1. LinkedUp(n, o, h, q)
    BY <1>1, PushedLinks
  <2>2. QED
    BY <2>1 DEF LinkedUp
<1>3. /\ DOMAIN q = 1 .. Len(q) /\ Len(q) \in Nat
      /\ \A e : e \in D <=> \E i \in 1 .. Len(q) : e = q[i]
  BY PositionIs
<1>4. \A i \in 1 .. Len(q) : pos[q[i]] = i
  <2>1. ASSUME NEW i \in 1 .. Len(q) PROVE pos[q[i]] = i
    <3>1. (CHOOSE j \in DOMAIN q : q[j] = q[i]) = i
      BY PositionIs
    <3>2. q[i] \in D
      BY <1>3
    <3>3. QED
      BY <3>1, <3>2
  <2>2. QED
    BY <2>1
<1>5. DOMAIN pos = D /\ pos = [e \in D |-> pos[e]]
  OBVIOUS
<1> HIDE DEF o, pos, D
<1>6. \A e \in D : pos[e] \in 1 .. Len(q) /\ e = q[pos[e]]
  BY <1>3, <1>4
<1>7. pos \in [D -> Nat]
  BY <1>3, <1>5, <1>6
<1>8. D \in SUBSET Rows
  <2>1. \A i \in 1 .. Len(q) : q[i] \in Rows
    BY <1>3
  <2>2. QED
    BY <1>3, <2>1
<1>9. Stacked(n, o, h, Top(h, q), L, D, pos)
  <2>1. \A e, f \in D : pos[e] = pos[f] => e = f
    BY <1>6
  <2>2. \A e \in L : o[e] = n[e]
    BY <1>1, <1>2 DEF D
  <2>3. IF D = {} THEN Top(h, q) = h ELSE Top(h, q) \in D /\ \A e \in D : pos[e] <= pos[Top(h, q)]
    <3>1. CASE q = <<>>
      <4>1. D = {}
        BY <1>3, <3>1
      <4>2. QED
        BY <3>1, <4>1 DEF Top
    <3>2. CASE q # <<>>
      <4>1. Len(q) \in 1 .. Len(q) /\ Top(h, q) = q[Len(q)]
        BY <1>3, <3>2 DEF Top
      <4>2. Top(h, q) \in D /\ pos[Top(h, q)] = Len(q)
        BY <1>3, <1>4, <4>1
      <4>3. QED
        BY <1>6, <4>2
    <3>3. QED
      BY <3>1, <3>2
  <2>4. ASSUME NEW e \in D
        PROVE  \/ o[e] = h /\ \A f \in D : pos[e] <= pos[f]
               \/ /\ o[e] \in D /\ pos[o[e]] < pos[e]
                  /\ \A f \in D : pos[f] < pos[e] => pos[f] <= pos[o[e]]
    <3> DEFINE i == pos[e]
    <3>1. i \in 1 .. Len(q) /\ e = q[i] /\ i \in Int
      BY <1>6
    <3>2. CASE i = 1
      <4>1. o[e] = h
        BY <1>2, <3>1, <3>2
      <4>2. QED
        BY <1>6, <3>2, <4>1
    <3>3. CASE i # 1
      <4>1. i - 1 \in 1 .. Len(q) /\ i - 1 < i
        BY <1>3, <3>1, <3>3
      <4>2. o[e] = q[i - 1]
        BY <1>2, <3>1, <3>3
      <4>3. o[e] \in D /\ pos[o[e]] = i - 1
        BY <1>3, <1>4, <4>1, <4>2
      <4>4. \A f \in D : pos[f] < i => pos[f] <= i - 1
        BY <1>6, <3>1
      <4>5. QED
        BY <4>1, <4>3, <4>4
    <3>4. QED
      BY <3>2, <3>3
  <2>5. QED
    BY <2>1, <2>2, <2>3, <2>4 DEF Stacked
<1>10. QED
  BY <1>7, <1>8, <1>9, ChainStack DEF o, D

----------------------------------------------------------------------------
(* Tables *)

TableType ==
  [head : Rows \cup {NULL}, count : Nat, capacity : Nat \ {0}, max_fill : Nat,
   entries : Seq(Rows), heads : [Partitions -> Rows \cup {NULL}],
   tails : [Partitions -> Rows \cup {NULL}]]

MemType == [t : [Tables -> TableType], n : Links]

(* The entries of the table tb are those of its index, X, and of its       *)
(* overflow partitions, O; every entry is on one of these lists.           *)
Holds(n, tb, X, O) ==
  /\ IsInjective(tb.entries) /\ O \in [Partitions -> SUBSET Rows]
  /\ IsChain(n, tb.head, X)
  /\ \A p \in Partitions :
       /\ IsChain(n, tb.heads[p], O[p]) /\ EndsAt(n, O[p], tb.tails[p])
       /\ O[p] \cap X = {} /\ \A e \in O[p] : PartOf(e) = p
  /\ \A e \in Rows : e \in Range(tb.entries) <=> e \in X \/ \E p \in Partitions : e \in O[p]

(* An operation on table s changes no other table, and links in D only. *)
Local(m, a, s, D) ==
  /\ a \in MemType
  /\ \A u \in Tables \ {s} : a.t[u] = m.t[u]
  /\ \A e \in Rows \ D : a.n[e] = m.n[e]

(* A table is not disturbed by links of other entries. *)
LEMMA HoldsSame ==
  ASSUME NEW n, NEW o, NEW tb \in TableType, NEW X, NEW O, Holds(n, tb, X, O),
         \A e \in Range(tb.entries) : o[e] = n[e]
  PROVE  Holds(o, tb, X, O)
<1>1. X \subseteq Rows /\ \A p \in Partitions : O[p] \subseteq Rows
  BY DEF Holds, IsChain
<1>2. \A e \in X : o[e] = n[e]
  BY <1>1 DEF Holds
<1>3. IsChain(o, tb.head, X)
  BY <1>2, ChainSame DEF Holds
<1>4. ASSUME NEW p \in Partitions PROVE IsChain(o, tb.heads[p], O[p]) /\ EndsAt(o, O[p], tb.tails[p])
  <2>1. \A e \in O[p] : o[e] = n[e]
    BY <1>1 DEF Holds
  <2>2. IsChain(n, tb.heads[p], O[p]) /\ EndsAt(n, O[p], tb.tails[p])
    BY DEF Holds
  <2>3. IsChain(o, tb.heads[p], O[p])
    BY <2>1, <2>2, ChainSame
  <2>4. QED
    BY <2>1, <2>2, <2>3 DEF EndsAt
<1>5. QED
  BY <1>3, <1>4 DEF Holds

(* The lists of a table are what walks from their heads meet. *)
LEMMA HoldsMeets ==
  ASSUME NEW n \in Links, NEW tb, NEW X, NEW O, Holds(n, tb, X, O)
  PROVE  /\ MeetsExactly(n, tb.head, X)
         /\ \A p \in Partitions : MeetsExactly(n, tb.heads[p], O[p])
<1>1. MeetsExactly(n, tb.head, X)
  BY WalkMeets DEF Holds
<1>2. ASSUME NEW p \in Partitions PROVE MeetsExactly(n, tb.heads[p], O[p])
  <2>1. IsChain(n, tb.heads[p], O[p])
    BY DEF Holds
  <2>2. QED
    BY <2>1, WalkMeets
<1>3. QED
  BY <1>1, <1>2

(* The fields of tables and memories. *)
LEMMA TableFields ==
  ASSUME NEW tb \in TableType
  PROVE  /\ tb.head \in Rows \cup {NULL} /\ tb.count \in Nat /\ tb.capacity \in Nat \ {0}
         /\ tb.max_fill \in Nat /\ tb.entries \in Seq(Rows)
         /\ tb.heads \in [Partitions -> Rows \cup {NULL}]
         /\ tb.tails \in [Partitions -> Rows \cup {NULL}]
BY DEF TableType

(* The tables and links of a memory have their types. *)
LEMMA MemFields ==
  ASSUME NEW m \in MemType, NEW s \in Tables
  PROVE  m.n \in Links /\ m.t \in [Tables -> TableType] /\ m.t[s] \in TableType
<1>1. m.n \in Links /\ m.t \in [Tables -> TableType]
  BY DEF MemType
<1>2. QED
  BY <1>1

(* InsertAll replaces a table and pushes entries on its index. *)
LEMMA InsertAllIs ==
  ASSUME NEW m \in MemType, NEW s \in Tables, NEW tb \in TableType,
         NEW q \in Seq(Rows), IsInjective(q), NEW a, a = InsertAll(m, s, tb, q)
  PROVE  /\ Local(m, a, s, Range(q))
         /\ a.n = Pushed(m.n, tb.head, q)
         /\ a.t[s].head = Top(tb.head, q) /\ a.t[s].count = tb.count + Len(q)
         /\ a.t[s].capacity = tb.capacity /\ a.t[s].max_fill = tb.max_fill
         /\ a.t[s].entries = tb.entries /\ a.t[s].heads = tb.heads /\ a.t[s].tails = tb.tails
<1> DEFINE new == [head |-> Top(tb.head, q), count |-> tb.count + Len(q),
                   capacity |-> tb.capacity, max_fill |-> tb.max_fill, entries |-> tb.entries,
                   heads |-> tb.heads, tails |-> tb.tails]
<1>1. m.n \in Links /\ m.t \in [Tables -> TableType]
  BY MemFields
<1>2. tb.head \in Rows \cup {NULL} /\ tb.count \in Nat
  BY TableFields
<1>3. /\ Pushed(m.n, tb.head, q) \in Links /\ Top(tb.head, q) \in Rows \cup {NULL}
      /\ LinkedUp(m.n, Pushed(m.n, tb.head, q), tb.head, q)
  BY <1>1, <1>2, PushedLinks
<1>4. Len(q) \in Nat
  OBVIOUS
<1>5. new \in TableType
  BY <1>2, <1>3, <1>4, TableFields DEF TableType
<1>6. a.t = [m.t EXCEPT ![s] = new] /\ a.n = Pushed(m.n, tb.head, q)
  BY DEF InsertAll
<1>7. a = [t |-> a.t, n |-> a.n]
  BY DEF InsertAll
<1>8. new.head = Top(tb.head, q) /\ new.count = tb.count + Len(q) /\ new.capacity = tb.capacity
      /\ new.max_fill = tb.max_fill /\ new.entries = tb.entries /\ new.heads = tb.heads
      /\ new.tails = tb.tails
  OBVIOUS
<1> HIDE DEF new
<1>9. a.t \in [Tables -> TableType] /\ a.t[s] = new /\ \A u \in Tables \ {s} : a.t[u] = m.t[u]
  BY ONLY <1>1, <1>5, <1>6, s \in Tables
<1>10. a \in MemType
  BY ONLY <1>3, <1>6, <1>7, <1>9 DEF MemType
<1>11. \A e \in Rows \ Range(q) : a.n[e] = m.n[e]
  BY ONLY <1>3, <1>6 DEF LinkedUp
<1>12. QED
  BY ONLY <1>6, <1>8, <1>9, <1>10, <1>11 DEF Local

(* What an operation left as it was. *)
SameLists(x, y) == x.heads = y.heads /\ x.tails = y.tails

(* Allocating entries for new rows puts them on the index. *)
LEMMA AllocateEntriesIs ==
  ASSUME NEW m \in MemType, NEW s \in Tables, NEW X, NEW O, Holds(m.n, m.t[s], X, O),
         NEW q \in Seq(Rows), IsInjective(q), Range(q) \cap Range(m.t[s].entries) = {},
         NEW a, a = AllocateEntries(m, s, q)
  PROVE  /\ Local(m, a, s, Range(q)) /\ SameLists(a.t[s], m.t[s])
         /\ Holds(a.n, a.t[s], X \cup Range(q), O)
         /\ a.t[s].capacity = m.t[s].capacity /\ a.t[s].max_fill = m.t[s].max_fill
         /\ a.t[s].count = m.t[s].count + Len(q)
         /\ Len(a.t[s].entries) = Len(m.t[s].entries) + Len(q)
         /\ \A e : e \in Range(a.t[s].entries) <=> e \in Range(m.t[s].entries) \/ e \in Range(q)
<1> DEFINE old == m.t[s]
           x == old.entries \o q
           tb == [head |-> old.head, count |-> old.count, capacity |-> old.capacity,
                  max_fill |-> old.max_fill, entries |-> x,
                  heads |-> old.heads, tails |-> old.tails]
<1>1. m.n \in Links /\ old \in TableType
  BY MemFields
<1>2. IsInjective(old.entries) /\ old.entries \in Seq(Rows)
  BY <1>1, TableFields DEF Holds
<1>3. /\ x \in Seq(Rows) /\ Len(x) = Len(old.entries) + Len(q) /\ IsInjective(x)
      /\ \A e : e \in Range(x) <=> e \in Range(old.entries) \/ e \in Range(q)
  BY <1>2, ConcatIs
<1>4. a = InsertAll(m, s, tb, q)
  BY DEF AllocateEntries
<1> HIDE DEF old, x
<1>5. tb \in TableType
  BY <1>1, <1>3, TableFields DEF TableType
<1>6. /\ tb.head = old.head /\ tb.count = old.count /\ tb.capacity = old.capacity
      /\ tb.max_fill = old.max_fill /\ tb.entries = x
      /\ tb.heads = old.heads /\ tb.tails = old.tails
  OBVIOUS
<1> HIDE DEF tb
<1>7. /\ Local(m, a, s, Range(q))
      /\ a.n = Pushed(m.n, old.head, q)
      /\ a.t[s].head = Top(old.head, q) /\ a.t[s].count = old.count + Len(q)
      /\ a.t[s].capacity = old.capacity /\ a.t[s].max_fill = old.max_fill
      /\ a.t[s].entries = x /\ a.t[s].heads = old.heads /\ a.t[s].tails = old.tails
  BY <1>4, <1>5, <1>6, InsertAllIs
<1>8. Holds(m.n, old, X, O)
  BY DEF old
<1>9. \A e \in Range(q) : e \in Rows /\ e \notin X /\ \A p \in Partitions : e \notin O[p]
  <2>1. Range(q) \cap Range(old.entries) = {}
    BY DEF old
  <2>2. Range(q) \subseteq Rows
    BY RangeFinite
  <2>3. QED
    BY <1>8, <2>1, <2>2 DEF Holds
<1>10. IsChain(a.n, a.t[s].head, X \cup Range(q))
  <2>1. IsChain(m.n, old.head, X) /\ Range(q) \cap X = {}
    BY <1>8, <1>9 DEF Holds
  <2>2. QED
    BY <1>1, <1>7, <2>1, PushedChain
<1>11. ASSUME NEW p \in Partitions
       PROVE  /\ IsChain(a.n, a.t[s].heads[p], O[p]) /\ EndsAt(a.n, O[p], a.t[s].tails[p])
              /\ O[p] \cap (X \cup Range(q)) = {} /\ \A e \in O[p] : PartOf(e) = p
  <2>1. /\ IsChain(m.n, old.heads[p], O[p]) /\ EndsAt(m.n, O[p], old.tails[p])
        /\ O[p] \cap X = {} /\ \A e \in O[p] : PartOf(e) = p
    BY <1>8 DEF Holds
  <2>2. O[p] \subseteq Rows
    BY <2>1, ChainEnds
  <2>3. \A e \in O[p] : a.n[e] = m.n[e]
    BY <1>7, <1>9, <2>2 DEF Local
  <2>4. IsChain(a.n, old.heads[p], O[p])
    BY <2>1, <2>3, ChainSame
  <2>5. EndsAt(a.n, O[p], old.tails[p])
    BY <2>1, <2>3 DEF EndsAt
  <2>6. QED
    BY <1>7, <1>9, <2>1, <2>4, <2>5
<1>12. ASSUME NEW e \in Rows
       PROVE  e \in Range(x) <=> e \in X \cup Range(q) \/ \E p \in Partitions : e \in O[p]
  BY <1>3, <1>8 DEF Holds
<1>13. Holds(a.n, a.t[s], X \cup Range(q), O)
  BY <1>3, <1>7, <1>8, <1>10, <1>11, <1>12 DEF Holds
<1>14. QED
  BY <1>3, <1>7, <1>13 DEF SameLists, old

(* The load limit of a directory. *)
LEMMA MaxFillIs ==
  \A c \in Nat \ {0} : MaxFill(c) \in Nat /\ 4 * c \in Nat \ {0} /\ MaxFill(c) < MaxFill(4 * c)
BY DEF MaxFill

(* Table s was given a larger directory; its entries and lists stay. *)
Regrown(m, a, s, X, O) ==
  /\ Local(m, a, s, X) /\ SameLists(a.t[s], m.t[s])
  /\ Holds(a.n, a.t[s], X, O)
  /\ a.t[s].entries = m.t[s].entries /\ a.t[s].count = Len(m.t[s].entries)
  /\ a.t[s].capacity = 4 * m.t[s].capacity
  /\ a.t[s].max_fill = MaxFill(4 * m.t[s].capacity)

(* Growing rebuilds the index from all entries, which loses none if no     *)
(* entry had been flushed.                                                 *)
LEMMA GrowIs ==
  ASSUME NEW m \in MemType, NEW s \in Tables, NEW X, NEW O, Holds(m.n, m.t[s], X, O),
         \A p \in Partitions : O[p] = {}, NEW a, a = Grow(m, s)
  PROVE  Regrown(m, a, s, X, O)
<1> DEFINE old == m.t[s]
           q == old.entries
           cap == 4 * old.capacity
           tb == Resized(old, cap, MaxFill(cap))
<1>1. m.n \in Links /\ old \in TableType
  BY MemFields
<1>2. IsInjective(q) /\ q \in Seq(Rows) /\ old.capacity \in Nat \ {0}
  BY <1>1, TableFields DEF Holds
<1>3. a = InsertAll(m, s, tb, q)
  BY DEF Grow
<1>4. cap \in Nat \ {0} /\ MaxFill(cap) \in Nat
  BY <1>2, MaxFillIs
<1>5. Holds(m.n, old, X, O)
  OBVIOUS
<1> HIDE DEF old, q, cap
<1>6. tb \in TableType
  BY <1>1, <1>2, <1>4, TableFields DEF TableType, Resized, q
<1>7. /\ tb.head = NULL /\ tb.count = 0 /\ tb.capacity = cap /\ tb.max_fill = MaxFill(cap)
      /\ tb.entries = q /\ tb.heads = old.heads /\ tb.tails = old.tails
  BY DEF Resized, q
<1> HIDE DEF tb
<1>8. /\ Local(m, a, s, Range(q))
      /\ a.n = Pushed(m.n, NULL, q)
      /\ a.t[s].head = Top(NULL, q) /\ a.t[s].count = 0 + Len(q)
      /\ a.t[s].capacity = cap /\ a.t[s].max_fill = MaxFill(cap)
      /\ a.t[s].entries = q /\ a.t[s].heads = old.heads /\ a.t[s].tails = old.tails
  BY <1>2, <1>3, <1>6, <1>7, InsertAllIs
<1>9. Range(q) = X
  <2>1. Range(q) \subseteq Rows /\ X \subseteq Rows
    BY <1>2, <1>5, RangeFinite DEF Holds, IsChain
  <2>2. \A e \in Rows : e \in Range(q) <=> e \in X
    BY <1>5 DEF Holds, q
  <2>3. QED
    BY <2>1, <2>2
<1>10. IsChain(a.n, a.t[s].head, X)
  <2>1. IsChain(a.n, a.t[s].head, {} \cup Range(q))
    <3>1. IsChain(m.n, NULL, {}) /\ Range(q) \cap {} = {}
      BY ChainEmpty
    <3>2. QED
      BY <1>1, <1>2, <1>8, <3>1, PushedChain
  <2>2. QED
    BY <1>9, <2>1
<1>11. ASSUME NEW p \in Partitions
       PROVE  /\ IsChain(a.n, a.t[s].heads[p], O[p]) /\ EndsAt(a.n, O[p], a.t[s].tails[p])
              /\ O[p] \cap X = {} /\ \A e \in O[p] : PartOf(e) = p
  <2>1. IsChain(m.n, old.heads[p], O[p]) /\ EndsAt(m.n, O[p], old.tails[p]) /\ O[p] = {}
    BY <1>5 DEF Holds
  <2>2. IsChain(a.n, old.heads[p], O[p])
    BY <2>1, ChainSame
  <2>3. QED
    BY <1>8, <2>1, <2>2 DEF EndsAt
<1>12. Len(q) \in Nat
  BY <1>2
<1>13. Holds(a.n, a.t[s], X, O)
  BY <1>2, <1>5, <1>8, <1>10, <1>11 DEF Holds, q
<1>14. QED
  BY <1>8, <1>9, <1>12, <1>13 DEF SameLists, Regrown, old, q, cap

(* Max finds the greatest of finitely many positions. *)
LEMMA MaxIsGreatest ==
  ASSUME NEW n \in Nat, NEW T \in SUBSET (1 .. n), T # {}
  PROVE  Max(T) \in T /\ \A k \in T : k <= Max(T)
<1> DEFINE R == {n - k : k \in T}
<1>1. R \in SUBSET Nat /\ R # {}
  OBVIOUS
<1> HIDE DEF R
<1>2. PICK x \in R : \A y \in R : x <= y
  BY <1>1, LeastNatural
<1>3. PICK g \in T : x = n - g
  BY DEF R
<1>4. ASSUME NEW k \in T PROVE g >= k
  <2>1. n - k \in R /\ k \in Nat /\ g \in Nat
    BY DEF R
  <2>2. QED
    BY <1>2, <1>3, <2>1
<1>5. \E y \in T : \A k \in T : y >= k
  BY <1>4
<1>6. Max(T) \in T /\ \A k \in T : Max(T) >= k
  BY <1>5 DEF Max
<1>7. QED
  BY <1>6

(* The positions of a partition's entries in the index, and the earlier    *)
(* ones among them.                                                        *)
InPart(c, p) == {i \in DOMAIN c : PartOf(c[i]) = p}
Earlier(c, i) == {j \in InPart(c, PartOf(c[i])) : j < i}
Place(c, e) == CHOOSE i \in DOMAIN c : c[i] = e

(* The table, and the links, after a flush of the index c. *)
FlushedTable(tb, c) ==
  [head |-> NULL, count |-> 0, capacity |-> tb.capacity,
   max_fill |-> tb.max_fill, entries |-> tb.entries,
   heads |-> [p \in Partitions |-> IF InPart(c, p) = {} THEN tb.heads[p] ELSE c[Max(InPart(c, p))]],
   tails |-> [p \in Partitions |-> IF InPart(c, p) = {} \/ tb.tails[p] # NULL THEN tb.tails[p]
                                   ELSE c[Min(InPart(c, p))]]]

FlushedLinks(n, tb, c) ==
  [e \in Rows |-> IF e \notin Range(c) THEN n[e]
                  ELSE IF Earlier(c, Place(c, e)) = {} THEN tb.heads[PartOf(e)]
                  ELSE c[Max(Earlier(c, Place(c, e)))]]

(* FlushToOverflowPartitions, in these terms. *)
LEMMA FlushDef ==
  ASSUME NEW m, NEW s, NEW a, a = FlushToOverflowPartitions(m, s)
  PROVE  a = [t |-> [m.t EXCEPT ![s] = FlushedTable(m.t[s], Index(m, s))],
              n |-> FlushedLinks(m.n, m.t[s], Index(m, s))]
BY Zenon DEF FlushToOverflowPartitions, FlushedTable, FlushedLinks, InPart, Earlier, Place

(* An entry of the index links to the entry of its partition that was      *)
(* flushed before it, or to the list flushed earlier.                      *)
LEMMA FlushedLink ==
  ASSUME NEW n \in Links, NEW tb \in TableType, NEW c \in Seq(Rows), IsInjective(c),
         NEW i \in 1 .. Len(c)
  PROVE  /\ c[i] \in Rows /\ PartOf(c[i]) \in Partitions
         /\ \/ /\ FlushedLinks(n, tb, c)[c[i]] = tb.heads[PartOf(c[i])]
               /\ \A j \in InPart(c, PartOf(c[i])) : i <= j
            \/ \E j \in InPart(c, PartOf(c[i])) :
                 /\ FlushedLinks(n, tb, c)[c[i]] = c[j] /\ j < i
                 /\ \A k \in InPart(c, PartOf(c[i])) : k < i => k <= j
<1> DEFINE e == c[i]
           p == PartOf(e)
           I == InPart(c, p)
           E == Earlier(c, i)
           o == FlushedLinks(n, tb, c)
<1>1. DOMAIN c = 1 .. Len(c) /\ Len(c) \in Nat /\ Place(c, e) = i /\ e \in Range(c)
  BY PositionIs DEF Place
<1>2. e \in Rows
  BY <1>1
<1>3. p \in Partitions
  BY <1>2, KeyAssumption DEF PartOf
<1>4. o[e] = IF E = {} THEN tb.heads[p] ELSE c[Max(E)]
  BY <1>1, <1>2 DEF FlushedLinks
<1>5. I \in SUBSET (1 .. Len(c)) /\ E = {j \in I : j < i}
  BY <1>1 DEF InPart, Earlier
<1> HIDE DEF e, p, I, E, o
<1>6. CASE E = {}
  <2>1. \A j \in I : i <= j
    BY <1>1, <1>5, <1>6
  <2>2. o[e] = tb.heads[p]
    BY <1>4, <1>6
  <2>3. QED
    BY <1>2, <1>3, <2>1, <2>2 DEF e, p, I, o
<1>7. CASE E # {}
  <2>1. E \in SUBSET (1 .. Len(c))
    BY <1>5
  <2>2. Max(E) \in E /\ \A k \in E : k <= Max(E)
    BY <1>1, <1>7, <2>1, MaxIsGreatest
  <2>3. Max(E) \in I /\ Max(E) < i /\ \A k \in I : k < i => k <= Max(E)
    BY <1>5, <2>2
  <2>4. o[e] = c[Max(E)]
    BY <1>4, <1>7
  <2>5. QED
    BY <1>2, <1>3, <2>3, <2>4 DEF e, p, I, o
<1>8. QED
  BY <1>6, <1>7

(* The types after a flush. *)
LEMMA FlushType ==
  ASSUME NEW m \in MemType, NEW s \in Tables, NEW a, a = FlushToOverflowPartitions(m, s),
         NEW c, c = Index(m, s), c \in Seq(Rows), IsInjective(c)
  PROVE  /\ Local(m, a, s, Range(c)) /\ a.n = FlushedLinks(m.n, m.t[s], c)
         /\ a.t[s] = FlushedTable(m.t[s], c)
<1> DEFINE tb == m.t[s]
           o == FlushedLinks(m.n, tb, c)
           new == FlushedTable(tb, c)
<1>1. m.n \in Links /\ m.t \in [Tables -> TableType] /\ tb \in TableType
  BY MemFields
<1>2. a = [t |-> [m.t EXCEPT ![s] = new], n |-> o]
  BY FlushDef
<1>3. /\ tb.heads \in [Partitions -> Rows \cup {NULL}]
      /\ tb.tails \in [Partitions -> Rows \cup {NULL}]
  BY <1>1, TableFields
<1>4. DOMAIN c = 1 .. Len(c) /\ Len(c) \in Nat /\ \A i \in DOMAIN c : c[i] \in Rows
  OBVIOUS
<1> HIDE DEF tb
<1>5. ASSUME NEW p \in Partitions, InPart(c, p) # {}
      PROVE  c[Max(InPart(c, p))] \in Rows /\ c[Min(InPart(c, p))] \in Rows
  <2>1. InPart(c, p) \in SUBSET (1 .. Len(c)) /\ InPart(c, p) \in SUBSET Nat
    BY <1>4 DEF InPart
  <2>2. Max(InPart(c, p)) \in InPart(c, p)
    BY <1>4, <1>5, <2>1, MaxIsGreatest
  <2>3. Min(InPart(c, p)) \in InPart(c, p)
    BY <1>5, <2>1, MinIsLeast
  <2>4. QED
    BY <1>4, <2>1, <2>2, <2>3
<1>6. new \in TableType
  <2>1. [p \in Partitions |-> IF InPart(c, p) = {} THEN tb.heads[p] ELSE c[Max(InPart(c, p))]]
          \in [Partitions -> Rows \cup {NULL}]
    BY <1>3, <1>5
  <2>2. [p \in Partitions |-> IF InPart(c, p) = {} \/ tb.tails[p] # NULL THEN tb.tails[p]
                              ELSE c[Min(InPart(c, p))]]
          \in [Partitions -> Rows \cup {NULL}]
    BY <1>3, <1>5
  <2>3. QED
    BY <1>1, <2>1, <2>2, TableFields DEF FlushedTable, TableType
<1>7. \A e \in Rows \ Range(c) : o[e] = m.n[e]
  BY DEF FlushedLinks
<1>8. o \in Links
  <2>1. ASSUME NEW e \in Rows PROVE o[e] \in Rows \cup {NULL}
    <3>1. CASE e \in Range(c)
      <4>1. PICK i \in 1 .. Len(c) : e = c[i]
        BY <3>1, InRange
      <4>2. /\ PartOf(e) \in Partitions
            /\ \/ o[e] = tb.heads[PartOf(e)]
               \/ \E j \in InPart(c, PartOf(e)) : o[e] = c[j]
        BY <1>1, <4>1, FlushedLink
      <4>3. QED
        BY <1>3, <1>4, <4>2 DEF InPart
    <3>2. CASE e \notin Range(c)
      BY <1>1, <1>7, <3>2 DEF Links
    <3>3. QED
      BY <3>1, <3>2
  <2>2. o = [e \in Rows |-> o[e]]
    BY DEF FlushedLinks
  <2>3. QED
    BY <2>1, <2>2 DEF Links
<1> HIDE DEF o, new
<1>9. a.t = [m.t EXCEPT ![s] = new] /\ a.n = o /\ a = [t |-> a.t, n |-> a.n]
  BY <1>2
<1>10. a.t \in [Tables -> TableType] /\ a.t[s] = new /\ \A u \in Tables \ {s} : a.t[u] = m.t[u]
  BY ONLY <1>1, <1>6, <1>9, s \in Tables
<1>11. a \in MemType
  BY ONLY <1>8, <1>9, <1>10 DEF MemType
<1>12. QED
  BY <1>7, <1>9, <1>10, <1>11 DEF Local, o, new, tb

(* The overflow partitions after a flush. *)
WithIndex(X, O) == [p \in Partitions |-> O[p] \cup {e \in X : PartOf(e) = p}]

(* A flush pushes the entries of each partition on the partition's list. *)
LEMMA FlushChain ==
  ASSUME NEW n \in Links, NEW tb \in TableType, NEW X, NEW O, Holds(n, tb, X, O),
         NEW c \in Seq(Rows), IsInjective(c), Range(c) = X, NEW p \in Partitions,
         NEW o, o = FlushedLinks(n, tb, c), NEW new, new = FlushedTable(tb, c),
         NEW D, D = {e \in X : PartOf(e) = p}
  PROVE  IsChain(o, new.heads[p], O[p] \cup D) /\ EndsAt(o, O[p] \cup D, new.tails[p])
<1> DEFINE I == InPart(c, p)
           pos == [e \in D |-> Place(c, e)]
<1>1. /\ DOMAIN c = 1 .. Len(c) /\ Len(c) \in Nat
      /\ \A i \in 1 .. Len(c) : Place(c, c[i]) = i /\ c[i] \in Rows
      /\ \A e : e \in X <=> \E i \in 1 .. Len(c) : e = c[i]
  BY PositionIs DEF Place
<1>2. /\ IsChain(n, tb.heads[p], O[p]) /\ EndsAt(n, O[p], tb.tails[p])
      /\ O[p] \cap X = {} /\ O[p] \subseteq Rows /\ X \subseteq Rows
  <2>1. IsChain(n, tb.heads[p], O[p]) /\ IsChain(n, tb.head, X)
    BY DEF Holds
  <2>2. QED
    BY <2>1, ChainEnds DEF Holds
<1>3. /\ new.heads[p] = IF I = {} THEN tb.heads[p] ELSE c[Max(I)]
      /\ new.tails[p] = IF I = {} \/ tb.tails[p] # NULL THEN tb.tails[p] ELSE c[Min(I)]
  BY DEF FlushedTable
<1>4. I \in SUBSET (1 .. Len(c)) /\ \A i \in 1 .. Len(c) : i \in I <=> PartOf(c[i]) = p
  BY <1>1 DEF InPart
<1>5. \A e \in O[p] : o[e] = n[e]
  BY <1>2 DEF FlushedLinks
<1>6. ASSUME NEW i \in I
      PROVE  \/ o[c[i]] = tb.heads[p] /\ \A j \in I : i <= j
             \/ \E j \in I : o[c[i]] = c[j] /\ j < i /\ \A k \in I : k < i => k <= j
  <2>1. i \in 1 .. Len(c) /\ PartOf(c[i]) = p
    BY <1>4
  <2>2. QED
    BY <2>1, FlushedLink
<1>7. pos = [e \in D |-> pos[e]] /\ \A e \in D : pos[e] = Place(c, e)
  OBVIOUS
<1> HIDE DEF I, pos
<1>8. /\ \A e \in D : pos[e] \in I /\ e = c[pos[e]]
      /\ \A i \in I : c[i] \in D /\ pos[c[i]] = i
  <2>1. ASSUME NEW e \in D PROVE pos[e] \in I /\ e = c[pos[e]]
    <3>1. PICK i \in 1 .. Len(c) : e = c[i]
      BY <1>1
    <3>2. QED
      BY <1>1, <1>4, <1>7, <3>1
  <2>2. ASSUME NEW i \in I PROVE c[i] \in D /\ pos[c[i]] = i
    BY <1>1, <1>4, <1>7
  <2>3. QED
    BY <2>1, <2>2
<1>9. pos \in [D -> Nat] /\ D \in SUBSET Rows
  BY <1>2, <1>4, <1>7, <1>8
<1>10. I = {} <=> D = {}
  BY <1>8
<1>11. I # {} => Max(I) \in I /\ \A k \in I : k <= Max(I)
  BY <1>1, <1>4, MaxIsGreatest
<1>12. I # {} => Min(I) \in I /\ \A k \in I : Min(I) <= k
  <2>1. I \in SUBSET Nat
    BY <1>4
  <2>2. QED
    BY <2>1, MinIsLeast
<1>13. Stacked(n, o, tb.heads[p], new.heads[p], O[p], D, pos)
  <2>1. \A e, f \in D : pos[e] = pos[f] => e = f
    BY <1>8
  <2>2. IF D = {} THEN new.heads[p] = tb.heads[p]
        ELSE new.heads[p] \in D /\ \A e \in D : pos[e] <= pos[new.heads[p]]
    <3>1. CASE D = {}
      BY <1>3, <1>10, <3>1
    <3>2. CASE D # {}
      <4>1. new.heads[p] = c[Max(I)] /\ Max(I) \in I /\ \A k \in I : k <= Max(I)
        BY <1>3, <1>10, <1>11, <3>2
      <4>2. new.heads[p] \in D /\ pos[new.heads[p]] = Max(I)
        BY <1>8, <4>1
      <4>3. QED
        BY <1>8, <3>2, <4>1, <4>2
    <3>3. QED
      BY <3>1, <3>2
  <2>3. ASSUME NEW e \in D
        PROVE  \/ o[e] = tb.heads[p] /\ \A f \in D : pos[e] <= pos[f]
               \/ /\ o[e] \in D /\ pos[o[e]] < pos[e]
                  /\ \A f \in D : pos[f] < pos[e] => pos[f] <= pos[o[e]]
    <3>1. pos[e] \in I /\ e = c[pos[e]]
      BY <1>8
    <3>2. CASE o[e] = tb.heads[p] /\ \A j \in I : pos[e] <= j
      BY <1>8, <3>2
    <3>3. CASE \E j \in I : o[e] = c[j] /\ j < pos[e] /\ \A k \in I : k < pos[e] => k <= j
      <4>1. PICK j \in I : o[e] = c[j] /\ j < pos[e] /\ \A k \in I : k < pos[e] => k <= j
        BY <3>3
      <4>2. o[e] \in D /\ pos[o[e]] = j
        BY <1>8, <4>1
      <4>3. QED
        BY <1>8, <4>1, <4>2
    <3>4. QED
      BY <1>6, <3>1, <3>2, <3>3
  <2>4. QED
    BY <1>5, <2>1, <2>2, <2>3 DEF Stacked
<1>14. D \cap O[p] = {}
  BY <1>2
<1>15. IsChain(o, new.heads[p], O[p] \cup D)
  BY <1>2, <1>9, <1>13, <1>14, ChainStack
<1>16. EndsAt(o, O[p] \cup D, new.tails[p])
  <2>1. CASE D = {}
    <3>1. new.tails[p] = tb.tails[p] /\ O[p] \cup D = O[p]
      BY <1>3, <1>10, <2>1
    <3>2. QED
      BY <1>2, <1>5, <3>1 DEF EndsAt
  <2>2. CASE D # {} /\ tb.tails[p] # NULL
    <3>1. new.tails[p] = tb.tails[p]
      BY <1>3, <2>2
    <3>2. tb.tails[p] \in O[p] /\ n[tb.tails[p]] = NULL
      BY <1>2, <2>2 DEF EndsAt
    <3>3. o[tb.tails[p]] = NULL
      BY <1>5, <3>2
    <3>4. QED
      BY <3>1, <3>2, <3>3 DEF EndsAt
  <2>3. CASE D # {} /\ tb.tails[p] = NULL
    <3>1. O[p] = {}
      BY <1>2, <2>3, RowsAssumption DEF EndsAt
    <3>2. tb.heads[p] = NULL
      BY <1>2, <3>1, ChainEnds
    <3>3. new.tails[p] = c[Min(I)] /\ Min(I) \in I /\ \A k \in I : Min(I) <= k
      BY <1>3, <1>10, <1>12, <2>3
    <3>4. ~\E j \in I : j < Min(I)
      <4>1. \A j \in I : j \in Int /\ Min(I) \in Int /\ Min(I) <= j
        <5>1. I \subseteq Int
          BY <1>1, <1>4
        <5>2. QED
          BY <3>3, <5>1
      <4>2. QED
        BY <4>1
    <3>5. o[c[Min(I)]] = NULL
      BY <1>6, <3>2, <3>3, <3>4
    <3>6. c[Min(I)] \in D
      BY <1>8, <3>3
    <3>7. QED
      BY <3>3, <3>5, <3>6 DEF EndsAt
  <2>4. QED
    BY <2>1, <2>2, <2>3
<1>17. QED
  BY <1>15, <1>16

(* Flushing empties the index and moves its entries to the partitions. *)
LEMMA FlushIs ==
  ASSUME NEW m \in MemType, NEW s \in Tables, NEW X, NEW O, Holds(m.n, m.t[s], X, O),
         NEW a, a = FlushToOverflowPartitions(m, s)
  PROVE  /\ Local(m, a, s, X)
         /\ Holds(a.n, a.t[s], {}, WithIndex(X, O))
         /\ a.t[s].head = NULL /\ a.t[s].count = 0
         /\ a.t[s].capacity = m.t[s].capacity /\ a.t[s].max_fill = m.t[s].max_fill
         /\ a.t[s].entries = m.t[s].entries
<1> DEFINE tb == m.t[s]
           c == Index(m, s)
           new == FlushedTable(tb, c)
           Q == WithIndex(X, O)
<1>1. m.n \in Links /\ tb \in TableType /\ Holds(m.n, tb, X, O)
  BY MemFields
<1>2. c \in Seq(Rows) /\ IsInjective(c) /\ Range(c) = X
  BY <1>1, HoldsMeets DEF MeetsExactly, Index
<1> HIDE DEF c
<1>3. Local(m, a, s, X) /\ a.n = FlushedLinks(m.n, tb, c) /\ a.t[s] = new
  BY <1>2, FlushType DEF c
<1>4. /\ new.head = NULL /\ new.count = 0 /\ new.capacity = tb.capacity
      /\ new.max_fill = tb.max_fill /\ new.entries = tb.entries
  BY DEF FlushedTable
<1> HIDE DEF tb, new
<1>5. ASSUME NEW p \in Partitions
      PROVE  /\ IsChain(a.n, new.heads[p], Q[p]) /\ EndsAt(a.n, Q[p], new.tails[p])
             /\ Q[p] \cap {} = {} /\ \A e \in Q[p] : PartOf(e) = p
  <2> DEFINE D == {e \in X : PartOf(e) = p}
  <2>1. Q[p] = O[p] \cup D
    BY DEF WithIndex
  <2>2. IsChain(a.n, new.heads[p], O[p] \cup D) /\ EndsAt(a.n, O[p] \cup D, new.tails[p])
    BY <1>1, <1>2, <1>3, FlushChain DEF new
  <2>3. \A e \in O[p] : PartOf(e) = p
    BY <1>1 DEF Holds
  <2>4. QED
    BY <2>1, <2>2, <2>3
<1>6. X \subseteq Rows /\ \A p \in Partitions : O[p] \subseteq Rows
  BY <1>1 DEF Holds, IsChain
<1>7. Q \in [Partitions -> SUBSET Rows]
  BY <1>6 DEF WithIndex
<1>8. ASSUME NEW e \in Rows
      PROVE  e \in Range(tb.entries) <=> e \in {} \/ \E p \in Partitions : e \in Q[p]
  <2>1. PartOf(e) \in Partitions
    BY KeyAssumption DEF PartOf
  <2>2. \A p \in Partitions : e \in Q[p] <=> e \in O[p] \/ (e \in X /\ PartOf(e) = p)
    BY DEF WithIndex
  <2>3. QED
    BY <1>1, <2>1, <2>2 DEF Holds
<1>9. IsChain(a.n, new.head, {})
  BY <1>4, ChainEmpty
<1>10. IsInjective(new.entries)
  BY <1>1, <1>4 DEF Holds
<1> HIDE DEF Q
<1>11. Holds(a.n, new, {}, Q)
  BY <1>4, <1>5, <1>7, <1>8, <1>9, <1>10 DEF Holds
<1>12. QED
  BY <1>3, <1>4, <1>11 DEF Q, tb

----------------------------------------------------------------------------
(* Memories *)

(* The entries of the index and of the overflow partitions of a table. *)
IndexSet(m, s) == Range(Walk(m.n, m.t[s].head))
OverSets(m, s) == [p \in Partitions |-> Range(Walk(m.n, m.t[s].heads[p]))]

Sound(m, s) == Holds(m.n, m.t[s], IndexSet(m, s), OverSets(m, s))

(* There is one way to describe the lists of a table. *)
LEMMA SoundIs ==
  ASSUME NEW m, m.n \in Links, NEW s, NEW X, NEW O, Holds(m.n, m.t[s], X, O)
  PROVE  IndexSet(m, s) = X /\ OverSets(m, s) = O /\ Sound(m, s)
<1>1. IndexSet(m, s) = X
  BY HoldsMeets DEF MeetsExactly, IndexSet
<1>2. ASSUME NEW p \in Partitions PROVE OverSets(m, s)[p] = O[p]
  BY HoldsMeets DEF MeetsExactly, OverSets
<1>3. O \in [Partitions -> SUBSET Rows]
  BY DEF Holds
<1>4. OverSets(m, s) = O
  <2>1. OverSets(m, s) = [p \in Partitions |-> OverSets(m, s)[p]]
    BY DEF OverSets
  <2> HIDE DEF OverSets
  <2>2. QED
    BY <1>2, <1>3, <2>1
<1>5. QED
  BY <1>1, <1>4 DEF Sound

(* A table keeps its lists when entries of other tables are linked anew. *)
LEMMA SoundSame ==
  ASSUME NEW m \in MemType, NEW a \in MemType, NEW s \in Tables, Sound(m, s), a.t[s] = m.t[s],
         \A e \in Range(m.t[s].entries) : a.n[e] = m.n[e]
  PROVE  /\ Sound(a, s) /\ IndexSet(a, s) = IndexSet(m, s) /\ OverSets(a, s) = OverSets(m, s)
<1>1. m.t[s] \in TableType /\ a.n \in Links
  BY MemFields
<1>2. Holds(a.n, a.t[s], IndexSet(m, s), OverSets(m, s))
  BY <1>1, HoldsSame DEF Sound
<1>3. QED
  BY <1>1, <1>2, SoundIs

(* e is an entry of X with the key, or NULL if there is none. *)
FoundBy(e, X, key) ==
  /\ e = NULL \/ (e \in X /\ Key[e] = key)
  /\ e = NULL => \A f \in X : Key[f] # key

(* PerformLookup finds an entry with the key if the index has one. *)
LEMMA LookupIs ==
  ASSUME NEW m, m.n \in Links, NEW s, NEW X, IsChain(m.n, m.t[s].head, X), NEW key,
         NEW e, e = PerformLookup(m, s, key)
  PROVE  FoundBy(e, X, key)
<1> DEFINE c == Index(m, s)
           hit == {i \in DOMAIN c : Key[c[i]] = key}
<1>1. c \in Seq(Rows) /\ Range(c) = X
  BY WalkMeets DEF MeetsExactly, Index
<1>2. e = IF hit = {} THEN NULL ELSE c[Min(hit)]
  BY DEF PerformLookup
<1> HIDE DEF c
<1>3. /\ DOMAIN c = 1 .. Len(c) /\ Len(c) \in Nat
      /\ \A f : f \in X <=> \E i \in 1 .. Len(c) : f = c[i]
  BY <1>1, InRange
<1>4. X \subseteq Rows /\ NULL \notin X
  BY ChainEnds, RowsAssumption
<1>5. hit \in SUBSET Nat /\ \A i \in 1 .. Len(c) : i \in hit <=> Key[c[i]] = key
  BY <1>3
<1>6. hit \subseteq 1 .. Len(c)
  BY <1>3
<1> HIDE DEF hit
<1>7. CASE hit = {}
  BY <1>2, <1>3, <1>5, <1>7 DEF FoundBy
<1>8. CASE hit # {}
  <2>1. Min(hit) \in hit
    BY <1>5, <1>8, MinIsLeast
  <2>2. Min(hit) \in 1 .. Len(c) /\ Key[c[Min(hit)]] = key /\ e = c[Min(hit)]
    BY <1>2, <1>5, <1>6, <1>8, <2>1
  <2>3. QED
    BY <1>3, <1>4, <2>2 DEF FoundBy
<1>9. QED
  BY <1>7, <1>8

(* No entry of the table is in an overflow partition. *)
Unflushed(tb) == \A p \in Partitions : tb.heads[p] = NULL

(* The overflow partitions of a table that was not flushed are empty. *)
LEMMA UnflushedIs ==
  ASSUME NEW n, NEW tb, NEW X, NEW O, Holds(n, tb, X, O), Unflushed(tb)
  PROVE  \A p \in Partitions : O[p] = {}
<1>1. ASSUME NEW p \in Partitions PROVE O[p] = {}
  <2>1. IsChain(n, tb.heads[p], O[p]) /\ tb.heads[p] = NULL
    BY DEF Holds, Unflushed
  <2>2. QED
    BY <2>1, ChainEnds
<1>2. QED
  BY <1>1

(* Entries N were allocated in table s, whose lists hold them now. *)
AllocatedIn(m, a, s, N) ==
  /\ Local(m, a, s, Range(m.t[s].entries) \cup N)
  /\ Sound(a, s)
  /\ \A e : e \in Range(a.t[s].entries) <=> e \in Range(m.t[s].entries) \/ e \in N
  /\ \A e \in IndexSet(a, s) : e \in IndexSet(m, s) \/ e \in N

(* Rows of a row-at-a-time build: a table that was flushed has a directory *)
(* that is never full again before the next flush.                         *)
RowFill(tb, parallel) ==
  /\ tb.count <= tb.max_fill /\ tb.max_fill = MaxFill(tb.capacity)
  /\ IF parallel
     THEN /\ tb.count < flush_threshold
          /\ \/ tb.max_fill >= flush_threshold
             \/ Unflushed(tb) /\ tb.count = Len(tb.entries)
     ELSE Unflushed(tb) /\ tb.count = Len(tb.entries)

(* Two operations on the same table. *)
LEMMA LocalTwice ==
  ASSUME NEW m, NEW a, NEW b, NEW s, NEW D, NEW E, NEW F, Local(m, a, s, D), Local(a, b, s, E),
         D \subseteq F, E \subseteq F
  PROVE  Local(m, b, s, F)
BY DEF Local

(* A single row as a sequence. *)
LEMMA SingleIs ==
  ASSUME NEW r \in Rows
  PROVE  <<r>> \in Seq(Rows) /\ IsInjective(<<r>>) /\ Range(<<r>>) = {r} /\ Len(<<r>>) = 1
BY DEF IsInjective, Range

(* Table s is ready for one more entry. *)
HasRoom(m, g, s, X, O, par) ==
  /\ Local(m, g, s, Range(m.t[s].entries)) /\ Holds(g.n, g.t[s], X, O)
  /\ g.t[s].entries = m.t[s].entries
  /\ g.t[s].count + 1 <= g.t[s].max_fill /\ g.t[s].count \in Nat /\ g.t[s].max_fill \in Nat
  /\ RowFill(g.t[s], par)

(* Growing when the directory is full: the entries and lists stay. *)
LEMMA GrowIfFull ==
  ASSUME NEW m \in MemType, NEW s \in Tables, NEW X, NEW O, Holds(m.n, m.t[s], X, O),
         NEW par \in BOOLEAN, RowFill(m.t[s], par),
         NEW g, g = IF NeedsToGrow(m, s) THEN Grow(m, s) ELSE m
  PROVE  HasRoom(m, g, s, X, O, par)
<1> DEFINE tb == m.t[s]
<1>1. tb \in TableType /\ m.n \in Links
  BY MemFields
<1>2. tb.count \in Nat /\ tb.max_fill \in Nat /\ tb.capacity \in Nat \ {0} /\ tb.entries \in Seq(Rows)
  BY <1>1, TableFields
<1>3. CASE ~NeedsToGrow(m, s)
  <2>1. g = m /\ ~(tb.count >= tb.max_fill)
    BY <1>3 DEF NeedsToGrow
  <2>2. Local(m, m, s, Range(tb.entries))
    BY DEF Local
  <2>3. tb.count + 1 <= tb.max_fill
    BY <1>2, <2>1
  <2>4. QED
    BY <1>2, <2>1, <2>2, <2>3 DEF HasRoom
<1>4. CASE NeedsToGrow(m, s)
  <2>1. g = Grow(m, s) /\ tb.count >= tb.max_fill
    BY <1>4 DEF NeedsToGrow
  <2>2. Unflushed(tb) /\ tb.count = Len(tb.entries)
    <3>1. CASE par
      <4>1. tb.count < flush_threshold
        BY <3>1 DEF RowFill
      <4>2. ~(tb.max_fill >= flush_threshold)
        BY <1>2, <2>1, <4>1, SizeAssumption
      <4>3. QED
        BY <3>1, <4>2 DEF RowFill
    <3>2. CASE ~par
      BY <3>2 DEF RowFill
    <3>3. QED
      BY <3>1, <3>2
  <2>3. \A p \in Partitions : O[p] = {}
    BY <2>2, UnflushedIs
  <2>4. /\ Local(m, g, s, X) /\ SameLists(g.t[s], tb)
        /\ Holds(g.n, g.t[s], X, O)
        /\ g.t[s].entries = tb.entries /\ g.t[s].count = Len(tb.entries)
        /\ g.t[s].capacity = 4 * tb.capacity
        /\ g.t[s].max_fill = MaxFill(4 * tb.capacity)
    <3>1. Regrown(m, g, s, X, O)
      BY ONLY <2>1, <2>3, m \in MemType, s \in Tables, Holds(m.n, m.t[s], X, O), GrowIs, Zenon
    <3>2. QED
      BY ONLY <3>1 DEF Regrown
  <2>5. X \subseteq Range(tb.entries)
    <3>1. X \subseteq Rows
      BY DEF Holds, IsChain
    <3>2. QED
      BY <3>1 DEF Holds
  <2>6. Local(m, g, s, Range(tb.entries))
    BY <2>4, <2>5 DEF Local
  <2> HIDE DEF tb
  <2>7. tb.count <= tb.max_fill /\ tb.max_fill = MaxFill(tb.capacity)
    BY DEF RowFill, tb
  <2>8. tb.max_fill < g.t[s].max_fill /\ g.t[s].max_fill \in Nat /\ MaxFill(4 * tb.capacity) \in Nat
    <3>1. /\ MaxFill(tb.capacity) < MaxFill(4 * tb.capacity)
          /\ 4 * tb.capacity \in Nat \ {0}
      BY <1>2, MaxFillIs
    <3>2. MaxFill(4 * tb.capacity) \in Nat
      BY <3>1, MaxFillIs
    <3>3. QED
      BY <2>4, <2>7, <3>1, <3>2
  <2>9. g.t[s].count = tb.count
    BY <2>2, <2>4
  <2>10. tb.count + 1 <= g.t[s].max_fill
    BY <1>2, <2>7, <2>8
  <2>11. Unflushed(g.t[s])
    BY <2>2, <2>4 DEF Unflushed, SameLists
  <2>12. par => tb.count < flush_threshold
    BY DEF RowFill, tb
  <2>13. RowFill(g.t[s], par)
    <3>1. tb.count <= g.t[s].max_fill
      BY <1>2, <2>8, <2>10
    <3>2. QED
      BY <2>2, <2>4, <2>9, <2>11, <2>12, <3>1 DEF RowFill
  <2>14. QED
    BY <1>2, <2>4, <2>6, <2>8, <2>9, <2>10, <2>13 DEF HasRoom, tb
<1>5. QED
  BY <1>3, <1>4

(* A row that found no group gets an entry of its own; the table grows     *)
(* before, and is flushed after, when it has to.                           *)
LEMMA AllocRowIs ==
  ASSUME NEW m \in MemType, NEW s \in Tables, Sound(m, s), NEW r \in Rows,
         r \notin Range(m.t[s].entries), NEW par \in BOOLEAN, RowFill(m.t[s], par),
         NEW a, a = IF par THEN AllocInputTuplePartitioned(m, s, r) ELSE AllocInputTuple(m, s, r)
  PROVE  AllocatedIn(m, a, s, {r}) /\ RowFill(a.t[s], par)
<1> DEFINE X == IndexSet(m, s)
           O == OverSets(m, s)
           g == IF NeedsToGrow(m, s) THEN Grow(m, s) ELSE m
           b == AllocateEntries(g, s, <<r>>)
           E == Range(m.t[s].entries)
<1>1. Holds(m.n, m.t[s], X, O)
  BY DEF Sound
<1>2. b = AllocInputTuple(m, s, r) /\ g = IF NeedsToGrow(m, s) THEN Grow(m, s) ELSE m
  BY DEF AllocInputTuple
<1> HIDE DEF g, X, O
<1>3. /\ Local(m, g, s, E) /\ Holds(g.n, g.t[s], X, O)
      /\ g.t[s].entries = m.t[s].entries
      /\ g.t[s].count + 1 <= g.t[s].max_fill /\ g.t[s].count \in Nat /\ g.t[s].max_fill \in Nat
      /\ RowFill(g.t[s], par)
  <2>1. HasRoom(m, g, s, X, O, par)
    BY ONLY <1>1, <1>2, m \in MemType, s \in Tables, par \in BOOLEAN, RowFill(m.t[s], par),
            GrowIfFull, Zenon
  <2>2. QED
    BY ONLY <2>1 DEF HasRoom
<1>4. g \in MemType
  BY <1>3 DEF Local
<1>5. /\ Local(g, b, s, {r}) /\ SameLists(b.t[s], g.t[s])
      /\ Holds(b.n, b.t[s], X \cup {r}, O)
      /\ b.t[s].capacity = g.t[s].capacity /\ b.t[s].max_fill = g.t[s].max_fill
      /\ b.t[s].count = g.t[s].count + 1
      /\ Len(b.t[s].entries) = Len(g.t[s].entries) + 1
      /\ \A e : e \in Range(b.t[s].entries) <=> e \in E \/ e \in {r}
  <2>1. <<r>> \in Seq(Rows) /\ IsInjective(<<r>>) /\ Range(<<r>>) = {r} /\ Len(<<r>>) = 1
    BY SingleIs
  <2>2. Range(<<r>>) \cap Range(g.t[s].entries) = {}
    BY <1>3, <2>1
  <2>3. /\ Local(g, b, s, Range(<<r>>)) /\ SameLists(b.t[s], g.t[s])
        /\ Holds(b.n, b.t[s], X \cup Range(<<r>>), O)
        /\ b.t[s].capacity = g.t[s].capacity /\ b.t[s].max_fill = g.t[s].max_fill
        /\ b.t[s].count = g.t[s].count + Len(<<r>>)
        /\ Len(b.t[s].entries) = Len(g.t[s].entries) + Len(<<r>>)
        /\ \A e : e \in Range(b.t[s].entries) <=>
                  e \in Range(g.t[s].entries) \/ e \in Range(<<r>>)
    BY <1>3, <1>4, <2>1, <2>2, AllocateEntriesIs
  <2>4. QED
    BY ONLY <1>3, <2>1, <2>3
<1> HIDE DEF b, E
<1>6. Local(m, b, s, E \cup {r}) /\ b \in MemType
  <2>1. E \subseteq E \cup {r} /\ {r} \subseteq E \cup {r}
    OBVIOUS
  <2>2. Local(m, b, s, E \cup {r})
    BY <1>3, <1>5, <2>1, LocalTwice
  <2>3. QED
    BY <2>2 DEF Local
<1>7. Sound(b, s) /\ IndexSet(b, s) = X \cup {r} /\ b.n \in Links
  <2>1. b.n \in Links
    BY <1>6, MemFields
  <2>2. QED
    BY <1>5, <2>1, SoundIs
<1>8. /\ b.t[s].count <= b.t[s].max_fill /\ b.t[s].max_fill = MaxFill(b.t[s].capacity)
      /\ b.t[s].count \in Nat /\ b.t[s].max_fill \in Nat
      /\ Unflushed(g.t[s]) => Unflushed(b.t[s])
      /\ g.t[s].count = Len(g.t[s].entries) => b.t[s].count = Len(b.t[s].entries)
  BY ONLY <1>3, <1>5 DEF RowFill, Unflushed, SameLists
<1>9. CASE ~par
  <2>1. a = b
    BY <1>2, <1>9
  <2>2. RowFill(b.t[s], par)
    BY ONLY <1>3, <1>8, <1>9 DEF RowFill
  <2>3. QED
    BY <1>5, <1>6, <1>7, <2>1, <2>2 DEF AllocatedIn, E, X
<1>10. CASE par /\ ~NeedsToFlushToOverflowPartitions(b, s)
  <2>1. a = b
    BY <1>2, <1>10 DEF AllocInputTuplePartitioned
  <2>2. b.t[s].count < flush_threshold
    BY <1>8, <1>10, SizeAssumption DEF NeedsToFlushToOverflowPartitions
  <2>3. RowFill(b.t[s], par)
    BY ONLY <1>3, <1>5, <1>8, <1>10, <2>2 DEF RowFill
  <2>4. QED
    BY <1>5, <1>6, <1>7, <2>1, <2>3 DEF AllocatedIn, E, X
<1>11. CASE par /\ NeedsToFlushToOverflowPartitions(b, s)
  <2>1. a = FlushToOverflowPartitions(b, s) /\ b.t[s].count >= flush_threshold
    BY <1>2, <1>11 DEF AllocInputTuplePartitioned, NeedsToFlushToOverflowPartitions
  <2> DEFINE Q == WithIndex(X \cup {r}, O)
  <2>2. /\ Local(b, a, s, X \cup {r})
        /\ Holds(a.n, a.t[s], {}, Q)
        /\ a.t[s].head = NULL /\ a.t[s].count = 0
        /\ a.t[s].capacity = b.t[s].capacity /\ a.t[s].max_fill = b.t[s].max_fill
        /\ a.t[s].entries = b.t[s].entries
    BY <1>5, <1>6, <2>1, FlushIs
  <2>3. X \subseteq E
    <3>1. X \subseteq Rows
      BY <1>1 DEF Holds, IsChain
    <3>2. QED
      BY <1>1, <3>1 DEF Holds, E
  <2>4. Local(m, a, s, E \cup {r}) /\ a \in MemType
    <3>1. E \cup {r} \subseteq E \cup {r} /\ X \cup {r} \subseteq E \cup {r}
      BY <2>3
    <3>2. Local(m, a, s, E \cup {r})
      BY <1>6, <2>2, <3>1, LocalTwice
    <3>3. QED
      BY <3>2 DEF Local
  <2>5. Sound(a, s) /\ IndexSet(a, s) = {}
    <3>1. a.n \in Links
      BY <2>4, MemFields
    <3>2. QED
      BY <2>2, <3>1, SoundIs
  <2>6. RowFill(a.t[s], par)
    <3>1. a.t[s].count <= a.t[s].max_fill /\ a.t[s].count < flush_threshold
      BY <1>8, <2>2, SizeAssumption
    <3>2. a.t[s].max_fill >= flush_threshold
      BY <1>8, <2>1, <2>2, SizeAssumption
    <3>3. QED
      BY <1>8, <1>11, <2>2, <3>1, <3>2 DEF RowFill
  <2>7. \A e : e \in Range(a.t[s].entries) <=> e \in E \/ e \in {r}
    BY <1>5, <2>2
  <2>8. QED
    BY <2>4, <2>5, <2>6, <2>7 DEF AllocatedIn, E
<1>12. QED
  BY <1>9, <1>10, <1>11

----------------------------------------------------------------------------
(* Vectors *)

(* Keys have one column: agreeing on it is having the same key. *)
OneColumn == \A r \in Rows : Key[r] = <<Key[r][1]>>

GroupType(B) == [map : Seq(B), entry : [B -> Rows \cup {NULL}], keq : SUBSET Rows]

(* While groups are created for the rows M of the vector B that found none *)
(* in the index: the owners of new groups are in the map, each once; the   *)
(* other rows of M are in the group of an owner, or still in key-equal.    *)
Grouping(g, B, M, found) ==
  /\ g \in GroupType(B) /\ IsInjective(g.map)
  /\ g.keq \subseteq M /\ \A r \in g.keq : r \notin Range(g.map)
  /\ \A r \in B \ M : g.entry[r] = found[r]
  /\ \A r \in M : \/ g.entry[r] = NULL /\ r \in g.keq
                  \/ g.entry[r] \in Range(g.map)
  /\ \A r \in Range(g.map) : r \in M /\ g.entry[r] = r
  /\ OneColumn => /\ \A r \in M : g.entry[r] # NULL => Key[g.entry[r]] = Key[r]
                  /\ \A r, q \in Range(g.map) : Key[r] = Key[q] => r = q

(* Adding a row in front of the map. *)
LEMMA MapPush ==
  ASSUME NEW B, NEW q \in Seq(B), IsInjective(q), NEW r \in B, r \notin Range(q)
  PROVE  /\ <<r>> \o q \in Seq(B) /\ IsInjective(<<r>> \o q)
         /\ \A e : e \in Range(<<r>> \o q) <=> e = r \/ e \in Range(q)
<1>1. <<r>> \in Seq(B) /\ IsInjective(<<r>>) /\ Range(<<r>>) = {r}
  BY DEF IsInjective, Range
<1>2. Range(q) \cap Range(<<r>>) = {}
  BY <1>1
<1>3. /\ <<r>> \o q \in Seq(B) /\ IsInjective(<<r>> \o q)
      /\ \A e : e \in Range(<<r>> \o q) <=> e \in Range(<<r>>) \/ e \in Range(q)
  BY <1>1, <1>2, ConcatIs
<1>4. QED
  BY <1>1, <1>3

(* o is the grouping g with row r in a group. *)
Regrouped(g, o, B, M, found, r) ==
  /\ Grouping(o, B, M, found) /\ o.entry[r] # NULL
  /\ \A q \in B : g.entry[q] # NULL => o.entry[q] # NULL

(* FixGrouping puts its row into a group, and the grouping stays right. *)
LEMMA FixGroupingIs ==
  ASSUME NEW B \in SUBSET Rows, NEW M \in SUBSET B, NEW found, NEW g, Grouping(g, B, M, found),
         NEW r \in g.keq, NEW col, OneColumn => col = 1, NEW o, o = FixGrouping(g, r, col)
  PROVE  Regrouped(g, o, B, M, found, r)
<1> DEFINE map == g.map
           hit == {i \in DOMAIN map : /\ Slot[Key[map[i]]] = Slot[Key[r]]
                                      /\ Key[map[i]][col] = Key[r][col]}
<1>1. /\ g \in GroupType(B) /\ map \in Seq(B) /\ g.entry \in [B -> Rows \cup {NULL}]
      /\ g.keq \in SUBSET Rows /\ IsInjective(map) /\ r \in M /\ r \in B /\ r \notin Range(map)
  BY DEF Grouping, GroupType
<1>2. /\ DOMAIN map = 1 .. Len(map)
      /\ \A e : e \in Range(map) <=> \E i \in 1 .. Len(map) : e = map[i]
  BY <1>1, InRange
<1>3. hit \in SUBSET Nat /\ hit \subseteq 1 .. Len(map)
  BY <1>2
<1>4. o = IF hit # {}
          THEN [map |-> map, entry |-> [g.entry EXCEPT ![r] = g.entry[map[Min(hit)]]],
                keq |-> g.keq]
          ELSE [map |-> <<r>> \o map, entry |-> [g.entry EXCEPT ![r] = r], keq |-> g.keq \ {r}]
  BY DEF FixGrouping
<1>5. /\ \A i \in hit : Key[map[i]][col] = Key[r][col]
      /\ \A i \in 1 .. Len(map) : Key[map[i]] = Key[r] => i \in hit
  BY <1>2
<1> HIDE DEF map, hit
<1>6. r \in Rows /\ r # NULL
  BY <1>1, RowsAssumption
<1>7. CASE hit # {}
  <2> DEFINE q == map[Min(hit)]
  <2>1. Min(hit) \in hit
    BY <1>3, <1>7, MinIsLeast
  <2>2. q \in Range(map) /\ q \in B /\ q # NULL
    <3>1. Min(hit) \in 1 .. Len(map)
      BY <1>3, <2>1
    <3>2. q \in B /\ q \in Range(map)
      BY <1>1, <1>2, <3>1
    <3>3. QED
      BY <3>2, RowsAssumption
  <2>3. g.entry[q] = q
    BY <2>2 DEF Grouping, map
  <2> HIDE DEF q
  <2>4. /\ o.map = map /\ o.entry = [g.entry EXCEPT ![r] = q] /\ o.keq = g.keq
        /\ o = [map |-> o.map, entry |-> o.entry, keq |-> o.keq]
    BY <1>4, <1>7, <2>3 DEF q
  <2>5. o.entry \in [B -> Rows \cup {NULL}] /\ o.entry[r] = q /\ \A e \in B \ {r} : o.entry[e] = g.entry[e]
    BY ONLY <1>1, <2>2, <2>4, B \in SUBSET Rows
  <2>6. o \in GroupType(B)
    BY ONLY <1>1, <2>4, <2>5 DEF GroupType
  <2>7. OneColumn => Key[q] = Key[r]
    <3>1. Key[q][col] = Key[r][col]
      BY <1>5, <2>1 DEF q
    <3>2. q \in Rows
      BY <2>2
    <3>3. QED
      BY <1>6, <3>1, <3>2 DEF OneColumn
  <2>8. Grouping(o, B, M, found)
    <3>1. /\ IsInjective(o.map) /\ o.keq \subseteq M /\ \A e \in o.keq : e \notin Range(o.map)
          /\ \A e \in B \ M : o.entry[e] = found[e]
      BY <1>1, <2>4, <2>5 DEF Grouping, map
    <3>2. ASSUME NEW e \in M
          PROVE  \/ o.entry[e] = NULL /\ e \in o.keq
                 \/ o.entry[e] \in Range(o.map)
      <4>1. CASE e = r
        BY <2>2, <2>4, <2>5, <4>1
      <4>2. CASE e # r
        BY <2>4, <2>5, <4>2 DEF Grouping, map
      <4>3. QED
        BY <4>1, <4>2
    <3>3. ASSUME NEW e \in Range(o.map) PROVE e \in M /\ o.entry[e] = e
      BY <1>1, <2>4, <2>5 DEF Grouping, map
    <3>4. OneColumn => /\ \A e \in M : o.entry[e] # NULL => Key[o.entry[e]] = Key[e]
                       /\ \A e, f \in Range(o.map) : Key[e] = Key[f] => e = f
      <4>1. SUFFICES ASSUME OneColumn
                     PROVE  /\ \A e \in M : o.entry[e] # NULL => Key[o.entry[e]] = Key[e]
                            /\ \A e, f \in Range(o.map) : Key[e] = Key[f] => e = f
        OBVIOUS
      <4>2. /\ \A e \in M : g.entry[e] # NULL => Key[g.entry[e]] = Key[e]
            /\ \A e, f \in Range(map) : Key[e] = Key[f] => e = f
        BY <4>1 DEF Grouping, map
      <4>3. ASSUME NEW e \in M, o.entry[e] # NULL PROVE Key[o.entry[e]] = Key[e]
        <5>1. CASE e = r
          BY <2>5, <2>7, <4>1, <5>1
        <5>2. CASE e # r
          BY <2>5, <4>2, <4>3, <5>2
        <5>3. QED
          BY <5>1, <5>2
      <4>4. QED
        BY <2>4, <4>2, <4>3
    <3>5. QED
      BY <2>6, <3>1, <3>2, <3>3, <3>4 DEF Grouping
  <2>9. QED
    BY <2>2, <2>5, <2>8 DEF Regrouped
<1>8. CASE hit = {}
  <2>1. /\ o.map = <<r>> \o map /\ o.entry = [g.entry EXCEPT ![r] = r] /\ o.keq = g.keq \ {r}
        /\ o = [map |-> o.map, entry |-> o.entry, keq |-> o.keq]
    BY <1>4, <1>8
  <2>2. /\ o.map \in Seq(B) /\ IsInjective(o.map)
        /\ \A e : e \in Range(o.map) <=> e = r \/ e \in Range(map)
    BY <1>1, <2>1, MapPush
  <2>3. o.entry \in [B -> Rows \cup {NULL}] /\ o.entry[r] = r /\ \A e \in B \ {r} : o.entry[e] = g.entry[e]
    BY ONLY <1>1, <1>6, <2>1, B \in SUBSET Rows
  <2>4. o \in GroupType(B)
    <3>1. o.keq \in SUBSET Rows
      BY <1>1, <2>1
    <3>2. QED
      BY ONLY <2>1, <2>2, <2>3, <3>1 DEF GroupType
  <2>5. \A e \in Range(map) : Key[e] # Key[r]
    BY <1>2, <1>5, <1>8
  <2>6. Grouping(o, B, M, found)
    <3>1. o.keq \subseteq M /\ (\A e \in o.keq : e \notin Range(o.map))
      BY <2>1, <2>2 DEF Grouping, map
    <3>2. \A e \in B \ M : o.entry[e] = found[e]
      BY <1>1, <2>3 DEF Grouping
    <3>3. ASSUME NEW e \in M
          PROVE  \/ o.entry[e] = NULL /\ e \in o.keq
                 \/ o.entry[e] \in Range(o.map)
      <4>1. CASE e = r
        BY <2>2, <2>3, <4>1
      <4>2. CASE e # r
        BY <2>1, <2>2, <2>3, <4>2 DEF Grouping, map
      <4>3. QED
        BY <4>1, <4>2
    <3>4. ASSUME NEW e \in Range(o.map) PROVE e \in M /\ o.entry[e] = e
      BY <1>1, <2>2, <2>3 DEF Grouping, map
    <3>5. OneColumn => /\ \A e \in M : o.entry[e] # NULL => Key[o.entry[e]] = Key[e]
                       /\ \A e, f \in Range(o.map) : Key[e] = Key[f] => e = f
      <4>1. SUFFICES ASSUME OneColumn
                     PROVE  /\ \A e \in M : o.entry[e] # NULL => Key[o.entry[e]] = Key[e]
                            /\ \A e, f \in Range(o.map) : Key[e] = Key[f] => e = f
        OBVIOUS
      <4>2. /\ \A e \in M : g.entry[e] # NULL => Key[g.entry[e]] = Key[e]
            /\ \A e, f \in Range(map) : Key[e] = Key[f] => e = f
        BY <4>1 DEF Grouping, map
      <4>3. ASSUME NEW e \in M, o.entry[e] # NULL PROVE Key[o.entry[e]] = Key[e]
        <5>1. CASE e = r
          BY <2>3, <5>1
        <5>2. CASE e # r
          BY <2>3, <4>2, <4>3, <5>2
        <5>3. QED
          BY <5>1, <5>2
      <4>4. QED
        BY <2>2, <2>5, <4>2, <4>3
    <3>6. QED
      BY <2>2, <2>4, <3>1, <3>2, <3>3, <3>4, <3>5 DEF Grouping
  <2>7. QED
    BY <1>6, <2>3, <2>6 DEF Regrouped
<1>9. QED
  BY <1>7, <1>8

(* FixGrouping, as a step that can be iterated. *)
LEMMA FixGroupingType ==
  ASSUME NEW B \in SUBSET Rows, NEW g \in GroupType(B), NEW r \in B, NEW col
  PROVE  FixGrouping(g, r, col) \in GroupType(B)
<1> DEFINE map == g.map
           hit == {i \in DOMAIN map : /\ Slot[Key[map[i]]] = Slot[Key[r]]
                                      /\ Key[map[i]][col] = Key[r][col]}
           o == FixGrouping(g, r, col)
<1>1. map \in Seq(B) /\ g.entry \in [B -> Rows \cup {NULL}] /\ g.keq \in SUBSET Rows
  BY DEF GroupType
<1>2. DOMAIN map = 1 .. Len(map)
  BY <1>1
<1>3. hit \in SUBSET Nat /\ hit \subseteq 1 .. Len(map)
  BY <1>2
<1>4. o = IF hit # {}
          THEN [map |-> map, entry |-> [g.entry EXCEPT ![r] = g.entry[map[Min(hit)]]],
                keq |-> g.keq]
          ELSE [map |-> <<r>> \o map, entry |-> [g.entry EXCEPT ![r] = r], keq |-> g.keq \ {r}]
  BY DEF FixGrouping
<1> HIDE DEF map, hit, o
<1>5. CASE hit # {}
  <2>1. Min(hit) \in 1 .. Len(map)
    BY <1>3, <1>5, MinIsLeast
  <2>2. map[Min(hit)] \in B
    BY <1>1, <2>1
  <2> DEFINE q == g.entry[map[Min(hit)]]
  <2>3. q \in Rows \cup {NULL}
    BY <1>1, <2>2
  <2>4. o = [map |-> map, entry |-> [g.entry EXCEPT ![r] = q], keq |-> g.keq]
    BY <1>4, <1>5
  <2> HIDE DEF q
  <2>5. [g.entry EXCEPT ![r] = q] \in [B -> Rows \cup {NULL}]
    BY <1>1, <2>3
  <2>6. QED
    BY <1>1, <2>4, <2>5 DEF GroupType, o
<1>6. CASE hit = {}
  <2>1. o = [map |-> <<r>> \o map, entry |-> [g.entry EXCEPT ![r] = r], keq |-> g.keq \ {r}]
    BY <1>4, <1>6
  <2>2. [g.entry EXCEPT ![r] = r] \in [B -> Rows \cup {NULL}]
    BY <1>1
  <2>3. <<r>> \o map \in Seq(B) /\ g.keq \ {r} \in SUBSET Rows
    BY <1>1
  <2>4. QED
    BY <2>1, <2>2, <2>3 DEF GroupType, o
<1>7. QED
  BY <1>5, <1>6

GroupStart(B, found) ==
  [map |-> <<>>, entry |-> found, keq |-> {r \in B : found[r] = NULL}]

GroupRow(batch, i) == batch[1 + ((i - 1) % Len(batch))]

GroupStep(batch, g, i) ==
  IF GroupRow(batch, i) \in g.keq
  THEN FixGrouping(g, GroupRow(batch, i), 1 + ((i - 1) \div Len(batch))) ELSE g

(* The row of a step is one of the vector. *)
LEMMA GroupRowIs ==
  ASSUME NEW batch \in Seq(Rows), batch # <<>>, NEW i \in Nat \ {0}
  PROVE  /\ 1 + ((i - 1) % Len(batch)) \in 1 .. Len(batch)
         /\ GroupRow(batch, i) \in Range(batch)
         /\ i <= Len(batch) => GroupRow(batch, i) = batch[i] /\ 1 + ((i - 1) \div Len(batch)) = 1
<1> DEFINE k == Len(batch)
           j == i - 1
<1>1. k \in Nat \ {0} /\ j \in Nat
  OBVIOUS
<1>2. \A e : e \in Range(batch) <=> \E x \in 1 .. k : e = batch[x]
  BY InRange
<1>3. i <= k => j < k /\ 1 + j = i
  OBVIOUS
<1> HIDE DEF k, j
<1>4. j % k \in 0 .. k - 1
  BY <1>1
<1>5. 1 + (j % k) \in 1 .. k
  BY <1>1, <1>4
<1>6. j < k => j % k = j /\ j \div k = 0
  BY <1>1
<1>7. QED
  BY <1>2, <1>3, <1>5, <1>6 DEF GroupRow, k, j

(* CreateMissingGroups takes one step after the other. *)
LEMMA CreateSteps ==
  ASSUME NEW batch \in Seq(Rows), batch # <<>>, NEW B, B = Range(batch),
         NEW found \in [B -> Rows \cup {NULL}],
         NEW n \in Nat, n = Len(Key[batch[1]]) * Len(batch)
  PROVE  \E f : /\ f[0] = GroupStart(B, found)
                /\ \A i \in 1 .. n : f[i] = GroupStep(batch, f[i - 1], i)
                /\ CreateMissingGroups(batch, found) = f[n]
<1> DEFINE V == GroupType(B)
           H == [i \in 1 .. n |-> [g \in V |-> GroupStep(batch, g, i)]]
           a == GroupStart(B, found)
<1>1. B \in SUBSET Rows
  BY RangeFinite
<1>2. a \in V
  <2>1. {r \in B : found[r] = NULL} \in SUBSET Rows
    BY <1>1
  <2>2. <<>> \in Seq(B)
    OBVIOUS
  <2>3. QED
    BY <2>1, <2>2 DEF GroupType, GroupStart
<1>3. ASSUME NEW i \in 1 .. n, NEW g \in V PROVE GroupStep(batch, g, i) \in V
  <2>1. GroupRow(batch, i) \in B
    BY GroupRowIs
  <2>2. QED
    BY <1>1, <2>1, FixGroupingType DEF GroupStep
<1> HIDE DEF V, a
<1>4. H \in [1 .. n -> [V -> V]] /\ \A i \in 1 .. n : \A g \in V : H[i][g] = GroupStep(batch, g, i)
  BY <1>3
<1> HIDE DEF H
<1>5. PICK f \in [0 .. n -> V] : Iterates(f, a, H, n)
  BY <1>2, <1>4, Iteration
<1> DEFINE F(at) == [i \in 0 .. Len(Key[batch[1]]) * Len(batch) |->
                       IF i = 0
                       THEN [map |-> <<>>, entry |-> found,
                             keq |-> {r \in Range(batch) : found[r] = NULL}]
                       ELSE LET g == at[i - 1]
                                r == batch[1 + ((i - 1) % Len(batch))]
                            IN  IF r \in g.keq
                                THEN FixGrouping(g, r, 1 + ((i - 1) \div Len(batch))) ELSE g]
           c == CHOOSE at : at = F(at)
<1>6. ASSUME NEW at PROVE F(at) = [i \in 0 .. n |-> IF i = 0 THEN a ELSE GroupStep(batch, at[i - 1], i)]
  BY DEF GroupStep, GroupRow, GroupStart, a
<1>7. CreateMissingGroups(batch, found) = c[n]
  BY DEF CreateMissingGroups
<1> HIDE DEF F
<1>8. f = F(f)
  <2>1. \A i \in 1 .. n : f[i] = GroupStep(batch, f[i - 1], i)
    <3>1. ASSUME NEW i \in 1 .. n PROVE f[i] = GroupStep(batch, f[i - 1], i)
      <4>1. i - 1 \in 0 .. n
        OBVIOUS
      <4>2. f[i] = H[i][f[i - 1]] /\ f[i - 1] \in V
        BY <1>5, <4>1 DEF Iterates
      <4>3. QED
        BY <1>4, <4>2
    <3>2. QED
      BY <3>1
  <2>2. f[0] = a
    BY <1>5 DEF Iterates
  <2>3. \A i \in 0 .. n : F(f)[i] = f[i]
    BY <1>6, <2>1, <2>2
  <2>4. f = [i \in 0 .. n |-> f[i]] /\ F(f) = [i \in 0 .. n |-> F(f)[i]]
    BY <1>5, <1>6
  <2>5. QED
    BY <2>3, <2>4
<1>9. c = F(c)
  BY <1>8, Zenon
<1> HIDE DEF c
<1>10. \A i \in 0 .. n : c[i] = IF i = 0 THEN a ELSE GroupStep(batch, c[i - 1], i)
  <2>1. \A i \in 0 .. n : F(c)[i] = IF i = 0 THEN a ELSE GroupStep(batch, c[i - 1], i)
    BY <1>6
  <2>2. QED
    BY <1>9, <2>1
<1>11. c[0] = a /\ \A i \in 1 .. n : c[i] = GroupStep(batch, c[i - 1], i)
  BY <1>10
<1>12. QED
  BY <1>7, <1>11 DEF a

(* CreateMissingGroups puts every row that found no group into the group   *)
(* of a row that owns one, which is its own key's if keys have one column. *)
LEMMA CreateMissingGroupsIs ==
  ASSUME NEW batch \in Seq(Rows), batch # <<>>, NEW B, B = Range(batch),
         NEW found \in [B -> Rows \cup {NULL}], NEW M, M = {r \in B : found[r] = NULL},
         NEW g, g = CreateMissingGroups(batch, found)
  PROVE  Grouping(g, B, M, found) /\ \A r \in M : g.entry[r] \in Range(g.map)
<1> DEFINE k == Len(batch)
           l == Len(Key[batch[1]])
           n == l * k
           Done(h, i) == Grouping(h, B, M, found)
                         /\ \A j \in 1 .. k : j <= i /\ batch[j] \in M => h.entry[batch[j]] # NULL
<1>1. B \in SUBSET Rows /\ M \in SUBSET B /\ M \in SUBSET Rows
  BY RangeFinite
<1>2. k \in Nat \ {0} /\ \A e : e \in B <=> \E i \in 1 .. k : e = batch[i]
  BY InRange
<1>3. l \in Nat \ {0}
  BY KeyAssumption, <1>2
<1>4. OneColumn => l = 1
  <2>1. batch[1] \in Rows
    BY <1>2
  <2>2. ASSUME OneColumn PROVE l = 1
    <3>1. Key[batch[1]] = <<Key[batch[1]][1]>>
      BY <2>1, <2>2 DEF OneColumn
    <3>2. Len(<<Key[batch[1]][1]>>) = 1
      OBVIOUS
    <3>3. QED
      BY <3>1, <3>2
  <2>3. QED
    BY <2>2
<1>5. n = Len(Key[batch[1]]) * Len(batch)
  OBVIOUS
<1> HIDE DEF k, l
<1>6. n \in Nat /\ k <= n /\ (OneColumn => n = k)
  BY <1>2, <1>3, <1>4
<1> HIDE DEF n
<1>7. PICK f : /\ f[0] = GroupStart(B, found)
               /\ \A i \in 1 .. n : f[i] = GroupStep(batch, f[i - 1], i)
               /\ g = f[n]
  BY <1>5, <1>6, CreateSteps
<1> DEFINE P == {i \in Nat : i \in 0 .. n => Done(f[i], i)}
<1>8. 0 \in P
  <2> DEFINE h == GroupStart(B, found)
  <2>1. h.map = <<>> /\ h.entry = found /\ h.keq = M
    BY DEF GroupStart
  <2>2. h \in GroupType(B)
    <3>1. <<>> \in Seq(B)
      OBVIOUS
    <3>2. QED
      BY <1>1, <3>1 DEF GroupType, GroupStart
  <2> HIDE DEF h
  <2>3. IsInjective(<<>>) /\ Range(<<>>) = {}
    BY DEF IsInjective, Range
  <2>4. Grouping(h, B, M, found)
    BY <1>1, <2>1, <2>2, <2>3 DEF Grouping
  <2>5. \A j \in 1 .. k : ~(j <= 0)
    OBVIOUS
  <2>6. QED
    BY <1>7, <2>4, <2>5 DEF h
<1>9. ASSUME NEW i \in 0 .. n - 1, i \in P PROVE i + 1 \in P
  <2> DEFINE h == f[i]
             o == f[i + 1]
             r == GroupRow(batch, i + 1)
             col == 1 + (((i + 1) - 1) \div Len(batch))
  <2>1. i \in 0 .. n /\ i + 1 \in 1 .. n /\ (i + 1) - 1 = i /\ i + 1 \in Nat \ {0}
    BY <1>6
  <2>2. Done(h, i)
    BY <1>9, <2>1
  <2>3. o = GroupStep(batch, h, i + 1)
    BY <1>7, <2>1
  <2>4. /\ r \in B
        /\ i + 1 <= k => r = batch[i + 1] /\ col = 1
    BY <2>1, GroupRowIs DEF k
  <2>5. o = IF r \in h.keq THEN FixGrouping(h, r, col) ELSE h
    BY <2>3 DEF GroupStep
  <2> HIDE DEF h, o, r, col
  <2>6. CASE r \in h.keq
    <3>1. OneColumn => col = 1
      BY <1>2, <1>6, <2>1, <2>4
    <3>2. /\ Grouping(o, B, M, found) /\ o.entry[r] # NULL
          /\ \A q \in B : h.entry[q] # NULL => o.entry[q] # NULL
      <4>1. o = FixGrouping(h, r, col) /\ Grouping(h, B, M, found)
        BY <2>2, <2>5, <2>6
      <4>2. Regrouped(h, o, B, M, found, r)
        BY ONLY <1>1, <2>6, <3>1, <4>1, FixGroupingIs, Zenon
      <4>3. QED
        BY ONLY <4>2 DEF Regrouped
    <3>3. ASSUME NEW j \in 1 .. k, j <= i + 1, batch[j] \in M PROVE o.entry[batch[j]] # NULL
      <4>1. CASE j = i + 1
        BY <2>4, <3>2, <3>3, <4>1
      <4>2. CASE j # i + 1
        <5>1. j <= i
          BY <2>1, <3>3, <4>2
        <5>2. QED
          BY <1>1, <2>2, <3>2, <3>3, <5>1
      <4>3. QED
        BY <4>1, <4>2
    <3>4. QED
      BY <2>1, <3>2, <3>3 DEF o
  <2>7. CASE r \notin h.keq
    <3>1. o = h
      BY <2>5, <2>7
    <3>2. ASSUME NEW j \in 1 .. k, j <= i + 1, batch[j] \in M PROVE h.entry[batch[j]] # NULL
      <4>1. CASE j = i + 1
        <5>1. r \in M /\ r = batch[j]
          BY <2>4, <3>2, <4>1
        <5>2. h.entry[r] \in Range(h.map) /\ h.map \in Seq(B)
          BY <2>2, <2>7, <5>1 DEF Grouping, GroupType
        <5>3. NULL \notin B
          BY <1>1, RowsAssumption
        <5>4. QED
          BY <5>1, <5>2, <5>3, RangeFinite
      <4>2. CASE j # i + 1
        <5>1. j <= i
          BY <2>1, <3>2, <4>2
        <5>2. QED
          BY <2>2, <3>2, <5>1
      <4>3. QED
        BY <4>1, <4>2
    <3>3. QED
      BY <2>1, <2>2, <3>1, <3>2 DEF o
  <2>8. QED
    BY <2>6, <2>7
<1> HIDE DEF P
<1>10. 0 .. n \subseteq P
  BY <1>6, <1>8, <1>9, UpTo
<1>11. Done(g, n)
  <2>1. n \in 0 .. n
    BY <1>6
  <2>2. n \in P
    BY <1>10, <2>1
  <2>3. Done(f[n], n)
    BY <2>1, <2>2 DEF P
  <2>4. QED
    BY <1>7, <2>3
<1>12. ASSUME NEW r \in M PROVE g.entry[r] \in Range(g.map)
  <2>1. PICK j \in 1 .. k : r = batch[j]
    BY <1>1, <1>2
  <2>2. j <= n
    BY <1>2, <1>6
  <2>3. g.entry[r] # NULL
    BY <1>11, <2>1, <2>2
  <2>4. QED
    BY <1>11, <2>3 DEF Grouping
<1>13. QED
  BY <1>11, <1>12

(* Reversing a sequence keeps its elements. *)
LEMMA ReverseIs ==
  ASSUME NEW S, NEW q \in Seq(S), IsInjective(q)
  PROVE  /\ Reverse(q) \in Seq(S) /\ IsInjective(Reverse(q)) /\ Range(Reverse(q)) = Range(q)
<1> DEFINE k == Len(q)
           v == Reverse(q)
<1>1. /\ k \in Nat /\ DOMAIN q = 1 .. k /\ v = [i \in 1 .. k |-> q[(k - i) + 1]]
      /\ \A i \in 1 .. k : q[i] \in S
  BY DEF Reverse
<1>2. \A e : e \in Range(q) <=> \E i \in 1 .. k : e = q[i]
  BY InRange
<1> HIDE DEF k, v
<1>3. \A i \in 1 .. k : (k - i) + 1 \in 1 .. k /\ (k - ((k - i) + 1)) + 1 = i
  BY <1>1
<1>4. v \in [1 .. k -> S]
  BY <1>1, <1>3
<1>5. v \in Seq(S) /\ Len(v) = k /\ DOMAIN v = 1 .. k
  BY <1>1, <1>4
<1>6. \A i \in 1 .. k : v[i] = q[(k - i) + 1]
  BY <1>1
<1>7. \A e : e \in Range(v) <=> \E i \in 1 .. k : e = v[i]
  BY <1>5, InRange
<1>8. ASSUME NEW e \in Range(v) PROVE e \in Range(q)
  BY <1>2, <1>3, <1>6, <1>7
<1>9. ASSUME NEW e \in Range(q) PROVE e \in Range(v)
  <2>1. PICK i \in 1 .. k : e = q[i]
    BY <1>2
  <2> DEFINE j == (k - i) + 1
  <2>2. j \in 1 .. k /\ (k - j) + 1 = i
    BY <1>3
  <2> HIDE DEF j
  <2>3. v[j] = e
    BY <1>6, <2>1, <2>2
  <2>4. QED
    BY <1>7, <2>2, <2>3
<1>10. ASSUME NEW i \in 1 .. k, NEW j \in 1 .. k, v[i] = v[j] PROVE i = j
  <2>1. (k - i) + 1 = (k - j) + 1
    BY <1>1, <1>3, <1>6, <1>10 DEF IsInjective
  <2>2. QED
    BY <1>1, <2>1
<1>11. IsInjective(v)
  BY <1>5, <1>10 DEF IsInjective
<1>12. Range(v) = Range(q)
  BY <1>8, <1>9
<1>13. QED
  BY <1>5, <1>11, <1>12 DEF v

(* The tables after a vector: flushed or grown once all entries are in. *)
AfterVector(b, s, par) ==
  CASE par /\ NeedsToFlushToOverflowPartitions(b, s) -> FlushToOverflowPartitions(b, s)
    [] ~par /\ NeedsToGrow(b, s) -> Grow(b, s)
    [] OTHER -> b

(* The owners of the new groups of a vector get entries; the table is      *)
(* flushed or grown afterwards.                                            *)
LEMMA AllocBatchIs ==
  ASSUME NEW m \in MemType, NEW s \in Tables, Sound(m, s), NEW q \in Seq(Rows), IsInjective(q),
         Range(q) \cap Range(m.t[s].entries) = {}, NEW par \in BOOLEAN,
         ~par => Unflushed(m.t[s]),
         NEW b, b = AllocateEntries(m, s, Reverse(q)), NEW a, a = AfterVector(b, s, par)
  PROVE  AllocatedIn(m, a, s, Range(q)) /\ (~par => Unflushed(a.t[s]))
<1> DEFINE X == IndexSet(m, s)
           O == OverSets(m, s)
           E == Range(m.t[s].entries)
           N == Range(q)
           v == Reverse(q)
<1>1. Holds(m.n, m.t[s], X, O)
  BY DEF Sound
<1>2. v \in Seq(Rows) /\ IsInjective(v) /\ Range(v) = N
  BY ReverseIs
<1> HIDE DEF X, O, v, N
<1>3. /\ Local(m, b, s, N) /\ SameLists(b.t[s], m.t[s])
      /\ Holds(b.n, b.t[s], X \cup N, O)
      /\ \A e : e \in Range(b.t[s].entries) <=> e \in E \/ e \in N
  <2>1. Range(v) \cap Range(m.t[s].entries) = {}
    BY <1>2 DEF N
  <2>2. b = AllocateEntries(m, s, v)
    BY DEF v
  <2>3. /\ Local(m, b, s, Range(v)) /\ SameLists(b.t[s], m.t[s])
        /\ Holds(b.n, b.t[s], X \cup Range(v), O)
        /\ \A e : e \in Range(b.t[s].entries) <=> e \in Range(m.t[s].entries) \/ e \in Range(v)
    BY ONLY <1>1, <1>2, <2>1, <2>2, m \in MemType, s \in Tables, AllocateEntriesIs
  <2>4. QED
    BY ONLY <1>2, <2>3
<1>4. b \in MemType /\ Local(m, b, s, E \cup N)
  BY ONLY <1>3 DEF Local
<1>5. /\ X \cup N \subseteq E \cup N
      /\ ~par => Unflushed(b.t[s])
  <2>1. X \subseteq Rows
    BY <1>1 DEF Holds, IsChain
  <2>2. X \subseteq E
    BY <1>1, <2>1 DEF Holds
  <2>3. ~par => Unflushed(b.t[s])
    BY <1>3 DEF Unflushed, SameLists
  <2>4. QED
    BY <2>2, <2>3
<1> HIDE DEF E
<1>6. CASE a = b
  <2>1. b.n \in Links
    BY <1>4, MemFields
  <2>2. Sound(b, s) /\ IndexSet(b, s) = X \cup N
    BY <1>3, <2>1, SoundIs
  <2>3. QED
    BY <1>3, <1>4, <1>5, <1>6, <2>2 DEF AllocatedIn, E, X, N
<1>7. CASE par /\ a = FlushToOverflowPartitions(b, s)
  <2> DEFINE Q == WithIndex(X \cup N, O)
  <2>1. /\ Local(b, a, s, X \cup N) /\ Holds(a.n, a.t[s], {}, Q)
        /\ a.t[s].entries = b.t[s].entries
    BY ONLY <1>3, <1>4, <1>7, s \in Tables, FlushIs
  <2>2. Local(m, a, s, E \cup N) /\ a \in MemType
    <3>1. E \cup N \subseteq E \cup N /\ X \cup N \subseteq E \cup N
      BY <1>5
    <3>2. Local(m, a, s, E \cup N)
      BY <1>4, <2>1, <3>1, LocalTwice
    <3>3. QED
      BY <3>2 DEF Local
  <2>3. Sound(a, s) /\ IndexSet(a, s) = {}
    <3>1. a.n \in Links
      BY <2>2, MemFields
    <3>2. QED
      BY <2>1, <3>1, SoundIs
  <2>4. QED
    BY <1>3, <1>7, <2>1, <2>2, <2>3 DEF AllocatedIn, E, N
<1>8. CASE ~par /\ a = Grow(b, s)
  <2>1. \A p \in Partitions : O[p] = {}
    BY <1>3, <1>5, <1>8, UnflushedIs
  <2>2. Regrown(b, a, s, X \cup N, O)
    BY ONLY <1>3, <1>4, <1>8, <2>1, s \in Tables, GrowIs, Zenon
  <2>3. /\ Local(b, a, s, X \cup N) /\ SameLists(a.t[s], b.t[s])
        /\ Holds(a.n, a.t[s], X \cup N, O) /\ a.t[s].entries = b.t[s].entries
    BY ONLY <2>2 DEF Regrown
  <2>4. Local(m, a, s, E \cup N) /\ a \in MemType
    <3>1. E \cup N \subseteq E \cup N /\ X \cup N \subseteq E \cup N
      BY <1>5
    <3>2. Local(m, a, s, E \cup N)
      BY <1>4, <2>3, <3>1, LocalTwice
    <3>3. QED
      BY <3>2 DEF Local
  <2>5. Sound(a, s) /\ IndexSet(a, s) = X \cup N
    <3>1. a.n \in Links
      BY <2>4, MemFields
    <3>2. QED
      BY <2>3, <3>1, SoundIs
  <2>6. Unflushed(a.t[s])
    BY <1>5, <1>8, <2>3 DEF Unflushed, SameLists
  <2>7. QED
    BY <1>3, <2>3, <2>4, <2>5, <2>6 DEF AllocatedIn, E, X, N
<1>9. QED
  BY <1>6, <1>7, <1>8 DEF AfterVector

----------------------------------------------------------------------------
(* Transferring the thread-local tables *)

(* No entry belongs to two tables. *)
Apart(m) ==
  \A u, v \in Tables : u # v => Range(m.t[u].entries) \cap Range(m.t[v].entries) = {}

(* All entries of the tables D. *)
Gathered(m, D) == {e \in Rows : \E u \in D : e \in Range(m.t[u].entries)}

(* The overflow partitions of a table hold exactly the entries E. *)
Partitioned(n, tb, E) ==
  \A p \in Partitions : /\ IsChain(n, tb.heads[p], {e \in E : PartOf(e) = p})
                        /\ EndsAt(n, {e \in E : PartOf(e) = p}, tb.tails[p])

(* In memory b the tables D of memory m were transferred, and no other. *)
Transferred(m, b, D) ==
  /\ b \in MemType
  /\ \A u \in Workers \ D : /\ b.t[u] = m.t[u]
                            /\ \A e \in Range(m.t[u].entries) : b.n[e] = m.n[e]
  /\ \A u \in D : b.t[u].entries = <<>> /\ b.t[u].head = NULL
  /\ \A p \in Partitions : b.t[p] = m.t[p]
  /\ b.t[Global].head = NULL /\ b.t[Global].entries = <<>>
  /\ Partitioned(b.n, b.t[Global], Gathered(m, D))

(* The lists of the table tb, which is table s now, and those of the       *)
(* global table were joined.                                               *)
Spliced(m, a, s, tb, G, E) ==
  /\ a \in MemType /\ a.t[s] = tb
  /\ \A u \in Tables \ {s, Global} : a.t[u] = m.t[u]
  /\ \A e \in Rows \ E : a.n[e] = m.n[e]
  /\ a.t[Global].head = m.t[Global].head /\ a.t[Global].entries = m.t[Global].entries
  /\ Partitioned(a.n, a.t[Global], G \cup E)

(* Splicing puts each list of the global table behind that of table s. *)
LEMMA SpliceIs ==
  ASSUME NEW m \in MemType, NEW s \in Workers, NEW tb \in TableType,
         NEW E \in SUBSET Rows, Partitioned(m.n, tb, E),
         NEW G \in SUBSET Rows, Partitioned(m.n, m.t[Global], G), E \cap G = {},
         NEW a, a = Splice(m, s, tb)
  PROVE  Spliced(m, a, s, tb, G, E)
<1> DEFINE g == m.t[Global]
           live == {p \in Partitions : tb.heads[p] # NULL}
           heads == [p \in Partitions |-> IF p \in live THEN tb.heads[p] ELSE g.heads[p]]
           tails == [p \in Partitions |->
                       IF p \in live /\ g.tails[p] = NULL THEN tb.tails[p] ELSE g.tails[p]]
           new == [head |-> g.head, count |-> g.count, capacity |-> g.capacity,
                   max_fill |-> g.max_fill, entries |-> g.entries,
                   heads |-> heads, tails |-> tails]
           o == [e \in Rows |-> IF \E p \in live : e = tb.tails[p]
                                THEN g.heads[PartOf(e)] ELSE m.n[e]]
           In(p) == {e \in E : PartOf(e) = p}
           Ours(p) == {e \in G : PartOf(e) = p}
<1>1. Global \in Tables /\ s \in Tables /\ s # Global
  BY TablesAssumption DEF Tables
<1>2. g \in TableType /\ m.n \in Links /\ m.t \in [Tables -> TableType]
  BY <1>1, MemFields
<1>3. /\ g.head \in Rows \cup {NULL} /\ g.count \in Nat /\ g.capacity \in Nat \ {0}
      /\ g.max_fill \in Nat /\ g.entries \in Seq(Rows)
      /\ g.heads \in [Partitions -> Rows \cup {NULL}] /\ g.tails \in [Partitions -> Rows \cup {NULL}]
  BY <1>2, TableFields
<1>4. /\ tb.heads \in [Partitions -> Rows \cup {NULL}] /\ tb.tails \in [Partitions -> Rows \cup {NULL}]
  BY TableFields
<1>5. \A e \in Rows : PartOf(e) \in Partitions
  BY KeyAssumption DEF PartOf
<1>6. o \in Links
  BY <1>2, <1>3, <1>5 DEF Links
<1>7. heads \in [Partitions -> Rows \cup {NULL}] /\ tails \in [Partitions -> Rows \cup {NULL}]
  BY <1>3, <1>4
<1>8. a.t = [m.t EXCEPT ![s] = tb, ![Global] = new] /\ a.n = o /\ a = [t |-> a.t, n |-> a.n]
  BY DEF Splice
<1>9. new.heads = heads /\ new.tails = tails /\ new.head = g.head /\ new.entries = g.entries
  OBVIOUS
<1>10. new \in TableType
  BY <1>3, <1>7 DEF TableType
<1>11. /\ \A p \in Partitions : heads[p] = IF p \in live THEN tb.heads[p] ELSE g.heads[p]
       /\ \A p \in Partitions : tails[p] = IF p \in live /\ g.tails[p] = NULL
                                           THEN tb.tails[p] ELSE g.tails[p]
       /\ \A e \in Rows : o[e] = IF \E p \in live : e = tb.tails[p]
                                 THEN g.heads[PartOf(e)] ELSE m.n[e]
       /\ \A p \in Partitions : p \in live <=> tb.heads[p] # NULL
       /\ live \subseteq Partitions
  OBVIOUS
<1> HIDE DEF new, o, heads, tails, live
<1>12. /\ a.t \in [Tables -> TableType] /\ a.t[s] = tb /\ a.t[Global] = new
       /\ \A u \in Tables \ {s, Global} : a.t[u] = m.t[u]
  BY ONLY <1>1, <1>2, <1>8, <1>10, tb \in TableType
<1>13. a \in MemType
  BY ONLY <1>6, <1>8, <1>12 DEF MemType
<1>14. ASSUME NEW p \in Partitions
       PROVE  /\ IsChain(m.n, tb.heads[p], In(p)) /\ EndsAt(m.n, In(p), tb.tails[p])
              /\ IsChain(m.n, g.heads[p], Ours(p)) /\ EndsAt(m.n, Ours(p), g.tails[p])
              /\ In(p) \subseteq Rows /\ Ours(p) \subseteq Rows /\ In(p) \cap Ours(p) = {}
              /\ \A e \in In(p) \cup Ours(p) : PartOf(e) = p
  BY DEF Partitioned
<1>15. \A p \in live : tb.tails[p] \in In(p) /\ m.n[tb.tails[p]] = NULL
  <2>1. ASSUME NEW p \in live PROVE tb.tails[p] \in In(p) /\ m.n[tb.tails[p]] = NULL
    <3>1. p \in Partitions /\ tb.heads[p] # NULL
      BY <1>11
    <3>2. IsChain(m.n, tb.heads[p], In(p)) /\ EndsAt(m.n, In(p), tb.tails[p])
      BY <1>14, <3>1
    <3> HIDE DEF In
    <3>3. In(p) # {}
      BY <3>1, <3>2, ChainEnds
    <3>4. QED
      BY <3>2, <3>3 DEF EndsAt
  <2>2. QED
    BY <2>1
<1> HIDE DEF g
<1>16. \A e \in Rows \ E : o[e] = m.n[e]
  BY <1>11, <1>15
<1>17. ASSUME NEW p \in Partitions
       PROVE  IsChain(o, heads[p], Ours(p) \cup In(p)) /\ EndsAt(o, Ours(p) \cup In(p), tails[p])
  <2>1. /\ IsChain(m.n, tb.heads[p], In(p)) /\ EndsAt(m.n, In(p), tb.tails[p])
        /\ IsChain(m.n, g.heads[p], Ours(p)) /\ EndsAt(m.n, Ours(p), g.tails[p])
        /\ In(p) \subseteq Rows /\ Ours(p) \subseteq Rows /\ In(p) \cap Ours(p) = {}
        /\ \A e \in In(p) \cup Ours(p) : PartOf(e) = p
    BY <1>14
  <2>2. \A q \in live : PartOf(tb.tails[q]) = q /\ tb.tails[q] \in Rows
    <3>1. \A q \in live : tb.tails[q] \in E /\ PartOf(tb.tails[q]) = q
      BY <1>15
    <3>2. QED
      BY <3>1
  <2>3. \A e \in Ours(p) : e \notin E
    OBVIOUS
  <2>4. \A q \in live : tb.tails[q] \in In(q) /\ m.n[tb.tails[q]] = NULL /\ tb.tails[q] \in E
    BY <1>15
  <2> HIDE DEF In, Ours
  <2>5. \A e \in Ours(p) : o[e] = m.n[e]
    BY <1>16, <2>1, <2>3
  <2>6. CASE p \in live
    <3> DEFINE t == tb.tails[p]
    <3>1. t \in In(p) /\ m.n[t] = NULL /\ PartOf(t) = p /\ t \in Rows
      BY <2>2, <2>4, <2>6
    <3>2. o[t] = g.heads[p]
      BY <1>11, <2>6, <3>1
    <3>3. ASSUME NEW e \in (In(p) \cup Ours(p)) \ {t} PROVE o[e] = m.n[e]
      <4>1. e \in Rows /\ PartOf(e) = p
        BY <2>1
      <4>2. \A q \in live : e # tb.tails[q]
        BY <2>2, <4>1
      <4>3. QED
        BY <1>11, <4>1, <4>2
    <3>4. In(p) # {} /\ heads[p] = tb.heads[p]
      BY <1>11, <2>6, <3>1
    <3>5. IsChain(o, tb.heads[p], In(p) \cup Ours(p))
      BY <2>1, <3>2, <3>3, <3>4, ChainAppend
    <3>6. Ours(p) \cup In(p) = In(p) \cup Ours(p)
      OBVIOUS
    <3>7. EndsAt(o, Ours(p) \cup In(p), tails[p])
      <4>1. CASE Ours(p) = {}
        <5>1. g.heads[p] = NULL /\ g.tails[p] = NULL
          BY <2>1, <4>1, ChainEnds DEF EndsAt
        <5>2. tails[p] = t /\ o[t] = NULL
          BY <1>11, <2>6, <3>2, <5>1
        <5>3. QED
          BY <3>1, <5>2 DEF EndsAt
      <4>2. CASE Ours(p) # {}
        <5>1. g.tails[p] \in Ours(p) /\ m.n[g.tails[p]] = NULL
          BY <2>1, <4>2 DEF EndsAt
        <5>2. g.tails[p] # NULL
          BY <2>1, <5>1, RowsAssumption
        <5>3. tails[p] = g.tails[p]
          BY <1>11, <5>2
        <5>4. o[tails[p]] = NULL
          BY <2>5, <5>1, <5>3
        <5>5. QED
          BY <5>1, <5>3, <5>4 DEF EndsAt
      <4>3. QED
        BY <4>1, <4>2
    <3>8. QED
      BY <3>4, <3>5, <3>6, <3>7
  <2>7. CASE p \notin live
    <3>1. tb.heads[p] = NULL /\ heads[p] = g.heads[p] /\ tails[p] = g.tails[p]
      BY <1>11, <2>7
    <3>2. In(p) = {}
      BY <2>1, <3>1, ChainEnds
    <3>3. Ours(p) \cup In(p) = Ours(p)
      BY <3>2
    <3>4. IsChain(o, g.heads[p], Ours(p))
      BY <2>1, <2>5, ChainSame
    <3>5. EndsAt(o, Ours(p), g.tails[p])
      BY <2>1, <2>5 DEF EndsAt
    <3>6. QED
      BY <3>1, <3>3, <3>4, <3>5
  <2>8. QED
    BY <2>6, <2>7
<1>18. ASSUME NEW p \in Partitions PROVE {e \in G \cup E : PartOf(e) = p} = Ours(p) \cup In(p)
  OBVIOUS
<1>19. Partitioned(o, new, G \cup E)
  BY <1>9, <1>17, <1>18 DEF Partitioned
<1>20. QED
  BY <1>8, <1>9, <1>12, <1>13, <1>16, <1>19 DEF g, Spliced

(* What transferring needs of the tables that are transferred. *)
ReadyToTransfer(m) == (\A u \in Workers : Sound(m, u)) /\ Apart(m)

(* The lists of a flushed table. *)
LEMMA FlushedLists ==
  ASSUME NEW m \in MemType, NEW s \in Tables, Sound(m, s), NEW a, a = FlushToOverflowPartitions(m, s)
  PROVE  /\ Local(m, a, s, Range(m.t[s].entries))
         /\ Partitioned(a.n, a.t[s], Range(m.t[s].entries))
         /\ a.t[s].head = NULL
<1> DEFINE X == IndexSet(m, s)
           O == OverSets(m, s)
           E == Range(m.t[s].entries)
<1>1. Holds(m.n, m.t[s], X, O)
  BY DEF Sound
<1> HIDE DEF X, O
<1> DEFINE Q == WithIndex(X, O)
<1>2. /\ Local(m, a, s, X) /\ Holds(a.n, a.t[s], {}, Q) /\ a.t[s].head = NULL
  BY ONLY <1>1, m \in MemType, s \in Tables, a = FlushToOverflowPartitions(m, s), FlushIs
<1>3. /\ X \subseteq Rows /\ E \subseteq Rows
      /\ \A e \in Rows : e \in E <=> e \in X \/ \E p \in Partitions : e \in O[p]
      /\ \A p \in Partitions : O[p] \subseteq Rows /\ \A e \in O[p] : PartOf(e) = p
  <2>1. m.t[s].entries \in Seq(Rows)
    BY MemFields, TableFields
  <2>2. E \subseteq Rows
    BY <2>1, RangeFinite
  <2>3. QED
    BY <1>1, <2>2 DEF Holds, IsChain
<1>4. Local(m, a, s, E)
  BY <1>2, <1>3 DEF Local
<1> HIDE DEF E
<1>5. ASSUME NEW p \in Partitions
      PROVE  /\ IsChain(a.n, a.t[s].heads[p], {e \in E : PartOf(e) = p})
             /\ EndsAt(a.n, {e \in E : PartOf(e) = p}, a.t[s].tails[p])
  <2>1. Q[p] = O[p] \cup {e \in X : PartOf(e) = p}
    BY DEF WithIndex
  <2>2. Q[p] = {e \in E : PartOf(e) = p}
    BY <1>3, <2>1
  <2>3. IsChain(a.n, a.t[s].heads[p], Q[p]) /\ EndsAt(a.n, Q[p], a.t[s].tails[p])
    BY <1>2 DEF Holds
  <2>4. QED
    BY <2>2, <2>3
<1>6. QED
  BY <1>2, <1>4, <1>5 DEF Partitioned, E

(* The lists of a table do not change when links of other entries do. *)
LEMMA PartitionedSame ==
  ASSUME NEW n, NEW o, NEW tb, NEW E, Partitioned(n, tb, E), \A e \in E : o[e] = n[e]
  PROVE  Partitioned(o, tb, E)
<1>1. ASSUME NEW p \in Partitions, NEW L, L = {e \in E : PartOf(e) = p}
      PROVE  IsChain(o, tb.heads[p], L) /\ EndsAt(o, L, tb.tails[p])
  <2>1. IsChain(n, tb.heads[p], L) /\ EndsAt(n, L, tb.tails[p])
    BY <1>1 DEF Partitioned
  <2>2. \A e \in L : o[e] = n[e]
    BY <1>1
  <2>3. QED
    BY <2>1, <2>2, ChainSame DEF EndsAt
<1>2. QED
  BY <1>1 DEF Partitioned

(* Transferring one more table. *)
LEMMA TransferMemoryIs ==
  ASSUME NEW m \in MemType, ReadyToTransfer(m), NEW D \in SUBSET Workers, NEW b,
         Transferred(m, b, D), NEW w \in Workers \ D, NEW c, c = TransferMemory(b, w)
  PROVE  Transferred(m, c, D \cup {w})
<1> DEFINE a == FlushToOverflowPartitions(b, w)
           old == a.t[w]
           tb == [head |-> old.head, count |-> old.count, capacity |-> old.capacity,
                  max_fill |-> old.max_fill, entries |-> <<>>,
                  heads |-> old.heads, tails |-> old.tails]
           E == Range(m.t[w].entries)
           G == Gathered(m, D)
<1>1. /\ w \in Tables /\ Global \in Tables /\ w # Global /\ Workers \subseteq Tables
      /\ Partitions \subseteq Tables /\ w \notin Partitions /\ Global \notin Partitions
      /\ Global \notin Workers
  BY TablesAssumption DEF Tables
<1>2. b \in MemType /\ b.t[w] = m.t[w] /\ \A e \in E : b.n[e] = m.n[e]
  BY DEF Transferred
<1>3. Sound(b, w)
  BY <1>1, <1>2, SoundSame DEF ReadyToTransfer
<1>4. /\ Local(b, a, w, E) /\ Partitioned(a.n, old, E) /\ old.head = NULL
  BY <1>1, <1>2, <1>3, FlushedLists
<1>5. c = Splice(a, w, tb)
  BY DEF TransferMemory
<1> HIDE DEF a
<1>6. a \in MemType /\ old \in TableType
  BY <1>1, <1>4, MemFields DEF Local
<1>7. tb \in TableType
  <2>1. <<>> \in Seq(Rows)
    OBVIOUS
  <2>2. QED
    BY <1>6, <2>1, TableFields DEF TableType
<1>8. tb.heads = old.heads /\ tb.tails = old.tails /\ tb.head = NULL /\ tb.entries = <<>>
  BY <1>4
<1>9. Partitioned(a.n, tb, E)
  BY <1>4, <1>8 DEF Partitioned
<1> HIDE DEF tb, old
<1>10. E \in SUBSET Rows /\ G \in SUBSET Rows
  <2>1. m.t[w].entries \in Seq(Rows)
    BY <1>1, MemFields, TableFields
  <2>2. QED
    BY <2>1, RangeFinite DEF Gathered
<1>11. E \cap G = {}
  <2>1. \A u \in D : E \cap Range(m.t[u].entries) = {}
    BY <1>1 DEF ReadyToTransfer, Apart
  <2>2. QED
    BY <2>1 DEF Gathered
<1> HIDE DEF E
<1>12. /\ a.t[Global] = b.t[Global] /\ \A u \in Tables \ {w} : a.t[u] = b.t[u]
       /\ \A e \in Rows \ E : a.n[e] = b.n[e]
  BY <1>1, <1>4 DEF Local
<1>13. Partitioned(a.n, a.t[Global], G)
  <2>1. Partitioned(b.n, b.t[Global], G)
    BY DEF Transferred
  <2>2. \A e \in G : a.n[e] = b.n[e]
    BY <1>10, <1>11, <1>12
  <2> HIDE DEF G
  <2>3. QED
    BY <1>12, <2>1, <2>2, PartitionedSame
<1> HIDE DEF G
<1>14. /\ c \in MemType /\ c.t[w] = tb
       /\ \A u \in Tables \ {w, Global} : c.t[u] = a.t[u]
       /\ \A e \in Rows \ E : c.n[e] = a.n[e]
       /\ c.t[Global].head = a.t[Global].head /\ c.t[Global].entries = a.t[Global].entries
       /\ Partitioned(c.n, c.t[Global], G \cup E)
  <2>1. w \in Workers
    OBVIOUS
  <2>2. Spliced(a, c, w, tb, G, E)
    BY ONLY <1>5, <1>6, <1>7, <1>9, <1>10, <1>11, <1>13, <2>1, SpliceIs, Zenon
  <2>3. QED
    BY ONLY <2>2 DEF Spliced
<1>15. G \cup E = Gathered(m, D \cup {w})
  BY <1>10 DEF Gathered, G, E
<1>16. ASSUME NEW u \in Workers \ (D \cup {w})
       PROVE  c.t[u] = m.t[u] /\ \A e \in Range(m.t[u].entries) : c.n[e] = m.n[e]
  <2>1. u \in Tables \ {w, Global} /\ u \in Workers \ D
    BY <1>1
  <2>2. c.t[u] = m.t[u] /\ \A e \in Range(m.t[u].entries) : b.n[e] = m.n[e]
    BY <1>12, <1>14, <2>1 DEF Transferred
  <2>3. Range(m.t[u].entries) \subseteq Rows
    <3>1. m.t[u].entries \in Seq(Rows)
      BY <2>1, MemFields, TableFields
    <3>2. QED
      BY <3>1, RangeFinite
  <2>4. Range(m.t[u].entries) \cap E = {}
    BY <1>1, <2>1 DEF ReadyToTransfer, Apart, E
  <2>5. QED
    BY <1>12, <1>14, <2>2, <2>3, <2>4
<1>17. ASSUME NEW u \in D \cup {w} PROVE c.t[u].entries = <<>> /\ c.t[u].head = NULL
  <2>1. CASE u = w
    BY <1>8, <1>14, <2>1
  <2>2. CASE u \in D
    <3>1. u \in Tables \ {w, Global}
      BY <1>1, <2>2
    <3>2. c.t[u] = b.t[u]
      BY <1>12, <1>14, <3>1
    <3>3. QED
      BY <2>2, <3>2 DEF Transferred
  <2>3. QED
    BY <2>1, <2>2
<1>18. ASSUME NEW p \in Partitions PROVE c.t[p] = m.t[p]
  <2>1. p \in Tables \ {w, Global}
    BY <1>1
  <2>2. QED
    BY <1>12, <1>14, <2>1 DEF Transferred
<1>19. c.t[Global].head = NULL /\ c.t[Global].entries = <<>>
  BY <1>12, <1>14 DEF Transferred
<1>20. QED
  BY <1>14, <1>15, <1>16, <1>17, <1>18, <1>19 DEF Transferred

(* The tables transferred by the first i steps. *)
FirstOf(order, i) == {order[j] : j \in 1 .. i}

(* Transferring one table after the other. *)
LEMMA TransferSteps ==
  ASSUME NEW m \in MemType, ReadyToTransfer(m), Transferred(m, m, {}),
         NEW order \in Seq(Workers), IsInjective(order), NEW f, f[0] = m,
         \A i \in 1 .. Len(order) : TransferMemory(f[i - 1], order[i]) \in MemType =>
                                    f[i] = TransferMemory(f[i - 1], order[i])
  PROVE  \A i \in 0 .. Len(order) :
           /\ Transferred(m, f[i], FirstOf(order, i))
           /\ i # 0 => TransferMemory(f[i - 1], order[i]) \in MemType
<1> DEFINE n == Len(order)
           P == {i \in Nat : i \in 0 .. n =>
                   /\ Transferred(m, f[i], FirstOf(order, i))
                   /\ i # 0 => TransferMemory(f[i - 1], order[i]) \in MemType}
<1>1. n \in Nat /\ DOMAIN order = 1 .. n /\ \A i \in 1 .. n : order[i] \in Workers
  OBVIOUS
<1>2. \A i, j \in 1 .. n : order[i] = order[j] => i = j
  BY <1>1 DEF IsInjective
<1> HIDE DEF n
<1>3. 0 \in P
  <2>1. FirstOf(order, 0) = {}
    BY DEF FirstOf
  <2>2. QED
    BY <2>1
<1>4. ASSUME NEW i \in 0 .. n - 1, i \in P PROVE i + 1 \in P
  <2> DEFINE D == FirstOf(order, i)
             w == order[i + 1]
             c == TransferMemory(f[i], w)
  <2>1. i \in 0 .. n /\ i + 1 \in 1 .. n /\ (i + 1) - 1 = i
    BY <1>1
  <2>2. Transferred(m, f[i], D)
    BY <1>4, <2>1
  <2>3. \A j \in 1 .. i : j \in 1 .. n /\ j # i + 1
    BY <1>1
  <2>4. D \in SUBSET Workers /\ w \in Workers \ D
    BY <1>1, <1>2, <2>1, <2>3 DEF FirstOf
  <2>5. FirstOf(order, i + 1) = D \cup {w}
    <3>1. \A j \in 1 .. i + 1 : j \in 1 .. i \/ j = i + 1
      BY <1>1
    <3>2. \A j \in 1 .. i : j \in 1 .. i + 1
      BY <1>1
    <3>3. i + 1 \in 1 .. i + 1
      BY <1>1
    <3>4. QED
      BY <3>1, <3>2, <3>3 DEF FirstOf
  <2> HIDE DEF D
  <2>6. Transferred(m, c, D \cup {w})
    BY <2>2, <2>4, TransferMemoryIs
  <2>7. c \in MemType
    BY <2>6 DEF Transferred
  <2>8. f[i + 1] = c
    BY <2>1, <2>7 DEF n
  <2>9. /\ Transferred(m, f[i + 1], FirstOf(order, i + 1))
        /\ TransferMemory(f[(i + 1) - 1], order[i + 1]) \in MemType
    BY ONLY <2>1, <2>5, <2>6, <2>7, <2>8
  <2>10. QED
    BY <2>1, <2>9
<1> HIDE DEF P
<1>5. 0 .. n \subseteq P
  BY <1>1, <1>3, <1>4, UpTo
<1>6. QED
  BY <1>5 DEF P, n

(* TransferMemoryAndPartitions leaves all entries of the thread-local      *)
(* tables on the global table's partition lists.                           *)
LEMMA TransferAllIs ==
  ASSUME NEW m \in MemType, ReadyToTransfer(m), m.t[Global] = NewTable,
         NEW order \in SetToSeqs(Workers), NEW c, c = TransferAll(m, order)
  PROVE  Transferred(m, c, Workers)
<1> DEFINE n == Len(order)
           Tr(x, i) == TransferMemory(x, order[i])
           H == [i \in 1 .. n |-> [x \in MemType |-> IF Tr(x, i) \in MemType THEN Tr(x, i) ELSE x]]
<1>1. order \in Seq(Workers) /\ IsInjective(order) /\ Range(order) = Workers
  BY TablesAssumption, Arrangement
<1>2. n \in Nat /\ \A e : e \in Workers <=> \E i \in 1 .. n : e = order[i]
  BY <1>1, InRange
<1>3. Transferred(m, m, {})
  <2>1. /\ NewTable.head = NULL /\ NewTable.entries = <<>>
        /\ \A p \in Partitions : NewTable.heads[p] = NULL /\ NewTable.tails[p] = NULL
    BY DEF NewTable
  <2>2. Gathered(m, {}) = {}
    BY DEF Gathered
  <2>3. \A p \in Partitions : {e \in {} : PartOf(e) = p} = {}
    OBVIOUS
  <2>4. Partitioned(m.n, m.t[Global], {})
    BY <2>1, <2>3, ChainEmpty DEF Partitioned, EndsAt
  <2>5. QED
    BY <2>1, <2>2, <2>4 DEF Transferred
<1>4. /\ H \in [1 .. n -> [MemType -> MemType]]
      /\ \A i \in 1 .. n : \A x \in MemType : Tr(x, i) \in MemType => H[i][x] = Tr(x, i)
  OBVIOUS
<1> HIDE DEF H
<1>5. PICK f \in [0 .. n -> MemType] : Iterates(f, m, H, n)
  BY <1>2, <1>4, Iteration
<1>6. f[0] = m
  BY <1>5 DEF Iterates
<1>7. \A i \in 1 .. n : Tr(f[i - 1], i) \in MemType => f[i] = Tr(f[i - 1], i)
  <2>1. ASSUME NEW i \in 1 .. n, Tr(f[i - 1], i) \in MemType PROVE f[i] = Tr(f[i - 1], i)
    <3>1. i - 1 \in 0 .. n
      BY <1>2
    <3>2. f[i] = H[i][f[i - 1]] /\ f[i - 1] \in MemType
      BY <1>5, <3>1 DEF Iterates
    <3>3. QED
      BY <1>4, <2>1, <3>2
  <2>2. QED
    BY <2>1
<1>8. \A i \in 0 .. n : i # 0 => Tr(f[i - 1], i) \in MemType
  BY <1>1, <1>3, <1>6, <1>7, TransferSteps
<1>9. \A i \in 1 .. n : f[i] = Tr(f[i - 1], i)
  BY <1>2, <1>7, <1>8
<1> DEFINE F(at) == [i \in 0 .. Len(order) |-> IF i = 0 THEN m ELSE TransferMemory(at[i - 1], order[i])]
           d == CHOOSE at : at = F(at)
<1>10. c = d[n]
  BY DEF TransferAll
<1>11. ASSUME NEW at PROVE F(at) = [i \in 0 .. n |-> IF i = 0 THEN m ELSE Tr(at[i - 1], i)]
  OBVIOUS
<1> HIDE DEF F
<1>12. f = F(f)
  <2>1. \A i \in 0 .. n : F(f)[i] = f[i]
    BY <1>2, <1>6, <1>9, <1>11
  <2>2. f = [i \in 0 .. n |-> f[i]] /\ F(f) = [i \in 0 .. n |-> F(f)[i]]
    BY <1>5, <1>11
  <2>3. QED
    BY <2>1, <2>2
<1>13. d = F(d)
  BY <1>12, Zenon
<1> HIDE DEF d
<1>14. \A i \in 0 .. n : d[i] = IF i = 0 THEN m ELSE Tr(d[i - 1], i)
  <2>1. \A i \in 0 .. n : F(d)[i] = IF i = 0 THEN m ELSE Tr(d[i - 1], i)
    BY <1>11
  <2>2. QED
    BY <1>13, <2>1
<1>15. d[0] = m /\ \A i \in 1 .. n : d[i] = Tr(d[i - 1], i)
  BY <1>2, <1>14
<1>16. Transferred(m, d[n], FirstOf(order, n))
  <2>1. \A i \in 1 .. n : Tr(d[i - 1], i) \in MemType => d[i] = Tr(d[i - 1], i)
    BY <1>15
  <2>2. \A i \in 0 .. n : Transferred(m, d[i], FirstOf(order, i))
    BY <1>1, <1>3, <1>15, <2>1, TransferSteps
  <2>3. QED
    BY <1>2, <2>2
<1>17. FirstOf(order, n) = Workers
  BY <1>2 DEF FirstOf
<1>18. QED
  BY <1>10, <1>16, <1>17

----------------------------------------------------------------------------
(* The invariant *)

(* A vector whose keys have several columns may put a row into a group     *)
(* that agrees with it on one of them only.                                *)
Exact == ~vectorized \/ OneColumn

Allocated == owned \cup {e \in Rows : \E s \in Tables : e \in Range(tables[s].entries)}

(* The partial aggregates of partition p that were transferred. *)
Of(p) == {e \in owned : PartOf(e) = p}

Merging(w) == task[w].pc = "merge"

(* The entries the iterator of worker w will come to. *)
Ahead(w) == Range(Walk(next, task[w].next))

Rest(w) == IF task[w].curr = NULL THEN {} ELSE {task[w].curr} \cup Ahead(w)

TaskType ==
  [pc : {"idle", "merge"}, part : Partitions \cup {NULL}, curr : Rows \cup {NULL},
   next : Rows \cup {NULL}]

ATypeOK ==
  /\ vectorized \in BOOLEAN /\ build_parallel \in BOOLEAN /\ produce_parallel \in BOOLEAN
  /\ phase \in {"build", "moved", "produce", "done"}
  /\ pending \in SUBSET Rows
  /\ mem \in MemType
  /\ agg \in [Rows -> [Rows -> Nat]]
  /\ owned \in SUBSET Rows
  /\ nonempty_parts \in SUBSET Partitions
  /\ task \in [Workers -> TaskType]
  /\ out \in [Rows -> Nat]

(* The pipelines run one after the other. *)
PhaseInv ==
  /\ produce_parallel => build_parallel
  /\ phase # "build" => pending = {}
  /\ phase = "moved" => build_parallel
  /\ nonempty_parts # {} => phase = "produce" /\ produce_parallel
  /\ \A w \in Workers : IF Merging(w) THEN phase = "produce" /\ produce_parallel
                                      ELSE task[w].curr = NULL

(* Entries with the same key are the same entry. *)
OnePerKey(X) == \A e, f \in X : Key[e] = Key[f] => e = f

(* What the build pipeline keeps true of table s.                          *)
TableInv(m, s, parallel, vec) ==
  /\ Sound(m, s)
  /\ ~vec => RowFill(m.t[s], parallel)
  /\ ~parallel => Unflushed(m.t[s])
  /\ ~vec \/ OneColumn => OnePerKey(IndexSet(m, s))

(* During a build, and after a serial one, the tables hold their entries. *)
BuildInv ==
  phase = "build" \/ ~build_parallel =>
    /\ owned = {} /\ Apart(mem)
    /\ \A s \in Building : TableInv(mem, s, build_parallel, vectorized)
    /\ \A s \in Tables \ Building : tables[s] = NewTable

(* After a transfer the global table has all entries, by partition. *)
MovedInv ==
  phase = "moved" =>
    /\ \A s \in Tables : tables[s].entries = <<>>
    /\ tables[Global].head = NULL /\ \A p \in Partitions : tables[p].head = NULL
    /\ Partitioned(next, tables[Global], owned)

(* The index of partition p, while it is merged and scanned. *)
PartInv(p) ==
  /\ tables[p].entries = <<>>
  /\ IsChain(next, tables[p].head, IndexSet(mem, p))
  /\ IndexSet(mem, p) \subseteq Of(p) /\ OnePerKey(IndexSet(mem, p))
  /\ p \in nonempty_parts => /\ IsChain(next, tables[Global].heads[p], Of(p)) /\ Of(p) # {}
                             /\ IndexSet(mem, p) = {}

(* The iterator of a worker: what it has not merged is still linked. *)
TaskInv(w) ==
  Merging(w) =>
    /\ task[w].part \in Partitions \ nonempty_parts
    /\ IsChain(next, task[w].next, Ahead(w)) /\ task[w].curr \notin Ahead(w)
    /\ Rest(w) \cup Ahead(w) \subseteq Of(task[w].part)
    /\ Rest(w) \cap IndexSet(mem, task[w].part) = {}

ProduceInv ==
  phase \in {"produce", "done"} /\ build_parallel =>
    /\ \A s \in Workers \cup {Global} : tables[s].entries = <<>>
    /\ tables[Global].head = NULL
    /\ \A p \in Partitions : PartInv(p)
    /\ \A w \in Workers : TaskInv(w)
    /\ \A w, v \in Workers :
         Merging(w) /\ Merging(v) /\ task[w].part = task[v].part => w = v

(* The partial aggregates that were not merged into another one. *)
Live ==
  {e \in Allocated :
     \/ phase \in {"build", "moved"} \/ ~produce_parallel
     \/ PartOf(e) \in nonempty_parts \/ e \in IndexSet(mem, PartOf(e))
     \/ \E w \in Workers : Merging(w) /\ e \in Rest(w)}

(* Row r is counted once, in e. *)
CountedIn(r, e) == agg[e][r] = 1 /\ \A f \in Live \ {e} : agg[f][r] = 0

CountInv ==
  /\ \A r \in pending : r \notin Allocated /\ \A e \in Rows : agg[e][r] = 0
  /\ phase \in {"build", "moved"} =>
       \A e \in Rows : IF e \in Allocated THEN agg[e][e] > 0 ELSE \A r \in Rows : agg[e][r] = 0
  /\ \A r \in Rows \ pending : \E e \in Live : CountedIn(r, e) /\ (Exact => Key[e] = Key[r])

(* Partition p was merged and scanned, or was empty. *)
Finished(p) == p \notin nonempty_parts /\ \A w \in Workers : Merging(w) => task[w].part # p

(* The entries that were returned. *)
Returned ==
  {e \in Rows :
     IF build_parallel THEN /\ phase \in {"produce", "done"} /\ produce_parallel
                            /\ e \in IndexSet(mem, PartOf(e)) /\ Finished(PartOf(e))
                       ELSE phase = "done" /\ e \in IndexSet(mem, Global)}

OutInv == \A e \in Rows : out[e] = IF e \in Returned THEN 1 ELSE 0

AInv ==
  /\ ATypeOK /\ PhaseInv /\ BuildInv /\ MovedInv /\ ProduceInv /\ CountInv /\ OutInv
  /\ freed = {}

----------------------------------------------------------------------------
(* The initial state *)

(* A new table is empty. *)
LEMMA NewTableIs ==
  /\ NewTable \in TableType /\ NewTable.head = NULL /\ NewTable.count = 0
  /\ NewTable.entries = <<>> /\ Unflushed(NewTable)
  /\ NewTable.tails = [p \in Partitions |-> NULL]
  /\ \A par \in BOOLEAN : RowFill(NewTable, par)
<1> DEFINE fill == MaxFill(InitialCapacity)
<1>1. fill \in Nat /\ InitialCapacity \in Nat \ {0} /\ 0 <= fill /\ 0 < flush_threshold
  BY SizeAssumption, MaxFillIs
<1> HIDE DEF fill
<1>2. <<>> \in Seq(Rows) /\ Len(<<>>) = 0
  OBVIOUS
<1>3. /\ NewTable.head = NULL /\ NewTable.count = 0 /\ NewTable.capacity = InitialCapacity
      /\ NewTable.max_fill = fill /\ NewTable.entries = <<>>
      /\ NewTable.heads = [p \in Partitions |-> NULL]
      /\ NewTable.tails = [p \in Partitions |-> NULL]
  BY DEF NewTable, fill
<1>4. NewTable \in TableType
  BY <1>1, <1>2 DEF NewTable, TableType, fill
<1>5. Unflushed(NewTable)
  BY <1>3 DEF Unflushed
<1>6. ASSUME NEW par \in BOOLEAN PROVE RowFill(NewTable, par)
  BY <1>1, <1>2, <1>3, <1>5 DEF RowFill, fill
<1>7. QED
  BY <1>3, <1>4, <1>5, <1>6

(* The empty sequence has no elements. *)
LEMMA NoElements == Range(<<>>) = {} /\ IsInjective(<<>>)
BY DEF Range, IsInjective

(* A new table is sound. *)
LEMMA NewIsSound ==
  ASSUME NEW m, m.n \in Links, NEW s, m.t[s] = NewTable
  PROVE  Sound(m, s) /\ IndexSet(m, s) = {}
<1> DEFINE O == [p \in Partitions |-> {}]
<1>1. Holds(m.n, NewTable, {}, O)
  <2>1. \A p \in Partitions : O[p] = {} /\ NewTable.heads[p] = NULL /\ NewTable.tails[p] = NULL
    BY NewTableIs DEF Unflushed
  <2>2. O \in [Partitions -> SUBSET Rows]
    OBVIOUS
  <2> HIDE DEF O
  <2>3. IsChain(m.n, NULL, {})
    BY ChainEmpty
  <2>4. ASSUME NEW p \in Partitions
        PROVE  /\ IsChain(m.n, NewTable.heads[p], O[p]) /\ EndsAt(m.n, O[p], NewTable.tails[p])
               /\ O[p] \cap {} = {} /\ \A e \in O[p] : PartOf(e) = p
    BY <2>1, <2>3 DEF EndsAt
  <2>5. IsInjective(NewTable.entries) /\ Range(NewTable.entries) = {} /\ NewTable.head = NULL
    BY NewTableIs, NoElements
  <2>6. QED
    BY <2>1, <2>2, <2>3, <2>4, <2>5 DEF Holds
<1> HIDE DEF O
<1>2. QED
  BY <1>1, SoundIs

(* The invariant holds initially. *)
LEMMA AInvInit == Init => AInv
<1> SUFFICES ASSUME Init PROVE AInv
  OBVIOUS
<1>1. /\ vectorized \in BOOLEAN /\ build_parallel \in BOOLEAN /\ produce_parallel \in BOOLEAN
      /\ produce_parallel => build_parallel
  BY PlanAssumption DEF Init
<1>2. /\ phase = "build" /\ pending = Rows /\ owned = {} /\ freed = {} /\ nonempty_parts = {}
  BY DEF Init
<1>3. tables \in [Tables -> TableType] /\ \A s \in Tables : tables[s] = NewTable
  BY NewTableIs DEF Init
<1>4. next \in Links
  BY DEF Init, Links
<1>5. mem \in MemType /\ mem.n = next /\ mem.t = tables
  BY <1>3, <1>4 DEF mem, MemType
<1>6. task \in [Workers -> TaskType] /\ \A w \in Workers : ~Merging(w) /\ task[w].curr = NULL
  BY DEF Init, TaskType, Merging
<1>7. agg \in [Rows -> [Rows -> Nat]] /\ \A e, r \in Rows : agg[e][r] = 0
  BY DEF Init
<1>8. out \in [Rows -> Nat] /\ \A e \in Rows : out[e] = 0
  BY DEF Init
<1>9. ATypeOK
  BY <1>1, <1>2, <1>5, <1>6, <1>7, <1>8 DEF ATypeOK
<1>10. PhaseInv
  BY <1>1, <1>2, <1>6 DEF PhaseInv
<1>11. \A s \in Tables : Range(tables[s].entries) = {}
  BY <1>3, NewTableIs, NoElements
<1>12. BuildInv
  <2>1. Apart(mem)
    BY <1>5, <1>11 DEF Apart
  <2>2. Building \subseteq Tables
    BY DEF Building, Tables
  <2>3. ASSUME NEW s \in Tables PROVE TableInv(mem, s, build_parallel, vectorized)
    <3>1. mem.t[s] = NewTable /\ mem.n \in Links
      BY <1>3, <1>4, <1>5
    <3>2. Sound(mem, s) /\ IndexSet(mem, s) = {}
      BY <3>1, NewIsSound
    <3>3. RowFill(mem.t[s], build_parallel) /\ Unflushed(mem.t[s])
      BY <1>1, <3>1, NewTableIs
    <3>4. QED
      BY <3>2, <3>3 DEF TableInv, OnePerKey
  <2>4. QED
    BY <1>2, <1>3, <2>1, <2>2, <2>3 DEF BuildInv
<1>13. MovedInv /\ ProduceInv
  BY <1>2 DEF MovedInv, ProduceInv
<1>14. CountInv
  <2>1. Allocated = {}
    BY <1>2, <1>11 DEF Allocated
  <2>2. QED
    BY <1>2, <1>7, <2>1 DEF CountInv
<1>15. OutInv
  <2>1. Returned = {}
    BY <1>2 DEF Returned
  <2>2. QED
    BY <1>8, <2>1 DEF OutInv
<1>16. QED
  BY <1>2, <1>9, <1>10, <1>12, <1>13, <1>14, <1>15 DEF AInv

----------------------------------------------------------------------------
(* The build pipeline *)

(* The tables during a build. *)
LEMMA BuildTables ==
  ASSUME AInv, phase = "build"
  PROVE  /\ mem \in MemType /\ mem.n = next /\ mem.t = tables
         /\ Building \subseteq Tables /\ Apart(mem) /\ owned = {}
         /\ \A s \in Building : TableInv(mem, s, build_parallel, vectorized)
         /\ \A s \in Tables \ Building : tables[s] = NewTable
         /\ Allocated = {e \in Rows : \E s \in Tables : e \in Range(tables[s].entries)}
         /\ Live = Allocated
<1>1. mem \in MemType /\ mem.n = next /\ mem.t = tables
  BY DEF AInv, ATypeOK, mem
<1>2. Building \subseteq Tables
  BY DEF Building, Tables
<1>3. /\ Apart(mem) /\ owned = {}
      /\ \A s \in Building : TableInv(mem, s, build_parallel, vectorized)
      /\ \A s \in Tables \ Building : tables[s] = NewTable
  BY DEF AInv, BuildInv
<1>4. Allocated = {e \in Rows : \E s \in Tables : e \in Range(tables[s].entries)}
  BY <1>3 DEF Allocated
<1>5. Live = Allocated
  BY <1>4 DEF Live
<1>6. QED
  BY <1>1, <1>2, <1>3, <1>4, <1>5

(* The rows of B are counted in the entries ent. *)
Assigned(B, ent) ==
  \A e, r \in Rows : agg'[e][r] = IF r \in B /\ ent[r] = e THEN agg[e][r] + 1 ELSE agg[e][r]

(* Allocating in one table keeps the tables apart. *)
LEMMA BuildTablesStep ==
  ASSUME AInv, phase = "build", NEW s \in Building, NEW N \in SUBSET Rows,
         N \cap Allocated = {}, AllocatedIn(mem, mem', s, N),
         TableInv(mem', s, build_parallel, vectorized),
         phase' = phase, build_parallel' = build_parallel, vectorized' = vectorized,
         owned' = owned
  PROVE  BuildInv' /\ Allocated' = Allocated \cup N /\ Live' = Allocated' /\ mem' \in MemType
<1>1. /\ mem \in MemType /\ mem.n = next /\ mem.t = tables
      /\ Building \subseteq Tables /\ Apart(mem) /\ owned = {}
      /\ \A u \in Building : TableInv(mem, u, build_parallel, vectorized)
      /\ \A u \in Tables \ Building : tables[u] = NewTable
      /\ Allocated = {e \in Rows : \E u \in Tables : e \in Range(tables[u].entries)}
  BY BuildTables
<1>2. mem'.n = next' /\ mem'.t = tables' /\ Building' = Building
  BY DEF mem, Building
<1>3. /\ mem' \in MemType /\ s \in Tables
      /\ \A u \in Tables \ {s} : tables'[u] = tables[u]
      /\ \A e \in Rows : e \notin Range(tables[s].entries) /\ e \notin N => next'[e] = next[e]
      /\ \A e : e \in Range(tables'[s].entries) <=> e \in Range(tables[s].entries) \/ e \in N
  BY <1>1, <1>2 DEF AllocatedIn, Local
<1>4. \A u \in Tables : tables[u] \in TableType /\ Range(tables[u].entries) \subseteq Rows
  <2>1. ASSUME NEW u \in Tables PROVE tables[u] \in TableType /\ Range(tables[u].entries) \subseteq Rows
    <3>1. tables[u] \in TableType
      BY <1>1, MemFields
    <3>2. tables[u].entries \in Seq(Rows)
      BY <3>1, TableFields
    <3>3. QED
      BY <3>1, <3>2, RangeFinite
  <2>2. QED
    BY <2>1
<1>5. \A u \in Tables : Range(tables[u].entries) \cap N = {}
  BY <1>1, <1>4
<1>6. Apart(mem')
  <2>1. \A u, v \in Tables : u # v => Range(tables[u].entries) \cap Range(tables[v].entries) = {}
    BY <1>1 DEF Apart
  <2>2. ASSUME NEW u \in Tables, NEW v \in Tables, u # v
        PROVE  Range(tables'[u].entries) \cap Range(tables'[v].entries) = {}
    <3>1. CASE u = s
      BY <1>3, <1>5, <2>1, <2>2, <3>1
    <3>2. CASE v = s
      BY <1>3, <1>5, <2>1, <2>2, <3>2
    <3>3. CASE u # s /\ v # s
      BY <1>3, <2>1, <2>2, <3>3
    <3>4. QED
      BY <3>1, <3>2, <3>3
  <2>3. QED
    BY <1>2, <2>2 DEF Apart
<1>7. ASSUME NEW u \in Building PROVE TableInv(mem', u, build_parallel, vectorized)
  <2>1. CASE u = s
    BY <2>1
  <2>2. CASE u # s
    <3>1. u \in Tables /\ mem'.t[u] = mem.t[u]
      BY <1>1, <1>2, <1>3, <2>2
    <3>2. \A e \in Range(mem.t[u].entries) : mem'.n[e] = mem.n[e]
      <4>1. Range(tables[u].entries) \cap Range(tables[s].entries) = {}
        BY <1>1, <1>3, <2>2, <3>1 DEF Apart
      <4>2. QED
        BY <1>1, <1>2, <1>3, <1>4, <1>5, <3>1, <4>1
    <3>3. TableInv(mem, u, build_parallel, vectorized)
      BY <1>1
    <3>4. Sound(mem', u) /\ IndexSet(mem', u) = IndexSet(mem, u)
      BY <1>1, <1>3, <3>1, <3>2, <3>3, SoundSame DEF TableInv
    <3>5. QED
      BY <3>1, <3>3, <3>4 DEF TableInv
  <2>3. QED
    BY <2>1, <2>2
<1>8. \A u \in Tables \ Building : tables'[u] = NewTable
  BY <1>1, <1>3
<1>9. BuildInv'
  BY <1>1, <1>2, <1>6, <1>7, <1>8 DEF BuildInv
<1>10. Allocated' = Allocated \cup N
  <2>1. Allocated' = {e \in Rows : \E u \in Tables : e \in Range(tables'[u].entries)}
    BY <1>1 DEF Allocated
  <2>2. ASSUME NEW e \in Rows
        PROVE  (\E u \in Tables : e \in Range(tables'[u].entries)) <=>
                 (\E u \in Tables : e \in Range(tables[u].entries)) \/ e \in N
    BY <1>3
  <2>3. QED
    BY <1>1, <2>1, <2>2
<1>11. Live' = Allocated'
  <2>1. phase' = "build"
    OBVIOUS
  <2>2. QED
    BY <2>1 DEF Live
<1>12. QED
  BY <1>3, <1>9, <1>10, <1>11

(* Rows B were folded into the aggregates ent of table s, of which N are   *)
(* new: each row is in one aggregate, and no row of another vector is      *)
(* touched.                                                                *)
LEMMA BuildStep ==
  ASSUME AInv, phase = "build", NEW s \in Building, NEW B \in SUBSET pending, NEW N \in SUBSET B,
         AllocatedIn(mem, mem', s, N), TableInv(mem', s, build_parallel, vectorized),
         NEW ent, \A r \in B : ent[r] \in Allocated \cup N /\ (Exact => Key[ent[r]] = Key[r]),
         \A r \in N : ent[r] = r,
         agg' \in [Rows -> [Rows -> Nat]], Assigned(B, ent), pending' = pending \ B,
         UNCHANGED <<plan, phase, owned, freed, nonempty_parts, task, out>>
  PROVE  AInv'
<1>1. /\ phase' = "build" /\ build_parallel' = build_parallel /\ vectorized' = vectorized
      /\ produce_parallel' = produce_parallel /\ owned' = owned /\ freed' = freed
      /\ nonempty_parts' = nonempty_parts /\ task' = task /\ out' = out
  BY DEF plan
<1>2. ATypeOK /\ PhaseInv /\ CountInv /\ OutInv /\ freed = {}
  BY DEF AInv
<1>3. pending \in SUBSET Rows /\ N \in SUBSET Rows /\ B \in SUBSET Rows
  BY <1>2 DEF ATypeOK
<1>4. N \cap Allocated = {}
  BY <1>2 DEF CountInv
<1>5. BuildInv' /\ Allocated' = Allocated \cup N /\ Live' = Allocated' /\ mem' \in MemType
  BY <1>1, <1>3, <1>4, BuildTablesStep
<1>6. ATypeOK'
  BY <1>1, <1>2, <1>3, <1>5 DEF ATypeOK
<1>7. PhaseInv'
  BY <1>1, <1>2 DEF PhaseInv, Merging
<1>8. MovedInv' /\ ProduceInv'
  BY <1>1 DEF MovedInv, ProduceInv
<1>9. OutInv'
  <2>1. Returned = {} /\ Returned' = {}
    BY <1>1 DEF Returned
  <2>2. QED
    BY <1>1, <1>2, <2>1 DEF OutInv
<1>10. /\ Live = Allocated /\ Allocated \subseteq Rows
       /\ \A r \in pending : r \notin Allocated /\ \A e \in Rows : agg[e][r] = 0
       /\ \A e \in Rows : IF e \in Allocated THEN agg[e][e] > 0 ELSE \A r \in Rows : agg[e][r] = 0
       /\ \A r \in Rows \ pending : \E e \in Live : CountedIn(r, e) /\ (Exact => Key[e] = Key[r])
       /\ \A e, r \in Rows : agg[e][r] \in Nat
  BY <1>2, BuildTables DEF CountInv, ATypeOK
<1>11. \A r \in B : ent[r] \in Rows
  BY <1>3, <1>10
<1>12. ASSUME NEW r \in pending'
       PROVE  r \notin Allocated' /\ \A e \in Rows : agg'[e][r] = 0
  <2>1. r \in pending /\ r \notin B /\ r \in Rows
    BY <1>3
  <2>2. QED
    BY <1>5, <1>10, <2>1 DEF Assigned
<1>13. ASSUME NEW e \in Rows
       PROVE  IF e \in Allocated' THEN agg'[e][e] > 0 ELSE \A r \in Rows : agg'[e][r] = 0
  <2>1. CASE e \in Allocated
    <3>1. agg[e][e] > 0 /\ agg[e][e] \in Nat /\ e \in Allocated'
      BY <1>5, <1>10, <2>1
    <3>2. agg'[e][e] = agg[e][e] \/ agg'[e][e] = agg[e][e] + 1
      BY DEF Assigned
    <3>3. QED
      BY <3>1, <3>2
  <2>2. CASE e \in N
    <3>1. agg[e][e] \in Nat /\ agg'[e][e] = agg[e][e] + 1 /\ e \in Allocated'
      BY <1>5, <1>10, <2>2 DEF Assigned
    <3>2. QED
      BY <3>1
  <2>3. CASE e \notin Allocated \cup N
    <3>1. \A r \in Rows : ~(r \in B /\ ent[r] = e)
      BY <2>3
    <3>2. QED
      BY <1>5, <1>10, <2>3, <3>1 DEF Assigned
  <2>4. QED
    BY <2>1, <2>2, <2>3
<1>14. ASSUME NEW r \in Rows \ pending'
       PROVE  \E e \in Live' : CountedIn(r, e)' /\ ((Exact)' => Key[e] = Key[r])
  <2>1. (Exact)' <=> Exact
    BY <1>1 DEF Exact
  <2>2. CASE r \in B
    <3> DEFINE e == ent[r]
    <3>1. e \in Live' /\ (Exact => Key[e] = Key[r])
      BY <1>5, <2>2
    <3>2. e \in Rows /\ r \in pending /\ r \in Rows
      BY <1>3, <1>11, <2>2
    <3>3. \A f \in Rows : agg[f][r] = 0
      BY <1>10, <3>2
    <3>4. agg'[e][r] = 1
      BY <2>2, <3>2, <3>3 DEF Assigned
    <3>5. ASSUME NEW f \in Live' \ {e} PROVE agg'[f][r] = 0
      <4>1. f \in Rows
        BY <1>3, <1>5, <1>10
      <4>2. QED
        BY <3>3, <3>5, <4>1 DEF Assigned
    <3>6. QED
      BY <2>1, <3>1, <3>4, <3>5 DEF CountedIn
  <2>3. CASE r \notin B
    <3>1. r \in Rows \ pending
      BY <2>3
    <3>2. PICK e \in Live : CountedIn(r, e) /\ (Exact => Key[e] = Key[r])
      BY <1>10, <3>1
    <3>3. \A f \in Rows : agg'[f][r] = agg[f][r]
      BY <2>3, <3>1 DEF Assigned
    <3>4. e \in Live' /\ e \in Rows
      BY <1>5, <1>10
    <3>5. ASSUME NEW f \in Live' \ {e} PROVE agg'[f][r] = 0
      <4>1. f \in Rows
        BY <1>3, <1>5, <1>10
      <4>2. CASE f \in Allocated
        BY <1>10, <3>2, <3>3, <3>5, <4>1, <4>2 DEF CountedIn
      <4>3. CASE f \notin Allocated
        BY <1>10, <3>1, <3>3, <4>1, <4>3
      <4>4. QED
        BY <4>2, <4>3
    <3>6. agg'[e][r] = 1
      BY <3>2, <3>3, <3>4 DEF CountedIn
    <3>7. QED
      BY <2>1, <3>2, <3>4, <3>5, <3>6 DEF CountedIn
  <2>4. QED
    BY <2>2, <2>3
<1>15. CountInv'
  BY <1>12, <1>13, <1>14 DEF CountInv
<1>16. QED
  BY <1>1, <1>2, <1>5, <1>6, <1>7, <1>8, <1>9, <1>15 DEF AInv

(* The memory an action installs. *)
LEMMA SetMemIs ==
  ASSUME NEW m \in MemType, SetMem(m)
  PROVE  mem' = m
<1>1. m = [t |-> m.t, n |-> m.n]
  BY DEF MemType
<1>2. QED
  BY <1>1 DEF SetMem, mem

(* The entries of an index are entries of the table. *)
LEMMA IndexIs ==
  ASSUME NEW m \in MemType, NEW s \in Tables, Sound(m, s)
  PROVE  /\ IsChain(m.n, m.t[s].head, IndexSet(m, s)) /\ m.n \in Links
         /\ IndexSet(m, s) \subseteq Range(m.t[s].entries)
         /\ Range(m.t[s].entries) \subseteq Rows
<1>1. m.n \in Links /\ m.t[s].entries \in Seq(Rows)
  BY MemFields, TableFields
<1>2. IsChain(m.n, m.t[s].head, IndexSet(m, s))
  BY DEF Sound, Holds
<1>3. IndexSet(m, s) \subseteq Rows
  BY <1>2, ChainEnds
<1>4. IndexSet(m, s) \subseteq Range(m.t[s].entries)
  BY <1>3 DEF Sound, Holds
<1>5. QED
  BY <1>1, <1>2, <1>4, RangeFinite

(* A step that allocates nothing. *)
LEMMA NoneAllocated ==
  ASSUME NEW m \in MemType, NEW s \in Tables, Sound(m, s)
  PROVE  AllocatedIn(m, m, s, {})
BY DEF AllocatedIn, Local

(* Folding in a single row. *)
LEMMA AdvanceIs ==
  ASSUME agg \in [Rows -> [Rows -> Nat]], NEW e \in Rows, NEW r \in Rows,
         agg' = [agg EXCEPT ![e][r] = @ + 1]
  PROVE  agg' \in [Rows -> [Rows -> Nat]] /\ Assigned({r}, [q \in {r} |-> e])
<1>1. agg' \in [Rows -> [Rows -> Nat]]
  OBVIOUS
<1>2. \A f, q \in Rows : agg'[f][q] = IF q = r /\ f = e THEN agg[f][q] + 1 ELSE agg[f][q]
  OBVIOUS
<1>3. QED
  BY <1>1, <1>2 DEF Assigned

(* Aggregating one row. *)
LEMMA UpdateStep ==
  ASSUME AInv, NEW s \in Tables, NEW r \in Rows, UpdateAggregates(s, r)
  PROVE  AInv'
<1> DEFINE e == PerformLookup(mem, s, Key[r])
           a == IF build_parallel THEN AllocInputTuplePartitioned(mem, s, r)
                                  ELSE AllocInputTuple(mem, s, r)
<1>1. /\ phase = "build" /\ ~vectorized /\ s \in Building /\ r \in pending
      /\ IF e # NULL
         THEN agg' = [agg EXCEPT ![e][r] = @ + 1] /\ UNCHANGED <<tables, next>>
         ELSE SetMem(a) /\ agg' = [agg EXCEPT ![r][r] = @ + 1]
      /\ pending' = pending \ {r}
      /\ UNCHANGED <<plan, phase, owned, freed, nonempty_parts, task, out>>
  BY DEF UpdateAggregates
<1>2. /\ mem \in MemType /\ mem.n = next /\ mem.t = tables
      /\ TableInv(mem, s, build_parallel, vectorized)
      /\ Allocated = {f \in Rows : \E u \in Tables : f \in Range(tables[u].entries)}
  BY <1>1, BuildTables
<1>3. agg \in [Rows -> [Rows -> Nat]] /\ build_parallel \in BOOLEAN /\ r \notin Allocated
  BY <1>1 DEF AInv, ATypeOK, CountInv
<1>4. Sound(mem, s) /\ RowFill(mem.t[s], build_parallel) /\ OnePerKey(IndexSet(mem, s))
  BY <1>1, <1>2 DEF TableInv
<1>5. /\ IsChain(mem.n, mem.t[s].head, IndexSet(mem, s)) /\ mem.n \in Links
      /\ IndexSet(mem, s) \subseteq Range(mem.t[s].entries)
      /\ Range(mem.t[s].entries) \subseteq Rows
  BY <1>2, <1>4, IndexIs
<1>6. /\ e = NULL \/ (e \in IndexSet(mem, s) /\ Key[e] = Key[r])
      /\ e = NULL => \A f \in IndexSet(mem, s) : Key[f] # Key[r]
  BY <1>5, LookupIs DEF FoundBy
<1> HIDE DEF e, a
<1>7. CASE e # NULL
  <2>1. e \in IndexSet(mem, s) /\ Key[e] = Key[r] /\ e \in Rows /\ e \in Allocated
    BY <1>2, <1>5, <1>6, <1>7
  <2>2. mem' = mem
    BY <1>1, <1>7 DEF mem
  <2>3. AllocatedIn(mem, mem', s, {}) /\ TableInv(mem', s, build_parallel, vectorized)
    BY <1>2, <1>4, <2>2, NoneAllocated
  <2> DEFINE ent == [q \in {r} |-> e]
  <2>4. agg' \in [Rows -> [Rows -> Nat]] /\ Assigned({r}, ent)
    BY <1>1, <1>3, <1>7, <2>1, AdvanceIs
  <2>5. \A q \in {r} : ent[q] \in Allocated \cup {} /\ (Exact => Key[ent[q]] = Key[q])
    BY <2>1
  <2> HIDE DEF ent
  <2>6. {r} \in SUBSET pending /\ {} \in SUBSET {r} /\ \A q \in {} : ent[q] = q
    BY <1>1
  <2>7. QED
    BY <1>1, <2>3, <2>4, <2>5, <2>6, BuildStep
<1>8. CASE e = NULL
  <2>1. SetMem(a) /\ agg' = [agg EXCEPT ![r][r] = @ + 1]
    BY <1>1, <1>8
  <2>2. r \notin Range(mem.t[s].entries)
    BY <1>2, <1>3
  <2>3. AllocatedIn(mem, a, s, {r}) /\ RowFill(a.t[s], build_parallel)
    BY <1>2, <1>3, <1>4, <2>2, AllocRowIs DEF a
  <2>4. mem' = a
    <3>1. a \in MemType
      BY <2>3 DEF AllocatedIn, Local
    <3>2. QED
      BY <2>1, <3>1, SetMemIs
  <2>5. TableInv(a, s, build_parallel, vectorized)
    <3>1. Sound(a, s) /\ \A f \in IndexSet(a, s) : f \in IndexSet(mem, s) \/ f = r
      BY <2>3 DEF AllocatedIn
    <3>2. OnePerKey(IndexSet(a, s))
      BY <1>4, <1>6, <1>8, <3>1 DEF OnePerKey
    <3>3. ~build_parallel => Unflushed(a.t[s])
      BY <2>3 DEF RowFill
    <3>4. QED
      BY <2>3, <3>1, <3>2, <3>3 DEF TableInv
  <2> DEFINE ent == [q \in {r} |-> r]
  <2>6. agg' \in [Rows -> [Rows -> Nat]] /\ Assigned({r}, ent)
    BY <1>3, <2>1, AdvanceIs
  <2>7. /\ \A q \in {r} : ent[q] \in Allocated \cup {r} /\ (Exact => Key[ent[q]] = Key[q])
        /\ \A q \in {r} : ent[q] = q
    OBVIOUS
  <2> HIDE DEF ent
  <2>8. {r} \in SUBSET pending /\ {r} \in SUBSET {r}
    BY <1>1
  <2>9. QED
    BY <1>1, <2>3, <2>4, <2>5, <2>6, <2>7, <2>8, BuildStep
<1>9. QED
  BY <1>7, <1>8

(* Aggregating a vector. *)
LEMMA BatchStep ==
  ASSUME AInv, NEW s \in Tables, NEW batch \in Batches, ProcessBatch(s, batch)
  PROVE  AInv'
<1> DEFINE B == Range(batch)
           found == [r \in Range(batch) |-> PerformLookup(mem, s, Key[r])]
           g == CreateMissingGroups(batch, found)
           b == AllocateEntries(mem, s, Reverse(g.map))
           a == AfterVector(b, s, build_parallel)
           M == {r \in B : found[r] = NULL}
           N == Range(g.map)
           X == IndexSet(mem, s)
<1>1. /\ phase = "build" /\ vectorized /\ s \in Building /\ B \subseteq pending
      /\ agg' = [e \in Rows |-> [r \in Rows |->
                   IF r \in B /\ g.entry[r] = e THEN agg[e][r] + 1 ELSE agg[e][r]]]
      /\ pending' = pending \ B
      /\ UNCHANGED <<plan, phase, owned, freed, nonempty_parts, task, out>>
  BY DEF ProcessBatch
<1>2. SetMem(a)
  BY DEF ProcessBatch, AfterVector
<1>3. batch \in Seq(Rows) /\ batch # <<>>
  <2>1. PICK k \in 1 .. MaxBatch : batch \in [1 .. k -> pending]
    BY DEF Batches
  <2>2. pending \in SUBSET Rows /\ k \in Nat /\ k # 0
    BY SizeAssumption DEF AInv, ATypeOK
  <2>3. batch \in [1 .. k -> Rows]
    BY <2>1, <2>2
  <2>4. QED
    BY <2>2, <2>3
<1>4. /\ mem \in MemType /\ mem.n = next /\ mem.t = tables
      /\ TableInv(mem, s, build_parallel, vectorized)
      /\ Allocated = {f \in Rows : \E u \in Tables : f \in Range(tables[u].entries)}
  BY <1>1, BuildTables
<1>5. /\ agg \in [Rows -> [Rows -> Nat]] /\ build_parallel \in BOOLEAN /\ pending \in SUBSET Rows
      /\ \A r \in pending : r \notin Allocated
  BY DEF AInv, ATypeOK, CountInv
<1>6. /\ Sound(mem, s) /\ (~build_parallel => Unflushed(mem.t[s]))
      /\ (OneColumn => OnePerKey(X))
  BY <1>1, <1>4 DEF TableInv
<1>7. /\ IsChain(mem.n, mem.t[s].head, X) /\ mem.n \in Links
      /\ X \subseteq Range(mem.t[s].entries) /\ Range(mem.t[s].entries) \subseteq Rows
  BY <1>4, <1>6, IndexIs
<1>8. ASSUME NEW r \in B
      PROVE  /\ found[r] = NULL \/ (found[r] \in X /\ Key[found[r]] = Key[r])
             /\ found[r] = NULL => \A f \in X : Key[f] # Key[r]
  <2>1. found[r] = PerformLookup(mem, s, Key[r])
    OBVIOUS
  <2> HIDE DEF found
  <2>2. QED
    BY <1>7, <2>1, LookupIs DEF FoundBy
<1>9. found \in [B -> Rows \cup {NULL}]
  <2>1. \A r \in B : found[r] \in Rows \cup {NULL}
    BY <1>7, <1>8
  <2>2. QED
    BY <2>1
<1> HIDE DEF found, X
<1>10. Grouping(g, B, M, found) /\ \A r \in M : g.entry[r] \in N
  BY <1>3, <1>9, CreateMissingGroupsIs
<1> HIDE DEF g
<1>11. /\ g.map \in Seq(B) /\ IsInjective(g.map) /\ N \in SUBSET M /\ M \in SUBSET B
       /\ \A r \in B \ M : g.entry[r] = found[r]
       /\ \A r \in N : g.entry[r] = r
       /\ OneColumn => (\A r \in M : Key[g.entry[r]] = Key[r]) /\ OnePerKey(N)
  <2>1. NULL \notin N
    <3>1. g.map \in Seq(B)
      BY <1>10 DEF Grouping, GroupType
    <3>2. N \subseteq B /\ B \subseteq Rows
      BY <1>1, <1>5, <3>1, RangeFinite
    <3>3. QED
      BY <3>2, RowsAssumption
  <2>2. QED
    BY <1>10, <2>1 DEF Grouping, GroupType, OnePerKey
<1>12. B \subseteq Rows /\ g.map \in Seq(Rows)
  BY <1>1, <1>5, <1>11
<1> HIDE DEF B, M, N
<1>13. N \cap Range(mem.t[s].entries) = {}
  BY <1>1, <1>4, <1>5, <1>11, <1>12
<1>14. AllocatedIn(mem, a, s, N) /\ (~build_parallel => Unflushed(a.t[s]))
  BY <1>4, <1>5, <1>6, <1>11, <1>12, <1>13, AllocBatchIs DEF N
<1> HIDE DEF a, b
<1>15. mem' = a
  <2>1. a \in MemType
    BY <1>14 DEF AllocatedIn, Local
  <2>2. QED
    BY <1>2, <2>1, SetMemIs
<1>16. TableInv(a, s, build_parallel, vectorized)
  <2>1. Sound(a, s) /\ \A f \in IndexSet(a, s) : f \in X \/ f \in N
    BY <1>14 DEF AllocatedIn, X
  <2>2. ASSUME OneColumn, NEW f \in IndexSet(a, s), NEW h \in IndexSet(a, s), Key[f] = Key[h]
        PROVE  f = h
    <3>1. OnePerKey(X) /\ OnePerKey(N)
      BY <1>6, <1>11, <2>2
    <3>2. \A r \in N : \A x \in X : Key[x] # Key[r]
      BY <1>8, <1>11 DEF M
    <3>3. QED
      BY <2>1, <2>2, <3>1, <3>2 DEF OnePerKey
  <2>3. OneColumn => OnePerKey(IndexSet(a, s))
    BY <2>2 DEF OnePerKey
  <2>4. QED
    BY <1>1, <1>14, <2>1, <2>3 DEF TableInv
<1> DEFINE ent == g.entry
<1>17. ASSUME NEW r \in B PROVE ent[r] \in Allocated \cup N /\ (Exact => Key[ent[r]] = Key[r])
  <2>1. Exact => OneColumn
    BY <1>1 DEF Exact
  <2>2. CASE r \in M
    BY <1>10, <1>11, <2>1, <2>2
  <2>3. CASE r \notin M
    <3>1. ent[r] = found[r] /\ found[r] # NULL
      BY <1>11, <2>3 DEF M
    <3>2. found[r] \in X /\ Key[found[r]] = Key[r]
      BY <1>8, <3>1
    <3>3. QED
      BY <1>4, <1>7, <3>1, <3>2
  <2>4. QED
    BY <2>2, <2>3
<1> HIDE DEF ent
<1>18. agg' = [e \in Rows |-> [r \in Rows |->
                 IF r \in B /\ ent[r] = e THEN agg[e][r] + 1 ELSE agg[e][r]]]
  BY <1>1 DEF ent
<1>19. agg' \in [Rows -> [Rows -> Nat]] /\ Assigned(B, ent)
  BY <1>5, <1>18 DEF Assigned
<1>20. B \in SUBSET pending /\ N \in SUBSET B /\ \A r \in N : ent[r] = r
  BY <1>1, <1>11 DEF ent
<1>21. QED
  BY <1>1, <1>14, <1>15, <1>16, <1>17, <1>19, <1>20, BuildStep

----------------------------------------------------------------------------
(* From the build to the produce pipeline *)

(* Transferring the thread-local tables. *)
LEMMA TransferStep ==
  ASSUME AInv, NEW order \in SetToSeqs(Workers), TransferMemoryAndPartitions(order)
  PROVE  AInv'
<1> DEFINE c == TransferAll(mem, order)
<1>1. /\ phase = "build" /\ pending = {} /\ build_parallel
      /\ SetMem(TransferAll(IF tables[Global].count > 0
                            THEN FlushToOverflowPartitions(mem, Global) ELSE mem, order))
      /\ owned' = owned \cup UNION {Range(tables[w].entries) : w \in Workers}
      /\ phase' = "moved" /\ build_parallel' = build_parallel /\ vectorized' = vectorized
      /\ produce_parallel' = produce_parallel /\ pending' = pending /\ agg' = agg
      /\ freed' = freed /\ nonempty_parts' = nonempty_parts /\ task' = task /\ out' = out
  BY DEF TransferMemoryAndPartitions, plan
<1>2. ATypeOK /\ PhaseInv /\ CountInv /\ OutInv /\ freed = {}
  BY DEF AInv
<1>3. /\ Building = Workers /\ Workers \subseteq Tables /\ Partitions \subseteq Tables
      /\ Global \in Tables /\ Tables = Workers \cup Partitions \cup {Global}
      /\ Global \notin Workers /\ Workers \cap Partitions = {}
  BY <1>1, TablesAssumption DEF Building, Tables
<1>4. /\ mem \in MemType /\ mem.n = next /\ mem.t = tables /\ Apart(mem) /\ owned = {}
      /\ \A s \in Workers : TableInv(mem, s, build_parallel, vectorized)
      /\ \A s \in Tables \ Workers : tables[s] = NewTable
      /\ Allocated = {e \in Rows : \E s \in Tables : e \in Range(tables[s].entries)}
      /\ Live = Allocated
  BY <1>1, <1>3, BuildTables
<1>5. mem.t[Global] = NewTable /\ ReadyToTransfer(mem)
  BY <1>3, <1>4 DEF ReadyToTransfer, TableInv
<1>6. SetMem(c)
  <2>1. ~(tables[Global].count > 0)
    BY <1>4, <1>5, NewTableIs
  <2>2. QED
    BY <1>1, <2>1
<1>7. Transferred(mem, c, Workers)
  BY <1>4, <1>5, TransferAllIs
<1> HIDE DEF c
<1>8. mem' = c /\ c \in MemType /\ tables' = c.t /\ next' = c.n
  <2>1. c \in MemType
    BY <1>7 DEF Transferred
  <2>2. QED
    BY <1>6, <2>1, SetMemIs DEF SetMem
<1>9. \A s \in Workers : Range(tables[s].entries) \subseteq Rows
  BY <1>3, <1>4, IndexIs DEF TableInv
<1>10. owned' = Gathered(mem, Workers) /\ owned' \in SUBSET Rows
  BY <1>1, <1>4, <1>9 DEF Gathered
<1>11. /\ \A p \in Partitions : tables'[p] = NewTable
       /\ \A s \in Tables : tables'[s].entries = <<>>
       /\ tables'[Global].head = NULL /\ \A p \in Partitions : tables'[p].head = NULL
       /\ Partitioned(next', tables'[Global], owned')
  <2>1. ASSUME NEW p \in Partitions PROVE tables'[p] = NewTable
    <3>1. p \in Tables \ Workers /\ c.t[p] = mem.t[p]
      BY <1>3, <1>7 DEF Transferred
    <3>2. QED
      BY <1>4, <1>8, <3>1
  <2>2. ASSUME NEW s \in Tables PROVE tables'[s].entries = <<>>
    BY <1>3, <1>7, <1>8, <2>1, NewTableIs DEF Transferred
  <2>3. tables'[Global].head = NULL /\ \A p \in Partitions : tables'[p].head = NULL
    BY <1>7, <1>8, <2>1, NewTableIs DEF Transferred
  <2>4. Partitioned(next', tables'[Global], owned')
    BY <1>7, <1>8, <1>10 DEF Transferred
  <2>5. QED
    BY <2>1, <2>2, <2>3, <2>4
<1>12. Allocated' = Allocated /\ Live' = Allocated'
  <2>1. \A s \in Tables : Range(tables'[s].entries) = {}
    BY <1>11, NoElements
  <2>2. Allocated' = owned'
    BY <2>1 DEF Allocated
  <2>3. \A s \in Tables \ Workers : Range(tables[s].entries) = {}
    BY <1>4, NewTableIs, NoElements
  <2>4. Allocated = Gathered(mem, Workers)
    BY <1>3, <1>4, <2>3 DEF Gathered
  <2>5. Live' = Allocated'
    BY <1>1 DEF Live
  <2>6. QED
    BY <1>10, <2>2, <2>4, <2>5
<1>13. ATypeOK'
  BY <1>1, <1>2, <1>8, <1>10 DEF ATypeOK
<1>14. PhaseInv'
  BY <1>1, <1>2 DEF PhaseInv, Merging
<1>15. BuildInv' /\ ProduceInv'
  BY <1>1 DEF BuildInv, ProduceInv
<1>16. MovedInv'
  BY <1>11 DEF MovedInv
<1>17. CountInv'
  <2>1. (Exact)' <=> Exact
    BY <1>1 DEF Exact
  <2>2. Live' = Live
    BY <1>4, <1>12
  <2>3. \A r \in Rows \ pending : \E e \in Live : CountedIn(r, e) /\ (Exact => Key[e] = Key[r])
    BY <1>2 DEF CountInv
  <2>4. \A r \in Rows \ pending' : \E e \in Live' : CountedIn(r, e)' /\ ((Exact)' => Key[e] = Key[r])
    BY <1>1, <2>1, <2>2, <2>3 DEF CountedIn
  <2>5. \A e \in Rows : IF e \in Allocated' THEN agg'[e][e] > 0 ELSE \A r \in Rows : agg'[e][r] = 0
    BY <1>1, <1>2, <1>12 DEF CountInv
  <2>6. QED
    BY <1>1, <2>4, <2>5 DEF CountInv
<1>18. OutInv'
  <2>1. Returned = {} /\ Returned' = {}
    BY <1>1 DEF Returned
  <2>2. QED
    BY <1>1, <1>2, <2>1 DEF OutInv
<1>19. QED
  BY <1>1, <1>2, <1>13, <1>14, <1>15, <1>16, <1>17, <1>18 DEF AInv

(* The counts stay when neither the aggregates nor those that count change. *)
LEMMA CountSame ==
  ASSUME CountInv, phase' \notin {"build", "moved"}, pending = {}, pending' = {}, agg' = agg,
         Live' = Live, vectorized' = vectorized
  PROVE  CountInv'
<1>1. (Exact)' <=> Exact
  BY DEF Exact
<1>2. \A r \in Rows \ pending : \E e \in Live : CountedIn(r, e) /\ (Exact => Key[e] = Key[r])
  BY DEF CountInv
<1>3. \A r \in Rows \ pending' : \E e \in Live' : CountedIn(r, e)' /\ ((Exact)' => Key[e] = Key[r])
  BY <1>1, <1>2 DEF CountedIn
<1>4. QED
  BY <1>3 DEF CountInv

(* A list that begins with NULL has no entries. *)
LEMMA EmptyIndex ==
  ASSUME NEW m, m.n \in Links, NEW s, m.t[s].head = NULL
  PROVE  IndexSet(m, s) = {} /\ IsChain(m.n, m.t[s].head, {})
<1>1. IsChain(m.n, m.t[s].head, {})
  BY ChainEmpty
<1>2. QED
  BY <1>1, WalkMeets DEF MeetsExactly, IndexSet

(* Tearing down the build pipeline. *)
LEMMA TearDownStep ==
  ASSUME AInv, TearDownPipeline
  PROVE  AInv'
<1>1. /\ \/ phase = "moved"
         \/ phase = "build" /\ pending = {} /\ ~build_parallel
      /\ freed' = freed \cup UNION {Range(tables[w].entries) : w \in Workers}
      /\ nonempty_parts' = {p \in Partitions : produce_parallel /\ tables[Global].heads[p] # NULL}
      /\ phase' = "produce" /\ build_parallel' = build_parallel /\ vectorized' = vectorized
      /\ produce_parallel' = produce_parallel /\ pending' = pending /\ agg' = agg
      /\ tables' = tables /\ next' = next /\ owned' = owned /\ task' = task /\ out' = out
  BY DEF TearDownPipeline, plan
<1>2. /\ ATypeOK /\ PhaseInv /\ BuildInv /\ MovedInv /\ CountInv /\ OutInv /\ freed = {}
      /\ mem' = mem /\ mem \in MemType /\ mem.n = next /\ mem.t = tables
      /\ pending = {} /\ phase \in {"build", "moved"}
  BY <1>1 DEF AInv, ATypeOK, mem, PhaseInv
<1>3. /\ Workers \subseteq Tables /\ Partitions \subseteq Tables
      /\ Global \in Tables /\ Tables = Workers \cup Partitions \cup {Global}
      /\ Global \notin Workers /\ Workers \cap Partitions = {} /\ Global \notin Partitions
  BY TablesAssumption DEF Tables
<1>4. next \in Links
  BY <1>2, <1>3, MemFields
<1>5. ATypeOK'
  BY <1>1, <1>2 DEF ATypeOK
<1>6. PhaseInv'
  <2>1. \A w \in Workers : ~Merging(w) /\ task[w].curr = NULL
    BY <1>2 DEF PhaseInv
  <2>2. QED
    BY <1>1, <1>2, <2>1 DEF PhaseInv, Merging
<1>7. Allocated' = Allocated
  BY <1>1 DEF Allocated
<1>8. MovedInv'
  BY <1>1 DEF MovedInv
<1>9. ASSUME build_parallel PROVE phase = "moved"
  BY <1>1, <1>9
<1>10. \A w \in Workers : Range(tables[w].entries) = {}
  <2>1. ASSUME NEW w \in Workers PROVE tables[w].entries = <<>>
    <3>1. CASE build_parallel
      BY <1>2, <1>3, <1>9, <3>1 DEF MovedInv
    <3>2. CASE ~build_parallel
      BY <1>2, <1>3, <3>2, NewTableIs DEF BuildInv, Building
    <3>3. QED
      BY <3>1, <3>2
  <2>2. QED
    BY <2>1, NoElements
<1>11. freed' = {}
  BY <1>1, <1>2, <1>10
<1>12. BuildInv'
  <2>1. Building' = Building
    BY <1>1 DEF Building
  <2>2. QED
    BY <1>1, <1>2, <2>1 DEF BuildInv
<1>13. ASSUME build_parallel
       PROVE  /\ \A s \in Tables : tables[s].entries = <<>>
              /\ tables[Global].head = NULL /\ \A p \in Partitions : tables[p].head = NULL
              /\ Partitioned(next, tables[Global], owned)
  BY <1>2, <1>9, <1>13 DEF MovedInv
<1>14. ProduceInv'
  <2>1. SUFFICES ASSUME build_parallel
                 PROVE  /\ \A s \in Workers \cup {Global} : tables'[s].entries = <<>>
                        /\ tables'[Global].head = NULL
                        /\ \A p \in Partitions : PartInv(p)'
                        /\ \A w \in Workers : TaskInv(w)'
                        /\ \A w, v \in Workers :
                             (Merging(w) /\ Merging(v) /\ task[w].part = task[v].part)' => w = v
    BY <1>1 DEF ProduceInv
  <2>2. \A w \in Workers : ~Merging(w)'
    BY <1>1, <1>2 DEF PhaseInv, Merging
  <2>3. ASSUME NEW p \in Partitions PROVE PartInv(p)'
    <3>1. mem.t[p].head = NULL
      BY <1>2, <1>13, <2>1
    <3>2. IndexSet(mem, p) = {} /\ IsChain(next, tables[p].head, {})
      BY <1>2, <1>4, <3>1, EmptyIndex
    <3> DEFINE L == {e \in owned : PartOf(e) = p}
    <3>3. Of(p) = L /\ Of(p)' = L
      BY <1>1 DEF Of
    <3>4. IsChain(next, tables[Global].heads[p], L)
      BY <1>13, <2>1 DEF Partitioned
    <3> HIDE DEF L
    <3>5. p \in nonempty_parts' => L # {}
      BY <1>1, <3>4, ChainEnds
    <3>6. tables[p].entries = <<>>
      BY <1>3, <1>13, <2>1
    <3>7. QED
      BY <1>1, <1>2, <3>2, <3>3, <3>4, <3>5, <3>6 DEF PartInv, OnePerKey
  <2>4. QED
    BY <1>1, <1>3, <1>13, <2>1, <2>2, <2>3 DEF TaskInv
<1>15. Live' = Live
  <2>1. Live = Allocated
    BY <1>2 DEF Live
  <2>2. CASE ~produce_parallel
    BY <1>1, <1>7, <2>1, <2>2 DEF Live
  <2>3. CASE produce_parallel
    <3>1. build_parallel
      BY <1>2, <2>3 DEF PhaseInv
    <3>2. Allocated = owned
      BY <1>13, <3>1, NoElements DEF Allocated
    <3>3. ASSUME NEW e \in Allocated PROVE PartOf(e) \in nonempty_parts'
      <4> DEFINE p == PartOf(e)
                 L == {f \in owned : PartOf(f) = p}
      <4>1. e \in Rows
        BY <1>2, <3>2 DEF ATypeOK
      <4>2. p \in Partitions
        BY <4>1, KeyAssumption DEF PartOf
      <4>3. IsChain(next, tables[Global].heads[p], L)
        BY <1>13, <3>1, <4>2 DEF Partitioned
      <4>4. L # {}
        BY <3>2
      <4> HIDE DEF L
      <4>5. tables[Global].heads[p] # NULL
        BY <4>3, <4>4, ChainEnds
      <4>6. QED
        BY <1>1, <2>3, <4>2, <4>5
    <3>4. QED
      BY <1>7, <2>1, <3>3 DEF Live
  <2>4. QED
    BY <2>2, <2>3
<1>16. CountInv'
  BY <1>1, <1>2, <1>15, CountSame
<1>17. OutInv'
  <2>1. Returned = {}
    BY <1>2 DEF Returned
  <2>2. ASSUME NEW e \in Rows, build_parallel PROVE e \notin IndexSet(mem, PartOf(e))
    <3>1. PartOf(e) \in Partitions
      BY KeyAssumption DEF PartOf
    <3>2. QED
      BY <1>2, <1>4, <1>13, <2>2, <3>1, EmptyIndex
  <2>3. Returned' = {}
    BY <1>1, <1>2, <2>2 DEF Returned
  <2>4. QED
    BY <1>1, <1>2, <2>1, <2>3 DEF OutInv
<1>18. QED
  BY <1>5, <1>6, <1>8, <1>11, <1>12, <1>14, <1>16, <1>17 DEF AInv

----------------------------------------------------------------------------
(* The produce pipeline *)

(* The state of a parallel scan. *)
LEMMA ScanState ==
  ASSUME AInv, phase \in {"produce", "done"}, build_parallel
  PROVE  /\ mem \in MemType /\ mem.n = next /\ mem.t = tables /\ next \in Links
         /\ Allocated = owned /\ owned \subseteq Rows
         /\ \A s \in Tables : tables[s].entries = <<>>
         /\ tables[Global].head = NULL
         /\ \A p \in Partitions : PartInv(p)
         /\ \A v \in Workers : TaskInv(v)
         /\ \A u, v \in Workers : Merging(u) /\ Merging(v) /\ task[u].part = task[v].part => u = v
         /\ \A v \in Workers : task[v] \in TaskType
         /\ pending = {}
<1>1. /\ \A s \in Workers \cup {Global} : tables[s].entries = <<>>
      /\ tables[Global].head = NULL
      /\ \A p \in Partitions : PartInv(p)
      /\ \A v \in Workers : TaskInv(v)
      /\ \A u, v \in Workers : Merging(u) /\ Merging(v) /\ task[u].part = task[v].part => u = v
  BY DEF AInv, ProduceInv
<1>2. mem \in MemType /\ mem.n = next /\ mem.t = tables /\ owned \subseteq Rows
  BY DEF AInv, ATypeOK, mem
<1>3. next \in Links
  BY <1>2 DEF MemType
<1>4. \A s \in Tables : tables[s].entries = <<>>
  BY <1>1 DEF PartInv, Tables
<1>5. Allocated = owned
  BY <1>4, NoElements DEF Allocated
<1>6. \A v \in Workers : task[v] \in TaskType
  BY DEF AInv, ATypeOK
<1>7. pending = {}
  BY DEF AInv, PhaseInv
<1>8. QED
  BY <1>1, <1>2, <1>3, <1>4, <1>5, <1>6, <1>7

(* A worker picks a partition. *)
LEMMA PickStep ==
  ASSUME AInv, NEW w \in Workers, NEW p \in Partitions, BuildTableOverPartition(w, p)
  PROVE  AInv'
<1> DEFINE h == tables[Global].heads[p]
           it == [pc |-> "merge", part |-> p, curr |-> h, next |-> next[h]]
<1>1. /\ phase = "produce" /\ task[w].pc = "idle" /\ p \in nonempty_parts
      /\ nonempty_parts' = nonempty_parts \ {p} /\ task' = [task EXCEPT ![w] = it]
      /\ phase' = phase /\ build_parallel' = build_parallel /\ vectorized' = vectorized
      /\ produce_parallel' = produce_parallel /\ pending' = pending /\ agg' = agg
      /\ tables' = tables /\ next' = next /\ owned' = owned /\ freed' = freed /\ out' = out
  BY DEF BuildTableOverPartition, plan
<1>2. /\ ATypeOK /\ PhaseInv /\ CountInv /\ OutInv /\ freed = {} /\ build_parallel /\ produce_parallel
      /\ mem' = mem /\ task \in [Workers -> TaskType]
  BY <1>1 DEF AInv, PhaseInv, ATypeOK, mem
<1>3. /\ mem \in MemType /\ mem.n = next /\ mem.t = tables /\ next \in Links
      /\ Allocated = owned /\ owned \subseteq Rows
      /\ \A s \in Tables : tables[s].entries = <<>>
      /\ tables[Global].head = NULL
      /\ \A q \in Partitions : PartInv(q)
      /\ \A v \in Workers : TaskInv(v)
      /\ \A u, v \in Workers : Merging(u) /\ Merging(v) /\ task[u].part = task[v].part => u = v
      /\ pending = {}
  BY <1>1, <1>2, ScanState
<1>4. ~Merging(w) /\ task[w].curr = NULL
  BY <1>1, <1>2 DEF Merging, PhaseInv
<1>5. \A q : Of(q)' = Of(q)
  BY <1>1 DEF Of
<1>6. /\ IsChain(next, h, Of(p)) /\ Of(p) # {} /\ IndexSet(mem, p) = {} /\ Of(p) \subseteq Rows
  BY <1>1, <1>3 DEF PartInv, Of
<1>7. h \in Of(p) /\ h \in Rows /\ h # NULL
  BY <1>6, ChainEnds, RowsAssumption
<1>8. IsChain(next, next[h], Of(p) \ {h}) /\ next[h] \in Rows \cup {NULL}
  BY <1>3, <1>6, <1>7, ChainRest DEF Links
<1>9. it \in TaskType
  BY <1>7, <1>8 DEF TaskType
<1>10. /\ task'[w] = it /\ \A v \in Workers \ {w} : task'[v] = task[v]
       /\ task' \in [Workers -> TaskType]
  BY <1>1, <1>2, <1>9
<1>11. it.pc = "merge" /\ it.part = p /\ it.curr = h /\ it.next = next[h]
  OBVIOUS
<1> HIDE DEF h, it
<1>12. /\ Merging(w)' /\ \A v \in Workers \ {w} : Merging(v)' <=> Merging(v)
       /\ \A v \in Workers \ {w} : Ahead(v)' = Ahead(v) /\ Rest(v)' = Rest(v)
  BY <1>1, <1>10, <1>11 DEF Merging, Ahead, Rest
<1>13. Ahead(w)' = Of(p) \ {h} /\ Rest(w)' = Of(p)
  <2>1. Ahead(w)' = Range(Walk(next, next[h]))
    BY <1>1, <1>10, <1>11 DEF Ahead
  <2>2. Range(Walk(next, next[h])) = Of(p) \ {h}
    BY <1>3, <1>8, WalkMeets DEF MeetsExactly
  <2>3. Rest(w)' = {h} \cup Ahead(w)'
    BY <1>7, <1>10, <1>11 DEF Rest
  <2>4. QED
    BY <1>7, <2>1, <2>2, <2>3
<1>14. ATypeOK'
  BY <1>1, <1>2, <1>10 DEF ATypeOK
<1>15. PhaseInv'
  <2>1. ASSUME NEW v \in Workers
        PROVE  IF Merging(v)' THEN phase' = "produce" /\ produce_parallel' ELSE task'[v].curr = NULL
    BY <1>1, <1>2, <1>10, <1>12 DEF PhaseInv
  <2>2. QED
    BY <1>1, <1>2, <2>1 DEF PhaseInv
<1>16. BuildInv' /\ MovedInv'
  BY <1>1, <1>2 DEF BuildInv, MovedInv
<1>17. ASSUME NEW q \in Partitions PROVE PartInv(q)'
  BY <1>1, <1>2, <1>3, <1>5 DEF PartInv
<1>18. ASSUME NEW v \in Workers PROVE TaskInv(v)'
  <2>1. CASE v = w
    <3>1. task'[w].part = p /\ task'[w].next = next[h] /\ task'[w].curr = h
      BY <1>10, <1>11
    <3>2. QED
      BY <1>1, <1>2, <1>5, <1>6, <1>8, <1>13, <2>1, <3>1 DEF TaskInv
  <2>2. CASE v # w
    <3>1. task'[v] = task[v] /\ (Merging(v)' <=> Merging(v)) /\ Ahead(v)' = Ahead(v) /\ Rest(v)' = Rest(v)
      BY <1>10, <1>12, <2>2
    <3>2. TaskInv(v)
      BY <1>3
    <3>3. QED
      BY <1>1, <1>2, <1>5, <3>1, <3>2 DEF TaskInv
  <2>3. QED
    BY <2>1, <2>2
<1>19. \A v \in Workers : Merging(v) => task[v].part # p
  BY <1>1, <1>3 DEF TaskInv
<1>20. ASSUME NEW u \in Workers, NEW v \in Workers, Merging(u)', Merging(v)',
              task'[u].part = task'[v].part
       PROVE  u = v
  <2>1. task'[w].part = p
    BY <1>10, <1>11
  <2>2. \A x \in Workers \ {w} : Merging(x)' => task'[x].part # p
    BY <1>10, <1>12, <1>19
  <2>3. QED
    BY <1>3, <1>10, <1>12, <1>20, <2>1, <2>2
<1>21. ProduceInv'
  <2>1. \A s \in Workers \cup {Global} : tables'[s].entries = <<>>
    BY <1>1, <1>3 DEF Tables
  <2>2. QED
    BY <1>1, <1>3, <1>17, <1>18, <1>20, <2>1 DEF ProduceInv
<1>22. Live' = Live
  <2>1. Allocated' = Allocated
    BY <1>1 DEF Allocated
  <2>2. ASSUME NEW e \in Allocated
        PROVE  (\/ PartOf(e) \in nonempty_parts \/ e \in IndexSet(mem, PartOf(e))
                \/ \E v \in Workers : Merging(v) /\ e \in Rest(v))
               <=>
               (\/ PartOf(e) \in nonempty_parts' \/ e \in IndexSet(mem', PartOf(e))
                \/ \E v \in Workers : Merging(v)' /\ e \in Rest(v)')
    <3>1. CASE PartOf(e) = p
      <4>1. e \in Of(p)
        BY <1>3, <3>1 DEF Of
      <4>2. QED
        BY <1>1, <1>12, <1>13, <3>1, <4>1
    <3>2. CASE PartOf(e) # p
      <4>1. e \notin Of(p)
        BY <3>2 DEF Of
      <4>2. QED
        BY <1>1, <1>2, <1>4, <1>12, <1>13, <3>2, <4>1
    <3>3. QED
      BY <3>1, <3>2
  <2>3. QED
    BY <1>1, <2>1, <2>2 DEF Live
<1>23. CountInv'
  BY <1>1, <1>2, <1>3, <1>22, CountSame
<1>24. OutInv'
  <2>1. ASSUME NEW q PROVE Finished(q)' <=> Finished(q)
    <3>1. CASE q = p
      BY <1>1, <1>10, <1>11, <1>12, <3>1 DEF Finished
    <3>2. CASE q # p
      BY <1>1, <1>4, <1>10, <1>11, <1>12, <3>2 DEF Finished
    <3>3. QED
      BY <3>1, <3>2
  <2>2. Returned' = Returned
    BY <1>1, <1>2, <2>1 DEF Returned
  <2>3. QED
    BY <1>1, <1>2, <2>2 DEF OutInv
<1>25. QED
  BY <1>1, <1>2, <1>14, <1>15, <1>16, <1>21, <1>23, <1>24 DEF AInv

(* What is left of a worker's partition after its iterator moved on. *)
Moved(w, p, c, X) ==
  /\ \A v \in Workers : (Merging(v)' <=> Merging(v)) /\ task'[v].part = task[v].part
  /\ \A v \in Workers \ {w} : Rest(v)' = Rest(v)
  /\ Rest(w)' = Rest(w) \ {c}
  /\ IndexSet(mem', p) = X /\ \A q \in Partitions \ {p} : IndexSet(mem', q) = IndexSet(mem, q)

(* One partial aggregate of a partition was dealt with: it is in the index *)
(* of the partition, X, or not, and no other list has changed.             *)
LEMMA MergeFrame ==
  ASSUME AInv, NEW w \in Workers, Merging(w), task[w].curr # NULL,
         NEW p, p = task[w].part, NEW c, c = task[w].curr,
         mem' \in MemType, \A s \in Tables \ {p} : tables'[s] = tables[s],
         tables'[p].entries = <<>>, \A e \in Rows \ {c} : next'[e] = next[e],
         NEW X, X \subseteq IndexSet(mem, p) \cup {c}, OnePerKey(X),
         IsChain(next', tables'[p].head, X),
         task' = [task EXCEPT ![w] = IterNext(task[w], next')],
         UNCHANGED <<plan, phase, pending, owned, freed, nonempty_parts, out>>
  PROVE  /\ PhaseInv' /\ BuildInv' /\ MovedInv' /\ ProduceInv' /\ OutInv'
         /\ task' \in [Workers -> TaskType] /\ Moved(w, p, c, X)
<1> DEFINE it == task[w]
           new == IterNext(it, next')
<1>1. /\ phase' = phase /\ build_parallel' = build_parallel /\ vectorized' = vectorized
      /\ produce_parallel' = produce_parallel /\ pending' = pending /\ owned' = owned
      /\ freed' = freed /\ nonempty_parts' = nonempty_parts /\ out' = out
  BY DEF plan
<1>2. /\ phase = "produce" /\ produce_parallel /\ build_parallel /\ PhaseInv /\ OutInv
      /\ task \in [Workers -> TaskType]
  BY DEF AInv, PhaseInv, ATypeOK
<1>3. /\ mem \in MemType /\ mem.n = next /\ mem.t = tables /\ next \in Links
      /\ owned \subseteq Rows
      /\ \A s \in Tables : tables[s].entries = <<>>
      /\ tables[Global].head = NULL
      /\ \A q \in Partitions : PartInv(q)
      /\ \A v \in Workers : TaskInv(v)
      /\ \A u, v \in Workers : Merging(u) /\ Merging(v) /\ task[u].part = task[v].part => u = v
      /\ \A v \in Workers : task[v] \in TaskType
  BY <1>2, ScanState
<1>4. /\ p \in Partitions \ nonempty_parts
      /\ IsChain(next, it.next, Ahead(w)) /\ c \notin Ahead(w)
      /\ Rest(w) \subseteq Of(p) /\ Ahead(w) \subseteq Of(p)
      /\ Rest(w) \cap IndexSet(mem, p) = {}
  <2>1. TaskInv(w)
    BY <1>3
  <2>2. QED
    BY <2>1 DEF TaskInv
<1>5. Rest(w) = {c} \cup Ahead(w) /\ c \in Of(p) /\ c \in Rows /\ PartOf(c) = p
  <2>1. Rest(w) = {c} \cup Ahead(w)
    BY DEF Rest
  <2>2. QED
    BY <1>3, <1>4, <2>1 DEF Of
<1>6. mem'.n = next' /\ mem'.t = tables' /\ next' \in Links
  <2>1. mem'.n = next' /\ mem'.t = tables'
    BY DEF mem
  <2>2. QED
    BY <2>1 DEF MemType
<1>7. /\ new.pc = it.pc /\ new.part = it.part /\ new.curr = it.next
      /\ new.next = IF it.next = NULL THEN NULL ELSE next'[it.next]
  BY DEF IterNext
<1>8. it.next \in Rows \cup {NULL} /\ it.pc \in {"idle", "merge"} /\ it.part \in Partitions \cup {NULL}
  BY <1>3 DEF TaskType
<1>9. new \in TaskType
  <2>1. (IF it.next = NULL THEN NULL ELSE next'[it.next]) \in Rows \cup {NULL}
    BY <1>6, <1>8 DEF Links
  <2>2. QED
    BY <1>8, <2>1 DEF IterNext, TaskType
<1> HIDE DEF new
<1>10. /\ task'[w] = new /\ \A v \in Workers \ {w} : task'[v] = task[v]
       /\ task' \in [Workers -> TaskType]
  BY <1>2, <1>9 DEF new
<1>11. \A v \in Workers : (Merging(v)' <=> Merging(v)) /\ task'[v].part = task[v].part
  BY <1>7, <1>10 DEF Merging
<1>12. \A q : Of(q)' = Of(q)
  BY <1>1 DEF Of
<1>13. \A q \in Partitions \ {p} : \A e \in Of(q) : e \in Rows /\ e # c /\ next'[e] = next[e]
  BY <1>3, <1>5 DEF Of
<1>14. IndexSet(mem', p) = X
  BY <1>6, WalkMeets DEF MeetsExactly, IndexSet
<1>15. ASSUME NEW q \in Partitions \ {p}
       PROVE  /\ tables'[q] = tables[q] /\ IndexSet(mem', q) = IndexSet(mem, q)
              /\ IsChain(next', tables[q].head, IndexSet(mem, q))
  <2>1. q \in Tables \ {p} /\ PartInv(q)
    BY <1>3 DEF Tables
  <2>2. IsChain(next, tables[q].head, IndexSet(mem, q)) /\ IndexSet(mem, q) \subseteq Of(q)
    BY <2>1 DEF PartInv
  <2>3. IsChain(next', tables[q].head, IndexSet(mem, q))
    BY <1>13, <2>2, ChainSame
  <2>4. IndexSet(mem', q) = Range(Walk(next', tables[q].head))
    BY <1>6, <2>1 DEF IndexSet
  <2>5. Range(Walk(next', tables[q].head)) = IndexSet(mem, q)
    BY <1>6, <2>3, WalkMeets DEF MeetsExactly
  <2>6. QED
    BY <2>1, <2>3, <2>4, <2>5
<1>16. ASSUME NEW v \in Workers \ {w}, Merging(v)
       PROVE  /\ task[v].part \in Partitions \ {p} /\ TaskInv(v)
              /\ IsChain(next', task[v].next, Ahead(v)) /\ Ahead(v)' = Ahead(v)
  <2>1. TaskInv(v)
    BY <1>3
  <2>2. task[v].part \in Partitions \ {p}
    BY <1>3, <1>16, <2>1 DEF TaskInv
  <2>3. IsChain(next, task[v].next, Ahead(v)) /\ Ahead(v) \subseteq Of(task[v].part)
    BY <1>16, <2>1 DEF TaskInv
  <2>4. IsChain(next', task[v].next, Ahead(v))
    BY <1>13, <2>2, <2>3, ChainSame
  <2>5. Ahead(v)' = Range(Walk(next', task[v].next))
    BY <1>10 DEF Ahead
  <2>6. Range(Walk(next', task[v].next)) = Ahead(v)
    BY <1>6, <2>4, WalkMeets DEF MeetsExactly
  <2>7. QED
    BY <2>1, <2>2, <2>4, <2>5, <2>6
<1>17. ASSUME NEW v \in Workers \ {w} PROVE Rest(v)' = Rest(v)
  <2>1. CASE Merging(v)
    BY <1>10, <1>16, <2>1 DEF Rest
  <2>2. CASE ~Merging(v)
    <3>1. task[v].curr = NULL
      BY <1>2, <2>2 DEF PhaseInv
    <3>2. QED
      BY <1>10, <3>1 DEF Rest
  <2>3. QED
    BY <2>1, <2>2
<1>18. IsChain(next', it.next, Ahead(w)) /\ Ahead(w) \subseteq Rows
  <2>1. \A e \in Ahead(w) : next'[e] = next[e]
    BY <1>3, <1>4 DEF Of
  <2>2. QED
    BY <1>4, <2>1, ChainSame, ChainEnds
<1>19. /\ IsChain(next', new.next, Ahead(w)') /\ new.curr \notin Ahead(w)'
       /\ Rest(w)' = Ahead(w) /\ Ahead(w)' \subseteq Ahead(w)
  <2> DEFINE A == Ahead(w)
  <2>1. Ahead(w)' = Range(Walk(next', new.next))
    BY <1>10 DEF Ahead
  <2>2. Rest(w)' = IF new.curr = NULL THEN {} ELSE {new.curr} \cup Ahead(w)'
    BY <1>10 DEF Rest
  <2>3. IsChain(next', it.next, A) /\ A \subseteq Rows
    BY <1>18
  <2> HIDE DEF A
  <2>4. CASE it.next = NULL
    <3>1. A = {}
      BY <2>3, <2>4, ChainEnds
    <3>2. new.curr = NULL /\ new.next = NULL
      BY <1>7, <2>4
    <3>3. IsChain(next', NULL, {})
      BY ChainEmpty
    <3>4. Range(Walk(next', NULL)) = {}
      BY <1>6, <3>3, WalkMeets DEF MeetsExactly
    <3>5. QED
      BY <2>1, <2>2, <3>1, <3>2, <3>3, <3>4 DEF A
  <2>5. CASE it.next # NULL
    <3>1. A # {} /\ it.next \in A
      BY <2>3, <2>5, ChainEnds
    <3>2. new.curr = it.next /\ new.next = next'[it.next]
      BY <1>7, <2>5
    <3>3. IsChain(next', next'[it.next], A \ {it.next})
      BY <2>3, <3>1, ChainRest
    <3>4. Range(Walk(next', next'[it.next])) = A \ {it.next}
      BY <1>6, <3>3, WalkMeets DEF MeetsExactly
    <3>5. QED
      BY <2>1, <2>2, <2>5, <3>1, <3>2, <3>3, <3>4 DEF A
  <2>6. QED
    BY <2>4, <2>5
<1>20. Moved(w, p, c, X)
  BY <1>4, <1>5, <1>11, <1>14, <1>15, <1>17, <1>19 DEF Moved
<1>21. PhaseInv'
  <2>1. ASSUME NEW v \in Workers
        PROVE  IF Merging(v)' THEN phase' = "produce" /\ produce_parallel' ELSE task'[v].curr = NULL
    BY <1>1, <1>2, <1>10, <1>11 DEF PhaseInv
  <2>2. QED
    BY <1>1, <1>2, <2>1 DEF PhaseInv
<1>22. BuildInv' /\ MovedInv'
  BY <1>1, <1>2 DEF BuildInv, MovedInv
<1>23. ASSUME NEW q \in Partitions PROVE PartInv(q)'
  <2>1. PartInv(q)
    BY <1>3
  <2>2. CASE q = p
    <3>1. X \subseteq Of(p)
      BY <1>5, <2>1, <2>2 DEF PartInv
    <3>2. QED
      BY <1>1, <1>4, <1>12, <1>14, <2>2, <3>1 DEF PartInv
  <2>3. CASE q # p
    <3>1. /\ tables'[q] = tables[q] /\ IndexSet(mem', q) = IndexSet(mem, q)
          /\ IsChain(next', tables[q].head, IndexSet(mem, q))
      BY <1>15, <2>3
    <3>2. tables'[Global] = tables[Global]
      <4>1. Global \in Tables \ {p}
        BY <1>4, TablesAssumption DEF Tables
      <4>2. QED
        BY <4>1
    <3>3. ASSUME q \in nonempty_parts PROVE IsChain(next', tables[Global].heads[q], Of(q))
      <4>1. IsChain(next, tables[Global].heads[q], Of(q))
        BY <2>1, <3>3 DEF PartInv
      <4>2. QED
        BY <1>13, <2>3, <4>1, ChainSame
    <3>4. QED
      BY <1>1, <1>12, <2>1, <3>1, <3>2, <3>3 DEF PartInv
  <2>4. QED
    BY <2>2, <2>3
<1>24. ASSUME NEW v \in Workers PROVE TaskInv(v)'
  <2>1. CASE v = w
    <3>1. task'[w].part = p /\ task'[w].next = new.next /\ task'[w].curr = new.curr
      BY <1>7, <1>10
    <3>2. Rest(w)' \cap X = {}
      BY <1>4, <1>5, <1>19
    <3>3. QED
      BY <1>1, <1>4, <1>12, <1>14, <1>19, <2>1, <3>1, <3>2 DEF TaskInv
  <2>2. CASE v # w /\ Merging(v)
    <3> DEFINE q == task[v].part
    <3>1. /\ q \in Partitions \ {p} /\ TaskInv(v)
          /\ IsChain(next', task[v].next, Ahead(v)) /\ Ahead(v)' = Ahead(v)
      BY <1>16, <2>2
    <3>2. IndexSet(mem', q) = IndexSet(mem, q) /\ Rest(v)' = Rest(v) /\ task'[v] = task[v]
      BY <1>10, <1>15, <1>17, <2>2, <3>1
    <3>3. QED
      BY <1>1, <1>12, <2>2, <3>1, <3>2 DEF TaskInv
  <2>3. CASE ~Merging(v)
    BY <1>11, <2>3 DEF TaskInv
  <2>4. QED
    BY <2>1, <2>2, <2>3
<1>25. ProduceInv'
  <2>1. ASSUME NEW s \in Workers \cup {Global} PROVE tables'[s] = tables[s]
    <3>1. s \in Tables \ {p}
      BY <1>4, TablesAssumption DEF Tables
    <3>2. QED
      BY <3>1
  <2>2. \A s \in Workers \cup {Global} : tables'[s].entries = <<>>
    BY <1>3, <2>1 DEF Tables
  <2>3. tables'[Global].head = NULL
    BY <1>3, <2>1
  <2>4. \A u, v \in Workers :
          (Merging(u) /\ Merging(v) /\ task[u].part = task[v].part)' => u = v
    BY <1>3, <1>11
  <2>5. QED
    BY <1>23, <1>24, <2>2, <2>3, <2>4 DEF ProduceInv
<1>26. OutInv'
  <2>1. ASSUME NEW q PROVE Finished(q)' <=> Finished(q)
    BY <1>1, <1>11 DEF Finished
  <2>2. ~Finished(p)
    BY DEF Finished
  <2>3. ASSUME NEW e \in Rows PROVE e \in Returned' <=> e \in Returned
    <3>1. PartOf(e) \in Partitions
      BY KeyAssumption DEF PartOf
    <3>2. CASE PartOf(e) = p
      BY <1>1, <1>2, <2>1, <2>2, <3>2 DEF Returned
    <3>3. CASE PartOf(e) # p
      BY <1>1, <1>2, <1>15, <2>1, <3>1, <3>3 DEF Returned
    <3>4. QED
      BY <3>2, <3>3
  <2>4. QED
    BY <1>1, <1>2, <2>3 DEF OutInv
<1>27. QED
  BY <1>10, <1>20, <1>21, <1>22, <1>25, <1>26

(* The live aggregates after a worker dealt with the aggregate c. *)
LEMMA LiveMoved ==
  ASSUME AInv, NEW w \in Workers, Merging(w), task[w].curr # NULL,
         NEW p, p = task[w].part, NEW c, c = task[w].curr, NEW X, Moved(w, p, c, X),
         IndexSet(mem, p) \subseteq X, X \subseteq IndexSet(mem, p) \cup {c},
         UNCHANGED <<plan, phase, owned, nonempty_parts>>,
         \A s \in Tables : tables'[s].entries = <<>>
  PROVE  /\ c \in Live /\ c \in Rows /\ c \notin IndexSet(mem, p)
         /\ IndexSet(mem, p) \subseteq Live /\ Live \subseteq Rows
         /\ Live' = IF c \in X THEN Live ELSE Live \ {c}
<1>1. /\ phase' = phase /\ produce_parallel' = produce_parallel /\ owned' = owned
      /\ nonempty_parts' = nonempty_parts
  BY DEF plan
<1>2. phase = "produce" /\ produce_parallel /\ build_parallel
  BY DEF AInv, PhaseInv
<1>3. /\ Allocated = owned /\ owned \subseteq Rows
      /\ \A q \in Partitions : PartInv(q)
      /\ \A v \in Workers : TaskInv(v)
      /\ \A u, v \in Workers : Merging(u) /\ Merging(v) /\ task[u].part = task[v].part => u = v
  BY <1>2, ScanState
<1>4. /\ p \in Partitions \ nonempty_parts /\ c \notin Ahead(w)
      /\ Rest(w) \subseteq Of(p) /\ Rest(w) \cap IndexSet(mem, p) = {}
  <2>1. TaskInv(w)
    BY <1>3
  <2>2. QED
    BY <2>1 DEF TaskInv
<1>5. Rest(w) = {c} \cup Ahead(w)
  BY DEF Rest
<1>6. c \in owned /\ PartOf(c) = p /\ c \in Rows /\ c \notin IndexSet(mem, p) /\ c \in Rest(w)
  BY <1>3, <1>4, <1>5 DEF Of
<1>7. \A e : e \in IndexSet(mem, p) => e \in owned /\ PartOf(e) = p
  BY <1>3, <1>4 DEF PartInv, Of
<1>8. \A v \in Workers : Merging(v) /\ v # w => \A e \in Rest(v) : PartOf(e) # p
  <2>1. ASSUME NEW v \in Workers, Merging(v), v # w, NEW e \in Rest(v) PROVE PartOf(e) # p
    <3>1. TaskInv(v) /\ task[v].part # p
      BY <1>3, <2>1
    <3>2. e \in Of(task[v].part)
      BY <2>1, <3>1 DEF TaskInv
    <3>3. QED
      BY <3>1, <3>2 DEF Of
  <2>2. QED
    BY <2>1
<1>9. Allocated' = owned
  BY <1>1, NoElements DEF Allocated
<1>10. \A e : e \in Live <=> /\ e \in owned
                             /\ \/ PartOf(e) \in nonempty_parts \/ e \in IndexSet(mem, PartOf(e))
                                \/ \E v \in Workers : Merging(v) /\ e \in Rest(v)
  BY <1>2, <1>3 DEF Live
<1>11. \A e : e \in Live' <=> /\ e \in owned
                              /\ \/ PartOf(e) \in nonempty_parts \/ e \in IndexSet(mem', PartOf(e))
                                 \/ \E v \in Workers : Merging(v)' /\ e \in Rest(v)'
  BY <1>1, <1>2, <1>9 DEF Live
<1>12. c \in Live /\ IndexSet(mem, p) \subseteq Live /\ Live \subseteq Rows
  BY <1>3, <1>6, <1>7, <1>10
<1>13. /\ \A v \in Workers : Merging(v)' <=> Merging(v)
       /\ \A v \in Workers \ {w} : Rest(v)' = Rest(v)
       /\ Rest(w)' = Rest(w) \ {c}
       /\ IndexSet(mem', p) = X /\ \A q \in Partitions \ {p} : IndexSet(mem', q) = IndexSet(mem, q)
  BY DEF Moved
<1>14. c \in Live' <=> c \in X
  BY <1>4, <1>6, <1>8, <1>11, <1>13
<1>15. ASSUME NEW e, e # c PROVE e \in Live' <=> e \in Live
  <2>1. ASSUME e \in owned
        PROVE  e \in IndexSet(mem', PartOf(e)) <=> e \in IndexSet(mem, PartOf(e))
    <3>1. PartOf(e) \in Partitions
      BY <1>3, <2>1, KeyAssumption DEF PartOf
    <3>2. CASE PartOf(e) = p
      BY <1>13, <1>15, <3>2
    <3>3. CASE PartOf(e) # p
      BY <1>13, <3>1, <3>3
    <3>4. QED
      BY <3>2, <3>3
  <2>2. (\E v \in Workers : Merging(v)' /\ e \in Rest(v)') <=> (\E v \in Workers : Merging(v) /\ e \in Rest(v))
    BY <1>13, <1>15
  <2>3. QED
    BY <1>10, <1>11, <2>1, <2>2
<1>16. CASE c \in X
  <2>1. \A e : e \in Live' <=> e \in Live
    BY <1>12, <1>14, <1>15, <1>16
  <2>2. Live' = Live
    BY <2>1
  <2>3. QED
    BY <1>6, <1>12, <1>16, <2>2
<1>17. CASE c \notin X
  <2>1. \A e : e \in Live' <=> e \in Live \ {c}
    BY <1>14, <1>15, <1>17
  <2>2. Live' = Live \ {c}
    BY <2>1
  <2>3. QED
    BY <1>6, <1>12, <1>17, <2>2
<1>18. QED
  BY <1>16, <1>17

(* Entry c was linked into the index X of table s. *)
Inserted(m, a, s, c, X) ==
  /\ Local(m, a, s, {c}) /\ IsChain(a.n, a.t[s].head, X \cup {c})
  /\ a.t[s].entries = m.t[s].entries

(* Inserting an entry that another table allocated. *)
LEMMA InsertIs ==
  ASSUME NEW m \in MemType, NEW s \in Tables, NEW X, IsChain(m.n, m.t[s].head, X),
         NEW c \in Rows, c \notin X, NEW a, a = Insert(m, s, c)
  PROVE  Inserted(m, a, s, c, X)
<1> DEFINE tb == m.t[s]
           q == <<c>>
<1>1. m.n \in Links /\ tb \in TableType
  BY MemFields
<1>2. q \in Seq(Rows) /\ IsInjective(q) /\ Range(q) = {c}
  BY SingleIs
<1>3. a = InsertAll(m, s, tb, q)
  BY DEF Insert
<1>4. IsChain(m.n, tb.head, X)
  OBVIOUS
<1>5. a.t[s].entries = tb.entries => a.t[s].entries = m.t[s].entries
  OBVIOUS
<1> HIDE DEF q, tb
<1>6. /\ Local(m, a, s, Range(q))
      /\ a.n = Pushed(m.n, tb.head, q)
      /\ a.t[s].head = Top(tb.head, q) /\ a.t[s].count = tb.count + Len(q)
      /\ a.t[s].capacity = tb.capacity /\ a.t[s].max_fill = tb.max_fill
      /\ a.t[s].entries = tb.entries /\ a.t[s].heads = tb.heads /\ a.t[s].tails = tb.tails
  <2>1. ASSUME NEW tt \in TableType, NEW qq \in Seq(Rows), IsInjective(qq), a = InsertAll(m, s, tt, qq)
        PROVE  /\ Local(m, a, s, Range(qq))
               /\ a.n = Pushed(m.n, tt.head, qq)
               /\ a.t[s].head = Top(tt.head, qq) /\ a.t[s].count = tt.count + Len(qq)
               /\ a.t[s].capacity = tt.capacity /\ a.t[s].max_fill = tt.max_fill
               /\ a.t[s].entries = tt.entries /\ a.t[s].heads = tt.heads /\ a.t[s].tails = tt.tails
    BY <2>1, InsertAllIs
  <2>2. QED
    BY ONLY <1>1, <1>2, <1>3, <2>1, Zenon
<1>7. IsChain(Pushed(m.n, tb.head, q), Top(tb.head, q), X \cup Range(q))
  <2>1. Range(q) \cap X = {}
    BY <1>2
  <2>2. QED
    BY <1>1, <1>2, <1>4, <2>1, PushedChain
<1>8. QED
  BY <1>2, <1>5, <1>6, <1>7 DEF Inserted

(* Merging one partial aggregate. *)
LEMMA MergeStep ==
  ASSUME AInv, NEW w \in Workers, MergePartial(w)
  PROVE  AInv'
<1> DEFINE it == task[w]
           p == it.part
           c == it.curr
           e == PerformLookup(mem, p, Key[c])
           a == Insert(mem, p, c)
           X == IndexSet(mem, p)
<1>1. /\ Merging(w) /\ c # NULL
      /\ IF e # NULL
         THEN /\ agg' = [agg EXCEPT ![e] = [r \in Rows |-> @[r] + agg[c][r]]]
              /\ UNCHANGED <<tables, next>>
         ELSE SetMem(a) /\ agg' = agg
      /\ task' = [task EXCEPT ![w] = IterNext(task[w], next')]
      /\ UNCHANGED <<plan, phase, pending, owned, freed, nonempty_parts, out>>
  BY DEF MergePartial, Merging
<1>2. /\ phase' = phase /\ build_parallel' = build_parallel /\ vectorized' = vectorized
      /\ produce_parallel' = produce_parallel /\ pending' = pending /\ owned' = owned
      /\ freed' = freed /\ nonempty_parts' = nonempty_parts /\ out' = out
  BY <1>1 DEF plan
<1>3. /\ phase = "produce" /\ build_parallel /\ produce_parallel /\ ATypeOK /\ CountInv /\ freed = {}
  BY <1>1 DEF AInv, PhaseInv
<1>4. /\ mem \in MemType /\ mem.n = next /\ mem.t = tables /\ next \in Links
      /\ \A s \in Tables : tables[s].entries = <<>>
      /\ \A q \in Partitions : PartInv(q)
      /\ TaskInv(w) /\ pending = {} /\ owned \subseteq Rows
  BY <1>3, ScanState
<1>5. /\ p \in Partitions \ nonempty_parts /\ p \in Tables
      /\ c \in Rest(w) /\ Rest(w) \subseteq Of(p) /\ Rest(w) \cap X = {} /\ c \in Rows
  BY <1>1, <1>4 DEF TaskInv, Rest, Of, Tables
<1>6. IsChain(next, tables[p].head, X) /\ OnePerKey(X) /\ X \subseteq Of(p)
  BY <1>4, <1>5 DEF PartInv
<1>7. /\ e = NULL \/ (e \in X /\ Key[e] = Key[c])
      /\ e = NULL => \A f \in X : Key[f] # Key[c]
  <2>1. IsChain(mem.n, mem.t[p].head, X) /\ mem.n \in Links
    BY <1>4, <1>6
  <2>2. e = PerformLookup(mem, p, Key[c])
    OBVIOUS
  <2> HIDE DEF X, e, p, c
  <2>3. FoundBy(e, X, Key[c])
    BY ONLY <2>1, <2>2, LookupIs, Zenon
  <2>4. QED
    BY <2>3 DEF FoundBy
<1>8. agg \in [Rows -> [Rows -> Nat]] /\ \A f, r \in Rows : agg[f][r] \in Nat
  BY <1>3 DEF ATypeOK
<1>9. \A r \in Rows : \E x \in Live : CountedIn(r, x) /\ (Exact => Key[x] = Key[r])
  BY <1>3, <1>4 DEF CountInv
<1>10. (Exact)' <=> Exact
  BY <1>2 DEF Exact
<1> HIDE DEF e, a, X
<1>11. CASE e # NULL
  <2>1. e \in X /\ Key[e] = Key[c]
    BY <1>7, <1>11
  <2>2. mem' = mem /\ tables' = tables /\ next' = next
    BY <1>1, <1>11 DEF mem
  <2>3. X \subseteq IndexSet(mem, p) \cup {c}
    BY DEF X
  <2>4. \A s \in Tables : tables'[s].entries = <<>>
    BY <1>4, <2>2
  <2>5. /\ PhaseInv' /\ BuildInv' /\ MovedInv' /\ ProduceInv' /\ OutInv'
        /\ task' \in [Workers -> TaskType] /\ Moved(w, p, c, X)
    <3>1. /\ mem' \in MemType /\ (\A s \in Tables \ {p} : tables'[s] = tables[s])
          /\ tables'[p].entries = <<>> /\ (\A f \in Rows \ {c} : next'[f] = next[f])
          /\ IsChain(next', tables'[p].head, X)
      BY <1>4, <1>5, <1>6, <2>2, <2>4
    <3>2. QED
      BY <1>1, <1>6, <2>3, <3>1, MergeFrame
  <2>6. /\ c \in Live /\ c \in Rows /\ c \notin X /\ X \subseteq Live /\ Live \subseteq Rows
        /\ Live' = Live \ {c}
    <3>1. /\ c \in Live /\ c \in Rows /\ c \notin IndexSet(mem, p)
          /\ IndexSet(mem, p) \subseteq Live /\ Live \subseteq Rows
          /\ Live' = IF c \in X THEN Live ELSE Live \ {c}
      <4>1. IndexSet(mem, p) \subseteq X /\ UNCHANGED <<plan, phase, owned, nonempty_parts>>
        BY <1>1 DEF X
      <4>2. QED
        BY <1>1, <2>3, <2>4, <2>5, <4>1, LiveMoved
    <3>2. QED
      BY <3>1 DEF X
  <2>7. e \in Rows /\ e \in Live' /\ e \in Live /\ e # c
    BY <2>1, <2>6
  <2>8. /\ agg' \in [Rows -> [Rows -> Nat]]
        /\ \A r \in Rows : agg'[e][r] = agg[e][r] + agg[c][r]
        /\ \A f \in Rows \ {e} : agg'[f] = agg[f]
    <3> DEFINE sum == [r \in Rows |-> agg[e][r] + agg[c][r]]
    <3>1. agg' = [agg EXCEPT ![e] = sum]
      BY <1>1, <1>11
    <3>2. sum \in [Rows -> Nat] /\ \A r \in Rows : sum[r] = agg[e][r] + agg[c][r]
      BY <1>8, <2>6, <2>7
    <3> HIDE DEF sum
    <3>3. QED
      BY <1>8, <2>7, <3>1, <3>2
  <2>9. ASSUME NEW r \in Rows
        PROVE  \E x \in Live' : CountedIn(r, x)' /\ ((Exact)' => Key[x] = Key[r])
    <3>1. PICK x \in Live : CountedIn(r, x) /\ (Exact => Key[x] = Key[r])
      BY <1>9
    <3>2. agg[x][r] = 1 /\ \A f \in Live \ {x} : agg[f][r] = 0
      BY <3>1 DEF CountedIn
    <3>3. agg'[e][r] = agg[e][r] + agg[c][r]
      BY <2>8
    <3>4. \A f \in Live' \ {e} : agg'[f][r] = agg[f][r]
      BY <2>6, <2>8
    <3>5. CASE x = c \/ x = e
      <4>1. agg'[e][r] = 1
        BY <2>6, <2>7, <3>2, <3>3, <3>5
      <4>2. \A f \in Live' \ {e} : agg'[f][r] = 0
        BY <2>6, <3>2, <3>4, <3>5
      <4>3. Exact => Key[e] = Key[r]
        BY <2>1, <3>1, <3>5
      <4>4. QED
        BY <1>10, <2>7, <4>1, <4>2, <4>3 DEF CountedIn
    <3>6. CASE x # c /\ x # e
      <4>1. agg'[e][r] = 0
        BY <2>6, <2>7, <3>2, <3>3, <3>6
      <4>2. x \in Live' /\ agg'[x][r] = 1
        BY <2>6, <3>2, <3>4, <3>6
      <4>3. \A f \in Live' \ {x} : agg'[f][r] = 0
        BY <2>6, <3>2, <3>4, <4>1
      <4>4. QED
        BY <1>10, <3>1, <4>2, <4>3 DEF CountedIn
    <3>7. QED
      BY <3>5, <3>6
  <2>10. CountInv'
    BY <1>2, <1>3, <1>4, <2>9 DEF CountInv
  <2>11. ATypeOK'
    BY <1>2, <1>3, <1>4, <2>2, <2>5, <2>8 DEF ATypeOK
  <2>12. QED
    BY <1>2, <1>3, <2>5, <2>10, <2>11 DEF AInv
<1>12. CASE e = NULL
  <2> DEFINE Y == X \cup {c}
  <2>1. c \notin X
    BY <1>5
  <2>2. Inserted(mem, a, p, c, X)
    <3>1. IsChain(mem.n, mem.t[p].head, X) /\ c \in Rows /\ p \in Tables /\ a = Insert(mem, p, c)
      BY <1>4, <1>5, <1>6 DEF a
    <3> HIDE DEF p, c
    <3>2. QED
      BY ONLY <1>4, <2>1, <3>1, InsertIs, Zenon
  <2>3. Local(mem, a, p, {c}) /\ IsChain(a.n, a.t[p].head, Y) /\ a.t[p].entries = mem.t[p].entries
    BY <2>2 DEF Inserted
  <2>4. a \in MemType
    BY <2>3 DEF Local
  <2>5. mem' = a /\ tables' = a.t /\ next' = a.n
    <3>1. SetMem(a)
      BY <1>1, <1>12
    <3>2. QED
      BY <2>4, <3>1, SetMemIs DEF SetMem
  <2>6. IsChain(next', tables'[p].head, Y)
    BY <2>3, <2>5
  <2>7. OnePerKey(Y)
    BY <1>6, <1>7, <1>12 DEF OnePerKey
  <2>8. /\ mem' \in MemType /\ (\A s \in Tables \ {p} : tables'[s] = tables[s])
         /\ tables'[p].entries = <<>> /\ (\A f \in Rows \ {c} : next'[f] = next[f])
    BY <1>4, <1>5, <2>3, <2>4, <2>5 DEF Local
  <2>9. Y \subseteq IndexSet(mem, p) \cup {c} /\ IndexSet(mem, p) \subseteq Y /\ c \in Y
    BY DEF X
  <2> HIDE DEF Y
  <2>10. /\ PhaseInv' /\ BuildInv' /\ MovedInv' /\ ProduceInv' /\ OutInv'
         /\ task' \in [Workers -> TaskType] /\ Moved(w, p, c, Y)
    BY <1>1, <2>6, <2>7, <2>8, <2>9, MergeFrame
  <2>11. Live' = Live
    <3>1. \A s \in Tables : tables'[s].entries = <<>>
      BY <1>4, <1>5, <2>8
    <3>2. UNCHANGED <<plan, phase, owned, nonempty_parts>>
      BY <1>1
    <3>3. Live' = IF c \in Y THEN Live ELSE Live \ {c}
      BY <1>1, <2>9, <2>10, <3>1, <3>2, LiveMoved
    <3>4. QED
      BY <2>9, <3>3
  <2>12. agg' = agg
    BY <1>1, <1>12
  <2>13. CountInv'
    BY <1>2, <1>3, <1>4, <2>11, <2>12, CountSame
  <2>14. ATypeOK'
    BY <1>2, <1>3, <1>4, <2>8, <2>10, <2>12 DEF ATypeOK
  <2>15. QED
    BY <1>2, <1>3, <2>10, <2>13, <2>14 DEF AInv
<1>13. QED
  BY <1>11, <1>12

(* Returning the rows of a partition. *)
LEMMA ScanStep ==
  ASSUME AInv, NEW w \in Workers, ScanPartition(w)
  PROVE  AInv'
<1> SUFFICES ASSUME NEW p, p = task[w].part
             PROVE  AInv'
  OBVIOUS
<1> DEFINE it == [pc |-> "idle", part |-> task[w].part, curr |-> task[w].curr,
                  next |-> task[w].next]
           X == IndexSet(mem, p)
<1>1. /\ Merging(w) /\ task[w].curr = NULL /\ Scan(p)
      /\ task' = [task EXCEPT ![w] = it]
      /\ phase' = phase /\ build_parallel' = build_parallel /\ vectorized' = vectorized
      /\ produce_parallel' = produce_parallel /\ pending' = pending /\ agg' = agg
      /\ tables' = tables /\ next' = next /\ owned' = owned /\ freed' = freed
      /\ nonempty_parts' = nonempty_parts
  BY DEF ScanPartition, plan, Merging
<1>2. /\ ATypeOK /\ PhaseInv /\ CountInv /\ OutInv /\ freed = {} /\ build_parallel /\ produce_parallel
      /\ phase = "produce" /\ mem' = mem /\ task \in [Workers -> TaskType] /\ out \in [Rows -> Nat]
  BY <1>1 DEF AInv, PhaseInv, ATypeOK, mem
<1>3. /\ mem \in MemType /\ mem.n = next /\ mem.t = tables /\ next \in Links
      /\ Allocated = owned /\ owned \subseteq Rows
      /\ \A s \in Tables : tables[s].entries = <<>>
      /\ tables[Global].head = NULL
      /\ \A q \in Partitions : PartInv(q)
      /\ \A v \in Workers : TaskInv(v)
      /\ \A u, v \in Workers : Merging(u) /\ Merging(v) /\ task[u].part = task[v].part => u = v
      /\ pending = {}
  BY <1>2, ScanState
<1>4. p \in Partitions \ nonempty_parts /\ X \subseteq Of(p)
  BY <1>1, <1>3 DEF TaskInv, PartInv
<1>5. it \in TaskType
  BY <1>2 DEF TaskType
<1>6. it.pc = "idle" /\ it.part = p /\ it.curr = NULL
  BY <1>1
<1> HIDE DEF it
<1>7. /\ task'[w] = it /\ \A v \in Workers \ {w} : task'[v] = task[v]
      /\ task' \in [Workers -> TaskType]
  BY <1>1, <1>2, <1>5
<1>8. /\ ~Merging(w)' /\ \A v \in Workers \ {w} : Merging(v)' <=> Merging(v)
      /\ \A v \in Workers \ {w} : Ahead(v)' = Ahead(v) /\ Rest(v)' = Rest(v)
      /\ Rest(w) = {}
  BY <1>1, <1>6, <1>7 DEF Merging, Ahead, Rest
<1>9. \A q : Of(q)' = Of(q)
  BY <1>1 DEF Of
<1>10. \A e \in Rows : out'[e] = IF e \in X THEN out[e] + 1 ELSE out[e]
  <2>1. out' = [e \in Rows |-> IF e \in X THEN out[e] + 1 ELSE out[e]]
    BY <1>1 DEF Scan, Index, IndexSet
  <2> HIDE DEF X
  <2>2. QED
    BY <2>1
<1>11. out' \in [Rows -> Nat]
  <2>1. out' = [e \in Rows |-> IF e \in X THEN out[e] + 1 ELSE out[e]]
    BY <1>1 DEF Scan, Index, IndexSet
  <2> HIDE DEF X
  <2>2. QED
    BY <1>2, <2>1
<1> HIDE DEF X
<1>12. ATypeOK'
  BY <1>1, <1>2, <1>7, <1>11 DEF ATypeOK
<1>13. PhaseInv'
  <2>1. ASSUME NEW v \in Workers
        PROVE  IF Merging(v)' THEN phase' = "produce" /\ produce_parallel' ELSE task'[v].curr = NULL
    BY <1>1, <1>2, <1>6, <1>7, <1>8 DEF PhaseInv
  <2>2. QED
    BY <1>1, <1>2, <2>1 DEF PhaseInv
<1>14. BuildInv' /\ MovedInv'
  BY <1>1, <1>2 DEF BuildInv, MovedInv
<1>15. ASSUME NEW q \in Partitions PROVE PartInv(q)'
  BY <1>1, <1>2, <1>3, <1>9 DEF PartInv
<1>16. ASSUME NEW v \in Workers PROVE TaskInv(v)'
  <2>1. CASE v = w
    BY <1>8, <2>1 DEF TaskInv
  <2>2. CASE v # w
    <3>1. task'[v] = task[v] /\ (Merging(v)' <=> Merging(v)) /\ Ahead(v)' = Ahead(v) /\ Rest(v)' = Rest(v)
      BY <1>7, <1>8, <2>2
    <3>2. TaskInv(v)
      BY <1>3
    <3>3. QED
      BY <1>1, <1>2, <1>9, <3>1, <3>2 DEF TaskInv
  <2>3. QED
    BY <2>1, <2>2
<1>17. ProduceInv'
  <2>1. \A s \in Workers \cup {Global} : tables'[s].entries = <<>>
    BY <1>1, <1>3 DEF Tables
  <2>2. \A u, v \in Workers : Merging(u)' /\ Merging(v)' /\ task'[u].part = task'[v].part => u = v
    BY <1>3, <1>7, <1>8
  <2>3. QED
    BY <1>1, <1>3, <1>15, <1>16, <2>1, <2>2 DEF ProduceInv
<1>18. Live' = Live
  <2>1. Allocated' = Allocated
    BY <1>1 DEF Allocated
  <2>2. \A e : (\E v \in Workers : Merging(v) /\ e \in Rest(v))
                 <=> (\E v \in Workers : Merging(v)' /\ e \in Rest(v)')
    BY <1>8
  <2>3. QED
    BY <1>1, <1>2, <2>1, <2>2 DEF Live
<1>19. CountInv'
  BY <1>1, <1>2, <1>3, <1>18, CountSame
<1>20. OutInv'
  <2>1. Finished(p)' /\ ~Finished(p) /\ \A q : q # p => (Finished(q)' <=> Finished(q))
    <3>1. task[w].part = p
      OBVIOUS
    <3>2. \A v \in Workers \ {w} : Merging(v) => task[v].part # p
      BY <1>1, <1>3, <3>1
    <3>3. ~Finished(p)
      BY <1>1, <3>1 DEF Finished
    <3>4. Finished(p)'
      BY <1>1, <1>4, <1>7, <1>8, <3>2 DEF Finished
    <3>5. ASSUME NEW q, q # p PROVE Finished(q)' <=> Finished(q)
      BY <1>1, <1>7, <1>8, <3>1, <3>5 DEF Finished
    <3>6. QED
      BY <3>3, <3>4, <3>5
  <2>2. \A e \in X : PartOf(e) = p
    BY <1>4 DEF Of
  <2>3. ASSUME NEW e \in Rows
        PROVE  out'[e] = IF e \in Returned' THEN 1 ELSE 0
    <3>1. out[e] = IF e \in Returned THEN 1 ELSE 0
      BY <1>2 DEF OutInv
    <3>2. CASE PartOf(e) = p
      <4>1. e \in IndexSet(mem, PartOf(e)) <=> e \in X
        BY <3>2 DEF X
      <4>2. e \notin Returned /\ (e \in Returned' <=> e \in X)
        BY <1>1, <1>2, <2>1, <3>2, <4>1 DEF Returned
      <4>3. QED
        BY <1>10, <3>1, <4>2
    <3>3. CASE PartOf(e) # p
      <4>1. e \in Returned' <=> e \in Returned
        BY <1>1, <1>2, <2>1, <3>3 DEF Returned
      <4>2. QED
        BY <1>10, <2>2, <3>1, <3>3, <4>1
    <3>4. QED
      BY <3>2, <3>3
  <2>4. QED
    BY <2>3 DEF OutInv
<1>21. QED
  BY <1>1, <1>2, <1>12, <1>13, <1>14, <1>17, <1>19, <1>20 DEF AInv

(* The end of the produce pipeline. *)
LEMMA FinishStep ==
  ASSUME AInv, FinishProduce
  PROVE  AInv'
<1>1. /\ phase = "produce" /\ phase' = "done"
      /\ build_parallel' = build_parallel /\ vectorized' = vectorized
      /\ produce_parallel' = produce_parallel /\ pending' = pending /\ agg' = agg
      /\ tables' = tables /\ next' = next /\ owned' = owned /\ freed' = freed
      /\ nonempty_parts' = nonempty_parts /\ task' = task
  BY DEF FinishProduce, plan
<1>2. /\ produce_parallel => /\ nonempty_parts = {} /\ \A w \in Workers : task[w].pc = "idle"
                             /\ out' = out
      /\ ~produce_parallel => Scan(Global)
  BY DEF FinishProduce
<1>3. /\ ATypeOK /\ PhaseInv /\ BuildInv /\ ProduceInv /\ CountInv /\ OutInv /\ freed = {}
      /\ mem' = mem /\ out \in [Rows -> Nat] /\ pending = {}
  BY <1>1 DEF AInv, PhaseInv, ATypeOK, mem
<1>4. nonempty_parts = {} /\ \A w \in Workers : ~Merging(w)
  <2>1. CASE produce_parallel
    BY <1>2, <2>1 DEF Merging
  <2>2. CASE ~produce_parallel
    BY <1>3, <2>2 DEF PhaseInv
  <2>3. QED
    BY <2>1, <2>2
<1>5. \A w : (Merging(w)' <=> Merging(w)) /\ Rest(w)' = Rest(w) /\ Ahead(w)' = Ahead(w)
  BY <1>1 DEF Merging, Rest, Ahead
<1>6. \A q : Of(q)' = Of(q)
  BY <1>1 DEF Of
<1>7. PhaseInv'
  BY <1>1, <1>3, <1>4, <1>5 DEF PhaseInv
<1>8. BuildInv' /\ MovedInv'
  BY <1>1, <1>3 DEF BuildInv, MovedInv, Building
<1>9. ProduceInv'
  <2>1. ASSUME NEW q \in Partitions, PartInv(q) PROVE PartInv(q)'
    BY <1>1, <1>3, <1>6, <2>1 DEF PartInv
  <2>2. ASSUME NEW v \in Workers PROVE TaskInv(v)'
    BY <1>4, <1>5 DEF TaskInv
  <2>3. QED
    BY <1>1, <1>3, <1>4, <1>5, <2>1, <2>2 DEF ProduceInv
<1>10. Live' = Live
  <2>1. Allocated' = Allocated
    BY <1>1 DEF Allocated
  <2>2. QED
    BY <1>1, <1>3, <1>5, <2>1 DEF Live
<1>11. CountInv'
  BY <1>1, <1>3, <1>10, CountSame
<1>12. \A q : Finished(q)' <=> Finished(q)
  BY <1>1, <1>5 DEF Finished
<1>13. OutInv' /\ out' \in [Rows -> Nat]
  <2>1. CASE produce_parallel
    <3>1. build_parallel /\ out' = out
      BY <1>2, <1>3, <2>1 DEF PhaseInv
    <3>2. Returned' = Returned
      BY <1>1, <1>3, <1>12, <3>1 DEF Returned
    <3>3. QED
      BY <1>3, <3>1, <3>2 DEF OutInv
  <2>2. CASE ~produce_parallel
    <3> DEFINE X == IndexSet(mem, Global)
    <3>1. out' = [e \in Rows |-> IF e \in X THEN out[e] + 1 ELSE out[e]]
      BY <1>2, <2>2 DEF Scan, Index, IndexSet
    <3>2. Returned = {}
      BY <1>1, <2>2 DEF Returned
    <3>3. build_parallel => X = {}
      <4>1. build_parallel => mem.t[Global].head = NULL /\ mem.n \in Links
        BY <1>1, <1>3 DEF ProduceInv, ATypeOK, MemType, mem
      <4>2. QED
        BY <4>1, EmptyIndex
    <3>4. \A e \in Rows : e \in Returned' <=> e \in X
      BY <1>1, <1>3, <2>2, <3>3 DEF Returned
    <3> HIDE DEF X
    <3>5. \A e \in Rows : out'[e] = IF e \in X THEN out[e] + 1 ELSE out[e]
      BY <3>1
    <3>6. \A e \in Rows : out[e] = 0
      BY <1>3, <3>2 DEF OutInv
    <3>7. \A e \in Rows : out'[e] = IF e \in Returned' THEN 1 ELSE 0
      BY <3>4, <3>5, <3>6
    <3>8. out' \in [Rows -> Nat]
      BY <1>3, <3>1
    <3>9. QED
      BY <3>7, <3>8 DEF OutInv
  <2>3. QED
    BY <2>1, <2>2
<1>14. ATypeOK'
  BY <1>1, <1>3, <1>13 DEF ATypeOK
<1>15. QED
  BY <1>1, <1>3, <1>7, <1>8, <1>9, <1>11, <1>13, <1>14 DEF AInv

----------------------------------------------------------------------------
(* The specification *)

(* A step that changes nothing. *)
LEMMA StutterStep ==
  ASSUME AInv, UNCHANGED vars
  PROVE  AInv'
<1>1. /\ phase' = phase /\ build_parallel' = build_parallel /\ vectorized' = vectorized
      /\ produce_parallel' = produce_parallel /\ pending' = pending /\ agg' = agg
      /\ tables' = tables /\ next' = next /\ owned' = owned /\ freed' = freed
      /\ nonempty_parts' = nonempty_parts /\ task' = task /\ out' = out
  BY DEF vars, plan
<1>2. mem' = mem
  BY <1>1 DEF mem
<1>3. /\ \A w : (Merging(w)' <=> Merging(w)) /\ Rest(w)' = Rest(w) /\ Ahead(w)' = Ahead(w)
      /\ \A q : Of(q)' = Of(q)
      /\ \A q : Finished(q)' <=> Finished(q)
      /\ Allocated' = Allocated /\ Building' = Building /\ ((Exact)' <=> Exact)
  BY <1>1 DEF Merging, Rest, Ahead, Of, Finished, Allocated, Building, Exact
<1>4. ATypeOK' /\ PhaseInv' /\ MovedInv' /\ BuildInv'
  BY <1>1, <1>2, <1>3 DEF AInv, ATypeOK, PhaseInv, MovedInv, BuildInv
<1>5. ProduceInv'
  <2>1. ASSUME NEW q \in Partitions, PartInv(q) PROVE PartInv(q)'
    BY <1>1, <1>2, <1>3, <2>1 DEF PartInv
  <2>2. ASSUME NEW v \in Workers, TaskInv(v) PROVE TaskInv(v)'
    BY <1>1, <1>2, <1>3, <2>2 DEF TaskInv
  <2>3. QED
    BY <1>1, <1>3, <2>1, <2>2 DEF AInv, ProduceInv
<1>6. Live' = Live /\ Returned' = Returned
  BY <1>1, <1>2, <1>3 DEF Live, Returned
<1>7. CountInv'
  <2>1. \A r, e : CountedIn(r, e)' <=> CountedIn(r, e)
    BY <1>1, <1>6 DEF CountedIn
  <2>2. QED
    BY <1>1, <1>3, <1>6, <2>1 DEF AInv, CountInv
<1>8. OutInv'
  BY <1>1, <1>6 DEF AInv, OutInv
<1>9. QED
  BY <1>1, <1>4, <1>5, <1>7, <1>8 DEF AInv

(* Every step keeps the invariant. *)
LEMMA AInvNext == AInv /\ [Next]_vars => AInv'
<1> SUFFICES ASSUME AInv, [Next]_vars
             PROVE  AInv'
  OBVIOUS
<1>1. ASSUME NEW s \in Tables, NEW r \in Rows, UpdateAggregates(s, r) PROVE AInv'
  BY <1>1, UpdateStep
<1>2. ASSUME NEW s \in Tables, NEW b \in Batches, ProcessBatch(s, b) PROVE AInv'
  BY <1>2, BatchStep
<1>3. ASSUME NEW order \in SetToSeqs(Workers), TransferMemoryAndPartitions(order) PROVE AInv'
  BY <1>3, TransferStep
<1>4. CASE TearDownPipeline
  BY <1>4, TearDownStep
<1>5. ASSUME NEW w \in Workers, Produce(w) PROVE AInv'
  <2>1. ASSUME NEW p \in Partitions, BuildTableOverPartition(w, p) PROVE AInv'
    BY <2>1, PickStep
  <2>2. CASE MergePartial(w)
    BY <2>2, MergeStep
  <2>3. CASE ScanPartition(w)
    BY <2>3, ScanStep
  <2>4. QED
    BY <1>5, <2>1, <2>2, <2>3 DEF Produce
<1>6. CASE FinishProduce
  BY <1>6, FinishStep
<1>7. CASE UNCHANGED vars
  BY <1>7, StutterStep
<1>8. QED
  BY <1>1, <1>2, <1>3, <1>4, <1>5, <1>6, <1>7 DEF Next

(* The invariant holds in every state of an aggregation, for every input,  *)
(* every number of workers and every size of directory and flush threshold. *)
THEOREM AInvariantHolds == Spec => []AInv
<1>1. Init => AInv
  BY AInvInit
<1>2. AInv /\ [Next]_vars => AInv'
  BY AInvNext
<1>3. QED
  BY <1>1, <1>2, PTL DEF Spec

----------------------------------------------------------------------------
(* What the invariant says of the properties *)

(* Every entry the produce pipeline uses is owned by the global table. *)
LEMMA UsedAreOwned == AInv => NoFreedPartial
<1> SUFFICES ASSUME AInv, phase \in {"produce", "done"}, NEW e \in InUse
             PROVE  freed = {} /\ e \in owned \cup Range(tables[Global].entries)
  BY DEF NoFreedPartial
<1>1. /\ ATypeOK /\ PhaseInv /\ BuildInv /\ freed = {} /\ mem \in MemType
      /\ mem.n = next /\ mem.t = tables
  BY DEF AInv, ATypeOK, mem
<1>2. /\ Global \in Tables /\ Partitions \subseteq Tables /\ Global \notin Partitions
  BY TablesAssumption DEF Tables
<1>3. \/ \E w \in Workers : e = task[w].curr /\ e # NULL
      \/ \E s \in Partitions \cup {Global} : e \in IndexSet(mem, s)
  BY DEF InUse, IndexSet, Index
<1>4. CASE build_parallel
  <2>1. /\ \A p \in Partitions : PartInv(p)
        /\ \A w \in Workers : TaskInv(w)
        /\ tables[Global].head = NULL /\ next \in Links
    BY <1>4, ScanState
  <2>2. ASSUME NEW w \in Workers, e = task[w].curr, e # NULL PROVE e \in owned
    <3>1. Merging(w)
      BY <1>1, <2>2 DEF PhaseInv
    <3>2. e \in Rest(w)
      BY <2>2 DEF Rest
    <3>3. QED
      BY <2>1, <3>1, <3>2 DEF TaskInv, Of
  <2>3. ASSUME NEW p \in Partitions, e \in IndexSet(mem, p) PROVE e \in owned
    BY <2>1, <2>3 DEF PartInv, Of
  <2>4. IndexSet(mem, Global) = {}
    BY <1>1, <2>1, EmptyIndex
  <2>5. QED
    BY <1>1, <1>3, <2>2, <2>3, <2>4
<1>5. CASE ~build_parallel
  <2>1. /\ \A s \in Tables \ {Global} : tables[s] = NewTable
        /\ Sound(mem, Global)
    BY <1>1, <1>5 DEF BuildInv, Building, TableInv
  <2>2. \A w \in Workers : task[w].curr = NULL
    BY <1>1, <1>5 DEF PhaseInv
  <2>3. mem.n \in Links
    BY <1>1 DEF MemType
  <2>4. \A p \in Partitions : IndexSet(mem, p) = {}
    BY <1>1, <1>2, <2>1, <2>3, NewIsSound
  <2>5. IndexSet(mem, Global) \subseteq Range(tables[Global].entries)
    BY <1>1, <1>2, <2>1, IndexIs
  <2>6. QED
    BY <1>1, <1>3, <2>2, <2>4, <2>5
<1>6. QED
  BY <1>4, <1>5

(* After a transfer the lists of the global table are complete. *)
LEMMA ListsComplete == AInv => PartitionsComplete
<1> SUFFICES ASSUME AInv, phase = "moved", NEW p \in Partitions, NEW l,
                    l = Walk(next, tables[Global].heads[p])
             PROVE  /\ IsInjective(l)
                    /\ Range(l) = {e \in Rows : PartOf(e) = p /\ \E r \in Rows : agg[e][r] > 0}
                    /\ l # <<>> => tables[Global].tails[p] = l[Len(l)]
  BY DEF PartitionsComplete
<1> DEFINE L == {e \in owned : PartOf(e) = p}
           h == tables[Global].heads[p]
           tl == tables[Global].tails[p]
<1>1. /\ \A s \in Tables : tables[s].entries = <<>>
      /\ IsChain(next, h, L) /\ EndsAt(next, L, tl)
  BY DEF AInv, MovedInv, Partitioned
<1>2. /\ agg \in [Rows -> [Rows -> Nat]] /\ owned \subseteq Rows /\ next \in Links
      /\ \A e \in Rows : IF e \in Allocated THEN agg[e][e] > 0 ELSE \A r \in Rows : agg[e][r] = 0
  BY DEF AInv, ATypeOK, CountInv, MemType, mem
<1>3. Allocated = owned
  BY <1>1, NoElements DEF Allocated
<1>4. \A e \in Rows : e \in owned <=> \E r \in Rows : agg[e][r] > 0
  BY <1>2, <1>3
<1>5. L = {e \in Rows : PartOf(e) = p /\ \E r \in Rows : agg[e][r] > 0}
  BY <1>2, <1>4
<1>6. l = Walk(next, h)
  OBVIOUS
<1> HIDE DEF L, h, tl
<1>7. MeetsExactly(next, h, L)
  BY <1>1, <1>2, WalkMeets
<1>8. IsInjective(l) /\ Range(l) = L /\ l \in Seq(Rows)
      /\ (L # {} => Len(l) \in 1 .. Len(l) /\ next[l[Len(l)]] = NULL)
  BY <1>6, <1>7 DEF MeetsExactly
<1>9. ASSUME l # <<>> PROVE tl = l[Len(l)]
  <2>1. Len(l) \in 1 .. Len(l)
    BY <1>8, <1>9
  <2>2. l[Len(l)] \in L
    BY <1>8, <2>1, InRange
  <2>3. tl \in L /\ next[tl] = NULL /\ next[l[Len(l)]] = NULL
    BY <1>1, <1>8, <2>2 DEF EndsAt
  <2>4. QED
    BY <1>1, <2>2, <2>3, ChainEnds
<1>10. QED
  BY <1>5, <1>8, <1>9 DEF tl

(* The produce pipeline reads no entry of a destroyed table: every entry   *)
(* that a partition iterator stands on or that a scan returns is owned by  *)
(* the global table.                                                       *)
THEOREM NoFreedPartialHolds == Spec => []NoFreedPartial
<1>1. AInv => NoFreedPartial
  BY UsedAreOwned
<1>2. QED
  BY <1>1, AInvariantHolds, PTL

(* TransferMemoryAndPartitions splices the overflow partitions of all      *)
(* thread-local tables into complete lists of the global table, in         *)
(* whatever order the tables are enumerated.                               *)
THEOREM PartitionsCompleteHolds == Spec => []PartitionsComplete
<1>1. AInv => PartitionsComplete
  BY ListsComplete
<1>2. QED
  BY <1>1, AInvariantHolds, PTL

(* Index(mem, s) and the overflow partitions, as lists of table s. *)
ListOfTable(k, s) ==
  \/ k = Walk(next, tables[s].head)
  \/ \E p \in Partitions : k = Walk(next, tables[s].heads[p])

(* The lists are those of the tables. *)
LEMMA ListsAre == \A k : k \in Lists <=> \E s \in Tables : ListOfTable(k, s)
BY DEF Lists, ListOfTable, Index, mem

(* What the lists of a table hold, each entry at one place of one list. *)
LEMMA TableLists ==
  ASSUME AInv, phase = "build", NEW s \in Tables
  PROVE  /\ \A k : ListOfTable(k, s) =>
              /\ IsInjective(k)
              /\ \A i \in DOMAIN k : k[i] \in Range(tables[s].entries)
         /\ \A k, l : ListOfTable(k, s) /\ ListOfTable(l, s) =>
              \A i \in DOMAIN k, j \in DOMAIN l : k[i] = l[j] => k = l
         /\ \A e \in Range(tables[s].entries) : \E l :
              ListOfTable(l, s) /\ \E i \in DOMAIN l : l[i] = e
<1> DEFINE X == IndexSet(mem, s)
           O == OverSets(mem, s)
           tb == tables[s]
<1>1. /\ mem \in MemType /\ mem.n = next /\ mem.t = tables
      /\ \A u \in Building : TableInv(mem, u, build_parallel, vectorized)
      /\ \A u \in Tables \ Building : tables[u] = NewTable
  BY BuildTables
<1>2. mem.n \in Links /\ next \in Links /\ tb \in TableType
  BY <1>1, MemFields
<1>3. Sound(mem, s)
  BY <1>1, <1>2, NewIsSound DEF TableInv
<1>4. Holds(next, tb, X, O)
  BY <1>1, <1>3 DEF Sound
<1> HIDE DEF X, O, tb
<1>5. /\ MeetsExactly(next, tb.head, X)
      /\ \A p \in Partitions : MeetsExactly(next, tb.heads[p], O[p])
  BY <1>2, <1>4, HoldsMeets
<1>6. /\ X \subseteq Rows
      /\ \A p \in Partitions : O[p] \subseteq Rows /\ O[p] \cap X = {} /\ \A e \in O[p] : PartOf(e) = p
      /\ \A e \in Rows : e \in Range(tb.entries) <=> e \in X \/ \E p \in Partitions : e \in O[p]
  BY <1>4 DEF Holds, IsChain
<1>7. ASSUME NEW h, NEW L, MeetsExactly(next, h, L)
      PROVE  /\ IsInjective(Walk(next, h))
             /\ \A i \in DOMAIN Walk(next, h) : Walk(next, h)[i] \in L
             /\ \A e \in L : \E i \in DOMAIN Walk(next, h) : Walk(next, h)[i] = e
  <2>1. /\ Walk(next, h) \in Seq(Rows) /\ IsInjective(Walk(next, h)) /\ Range(Walk(next, h)) = L
    BY <1>7 DEF MeetsExactly
  <2>2. /\ DOMAIN Walk(next, h) = 1 .. Len(Walk(next, h))
        /\ \A e : e \in L <=> \E i \in 1 .. Len(Walk(next, h)) : e = Walk(next, h)[i]
    BY <2>1, InRange
  <2>3. QED
    BY <2>1, <2>2
<1>8. \A k : ListOfTable(k, s) <=>
        k = Walk(next, tb.head) \/ \E p \in Partitions : k = Walk(next, tb.heads[p])
  BY DEF ListOfTable, tb
<1>9. ASSUME NEW k, ListOfTable(k, s)
      PROVE  IsInjective(k) /\ \A i \in DOMAIN k : k[i] \in Range(tb.entries)
  <2>1. CASE k = Walk(next, tb.head)
    <3>1. IsInjective(k) /\ \A i \in DOMAIN k : k[i] \in X
      BY <1>5, <1>7, <2>1
    <3>2. QED
      BY <1>6, <3>1
  <2>2. ASSUME NEW p \in Partitions, k = Walk(next, tb.heads[p])
        PROVE  IsInjective(k) /\ \A i \in DOMAIN k : k[i] \in Range(tb.entries)
    <3>1. IsInjective(k) /\ \A i \in DOMAIN k : k[i] \in O[p]
      BY <1>5, <1>7, <2>2
    <3>2. QED
      BY <1>6, <3>1
  <2>3. QED
    BY <1>8, <1>9, <2>1, <2>2
<1>10. /\ \A i \in DOMAIN Walk(next, tb.head) : Walk(next, tb.head)[i] \in X
       /\ \A p \in Partitions : \A i \in DOMAIN Walk(next, tb.heads[p]) :
            Walk(next, tb.heads[p])[i] \in O[p]
       /\ \A e \in X : \E i \in DOMAIN Walk(next, tb.head) : Walk(next, tb.head)[i] = e
       /\ \A p \in Partitions : \A e \in O[p] :
            \E i \in DOMAIN Walk(next, tb.heads[p]) : Walk(next, tb.heads[p])[i] = e
  BY <1>5, <1>7
<1>11. ASSUME NEW k, NEW l, ListOfTable(k, s), ListOfTable(l, s),
              NEW i \in DOMAIN k, NEW j \in DOMAIN l, k[i] = l[j]
       PROVE  k = l
  <2>1. \A x : x = Walk(next, tb.head) => \A a \in DOMAIN x : x[a] \in X
    BY <1>10
  <2>2. \A x : \A p \in Partitions :
          x = Walk(next, tb.heads[p]) => \A a \in DOMAIN x : x[a] \in O[p]
    BY <1>10
  <2>3. \/ k = Walk(next, tb.head) /\ k[i] \in X
        \/ \E p \in Partitions : k = Walk(next, tb.heads[p]) /\ k[i] \in O[p]
    BY <1>8, <1>11, <2>1, <2>2
  <2>4. \/ l = Walk(next, tb.head) /\ l[j] \in X
        \/ \E p \in Partitions : l = Walk(next, tb.heads[p]) /\ l[j] \in O[p]
    BY <1>8, <1>11, <2>1, <2>2
  <2>5. CASE k = Walk(next, tb.head) /\ k[i] \in X
    BY <1>6, <1>11, <2>4, <2>5
  <2>6. ASSUME NEW p \in Partitions, k = Walk(next, tb.heads[p]), k[i] \in O[p]
        PROVE  k = l
    BY <1>6, <1>11, <2>4, <2>6
  <2>7. QED
    BY <2>3, <2>5, <2>6
<1>12. ASSUME NEW e \in Range(tb.entries)
       PROVE  \E l : ListOfTable(l, s) /\ \E i \in DOMAIN l : l[i] = e
  <2>1. e \in Rows
    <3>1. tb.entries \in Seq(Rows)
      BY <1>2, TableFields
    <3>2. QED
      BY <3>1, RangeFinite
  <2>2. e \in X \/ \E p \in Partitions : e \in O[p]
    BY <1>6, <2>1
  <2>3. QED
    BY <1>8, <1>10, <2>2
<1>13. QED
  BY <1>9, <1>11, <1>12 DEF tb

(* An allocated partial aggregate is at one place of one list. *)
LEMMA OnOneList ==
  ASSUME AInv, phase = "build", NEW e \in Allocated
  PROVE  \E l \in Lists : \E i \in DOMAIN l :
           /\ l[i] = e
           /\ \A k \in Lists : \A j \in DOMAIN k : k[j] = e => k = l /\ j = i
<1>1. /\ Apart(mem) /\ mem.t = tables
      /\ Allocated = {f \in Rows : \E s \in Tables : f \in Range(tables[s].entries)}
  BY BuildTables
<1>2. PICK s \in Tables : e \in Range(tables[s].entries)
  BY <1>1
<1>3. PICK l : ListOfTable(l, s) /\ \E i \in DOMAIN l : l[i] = e
  BY <1>2, TableLists
<1>4. PICK i \in DOMAIN l : l[i] = e
  BY <1>3
<1>5. ASSUME NEW k \in Lists, NEW j \in DOMAIN k, k[j] = e
      PROVE  k = l /\ j = i
  <2>1. PICK u \in Tables : ListOfTable(k, u)
    BY ListsAre
  <2>2. e \in Range(tables[u].entries)
    BY <1>5, <2>1, TableLists
  <2>3. u = s
    BY <1>1, <1>2, <2>2 DEF Apart
  <2>4. k = l
    BY <1>3, <1>4, <1>5, <2>1, <2>3, TableLists
  <2>5. IsInjective(l)
    BY <1>3, TableLists
  <2>6. QED
    BY <1>4, <1>5, <2>4, <2>5 DEF IsInjective
<1>6. l \in Lists
  BY <1>3, ListsAre
<1>7. QED
  BY <1>4, <1>5, <1>6

(* No partial aggregate is lost or doubled during the build. *)
LEMMA PartialsKept == AInv => (Exact => NoPartialLost)
<1> SUFFICES ASSUME AInv, Exact, phase = "build", NEW r \in Rows \ pending
             PROVE  \E e \in Rows :
                      /\ Key[e] = Key[r] /\ agg[e][r] = 1
                      /\ \A f \in Rows \ {e} : agg[f][r] = 0
                      /\ \E l \in Lists : \E i \in DOMAIN l :
                           /\ l[i] = e
                           /\ \A k \in Lists : \A j \in DOMAIN k : k[j] = e => k = l /\ j = i
  BY DEF NoPartialLost
<1>1. /\ Live = Allocated /\ Allocated \subseteq Rows
  BY BuildTables
<1>2. \A f \in Rows \ Allocated : agg[f][r] = 0
  BY DEF AInv, CountInv
<1>3. PICK e \in Live : CountedIn(r, e) /\ Key[e] = Key[r]
  BY DEF AInv, CountInv
<1>4. e \in Rows /\ e \in Allocated
  BY <1>1
<1>5. agg[e][r] = 1 /\ \A f \in Rows \ {e} : agg[f][r] = 0
  BY <1>1, <1>2, <1>3 DEF CountedIn
<1>6. \E l \in Lists : \E i \in DOMAIN l :
         /\ l[i] = e
         /\ \A k \in Lists : \A j \in DOMAIN k : k[j] = e => k = l /\ j = i
  BY <1>4, OnOneList
<1> HIDE DEF Lists
<1>7. QED
  BY ONLY <1>3, <1>4, <1>5, <1>6

(* At the end the partial aggregates that were not merged into another one *)
(* are those that were returned, one per group.                            *)
LEMMA AtEnd ==
  ASSUME AInv, Exact, phase = "done", produce_parallel = build_parallel
  PROVE  Live \subseteq Rows /\ (\A e \in Rows : e \in Live <=> e \in Returned) /\ OnePerKey(Live)
<1>1. /\ ATypeOK /\ PhaseInv /\ BuildInv /\ mem \in MemType /\ mem.n = next /\ mem.t = tables
      /\ mem.n \in Links
  BY DEF AInv, ATypeOK, mem, MemType
<1>2. nonempty_parts = {} /\ \A w \in Workers : ~Merging(w)
  BY <1>1 DEF PhaseInv
<1>3. CASE build_parallel
  <2>1. /\ \A p \in Partitions : PartInv(p)
        /\ Allocated = owned /\ owned \subseteq Rows
    BY <1>3, ScanState
  <2>2. \A e \in Rows : PartOf(e) \in Partitions
    BY KeyAssumption DEF PartOf
  <2>3. \A e : e \in Live <=> e \in owned /\ e \in IndexSet(mem, PartOf(e))
    BY <1>2, <1>3, <2>1 DEF Live
  <2>4. \A e \in Rows : e \in Returned <=> e \in IndexSet(mem, PartOf(e))
    BY <1>2, <1>3 DEF Returned, Finished
  <2>5. \A p \in Partitions : IndexSet(mem, p) \subseteq owned /\ OnePerKey(IndexSet(mem, p))
    BY <2>1 DEF PartInv, Of
  <2>6. ASSUME NEW e \in Live, NEW f \in Live, Key[e] = Key[f] PROVE e = f
    <3>1. PartOf(e) = PartOf(f) /\ PartOf(e) \in Partitions
      BY <2>1, <2>2, <2>3, <2>6 DEF PartOf
    <3>2. e \in IndexSet(mem, PartOf(e)) /\ f \in IndexSet(mem, PartOf(e))
      BY <2>3, <3>1
    <3>3. QED
      BY <2>5, <2>6, <3>1, <3>2 DEF OnePerKey
  <2>7. QED
    BY <2>1, <2>2, <2>3, <2>4, <2>5, <2>6 DEF OnePerKey
<1>4. CASE ~build_parallel
  <2>1. /\ \A s \in Tables \ {Global} : tables[s] = NewTable
        /\ TableInv(mem, Global, build_parallel, vectorized) /\ owned = {} /\ Global \in Tables
    BY <1>1, <1>4 DEF BuildInv, Building, Tables
  <2> DEFINE X == IndexSet(mem, Global)
             O == OverSets(mem, Global)
             E == Range(tables[Global].entries)
  <2>2. Holds(next, tables[Global], X, O) /\ OnePerKey(X)
    BY <1>1, <2>1 DEF TableInv, Sound, Exact
  <2>3. Unflushed(tables[Global])
    BY <1>1, <1>4, <2>1 DEF TableInv
  <2>4. \A s \in Tables \ {Global} : Range(tables[s].entries) = {}
    BY <2>1, NewTableIs, NoElements
  <2>5. \A e \in Rows : e \in Returned <=> e \in X
    BY <1>4 DEF Returned
  <2>6. \A e : e \in Allocated <=> e \in Rows /\ e \in E
    BY <2>1, <2>4 DEF Allocated
  <2> HIDE DEF X, O, E
  <2>7. \A p \in Partitions : O[p] = {}
    BY <2>2, <2>3, UnflushedIs
  <2>8. \A e \in Rows : e \in E <=> e \in X
    BY <2>2, <2>7 DEF Holds, E
  <2>9. Live = Allocated
    BY <1>4 DEF Live
  <2>10. QED
    BY <2>2, <2>5, <2>6, <2>8, <2>9 DEF OnePerKey
<1>5. QED
  BY <1>3, <1>4

(* Every group is returned once, with its rows. *)
LEMMA GroupsReturned == AInv => (Exact => AggregationExact)
<1> SUFFICES ASSUME AInv, Exact, phase = "done", produce_parallel = build_parallel
             PROVE  OneRowPerGroup
  BY DEF AggregationExact
<1> SUFFICES ASSUME NEW key \in {Key[r] : r \in Rows}
             PROVE  LET rows == {r \in Rows : Key[r] = key}
                    IN  \E e \in rows :
                          /\ out[e] = 1 /\ \A f \in rows \ {e} : out[f] = 0
                          /\ \A r \in Rows : agg[e][r] = IF r \in rows THEN 1 ELSE 0
  BY DEF OneRowPerGroup
<1> DEFINE rows == {r \in Rows : Key[r] = key}
<1>0. PICK g \in Rows : key = Key[g]
  OBVIOUS
<1>1. Live \subseteq Rows /\ (\A e \in Rows : e \in Live <=> e \in Returned) /\ OnePerKey(Live)
  BY AtEnd
<1>2. /\ \A r \in Rows : \E e \in Live : CountedIn(r, e) /\ Key[e] = Key[r]
      /\ \A e \in Rows : out[e] = IF e \in Returned THEN 1 ELSE 0
  BY DEF AInv, CountInv, OutInv, PhaseInv
<1>3. PICK e \in Live : Key[e] = Key[g]
  BY <1>2
<1>4. e \in rows /\ out[e] = 1
  BY <1>0, <1>1, <1>2, <1>3
<1>5. ASSUME NEW f \in rows \ {e} PROVE out[f] = 0
  BY <1>0, <1>1, <1>2, <1>3 DEF OnePerKey
<1>6. ASSUME NEW r \in Rows PROVE agg[e][r] = IF r \in rows THEN 1 ELSE 0
  <2>1. PICK x \in Live : CountedIn(r, x) /\ Key[x] = Key[r]
    BY <1>2
  <2>2. x = e <=> r \in rows
    BY <1>0, <1>1, <1>3, <2>1 DEF OnePerKey
  <2>3. QED
    BY <1>3, <2>1, <2>2 DEF CountedIn
<1>7. QED
  BY <1>4, <1>5, <1>6

(* Growing, flushing and batch grouping lose no partial aggregate: every   *)
(* aggregated row is counted once, in a partial aggregate of its group     *)
(* that is on exactly one list.  A vectorized build over several key       *)
(* columns is excepted: FixGrouping compares one column at a time.         *)
THEOREM NoPartialLostHolds == Spec => [](Exact => NoPartialLost)
<1>1. AInv => (Exact => NoPartialLost)
  BY PartialsKept
<1>2. QED
  BY <1>1, AInvariantHolds, PTL

(* Hash aggregation returns every group once with all its rows counted     *)
(* once, whatever the parallelism, the flushes and the order of merges.    *)
THEOREM AggregationExactHolds == Spec => [](Exact => AggregationExact)
<1>1. AInv => (Exact => AggregationExact)
  BY GroupsReturned
<1>2. QED
  BY <1>1, AInvariantHolds, PTL
=============================================================================
