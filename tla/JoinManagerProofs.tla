-------------------------- MODULE JoinManagerProofs --------------------------
(***************************************************************************)
(* Proofs, for any build sides, hash functions, vectors and predicates, of *)
(* what the vectorized joins promise: the scan's filter is exact whatever  *)
(* it has sampled and reordered, the chains of a built concise table are   *)
(* exact, a semi or anti join answers every tuple correctly, and the       *)
(* multi-way join outputs every match once and nothing else.               *)
(*                                                                         *)
(* The argument has four parts.  The filter: a clause computes the same    *)
(* set in every order of its terms.  The concise table: while tuples are   *)
(* placed, every tuple is at one place or once in the buffer, and no two   *)
(* stand where they would be written over; once placed, the tuples of a    *)
(* slot are where Lookup starts and where the links lead.  The probe:      *)
(* after n turns every tuple stands n entries down its chain, and has been *)
(* seen exactly if one of those entries has its key.  The join manager:    *)
(* the probes are the wheels of an odometer, and what is output are the    *)
(* matches whose turns have been passed.                                   *)
(***************************************************************************)
EXTENDS JoinManager, SequenceLemmas

----------------------------------------------------------------------------
(* The scan's filter *)

ScanStates == [tids : SUBSET Tids, output : SUBSET Tids]

(* A term only removes tuples from the list. *)
LEMMA ScanTermIs ==
  ASSUME NEW s \in ScanStates, NEW term
  PROVE  /\ ScanTerm(s, term) \in ScanStates
         /\ ScanTerm(s, term).tids = s.tids \cap vector.holds[term]
         /\ ScanTerm(s, term).output = s.output
BY DEF ScanStates, ScanTerm

(* The same, written out. *)
LEMMA ScanTermOf ==
  ASSUME NEW A, NEW B, NEW term
  PROVE  ScanTerm([tids |-> A, output |-> B], term) = [tids |-> A \cap vector.holds[term], output |-> B]
BY DEF ScanTerm

(* A term of a sampled clause that started with the tuples S. *)
SampledTerm(S, s, term) ==
  LET run == ScanTerm([s EXCEPT !.tids = S], term) IN [run EXCEPT !.tids = run.tids \cap s.tids]

(* It leaves the tuples of both lists for which it holds. *)
LEMMA SampledTermOf ==
  ASSUME NEW A, NEW B, NEW S, NEW term
  PROVE  SampledTerm(S, [tids |-> A, output |-> B], term)
           = [tids |-> (S \cap vector.holds[term]) \cap A, output |-> B]
<1>1. [[tids |-> A, output |-> B] EXCEPT !.tids = S] = [tids |-> S, output |-> B]
  OBVIOUS
<1>2. ScanTerm([tids |-> S, output |-> B], term) = [tids |-> S \cap vector.holds[term], output |-> B]
  BY ScanTermOf
<1> DEFINE s == [tids |-> A, output |-> B]
           x == [s EXCEPT !.tids = S]
           run == ScanTerm(x, term)
<1>3. SampledTerm(S, s, term) = [run EXCEPT !.tids = run.tids \cap s.tids]
  BY Zenon DEF SampledTerm
<1>4. run = [tids |-> S \cap vector.holds[term], output |-> B]
  BY <1>1, <1>2, Zenon
<1> HIDE DEF run
<1>5. QED
  BY <1>3, <1>4

(* The terms of a clause that is not sampled run one after the other. *)
LEMMA ScanTermsRun ==
  ASSUME NEW T, NEW order \in Seq(T), NEW st \in ScanStates
  PROVE  \E c : /\ ScanFilter!RunTerms(order, st) = c[Len(order)]
                /\ c[0] = st
                /\ \A i \in 1 .. Len(order) :
                     c[i] = IF c[i - 1].tids = {} THEN c[i - 1] ELSE ScanTerm(c[i - 1], order[i])
<1> DEFINE n == Len(order)
           H == [i \in 1 .. n |-> [s \in ScanStates |-> IF s.tids = {} THEN s ELSE ScanTerm(s, order[i])]]
           F(g) == [i \in 0 .. Len(order) |->
                      IF i = 0 THEN st
                      ELSE LET s == g[i - 1] IN IF s.tids = {} THEN s ELSE ScanTerm(s, order[i])]
           c == CHOOSE g : g = F(g)
<1>1. n \in Nat
  OBVIOUS
<1>2. H \in [1 .. n -> [ScanStates -> ScanStates]]
  BY ScanTermIs
<1>3. \A i \in 1 .. n : \A s \in ScanStates : H[i][s] = IF s.tids = {} THEN s ELSE ScanTerm(s, order[i])
  OBVIOUS
<1> HIDE DEF H
<1>4. PICK f \in [0 .. n -> ScanStates] : Iterates(f, st, H, n)
  BY <1>1, <1>2, Iteration
<1>5. f = F(f)
  <2>1. f[0] = st
    BY <1>4 DEF Iterates
  <2>2. ASSUME NEW i \in 0 .. n, i # 0
        PROVE  f[i] = IF f[i - 1].tids = {} THEN f[i - 1] ELSE ScanTerm(f[i - 1], order[i])
    <3>1. i \in 1 .. n /\ i - 1 \in 0 .. n
      BY <1>1, <2>2
    <3>2. f[i - 1] \in ScanStates /\ f[i] = H[i][f[i - 1]]
      BY <1>4, <3>1 DEF Iterates
    <3>3. QED
      BY <1>3, <3>1, <3>2
  <2>3. f = [i \in 0 .. n |-> f[i]]
    BY <1>4
  <2>4. QED
    BY <2>1, <2>2, <2>3
<1>6. c = F(c)
  BY <1>5, Zenon
<1>7. ScanFilter!RunTerms(order, st) = c[Len(order)]
  BY DEF ScanFilter!RunTerms
<1> HIDE DEF c
<1>8. c[0] = st /\ \A i \in 1 .. n :
                     c[i] = IF c[i - 1].tids = {} THEN c[i - 1] ELSE ScanTerm(c[i - 1], order[i])
  <2> DEFINE d == F(c)
  <2>1. d[0] = st /\ \A i \in 1 .. n :
          d[i] = IF c[i - 1].tids = {} THEN c[i - 1] ELSE ScanTerm(c[i - 1], order[i])
    BY <1>1
  <2>2. c = d
    BY <1>6
  <2> HIDE DEF d
  <2>3. QED
    BY <2>1, <2>2
<1>9. QED
  BY <1>7, <1>8

(* The tuples of S for which the first i terms hold. *)
Holding(S, order, i) == {t \in S : \A j \in 1 .. i : t \in vector.holds[order[j]]}

(* One term more. *)
LEMMA HoldingNext ==
  ASSUME NEW S, NEW order, NEW i \in Nat
  PROVE  Holding(S, order, i + 1) = Holding(S, order, i) \cap vector.holds[order[i + 1]]
<1>1. \A j : j \in 1 .. i + 1 <=> (j \in 1 .. i \/ j = i + 1)
  OBVIOUS
<1>2. QED
  BY <1>1, Zenon DEF Holding

(* They are the ones that are left. *)
LEMMA ScanTermsExact ==
  ASSUME NEW T, NEW order \in Seq(T), NEW st \in ScanStates
  PROVE  ScanFilter!RunTerms(order, st) = [st EXCEPT !.tids = Holding(st.tids, order, Len(order))]
<1> DEFINE n == Len(order)
           After(i) == [tids |-> Holding(st.tids, order, i), output |-> st.output]
<1>1. PICK c : /\ ScanFilter!RunTerms(order, st) = c[n]
               /\ c[0] = st
               /\ \A i \in 1 .. n :
                    c[i] = IF c[i - 1].tids = {} THEN c[i - 1] ELSE ScanTerm(c[i - 1], order[i])
  BY ScanTermsRun
<1>2. n \in Nat
  OBVIOUS
<1>3. st = [tids |-> st.tids, output |-> st.output] /\ st.tids \subseteq Tids /\ st.output \subseteq Tids
  BY DEF ScanStates
<1> DEFINE P == {i \in Nat : c[i] = After(i)}
<1>4. 0 \in P
  <2>1. Holding(st.tids, order, 0) = st.tids
    BY DEF Holding
  <2>2. QED
    BY <1>1, <1>3, <2>1
<1>5. ASSUME NEW i \in 0 .. n - 1, i \in P PROVE i + 1 \in P
  <2>1. i + 1 \in 1 .. n /\ i \in Nat /\ (i + 1) - 1 = i
    BY <1>2
  <2>2. c[i] = After(i) /\ c[i + 1] = IF c[i].tids = {} THEN c[i] ELSE ScanTerm(c[i], order[i + 1])
    BY <1>1, <1>5, <2>1
  <2>3. Holding(st.tids, order, i + 1) = Holding(st.tids, order, i) \cap vector.holds[order[i + 1]]
    BY <2>1, HoldingNext
  <2>4. c[i].tids = Holding(st.tids, order, i) /\ c[i].output = st.output
    BY <2>2
  <2>5. ScanTerm(c[i], order[i + 1]) = After(i + 1)
    <3>1. ScanTerm(After(i), order[i + 1])
            = [tids |-> Holding(st.tids, order, i) \cap vector.holds[order[i + 1]], output |-> st.output]
      BY ScanTermOf
    <3>2. QED
      BY <2>2, <2>3, <3>1
  <2>6. c[i].tids = {} => After(i) = After(i + 1)
    BY <2>3, <2>4
  <2>7. c[i + 1] = After(i + 1)
    BY <2>2, <2>5, <2>6
  <2>8. QED
    BY <2>1, <2>7
<1> HIDE DEF P
<1>6. 0 .. n \subseteq P
  BY <1>2, <1>4, <1>5, UpTo
<1>7. c[n] = After(n)
  <2>1. n \in P
    BY <1>2, <1>6
  <2>2. QED
    BY <2>1, Zenon DEF P
<1>8. QED
  BY <1>1, <1>3, <1>7

(* The terms of a sampled clause run on the whole input. *)
LEMMA ScanSampledRun ==
  ASSUME NEW T, NEW order \in Seq(T), NEW st \in ScanStates
  PROVE  \E c : /\ ScanFilter!RunSampled(order, st) = c[Len(order)]
                /\ c[0] = st
                /\ \A i \in 1 .. Len(order) :
                     c[i] = SampledTerm(st.tids, c[i - 1], order[i])
<1> DEFINE n == Len(order)
           Body(s, i) == SampledTerm(st.tids, s, order[i])
           H == [i \in 1 .. n |-> [s \in ScanStates |-> Body(s, i)]]
           F(g) == [i \in 0 .. Len(order) |->
                      IF i = 0 THEN st
                      ELSE LET s   == g[i - 1]
                               run == ScanTerm([s EXCEPT !.tids = st.tids], order[i])
                           IN  [run EXCEPT !.tids = run.tids \cap s.tids]]
           c == CHOOSE g : g = F(g)
<1>1. n \in Nat
  OBVIOUS
<1>2. \A s \in ScanStates, i \in 1 .. n : Body(s, i) \in ScanStates
  <2> TAKE s \in ScanStates, i \in 1 .. n
  <2>1. s = [tids |-> s.tids, output |-> s.output] /\ s.tids \subseteq Tids /\ s.output \subseteq Tids
    BY DEF ScanStates
  <2>2. Body(s, i) = [tids |-> (st.tids \cap vector.holds[order[i]]) \cap s.tids, output |-> s.output]
    BY <2>1, SampledTermOf
  <2>3. QED
    BY <2>1, <2>2 DEF ScanStates
<1>3. H \in [1 .. n -> [ScanStates -> ScanStates]]
  <2> HIDE DEF Body
  <2>1. QED
    BY <1>2
<1>4. \A i \in 1 .. n : \A s \in ScanStates : H[i][s] = Body(s, i)
  OBVIOUS
<1> HIDE DEF H
<1>5. PICK f \in [0 .. n -> ScanStates] : Iterates(f, st, H, n)
  BY <1>1, <1>3, Iteration
<1>6. f = F(f)
  <2>1. f[0] = st
    BY <1>5 DEF Iterates
  <2>2. ASSUME NEW i \in 0 .. n, i # 0 PROVE f[i] = Body(f[i - 1], i)
    <3>1. i \in 1 .. n /\ i - 1 \in 0 .. n
      BY <1>1, <2>2
    <3>2. f[i - 1] \in ScanStates /\ f[i] = H[i][f[i - 1]]
      BY <1>5, <3>1 DEF Iterates
    <3> HIDE DEF Body
    <3>3. QED
      BY <1>4, <3>1, <3>2
  <2>3. f = [i \in 0 .. n |-> f[i]]
    BY <1>5
  <2>4. F(f) = [i \in 0 .. n |-> IF i = 0 THEN st ELSE Body(f[i - 1], i)]
    BY Zenon DEF SampledTerm
  <2> HIDE DEF F, Body
  <2>5. QED
    BY <2>1, <2>2, <2>3, <2>4
<1>7. c = F(c)
  BY <1>6, Zenon
<1>8. ScanFilter!RunSampled(order, st) = c[Len(order)]
  BY DEF ScanFilter!RunSampled
<1> HIDE DEF c
<1>9. c[0] = st /\ \A i \in 1 .. n : c[i] = Body(c[i - 1], i)
  <2> DEFINE d == F(c)
  <2>1. d = [i \in 0 .. n |-> IF i = 0 THEN st ELSE Body(c[i - 1], i)]
    BY Zenon DEF SampledTerm
  <2>2. c = d
    BY <1>7
  <2> HIDE DEF d, F, Body
  <2>3. d[0] = st /\ \A i \in 1 .. n : d[i] = Body(c[i - 1], i)
    BY <1>1, <2>1
  <2>4. QED
    BY <2>2, <2>3
<1>10. QED
  BY <1>8, <1>9

(* Intersecting the results leaves the same tuples. *)
LEMMA ScanSampledExact ==
  ASSUME NEW T, NEW order \in Seq(T), NEW st \in ScanStates
  PROVE  ScanFilter!RunSampled(order, st) = [st EXCEPT !.tids = Holding(st.tids, order, Len(order))]
<1> DEFINE n == Len(order)
           After(i) == [tids |-> Holding(st.tids, order, i), output |-> st.output]
<1>1. PICK c : /\ ScanFilter!RunSampled(order, st) = c[n]
               /\ c[0] = st
               /\ \A i \in 1 .. n :
                    c[i] = SampledTerm(st.tids, c[i - 1], order[i])
  BY ScanSampledRun
<1>2. n \in Nat
  OBVIOUS
<1>3. st = [tids |-> st.tids, output |-> st.output] /\ st.tids \subseteq Tids /\ st.output \subseteq Tids
  BY DEF ScanStates
<1> DEFINE P == {i \in Nat : c[i] = After(i)}
<1>4. 0 \in P
  <2>1. Holding(st.tids, order, 0) = st.tids
    BY DEF Holding
  <2>2. QED
    BY <1>1, <1>3, <2>1
<1>5. ASSUME NEW i \in 0 .. n - 1, i \in P PROVE i + 1 \in P
  <2>1. i + 1 \in 1 .. n /\ i \in Nat /\ (i + 1) - 1 = i
    BY <1>2
  <2>2. c[i] = After(i) /\ c[i + 1] = SampledTerm(st.tids, c[i], order[i + 1])
    BY <1>1, <1>5, <2>1
  <2>3. Holding(st.tids, order, i + 1) = (st.tids \cap vector.holds[order[i + 1]]) \cap Holding(st.tids, order, i)
    <3>1. Holding(st.tids, order, i) \subseteq st.tids
      BY DEF Holding
    <3>2. Holding(st.tids, order, i + 1) = Holding(st.tids, order, i) \cap vector.holds[order[i + 1]]
      BY <2>1, HoldingNext
    <3>3. QED
      BY <3>1, <3>2
  <2>4. SampledTerm(st.tids, After(i), order[i + 1])
          = [tids |-> (st.tids \cap vector.holds[order[i + 1]]) \cap Holding(st.tids, order, i), output |-> st.output]
    BY SampledTermOf
  <2>6. c[i + 1] = After(i + 1)
    BY <2>2, <2>3, <2>4
  <2>7. QED
    BY <2>1, <2>6
<1> HIDE DEF P
<1>6. 0 .. n \subseteq P
  BY <1>2, <1>4, <1>5, UpTo
<1>7. c[n] = After(n)
  <2>1. n \in P
    BY <1>2, <1>6
  <2>2. QED
    BY <2>1, Zenon DEF P
<1>8. QED
  BY <1>1, <1>3, <1>7

(* A state with another list. *)
LEMMA ScanRecord ==
  ASSUME NEW st \in ScanStates, NEW X
  PROVE  /\ [st EXCEPT !.tids = X] = [tids |-> X, output |-> st.output]
         /\ [st EXCEPT !.output = X] = [tids |-> st.tids, output |-> X]
         /\ X \subseteq Tids => [st EXCEPT !.tids = X] \in ScanStates /\ [st EXCEPT !.output = X] \in ScanStates
BY DEF ScanStates

(* Sampled or not, a clause lets the tuples pass for which its terms hold. *)
LEMMA ScanClauseExact ==
  ASSUME NEW T, NEW order \in Seq(T), NEW st \in ScanStates, NEW sampled, NEW input \in SUBSET Tids
  PROVE  /\ ScanFilter!ClauseStep(input, st, order, sampled) \in ScanStates
         /\ ScanFilter!ClauseStep(input, st, order, sampled).output
              = st.output \cup Holding(input \ st.output, order, Len(order))
<1> DEFINE rest == input \ st.output
           s == [st EXCEPT !.tids = rest]
           run == ScanFilter!RunFilter(order, sampled, s)
           left == Holding(rest, order, Len(order))
<1>1. st = [tids |-> st.tids, output |-> st.output] /\ st.tids \subseteq Tids /\ st.output \subseteq Tids
  BY DEF ScanStates
<1>2. s \in ScanStates /\ s = [tids |-> rest, output |-> st.output]
  <2>1. rest \subseteq Tids
    OBVIOUS
  <2> HIDE DEF rest
  <2>2. QED
    BY <2>1, ScanRecord
<1>3. s.tids = rest
  BY <1>2
<1>4. run = [s EXCEPT !.tids = left]
  <2> HIDE DEF s, rest
  <2>1. ScanFilter!RunTerms(order, s) = [s EXCEPT !.tids = left]
    BY <1>2, <1>3, ScanTermsExact
  <2>2. ScanFilter!RunSampled(order, s) = [s EXCEPT !.tids = left]
    BY <1>2, <1>3, ScanSampledExact
  <2> HIDE DEF left
  <2>3. QED
    BY <2>1, <2>2, Zenon DEF ScanFilter!RunFilter
<1>5. left \subseteq rest /\ rest \subseteq Tids
  BY DEF Holding
<1>6. run = [tids |-> left, output |-> st.output]
  BY <1>2, <1>4
<1>7. ScanFilter!ClauseStep(input, st, order, sampled)
        = IF rest = {} THEN st ELSE [run EXCEPT !.output = st.output \cup run.tids]
  BY Zenon DEF ScanFilter!ClauseStep
<1> HIDE DEF run, left, rest, s
<1>8. [run EXCEPT !.output = st.output \cup run.tids] = [tids |-> left, output |-> st.output \cup left]
  <2>1. run \in ScanStates /\ run.tids = left
    BY <1>1, <1>5, <1>6 DEF ScanStates
  <2>2. QED
    BY <2>1, ScanRecord
<1>9. [tids |-> left, output |-> st.output \cup left] \in ScanStates
  BY <1>1, <1>5 DEF ScanStates
<1>10. rest = {} => left = {}
  BY <1>5
<1>11. CASE rest = {}
  <2>1. ScanFilter!ClauseStep(input, st, order, sampled) = st
    BY <1>7, <1>11
  <2>2. st.output = st.output \cup left
    BY <1>10, <1>11
  <2>3. QED
    BY <2>1, <2>2 DEF left, rest
<1>12. CASE rest # {}
  <2>1. ScanFilter!ClauseStep(input, st, order, sampled) = [tids |-> left, output |-> st.output \cup left]
    BY <1>7, <1>8, <1>12
  <2>2. QED
    BY <1>9, <2>1 DEF left, rest
<1>13. QED
  BY <1>11, <1>12

(* c[i] is the state after i clauses. *)
ScanClauses(c, orders, sampled, input, st) ==
  /\ c[0] = [st EXCEPT !.output = {}]
  /\ \A i \in 1 .. Len(orders) :
       c[i] = ScanFilter!ClauseStep(input, c[i - 1], orders[i], sampled[i])

(* The clauses run one after the other. *)
LEMMA ScanClausesRun ==
  ASSUME NEW T, NEW orders \in Seq(Seq(T)), NEW st \in ScanStates, NEW sampled, NEW input \in SUBSET Tids
  PROVE  \E c : /\ ScanFilter!RunFilters(orders, sampled, input, st) = c[Len(orders)]
                /\ ScanClauses(c, orders, sampled, input, st)
<1> DEFINE n == Len(orders)
           a == [st EXCEPT !.output = {}]
           Body(s, i) == ScanFilter!ClauseStep(input, s, orders[i], sampled[i])
           H == [i \in 1 .. n |-> [s \in ScanStates |-> Body(s, i)]]
           F(g) == [i \in 0 .. Len(orders) |->
                      IF i = 0 THEN [st EXCEPT !.output = {}]
                      ELSE ScanFilter!ClauseStep(input, g[i - 1], orders[i], sampled[i])]
           c == CHOOSE g : g = F(g)
<1>1. n \in Nat
  OBVIOUS
<1>2. ASSUME NEW s \in ScanStates, NEW i \in 1 .. n PROVE Body(s, i) \in ScanStates
  <2>1. orders[i] \in Seq(T)
    OBVIOUS
  <2>2. QED
    BY <2>1, ScanClauseExact
<1>3. H \in [1 .. n -> [ScanStates -> ScanStates]]
  <2> HIDE DEF Body
  <2>1. QED
    BY <1>2
<1>4. \A i \in 1 .. n : \A s \in ScanStates : H[i][s] = Body(s, i)
  OBVIOUS
<1>5. a \in ScanStates
  BY DEF ScanStates
<1> HIDE DEF H, a
<1>6. PICK f \in [0 .. n -> ScanStates] : Iterates(f, a, H, n)
  BY <1>1, <1>3, <1>5, Iteration
<1>7. f = F(f)
  <2>1. f[0] = a
    BY <1>6 DEF Iterates
  <2>2. ASSUME NEW i \in 0 .. n, i # 0 PROVE f[i] = Body(f[i - 1], i)
    <3>1. i \in 1 .. n /\ i - 1 \in 0 .. n
      BY <1>1, <2>2
    <3>2. f[i - 1] \in ScanStates /\ f[i] = H[i][f[i - 1]]
      BY <1>6, <3>1 DEF Iterates
    <3> HIDE DEF Body
    <3>3. QED
      BY <1>4, <3>1, <3>2
  <2>3. f = [i \in 0 .. n |-> f[i]]
    BY <1>6
  <2>4. F(f) = [i \in 0 .. n |-> IF i = 0 THEN a ELSE Body(f[i - 1], i)]
    BY Zenon DEF a
  <2> HIDE DEF F, Body
  <2>5. QED
    BY <2>1, <2>2, <2>3, <2>4
<1>8. c = F(c)
  BY <1>7, Zenon
<1>9. ScanFilter!RunFilters(orders, sampled, input, st) = c[Len(orders)]
  BY DEF ScanFilter!RunFilters
<1> HIDE DEF c
<1>10. c[0] = a /\ \A i \in 1 .. n : c[i] = Body(c[i - 1], i)
  <2> DEFINE d == F(c)
  <2>1. d = [i \in 0 .. n |-> IF i = 0 THEN a ELSE Body(c[i - 1], i)]
    BY Zenon DEF a
  <2>2. c = d
    BY <1>8
  <2> HIDE DEF d, F, Body
  <2>3. d[0] = a /\ \A i \in 1 .. n : d[i] = Body(c[i - 1], i)
    BY <1>1, <2>1
  <2>4. QED
    BY <2>2, <2>3
<1>11. ScanClauses(c, orders, sampled, input, st)
  BY <1>10 DEF a, ScanClauses
<1>12. QED
  BY <1>9, <1>11

(* All terms of the clause hold for the tuple. *)
HoldsAll(t, order) == \A j \in 1 .. Len(order) : t \in vector.holds[order[j]]

(* What passes one clause or another passes the filter. *)
LEMMA ScanFilterExact ==
  ASSUME NEW T, NEW orders \in Seq(Seq(T)), NEW st \in ScanStates, NEW sampled, NEW input \in SUBSET Tids
  PROVE  ScanFilter!RunFilters(orders, sampled, input, st).output
           = {t \in input : \E d \in 1 .. Len(orders) : HoldsAll(t, orders[d])}
<1> DEFINE n == Len(orders)
           Out(i) == {t \in input : \E d \in 1 .. i : HoldsAll(t, orders[d])}
<1>1. PICK c : /\ ScanFilter!RunFilters(orders, sampled, input, st) = c[n]
               /\ ScanClauses(c, orders, sampled, input, st)
  BY ScanClausesRun
<1>2. n \in Nat
  OBVIOUS
<1> DEFINE P == {i \in Nat : c[i] \in ScanStates /\ c[i].output = Out(i)}
<1>3. 0 \in P
  <2>1. c[0] \in ScanStates /\ c[0].output = {}
    <3>1. c[0] = [st EXCEPT !.output = {}]
      BY <1>1 DEF ScanClauses
    <3>2. QED
      BY <3>1 DEF ScanStates
  <2>2. Out(0) = {}
    OBVIOUS
  <2>3. QED
    BY <2>1, <2>2
<1>4. ASSUME NEW i \in 0 .. n - 1, i \in P PROVE i + 1 \in P
  <2>1. i + 1 \in 1 .. n /\ i \in Nat /\ i + 1 \in Nat /\ (i + 1) - 1 = i /\ orders[i + 1] \in Seq(T)
    BY <1>2
  <2>2. c[i] \in ScanStates /\ c[i].output = Out(i)
    BY <1>4
  <2>3. c[i + 1] = ScanFilter!ClauseStep(input, c[i], orders[i + 1], sampled[i + 1])
    BY <1>1, <2>1 DEF ScanClauses
  <2> DEFINE o == orders[i + 1]
             s == c[i]
             H == Holding(input \ s.output, o, Len(o))
  <2>4. c[i + 1] \in ScanStates /\ c[i + 1].output = s.output \cup H
    <3> DEFINE b == sampled[i + 1]
               step == ScanFilter!ClauseStep(input, s, o, b)
    <3>1. o \in Seq(T) /\ s \in ScanStates /\ c[i + 1] = step
      BY <2>1, <2>2, <2>3
    <3> HIDE DEF o, s, b
    <3>2. step \in ScanStates /\ step.output = s.output \cup H
      BY <3>1, ScanClauseExact
    <3> HIDE DEF step
    <3>3. QED
      BY <3>1, <3>2
  <2>5. \A t : t \in H <=> t \in input /\ t \notin Out(i) /\ HoldsAll(t, o)
    BY <2>2 DEF Holding, HoldsAll
  <2>6. \A t : t \in Out(i + 1) <=> t \in Out(i) \/ (t \in input /\ HoldsAll(t, o))
    <3> HIDE DEF o
    <3>1. 1 .. i + 1 = (1 .. i) \cup {i + 1}
      BY <2>1
    <3>2. QED
      BY <3>1 DEF o
  <2>7. Out(i) \cup H = Out(i + 1)
    <3> HIDE DEF H, o
    <3> DEFINE A == Out(i)
               B == Out(i + 1)
    <3>1. \A t : t \in B <=> t \in A \/ t \in H
      <4>1. \A t : t \in A => t \in input
        OBVIOUS
      <4> HIDE DEF A, B
      <4>2. \A t : t \in H <=> t \in input /\ t \notin A /\ HoldsAll(t, o)
        BY <2>5 DEF A
      <4>3. \A t : t \in B <=> t \in A \/ (t \in input /\ HoldsAll(t, o))
        BY <2>6 DEF A, B
      <4>4. QED
        BY <4>2, <4>3, Zenon
    <3> HIDE DEF A, B
    <3>2. A \cup H = B
      BY <3>1
    <3>3. QED
      BY <3>2 DEF A, B
  <2>8. QED
    BY <2>1, <2>2, <2>4, <2>7
<1> HIDE DEF P
<1>5. 0 .. n \subseteq P
  BY <1>2, <1>3, <1>4, UpTo
<1>6. n \in P
  BY <1>2, <1>5
<1>7. c[n].output = Out(n)
  BY <1>6, Zenon DEF P
<1>8. QED
  BY <1>1, <1>7

----------------------------------------------------------------------------
(* The vectors *)

(* The terms are those of the clauses, in some order. *)
Terms == UNION {Range(Clauses[c]) : c \in DOMAIN Clauses}

OrdersInv ==
  /\ scan_orders \in Seq(Seq(Terms)) /\ Len(scan_orders) = Len(Clauses)
  /\ \A c \in 1 .. Len(Clauses) : Range(scan_orders[c]) = Range(Clauses[c])
  /\ join_order \in Seq(Joins) /\ Range(join_order) = Joins

(* The tuples of the vector that the scan's predicate lets through. *)
Passing ==
  {t \in Tids : \E c \in DOMAIN Clauses : \A i \in DOMAIN Clauses[c] : t \in vector.holds[Clauses[c][i]]}

VectorInv ==
  /\ phase \in {"build", "scan", "filter", "prepare", "join", "advance", "semi"}
  /\ count \in Nat /\ (phase = "build" => count = 0) /\ (phase \notin {"build", "scan"} => count # 0)
  /\ count # 0 => vector \in Vectors
  /\ passed \subseteq Tids
  /\ phase = "filter" => selected = Tids
  /\ phase \in {"filter", "prepare"} => semi = <<>> /\ output = {} /\ repeated = FALSE
  /\ phase \in {"join", "advance"} => semi = <<>>
  /\ phase = "prepare" => selected = passed /\ passed = Passing

(* The clauses and their terms. *)
LEMMA ClausesType ==
  /\ Clauses \in Seq(Seq(Terms)) /\ Len(Clauses) \in Nat /\ DOMAIN Clauses = 1 .. Len(Clauses)
  /\ \A c \in 1 .. Len(Clauses) : Clauses[c] \in Seq(Range(Clauses[c])) /\ Range(Clauses[c]) \subseteq Terms
<1>1. Clauses \in Seq(Range(Clauses))
  BY ClausesAssumption
<1>2. Len(Clauses) \in Nat /\ DOMAIN Clauses = 1 .. Len(Clauses) /\ Clauses = [c \in 1 .. Len(Clauses) |-> Clauses[c]]
  BY <1>1
<1>3. ASSUME NEW c \in 1 .. Len(Clauses)
      PROVE  Clauses[c] \in Seq(Range(Clauses[c])) /\ Range(Clauses[c]) \subseteq Terms /\ Clauses[c] \in Seq(Terms)
  <2>1. Clauses[c] \in Seq(Range(Clauses[c])) /\ Range(Clauses[c]) \subseteq Terms
    BY <1>2, ClausesAssumption DEF Terms
  <2>2. QED
    BY <2>1
<1>4. QED
  BY <1>2, <1>3

(* A clause is left with its terms. *)
LEMMA ReorderedTerms ==
  ASSUME NEW S, NEW order \in Seq(S), NEW sampled, NEW o,
         \/ o \in ScanFilter!Reordered(order, sampled)
         \/ o \in JoinFilter!Reordered(order, sampled)
  PROVE  o \in Seq(S) /\ Range(o) = Range(order)
<1> DEFINE R == Range(order)
           n == Len(order)
<1>1. n \in Nat /\ DOMAIN order = 1 .. n /\ R \subseteq S
  BY DEF Range
<1>2. o = order \/ (o \in [DOMAIN order -> R] /\ Range(o) = R)
  <2>1. ScanFilter!Reordered(order, sampled) = JoinFilter!Reordered(order, sampled)
    BY DEF ScanFilter!Reordered, JoinFilter!Reordered, ScanFilter!Range, JoinFilter!Range
  <2>2. o \in IF sampled THEN {p \in [DOMAIN order -> R] : Range(p) = R} ELSE {order}
    BY <2>1 DEF ScanFilter!Reordered, ScanFilter!Range, Range
  <2>3. QED
    BY <2>2
<1>3. CASE o = order
  BY <1>3
<1>4. CASE o # order
  <2>1. o \in [1 .. n -> S] /\ Range(o) = R
    <3> HIDE DEF R, n
    <3>1. QED
      BY <1>1, <1>2, <1>4
  <2>2. QED
    BY <1>1, <2>1
<1>5. QED
  BY <1>3, <1>4

(* Two orders of the same terms let the same tuples through. *)
LEMMA SameTerms ==
  ASSUME NEW S, NEW p \in Seq(S), NEW q \in Seq(S), Range(p) = Range(q), NEW t
  PROVE  HoldsAll(t, p) <=> HoldsAll(t, q)
<1>1. \A x : x \in Range(p) <=> \E k \in 1 .. Len(p) : x = p[k]
  BY InRange
<1>2. \A x : x \in Range(q) <=> \E k \in 1 .. Len(q) : x = q[k]
  BY InRange
<1>3. HoldsAll(t, p) <=> \A x \in Range(p) : t \in vector.holds[x]
  BY <1>1, Zenon DEF HoldsAll
<1>4. HoldsAll(t, q) <=> \A x \in Range(q) : t \in vector.holds[x]
  BY <1>2, Zenon DEF HoldsAll
<1>5. QED
  BY <1>3, <1>4

(* The filter lets the passing tuples through, whatever the orders are. *)
LEMMA FilterPasses ==
  ASSUME OrdersInv, NEW sampled
  PROVE  ScanFilter!RunFilters(scan_orders, sampled, Tids, [tids |-> {}, output |-> {}]).output = Passing
<1> DEFINE st == [tids |-> {}, output |-> {}]
           n == Len(Clauses)
           A == {t \in Tids : \E d \in 1 .. Len(scan_orders) : HoldsAll(t, scan_orders[d])}
<1>1. st \in ScanStates
  BY DEF ScanStates
<1>2. scan_orders \in Seq(Seq(Terms)) /\ Len(scan_orders) = n
  BY DEF OrdersInv
<1>3. ScanFilter!RunFilters(scan_orders, sampled, Tids, st).output = A
  <2> HIDE DEF st
  <2> DEFINE orders == scan_orders
             input == Tids
             T == Terms
  <2>1. input \in SUBSET Tids /\ orders \in Seq(Seq(T))
    BY <1>2
  <2> HIDE DEF orders, input, T
  <2>2. ScanFilter!RunFilters(orders, sampled, input, st).output
           = {t \in input : \E d \in 1 .. Len(orders) : HoldsAll(t, orders[d])}
    BY <1>1, <2>1, ScanFilterExact
  <2>3. QED
    BY <2>2 DEF orders, input
<1>4. ASSUME NEW t \in Tids, NEW d \in 1 .. n
      PROVE  HoldsAll(t, scan_orders[d]) <=> \A i \in DOMAIN Clauses[d] : t \in vector.holds[Clauses[d][i]]
  <2>1. scan_orders[d] \in Seq(Terms) /\ Clauses[d] \in Seq(Terms) /\ Range(scan_orders[d]) = Range(Clauses[d])
    BY <1>2, ClausesType DEF OrdersInv
  <2>2. HoldsAll(t, scan_orders[d]) <=> HoldsAll(t, Clauses[d])
    BY <2>1, SameTerms
  <2>3. DOMAIN Clauses[d] = 1 .. Len(Clauses[d])
    BY <2>1
  <2>4. QED
    BY <2>2, <2>3 DEF HoldsAll
<1>5. A = Passing
  <2>1. DOMAIN Clauses = 1 .. n
    BY ClausesType
  <2>2. QED
    BY <1>2, <1>4, <2>1, Zenon DEF Passing
<1>6. QED
  BY <1>3, <1>5

(* What the vectors are about. *)
scanState == <<count, vector, scan_orders, passed>>

(* The first orders are those of the code. *)
LEMMA InitVectors ==
  ASSUME Init
  PROVE  OrdersInv /\ VectorInv
<1>1. OrdersInv
  <2>1. scan_orders = Clauses /\ join_order = [k \in Joins |-> k]
    BY DEF Init, JoinIds
  <2>2. Joins = 1 .. NumJoins /\ NumJoins \in Nat
    BY JoinsAssumption DEF Joins
  <2>3. join_order \in Seq(Joins) /\ Range(join_order) = Joins
    <3>1. join_order \in [1 .. NumJoins -> Joins]
      BY <2>1, <2>2
    <3>2. Range(join_order) = Joins
      BY <2>1 DEF Range
    <3>3. QED
      BY <2>2, <3>1, <3>2
  <2>4. QED
    BY <2>1, <2>3, ClausesType DEF OrdersInv
<1>2. VectorInv
  BY DEF Init, VectorInv
<1>3. QED
  BY <1>1, <1>2

(* A table is built before the first vector is read. *)
LEMMA BuildVectors ==
  ASSUME VectorInv, phase = "build", phase' \in {"build", "scan"}, UNCHANGED <<scanState, selected, semi, output, repeated>>
  PROVE  VectorInv'
BY DEF VectorInv, scanState

(* The vector is read, and every tuple of it selected. *)
LEMMA ReadVectors ==
  ASSUME VectorInv, NEW v \in Vectors, ReadVector(v)
  PROVE  VectorInv'
<1>1. /\ phase' = "filter" /\ count' = count + 1 /\ vector' = v /\ selected' = Tids
      /\ passed' = {} /\ output' = {} /\ repeated' = FALSE /\ semi' = <<>>
  BY DEF ReadVector
<1>2. count' \in Nat /\ count' # 0
  BY <1>1 DEF VectorInv
<1>3. QED
  BY <1>1, <1>2 DEF VectorInv

(* The filter selects the passing tuples, and keeps the terms. *)
LEMMA FilterKeeps ==
  ASSUME OrdersInv, VectorInv, NEW sampled, FilterVector(sampled)
  PROVE  OrdersInv' /\ VectorInv'
<1> DEFINE run == ScanFilter!RunFilters(scan_orders, sampled, selected, [tids |-> {}, output |-> {}])
<1>1. /\ phase = "filter" /\ phase' = "prepare" /\ selected' = run.output /\ passed' = run.output
      /\ UNCHANGED <<count, vector, join_order, output, repeated, semi>>
  BY DEF FilterVector
<1>2. selected = Tids /\ semi = <<>> /\ output = {} /\ repeated = FALSE /\ count \in Nat /\ count # 0 /\ vector \in Vectors
  BY <1>1 DEF VectorInv
<1>3. run.output = Passing
  BY <1>2, FilterPasses
<1>4. Passing' = Passing /\ Passing \subseteq Tids
  BY <1>1 DEF Passing
<1> HIDE DEF run
<1>5. VectorInv'
  BY <1>1, <1>2, <1>3, <1>4 DEF VectorInv
<1>6. OrdersInv'
  <2> DEFINE n == Len(Clauses)
             so == scan_orders'
  <2>1. n \in Nat /\ DOMAIN Clauses = 1 .. n
    BY ClausesType
  <2>2. /\ so \in [1 .. n -> UNION {ScanFilter!Reordered(scan_orders[c], TRUE) : c \in 1 .. n}]
        /\ \A c \in 1 .. n : so[c] \in ScanFilter!Reordered(scan_orders[c], sampled[c])
    BY <2>1 DEF FilterVector
  <2>3. ASSUME NEW c \in 1 .. n PROVE so[c] \in Seq(Terms) /\ Range(so[c]) = Range(Clauses[c])
    <3> DEFINE order == scan_orders[c]
               b == sampled[c]
               o == so[c]
    <3>1. order \in Seq(Terms) /\ Range(order) = Range(Clauses[c])
      BY DEF OrdersInv
    <3>2. o \in ScanFilter!Reordered(order, b)
      BY <2>2
    <3> HIDE DEF order, b, o
    <3>3. o \in Seq(Terms) /\ Range(o) = Range(order)
      BY <3>1, <3>2, ReorderedTerms
    <3>4. QED
      BY <3>1, <3>3 DEF o
  <2>4. so \in Seq(Seq(Terms)) /\ Len(so) = n
    <3>1. DOMAIN so = 1 .. n /\ so = [c \in 1 .. n |-> so[c]]
      BY <2>2
    <3>2. so \in [1 .. n -> Seq(Terms)]
      BY <2>3, <3>1
    <3>3. QED
      BY <2>1, <3>2
  <2>5. Terms' = Terms
    BY DEF Terms
  <2>6. join_order' = join_order /\ join_order \in Seq(Joins) /\ Range(join_order) = Joins
    BY <1>1 DEF OrdersInv
  <2> HIDE DEF so
  <2>7. QED
    BY <2>3, <2>4, <2>5, <2>6 DEF OrdersInv, so
<1>7. QED
  BY <1>5, <1>6

(* The tables are ordered anew, and stay the same. *)
LEMMA InputKeepsOrders ==
  ASSUME OrdersInv, NEW sampled, SetInputBatch(sampled)
  PROVE  OrdersInv'
<1>1. join_order' \in JoinFilter!Reordered(join_order, sampled) /\ scan_orders' = scan_orders
  BY DEF SetInputBatch
<1>2. join_order \in Seq(Joins) /\ Range(join_order) = Joins
  BY DEF OrdersInv
<1>3. join_order' \in Seq(Joins) /\ Range(join_order') = Range(join_order)
  BY <1>1, <1>2, ReorderedTerms
<1>4. QED
  BY <1>1, <1>2, <1>3 DEF OrdersInv

(* A concise table is under construction only while tables are built, and    *)
(* is the next one of them.                                                 *)
StageInv == stage # "idle" => phase = "build" /\ \E k \in Joins : Len(chains) = k - 1 /\ tables[k].concise

(* A step of the build belongs to a table under construction. *)
LEMMA StepsOfTheBuild ==
  ASSUME BuildStep
  PROVE  stage # "idle"
BY DEF BuildStep, Insert, Inserted, Fill, Filled, PlaceMain, PlaceOverflow, Placed, MainReordered, OverflowReordered

(* One table is under construction at a time. *)
LEMMA StageKept ==
  ASSUME StageInv, [Next]_vars
  PROVE  StageInv'
<1>1. ASSUME UNCHANGED concise, stage = "idle" \/ UNCHANGED <<phase, chains, tables>> PROVE StageInv'
  BY <1>1 DEF StageInv, concise
<1>2. ASSUME UNCHANGED concise, phase # "build" PROVE StageInv'
  BY <1>1, <1>2 DEF StageInv
<1>3. ASSUME NEW k \in Joins, BuildChainingTable(k) PROVE StageInv'
  <2>1. Len(chains) = k - 1 /\ ~tables[k].concise /\ UNCHANGED concise
    BY <1>3 DEF BuildChainingTable
  <2>2. ASSUME NEW j \in Joins, Len(chains) = j - 1 PROVE j = k
    BY <2>1, <2>2 DEF Joins
  <2>3. stage = "idle"
    BY <2>1, <2>2 DEF StageInv
  <2>4. QED
    BY <1>1, <2>1, <2>3
<1>4. ASSUME NEW k \in Joins, BuildConciseTable(k) PROVE StageInv'
  BY <1>4 DEF BuildConciseTable, StageInv
<1>5. ASSUME ConciseStep PROVE StageInv'
  BY <1>5, StepsOfTheBuild DEF ConciseStep, StageInv
<1>6. ASSUME ConciseTableBuilt PROVE StageInv'
  BY <1>6 DEF ConciseTableBuilt, StageInv
<1>7. ASSUME NEW v \in Vectors, ReadVector(v) PROVE StageInv'
  BY <1>2, <1>7 DEF ReadVector
<1>8. ASSUME NEW sampled, FilterVector(sampled) PROVE StageInv'
  BY <1>2, <1>8 DEF FilterVector
<1>9. ASSUME NEW sampled, SetInputBatch(sampled) PROVE StageInv'
  BY <1>2, <1>9 DEF SetInputBatch
<1>10. ASSUME JoinStep PROVE StageInv'
  <2>1. UNCHANGED concise /\ phase # "build"
    BY <1>10 DEF JoinStep, JoinNext, KeepLooking, Descend, BackUp, ReturnTrue, ReturnFalse, unmoved
  <2>2. QED
    BY <1>2, <2>1
<1>11. ASSUME NEW match, ProbeSemiOrAnti(match) PROVE StageInv'
  BY <1>2, <1>11 DEF ProbeSemiOrAnti
<1>12. ASSUME SemiOrAntiStep PROVE StageInv'
  BY <1>2, <1>12 DEF SemiOrAntiStep
<1>13. ASSUME UNCHANGED vars PROVE StageInv'
  BY <1>1, <1>13 DEF vars
<1>14. QED
  BY <1>3, <1>4, <1>5, <1>6, <1>7, <1>8, <1>9, <1>10, <1>11, <1>12, <1>13 DEF Next, Finished

(* Every step keeps the vectors right. *)
LEMMA VectorsKept ==
  ASSUME OrdersInv, VectorInv, StageInv, [Next]_vars
  PROVE  OrdersInv' /\ VectorInv'
<1>1. ASSUME UNCHANGED <<scan_orders, join_order>> PROVE OrdersInv'
  BY <1>1 DEF OrdersInv
<1>2. ASSUME NEW k \in Joins, BuildChainingTable(k) PROVE OrdersInv' /\ VectorInv'
  <2>1. phase = "build" /\ phase' \in {"build", "scan"}
    BY <1>2 DEF BuildChainingTable, TableBuilt
  <2>2. UNCHANGED <<scanState, selected, join_order, semi, output, repeated>>
    BY <1>2 DEF BuildChainingTable, TableBuilt, scanState, joinState, history
  <2>3. QED
    BY <1>1, <2>1, <2>2, BuildVectors DEF scanState
<1>3. ASSUME NEW k \in Joins, BuildConciseTable(k) PROVE OrdersInv' /\ VectorInv'
  BY <1>1, <1>3, BuildVectors DEF BuildConciseTable, scanState, joinState, history
<1>4. ASSUME ConciseStep PROVE OrdersInv' /\ VectorInv'
  <2>1. UNCHANGED <<scanState, phase, selected, join_order, semi, output, repeated>>
    BY <1>4 DEF ConciseStep, scanState, joinState, history
  <2>2. QED
    BY <1>1, <2>1 DEF VectorInv, Passing, scanState
<1>5. ASSUME ConciseTableBuilt PROVE OrdersInv' /\ VectorInv'
  <2>1. phase = "build" /\ phase' \in {"build", "scan"}
    BY <1>5 DEF ConciseTableBuilt, StageInv, TableBuilt
  <2>2. UNCHANGED <<scanState, selected, join_order, semi, output, repeated>>
    BY <1>5 DEF ConciseTableBuilt, TableBuilt, scanState, joinState, history
  <2>3. QED
    BY <1>1, <2>1, <2>2, BuildVectors DEF scanState
<1>6. ASSUME NEW v \in Vectors, ReadVector(v) PROVE OrdersInv' /\ VectorInv'
  BY <1>1, <1>6, ReadVectors DEF ReadVector
<1>7. ASSUME NEW sampled, FilterVector(sampled) PROVE OrdersInv' /\ VectorInv'
  BY <1>7, FilterKeeps
<1>8. ASSUME NEW sampled, SetInputBatch(sampled) PROVE OrdersInv' /\ VectorInv'
  <2>1. phase = "prepare" /\ phase' = "join" /\ UNCHANGED <<count, vector, passed, semi>>
    BY <1>8 DEF SetInputBatch, history
  <2>2. QED
    BY <1>8, <2>1, InputKeepsOrders DEF VectorInv
<1>9. ASSUME JoinStep PROVE OrdersInv' /\ VectorInv'
  <2>1. /\ phase \in {"join", "advance"} /\ phase' \in {"join", "advance", "scan"}
        /\ UNCHANGED <<count, vector, scan_orders, join_order, passed, semi>>
    BY <1>9 DEF JoinStep, JoinNext, KeepLooking, Descend, BackUp, ReturnTrue, ReturnFalse, unmoved
  <2>2. QED
    BY <1>1, <2>1 DEF VectorInv
<1>10. ASSUME NEW match, ProbeSemiOrAnti(match) PROVE OrdersInv' /\ VectorInv'
  <2>1. phase = "prepare" /\ phase' = "semi" /\ UNCHANGED <<count, vector, scan_orders, join_order, passed>>
    BY <1>10 DEF ProbeSemiOrAnti, joinState
  <2>2. QED
    BY <1>1, <2>1 DEF VectorInv
<1>11. ASSUME SemiOrAntiStep PROVE OrdersInv' /\ VectorInv'
  <2>1. phase = "semi" /\ phase' \in {"semi", "scan"} /\ UNCHANGED <<count, vector, scan_orders, join_order, passed>>
    BY <1>11 DEF SemiOrAntiStep, joinState
  <2>2. QED
    BY <1>1, <2>1 DEF VectorInv
<1>12. ASSUME UNCHANGED vars PROVE OrdersInv' /\ VectorInv'
  BY <1>12 DEF vars, joinState, history, OrdersInv, VectorInv, Passing
<1>13. QED
  BY <1>2, <1>3, <1>4, <1>5, <1>6, <1>7, <1>8, <1>9, <1>10, <1>11, <1>12 DEF Next, Finished

(* The filter of the scan is exact for every predicate, every vector and     *)
(* every order the sampling leaves the terms in.                            *)
THEOREM FilterExactHolds == Spec => []FilterExact
<1>1. Init => OrdersInv /\ VectorInv /\ StageInv
  BY InitVectors DEF Init, ConciseInit, StageInv
<1>2. OrdersInv /\ VectorInv /\ StageInv /\ [Next]_vars => OrdersInv' /\ VectorInv' /\ StageInv'
  BY VectorsKept, StageKept
<1>3. VectorInv => FilterExact
  BY DEF VectorInv, FilterExact, Passing
<1>4. QED
  BY <1>1, <1>2, <1>3, PTL DEF Spec

----------------------------------------------------------------------------
(* The invariants *)

SlotOf(r) == r.hash % capacity

(* The places that hold a tuple: an entry that was buffered is dead where it *)
(* stood, a buffered one that was placed is dead in the buffer.             *)
LivePlaces == {p \in DOMAIN entries : ~entries[p].buffered}
LiveBuffered == {i \in 1 .. Len(buf) : i < buf_write_idx \/ i >= idx}

(* Every tuple is at one live place. *)
EachOnce(rows) ==
  /\ \A r \in Range(rows) : \/ \E p \in LivePlaces : entries[p].row = r
                            \/ \E i \in LiveBuffered : buf[i].row = r
  /\ \A p, q \in LivePlaces : entries[p].row = entries[q].row => p = q
  /\ \A i, j \in LiveBuffered : buf[i].row = buf[j].row => i = j
  /\ \A p \in LivePlaces, i \in LiveBuffered : entries[p].row # buf[i].row

Entries(rows) == [row : Range(rows), slot : Nat, buffered : BOOLEAN, processed : BOOLEAN]

(* An entry that was not moved. *)
NewEntry(w, s) == [row |-> w, slot |-> s, buffered |-> FALSE, processed |-> FALSE]

(* While the slots are being taken. *)
Inserting(rows) ==
  /\ area = "main" /\ buf = <<>> /\ idx = 1 /\ buf_write_idx = 1
  /\ capacity \in Nat \ {0} /\ read_idx \in 0 .. Len(rows)
  /\ entries = [p \in 0 .. Len(rows) - 1 |-> NewEntry(rows[p + 1], entries[p].slot)]
  /\ \A p \in 0 .. read_idx - 1 : entries[p].slot = SlotOf(rows[p + 1])
  /\ bits = {SlotOf(rows[i]) : i \in 1 .. read_idx}
  /\ IsFiniteSet(bits) /\ num_overflow \in Nat /\ num_overflow = read_idx - Cardinality(bits)

(* What both moves keep. *)
Reordering(rows) ==
  /\ area \in {"main", "overflow"}
  /\ capacity \in Nat \ {0}
  /\ bits = {SlotOf(r) : r \in Range(rows)}
  /\ IsFiniteSet(bits) /\ num_overflow \in Nat /\ num_overflow = Len(rows) - Cardinality(bits)
  /\ entries \in [0 .. Len(rows) - 1 -> Entries(rows)]
  /\ \A p \in 0 .. Len(rows) - 1 : entries[p].slot = SlotOf(entries[p].row)
  /\ buf \in Seq(Entries(rows))
  /\ \A i \in 1 .. Len(buf) : buf[i].slot = SlotOf(buf[i].row) /\ ~buf[i].buffered
  /\ \A i \in LiveBuffered : ~buf[i].processed
  /\ idx \in 1 .. Len(buf) + 1 /\ buf_write_idx \in 1 .. idx
  /\ stage = "fill" => idx = 1 /\ buf_write_idx = 1
  /\ EachOnce(rows)
  /\ \A p \in 0 .. Len(rows) - 1 : ~(entries[p].processed /\ entries[p].buffered)

(* The processed main entries are at home, and so is an entry for every one *)
(* that went to the overflow area.                                          *)
MainMoves(rows) ==
  /\ read_idx \in 0 .. NumMain /\ overflow_idx \in NumMain .. Len(rows)
  /\ \A p \in 0 .. Len(rows) - 1 :
       /\ entries[p].processed => p < NumMain /\ NumFilledSlotsBefore(entries[p].slot) = p
       /\ entries[p].buffered => p < read_idx
       /\ p < read_idx => entries[p].processed \/ entries[p].buffered
  /\ \A p \in NumMain .. overflow_idx - 1 : entries[NumFilledSlotsBefore(entries[p].slot)].processed

(* The tuples that are not in the main area, and those of them whose slot   *)
(* has its place up to p.                                                   *)
OverflowRows(rows) == Range(rows) \ {entries[p].row : p \in 0 .. NumMain - 1}
UpToPlace(rows, p) == {r \in OverflowRows(rows) : NumFilledSlotsBefore(SlotOf(r)) <= p}

(* The places of the overflow entries of main entry p. *)
ChainBegin(rows, p) == NumMain + Cardinality(UpToPlace(rows, p - 1))
ChainEnd(rows, p) == NumMain + Cardinality(UpToPlace(rows, p))

(* The main entries are done; the overflow entries of each fill their part  *)
(* of the overflow area from its end.                                       *)
OverflowMoves(rows) ==
  /\ read_idx \in NumMain .. Len(rows)
  /\ \A p \in 0 .. NumMain - 1 :
       /\ entries[p].processed /\ NumFilledSlotsBefore(entries[p].slot) = p
       /\ IF \E r \in OverflowRows(rows) : NumFilledSlotsBefore(SlotOf(r)) = p
          THEN overflow_count[p] \in ChainBegin(rows, p) .. ChainEnd(rows, p)
          ELSE overflow_count[p] = NoEntry
  /\ DOMAIN overflow_count = 0 .. NumMain - 1
  /\ \A q \in NumMain .. Len(rows) - 1 :
       /\ entries[q].buffered => q < read_idx
       /\ q < read_idx => entries[q].processed \/ entries[q].buffered
       /\ LET p == NumFilledSlotsBefore(entries[q].slot)
          IN  entries[q].processed => overflow_count[p] <= q /\ q < ChainEnd(rows, p) /\ overflow_count[p] # NoEntry
  /\ \A p \in 0 .. NumMain - 1 : \A q \in NumMain .. Len(rows) - 1 :
       overflow_count[p] # NoEntry /\ overflow_count[p] <= q /\ q < ChainEnd(rows, p)
         => entries[q].processed /\ NumFilledSlotsBefore(entries[q].slot) = p

(* All is in place. *)
BuiltRight(rows) ==
  /\ Reordering(rows) /\ area = "overflow" /\ OverflowMoves(rows)
  /\ buf = <<>> /\ read_idx = Len(rows)
  /\ next = ChainHookup

ConciseInv(rows) ==
  /\ stage \in {"idle", "insert", "fill", "place", "built"}
  /\ stage = "insert" => Inserting(rows)
  /\ stage \in {"fill", "place"} => Reordering(rows)
  /\ stage \in {"fill", "place"} /\ area = "main" => MainMoves(rows)
  /\ stage \in {"fill", "place"} /\ area = "overflow" => OverflowMoves(rows)
  /\ stage = "built" => BuiltRight(rows)

----------------------------------------------------------------------------
(* The places of the slots *)

(* Groups follow each other. *)
LEMMA GroupsGrow ==
  ASSUME NEW x \in Nat, NEW y \in Nat, x <= y
  PROVE  GroupIndex(x) \in Nat /\ GroupIndex(y) \in Nat /\ GroupIndex(x) <= GroupIndex(y)
<1> DEFINE k == kSlotsPerGroup
           a == x \div k
           b == y \div k
<1>1. k \in Nat /\ k > 0
  BY SlotsAssumption
<1> HIDE DEF k
<1>2. a \in Nat /\ b \in Nat /\ a * k <= x /\ x < a * k + k /\ b * k <= y /\ y < b * k + k
  BY <1>1
<1>3. ~(b + 1 <= a)
  BY <1>1, <1>2
<1>4. QED
  BY <1>2, <1>3 DEF GroupIndex, k

(* The number of taken slots below slot s. *)
Below(s) == Cardinality({x \in bits : x < s})

(* That is what the counters of the groups tell. *)
LEMMA FilledIsBelow ==
  ASSUME bits \in SUBSET Nat, IsFiniteSet(bits), NEW s \in Nat
  PROVE  NumFilledSlotsBefore(s) = Below(s) /\ Below(s) \in 0 .. Cardinality(bits)
<1> DEFINE g == GroupIndex(s)
           A == {x \in bits : x < s}
           B == {x \in bits : GroupIndex(x) = g /\ x >= s}
           C == {x \in bits : GroupIndex(x) <= g}
<1>1. C = A \cup B /\ A \cap B = {}
  <2>1. ASSUME NEW x \in bits PROVE x \in C <=> x \in A \/ x \in B
    <3>1. x \in Nat
      OBVIOUS
    <3>2. x <= s => GroupIndex(x) <= g /\ GroupIndex(x) \in Nat /\ g \in Nat
      BY <3>1, GroupsGrow
    <3>3. s <= x => g <= GroupIndex(x) /\ GroupIndex(x) \in Nat /\ g \in Nat
      BY <3>1, GroupsGrow
    <3> HIDE DEF g
    <3>4. QED
      BY <3>1, <3>2, <3>3
  <2>2. A \cap B = {}
    <3>1. \A x \in bits : x \in Nat
      OBVIOUS
    <3>2. \A x \in bits : ~(x < s /\ x >= s)
      BY <3>1
    <3>3. QED
      BY <3>2
  <2>3. QED
    BY <2>1, <2>2
<1>2. IsFiniteSet(A) /\ IsFiniteSet(B)
  BY FS_Subset
<1>3. A \subseteq bits
  OBVIOUS
<1> HIDE DEF A, B, C, g
<1>4. Cardinality(C) = Cardinality(A) + Cardinality(B) /\ Cardinality(A) \in Nat /\ Cardinality(B) \in Nat
  <2>1. Cardinality(A \cup B) = Cardinality(A) + Cardinality(B) - Cardinality(A \cap B)
    BY <1>2, FS_Union
  <2>2. Cardinality(A \cap B) = 0
    BY <1>1, FS_EmptySet
  <2>3. Cardinality(A) \in Nat /\ Cardinality(B) \in Nat
    BY <1>2, FS_CardinalityType
  <2>4. QED
    BY <1>1, <2>1, <2>2, <2>3
<1>5. Cardinality(A) <= Cardinality(bits) /\ Cardinality(bits) \in Nat
  BY <1>3, FS_Subset, FS_CardinalityType
<1>6. NumFilledSlotsBefore(s) = Cardinality(C) - Cardinality(B) /\ Below(s) = Cardinality(A)
  BY DEF NumFilledSlotsBefore, PrefixCount, Below, A, B, C, g
<1>7. QED
  BY <1>4, <1>5, <1>6

(* Every taken slot has its own place among the first. *)
LEMMA PlacesApart ==
  ASSUME bits \in SUBSET Nat, IsFiniteSet(bits), NEW s \in bits
  PROVE  /\ NumFilledSlotsBefore(s) \in 0 .. Cardinality(bits) - 1
         /\ \A u \in bits : s < u => NumFilledSlotsBefore(s) < NumFilledSlotsBefore(u)
         /\ \A u \in bits : NumFilledSlotsBefore(s) = NumFilledSlotsBefore(u) => s = u
<1> DEFINE L(x) == {y \in bits : y < x}
<1>1. \A x \in bits : x \in Nat /\ NumFilledSlotsBefore(x) = Cardinality(L(x)) /\ Cardinality(L(x)) \in Nat
  <2> TAKE x \in bits
  <2>1. x \in Nat
    OBVIOUS
  <2>2. NumFilledSlotsBefore(x) = Below(x) /\ Below(x) \in 0 .. Cardinality(bits) /\ Cardinality(bits) \in Nat
    BY <2>1, FilledIsBelow, FS_CardinalityType
  <2>3. QED
    BY <2>1, <2>2 DEF Below
<1>2. ASSUME NEW x \in bits, NEW U \in SUBSET bits, L(x) \subseteq U, x \in U
      PROVE  Cardinality(L(x)) < Cardinality(U) /\ Cardinality(U) \in Nat
  <2>1. IsFiniteSet(U) /\ x \notin L(x) /\ L(x) # U
    <3>1. IsFiniteSet(U)
      BY FS_Subset
    <3>2. x \in Nat /\ ~(x < x)
      OBVIOUS
    <3>3. x \notin L(x)
      BY <3>2
    <3>4. QED
      BY <1>2, <3>1, <3>3
  <2>2. QED
    BY <1>1, <1>2, <2>1, FS_Subset, FS_CardinalityType
<1>3. Cardinality(L(s)) < Cardinality(bits) /\ Cardinality(bits) \in Nat
  BY <1>2
<1>4. ASSUME NEW x \in bits, NEW y \in bits, x < y PROVE Cardinality(L(x)) < Cardinality(L(y))
  <2>1. L(y) \in SUBSET bits /\ L(x) \subseteq L(y) /\ x \in L(y)
    <3>1. \A z \in bits : z \in Nat
      OBVIOUS
    <3>2. \A z \in bits : z < x => z < y
      BY <1>4, <3>1
    <3>3. QED
      BY <1>4, <3>2
  <2> HIDE DEF L
  <2>2. QED
    BY <1>2, <2>1
<1> HIDE DEF L
<1>5. ASSUME NEW u \in bits PROVE s < u => NumFilledSlotsBefore(s) < NumFilledSlotsBefore(u)
  BY <1>1, <1>4
<1>6. ASSUME NEW u \in bits PROVE NumFilledSlotsBefore(s) = NumFilledSlotsBefore(u) => s = u
  <2>1. u < s => Cardinality(L(u)) < Cardinality(L(s))
    BY <1>4
  <2>2. s < u => Cardinality(L(s)) < Cardinality(L(u))
    BY <1>4
  <2>3. QED
    BY <1>1, <2>1, <2>2
<1>7. NumFilledSlotsBefore(s) \in 0 .. Cardinality(bits) - 1
  BY <1>1, <1>3
<1>8. QED
  BY <1>5, <1>6, <1>7

----------------------------------------------------------------------------
(* Taking the slots *)

RowsRight(rows) ==
  /\ rows \in Seq(Range(rows)) /\ IsInjective(rows)
  /\ \A r \in Range(rows) : r.hash \in Nat

(* There are as many entries as rows. *)
LEMMA EntriesAreRows ==
  ASSUME NEW rows, RowsRight(rows), DOMAIN entries = 0 .. Len(rows) - 1
  PROVE  NumEntries = Len(rows) /\ Len(rows) \in Nat
<1>1. Len(rows) \in Nat
  BY DEF RowsRight
<1> DEFINE n == Len(rows) - 1
<1>2. n \in Int /\ 0 \in Int
  BY <1>1
<1> HIDE DEF n
<1>3. Cardinality(0 .. n) = IF 0 > n THEN 0 ELSE n - 0 + 1
  BY <1>2, FS_Interval
<1>4. QED
  BY <1>1, <1>3 DEF NumEntries, n

(* A row of the table, by its position. *)
LEMMA RowAt ==
  ASSUME NEW rows, RowsRight(rows), NEW i \in 1 .. Len(rows)
  PROVE  rows[i] \in Range(rows) /\ rows[i].hash \in Nat
<1>1. rows[i] \in Range(rows)
  BY DEF RowsRight
<1>2. QED
  BY <1>1 DEF RowsRight

(* The slot of a tuple with capacity c. *)
LEMMA SlotType ==
  ASSUME capacity \in Nat \ {0}, NEW r, r.hash \in Nat
  PROVE  SlotOf(r) \in Nat
<1> DEFINE h == r.hash
           c == capacity
<1>1. h \in Nat /\ c \in Nat \ {0}
  OBVIOUS
<1> HIDE DEF h, c
<1>2. h % c \in Nat
  BY <1>1
<1>3. QED
  BY <1>2 DEF SlotOf, h, c

(* With a probe limit of zero there is one slot to try. *)
LEMMA OneProbed ==
  ASSUME NEW s \in Nat
  PROVE  Probed(s) = {s} /\ Min({s}) = s /\ Max({s}) = s
<1>1. s .. s + 0 = {s}
  OBVIOUS
<1>2. Probed(s) = {s}
  BY <1>1 DEF Probed, ProbeLimit
<1>3. Min({s}) = s
  BY DEF Min
<1>4. Max({s}) = s
  BY DEF Max
<1>5. QED
  BY <1>2, <1>3, <1>4

(* The size of a table. *)
LEMMA SizeType ==
  ASSUME NEW n \in Nat
  PROVE  SetSize(n) \in Nat \ {0}
<1> DEFINE P == PowerOf2Floor(n * kLoadFactor)
<1>1. kLoadFactor \in Nat /\ kMinNumSlots \in Nat \ {0}
  BY SlotsAssumption
<1>2. P \subseteq Nat \ {0}
  <2> DEFINE m == n * kLoadFactor
  <2>1. m \in Nat
    BY <1>1
  <2> HIDE DEF m
  <2>2. PowerOf2Floor(m) \subseteq 1 .. m
    BY DEF PowerOf2Floor
  <2>3. QED
    BY <2>1, <2>2 DEF m
<1> HIDE DEF P
<1>3. SetSize(n) \in P \/ SetSize(n) = kMinNumSlots
  BY DEF SetSize, P
<1>4. QED
  BY <1>1, <1>2, <1>3

(* An entry that is given another slot. *)
WithSlot(e, x) == [e EXCEPT !.slot = x]

(* Its other fields stay. *)
LEMMA EntryFields ==
  ASSUME NEW w, NEW s, NEW x
  PROVE  WithSlot(NewEntry(w, s), x) = NewEntry(w, x)
<1> DEFINE no == FALSE
<1> HIDE DEF no
<1>1. [[row |-> w, slot |-> s, buffered |-> no, processed |-> no] EXCEPT !.slot = x]
        = [row |-> w, slot |-> x, buffered |-> no, processed |-> no]
  OBVIOUS
<1>2. QED
  BY <1>1, Zenon DEF NewEntry, WithSlot, no

(* The build starts with empty slots. *)
LEMMA BeginKeeps ==
  ASSUME NEW rows, RowsRight(rows), BeginBuild(rows)
  PROVE  ConciseInv(rows)'
<1>1. Len(rows) \in Nat
  BY DEF RowsRight
<1>2. capacity' \in Nat \ {0}
  BY <1>1, SizeType DEF BeginBuild
<1>3. IsFiniteSet({}) /\ Cardinality({}) = 0
  BY FS_EmptySet
<1>4. Inserting(rows)'
  <2>1. /\ area' = "main" /\ buf' = <<>> /\ idx' = 1 /\ buf_write_idx' = 1 /\ read_idx' = 0
        /\ bits' = {} /\ num_overflow' = 0
    BY DEF BeginBuild
  <2>2. entries' = [i \in 0 .. Len(rows) - 1 |-> NewEntry(rows[i + 1], NoEntry)]
    BY DEF BeginBuild, NewEntry
  <2>3. \A p \in 0 .. Len(rows) - 1 : entries'[p].slot = NoEntry
    BY <2>2 DEF NewEntry
  <2>4. entries' = [p \in 0 .. Len(rows) - 1 |-> NewEntry(rows[p + 1], entries'[p].slot)]
    BY <2>2, <2>3
  <2>5. {SlotOf(rows[i])' : i \in 1 .. read_idx'} = {}
    BY <2>1
  <2>6. \A p \in 0 .. read_idx' - 1 : FALSE
    BY <2>1
  <2>7. num_overflow' \in Nat /\ num_overflow' = read_idx' - Cardinality(bits') /\ read_idx' \in 0 .. Len(rows)
    BY <1>1, <1>3, <2>1
  <2>8. QED
    BY <1>2, <1>3, <2>1, <2>4, <2>5, <2>6, <2>7 DEF Inserting
<1>5. QED
  BY <1>4 DEF ConciseInv, BeginBuild

(* The entries while the slots are being taken. *)
LEMMA InsertingEntries ==
  ASSUME NEW rows, RowsRight(rows), Inserting(rows)
  PROVE  /\ Len(rows) \in Nat /\ NumEntries = Len(rows) /\ DOMAIN entries = 0 .. Len(rows) - 1
         /\ \A p \in 0 .. Len(rows) - 1 :
              /\ entries[p] = NewEntry(rows[p + 1], entries[p].slot)
              /\ entries[p].row = rows[p + 1]
              /\ p + 1 \in 1 .. Len(rows) /\ rows[p + 1] \in Range(rows) /\ SlotOf(rows[p + 1]) \in Nat
<1> DEFINE n == Len(rows)
<1>1. n \in Nat
  BY DEF RowsRight
<1>2. entries = [p \in 0 .. n - 1 |-> NewEntry(rows[p + 1], entries[p].slot)] /\ capacity \in Nat \ {0}
  BY DEF Inserting
<1>3. DOMAIN entries = 0 .. n - 1
  BY <1>2
<1>4. NumEntries = n
  BY <1>3, EntriesAreRows
<1>5. ASSUME NEW p \in 0 .. n - 1
      PROVE  /\ entries[p] = NewEntry(rows[p + 1], entries[p].slot)
             /\ entries[p].row = rows[p + 1]
             /\ p + 1 \in 1 .. Len(rows) /\ rows[p + 1] \in Range(rows) /\ SlotOf(rows[p + 1]) \in Nat
  <2> DEFINE w == rows[p + 1]
             s == entries[p].slot
  <2>1. p + 1 \in 1 .. n
    BY <1>1
  <2>2. w \in Range(rows) /\ w.hash \in Nat
    BY <2>1, RowAt
  <2>3. SlotOf(w) \in Nat
    BY <1>2, <2>2, SlotType
  <2>4. entries[p] = NewEntry(w, s)
    BY <1>2
  <2>5. NewEntry(w, s).row = w
    <3> HIDE DEF w, s
    <3>1. QED
      BY DEF NewEntry
  <2>6. QED
    BY <2>1, <2>2, <2>3, <2>4, <2>5
<1>6. QED
  BY <1>1, <1>3, <1>4, <1>5

(* An insertion takes the slot of its hash. *)
LEMMA InsertKeeps ==
  ASSUME NEW rows, RowsRight(rows), stage = "insert", Inserting(rows), Insert
  PROVE  ConciseInv(rows)'
<1> DEFINE n == Len(rows)
           r == rows[read_idx + 1]
           s == SlotOf(r)
<1>1. NumEntries = n /\ n \in Nat /\ DOMAIN entries = 0 .. n - 1
  BY InsertingEntries
<1>2. read_idx \in 0 .. n - 1 /\ read_idx' = read_idx + 1 /\ read_idx' \in 0 .. n
  <2>1. read_idx < NumEntries /\ read_idx' = read_idx + 1
    BY Zenon DEF Insert
  <2>2. read_idx \in 0 .. n
    BY DEF Inserting
  <2>3. QED
    BY <1>1, <2>1, <2>2
<1>3. entries[read_idx].row = r /\ s \in Nat
  BY <1>2, InsertingEntries
<1>5. capacity \in Nat \ {0} /\ capacity' = capacity
  BY Zenon DEF Inserting, Insert
<1>6. entries[read_idx].row.hash % capacity = s
  BY <1>3 DEF SlotOf
<1> HIDE DEF r
<1>7. /\ bits' = bits \cup {s}
      /\ num_overflow' = IF s \in bits THEN num_overflow + 1 ELSE num_overflow
      /\ entries' = [entries EXCEPT ![read_idx] = [entries[read_idx] EXCEPT !.slot = s]]
  <2> HIDE DEF s
  <2> DEFINE probed == Probed(s)
             free == probed \ bits
             slot == IF free # {} THEN Min(free) ELSE Max(probed)
  <2>1. /\ bits' = bits \cup {slot}
        /\ num_overflow' = IF free = {} THEN num_overflow + 1 ELSE num_overflow
        /\ entries' = [entries EXCEPT ![read_idx] = [entries[read_idx] EXCEPT !.slot = slot]]
    BY <1>6, Zenon DEF Insert
  <2>2. probed = {s} /\ Min({s}) = s /\ Max({s}) = s
    BY <1>3, OneProbed
  <2>3. IF s \in bits THEN free = {} ELSE free = {s}
    BY <2>2
  <2>4. slot = s
    BY <2>2, <2>3
  <2> HIDE DEF slot, free
  <2>5. QED
    BY <2>1, <2>3, <2>4, Zenon
<1> DEFINE E(p) == NewEntry(rows[p + 1], IF p = read_idx THEN s ELSE entries[p].slot)
<1>8. entries' = [p \in 0 .. n - 1 |-> E(p)]
  <2> DEFINE e == [entries[read_idx] EXCEPT !.slot = s]
  <2>1. \A p \in 0 .. n - 1 : entries[p] = NewEntry(rows[p + 1], entries[p].slot)
    BY InsertingEntries
  <2>2. e = E(read_idx)
    <3> DEFINE x == entries[read_idx].slot
    <3>1. entries[read_idx] = NewEntry(r, x)
      BY <1>2, <2>1 DEF r
    <3> HIDE DEF x, s
    <3>2. WithSlot(NewEntry(r, x), s) = NewEntry(r, s)
      BY EntryFields, Zenon
    <3>3. e = NewEntry(r, s)
      BY <3>1, <3>2, Zenon DEF WithSlot
    <3>4. QED
      BY <3>3, Zenon DEF r
  <2>3. entries' = [entries EXCEPT ![read_idx] = e]
    BY <1>7
  <2> HIDE DEF e, s
  <2>4. entries' = [p \in 0 .. n - 1 |-> IF p = read_idx THEN e ELSE entries[p]]
    <3>1. entries = [p \in 0 .. n - 1 |-> entries[p]]
      <4>1. entries = [p \in 0 .. n - 1 |-> NewEntry(rows[p + 1], entries[p].slot)]
        BY DEF Inserting
      <4>2. QED
        BY <2>1, <4>1
    <3>2. QED
      BY <2>3, <3>1
  <2>5. \A p \in 0 .. n - 1 : (IF p = read_idx THEN e ELSE entries[p]) = E(p)
    BY <2>1, <2>2
  <2> HIDE DEF E
  <2>6. QED
    BY <2>4, <2>5
<1>9. \A p \in 0 .. n - 1 : entries'[p].slot = IF p = read_idx THEN s ELSE entries[p].slot
  <2> HIDE DEF s
  <2>1. \A p : E(p).slot = IF p = read_idx THEN s ELSE entries[p].slot
    BY DEF NewEntry
  <2> HIDE DEF E
  <2>2. \A p \in 0 .. n - 1 : entries'[p] = E(p)
    BY <1>8
  <2>3. QED
    BY <2>1, <2>2
<1>10. \A q : SlotOf(q)' = SlotOf(q)
  BY <1>5 DEF SlotOf
<1>11. ASSUME NEW p \in 0 .. read_idx' - 1 PROVE entries'[p].slot = SlotOf(rows[p + 1])
  <2>1. p \in 0 .. n - 1
    BY <1>1, <1>2
  <2>2. CASE p = read_idx
    BY <1>9, <2>1, <2>2 DEF s, r
  <2>3. CASE p # read_idx
    <3>1. p \in 0 .. read_idx - 1
      BY <1>2, <2>3
    <3>2. entries[p].slot = SlotOf(rows[p + 1])
      BY <3>1 DEF Inserting
    <3>3. QED
      BY <1>9, <2>1, <2>3, <3>2
  <2>4. QED
    BY <2>2, <2>3
<1>12. bits' = {SlotOf(rows[i]) : i \in 1 .. read_idx'}
  <2>1. 1 .. read_idx' = (1 .. read_idx) \cup {read_idx + 1}
    BY <1>2
  <2>2. bits = {SlotOf(rows[i]) : i \in 1 .. read_idx}
    BY DEF Inserting
  <2>3. QED
    BY <1>7, <2>1, <2>2 DEF s, r
<1>13. IsFiniteSet(bits') /\ num_overflow' \in Nat /\ num_overflow' = read_idx' - Cardinality(bits')
  <2>1. IsFiniteSet(bits) /\ num_overflow \in Nat /\ num_overflow = read_idx - Cardinality(bits)
    BY DEF Inserting
  <2>2. IsFiniteSet(bits) => IsFiniteSet(bits \cup {s}) /\ Cardinality(bits \cup {s}) = IF s \in bits THEN Cardinality(bits) ELSE Cardinality(bits) + 1
    BY FS_AddElement
  <2>3. Cardinality(bits) \in Nat
    BY <2>1, FS_CardinalityType
  <2> HIDE DEF s
  <2>4. QED
    BY <1>2, <1>7, <2>1, <2>2, <2>3
<1>14. area' = "main" /\ buf' = <<>> /\ idx' = 1 /\ buf_write_idx' = 1 /\ stage' = "insert"
  BY DEF Insert, Inserting
<1>15. Inserting(rows)'
  <2>1. entries' = [p \in 0 .. n - 1 |-> NewEntry(rows[p + 1], entries'[p].slot)]
    <3> HIDE DEF s
    <3>1. \A p \in 0 .. n - 1 : E(p) = NewEntry(rows[p + 1], entries'[p].slot)
      BY <1>9
    <3> HIDE DEF E
    <3>2. QED
      BY <1>8, <3>1
  <2>2. \A p \in 0 .. read_idx' - 1 : entries'[p].slot = SlotOf(rows[p + 1])'
    BY <1>10, <1>11
  <2>3. bits' = {SlotOf(rows[i])' : i \in 1 .. read_idx'}
    BY <1>10, <1>12
  <2> HIDE DEF s, E
  <2>4. QED
    BY <1>2, <1>5, <1>13, <1>14, <2>1, <2>2, <2>3 DEF Inserting
<1>16. QED
  BY <1>14, <1>15 DEF ConciseInv

(* There is a place in the main area for every taken slot. *)
LEMMA MainSize ==
  ASSUME NEW rows, RowsRight(rows), NumEntries = Len(rows), IsFiniteSet(bits),
         num_overflow \in Nat, num_overflow = Len(rows) - Cardinality(bits)
  PROVE  NumMain = Cardinality(bits) /\ NumMain \in 0 .. Len(rows)
<1>1. Len(rows) \in Nat /\ Cardinality(bits) \in Nat
  BY FS_CardinalityType DEF RowsRight
<1>2. QED
  BY <1>1 DEF NumMain

(* Nothing has been moved when the reordering starts. *)
LEMMA InsertedKeeps ==
  ASSUME NEW rows, RowsRight(rows), stage = "insert", Inserting(rows), Inserted
  PROVE  ConciseInv(rows)'
<1> DEFINE n == Len(rows)
<1>1. NumEntries = n /\ n \in Nat /\ DOMAIN entries = 0 .. n - 1
  BY InsertingEntries
<1>2. /\ read_idx = n /\ stage' = "fill" /\ read_idx' = 0 /\ overflow_idx' = NumMain
      /\ area' = "main" /\ UNCHANGED <<capacity, bits, num_overflow, entries>>
      /\ buf' = <<>> /\ idx' = 1 /\ buf_write_idx' = 1
  BY <1>1 DEF Inserted, Inserting, table
<1>3. NumMain' = NumMain /\ NumEntries' = NumEntries
  BY <1>2 DEF NumMain, NumEntries
<1>4. Range(rows) = {rows[i] : i \in 1 .. n} /\ DOMAIN rows = 1 .. n
  BY DEF RowsRight, Range
<1>5. \A r : SlotOf(r)' = SlotOf(r)
  BY <1>2 DEF SlotOf
<1>6. bits' = {SlotOf(r)' : r \in Range(rows)}
  <2>1. bits = {SlotOf(rows[i]) : i \in 1 .. n}
    BY <1>2 DEF Inserting
  <2>2. QED
    BY <1>2, <1>4, <1>5, <2>1
<1>7. /\ IsFiniteSet(bits') /\ num_overflow' \in Nat /\ num_overflow' = n - Cardinality(bits')
      /\ capacity' \in Nat \ {0}
  BY <1>2 DEF Inserting
<1>8. ASSUME NEW p \in 0 .. n - 1
      PROVE  /\ entries'[p] \in Entries(rows) /\ entries'[p].row = rows[p + 1]
             /\ (entries[p].slot = SlotOf(entries[p].row))' /\ ~entries'[p].buffered
             /\ ~entries'[p].processed
  <2> DEFINE w == rows[p + 1]
             x == entries[p].slot
  <2>1. w \in Range(rows) /\ SlotOf(w) \in Nat /\ entries[p] = NewEntry(w, x) /\ entries[p].row = w
    BY InsertingEntries
  <2>2. x = SlotOf(w)
    BY <1>2 DEF Inserting
  <2> DEFINE e == entries'[p]
  <2>3. e = NewEntry(w, x)
    BY <1>2, <2>1
  <2> HIDE DEF e, w, x
  <2>4. e.row = w /\ e.slot = x /\ e.buffered = FALSE /\ e.processed = FALSE
    BY <2>3 DEF NewEntry
  <2>5. e \in Entries(rows)
    BY <2>1, <2>2, <2>3 DEF Entries, NewEntry
  <2>6. e.slot = w.hash % capacity'
    BY <1>2, <2>2, <2>4 DEF SlotOf
  <2>7. (entries[p].slot = SlotOf(entries[p].row))'
    BY <2>4, <2>6 DEF SlotOf, e
  <2>8. QED
    BY <2>4, <2>5, <2>7 DEF e, w
<1>9. entries' \in [0 .. n - 1 -> Entries(rows)]
  <2>1. entries = [p \in 0 .. n - 1 |-> NewEntry(rows[p + 1], entries[p].slot)]
    BY DEF Inserting
  <2>2. entries' = [p \in 0 .. n - 1 |-> entries'[p]]
    BY <1>2, <2>1
  <2>3. QED
    BY <1>8, <2>2
<1>10. LivePlaces' = 0 .. n - 1 /\ LiveBuffered' = {}
  <2>1. LivePlaces' = 0 .. n - 1
    BY <1>8, <1>9 DEF LivePlaces
  <2>2. Len(buf') = 0
    BY <1>2
  <2>3. QED
    BY <2>1, <2>2 DEF LiveBuffered
<1>11. EachOnce(rows)'
  <2>1. ASSUME NEW r \in Range(rows) PROVE \E p \in LivePlaces' : entries'[p].row = r
    <3>1. PICK i \in 1 .. n : r = rows[i]
      BY <1>4
    <3>2. i - 1 \in 0 .. n - 1 /\ (i - 1) + 1 = i
      BY <1>1
    <3>3. entries'[i - 1].row = rows[i]
      BY <1>8, <3>2
    <3>4. QED
      BY <1>10, <3>1, <3>2, <3>3
  <2>2. ASSUME NEW p \in LivePlaces', NEW q \in LivePlaces', entries'[p].row = entries'[q].row PROVE p = q
    <3>1. p \in 0 .. n - 1 /\ q \in 0 .. n - 1
      BY <1>10
    <3>2. p + 1 \in DOMAIN rows /\ q + 1 \in DOMAIN rows
      BY <1>1, <1>4, <3>1
    <3>3. entries'[p].row = rows[p + 1] /\ entries'[q].row = rows[q + 1]
      BY <1>8, <3>1
    <3>4. p + 1 = q + 1
      BY <2>2, <3>2, <3>3 DEF RowsRight, IsInjective
    <3>5. QED
      BY <1>1, <3>1, <3>4
  <2>3. QED
    BY <1>10, <2>1, <2>2, Zenon DEF EachOnce
<1>12. Reordering(rows)'
  <2>1. buf' \in Seq(Entries(rows)) /\ Len(buf') = 0
    BY <1>2
  <2>2. \A p \in 0 .. n - 1 : (entries[p].slot = SlotOf(entries[p].row))' /\ ~entries'[p].buffered
    BY <1>8
  <2>3. \A i \in 1 .. Len(buf') : FALSE
    BY <2>1
  <2>4. idx' \in 1 .. Len(buf') + 1 /\ buf_write_idx' \in 1 .. idx'
    BY <1>2, <2>1
  <2>5. \A i \in LiveBuffered' : FALSE
    BY <1>10
  <2>6. \A p \in 0 .. n - 1 : ~(entries'[p].processed /\ entries'[p].buffered)
    BY <2>2
  <2>7. \A i \in 1 .. Len(buf') : (buf[i].slot = SlotOf(buf[i].row))' /\ ~buf'[i].buffered
    BY <2>3, Zenon
  <2>8. QED
    BY <1>2, <1>6, <1>7, <1>9, <1>11, <2>1, <2>2, <2>4, <2>5, <2>6, <2>7, Zenon DEF Reordering
<1>13. NumMain \in 0 .. n
  BY <1>1, <1>2, MainSize DEF Inserting
<1>14. MainMoves(rows)'
  <2>1. read_idx' \in 0 .. NumMain' /\ overflow_idx' \in NumMain' .. n
    BY <1>1, <1>2, <1>3, <1>13
  <2>2. \A p \in 0 .. n - 1 : ~entries'[p].processed /\ ~entries'[p].buffered /\ ~(p < read_idx')
    <3>1. \A p \in 0 .. n - 1 : ~(p < 0)
      BY <1>1
    <3>2. QED
      BY <1>2, <1>8, <3>1
  <2>3. \A p \in NumMain' .. overflow_idx' - 1 : FALSE
    BY <1>1, <1>2, <1>3, <1>13
  <2>4. QED
    BY <2>1, <2>2, <2>3, Zenon DEF MainMoves
<1>15. QED
  <2>1. stage' = "fill" /\ area' = "main" /\ "fill" # "insert" /\ "fill" # "built" /\ "main" # "overflow"
    BY <1>2
  <2>2. QED
    BY <2>1, <1>12, <1>14 DEF ConciseInv

----------------------------------------------------------------------------
(* Moving the entries *)

(* The sizes while entries are moved. *)
LEMMA Sizes ==
  ASSUME NEW rows, RowsRight(rows), Reordering(rows)
  PROVE  /\ Len(rows) \in Nat /\ NumEntries = Len(rows) /\ DOMAIN entries = 0 .. Len(rows) - 1
         /\ NumMain = Cardinality(bits) /\ NumMain \in 0 .. Len(rows)
         /\ IsFiniteSet(bits) /\ bits \in SUBSET Nat
<1>1. Len(rows) \in Nat
  BY DEF RowsRight
<1>2. DOMAIN entries = 0 .. Len(rows) - 1
  BY DEF Reordering
<1>3. NumEntries = Len(rows)
  BY <1>2, EntriesAreRows
<1>4. IsFiniteSet(bits) /\ num_overflow \in Nat /\ num_overflow = Len(rows) - Cardinality(bits)
  BY DEF Reordering
<1>5. NumMain = Cardinality(bits) /\ NumMain \in 0 .. Len(rows)
  BY <1>3, <1>4, MainSize
<1>6. bits \in SUBSET Nat
  <2>1. bits = {SlotOf(r) : r \in Range(rows)} /\ capacity \in Nat \ {0}
    BY DEF Reordering
  <2>2. \A r \in Range(rows) : SlotOf(r) \in Nat
    BY <2>1, SlotType DEF RowsRight
  <2>3. QED
    BY <2>1, <2>2
<1>7. QED
  BY <1>1, <1>2, <1>3, <1>4, <1>5, <1>6

(* The place of a tuple's slot. *)
Home(r) == NumFilledSlotsBefore(SlotOf(r))

(* Every tuple has one, in the main area, and no other slot has it. *)
LEMMA Homes ==
  ASSUME NEW rows, RowsRight(rows), Reordering(rows), NEW r \in Range(rows)
  PROVE  /\ SlotOf(r) \in bits /\ Home(r) \in 0 .. NumMain - 1
         /\ \A q \in Range(rows) : Home(q) = Home(r) => SlotOf(q) = SlotOf(r)
<1>1. \A q \in Range(rows) : SlotOf(q) \in bits
  BY DEF Reordering
<1>2. IsFiniteSet(bits) /\ bits \in SUBSET Nat /\ NumMain = Cardinality(bits)
  BY Sizes
<1> DEFINE s == SlotOf(r)
<1>3. s \in bits
  BY <1>1
<1> HIDE DEF s
<1>4. /\ NumFilledSlotsBefore(s) \in 0 .. Cardinality(bits) - 1
      /\ \A u \in bits : NumFilledSlotsBefore(s) = NumFilledSlotsBefore(u) => s = u
  BY <1>2, <1>3, PlacesApart
<1>5. QED
  BY <1>1, <1>2, <1>3, <1>4 DEF Home, s

(* The fields of the entries. *)
LEMMA EntryTypes ==
  ASSUME NEW rows, NEW e \in Entries(rows)
  PROVE  e.row \in Range(rows) /\ e.slot \in Nat /\ e.buffered \in BOOLEAN /\ e.processed \in BOOLEAN
BY DEF Entries

(* An entry that is processed now. *)
LEMMA ProcessedEntry ==
  ASSUME NEW rows, NEW e \in Entries(rows)
  PROVE  LET f == [e EXCEPT !.processed = TRUE]
         IN  f \in Entries(rows) /\ f.row = e.row /\ f.slot = e.slot /\ f.buffered = e.buffered /\ f.processed
BY DEF Entries

(* An entry that is in the reorder buffer now. *)
LEMMA BufferedEntry ==
  ASSUME NEW rows, NEW e \in Entries(rows)
  PROVE  LET f == [e EXCEPT !.buffered = TRUE]
         IN  f \in Entries(rows) /\ f.row = e.row /\ f.slot = e.slot /\ f.processed = e.processed /\ f.buffered
BY DEF Entries

(* A tuple goes from the buffer to its place, and the tuple that was there   *)
(* to the buffer if it was not there already.                               *)
LEMMA StoreOnce ==
  ASSUME NEW rows, RowsRight(rows), Reordering(rows), idx <= Len(buf),
         NEW dest \in 0 .. Len(rows) - 1, NEW e \in Entries(rows),
         e.row = buf[idx].row, e.buffered = FALSE, Store(e, dest)
  PROVE  /\ EachOnce(rows)' /\ Len(buf') = Len(buf) /\ idx' = idx + 1 /\ buf_write_idx' \in 1 .. idx'
         /\ \A p \in 0 .. Len(rows) - 1 : entries'[p] = IF p = dest THEN e ELSE entries[p]
         /\ \A i \in 1 .. Len(buf) : buf'[i] = buf[i] \/ (buf'[i] = entries[dest] /\ ~entries[dest].buffered)
         /\ \A i \in LiveBuffered' : i \in LiveBuffered \/ buf'[i] = entries[dest]
<1> DEFINE n == Len(rows)
           m == Len(buf)
           b == buf_write_idx
<1>1. n \in Nat /\ DOMAIN entries = 0 .. n - 1
  BY Sizes
<1>2. /\ m \in Nat /\ idx \in 1 .. m /\ b \in 1 .. idx /\ buf \in Seq(Entries(rows)) /\ DOMAIN buf = 1 .. m
      /\ \A i \in 1 .. m : buf[i] \in Entries(rows)
  BY DEF Reordering
<1>3. entries' = [entries EXCEPT ![dest] = e] /\ idx' = idx + 1
  BY DEF Store
<1>4. \A p \in 0 .. n - 1 : entries'[p] = IF p = dest THEN e ELSE entries[p]
  BY <1>1, <1>3
<1>5. DOMAIN entries' = 0 .. n - 1
  BY <1>1, <1>3
<1>6. EachOnce(rows)
  BY DEF Reordering
<1>7. idx \in LiveBuffered /\ LiveBuffered \subseteq 1 .. m /\ LivePlaces \subseteq 0 .. n - 1
  BY <1>1, <1>2 DEF LiveBuffered, LivePlaces
<1>8. CASE entries[dest].buffered
  <2>1. buf' = buf /\ buf_write_idx' = b
    BY <1>8 DEF Store
  <2>2. LivePlaces' = LivePlaces \cup {dest} /\ dest \notin LivePlaces
    BY <1>1, <1>4, <1>5, <1>8 DEF LivePlaces
  <2>3. LiveBuffered' = LiveBuffered \ {idx}
    BY <1>2, <1>3, <2>1 DEF LiveBuffered
  <2>4. \A p \in LivePlaces : p \in 0 .. n - 1 /\ p # dest /\ entries'[p] = entries[p]
    BY <1>4, <1>7, <2>2
  <2>5. entries'[dest].row = buf[idx].row
    BY <1>4
  <2>6. EachOnce(rows)'
    <3>1. ASSUME NEW r \in Range(rows)
          PROVE  (\E p \in LivePlaces' : entries'[p].row = r) \/ (\E i \in LiveBuffered' : buf'[i].row = r)
      <4>1. (\E p \in LivePlaces : entries[p].row = r) \/ (\E i \in LiveBuffered : buf[i].row = r)
        BY <1>6 DEF EachOnce
      <4>2. QED
        BY <2>1, <2>2, <2>3, <2>4, <2>5, <4>1
    <3>2. ASSUME NEW p \in LivePlaces', NEW q \in LivePlaces', entries'[p].row = entries'[q].row PROVE p = q
      <4>1. \A x, y \in LivePlaces : entries[x].row = entries[y].row => x = y
        BY <1>6 DEF EachOnce
      <4>2. \A x \in LivePlaces : entries[x].row # buf[idx].row
        BY <1>6, <1>7 DEF EachOnce
      <4>3. QED
        BY <2>2, <2>4, <2>5, <3>2, <4>1, <4>2
    <3>3. \A i, j \in LiveBuffered' : buf'[i].row = buf'[j].row => i = j
      <4>1. \A i, j \in LiveBuffered : buf[i].row = buf[j].row => i = j
        BY <1>6 DEF EachOnce
      <4>2. QED
        BY <2>1, <2>3, <4>1
    <3>4. ASSUME NEW p \in LivePlaces', NEW i \in LiveBuffered' PROVE entries'[p].row # buf'[i].row
      <4>1. \A x, y \in LiveBuffered : buf[x].row = buf[y].row => x = y
        BY <1>6 DEF EachOnce
      <4>2. \A x \in LivePlaces, y \in LiveBuffered : entries[x].row # buf[y].row
        BY <1>6 DEF EachOnce
      <4>3. QED
        BY <1>7, <2>1, <2>2, <2>3, <2>4, <2>5, <4>1, <4>2
    <3>5. QED
      BY <3>1, <3>2, <3>3, <3>4, Zenon DEF EachOnce
  <2>7. b \in 1 .. idx'
    BY <1>2, <1>3
  <2>8. QED
    BY <1>3, <1>4, <2>1, <2>3, <2>6, <2>7
<1>9. CASE ~entries[dest].buffered
  <2>1. buf' = [buf EXCEPT ![b] = entries[dest]] /\ buf_write_idx' = b + 1
    BY <1>9 DEF Store
  <2>2. /\ Len(buf') = m /\ b \in 1 .. m
        /\ \A i \in 1 .. m : buf'[i] = IF i = b THEN entries[dest] ELSE buf[i]
    BY <1>2, <2>1
  <2>3. LivePlaces' = LivePlaces /\ dest \in LivePlaces
    BY <1>1, <1>4, <1>5, <1>9 DEF LivePlaces
  <2>4. LiveBuffered' = (LiveBuffered \ {idx}) \cup {b} /\ (b = idx \/ b \notin LiveBuffered)
    BY <1>2, <1>3, <2>1, <2>2 DEF LiveBuffered
  <2>5. \A p \in LivePlaces : p \in 0 .. n - 1 /\ (p # dest => entries'[p] = entries[p])
    BY <1>4, <1>7
  <2>6. entries'[dest].row = buf[idx].row /\ buf'[b] = entries[dest] /\ b \in LiveBuffered'
    BY <1>4, <2>2, <2>4
  <2>7. \A i \in LiveBuffered' : i # b => i # idx /\ i \in LiveBuffered /\ buf'[i] = buf[i]
    BY <1>7, <2>2, <2>4
  <2>8. EachOnce(rows)'
    <3> DEFINE E == entries'
               B == buf'
               LP == LivePlaces'
               LB == LiveBuffered'
    <3>0. /\ \A x, y \in LivePlaces : entries[x].row = entries[y].row => x = y
          /\ \A x, y \in LiveBuffered : buf[x].row = buf[y].row => x = y
          /\ \A x \in LivePlaces, y \in LiveBuffered : entries[x].row # buf[y].row
      BY <1>6 DEF EachOnce
    <3>1. ASSUME NEW r \in Range(rows)
          PROVE  (\E p \in LP : E[p].row = r) \/ (\E i \in LB : B[i].row = r)
      <4>1. CASE \E p \in LivePlaces : entries[p].row = r
        <5>1. PICK p \in LivePlaces : entries[p].row = r
          BY <4>1
        <5>2. CASE p = dest
          BY <2>6, <5>1, <5>2
        <5>3. CASE p # dest
          BY <2>3, <2>5, <5>1, <5>3
        <5>4. QED
          BY <5>2, <5>3
      <4>2. CASE \E i \in LiveBuffered : buf[i].row = r
        <5>1. PICK i \in LiveBuffered : buf[i].row = r
          BY <4>2
        <5>2. CASE i = idx
          BY <2>3, <2>6, <5>1, <5>2
        <5>3. CASE i # idx
          <6>1. i \in LB /\ i # b
            BY <2>4, <5>3
          <6>2. QED
            BY <2>7, <5>1, <6>1
        <5>4. QED
          BY <5>2, <5>3
      <4>3. QED
        BY <1>6, <4>1, <4>2 DEF EachOnce
    <3>2. ASSUME NEW p \in LP, NEW q \in LP, E[p].row = E[q].row PROVE p = q
      <4>1. p \in LivePlaces /\ q \in LivePlaces
        BY <2>3
      <4>2. \A x \in LivePlaces : x # dest => E[x].row # buf[idx].row
        BY <1>7, <2>5, <3>0
      <4> HIDE DEF E, LP
      <4>3. E[dest].row = buf[idx].row /\ \A x \in LivePlaces : x # dest => E[x] = entries[x]
        BY <2>5, <2>6 DEF E
      <4>4. QED
        BY <3>0, <3>2, <4>1, <4>2, <4>3
    <3>3. ASSUME NEW i \in LB, NEW j \in LB, B[i].row = B[j].row PROVE i = j
      <4>1. \A x \in LB : x # b => x \in LiveBuffered /\ B[x] = buf[x] /\ B[x].row # B[b].row
        BY <2>3, <2>6, <2>7, <3>0
      <4> HIDE DEF B, LB
      <4>2. QED
        BY <3>0, <3>3, <4>1
    <3>4. ASSUME NEW p \in LP, NEW i \in LB PROVE E[p].row # B[i].row
      <4>1. \A x \in LB : x # b => x # idx /\ x \in LiveBuffered /\ B[x] = buf[x]
        BY <2>7
      <4>2. p \in LivePlaces /\ dest \in LivePlaces /\ (p # dest => E[p] = entries[p]) /\ E[dest].row = buf[idx].row /\ B[b] = entries[dest]
        BY <2>3, <2>5, <2>6
      <4> HIDE DEF E, B, LP, LB
      <4>3. CASE p = dest /\ i = b
        BY <1>7, <3>0, <4>2, <4>3
      <4>4. CASE p = dest /\ i # b
        BY <1>7, <3>0, <4>1, <4>2, <4>4
      <4>5. CASE p # dest /\ i = b
        BY <3>0, <4>2, <4>5
      <4>6. CASE p # dest /\ i # b
        BY <3>0, <4>1, <4>2, <4>6
      <4>7. QED
        BY <4>3, <4>4, <4>5, <4>6
    <3>5. QED
      BY <3>1, <3>2, <3>3, <3>4, Zenon DEF EachOnce
  <2>9. b + 1 \in 1 .. idx'
    BY <1>2, <1>3
  <2>10. QED
    BY <1>3, <1>4, <1>9, <2>1, <2>2, <2>6, <2>7, <2>8, <2>9
<1>10. QED
  BY <1>8, <1>9

(* A store keeps what both moves keep. *)
LEMMA StoreKeeps ==
  ASSUME NEW rows, RowsRight(rows), Reordering(rows), stage = "place", idx <= Len(buf),
         NEW dest \in 0 .. Len(rows) - 1, ~entries[dest].processed,
         NEW e \in Entries(rows), e.row = buf[idx].row, e.slot = buf[idx].slot, e.buffered = FALSE,
         Store(e, dest), UNCHANGED <<stage, area, capacity, bits, num_overflow>>
  PROVE  /\ Reordering(rows)'
         /\ \A p \in 0 .. Len(rows) - 1 : entries'[p] = IF p = dest THEN e ELSE entries[p]
<1> DEFINE n == Len(rows)
           m == Len(buf)
<1>1. /\ EachOnce(rows)' /\ Len(buf') = m /\ idx' = idx + 1 /\ buf_write_idx' \in 1 .. idx'
      /\ \A p \in 0 .. n - 1 : entries'[p] = IF p = dest THEN e ELSE entries[p]
      /\ \A i \in 1 .. m : buf'[i] = buf[i] \/ (buf'[i] = entries[dest] /\ ~entries[dest].buffered)
      /\ \A i \in LiveBuffered' : i \in LiveBuffered \/ buf'[i] = entries[dest]
  BY StoreOnce
<1>2. m \in Nat /\ idx \in 1 .. m /\ buf \in Seq(Entries(rows)) /\ n \in Nat
  BY Sizes DEF Reordering
<1>3. entries' \in [0 .. n - 1 -> Entries(rows)] /\ entries \in [0 .. n - 1 -> Entries(rows)]
  <2>1. entries' = [entries EXCEPT ![dest] = e] /\ entries \in [0 .. n - 1 -> Entries(rows)]
    BY DEF Store, Reordering
  <2>2. QED
    BY <2>1
<1>4. buf' \in Seq(Entries(rows))
  <2>1. buf' = buf \/ buf' = [buf EXCEPT ![buf_write_idx] = entries[dest]]
    BY DEF Store
  <2>2. entries[dest] \in Entries(rows)
    BY <1>3
  <2>3. QED
    BY <1>2, <2>1, <2>2
<1>5. \A p \in 0 .. n - 1 : entries[p].slot = SlotOf(entries[p].row) /\ ~(entries[p].processed /\ entries[p].buffered)
  BY DEF Reordering
<1>6. \A i \in 1 .. m : buf[i].slot = SlotOf(buf[i].row) /\ ~buf[i].buffered
  BY DEF Reordering
<1>7. \A p \in 0 .. n - 1 : (entries[p].slot = SlotOf(entries[p].row))'
  <2>1. \A r : SlotOf(r)' = r.hash % capacity /\ SlotOf(r) = r.hash % capacity
    BY DEF SlotOf
  <2>2. ASSUME NEW p \in 0 .. n - 1 PROVE entries'[p].slot = entries'[p].row.hash % capacity'
    <3>1. CASE p = dest
      BY <1>1, <1>2, <1>6, <2>1, <3>1
    <3>2. CASE p # dest
      BY <1>1, <1>5, <2>1, <3>2
    <3>3. QED
      BY <3>1, <3>2
  <2>3. QED
    BY <2>2 DEF SlotOf
<1>8. \A p \in 0 .. n - 1 : ~(entries'[p].processed /\ entries'[p].buffered)
  BY <1>1, <1>5
<1>9. \A i \in 1 .. m : (buf[i].slot = SlotOf(buf[i].row))' /\ ~buf'[i].buffered
  <2>1. \A r : SlotOf(r) = r.hash % capacity
    BY DEF SlotOf
  <2>2. ASSUME NEW i \in 1 .. m PROVE buf'[i].slot = buf'[i].row.hash % capacity' /\ ~buf'[i].buffered
    <3>1. CASE buf'[i] = buf[i]
      BY <1>6, <2>1, <3>1
    <3>2. CASE buf'[i] = entries[dest] /\ ~entries[dest].buffered
      BY <1>5, <2>1, <3>2
    <3>3. QED
      BY <1>1, <3>1, <3>2
  <2>3. QED
    BY <2>2 DEF SlotOf
<1>10. \A i \in LiveBuffered' : ~buf'[i].processed
  <2>1. \A i \in LiveBuffered : i \in 1 .. m /\ ~buf[i].processed
    BY DEF Reordering, LiveBuffered
  <2>2. QED
    BY <1>1, <2>1
<1>11. idx' \in 1 .. Len(buf') + 1
  BY <1>1, <1>2
<1>12. bits = {SlotOf(r) : r \in Range(rows)} /\ {SlotOf(r)' : r \in Range(rows)} = {SlotOf(r) : r \in Range(rows)}
  BY DEF Reordering, SlotOf
<1>13. /\ area' \in {"main", "overflow"} /\ capacity' \in Nat \ {0} /\ IsFiniteSet(bits') /\ num_overflow' \in Nat
       /\ num_overflow' = n - Cardinality(bits') /\ bits' = {SlotOf(r)' : r \in Range(rows)}
  BY <1>12 DEF Reordering
<1>14. stage' # "fill"
  OBVIOUS
<1>15. Reordering(rows)'
  BY <1>1, <1>3, <1>4, <1>7, <1>8, <1>9, <1>10, <1>11, <1>13, <1>14, Zenon DEF Reordering
<1>16. QED
  BY <1>1, <1>15

(* The places of the slots do not move. *)
LEMMA SameHomes ==
  ASSUME UNCHANGED <<capacity, bits>>
  PROVE  /\ \A s : NumFilledSlotsBefore(s)' = NumFilledSlotsBefore(s)
         /\ \A r : SlotOf(r)' = SlotOf(r) /\ Home(r)' = Home(r)
<1>1. \A s : NumFilledSlotsBefore(s)' = NumFilledSlotsBefore(s)
  BY DEF NumFilledSlotsBefore, PrefixCount
<1>2. \A r : SlotOf(r)' = SlotOf(r)
  BY DEF SlotOf
<1>3. QED
  BY <1>1, <1>2 DEF Home

(* An entry is placed by the home of its tuple. *)
LEMMA EntryHomes ==
  ASSUME NEW rows, RowsRight(rows), Reordering(rows)
  PROVE  /\ \A p \in 0 .. Len(rows) - 1 :
              /\ entries[p] \in Entries(rows) /\ entries[p].row \in Range(rows)
              /\ NumFilledSlotsBefore(entries[p].slot) = Home(entries[p].row)
              /\ Home(entries[p].row) \in 0 .. NumMain - 1
         /\ \A i \in 1 .. Len(buf) :
              /\ buf[i] \in Entries(rows) /\ buf[i].row \in Range(rows)
              /\ NumFilledSlotsBefore(buf[i].slot) = Home(buf[i].row)
              /\ Home(buf[i].row) \in 0 .. NumMain - 1
<1>1. \A r \in Range(rows) : Home(r) \in 0 .. NumMain - 1
  BY Homes
<1>2. ASSUME NEW p \in 0 .. Len(rows) - 1
      PROVE  /\ entries[p] \in Entries(rows) /\ entries[p].row \in Range(rows)
             /\ NumFilledSlotsBefore(entries[p].slot) = Home(entries[p].row)
             /\ Home(entries[p].row) \in 0 .. NumMain - 1
  <2>1. entries[p] \in Entries(rows) /\ entries[p].slot = SlotOf(entries[p].row)
    BY DEF Reordering
  <2>2. entries[p].row \in Range(rows)
    BY <2>1, EntryTypes
  <2>3. QED
    BY <1>1, <2>1, <2>2 DEF Home
<1>3. ASSUME NEW i \in 1 .. Len(buf)
      PROVE  /\ buf[i] \in Entries(rows) /\ buf[i].row \in Range(rows)
             /\ NumFilledSlotsBefore(buf[i].slot) = Home(buf[i].row)
             /\ Home(buf[i].row) \in 0 .. NumMain - 1
  <2>1. buf[i] \in Entries(rows) /\ buf[i].slot = SlotOf(buf[i].row)
    BY DEF Reordering
  <2>2. buf[i].row \in Range(rows)
    BY <2>1, EntryTypes
  <2>3. QED
    BY <1>1, <2>1, <2>2 DEF Home
<1>4. QED
  BY <1>2, <1>3

(* There are as many tuples as rows. *)
LEMMA RowCount ==
  ASSUME NEW rows, RowsRight(rows)
  PROVE  IsFiniteSet(Range(rows)) /\ Cardinality(Range(rows)) = Len(rows)
BY InjectiveLength DEF RowsRight

(* Every place of the main area is the home of a tuple. *)
LEMMA HomesTaken ==
  ASSUME NEW rows, RowsRight(rows), Reordering(rows), NEW p \in 0 .. NumMain - 1
  PROVE  \E r \in Range(rows) : Home(r) = p
<1> DEFINE N(s) == NumFilledSlotsBefore(s)
           f == [s \in bits |-> N(s)]
           T == 0 .. Cardinality(bits) - 1
<1>1. IsFiniteSet(bits) /\ bits \in SUBSET Nat /\ NumMain = Cardinality(bits) /\ Cardinality(bits) \in Nat
  BY Sizes, FS_CardinalityType
<1>2. \A s \in bits : N(s) \in T /\ \A u \in bits : N(s) = N(u) => s = u
  BY <1>1, PlacesApart
<1>3. IsFiniteSet(T) /\ Cardinality(T) = Cardinality(bits)
  <2> DEFINE c == Cardinality(bits)
  <2>1. c \in Nat /\ 0 \in Int /\ c - 1 \in Int
    BY <1>1
  <2> HIDE DEF c
  <2>2. IsFiniteSet(0 .. c - 1) /\ Cardinality(0 .. c - 1) = IF 0 > c - 1 THEN 0 ELSE (c - 1) - 0 + 1
    BY <2>1, FS_Interval
  <2>3. QED
    BY <2>1, <2>2 DEF c
<1> HIDE DEF N, T
<1>4. f \in Injection(bits, T)
  <2>1. f \in [bits -> T]
    BY <1>2
  <2>2. \A s \in bits : f[s] = N(s)
    OBVIOUS
  <2> HIDE DEF f
  <2>3. \A s, u \in bits : f[s] = f[u] => s = u
    BY <1>2, <2>2
  <2>4. QED
    BY <2>1, <2>3 DEF Injection, IsInjective
<1>5. f \in Surjection(bits, T)
  BY <1>3, <1>4, FS_Injection
<1>6. p \in T
  BY <1>1 DEF T
<1>7. PICK s \in bits : f[s] = p
  BY <1>5, <1>6 DEF Surjection
<1>8. N(s) = p /\ bits = {SlotOf(r) : r \in Range(rows)}
  BY <1>7 DEF Reordering
<1>9. QED
  BY <1>7, <1>8 DEF N, Home

(* The overflow area has room for an entry that finds its place taken: else  *)
(* there would be more tuples than rows.                                    *)
LEMMA MainRoom ==
  ASSUME NEW rows, RowsRight(rows), Reordering(rows), MainMoves(rows), idx <= Len(buf),
         entries[Home(buf[idx].row)].processed
  PROVE  overflow_idx \in NumMain .. Len(rows) - 1
<1> DEFINE n == Len(rows)
           R == Range(rows)
           M == NumMain
           last == buf[idx].row
           Over == {entries[p].row : p \in M .. n - 1}
           Outside(p, r) == r \in R /\ Home(r) = p /\ r # last /\ r \notin Over
<1>1. n \in Nat /\ M \in 0 .. n
  BY Sizes
<1>2. overflow_idx \in M .. n /\ M \in Nat
  BY <1>1 DEF MainMoves
<1>3. SUFFICES ASSUME overflow_idx = n PROVE FALSE
  BY <1>1, <1>2
<1>4. idx \in 1 .. Len(buf) /\ idx \in LiveBuffered
  BY DEF Reordering, LiveBuffered
<1>5. last \in R
  BY <1>4, EntryHomes
<1>6. \A p \in M .. n - 1 :
        /\ p \in 0 .. n - 1 /\ p \in LivePlaces /\ entries[p].row \in R /\ entries[p].row # last
        /\ entries[Home(entries[p].row)].processed
  <2> TAKE p \in M .. n - 1
  <2>1. p \in 0 .. n - 1 /\ p \in M .. overflow_idx - 1
    BY <1>1, <1>3
  <2>2. entries[p].buffered => p < read_idx
    BY <2>1 DEF MainMoves
  <2>3. read_idx \in 0 .. M
    BY DEF MainMoves
  <2>4. ~entries[p].buffered
    BY <1>1, <2>2, <2>3
  <2>5. p \in LivePlaces
    BY <2>1, <2>4, Sizes DEF LivePlaces
  <2>6. entries[p].row # last
    BY <1>4, <2>5 DEF Reordering, EachOnce
  <2>7. entries[NumFilledSlotsBefore(entries[p].slot)].processed
    BY <2>1 DEF MainMoves
  <2>8. QED
    BY <2>1, <2>5, <2>6, <2>7, EntryHomes
<1>7. \A p, q \in M .. n - 1 : entries[p].row = entries[q].row => p = q
  BY <1>6 DEF Reordering, EachOnce
<1>8. ASSUME NEW p \in 0 .. M - 1 PROVE \E r : Outside(p, r)
  <2>1. p \in 0 .. n - 1
    BY <1>1
  <2>2. CASE entries[p].processed
    <3> DEFINE r == entries[p].row
    <3>1. NumFilledSlotsBefore(entries[p].slot) = p /\ ~entries[p].buffered
      BY <2>1, <2>2 DEF MainMoves, Reordering
    <3>2. r \in R /\ Home(r) = p
      BY <2>1, <3>1, EntryHomes
    <3>3. p \in LivePlaces
      BY <2>1, <3>1, Sizes DEF LivePlaces
    <3>4. r # last
      BY <1>4, <3>3 DEF Reordering, EachOnce
    <3>5. r \notin Over
      <4>1. ASSUME NEW q \in M .. n - 1, r = entries[q].row PROVE FALSE
        <5>1. q \in LivePlaces
          BY <1>6
        <5>2. p = q
          BY <3>3, <4>1, <5>1 DEF Reordering, EachOnce
        <5>3. QED
          BY <1>1, <5>2
      <4>2. QED
        BY <4>1
    <3>6. QED
      BY <3>2, <3>4, <3>5
  <2>3. CASE ~entries[p].processed
    <3>1. PICK r \in R : Home(r) = p
      BY HomesTaken
    <3>2. r # last
      BY <2>3, <3>1
    <3>3. r \notin Over
      BY <1>6, <2>3, <3>1
    <3>4. QED
      BY <3>1, <3>2, <3>3
  <2>4. QED
    BY <2>2, <2>3
<1> DEFINE g(p) == CHOOSE r : Outside(p, r)
           f == [p \in 0 .. n |-> IF p = n THEN last ELSE IF M <= p THEN entries[p].row ELSE g(p)]
<1>9. \A p \in 0 .. M - 1 : g(p) \in R /\ Home(g(p)) = p /\ g(p) # last /\ g(p) \notin Over
  BY <1>8
<1>10. \A p \in M .. n - 1 : entries[p].row \in Over
  OBVIOUS
<1>11. \A p \in 0 .. n : p = n \/ p \in M .. n - 1 \/ (p \in 0 .. M - 1 /\ ~(M <= p))
  BY <1>1
<1>12. \A p \in M .. n - 1 : p # n /\ M <= p
  BY <1>1
<1>13. \A p \in 0 .. M - 1 : p # n
  BY <1>1
<1> HIDE DEF g, Over, last, M, R, n
<1>14. \A p \in 0 .. n : f[p] = IF p = n THEN last ELSE IF M <= p THEN entries[p].row ELSE g(p)
  OBVIOUS
<1>15. f \in [0 .. n -> R]
  BY <1>5, <1>6, <1>9, <1>11
<1>16. IsFiniteSet(R) /\ Cardinality(R) = n /\ IsFiniteSet(0 .. n) /\ Cardinality(0 .. n) = n + 1
  <2>1. IsFiniteSet(R) /\ Cardinality(R) = n
    BY RowCount DEF R, n
  <2>2. IsFiniteSet(0 .. n) /\ Cardinality(0 .. n) = IF 0 > n THEN 0 ELSE n - 0 + 1
    BY <1>1, FS_Interval, 0 \in Int, n \in Int
  <2>3. QED
    BY <1>1, <2>1, <2>2
<1>17. PICK x \in 0 .. n, y \in 0 .. n : x # y /\ f[x] = f[y]
  <2> HIDE DEF f
  <2>1. Cardinality(R) < Cardinality(0 .. n)
    BY <1>1, <1>16
  <2>2. QED
    BY <1>15, <1>16, <2>1, FS_PigeonHole, Zenon
<1>18. \A p \in 0 .. n : \/ p = n /\ f[p] = last
                         \/ p \in M .. n - 1 /\ p # n /\ f[p] = entries[p].row
                         \/ p \in 0 .. M - 1 /\ p # n /\ f[p] = g(p)
  BY <1>11, <1>12, <1>13, <1>14
<1> HIDE DEF f
<1>19. QED
  BY <1>6, <1>7, <1>9, <1>10, <1>17, <1>18

(* Reading an entry into the buffer keeps what both moves keep. *)
LEMMA FillReorders ==
  ASSUME NEW rows, RowsRight(rows), Reordering(rows), Fill,
         read_idx \in 0 .. Len(rows) - 1, ~entries[read_idx].buffered
  PROVE  /\ Reordering(rows)'
         /\ \A p \in 0 .. Len(rows) - 1 :
              /\ entries'[p].row = entries[p].row /\ entries'[p].slot = entries[p].slot
              /\ entries'[p].processed = entries[p].processed
              /\ entries'[p].buffered <=> entries[p].buffered \/ (p = read_idx /\ ~entries[p].processed)
<1> DEFINE n == Len(rows)
           k == read_idx
           e == entries[k]
           f == [e EXCEPT !.buffered = TRUE]
           m == Len(buf)
<1>1. /\ stage = "fill" /\ stage' = "fill" /\ idx = 1 /\ buf_write_idx = 1
      /\ UNCHANGED <<area, capacity, bits, num_overflow, idx, buf_write_idx>>
  BY DEF Fill, Reordering, table
<1>2. IF e.processed THEN UNCHANGED <<entries, buf>>
      ELSE buf' = Append(buf, e) /\ entries' = [entries EXCEPT ![k] = f]
  BY Zenon DEF Fill
<1>3. n \in Nat /\ DOMAIN entries = 0 .. n - 1 /\ entries \in [0 .. n - 1 -> Entries(rows)] /\ e \in Entries(rows)
  BY Sizes DEF Reordering
<1>4. f \in Entries(rows) /\ f.row = e.row /\ f.slot = e.slot /\ f.processed = e.processed /\ f.buffered
  <2> HIDE DEF e
  <2>1. QED
    BY <1>3, BufferedEntry
<1>5. CASE e.processed
  <2>1. UNCHANGED <<entries, buf>>
    BY <1>2, <1>5
  <2>2. Reordering(rows)'
    BY <1>1, <2>1 DEF Reordering, SlotOf, EachOnce, LivePlaces, LiveBuffered
  <2>3. QED
    BY <1>5, <2>1, <2>2
<1>6. CASE ~e.processed
  <2> HIDE DEF f
  <2>1. buf' = Append(buf, e) /\ entries' = [entries EXCEPT ![k] = f]
    BY <1>2, <1>6
  <2>2. \A p \in 0 .. n - 1 : entries'[p] = IF p = k THEN f ELSE entries[p]
    BY <1>3, <2>1
  <2>3. entries' \in [0 .. n - 1 -> Entries(rows)]
    BY <1>3, <1>4, <2>1
  <2>4. m \in Nat /\ buf \in Seq(Entries(rows))
    BY DEF Reordering
  <2>5. /\ buf' \in Seq(Entries(rows)) /\ Len(buf') = m + 1 /\ buf'[m + 1] = e
        /\ \A i \in 1 .. m : buf'[i] = buf[i]
    BY <1>3, <2>1, <2>4
  <2>6. LiveBuffered = 1 .. m /\ LiveBuffered' = 1 .. m + 1 /\ 1 .. m + 1 = (1 .. m) \cup {m + 1} /\ m + 1 \notin 1 .. m
    BY <1>1, <2>4, <2>5 DEF LiveBuffered
  <2>7. LivePlaces' = LivePlaces \ {k} /\ k \in LivePlaces
    BY <1>3, <1>4, <2>2, <2>3 DEF LivePlaces
  <2>8. \A p \in LivePlaces : p \in 0 .. n - 1 /\ (p # k => entries'[p] = entries[p])
    BY <1>3, <2>2 DEF LivePlaces
  <2>9. EachOnce(rows)'
    <3> DEFINE E == entries'
               B == buf'
               LP == LivePlaces'
               LB == LiveBuffered'
    <3>0. /\ \A x, y \in LivePlaces : entries[x].row = entries[y].row => x = y
          /\ \A x, y \in 1 .. m : buf[x].row = buf[y].row => x = y
          /\ \A x \in LivePlaces, y \in 1 .. m : entries[x].row # buf[y].row
          /\ \A r \in Range(rows) : (\E p \in LivePlaces : entries[p].row = r) \/ (\E i \in 1 .. m : buf[i].row = r)
      BY <2>6 DEF Reordering, EachOnce
    <3>1. /\ LP = LivePlaces \ {k} /\ k \in LivePlaces /\ \A p \in LP : E[p] = entries[p]
          /\ LB = (1 .. m) \cup {m + 1} /\ B[m + 1] = entries[k] /\ \A i \in 1 .. m : B[i] = buf[i]
          /\ m + 1 \notin 1 .. m
      BY <2>5, <2>6, <2>7, <2>8
    <3> HIDE DEF E, B, LP, LB, k
    <3> DEFINE u == m + 1
               D == 1 .. m
    <3> HIDE DEF u, D, m
    <3>2. ASSUME NEW r \in Range(rows) PROVE (\E p \in LP : E[p].row = r) \/ (\E i \in LB : B[i].row = r)
      <4>1. CASE \E p \in LivePlaces : entries[p].row = r
        <5>1. PICK p \in LivePlaces : entries[p].row = r
          BY <4>1
        <5>2. CASE p = k
          <6>1. u \in LB /\ B[u].row = r
            BY <3>1, <5>1, <5>2 DEF u
          <6>2. QED
            BY <6>1
        <5>3. CASE p # k
          BY <3>1, <5>1, <5>3
        <5>4. QED
          BY <5>2, <5>3
      <4>2. CASE \E i \in D : buf[i].row = r
        BY <3>1, <4>2 DEF D
      <4>3. QED
        BY <3>0, <4>1, <4>2 DEF D
    <3>3. \A p, q \in LP : E[p].row = E[q].row => p = q
      BY <3>0, <3>1
    <3>4. \A i, j \in LB : B[i].row = B[j].row => i = j
      BY <3>0, <3>1 DEF u, D
    <3>5. \A p \in LP, i \in LB : E[p].row # B[i].row
      BY <3>0, <3>1 DEF u, D
    <3>6. QED
      BY <3>2, <3>3, <3>4, <3>5, Zenon DEF EachOnce, E, B, LP, LB
  <2>10. \A p \in 0 .. n - 1 : entries[p].slot = SlotOf(entries[p].row) /\ ~(entries[p].processed /\ entries[p].buffered)
    BY DEF Reordering
  <2>11. \A r : SlotOf(r) = r.hash % capacity
    BY DEF SlotOf
  <2>12. \A p \in 0 .. n - 1 : (entries[p].slot = SlotOf(entries[p].row))'
    <3>1. \A p \in 0 .. n - 1 : entries'[p].slot = entries'[p].row.hash % capacity'
      BY <1>1, <1>4, <2>2, <2>10, <2>11
    <3>2. QED
      BY <3>1 DEF SlotOf
  <2>13. \A p \in 0 .. n - 1 : ~(entries'[p].processed /\ entries'[p].buffered)
    BY <1>4, <1>6, <2>2, <2>10
  <2>14. \A i \in 1 .. Len(buf') : (buf[i].slot = SlotOf(buf[i].row))' /\ ~buf'[i].buffered /\ ~buf'[i].processed
    <3>1. \A i \in 1 .. m : buf[i].slot = SlotOf(buf[i].row) /\ ~buf[i].buffered /\ ~buf[i].processed
      BY <2>6 DEF Reordering
    <3>2. \A i \in 1 .. m + 1 : i \in 1 .. m \/ i = m + 1
      BY <2>4
    <3>3. ASSUME NEW i \in 1 .. m + 1 PROVE buf'[i].slot = buf'[i].row.hash % capacity' /\ ~buf'[i].buffered /\ ~buf'[i].processed
      <4>1. CASE i \in 1 .. m
        BY <1>1, <2>5, <2>11, <3>1, <4>1
      <4>2. CASE i = m + 1
        BY <1>1, <1>6, <2>5, <2>10, <2>11, <4>2
      <4>3. QED
        BY <3>2, <4>1, <4>2
    <3>4. QED
      BY <2>5, <3>3 DEF SlotOf
  <2>15. idx' \in 1 .. Len(buf') + 1 /\ buf_write_idx' \in 1 .. idx' /\ idx' = 1 /\ buf_write_idx' = 1
    BY <1>1, <2>4, <2>5
  <2>16. \A i \in LiveBuffered' : ~buf'[i].processed
    BY <2>5, <2>6, <2>14
  <2>17. /\ area' \in {"main", "overflow"} /\ capacity' \in Nat \ {0} /\ IsFiniteSet(bits') /\ num_overflow' \in Nat
         /\ num_overflow' = n - Cardinality(bits') /\ bits' = {SlotOf(r)' : r \in Range(rows)}
    BY <1>1 DEF Reordering, SlotOf
  <2>18. Reordering(rows)'
    BY <2>3, <2>5, <2>9, <2>12, <2>13, <2>14, <2>15, <2>16, <2>17, Zenon DEF Reordering
  <2>19. \A p \in 0 .. n - 1 :
              /\ entries'[p].row = entries[p].row /\ entries'[p].slot = entries[p].slot
              /\ entries'[p].processed = entries[p].processed
              /\ entries'[p].buffered <=> entries[p].buffered \/ (p = k /\ ~entries[p].processed)
    <3> TAKE p \in 0 .. n - 1
    <3>1. CASE p = k
      BY <1>4, <1>6, <2>2, <3>1
    <3>2. CASE p # k
      BY <2>2, <3>2
    <3>3. QED
      BY <3>1, <3>2
  <2>20. QED
    BY <2>18, <2>19
<1>7. QED
  BY <1>5, <1>6

(* The parts of the overflow area do not move while the main area stays. *)
LEMMA SameParts ==
  ASSUME NEW rows, RowsRight(rows), Reordering(rows), Reordering(rows)',
         UNCHANGED <<capacity, bits, num_overflow>>,
         \A p \in 0 .. NumMain - 1 : entries'[p].row = entries[p].row
  PROVE  /\ NumMain' = NumMain /\ OverflowRows(rows)' = OverflowRows(rows)
         /\ \A p : ChainBegin(rows, p)' = ChainBegin(rows, p) /\ ChainEnd(rows, p)' = ChainEnd(rows, p)
<1>1. NumMain' = NumMain
  <2>1. DOMAIN entries = 0 .. Len(rows) - 1 /\ DOMAIN entries' = 0 .. Len(rows) - 1
    BY DEF Reordering
  <2>2. QED
    BY <2>1 DEF NumMain, NumEntries
<1>2. OverflowRows(rows)' = OverflowRows(rows)
  BY <1>1 DEF OverflowRows
<1>3. \A r : NumFilledSlotsBefore(SlotOf(r))' = NumFilledSlotsBefore(SlotOf(r))
  BY SameHomes DEF Home
<1>4. \A p : UpToPlace(rows, p)' = UpToPlace(rows, p)
  BY <1>2, <1>3 DEF UpToPlace
<1>5. QED
  BY <1>1, <1>2, <1>4 DEF ChainBegin, ChainEnd

(* The part of the invariant about the area whose entries are moved. *)
Moves(rows) == (area = "main" => MainMoves(rows)) /\ (area = "overflow" => OverflowMoves(rows))

(* One more entry was read. *)
LEMMA FillKeeps ==
  ASSUME NEW rows, RowsRight(rows), Reordering(rows), Moves(rows), Fill
  PROVE  ConciseInv(rows)'
<1> DEFINE n == Len(rows)
           k == read_idx
<1>1. /\ stage = "fill" /\ stage' = "fill" /\ read_idx' = k + 1 /\ k < EndReadIdx
      /\ UNCHANGED <<area, capacity, bits, num_overflow, overflow_count, overflow_idx>>
  BY Zenon DEF Fill, table, CanFill
<1>2. n \in Nat /\ NumEntries = n /\ NumMain \in 0 .. n /\ area \in {"main", "overflow"}
  BY Sizes DEF Reordering
<1>3. k \in 0 .. n - 1 /\ ~entries[k].buffered
  <2>1. CASE area = "main"
    <3>1. k \in 0 .. NumMain /\ k < NumMain
      BY <1>1, <2>1 DEF Moves, MainMoves, EndReadIdx
    <3>2. k \in 0 .. n - 1
      BY <1>2, <3>1
    <3>3. entries[k].buffered => k < read_idx
      BY <2>1, <3>2 DEF Moves, MainMoves
    <3>4. QED
      BY <3>1, <3>2, <3>3
  <2>2. CASE area = "overflow"
    <3>1. k \in NumMain .. n /\ k < n
      BY <1>1, <1>2, <2>2 DEF Moves, OverflowMoves, EndReadIdx
    <3>2. k \in 0 .. n - 1 /\ k \in NumMain .. n - 1
      BY <1>2, <3>1
    <3>3. entries[k].buffered => k < read_idx
      BY <2>2, <3>2 DEF Moves, OverflowMoves
    <3>4. QED
      BY <3>1, <3>2, <3>3
  <2>3. QED
    BY <1>2, <2>1, <2>2
<1>4. /\ Reordering(rows)'
      /\ \A p \in 0 .. n - 1 :
              /\ entries'[p].row = entries[p].row /\ entries'[p].slot = entries[p].slot
              /\ entries'[p].processed = entries[p].processed
              /\ entries'[p].buffered <=> entries[p].buffered \/ (p = k /\ ~entries[p].processed)
  BY <1>3, FillReorders
<1>5. \A p \in 0 .. NumMain - 1 : p \in 0 .. n - 1
  BY <1>2
<1>6. /\ NumMain' = NumMain /\ OverflowRows(rows)' = OverflowRows(rows)
      /\ \A p : ChainBegin(rows, p)' = ChainBegin(rows, p) /\ ChainEnd(rows, p)' = ChainEnd(rows, p)
  BY <1>1, <1>4, <1>5, SameParts
<1>7. \A s : NumFilledSlotsBefore(s)' = NumFilledSlotsBefore(s)
  BY <1>1, SameHomes
<1>8. \A r : NumFilledSlotsBefore(SlotOf(r))' = NumFilledSlotsBefore(SlotOf(r))
  BY <1>1, SameHomes DEF Home
<1>9. CASE area = "main"
  <2>1. MainMoves(rows) /\ k < NumMain
    BY <1>1, <1>9 DEF Moves, EndReadIdx
  <2>2. read_idx' \in 0 .. NumMain' /\ overflow_idx' \in NumMain' .. n
    <3>1. k \in 0 .. NumMain /\ overflow_idx \in NumMain .. n
      BY <2>1 DEF MainMoves
    <3>2. QED
      BY <1>1, <1>2, <1>6, <2>1, <3>1
  <2>3. ASSUME NEW p \in 0 .. n - 1
        PROVE  /\ entries'[p].processed => p < NumMain' /\ NumFilledSlotsBefore(entries[p].slot)' = p
               /\ entries'[p].buffered => p < read_idx'
               /\ p < read_idx' => entries'[p].processed \/ entries'[p].buffered
    <3>1. /\ entries[p].processed => p < NumMain /\ NumFilledSlotsBefore(entries[p].slot) = p
          /\ entries[p].buffered => p < k
          /\ p < k => entries[p].processed \/ entries[p].buffered
      BY <2>1 DEF MainMoves
    <3>2. entries'[p].processed = entries[p].processed /\ (entries'[p].buffered <=> entries[p].buffered \/ (p = k /\ ~entries[p].processed))
      BY <1>4
    <3>3. NumFilledSlotsBefore(entries[p].slot)' = NumFilledSlotsBefore(entries[p].slot)
      BY <1>1, <1>4 DEF NumFilledSlotsBefore, PrefixCount
    <3>4. p \in Int /\ k \in Int /\ (p < k + 1 <=> p < k \/ p = k)
      BY <1>2, <1>3
    <3>5. QED
      BY <1>1, <1>6, <3>1, <3>2, <3>3, <3>4
  <2>4. ASSUME NEW p \in NumMain' .. overflow_idx' - 1 PROVE (entries[NumFilledSlotsBefore(entries[p].slot)].processed)'
    <3>1. p \in NumMain .. overflow_idx - 1 /\ p \in 0 .. n - 1
      BY <1>1, <1>2, <1>6, <2>1 DEF MainMoves
    <3>2. entries[NumFilledSlotsBefore(entries[p].slot)].processed
      BY <2>1, <3>1 DEF MainMoves
    <3>3. NumFilledSlotsBefore(entries[p].slot)' = NumFilledSlotsBefore(entries[p].slot)
      BY <1>1, <1>4, <3>1 DEF NumFilledSlotsBefore, PrefixCount
    <3>4. NumFilledSlotsBefore(entries[p].slot) \in 0 .. n - 1
      BY <1>5, <3>1, EntryHomes
    <3>5. QED
      BY <1>4, <3>2, <3>3, <3>4
  <2>5. MainMoves(rows)'
    BY <2>2, <2>3, <2>4, Zenon DEF MainMoves
  <2>6. area' # "overflow" /\ stage' # "insert" /\ stage' # "built" /\ stage' \in {"idle", "insert", "fill", "place", "built"}
    BY <1>1, <1>9
  <2>7. QED
    BY <1>4, <2>5, <2>6, Zenon DEF ConciseInv
<1>10. CASE area = "overflow"
  <2>1. OverflowMoves(rows) /\ k < n
    BY <1>1, <1>2, <1>10 DEF Moves, EndReadIdx
  <2>2. read_idx' \in NumMain' .. n
    <3>1. k \in NumMain .. n
      BY <2>1 DEF OverflowMoves
    <3>2. QED
      BY <1>1, <1>2, <1>6, <2>1, <3>1
  <2>3. \A p \in 0 .. n - 1 : NumFilledSlotsBefore(entries[p].slot)' = NumFilledSlotsBefore(entries[p].slot)
    BY <1>1, <1>4 DEF NumFilledSlotsBefore, PrefixCount
  <2>4. OverflowMoves(rows)'
    <3>1. ASSUME NEW p \in 0 .. NumMain' - 1
          PROVE  /\ entries'[p].processed /\ NumFilledSlotsBefore(entries[p].slot)' = p
                 /\ IF \E r \in OverflowRows(rows)' : NumFilledSlotsBefore(SlotOf(r))' = p
                    THEN overflow_count'[p] \in ChainBegin(rows, p)' .. ChainEnd(rows, p)'
                    ELSE overflow_count'[p] = NoEntry
      <4>1. p \in 0 .. NumMain - 1 /\ p \in 0 .. n - 1
        BY <1>5, <1>6
      <4>2. entries'[p].processed /\ NumFilledSlotsBefore(entries[p].slot)' = p
        BY <1>4, <2>1, <2>3, <4>1 DEF OverflowMoves
      <4>3. IF \E r \in OverflowRows(rows) : NumFilledSlotsBefore(SlotOf(r)) = p
                    THEN overflow_count[p] \in ChainBegin(rows, p) .. ChainEnd(rows, p)
                    ELSE overflow_count[p] = NoEntry
        BY <2>1, <4>1 DEF OverflowMoves
      <4>4. (\E r \in OverflowRows(rows)' : NumFilledSlotsBefore(SlotOf(r))' = p) <=> (\E r \in OverflowRows(rows) : NumFilledSlotsBefore(SlotOf(r)) = p)
        BY <1>6, <1>8
      <4>5. QED
        BY <1>1, <1>6, <4>2, <4>3, <4>4
    <3>2. DOMAIN overflow_count' = 0 .. NumMain' - 1
      BY <1>1, <1>6, <2>1 DEF OverflowMoves
    <3>3. ASSUME NEW q \in NumMain' .. n - 1
          PROVE  /\ entries'[q].buffered => q < read_idx'
                 /\ q < read_idx' => entries'[q].processed \/ entries'[q].buffered
                 /\ (LET p == NumFilledSlotsBefore(entries[q].slot)
                     IN  entries[q].processed => overflow_count[p] <= q /\ q < ChainEnd(rows, p) /\ overflow_count[p] # NoEntry)'
      <4>1. q \in NumMain .. n - 1 /\ q \in 0 .. n - 1
        BY <1>2, <1>6
      <4>2. /\ entries[q].buffered => q < k
            /\ q < k => entries[q].processed \/ entries[q].buffered
            /\ LET p == NumFilledSlotsBefore(entries[q].slot)
               IN  entries[q].processed => overflow_count[p] <= q /\ q < ChainEnd(rows, p) /\ overflow_count[p] # NoEntry
        BY <2>1, <4>1 DEF OverflowMoves
      <4>3. entries'[q].processed = entries[q].processed /\ (entries'[q].buffered <=> entries[q].buffered \/ (q = k /\ ~entries[q].processed))
        BY <1>4, <4>1
      <4>4. NumFilledSlotsBefore(entries[q].slot)' = NumFilledSlotsBefore(entries[q].slot)
        BY <2>3, <4>1
      <4>5. q \in Int /\ k \in Int /\ (q < k + 1 <=> q < k \/ q = k)
        BY <1>2, <1>3, <4>1
      <4>6. /\ entries'[q].buffered => q < read_idx'
            /\ q < read_idx' => entries'[q].processed \/ entries'[q].buffered
        BY <1>1, <4>2, <4>3, <4>5
      <4> DEFINE h == NumFilledSlotsBefore(entries[q].slot)
      <4>7. entries[q].processed => overflow_count[h] <= q /\ q < ChainEnd(rows, h) /\ overflow_count[h] # NoEntry
        BY <4>2
      <4>8. h' = h /\ ChainEnd(rows, h)' = ChainEnd(rows, h)
        BY <1>6, <4>4
      <4>9. (entries[q].processed => overflow_count[h] <= q /\ q < ChainEnd(rows, h) /\ overflow_count[h] # NoEntry)'
        BY <1>1, <4>3, <4>7, <4>8 DEF NoEntry
      <4>10. QED
        BY <4>6, <4>9
    <3>4. ASSUME NEW p \in 0 .. NumMain' - 1, NEW q \in NumMain' .. n - 1,
                 overflow_count'[p] # NoEntry, overflow_count'[p] <= q, q < ChainEnd(rows, p)'
          PROVE  entries'[q].processed /\ NumFilledSlotsBefore(entries[q].slot)' = p
      <4>1. p \in 0 .. NumMain - 1 /\ q \in NumMain .. n - 1 /\ q \in 0 .. n - 1
        BY <1>2, <1>6
      <4>2. overflow_count[p] # NoEntry /\ overflow_count[p] <= q /\ q < ChainEnd(rows, p)
        BY <1>1, <1>6, <3>4
      <4>3. entries[q].processed /\ NumFilledSlotsBefore(entries[q].slot) = p
        BY <2>1, <4>1, <4>2 DEF OverflowMoves
      <4>4. QED
        BY <1>4, <2>3, <4>1, <4>3
    <3>5. QED
      BY <2>2, <3>1, <3>2, <3>3, <3>4, Zenon DEF OverflowMoves
  <2>5. area' # "main" /\ stage' # "insert" /\ stage' # "built" /\ stage' \in {"idle", "insert", "fill", "place", "built"}
    BY <1>1, <1>10
  <2>6. QED
    BY <1>4, <2>4, <2>5, Zenon DEF ConciseInv
<1>11. QED
  BY <1>2, <1>9, <1>10

(* The moves are about the entries and the table. *)
LEMMA SameMoves ==
  ASSUME NEW rows, Moves(rows),
         UNCHANGED <<area, capacity, bits, num_overflow, overflow_count, entries, read_idx, overflow_idx>>
  PROVE  Moves(rows)'
<1>1. UNCHANGED <<area, capacity, bits, num_overflow, overflow_count, entries, read_idx, overflow_idx>>
  OBVIOUS
<1>2. NumMain' = NumMain
  BY <1>1 DEF NumMain, NumEntries
<1>3. \A s : NumFilledSlotsBefore(s)' = NumFilledSlotsBefore(s)
  BY <1>1, SameHomes
<1>4. \A r : SlotOf(r)' = SlotOf(r)
  BY <1>1, SameHomes
<1>5. OverflowRows(rows)' = OverflowRows(rows)
  BY <1>1, <1>2 DEF OverflowRows
<1>6. \A p : ChainBegin(rows, p)' = ChainBegin(rows, p) /\ ChainEnd(rows, p)' = ChainEnd(rows, p)
  BY <1>1, <1>2, <1>5 DEF ChainBegin, ChainEnd, UpToPlace, NumFilledSlotsBefore, PrefixCount, SlotOf
<1>7. CASE area = "main"
  BY <1>1, <1>2, <1>7 DEF Moves, MainMoves, NumFilledSlotsBefore, PrefixCount
<1>8. CASE area # "main"
  <2>1. ASSUME OverflowMoves(rows) PROVE OverflowMoves(rows)'
    <3>1. \A q : NumFilledSlotsBefore(entries[q].slot)' = NumFilledSlotsBefore(entries[q].slot)
      BY <1>1 DEF NumFilledSlotsBefore, PrefixCount
    <3>2. \A r : NumFilledSlotsBefore(SlotOf(r))' = NumFilledSlotsBefore(SlotOf(r))
      BY <1>1, SameHomes DEF Home
    <3>3. read_idx' \in NumMain' .. Len(rows) /\ DOMAIN overflow_count' = 0 .. NumMain' - 1
      BY <1>1, <1>2, <2>1 DEF OverflowMoves
    <3>4. ASSUME NEW p \in 0 .. NumMain' - 1
          PROVE  /\ entries'[p].processed /\ NumFilledSlotsBefore(entries[p].slot)' = p
                 /\ IF \E r \in OverflowRows(rows)' : NumFilledSlotsBefore(SlotOf(r))' = p
                    THEN overflow_count'[p] \in ChainBegin(rows, p)' .. ChainEnd(rows, p)'
                    ELSE overflow_count'[p] = NoEntry
      <4>1. /\ entries[p].processed /\ NumFilledSlotsBefore(entries[p].slot) = p
            /\ IF \E r \in OverflowRows(rows) : NumFilledSlotsBefore(SlotOf(r)) = p
               THEN overflow_count[p] \in ChainBegin(rows, p) .. ChainEnd(rows, p)
               ELSE overflow_count[p] = NoEntry
        BY <1>2, <2>1 DEF OverflowMoves
      <4>2. (\E r \in OverflowRows(rows)' : NumFilledSlotsBefore(SlotOf(r))' = p) <=> (\E r \in OverflowRows(rows) : NumFilledSlotsBefore(SlotOf(r)) = p)
        BY <1>5, <3>2
      <4>3. QED
        BY <1>1, <1>6, <3>1, <4>1, <4>2
    <3>5. ASSUME NEW q \in NumMain' .. Len(rows) - 1
          PROVE  /\ entries'[q].buffered => q < read_idx'
                 /\ q < read_idx' => entries'[q].processed \/ entries'[q].buffered
                 /\ (LET p == NumFilledSlotsBefore(entries[q].slot)
                     IN  entries[q].processed => overflow_count[p] <= q /\ q < ChainEnd(rows, p) /\ overflow_count[p] # NoEntry)'
      <4> DEFINE h == NumFilledSlotsBefore(entries[q].slot)
      <4>1. /\ entries[q].buffered => q < read_idx
            /\ q < read_idx => entries[q].processed \/ entries[q].buffered
            /\ entries[q].processed => overflow_count[h] <= q /\ q < ChainEnd(rows, h) /\ overflow_count[h] # NoEntry
        BY <1>2, <2>1 DEF OverflowMoves
      <4>2. h' = h /\ ChainEnd(rows, h)' = ChainEnd(rows, h)
        BY <1>6, <3>1
      <4>3. (entries[q].processed => overflow_count[h] <= q /\ q < ChainEnd(rows, h) /\ overflow_count[h] # NoEntry)'
        BY <1>1, <4>1, <4>2 DEF NoEntry
      <4>4. QED
        BY <1>1, <4>1, <4>3
    <3>6. ASSUME NEW p \in 0 .. NumMain' - 1, NEW q \in NumMain' .. Len(rows) - 1,
                 overflow_count'[p] # NoEntry, overflow_count'[p] <= q, q < ChainEnd(rows, p)'
          PROVE  entries'[q].processed /\ NumFilledSlotsBefore(entries[q].slot)' = p
      <4>1. entries[q].processed /\ NumFilledSlotsBefore(entries[q].slot) = p
        BY <1>1, <1>2, <1>6, <2>1, <3>6 DEF OverflowMoves
      <4>2. QED
        BY <1>1, <3>1, <4>1
    <3>7. QED
      BY <3>3, <3>4, <3>5, <3>6, Zenon DEF OverflowMoves
  <2>2. area' # "main" /\ area' = area
    BY <1>1, <1>8
  <2>3. QED
    BY <2>1, <2>2, Zenon DEF Moves
<1>9. QED
  BY <1>7, <1>8

(* The buffer is full, or all was read: the buffered entries are placed. *)
LEMMA FilledKeeps ==
  ASSUME NEW rows, Reordering(rows), Moves(rows), Filled
  PROVE  ConciseInv(rows)'
<1>1. /\ stage = "fill" /\ stage' = "place" /\ idx' = 1 /\ buf_write_idx' = 1 /\ idx = 1 /\ buf_write_idx = 1
      /\ UNCHANGED <<area, table, entries, buf, read_idx, overflow_idx>>
  BY DEF Filled, Reordering
<1>2. Reordering(rows)'
  <2>1. UNCHANGED <<area, capacity, bits, num_overflow, entries, buf, idx, buf_write_idx>> /\ stage' # "fill"
    BY <1>1 DEF table
  <2>2. LivePlaces' = LivePlaces /\ LiveBuffered' = LiveBuffered
    BY <2>1 DEF LivePlaces, LiveBuffered
  <2>3. EachOnce(rows)'
    BY <2>1, <2>2 DEF Reordering, EachOnce
  <2>4. bits' = {SlotOf(r)' : r \in Range(rows)}
    BY <2>1 DEF Reordering, SlotOf
  <2>5. QED
    BY <2>1, <2>2, <2>3, <2>4 DEF Reordering, SlotOf
<1>3. Moves(rows)'
  BY <1>1, SameMoves DEF table
<1>4. stage' # "insert" /\ stage' # "built" /\ stage' \in {"idle", "insert", "fill", "place", "built"}
  BY <1>1
<1>5. QED
  BY <1>2, <1>3, <1>4, Zenon DEF ConciseInv, Moves

(* All buffered entries are placed: those that had to make room are next. *)
LEMMA PlacedKeeps ==
  ASSUME NEW rows, Reordering(rows), Moves(rows), Placed
  PROVE  ConciseInv(rows)'
<1> DEFINE m == Len(buf)
           b == buf_write_idx
<1>1. /\ stage = "place" /\ stage' = "fill" /\ idx > m /\ idx' = 1 /\ buf_write_idx' = 1
      /\ buf' = SubSeq(buf, 1, b - 1)
      /\ UNCHANGED <<area, table, entries, read_idx, overflow_idx>>
  BY DEF Placed
<1>2. m \in Nat /\ idx \in 1 .. m + 1 /\ b \in 1 .. idx /\ buf \in Seq(Entries(rows))
  BY DEF Reordering
<1>3. b \in 1 .. m + 1
  BY <1>2
<1>4. /\ buf' \in Seq(Entries(rows)) /\ Len(buf') = b - 1
      /\ \A i \in 1 .. b - 1 : buf'[i] = buf[i] /\ i \in 1 .. m
  BY <1>1, <1>2, <1>3
<1>5. LiveBuffered = 1 .. b - 1 /\ LiveBuffered' = 1 .. b - 1
  BY <1>1, <1>2, <1>3, <1>4 DEF LiveBuffered
<1>6. LivePlaces' = LivePlaces
  BY <1>1 DEF LivePlaces
<1>7. EachOnce(rows)'
  <2>1. EachOnce(rows)
    BY DEF Reordering
  <2>2. \A i \in LiveBuffered : buf'[i] = buf[i]
    BY <1>4, <1>5
  <2>3. LiveBuffered' = LiveBuffered
    BY <1>5
  <2>0. entries' = entries
    BY <1>1
  <2>4. ASSUME NEW r \in Range(rows)
        PROVE  (\E p \in LivePlaces' : entries'[p].row = r) \/ (\E i \in LiveBuffered' : buf'[i].row = r)
    <3>1. (\E p \in LivePlaces : entries[p].row = r) \/ (\E i \in LiveBuffered : buf[i].row = r)
      BY <2>1 DEF EachOnce
    <3>2. QED
      BY <1>6, <2>0, <2>2, <2>3, <3>1
  <2>5. \A p, q \in LivePlaces' : entries'[p].row = entries'[q].row => p = q
    BY <1>1, <1>6, <2>1 DEF EachOnce
  <2>6. \A i, j \in LiveBuffered' : buf'[i].row = buf'[j].row => i = j
    BY <2>1, <2>2, <2>3 DEF EachOnce
  <2>7. ASSUME NEW p \in LivePlaces', NEW i \in LiveBuffered' PROVE entries'[p].row # buf'[i].row
    <3>1. p \in LivePlaces /\ i \in LiveBuffered /\ buf'[i] = buf[i]
      BY <1>6, <2>2, <2>3
    <3>2. entries[p].row # buf[i].row
      BY <2>1, <3>1 DEF EachOnce
    <3>3. QED
      BY <2>0, <3>1, <3>2
  <2>8. QED
    BY <2>4, <2>5, <2>6, <2>7, Zenon DEF EachOnce
<1>8. \A i \in 1 .. Len(buf') : (buf[i].slot = SlotOf(buf[i].row))' /\ ~buf'[i].buffered /\ ~buf'[i].processed
  <2>1. \A i \in 1 .. b - 1 : buf[i].slot = SlotOf(buf[i].row) /\ ~buf[i].buffered /\ ~buf[i].processed
    BY <1>4, <1>5 DEF Reordering
  <2>2. \A i \in 1 .. b - 1 : buf'[i].slot = buf'[i].row.hash % capacity' /\ ~buf'[i].buffered /\ ~buf'[i].processed
    BY <1>1, <1>4, <2>1 DEF SlotOf, table
  <2>3. QED
    BY <1>4, <2>2 DEF SlotOf
<1>9. idx' \in 1 .. Len(buf') + 1 /\ buf_write_idx' \in 1 .. idx' /\ \A i \in LiveBuffered' : ~buf'[i].processed
  BY <1>1, <1>2, <1>3, <1>4, <1>5, <1>8
<1>10. /\ area' \in {"main", "overflow"} /\ capacity' \in Nat \ {0} /\ IsFiniteSet(bits') /\ num_overflow' \in Nat
       /\ num_overflow' = Len(rows) - Cardinality(bits') /\ bits' = {SlotOf(r)' : r \in Range(rows)}
       /\ entries' \in [0 .. Len(rows) - 1 -> Entries(rows)]
       /\ \A p \in 0 .. Len(rows) - 1 : (entries[p].slot = SlotOf(entries[p].row))' /\ ~(entries'[p].processed /\ entries'[p].buffered)
  BY <1>1 DEF Reordering, SlotOf, table
<1>11. Reordering(rows)'
  BY <1>1, <1>4, <1>7, <1>8, <1>9, <1>10, Zenon DEF Reordering
<1>12. Moves(rows)'
  BY <1>1, SameMoves DEF table
<1>13. stage' # "insert" /\ stage' # "built" /\ stage' \in {"idle", "insert", "fill", "place", "built"}
  BY <1>1
<1>14. QED
  BY <1>11, <1>12, <1>13, Zenon DEF ConciseInv, Moves

(* A main entry finds its place, or goes to the overflow area. *)
LEMMA PlaceMainKeeps ==
  ASSUME NEW rows, RowsRight(rows), Reordering(rows), Moves(rows), PlaceMain
  PROVE  ConciseInv(rows)'
<1> DEFINE n == Len(rows)
           e == buf[idx]
           h == NumFilledSlotsBefore(e.slot)
           f == [e EXCEPT !.processed = TRUE]
           taken == entries[h].processed
<1>1. /\ stage = "place" /\ area = "main" /\ idx <= Len(buf)
      /\ UNCHANGED <<stage, area, capacity, bits, num_overflow, overflow_count, read_idx>>
      /\ IF taken THEN Store(e, overflow_idx) /\ overflow_idx' = overflow_idx + 1
         ELSE Store(f, h) /\ UNCHANGED overflow_idx
  BY Zenon DEF PlaceMain, table
<1>2. n \in Nat /\ NumEntries = n /\ NumMain \in 0 .. n /\ DOMAIN entries = 0 .. n - 1
  BY Sizes
<1>3. idx \in 1 .. Len(buf) /\ e \in Entries(rows) /\ ~e.buffered
  BY <1>1 DEF Reordering
<1>4. h = Home(e.row) /\ h \in 0 .. NumMain - 1 /\ h \in 0 .. n - 1
  BY <1>2, <1>3, EntryHomes
<1>5. f \in Entries(rows) /\ f.row = e.row /\ f.slot = e.slot /\ f.buffered = e.buffered /\ f.processed
  <2> HIDE DEF e
  <2>1. QED
    BY <1>3, ProcessedEntry
<1>6. MainMoves(rows)
  BY <1>1 DEF Moves
<1>7. \A s : NumFilledSlotsBefore(s)' = NumFilledSlotsBefore(s)
  BY <1>1, SameHomes
<1>8. e.buffered = FALSE /\ f.buffered = FALSE
  <2> HIDE DEF e, f
  <2>1. e.buffered \in BOOLEAN
    BY <1>3, EntryTypes
  <2>2. QED
    BY <1>3, <1>5, <2>1
<1>9. ~e.processed
  <2>1. idx \in LiveBuffered
    BY <1>3 DEF LiveBuffered, Reordering
  <2>2. QED
    BY <2>1 DEF Reordering
<1> DEFINE dest == IF taken THEN overflow_idx ELSE h
           g == IF taken THEN e ELSE f
<1>10. /\ dest \in 0 .. n - 1 /\ ~entries[dest].processed /\ g \in Entries(rows) /\ g.row = e.row /\ g.slot = e.slot
       /\ g.buffered = FALSE /\ Store(g, dest) /\ (g.processed <=> ~taken)
       /\ overflow_idx' = (IF taken THEN overflow_idx + 1 ELSE overflow_idx)
       /\ (taken => dest \in NumMain .. n - 1)
  <2>1. CASE taken
    <3>1. overflow_idx \in NumMain .. n - 1
      BY <1>1, <1>4, <1>6, <2>1, MainRoom
    <3>2. overflow_idx \in 0 .. n - 1 /\ ~(overflow_idx < NumMain)
      BY <1>2, <3>1
    <3>3. ~entries[overflow_idx].processed
      BY <1>6, <3>2 DEF MainMoves
    <3>4. QED
      BY <1>1, <1>3, <1>8, <1>9, <2>1, <3>1, <3>2, <3>3
  <2>2. CASE ~taken
    BY <1>1, <1>4, <1>5, <1>8, <2>2
  <2>3. QED
    BY <2>1, <2>2
<1> HIDE DEF f
<1>11. /\ Reordering(rows)'
       /\ \A p \in 0 .. n - 1 : entries'[p] = IF p = dest THEN g ELSE entries[p]
  <2> HIDE DEF dest, g
  <2>1. UNCHANGED <<stage, area, capacity, bits, num_overflow>> /\ stage = "place" /\ idx <= Len(buf)
    BY <1>1
  <2>2. QED
    BY <1>10, <2>1, StoreKeeps
<1>12. NumMain' = NumMain
  <2>1. DOMAIN entries' = 0 .. n - 1
    BY <1>11 DEF Reordering
  <2>2. QED
    BY <1>1, <1>2, <2>1 DEF NumMain, NumEntries
<1>13. overflow_idx \in NumMain .. n /\ read_idx \in 0 .. NumMain
  BY <1>6 DEF MainMoves
<1>14. read_idx' \in 0 .. NumMain' /\ overflow_idx' \in NumMain' .. n
  BY <1>1, <1>2, <1>10, <1>12, <1>13
<1>15. ASSUME NEW p \in 0 .. n - 1
       PROVE  /\ entries'[p].processed => p < NumMain' /\ NumFilledSlotsBefore(entries[p].slot)' = p
              /\ entries'[p].buffered => p < read_idx'
              /\ p < read_idx' => entries'[p].processed \/ entries'[p].buffered
  <2>1. /\ entries[p].processed => p < NumMain /\ NumFilledSlotsBefore(entries[p].slot) = p
        /\ entries[p].buffered => p < read_idx
        /\ p < read_idx => entries[p].processed \/ entries[p].buffered
    BY <1>6 DEF MainMoves
  <2>2. CASE p # dest
    <3>1. entries'[p] = entries[p]
      BY <1>11, <2>2
    <3>2. NumFilledSlotsBefore(entries[p].slot)' = NumFilledSlotsBefore(entries[p].slot)
      BY <1>1, <3>1 DEF NumFilledSlotsBefore, PrefixCount
    <3>3. QED
      BY <1>1, <1>12, <2>1, <3>1, <3>2
  <2>3. CASE p = dest
    <3>1. entries'[p] = g
      BY <1>11, <2>3
    <3>2. NumFilledSlotsBefore(entries[p].slot)' = h
      BY <1>1, <1>10, <3>1 DEF NumFilledSlotsBefore, PrefixCount
    <3>3. CASE taken
      <4>1. p \in NumMain .. n - 1 /\ ~(p < read_idx)
        BY <1>2, <1>10, <1>13, <2>3, <3>3
      <4>2. QED
        BY <1>1, <1>10, <3>1, <3>3, <4>1
    <3>4. CASE ~taken
      <4>1. p = h /\ p < NumMain
        BY <1>2, <1>4, <2>3, <3>4
      <4>2. QED
        BY <1>10, <1>12, <3>1, <3>2, <3>4, <4>1
    <3>5. QED
      BY <3>3, <3>4
  <2>4. QED
    BY <2>2, <2>3
<1>16. ASSUME NEW p \in NumMain' .. overflow_idx' - 1 PROVE (entries[NumFilledSlotsBefore(entries[p].slot)].processed)'
  <2>1. p \in NumMain .. n - 1 /\ p \in 0 .. n - 1 /\ (p \in NumMain .. overflow_idx - 1 \/ (taken /\ p = overflow_idx))
    BY <1>2, <1>10, <1>12, <1>13, <1>14
  <2>2. CASE taken /\ p = dest
    <3>1. NumFilledSlotsBefore(entries[p].slot)' = h
      BY <1>1, <1>10, <1>11, <2>1, <2>2 DEF NumFilledSlotsBefore, PrefixCount
    <3>2. h # dest
      BY <1>2, <1>4, <2>1, <2>2
    <3>3. QED
      BY <1>4, <1>11, <2>2, <3>1, <3>2
  <2>3. CASE ~(taken /\ p = dest)
    <3> DEFINE k == NumFilledSlotsBefore(entries[p].slot)
    <3>1. p # dest
      BY <1>2, <1>4, <2>1, <2>3
    <3>2. entries'[p] = entries[p]
      BY <1>11, <2>1, <3>1
    <3>3. k' = k
      BY <1>1, <3>2 DEF NumFilledSlotsBefore, PrefixCount
    <3>4. p \in NumMain .. overflow_idx - 1
      BY <2>1, <2>3
    <3>5. entries[k].processed
      BY <1>6, <3>4 DEF MainMoves
    <3>6. k \in 0 .. n - 1
      BY <1>2, <2>1, EntryHomes
    <3>7. entries'[k].processed
      <4> HIDE DEF k, dest, g
      <4>1. k # dest
        BY <1>10, <3>5
      <4>2. QED
        BY <1>11, <3>5, <3>6, <4>1
    <3>8. QED
      BY <3>3, <3>7
  <2>4. QED
    BY <2>2, <2>3
<1>17. MainMoves(rows)'
  BY <1>14, <1>15, <1>16, Zenon DEF MainMoves
<1>18. area' # "overflow" /\ stage' # "insert" /\ stage' # "built" /\ stage' \in {"idle", "insert", "fill", "place", "built"}
  BY <1>1
<1>19. QED
  BY <1>11, <1>17, <1>18, Zenon DEF ConciseInv

----------------------------------------------------------------------------
(* The overflow area *)

(* The tuples outside the main area whose home is p. *)
OverflowOf(rows, p) == {r \in OverflowRows(rows) : Home(r) = p}

(* The parts of the overflow area follow each other, each as long as there   *)
(* are tuples for it.                                                       *)
LEMMA Parts ==
  ASSUME NEW rows, RowsRight(rows), Reordering(rows), NEW p \in Int
  PROVE  /\ ChainBegin(rows, p) \in Nat /\ ChainEnd(rows, p) \in Nat /\ NumMain <= ChainBegin(rows, p)
         /\ IsFiniteSet(OverflowOf(rows, p)) /\ Cardinality(OverflowOf(rows, p)) \in Nat
         /\ ChainEnd(rows, p) = ChainBegin(rows, p) + Cardinality(OverflowOf(rows, p))
         /\ \A q \in Int : p < q => ChainEnd(rows, p) <= ChainBegin(rows, q)
         /\ IsFiniteSet(OverflowRows(rows)) /\ ChainEnd(rows, p) <= NumMain + Cardinality(OverflowRows(rows))
         /\ Cardinality(OverflowRows(rows)) \in Nat
<1> DEFINE O == OverflowRows(rows)
           U(x) == {r \in O : Home(r) <= x}
           V == OverflowOf(rows, p)
<1>1. NumMain \in Nat /\ \A r \in Range(rows) : Home(r) \in Int
  BY Sizes, Homes
<1>2. O \subseteq Range(rows)
  BY DEF OverflowRows
<1>3. IsFiniteSet(O) /\ Cardinality(O) \in Nat
  BY <1>2, RowCount, FS_Subset, FS_CardinalityType
<1>4. \A x : UpToPlace(rows, x) = U(x)
  BY DEF UpToPlace, Home
<1>5. \A x : U(x) \subseteq O
  OBVIOUS
<1>6. \A x \in Int : \A y \in Int : x <= y => U(x) \subseteq U(y)
  BY <1>1, <1>2
<1>7. U(p) = U(p - 1) \cup V /\ U(p - 1) \cap V = {}
  BY <1>1, <1>2 DEF OverflowOf
<1>8. V \subseteq O
  BY DEF OverflowOf
<1> HIDE DEF O, U, V
<1>9. \A x : IsFiniteSet(U(x)) /\ Cardinality(U(x)) \in Nat /\ Cardinality(U(x)) <= Cardinality(O)
  BY <1>3, <1>5, FS_Subset, FS_CardinalityType
<1>10. IsFiniteSet(V) /\ Cardinality(V) \in Nat
  BY <1>3, <1>8, FS_Subset, FS_CardinalityType
<1>11. \A x \in Int : \A y \in Int : x <= y => Cardinality(U(x)) <= Cardinality(U(y))
  BY <1>6, <1>9, FS_Subset
<1>12. Cardinality(U(p)) = Cardinality(U(p - 1)) + Cardinality(V)
  <2> DEFINE A == U(p - 1)
  <2>1. IsFiniteSet(A) /\ Cardinality(A) \in Nat /\ A \cap V = {} /\ U(p) = A \cup V
    BY <1>7, <1>9
  <2> HIDE DEF A
  <2>2. Cardinality(A \cup V) = Cardinality(A) + Cardinality(V) - Cardinality(A \cap V)
    BY <1>10, <2>1, FS_Union
  <2>3. Cardinality(A \cap V) = 0
    BY <2>1, FS_EmptySet
  <2>4. QED
    BY <1>10, <2>1, <2>2, <2>3 DEF A
<1>13. \A x : ChainBegin(rows, x) = NumMain + Cardinality(U(x - 1)) /\ ChainEnd(rows, x) = NumMain + Cardinality(U(x))
  BY <1>4 DEF ChainBegin, ChainEnd
<1>14. \A q \in Int : p < q => p <= q - 1 /\ q - 1 \in Int
  OBVIOUS
<1>15. ASSUME NEW q \in Int, p < q PROVE ChainEnd(rows, p) <= ChainBegin(rows, q)
  <2>1. Cardinality(U(p)) <= Cardinality(U(q - 1)) /\ Cardinality(U(p)) \in Nat /\ Cardinality(U(q - 1)) \in Nat
    BY <1>9, <1>11, <1>14, <1>15
  <2>2. ChainEnd(rows, p) = NumMain + Cardinality(U(p)) /\ ChainBegin(rows, q) = NumMain + Cardinality(U(q - 1))
    BY <1>13
  <2>3. QED
    BY <1>1, <2>1, <2>2
<1>16. /\ ChainBegin(rows, p) = NumMain + Cardinality(U(p - 1)) /\ ChainEnd(rows, p) = NumMain + Cardinality(U(p))
       /\ Cardinality(U(p - 1)) \in Nat /\ Cardinality(U(p)) \in Nat /\ Cardinality(U(p)) <= Cardinality(O)
  BY <1>9, <1>13
<1>17. QED
  BY <1>1, <1>3, <1>10, <1>12, <1>15, <1>16 DEF O, V

(* When the buffer is empty every tuple is at a place. *)
LEMMA AllLive ==
  ASSUME NEW rows, RowsRight(rows), Reordering(rows), buf = <<>>
  PROVE  LivePlaces = 0 .. Len(rows) - 1 /\ \A p \in 0 .. Len(rows) - 1 : ~entries[p].buffered
<1> DEFINE n == Len(rows)
           R == Range(rows)
           T == 0 .. n - 1
           f == [r \in R |-> CHOOSE p \in LivePlaces : entries[p].row = r]
<1>1. n \in Nat /\ DOMAIN entries = T
  BY Sizes
<1>2. LiveBuffered = {}
  BY DEF LiveBuffered
<1>3. \A r \in R : \E p \in LivePlaces : entries[p].row = r
  BY <1>2 DEF Reordering, EachOnce
<1>4. \A r \in R : f[r] \in LivePlaces /\ entries[f[r]].row = r
  BY <1>3
<1>5. LivePlaces \subseteq T
  BY <1>1 DEF LivePlaces
<1>6. IsFiniteSet(R) /\ Cardinality(R) = n
  BY RowCount
<1>7. IsFiniteSet(T) /\ Cardinality(T) = n
  <2>1. n - 1 \in Int /\ 0 \in Int
    BY <1>1
  <2>2. IsFiniteSet(T) /\ Cardinality(T) = IF 0 > n - 1 THEN 0 ELSE (n - 1) - 0 + 1
    BY <2>1, FS_Interval
  <2>3. QED
    BY <1>1, <2>2
<1>8. f \in [R -> T]
  BY <1>4, <1>5
<1> HIDE DEF f, R, T
<1>9. \A x, y \in R : f[x] = f[y] => x = y
  BY <1>4
<1>10. f \in Injection(R, T)
  BY <1>8, <1>9 DEF Injection, IsInjective
<1>11. f \in Surjection(R, T)
  BY <1>6, <1>7, <1>10, FS_Injection
<1>12. \A p \in T : \E r \in R : f[r] = p
  BY <1>11 DEF Surjection
<1>13. T \subseteq LivePlaces
  BY <1>4, <1>12
<1>14. \A p \in LivePlaces : ~entries[p].buffered
  BY DEF LivePlaces
<1>15. QED
  BY <1>5, <1>13, <1>14 DEF T

(* With the main area done, the other tuples are in the overflow area. *)
LEMMA OverflowSize ==
  ASSUME NEW rows, RowsRight(rows), Reordering(rows), \A p \in 0 .. NumMain - 1 : entries[p].processed
  PROVE  /\ Cardinality(OverflowRows(rows)) = Len(rows) - NumMain
         /\ \A p \in 0 .. NumMain - 1 : p \in LivePlaces
         /\ \A i \in LiveBuffered : buf[i].row \in OverflowRows(rows)
         /\ \A q \in LivePlaces : q >= NumMain => entries[q].row \in OverflowRows(rows)
<1> DEFINE n == Len(rows)
           R == Range(rows)
           D == 0 .. NumMain - 1
           M == {entries[p].row : p \in D}
           f == [p \in D |-> entries[p].row]
<1>1. n \in Nat /\ NumMain \in 0 .. n /\ DOMAIN entries = 0 .. n - 1
  BY Sizes
<1>2. \A p \in D : p \in 0 .. n - 1
  BY <1>1
<1>3. \A p \in D : p \in LivePlaces
  BY <1>1, <1>2 DEF LivePlaces, Reordering
<1>4. \A p \in D : \A q \in LivePlaces : entries[p].row = entries[q].row => p = q
  BY <1>3 DEF Reordering, EachOnce
<1>5. \A p \in D, i \in LiveBuffered : entries[p].row # buf[i].row
  BY <1>3 DEF Reordering, EachOnce
<1>6. M \subseteq R
  BY <1>2, EntryHomes
<1>7. IsFiniteSet(D) /\ Cardinality(D) = NumMain
  <2> DEFINE m == NumMain
  <2>1. m \in Nat /\ m - 1 \in Int /\ 0 \in Int
    BY <1>1
  <2> HIDE DEF m
  <2>2. IsFiniteSet(0 .. m - 1) /\ Cardinality(0 .. m - 1) = IF 0 > m - 1 THEN 0 ELSE (m - 1) - 0 + 1
    BY <2>1, FS_Interval
  <2>3. QED
    BY <2>1, <2>2 DEF m
<1>8. f \in [D -> M] /\ \A p \in D : f[p] = entries[p].row
  OBVIOUS
<1>9. \A x \in M : \E p \in D : f[p] = x
  OBVIOUS
<1> HIDE DEF f, D
<1>10. f \in Injection(D, M) /\ f \in Surjection(D, M)
  BY <1>3, <1>4, <1>8, <1>9 DEF Injection, IsInjective, Surjection
<1>11. IsFiniteSet(M) /\ Cardinality(M) = NumMain
  <2> HIDE DEF M
  <2>1. QED
    BY <1>7, <1>10, FS_Surjection
<1>12. IsFiniteSet(R) /\ Cardinality(R) = n
  BY RowCount
<1>13. OverflowRows(rows) = R \ M
  BY DEF OverflowRows, D
<1> HIDE DEF M, R
<1>14. Cardinality(R \ M) = n - NumMain
  <2>1. Cardinality(R \ M) = Cardinality(R) - Cardinality(R \cap M)
    BY <1>12, FS_Difference
  <2>2. R \cap M = M
    BY <1>6
  <2>3. QED
    BY <1>11, <1>12, <2>1, <2>2
<1>15. ASSUME NEW i \in LiveBuffered PROVE buf[i].row \in R \ M
  <2>1. i \in 1 .. Len(buf)
    BY DEF LiveBuffered
  <2>2. buf[i].row \in R
    BY <2>1, EntryHomes DEF R
  <2>3. QED
    BY <1>5, <2>2 DEF M
<1>16. ASSUME NEW q \in LivePlaces, q >= NumMain PROVE entries[q].row \in R \ M
  <2>1. q \in 0 .. n - 1
    BY <1>1 DEF LivePlaces
  <2>2. entries[q].row \in R
    BY <2>1, EntryHomes DEF R
  <2>3. \A p \in D : p # q
    BY <1>1, <1>16, <2>1 DEF D
  <2>4. QED
    BY <1>4, <2>2, <2>3 DEF M
<1>17. QED
  BY <1>3, <1>13, <1>14, <1>15, <1>16 DEF D

(* The tuples outside the main area are at the places behind it. *)
LEMMA OverflowPlaces ==
  ASSUME NEW rows, RowsRight(rows), Reordering(rows), buf = <<>>,
         \A p \in 0 .. NumMain - 1 : entries[p].processed
  PROVE  /\ \A r \in OverflowRows(rows) : \E q \in NumMain .. Len(rows) - 1 : entries[q].row = r
         /\ \A q \in NumMain .. Len(rows) - 1 : entries[q].row \in OverflowRows(rows)
         /\ \A p, q \in 0 .. Len(rows) - 1 : entries[p].row = entries[q].row => p = q
<1> DEFINE n == Len(rows)
<1>1. n \in Nat /\ NumMain \in 0 .. n /\ LivePlaces = 0 .. n - 1
  BY Sizes, AllLive
<1>2. LiveBuffered = {}
  BY DEF LiveBuffered
<1>3. ASSUME NEW r \in OverflowRows(rows) PROVE \E q \in NumMain .. n - 1 : entries[q].row = r
  <2>1. r \in Range(rows) /\ \A p \in 0 .. NumMain - 1 : entries[p].row # r
    BY DEF OverflowRows
  <2>2. PICK q \in 0 .. n - 1 : entries[q].row = r
    BY <1>1, <1>2, <2>1 DEF Reordering, EachOnce
  <2>3. q \in NumMain .. n - 1
    BY <1>1, <2>1, <2>2
  <2>4. QED
    BY <2>2, <2>3
<1>4. ASSUME NEW q \in NumMain .. n - 1 PROVE entries[q].row \in OverflowRows(rows)
  <2>1. q \in LivePlaces /\ q >= NumMain
    BY <1>1
  <2>2. QED
    BY <2>1, OverflowSize
<1>5. \A p, q \in 0 .. n - 1 : entries[p].row = entries[q].row => p = q
  BY <1>1 DEF Reordering, EachOnce
<1>6. QED
  BY <1>3, <1>4, <1>5

(* So counting the places counts the tuples. *)
LEMMA CountUpTo ==
  ASSUME NEW rows, RowsRight(rows), Reordering(rows), buf = <<>>,
         \A p \in 0 .. NumMain - 1 : entries[p].processed, NEW x \in Int
  PROVE  Cardinality(OverflowUpTo(x)) = Cardinality(UpToPlace(rows, x))
<1> DEFINE n == Len(rows)
           A == OverflowUpTo(x)
           B == UpToPlace(rows, x)
           f == [q \in A |-> entries[q].row]
<1>1. n \in Nat /\ NumMain \in 0 .. n /\ NumEntries = n
  BY Sizes
<1>2. A = {q \in NumMain .. n - 1 : Home(entries[q].row) <= x}
  <2>1. \A q \in NumMain .. n - 1 : NumFilledSlotsBefore(entries[q].slot) = Home(entries[q].row)
    <3>1. \A q \in NumMain .. n - 1 : q \in 0 .. n - 1
      BY <1>1
    <3>2. QED
      BY <3>1, EntryHomes
  <2>2. QED
    BY <1>1, <2>1 DEF OverflowUpTo
<1>3. B = {r \in OverflowRows(rows) : Home(r) <= x}
  BY DEF UpToPlace, Home
<1>4. IsFiniteSet(A)
  <2> DEFINE m == NumMain
  <2>1. m \in Int /\ n - 1 \in Int
    BY <1>1
  <2> HIDE DEF m, n
  <2>2. IsFiniteSet(m .. n - 1)
    BY <2>1, FS_Interval
  <2>3. A \subseteq m .. n - 1
    BY <1>2 DEF m
  <2> HIDE DEF A
  <2>4. QED
    BY <2>2, <2>3, FS_Subset
<1>5. f \in [A -> B]
  BY <1>2, <1>3, OverflowPlaces
<1>6. \A p, q \in A : f[p] = f[q] => p = q
  <2>1. \A p \in A : p \in 0 .. n - 1 /\ f[p] = entries[p].row
    BY <1>1, <1>2
  <2> HIDE DEF f, A
  <2>2. QED
    BY <2>1, OverflowPlaces
<1>7. ASSUME NEW r \in B PROVE \E q \in A : f[q] = r
  <2>1. PICK q \in NumMain .. n - 1 : entries[q].row = r
    BY <1>3, OverflowPlaces
  <2>2. q \in A
    BY <1>2, <1>3, <2>1
  <2>3. QED
    BY <2>1, <2>2
<1> HIDE DEF f, A, B
<1>8. f \in Injection(A, B) /\ f \in Surjection(A, B)
  BY <1>5, <1>6, <1>7 DEF Injection, IsInjective, Surjection
<1>9. Cardinality(A) = Cardinality(B)
  BY <1>4, <1>8, FS_Surjection
<1>10. QED
  BY <1>9 DEF A, B

(* The main area is done: every part of the overflow area is still empty. *)
LEMMA MainReorderedKeeps ==
  ASSUME NEW rows, RowsRight(rows), Reordering(rows), Moves(rows), MainReordered
  PROVE  ConciseInv(rows)'
<1> DEFINE n == Len(rows)
<1>1. /\ stage = "fill" /\ stage' = "fill" /\ area = "main" /\ area' = "overflow" /\ ~CanFill /\ buf = <<>>
      /\ read_idx' = NumMain /\ overflow_count' = OverflowCounts
      /\ UNCHANGED <<capacity, bits, num_overflow, entries, buf, idx, buf_write_idx>>
  BY DEF MainReordered
<1>2. n \in Nat /\ NumMain \in 0 .. n /\ NumEntries = n
  BY Sizes
<1>3. MainMoves(rows)
  BY <1>1 DEF Moves
<1>4. read_idx = NumMain
  <2>1. MaxBuffered \in Nat \ {0} /\ Len(buf) = 0
    BY <1>1, MaxBufferedAssumption
  <2>2. read_idx \in 0 .. NumMain
    BY <1>3 DEF MainMoves
  <2>3. QED
    BY <1>1, <1>2, <2>1, <2>2 DEF CanFill, EndReadIdx
<1>5. \A p \in 0 .. n - 1 : ~entries[p].buffered
  BY <1>1, AllLive
<1>6. \A p \in 0 .. NumMain - 1 : p \in 0 .. n - 1 /\ p < NumMain
  BY <1>2
<1>7. \A p \in 0 .. NumMain - 1 : entries[p].processed /\ NumFilledSlotsBefore(entries[p].slot) = p
  BY <1>3, <1>4, <1>5, <1>6 DEF MainMoves
<1>8. Reordering(rows)'
  <2>1. LivePlaces' = LivePlaces /\ LiveBuffered' = LiveBuffered
    BY <1>1 DEF LivePlaces, LiveBuffered
  <2>2. EachOnce(rows)'
    BY <1>1, <2>1 DEF Reordering, EachOnce
  <2>3. bits' = {SlotOf(r)' : r \in Range(rows)}
    BY <1>1 DEF Reordering, SlotOf
  <2>4. QED
    BY <1>1, <2>1, <2>2, <2>3 DEF Reordering, SlotOf
<1>9. /\ NumMain' = NumMain /\ OverflowRows(rows)' = OverflowRows(rows)
      /\ \A p : ChainBegin(rows, p)' = ChainBegin(rows, p) /\ ChainEnd(rows, p)' = ChainEnd(rows, p)
  BY <1>1, <1>8, SameParts
<1>10. \A r : NumFilledSlotsBefore(SlotOf(r))' = Home(r)
  BY <1>1, SameHomes DEF Home
<1>11. \A q : NumFilledSlotsBefore(entries[q].slot)' = NumFilledSlotsBefore(entries[q].slot)
  BY <1>1 DEF NumFilledSlotsBefore, PrefixCount
<1>12. \A q \in NumMain .. n - 1 : q \in 0 .. n - 1 /\ NumFilledSlotsBefore(entries[q].slot) = Home(entries[q].row) /\ Home(entries[q].row) \in Int
  <2>1. \A q \in NumMain .. n - 1 : q \in 0 .. n - 1
    BY <1>2
  <2>2. QED
    BY <2>1, EntryHomes
<1>13. ASSUME NEW p \in 0 .. NumMain - 1
       PROVE  IF \E r \in OverflowRows(rows) : Home(r) = p THEN overflow_count'[p] = ChainEnd(rows, p) ELSE overflow_count'[p] = NoEntry
  <2>1. overflow_count'[p] = IF OverflowUpTo(p) = OverflowUpTo(p - 1) THEN NoEntry ELSE NumMain + Cardinality(OverflowUpTo(p))
    BY <1>1 DEF OverflowCounts
  <2>2. NumMain + Cardinality(OverflowUpTo(p)) = ChainEnd(rows, p)
    BY <1>1, <1>7, CountUpTo DEF ChainEnd
  <2>3. \A x : OverflowUpTo(x) = {q \in NumMain .. n - 1 : Home(entries[q].row) <= x}
    BY <1>2, <1>12 DEF OverflowUpTo
  <2>4. OverflowUpTo(p) = OverflowUpTo(p - 1) <=> \A q \in NumMain .. n - 1 : Home(entries[q].row) # p
    <3>1. \A q \in NumMain .. n - 1 : Home(entries[q].row) <= p <=> (Home(entries[q].row) <= p - 1 \/ Home(entries[q].row) = p)
      BY <1>12
    <3>2. \A q \in NumMain .. n - 1 : Home(entries[q].row) = p => ~(Home(entries[q].row) <= p - 1)
      OBVIOUS
    <3>3. QED
      BY <2>3, <3>1, <3>2
  <2>5. (\E r \in OverflowRows(rows) : Home(r) = p) <=> \E q \in NumMain .. n - 1 : Home(entries[q].row) = p
    BY <1>1, <1>7, OverflowPlaces
  <2>6. QED
    BY <2>1, <2>2, <2>4, <2>5
<1>14. OverflowMoves(rows)'
  <2>1. ASSUME NEW p \in 0 .. NumMain' - 1
        PROVE  /\ entries'[p].processed /\ NumFilledSlotsBefore(entries[p].slot)' = p
               /\ IF \E r \in OverflowRows(rows)' : NumFilledSlotsBefore(SlotOf(r))' = p
                  THEN overflow_count'[p] \in ChainBegin(rows, p)' .. ChainEnd(rows, p)'
                  ELSE overflow_count'[p] = NoEntry
    <3>1. p \in 0 .. NumMain - 1 /\ p \in Int
      BY <1>9
    <3>2. ChainEnd(rows, p) \in ChainBegin(rows, p) .. ChainEnd(rows, p)
      BY <3>1, Parts
    <3>3. (\E r \in OverflowRows(rows)' : NumFilledSlotsBefore(SlotOf(r))' = p) <=> (\E r \in OverflowRows(rows) : Home(r) = p)
      BY <1>9, <1>10
    <3>4. QED
      BY <1>1, <1>7, <1>9, <1>11, <1>13, <3>1, <3>2, <3>3
  <2>2. read_idx' \in NumMain' .. n /\ DOMAIN overflow_count' = 0 .. NumMain' - 1
    BY <1>1, <1>2, <1>9 DEF OverflowCounts
  <2>3. ASSUME NEW q \in NumMain' .. n - 1
        PROVE  /\ entries'[q].buffered => q < read_idx'
               /\ q < read_idx' => entries'[q].processed \/ entries'[q].buffered
               /\ (LET p == NumFilledSlotsBefore(entries[q].slot)
                   IN  entries[q].processed => overflow_count[p] <= q /\ q < ChainEnd(rows, p) /\ overflow_count[p] # NoEntry)'
    <3>1. q \in NumMain .. n - 1 /\ q \in 0 .. n - 1 /\ ~(q < NumMain)
      BY <1>2, <1>9
    <3>2. ~entries[q].buffered /\ ~entries[q].processed
      BY <1>3, <1>5, <3>1 DEF MainMoves
    <3>3. ~entries'[q].buffered /\ ~entries'[q].processed /\ ~(q < read_idx')
      BY <1>1, <3>1, <3>2
    <3>4. QED
      BY <3>3
  <2>4. ASSUME NEW p \in 0 .. NumMain' - 1, NEW q \in NumMain' .. n - 1,
               overflow_count'[p] # NoEntry, overflow_count'[p] <= q, q < ChainEnd(rows, p)'
        PROVE  entries'[q].processed /\ NumFilledSlotsBefore(entries[q].slot)' = p
    <3>1. p \in 0 .. NumMain - 1 /\ p \in Int /\ q \in Int
      BY <1>2, <1>9
    <3>2. overflow_count'[p] = ChainEnd(rows, p) /\ ChainEnd(rows, p) \in Nat /\ q < ChainEnd(rows, p)
      BY <1>9, <1>13, <2>4, <3>1, Parts
    <3>3. FALSE
      BY <2>4, <3>1, <3>2
    <3>4. QED
      BY <3>3
  <2>5. QED
    BY <2>1, <2>2, <2>3, <2>4, Zenon DEF OverflowMoves
<1>15. area' # "main" /\ stage' # "insert" /\ stage' # "built" /\ stage' \in {"idle", "insert", "fill", "place", "built"}
  BY <1>1
<1>16. QED
  BY <1>8, <1>14, <1>15, Zenon DEF ConciseInv

(* A part of the overflow area has room for every tuple that belongs there.  *)
LEMMA OverflowRoom ==
  ASSUME NEW rows, RowsRight(rows), Reordering(rows), OverflowMoves(rows), idx <= Len(buf),
         NEW h, h = Home(buf[idx].row)
  PROVE  /\ h \in 0 .. NumMain - 1 /\ buf[idx].row \in OverflowRows(rows)
         /\ overflow_count[h] - 1 \in NumMain .. Len(rows) - 1
         /\ overflow_count[h] \in ChainBegin(rows, h) + 1 .. ChainEnd(rows, h)
         /\ ~entries[overflow_count[h] - 1].processed
<1> DEFINE n == Len(rows)
           r == buf[idx].row
           c == overflow_count[h]
           V == OverflowOf(rows, h)
           begin == ChainBegin(rows, h)
           end == ChainEnd(rows, h)
           D == c .. end
           f == [q \in D |-> IF q = end THEN r ELSE entries[q].row]
<1>1. n \in Nat /\ NumMain \in 0 .. n /\ DOMAIN entries = 0 .. n - 1
  BY Sizes
<1>2. idx \in 1 .. Len(buf) /\ idx \in LiveBuffered
  BY DEF Reordering, LiveBuffered
<1>3. r \in Range(rows) /\ h \in 0 .. NumMain - 1 /\ h \in Int
  BY <1>2, EntryHomes
<1>4. \A p \in 0 .. NumMain - 1 : entries[p].processed
  BY DEF OverflowMoves
<1>5. /\ r \in OverflowRows(rows) /\ Cardinality(OverflowRows(rows)) = n - NumMain
      /\ \A q \in LivePlaces : q >= NumMain => entries[q].row \in OverflowRows(rows)
  BY <1>2, <1>4, OverflowSize
<1>6. /\ begin \in Nat /\ end \in Nat /\ NumMain <= begin /\ end = begin + Cardinality(V)
      /\ IsFiniteSet(V) /\ Cardinality(V) \in Nat /\ end <= n
  BY <1>1, <1>3, <1>5, Parts
<1>7. c \in begin .. end /\ c # NoEntry
  <2>1. \E w \in OverflowRows(rows) : NumFilledSlotsBefore(SlotOf(w)) = h
    BY <1>5 DEF Home
  <2>2. c \in begin .. end
    BY <1>3, <2>1 DEF OverflowMoves
  <2>3. QED
    BY <1>6, <2>2 DEF NoEntry
<1>8. ASSUME NEW q \in D, q # end
      PROVE  /\ q \in NumMain .. n - 1 /\ q \in LivePlaces /\ entries[q].row \in V /\ entries[q].row # r
  <2>1. q \in NumMain .. n - 1 /\ q \in 0 .. n - 1 /\ c <= q /\ q < end /\ q >= NumMain
    BY <1>1, <1>6, <1>7, <1>8
  <2>2. entries[q].processed /\ NumFilledSlotsBefore(entries[q].slot) = h
    BY <1>3, <1>7, <2>1 DEF OverflowMoves
  <2>3. q \in LivePlaces
    BY <1>1, <2>1, <2>2 DEF LivePlaces, Reordering
  <2>4. entries[q].row \in OverflowRows(rows) /\ Home(entries[q].row) = h
    BY <1>5, <2>1, <2>2, <2>3, EntryHomes
  <2>5. entries[q].row # r
    BY <1>2, <2>3 DEF Reordering, EachOnce
  <2>6. QED
    BY <2>1, <2>3, <2>4, <2>5 DEF OverflowOf
<1>9. r \in V
  BY <1>5 DEF OverflowOf
<1> HIDE DEF V, r, c, begin, end
<1>10. f \in [D -> V]
  BY <1>8, <1>9
<1>11. \A q \in D : f[q] = IF q = end THEN r ELSE entries[q].row
  OBVIOUS
<1>12. \A p, q \in LivePlaces : entries[p].row = entries[q].row => p = q
  BY DEF Reordering, EachOnce
<1>13. \A p, q \in D : f[p] = f[q] => p = q
  BY <1>8, <1>11, <1>12
<1>14. f \in Injection(D, V)
  <2> HIDE DEF f
  <2>1. QED
    BY <1>10, <1>13 DEF Injection, IsInjective
<1>15. Cardinality(D) <= Cardinality(V)
  <2> HIDE DEF f
  <2>1. QED
    BY <1>6, <1>14, FS_Injection
<1>16. Cardinality(D) = end - c + 1
  <2>1. c \in Int /\ end \in Int /\ ~(c > end)
    BY <1>6, <1>7
  <2>2. QED
    BY <2>1, FS_Interval
<1>17. c \in begin + 1 .. end
  BY <1>6, <1>7, <1>15, <1>16
<1>18. c - 1 \in NumMain .. n - 1 /\ c - 1 \in 0 .. n - 1
  BY <1>1, <1>6, <1>17
<1>19. ASSUME entries[c - 1].processed PROVE FALSE
  <2> DEFINE k == NumFilledSlotsBefore(entries[c - 1].slot)
  <2>1. overflow_count[k] <= c - 1 /\ c - 1 < ChainEnd(rows, k) /\ overflow_count[k] # NoEntry
    BY <1>18, <1>19 DEF OverflowMoves
  <2>2. k \in 0 .. NumMain - 1 /\ k \in Int
    BY <1>18, EntryHomes
  <2>3. overflow_count[k] \in ChainBegin(rows, k) .. ChainEnd(rows, k)
    BY <2>1, <2>2 DEF OverflowMoves
  <2> HIDE DEF k
  <2>4. CASE k = h
    <3>1. c <= c - 1
      BY <2>1, <2>4 DEF c
    <3>2. QED
      BY <1>6, <1>17, <3>1
  <2>5. CASE k < h
    <3>1. ChainEnd(rows, k) <= begin /\ ChainEnd(rows, k) \in Nat
      BY <1>3, <2>2, <2>5, Parts DEF begin
    <3>2. QED
      BY <1>6, <1>17, <2>1, <3>1
  <2>6. CASE h < k
    <3>1. end <= ChainBegin(rows, k) /\ ChainBegin(rows, k) \in Nat /\ ChainEnd(rows, k) \in Nat
      BY <1>3, <2>2, <2>6, Parts DEF end
    <3>2. QED
      BY <1>6, <1>17, <2>1, <2>3, <3>1
  <2>7. QED
    BY <1>3, <2>2, <2>4, <2>5, <2>6
<1>20. QED
  BY <1>3, <1>5, <1>17, <1>18, <1>19 DEF r, c, begin, end

(* An overflow entry is put at the end of what is free of its part. *)
LEMMA PlaceOverflowKeeps ==
  ASSUME NEW rows, RowsRight(rows), Reordering(rows), Moves(rows), PlaceOverflow
  PROVE  ConciseInv(rows)'
<1> DEFINE n == Len(rows)
           e == buf[idx]
           parent == NumFilledSlotsBefore(e.slot)
           place == overflow_count[parent] - 1
           g == [e EXCEPT !.processed = TRUE]
<1>0. PICK h, dest : h = parent /\ dest = place
  OBVIOUS
<1>1. /\ stage = "place" /\ area = "overflow" /\ idx <= Len(buf)
      /\ UNCHANGED <<stage, area, capacity, bits, num_overflow, read_idx>>
      /\ overflow_count' = [overflow_count EXCEPT ![h] = dest] /\ Store(g, dest)
  BY <1>0, Zenon DEF PlaceOverflow
<1>2. n \in Nat /\ NumEntries = n /\ NumMain \in 0 .. n /\ DOMAIN entries = 0 .. n - 1
  BY Sizes
<1>3. idx \in 1 .. Len(buf) /\ e \in Entries(rows) /\ ~e.buffered
  BY <1>1 DEF Reordering
<1>4. h = Home(e.row) /\ h \in Int /\ dest = overflow_count[h] - 1
  BY <1>0, <1>2, <1>3, EntryHomes
<1> HIDE DEF parent, place
<1>5. g \in Entries(rows) /\ g.row = e.row /\ g.slot = e.slot /\ g.buffered = e.buffered /\ g.processed
  <2> HIDE DEF e
  <2>1. QED
    BY <1>3, ProcessedEntry
<1>6. OverflowMoves(rows)
  BY <1>1 DEF Moves
<1>7. g.buffered = FALSE
  <2> HIDE DEF e, g
  <2>1. e.buffered \in BOOLEAN
    BY <1>3, EntryTypes
  <2>2. QED
    BY <1>3, <1>5, <2>1
<1>8. /\ h \in 0 .. NumMain - 1 /\ e.row \in OverflowRows(rows) /\ dest \in NumMain .. n - 1
      /\ overflow_count[h] \in ChainBegin(rows, h) + 1 .. ChainEnd(rows, h)
      /\ ~entries[dest].processed
  BY <1>1, <1>4, <1>6, OverflowRoom
<1>9. dest \in 0 .. n - 1 /\ dest \in Int /\ ChainBegin(rows, h) \in Nat /\ ChainEnd(rows, h) \in Nat
  <2>1. dest \in 0 .. n - 1 /\ dest \in Int
    BY <1>2, <1>8
  <2>2. QED
    BY <1>4, <2>1, Parts
<1>10. dest \in ChainBegin(rows, h) .. ChainEnd(rows, h) - 1 /\ dest # NoEntry /\ overflow_count[h] = dest + 1
  BY <1>4, <1>8, <1>9 DEF NoEntry
<1> HIDE DEF g
<1>11. /\ Reordering(rows)'
       /\ \A p \in 0 .. n - 1 : entries'[p] = IF p = dest THEN g ELSE entries[p]
  <2>1. UNCHANGED <<stage, area, capacity, bits, num_overflow>> /\ stage = "place" /\ idx <= Len(buf)
    BY <1>1
  <2>2. QED
    BY <1>1, <1>5, <1>7, <1>8, <1>9, <2>1, StoreKeeps
<1>12. \A p \in 0 .. NumMain - 1 : p \in 0 .. n - 1 /\ p # dest /\ p \in Int /\ entries'[p] = entries[p]
  <2>1. \A p \in 0 .. NumMain - 1 : p \in 0 .. n - 1 /\ p # dest /\ p \in Int
    BY <1>2, <1>8
  <2>2. QED
    BY <1>11, <2>1
<1>13. /\ NumMain' = NumMain /\ OverflowRows(rows)' = OverflowRows(rows)
       /\ \A p : ChainBegin(rows, p)' = ChainBegin(rows, p) /\ ChainEnd(rows, p)' = ChainEnd(rows, p)
  BY <1>1, <1>11, <1>12, SameParts
<1>14. \A r : NumFilledSlotsBefore(SlotOf(r))' = NumFilledSlotsBefore(SlotOf(r))
  BY <1>1, SameHomes DEF Home
<1>15. /\ \A q \in 0 .. n - 1 : q # dest => entries'[q] = entries[q] /\ NumFilledSlotsBefore(entries[q].slot)' = NumFilledSlotsBefore(entries[q].slot)
       /\ entries'[dest] = g /\ NumFilledSlotsBefore(entries[dest].slot)' = h
  <2>1. ASSUME NEW q \in 0 .. n - 1, q # dest
        PROVE  entries'[q] = entries[q] /\ NumFilledSlotsBefore(entries[q].slot)' = NumFilledSlotsBefore(entries[q].slot)
    <3>1. entries'[q] = entries[q]
      BY <1>11, <2>1
    <3>2. QED
      BY <1>1, <3>1 DEF NumFilledSlotsBefore, PrefixCount
  <2>2. entries'[dest] = g
    BY <1>9, <1>11
  <2>3. entries'[dest].slot = e.slot
    BY <1>5, <2>2
  <2>4. NumFilledSlotsBefore(entries[dest].slot)' = h
    BY <1>0, <1>1, <2>3 DEF NumFilledSlotsBefore, PrefixCount, parent
  <2>5. QED
    BY <2>1, <2>2, <2>4
<1>16. /\ DOMAIN overflow_count = 0 .. NumMain - 1 /\ DOMAIN overflow_count' = 0 .. NumMain - 1
       /\ \A p \in 0 .. NumMain - 1 : overflow_count'[p] = IF p = h THEN dest ELSE overflow_count[p]
  <2>1. DOMAIN overflow_count = 0 .. NumMain - 1
    BY <1>6 DEF OverflowMoves
  <2>2. QED
    BY <1>1, <1>8, <2>1
<1>17. ASSUME NEW p \in 0 .. NumMain' - 1
       PROVE  /\ entries'[p].processed /\ NumFilledSlotsBefore(entries[p].slot)' = p
              /\ IF \E r \in OverflowRows(rows)' : NumFilledSlotsBefore(SlotOf(r))' = p
                 THEN overflow_count'[p] \in ChainBegin(rows, p)' .. ChainEnd(rows, p)'
                 ELSE overflow_count'[p] = NoEntry
  <2>1. p \in 0 .. NumMain - 1
    BY <1>13
  <2>2. /\ entries[p].processed /\ NumFilledSlotsBefore(entries[p].slot) = p
        /\ IF \E r \in OverflowRows(rows) : NumFilledSlotsBefore(SlotOf(r)) = p
           THEN overflow_count[p] \in ChainBegin(rows, p) .. ChainEnd(rows, p)
           ELSE overflow_count[p] = NoEntry
    BY <1>6, <2>1 DEF OverflowMoves
  <2>3. (\E r \in OverflowRows(rows)' : NumFilledSlotsBefore(SlotOf(r))' = p) <=> (\E r \in OverflowRows(rows) : NumFilledSlotsBefore(SlotOf(r)) = p)
    BY <1>13, <1>14
  <2>4. entries'[p].processed /\ NumFilledSlotsBefore(entries[p].slot)' = p
    BY <1>12, <1>15, <2>1, <2>2
  <2>5. CASE p # h
    BY <1>13, <1>16, <2>1, <2>2, <2>3, <2>4, <2>5
  <2>6. CASE p = h
    <3>1. \E r \in OverflowRows(rows) : NumFilledSlotsBefore(SlotOf(r)) = p
      BY <1>4, <1>8, <2>6 DEF Home
    <3>2. overflow_count'[p] = dest
      BY <1>16, <2>1, <2>6
    <3>3. dest \in ChainBegin(rows, p) .. ChainEnd(rows, p)
      BY <1>9, <1>10, <2>6
    <3>4. QED
      BY <1>13, <2>3, <2>4, <3>1, <3>2, <3>3
  <2>7. QED
    BY <2>5, <2>6
<1>18. ASSUME NEW q \in NumMain' .. n - 1
       PROVE  /\ entries'[q].buffered => q < read_idx'
              /\ q < read_idx' => entries'[q].processed \/ entries'[q].buffered
              /\ (LET p == NumFilledSlotsBefore(entries[q].slot)
                  IN  entries[q].processed => overflow_count[p] <= q /\ q < ChainEnd(rows, p) /\ overflow_count[p] # NoEntry)'
  <2>1. q \in NumMain .. n - 1 /\ q \in 0 .. n - 1
    BY <1>2, <1>13
  <2>2. CASE q = dest
    <3>1. entries'[q].processed /\ entries'[q].buffered = FALSE /\ NumFilledSlotsBefore(entries[q].slot)' = h
      BY <1>5, <1>7, <1>15, <2>2
    <3>2. overflow_count'[h] = dest
      BY <1>8, <1>16
    <3>3. overflow_count'[h] <= q /\ q < ChainEnd(rows, h)' /\ overflow_count'[h] # NoEntry
      BY <1>9, <1>10, <1>13, <2>2, <3>2
    <3> DEFINE k == NumFilledSlotsBefore(entries[q].slot)
    <3>4. k' = h /\ NoEntry' = NoEntry
      BY <3>1 DEF NoEntry
    <3>5. (overflow_count[k] <= q /\ q < ChainEnd(rows, k) /\ overflow_count[k] # NoEntry)'
      BY <3>3, <3>4
    <3>6. QED
      BY <3>1, <3>5
  <2>3. CASE q # dest
    <3> DEFINE k == NumFilledSlotsBefore(entries[q].slot)
    <3>1. entries'[q] = entries[q] /\ k' = k
      BY <1>15, <2>1, <2>3
    <3>2. /\ entries[q].buffered => q < read_idx
          /\ q < read_idx => entries[q].processed \/ entries[q].buffered
          /\ entries[q].processed => overflow_count[k] <= q /\ q < ChainEnd(rows, k) /\ overflow_count[k] # NoEntry
      BY <1>6, <2>1 DEF OverflowMoves
    <3>3. k \in 0 .. NumMain - 1 /\ NoEntry' = NoEntry
      BY <2>1, EntryHomes DEF NoEntry
    <3>4. PICK m : m = k
      OBVIOUS
    <3> HIDE DEF k
    <3>5. overflow_count'[m] = IF m = h THEN dest ELSE overflow_count[m]
      BY <1>16, <3>3, <3>4
    <3>6. overflow_count[m] <= q => overflow_count'[m] <= q
      <4>1. m = h => overflow_count[m] = dest + 1
        BY <1>10
      <4>2. q \in Int /\ (dest + 1 <= q => dest <= q)
        BY <1>9, <2>1
      <4>3. QED
        BY <3>5, <4>1, <4>2
    <3>7. entries[q].processed => overflow_count'[m] <= q /\ q < ChainEnd(rows, m) /\ overflow_count'[m] # NoEntry
      BY <1>10, <3>2, <3>4, <3>5, <3>6
    <3>8. ChainEnd(rows, m)' = ChainEnd(rows, m) /\ k' = m
      BY <1>13, <3>1, <3>4
    <3>9. (entries[q].processed => overflow_count[k] <= q /\ q < ChainEnd(rows, k) /\ overflow_count[k] # NoEntry)'
      BY <3>1, <3>3, <3>7, <3>8
    <3>10. QED
      BY <1>1, <3>1, <3>2, <3>9 DEF k
  <2>4. QED
    BY <2>2, <2>3
<1>19. ASSUME NEW p \in 0 .. NumMain' - 1, NEW q \in NumMain' .. n - 1,
              overflow_count'[p] # NoEntry, overflow_count'[p] <= q, q < ChainEnd(rows, p)'
       PROVE  entries'[q].processed /\ NumFilledSlotsBefore(entries[q].slot)' = p
  <2>1. p \in 0 .. NumMain - 1 /\ q \in NumMain .. n - 1 /\ q \in 0 .. n - 1 /\ q \in Int /\ p \in Int
    BY <1>2, <1>13
  <2>2. q < ChainEnd(rows, p) /\ overflow_count'[p] = IF p = h THEN dest ELSE overflow_count[p]
    BY <1>13, <1>16, <1>19, <2>1
  <2>3. CASE q = dest /\ p = h
    BY <1>5, <1>15, <2>3
  <2>4. CASE q # dest
    <3>1. overflow_count[p] # NoEntry /\ overflow_count[p] <= q
      <4>1. CASE p = h
        <5>1. dest <= q /\ overflow_count[p] = dest + 1
          BY <1>10, <1>19, <2>2, <4>1
        <5>2. QED
          BY <1>8, <1>9, <2>1, <2>4, <4>1, <5>1 DEF NoEntry
      <4>2. CASE p # h
        BY <1>19, <2>2, <4>2
      <4>3. QED
        BY <4>1, <4>2
    <3>2. entries[q].processed /\ NumFilledSlotsBefore(entries[q].slot) = p
      BY <1>6, <2>1, <2>2, <3>1 DEF OverflowMoves
    <3>3. QED
      BY <1>15, <2>1, <2>4, <3>2
  <2>5. CASE q = dest /\ p # h
    <3>1. overflow_count[p] # NoEntry /\ overflow_count[p] <= dest /\ dest < ChainEnd(rows, p)
      BY <1>19, <2>2, <2>5
    <3>2. entries[dest].processed
      BY <1>6, <1>8, <2>1, <3>1 DEF OverflowMoves
    <3>3. QED
      BY <1>8, <3>2
  <2>6. QED
    BY <2>3, <2>4, <2>5
<1>20. read_idx' \in NumMain' .. n /\ DOMAIN overflow_count' = 0 .. NumMain' - 1
  BY <1>1, <1>6, <1>13, <1>16 DEF OverflowMoves
<1>21. OverflowMoves(rows)'
  BY <1>17, <1>18, <1>19, <1>20, Zenon DEF OverflowMoves
<1>22. area' # "main" /\ stage' # "insert" /\ stage' # "built" /\ stage' \in {"idle", "insert", "fill", "place", "built"}
  BY <1>1
<1>23. QED
  BY <1>11, <1>21, <1>22, Zenon DEF ConciseInv

(* The chains are linked: nothing is moved any more. *)
LEMMA OverflowReorderedKeeps ==
  ASSUME NEW rows, RowsRight(rows), Reordering(rows), Moves(rows), OverflowReordered
  PROVE  ConciseInv(rows)'
<1>1. /\ stage = "fill" /\ stage' = "built" /\ area = "overflow" /\ buf = <<>> /\ ~CanFill /\ next' = ChainHookup
      /\ UNCHANGED <<area, capacity, bits, num_overflow, overflow_count, entries, buf>>
      /\ UNCHANGED <<read_idx, overflow_idx, idx, buf_write_idx>>
  BY Zenon DEF OverflowReordered, cursors
<1>2. OverflowMoves(rows)
  BY <1>1 DEF Moves
<1>3. read_idx = Len(rows)
  <2>1. Len(rows) \in Nat /\ NumEntries = Len(rows)
    BY Sizes
  <2>2. ~(read_idx < EndReadIdx)
    BY <1>1, MaxBufferedAssumption DEF CanFill
  <2>3. EndReadIdx = Len(rows)
    BY <1>1, <2>1 DEF EndReadIdx
  <2>4. read_idx \in NumMain .. Len(rows) /\ NumMain \in 0 .. Len(rows)
    BY <1>2, Sizes DEF OverflowMoves
  <2>5. QED
    BY <2>1, <2>2, <2>3, <2>4
<1>4. Reordering(rows)'
  <2>1. stage' # "fill"
    BY <1>1
  <2>2. LivePlaces' = LivePlaces /\ LiveBuffered' = LiveBuffered
    BY <1>1 DEF LivePlaces, LiveBuffered
  <2>3. EachOnce(rows)'
    BY <1>1, <2>2 DEF Reordering, EachOnce
  <2>4. bits' = {SlotOf(r)' : r \in Range(rows)}
    BY <1>1 DEF Reordering, SlotOf
  <2>5. QED
    BY <1>1, <2>1, <2>2, <2>3, <2>4 DEF Reordering, SlotOf
<1>5. NumMain' = NumMain
  BY <1>1 DEF NumMain, NumEntries
<1>9. OverflowMoves(rows)'
  BY <1>1, SameMoves DEF Moves
<1>10. next' = ChainHookup'
  BY <1>1, <1>5 DEF ChainHookup, NumEntries
<1>11. BuiltRight(rows)'
  BY <1>1, <1>3, <1>4, <1>9, <1>10 DEF BuiltRight
<1>12. stage' = "built"
  BY <1>1
<1>13. QED
  BY <1>11, <1>12 DEF ConciseInv

(* The places a chain leads to, from its links. *)
LEMMA WalkIs ==
  ASSUME NEW P, NEW w \in Seq(P), NEW n \in Nat, NumEntries = n,
         Len(w) # 0, Len(w) <= n + 1,
         \A i \in 1 .. Len(w) - 1 : next[w[i]] = w[i + 1] /\ w[i + 1] # NoEntry,
         next[w[Len(w)]] = NoEntry
  PROVE  Walk(w[1]) = w
<1> DEFINE l == Len(w)
           p == w[1]
           F(g) == [m \in 0 .. NumEntries |->
                      IF m = 0 THEN <<p>>
                      ELSE LET v == g[m - 1]
                           IN  IF next[v[Len(v)]] = NoEntry THEN v ELSE Append(v, next[v[Len(v)]])]
           c == CHOOSE g : g = F(g)
           K(m) == IF m + 1 <= l THEN m + 1 ELSE l
           S(m) == SubSeq(w, 1, K(m))
           f == [m \in 0 .. n |-> S(m)]
<1>1. /\ l \in Nat \ {0} /\ DOMAIN w = 1 .. l /\ l <= n + 1 /\ Len(w) = l /\ next[w[l]] = NoEntry
      /\ \A i \in 1 .. l - 1 : next[w[i]] = w[i + 1] /\ w[i + 1] # NoEntry
  OBVIOUS
<1> HIDE DEF l
<1>2. S(0) = <<p>>
  <2>1. K(0) = 1
    BY <1>1
  <2>2. SubSeq(w, 1, 1) = <<w[1]>>
    <3>1. 1 \in 1 .. Len(w)
      BY <1>1
    <3> DEFINE u == SubSeq(w, 1, 1)
               v == <<w[1]>>
    <3>2. u \in Seq(P) /\ Len(u) = 1 /\ u[1] = w[1]
      BY <3>1
    <3>3. v \in Seq(P) /\ Len(v) = 1 /\ v[1] = w[1]
      BY <3>1
    <3> HIDE DEF u, v
    <3>4. \A i \in 1 .. 1 : u[i] = v[i]
      BY <3>2, <3>3
    <3>5. u = v
      BY <3>2, <3>3, <3>4, SeqEqual
    <3>6. QED
      BY <3>5 DEF u, v
  <2> HIDE DEF K
  <2>3. QED
    BY <2>1, <2>2
<1>3. ASSUME NEW m \in 1 .. n
      PROVE  S(m) = LET v == S(m - 1) IN IF next[v[Len(v)]] = NoEntry THEN v ELSE Append(v, next[v[Len(v)]])
  <2>1. CASE m + 1 <= l
    <3> DEFINE v == SubSeq(w, 1, m)
    <3>0. K(m - 1) = m /\ K(m) = m + 1
      BY <1>1, <2>1
    <3> HIDE DEF K
    <3>1. S(m - 1) = v /\ S(m) = SubSeq(w, 1, m + 1)
      BY <3>0
    <3>2. v \in Seq(P) /\ Len(v) = m /\ \A i \in 1 .. m : v[i] = w[i]
      BY <1>1, <2>1
    <3>3. v[Len(v)] = w[m] /\ m \in 1 .. l - 1
      BY <1>1, <2>1, <3>2
    <3>4. next[v[Len(v)]] = w[m + 1] /\ w[m + 1] # NoEntry
      BY <1>1, <3>3
    <3>5. Append(v, w[m + 1]) = SubSeq(w, 1, m + 1)
      BY <1>1, <2>1
    <3> HIDE DEF v, S
    <3>6. QED
      BY <3>1, <3>4, <3>5
  <2>2. CASE ~(m + 1 <= l)
    <3>0. K(m - 1) = l /\ K(m) = l
      BY <1>1, <2>2
    <3> HIDE DEF K
    <3>1. S(m - 1) = SubSeq(w, 1, l) /\ S(m) = SubSeq(w, 1, l)
      BY <3>0
    <3>2. SubSeq(w, 1, l) = w
      BY <1>1
    <3> HIDE DEF S
    <3>3. QED
      BY <1>1, <3>1, <3>2
  <2>3. QED
    BY <2>1, <2>2
<1>4. \A m \in 0 .. n : f[m] = S(m)
  OBVIOUS
<1>5. S(n) = w
  <2>1. K(n) = l
    BY <1>1
  <2>2. SubSeq(w, 1, l) = w
    BY <1>1
  <2> HIDE DEF K
  <2>3. QED
    BY <2>1, <2>2
<1> HIDE DEF S
<1>6. f = F(f)
  <2>1. ASSUME NEW m \in 0 .. n
        PROVE  S(m) = IF m = 0 THEN <<p>>
                      ELSE LET v == f[m - 1]
                           IN  IF next[v[Len(v)]] = NoEntry THEN v ELSE Append(v, next[v[Len(v)]])
    <3>1. CASE m = 0
      BY <1>2, <3>1
    <3>2. CASE m # 0
      <4>1. m \in 1 .. n /\ m - 1 \in 0 .. n
        BY <3>2
      <4>2. f[m - 1] = S(m - 1)
        BY <4>1
      <4> HIDE DEF f
      <4>3. QED
        BY <1>3, <3>2, <4>1, <4>2
    <3>3. QED
      BY <3>1, <3>2
  <2>2. QED
    BY <2>1
<1> HIDE DEF f
<1>7. c = F(c)
  BY <1>6, Zenon
<1>8. Walk(p) = c[NumEntries]
  BY DEF Walk
<1> HIDE DEF c
<1> DEFINE d == F(c)
<1>9. d[0] = <<p>> /\ \A m \in 1 .. n : d[m] = LET v == c[m - 1] IN IF next[v[Len(v)]] = NoEntry THEN v ELSE Append(v, next[v[Len(v)]])
  OBVIOUS
<1>10. c = d
  BY <1>7
<1> HIDE DEF d, p
<1>11. c[0] = S(0) /\ \A m \in 0 .. n - 1 : c[m] = S(m) => c[m + 1] = S(m + 1)
  <2>1. ASSUME NEW m \in 0 .. n - 1, c[m] = S(m) PROVE c[m + 1] = S(m + 1)
    <3>1. m + 1 \in 1 .. n /\ (m + 1) - 1 = m
      OBVIOUS
    <3>2. d[m + 1] = LET v == c[m] IN IF next[v[Len(v)]] = NoEntry THEN v ELSE Append(v, next[v[Len(v)]])
      BY <1>9, <3>1
    <3>3. S(m + 1) = LET v == S(m) IN IF next[v[Len(v)]] = NoEntry THEN v ELSE Append(v, next[v[Len(v)]])
      BY <1>3, <3>1
    <3>4. QED
      BY <1>10, <2>1, <3>2, <3>3
  <2>2. QED
    BY <1>2, <1>9, <1>10, <2>1
<1> DEFINE Q == {m \in 0 .. n : c[m] = S(m)}
<1>12. 0 .. n \subseteq Q
  <2>1. 0 \in Q /\ \A m \in 0 .. n - 1 : m \in Q => m + 1 \in Q
    BY <1>11
  <2> HIDE DEF Q
  <2>2. QED
    BY <2>1, UpTo
<1>13. c[n] = S(n)
  BY <1>12
<1>14. QED
  BY <1>5, <1>8, <1>13 DEF p

(* Where the overflow entries of main entry p are, and how they are linked. *)
LEMMA ChainPlaces ==
  ASSUME NEW rows, RowsRight(rows), BuiltRight(rows), NEW p \in 0 .. NumMain - 1
  PROVE  \/ /\ next[p] = NoEntry
            /\ \A q \in NumMain .. Len(rows) - 1 : Home(entries[q].row) # p
         \/ \E b \in NumMain .. Len(rows) - 1, e \in Nat :
              /\ b < e /\ e <= Len(rows) /\ next[p] = b
              /\ \A q \in NumMain .. Len(rows) - 1 : Home(entries[q].row) = p <=> b <= q /\ q < e
              /\ \A q \in NumMain .. Len(rows) - 1 : b <= q /\ q < e => next[q] = IF q + 1 < e THEN q + 1 ELSE NoEntry
<1> DEFINE n == Len(rows)
           b == overflow_count[p]
           e == ChainEnd(rows, p)
           T == NumMain .. n - 1
<1>1. Reordering(rows) /\ OverflowMoves(rows) /\ buf = <<>> /\ read_idx = n /\ next = ChainHookup
  BY DEF BuiltRight
<1>2. n \in Nat /\ NumEntries = n /\ NumMain \in 0 .. n /\ DOMAIN entries = 0 .. n - 1
  BY <1>1, Sizes
<1>3. \A q \in T : q \in 0 .. n - 1 /\ q \in Int /\ ~(q < NumMain) /\ q < n
  BY <1>2
<1>4. p \in Int /\ p \in 0 .. n - 1 /\ p < NumMain
  BY <1>2
<1>5. /\ next[p] = b
      /\ \A q \in T : next[q] = IF q < n - 1 /\ entries[q].slot = entries[q + 1].slot THEN q + 1 ELSE NoEntry
  BY <1>1, <1>2, <1>3, <1>4 DEF ChainHookup
<1>6. \A q \in 0 .. n - 1 : /\ entries[q].row \in Range(rows) /\ entries[q].slot = SlotOf(entries[q].row)
                            /\ NumFilledSlotsBefore(entries[q].slot) = Home(entries[q].row)
  BY <1>1, EntryHomes DEF Reordering
<1>7. \A q \in T : entries[q].processed
  <2>1. \A q \in 0 .. n - 1 : ~entries[q].buffered
    BY <1>1, AllLive
  <2>2. QED
    BY <1>1, <1>3, <2>1 DEF OverflowMoves
<1>8. \A q \in T : Home(entries[q].row) = p => b <= q /\ q < e /\ b # NoEntry
  <2>1. ASSUME NEW q \in T, Home(entries[q].row) = p PROVE b <= q /\ q < e /\ b # NoEntry
    <3>1. NumFilledSlotsBefore(entries[q].slot) = p
      BY <1>3, <1>6, <2>1
    <3>2. QED
      BY <1>1, <1>7, <3>1 DEF OverflowMoves
  <2>2. QED
    BY <2>1
<1>9. \A q \in T : b # NoEntry /\ b <= q /\ q < e => Home(entries[q].row) = p
  BY <1>1, <1>3, <1>6 DEF OverflowMoves
<1>10. CASE \A q \in T : Home(entries[q].row) # p
  <2>1. \A x \in OverflowRows(rows) : \E q \in T : entries[q].row = x
    BY <1>1, OverflowPlaces DEF OverflowMoves
  <2>2. ~ \E r \in OverflowRows(rows) : NumFilledSlotsBefore(SlotOf(r)) = p
    BY <1>10, <2>1 DEF Home
  <2>3. b = NoEntry
    BY <1>1, <2>2 DEF OverflowMoves
  <2>4. QED
    BY <1>5, <1>10, <2>3
<1>11. CASE \E q \in T : Home(entries[q].row) = p
  <2>1. PICK a \in T : Home(entries[a].row) = p
    BY <1>11
  <2>2. b <= a /\ a < e /\ b # NoEntry
    BY <1>8, <2>1
  <2>3. entries[a].row \in OverflowRows(rows) /\ Cardinality(OverflowRows(rows)) = n - NumMain
    BY <1>1, <2>1, OverflowPlaces, OverflowSize DEF OverflowMoves
  <2>4. b \in ChainBegin(rows, p) .. e
    BY <1>1, <2>1, <2>3 DEF OverflowMoves, Home
  <2>5. e \in Nat /\ ChainBegin(rows, p) \in Nat /\ NumMain <= ChainBegin(rows, p) /\ e <= n
    <3>1. /\ e \in Nat /\ ChainBegin(rows, p) \in Nat /\ NumMain <= ChainBegin(rows, p)
          /\ e <= NumMain + Cardinality(OverflowRows(rows))
      BY <1>1, <1>4, Parts
    <3>2. QED
      BY <1>2, <2>3, <3>1
  <2>6. b \in T /\ b < e /\ b \in Int
    BY <1>2, <1>3, <2>1, <2>2, <2>4, <2>5
  <2>7. \A q \in T : Home(entries[q].row) = p <=> b <= q /\ q < e
    BY <1>8, <1>9, <2>2
  <2> HIDE DEF b, e
  <2>8. ASSUME NEW q \in T, b <= q, q < e PROVE next[q] = IF q + 1 < e THEN q + 1 ELSE NoEntry
    <3>1. Home(entries[q].row) = p /\ q \in 0 .. n - 1
      BY <1>3, <2>7, <2>8
    <3>2. CASE q + 1 < e
      <4>1. q + 1 \in T /\ q < n - 1 /\ b <= q + 1 /\ q + 1 \in 0 .. n - 1
        BY <1>2, <1>3, <2>5, <2>6, <2>8, <3>2
      <4>2. Home(entries[q + 1].row) = p
        BY <2>7, <3>2, <4>1
      <4>3. SlotOf(entries[q].row) = SlotOf(entries[q + 1].row)
        BY <1>1, <1>6, <3>1, <4>1, <4>2, Homes
      <4>4. entries[q].slot = entries[q + 1].slot
        BY <1>6, <3>1, <4>1, <4>3
      <4>5. QED
        BY <1>5, <3>2, <4>1, <4>4
    <3>3. CASE ~(q + 1 < e)
      <4>1. ASSUME q < n - 1, entries[q].slot = entries[q + 1].slot PROVE FALSE
        <5>1. q + 1 \in T /\ q + 1 \in 0 .. n - 1
          BY <1>2, <1>3, <4>1
        <5>2. Home(entries[q + 1].row) = p
          BY <1>6, <3>1, <4>1, <5>1
        <5>3. QED
          BY <2>7, <3>3, <5>1, <5>2
      <4>2. QED
        BY <1>5, <3>3, <4>1
    <3>4. QED
      BY <3>2, <3>3
  <2>9. next[p] = b
    BY <1>5
  <2>10. QED
    BY <2>5, <2>6, <2>7, <2>8, <2>9
<1>12. QED
  BY <1>10, <1>11

(* A walk from main entry p visits the entries of its slot, each once. *)
LEMMA WalkExact ==
  ASSUME NEW rows, RowsRight(rows), BuiltRight(rows), NEW p \in 0 .. NumMain - 1
  PROVE  /\ Walk(p) \in Seq(0 .. Len(rows) - 1) /\ IsInjective(Walk(p))
         /\ \A q \in 0 .. Len(rows) - 1 : Home(entries[q].row) = p => q \in Range(Walk(p))
<1> DEFINE n == Len(rows)
           P == 0 .. n - 1
           T == NumMain .. n - 1
<1>1. Reordering(rows) /\ OverflowMoves(rows)
  BY DEF BuiltRight
<1>2. n \in Nat /\ NumEntries = n /\ NumMain \in 0 .. n
  BY <1>1, Sizes
<1>3. p \in P /\ p \in Int /\ 1 <= n /\ p < NumMain
  BY <1>2
<1>4. ASSUME NEW q \in P, Home(entries[q].row) = p PROVE q = p \/ q \in T
  <2>1. CASE q < NumMain
    <3>1. q \in 0 .. NumMain - 1
      BY <1>2, <2>1
    <3>2. NumFilledSlotsBefore(entries[q].slot) = q
      BY <1>1, <3>1 DEF OverflowMoves
    <3>3. QED
      BY <1>1, <1>4, <3>2, EntryHomes
  <2>2. CASE ~(q < NumMain)
    BY <1>2, <2>2
  <2>3. QED
    BY <2>1, <2>2
<1>5. CASE next[p] = NoEntry /\ \A q \in T : Home(entries[q].row) # p
  <2> DEFINE w == <<p>>
  <2>1. w \in Seq(P) /\ Len(w) = 1 /\ w[1] = p /\ DOMAIN w = 1 .. 1
    BY <1>3
  <2> HIDE DEF w
  <2>2. /\ Len(w) # 0 /\ Len(w) <= n + 1 /\ next[w[Len(w)]] = NoEntry
        /\ \A i \in 1 .. Len(w) - 1 : next[w[i]] = w[i + 1] /\ w[i + 1] # NoEntry
    BY <1>2, <1>5, <2>1
  <2>3. Walk(p) = w
    BY <1>2, <2>1, <2>2, WalkIs
  <2>4. IsInjective(w) /\ p \in Range(w)
    BY <2>1 DEF IsInjective, Range
  <2>5. QED
    BY <1>4, <1>5, <2>1, <2>3, <2>4
<1>6. ASSUME NEW b \in T, NEW e \in Nat, b < e, e <= n, next[p] = b,
             \A q \in T : Home(entries[q].row) = p <=> b <= q /\ q < e,
             \A q \in T : b <= q /\ q < e => next[q] = IF q + 1 < e THEN q + 1 ELSE NoEntry
      PROVE  /\ Walk(p) \in Seq(P) /\ IsInjective(Walk(p))
             /\ \A q \in P : Home(entries[q].row) = p => q \in Range(Walk(p))
  <2> DEFINE l == e - b + 1
             w == [i \in 1 .. l |-> IF i = 1 THEN p ELSE b + i - 2]
  <2>1. b \in Int /\ NumMain <= b /\ l \in Nat /\ l >= 2 /\ l <= n + 1
    BY <1>2, <1>6
  <2>2. \A i \in 1 .. l : i # 1 => b + i - 2 \in T /\ b <= b + i - 2 /\ b + i - 2 < e
    BY <1>2, <1>6, <2>1
  <2>3. w \in Seq(P) /\ Len(w) = l /\ DOMAIN w = 1 .. l
    <3>1. \A i \in 1 .. l : (IF i = 1 THEN p ELSE b + i - 2) \in P
      BY <1>2, <1>3, <2>2
    <3>2. QED
      BY <2>1, <3>1
  <2>4. \A i \in 1 .. l : w[i] = IF i = 1 THEN p ELSE b + i - 2
    OBVIOUS
  <2> HIDE DEF w
  <2>5. w[1] = p
    BY <2>1, <2>4
  <2>6. \A i \in 1 .. l - 1 : next[w[i]] = w[i + 1] /\ w[i + 1] # NoEntry
    <3>1. ASSUME NEW i \in 1 .. l - 1 PROVE next[w[i]] = w[i + 1] /\ w[i + 1] # NoEntry
      <4>1. i + 1 \in 1 .. l /\ i + 1 # 1 /\ i \in 1 .. l
        BY <2>1
      <4>2. w[i + 1] = b + i - 1 /\ w[i + 1] # NoEntry
        <5>1. w[i + 1] = b + (i + 1) - 2
          BY <2>4, <4>1
        <5>2. b + (i + 1) - 2 = b + i - 1 /\ b + i - 1 >= 0
          BY <1>2, <2>1
        <5>3. QED
          BY <1>2, <2>1, <5>1, <5>2 DEF NoEntry
      <4>3. CASE i = 1
        BY <1>6, <2>1, <2>5, <4>2, <4>3
      <4>4. CASE i # 1
        <5>1. w[i] = b + i - 2 /\ w[i] \in T /\ b <= w[i] /\ w[i] < e
          BY <2>2, <2>4, <4>1, <4>4
        <5>2. w[i] + 1 < e /\ w[i] + 1 = b + i - 1
          BY <1>6, <2>1, <5>1
        <5>3. QED
          BY <1>6, <4>2, <5>1, <5>2
      <4>5. QED
        BY <4>3, <4>4
    <3>2. QED
      BY <3>1
  <2>7. next[w[l]] = NoEntry
    <3>1. l \in 1 .. l /\ l # 1 /\ w[l] = e - 1
      <4>1. l \in 1 .. l /\ l # 1 /\ b + l - 2 = e - 1
        BY <2>1
      <4>2. QED
        BY <2>4, <4>1
    <3>2. w[l] \in T /\ b <= w[l] /\ w[l] < e /\ ~(w[l] + 1 < e)
      BY <1>2, <1>6, <2>1, <3>1
    <3>3. QED
      BY <1>6, <3>2
  <2>8. Len(w) # 0 /\ Len(w) <= n + 1
    BY <2>1, <2>3
  <2>9. Walk(p) = w
    BY <1>2, <2>3, <2>5, <2>6, <2>7, <2>8, WalkIs
  <2>10. IsInjective(w)
    <3>1. ASSUME NEW i \in 1 .. l, NEW j \in 1 .. l, w[i] = w[j] PROVE i = j
      <4>1. w[i] = (IF i = 1 THEN p ELSE b + i - 2) /\ w[j] = IF j = 1 THEN p ELSE b + j - 2
        BY <2>4
      <4>2. p < b /\ b \in Int /\ i \in Int /\ j \in Int /\ i >= 1 /\ j >= 1
        <5>1. NumMain \in Int
          BY <1>2
        <5>2. QED
          BY <1>3, <2>1, <5>1
      <4>3. (IF i = 1 THEN p ELSE b + i - 2) = IF j = 1 THEN p ELSE b + j - 2
        BY <3>1, <4>1
      <4> HIDE DEF l
      <4>4. CASE i = 1
        BY <1>3, <4>2, <4>3, <4>4
      <4>5. CASE i # 1
        BY <1>3, <4>2, <4>3, <4>5
      <4>6. QED
        BY <4>4, <4>5
    <3>2. QED
      BY <2>3, <3>1 DEF IsInjective
  <2>11. ASSUME NEW q \in P, Home(entries[q].row) = p PROVE q \in Range(w)
    <3>1. CASE q = p
      BY <2>1, <2>3, <2>5, <3>1 DEF Range
    <3>2. CASE q \in T
      <4>1. b <= q /\ q < e
        BY <1>6, <2>11, <3>2
      <4>2. q - b + 2 \in 1 .. l /\ q - b + 2 # 1 /\ b + (q - b + 2) - 2 = q
        BY <1>2, <2>1, <4>1
      <4>3. w[q - b + 2] = q
        BY <2>4, <4>2
      <4>4. QED
        BY <2>3, <4>2, <4>3 DEF Range
    <3>3. QED
      BY <1>4, <2>11, <3>1, <3>2
  <2>12. QED
    BY <2>3, <2>9, <2>10, <2>11
<1>7. QED
  BY <1>5, <1>6, ChainPlaces

----------------------------------------------------------------------------
(* The chains *)

(* The chain of a hash: rows of the table, none twice, all that have it. *)
ChainRight(rows, h, chain) ==
  /\ chain \in Seq(Range(rows)) /\ IsInjective(chain)
  /\ \A r \in Range(rows) : r.hash = h => r \in Range(chain)

(* A concise table that is built finds the chain of every hash. *)
LEMMA ConciseRight ==
  ASSUME NEW rows, RowsRight(rows), BuiltRight(rows), NEW h \in Nat
  PROVE  ChainRight(rows, h, LookupConcise(h))
<1> DEFINE n == Len(rows)
           P == 0 .. n - 1
           R == Range(rows)
           slot == h % capacity
           home == NumFilledSlotsBefore(slot)
           walk == Walk(home)
           chain == [i \in 1 .. Len(walk) |-> entries[walk[i]].row]
<1>1. Reordering(rows) /\ buf = <<>>
  BY DEF BuiltRight
<1>2. n \in Nat /\ IsFiniteSet(bits) /\ bits \in SUBSET Nat /\ NumMain = Cardinality(bits) /\ DOMAIN entries = P
  BY <1>1, Sizes
<1>3. \A r \in R : SlotOf(r) \in bits /\ (r.hash = h => SlotOf(r) = slot)
  BY <1>1 DEF Reordering, SlotOf
<1>4. LookupConcise(h) = IF slot \in bits THEN chain ELSE <<>>
  BY DEF LookupConcise
<1>5. CASE slot \notin bits
  <2>1. LookupConcise(h) = <<>> /\ \A r \in R : r.hash # h
    BY <1>3, <1>4, <1>5
  <2>2. IsInjective(<<>>) /\ <<>> \in Seq(R)
    BY DEF IsInjective
  <2>3. QED
    BY <2>1, <2>2 DEF ChainRight
<1>6. CASE slot \in bits
  <2>1. home \in 0 .. NumMain - 1
    <3> HIDE DEF slot
    <3>1. QED
      BY <1>2, <1>6, PlacesApart
  <2>2. walk \in Seq(P) /\ IsInjective(walk) /\ \A q \in P : Home(entries[q].row) = home => q \in Range(walk)
    <3> HIDE DEF home
    <3>1. QED
      BY <2>1, WalkExact
  <2> HIDE DEF walk
  <2>3. DOMAIN walk = 1 .. Len(walk) /\ Len(walk) \in Nat /\ \A i \in 1 .. Len(walk) : walk[i] \in P
    BY <2>2
  <2>4. \A q \in P : entries[q].row \in R
    BY <1>1, EntryHomes
  <2>5. chain \in Seq(R) /\ DOMAIN chain = 1 .. Len(walk) /\ \A i \in 1 .. Len(walk) : chain[i] = entries[walk[i]].row
    BY <2>3, <2>4
  <2> HIDE DEF chain
  <2>6. \A p, q \in P : entries[p].row = entries[q].row => p = q
    <3>1. LivePlaces = P
      BY <1>1, AllLive
    <3>2. QED
      BY <1>1, <3>1 DEF Reordering, EachOnce
  <2>7. IsInjective(chain)
    BY <2>2, <2>3, <2>5, <2>6 DEF IsInjective
  <2>8. ASSUME NEW r \in R, r.hash = h PROVE r \in Range(chain)
    <3>1. LiveBuffered = {} /\ LivePlaces = P
      BY <1>1, AllLive DEF LiveBuffered
    <3>2. PICK q \in P : entries[q].row = r
      BY <1>1, <3>1 DEF Reordering, EachOnce
    <3>3. Home(entries[q].row) = home
      BY <1>3, <2>8, <3>2 DEF Home
    <3>4. q \in Range(walk)
      BY <2>2, <3>3
    <3>5. PICK i \in 1 .. Len(walk) : walk[i] = q
      BY <2>3, <3>4 DEF Range
    <3>6. QED
      BY <2>5, <3>2, <3>5 DEF Range
  <2>9. QED
    BY <1>4, <1>6, <2>5, <2>7, <2>8 DEF ChainRight
<1>7. QED
  BY <1>5, <1>6

(* A row in front of other rows. *)
LEMMA InFront ==
  ASSUME NEW R, NEW r \in R, NEW s \in Seq(R), IsInjective(s), r \notin Range(s)
  PROVE  LET t == <<r>> \o s IN t \in Seq(R) /\ IsInjective(t) /\ Range(t) = Range(s) \cup {r}
<1> DEFINE t == <<r>> \o s
           n == Len(s)
<1>1. n \in Nat /\ DOMAIN s = 1 .. n
  OBVIOUS
<1>2. /\ t \in Seq(R) /\ Len(t) = n + 1 /\ DOMAIN t = 1 .. n + 1
      /\ \A i \in 1 .. n + 1 : t[i] = IF i = 1 THEN r ELSE s[i - 1]
  OBVIOUS
<1> HIDE DEF t
<1>3. \A i \in 1 .. n + 1 : i # 1 => i - 1 \in 1 .. n /\ s[i - 1] # r
  BY <1>1 DEF Range
<1>4. ASSUME NEW i \in 1 .. n + 1, NEW j \in 1 .. n + 1, t[i] = t[j] PROVE i = j
  <2>1. CASE i = 1 \/ j = 1
    BY <1>2, <1>3, <1>4, <2>1
  <2>2. CASE i # 1 /\ j # 1
    <3>1. s[i - 1] = s[j - 1] /\ i - 1 \in 1 .. n /\ j - 1 \in 1 .. n
      BY <1>2, <1>3, <1>4, <2>2
    <3>2. i - 1 = j - 1
      BY <1>1, <3>1 DEF IsInjective
    <3>3. QED
      BY <3>2
  <2>3. QED
    BY <2>1, <2>2
<1>5. IsInjective(t)
  BY <1>2, <1>4 DEF IsInjective
<1>6. ASSUME NEW x PROVE x \in Range(t) <=> x \in Range(s) \cup {r}
  <2>1. ASSUME x \in Range(t) PROVE x \in Range(s) \cup {r}
    <3>1. PICK i \in 1 .. n + 1 : x = t[i]
      BY <1>2, <2>1 DEF Range
    <3>2. QED
      BY <1>1, <1>2, <1>3, <3>1 DEF Range
  <2>2. ASSUME x = r PROVE x \in Range(t)
    <3>1. 1 \in 1 .. n + 1 /\ t[1] = r
      BY <1>1, <1>2
    <3>2. QED
      BY <1>2, <2>2, <3>1 DEF Range
  <2>3. ASSUME x \in Range(s) PROVE x \in Range(t)
    <3>1. PICK i \in 1 .. n : x = s[i]
      BY <1>1, <2>3 DEF Range
    <3>2. i + 1 \in 1 .. n + 1 /\ i + 1 # 1 /\ (i + 1) - 1 = i
      BY <1>1
    <3>3. t[i + 1] = x
      BY <1>2, <3>1, <3>2
    <3>4. QED
      BY <1>2, <3>2, <3>3 DEF Range
  <2>4. QED
    BY <2>1, <2>2, <2>3
<1>7. QED
  BY <1>2, <1>5, <1>6 DEF t

(* The bucket of a hash, entry by entry. *)
LEMMA BucketRun ==
  ASSUME NEW rows, RowsRight(rows), NEW h
  PROVE  \E c : /\ BucketOf(rows, h) = c[Len(rows)]
                /\ c[0] = <<>>
                /\ \A i \in 1 .. Len(rows) :
                     c[i] = IF rows[i].hash % NumBuckets = h % NumBuckets THEN <<rows[i]>> \o c[i - 1] ELSE c[i - 1]
<1> DEFINE n == Len(rows)
           V == Seq(Range(rows))
           In(i) == rows[i].hash % NumBuckets = h % NumBuckets
           H == [i \in 1 .. n |-> [s \in V |-> IF In(i) THEN <<rows[i]>> \o s ELSE s]]
           F(g) == [i \in 0 .. Len(rows) |->
                      IF i = 0 THEN <<>>
                      ELSE IF rows[i].hash % NumBuckets = h % NumBuckets
                      THEN <<rows[i]>> \o g[i - 1] ELSE g[i - 1]]
           c == CHOOSE g : g = F(g)
<1>1. n \in Nat /\ <<>> \in V
  BY DEF RowsRight
<1>2. \A i \in 1 .. n : rows[i] \in Range(rows)
  BY RowAt
<1>3. H \in [1 .. n -> [V -> V]] /\ \A i \in 1 .. n : \A s \in V : H[i][s] = IF In(i) THEN <<rows[i]>> \o s ELSE s
  <2> HIDE DEF In
  <2>1. \A i \in 1 .. n : \A s \in V : <<rows[i]>> \o s \in V
    BY <1>2
  <2>2. QED
    BY <2>1
<1> HIDE DEF H
<1>4. PICK f \in [0 .. n -> V] : Iterates(f, <<>>, H, n)
  <2> HIDE DEF V
  <2>1. QED
    BY <1>1, <1>3, Iteration
<1>5. f = F(f)
  <2>1. f[0] = <<>>
    BY <1>4 DEF Iterates
  <2>2. ASSUME NEW i \in 0 .. n, i # 0
        PROVE  f[i] = IF In(i) THEN <<rows[i]>> \o f[i - 1] ELSE f[i - 1]
    <3>1. i \in 1 .. n /\ i - 1 \in 0 .. n
      BY <1>1, <2>2
    <3>2. f[i - 1] \in V /\ f[i] = H[i][f[i - 1]]
      BY <1>4, <3>1 DEF Iterates
    <3>3. QED
      BY <1>3, <3>1, <3>2
  <2>3. f = [i \in 0 .. n |-> f[i]]
    BY <1>4
  <2>4. QED
    BY <2>1, <2>2, <2>3
<1>6. c = F(c)
  BY <1>5, Zenon
<1>7. BucketOf(rows, h) = c[Len(rows)]
  BY DEF BucketOf
<1> HIDE DEF c
<1>8. c[0] = <<>> /\ \A i \in 1 .. n : c[i] = IF In(i) THEN <<rows[i]>> \o c[i - 1] ELSE c[i - 1]
  <2> DEFINE d == F(c)
  <2>1. d[0] = <<>> /\ \A i \in 1 .. n : d[i] = IF In(i) THEN <<rows[i]>> \o c[i - 1] ELSE c[i - 1]
    BY <1>1
  <2>2. c = d
    BY <1>6
  <2> HIDE DEF d
  <2>3. QED
    BY <2>1, <2>2
<1>9. QED
  BY <1>7, <1>8

(* The bucket of a hash holds the rows that belong there, each once. *)
LEMMA BucketRight ==
  ASSUME NEW rows, RowsRight(rows), NEW h
  PROVE  /\ BucketOf(rows, h) \in Seq(Range(rows)) /\ IsInjective(BucketOf(rows, h))
         /\ \A r \in Range(rows) : r.hash % NumBuckets = h % NumBuckets => r \in Range(BucketOf(rows, h))
<1> DEFINE n == Len(rows)
           R == Range(rows)
           In(i) == rows[i].hash % NumBuckets = h % NumBuckets
           S(i) == {rows[j] : j \in {k \in 1 .. i : In(k)}}
<1>1. n \in Nat /\ DOMAIN rows = 1 .. n /\ \A i, j \in 1 .. n : rows[i] = rows[j] => i = j
  BY DEF RowsRight, IsInjective
<1>2. PICK c : /\ BucketOf(rows, h) = c[n] /\ c[0] = <<>>
               /\ \A i \in 1 .. n : c[i] = IF In(i) THEN <<rows[i]>> \o c[i - 1] ELSE c[i - 1]
  BY BucketRun
<1> DEFINE Q == {i \in 0 .. n : c[i] \in Seq(R) /\ IsInjective(c[i]) /\ Range(c[i]) = S(i)}
<1>3. 0 \in Q
  <2>1. <<>> \in Seq(R) /\ IsInjective(<<>>) /\ Range(<<>>) = {}
    BY DEF IsInjective, Range
  <2>2. S(0) = {}
    <3> HIDE DEF In
    <3>1. QED
      OBVIOUS
  <2> HIDE DEF S
  <2>3. 0 \in 0 .. n /\ c[0] = <<>>
    BY <1>1, <1>2
  <2>4. QED
    BY <2>1, <2>2, <2>3
<1>4. ASSUME NEW i \in 0 .. n - 1, i \in Q PROVE i + 1 \in Q
  <2>1. c[i] \in Seq(R) /\ IsInjective(c[i]) /\ Range(c[i]) = S(i)
    BY <1>4
  <2>2. i + 1 \in 1 .. n /\ i + 1 \in 0 .. n /\ (i + 1) - 1 = i /\ i \in Nat
    BY <1>1
  <2>3. c[i + 1] = IF In(i + 1) THEN <<rows[i + 1]>> \o c[i] ELSE c[i]
    BY <1>2, <2>2
  <2>4. CASE ~In(i + 1)
    <3>1. S(i + 1) = S(i)
      <4> HIDE DEF In
      <4>1. \A k \in 1 .. i + 1 : k \in 1 .. i \/ k = i + 1
        BY <2>2
      <4>2. \A k \in 1 .. i : k \in 1 .. i + 1
        BY <2>2
      <4>3. QED
        BY <2>4, <4>1, <4>2
    <3> HIDE DEF In, S
    <3>2. QED
      BY <2>1, <2>2, <2>3, <2>4, <3>1
  <2>5. CASE In(i + 1)
    <3>1. S(i + 1) = S(i) \cup {rows[i + 1]}
      <4> HIDE DEF In
      <4>1. \A k \in 1 .. i + 1 : k \in 1 .. i \/ k = i + 1
        BY <2>2
      <4>2. i + 1 \in 1 .. i + 1 /\ \A k \in 1 .. i : k \in 1 .. i + 1
        BY <2>2
      <4>3. QED
        BY <2>5, <4>1, <4>2
    <3>2. rows[i + 1] \in R /\ rows[i + 1] \notin S(i)
      <4> HIDE DEF In
      <4>1. \A k \in 1 .. i : k \in 1 .. n /\ k # i + 1
        BY <2>2
      <4>2. QED
        BY <1>1, <2>2, <4>1, RowAt
    <3> HIDE DEF In, S
    <3> DEFINE t == <<rows[i + 1]>> \o c[i]
    <3>3. t \in Seq(R) /\ IsInjective(t) /\ Range(t) = Range(c[i]) \cup {rows[i + 1]}
      <4> HIDE DEF R
      <4>1. QED
        BY <2>1, <3>2, InFront
    <3>4. c[i + 1] = t
      BY <2>3, <2>5
    <3> HIDE DEF t
    <3>5. QED
      BY <2>1, <2>2, <3>1, <3>3, <3>4
  <2>6. QED
    BY <2>4, <2>5
<1> HIDE DEF Q
<1>5. 0 .. n \subseteq Q
  BY <1>1, <1>3, <1>4, UpTo
<1>6. n \in Q
  BY <1>1, <1>5
<1>7. c[n] \in Seq(R) /\ IsInjective(c[n]) /\ Range(c[n]) = S(n)
  BY <1>6 DEF Q
<1>8. \A r \in R : \E i \in 1 .. n : r = rows[i]
  BY <1>1 DEF Range
<1>9. \A r \in R : r.hash % NumBuckets = h % NumBuckets => r \in S(n)
  BY <1>8
<1>10. QED
  BY <1>2, <1>7, <1>9

(* A chaining table finds the chain of every hash. *)
LEMMA ChainingRight ==
  ASSUME NEW rows, RowsRight(rows), NEW h
  PROVE  ChainRight(rows, h, LookupChaining(rows, h))
<1> DEFINE b == BucketOf(rows, h)
<1>1. b \in Seq(Range(rows)) /\ IsInjective(b)
      /\ \A r \in Range(rows) : r.hash % NumBuckets = h % NumBuckets => r \in Range(b)
  BY BucketRight
<1>2. LookupChaining(rows, h) = IF \E r \in Range(b) : TagOf[r.hash] = TagOf[h] THEN b ELSE <<>>
  BY DEF LookupChaining
<1> HIDE DEF b
<1>3. \A r \in Range(rows) : r.hash = h => r \in Range(b)
  BY <1>1
<1>4. CASE \E r \in Range(b) : TagOf[r.hash] = TagOf[h]
  BY <1>1, <1>2, <1>3, <1>4 DEF ChainRight
<1>5. CASE ~ \E r \in Range(b) : TagOf[r.hash] = TagOf[h]
  <2>1. \A r \in Range(rows) : r.hash # h
    BY <1>3, <1>5
  <2>2. IsInjective(<<>>) /\ <<>> \in Seq(Range(rows))
    BY DEF IsInjective
  <2>3. QED
    BY <1>2, <1>5, <2>1, <2>2 DEF ChainRight
<1>6. QED
  BY <1>4, <1>5

----------------------------------------------------------------------------
(* The build *)

(* The tables built so far find the chains of all hashes; the next one is    *)
(* under construction if it is concise and the build of it has begun.       *)
BuildInv ==
  /\ tables \in BuildSides
  /\ chains \in Seq([Hashes -> Seq(UNION {Range(tables[k].rows) : k \in Joins})]) /\ Len(chains) <= NumJoins
  /\ phase = "build" <=> Len(chains) < NumJoins
  /\ \A k \in 1 .. Len(chains) : \A h \in Hashes : ChainRight(tables[k].rows, h, chains[k][h])
  /\ stage # "idle" =>
       phase = "build" /\ tables[Len(chains) + 1].concise /\ ConciseInv(tables[Len(chains) + 1].rows)

(* The rows of every table are different and have a hash. *)
LEMMA TableRows ==
  ASSUME tables \in BuildSides, NEW k \in Joins
  PROVE  RowsRight(tables[k].rows)
<1> DEFINE rows == tables[k].rows
<1>1. /\ rows \in Seq(Range(rows)) /\ IsInjective(rows)
      /\ \A r \in Range(rows) : r.key \in DOMAIN HashOf /\ r.hash = HashOf[r.key]
  BY BuildSidesAssumption
<1>2. QED
  BY <1>1, HashAssumption DEF RowsRight

(* One more table is built. *)
LEMMA TableAdded ==
  ASSUME BuildInv, NEW k \in Joins, Len(chains) = k - 1, NEW f,
         f = [h \in Hashes |-> f[h]], \A h \in Hashes : ChainRight(tables[k].rows, h, f[h]),
         chains' = Append(chains, f), phase' = (IF Len(chains) + 1 = NumJoins THEN "scan" ELSE "build"),
         stage' = "idle", tables' = tables
  PROVE  BuildInv'
<1> DEFINE All == UNION {Range(tables[j].rows) : j \in Joins}
           C == [Hashes -> Seq(All)]
           n == Len(chains)
<1>1. chains \in Seq(C) /\ n \in Nat /\ k = n + 1 /\ k <= NumJoins /\ NumJoins \in Nat
  <2>1. chains \in Seq(C)
    BY DEF BuildInv
  <2>2. QED
    BY <2>1, JoinsAssumption DEF Joins
<1>2. f \in C
  <2>1. \A h \in Hashes : f[h] \in Seq(All)
    <3>1. ASSUME NEW h \in Hashes PROVE f[h] \in Seq(All)
      <4>1. f[h] \in Seq(Range(tables[k].rows)) /\ Range(tables[k].rows) \subseteq All
        BY DEF ChainRight
      <4> HIDE DEF All
      <4>2. QED
        BY <4>1
    <3>2. QED
      BY <3>1
  <2> HIDE DEF All
  <2>2. QED
    BY <2>1
<1> HIDE DEF C
<1>3. /\ chains' \in Seq(C) /\ Len(chains') = k /\ chains'[k] = f
      /\ \A j \in 1 .. n : chains'[j] = chains[j]
  BY <1>1, <1>2
<1>4. ASSUME NEW j \in 1 .. k, NEW h \in Hashes PROVE ChainRight(tables[j].rows, h, chains'[j][h])
  <2>1. CASE j = k
    BY <1>3, <2>1
  <2>2. CASE j # k
    <3>1. j \in 1 .. n
      BY <1>1, <2>2
    <3>2. QED
      BY <1>3, <3>1 DEF BuildInv
  <2>3. QED
    BY <2>1, <2>2
<1>5. phase' = "build" <=> Len(chains') < NumJoins
  BY <1>1, <1>3
<1>6. chains' \in Seq(C)' /\ Len(chains') <= NumJoins
  BY <1>1, <1>3 DEF C
<1>7. QED
  <2>1. \A j \in 1 .. Len(chains') : \A h \in Hashes : ChainRight(tables'[j].rows, h, chains'[j][h])
    BY <1>3, <1>4
  <2>2. tables' \in BuildSides
    BY DEF BuildInv
  <2>3. QED
    BY <1>5, <1>6, <2>1, <2>2 DEF BuildInv, C, ChainRight

(* Every step of the build of a concise table keeps it right. *)
LEMMA ConciseKept ==
  ASSUME NEW rows, RowsRight(rows), ConciseInv(rows), BuildStep
  PROVE  ConciseInv(rows)'
<1>1. stage = "insert" => Inserting(rows)
  BY DEF ConciseInv
<1>2. stage \in {"fill", "place"} => Reordering(rows) /\ Moves(rows)
  BY DEF ConciseInv, Moves
<1>3. CASE Insert
  BY <1>1, <1>3, InsertKeeps DEF Insert
<1>4. CASE Inserted
  BY <1>1, <1>4, InsertedKeeps DEF Inserted
<1>5. CASE Fill
  <2>1. stage = "fill"
    BY <1>5 DEF Fill
  <2>2. QED
    BY <1>2, <1>5, <2>1, FillKeeps
<1>6. CASE Filled
  <2>1. stage = "fill"
    BY <1>6 DEF Filled
  <2>2. QED
    BY <1>2, <1>6, <2>1, FilledKeeps
<1>7. CASE PlaceMain
  <2>1. stage = "place"
    BY <1>7, Zenon DEF PlaceMain
  <2>2. QED
    BY <1>2, <1>7, <2>1, PlaceMainKeeps
<1>8. CASE PlaceOverflow
  <2>1. stage = "place"
    BY <1>8, Zenon DEF PlaceOverflow
  <2>2. QED
    BY <1>2, <1>8, <2>1, PlaceOverflowKeeps
<1>9. CASE Placed
  <2>1. stage = "place"
    BY <1>9 DEF Placed
  <2>2. QED
    BY <1>2, <1>9, <2>1, PlacedKeeps
<1>10. CASE MainReordered
  <2>1. stage = "fill"
    BY <1>10 DEF MainReordered
  <2>2. QED
    BY <1>2, <1>10, <2>1, MainReorderedKeeps
<1>11. CASE OverflowReordered
  <2>1. stage = "fill"
    BY <1>11 DEF OverflowReordered
  <2>2. QED
    BY <1>2, <1>11, <2>1, OverflowReorderedKeeps
<1>12. QED
  BY <1>3, <1>4, <1>5, <1>6, <1>7, <1>8, <1>9, <1>10, <1>11, Zenon DEF BuildStep

(* What is known of a concise table depends on nothing else. *)
LEMMA SameConcise ==
  ASSUME NEW rows, ConciseInv(rows), UNCHANGED concise
  PROVE  ConciseInv(rows)'
<1>1. UNCHANGED <<stage, area, capacity, bits, num_overflow, entries, overflow_count, next, buf, read_idx,
                  overflow_idx, idx, buf_write_idx>>
  BY DEF concise, table, cursors
<1>2. LivePlaces' = LivePlaces /\ LiveBuffered' = LiveBuffered /\ NumMain' = NumMain /\ NumEntries' = NumEntries
  BY <1>1 DEF LivePlaces, LiveBuffered, NumMain, NumEntries
<1>3. \A r : SlotOf(r)' = SlotOf(r)
  BY <1>1 DEF SlotOf
<1>4. ASSUME Inserting(rows) PROVE Inserting(rows)'
  BY <1>1, <1>3, <1>4 DEF Inserting
<1>5. ASSUME Reordering(rows) PROVE Reordering(rows)'
  <2>1. EachOnce(rows)'
    BY <1>1, <1>2, <1>5 DEF Reordering, EachOnce
  <2>2. bits' = {SlotOf(r)' : r \in Range(rows)}
    BY <1>1, <1>5 DEF Reordering, SlotOf
  <2>3. QED
    BY <1>1, <1>2, <1>5, <2>1, <2>2 DEF Reordering, SlotOf
<1>6. ASSUME Moves(rows) PROVE Moves(rows)'
  BY <1>1, <1>6, SameMoves
<1>7. ChainHookup' = ChainHookup
  BY <1>1, <1>2 DEF ChainHookup
<1>8. ASSUME BuiltRight(rows) PROVE BuiltRight(rows)'
  BY <1>1, <1>5, <1>6, <1>7, <1>8 DEF BuiltRight, Moves
<1>9. stage \in {"fill", "place"} => Moves(rows)
  BY DEF ConciseInv, Moves
<1>10. stage \in {"fill", "place"} => Moves(rows)'
  BY <1>6, <1>9
<1>11. QED
  BY <1>1, <1>4, <1>5, <1>8, <1>10 DEF ConciseInv, Moves

(* What the build knows is not changed by what does not change the tables. *)
LEMMA SameBuild ==
  ASSUME BuildInv, UNCHANGED <<concise, tables, chains>>, phase' = "build" <=> phase = "build"
  PROVE  BuildInv'
<1>1. CASE stage = "idle"
  BY <1>1 DEF BuildInv, concise
<1>2. CASE stage # "idle"
  <2> DEFINE rows == tables[Len(chains) + 1].rows
  <2>1. ConciseInv(rows)
    BY <1>2 DEF BuildInv
  <2>2. PICK r : r = rows
    OBVIOUS
  <2>3. ConciseInv(r)'
    BY <2>1, <2>2, SameConcise
  <2>4. rows' = r
    BY <2>2
  <2>5. ConciseInv(rows)'
    BY <2>3, <2>4
  <2>6. QED
    BY <2>5 DEF BuildInv, concise
<1>3. QED
  BY <1>1, <1>2

(* Every step keeps the tables and their chains right. *)
LEMMA BuildKept ==
  ASSUME BuildInv, [Next]_vars
  PROVE  BuildInv'
<1>1. ASSUME UNCHANGED <<concise, tables, chains>>, phase # "build", phase' # "build" PROVE BuildInv'
  BY <1>1, SameBuild
<1>2. ASSUME NEW k \in Joins, BuildChainingTable(k) PROVE BuildInv'
  <2> DEFINE f == [h \in Hashes |-> LookupChaining(tables[k].rows, h)]
  <2>1. /\ phase = "build" /\ Len(chains) = k - 1 /\ ~tables[k].concise /\ UNCHANGED concise
        /\ chains' = Append(chains, f) /\ tables' = tables
        /\ phase' = IF Len(chains) + 1 = NumJoins THEN "scan" ELSE "build"
    BY <1>2 DEF BuildChainingTable, TableBuilt
  <2>2. \A h \in Hashes : ChainRight(tables[k].rows, h, f[h])
    BY TableRows, ChainingRight DEF BuildInv
  <2>3. f = [h \in Hashes |-> f[h]]
    OBVIOUS
  <2>4. stage' = "idle"
    <3>1. k - 1 + 1 = k /\ stage' = stage
      BY <2>1 DEF Joins, concise
    <3>2. QED
      BY <2>1, <3>1 DEF BuildInv
  <2> HIDE DEF f
  <2>5. QED
    BY <2>1, <2>2, <2>3, <2>4, TableAdded
<1>3. ASSUME NEW k \in Joins, BuildConciseTable(k) PROVE BuildInv'
  <2>1. /\ phase = "build" /\ Len(chains) = k - 1 /\ tables[k].concise /\ BeginBuild(tables[k].rows)
        /\ UNCHANGED <<tables, chains, phase>>
    BY <1>3 DEF BuildConciseTable
  <2>2. Len(chains) + 1 = k
    BY <2>1 DEF Joins
  <2>3. PICK r : r = tables[k].rows
    OBVIOUS
  <2>4. RowsRight(r) /\ BeginBuild(r)
    BY <2>1, <2>3, TableRows DEF BuildInv
  <2>5. ConciseInv(r)'
    BY <2>4, BeginKeeps
  <2>6. ConciseInv(tables[Len(chains) + 1].rows)'
    <3>1. (tables[Len(chains) + 1].rows)' = r
      BY <2>1, <2>2, <2>3
    <3>2. QED
      BY <2>5, <3>1
  <2>7. QED
    BY <2>1, <2>2, <2>6 DEF BuildInv
<1>4. ASSUME ConciseStep PROVE BuildInv'
  <2>1. BuildStep /\ UNCHANGED <<tables, chains, phase>> /\ stage # "idle"
    BY <1>4, StepsOfTheBuild DEF ConciseStep
  <2>2. phase = "build" /\ tables[Len(chains) + 1].concise /\ ConciseInv(tables[Len(chains) + 1].rows)
    BY <2>1 DEF BuildInv
  <2>3. Len(chains) + 1 \in Joins
    BY <2>2, JoinsAssumption DEF BuildInv, Joins
  <2>4. PICK r : r = tables[Len(chains) + 1].rows
    OBVIOUS
  <2>5. RowsRight(r) /\ ConciseInv(r)
    BY <2>2, <2>3, <2>4, TableRows DEF BuildInv
  <2>6. ConciseInv(r)'
    BY <2>1, <2>5, ConciseKept
  <2>7. ConciseInv(tables[Len(chains) + 1].rows)'
    <3>1. (tables[Len(chains) + 1].rows)' = r
      BY <2>1, <2>4
    <3>2. QED
      BY <2>6, <3>1
  <2>8. QED
    BY <2>1, <2>2, <2>7 DEF BuildInv
<1>5. ASSUME ConciseTableBuilt PROVE BuildInv'
  <2> DEFINE f == [h \in Hashes |-> LookupConcise(h)]
  <2>1. /\ stage = "built" /\ stage' = "idle" /\ chains' = Append(chains, f) /\ tables' = tables
        /\ phase' = IF Len(chains) + 1 = NumJoins THEN "scan" ELSE "build"
    BY <1>5 DEF ConciseTableBuilt, TableBuilt
  <2>2. PICK k : k = Len(chains) + 1
    OBVIOUS
  <2>3. phase = "build" /\ ConciseInv(tables[k].rows)
    BY <2>1, <2>2 DEF BuildInv
  <2>4. k \in Joins /\ Len(chains) = k - 1
    BY <2>2, <2>3, JoinsAssumption DEF BuildInv, Joins
  <2>5. BuiltRight(tables[k].rows) /\ RowsRight(tables[k].rows)
    BY <2>1, <2>3, <2>4, TableRows DEF ConciseInv, BuildInv
  <2>6. \A h \in Hashes : h \in Nat
    BY HashAssumption DEF Hashes
  <2>7. \A h \in Hashes : ChainRight(tables[k].rows, h, f[h])
    BY <2>5, <2>6, ConciseRight
  <2>8. f = [h \in Hashes |-> f[h]]
    OBVIOUS
  <2> HIDE DEF f
  <2>9. QED
    BY <2>1, <2>4, <2>7, <2>8, TableAdded
<1>6. ASSUME NEW v \in Vectors, ReadVector(v) PROVE BuildInv'
  BY <1>1, <1>6 DEF ReadVector
<1>7. ASSUME NEW sampled, FilterVector(sampled) PROVE BuildInv'
  BY <1>1, <1>7 DEF FilterVector
<1>8. ASSUME NEW sampled, SetInputBatch(sampled) PROVE BuildInv'
  BY <1>1, <1>8 DEF SetInputBatch
<1>9. ASSUME JoinStep PROVE BuildInv'
  <2>1. UNCHANGED <<concise, tables, chains>> /\ phase # "build" /\ phase' # "build"
    BY <1>9 DEF JoinStep, JoinNext, KeepLooking, Descend, BackUp, ReturnTrue, ReturnFalse, unmoved
  <2>2. QED
    BY <1>1, <2>1
<1>10. ASSUME NEW match, ProbeSemiOrAnti(match) PROVE BuildInv'
  BY <1>1, <1>10 DEF ProbeSemiOrAnti
<1>11. ASSUME SemiOrAntiStep PROVE BuildInv'
  <2>1. UNCHANGED <<concise, tables, chains>> /\ phase # "build" /\ phase' # "build"
    BY <1>11 DEF SemiOrAntiStep
  <2>2. QED
    BY <1>1, <2>1
<1>12. ASSUME UNCHANGED vars PROVE BuildInv'
  BY <1>12, SameBuild DEF vars
<1>13. QED
  BY <1>2, <1>3, <1>4, <1>5, <1>6, <1>7, <1>8, <1>9, <1>10, <1>11, <1>12 DEF Next, Finished

(* No table is built at first. *)
LEMMA InitBuild ==
  ASSUME Init
  PROVE  BuildInv
<1>1. tables \in BuildSides /\ chains = <<>> /\ phase = "build" /\ stage = "idle"
  BY DEF Init, ConciseInit
<1>2. NumJoins \in Nat /\ NumJoins # 0
  BY JoinsAssumption
<1>3. QED
  BY <1>1, <1>2 DEF BuildInv

(* The chains of a concise table are exact for every build side, every       *)
(* number of slots and groups and every size of the reorder buffer.         *)
THEOREM ConciseChainsExactHolds == Spec => []ConciseChainsExact
<1>1. Init => BuildInv
  BY InitBuild
<1>2. BuildInv /\ [Next]_vars => BuildInv'
  BY BuildKept
<1>3. BuildInv => ConciseChainsExact
  <2> SUFFICES ASSUME BuildInv, NEW k \in DOMAIN chains, NEW h \in Hashes
               PROVE  /\ {r \in Range(tables[k].rows) : r.hash = h} \subseteq Range(chains[k][h])
                      /\ Len(chains[k][h]) = Cardinality(Range(chains[k][h]))
    BY DEF ConciseChainsExact
  <2>1. k \in 1 .. Len(chains)
    BY DEF BuildInv
  <2>2. ChainRight(tables[k].rows, h, chains[k][h])
    BY <2>1 DEF BuildInv
  <2> DEFINE c == chains[k][h]
  <2>3. c \in Seq(Range(tables[k].rows)) /\ IsInjective(c)
    BY <2>2 DEF ChainRight
  <2> HIDE DEF c
  <2>4. Cardinality(Range(c)) = Len(c)
    BY <2>3, InjectiveLength
  <2>5. QED
    BY <2>2, <2>4 DEF ChainRight, c
<1>4. QED
  BY <1>1, <1>2, <1>3, PTL DEF Spec

----------------------------------------------------------------------------
(* A probe *)

(* A probe, by its fields. *)
ProbeOf(K, I, M, N, X, C, f) ==
  [keys |-> K, initial_match_list |-> I, initial_matches |-> M, non_null_entries |-> N, key_matches |-> X,
   curr_matches |-> C, first |-> f]

IsProbe(p) ==
  p = ProbeOf(p.keys, p.initial_match_list, p.initial_matches, p.non_null_entries, p.key_matches,
              p.curr_matches, p.first)

(* The fields of a probe. *)
LEMMA ProbeFields ==
  ASSUME NEW K, NEW I, NEW M, NEW N, NEW X, NEW C, NEW f, NEW p, p = ProbeOf(K, I, M, N, X, C, f)
  PROVE  /\ IsProbe(p) /\ p.keys = K /\ p.initial_match_list = I /\ p.initial_matches = M
         /\ p.non_null_entries = N /\ p.key_matches = X /\ p.curr_matches = C /\ p.first = f
BY DEF ProbeOf, IsProbe

(* p, with other entries, matches and flag. *)
Like(q, p, N, X, C, f) ==
  /\ IsProbe(q) /\ q.keys = p.keys /\ q.initial_match_list = p.initial_match_list
  /\ q.initial_matches = p.initial_matches
  /\ q.non_null_entries = N /\ q.key_matches = X /\ q.curr_matches = C /\ q.first = f

(* A probe with the fields of p. *)
LEMMA LikeProbe ==
  ASSUME NEW K, NEW I, NEW M, NEW N, NEW X, NEW C, NEW f, NEW q, NEW p, q = ProbeOf(K, I, M, N, X, C, f),
         p.keys = K, p.initial_match_list = I, p.initial_matches = M
  PROVE  Like(q, p, N, X, C, f)
BY ProbeFields DEF Like

(* Where each tuple of N is one entry further. *)
Further(C, N) == [t \in Tids |-> IF t \in N THEN Tail(C[t]) ELSE C[t]]

(* What a turn of the loops of Next begins with. *)
LEMMA StepOf ==
  ASSUME NEW p, IsProbe(p), NEW seen
  PROVE  LET C == Further(p.curr_matches, p.non_null_entries)
             N == {t \in p.non_null_entries : C[t] # <<>>}
         IN  /\ p.first => Like(Step(p, seen), p, p.non_null_entries, p.non_null_entries \ seen, p.curr_matches, FALSE)
             /\ ~p.first => Like(Step(p, seen), p, N, N \ seen, C, FALSE)
<1> DEFINE C == Further(p.curr_matches, p.non_null_entries)
           N == {t \in p.non_null_entries : C[t] # <<>>}
           no == FALSE
           W(q) == [q EXCEPT !.first = no, !.key_matches = q.non_null_entries \ seen]
<1> HIDE DEF no
<1>1. ASSUME NEW K, NEW I, NEW M, NEW A, NEW X, NEW B, NEW f
      PROVE  W(ProbeOf(K, I, M, A, X, B, f)) = ProbeOf(K, I, M, A, A \ seen, B, no)
  <2> DEFINE a == ProbeOf(K, I, M, A, X, B, f)
             b == [a EXCEPT !.first = no]
  <2>1. a.non_null_entries = A /\ b = ProbeOf(K, I, M, A, X, B, no)
    BY DEF ProbeOf
  <2> HIDE DEF b
  <2>2. [b EXCEPT !.key_matches = A \ seen] = ProbeOf(K, I, M, A, A \ seen, B, no)
    BY <2>1 DEF ProbeOf
  <2> HIDE DEF a
  <2>3. [b EXCEPT !.key_matches = a.non_null_entries \ seen] = ProbeOf(K, I, M, A, A \ seen, B, no)
    BY <2>1, <2>2
  <2>4. W(a) = ProbeOf(K, I, M, A, A \ seen, B, no)
    BY <2>3, Zenon DEF b
  <2>5. QED
    BY <2>4, Zenon DEF a
<1>2. Step(p, seen) = W(IF p.first THEN p ELSE FollowNext(p))
  BY Zenon DEF Step, no
<1> HIDE DEF W
<1>3. PICK K, I, M, A, X, B, f : p = ProbeOf(K, I, M, A, X, B, f)
  BY Zenon DEF IsProbe
<1>4. p.keys = K /\ p.initial_match_list = I /\ p.initial_matches = M /\ p.non_null_entries = A /\ p.curr_matches = B /\ p.first = f
  BY <1>3, ProbeFields
<1>5. ASSUME p.first PROVE Like(Step(p, seen), p, p.non_null_entries, p.non_null_entries \ seen, p.curr_matches, FALSE)
  <2>1. Step(p, seen) = W(p)
    BY <1>2, <1>5
  <2>2. Step(p, seen) = ProbeOf(K, I, M, A, A \ seen, B, no)
    BY <1>1, <1>3, <2>1
  <2>3. Like(Step(p, seen), p, A, A \ seen, B, no)
    BY <1>4, <2>2, LikeProbe
  <2>4. QED
    BY <1>4, <2>3, Zenon DEF no
<1>6. ASSUME ~p.first PROVE Like(Step(p, seen), p, N, N \ seen, C, FALSE)
  <2>1. FollowNext(p) = [p EXCEPT !.curr_matches = C, !.non_null_entries = N]
    BY Zenon DEF FollowNext, Further
  <2> HIDE DEF C, N
  <2>2. FollowNext(p) = ProbeOf(K, I, M, N, X, C, f)
    <3> DEFINE a == [ProbeOf(K, I, M, A, X, B, f) EXCEPT !.curr_matches = C]
    <3>0. a = ProbeOf(K, I, M, A, X, C, f)
      BY DEF ProbeOf
    <3> HIDE DEF a
    <3>3. [a EXCEPT !.non_null_entries = N] = ProbeOf(K, I, M, N, X, C, f)
      BY <3>0 DEF ProbeOf
    <3>1. [ProbeOf(K, I, M, A, X, B, f) EXCEPT !.curr_matches = C, !.non_null_entries = N] = ProbeOf(K, I, M, N, X, C, f)
      BY <3>3, Zenon DEF a
    <3>2. QED
      BY <1>3, <2>1, <3>1, Zenon
  <2>3. Step(p, seen) = W(FollowNext(p))
    BY <1>2, <1>6
  <2>4. Step(p, seen) = ProbeOf(K, I, M, N, N \ seen, C, no)
    BY <1>1, <2>2, <2>3
  <2>5. Like(Step(p, seen), p, N, N \ seen, C, no)
    BY <1>4, <2>4, LikeProbe
  <2>6. QED
    BY <2>5, Zenon DEF no
<1>7. QED
  BY <1>5, <1>6

(* The tuples whose entry has their key. *)
LEMMA CheckOf ==
  ASSUME NEW p, IsProbe(p)
  PROVE  Like(CheckKeyEquality(p), p, p.non_null_entries,
              {t \in p.key_matches : Head(p.curr_matches[t]).key = p.keys[t]}, p.curr_matches, p.first)
<1> DEFINE Y == {t \in p.key_matches : Head(p.curr_matches[t]).key = p.keys[t]}
<1>1. CheckKeyEquality(p) = [p EXCEPT !.key_matches = Y]
  BY Zenon DEF CheckKeyEquality
<1> HIDE DEF Y
<1>2. PICK K, I, M, A, X, B, f : p = ProbeOf(K, I, M, A, X, B, f)
  BY Zenon DEF IsProbe
<1>3. p.keys = K /\ p.initial_match_list = I /\ p.initial_matches = M /\ p.non_null_entries = A /\ p.curr_matches = B /\ p.first = f
  BY <1>2, ProbeFields
<1>4. [ProbeOf(K, I, M, A, X, B, f) EXCEPT !.key_matches = Y] = ProbeOf(K, I, M, A, Y, B, f)
  BY DEF ProbeOf
<1>5. CheckKeyEquality(p) = ProbeOf(K, I, M, A, Y, B, f)
  BY <1>1, <1>2, <1>4, Zenon
<1>6. QED
  BY <1>3, <1>5, ProbeFields DEF Like, Y

(* The input of a call of Next. *)
LEMMA FilterOf ==
  ASSUME NEW p, IsProbe(p), NEW sel
  PROVE  Like(ApplyInputFilter(p, sel), p, p.non_null_entries \cap sel, p.key_matches, p.curr_matches, p.first)
<1> DEFINE Y == p.non_null_entries \cap sel
<1>1. ApplyInputFilter(p, sel) = [p EXCEPT !.non_null_entries = Y]
  BY Zenon DEF ApplyInputFilter
<1> HIDE DEF Y
<1>2. PICK K, I, M, A, X, B, f : p = ProbeOf(K, I, M, A, X, B, f)
  BY Zenon DEF IsProbe
<1>3. /\ p.keys = K /\ p.initial_match_list = I /\ p.initial_matches = M /\ p.key_matches = X
      /\ p.curr_matches = B /\ p.first = f
  BY <1>2, ProbeFields
<1>4. [ProbeOf(K, I, M, A, X, B, f) EXCEPT !.non_null_entries = Y] = ProbeOf(K, I, M, Y, X, B, f)
  BY DEF ProbeOf
<1>5. ApplyInputFilter(p, sel) = ProbeOf(K, I, M, Y, X, B, f)
  BY <1>1, <1>2, <1>4, Zenon
<1>6. QED
  BY <1>3, <1>5, ProbeFields DEF Like, Y

(* A probe that is reset. *)
LEMMA ResetOf ==
  ASSUME NEW p, IsProbe(p)
  PROVE  Like(ProbeReset(p), p, p.initial_match_list, p.initial_match_list, p.initial_matches, TRUE)
<1> DEFINE yes == TRUE
<1> HIDE DEF yes
<1>1. ProbeReset(p) = [p EXCEPT !.non_null_entries = p.initial_match_list, !.key_matches = p.initial_match_list,
                                !.curr_matches = p.initial_matches, !.first = yes]
  BY Zenon DEF ProbeReset, yes
<1>2. PICK K, I, M, A, X, B, f : p = ProbeOf(K, I, M, A, X, B, f)
  BY Zenon DEF IsProbe
<1>3. p.keys = K /\ p.initial_match_list = I /\ p.initial_matches = M
  BY <1>2, ProbeFields
<1>4. [ProbeOf(K, I, M, A, X, B, f) EXCEPT !.non_null_entries = I, !.key_matches = I, !.curr_matches = M, !.first = yes]
        = ProbeOf(K, I, M, I, I, M, yes)
  <2> DEFINE a == [ProbeOf(K, I, M, A, X, B, f) EXCEPT !.non_null_entries = I]
             b == [a EXCEPT !.key_matches = I]
             c == [b EXCEPT !.curr_matches = M]
  <2>1. a = ProbeOf(K, I, M, I, X, B, f)
    BY DEF ProbeOf
  <2> HIDE DEF a
  <2>2. b = ProbeOf(K, I, M, I, I, B, f)
    BY <2>1 DEF ProbeOf
  <2> HIDE DEF b
  <2>3. c = ProbeOf(K, I, M, I, I, M, f)
    BY <2>2 DEF ProbeOf
  <2> HIDE DEF c
  <2>4. [c EXCEPT !.first = yes] = ProbeOf(K, I, M, I, I, M, yes)
    BY <2>3 DEF ProbeOf
  <2>5. QED
    BY <2>4, Zenon DEF a, b, c
<1>5. ProbeReset(p) = ProbeOf(K, I, M, I, I, M, yes)
  BY <1>1, <1>2, <1>3, <1>4, Zenon
<1>6. Like(ProbeReset(p), p, I, I, M, yes)
  BY <1>3, <1>5, LikeProbe
<1>7. QED
  BY <1>3, <1>6, Zenon DEF yes

(* The chains of the selected tuples, and the tuples that have one. *)
HeadsOf(found, sel) == [t \in Tids |-> IF t \in sel THEN found[t] ELSE <<>>]
InitialOf(found, sel) == {t \in sel : HeadsOf(found, sel)[t] # <<>>}

Fresh(p, K, initial, heads) ==
  /\ IsProbe(p) /\ p.keys = K /\ p.initial_match_list = initial /\ p.initial_matches = heads
  /\ p.non_null_entries = initial /\ p.key_matches = initial /\ p.curr_matches = heads /\ p.first = TRUE

(* A probe that is initialised. *)
LEMMA InitOf ==
  ASSUME NEW K, NEW found, NEW sel, NEW heads, heads = HeadsOf(found, sel), NEW initial, initial = InitialOf(found, sel),
         NEW p, p = ProbeInit(K, found, sel)
  PROVE  Fresh(p, K, initial, heads)
<1> DEFINE yes == TRUE
<1> HIDE DEF yes
<1>1. p = ProbeOf(K, initial, heads, initial, initial, heads, yes)
  BY Zenon DEF ProbeInit, ProbeOf, HeadsOf, InitialOf, yes
<1>2. /\ IsProbe(p) /\ p.keys = K /\ p.initial_match_list = initial /\ p.initial_matches = heads
      /\ p.non_null_entries = initial /\ p.key_matches = initial /\ p.curr_matches = heads /\ p.first = yes
  BY <1>1, ProbeFields
<1>3. QED
  BY <1>2, Zenon DEF yes, Fresh

(* What the table of join k found for tuple t, and the keys in it. *)
Chain(k, t) == chains[k][HashOf[vector.keys[k][t]]]
KeyAt(k, t, i) == Chain(k, t)[i].key = vector.keys[k][t]

(* The tuples of S whose chain has an entry for turn v. *)
Live(k, v, S) == {t \in S : Chain(k, t) # <<>> /\ v <= Len(Chain(k, t))}

(* After v turns the rests of the chains start at entry v. *)
Stands(p, k, v) ==
  /\ p.keys = vector.keys[k] /\ p.first = (v = 0)
  /\ \A t \in p.non_null_entries :
       p.curr_matches[t] = SubSeq(Chain(k, t), IF v = 0 THEN 1 ELSE v, Len(Chain(k, t)))

(* Probe p of table k has taken v turns with the tuples of S. *)
Turned(p, k, v, S) ==
  IsProbe(p) /\ p.non_null_entries = Live(k, v, S) /\ (S # {} => Stands(p, k, v))

(* Every tuple has a chain. *)
Chained(k, S) == S \subseteq Tids /\ \E R : \A t \in S : Chain(k, t) \in Seq(R)

(* The rest of a chain, and the rest of that. *)
LEMMA RestOf ==
  ASSUME NEW R, NEW c \in Seq(R), NEW v \in Nat, v # 0, v <= Len(c)
  PROVE  LET s == SubSeq(c, v, Len(c))
         IN  /\ Head(s) = c[v] /\ Tail(s) = SubSeq(c, v + 1, Len(c))
             /\ SubSeq(c, v + 1, Len(c)) # <<>> <=> v + 1 <= Len(c)
<1> DEFINE n == Len(c)
           s == SubSeq(c, v, n)
           u == SubSeq(c, v + 1, n)
           w == Tail(s)
<1>1. n \in Nat /\ v \in 1 .. n
  OBVIOUS
<1>2. s \in Seq(R) /\ Len(s) = n - v + 1 /\ \A i \in 1 .. n - v + 1 : s[i] = c[v + i - 1]
  BY <1>1
<1>3. u \in Seq(R) /\ Len(u) = n - v /\ \A i \in 1 .. n - v : u[i] = c[v + i]
  BY <1>1
<1> HIDE DEF s, u
<1>4. s # <<>>
  BY <1>1, <1>2
<1>5. w \in Seq(R) /\ Len(w) = n - v /\ \A i \in 1 .. n - v : w[i] = s[i + 1]
  BY <1>1, <1>2, <1>4
<1>6. Head(s) = c[v]
  <2>1. 1 \in 1 .. n - v + 1 /\ v + 1 - 1 = v
    BY <1>1
  <2>2. QED
    BY <1>2, <1>4, <2>1
<1> HIDE DEF w, n
<1>7. w = u
  <2>1. \A i \in 1 .. n - v : w[i] = u[i]
    <3>1. ASSUME NEW i \in 1 .. n - v PROVE w[i] = u[i]
      <4>1. i + 1 \in 1 .. n - v + 1 /\ v + (i + 1) - 1 = v + i
        BY <1>1
      <4>2. QED
        BY <1>2, <1>3, <1>5, <4>1
    <3>2. QED
      BY <3>1
  <2>2. QED
    BY <1>3, <1>5, <2>1, SeqEqual
<1>8. u # <<>> <=> v + 1 <= n
  <2>1. u # <<>> <=> Len(u) # 0
    BY <1>3
  <2>2. QED
    BY <1>1, <1>3, <2>1
<1>9. QED
  BY <1>6, <1>7, <1>8 DEF s, u, w, n

(* One more turn. *)
LEMMA StepTurned ==
  ASSUME NEW p, NEW k, NEW v \in Nat, NEW S, S # {}, Chained(k, S), Turned(p, k, v, S), NEW seen, NEW q, q = Step(p, seen)
  PROVE  /\ Turned(q, k, v + 1, S) /\ q.key_matches = Live(k, v + 1, S) \ seen
         /\ q.initial_match_list = p.initial_match_list /\ q.initial_matches = p.initial_matches
<1> DEFINE N == p.non_null_entries
           B == p.curr_matches
           C == Further(B, N)
           A == {t \in N : C[t] # <<>>}
<1>1. IsProbe(p) /\ N = Live(k, v, S) /\ Stands(p, k, v)
  BY DEF Turned
<1>2. PICK R : \A t \in S : Chain(k, t) \in Seq(R) /\ t \in Tids
  BY DEF Chained
<1>3. \A t \in S : Len(Chain(k, t)) \in Nat /\ (Chain(k, t) # <<>> <=> Len(Chain(k, t)) # 0)
  BY <1>2
<1>4. CASE v = 0
  <2>1. p.first = TRUE
    BY <1>1, <1>4 DEF Stands
  <2>2. Like(q, p, N, N \ seen, B, FALSE)
    BY <1>1, <2>1, StepOf
  <2>3. N = Live(k, v + 1, S)
    BY <1>1, <1>3, <1>4 DEF Live
  <2>4. IsProbe(q) /\ q.keys = p.keys /\ q.non_null_entries = N /\ q.curr_matches = B /\ q.first = FALSE /\ q.key_matches = N \ seen
        /\ q.initial_match_list = p.initial_match_list /\ q.initial_matches = p.initial_matches
    BY <2>2 DEF Like
  <2>5. Stands(q, k, v + 1)
    <3>1. q.keys = vector.keys[k] /\ v + 1 # 0 /\ v + 1 = 1
      BY <1>1, <1>4, <2>4 DEF Stands
    <3>2. \A t \in q.non_null_entries : q.curr_matches[t] = SubSeq(Chain(k, t), 1, Len(Chain(k, t)))
      BY <1>1, <1>4, <2>4 DEF Stands
    <3>3. q.first = (v + 1 = 0)
      BY <2>4, <3>1
    <3>4. QED
      BY <3>1, <3>2, <3>3 DEF Stands
  <2>6. QED
    BY <2>3, <2>4, <2>5 DEF Turned
<1>5. CASE v # 0
  <2>1. p.first = FALSE
    BY <1>1, <1>5 DEF Stands
  <2>2. Like(q, p, A, A \ seen, C, FALSE)
    BY <1>1, <2>1, StepOf
  <2>3. ASSUME NEW t \in N
        PROVE  /\ C[t] = SubSeq(Chain(k, t), v + 1, Len(Chain(k, t)))
               /\ C[t] # <<>> <=> v + 1 <= Len(Chain(k, t))
    <3>1. t \in S /\ t \in Tids /\ v <= Len(Chain(k, t)) /\ Chain(k, t) \in Seq(R)
      BY <1>1, <1>2 DEF Live
    <3>2. B[t] = SubSeq(Chain(k, t), v, Len(Chain(k, t)))
      BY <1>1, <1>5 DEF Stands
    <3>3. C[t] = Tail(B[t])
      BY <3>1 DEF Further
    <3>4. /\ Tail(SubSeq(Chain(k, t), v, Len(Chain(k, t)))) = SubSeq(Chain(k, t), v + 1, Len(Chain(k, t)))
          /\ SubSeq(Chain(k, t), v + 1, Len(Chain(k, t))) # <<>> <=> v + 1 <= Len(Chain(k, t))
      BY <1>5, <3>1, RestOf
    <3>5. QED
      BY <3>2, <3>3, <3>4
  <2>4. A = Live(k, v + 1, S)
    <3>1. \A t \in S : v + 1 <= Len(Chain(k, t)) => v <= Len(Chain(k, t))
      BY <1>3
    <3>2. QED
      BY <1>1, <2>3, <3>1 DEF Live
  <2>5. IsProbe(q) /\ q.keys = p.keys /\ q.non_null_entries = A /\ q.curr_matches = C /\ q.first = FALSE /\ q.key_matches = A \ seen
        /\ q.initial_match_list = p.initial_match_list /\ q.initial_matches = p.initial_matches
    BY <2>2 DEF Like
  <2>6. Stands(q, k, v + 1)
    <3>1. q.keys = vector.keys[k] /\ v + 1 # 0
      BY <1>1, <2>5 DEF Stands
    <3>2. \A t \in A : C[t] = SubSeq(Chain(k, t), v + 1, Len(Chain(k, t)))
      BY <2>3
    <3> HIDE DEF A, C
    <3>3. q.first = (v + 1 = 0)
      BY <2>5, <3>1
    <3>4. \A t \in q.non_null_entries : q.curr_matches[t] = SubSeq(Chain(k, t), IF v + 1 = 0 THEN 1 ELSE v + 1, Len(Chain(k, t)))
      BY <2>5, <3>1, <3>2
    <3>5. QED
      BY <3>1, <3>3, <3>4 DEF Stands
  <2>7. QED
    BY <2>4, <2>5, <2>6 DEF Turned
<1>6. QED
  BY <1>4, <1>5

(* The keys are compared with those of entry v. *)
LEMMA CheckTurned ==
  ASSUME NEW p, NEW k, NEW v \in Nat, v # 0, NEW S, S # {}, Chained(k, S), Turned(p, k, v, S),
         p.key_matches \subseteq Live(k, v, S), NEW q, q = CheckKeyEquality(p)
  PROVE  /\ Turned(q, k, v, S) /\ q.key_matches = {t \in p.key_matches : KeyAt(k, t, v)}
         /\ q.initial_match_list = p.initial_match_list /\ q.initial_matches = p.initial_matches
<1>1. IsProbe(p) /\ p.non_null_entries = Live(k, v, S) /\ Stands(p, k, v)
  BY DEF Turned
<1>2. PICK R : \A t \in S : Chain(k, t) \in Seq(R)
  BY DEF Chained
<1> DEFINE Y == {t \in p.key_matches : Head(p.curr_matches[t]).key = p.keys[t]}
<1>3. Like(q, p, p.non_null_entries, Y, p.curr_matches, p.first)
  BY <1>1, CheckOf
<1>4. \A t \in p.key_matches : Head(p.curr_matches[t]) = Chain(k, t)[v]
  <2>1. ASSUME NEW t \in p.key_matches PROVE Head(p.curr_matches[t]) = Chain(k, t)[v]
    <3>1. t \in S /\ v <= Len(Chain(k, t)) /\ t \in p.non_null_entries /\ Chain(k, t) \in Seq(R)
      BY <1>1, <1>2 DEF Live
    <3>2. p.curr_matches[t] = SubSeq(Chain(k, t), v, Len(Chain(k, t)))
      BY <1>1, <3>1 DEF Stands
    <3>3. QED
      BY <3>1, <3>2, RestOf
  <2>2. QED
    BY <2>1
<1>5. p.keys = vector.keys[k]
  BY <1>1 DEF Stands
<1>6. Y = {t \in p.key_matches : KeyAt(k, t, v)}
  BY <1>4, <1>5 DEF KeyAt
<1> HIDE DEF Y
<1>7. /\ IsProbe(q) /\ q.keys = p.keys /\ q.non_null_entries = p.non_null_entries /\ q.curr_matches = p.curr_matches
      /\ q.first = p.first /\ q.key_matches = Y
      /\ q.initial_match_list = p.initial_match_list /\ q.initial_matches = p.initial_matches
  BY <1>3 DEF Like
<1>8. Stands(q, k, v)
  BY <1>1, <1>7 DEF Stands
<1>9. QED
  BY <1>1, <1>6, <1>7, <1>8 DEF Turned

(* The chain of a tuple holds the partners of the tuple, each once. *)
LEMMA ChainOf ==
  ASSUME BuildInv, VectorInv, phase # "build", count # 0, NEW k \in Joins, NEW t \in Tids
  PROVE  /\ Chain(k, t) \in Seq(Range(tables[k].rows)) /\ IsInjective(Chain(k, t))
         /\ \A r \in Range(tables[k].rows) :
              r.key = vector.keys[k][t] => \E i \in 1 .. Len(Chain(k, t)) : Chain(k, t)[i] = r
<1> DEFINE key == vector.keys[k][t]
           rows == tables[k].rows
           c == Chain(k, t)
<1>1. key \in DOMAIN HashOf /\ HashOf[key] \in Hashes
  BY VectorsAssumption DEF VectorInv, Hashes
<1>2. k \in 1 .. Len(chains)
  BY JoinsAssumption DEF BuildInv, Joins
<1>3. ChainRight(rows, HashOf[key], c)
  BY <1>1, <1>2 DEF BuildInv, Chain
<1>4. \A r \in Range(rows) : r.hash = HashOf[r.key]
  BY BuildSidesAssumption DEF BuildInv
<1> HIDE DEF c, rows, key
<1>5. c \in Seq(Range(rows)) /\ IsInjective(c)
  BY <1>3 DEF ChainRight
<1>6. ASSUME NEW r \in Range(rows), r.key = key PROVE \E i \in 1 .. Len(c) : c[i] = r
  <2>1. r \in Range(c)
    BY <1>3, <1>4, <1>6 DEF ChainRight
  <2>2. QED
    BY <1>5, <2>1, InRange
<1>7. QED
  BY <1>5, <1>6 DEF c, rows, key

(* So all tuples have one. *)
LEMMA AllChained ==
  ASSUME BuildInv, VectorInv, phase # "build", count # 0, NEW k \in Joins, NEW S, S \subseteq Tids
  PROVE  Chained(k, S)
<1>1. \A t \in S : Chain(k, t) \in Seq(Range(tables[k].rows))
  BY ChainOf
<1>2. QED
  BY <1>1 DEF Chained

(* The chains are those of the vector and the tables. *)
LEMMA SameChains ==
  ASSUME UNCHANGED <<chains, vector>>
  PROVE  /\ \A k, t : Chain(k, t)' = Chain(k, t)
         /\ \A k, t, i : KeyAt(k, t, i)' <=> KeyAt(k, t, i)
         /\ \A k, v, S : Live(k, v, S)' = Live(k, v, S)
         /\ \A p, k, v, S : Turned(p, k, v, S)' <=> Turned(p, k, v, S)
<1>1. \A k, t : Chain(k, t)' = Chain(k, t)
  BY DEF Chain
<1>2. \A k, t, i : KeyAt(k, t, i)' <=> KeyAt(k, t, i)
  BY <1>1 DEF KeyAt
<1>3. \A k, v, S : Live(k, v, S)' = Live(k, v, S)
  BY <1>1 DEF Live
<1>4. \A p, k, v : Stands(p, k, v)' <=> Stands(p, k, v)
  BY <1>1 DEF Stands
<1>5. \A p, k, v, S : Turned(p, k, v, S)' <=> Turned(p, k, v, S)
  BY <1>3, <1>4 DEF Turned
<1>6. QED
  BY <1>1, <1>2, <1>3, <1>5

(* Probe p of table k has the chains of the tuples of S and has not moved. *)
Unmoved(p, k, S) ==
  /\ Turned(p, k, 0, S) /\ p.key_matches = Live(k, 0, S) /\ p.initial_match_list = Live(k, 0, S)
  /\ \A t \in S : p.initial_matches[t] = Chain(k, t)
  /\ p.curr_matches = p.initial_matches /\ p.keys = vector.keys[k] /\ p.first = TRUE

(* A probe that was initialised with the tuples of S. *)
LEMMA NotTurned ==
  ASSUME NEW k, NEW S, Chained(k, S), NEW p, p = ProbeInit(vector.keys[k], LookupBatch(k, vector.keys[k]), S)
  PROVE  Unmoved(p, k, S)
<1> DEFINE K == vector.keys[k]
           found == LookupBatch(k, K)
<1>0. PICK heads, initial : heads = HeadsOf(found, S) /\ initial = InitialOf(found, S)
  OBVIOUS
<1>1. /\ IsProbe(p) /\ p.keys = K /\ p.initial_match_list = initial /\ p.initial_matches = heads
      /\ p.non_null_entries = initial /\ p.key_matches = initial /\ p.curr_matches = heads /\ p.first = TRUE
  <2> HIDE DEF K, found
  <2>1. p = ProbeInit(K, found, S)
    BY DEF K, found
  <2>2. Fresh(p, K, initial, heads)
    BY <1>0, <2>1, InitOf
  <2>3. QED
    BY <2>2 DEF Fresh
<1>2. PICK R : S \subseteq Tids /\ \A t \in S : Chain(k, t) \in Seq(R)
  BY DEF Chained
<1>3. \A t \in S : heads[t] = Chain(k, t)
  BY <1>0, <1>2 DEF LookupBatch, Chain, HeadsOf
<1>4. initial = Live(k, 0, S)
  BY <1>0, <1>2, <1>3 DEF Live, InitialOf
<1>6. Stands(p, k, 0)
  <2>1. ASSUME NEW t \in p.non_null_entries
        PROVE  p.curr_matches[t] = SubSeq(Chain(k, t), 1, Len(Chain(k, t)))
    <3>1. t \in S
      BY <1>1, <1>4 DEF Live
    <3>2. SubSeq(Chain(k, t), 1, Len(Chain(k, t))) = Chain(k, t)
      BY <1>2, <3>1
    <3>3. QED
      BY <1>1, <1>3, <3>1, <3>2
  <2>2. p.first = (0 = 0)
    BY <1>1
  <2>3. QED
    BY <1>1, <2>1, <2>2 DEF Stands
<1>7. QED
  BY <1>1, <1>3, <1>4, <1>6 DEF Turned, Unmoved

----------------------------------------------------------------------------
(* Semi and anti joins *)

(* The tuples of S that found their key up to entry v. *)
Seen(S, v) == {t \in S : \E i \in 1 .. v : i <= Len(Chain(1, t)) /\ KeyAt(1, t, i)}

(* Those that have it somewhere. *)
Having(S) == {t \in S : \E i \in 1 .. Len(Chain(1, t)) : KeyAt(1, t, i)}

(* A turn of NextSemiOrAntiJoin: either all that can be found has been, or    *)
(* one more entry of every chain has been looked at.                        *)
LEMMA SemiTurnRight ==
  ASSUME NEW S, Chained(1, S), NEW v \in Nat, NEW p, Turned(p, 1, v, S), NEW turn, turn = SemiTurn(p, Seen(S, v))
  PROVE  /\ turn.ended \in BOOLEAN /\ IsProbe(turn.probe)
         /\ turn.ended => turn.seen = Having(S)
         /\ ~turn.ended => Turned(turn.probe, 1, v + 1, S) /\ turn.seen = Seen(S, v + 1)
<1> DEFINE seen == Seen(S, v)
           q == Step(p, seen)
           r == CheckKeyEquality(q)
           yes == TRUE
           no == FALSE
<1>1. PICK R : \A t \in S : Chain(1, t) \in Seq(R)
  BY DEF Chained
<1>2. \A t \in S : Len(Chain(1, t)) \in Nat /\ (Chain(1, t) # <<>> <=> Len(Chain(1, t)) # 0)
  BY <1>1
<1>3. IsProbe(p) /\ p.non_null_entries = Live(1, v, S)
  BY DEF Turned
<1> HIDE DEF yes, no
<1>4. CASE p.non_null_entries = {}
  <2>1. turn = [ended |-> yes, probe |-> p, seen |-> seen]
    BY <1>4, Zenon DEF SemiTurn, yes
  <2>2. turn.ended = yes /\ turn.probe = p /\ turn.seen = seen
    BY <2>1
  <2>3. ASSUME NEW t \in S, NEW i \in 1 .. Len(Chain(1, t)), KeyAt(1, t, i) PROVE t \in seen
    <3>1. ~(Chain(1, t) # <<>> /\ v <= Len(Chain(1, t)))
      BY <1>3, <1>4 DEF Live
    <3>2. i \in 1 .. v /\ i <= Len(Chain(1, t))
      BY <1>2, <3>1
    <3>3. QED
      BY <2>3, <3>2 DEF Seen
  <2>4. seen \subseteq Having(S)
    BY <1>2 DEF Seen, Having
  <2>5. seen = Having(S)
    BY <2>3, <2>4 DEF Having
  <2>6. turn.ended = TRUE
    BY <2>2 DEF yes
  <2>7. QED
    BY <1>3, <2>2, <2>5, <2>6
<1>5. CASE p.non_null_entries # {}
  <2>1. S # {}
    BY <1>3, <1>5 DEF Live
  <2>2. Turned(q, 1, v + 1, S) /\ q.key_matches = Live(1, v + 1, S) \ seen
    <3> HIDE DEF seen
    <3>1. QED
      BY <2>1, StepTurned
  <2>3. CASE q.key_matches = {}
    <3>1. turn = [ended |-> yes, probe |-> q, seen |-> seen]
      BY <1>5, <2>3, Zenon DEF SemiTurn, yes
    <3>2. turn.ended = yes /\ turn.probe = q /\ turn.seen = seen
      BY <3>1
    <3>3. ASSUME NEW t \in S, NEW i \in 1 .. Len(Chain(1, t)), KeyAt(1, t, i) PROVE t \in seen
      <4>1. CASE i <= v
        BY <1>2, <3>3, <4>1 DEF Seen
      <4>2. CASE ~(i <= v)
        <5>1. Chain(1, t) # <<>> /\ v + 1 <= Len(Chain(1, t))
          BY <1>2, <4>2
        <5>2. QED
          BY <2>2, <2>3, <5>1 DEF Live
      <4>3. QED
        BY <4>1, <4>2
    <3>4. seen \subseteq Having(S)
      BY <1>2 DEF Seen, Having
    <3>5. seen = Having(S)
      BY <3>3, <3>4 DEF Having
    <3>6. turn.ended = TRUE
      BY <3>2 DEF yes
    <3>7. IsProbe(q)
      BY <2>2 DEF Turned
    <3>8. QED
      BY <3>2, <3>5, <3>6, <3>7
  <2>4. CASE q.key_matches # {}
    <3>1. turn = [ended |-> no, probe |-> r, seen |-> seen \cup r.key_matches]
      BY <1>5, <2>4, Zenon DEF SemiTurn, no
    <3>2. turn.ended = no /\ turn.probe = r /\ turn.seen = seen \cup r.key_matches
      BY <3>1
    <3>3. Turned(r, 1, v + 1, S) /\ r.key_matches = {t \in q.key_matches : KeyAt(1, t, v + 1)}
      <4>1. v + 1 \in Nat /\ v + 1 # 0 /\ q.key_matches \subseteq Live(1, v + 1, S)
        BY <2>2
      <4> HIDE DEF q
      <4>2. QED
        BY <2>1, <2>2, <4>1, CheckTurned
    <3>4. seen \cup r.key_matches = Seen(S, v + 1)
      <4>1. ASSUME NEW t \in r.key_matches PROVE t \in Seen(S, v + 1)
        <5>1. t \in S /\ v + 1 <= Len(Chain(1, t)) /\ KeyAt(1, t, v + 1)
          BY <2>2, <3>3 DEF Live
        <5>2. v + 1 \in 1 .. v + 1
          OBVIOUS
        <5>3. QED
          BY <5>1, <5>2 DEF Seen
      <4>2. seen \subseteq Seen(S, v + 1)
        BY DEF Seen
      <4>3. ASSUME NEW t \in Seen(S, v + 1), t \notin seen PROVE t \in r.key_matches
        <5>1. t \in S
          BY <4>3 DEF Seen
        <5>2. PICK i \in 1 .. v + 1 : i <= Len(Chain(1, t)) /\ KeyAt(1, t, i)
          BY <4>3 DEF Seen
        <5>3. i = v + 1
          BY <4>3, <5>1, <5>2 DEF Seen
        <5>4. t \in Live(1, v + 1, S)
          BY <1>2, <5>1, <5>2, <5>3 DEF Live
        <5>5. QED
          BY <2>2, <3>3, <4>3, <5>2, <5>3, <5>4
      <4>4. QED
        BY <4>1, <4>2, <4>3
    <3>5. turn.ended = FALSE
      BY <3>2 DEF no
    <3>6. IsProbe(r)
      BY <3>3 DEF Turned
    <3>7. QED
      BY <3>2, <3>3, <3>4, <3>5, <3>6
  <2>5. QED
    BY <2>3, <2>4
<1>6. QED
  BY <1>4, <1>5

(* While the loop runs, the tuples seen are those that found their key in    *)
(* the entries looked at so far.                                            *)
SemiInv ==
  /\ phase = "build" => semi = <<>>
  /\ phase = "semi" =>
       \E m, v, p : m \in BOOLEAN /\ v \in Nat /\ semi = <<m, p, Seen(passed, v)>> /\ Turned(p, 1, v, passed)
  /\ SemiAntiExact

(* The loop begins. *)
LEMMA SemiBegins ==
  ASSUME BuildInv, VectorInv, NEW match \in BOOLEAN, ProbeSemiOrAnti(match)
  PROVE  SemiInv'
<1>1. /\ phase = "prepare" /\ phase' = "semi" /\ UNCHANGED <<chains, vector, passed>>
      /\ semi' = <<match, ApplyInputFilter(ProbeInit(vector.keys[1], LookupBatch(1, vector.keys[1]), selected), selected), {}>>
  BY Zenon DEF ProbeSemiOrAnti
<1>2. selected = passed /\ passed \subseteq Tids /\ count # 0
  BY <1>1 DEF VectorInv
<1>3. 1 \in Joins
  BY JoinsAssumption DEF Joins
<1>4. Chained(1, passed)
  BY <1>1, <1>2, <1>3, AllChained
<1> DEFINE p == ProbeInit(vector.keys[1], LookupBatch(1, vector.keys[1]), selected)
           q == ApplyInputFilter(p, selected)
<1>5. Turned(p, 1, 0, passed)
  BY <1>2, <1>4, NotTurned DEF Unmoved
<1>6. PICK b : b = q
  OBVIOUS
<1>7. semi' = <<match, b, {}>>
  BY <1>1, <1>6
<1> HIDE DEF p
<1>8. Turned(q, 1, 0, passed)
  <2>1. IsProbe(p) /\ p.non_null_entries = Live(1, 0, passed)
    BY <1>5 DEF Turned
  <2>2. Like(q, p, p.non_null_entries \cap selected, p.key_matches, p.curr_matches, p.first)
    BY <2>1, FilterOf
  <2> HIDE DEF q
  <2>3. p.non_null_entries \cap selected = p.non_null_entries
    BY <1>2, <2>1 DEF Live
  <2>4. QED
    BY <1>5, <2>1, <2>2, <2>3 DEF Like, Turned, Stands
<1>9. Seen(passed, 0) = {}
  BY DEF Seen
<1> HIDE DEF q
<1>10. Turned(b, 1, 0, passed)' /\ Seen(passed, 0)' = {}
  BY <1>1, <1>6, <1>8, <1>9, SameChains DEF Seen
<1>11. semi' = <<match, b, Seen(passed, 0)'>> /\ Turned(b, 1, 0, passed)'
  BY <1>7, <1>10
<1>12. (\E m, v, c : m \in BOOLEAN /\ v \in Nat /\ semi = <<m, c, Seen(passed, v)>> /\ Turned(c, 1, v, passed))'
  BY <1>11
<1>13. SemiAntiExact'
  BY <1>1 DEF SemiAntiExact
<1>14. QED
  BY <1>1, <1>12, <1>13 DEF SemiInv

(* The tuples that have their key in the chain are those with a partner. *)
LEMMA HavingPartners ==
  ASSUME BuildInv, VectorInv, phase # "build", count # 0, NEW t \in passed
  PROVE  t \in Having(passed) <=> Partners(t) # {}
<1> DEFINE rows == tables[1].rows
           c == Chain(1, t)
           key == vector.keys[1][t]
<1>1. 1 \in Joins /\ t \in Tids
  BY JoinsAssumption DEF Joins, VectorInv
<1>2. c \in Seq(Range(rows)) /\ \A r \in Range(rows) : r.key = key => \E i \in 1 .. Len(c) : c[i] = r
  BY <1>1, ChainOf
<1>3. t \in Having(passed) <=> \E i \in 1 .. Len(c) : c[i].key = key
  BY DEF Having, KeyAt
<1>4. Partners(t) = {r \in Range(rows) : r.key = key}
  BY DEF Partners, RowsWithKey
<1> HIDE DEF c, rows, key
<1>5. \A i \in 1 .. Len(c) : c[i] \in Range(rows)
  BY <1>2
<1>6. QED
  BY <1>2, <1>3, <1>4, <1>5

(* A turn of the loop, and the answer after the last one. *)
LEMMA SemiSteps ==
  ASSUME BuildInv, VectorInv, SemiInv, SemiOrAntiStep
  PROVE  SemiInv'
<1>1. phase = "semi" /\ UNCHANGED <<tables, chains, vector, passed>>
  BY DEF SemiOrAntiStep
<1>2. PICK m, v, p : m \in BOOLEAN /\ v \in Nat /\ semi = <<m, p, Seen(passed, v)>> /\ Turned(p, 1, v, passed)
  BY <1>1 DEF SemiInv
<1>3. PICK turn : turn = SemiTurn(p, Seen(passed, v))
  OBVIOUS
<1>4. PICK seen : seen = turn.seen
  OBVIOUS
<1>5. PICK b : b = turn.probe
  OBVIOUS
<1>6. semi[1] = m /\ semi[2] = p /\ semi[3] = Seen(passed, v)
  BY <1>2
<1>7. /\ turn.ended => /\ phase' = "scan"
                       /\ semi' = <<m, [b EXCEPT !.key_matches = SemiOrAntiMatches(seen, m)], seen>>
      /\ ~turn.ended => phase' = phase /\ semi' = <<m, b, seen>>
  <2>1. turn = SemiTurn(semi[2], semi[3])
    BY <1>3, <1>6
  <2>2. /\ turn.ended => /\ phase' = "scan"
                         /\ semi' = <<semi[1], [turn.probe EXCEPT !.key_matches = SemiOrAntiMatches(turn.seen, semi[1])], turn.seen>>
        /\ ~turn.ended => phase' = phase /\ semi' = <<semi[1], turn.probe, turn.seen>>
    BY <2>1, Zenon DEF SemiOrAntiStep
  <2>3. QED
    BY <1>4, <1>5, <1>6, <2>2, Zenon
<1>8. passed \subseteq Tids /\ count # 0 /\ phase # "build" /\ 1 \in Joins
  BY <1>1, JoinsAssumption DEF VectorInv, Joins
<1>9. /\ turn.ended \in BOOLEAN /\ IsProbe(b)
      /\ turn.ended => seen = Having(passed)
      /\ ~turn.ended => Turned(b, 1, v + 1, passed) /\ seen = Seen(passed, v + 1)
  <2>1. Chained(1, passed)
    BY <1>8, AllChained
  <2>2. QED
    BY <1>2, <1>3, <1>4, <1>5, <2>1, SemiTurnRight
<1>10. CASE turn.ended
  <2>1. phase' = "scan" /\ semi' = <<m, [b EXCEPT !.key_matches = SemiOrAntiMatches(seen, m)], seen>> /\ seen = Having(passed)
    BY <1>7, <1>9, <1>10, Zenon
  <2>2. PICK Y : Y = SemiOrAntiMatches(seen, m)
    OBVIOUS
  <2>3. PICK c : c = [b EXCEPT !.key_matches = Y]
    BY Zenon
  <2>4. c.key_matches = Y
    <3>1. PICK K, I, M, A, X, B, f : b = ProbeOf(K, I, M, A, X, B, f)
      BY <1>9, Zenon DEF IsProbe
    <3>2. c = [ProbeOf(K, I, M, A, X, B, f) EXCEPT !.key_matches = Y]
      BY <2>3, <3>1, Zenon
    <3>3. QED
      BY <3>2 DEF ProbeOf
  <2>5. semi' = <<m, c, seen>>
    BY <2>1, <2>2, <2>3, Zenon
  <2>6. semi'[1] = m /\ semi'[2] = c
    BY <2>5
  <2>7. semi'[2].key_matches = Y
    BY <2>4, <2>6
  <2>8. Y = IF m THEN Tids \cap seen ELSE Tids \ seen
    BY <2>2 DEF SemiOrAntiMatches
  <2>9. \A t \in passed : t \in seen <=> Partners(t) # {}
    BY <1>8, <2>1, HavingPartners
  <2>10. \A t \in passed : Partners(t)' = Partners(t)
    BY <1>1 DEF Partners, RowsWithKey
  <2>11. m => Y \subseteq passed
    BY <2>1, <2>8 DEF Having
  <2>12. \A t \in passed : t \in Y <=> (m <=> Partners(t) # {})
    BY <1>8, <2>8, <2>9
  <2>13. SemiAntiExact'
    <3>1. \A t \in passed' : t \in Y <=> (semi'[1] <=> Partners(t)' # {})
      BY <1>1, <2>6, <2>10, <2>12
    <3>2. semi'[1] => Y \subseteq passed'
      BY <1>1, <2>6, <2>11
    <3>3. QED
      BY <2>7, <3>1, <3>2 DEF SemiAntiExact
  <2>14. QED
    BY <2>1, <2>13 DEF SemiInv
<1>11. CASE ~turn.ended
  <2>1. phase' = "semi" /\ semi' = <<m, b, seen>> /\ Turned(b, 1, v + 1, passed) /\ seen = Seen(passed, v + 1)
    BY <1>1, <1>7, <1>9, <1>11
  <2>2. Turned(b, 1, v + 1, passed)' /\ Seen(passed, v + 1)' = seen
    BY <1>1, <2>1, SameChains DEF Seen
  <2>3. semi' = <<m, b, Seen(passed, v + 1)'>> /\ v + 1 \in Nat /\ m \in BOOLEAN
    BY <1>2, <2>1, <2>2
  <2>4. (\E k, w, c : k \in BOOLEAN /\ w \in Nat /\ semi = <<k, c, Seen(passed, w)>> /\ Turned(c, 1, w, passed))'
    BY <2>2, <2>3
  <2>5. SemiAntiExact' /\ phase' # "build"
    BY <2>1 DEF SemiAntiExact
  <2>6. QED
    BY <2>4, <2>5 DEF SemiInv
<1>12. QED
  BY <1>9, <1>10, <1>11

(* Every step keeps the semi and anti joins right. *)
LEMMA SemiKept ==
  ASSUME BuildInv, VectorInv, SemiInv, [Next]_vars
  PROVE  SemiInv'
<1>1. ASSUME phase' \notin {"semi", "scan", "build"} PROVE SemiInv'
  BY <1>1 DEF SemiInv, SemiAntiExact
<1>2. ASSUME phase' # "semi", semi' = <<>> PROVE SemiInv'
  BY <1>2 DEF SemiInv, SemiAntiExact
<1>3. ASSUME NEW k \in Joins, BuildChainingTable(k) PROVE SemiInv'
  <2>1. phase = "build" /\ phase' \in {"build", "scan"} /\ semi' = semi
    BY <1>3 DEF BuildChainingTable, TableBuilt, history
  <2>2. QED
    BY <1>2, <2>1 DEF SemiInv
<1>4. ASSUME NEW k \in Joins, BuildConciseTable(k) PROVE SemiInv'
  <2>1. phase = "build" /\ phase' = phase /\ semi' = semi
    BY <1>4 DEF BuildConciseTable, history
  <2>2. QED
    BY <1>2, <2>1 DEF SemiInv
<1>5. ASSUME ConciseStep PROVE SemiInv'
  <2>1. phase = "build" /\ phase' = phase /\ semi' = semi
    BY <1>5, StepsOfTheBuild DEF ConciseStep, history, BuildInv
  <2>2. QED
    BY <1>2, <2>1 DEF SemiInv
<1>6. ASSUME ConciseTableBuilt PROVE SemiInv'
  <2>1. phase = "build" /\ phase' \in {"build", "scan"} /\ semi' = semi
    BY <1>6 DEF ConciseTableBuilt, TableBuilt, history, BuildInv
  <2>2. QED
    BY <1>2, <2>1 DEF SemiInv
<1>7. ASSUME NEW v \in Vectors, ReadVector(v) PROVE SemiInv'
  BY <1>1, <1>7 DEF ReadVector
<1>8. ASSUME NEW sampled, FilterVector(sampled) PROVE SemiInv'
  BY <1>1, <1>8 DEF FilterVector
<1>9. ASSUME NEW sampled, SetInputBatch(sampled) PROVE SemiInv'
  BY <1>1, <1>9 DEF SetInputBatch
<1>10. ASSUME JoinStep PROVE SemiInv'
  <2>1. phase \in {"join", "advance"} /\ phase' \in {"join", "advance", "scan"} /\ semi' = semi
    BY <1>10 DEF JoinStep, JoinNext, KeepLooking, Descend, BackUp, ReturnTrue, ReturnFalse, unmoved
  <2>2. QED
    BY <1>2, <2>1 DEF VectorInv
<1>11. ASSUME NEW match \in BOOLEAN, ProbeSemiOrAnti(match) PROVE SemiInv'
  BY <1>11, SemiBegins
<1>12. ASSUME SemiOrAntiStep PROVE SemiInv'
  BY <1>12, SemiSteps
<1>13. ASSUME UNCHANGED vars PROVE SemiInv'
  <2>1. UNCHANGED <<tables, chains, phase, vector, passed, semi>>
    BY <1>13 DEF vars, history
  <2>2. SemiAntiExact'
    <3>1. \A t : Partners(t)' = Partners(t)
      BY <2>1 DEF Partners, RowsWithKey
    <3>2. QED
      BY <2>1, <3>1 DEF SemiInv, SemiAntiExact
  <2>3. ASSUME phase = "semi"
        PROVE  (\E m, v, p : m \in BOOLEAN /\ v \in Nat /\ semi = <<m, p, Seen(passed, v)>> /\ Turned(p, 1, v, passed))'
    <3>1. PICK m, v, p : m \in BOOLEAN /\ v \in Nat /\ semi = <<m, p, Seen(passed, v)>> /\ Turned(p, 1, v, passed)
      BY <2>3 DEF SemiInv
    <3>2. Turned(p, 1, v, passed)' /\ Seen(passed, v)' = Seen(passed, v)
      BY <2>1, <3>1, SameChains DEF Seen
    <3>3. semi' = <<m, p, Seen(passed, v)'>>
      BY <2>1, <3>1, <3>2
    <3>4. QED
      BY <3>1, <3>2, <3>3
  <2>4. QED
    BY <2>1, <2>2, <2>3 DEF SemiInv
<1>14. QED
  BY <1>3, <1>4, <1>5, <1>6, <1>7, <1>8, <1>9, <1>10, <1>11, <1>12, <1>13 DEF Next, Finished

(* A semi or anti join answers with the right tuples for every build side    *)
(* of either form, every vector and every filter.                           *)
THEOREM SemiAntiExactHolds == Spec => []SemiAntiExact
<1>1. Init => BuildInv /\ OrdersInv /\ VectorInv /\ StageInv /\ SemiInv
  BY InitBuild, InitVectors DEF Init, ConciseInit, StageInv, SemiInv, SemiAntiExact
<1>2. BuildInv /\ OrdersInv /\ VectorInv /\ StageInv /\ SemiInv /\ [Next]_vars
        => BuildInv' /\ OrdersInv' /\ VectorInv' /\ StageInv' /\ SemiInv'
  BY BuildKept, VectorsKept, StageKept, SemiKept
<1>3. SemiInv => SemiAntiExact
  BY DEF SemiInv
<1>4. QED
  BY <1>1, <1>2, <1>3, PTL DEF Spec

----------------------------------------------------------------------------
(* The odometer *)

(* The numbers of turns of all probes. *)
Turns == [Joins -> Nat]

Equal(j, v, l) == \A i \in 1 .. l : j[i] = v[i]

(* The probes up to l have passed the entries j when they have taken v turns. *)
Done(j, v, l) ==
  \E k \in 1 .. l : Equal(j, v, k - 1) /\ (j[k] < v[k] \/ (k = l /\ j[k] = v[k]))

Advanced(v, l) == [v EXCEPT ![l] = v[l] + 1]
Restarted(v, m) == [v EXCEPT ![m] = 0]

(* Probe l takes a turn. *)
LEMMA DoneTurn ==
  ASSUME NEW j \in Turns, NEW v \in Turns, NEW l \in Joins, NEW w, w = Advanced(v, l)
  PROVE  w \in Turns /\ (Done(j, w, l) <=> (Done(j, v, l) \/ Equal(j, w, l))) /\ ~Done(w, v, l)
<1>1. NumJoins \in Nat /\ l \in 1 .. NumJoins
  BY JoinsAssumption DEF Joins
<1>2. w \in Turns /\ w[l] = v[l] + 1 /\ \A i \in 1 .. l : i # l => w[i] = v[i]
  BY <1>1 DEF Turns, Joins, Advanced
<1>3. \A i \in 1 .. l : j[i] \in Nat /\ v[i] \in Nat /\ w[i] \in Nat
  BY <1>1, <1>2 DEF Turns, Joins
<1>4. \A k \in 1 .. l : Equal(j, w, k - 1) <=> Equal(j, v, k - 1)
  BY <1>1, <1>2 DEF Equal
<1>5. l \in 1 .. l
  BY <1>1
<1>6. ASSUME Done(j, w, l) PROVE Done(j, v, l) \/ Equal(j, w, l)
  <2>1. PICK k \in 1 .. l : Equal(j, w, k - 1) /\ (j[k] < w[k] \/ (k = l /\ j[k] = w[k]))
    BY <1>6 DEF Done
  <2>2. Equal(j, v, k - 1)
    BY <1>4, <2>1
  <2>3. CASE k # l
    BY <1>2, <2>1, <2>2, <2>3 DEF Done
  <2>4. CASE k = l /\ j[k] = w[k]
    <3>1. ASSUME NEW i \in 1 .. l PROVE j[i] = w[i]
      <4>1. i = l \/ i \in 1 .. k - 1
        BY <1>1, <2>4
      <4>2. QED
        BY <2>1, <2>4, <4>1 DEF Equal
    <3>2. QED
      BY <3>1 DEF Equal
  <2>5. CASE k = l /\ j[k] < w[k]
    <3>1. j[k] < v[k] \/ j[k] = v[k]
      BY <1>2, <1>3, <2>5
    <3>2. QED
      BY <2>2, <2>5, <3>1 DEF Done
  <2>6. QED
    BY <2>1, <2>3, <2>4, <2>5
<1>7. ASSUME Done(j, v, l) PROVE Done(j, w, l)
  <2>1. PICK k \in 1 .. l : Equal(j, v, k - 1) /\ (j[k] < v[k] \/ (k = l /\ j[k] = v[k]))
    BY <1>7 DEF Done
  <2>2. j[k] < w[k]
    <3>1. CASE k = l
      BY <1>2, <1>3, <2>1, <3>1
    <3>2. CASE k # l
      BY <1>2, <2>1, <3>2
    <3>3. QED
      BY <3>1, <3>2
  <2>3. QED
    BY <1>4, <2>1, <2>2 DEF Done
<1>8. ASSUME Equal(j, w, l) PROVE Done(j, w, l)
  <2>1. Equal(j, w, l - 1) /\ j[l] = w[l]
    BY <1>1, <1>5, <1>8 DEF Equal
  <2>2. QED
    BY <1>5, <2>1 DEF Done
<1>9. ASSUME Done(w, v, l) PROVE FALSE
  <2>1. PICK k \in 1 .. l : Equal(w, v, k - 1) /\ (w[k] < v[k] \/ (k = l /\ w[k] = v[k]))
    BY <1>9 DEF Done
  <2>2. CASE k = l
    BY <1>2, <1>3, <2>1, <2>2
  <2>3. CASE k # l
    BY <1>2, <1>3, <2>1, <2>3
  <2>4. QED
    BY <2>2, <2>3
<1>10. QED
  BY <1>2, <1>6, <1>7, <1>8, <1>9

(* Probe m, the one behind l, starts over. *)
LEMMA DoneDescend ==
  ASSUME NEW j \in Turns, NEW v \in Turns, NEW l \in Joins, NEW m \in Joins, m = l + 1, j[m] # 0,
         NEW w, w = Advanced(v, l), NEW u, u = Restarted(w, m)
  PROVE  u \in Turns /\ (Done(j, u, m) <=> Done(j, v, l))
<1>1. NumJoins \in Nat /\ l \in Nat /\ m \in Nat /\ l # m /\ l \in 1 .. l /\ l >= 1 /\ l <= NumJoins
  BY JoinsAssumption DEF Joins
<1>2. w \in Turns /\ w[l] = v[l] + 1 /\ \A i \in Joins : i # l => w[i] = v[i]
  BY DEF Turns, Advanced
<1>3. u \in Turns /\ u[m] = 0 /\ \A i \in Joins : i # m => u[i] = w[i]
  BY <1>2 DEF Turns, Restarted
<1>4. \A i \in Joins : j[i] \in Nat /\ v[i] \in Nat /\ u[i] \in Nat
  BY <1>3 DEF Turns
<1>5. \A i \in 1 .. m : i \in Joins /\ (i = m \/ i \in 1 .. l)
  BY <1>1 DEF Joins
<1>6. \A i \in 1 .. l : i \in Joins /\ i \in 1 .. m /\ i # m /\ (i = l \/ i \in 1 .. l - 1)
  BY <1>1 DEF Joins
<1>7. u[l] = v[l] + 1
  BY <1>1, <1>2, <1>3
<1>8. \A i \in 1 .. l : i # l => u[i] = v[i]
  BY <1>2, <1>3, <1>6
<1>9. \A k \in 1 .. l : Equal(j, u, k - 1) <=> Equal(j, v, k - 1)
  <2> TAKE k \in 1 .. l
  <2>1. \A i \in 1 .. k - 1 : i \in 1 .. l /\ i # l
    BY <1>1
  <2>2. QED
    BY <1>8, <2>1 DEF Equal
<1>10. ASSUME Done(j, u, m) PROVE Done(j, v, l)
  <2>1. PICK k \in 1 .. m : Equal(j, u, k - 1) /\ (j[k] < u[k] \/ (k = m /\ j[k] = u[k]))
    BY <1>10 DEF Done
  <2>2. k # m
    <3>1. j[m] \in Nat
      BY <1>4
    <3>2. QED
      BY <1>3, <2>1, <3>1
  <2>3. k \in 1 .. l /\ j[k] < u[k] /\ Equal(j, v, k - 1) /\ k \in Joins
    BY <1>5, <1>9, <2>1, <2>2
  <2>4. CASE k = l
    <3>1. j[k] < v[k] \/ j[k] = v[k]
      BY <1>4, <1>7, <2>3, <2>4
    <3>2. QED
      BY <2>3, <2>4, <3>1 DEF Done
  <2>5. CASE k # l
    BY <1>8, <2>3, <2>5 DEF Done
  <2>6. QED
    BY <2>4, <2>5
<1>11. ASSUME Done(j, v, l) PROVE Done(j, u, m)
  <2>1. PICK k \in 1 .. l : Equal(j, v, k - 1) /\ (j[k] < v[k] \/ (k = l /\ j[k] = v[k]))
    BY <1>11 DEF Done
  <2>2. k \in 1 .. m /\ Equal(j, u, k - 1) /\ k \in Joins
    BY <1>6, <1>9, <2>1
  <2>3. j[k] < u[k]
    <3>1. CASE k = l
      BY <1>4, <1>7, <2>1, <2>2, <3>1
    <3>2. CASE k # l
      BY <1>8, <2>1, <3>2
    <3>3. QED
      BY <3>1, <3>2
  <2>4. QED
    BY <2>2, <2>3 DEF Done
<1>12. QED
  BY <1>3, <1>10, <1>11

(* Probe l has no more. *)
LEMMA DoneBackUp ==
  ASSUME NEW j \in Turns, NEW v \in Turns, NEW l \in Joins, l # 1, Equal(j, v, l - 1) => j[l] <= v[l]
  PROVE  Done(j, v, l) <=> Done(j, v, l - 1)
<1>1. NumJoins \in Nat /\ l \in 2 .. NumJoins
  BY JoinsAssumption DEF Joins
<1>2. \A i \in 1 .. l : j[i] \in Nat /\ v[i] \in Nat
  BY <1>1 DEF Turns, Joins
<1>3. ASSUME Done(j, v, l) PROVE Done(j, v, l - 1)
  <2>1. PICK k \in 1 .. l : Equal(j, v, k - 1) /\ (j[k] < v[k] \/ (k = l /\ j[k] = v[k]))
    BY <1>3 DEF Done
  <2>2. CASE k # l
    <3>1. k \in 1 .. l - 1
      BY <1>1, <2>2
    <3>2. QED
      BY <2>1, <2>2, <3>1 DEF Done
  <2>3. CASE k = l
    <3>1. l - 1 \in 1 .. l - 1 /\ Equal(j, v, (l - 1) - 1) /\ j[l - 1] = v[l - 1]
      BY <1>1, <2>1, <2>3 DEF Equal
    <3>2. QED
      BY <3>1 DEF Done
  <2>4. QED
    BY <2>2, <2>3
<1>4. ASSUME Done(j, v, l - 1) PROVE Done(j, v, l)
  <2>1. PICK k \in 1 .. l - 1 : Equal(j, v, k - 1) /\ (j[k] < v[k] \/ (k = l - 1 /\ j[k] = v[k]))
    BY <1>4 DEF Done
  <2>2. k \in 1 .. l /\ l \in 1 .. l
    BY <1>1
  <2>3. CASE j[k] < v[k]
    BY <2>1, <2>2, <2>3 DEF Done
  <2>4. CASE k = l - 1 /\ j[k] = v[k]
    <3>1. Equal(j, v, l - 1)
      <4>1. ASSUME NEW i \in 1 .. l - 1 PROVE j[i] = v[i]
        <5>1. i = k \/ i \in 1 .. k - 1
          BY <1>1, <2>4
        <5>2. QED
          BY <2>1, <2>4, <5>1 DEF Equal
      <4>2. QED
        BY <4>1 DEF Equal
    <3>2. j[l] < v[l] \/ j[l] = v[l]
      BY <1>2, <2>2, <3>1
    <3>3. QED
      BY <2>2, <3>1, <3>2 DEF Done
  <2>5. QED
    BY <2>1, <2>3, <2>4
<1>5. QED
  BY <1>3, <1>4

----------------------------------------------------------------------------
(* A turn of an inner join *)

(* A probe for the same vector as p. *)
Kin(q, p) ==
  /\ IsProbe(q) /\ q.keys = p.keys /\ q.initial_match_list = p.initial_match_list
  /\ q.initial_matches = p.initial_matches

(* The tuples of S whose entry for turn v has their key. *)
Hits(k, v, S) == {t \in Live(k, v, S) : KeyAt(k, t, v)}

(* No tuple of S has an entry after turn v. *)
NoMore(k, v, S) == \A t \in S : Len(Chain(k, t)) <= v

(* p, after v turns with the tuples of S, with the matches X. *)
After(q, p, k, v, S, X) ==
  /\ Turned(q, k, v, S)
  /\ q.key_matches = X
  /\ q.initial_match_list = p.initial_match_list
  /\ q.initial_matches = p.initial_matches

(* What a turn begins with. *)
LEMMA AfterStep ==
  ASSUME NEW p, NEW k, NEW v \in Nat, NEW S, S # {}, Chained(k, S), Turned(p, k, v, S), NEW seen, NEW q, q = Step(p, seen)
  PROVE  After(q, p, k, v + 1, S, Live(k, v + 1, S) \ seen)
<1>1. Turned(q, k, v + 1, S) /\ q.key_matches = Live(k, v + 1, S) \ seen
  BY StepTurned
<1>2. q.initial_match_list = p.initial_match_list /\ q.initial_matches = p.initial_matches
  <2>1. IsProbe(p) /\ p.first \in BOOLEAN
    BY DEF Turned, Stands
  <2>2. \E N, X, C, f : Like(q, p, N, X, C, f)
    BY <2>1, StepOf
  <2>3. QED
    BY <2>2 DEF Like
<1>3. QED
  BY <1>1, <1>2 DEF After

(* What it ends with. *)
LEMMA AfterCheck ==
  ASSUME NEW p, NEW k, NEW v \in Nat, v # 0, NEW S, S # {}, Chained(k, S), Turned(p, k, v, S),
         p.key_matches \subseteq Live(k, v, S), NEW q, q = CheckKeyEquality(p)
  PROVE  After(q, p, k, v, S, {t \in p.key_matches : KeyAt(k, t, v)})
BY CheckTurned DEF After

(* A turn of NextInnerJoin: the chains have ended, or one more entry of every *)
(* chain has been looked at.                                                *)
LEMMA InnerTurnRight ==
  ASSUME NEW k, NEW S, Chained(k, S), NEW v \in Nat, NEW p, Turned(p, k, v, S), NEW turn, turn = InnerTurn(p),
         NEW q, q = turn.probe
  PROVE  /\ turn.outcome \in {"none", "more", "found"} /\ Kin(q, p)
         /\ turn.outcome = "none" => NoMore(k, v, S)
         /\ turn.outcome = "more" => Turned(q, k, v + 1, S) /\ Hits(k, v + 1, S) = {}
         /\ turn.outcome = "found" => Turned(q, k, v + 1, S) /\ q.key_matches = Hits(k, v + 1, S)
<1> DEFINE s == Step(p, {})
           r == CheckKeyEquality(s)
           no == "none"
           o == IF r.key_matches # {} THEN "found" ELSE "more"
<1>1. PICK R : \A t \in S : Chain(k, t) \in Seq(R)
  BY DEF Chained
<1>2. \A t \in S : Len(Chain(k, t)) \in Nat /\ (Chain(k, t) # <<>> <=> Len(Chain(k, t)) # 0)
  BY <1>1
<1>3. IsProbe(p) /\ p.non_null_entries = Live(k, v, S)
  BY DEF Turned
<1>4. CASE p.non_null_entries = {}
  <2>1. turn = [outcome |-> no, probe |-> p]
    BY <1>4, Zenon DEF InnerTurn
  <2>2. turn.outcome = "none" /\ q = p
    BY <2>1
  <2>3. NoMore(k, v, S)
    BY <1>2, <1>3, <1>4 DEF Live, NoMore
  <2>4. Kin(q, p)
    BY <1>3, <2>2 DEF Kin
  <2>5. QED
    BY <2>2, <2>3, <2>4
<1>5. CASE p.non_null_entries # {}
  <2>1. S # {}
    BY <1>3, <1>5 DEF Live
  <2>2. /\ Turned(s, k, v + 1, S) /\ s.key_matches = Live(k, v + 1, S) \ {}
        /\ s.initial_match_list = p.initial_match_list /\ s.initial_matches = p.initial_matches
    <3> DEFINE seen == {}
    <3> HIDE DEF seen
    <3>1. PICK x : x = Step(p, seen)
      OBVIOUS
    <3>2. After(x, p, k, v + 1, S, Live(k, v + 1, S) \ seen)
      BY <2>1, <3>1, AfterStep
    <3>3. x = s
      BY <3>1, Zenon DEF seen
    <3> HIDE DEF s
    <3>4. QED
      BY <3>2, <3>3 DEF seen, After
  <2>3. p.keys = vector.keys[k] /\ s.keys = vector.keys[k] /\ IsProbe(s) /\ s.key_matches = Live(k, v + 1, S)
    BY <2>1, <2>2 DEF Turned, Stands
  <2>4. CASE s.key_matches = {}
    <3>1. turn = [outcome |-> no, probe |-> s]
      BY <1>5, <2>4, Zenon DEF InnerTurn
    <3> HIDE DEF s
    <3>2. turn.outcome = "none" /\ q = s
      BY <3>1
    <3>3. NoMore(k, v, S)
      <4>1. ASSUME NEW t \in S PROVE Len(Chain(k, t)) <= v
        <5>1. ~(Chain(k, t) # <<>> /\ v + 1 <= Len(Chain(k, t)))
          BY <2>3, <2>4 DEF Live
        <5>2. QED
          BY <1>2, <5>1
      <4>2. QED
        BY <4>1 DEF NoMore
    <3>4. Kin(q, p)
      BY <2>2, <2>3, <3>2 DEF Kin
    <3>5. QED
      BY <3>2, <3>3, <3>4
  <2>5. CASE s.key_matches # {}
    <3>1. turn = [outcome |-> o, probe |-> r]
      BY <1>5, <2>5, Zenon DEF InnerTurn
    <3> HIDE DEF o
    <3>2. turn.outcome = o /\ q = r
      BY <3>1
    <3>3. /\ Turned(r, k, v + 1, S) /\ r.key_matches = {t \in s.key_matches : KeyAt(k, t, v + 1)}
          /\ r.initial_match_list = s.initial_match_list /\ r.initial_matches = s.initial_matches
      <4>1. v + 1 \in Nat /\ v + 1 # 0 /\ s.key_matches \subseteq Live(k, v + 1, S)
        BY <2>3
      <4>2. PICK x : x = s
        OBVIOUS
      <4>3. PICK y : y = r
        OBVIOUS
      <4> HIDE DEF s, r
      <4>4. y = CheckKeyEquality(x)
        BY <4>2, <4>3, Zenon DEF r
      <4>5. Turned(x, k, v + 1, S) /\ x.key_matches \subseteq Live(k, v + 1, S)
        BY <2>2, <4>1, <4>2
      <4>6. After(y, x, k, v + 1, S, {t \in x.key_matches : KeyAt(k, t, v + 1)})
        BY <2>1, <4>1, <4>4, <4>5, AfterCheck
      <4>7. QED
        BY <4>2, <4>3, <4>6 DEF After
    <3> HIDE DEF s, r
    <3>4. r.key_matches = Hits(k, v + 1, S)
      BY <2>3, <3>3 DEF Hits
    <3>5. Kin(q, p)
      <4>1. IsProbe(r) /\ r.keys = vector.keys[k]
        BY <2>1, <3>3 DEF Turned, Stands
      <4>2. QED
        BY <2>2, <2>3, <3>2, <3>3, <4>1 DEF Kin
    <3>6. turn.outcome = IF r.key_matches # {} THEN "found" ELSE "more"
      BY <3>2 DEF o
    <3>7. QED
      BY <3>2, <3>3, <3>4, <3>5, <3>6
  <2>6. QED
    BY <2>4, <2>5
<1>6. QED
  BY <1>4, <1>5

(* A call of Next for the tuples the probe is at changes nothing. *)
LEMMA FilterSame ==
  ASSUME NEW k, NEW v, NEW S, NEW p, Turned(p, k, v, S), NEW q, q = ApplyInputFilter(p, S)
  PROVE  Turned(q, k, v, S) /\ Kin(q, p) /\ q.key_matches = p.key_matches
<1>1. IsProbe(p) /\ p.non_null_entries = Live(k, v, S)
  BY DEF Turned
<1>2. Like(q, p, p.non_null_entries \cap S, p.key_matches, p.curr_matches, p.first)
  BY <1>1, FilterOf
<1>3. p.non_null_entries \cap S = Live(k, v, S)
  BY <1>1 DEF Live
<1>4. /\ IsProbe(q) /\ q.keys = p.keys /\ q.initial_match_list = p.initial_match_list
      /\ q.initial_matches = p.initial_matches /\ q.non_null_entries = Live(k, v, S)
      /\ q.key_matches = p.key_matches /\ q.curr_matches = p.curr_matches /\ q.first = p.first
  BY <1>2, <1>3 DEF Like
<1>5. S # {} => Stands(q, k, v)
  BY <1>1, <1>4 DEF Turned, Stands
<1>6. QED
  BY <1>1, <1>4, <1>5 DEF Turned, Kin

(* The tuples that may have a match in every table. *)
Candidates == {t \in passed : \A k \in Joins : Chain(k, t) # <<>>}

(* Probe p was initialised for the vector, with at least the candidates. *)
Ready(p, k) ==
  /\ p.keys = vector.keys[k] /\ Candidates \subseteq p.initial_match_list
  /\ \A t \in Candidates : p.initial_matches[t] = Chain(k, t)

(* It has not moved. *)
AtStart(p) == p.first = TRUE /\ p.non_null_entries = p.initial_match_list /\ p.curr_matches = p.initial_matches

(* A call of Next for candidates starts a probe that has not moved. *)
LEMMA FreshTurned ==
  ASSUME NEW k \in Joins, NEW S, S \subseteq Candidates, Chained(k, S), NEW p, IsProbe(p), S # {} => Ready(p, k) /\ AtStart(p),
         NEW q, q = ApplyInputFilter(p, S)
  PROVE  Turned(q, k, 0, S) /\ Kin(q, p)
<1>1. Like(q, p, p.non_null_entries \cap S, p.key_matches, p.curr_matches, p.first)
  BY FilterOf
<1>2. /\ IsProbe(q) /\ q.keys = p.keys /\ q.initial_match_list = p.initial_match_list
      /\ q.initial_matches = p.initial_matches /\ q.non_null_entries = p.non_null_entries \cap S
      /\ q.curr_matches = p.curr_matches /\ q.first = p.first
  BY <1>1 DEF Like
<1>3. PICK R : \A t \in S : Chain(k, t) \in Seq(R)
  BY DEF Chained
<1>4. Live(k, 0, S) = S
  BY <1>3 DEF Live, Candidates
<1>5. q.non_null_entries = S
  <2>1. CASE S = {}
    BY <1>2, <2>1
  <2>2. CASE S # {}
    BY <1>2, <2>2 DEF Ready, AtStart
  <2>3. QED
    BY <2>1, <2>2
<1>6. ASSUME S # {} PROVE Stands(q, k, 0)
  <2>1. ASSUME NEW t \in S PROVE q.curr_matches[t] = SubSeq(Chain(k, t), 1, Len(Chain(k, t)))
    <3>1. q.curr_matches[t] = Chain(k, t)
      BY <1>2, <1>6 DEF Ready, AtStart
    <3>2. SubSeq(Chain(k, t), 1, Len(Chain(k, t))) = Chain(k, t)
      BY <1>3
    <3>3. QED
      BY <3>1, <3>2
  <2>2. q.keys = vector.keys[k] /\ q.first = (0 = 0)
    BY <1>2, <1>6 DEF Ready, AtStart
  <2>3. QED
    BY <1>5, <2>1, <2>2 DEF Stands
<1>7. QED
  BY <1>2, <1>4, <1>5, <1>6 DEF Turned, Kin

(* A probe that is reset has not moved. *)
LEMMA ResetStarts ==
  ASSUME NEW p, IsProbe(p), NEW q, q = ProbeReset(p)
  PROVE  Kin(q, p) /\ AtStart(q)
<1>1. Like(q, p, p.initial_match_list, p.initial_match_list, p.initial_matches, TRUE)
  BY ResetOf
<1>2. QED
  BY <1>1 DEF Like, Kin, AtStart

----------------------------------------------------------------------------
(* All probes *)

(* The candidates have a chain in every table. *)
ChainsRight ==
  /\ Candidates \subseteq Tids
  /\ \A k \in Joins : \A t \in Candidates : Chain(k, t) \in Seq(Range(tables[k].rows)) /\ IsInjective(Chain(k, t))

(* So it stays a chain for the tuples of any part of them. *)
LEMMA CandidatesChained ==
  ASSUME ChainsRight, NEW k \in Joins, NEW S, S \subseteq Candidates
  PROVE  Chained(k, S)
<1>1. \A t \in S : Chain(k, t) \in Seq(Range(tables[k].rows))
  BY DEF ChainsRight
<1>2. QED
  BY <1>1 DEF Chained, ChainsRight

(* The tuples whose entries v of the probes before k have their keys. *)
Matching(v, k) ==
  {t \in Candidates : \A i \in 1 .. k - 1 : v[i] <= Len(Chain(i, t)) /\ KeyAt(i, t, v[i])}

(* They depend on the turns of those probes only. *)
LEMMA SameMatching ==
  ASSUME NEW v, NEW w, NEW k, \A i \in 1 .. k - 1 : w[i] = v[i]
  PROVE  Matching(w, k) = Matching(v, k)
BY DEF Matching

(* For the first probe they are all of the candidates. *)
LEMMA MatchingFirst ==
  ASSUME NEW v
  PROVE  Matching(v, 1) = Candidates
BY DEF Matching

(* The matches of probe k are the input of the next. *)
LEMMA MatchingNext ==
  ASSUME NEW v \in Turns, NEW k \in Joins
  PROVE  Hits(k, v[k], Matching(v, k)) = Matching(v, k + 1)
<1>1. k \in Nat /\ k # 0
  BY JoinsAssumption DEF Joins
<1>2. \A i : i \in 1 .. (k + 1) - 1 <=> i = k \/ i \in 1 .. k - 1
  BY <1>1
<1>3. \A t \in Candidates : Chain(k, t) # <<>>
  BY DEF Candidates
<1>4. ASSUME NEW t \in Candidates PROVE t \in Hits(k, v[k], Matching(v, k)) <=> t \in Matching(v, k + 1)
  <2>1. t \in Hits(k, v[k], Matching(v, k))
          <=> v[k] <= Len(Chain(k, t)) /\ KeyAt(k, t, v[k])
              /\ \A i \in 1 .. k - 1 : v[i] <= Len(Chain(i, t)) /\ KeyAt(i, t, v[i])
    BY <1>3 DEF Hits, Live, Matching
  <2>2. t \in Matching(v, k + 1) <=> \A i \in 1 .. (k + 1) - 1 : v[i] <= Len(Chain(i, t)) /\ KeyAt(i, t, v[i])
    BY DEF Matching
  <2>3. QED
    BY <1>2, <2>1, <2>2
<1>5. \A t \in Hits(k, v[k], Matching(v, k)) : t \in Candidates
  BY DEF Hits, Live, Matching
<1>6. \A t \in Matching(v, k + 1) : t \in Candidates
  BY DEF Matching
<1>7. QED
  BY <1>4, <1>5, <1>6

(* Probe l has taken v[l] turns with what the probes before it have found. *)
Standing(ps, v, l) ==
  /\ \A k \in 1 .. l : Turned(ps[k], k, v[k], Matching(v, k))
  /\ \A k \in 1 .. l - 1 : v[k] # 0 /\ ps[k].key_matches = Matching(v, k + 1)

(* Entry j[k] of every chain k of tuple t has its key. *)
IsMatch(t, j) == \A k \in Joins : j[k] \in 1 .. Len(Chain(k, t)) /\ KeyAt(k, t, j[k])

MatchOf(t, j) == <<t, [k \in Joins |-> Chain(k, t)[j[k]]]>>

(* O is what the entries passed so far give. *)
OutputIs(O, v, l) ==
  \A o : o \in O <=> \E t, j : t \in Candidates /\ j \in Turns /\ IsMatch(t, j) /\ Done(j, v, l) /\ o = MatchOf(t, j)

(* What passes the same entries gives the same output. *)
LEMMA SameOutput ==
  ASSUME NEW O, NEW v, NEW l, NEW w, NEW m, OutputIs(O, v, l),
         \A t \in Candidates : \A j \in Turns : IsMatch(t, j) => (Done(j, v, l) <=> Done(j, w, m))
  PROVE  OutputIs(O, w, m)
BY DEF OutputIs

(* The tuples with the entries w of the probes up to l. *)
LEMMA EqualMatches ==
  ASSUME NEW t \in Candidates, NEW j \in Turns, IsMatch(t, j), NEW w \in Turns, NEW l, l - 1 <= NumJoins, l \in Nat, Equal(j, w, l - 1)
  PROVE  t \in Matching(w, l)
<1>1. \A i \in 1 .. l - 1 : i \in Joins /\ w[i] = j[i]
  BY JoinsAssumption DEF Joins, Equal
<1>2. ASSUME NEW i \in 1 .. l - 1 PROVE w[i] <= Len(Chain(i, t)) /\ KeyAt(i, t, w[i])
  <2>1. j[i] \in 1 .. Len(Chain(i, t)) /\ KeyAt(i, t, j[i])
    BY <1>1 DEF IsMatch
  <2>2. QED
    BY <1>1, <2>1
<1>3. QED
  BY <1>2 DEF Matching

(* The probes are initialised for the vector. *)
Fit(ps) ==
  /\ ps = [k \in Joins |-> ps[k]] /\ \A k \in Joins : IsProbe(ps[k])
  /\ Candidates # {} => \A k \in Joins : Ready(ps[k], k)

(* The probes behind l have not moved. *)
Waiting(ps, l) == Candidates # {} => \A k \in Joins : l < k => AtStart(ps[k])

(* The probes are on their way, with probe l to move. *)
Advancing(ps, O, l, first) ==
  /\ l \in Joins /\ Fit(ps) /\ (first => Waiting(ps, l))
  /\ \E v \in Turns : Standing(ps, v, l) /\ OutputIs(O, v, l)

Put(ps, l, b) == [ps EXCEPT ![l] = b]

(* A probe for the same vector takes the place of probe l. *)
LEMMA FitKept ==
  ASSUME NEW ps, Fit(ps), NEW l \in Joins, NEW b, Kin(b, ps[l]), NEW qs, qs = Put(ps, l, b)
  PROVE  Fit(qs) /\ qs[l] = b /\ \A k \in Joins : k # l => qs[k] = ps[k]
<1>1. ps = [k \in Joins |-> ps[k]] /\ \A k \in Joins : IsProbe(ps[k])
  BY DEF Fit
<1>2. qs = [k \in Joins |-> qs[k]] /\ qs[l] = b /\ \A k \in Joins : k # l => qs[k] = ps[k]
  BY <1>1 DEF Put
<1>3. \A k \in Joins : IsProbe(qs[k])
  BY <1>1, <1>2 DEF Kin
<1>4. ASSUME Candidates # {}, NEW k \in Joins PROVE Ready(qs[k], k)
  <2>1. Ready(ps[k], k)
    BY <1>4 DEF Fit
  <2>2. CASE k = l
    BY <1>2, <2>1, <2>2 DEF Kin, Ready
  <2>3. QED
    BY <1>2, <2>1, <2>2
<1>5. QED
  BY <1>2, <1>3, <1>4 DEF Fit

(* The probes behind l still wait. *)
LEMMA WaitingKept ==
  ASSUME NEW ps, NEW qs, NEW l, NEW m, Waiting(ps, l), \A k \in Joins : m < k => l < k /\ qs[k] = ps[k]
  PROVE  Waiting(qs, m)
BY DEF Waiting

(* Probe l takes a turn. *)
LEMMA TurnStands ==
  ASSUME NEW ps, NEW l \in Joins, NEW v \in Turns, Standing(ps, v, l), NEW w, w = Advanced(v, l),
         NEW b, Turned(b, l, v[l] + 1, Matching(v, l)), NEW qs, qs[l] = b, \A k \in Joins : k # l => qs[k] = ps[k]
  PROVE  w \in Turns /\ Standing(qs, w, l) /\ Matching(w, l) = Matching(v, l) /\ w[l] = v[l] + 1 /\ w[l] # 0
<1>1. NumJoins \in Nat /\ l \in Nat /\ l # 0 /\ l <= NumJoins
  BY JoinsAssumption DEF Joins
<1>2. w \in Turns /\ w[l] = v[l] + 1 /\ \A i \in Joins : i # l => w[i] = v[i]
  BY DEF Turns, Advanced
<1>3. v[l] \in Nat
  BY DEF Turns
<1>4. \A k \in 1 .. l : Matching(w, k) = Matching(v, k)
  <2> TAKE k \in 1 .. l
  <2>1. \A i \in 1 .. k - 1 : i \in Joins /\ i # l
    BY <1>1 DEF Joins
  <2>2. \A i \in 1 .. k - 1 : w[i] = v[i]
    BY <1>2, <2>1
  <2>3. QED
    BY <2>2, SameMatching
<1>5. ASSUME NEW k \in 1 .. l PROVE Turned(qs[k], k, w[k], Matching(w, k))
  <2>1. k \in Joins
    BY <1>1 DEF Joins
  <2>2. CASE k = l
    BY <1>2, <1>4, <2>2
  <2>3. CASE k # l
    BY <1>2, <1>4, <2>1, <2>3 DEF Standing
  <2>4. QED
    BY <2>2, <2>3
<1>6. ASSUME NEW k \in 1 .. l - 1 PROVE w[k] # 0 /\ qs[k].key_matches = Matching(w, k + 1)
  <2>1. k \in Joins /\ k # l /\ k + 1 \in 1 .. l
    BY <1>1 DEF Joins
  <2>2. v[k] # 0 /\ ps[k].key_matches = Matching(v, k + 1)
    BY DEF Standing
  <2>3. QED
    BY <1>2, <1>4, <2>1, <2>2
<1>7. l \in 1 .. l
  BY <1>1
<1>8. Standing(qs, w, l)
  BY <1>5, <1>6 DEF Standing
<1>9. QED
  BY <1>2, <1>3, <1>4, <1>7, <1>8

(* No tuple has a match. *)
LEMMA KeepsLooking ==
  ASSUME ChainsRight, NEW ps, NEW O, NEW l, NEW first, Advancing(ps, O, l, first), NEW turn, turn = InnerTurn(ps[l]),
         turn.outcome = "more", NEW b, b = turn.probe, NEW qs, qs = Put(ps, l, b)
  PROVE  Advancing(qs, O, l, first)
<1>1. l \in Joins /\ Fit(ps) /\ l \in Nat /\ l # 0 /\ l <= NumJoins /\ NumJoins \in Nat
  BY JoinsAssumption DEF Advancing, Joins
<1>2. PICK v \in Turns : Standing(ps, v, l) /\ OutputIs(O, v, l)
  BY DEF Advancing
<1>3. l \in 1 .. l /\ v[l] \in Nat
  BY <1>1 DEF Turns
<1>4. Turned(ps[l], l, v[l], Matching(v, l))
  BY <1>2, <1>3 DEF Standing
<1>5. Chained(l, Matching(v, l))
  <2>1. Matching(v, l) \subseteq Candidates
    BY DEF Matching
  <2>2. QED
    BY <1>1, <2>1, CandidatesChained
<1>6. Kin(b, ps[l]) /\ Turned(b, l, v[l] + 1, Matching(v, l)) /\ Hits(l, v[l] + 1, Matching(v, l)) = {}
  BY <1>3, <1>4, <1>5, InnerTurnRight
<1>7. Fit(qs) /\ qs[l] = b /\ \A k \in Joins : k # l => qs[k] = ps[k]
  BY <1>1, <1>6, FitKept
<1>8. PICK w : w = Advanced(v, l)
  OBVIOUS
<1>9. w \in Turns /\ Standing(qs, w, l) /\ Matching(w, l) = Matching(v, l) /\ w[l] = v[l] + 1
  BY <1>1, <1>2, <1>6, <1>7, <1>8, TurnStands
<1>10. ASSUME NEW t \in Candidates, NEW j \in Turns, IsMatch(t, j) PROVE Done(j, v, l) <=> Done(j, w, l)
  <2>1. Done(j, w, l) <=> (Done(j, v, l) \/ Equal(j, w, l))
    BY <1>1, <1>8, DoneTurn
  <2>2. ASSUME Equal(j, w, l) PROVE FALSE
    <3>1. Equal(j, w, (l + 1) - 1) /\ l + 1 \in Nat /\ (l + 1) - 1 <= NumJoins
      BY <1>1, <2>2
    <3>2. t \in Matching(w, l + 1)
      BY <1>9, <1>10, <3>1, EqualMatches
    <3>3. Hits(l, w[l], Matching(w, l)) = {}
      BY <1>6, <1>9
    <3>4. QED
      BY <1>1, <1>9, <3>2, <3>3, MatchingNext
  <2>3. QED
    BY <2>1, <2>2
<1>11. OutputIs(O, w, l)
  BY <1>2, <1>10, SameOutput
<1>12. first => Waiting(qs, l)
  <2>1. \A k \in Joins : l < k => k # l
    BY <1>1 DEF Joins
  <2>2. QED
    BY <1>7, <2>1, WaitingKept DEF Advancing
<1>13. QED
  BY <1>1, <1>7, <1>9, <1>11, <1>12 DEF Advancing

(* A probe for the vector of a probe for the vector of p. *)
LEMMA KinOfKin ==
  ASSUME NEW p, NEW q, NEW r, Kin(q, p), Kin(r, q)
  PROVE  Kin(r, p)
BY DEF Kin

(* Probe l found matches, and the next one starts with them. *)
LEMMA Descends ==
  ASSUME ChainsRight, NEW ps, NEW O, NEW l, NEW first, Advancing(ps, O, l, first), NEW turn, turn = InnerTurn(ps[l]),
         turn.outcome = "found", NEW b, b = turn.probe, NEW X, X = b.key_matches, NEW m, m \in Joins, m = l + 1,
         NEW c, c = (IF first THEN ps[m] ELSE ProbeReset(ps[m])), NEW d, d = ApplyInputFilter(c, X),
         NEW qs, qs = Put(ps, l, b), NEW rs, rs = Put(qs, m, d)
  PROVE  Advancing(rs, O, m, first)
<1>1. l \in Joins /\ Fit(ps) /\ l \in Nat /\ l # 0 /\ l <= NumJoins /\ NumJoins \in Nat /\ l # m /\ m - 1 = l /\ m <= NumJoins
  BY JoinsAssumption DEF Advancing, Joins
<1>2. PICK v \in Turns : Standing(ps, v, l) /\ OutputIs(O, v, l)
  BY DEF Advancing
<1>3. l \in 1 .. l /\ v[l] \in Nat
  BY <1>1 DEF Turns
<1>4. Turned(ps[l], l, v[l], Matching(v, l))
  BY <1>2, <1>3 DEF Standing
<1>5. Chained(l, Matching(v, l))
  <2>1. Matching(v, l) \subseteq Candidates
    BY DEF Matching
  <2>2. QED
    BY <1>1, <2>1, CandidatesChained
<1>6. Kin(b, ps[l]) /\ Turned(b, l, v[l] + 1, Matching(v, l)) /\ X = Hits(l, v[l] + 1, Matching(v, l))
  BY <1>3, <1>4, <1>5, InnerTurnRight
<1>7. Fit(qs) /\ qs[l] = b /\ \A k \in Joins : k # l => qs[k] = ps[k]
  <2>1. l \in Joins /\ Fit(ps) /\ Kin(b, ps[l]) /\ qs = Put(ps, l, b)
    BY <1>1, <1>6
  <2>2. QED
    BY ONLY <2>1, FitKept
<1>8. PICK w : w = Advanced(v, l)
  OBVIOUS
<1>9. w \in Turns /\ Standing(qs, w, l) /\ Matching(w, l) = Matching(v, l) /\ w[l] = v[l] + 1 /\ w[l] # 0
  BY <1>1, <1>2, <1>6, <1>7, <1>8, TurnStands
<1>10. X = Matching(w, m)
  BY <1>1, <1>6, <1>9, MatchingNext
<1>11. X \subseteq Candidates
  BY <1>10 DEF Matching
<1>12. IsProbe(ps[m]) /\ IsProbe(c) /\ Kin(c, ps[m]) /\ (X # {} => Ready(c, m) /\ AtStart(c))
  <2>1. IsProbe(ps[m]) /\ (X # {} => Ready(ps[m], m))
    BY <1>1, <1>11 DEF Fit
  <2>2. CASE first
    <3>1. c = ps[m] /\ Kin(c, ps[m])
      BY <2>1, <2>2 DEF Kin
    <3>2. X # {} => AtStart(ps[m])
      BY <1>1, <1>11, <2>2 DEF Advancing, Waiting
    <3>3. QED
      BY <2>1, <3>1, <3>2
  <2>3. CASE ~first
    <3>1. c = ProbeReset(ps[m])
      BY <2>3
    <3>2. Kin(c, ps[m]) /\ AtStart(c)
      BY <2>1, <3>1, ResetStarts
    <3>3. IsProbe(c) /\ (X # {} => Ready(c, m))
      BY <2>1, <3>2 DEF Kin, Ready
    <3>4. QED
      BY <2>1, <3>2, <3>3
  <2>4. QED
    BY <2>2, <2>3
<1>13. Turned(d, m, 0, X) /\ Kin(d, c)
  <2>1. Chained(m, X)
    BY <1>11, CandidatesChained
  <2>2. QED
    BY <1>11, <1>12, <2>1, FreshTurned
<1>14. Kin(d, qs[m])
  BY <1>1, <1>7, <1>12, <1>13, KinOfKin
<1>15. Fit(rs) /\ rs[m] = d /\ \A k \in Joins : k # m => rs[k] = qs[k]
  BY <1>7, <1>14, FitKept
<1>16. PICK u : u = Restarted(w, m)
  OBVIOUS
<1>17. u \in Turns /\ u[m] = 0 /\ \A i \in Joins : i # m => u[i] = w[i]
  BY <1>9, <1>16 DEF Turns, Restarted
<1>18. \A k \in 1 .. m : k \in Joins /\ Matching(u, k) = Matching(w, k)
  <2> TAKE k \in 1 .. m
  <2>1. k \in Joins /\ \A i \in 1 .. k - 1 : i \in Joins /\ i # m
    BY <1>1 DEF Joins
  <2>2. \A i \in 1 .. k - 1 : u[i] = w[i]
    BY <1>17, <2>1
  <2>3. QED
    BY <2>1, <2>2, SameMatching
<1>19. ASSUME NEW k \in 1 .. m PROVE Turned(rs[k], k, u[k], Matching(u, k))
  <2>1. CASE k = m
    BY <1>10, <1>13, <1>15, <1>17, <1>18, <2>1
  <2>2. CASE k # m
    <3>1. k \in 1 .. l
      BY <1>1, <2>2
    <3>2. Turned(qs[k], k, w[k], Matching(w, k))
      BY <1>9, <3>1 DEF Standing
    <3>3. QED
      BY <1>15, <1>17, <1>18, <2>2, <3>2
  <2>3. QED
    BY <2>1, <2>2
<1>20. ASSUME NEW k \in 1 .. m - 1 PROVE u[k] # 0 /\ rs[k].key_matches = Matching(u, k + 1)
  <2>1. k \in 1 .. m /\ k + 1 \in 1 .. m /\ k # m /\ k \in 1 .. l /\ (k = l \/ k \in 1 .. l - 1)
    BY <1>1
  <2>2. w[k] # 0 /\ qs[k].key_matches = Matching(w, k + 1)
    <3>1. CASE k = l
      BY <1>7, <1>9, <1>10, <3>1
    <3>2. CASE k # l
      BY <1>9, <2>1, <3>2 DEF Standing
    <3>3. QED
      BY <3>1, <3>2
  <2>3. QED
    BY <1>15, <1>17, <1>18, <2>1, <2>2
<1>21. Standing(rs, u, m)
  BY <1>19, <1>20 DEF Standing
<1>22. ASSUME NEW t \in Candidates, NEW j \in Turns, IsMatch(t, j) PROVE Done(j, v, l) <=> Done(j, u, m)
  <2>1. j[m] # 0
    <3>1. j[m] \in 1 .. Len(Chain(m, t))
      BY <1>22 DEF IsMatch
    <3>2. QED
      BY <3>1
  <2>2. QED
    BY <1>1, <1>8, <1>16, <2>1, DoneDescend
<1>23. OutputIs(O, u, m)
  BY <1>2, <1>22, SameOutput
<1>24. first => Waiting(rs, m)
  <2>1. \A k \in Joins : m < k => k # l /\ k # m /\ l < k
    BY <1>1 DEF Joins
  <2>2. \A k \in Joins : m < k => l < k /\ rs[k] = ps[k]
    BY <1>7, <1>15, <2>1
  <2>3. QED
    BY <2>2, WaitingKept DEF Advancing
<1>25. QED
  BY <1>15, <1>17, <1>21, <1>23, <1>24 DEF Advancing

(* Probe l has no more, and the one before it goes on. *)
LEMMA BacksUp ==
  ASSUME ChainsRight, NEW ps, NEW O, NEW l, NEW first, Advancing(ps, O, l, first), NEW turn, turn = InnerTurn(ps[l]),
         turn.outcome = "none", NEW b, b = turn.probe, NEW m, m \in Joins, m = l - 1,
         NEW X, X = (IF m = 1 THEN Candidates ELSE ps[m - 1].key_matches),
         NEW c, c = (IF first THEN ProbeReset(b) ELSE b), NEW d, d = ApplyInputFilter(ps[m], X),
         NEW qs, qs = Put(ps, l, c), NEW rs, rs = Put(qs, m, d)
  PROVE  Advancing(rs, O, m, first)
<1>1. l \in Joins /\ Fit(ps) /\ l \in Nat /\ l # 0 /\ l <= NumJoins /\ NumJoins \in Nat /\ l # m /\ m + 1 = l /\ l # 1 /\ m < l /\ m \in Nat /\ m # 0
  BY JoinsAssumption DEF Advancing, Joins
<1>2. PICK v \in Turns : Standing(ps, v, l) /\ OutputIs(O, v, l)
  BY DEF Advancing
<1>3. l \in 1 .. l /\ v[l] \in Nat /\ m \in 1 .. l - 1 /\ m \in 1 .. l
  BY <1>1 DEF Turns
<1>4. Turned(ps[l], l, v[l], Matching(v, l)) /\ Turned(ps[m], m, v[m], Matching(v, m))
  BY <1>2, <1>3 DEF Standing
<1>5. Chained(l, Matching(v, l))
  <2>1. Matching(v, l) \subseteq Candidates
    BY DEF Matching
  <2>2. QED
    BY <1>1, <2>1, CandidatesChained
<1>6. Kin(b, ps[l]) /\ NoMore(l, v[l], Matching(v, l))
  BY <1>3, <1>4, <1>5, InnerTurnRight
<1>7. Kin(c, ps[l]) /\ (first => AtStart(c))
  <2>1. CASE first
    <3>1. IsProbe(b) /\ c = ProbeReset(b)
      BY <1>6, <2>1 DEF Kin
    <3>2. Kin(c, b) /\ AtStart(c)
      BY <3>1, ResetStarts
    <3>3. QED
      BY <1>6, <3>2, KinOfKin
  <2>2. CASE ~first
    BY <1>6, <2>2
  <2>3. QED
    BY <2>1, <2>2
<1>8. Fit(qs) /\ qs[l] = c /\ \A k \in Joins : k # l => qs[k] = ps[k]
  BY <1>1, <1>7, FitKept
<1>9. X = Matching(v, m)
  <2>1. CASE m = 1
    BY <2>1, MatchingFirst
  <2>2. CASE m # 1
    <3>1. m - 1 \in 1 .. l - 1 /\ (m - 1) + 1 = m
      BY <1>1, <2>2
    <3>2. ps[m - 1].key_matches = Matching(v, (m - 1) + 1)
      BY <1>2, <3>1 DEF Standing
    <3>3. QED
      BY <2>2, <3>1, <3>2
  <2>3. QED
    BY <2>1, <2>2
<1>10. Turned(d, m, v[m], Matching(v, m)) /\ Kin(d, ps[m]) /\ d.key_matches = ps[m].key_matches
  BY <1>4, <1>9, FilterSame
<1>11. Fit(rs) /\ rs[m] = d /\ \A k \in Joins : k # m => rs[k] = qs[k]
  <2>1. Kin(d, qs[m])
    BY <1>1, <1>8, <1>10
  <2>2. QED
    BY <1>8, <2>1, FitKept
<1>12. ASSUME NEW k \in 1 .. m PROVE Turned(rs[k], k, v[k], Matching(v, k))
  <2>1. k \in Joins /\ k \in 1 .. l /\ k # l
    BY <1>1 DEF Joins
  <2>2. Turned(ps[k], k, v[k], Matching(v, k))
    BY <1>2, <2>1 DEF Standing
  <2>3. QED
    BY <1>8, <1>10, <1>11, <2>1, <2>2
<1>13. ASSUME NEW k \in 1 .. m - 1 PROVE v[k] # 0 /\ rs[k].key_matches = Matching(v, k + 1)
  <2>1. k \in Joins /\ k \in 1 .. l - 1 /\ k # l /\ k # m
    BY <1>1 DEF Joins
  <2>2. v[k] # 0 /\ ps[k].key_matches = Matching(v, k + 1)
    BY <1>2, <2>1 DEF Standing
  <2>3. QED
    BY <1>8, <1>11, <2>1, <2>2
<1>14. Standing(rs, v, m)
  BY <1>12, <1>13 DEF Standing
<1>15. ASSUME NEW t \in Candidates, NEW j \in Turns, IsMatch(t, j) PROVE Done(j, v, l) <=> Done(j, v, m)
  <2>1. ASSUME Equal(j, v, l - 1) PROVE j[l] <= v[l]
    <3>1. t \in Matching(v, l)
      BY <1>1, <1>15, <2>1, EqualMatches
    <3>2. Len(Chain(l, t)) <= v[l]
      BY <1>6, <3>1 DEF NoMore
    <3>3. j[l] \in 1 .. Len(Chain(l, t)) /\ Chain(l, t) \in Seq(Range(tables[l].rows))
      BY <1>1, <1>15 DEF IsMatch, ChainsRight
    <3>4. Len(Chain(l, t)) \in Nat
      BY <3>3
    <3>5. QED
      BY <1>3, <3>2, <3>3, <3>4
  <2>2. QED
    BY <1>1, <2>1, DoneBackUp
<1>16. OutputIs(O, v, m)
  BY <1>2, <1>15, SameOutput
<1>17. ASSUME first PROVE Waiting(rs, m)
  <2>1. ASSUME Candidates # {}, NEW k \in Joins, m < k PROVE AtStart(rs[k])
    <3>1. k # m /\ (k = l \/ l < k)
      BY <1>1, <2>1 DEF Joins
    <3>2. CASE k = l
      BY <1>7, <1>8, <1>11, <1>17, <3>1, <3>2
    <3>3. CASE l < k
      <4>1. AtStart(ps[k]) /\ k # l
        BY <1>1, <1>17, <2>1, <3>3 DEF Advancing, Waiting, Joins
      <4>2. QED
        BY <1>8, <1>11, <3>1, <4>1
    <3>4. QED
      BY <3>1, <3>2, <3>3
  <2>2. QED
    BY <2>1 DEF Waiting
<1>18. QED
  BY <1>2, <1>11, <1>14, <1>16, <1>17 DEF Advancing

(* The first call of Next. *)
LEMMA Starts ==
  ASSUME ChainsRight, NEW ps, Fit(ps), Waiting(ps, 0), NEW d, d = ApplyInputFilter(ps[1], Candidates),
         NEW rs, rs = Put(ps, 1, d), NEW first
  PROVE  Advancing(rs, {}, 1, first)
<1>1. NumJoins \in Nat /\ 1 \in Joins /\ \A k \in Joins : k \in Nat /\ 0 < k
  BY JoinsAssumption DEF Joins
<1>2. IsProbe(ps[1]) /\ (Candidates # {} => Ready(ps[1], 1) /\ AtStart(ps[1]))
  BY <1>1 DEF Fit, Waiting
<1>3. Turned(d, 1, 0, Candidates) /\ Kin(d, ps[1])
  <2>1. Chained(1, Candidates)
    BY <1>1, CandidatesChained
  <2>2. QED
    BY <1>1, <1>2, <2>1, FreshTurned
<1>4. Fit(rs) /\ rs[1] = d /\ \A k \in Joins : k # 1 => rs[k] = ps[k]
  <2>1. 1 \in Joins /\ Fit(ps) /\ Kin(d, ps[1]) /\ rs = Put(ps, 1, d)
    BY <1>1, <1>3
  <2>2. QED
    BY ONLY <2>1, FitKept
<1>5. PICK v : v = [k \in Joins |-> 0]
  OBVIOUS
<1>6. v \in Turns /\ v[1] = 0
  BY <1>1, <1>5 DEF Turns
<1>7. Standing(rs, v, 1)
  <2>1. Matching(v, 1) = Candidates
    BY MatchingFirst
  <2>2. Turned(rs[1], 1, v[1], Matching(v, 1))
    BY <1>3, <1>4, <1>6, <2>1
  <2>3. \A k \in 1 .. 1 : k = 1
    OBVIOUS
  <2>4. \A k \in 1 .. 1 - 1 : FALSE
    OBVIOUS
  <2>5. QED
    BY <2>2, <2>3, <2>4 DEF Standing
<1>8. OutputIs({}, v, 1)
  <2>1. ASSUME NEW t, NEW j, IsMatch(t, j), Done(j, v, 1) PROVE FALSE
    <3>1. j[1] \in 1 .. Len(Chain(1, t))
      BY <1>1, <2>1 DEF IsMatch
    <3>2. PICK k \in 1 .. 1 : j[k] < v[k] \/ j[k] = v[k]
      BY <2>1 DEF Done
    <3>3. k = 1
      OBVIOUS
    <3>4. QED
      BY <1>6, <3>1, <3>2, <3>3
  <2>2. QED
    BY <2>1 DEF OutputIs
<1>9. Waiting(rs, 1)
  <2>1. \A k \in Joins : 1 < k => 0 < k /\ k # 1
    BY <1>1
  <2>2. QED
    BY <1>4, <2>1, WaitingKept
<1>10. QED
  BY <1>1, <1>4, <1>6, <1>7, <1>8, <1>9 DEF Advancing

(* The probes have all found matches, and what they gave is in O. *)
Returned(ps, O) == Fit(ps) /\ \E v \in Turns : Standing(ps, v, NumJoins) /\ OutputIs(O, v, NumJoins)

(* The next call of Next. *)
LEMMA Resumes ==
  ASSUME NEW ps, NEW O, Returned(ps, O), NEW m, m = NumJoins,
         NEW X, X = (IF m = 1 THEN Candidates ELSE ps[m - 1].key_matches), NEW d, d = ApplyInputFilter(ps[m], X),
         NEW rs, rs = Put(ps, m, d)
  PROVE  Advancing(rs, O, m, FALSE)
<1>1. m \in Joins /\ m \in Nat /\ m # 0 /\ m \in 1 .. m
  BY JoinsAssumption DEF Joins
<1>2. PICK v \in Turns : Standing(ps, v, m) /\ OutputIs(O, v, m)
  BY DEF Returned
<1>3. Turned(ps[m], m, v[m], Matching(v, m)) /\ Fit(ps)
  BY <1>1, <1>2 DEF Standing, Returned
<1>4. X = Matching(v, m)
  <2>1. CASE m = 1
    BY <2>1, MatchingFirst
  <2>2. CASE m # 1
    <3>1. m - 1 \in 1 .. m - 1 /\ (m - 1) + 1 = m
      BY <1>1, <2>2
    <3>2. ps[m - 1].key_matches = Matching(v, (m - 1) + 1)
      BY <1>2, <3>1 DEF Standing
    <3>3. QED
      BY <2>2, <3>1, <3>2
  <2>3. QED
    BY <2>1, <2>2
<1>5. Turned(d, m, v[m], Matching(v, m)) /\ Kin(d, ps[m])
  BY <1>3, <1>4, FilterSame
<1>6. Fit(rs) /\ rs[m] = d /\ \A k \in Joins : k # m => rs[k] = ps[k]
  <2>1. m \in Joins /\ Fit(ps) /\ Kin(d, ps[m]) /\ rs = Put(ps, m, d)
    BY <1>1, <1>3, <1>5
  <2>2. QED
    BY ONLY <2>1, FitKept
<1>7. ASSUME NEW k \in 1 .. m PROVE Turned(rs[k], k, v[k], Matching(v, k))
  <2>1. k \in Joins
    BY <1>1 DEF Joins
  <2>2. Turned(ps[k], k, v[k], Matching(v, k))
    BY <1>2 DEF Standing
  <2>3. QED
    BY <1>5, <1>6, <2>1, <2>2
<1>8. ASSUME NEW k \in 1 .. m - 1 PROVE v[k] # 0 /\ rs[k].key_matches = Matching(v, k + 1)
  <2>1. k \in Joins /\ k # m
    BY <1>1 DEF Joins
  <2>2. v[k] # 0 /\ ps[k].key_matches = Matching(v, k + 1)
    BY <1>2 DEF Standing
  <2>3. QED
    BY <1>6, <2>1, <2>2
<1>9. Standing(rs, v, m)
  BY <1>7, <1>8 DEF Standing
<1>10. QED
  BY <1>1, <1>2, <1>6, <1>9 DEF Advancing

(* O is what the entries of all chains give. *)
AllOutput(O) == \A o : o \in O <=> \E t, j : t \in Candidates /\ j \in Turns /\ IsMatch(t, j) /\ o = MatchOf(t, j)

(* The first probe has no more. *)
LEMMA ReturnsFalse ==
  ASSUME ChainsRight, NEW ps, NEW O, NEW first, Advancing(ps, O, 1, first), NEW turn, turn = InnerTurn(ps[1]),
         turn.outcome = "none", NEW b, b = turn.probe, NEW qs, qs = Put(ps, 1, b)
  PROVE  AllOutput(O) /\ Fit(qs)
<1>1. NumJoins \in Nat /\ 1 \in Joins /\ Fit(ps)
  BY JoinsAssumption DEF Joins, Advancing
<1>2. PICK v \in Turns : Standing(ps, v, 1) /\ OutputIs(O, v, 1)
  BY DEF Advancing
<1>3. 1 \in 1 .. 1 /\ v[1] \in Nat
  BY <1>1 DEF Turns
<1>4. Matching(v, 1) = Candidates
  BY MatchingFirst
<1>5. Turned(ps[1], 1, v[1], Candidates)
  BY <1>2, <1>3, <1>4 DEF Standing
<1>6. Chained(1, Candidates)
  BY <1>1, CandidatesChained
<1>7. Kin(b, ps[1]) /\ NoMore(1, v[1], Candidates)
  BY <1>3, <1>5, <1>6, InnerTurnRight
<1>8. Fit(qs)
  <2>1. 1 \in Joins /\ Fit(ps) /\ Kin(b, ps[1]) /\ qs = Put(ps, 1, b)
    BY <1>1, <1>7
  <2>2. QED
    BY ONLY <2>1, FitKept
<1>9. ASSUME NEW t \in Candidates, NEW j \in Turns, IsMatch(t, j) PROVE Done(j, v, 1)
  <2>1. Len(Chain(1, t)) <= v[1]
    BY <1>7 DEF NoMore
  <2>2. j[1] \in 1 .. Len(Chain(1, t)) /\ Chain(1, t) \in Seq(Range(tables[1].rows))
    BY <1>1, <1>9 DEF IsMatch, ChainsRight
  <2>3. Len(Chain(1, t)) \in Nat
    BY <2>2
  <2>4. j[1] < v[1] \/ j[1] = v[1]
    BY <1>3, <2>1, <2>2, <2>3
  <2>5. Equal(j, v, 1 - 1)
    BY DEF Equal
  <2>6. QED
    BY <1>3, <2>4, <2>5 DEF Done
<1>10. QED
  BY <1>2, <1>8, <1>9 DEF OutputIs, AllOutput

(* The same entry of every chain. *)
LEMMA EqualTurns ==
  ASSUME NEW j \in Turns, NEW w \in Turns, \A i \in Joins : j[i] = w[i]
  PROVE  j = w
BY DEF Turns

(* A match is that of one tuple and one entry of each chain. *)
LEMMA MatchOnce ==
  ASSUME ChainsRight, NEW s, NEW t \in Candidates, NEW j \in Turns, NEW w \in Turns, IsMatch(t, w), IsMatch(s, j),
         MatchOf(s, j) = MatchOf(t, w)
  PROVE  j = w
<1>1. s = t /\ \A k \in Joins : Chain(k, s)[j[k]] = Chain(k, t)[w[k]]
  BY DEF MatchOf
<1>2. ASSUME NEW k \in Joins PROVE j[k] = w[k]
  <2> DEFINE c == Chain(k, t)
  <2>1. IsInjective(c) /\ c \in Seq(Range(tables[k].rows))
    BY DEF ChainsRight
  <2>2. j[k] \in 1 .. Len(c) /\ w[k] \in 1 .. Len(c) /\ c[j[k]] = c[w[k]]
    BY <1>1 DEF IsMatch
  <2> HIDE DEF c
  <2>3. DOMAIN c = 1 .. Len(c)
    BY <2>1
  <2>4. QED
    BY <2>1, <2>2, <2>3 DEF IsInjective
<1>3. QED
  BY <1>2, EqualTurns

(* The current entries of the tuples X. *)
LEMMA BatchIs ==
  ASSUME ChainsRight, NEW qs, NEW w \in Turns, Standing(qs, w, NumJoins), w[NumJoins] # 0, NEW X, X = Matching(w, NumJoins + 1)
  PROVE  OutputBatch(qs, X) = {MatchOf(t, w) : t \in X} /\ \A t \in X : t \in Candidates /\ IsMatch(t, w)
<1>1. NumJoins \in Nat /\ NumJoins # 0 /\ Joins = 1 .. NumJoins /\ (NumJoins + 1) - 1 = NumJoins
  BY JoinsAssumption DEF Joins
<1>2. ASSUME NEW t \in X, NEW k \in Joins
      PROVE  w[k] \in 1 .. Len(Chain(k, t)) /\ KeyAt(k, t, w[k]) /\ Head(qs[k].curr_matches[t]) = Chain(k, t)[w[k]]
  <2> DEFINE c == Chain(k, t)
             n == w[k]
  <2>1. t \in Candidates /\ \A i \in 1 .. NumJoins : w[i] <= Len(Chain(i, t)) /\ KeyAt(i, t, w[i])
    BY <1>1 DEF Matching
  <2>2. c \in Seq(Range(tables[k].rows)) /\ c # <<>>
    BY <2>1 DEF ChainsRight, Candidates
  <2>3. n \in Nat /\ n # 0
    <3>1. k = NumJoins \/ k \in 1 .. NumJoins - 1
      BY <1>1
    <3>2. QED
      BY <3>1 DEF Standing, Turns
  <2>4. n <= Len(c) /\ KeyAt(k, t, n)
    BY <1>1, <2>1
  <2>5. t \in Matching(w, k)
    <3>1. \A i \in 1 .. k - 1 : i \in 1 .. NumJoins
      BY <1>1
    <3>2. QED
      BY <2>1, <3>1 DEF Matching
  <2>6. t \in Live(k, n, Matching(w, k))
    BY <2>2, <2>4, <2>5 DEF Live
  <2>7. Turned(qs[k], k, n, Matching(w, k))
    BY <1>1 DEF Standing
  <2>8. qs[k].curr_matches[t] = SubSeq(c, n, Len(c))
    <3>1. Stands(qs[k], k, n) /\ t \in qs[k].non_null_entries
      BY <2>5, <2>6, <2>7 DEF Turned
    <3>2. QED
      BY <2>3, <3>1 DEF Stands
  <2> HIDE DEF c, n
  <2>9. Head(SubSeq(c, n, Len(c))) = c[n]
    BY <2>2, <2>3, <2>4, RestOf
  <2>10. n \in 1 .. Len(c)
    BY <2>2, <2>3, <2>4
  <2>11. QED
    BY <2>4, <2>8, <2>9, <2>10 DEF c, n
<1>3. \A t \in X : [k \in Joins |-> Head(qs[k].curr_matches[t])] = [k \in Joins |-> Chain(k, t)[w[k]]]
  BY <1>2
<1>4. \A t \in X : t \in Candidates /\ IsMatch(t, w)
  BY <1>2 DEF IsMatch, Matching
<1>5. \A t \in X : <<t, [k \in Joins |-> Head(qs[k].curr_matches[t])]>> = MatchOf(t, w)
  BY <1>3, Zenon DEF MatchOf
<1>6. OutputBatch(qs, X) = {MatchOf(t, w) : t \in X}
  BY <1>5, Zenon DEF OutputBatch
<1>7. QED
  BY <1>4, <1>6

(* The last probe found matches: none of them was returned before. *)
LEMMA ReturnsTrue ==
  ASSUME ChainsRight, NEW ps, NEW O, NEW l, NEW first, l = NumJoins, Advancing(ps, O, l, first), NEW turn, turn = InnerTurn(ps[l]),
         turn.outcome = "found", NEW b, b = turn.probe, NEW X, X = b.key_matches, NEW qs, qs = Put(ps, l, b),
         NEW B, B = OutputBatch(qs, X)
  PROVE  Returned(qs, O \cup B) /\ O \cap B = {}
<1>1. l \in Joins /\ Fit(ps) /\ l \in Nat /\ l # 0 /\ Joins = 1 .. l
  BY JoinsAssumption DEF Advancing, Joins
<1>2. PICK v \in Turns : Standing(ps, v, l) /\ OutputIs(O, v, l)
  BY DEF Advancing
<1>3. l \in 1 .. l /\ v[l] \in Nat
  BY <1>1 DEF Turns
<1>4. Turned(ps[l], l, v[l], Matching(v, l))
  BY <1>2, <1>3 DEF Standing
<1>5. Chained(l, Matching(v, l))
  <2>1. Matching(v, l) \subseteq Candidates
    BY DEF Matching
  <2>2. QED
    BY <1>1, <2>1, CandidatesChained
<1>6. Kin(b, ps[l]) /\ Turned(b, l, v[l] + 1, Matching(v, l)) /\ X = Hits(l, v[l] + 1, Matching(v, l))
  BY <1>3, <1>4, <1>5, InnerTurnRight
<1>7. Fit(qs) /\ qs[l] = b /\ \A k \in Joins : k # l => qs[k] = ps[k]
  <2>1. l \in Joins /\ Fit(ps) /\ Kin(b, ps[l]) /\ qs = Put(ps, l, b)
    BY <1>1, <1>6
  <2>2. QED
    BY ONLY <2>1, FitKept
<1>8. PICK w : w = Advanced(v, l)
  OBVIOUS
<1>9. w \in Turns /\ Standing(qs, w, l) /\ Matching(w, l) = Matching(v, l) /\ w[l] = v[l] + 1 /\ w[l] # 0
  BY <1>1, <1>2, <1>6, <1>7, <1>8, TurnStands
<1>10. X = Matching(w, l + 1)
  BY <1>1, <1>6, <1>9, MatchingNext
<1>11. B = {MatchOf(t, w) : t \in X} /\ \A t \in X : t \in Candidates /\ IsMatch(t, w)
  BY <1>9, <1>10, BatchIs
<1>12. \A j \in Turns : Done(j, w, l) <=> (Done(j, v, l) \/ Equal(j, w, l))
  BY <1>1, <1>8, DoneTurn
<1>13. ~Done(w, v, l)
  BY <1>1, <1>8, <1>9, DoneTurn
<1>14. \A j \in Turns : Equal(j, w, l) <=> j = w
  <2>1. ASSUME NEW j \in Turns, Equal(j, w, l) PROVE j = w
    BY <1>1, <1>9, <2>1, EqualTurns DEF Equal
  <2>2. Equal(w, w, l)
    BY DEF Equal
  <2>3. QED
    BY <2>1, <2>2
<1>15. ASSUME NEW o
       PROVE  o \in O \cup B <=> \E t, j : t \in Candidates /\ j \in Turns /\ IsMatch(t, j) /\ Done(j, w, l) /\ o = MatchOf(t, j)
  <2>1. ASSUME o \in O PROVE \E t, j : t \in Candidates /\ j \in Turns /\ IsMatch(t, j) /\ Done(j, w, l) /\ o = MatchOf(t, j)
    BY <1>2, <1>12, <2>1 DEF OutputIs
  <2>2. ASSUME o \in B PROVE \E t, j : t \in Candidates /\ j \in Turns /\ IsMatch(t, j) /\ Done(j, w, l) /\ o = MatchOf(t, j)
    <3>1. PICK t \in X : o = MatchOf(t, w)
      BY <1>11, <2>2
    <3>2. t \in Candidates /\ IsMatch(t, w) /\ Done(w, w, l)
      BY <1>9, <1>11, <1>12, <1>14
    <3>3. QED
      BY <1>9, <3>1, <3>2
  <2>3. ASSUME NEW t, NEW j, t \in Candidates, j \in Turns, IsMatch(t, j), Done(j, w, l), o = MatchOf(t, j) PROVE o \in O \cup B
    <3>1. CASE Done(j, v, l)
      BY <1>2, <2>3, <3>1 DEF OutputIs
    <3>2. CASE j = w
      <4>1. Equal(w, w, (l + 1) - 1) /\ l + 1 \in Nat /\ (l + 1) - 1 <= NumJoins
        BY <1>1 DEF Equal
      <4>2. t \in X
        BY <1>9, <1>10, <2>3, <3>2, <4>1, EqualMatches
      <4>3. QED
        BY <1>11, <2>3, <3>2, <4>2
    <3>3. QED
      BY <1>12, <1>14, <2>3, <3>1, <3>2
  <2>4. QED
    BY <2>1, <2>2, <2>3
<1>16. OutputIs(O \cup B, w, l)
  BY <1>15 DEF OutputIs
<1>17. ASSUME NEW o \in O, o \in B PROVE FALSE
  <2>1. PICK t \in X : o = MatchOf(t, w)
    BY <1>11, <1>17
  <2>2. PICK s, j : s \in Candidates /\ j \in Turns /\ IsMatch(s, j) /\ Done(j, v, l) /\ o = MatchOf(s, j)
    BY <1>2 DEF OutputIs
  <2>3. j = w
    BY <1>9, <1>11, <2>1, <2>2, MatchOnce
  <2>4. QED
    BY <1>13, <2>2, <2>3
<1>18. QED
  BY <1>7, <1>9, <1>16, <1>17 DEF Returned

----------------------------------------------------------------------------
(* The filter of the join manager *)

(* Probe k, initialised with the tuples of S. *)
InitProbe(k, S) == ProbeInit(vector.keys[k], LookupBatch(k, vector.keys[k]), S)

(* The states of the filter, when P are the probes there may be. *)
JoinStates(P) == [tids : SUBSET Tids, output : SUBSET Tids, probes : [Joins -> P]]

StateOf(A, B, ps) == [tids |-> A, output |-> B, probes |-> ps]

(* A state is what its fields are. *)
LEMMA StateFields ==
  ASSUME NEW P, NEW s
  PROVE  s \in JoinStates(P) <=> /\ s = StateOf(s.tids, s.output, s.probes)
                                 /\ s.tids \in SUBSET Tids /\ s.output \in SUBSET Tids /\ s.probes \in [Joins -> P]
BY DEF JoinStates, StateOf

(* The fields of a state. *)
LEMMA FieldsOf ==
  ASSUME NEW A, NEW B, NEW ps, NEW s, s = StateOf(A, B, ps)
  PROVE  s.tids = A /\ s.output = B /\ s.probes = ps
BY DEF StateOf

(* PrepareSingleJoin, by the fields. *)
LEMMA PrepareOf ==
  ASSUME NEW A, NEW B, NEW ps, NEW k, NEW p, p = InitProbe(k, A)
  PROVE  PrepareSingleJoin(StateOf(A, B, ps), k) = StateOf(A \cap p.key_matches, B, Put(ps, k, p))
<1> DEFINE s == StateOf(A, B, ps)
           Y == A \cap p.key_matches
<1>1. s.tids = A /\ s.probes = ps
  BY DEF StateOf
<1>2. [s EXCEPT !.probes = Put(ps, k, p)] = StateOf(A, B, Put(ps, k, p))
  BY DEF StateOf
<1>3. [StateOf(A, B, Put(ps, k, p)) EXCEPT !.tids = Y] = StateOf(Y, B, Put(ps, k, p))
  BY DEF StateOf
<1> HIDE DEF s
<1>4. PrepareSingleJoin(s, k) = [s EXCEPT !.probes[k] = p, !.tids = Y]
  BY <1>1, Zenon DEF PrepareSingleJoin, InitProbe
<1>5. [s EXCEPT !.probes[k] = p, !.tids = Y] = [[s EXCEPT !.probes = Put(ps, k, p)] EXCEPT !.tids = Y]
  BY <1>1, Zenon DEF Put
<1>6. QED
  BY <1>2, <1>3, <1>4, <1>5, Zenon DEF s

(* P holds all probes that a term may initialise. *)
Enough(P) == \A k \in Joins : \A S \in SUBSET Tids : InitProbe(k, S) \in P

(* s, with probe p for table k and the list X. *)
With(r, P, s, k, p, X) ==
  r \in JoinStates(P) /\ r.tids = X /\ r.output = s.output /\ r.probes = Put(s.probes, k, p)

(* What PrepareSingleJoin returns. *)
LEMMA PrepareIs ==
  ASSUME NEW P, Enough(P), NEW s \in JoinStates(P), NEW k \in Joins, NEW p, p = InitProbe(k, s.tids),
         NEW r, r = PrepareSingleJoin(s, k)
  PROVE  With(r, P, s, k, p, s.tids \cap p.key_matches)
<1>1. /\ s = StateOf(s.tids, s.output, s.probes)
      /\ s.tids \in SUBSET Tids /\ s.output \in SUBSET Tids /\ s.probes \in [Joins -> P]
  BY StateFields
<1>2. PICK A, B, ps : A = s.tids /\ B = s.output /\ ps = s.probes
  OBVIOUS
<1>3. s = StateOf(A, B, ps) /\ p = InitProbe(k, A)
  BY <1>1, <1>2
<1>4. r = StateOf(A \cap p.key_matches, B, Put(ps, k, p))
  <2>1. p = InitProbe(k, A)
    BY <1>3
  <2>2. PrepareSingleJoin(StateOf(A, B, ps), k) = StateOf(A \cap p.key_matches, B, Put(ps, k, p))
    BY ONLY <2>1, PrepareOf
  <2>3. QED
    BY <1>3, <2>2
<1>5. r.tids = A \cap p.key_matches /\ r.output = B /\ r.probes = Put(ps, k, p)
  BY <1>4, FieldsOf
<1>6. p \in P
  BY <1>1, <1>2, <1>3 DEF Enough
<1>7. Put(ps, k, p) \in [Joins -> P]
  BY <1>1, <1>2, <1>6 DEF Put
<1>8. r \in JoinStates(P)
  <2>1. r = StateOf(r.tids, r.output, r.probes)
    BY <1>4, <1>5
  <2>2. QED
    BY <1>1, <1>2, <1>5, <1>7, <2>1, StateFields
<1>9. QED
  BY <1>2, <1>5, <1>8 DEF With

(* A state with another list. *)
LEMMA OtherTids ==
  ASSUME NEW P, NEW s \in JoinStates(P), NEW X \in SUBSET Tids, NEW r, r = [s EXCEPT !.tids = X]
  PROVE  r \in JoinStates(P) /\ r.tids = X /\ r.output = s.output /\ r.probes = s.probes
BY DEF JoinStates

(* A term of a sampled clause that started with the tuples S. *)
SampledJoin(S, s, k) ==
  LET run == PrepareSingleJoin([s EXCEPT !.tids = S], k) IN [run EXCEPT !.tids = run.tids \cap s.tids]

(* What it returns. *)
LEMMA SampledIs ==
  ASSUME NEW P, Enough(P), NEW s \in JoinStates(P), NEW k \in Joins, NEW S \in SUBSET Tids, NEW p, p = InitProbe(k, S),
         NEW r, r = SampledJoin(S, s, k)
  PROVE  /\ r \in JoinStates(P) /\ r.tids = (S \cap p.key_matches) \cap s.tids
         /\ r.output = s.output /\ r.probes = Put(s.probes, k, p)
<1>1. PICK a : a = [s EXCEPT !.tids = S]
  BY Zenon
<1>2. a \in JoinStates(P) /\ a.tids = S /\ a.output = s.output /\ a.probes = s.probes
  BY <1>1, OtherTids
<1>3. PICK run : run = PrepareSingleJoin(a, k)
  OBVIOUS
<1>4. p = InitProbe(k, a.tids)
  BY <1>2
<1>5. /\ run \in JoinStates(P) /\ run.tids = S \cap p.key_matches
      /\ run.output = s.output /\ run.probes = Put(s.probes, k, p)
  <2>1. With(run, P, a, k, p, a.tids \cap p.key_matches)
    BY <1>2, <1>3, <1>4, PrepareIs
  <2>2. QED
    BY <1>2, <2>1 DEF With
<1>6. r = [run EXCEPT !.tids = run.tids \cap s.tids]
  BY <1>1, <1>3, Zenon DEF SampledJoin
<1>7. run.tids \cap s.tids \in SUBSET Tids
  BY <1>5
<1>8. r \in JoinStates(P) /\ r.tids = run.tids \cap s.tids /\ r.output = run.output /\ r.probes = run.probes
  BY <1>5, <1>6, <1>7, OtherTids
<1>9. QED
  BY <1>5, <1>8

(* The chains of the tuples of S are sequences. *)
AllHaveChains(S) == S \in SUBSET Tids /\ \A k \in Joins : Chained(k, S)

(* The tuples of S that found a chain in the first i tables. *)
Chaining(S, order, i) == {t \in S : \A j \in 1 .. i : Chain(order[j], t) # <<>>}

(* Probe p of table k was initialised with at least A. *)
InitWith(p, k, A) == \E S \in SUBSET Tids : A \subseteq S /\ Chained(k, S) /\ p = InitProbe(k, S)

(* The state after i terms of a clause with the tuples S. *)
Prepared(s, order, S, B, i) ==
  /\ s.tids = Chaining(S, order, i) /\ s.output = B
  /\ \A k \in Joins : IsProbe(s.probes[k])
  /\ s.tids # {} => \A j \in 1 .. i : InitWith(s.probes[order[j]], order[j], s.tids)

(* What a probe finds. *)
LEMMA ProbeFinds ==
  ASSUME NEW k, NEW S, Chained(k, S), NEW p, p = InitProbe(k, S)
  PROVE  IsProbe(p) /\ p.key_matches = {t \in S : Chain(k, t) # <<>>}
<1>1. Turned(p, k, 0, S) /\ p.key_matches = Live(k, 0, S)
  <2>1. p = ProbeInit(vector.keys[k], LookupBatch(k, vector.keys[k]), S)
    BY DEF InitProbe
  <2>2. QED
    BY <2>1, NotTurned DEF Unmoved
<1>2. PICK R : \A t \in S : Chain(k, t) \in Seq(R)
  BY DEF Chained
<1>3. Live(k, 0, S) = {t \in S : Chain(k, t) # <<>>}
  BY <1>2 DEF Live
<1>4. QED
  BY <1>1, <1>3 DEF Turned

(* One more term has run. *)
LEMMA PreparedNext ==
  ASSUME NEW P, NEW order \in Seq(Joins), NEW S, AllHaveChains(S), NEW B, NEW i \in Nat, i + 1 <= Len(order),
         NEW s \in JoinStates(P), Prepared(s, order, S, B, i), NEW k, k = order[i + 1],
         NEW A, A \subseteq S, s.tids \subseteq A, NEW p, p = InitProbe(k, A),
         NEW r, r.tids = p.key_matches \cap s.tids, r.output = s.output, r.probes = Put(s.probes, k, p)
  PROVE  Prepared(r, order, S, B, i + 1)
<1>1. k \in Joins /\ Len(order) \in Nat
  OBVIOUS
<1>2. Chained(k, A) /\ A \in SUBSET Tids
  BY <1>1 DEF AllHaveChains, Chained
<1>3. IsProbe(p) /\ p.key_matches = {t \in A : Chain(k, t) # <<>>}
  BY <1>2, ProbeFinds
<1>4. s.tids = Chaining(S, order, i) /\ s.output = B /\ \A q \in Joins : IsProbe(s.probes[q])
  BY DEF Prepared
<1>5. r.tids = Chaining(S, order, i + 1)
  <2>1. \A j : j \in 1 .. i + 1 <=> (j \in 1 .. i \/ j = i + 1)
    OBVIOUS
  <2>2. \A t : t \in Chaining(S, order, i + 1) <=> t \in Chaining(S, order, i) /\ Chain(k, t) # <<>>
    BY <2>1 DEF Chaining
  <2>3. \A t : t \in r.tids <=> t \in s.tids /\ Chain(k, t) # <<>>
    BY <1>3
  <2>4. QED
    BY <1>4, <2>2, <2>3
<1>6. s.probes \in [Joins -> P]
  BY DEF JoinStates
<1>7. r.probes[k] = p /\ \A q \in Joins : q # k => r.probes[q] = s.probes[q]
  BY <1>1, <1>6 DEF Put
<1>8. \A q \in Joins : IsProbe(r.probes[q])
  BY <1>3, <1>4, <1>7
<1>9. ASSUME r.tids # {}, NEW j \in 1 .. i + 1 PROVE InitWith(r.probes[order[j]], order[j], r.tids)
  <2>1. r.tids \subseteq s.tids /\ s.tids # {} /\ r.tids \subseteq A
    BY <1>9
  <2>2. CASE order[j] = k
    BY <1>2, <1>7, <2>1, <2>2 DEF InitWith
  <2>3. CASE order[j] # k
    <3>1. j \in 1 .. i /\ order[j] \in Joins
      <4>1. j # i + 1
        BY <2>3
      <4>2. QED
        BY <1>1, <4>1
    <3>2. InitWith(s.probes[order[j]], order[j], s.tids)
      BY <2>1, <3>1 DEF Prepared
    <3>3. PICK T \in SUBSET Tids : s.tids \subseteq T /\ Chained(order[j], T) /\ s.probes[order[j]] = InitProbe(order[j], T)
      BY <3>2 DEF InitWith
    <3>4. r.tids \subseteq T /\ r.probes[order[j]] = s.probes[order[j]]
      BY <1>7, <2>1, <2>3, <3>1, <3>3
    <3>5. QED
      BY <3>3, <3>4 DEF InitWith
  <2>4. QED
    BY <2>2, <2>3
<1>10. QED
  BY <1>4, <1>5, <1>8, <1>9 DEF Prepared

(* A term of a clause that is not sampled. *)
PlainJoin(s, k) == IF s.tids = {} THEN s ELSE PrepareSingleJoin(s, k)

(* The terms of a clause that is not sampled run one after the other. *)
LEMMA JoinTermsRun ==
  ASSUME NEW P, Enough(P), NEW order \in Seq(Joins), NEW st \in JoinStates(P)
  PROVE  \E c \in [0 .. Len(order) -> JoinStates(P)] :
           /\ JoinFilter!RunTerms(order, st) = c[Len(order)]
           /\ c[0] = st
           /\ \A i \in 1 .. Len(order) : c[i] = PlainJoin(c[i - 1], order[i])
<1> DEFINE n == Len(order)
           V == JoinStates(P)
           Body(s, i) == PlainJoin(s, order[i])
           H == [i \in 1 .. n |-> [s \in V |-> Body(s, i)]]
           F(g) == [i \in 0 .. Len(order) |->
                      IF i = 0 THEN st
                      ELSE LET s == g[i - 1] IN IF s.tids = {} THEN s ELSE PrepareSingleJoin(s, order[i])]
           c == CHOOSE g : g = F(g)
<1>1. n \in Nat
  OBVIOUS
<1>2. \A s \in V, i \in 1 .. n : Body(s, i) \in V
  <2> TAKE s \in V, i \in 1 .. n
  <2>1. order[i] \in Joins
    OBVIOUS
  <2>2. PICK r : r = PrepareSingleJoin(s, order[i])
    OBVIOUS
  <2>3. PICK p : p = InitProbe(order[i], s.tids)
    OBVIOUS
  <2>4. With(r, P, s, order[i], p, s.tids \cap p.key_matches)
    BY <2>1, <2>2, <2>3, PrepareIs
  <2>5. QED
    BY <2>2, <2>4 DEF PlainJoin, With
<1>3. H \in [1 .. n -> [V -> V]]
  <2> HIDE DEF Body, V
  <2>1. QED
    BY <1>2
<1>4. \A i \in 1 .. n : \A s \in V : H[i][s] = Body(s, i)
  <2> HIDE DEF Body, V
  <2>1. QED
    OBVIOUS
<1> HIDE DEF H, V
<1>5. PICK f \in [0 .. n -> V] : Iterates(f, st, H, n)
  BY <1>1, <1>3, Iteration DEF V
<1>6. \A i \in 1 .. n : f[i] = Body(f[i - 1], i)
  <2> TAKE i \in 1 .. n
  <2>1. i - 1 \in 0 .. n
    BY <1>1
  <2>2. f[i - 1] \in V /\ f[i] = H[i][f[i - 1]]
    BY <1>5, <2>1 DEF Iterates
  <2> HIDE DEF Body
  <2>3. QED
    BY <1>4, <2>2
<1>7. \A g : F(g) = [i \in 0 .. n |-> IF i = 0 THEN st ELSE Body(g[i - 1], i)]
  BY Zenon DEF PlainJoin
<1> HIDE DEF Body
<1>8. f = F(f)
  <2>1. f[0] = st
    BY <1>5 DEF Iterates
  <2>2. f = [i \in 0 .. n |-> f[i]]
    BY <1>5
  <2>3. F(f) = [i \in 0 .. n |-> IF i = 0 THEN st ELSE Body(f[i - 1], i)]
    BY <1>7
  <2>4. \A i \in 0 .. n : i # 0 => i \in 1 .. n
    BY <1>1
  <2> HIDE DEF F
  <2>5. QED
    BY <1>6, <2>1, <2>2, <2>3, <2>4
<1>9. c = F(c)
  BY <1>8, Zenon
<1>10. JoinFilter!RunTerms(order, st) = c[n]
  BY DEF JoinFilter!RunTerms
<1> HIDE DEF c, F
<1>11. c = [i \in 0 .. n |-> IF i = 0 THEN st ELSE Body(c[i - 1], i)]
  BY <1>7, <1>9
<1>12. c[0] = st /\ DOMAIN c = 0 .. n /\ \A i \in 1 .. n : c[i] = Body(c[i - 1], i)
  <2> DEFINE d == [i \in 0 .. n |-> IF i = 0 THEN st ELSE Body(c[i - 1], i)]
  <2>1. d[0] = st /\ DOMAIN d = 0 .. n /\ \A i \in 1 .. n : d[i] = Body(c[i - 1], i)
    BY <1>1
  <2>2. c = d
    BY <1>11
  <2> HIDE DEF d
  <2>3. QED
    BY <2>1, <2>2
<1>13. c \in [0 .. n -> V]
  <2> DEFINE Q == {i \in Nat : c[i] \in V}
  <2>1. 0 \in Q
    BY <1>12 DEF V
  <2>2. ASSUME NEW i \in 0 .. n - 1, i \in Q PROVE i + 1 \in Q
    <3>1. i + 1 \in 1 .. n /\ (i + 1) - 1 = i /\ c[i] \in V
      BY <1>1, <2>2
    <3>2. c[i + 1] = Body(c[i], i + 1)
      BY <1>12, <3>1
    <3>3. QED
      BY <1>2, <3>1, <3>2
  <2> HIDE DEF Q
  <2>3. 0 .. n \subseteq Q
    BY <1>1, <2>1, <2>2, UpTo
  <2>4. \A i \in 0 .. n : c[i] \in V
    BY <2>3 DEF Q
  <2>5. c = [i \in 0 .. n |-> c[i]]
    BY <1>11
  <2>6. QED
    BY <2>4, <2>5
<1>14. QED
  BY <1>10, <1>12, <1>13 DEF Body, V

(* The terms of a sampled clause run on the whole input. *)
LEMMA JoinSampledRun ==
  ASSUME NEW P, Enough(P), NEW order \in Seq(Joins), NEW st \in JoinStates(P)
  PROVE  \E c \in [0 .. Len(order) -> JoinStates(P)] :
           /\ JoinFilter!RunSampled(order, st) = c[Len(order)]
           /\ c[0] = st
           /\ \A i \in 1 .. Len(order) : c[i] = SampledJoin(st.tids, c[i - 1], order[i])
<1> DEFINE n == Len(order)
           V == JoinStates(P)
           Body(s, i) == SampledJoin(st.tids, s, order[i])
           H == [i \in 1 .. n |-> [s \in V |-> Body(s, i)]]
           F(g) == [i \in 0 .. Len(order) |->
                      IF i = 0 THEN st
                      ELSE LET s   == g[i - 1]
                               run == PrepareSingleJoin([s EXCEPT !.tids = st.tids], order[i])
                           IN  [run EXCEPT !.tids = run.tids \cap s.tids]]
           c == CHOOSE g : g = F(g)
<1>1. n \in Nat
  OBVIOUS
<1>2. \A s \in V, i \in 1 .. n : Body(s, i) \in V
  <2> TAKE s \in V, i \in 1 .. n
  <2>1. order[i] \in Joins
    OBVIOUS
  <2>2. st.tids \in SUBSET Tids
    BY DEF JoinStates
  <2>3. QED
    BY <2>1, <2>2, SampledIs
<1>3. H \in [1 .. n -> [V -> V]]
  <2> HIDE DEF Body, V
  <2>1. QED
    BY <1>2
<1>4. \A i \in 1 .. n : \A s \in V : H[i][s] = Body(s, i)
  <2> HIDE DEF Body, V
  <2>1. QED
    OBVIOUS
<1> HIDE DEF H, V
<1>5. PICK f \in [0 .. n -> V] : Iterates(f, st, H, n)
  BY <1>1, <1>3, Iteration DEF V
<1>6. \A i \in 1 .. n : f[i] = Body(f[i - 1], i)
  <2> TAKE i \in 1 .. n
  <2>1. i - 1 \in 0 .. n
    BY <1>1
  <2>2. f[i - 1] \in V /\ f[i] = H[i][f[i - 1]]
    BY <1>5, <2>1 DEF Iterates
  <2> HIDE DEF Body
  <2>3. QED
    BY <1>4, <2>2
<1>7. \A g : F(g) = [i \in 0 .. n |-> IF i = 0 THEN st ELSE Body(g[i - 1], i)]
  BY Zenon DEF SampledJoin
<1> HIDE DEF Body
<1>8. f = F(f)
  <2>1. f[0] = st
    BY <1>5 DEF Iterates
  <2>2. f = [i \in 0 .. n |-> f[i]]
    BY <1>5
  <2>3. F(f) = [i \in 0 .. n |-> IF i = 0 THEN st ELSE Body(f[i - 1], i)]
    BY <1>7
  <2>4. \A i \in 0 .. n : i # 0 => i \in 1 .. n
    BY <1>1
  <2> HIDE DEF F
  <2>5. QED
    BY <1>6, <2>1, <2>2, <2>3, <2>4
<1>9. c = F(c)
  BY <1>8, Zenon
<1>10. JoinFilter!RunSampled(order, st) = c[n]
  BY DEF JoinFilter!RunSampled
<1> HIDE DEF c, F
<1>11. c = [i \in 0 .. n |-> IF i = 0 THEN st ELSE Body(c[i - 1], i)]
  BY <1>7, <1>9
<1>12. c[0] = st /\ DOMAIN c = 0 .. n /\ \A i \in 1 .. n : c[i] = Body(c[i - 1], i)
  <2> DEFINE d == [i \in 0 .. n |-> IF i = 0 THEN st ELSE Body(c[i - 1], i)]
  <2>1. d[0] = st /\ DOMAIN d = 0 .. n /\ \A i \in 1 .. n : d[i] = Body(c[i - 1], i)
    BY <1>1
  <2>2. c = d
    BY <1>11
  <2> HIDE DEF d
  <2>3. QED
    BY <2>1, <2>2
<1>13. c \in [0 .. n -> V]
  <2> DEFINE Q == {i \in Nat : c[i] \in V}
  <2>1. 0 \in Q
    BY <1>12 DEF V
  <2>2. ASSUME NEW i \in 0 .. n - 1, i \in Q PROVE i + 1 \in Q
    <3>1. i + 1 \in 1 .. n /\ (i + 1) - 1 = i /\ c[i] \in V
      BY <1>1, <2>2
    <3>2. c[i + 1] = Body(c[i], i + 1)
      BY <1>12, <3>1
    <3>3. QED
      BY <1>2, <3>1, <3>2
  <2> HIDE DEF Q
  <2>3. 0 .. n \subseteq Q
    BY <1>1, <2>1, <2>2, UpTo
  <2>4. \A i \in 0 .. n : c[i] \in V
    BY <2>3 DEF Q
  <2>5. c = [i \in 0 .. n |-> c[i]]
    BY <1>11
  <2>6. QED
    BY <2>4, <2>5
<1>14. QED
  BY <1>10, <1>12, <1>13 DEF Body, V

(* After all terms. *)
LEMMA JoinTermsExact ==
  ASSUME NEW P, Enough(P), NEW order \in Seq(Joins), NEW st \in JoinStates(P), NEW S, S = st.tids, AllHaveChains(S),
         \A k \in Joins : IsProbe(st.probes[k]), NEW sampled, NEW r, r = JoinFilter!RunFilter(order, sampled, st)
  PROVE  r \in JoinStates(P) /\ Prepared(r, order, S, st.output, Len(order))
<1> DEFINE n == Len(order)
           B == st.output
<1>1. n \in Nat
  OBVIOUS
<1>2. Prepared(st, order, S, B, 0)
  <2>1. Chaining(S, order, 0) = S
    BY DEF Chaining
  <2>2. QED
    BY <2>1 DEF Prepared
<1>3. ASSUME NEW c \in [0 .. n -> JoinStates(P)], c[0] = st, r = c[n],
             \A i \in 1 .. n : \/ c[i] = PlainJoin(c[i - 1], order[i])
                               \/ c[i] = SampledJoin(S, c[i - 1], order[i])
      PROVE  r \in JoinStates(P) /\ Prepared(r, order, S, B, n)
  <2> DEFINE Q == {i \in Nat : Prepared(c[i], order, S, B, i)}
  <2>1. 0 \in Q
    BY <1>2, <1>3
  <2>2. ASSUME NEW i \in 0 .. n - 1, i \in Q PROVE i + 1 \in Q
    <3>1. i + 1 \in 1 .. n /\ i \in 0 .. n /\ i + 1 \in 0 .. n /\ (i + 1) - 1 = i /\ Prepared(c[i], order, S, B, i)
          /\ i \in Nat /\ i + 1 <= n /\ i + 1 \in Nat
      BY <1>1, <2>2
    <3>2. PICK s, t, k : s = c[i] /\ t = c[i + 1] /\ k = order[i + 1]
      OBVIOUS
    <3>3. s \in JoinStates(P) /\ t \in JoinStates(P) /\ k \in Joins /\ Prepared(s, order, S, B, i)
      BY <3>1, <3>2
    <3>4. t = PlainJoin(s, k) \/ t = SampledJoin(S, s, k)
      BY <1>3, <3>1, <3>2
    <3>5. s.tids \subseteq S /\ S \subseteq Tids /\ s.tids = Chaining(S, order, i)
      BY <3>3 DEF Prepared, Chaining, AllHaveChains
    <3>6. CASE t = PlainJoin(s, k) /\ s.tids = {}
      <4>1. t = s
        BY <3>6 DEF PlainJoin
      <4>2. Chaining(S, order, i + 1) = {}
        <5>1. \A j \in 1 .. i : j \in 1 .. i + 1
          BY <3>1
        <5>2. Chaining(S, order, i + 1) \subseteq Chaining(S, order, i)
          BY <5>1 DEF Chaining
        <5>3. QED
          BY <3>5, <3>6, <5>2
      <4>3. Prepared(t, order, S, B, i + 1)
        BY <3>3, <3>6, <4>1, <4>2 DEF Prepared
      <4>4. QED
        BY <3>1, <3>2, <4>3
    <3>7. CASE t = PlainJoin(s, k) /\ s.tids # {}
      <4>1. PICK p : p = InitProbe(k, s.tids)
        OBVIOUS
      <4>2. t = PrepareSingleJoin(s, k)
        BY <3>7 DEF PlainJoin
      <4>3. t.tids = s.tids \cap p.key_matches /\ t.output = s.output /\ t.probes = Put(s.probes, k, p)
        <5>1. Enough(P) /\ s \in JoinStates(P) /\ k \in Joins /\ p = InitProbe(k, s.tids) /\ t = PrepareSingleJoin(s, k)
          BY <3>3, <4>1, <4>2
        <5>2. With(t, P, s, k, p, s.tids \cap p.key_matches)
          BY ONLY <5>1, PrepareIs
        <5>3. QED
          BY <5>2 DEF With
      <4>4. t.tids = p.key_matches \cap s.tids
        BY <4>3
      <4>5. PICK A : A = s.tids
        OBVIOUS
      <4>6. A \subseteq S /\ s.tids \subseteq A /\ p = InitProbe(k, A)
        BY <3>5, <4>1, <4>5
      <4>7. Prepared(t, order, S, B, i + 1)
        BY <3>1, <3>2, <3>3, <4>3, <4>4, <4>6, PreparedNext
      <4>8. QED
        BY <3>1, <3>2, <4>7
    <3>8. CASE t = SampledJoin(S, s, k)
      <4>1. PICK p : p = InitProbe(k, S)
        OBVIOUS
      <4>2. t.tids = (S \cap p.key_matches) \cap s.tids /\ t.output = s.output /\ t.probes = Put(s.probes, k, p)
        BY <3>3, <3>5, <3>8, <4>1, SampledIs
      <4>3. t.tids = p.key_matches \cap s.tids
        BY <3>5, <4>2
      <4>4. Prepared(t, order, S, B, i + 1)
        BY <3>1, <3>2, <3>3, <3>5, <4>1, <4>2, <4>3, PreparedNext
      <4>5. QED
        BY <3>1, <3>2, <4>4
    <3>9. QED
      BY <3>4, <3>6, <3>7, <3>8
  <2> HIDE DEF Q
  <2>3. 0 .. n \subseteq Q
    BY <1>1, <2>1, <2>2, UpTo
  <2>4. n \in Q /\ n \in 0 .. n
    BY <1>1, <2>3
  <2>5. Prepared(c[n], order, S, B, n)
    BY <2>4 DEF Q
  <2>6. QED
    BY <1>3, <2>4, <2>5
<1>4. CASE sampled
  <2>1. r = JoinFilter!RunSampled(order, st)
    BY <1>4 DEF JoinFilter!RunFilter
  <2>2. PICK c \in [0 .. n -> JoinStates(P)] : /\ JoinFilter!RunSampled(order, st) = c[n]
                                               /\ c[0] = st
                                               /\ \A i \in 1 .. n : c[i] = SampledJoin(st.tids, c[i - 1], order[i])
    BY JoinSampledRun
  <2>3. QED
    BY <1>3, <2>1, <2>2
<1>5. CASE ~sampled
  <2>1. r = JoinFilter!RunTerms(order, st)
    BY <1>5 DEF JoinFilter!RunFilter
  <2>2. PICK c \in [0 .. n -> JoinStates(P)] : /\ JoinFilter!RunTerms(order, st) = c[n]
                                               /\ c[0] = st
                                               /\ \A i \in 1 .. n : c[i] = PlainJoin(c[i - 1], order[i])
    BY JoinTermsRun
  <2>3. QED
    BY <1>3, <2>1, <2>2
<1>6. QED
  BY <1>4, <1>5

(* The only clause of the join manager's filter is its first. *)
LEMMA OneClause ==
  ASSUME NEW order, NEW sampled, NEW input, NEW st, NEW a, a = [st EXCEPT !.output = {}]
  PROVE  JoinFilter!RunFilters(<<order>>, <<sampled>>, input, st) = JoinFilter!ClauseStep(input, a, order, sampled)
<1> DEFINE os == <<order>>
           ss == <<sampled>>
           F(g) == [i \in 0 .. Len(os) |->
                      IF i = 0 THEN [st EXCEPT !.output = {}]
                      ELSE JoinFilter!ClauseStep(input, g[i - 1], os[i], ss[i])]
           c == CHOOSE g : g = F(g)
           b == JoinFilter!ClauseStep(input, a, order, sampled)
<1>1. Len(os) = 1 /\ os[1] = order /\ ss[1] = sampled /\ 0 .. 1 = {0, 1}
  OBVIOUS
<1>2. JoinFilter!RunFilters(os, ss, input, st) = c[Len(os)]
  BY DEF JoinFilter!RunFilters
<1>3. \A g : F(g) = [i \in 0 .. Len(os) |-> IF i = 0 THEN a ELSE JoinFilter!ClauseStep(input, g[i - 1], os[i], ss[i])]
  BY Zenon
<1> HIDE DEF os, ss, F
<1>4. ASSUME NEW g PROVE F(g) = [i \in {0, 1} |-> IF i = 0 THEN a ELSE JoinFilter!ClauseStep(input, g[0], order, sampled)]
  <2>1. F(g) = [i \in {0, 1} |-> IF i = 0 THEN a ELSE JoinFilter!ClauseStep(input, g[i - 1], os[i], ss[i])]
    BY <1>1, <1>3
  <2>2. \A i \in {0, 1} : i # 0 => i - 1 = 0 /\ os[i] = order /\ ss[i] = sampled
    BY <1>1
  <2>3. QED
    BY <2>1, <2>2
<1>5. PICK f : f = [i \in {0, 1} |-> IF i = 0 THEN a ELSE b]
  OBVIOUS
<1>6. f = F(f)
  <2>1. f[0] = a
    BY <1>5
  <2>2. QED
    BY <1>4, <1>5, <2>1
<1>7. c = F(c)
  BY <1>6, Zenon
<1> HIDE DEF c
<1>8. c = [i \in {0, 1} |-> IF i = 0 THEN a ELSE JoinFilter!ClauseStep(input, c[0], order, sampled)]
  BY <1>4, <1>7
<1>9. c[0] = a
  BY <1>8
<1>10. c[1] = b
  BY <1>8, <1>9
<1>11. JoinFilter!RunFilters(os, ss, input, st) = b
  BY <1>1, <1>2, <1>10
<1>12. QED
  BY <1>11 DEF os, ss

(* The tuples of S that found a chain in every table. *)
EveryChain(S) == {t \in S : \A k \in Joins : Chain(k, t) # <<>>}

(* After all terms of a clause with every table. *)
LEMMA AllChaining ==
  ASSUME NEW order \in Seq(Joins), Range(order) = Joins, NEW S
  PROVE  Chaining(S, order, Len(order)) = EveryChain(S)
<1>1. DOMAIN order = 1 .. Len(order)
  OBVIOUS
<1>2. ASSUME NEW t \in S PROVE (\A j \in 1 .. Len(order) : Chain(order[j], t) # <<>>) <=> (\A k \in Joins : Chain(k, t) # <<>>)
  BY <1>1 DEF Range
<1>3. QED
  BY <1>2 DEF Chaining, EveryChain

(* The probes after the filter. *)
Started(ps, P, A) ==
  /\ ps \in [Joins -> P] /\ \A k \in Joins : IsProbe(ps[k])
  /\ A # {} => \A k \in Joins : InitWith(ps[k], k, A)

(* The filter keeps the tuples with a chain in every table, and when there  *)
(* are any it has initialised every probe.                                  *)
LEMMA JoinFilterExact ==
  ASSUME NEW P, Enough(P), NEW order \in Seq(Joins), Range(order) = Joins, NEW input, AllHaveChains(input),
         NEW ps \in [Joins -> P], \A k \in Joins : IsProbe(ps[k]), NEW sampled, NEW st, st = StateOf({}, {}, ps),
         NEW r, r = JoinFilter!RunFilters(<<order>>, <<sampled>>, input, st)
  PROVE  r.output = EveryChain(input) /\ Started(r.probes, P, EveryChain(input))
<1> DEFINE X == EveryChain(input)
<1>1. st \in JoinStates(P) /\ st.output = {} /\ st.probes = ps
  BY DEF StateOf, JoinStates
<1>2. st = [st EXCEPT !.output = {}]
  BY <1>1 DEF JoinStates
<1>3. r = JoinFilter!ClauseStep(input, st, order, sampled)
  BY <1>2, OneClause
<1>4. input \in SUBSET Tids /\ input \ st.output = input
  BY <1>1 DEF AllHaveChains
<1>5. PICK a : a = [st EXCEPT !.tids = input]
  BY Zenon
<1>6. a \in JoinStates(P) /\ a.tids = input /\ a.output = {} /\ a.probes = ps
  BY <1>1, <1>4, <1>5, OtherTids
<1>7. PICK run : run = JoinFilter!RunFilter(order, sampled, a)
  OBVIOUS
<1>8. run \in JoinStates(P) /\ Prepared(run, order, input, a.output, Len(order))
  BY <1>6, <1>7, JoinTermsExact
<1>9. r = IF input = {} THEN st ELSE [run EXCEPT !.output = st.output \cup run.tids]
  <2>1. r = IF input \ st.output = {} THEN st
            ELSE LET x == JoinFilter!RunFilter(order, sampled, [st EXCEPT !.tids = input \ st.output])
                 IN  [x EXCEPT !.output = st.output \cup x.tids]
    BY <1>3, Zenon DEF JoinFilter!ClauseStep
  <2>2. r = IF input = {} THEN st
            ELSE LET x == JoinFilter!RunFilter(order, sampled, [st EXCEPT !.tids = input])
                 IN  [x EXCEPT !.output = st.output \cup x.tids]
    BY <1>4, <2>1, Zenon
  <2>3. QED
    BY <1>5, <1>7, <2>2, Zenon
<1>10. CASE input = {}
  <2>1. r = st
    BY <1>9, <1>10
  <2>2. X = {}
    BY <1>10 DEF EveryChain
  <2>3. QED
    BY <1>1, <2>1, <2>2 DEF Started
<1>11. CASE input # {}
  <2>1. run.tids = X
    BY <1>8, AllChaining DEF Prepared
  <2>2. PICK Y : Y = st.output \cup run.tids
    OBVIOUS
  <2>3. r = [run EXCEPT !.output = Y]
    BY <1>9, <1>11, <2>2, Zenon
  <2>4. r.output = Y /\ r.probes = run.probes
    BY <1>8, <2>3 DEF JoinStates
  <2>5. Y = X
    BY <1>1, <2>1, <2>2
  <2>6. run.probes \in [Joins -> P] /\ \A k \in Joins : IsProbe(run.probes[k])
    BY <1>8 DEF Prepared, JoinStates
  <2>7. ASSUME X # {}, NEW k \in Joins PROVE InitWith(run.probes[k], k, X)
    <3>1. PICK j \in 1 .. Len(order) : order[j] = k
      BY DEF Range
    <3>2. InitWith(run.probes[order[j]], order[j], run.tids)
      BY <1>8, <2>1, <2>7 DEF Prepared
    <3>3. QED
      BY <2>1, <3>1, <3>2
  <2>8. QED
    BY <2>4, <2>5, <2>6, <2>7 DEF Started
<1>12. QED
  BY <1>10, <1>11

(* A probe that was initialised with A and perhaps more. *)
LEMMA InitReady ==
  ASSUME NEW k \in Joins, NEW p, InitWith(p, k, Candidates)
  PROVE  Ready(p, k) /\ AtStart(p)
<1>1. PICK S \in SUBSET Tids : Candidates \subseteq S /\ Chained(k, S) /\ p = InitProbe(k, S)
  BY DEF InitWith
<1>2. p = ProbeInit(vector.keys[k], LookupBatch(k, vector.keys[k]), S)
  BY <1>1 DEF InitProbe
<1>3. Turned(p, k, 0, S) /\ p.key_matches = Live(k, 0, S) /\ p.initial_match_list = Live(k, 0, S)
      /\ (\A t \in S : p.initial_matches[t] = Chain(k, t))
      /\ p.curr_matches = p.initial_matches /\ p.keys = vector.keys[k] /\ p.first = TRUE
  <2>1. Chained(k, S) /\ p = ProbeInit(vector.keys[k], LookupBatch(k, vector.keys[k]), S)
    BY <1>1, <1>2
  <2>2. Unmoved(p, k, S)
    BY <2>1, NotTurned
  <2>3. QED
    BY <2>2 DEF Unmoved
<1>4. p.non_null_entries = Live(k, 0, S)
  BY <1>3 DEF Turned
<1>5. PICK R : \A t \in S : Chain(k, t) \in Seq(R)
  BY <1>1 DEF Chained
<1>6. \A t \in Candidates : t \in Live(k, 0, S)
  BY <1>1, <1>5 DEF Candidates, Live
<1>7. QED
  BY <1>1, <1>3, <1>4, <1>6 DEF Ready, AtStart

----------------------------------------------------------------------------
(* The multi-way join *)

(* The candidates and what the probes know of them depend on the vector,    *)
(* the tables and the filter only.                                          *)
LEMMA SameJoin ==
  ASSUME UNCHANGED <<chains, vector, passed>>
  PROVE  /\ Candidates' = Candidates
         /\ \A ps : Fit(ps)' <=> Fit(ps)
         /\ \A ps, l : Waiting(ps, l)' <=> Waiting(ps, l)
         /\ \A ps, O, l, first : Advancing(ps, O, l, first)' <=> Advancing(ps, O, l, first)
         /\ \A ps, O : Returned(ps, O)' <=> Returned(ps, O)
         /\ \A O : AllOutput(O)' <=> AllOutput(O)
<1>1. /\ \A k, t : Chain(k, t)' = Chain(k, t)
      /\ \A k, t, i : KeyAt(k, t, i)' <=> KeyAt(k, t, i)
      /\ \A p, k, v, S : Turned(p, k, v, S)' <=> Turned(p, k, v, S)
  BY SameChains
<1>2. Candidates' = Candidates
  BY <1>1 DEF Candidates
<1>3. \A p, k : Ready(p, k)' <=> Ready(p, k)
  BY <1>1, <1>2 DEF Ready
<1>4. \A ps : Fit(ps)' <=> Fit(ps)
  BY <1>2, <1>3 DEF Fit
<1>5. \A ps, l : Waiting(ps, l)' <=> Waiting(ps, l)
  BY <1>2 DEF Waiting
<1>6. \A v, k : Matching(v, k)' = Matching(v, k)
  BY <1>1, <1>2 DEF Matching
<1>7. \A ps, v, l : Standing(ps, v, l)' <=> Standing(ps, v, l)
  BY <1>1, <1>6 DEF Standing
<1>8. \A t, j : IsMatch(t, j)' <=> IsMatch(t, j)
  BY <1>1 DEF IsMatch
<1>9. \A t, j : MatchOf(t, j)' = MatchOf(t, j)
  BY <1>1 DEF MatchOf
<1>10. \A O, v, l : OutputIs(O, v, l)' <=> OutputIs(O, v, l)
  BY <1>2, <1>8, <1>9 DEF OutputIs
<1>11. \A O : AllOutput(O)' <=> AllOutput(O)
  BY <1>2, <1>8, <1>9 DEF AllOutput
<1>12. \A ps, O, l, first : Advancing(ps, O, l, first)' <=> Advancing(ps, O, l, first)
  BY <1>4, <1>5, <1>7, <1>10 DEF Advancing
<1>13. \A ps, O : Returned(ps, O)' <=> Returned(ps, O)
  BY <1>4, <1>7, <1>10 DEF Returned
<1>14. QED
  BY <1>2, <1>4, <1>5, <1>11, <1>12, <1>13

(* Before the first call of Next every probe is where the filter left it;    *)
(* after one, the output is that of the entries passed so far; when there is *)
(* no more, it is that of all entries.                                      *)
JoinInv ==
  /\ probes = [k \in Joins |-> probes[k]] /\ \A k \in Joins : IsProbe(probes[k])
  /\ repeated = FALSE
  /\ phase \in {"build", "filter", "prepare", "semi"} => output = {}
  /\ phase = "scan" => (output = {} /\ (semi # <<>> \/ count = 0)) \/ (AllOutput(output) /\ count # 0)
  /\ phase \in {"join", "advance"} => input_tids = Candidates
  /\ phase = "join" /\ first_join => selected = Candidates /\ output = {} /\ Fit(probes) /\ Waiting(probes, 0)
  /\ phase = "join" /\ ~first_join => Returned(probes, output)
  /\ phase = "advance" => Advancing(probes, output, at, first_join)

(* The chains are right while the vector is joined. *)
LEMMA JoinChains ==
  ASSUME BuildInv, VectorInv, phase # "build", count # 0
  PROVE  ChainsRight
<1>1. passed \subseteq Tids /\ Candidates \subseteq passed
  BY DEF VectorInv, Candidates
<1>2. ASSUME NEW k \in Joins, NEW t \in Candidates
      PROVE  Chain(k, t) \in Seq(Range(tables[k].rows)) /\ IsInjective(Chain(k, t))
  <2>1. t \in Tids
    BY <1>1
  <2>2. QED
    BY <2>1, ChainOf
<1>3. QED
  BY <1>1, <1>2 DEF ChainsRight

(* The probes on their way are probes. *)
LEMMA ProbesFit ==
  ASSUME NEW ps, Fit(ps)
  PROVE  ps = [k \in Joins |-> ps[k]] /\ \A k \in Joins : IsProbe(ps[k])
BY DEF Fit

(* The loop goes on with probe l. *)
LEMMA GoesOn ==
  ASSUME JoinInv, UNCHANGED <<chains, vector, passed, input_tids, repeated>>, phase \in {"join", "advance"},
         phase' = "advance", NEW ps, NEW O, NEW l, NEW first, Advancing(ps, O, l, first),
         probes' = ps, output' = O, at' = l, first_join' = first
  PROVE  JoinInv'
<1>1. Advancing(ps, O, l, first)' /\ Candidates' = Candidates
  BY SameJoin
<1>2. Advancing(probes, output, at, first_join)'
  BY <1>1
<1>3. ps = [k \in Joins |-> ps[k]] /\ \A k \in Joins : IsProbe(ps[k])
  BY ProbesFit DEF Advancing
<1>4. input_tids' = Candidates' /\ repeated' = FALSE
  BY <1>1 DEF JoinInv
<1>5. QED
  BY <1>2, <1>3, <1>4 DEF JoinInv

(* The probe that moves, and its turn. *)
TurnIs(ps, l, turn, b) == ps = probes /\ l = at /\ turn = InnerTurn(ps[l]) /\ b = turn.probe

(* What the steps of the loop move. *)
LEMMA MovedIs ==
  ASSUME NEW ps, NEW l, NEW turn, NEW b, TurnIs(ps, l, turn, b)
  PROVE  Turn = turn /\ Moved = Put(ps, l, b)
<1>1. Turn = turn
  BY Zenon DEF Turn, TurnIs
<1>2. Moved = [probes EXCEPT ![at] = turn.probe]
  BY <1>1, Zenon DEF Moved
<1>3. QED
  BY <1>1, <1>2, Zenon DEF TurnIs, Put

(* There is such a turn. *)
LEMMA SomeTurn ==
  \E ps, l, turn, b : TurnIs(ps, l, turn, b)
<1>1. PICK ps, l : ps = probes /\ l = at
  OBVIOUS
<1>2. PICK turn : turn = InnerTurn(ps[l])
  OBVIOUS
<1>3. PICK b : b = turn.probe
  OBVIOUS
<1>4. QED
  BY <1>1, <1>2, <1>3 DEF TurnIs

(* No tuple has a match yet. *)
LEMMA KeepLookingKeeps ==
  ASSUME BuildInv, VectorInv, JoinInv, KeepLooking
  PROVE  JoinInv'
<1>1. /\ phase = "advance" /\ Turn.outcome = "more" /\ probes' = Moved /\ phase' = phase
      /\ UNCHANGED <<chains, vector, passed, input_tids, repeated, at, first_join, output>>
  BY Zenon DEF KeepLooking, unmoved
<1>2. ChainsRight /\ Advancing(probes, output, at, first_join)
  BY <1>1, JoinChains DEF VectorInv, JoinInv
<1>3. PICK ps, l, turn, b : TurnIs(ps, l, turn, b)
  BY SomeTurn
<1>4. PICK O, first, qs : O = output /\ first = first_join /\ qs = Put(ps, l, b)
  OBVIOUS
<1>5. turn.outcome = "more" /\ probes' = qs
  BY <1>1, <1>3, <1>4, MovedIs
<1>6. Advancing(ps, O, l, first) /\ turn = InnerTurn(ps[l]) /\ b = turn.probe
  BY <1>2, <1>3, <1>4 DEF TurnIs
<1>7. Advancing(qs, O, l, first)
  BY <1>2, <1>4, <1>5, <1>6, KeepsLooking
<1>8. phase' = "advance" /\ output' = O /\ at' = l /\ first_join' = first
  BY <1>1, <1>3, <1>4 DEF TurnIs
<1>9. QED
  BY <1>1, <1>5, <1>7, <1>8, GoesOn

(* What is put in the same place twice. *)
LEMMA PutTwice ==
  ASSUME NEW ps, ps = [k \in Joins |-> ps[k]], NEW m \in Joins, NEW c, NEW d
  PROVE  Put(ps, m, c)[m] = c /\ Put(Put(ps, m, c), m, d) = Put(ps, m, d)
BY DEF Put

(* A call of Next for probe m. *)
LEMMA CallIs ==
  ASSUME NEW ps, NEW m, NEW sel, NEW d, d = ApplyInputFilter(ps[m], sel)
  PROVE  CallNext(ps, m, sel) = Put(ps, m, d)
BY Zenon DEF CallNext, Put

(* The next probe starts. *)
LEMMA DescendKeeps ==
  ASSUME BuildInv, VectorInv, JoinInv, Descend
  PROVE  JoinInv'
<1> DEFINE inner == IF first_join THEN Moved ELSE [Moved EXCEPT ![at + 1] = ProbeReset(probes[at + 1])]
<1>1. /\ phase = "advance" /\ Turn.outcome = "found" /\ at < NumJoins /\ phase' = phase /\ at' = at + 1
      /\ probes' = CallNext(inner, at + 1, Turn.probe.key_matches)
      /\ UNCHANGED <<chains, vector, passed, input_tids, repeated, first_join, output>>
  BY Zenon DEF Descend, unmoved
<1>2. ChainsRight /\ Advancing(probes, output, at, first_join)
  BY <1>1, JoinChains DEF VectorInv, JoinInv
<1>3. PICK ps, l, turn, b : TurnIs(ps, l, turn, b)
  BY SomeTurn
<1>4. PICK O, first, qs, X, m : O = output /\ first = first_join /\ qs = Put(ps, l, b) /\ X = b.key_matches /\ m = l + 1
  OBVIOUS
<1>5. turn.outcome = "found" /\ Moved = qs /\ Turn.probe.key_matches = X /\ Turn = turn
  <2>1. Turn = turn /\ Moved = qs
    BY <1>3, <1>4, MovedIs
  <2>2. QED
    BY <1>1, <1>3, <1>4, <2>1 DEF TurnIs
<1>6. /\ Advancing(ps, O, l, first) /\ turn = InnerTurn(ps[l]) /\ b = turn.probe
      /\ ps = probes /\ l = at
  BY <1>2, <1>3, <1>4 DEF TurnIs
<1>7. m \in Joins /\ l \in Joins /\ l # m /\ l \in Nat
  BY <1>1, <1>4, <1>6, JoinsAssumption DEF Advancing, Joins
<1>8. PICK c : c = IF first THEN ps[m] ELSE ProbeReset(ps[m])
  OBVIOUS
<1>9. PICK d : d = ApplyInputFilter(c, X)
  OBVIOUS
<1>10. PICK rs : rs = Put(qs, m, d)
  OBVIOUS
<1>11. probes' = rs
  <2>1. ps = [k \in Joins |-> ps[k]]
    BY <1>6, ProbesFit DEF Advancing
  <2>2. qs = [k \in Joins |-> qs[k]] /\ qs[m] = ps[m]
    BY <1>4, <1>7, <2>1 DEF Put
  <2>3. PICK in : in = IF first THEN qs ELSE Put(qs, m, c)
    OBVIOUS
  <2>4. probes' = CallNext(in, m, X)
    <3>1. CASE first
      <4>1. inner = qs /\ in = qs
        BY <1>4, <1>5, <2>3, <3>1
      <4> HIDE DEF inner
      <4>2. QED
        BY <1>1, <1>4, <1>5, <1>6, <4>1
    <3>2. CASE ~first
      <4>1. inner = [qs EXCEPT ![m] = ProbeReset(ps[m])]
        BY <1>4, <1>5, <1>6, <3>2, Zenon
      <4>2. c = ProbeReset(ps[m])
        BY <1>8, <3>2
      <4>3. inner = Put(qs, m, c)
        BY <4>1, <4>2, Zenon DEF Put
      <4>4. in = Put(qs, m, c)
        BY <2>3, <3>2
      <4> HIDE DEF inner
      <4>5. QED
        BY <1>1, <1>4, <1>5, <1>6, <4>3, <4>4
    <3>3. QED
      BY <3>1, <3>2
  <2>5. in[m] = c
    <3>1. CASE first
      BY <1>8, <2>2, <2>3, <3>1
    <3>2. CASE ~first
      BY <1>7, <2>2, <2>3, <3>2, PutTwice
    <3>3. QED
      BY <3>1, <3>2
  <2>6. CallNext(in, m, X) = Put(in, m, d)
    BY <1>9, <2>5, CallIs
  <2>7. Put(in, m, d) = rs
    <3>1. CASE first
      BY <1>10, <2>3, <3>1
    <3>2. CASE ~first
      BY <1>7, <1>10, <2>2, <2>3, <3>2, PutTwice
    <3>3. QED
      BY <3>1, <3>2
  <2>8. QED
    BY <2>4, <2>6, <2>7
<1>12. Advancing(rs, O, m, first)
  <2>1. turn.outcome = "found" /\ b = turn.probe /\ X = b.key_matches /\ m = l + 1 /\ qs = Put(ps, l, b)
    BY <1>4, <1>5, <1>6
  <2> HIDE DEF inner
  <2>2. QED
    BY <1>2, <1>6, <1>7, <1>8, <1>9, <1>10, <2>1, Descends
<1>13. phase' = "advance" /\ output' = O /\ at' = m /\ first_join' = first
  BY <1>1, <1>4, <1>6
<1> HIDE DEF inner
<1>14. QED
  BY <1>1, <1>11, <1>12, <1>13, GoesOn

(* The probe before goes on. *)
LEMMA BackUpKeeps ==
  ASSUME BuildInv, VectorInv, JoinInv, BackUp
  PROVE  JoinInv'
<1> DEFINE outer == IF first_join THEN [Moved EXCEPT ![at] = ProbeReset(Turn.probe)] ELSE Moved
<1>1. /\ phase = "advance" /\ Turn.outcome = "none" /\ at # 1 /\ phase' = phase /\ at' = at - 1
      /\ probes' = CallNext(outer, at - 1, OuterMatchList(at - 1))
      /\ UNCHANGED <<chains, vector, passed, input_tids, repeated, first_join, output>>
  BY Zenon DEF BackUp, unmoved
<1>2. ChainsRight /\ Advancing(probes, output, at, first_join) /\ input_tids = Candidates
  BY <1>1, JoinChains DEF VectorInv, JoinInv
<1>3. PICK ps, l, turn, b : TurnIs(ps, l, turn, b)
  BY SomeTurn
<1>4. PICK O, first, m : O = output /\ first = first_join /\ m = l - 1
  OBVIOUS
<1>5. turn.outcome = "none" /\ Moved = Put(ps, l, b) /\ Turn = turn
  <2>1. Turn = turn /\ Moved = Put(ps, l, b)
    BY <1>3, MovedIs
  <2>2. QED
    BY <1>1, <2>1
<1>6. /\ Advancing(ps, O, l, first) /\ turn = InnerTurn(ps[l]) /\ b = turn.probe
      /\ ps = probes /\ l = at
  BY <1>2, <1>3, <1>4 DEF TurnIs
<1>7. m \in Joins /\ l \in Joins /\ l # m /\ l \in Nat
  BY <1>1, <1>4, <1>6, JoinsAssumption DEF Advancing, Joins
<1>8. PICK X : X = IF m = 1 THEN Candidates ELSE ps[m - 1].key_matches
  OBVIOUS
<1>9. OuterMatchList(at - 1) = X
  BY <1>2, <1>4, <1>6, <1>8, Zenon DEF OuterMatchList
<1>10. PICK c : c = IF first THEN ProbeReset(b) ELSE b
  OBVIOUS
<1>11. PICK d : d = ApplyInputFilter(ps[m], X)
  OBVIOUS
<1>12. PICK qs : qs = Put(ps, l, c)
  OBVIOUS
<1>13. PICK rs : rs = Put(qs, m, d)
  OBVIOUS
<1>14. ps = [k \in Joins |-> ps[k]]
  BY <1>6, ProbesFit DEF Advancing
<1>15. outer = qs
  <2>1. CASE first
    <3>1. c = ProbeReset(b)
      BY <1>10, <2>1
    <3>2. outer = [Put(ps, l, b) EXCEPT ![l] = ProbeReset(b)]
      BY <1>4, <1>5, <1>6, <2>1, Zenon
    <3>3. outer = Put(Put(ps, l, b), l, c)
      BY <3>1, <3>2, Zenon DEF Put
    <3> HIDE DEF outer
    <3>4. QED
      BY <1>7, <1>12, <1>14, <3>3, PutTwice
  <2>2. CASE ~first
    <3>1. outer = Put(ps, l, b) /\ c = b
      BY <1>4, <1>5, <1>10, <2>2
    <3> HIDE DEF outer
    <3>2. QED
      BY <1>12, <3>1
  <2>3. QED
    BY <2>1, <2>2
<1> HIDE DEF outer
<1>16. probes' = rs
  <2>1. probes' = CallNext(qs, m, X)
    BY <1>1, <1>4, <1>6, <1>9, <1>15
  <2>2. qs[m] = ps[m]
    BY <1>7, <1>12, <1>14 DEF Put
  <2>3. CallNext(qs, m, X) = Put(qs, m, d)
    BY <1>11, <2>2, CallIs
  <2>4. QED
    BY <1>13, <2>1, <2>3
<1>17. Advancing(rs, O, m, first)
  <2>1. turn.outcome = "none" /\ b = turn.probe /\ m = l - 1
    BY <1>4, <1>5, <1>6
  <2>2. QED
    BY <1>2, <1>6, <1>7, <1>8, <1>10, <1>11, <1>12, <1>13, <2>1, BacksUp
<1>18. phase' = "advance" /\ output' = O /\ at' = m /\ first_join' = first
  BY <1>1, <1>4, <1>6
<1>19. QED
  BY <1>1, <1>16, <1>17, <1>18, GoesOn

(* A call of Next begins. *)
LEMMA JoinNextKeeps ==
  ASSUME BuildInv, VectorInv, JoinInv, JoinNext
  PROVE  JoinInv'
<1>1. /\ phase = "join" /\ phase' = "advance" /\ at' = (IF first_join THEN 1 ELSE NumJoins)
      /\ selected' = (IF first_join THEN selected ELSE OuterMatchList(NumJoins))
      /\ probes' = CallNext(probes, at', selected')
      /\ UNCHANGED <<chains, vector, passed, input_tids, repeated, first_join, output>>
  BY Zenon DEF JoinNext, unmoved
<1>2. ChainsRight /\ input_tids = Candidates
  BY <1>1, JoinChains DEF VectorInv, JoinInv
<1>3. PICK ps, O, l, X : ps = probes /\ O = output /\ l = at' /\ X = selected'
  OBVIOUS
<1>4. PICK d : d = ApplyInputFilter(ps[l], X)
  OBVIOUS
<1>5. PICK rs : rs = Put(ps, l, d)
  OBVIOUS
<1>6. probes' = rs
  BY <1>1, <1>3, <1>4, <1>5, CallIs
<1>7. CASE first_join
  <2>1. selected = Candidates /\ output = {} /\ Fit(ps) /\ Waiting(ps, 0)
    BY <1>1, <1>3, <1>7 DEF JoinInv
  <2>2. l = 1 /\ X = Candidates /\ O = {}
    BY <1>1, <1>3, <1>7, <2>1
  <2>3. PICK first : first = first_join
    OBVIOUS
  <2>4. d = ApplyInputFilter(ps[1], Candidates) /\ rs = Put(ps, 1, d)
    BY <1>4, <1>5, <2>2
  <2>5. Advancing(rs, {}, 1, first)
    BY <1>2, <2>1, <2>4, Starts
  <2>6. Advancing(rs, O, l, first)
    BY <2>2, <2>5
  <2>7. output' = O /\ at' = l /\ first_join' = first
    BY <1>1, <1>3, <2>3
  <2>8. QED
    BY <1>1, <1>6, <2>6, <2>7, GoesOn
<1>8. CASE ~first_join
  <2>1. Returned(ps, O)
    BY <1>1, <1>3, <1>8 DEF JoinInv
  <2>2. l = NumJoins /\ X = OuterMatchList(NumJoins)
    BY <1>1, <1>3, <1>8
  <2>3. X = IF l = 1 THEN Candidates ELSE ps[l - 1].key_matches
    BY <1>2, <1>3, <2>2, Zenon DEF OuterMatchList
  <2>4. Advancing(rs, O, l, FALSE)
    BY <1>4, <1>5, <2>1, <2>2, <2>3, Resumes
  <2>5. PICK first : first = first_join
    OBVIOUS
  <2>6. Advancing(rs, O, l, first)
    BY <1>8, <2>4, <2>5 DEF Advancing
  <2>7. output' = O /\ at' = l /\ first_join' = first
    BY <1>1, <1>3, <2>5
  <2>8. QED
    BY <1>1, <1>6, <2>6, <2>7, GoesOn
<1>9. QED
  BY <1>7, <1>8

(* A call of Next returns true. *)
LEMMA ReturnTrueKeeps ==
  ASSUME BuildInv, VectorInv, JoinInv, ReturnTrue
  PROVE  JoinInv'
<1>1. /\ phase = "advance" /\ Turn.outcome = "found" /\ at = NumJoins /\ phase' = "join" /\ first_join' = FALSE
      /\ probes' = Moved /\ UNCHANGED <<chains, vector, passed, input_tids>>
      /\ output' = output \cup OutputBatch(Moved, Turn.probe.key_matches)
      /\ repeated' = (repeated \/ output \cap OutputBatch(Moved, Turn.probe.key_matches) # {})
  BY Zenon DEF ReturnTrue, unmoved
<1>2. ChainsRight /\ Advancing(probes, output, at, first_join) /\ input_tids = Candidates /\ repeated = FALSE
  BY <1>1, JoinChains DEF VectorInv, JoinInv
<1>3. PICK ps, l, turn, b : TurnIs(ps, l, turn, b)
  BY SomeTurn
<1>4. PICK O, first, qs, X : O = output /\ first = first_join /\ qs = Put(ps, l, b) /\ X = b.key_matches
  OBVIOUS
<1>5. turn.outcome = "found" /\ Moved = qs /\ Turn.probe.key_matches = X
  <2>1. Turn = turn /\ Moved = qs
    BY <1>3, <1>4, MovedIs
  <2>2. QED
    BY <1>1, <1>3, <1>4, <2>1 DEF TurnIs
<1>6. Advancing(ps, O, l, first) /\ turn = InnerTurn(ps[l]) /\ b = turn.probe /\ l = NumJoins
  BY <1>1, <1>2, <1>3, <1>4 DEF TurnIs
<1>7. PICK B : B = OutputBatch(qs, X)
  OBVIOUS
<1>8. Returned(qs, O \cup B) /\ O \cap B = {}
  BY <1>2, <1>4, <1>5, <1>6, <1>7, ReturnsTrue
<1>9. PICK A : A = O \cup B
  OBVIOUS
<1>10. probes' = qs /\ output' = A /\ repeated' = FALSE
  BY <1>1, <1>2, <1>4, <1>5, <1>7, <1>8, <1>9
<1>11. Returned(qs, A)' /\ Candidates' = Candidates
  BY <1>1, <1>8, <1>9, SameJoin
<1>12. Returned(probes, output)'
  BY <1>10, <1>11
<1>13. qs = [k \in Joins |-> qs[k]] /\ \A k \in Joins : IsProbe(qs[k])
  BY <1>8, ProbesFit DEF Returned
<1>14. input_tids' = Candidates'
  BY <1>1, <1>2, <1>11
<1>15. QED
  BY <1>1, <1>10, <1>12, <1>13, <1>14 DEF JoinInv

(* A call of Next returns false. *)
LEMMA ReturnFalseKeeps ==
  ASSUME BuildInv, VectorInv, JoinInv, ReturnFalse
  PROVE  JoinInv'
<1>1. /\ phase = "advance" /\ Turn.outcome = "none" /\ at = 1 /\ phase' = "scan" /\ probes' = Moved
      /\ UNCHANGED <<chains, vector, passed, output, repeated, count>>
  BY Zenon DEF ReturnFalse, unmoved
<1>2. ChainsRight /\ Advancing(probes, output, at, first_join) /\ repeated = FALSE /\ count # 0
  BY <1>1, JoinChains DEF VectorInv, JoinInv
<1>3. PICK ps, l, turn, b : TurnIs(ps, l, turn, b)
  BY SomeTurn
<1>4. PICK O, first, qs : O = output /\ first = first_join /\ qs = Put(ps, 1, b)
  OBVIOUS
<1>5. l = 1 /\ Advancing(ps, O, 1, first) /\ turn = InnerTurn(ps[1]) /\ b = turn.probe
  BY <1>1, <1>2, <1>3, <1>4 DEF TurnIs
<1>6. turn.outcome = "none" /\ probes' = qs
  <2>1. Turn = turn /\ Moved = Put(ps, l, b)
    BY <1>3, MovedIs
  <2>2. QED
    BY <1>1, <1>4, <1>5, <2>1
<1>7. AllOutput(O) /\ Fit(qs)
  BY <1>2, <1>4, <1>5, <1>6, ReturnsFalse
<1>8. AllOutput(O)'
  BY <1>1, <1>7, SameJoin
<1>9. AllOutput(output)'
  BY <1>1, <1>4, <1>8
<1>10. qs = [k \in Joins |-> qs[k]] /\ \A k \in Joins : IsProbe(qs[k])
  BY <1>7, ProbesFit
<1>11. QED
  BY <1>1, <1>2, <1>6, <1>9, <1>10 DEF JoinInv

(* The probes init makes. *)
InitProbes == UNION {{InitProbe(k, S) : S \in SUBSET Tids} : k \in Joins}

(* The probes there may be when those at first are ps. *)
ProbesFrom(ps) == InitProbes \cup {ps[k] : k \in Joins}

(* The filter of the join manager has run. *)
LEMMA SetInputBatchKeeps ==
  ASSUME BuildInv, OrdersInv, VectorInv, JoinInv, NEW sampled, SetInputBatch(sampled)
  PROVE  JoinInv'
<1>1. PICK st, ps : ps = probes /\ st = StateOf({}, {}, ps)
  OBVIOUS
<1>2. PICK r : r = JoinFilter!RunFilters(<<join_order>>, <<sampled>>, passed, st)
  OBVIOUS
<1>3. /\ phase = "prepare" /\ phase' = "join" /\ first_join' = TRUE /\ UNCHANGED <<chains, vector, passed, output, repeated>>
      /\ LET x == JoinFilter!RunFilters(<<join_order>>, <<sampled>>, selected,
                                        [tids |-> {}, output |-> {}, probes |-> probes])
         IN  probes' = x.probes /\ selected' = x.output /\ input_tids' = x.output
  BY Zenon DEF SetInputBatch, history
<1>4. selected = passed /\ output = {} /\ repeated = FALSE /\ passed \subseteq Tids /\ count # 0
  BY <1>3 DEF VectorInv, JoinInv
<1>5. probes' = r.probes /\ selected' = r.output /\ input_tids' = r.output
  BY <1>1, <1>2, <1>3, <1>4, Zenon DEF StateOf
<1>6. PICK P : P = ProbesFrom(ps)
  OBVIOUS
<1>7. Enough(P)
  <2>1. ASSUME NEW k \in Joins, NEW S \in SUBSET Tids PROVE InitProbe(k, S) \in P
    <3>1. InitProbe(k, S) \in {InitProbe(k, T) : T \in SUBSET Tids}
      OBVIOUS
    <3>2. InitProbe(k, S) \in InitProbes
      BY <3>1 DEF InitProbes
    <3>3. QED
      BY <1>6, <3>2 DEF ProbesFrom
  <2>2. QED
    BY <2>1 DEF Enough
<1>8. ps = [k \in Joins |-> ps[k]] /\ \A k \in Joins : IsProbe(ps[k])
  BY <1>1 DEF JoinInv
<1>9. ps \in [Joins -> P]
  <2>1. \A k \in Joins : ps[k] \in P
    <3>1. \A k \in Joins : ps[k] \in {ps[i] : i \in Joins}
      OBVIOUS
    <3>2. {ps[i] : i \in Joins} \subseteq P
      BY <1>6 DEF ProbesFrom
    <3>3. QED
      BY <3>1, <3>2
  <2>2. QED
    BY <1>8, <2>1
<1>10. AllHaveChains(passed)
  BY <1>3, <1>4, AllChained DEF AllHaveChains
<1>11. join_order \in Seq(Joins) /\ Range(join_order) = Joins
  BY DEF OrdersInv
<1>12. r.output = EveryChain(passed) /\ Started(r.probes, P, EveryChain(passed))
  BY <1>1, <1>2, <1>7, <1>8, <1>9, <1>10, <1>11, JoinFilterExact
<1>13. EveryChain(passed) = Candidates
  BY DEF EveryChain, Candidates
<1>14. PICK qs : qs = r.probes
  OBVIOUS
<1>15. /\ qs = [k \in Joins |-> qs[k]] /\ \A k \in Joins : IsProbe(qs[k])
       /\ Candidates # {} => \A k \in Joins : InitWith(qs[k], k, Candidates)
  BY <1>12, <1>13, <1>14 DEF Started
<1>16. Candidates # {} => \A k \in Joins : Ready(qs[k], k) /\ AtStart(qs[k])
  BY <1>15, InitReady
<1>17. Fit(qs) /\ Waiting(qs, 0)
  BY <1>15, <1>16 DEF Fit, Waiting
<1>18. Fit(qs)' /\ Waiting(qs, 0)' /\ Candidates' = Candidates
  BY <1>3, <1>17, SameJoin
<1>19. probes' = qs /\ selected' = Candidates' /\ input_tids' = Candidates'
  BY <1>5, <1>12, <1>13, <1>14, <1>18
<1>20. Fit(probes)' /\ Waiting(probes, 0)'
  BY <1>18, <1>19
<1>21. QED
  BY <1>3, <1>4, <1>15, <1>19, <1>20 DEF JoinInv

(* Outside of the join its state does not matter. *)
LEMMA ElsewhereKeeps ==
  ASSUME JoinInv, probes' = probes, repeated' = FALSE, output' = {},
         \/ phase' \in {"build", "filter", "prepare", "semi"}
         \/ phase' = "scan" /\ (semi' # <<>> \/ count' = 0)
  PROVE  JoinInv'
BY DEF JoinInv

(* Every step keeps the join right. *)
LEMMA JoinKept ==
  ASSUME BuildInv, OrdersInv, VectorInv, SemiInv, JoinInv, [Next]_vars
  PROVE  JoinInv'
<1>1. repeated = FALSE
  BY DEF JoinInv
<1>2. ASSUME NEW k \in Joins, BuildChainingTable(k) PROVE JoinInv'
  <2>1. phase = "build" /\ phase' \in {"build", "scan"} /\ UNCHANGED <<probes, repeated, output, count>>
    BY <1>2 DEF BuildChainingTable, TableBuilt, history, joinState
  <2>2. QED
    BY <1>1, <2>1, ElsewhereKeeps DEF JoinInv, VectorInv
<1>3. ASSUME NEW k \in Joins, BuildConciseTable(k) PROVE JoinInv'
  <2>1. phase = "build" /\ UNCHANGED <<phase, probes, repeated, output, count>>
    BY <1>3 DEF BuildConciseTable, history, joinState
  <2>2. QED
    BY <1>1, <2>1, ElsewhereKeeps DEF JoinInv
<1>4. ASSUME ConciseStep PROVE JoinInv'
  <2>1. phase = "build" /\ UNCHANGED <<phase, probes, repeated, output, count>>
    BY <1>4, StepsOfTheBuild DEF ConciseStep, history, joinState, BuildInv
  <2>2. QED
    BY <1>1, <2>1, ElsewhereKeeps DEF JoinInv
<1>5. ASSUME ConciseTableBuilt PROVE JoinInv'
  <2>1. phase = "build" /\ phase' \in {"build", "scan"} /\ UNCHANGED <<probes, repeated, output, count>>
    BY <1>5 DEF ConciseTableBuilt, TableBuilt, history, joinState, BuildInv
  <2>2. QED
    BY <1>1, <2>1, ElsewhereKeeps DEF JoinInv, VectorInv
<1>6. ASSUME NEW v \in Vectors, ReadVector(v) PROVE JoinInv'
  <2>1. phase' = "filter" /\ probes' = probes /\ repeated' = FALSE /\ output' = {}
    BY <1>6 DEF ReadVector
  <2>2. QED
    BY <2>1, ElsewhereKeeps
<1>7. ASSUME NEW sampled, FilterVector(sampled) PROVE JoinInv'
  <2>1. phase = "filter" /\ phase' = "prepare" /\ UNCHANGED <<probes, repeated, output>>
    BY <1>7, Zenon DEF FilterVector
  <2>2. QED
    BY <1>1, <2>1, ElsewhereKeeps DEF JoinInv
<1>8. ASSUME NEW sampled, SetInputBatch(sampled) PROVE JoinInv'
  BY <1>8, SetInputBatchKeeps
<1>9. ASSUME JoinStep PROVE JoinInv'
  BY <1>9, JoinNextKeeps, KeepLookingKeeps, DescendKeeps, BackUpKeeps, ReturnTrueKeeps, ReturnFalseKeeps DEF JoinStep
<1>10. ASSUME NEW match \in BOOLEAN, ProbeSemiOrAnti(match) PROVE JoinInv'
  <2>1. phase = "prepare" /\ phase' = "semi" /\ UNCHANGED <<probes, repeated, output>>
    BY <1>10, Zenon DEF ProbeSemiOrAnti, joinState
  <2>2. QED
    BY <1>1, <2>1, ElsewhereKeeps DEF JoinInv
<1>11. ASSUME SemiOrAntiStep PROVE JoinInv'
  <2>1. phase = "semi" /\ UNCHANGED <<probes, repeated, output>>
    BY <1>11, Zenon DEF SemiOrAntiStep, joinState
  <2>2. phase' \in {"semi", "scan"} /\ semi' # <<>>
    <3>1. \E a, b, c : semi' = <<a, b, c>>
      BY <1>11, Zenon DEF SemiOrAntiStep
    <3>2. phase' = "scan" \/ phase' = phase
      BY <1>11, Zenon DEF SemiOrAntiStep
    <3>3. QED
      BY <2>1, <3>1, <3>2
  <2>3. QED
    BY <1>1, <2>1, <2>2, ElsewhereKeeps DEF JoinInv
<1>12. ASSUME UNCHANGED vars PROVE JoinInv'
  <2>1. UNCHANGED <<tables, chains, phase, count, vector, selected, input_tids, probes, first_join, at, passed, output, repeated, semi>>
    BY <1>12 DEF vars, history, joinState
  <2>2. PICK ps, O, l, first : ps = probes /\ O = output /\ l = at /\ first = first_join
    OBVIOUS
  <2>3. /\ Candidates' = Candidates /\ (Fit(ps)' <=> Fit(ps)) /\ (Waiting(ps, 0)' <=> Waiting(ps, 0))
        /\ (Advancing(ps, O, l, first)' <=> Advancing(ps, O, l, first)) /\ (Returned(ps, O)' <=> Returned(ps, O))
        /\ (AllOutput(O)' <=> AllOutput(O))
    BY <2>1, SameJoin
  <2>4. /\ Fit(probes) => Fit(probes)'
        /\ Waiting(probes, 0) => Waiting(probes, 0)'
        /\ Advancing(probes, output, at, first_join) => Advancing(probes, output, at, first_join)'
        /\ Returned(probes, output) => Returned(probes, output)'
        /\ AllOutput(output) => AllOutput(output)'
    BY <2>1, <2>2, <2>3
  <2>5. QED
    BY <2>1, <2>3, <2>4 DEF JoinInv
<1>13. QED
  BY <1>2, <1>3, <1>4, <1>5, <1>6, <1>7, <1>8, <1>9, <1>10, <1>11, <1>12 DEF Next, Finished

(* Whatever was returned is the match of a candidate. *)
LEMMA OutputMatches ==
  ASSUME JoinInv, VectorInv, NEW o \in output
  PROVE  /\ phase # "build" /\ count # 0
         /\ \E t, j : t \in Candidates /\ j \in Turns /\ IsMatch(t, j) /\ o = MatchOf(t, j)
<1>1. phase \in {"scan", "join", "advance"} /\ count # 0
  BY DEF JoinInv, VectorInv
<1>2. CASE phase = "scan"
  <2>1. AllOutput(output)
    BY <1>2 DEF JoinInv
  <2>2. QED
    BY <1>1, <2>1 DEF AllOutput
<1>3. CASE phase \in {"join", "advance"}
  <2>1. \E v, l : OutputIs(output, v, l)
    <3>1. CASE phase = "join"
      <4>1. ~first_join
        BY <3>1 DEF JoinInv
      <4>2. Returned(probes, output)
        BY <3>1, <4>1 DEF JoinInv
      <4>3. QED
        BY <4>2 DEF Returned
    <3>2. CASE phase = "advance"
      <4>1. Advancing(probes, output, at, first_join)
        BY <3>2 DEF JoinInv
      <4>2. QED
        BY <4>1 DEF Advancing
    <3>3. QED
      BY <1>3, <3>1, <3>2
  <2>2. QED
    BY <1>1, <2>1 DEF OutputIs
<1>4. QED
  BY <1>1, <1>2, <1>3

(* The match of a candidate is a tuple with a partner from each table. *)
LEMMA MatchIsRight ==
  ASSUME ChainsRight, NEW t \in Candidates, NEW j \in Turns, IsMatch(t, j), NEW o, o = MatchOf(t, j)
  PROVE  /\ o \in passed \X [Joins -> UNION {Range(tables[k].rows) : k \in Joins}]
         /\ \A k \in Joins : o[2][k] \in RowsWithKey(k, vector.keys[k][o[1]])
<1> DEFINE All == UNION {Range(tables[k].rows) : k \in Joins}
           m == [k \in Joins |-> Chain(k, t)[j[k]]]
<1>1. o = <<t, m>> /\ t \in passed
  BY Zenon DEF MatchOf, Candidates
<1>2. ASSUME NEW k \in Joins
      PROVE  m[k] \in Range(tables[k].rows) /\ m[k].key = vector.keys[k][t] /\ m[k] \in All
  <2>1. j[k] \in 1 .. Len(Chain(k, t)) /\ KeyAt(k, t, j[k]) /\ m[k] = Chain(k, t)[j[k]]
    BY DEF IsMatch
  <2>2. Chain(k, t) \in Seq(Range(tables[k].rows))
    BY DEF ChainsRight
  <2> HIDE DEF m
  <2>3. m[k] \in Range(tables[k].rows)
    BY <2>1, <2>2
  <2>4. m[k].key = vector.keys[k][t]
    BY <2>1 DEF KeyAt
  <2>5. QED
    BY <2>3, <2>4
<1>3. m \in [Joins -> All]
  <2>1. m = [k \in Joins |-> m[k]]
    OBVIOUS
  <2> HIDE DEF m, All
  <2>2. QED
    BY <1>2, <2>1
<1> HIDE DEF m, All
<1>4. o \in passed \X [Joins -> All] /\ o[1] = t /\ o[2] = m
  BY <1>1, <1>3
<1>5. \A k \in Joins : m[k] \in RowsWithKey(k, vector.keys[k][t])
  BY <1>2 DEF RowsWithKey
<1>6. QED
  BY <1>4, <1>5 DEF All

(* A tuple with a partner from each table is a candidate, and they are a     *)
(* match of it.                                                             *)
LEMMA PartnersMatch ==
  ASSUME BuildInv, VectorInv, phase # "build", count # 0, NEW t \in passed,
         NEW m \in [Joins -> UNION {Range(tables[k].rows) : k \in Joins}],
         \A k \in Joins : m[k] \in RowsWithKey(k, vector.keys[k][t])
  PROVE  \E j : t \in Candidates /\ j \in Turns /\ IsMatch(t, j) /\ <<t, m>> = MatchOf(t, j)
<1>1. t \in Tids
  BY DEF VectorInv
<1>2. ASSUME NEW k \in Joins
      PROVE  /\ \E i \in 1 .. Len(Chain(k, t)) : Chain(k, t)[i] = m[k]
             /\ Chain(k, t) # <<>> /\ Len(Chain(k, t)) \in Nat /\ m[k].key = vector.keys[k][t]
  <2>1. Chain(k, t) \in Seq(Range(tables[k].rows))
    BY <1>1, ChainOf
  <2>2. m[k] \in Range(tables[k].rows) /\ m[k].key = vector.keys[k][t]
    BY DEF RowsWithKey
  <2>3. \A r \in Range(tables[k].rows) :
          r.key = vector.keys[k][t] => \E i \in 1 .. Len(Chain(k, t)) : Chain(k, t)[i] = r
    BY <1>1, ChainOf
  <2>4. \E i \in 1 .. Len(Chain(k, t)) : Chain(k, t)[i] = m[k]
    BY <2>2, <2>3
  <2>5. Chain(k, t) # <<>>
    BY <2>4
  <2>6. QED
    BY <2>1, <2>2, <2>4, <2>5
<1>3. t \in Candidates
  BY <1>2 DEF Candidates
<1>4. PICK j : j = [k \in Joins |-> CHOOSE i \in 1 .. Len(Chain(k, t)) : Chain(k, t)[i] = m[k]]
  OBVIOUS
<1>5. \A k \in Joins : j[k] \in 1 .. Len(Chain(k, t)) /\ Chain(k, t)[j[k]] = m[k]
  BY <1>2, <1>4
<1>6. j \in Turns
  <2>1. j = [k \in Joins |-> j[k]]
    BY <1>4
  <2>2. \A k \in Joins : j[k] \in Nat
    BY <1>2, <1>5
  <2>3. QED
    BY <2>1, <2>2 DEF Turns
<1>7. IsMatch(t, j)
  BY <1>2, <1>5 DEF IsMatch, KeyAt
<1>8. m = [k \in Joins |-> Chain(k, t)[j[k]]]
  <2>1. m = [k \in Joins |-> m[k]]
    OBVIOUS
  <2>2. QED
    BY <1>5, <2>1
<1>9. <<t, m>> = MatchOf(t, j)
  BY <1>8, Zenon DEF MatchOf
<1>10. QED
  BY <1>3, <1>6, <1>7, <1>9

(* So the loop returns what it should. *)
LEMMA JoinRight ==
  ASSUME BuildInv, VectorInv, JoinInv
  PROVE  MatchesExact
<1>1. ~repeated
  BY DEF JoinInv
<1>2. ASSUME NEW o \in output
      PROVE  /\ o \in passed \X [Joins -> UNION {Range(tables[k].rows) : k \in Joins}]
             /\ \A k \in Joins : o[2][k] \in RowsWithKey(k, vector.keys[k][o[1]])
  <2>1. /\ phase # "build" /\ count # 0
        /\ \E t, j : t \in Candidates /\ j \in Turns /\ IsMatch(t, j) /\ o = MatchOf(t, j)
    BY OutputMatches
  <2>2. PICK t, j : t \in Candidates /\ j \in Turns /\ IsMatch(t, j) /\ o = MatchOf(t, j)
    BY <2>1
  <2>3. ChainsRight
    BY <2>1, JoinChains
  <2>4. QED
    BY <2>2, <2>3, MatchIsRight
<1>3. ASSUME phase = "scan", count > 0, semi = <<>>, NEW t \in passed,
             NEW m \in [Joins -> UNION {Range(tables[k].rows) : k \in Joins}],
             \A k \in Joins : m[k] \in RowsWithKey(k, vector.keys[k][t])
      PROVE  <<t, m>> \in output
  <2>1. count # 0 /\ AllOutput(output)
    BY <1>3 DEF JoinInv
  <2>2. PICK j : t \in Candidates /\ j \in Turns /\ IsMatch(t, j) /\ <<t, m>> = MatchOf(t, j)
    BY <1>3, <2>1, PartnersMatch
  <2>3. QED
    BY <2>1, <2>2 DEF AllOutput
<1>4. QED
  BY <1>1, <1>2, <1>3 DEF MatchesExact

(* Nothing has been joined at first. *)
LEMMA InitJoin ==
  ASSUME Init
  PROVE  JoinInv
<1>1. phase = "build" /\ probes = [k \in Joins |-> ProbeNew] /\ repeated = FALSE /\ output = {}
  BY DEF Init
<1>2. IsProbe(ProbeNew)
  <2>1. PICK K, found, sel : ProbeNew = ProbeInit(K, found, sel)
    BY Zenon DEF ProbeNew
  <2>2. PICK heads, initial : heads = HeadsOf(found, sel) /\ initial = InitialOf(found, sel)
    OBVIOUS
  <2>3. Fresh(ProbeNew, K, initial, heads)
    BY <2>1, <2>2, InitOf
  <2>4. QED
    BY <2>3 DEF Fresh
<1>3. probes = [k \in Joins |-> probes[k]] /\ \A k \in Joins : IsProbe(probes[k])
  <2> HIDE DEF ProbeNew
  <2>1. QED
    BY <1>1, <1>2
<1>4. QED
  BY <1>1, <1>3 DEF JoinInv

(* The while (Next()) loop of the join manager returns every match once and  *)
(* nothing else, for every number of joins and tables of either form, every *)
(* vector, every filter and every order of its terms.                       *)
THEOREM MatchesExactHolds == Spec => []MatchesExact
<1>1. Init => BuildInv /\ OrdersInv /\ VectorInv /\ StageInv /\ SemiInv /\ JoinInv
  BY InitBuild, InitVectors, InitJoin DEF Init, ConciseInit, StageInv, SemiInv, SemiAntiExact
<1>2. BuildInv /\ OrdersInv /\ VectorInv /\ StageInv /\ SemiInv /\ JoinInv /\ [Next]_vars
        => BuildInv' /\ OrdersInv' /\ VectorInv' /\ StageInv' /\ SemiInv' /\ JoinInv'
  BY BuildKept, VectorsKept, StageKept, SemiKept, JoinKept
<1>3. BuildInv /\ VectorInv /\ JoinInv => MatchesExact
  BY JoinRight
<1>4. QED
  BY <1>1, <1>2, <1>3, PTL DEF Spec
=============================================================================
