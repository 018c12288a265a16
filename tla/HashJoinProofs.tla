--------------------------- MODULE HashJoinProofs ---------------------------
(***************************************************************************)
(* Proofs about HashJoin, for every set of rows, hash function, predicate, *)
(* chain order, join type, number of workers and batch size: an inner,     *)
(* right semi or right anti join emits exactly the rows of the join, and a *)
(* left semi join every build row that has a partner, once per worker at   *)
(* most.                                                                   *)
(*                                                                         *)
(* What a worker has emitted is tied to the part of the chain it has gone  *)
(* past: a pair is emitted when it joins and every worker that holds the   *)
(* probe row is past the build row.  What the end of the pipeline makes of *)
(* this is JoinExact and LeftSemiCovers.                                   *)
(***************************************************************************)
EXTENDS HashJoin, SequenceLemmas

(* The type of the state of the probe pipeline. *)
HTypeOK ==
  /\ active \subseteq Workers
  /\ chain \in Seq(BuildRows)
  /\ left_mark \in [BuildRows -> BOOLEAN]
  /\ pending \subseteq ProbeRows
  /\ pc \in [Workers -> {"idle", "loop", "mark", "alloc", "write"}]
  /\ probe \in [Workers -> ProbeRows \cup {NULL}]
  /\ entry \in [Workers -> 0 .. Len(chain)]
  /\ right_mark \in [Workers -> BOOLEAN]
  /\ emitted \in [OutputRows -> Nat]
  /\ finalized \in BOOLEAN

(* The chain holds every build row, once. *)
ChainInv ==
  /\ \A i, j \in 1 .. Len(chain) : chain[i] = chain[j] => i = j
  /\ \A b \in BuildRows : \E i \in 1 .. Len(chain) : chain[i] = b

Busy(w) == pc[w] # "idle"

(* A probe row taken from the scan is in the hands of one worker at most,  *)
(* and the pipeline ends when all were taken and handled.                  *)
HandInv ==
  /\ \A w \in Workers : Busy(w) => w \in active /\ probe[w] \in ProbeRows \ pending
  /\ \A u, w \in Workers : Busy(u) /\ Busy(w) /\ probe[u] = probe[w] => u = w
  /\ finalized => pending = {} /\ \A w \in Workers : ~Busy(w)

(* Worker w has gone past position i of the chain. *)
Past(w, i) == entry[w] = 0 \/ i < entry[w] \/ (i = entry[w] /\ pc[w] = "write")

(* Build row b was compared with probe row p. *)
Visited(b, p) ==
  /\ p \notin pending
  /\ \A w \in Workers : Busy(w) /\ probe[w] = p =>
       \A i \in 1 .. Len(chain) : chain[i] = b => Past(w, i)

(* A worker that marks and emits stands at an entry that joins its row. *)
AtMatch ==
  \A w \in Workers : pc[w] \in {"mark", "alloc", "write"} =>
    entry[w] # 0 /\ Joins(chain[entry[w]], probe[w])

(* Joins without a mark to test emit the pairs that were compared and join. *)
InnerInv ==
  /\ AtMatch
  /\ \A b \in BuildRows, p \in ProbeRows :
       emitted[<<b, p>>] = IF Joins(b, p) /\ Visited(b, p) THEN 1 ELSE 0
  /\ \A p \in ProbeRows : emitted[<<NULL, p>>] = 0

(* Is probe row p a row of this right semi or right anti join? *)
Wanted(p) ==
  (\A b \in BuildRows : ~Joins(b, p)) <=> join_type = "RIGHT_ANTI"

(* Right semi and right anti joins: the mark says whether a match was met, *)
(* and the row is emitted after the loop, if it is one of the join.        *)
RightInv ==
  /\ \A w \in Workers : Busy(w) =>
       /\ pc[w] # "mark"
       /\ ~right_mark[w] => \E b \in BuildRows : Joins(b, probe[w])
       /\ pc[w] = "loop" /\ right_mark[w] =>
            \A i \in 1 .. Len(chain) : Past(w, i) => ~Joins(chain[i], probe[w])
       /\ pc[w] \in {"alloc", "write"} => Wanted(probe[w])
  /\ \A p \in ProbeRows :
       emitted[<<NULL, p>>] =
         IF /\ Wanted(p) /\ p \notin pending
            /\ \A w \in Workers : Busy(w) /\ probe[w] = p => pc[w] = "write"
         THEN 1 ELSE 0
  /\ \A b \in BuildRows, p \in ProbeRows : emitted[<<b, p>>] = 0

(* own names a worker that emitted each row: it emitted no other row with  *)
(* the same build row, and is not about to.                                *)
Owners(own) ==
  /\ own \in [OutputRows -> active \cup {NULL}]
  /\ \A b \in BuildRows, p \in ProbeRows :
       emitted[<<b, p>>] > 0 => own[<<b, p>>] \in active
  /\ \A b \in BuildRows, p, q \in ProbeRows :
       /\ emitted[<<b, p>>] > 0 /\ emitted[<<b, q>>] > 0
       /\ own[<<b, p>>] = own[<<b, q>>]
       => p = q
  /\ \A w \in Workers, p \in ProbeRows :
       /\ pc[w] \in {"mark", "alloc"}
       /\ emitted[<<chain[entry[w]], p>>] > 0
       => own[<<chain[entry[w]], p>>] # w

(* Left semi joins: a mark is taken by a worker that has emitted the row   *)
(* or is about to, and a pair that joins is passed with the mark taken.    *)
MarkInv ==
  /\ AtMatch
  /\ \A p \in ProbeRows : emitted[<<NULL, p>>] = 0
  /\ \A w \in Workers :
       pc[w] \in {"alloc", "write"} => ~left_mark[chain[entry[w]]]
  /\ \A b \in BuildRows :
       /\ \A p \in ProbeRows : emitted[<<b, p>>] > 0 => Joins(b, p) /\ ~left_mark[b]
       /\ \A p \in ProbeRows : Joins(b, p) /\ Visited(b, p) => ~left_mark[b]
       /\ ~left_mark[b] =>
            \/ \E p \in ProbeRows : emitted[<<b, p>>] > 0
            \/ \E w \in Workers : pc[w] = "alloc" /\ chain[entry[w]] = b

LeftSemiInv == MarkInv /\ \E own \in [OutputRows -> active \cup {NULL}] : Owners(own)

HInv ==
  /\ HTypeOK /\ ChainInv /\ HandInv
  /\ ~RequiresRightMark /\ join_type # "LEFT_SEMI" => InnerInv
  /\ RequiresRightMark => RightInv
  /\ join_type = "LEFT_SEMI" => LeftSemiInv

----------------------------------------------------------------------------
(* A chain the table was built with is a sequence of all build rows, each  *)
(* once: an injection between sets of one size is onto.                    *)
LEMMA ChainOfRows ==
  ASSUME NEW c \in SetToSeqs(BuildRows)
  PROVE  /\ c \in Seq(BuildRows)
         /\ \A i, j \in 1 .. Len(c) : c[i] = c[j] => i = j
         /\ \A b \in BuildRows : \E i \in 1 .. Len(c) : c[i] = b
<1> DEFINE n == Cardinality(BuildRows)
<1>1. n \in Nat
  BY RowsAssumption, FS_CardinalityType
<1>2. /\ c \in [1 .. n -> BuildRows]
      /\ \A i, j \in 1 .. n : i # j => c[i] # c[j]
  BY DEF SetToSeqs
<1>3. IsFiniteSet(1 .. n) /\ Cardinality(1 .. n) = n
  BY <1>1, FS_Interval, 1 \in Int, n \in Int
<1>4. c \in Injection(1 .. n, BuildRows)
  BY <1>2 DEF Injection, IsInjective
<1> HIDE DEF n
<1>5. c \in Surjection(1 .. n, BuildRows)
  BY <1>3, <1>4, RowsAssumption, FS_Injection, Zenon DEF n
<1>6. c \in Seq(BuildRows) /\ Len(c) = n
  BY <1>1, <1>2
<1>7. QED
  BY <1>2, <1>5, <1>6 DEF Surjection

(* Where a walk goes next: the next entry is behind the ones gone past.    *)
LEMMA FollowingMoves ==
  ASSUME HTypeOK, NEW i \in 1 .. Len(chain)
  PROVE  /\ Following(i) \in 0 .. Len(chain)
         /\ \A j \in 1 .. Len(chain) :
              (Following(i) = 0 \/ j < Following(i)) <=> j <= i
<1>1. Len(chain) \in Nat
  BY DEF HTypeOK
<1>2. QED
  BY <1>1 DEF Following

(* Lookup goes past entries with another hash only. *)
LEMMA LookupSkips ==
  ASSUME HTypeOK, NEW h
  PROVE  /\ Lookup(h) \in 0 .. Len(chain)
         /\ \A i \in 1 .. Len(chain) :
              Lookup(h) = 0 \/ i < Lookup(h) => Hash[chain[i]] # h
<1> DEFINE found == {i \in DOMAIN chain : Hash[chain[i]] = h}
<1>1. Len(chain) \in Nat /\ DOMAIN chain = 1 .. Len(chain)
  BY DEF HTypeOK
<1>2. Lookup(h) = IF found = {} THEN 0 ELSE Min(found)
  BY DEF Lookup
<1>3. found \in SUBSET Nat /\ found \subseteq 1 .. Len(chain)
  BY <1>1
<1>4. \A i \in 1 .. Len(chain) : i \in found <=> Hash[chain[i]] = h
  BY <1>1
<1> HIDE DEF found
<1>5. CASE found = {}
  BY <1>1, <1>2, <1>4, <1>5
<1>6. CASE found # {}
  <2>1. Min(found) \in found /\ \A k \in found : Min(found) <= k
    BY <1>3, <1>6, MinIsLeast
  <2>2. Lookup(h) \in found /\ \A k \in found : Lookup(h) <= k
    BY <1>2, <1>6, <2>1, Zenon
  <2>3. Lookup(h) \in 1 .. Len(chain)
    BY <1>3, <2>2
  <2>4. \A i \in 1 .. Len(chain) : i < Lookup(h) => i \notin found
    BY <1>1, <2>2, <2>3
  <2>5. QED
    BY <1>1, <1>4, <2>3, <2>4
<1>7. QED
  BY <1>5, <1>6

(* The rows that workers emit are output rows. *)
LEMMA OutputRowTypes ==
  ASSUME NEW p \in ProbeRows
  PROVE  /\ <<NULL, p>> \in OutputRows
         /\ \A b \in BuildRows : <<b, p>> \in OutputRows /\ <<b, p>> # <<NULL, p>>
  BY RowsAssumption DEF OutputRows

(* The join starts with no row consumed and no match made. *)
LEMMA HInitHolds == Init => HInv
<1> SUFFICES ASSUME Init PROVE HInv
  OBVIOUS
<1>1. /\ chain \in Seq(BuildRows) /\ Len(chain) \in Nat
      /\ ChainInv
  BY ChainOfRows DEF Init, ChainInv
<1>2. HTypeOK
  <2>1. active \subseteq Workers /\ finalized \in BOOLEAN
    BY DEF Init, BufferInit
  <2>2. left_mark \in [BuildRows -> BOOLEAN] /\ right_mark \in [Workers -> BOOLEAN]
    BY Zenon DEF Init
  <2>3. entry \in [Workers -> 0 .. Len(chain)] /\ emitted \in [OutputRows -> Nat]
    BY <1>1 DEF Init
  <2>4. /\ pending \subseteq ProbeRows
        /\ pc \in [Workers -> {"idle", "loop", "mark", "alloc", "write"}]
        /\ probe \in [Workers -> ProbeRows \cup {NULL}]
    BY DEF Init
  <2>5. QED
    BY <1>1, <2>1, <2>2, <2>3, <2>4 DEF HTypeOK
<1>3. HandInv
  BY DEF Init, HandInv, Busy, BufferInit
<1>4. \A p \in ProbeRows :
        /\ emitted[<<NULL, p>>] = 0
        /\ \A b \in BuildRows :
             emitted[<<b, p>>] = 0 /\ ~(emitted[<<b, p>>] > 0) /\ ~Visited(b, p)
  BY OutputRowTypes DEF Init, Visited
<1>5. AtMatch
  BY DEF AtMatch, Init
<1>6. InnerInv
  BY <1>4, <1>5 DEF InnerInv
<1>7. RightInv
  BY <1>4 DEF RightInv, Init, Busy
<1>8. MarkInv
  <2>1. \A w \in Workers : pc[w] = "idle"
    BY DEF Init
  <2>2. \A b \in BuildRows : left_mark[b]
    BY DEF Init
  <2>3. \A b \in BuildRows, p \in ProbeRows : ~(emitted[<<b, p>>] > 0)
    BY <1>4, Zenon
  <2>4. QED
    BY <1>4, <1>5, <2>1, <2>2, <2>3 DEF MarkInv
<1>9. Owners([r \in OutputRows |-> NULL])
  <2>1. \A w \in Workers : pc[w] \notin {"mark", "alloc"}
    BY DEF Init
  <2>2. \A b \in BuildRows, p \in ProbeRows : ~(emitted[<<b, p>>] > 0)
    BY <1>4, Zenon
  <2>3. QED
    BY <2>1, <2>2 DEF Owners
<1>10. [r \in OutputRows |-> NULL] \in [OutputRows -> active \cup {NULL}]
  OBVIOUS
<1>11. LeftSemiInv
  BY <1>8, <1>9, <1>10 DEF LeftSemiInv
<1>12. QED
  BY <1>1, <1>2, <1>3, <1>6, <1>7, <1>11 DEF HInv

----------------------------------------------------------------------------
(* The plan, the workers and the chain stay as they are. *)
LEMMA StepFrame ==
  ASSUME [Next]_vars
  PROVE  /\ join_type' = join_type /\ active' = active /\ chain' = chain
         /\ RequiresRightMark' = RequiresRightMark
<1>1. join_type' = join_type /\ active' = active /\ chain' = chain
  <2>1. CASE UNCHANGED vars
    BY <2>1 DEF vars, join
  <2>2. CASE FinishPipelineWork
    BY <2>2 DEF FinishPipelineWork, join
  <2>3. ASSUME NEW w \in Workers, ProbeStep(w)
        PROVE  join_type' = join_type /\ active' = active /\ chain' = chain
    BY <2>3 DEF ProbeStep, ConsumeRightRow, CheckRightMark, EndRightMark,
                CheckJoinPredicate, EndLoop, WriteLeftMark, ConsumeAlloc, ConsumeWrite
  <2>4. QED
    BY <2>1, <2>2, <2>3 DEF Next
<1>2. QED
  BY <1>1 DEF RequiresRightMark

(* The slot operations of the result buffer leave finalized alone. *)
LEMMA BufferFrame ==
  ASSUME NEW w \in Workers, ProbeStep(w)
  PROVE  finalized' = finalized
  BY DEF ProbeStep, ConsumeRightRow, CheckRightMark, EndRightMark,
         CheckJoinPredicate, EndLoop, WriteLeftMark, ConsumeAlloc, ConsumeWrite,
         buffer, AllocOutputSlot, WriteSlot

(* The row that a worker emits is an output row. *)
LEMMA OutputRowType ==
  ASSUME HInv, NEW w \in Workers, pc[w] \in {"alloc", "write"}
  PROVE  OutputRow(w) \in OutputRows
<1>1. Busy(w) /\ probe[w] \in ProbeRows
  BY DEF HInv, HandInv, Busy
<1>2. CASE RequiresRightMark
  BY <1>1, <1>2 DEF OutputRow, OutputRows
<1>3. CASE ~RequiresRightMark
  <2>1. AtMatch
    BY <1>3 DEF HInv, InnerInv, LeftSemiInv, MarkInv
  <2>2. entry[w] \in 1 .. Len(chain) /\ chain \in Seq(BuildRows)
    BY <2>1 DEF AtMatch, HInv, HTypeOK
  <2>3. chain[entry[w]] \in BuildRows
    BY <2>2
  <2>4. QED
    BY <1>1, <1>3, <2>3 DEF OutputRow, OutputRows
<1>4. QED
  BY <1>2, <1>3

(* Every step of a worker keeps the types. *)
LEMMA HTypeStep ==
  ASSUME HInv, [Next]_vars
  PROVE  HTypeOK'
<1> USE DEF HTypeOK
<1>1. HTypeOK
  BY DEF HInv
<1>2. chain' = chain /\ active' = active /\ Len(chain) \in Nat
  BY <1>1, StepFrame
<1>3. CASE UNCHANGED vars
  BY <1>1, <1>3 DEF vars, join, buffer
<1>4. CASE FinishPipelineWork
  BY <1>1, <1>4 DEF FinishPipelineWork, join, Finalize
<1>5. ASSUME NEW w \in Workers, ProbeStep(w)
      PROVE  HTypeOK'
  <2>1. finalized' = finalized
    BY <1>5, BufferFrame
  <2>2. entry[w] # 0 => Following(entry[w]) \in 0 .. Len(chain)
    BY <1>1, <1>2, FollowingMoves
  <2>3. ASSUME NEW p \in ProbeRows, ConsumeRightRow(w, p)
        PROVE  HTypeOK'
    <3>1. Lookup(Hash[p]) \in 0 .. Len(chain)
      BY <1>1, LookupSkips
    <3>2. right_mark' \in [Workers -> BOOLEAN]
      BY <1>1, <2>3, Zenon DEF ConsumeRightRow
    <3>3. left_mark' = left_mark /\ emitted' = emitted
      BY <2>3 DEF ConsumeRightRow
    <3>4. entry' \in [Workers -> 0 .. Len(chain)]
      BY <1>1, <2>3, <3>1 DEF ConsumeRightRow
    <3>5. /\ pending' \subseteq ProbeRows
          /\ pc' \in [Workers -> {"idle", "loop", "mark", "alloc", "write"}]
          /\ probe' \in [Workers -> ProbeRows \cup {NULL}]
      BY <1>1, <2>3 DEF ConsumeRightRow
    <3>6. QED
      BY <1>1, <1>2, <2>1, <3>2, <3>3, <3>4, <3>5
  <2>4. CASE CheckRightMark(w)
    <3>1. right_mark' \in [Workers -> BOOLEAN]
      BY <1>1, <2>4, Zenon DEF CheckRightMark, Candidate
    <3>2. entry' \in [Workers -> 0 .. Len(chain)]
      BY <1>1, <2>2, <2>4 DEF CheckRightMark
    <3>3. QED
      BY <1>1, <1>2, <2>1, <2>4, <3>1, <3>2 DEF CheckRightMark
  <2>5. CASE EndRightMark(w)
    BY <1>1, <1>2, <2>1, <2>5 DEF EndRightMark
  <2>6. CASE CheckJoinPredicate(w)
    <3>1. entry' \in [Workers -> 0 .. Len(chain)]
      BY <1>1, <2>2, <2>6 DEF CheckJoinPredicate
    <3>2. pc' \in [Workers -> {"idle", "loop", "mark", "alloc", "write"}]
      BY <1>1, <2>6 DEF CheckJoinPredicate
    <3>3. QED
      BY <1>1, <1>2, <2>1, <2>6, <3>1, <3>2 DEF CheckJoinPredicate
  <2>7. CASE EndLoop(w)
    BY <1>1, <1>2, <2>1, <2>7 DEF EndLoop
  <2>8. CASE WriteLeftMark(w)
    <3>1. left_mark' \in [BuildRows -> BOOLEAN]
      BY <1>1, <2>8, Zenon DEF WriteLeftMark
    <3>2. QED
      BY <1>1, <1>2, <2>1, <2>8, <3>1 DEF WriteLeftMark
  <2>9. CASE ConsumeAlloc(w)
    <3>1. OutputRow(w) \in OutputRows
      BY <2>9, OutputRowType DEF ConsumeAlloc
    <3>2. emitted' \in [OutputRows -> Nat]
      BY <1>1, <2>9, <3>1 DEF ConsumeAlloc
    <3>3. QED
      BY <1>1, <1>2, <2>1, <2>9, <3>2 DEF ConsumeAlloc
  <2>10. CASE ConsumeWrite(w)
    <3>1. ~RequiresRightMark => entry[w] # 0
      <4>1. ~RequiresRightMark => AtMatch
        BY DEF HInv, InnerInv, LeftSemiInv, MarkInv
      <4>2. QED
        BY <2>10, <4>1 DEF AtMatch, ConsumeWrite
    <3>2. entry' \in [Workers -> 0 .. Len(chain)]
      BY <1>1, <2>2, <2>10, <3>1 DEF ConsumeWrite
    <3>3. QED
      BY <1>1, <1>2, <2>1, <2>10, <3>2 DEF ConsumeWrite
  <2>11. QED
    BY <1>5, <2>3, <2>4, <2>5, <2>6, <2>7, <2>8, <2>9, <2>10 DEF ProbeStep
<1>6. QED
  BY <1>3, <1>4, <1>5 DEF Next

(* No two workers probe with the same row, and none is left at the end. *)
LEMMA HandStep ==
  ASSUME HInv, [Next]_vars
  PROVE  HandInv'
<1> USE DEF HandInv, Busy
<1>1. HTypeOK /\ HandInv
  BY DEF HInv
<1>2. active' = active
  BY StepFrame
<1>3. CASE UNCHANGED vars
  BY <1>1, <1>3 DEF vars, join, buffer
<1>4. CASE FinishPipelineWork
  BY <1>1, <1>4 DEF FinishPipelineWork, join
<1>5. ASSUME NEW w \in Workers, ProbeStep(w)
      PROVE  HandInv'
  <2>1. finalized' = finalized
    BY <1>5, BufferFrame
  <2>2. pc \in [Workers -> {"idle", "loop", "mark", "alloc", "write"}]
        /\ probe \in [Workers -> ProbeRows \cup {NULL}]
    BY <1>1 DEF HTypeOK
  <2>3. ASSUME NEW p \in ProbeRows, ConsumeRightRow(w, p)
        PROVE  HandInv'
    <3>1. /\ pc' = [pc EXCEPT ![w] = "loop"] /\ probe' = [probe EXCEPT ![w] = p]
          /\ pending' = pending \ {p} /\ w \in active /\ p \in pending /\ ~finalized
      BY <2>3 DEF ConsumeRightRow
    <3>2. QED
      BY <1>1, <1>2, <2>1, <2>2, <3>1
  <2>4. ASSUME probe' = probe, pending' = pending, Busy(w),
               NEW v, pc' = [pc EXCEPT ![w] = v]
        PROVE  HandInv'
    BY <1>1, <1>2, <2>1, <2>2, <2>4
  <2>5. CASE CheckRightMark(w)
    BY <1>1, <1>2, <2>1, <2>2, <2>5 DEF CheckRightMark
  <2>6. CASE EndRightMark(w)
    BY <2>4, <2>6 DEF EndRightMark
  <2>7. CASE CheckJoinPredicate(w)
    BY <2>4, <2>7 DEF CheckJoinPredicate
  <2>8. CASE EndLoop(w)
    BY <2>4, <2>8 DEF EndLoop
  <2>9. CASE WriteLeftMark(w)
    BY <2>4, <2>9 DEF WriteLeftMark
  <2>10. CASE ConsumeAlloc(w)
    BY <2>4, <2>10 DEF ConsumeAlloc
  <2>11. CASE ConsumeWrite(w)
    BY <2>4, <2>11 DEF ConsumeWrite
  <2>12. QED
    BY <1>5, <2>3, <2>5, <2>6, <2>7, <2>8, <2>9, <2>10, <2>11 DEF ProbeStep
<1>6. QED
  BY <1>3, <1>4, <1>5 DEF Next

----------------------------------------------------------------------------
(* A step of worker w changes what was compared for its own probe row      *)
(* only, and there the worker's position alone decides.                    *)
LEMMA VisitedStep ==
  ASSUME HInv, NEW w \in Workers, Busy(w),
         chain' = chain, probe' = probe, pending' = pending,
         \A u \in Workers \ {w} : pc'[u] = pc[u] /\ entry'[u] = entry[u],
         NEW b \in BuildRows, NEW p \in ProbeRows
  PROVE  /\ p # probe[w] => (Visited(b, p)' <=> Visited(b, p))
         /\ p = probe[w] =>
              \A i \in 1 .. Len(chain) : chain[i] = b =>
                /\ Visited(b, p) <=> Past(w, i)
                /\ Visited(b, p)' <=> (~Busy(w)' \/ Past(w, i)')
<1>1. HandInv /\ ChainInv
  BY DEF HInv
<1>2. \A u \in Workers \ {w} :
        /\ Busy(u)' <=> Busy(u)
        /\ \A i \in 1 .. Len(chain) : Past(u, i)' <=> Past(u, i)
  BY DEF Busy, Past
<1>3. ASSUME p # probe[w]
      PROVE  Visited(b, p)' <=> Visited(b, p)
  <2>1. \A u \in Workers : probe[u] = p => u # w
    BY <1>3
  <2>2. QED
    BY <1>2, <2>1 DEF Visited
<1>4. ASSUME p = probe[w], NEW i \in 1 .. Len(chain), chain[i] = b
      PROVE  /\ Visited(b, p) <=> Past(w, i)
             /\ Visited(b, p)' <=> (~Busy(w)' \/ Past(w, i)')
  <2>1. \A u \in Workers : Busy(u) /\ probe[u] = p => u = w
    BY <1>1, <1>4 DEF HandInv
  <2>2. \A u \in Workers : Busy(u)' /\ probe[u] = p => u = w
    BY <1>2, <2>1
  <2>3. p \notin pending
    BY <1>1, <1>4 DEF HandInv
  <2>4. \A j \in 1 .. Len(chain) : chain[j] = b <=> j = i
    BY <1>1, <1>4 DEF ChainInv
  <2>5. Visited(b, p) <=> Past(w, i)
    BY <1>4, <2>1, <2>3, <2>4 DEF Visited
  <2>6. Visited(b, p)' <=> (~Busy(w)' \/ Past(w, i)')
    BY <1>4, <2>2, <2>3, <2>4 DEF Visited
  <2>7. QED
    BY <2>5, <2>6
<1>5. QED
  BY <1>3, <1>4

(* A worker that takes a probe row starts behind entries that cannot join. *)
LEMMA VisitedStart ==
  ASSUME HInv, NEW w \in Workers, NEW q \in ProbeRows, ConsumeRightRow(w, q),
         NEW b \in BuildRows, NEW p \in ProbeRows
  PROVE  /\ p # q => (Visited(b, p)' <=> Visited(b, p))
         /\ p = q => ~Visited(b, p) /\ (Visited(b, p)' => ~Joins(b, p))
<1>1. HandInv /\ ChainInv /\ HTypeOK
  BY DEF HInv
<1>2. /\ pc' = [pc EXCEPT ![w] = "loop"] /\ probe' = [probe EXCEPT ![w] = q]
      /\ entry' = [entry EXCEPT ![w] = Lookup(Hash[q])]
      /\ pending' = pending \ {q} /\ q \in pending /\ chain' = chain
      /\ ~Busy(w)
  BY DEF ConsumeRightRow, Busy
<1>3. \A u \in Workers \ {w} :
        /\ Busy(u)' <=> Busy(u)
        /\ probe'[u] = probe[u]
        /\ \A i \in 1 .. Len(chain) : Past(u, i)' <=> Past(u, i)
  BY <1>1, <1>2 DEF Busy, Past, HTypeOK
<1>4. probe'[w] = q /\ entry'[w] = Lookup(Hash[q]) /\ pc'[w] = "loop" /\ Busy(w)'
  BY <1>1, <1>2 DEF HTypeOK, Busy
<1>5. ASSUME p # q
      PROVE  Visited(b, p)' <=> Visited(b, p)
  <2>1. \A u \in Workers : Busy(u)' /\ probe'[u] = p <=> Busy(u) /\ probe[u] = p
    BY <1>2, <1>3, <1>4, <1>5
  <2>2. \A u \in Workers : Busy(u) /\ probe[u] = p =>
          \A i \in 1 .. Len(chain) : Past(u, i)' <=> Past(u, i)
    BY <1>2, <1>3
  <2>3. p \in pending' <=> p \in pending
    BY <1>2, <1>5
  <2>4. QED
    BY <1>2, <2>1, <2>2, <2>3 DEF Visited
<1>6. ASSUME p = q, Visited(b, p)'
      PROVE  ~Joins(b, p)
  <2>1. PICK i \in 1 .. Len(chain) : chain[i] = b
    BY <1>1 DEF ChainInv
  <2>2. Past(w, i)'
    BY <1>2, <1>4, <1>6, <2>1 DEF Visited
  <2>3. Lookup(Hash[q]) = 0 \/ i < Lookup(Hash[q])
    BY <1>4, <2>2 DEF Past
  <2>4. Hash[chain[i]] # Hash[q]
    BY <1>1, <2>3, LookupSkips
  <2>5. QED
    BY <1>6, <2>1, <2>4 DEF Joins
<1>7. p = q => ~Visited(b, p)
  BY <1>2 DEF Visited
<1>8. QED
  BY <1>5, <1>6, <1>7

----------------------------------------------------------------------------
(* How each step of the loop over the chain moves the worker. *)
LEMMA PastStep ==
  ASSUME HInv, NEW w \in Workers, chain' = chain, entry[w] # 0,
         NEW i \in 1 .. Len(chain)
  PROVE  /\ entry'[w] = Following(entry[w]) /\ pc'[w] # "write"
              => (Past(w, i)' <=> i <= entry[w])
         /\ pc[w] # "write" => (Past(w, i) <=> i < entry[w])
         /\ pc[w] = "write" => (Past(w, i) <=> i <= entry[w])
         /\ entry'[w] = entry[w] /\ pc'[w] # "write" => (Past(w, i)' <=> i < entry[w])
         /\ entry'[w] = entry[w] /\ pc'[w] = "write" => (Past(w, i)' <=> i <= entry[w])
<1>1. entry[w] \in 1 .. Len(chain) /\ Len(chain) \in Nat /\ HTypeOK
  BY DEF HInv, HTypeOK
<1>2. ASSUME entry'[w] = Following(entry[w]), pc'[w] # "write"
      PROVE  Past(w, i)' <=> i <= entry[w]
  <2>1. (Following(entry[w]) = 0 \/ i < Following(entry[w])) <=> i <= entry[w]
    BY <1>1, FollowingMoves
  <2>2. QED
    BY <1>2, <2>1 DEF Past
<1>3. QED
  BY <1>1, <1>2 DEF Past

(* A worker that marks and emits has checked its entry. *)
LEMMA AtMatchStep ==
  ASSUME HInv, [Next]_vars, ~RequiresRightMark
  PROVE  AtMatch'
<1>1. AtMatch /\ HTypeOK
  BY DEF HInv, InnerInv, LeftSemiInv, MarkInv
<1>2. chain' = chain
  BY StepFrame
<1> USE DEF AtMatch, Joins
<1>3. CASE UNCHANGED vars
  BY <1>1, <1>3 DEF vars, join
<1>4. CASE FinishPipelineWork
  BY <1>1, <1>4 DEF FinishPipelineWork, join
<1>5. ASSUME NEW w \in Workers, ProbeStep(w)
      PROVE  AtMatch'
  <2>1. /\ pc \in [Workers -> {"idle", "loop", "mark", "alloc", "write"}]
        /\ probe \in [Workers -> ProbeRows \cup {NULL}]
        /\ entry \in [Workers -> 0 .. Len(chain)]
    BY <1>1 DEF HTypeOK
  <2>2. ASSUME NEW p \in ProbeRows, ConsumeRightRow(w, p)
        PROVE  AtMatch'
    BY <1>1, <1>2, <2>1, <2>2 DEF ConsumeRightRow
  <2>3. ASSUME CheckJoinPredicate(w)
        PROVE  AtMatch'
    <3>1. CASE pc'[w] = "loop"
      BY <1>1, <1>2, <2>1, <2>3, <3>1 DEF CheckJoinPredicate
    <3>2. CASE pc'[w] # "loop"
      <4>1. Candidate(w) /\ entry' = entry /\ probe' = probe
        BY <2>1, <2>3, <3>2 DEF CheckJoinPredicate
      <4>2. \A u \in Workers : u # w => pc'[u] = pc[u]
        BY <2>1, <2>3 DEF CheckJoinPredicate
      <4>3. QED
        BY <1>1, <1>2, <4>1, <4>2 DEF Candidate
    <3>3. QED
      BY <3>1, <3>2
  <2>4. CASE EndLoop(w)
    BY <1>1, <1>2, <2>1, <2>4 DEF EndLoop
  <2>5. CASE WriteLeftMark(w)
    BY <1>1, <1>2, <2>1, <2>5 DEF WriteLeftMark
  <2>6. CASE ConsumeAlloc(w)
    BY <1>1, <1>2, <2>1, <2>6 DEF ConsumeAlloc
  <2>7. CASE ConsumeWrite(w)
    BY <1>1, <1>2, <2>1, <2>7 DEF ConsumeWrite
  <2>8. QED
    BY <1>5, <2>2, <2>3, <2>4, <2>5, <2>6, <2>7
       DEF ProbeStep, CheckRightMark, EndRightMark
<1>6. QED
  BY <1>3, <1>4, <1>5 DEF Next

(* Worker w goes past an entry without emitting it. *)
Skips(w) == CheckJoinPredicate(w) /\ pc'[w] = "loop"

(* A pair that joins is compared in two steps only: the worker emits it,   *)
(* or skips it.                                                            *)
LEMMA VisitedJoin ==
  ASSUME HInv, ~RequiresRightMark, NEW w \in Workers, ProbeStep(w), chain' = chain,
         NEW b \in BuildRows, NEW p \in ProbeRows, Joins(b, p)
  PROVE  /\ Visited(b, p)' <=>
               \/ Visited(b, p)
               \/ /\ ConsumeAlloc(w) \/ Skips(w)
                  /\ p = probe[w] /\ b = chain[entry[w]]
         /\ ConsumeAlloc(w) /\ p = probe[w] /\ b = chain[entry[w]]
               => ~Visited(b, p)
<1>1. HTypeOK /\ ChainInv /\ AtMatch
  BY DEF HInv, InnerInv, LeftSemiInv, MarkInv
<1>2. /\ pc \in [Workers -> {"idle", "loop", "mark", "alloc", "write"}]
      /\ probe \in [Workers -> ProbeRows \cup {NULL}]
      /\ entry \in [Workers -> 0 .. Len(chain)]
      /\ Len(chain) \in Nat
  BY <1>1 DEF HTypeOK
<1>3. PICK i \in 1 .. Len(chain) : chain[i] = b
  BY <1>1 DEF ChainInv
<1>4. \A j \in 1 .. Len(chain) : chain[j] = b <=> j = i
  BY <1>1, <1>3 DEF ChainInv
<1>5. ASSUME NEW q \in ProbeRows, ConsumeRightRow(w, q)
      PROVE  /\ Visited(b, p)' <=> Visited(b, p)
             /\ ~ConsumeAlloc(w) /\ ~Skips(w)
  <2>1. Visited(b, p)' <=> Visited(b, p)
    BY <1>5, VisitedStart
  <2>2. QED
    BY <1>5, <2>1 DEF ConsumeRightRow, ConsumeAlloc, Skips, CheckJoinPredicate
<1>6. ASSUME Busy(w), probe' = probe, pending' = pending,
             \A u \in Workers \ {w} : pc'[u] = pc[u] /\ entry'[u] = entry[u]
      PROVE  /\ p # probe[w] => (Visited(b, p)' <=> Visited(b, p))
             /\ p = probe[w] => /\ Visited(b, p) <=> Past(w, i)
                                /\ Visited(b, p)' <=> (~Busy(w)' \/ Past(w, i)')
  BY <1>3, <1>6, VisitedStep
<1>7. ASSUME entry[w] # 0
      PROVE  /\ (i <= entry[w]) <=> (i < entry[w] \/ b = chain[entry[w]])
             /\ b = chain[entry[w]] => ~(i < entry[w])
  BY <1>2, <1>4, <1>7
<1>8. ASSUME entry[w] # 0
      PROVE  /\ entry'[w] = Following(entry[w]) /\ pc'[w] # "write"
                  => (Past(w, i)' <=> i <= entry[w])
             /\ pc[w] # "write" => (Past(w, i) <=> i < entry[w])
             /\ pc[w] = "write" => (Past(w, i) <=> i <= entry[w])
             /\ entry'[w] = entry[w] /\ pc'[w] # "write" => (Past(w, i)' <=> i < entry[w])
             /\ entry'[w] = entry[w] /\ pc'[w] = "write" => (Past(w, i)' <=> i <= entry[w])
  BY <1>8, PastStep
<1>9. CASE CheckJoinPredicate(w)
  <2>1. /\ Busy(w) /\ probe' = probe /\ pending' = pending /\ entry[w] # 0
        /\ pc[w] = "loop" /\ pc'[w] \in {"loop", "mark", "alloc"} /\ Busy(w)'
        /\ \A u \in Workers \ {w} : pc'[u] = pc[u] /\ entry'[u] = entry[u]
        /\ entry'[w] = IF pc'[w] = "loop" THEN Following(entry[w]) ELSE entry[w]
        /\ ~ConsumeAlloc(w)
    BY <1>2, <1>9 DEF CheckJoinPredicate, Busy, ConsumeAlloc
  <2>2. QED
    BY <1>6, <1>7, <1>8, <1>9, <2>1 DEF Skips
<1>10. CASE EndLoop(w)
  <2>1. /\ Busy(w) /\ probe' = probe /\ pending' = pending
        /\ \A u \in Workers \ {w} : pc'[u] = pc[u] /\ entry'[u] = entry[u]
        /\ Past(w, i) /\ ~Busy(w)' /\ ~ConsumeAlloc(w) /\ ~Skips(w)
    BY <1>2, <1>10 DEF EndLoop, Busy, ConsumeAlloc, Skips, CheckJoinPredicate, Past
  <2>2. QED
    BY <1>6, <2>1
<1>11. CASE WriteLeftMark(w)
  <2>1. /\ Busy(w) /\ probe' = probe /\ pending' = pending /\ entry' = entry
        /\ \A u \in Workers \ {w} : pc'[u] = pc[u]
        /\ pc[w] = "mark" /\ pc'[w] = "alloc" /\ Busy(w)' /\ ~ConsumeAlloc(w) /\ ~Skips(w)
    BY <1>2, <1>11 DEF WriteLeftMark, Busy, ConsumeAlloc, Skips, CheckJoinPredicate
  <2>2. entry[w] # 0
    BY <1>1, <2>1 DEF AtMatch
  <2>3. QED
    BY <1>6, <1>8, <2>1, <2>2
<1>12. CASE ConsumeAlloc(w)
  <2>1. /\ Busy(w) /\ probe' = probe /\ pending' = pending /\ entry' = entry
        /\ \A u \in Workers \ {w} : pc'[u] = pc[u]
        /\ pc[w] = "alloc" /\ pc'[w] = "write" /\ Busy(w)' /\ ~Skips(w)
    BY <1>2, <1>12 DEF Busy, ConsumeAlloc, Skips, CheckJoinPredicate
  <2>2. entry[w] # 0
    BY <1>1, <2>1 DEF AtMatch
  <2>3. QED
    BY <1>6, <1>7, <1>8, <1>12, <2>1, <2>2
<1>13. CASE ConsumeWrite(w)
  <2>1. /\ Busy(w) /\ probe' = probe /\ pending' = pending
        /\ \A u \in Workers \ {w} : pc'[u] = pc[u] /\ entry'[u] = entry[u]
        /\ entry'[w] = Following(entry[w])
        /\ pc[w] = "write" /\ pc'[w] = "loop" /\ Busy(w)' /\ ~ConsumeAlloc(w) /\ ~Skips(w)
    BY <1>2, <1>13 DEF ConsumeWrite, Busy, ConsumeAlloc, Skips, CheckJoinPredicate
  <2>2. entry[w] # 0
    BY <1>1, <2>1 DEF AtMatch
  <2>3. QED
    BY <1>6, <1>8, <2>1, <2>2
<1>14. QED
  BY <1>5, <1>9, <1>10, <1>11, <1>12, <1>13 DEF ProbeStep, CheckRightMark, EndRightMark

----------------------------------------------------------------------------
(* What a step other than ConsumeAlloc leaves alone, and what ConsumeAlloc *)
(* counts in a join without a right mark.                                  *)
LEMMA EmittedStep ==
  ASSUME HInv, ~RequiresRightMark, NEW w \in Workers, ProbeStep(w)
  PROVE  /\ ~ConsumeAlloc(w) => emitted' = emitted
         /\ ConsumeAlloc(w) =>
              /\ probe[w] \in ProbeRows /\ chain[entry[w]] \in BuildRows
              /\ Joins(chain[entry[w]], probe[w])
              /\ \A p \in ProbeRows :
                   /\ emitted'[<<NULL, p>>] = emitted[<<NULL, p>>]
                   /\ \A b \in BuildRows :
                        emitted'[<<b, p>>] =
                          IF p = probe[w] /\ b = chain[entry[w]]
                          THEN emitted[<<b, p>>] + 1 ELSE emitted[<<b, p>>]
<1>1. ~ConsumeAlloc(w) => emitted' = emitted
  BY DEF ProbeStep, ConsumeRightRow, CheckRightMark, EndRightMark,
         CheckJoinPredicate, EndLoop, WriteLeftMark, ConsumeWrite
<1>2. ASSUME ConsumeAlloc(w)
      PROVE  /\ probe[w] \in ProbeRows /\ chain[entry[w]] \in BuildRows
             /\ Joins(chain[entry[w]], probe[w])
             /\ \A p \in ProbeRows :
                  /\ emitted'[<<NULL, p>>] = emitted[<<NULL, p>>]
                  /\ \A b \in BuildRows :
                       emitted'[<<b, p>>] =
                         IF p = probe[w] /\ b = chain[entry[w]]
                         THEN emitted[<<b, p>>] + 1 ELSE emitted[<<b, p>>]
  <2>1. pc[w] = "alloc" /\ HTypeOK /\ HandInv /\ AtMatch
    BY <1>2 DEF ConsumeAlloc, HInv, InnerInv, LeftSemiInv, MarkInv
  <2>2. probe[w] \in ProbeRows
    BY <2>1 DEF HandInv, Busy
  <2>3. entry[w] \in 1 .. Len(chain) /\ chain \in Seq(BuildRows)
    BY <2>1 DEF HTypeOK, AtMatch
  <2>4. chain[entry[w]] \in BuildRows
    BY <2>3
  <2>5. emitted' = [emitted EXCEPT ![<<chain[entry[w]], probe[w]>>] =
                      emitted[<<chain[entry[w]], probe[w]>>] + 1]
    BY <1>2 DEF ConsumeAlloc, OutputRow
  <2>6. Joins(chain[entry[w]], probe[w])
    BY <2>1 DEF AtMatch
  <2>7. ASSUME NEW p \in ProbeRows
        PROVE  /\ emitted'[<<NULL, p>>] = emitted[<<NULL, p>>]
               /\ \A b \in BuildRows :
                    emitted'[<<b, p>>] =
                      IF p = probe[w] /\ b = chain[entry[w]]
                      THEN emitted[<<b, p>>] + 1 ELSE emitted[<<b, p>>]
    <3>1. emitted \in [OutputRows -> Nat]
      BY <2>1 DEF HTypeOK
    <3>2. /\ <<NULL, p>> \in OutputRows
          /\ \A b \in BuildRows : <<b, p>> \in OutputRows
      BY OutputRowTypes
    <3>3. <<NULL, p>> # <<chain[entry[w]], probe[w]>>
      BY <2>4, RowsAssumption
    <3>4. QED
      BY <2>5, <3>1, <3>2, <3>3
  <2>8. QED
    BY <2>2, <2>4, <2>6, <2>7
<1>3. QED
  BY <1>1, <1>2

(* Without a mark to test, every joining pair is emitted when it is compared. *)
LEMMA InnerStep ==
  ASSUME HInv, [Next]_vars, ~RequiresRightMark, join_type # "LEFT_SEMI"
  PROVE  InnerInv'
<1>1. InnerInv
  BY DEF HInv
<1>2. chain' = chain /\ AtMatch'
  BY StepFrame, AtMatchStep
<1>3. ASSUME UNCHANGED join
      PROVE  InnerInv'
  <2>1. \A b \in BuildRows, p \in ProbeRows : Visited(b, p)' <=> Visited(b, p)
    BY <1>3 DEF join, Visited, Past, Busy
  <2>2. emitted' = emitted
    BY <1>3 DEF join
  <2>3. QED
    BY <1>1, <1>2, <2>1, <2>2 DEF InnerInv, Joins
<1>4. ASSUME NEW w \in Workers, ProbeStep(w)
      PROVE  InnerInv'
  <2>1. Skips(w) => ~Joins(chain[entry[w]], probe[w])
    <3>1. SUFFICES ASSUME Skips(w) PROVE ~Joins(chain[entry[w]], probe[w])
      OBVIOUS
    <3>2. pc \in [Workers -> {"idle", "loop", "mark", "alloc", "write"}]
      BY DEF HInv, HTypeOK
    <3>3. ~Candidate(w) /\ entry[w] # 0
      BY <3>1, <3>2 DEF Skips, CheckJoinPredicate
    <3>4. QED
      BY <3>3 DEF Candidate, Joins
  <2>2. \A b \in BuildRows, p \in ProbeRows : Joins(b, p) =>
          /\ Visited(b, p)' <=>
                \/ Visited(b, p)
                \/ ConsumeAlloc(w) /\ p = probe[w] /\ b = chain[entry[w]]
          /\ ConsumeAlloc(w) /\ p = probe[w] /\ b = chain[entry[w]]
                => ~Visited(b, p)
    BY <1>2, <1>4, <2>1, VisitedJoin
  <2>3. CASE ~ConsumeAlloc(w)
    <3>1. emitted' = emitted
      BY <1>4, <2>3, EmittedStep
    <3>2. \A b \in BuildRows, p \in ProbeRows :
            Joins(b, p) => (Visited(b, p)' <=> Visited(b, p))
      BY <2>2, <2>3
    <3>3. QED
      BY <1>1, <1>2, <3>1, <3>2 DEF InnerInv, Joins
  <2>4. CASE ConsumeAlloc(w)
    <3>1. /\ Joins(chain[entry[w]], probe[w])
          /\ \A p \in ProbeRows :
               /\ emitted'[<<NULL, p>>] = emitted[<<NULL, p>>]
               /\ \A b \in BuildRows :
                    emitted'[<<b, p>>] =
                      IF p = probe[w] /\ b = chain[entry[w]]
                      THEN emitted[<<b, p>>] + 1 ELSE emitted[<<b, p>>]
      BY <1>4, <2>4, EmittedStep
    <3>2. ASSUME NEW b \in BuildRows, NEW p \in ProbeRows
          PROVE  emitted'[<<b, p>>] = IF Joins(b, p) /\ Visited(b, p)' THEN 1 ELSE 0
      <4>1. emitted[<<b, p>>] = IF Joins(b, p) /\ Visited(b, p) THEN 1 ELSE 0
        BY <1>1 DEF InnerInv
      <4>2. CASE p = probe[w] /\ b = chain[entry[w]]
        <5>1. Joins(b, p) /\ ~Visited(b, p) /\ Visited(b, p)'
          BY <2>2, <2>4, <3>1, <4>2
        <5>2. emitted[<<b, p>>] = 0
          BY <4>1, <5>1
        <5>3. emitted'[<<b, p>>] = emitted[<<b, p>>] + 1
          BY <3>1, <4>2
        <5>4. emitted'[<<b, p>>] = 1
          BY <5>2, <5>3
        <5>5. QED
          BY <5>1, <5>4
      <4>3. CASE ~(p = probe[w] /\ b = chain[entry[w]])
        <5>1. Joins(b, p) => (Visited(b, p)' <=> Visited(b, p))
          BY <2>2, <4>3
        <5>2. emitted'[<<b, p>>] = emitted[<<b, p>>]
          BY <3>1, <4>3
        <5>3. QED
          BY <4>1, <5>1, <5>2
      <4>4. QED
        BY <4>2, <4>3
    <3>3. \A p \in ProbeRows : emitted'[<<NULL, p>>] = 0
      BY <1>1, <3>1 DEF InnerInv
    <3>4. QED
      BY <1>2, <3>2, <3>3 DEF InnerInv, Joins
  <2>5. QED
    BY <2>3, <2>4
<1>5. QED
  BY <1>3, <1>4 DEF Next, FinishPipelineWork, vars

----------------------------------------------------------------------------
(* Left semi joins: marks are taken, never given back, by the worker that  *)
(* emits the row.                                                          *)
LEMMA MarkStep ==
  ASSUME HInv, [Next]_vars, join_type = "LEFT_SEMI"
  PROVE  MarkInv'
<1>1. MarkInv /\ HTypeOK /\ ~RequiresRightMark /\ RequiresLeftMark
  BY DEF HInv, LeftSemiInv, RequiresRightMark, RequiresLeftMark
<1>2. chain' = chain /\ AtMatch' /\ join_type' = join_type
  BY <1>1, StepFrame, AtMatchStep
<1>3. ASSUME UNCHANGED join
      PROVE  MarkInv'
  <2>1. \A b \in BuildRows, p \in ProbeRows : Visited(b, p)' <=> Visited(b, p)
    BY <1>3 DEF join, Visited, Past, Busy
  <2>2. emitted' = emitted /\ left_mark' = left_mark /\ pc' = pc /\ entry' = entry
    BY <1>3 DEF join
  <2>3. QED
    BY <1>1, <1>2, <2>1, <2>2 DEF MarkInv, Joins
<1>4. ASSUME NEW w \in Workers, ProbeStep(w)
      PROVE  MarkInv'
  <2>1. /\ pc \in [Workers -> {"idle", "loop", "mark", "alloc", "write"}]
        /\ left_mark \in [BuildRows -> BOOLEAN]
        /\ entry \in [Workers -> 0 .. Len(chain)]
        /\ emitted \in [OutputRows -> Nat]
    BY <1>1 DEF HTypeOK
  <2>2. /\ ~ConsumeAlloc(w) => emitted' = emitted
        /\ ConsumeAlloc(w) =>
             /\ probe[w] \in ProbeRows /\ chain[entry[w]] \in BuildRows
             /\ Joins(chain[entry[w]], probe[w])
             /\ \A p \in ProbeRows :
                  /\ emitted'[<<NULL, p>>] = emitted[<<NULL, p>>]
                  /\ \A b \in BuildRows :
                       emitted'[<<b, p>>] =
                         IF p = probe[w] /\ b = chain[entry[w]]
                         THEN emitted[<<b, p>>] + 1 ELSE emitted[<<b, p>>]
    BY <1>1, <1>4, EmittedStep
  <2>3. \A b \in BuildRows : ~left_mark[b] => ~left_mark'[b]
    BY <1>4, <2>1
       DEF ProbeStep, ConsumeRightRow, CheckRightMark, EndRightMark,
           CheckJoinPredicate, EndLoop, WriteLeftMark, ConsumeAlloc, ConsumeWrite
  <2>4. \A u \in Workers : u # w => pc'[u] = pc[u] /\ entry'[u] = entry[u]
    BY <1>4, <2>1
       DEF ProbeStep, ConsumeRightRow, CheckRightMark, EndRightMark,
           CheckJoinPredicate, EndLoop, WriteLeftMark, ConsumeAlloc, ConsumeWrite
  <2>5. \A u \in Workers : pc[u] \in {"mark", "alloc", "write"} =>
          chain[entry[u]] \in BuildRows
    <3>1. \A u \in Workers : pc[u] \in {"mark", "alloc", "write"} =>
            entry[u] \in 1 .. Len(chain)
      BY <1>1, <2>1 DEF MarkInv, AtMatch
    <3>2. chain \in Seq(BuildRows)
      BY <1>1 DEF HTypeOK
    <3>3. QED
      BY <3>1, <3>2
  <2>6. \A p \in ProbeRows : emitted'[<<NULL, p>>] = 0
    BY <1>1, <2>2 DEF MarkInv
  <2>7. \/ pc'[w] \in {"idle", "loop", "mark"}
        \/ WriteLeftMark(w) /\ pc[w] = "mark" /\ pc'[w] = "alloc" /\ entry' = entry
              /\ left_mark' = [left_mark EXCEPT ![chain[entry[w]]] = FALSE]
        \/ ConsumeAlloc(w) /\ pc[w] = "alloc" /\ pc'[w] = "write" /\ entry' = entry
    BY <1>1, <1>4, <2>1
       DEF ProbeStep, ConsumeRightRow, CheckRightMark, EndRightMark,
           CheckJoinPredicate, EndLoop, WriteLeftMark, ConsumeAlloc, ConsumeWrite
  <2>8. \A u \in Workers : pc'[u] \in {"alloc", "write"} => ~left_mark'[chain[entry'[u]]]
    <3>1. ASSUME NEW u \in Workers, u # w, pc'[u] \in {"alloc", "write"}
          PROVE  ~left_mark'[chain[entry'[u]]]
      <4>1. pc[u] \in {"alloc", "write"} /\ entry'[u] = entry[u]
        BY <2>4, <3>1
      <4>2. ~left_mark[chain[entry[u]]] /\ chain[entry[u]] \in BuildRows
        BY <1>1, <2>5, <4>1 DEF MarkInv
      <4>3. QED
        BY <2>3, <4>1, <4>2
    <3>2. CASE WriteLeftMark(w) /\ pc[w] = "mark" /\ pc'[w] = "alloc" /\ entry' = entry
              /\ left_mark' = [left_mark EXCEPT ![chain[entry[w]]] = FALSE]
      <4>1. chain[entry[w]] \in BuildRows
        BY <2>5, <3>2
      <4>2. ~left_mark'[chain[entry'[w]]]
        BY <2>1, <3>2, <4>1
      <4>3. QED
        BY <3>1, <4>2
    <3>3. CASE ConsumeAlloc(w) /\ pc[w] = "alloc" /\ pc'[w] = "write" /\ entry' = entry
      <4>1. chain[entry[w]] \in BuildRows /\ ~left_mark[chain[entry[w]]]
        BY <1>1, <2>5, <3>3 DEF MarkInv
      <4>2. ~left_mark'[chain[entry'[w]]]
        BY <2>3, <3>3, <4>1
      <4>3. QED
        BY <3>1, <4>2
    <3>4. CASE pc'[w] \in {"idle", "loop", "mark"}
      BY <3>1, <3>4
    <3>5. QED
      BY <2>7, <3>2, <3>3, <3>4
  <2>9. ASSUME NEW b \in BuildRows, NEW p \in ProbeRows, emitted'[<<b, p>>] > 0
        PROVE  Joins(b, p) /\ ~left_mark'[b]
    <3>1. CASE emitted[<<b, p>>] > 0
      BY <1>1, <2>3, <3>1 DEF MarkInv
    <3>2. CASE ~(emitted[<<b, p>>] > 0)
      <4>1. ConsumeAlloc(w) /\ p = probe[w] /\ b = chain[entry[w]]
        BY <2>2, <2>9, <3>2
      <4>2. Joins(b, p)
        BY <2>2, <4>1
      <4>3. pc[w] = "alloc"
        BY <4>1 DEF ConsumeAlloc
      <4>4. ~left_mark[b]
        BY <1>1, <4>1, <4>3 DEF MarkInv
      <4>5. QED
        BY <2>3, <4>2, <4>4
    <3>3. QED
      BY <3>1, <3>2
  <2>10. ASSUME NEW b \in BuildRows, NEW p \in ProbeRows, Joins(b, p), Visited(b, p)'
         PROVE  ~left_mark'[b]
    <3>1. CASE Visited(b, p)
      BY <1>1, <2>3, <2>10, <3>1 DEF MarkInv
    <3>2. CASE ConsumeAlloc(w) /\ b = chain[entry[w]]
      <4>1. pc[w] = "alloc"
        BY <3>2 DEF ConsumeAlloc
      <4>2. QED
        BY <1>1, <2>3, <3>2, <4>1 DEF MarkInv
    <3>3. CASE Skips(w) /\ p = probe[w] /\ b = chain[entry[w]]
      <4>1. entry[w] # 0 /\ ~(Candidate(w) /\ left_mark[chain[entry[w]]])
        BY <1>1, <2>1, <3>3 DEF Skips, CheckJoinPredicate
      <4>2. Candidate(w)
        BY <2>10, <3>3, <4>1 DEF Candidate, Joins
      <4>3. QED
        BY <2>3, <3>3, <4>1, <4>2
    <3>4. QED
      BY <1>1, <1>2, <1>4, <2>10, <3>1, <3>2, <3>3, VisitedJoin
  <2>11. ASSUME NEW b \in BuildRows, ~left_mark'[b]
         PROVE  \/ \E p \in ProbeRows : emitted'[<<b, p>>] > 0
                \/ \E u \in Workers : pc'[u] = "alloc" /\ chain[entry'[u]] = b
    <3>1. \A p \in ProbeRows : emitted[<<b, p>>] > 0 => emitted'[<<b, p>>] > 0
      <4>1. TAKE p \in ProbeRows
      <4>2. emitted[<<b, p>>] \in Nat
        BY <2>1, OutputRowTypes
      <4>3. emitted'[<<b, p>>] \in {emitted[<<b, p>>], emitted[<<b, p>>] + 1}
        BY <2>2
      <4>4. QED
        BY <4>2, <4>3
    <3>2. CASE ConsumeAlloc(w) /\ b = chain[entry[w]]
      <4>1. probe[w] \in ProbeRows /\ emitted[<<b, probe[w]>>] \in Nat
        BY <2>1, <2>2, <3>2, OutputRowTypes
      <4>2. emitted'[<<b, probe[w]>>] = emitted[<<b, probe[w]>>] + 1
        BY <2>2, <3>2
      <4>3. QED
        BY <4>1, <4>2
    <3>3. CASE WriteLeftMark(w) /\ b = chain[entry[w]]
      <4>1. pc'[w] = "alloc" /\ entry' = entry
        BY <2>1, <3>3 DEF WriteLeftMark
      <4>2. QED
        BY <3>3, <4>1
    <3>4. CASE ~(ConsumeAlloc(w) \/ WriteLeftMark(w)) \/ b # chain[entry[w]]
      <4>1. ~left_mark[b]
        BY <1>4, <2>1, <2>11, <3>4
           DEF ProbeStep, ConsumeRightRow, CheckRightMark, EndRightMark,
               CheckJoinPredicate, EndLoop, WriteLeftMark, ConsumeAlloc, ConsumeWrite
      <4>2. CASE \E p \in ProbeRows : emitted[<<b, p>>] > 0
        BY <3>1, <4>2
      <4>3. CASE \E u \in Workers : pc[u] = "alloc" /\ chain[entry[u]] = b
        <5>1. PICK u \in Workers : pc[u] = "alloc" /\ chain[entry[u]] = b
          BY <4>3
        <5>2. CASE u # w
          BY <2>4, <5>1, <5>2
        <5>3. CASE u = w
          BY <1>4, <3>4, <5>1, <5>3
             DEF ProbeStep, ConsumeRightRow, CheckRightMark, EndRightMark,
                 CheckJoinPredicate, EndLoop, WriteLeftMark, ConsumeWrite
        <5>4. QED
          BY <5>2, <5>3
      <4>4. QED
        BY <1>1, <4>1, <4>2, <4>3 DEF MarkInv
    <3>5. QED
      BY <3>2, <3>3, <3>4
  <2>12. QED
    BY <1>2, <2>6, <2>8, <2>9, <2>10, <2>11 DEF MarkInv, Joins
<1>5. QED
  BY <1>3, <1>4 DEF Next, FinishPipelineWork, vars

(* A worker that reads the mark of a build row as set has not emitted that *)
(* row: nobody has.  So it may be made the owner of the row it emits.      *)
LEMMA OwnersStep ==
  ASSUME HInv, [Next]_vars, join_type = "LEFT_SEMI"
  PROVE  \E own \in [OutputRows -> active' \cup {NULL}] : Owners(own)'
<1>1. MarkInv /\ HTypeOK /\ HandInv /\ ~RequiresRightMark /\ RequiresLeftMark
  BY DEF HInv, LeftSemiInv, RequiresRightMark, RequiresLeftMark
<1>2. chain' = chain /\ active' = active
  BY StepFrame
<1>3. PICK own \in [OutputRows -> active \cup {NULL}] : Owners(own)
  BY DEF HInv, LeftSemiInv
<1>4. ASSUME UNCHANGED join
      PROVE  Owners(own)'
  BY <1>3, <1>4 DEF join, Owners
<1>5. ASSUME NEW w \in Workers, ProbeStep(w)
      PROVE  \E o \in [OutputRows -> active \cup {NULL}] : Owners(o)'
  <2>1. /\ pc \in [Workers -> {"idle", "loop", "mark", "alloc", "write"}]
        /\ entry \in [Workers -> 0 .. Len(chain)]
        /\ emitted \in [OutputRows -> Nat]
    BY <1>1 DEF HTypeOK
  <2>2. \A u \in Workers : u # w => pc'[u] = pc[u] /\ entry'[u] = entry[u]
    BY <1>5, <2>1
       DEF ProbeStep, ConsumeRightRow, CheckRightMark, EndRightMark,
           CheckJoinPredicate, EndLoop, WriteLeftMark, ConsumeAlloc, ConsumeWrite
  <2>3. CASE ~ConsumeAlloc(w)
    <3>1. emitted' = emitted
      BY <1>1, <1>5, <2>3, EmittedStep
    <3>2. ASSUME NEW p \in ProbeRows, pc'[w] \in {"mark", "alloc"},
                 emitted[<<chain[entry'[w]], p>>] > 0
          PROVE  own[<<chain[entry'[w]], p>>] # w
      <4>1. CASE CheckJoinPredicate(w)
        <5>1. /\ entry' = entry /\ entry[w] # 0
              /\ left_mark[chain[entry[w]]]
          BY <2>1, <3>2, <4>1 DEF CheckJoinPredicate
        <5>2. entry[w] \in 1 .. Len(chain) /\ chain \in Seq(BuildRows)
          BY <1>1, <2>1, <5>1 DEF HTypeOK
        <5>3. chain[entry[w]] \in BuildRows
          BY <5>2
        <5>4. FALSE
          BY <1>1, <3>2, <5>1, <5>3 DEF MarkInv
        <5>5. QED
          BY <5>4
      <4>2. CASE WriteLeftMark(w)
        <5>1. entry' = entry /\ pc[w] = "mark"
          BY <4>2 DEF WriteLeftMark
        <5>2. QED
          BY <1>3, <3>2, <5>1 DEF Owners
      <4>3. QED
        BY <1>1, <1>5, <2>1, <2>3, <3>2, <4>1, <4>2
           DEF ProbeStep, ConsumeRightRow, CheckRightMark, EndRightMark,
               EndLoop, ConsumeWrite
    <3>3. Owners(own)'
      BY <1>2, <1>3, <2>2, <3>1, <3>2 DEF Owners
    <3>4. QED
      BY <3>3
  <2>4. CASE ConsumeAlloc(w)
    <3> DEFINE b0 == chain[entry[w]]
               p0 == probe[w]
    <3>1. /\ p0 \in ProbeRows /\ b0 \in BuildRows
          /\ \A p \in ProbeRows, b \in BuildRows :
               emitted'[<<b, p>>] = IF p = p0 /\ b = b0
                                    THEN emitted[<<b, p>>] + 1 ELSE emitted[<<b, p>>]
      BY <1>1, <1>5, <2>4, EmittedStep
    <3>2. pc[w] = "alloc" /\ pc'[w] = "write" /\ entry' = entry /\ w \in active
      BY <1>1, <2>1, <2>4 DEF ConsumeAlloc, HandInv, Busy
    <3>3. PICK o \in [OutputRows -> active \cup {NULL}] :
            \A p \in ProbeRows, b \in BuildRows :
               o[<<b, p>>] = IF p = p0 /\ b = b0 THEN w ELSE own[<<b, p>>]
      <4>1. <<b0, p0>> \in OutputRows
        BY <3>1, OutputRowTypes
      <4>2. \A p \in ProbeRows, b \in BuildRows : <<b, p>> \in OutputRows
        BY OutputRowTypes
      <4>3. [own EXCEPT ![<<b0, p0>>] = w] \in [OutputRows -> active \cup {NULL}]
        BY <1>3, <3>2, <4>1
      <4>4. \A p \in ProbeRows, b \in BuildRows :
              [own EXCEPT ![<<b0, p0>>] = w][<<b, p>>] =
                IF p = p0 /\ b = b0 THEN w ELSE own[<<b, p>>]
        BY <1>3, <3>2, <4>1, <4>2
      <4>5. QED
        BY <4>3, <4>4, Zenon
    <3>4. \A p \in ProbeRows : emitted[<<b0, p>>] > 0 => own[<<b0, p>>] # w
      BY <1>3, <3>2 DEF Owners
    <3>5. \A u \in Workers : pc'[u] \in {"mark", "alloc"} =>
            u # w /\ pc[u] \in {"mark", "alloc"} /\ chain[entry[u]] \in BuildRows
      <4>1. \A u \in Workers : pc'[u] \in {"mark", "alloc"} =>
              u # w /\ pc[u] \in {"mark", "alloc"}
        BY <2>2, <3>2
      <4>2. \A u \in Workers : pc[u] \in {"mark", "alloc"} =>
              entry[u] \in 1 .. Len(chain)
        BY <1>1, <2>1 DEF MarkInv, AtMatch
      <4>3. chain \in Seq(BuildRows)
        BY <1>1 DEF HTypeOK
      <4>4. QED
        BY <4>1, <4>2, <4>3
    <3> HIDE DEF b0, p0
    <3>6. ASSUME NEW b \in BuildRows, NEW p \in ProbeRows, emitted'[<<b, p>>] > 0
          PROVE  o[<<b, p>>] \in active
      BY <1>3, <3>1, <3>2, <3>3, <3>6 DEF Owners
    <3>7. ASSUME NEW b \in BuildRows, NEW p \in ProbeRows, NEW q \in ProbeRows,
                 emitted'[<<b, p>>] > 0, emitted'[<<b, q>>] > 0,
                 o[<<b, p>>] = o[<<b, q>>]
          PROVE  p = q
      <4>1. CASE b # b0
        BY <1>3, <3>1, <3>3, <3>7, <4>1 DEF Owners
      <4>2. CASE b = b0 /\ p # p0 /\ q # p0
        BY <1>3, <3>1, <3>3, <3>7, <4>2 DEF Owners
      <4>3. CASE b = b0 /\ p = p0 /\ q # p0
        BY <3>1, <3>3, <3>4, <3>7, <4>3
      <4>4. CASE b = b0 /\ p # p0 /\ q = p0
        BY <3>1, <3>3, <3>4, <3>7, <4>4
      <4>5. QED
        BY <4>1, <4>2, <4>3, <4>4
    <3>8. ASSUME NEW u \in Workers, NEW p \in ProbeRows, pc'[u] \in {"mark", "alloc"},
                 emitted'[<<chain[entry[u]], p>>] > 0
          PROVE  o[<<chain[entry[u]], p>>] # u
      <4>1. u # w /\ pc[u] \in {"mark", "alloc"} /\ chain[entry[u]] \in BuildRows
        BY <3>5, <3>8
      <4>2. CASE p = p0 /\ chain[entry[u]] = b0
        BY <3>3, <4>1, <4>2
      <4>3. CASE ~(p = p0 /\ chain[entry[u]] = b0)
        BY <1>3, <3>1, <3>3, <3>8, <4>1, <4>3 DEF Owners
      <4>4. QED
        BY <4>2, <4>3
    <3>9. Owners(o)'
      BY <1>2, <3>2, <3>3, <3>6, <3>7, <3>8 DEF Owners
    <3>10. QED
      BY <3>3, <3>9
  <2>5. QED
    BY <2>3, <2>4
<1>6. QED
  BY <1>2, <1>3, <1>4, <1>5 DEF Next, FinishPipelineWork, vars

----------------------------------------------------------------------------
(* One worker's part of RightInv. *)
RightWorker(w) ==
  Busy(w) =>
    /\ pc[w] # "mark"
    /\ ~right_mark[w] => \E b \in BuildRows : Joins(b, probe[w])
    /\ pc[w] = "loop" /\ right_mark[w] =>
         \A i \in 1 .. Len(chain) : Past(w, i) => ~Joins(chain[i], probe[w])
    /\ pc[w] \in {"alloc", "write"} => Wanted(probe[w])

(* Has the loop over probe row p been left, and the row been emitted? *)
RightDone(p) ==
  /\ p \notin pending
  /\ \A w \in Workers : Busy(w) /\ probe[w] = p => pc[w] = "write"

(* The right mark tells, when the loop ends, whether the probe row is one  *)
(* of the join; the row is then emitted, or never.                         *)
LEMMA RightStep ==
  ASSUME HInv, [Next]_vars, RequiresRightMark
  PROVE  RightInv'
<1>1. RightInv /\ HTypeOK /\ HandInv /\ ChainInv
  BY DEF HInv
<1>2. chain' = chain /\ join_type' = join_type
  BY StepFrame
<1>3. /\ \A w \in Workers : RightWorker(w)
      /\ \A p \in ProbeRows :
           /\ emitted[<<NULL, p>>] = IF Wanted(p) /\ RightDone(p) THEN 1 ELSE 0
           /\ \A b \in BuildRows : emitted[<<b, p>>] = 0
  BY <1>1 DEF RightInv, RightWorker, RightDone
<1>4. \A p : Wanted(p)' <=> Wanted(p)
  BY <1>2 DEF Wanted, Joins
<1> SUFFICES /\ \A w \in Workers : RightWorker(w)'
             /\ \A p \in ProbeRows :
                  /\ emitted'[<<NULL, p>>] = IF Wanted(p) /\ RightDone(p)' THEN 1 ELSE 0
                  /\ \A b \in BuildRows : emitted'[<<b, p>>] = 0
  BY <1>4 DEF RightInv, RightWorker, RightDone
<1> DEFINE Goal == /\ \A w \in Workers : RightWorker(w)'
                   /\ \A p \in ProbeRows :
                        /\ emitted'[<<NULL, p>>] =
                             IF Wanted(p) /\ RightDone(p)' THEN 1 ELSE 0
                        /\ \A b \in BuildRows : emitted'[<<b, p>>] = 0
<1> SUFFICES Goal
  OBVIOUS
<1>5. ASSUME UNCHANGED join
      PROVE  Goal
  <2>1. /\ \A w \in Workers : RightWorker(w)' <=> RightWorker(w)
        /\ \A p \in ProbeRows : RightDone(p)' <=> RightDone(p)
        /\ emitted' = emitted
    BY <1>4, <1>5 DEF join, RightWorker, RightDone, Busy, Past, Joins
  <2>2. QED
    BY <1>3, <2>1
<1>6. ASSUME NEW w \in Workers, ProbeStep(w)
      PROVE  Goal
  <2>1. /\ pc \in [Workers -> {"idle", "loop", "mark", "alloc", "write"}]
        /\ probe \in [Workers -> ProbeRows \cup {NULL}]
        /\ entry \in [Workers -> 0 .. Len(chain)]
        /\ right_mark \in [Workers -> BOOLEAN]
        /\ emitted \in [OutputRows -> Nat]
        /\ Len(chain) \in Nat
    BY <1>1 DEF HTypeOK
  <2>2. \A u \in Workers : u # w =>
          /\ pc'[u] = pc[u] /\ entry'[u] = entry[u] /\ probe'[u] = probe[u]
          /\ right_mark'[u] = right_mark[u]
    BY <1>6, <2>1
       DEF ProbeStep, ConsumeRightRow, CheckRightMark, EndRightMark,
           CheckJoinPredicate, EndLoop, WriteLeftMark, ConsumeAlloc, ConsumeWrite
  <2>3. ASSUME NEW u \in Workers, u # w
        PROVE  RightWorker(u)'
    <3>1. RightWorker(u)' <=> RightWorker(u)
      BY <1>2, <1>4, <2>2, <2>3 DEF RightWorker, Busy, Past, Joins
    <3>2. QED
      BY <1>3, <3>1
  \* What is left to show of a step that emits nothing.
  <2>4. ASSUME emitted' = emitted, RightWorker(w)',
               \A p \in ProbeRows : Wanted(p) => (RightDone(p)' <=> RightDone(p))
        PROVE  Goal
    BY <1>3, <2>3, <2>4
  <2>5. ASSUME NEW q \in ProbeRows, ConsumeRightRow(w, q)
        PROVE  Goal
    <3>1. /\ pc'[w] = "loop" /\ probe'[w] = q /\ entry'[w] = Lookup(Hash[q])
          /\ right_mark'[w] /\ pending' = pending \ {q} /\ q \in pending
          /\ emitted' = emitted /\ Busy(w)' /\ ~Busy(w)
      BY <2>1, <2>5 DEF ConsumeRightRow, Busy
    <3>2. \A i \in 1 .. Len(chain) : Past(w, i)' => ~Joins(chain[i], q)
      <4>1. TAKE i \in 1 .. Len(chain)
      <4>2. Past(w, i)' => Lookup(Hash[q]) = 0 \/ i < Lookup(Hash[q])
        BY <3>1 DEF Past
      <4>3. Past(w, i)' => Hash[chain[i]] # Hash[q]
        BY <1>1, <4>2, LookupSkips
      <4>4. QED
        BY <4>3 DEF Joins
    <3>3. RightWorker(w)'
      BY <1>2, <3>1, <3>2 DEF RightWorker, Joins
    <3>4. \A p \in ProbeRows : RightDone(p)' <=> RightDone(p)
      <4>1. TAKE p \in ProbeRows
      <4>2. CASE p = q
        BY <3>1, <4>2 DEF RightDone
      <4>3. CASE p # q
        BY <2>2, <3>1, <4>3 DEF RightDone, Busy
      <4>4. QED
        BY <4>2, <4>3
    <3>5. QED
      BY <2>4, <3>1, <3>3, <3>4
  <2>6. CASE CheckRightMark(w)
    <3>1. /\ pc' = pc /\ probe' = probe /\ pending' = pending /\ emitted' = emitted
          /\ pc[w] = "loop" /\ entry[w] # 0 /\ right_mark[w] /\ Busy(w)
          /\ right_mark'[w] = ~Candidate(w)
          /\ entry'[w] = Following(entry[w])
      BY <2>1, <2>6 DEF CheckRightMark, Busy
    <3>2. entry[w] \in 1 .. Len(chain) /\ chain \in Seq(BuildRows)
      BY <1>1, <2>1, <3>1 DEF HTypeOK
    <3>3. chain[entry[w]] \in BuildRows
      BY <3>2
    <3>4. Candidate(w) <=> Joins(chain[entry[w]], probe[w])
      BY <3>1 DEF Candidate, Joins
    <3>5. ~right_mark'[w] => \E b \in BuildRows : Joins(b, probe[w])
      BY <3>1, <3>3, <3>4
    <3>6. ASSUME right_mark'[w], NEW i \in 1 .. Len(chain), Past(w, i)'
          PROVE  ~Joins(chain[i], probe[w])
      <4>1. i <= entry[w] /\ (Past(w, i) <=> i < entry[w])
        BY <1>2, <3>1, <3>6, PastStep
      <4>2. CASE i = entry[w]
        BY <3>1, <3>4, <3>6, <4>2
      <4>3. CASE i # entry[w]
        <5>1. Past(w, i)
          BY <2>1, <4>1, <4>3
        <5>2. QED
          BY <1>3, <3>1, <5>1 DEF RightWorker
      <4>4. QED
        BY <4>2, <4>3
    <3>7. RightWorker(w)'
      BY <1>2, <3>1, <3>5, <3>6 DEF RightWorker, Joins
    <3>8. \A p \in ProbeRows : RightDone(p)' <=> RightDone(p)
      BY <3>1 DEF RightDone, Busy
    <3>9. QED
      BY <2>4, <3>1, <3>7, <3>8
  <2>7. CASE EndRightMark(w)
    <3>1. /\ probe' = probe /\ pending' = pending /\ emitted' = emitted
          /\ entry' = entry /\ right_mark' = right_mark
          /\ pc[w] = "loop" /\ Busy(w) /\ (entry[w] = 0 \/ ~right_mark[w])
          /\ pc'[w] = IF right_mark[w] = (join_type = "RIGHT_ANTI")
                      THEN "alloc" ELSE "idle"
      BY <2>1, <2>7 DEF EndRightMark, Busy
    <3>2. probe[w] \in ProbeRows \ pending
      BY <1>1, <3>1 DEF HandInv
    <3>3. right_mark[w] <=> \A b \in BuildRows : ~Joins(b, probe[w])
      <4>1. CASE ~right_mark[w]
        BY <1>3, <3>1, <4>1 DEF RightWorker
      <4>2. CASE right_mark[w]
        <5>1. \A i \in 1 .. Len(chain) : Past(w, i)
          BY <3>1, <4>2 DEF Past
        <5>2. \A i \in 1 .. Len(chain) : ~Joins(chain[i], probe[w])
          BY <1>3, <3>1, <4>2, <5>1 DEF RightWorker
        <5>3. QED
          BY <1>1, <4>2, <5>2 DEF ChainInv
      <4>3. QED
        BY <4>1, <4>2
    <3>4. Wanted(probe[w]) <=> (right_mark[w] <=> join_type = "RIGHT_ANTI")
      BY <3>3 DEF Wanted
    <3>5. (right_mark[w] = (join_type = "RIGHT_ANTI"))
            <=> (right_mark[w] <=> join_type = "RIGHT_ANTI")
      <4>1. right_mark[w] \in BOOLEAN /\ (join_type = "RIGHT_ANTI") \in BOOLEAN
        BY <2>1
      <4>2. QED
        BY <4>1
    <3>6. pc'[w] = IF Wanted(probe[w]) THEN "alloc" ELSE "idle"
      BY <3>1, <3>4, <3>5, Zenon
    <3>7. RightWorker(w)'
      <4>1. ~right_mark[w] => \E b \in BuildRows : Joins(b, probe[w])
        BY <1>3, <3>1 DEF RightWorker
      <4>2. Busy(w)' => pc'[w] = "alloc" /\ Wanted(probe[w])
        BY <3>6 DEF Busy
      <4>3. QED
        BY <1>4, <3>1, <4>1, <4>2 DEF RightWorker, Joins
    <3>8. \A p \in ProbeRows : Wanted(p) => (RightDone(p)' <=> RightDone(p))
      <4>1. TAKE p \in ProbeRows
      <4>2. HAVE Wanted(p)
      <4>3. CASE p = probe[w]
        <5>1. ~RightDone(p)
          BY <3>1, <4>3 DEF RightDone
        <5>2. pc'[w] = "alloc"
          BY <3>6, <4>2, <4>3
        <5>3. ~RightDone(p)'
          BY <3>1, <4>3, <5>2 DEF RightDone, Busy
        <5>4. QED
          BY <5>1, <5>3
      <4>4. CASE p # probe[w]
        BY <2>2, <3>1, <4>4 DEF RightDone, Busy
      <4>5. QED
        BY <4>3, <4>4
    <3>9. QED
      BY <2>4, <3>1, <3>7, <3>8
  <2>8. CASE ConsumeAlloc(w)
    <3>1. /\ probe' = probe /\ pending' = pending /\ right_mark' = right_mark
          /\ pc[w] = "alloc" /\ pc'[w] = "write" /\ Busy(w) /\ Busy(w)'
          /\ emitted' = [emitted EXCEPT ![<<NULL, probe[w]>>] =
                           emitted[<<NULL, probe[w]>>] + 1]
      BY <2>1, <2>8 DEF ConsumeAlloc, Busy, OutputRow
    <3>2. probe[w] \in ProbeRows \ pending /\ Wanted(probe[w])
      BY <1>1, <1>3, <3>1 DEF HandInv, RightWorker
    <3>3. RightWorker(w)'
      BY <1>2, <1>3, <1>4, <3>1 DEF RightWorker, Joins
    <3>4. \A p \in ProbeRows :
            /\ emitted'[<<NULL, p>>] = IF p = probe[w] THEN emitted[<<NULL, p>>] + 1
                                       ELSE emitted[<<NULL, p>>]
            /\ \A b \in BuildRows : emitted'[<<b, p>>] = emitted[<<b, p>>]
      <4>1. TAKE p \in ProbeRows
      <4>2. /\ <<NULL, p>> \in OutputRows
            /\ \A b \in BuildRows : <<b, p>> \in OutputRows /\ b # NULL
        BY OutputRowTypes, RowsAssumption
      <4>3. QED
        BY <2>1, <3>1, <4>2
    <3>5. ~RightDone(probe[w])
      BY <3>1 DEF RightDone
    <3>6. \A p \in ProbeRows : p = probe[w] => RightDone(p)'
      <4>1. \A u \in Workers : Busy(u)' /\ probe[u] = probe[w] => u = w
        BY <1>1, <2>2, <3>1 DEF HandInv, Busy
      <4>2. QED
        BY <3>1, <3>2, <4>1 DEF RightDone
    <3>7. \A p \in ProbeRows : p # probe[w] => (RightDone(p)' <=> RightDone(p))
      BY <2>2, <3>1 DEF RightDone, Busy
    <3>8. ASSUME NEW p \in ProbeRows
          PROVE  emitted'[<<NULL, p>>] = IF Wanted(p) /\ RightDone(p)' THEN 1 ELSE 0
      <4>1. CASE p = probe[w]
        <5>1. emitted[<<NULL, p>>] = 0
          BY <1>3, <3>5, <4>1
        <5>2. emitted'[<<NULL, p>>] = 1
          BY <3>4, <4>1, <5>1
        <5>3. QED
          BY <3>2, <3>6, <4>1, <5>2
      <4>2. CASE p # probe[w]
        BY <1>3, <3>4, <3>7, <4>2
      <4>3. QED
        BY <4>1, <4>2
    <3>9. \A p \in ProbeRows, b \in BuildRows : emitted'[<<b, p>>] = 0
      BY <1>3, <3>4
    <3>10. QED
      BY <2>3, <3>3, <3>8, <3>9
  <2>9. CASE ConsumeWrite(w)
    <3>1. /\ probe' = probe /\ pending' = pending /\ emitted' = emitted
          /\ pc[w] = "write" /\ pc'[w] = "idle"
      BY <2>1, <2>9 DEF ConsumeWrite
    <3>2. RightWorker(w)'
      BY <3>1 DEF RightWorker, Busy
    <3>3. \A p \in ProbeRows : RightDone(p)' <=> RightDone(p)
      BY <2>2, <3>1 DEF RightDone, Busy
    <3>4. QED
      BY <2>4, <3>1, <3>2, <3>3
  <2>10. ~WriteLeftMark(w) /\ ~CheckJoinPredicate(w) /\ ~EndLoop(w)
    BY <1>3 DEF WriteLeftMark, CheckJoinPredicate, EndLoop, RightWorker, Busy
  <2>11. QED
    BY <1>6, <2>5, <2>6, <2>7, <2>8, <2>9, <2>10 DEF ProbeStep
<1>7. QED
  BY <1>5, <1>6 DEF Next, FinishPipelineWork, vars

----------------------------------------------------------------------------
(* The invariant holds in every state of the probe pipeline. *)
THEOREM HInvariantHolds == Spec => []HInv
<1>1. HInv /\ [Next]_vars => HInv'
  <2> SUFFICES ASSUME HInv, [Next]_vars PROVE HInv'
    OBVIOUS
  <2>1. HTypeOK' /\ HandInv'
    BY HTypeStep, HandStep
  <2>2. /\ join_type' = join_type /\ chain' = chain
        /\ RequiresRightMark' = RequiresRightMark
    BY StepFrame
  <2>3. ChainInv'
    BY <2>2 DEF HInv, ChainInv
  <2>4. ~RequiresRightMark /\ join_type # "LEFT_SEMI" => InnerInv'
    BY InnerStep
  <2>5. RequiresRightMark => RightInv'
    BY RightStep
  <2>6. join_type = "LEFT_SEMI" => LeftSemiInv'
    BY MarkStep, OwnersStep DEF LeftSemiInv
  <2>7. QED
    BY <2>1, <2>2, <2>3, <2>4, <2>5, <2>6 DEF HInv
<1>2. QED
  BY <1>1, HInitHolds, PTL DEF Spec

(* When the pipeline is done, everything was compared. *)
LEMMA AllVisited ==
  ASSUME HInv, finalized
  PROVE  /\ \A w \in Workers : ~Busy(w)
         /\ pending = {}
         /\ \A b \in BuildRows, p \in ProbeRows : Visited(b, p)
<1>1. pending = {} /\ \A w \in Workers : ~Busy(w)
  BY DEF HInv, HandInv
<1>2. QED
  BY <1>1 DEF Visited

(* The probe pipeline of an inner, right semi or right anti join emits     *)
(* exactly the rows of the join, each once, for every order of the chain,  *)
(* every number of workers and every way the scan hands them probe rows    *)
(* (HashJoinTranslator::ProbeJoinHashTable).                               *)
THEOREM JoinIsExact == Spec => []JoinExact
<1>1. HInv => JoinExact
  <2> SUFFICES ASSUME HInv, finalized, join_type # "LEFT_SEMI", NEW r \in OutputRows
               PROVE  emitted[r] = IF r \in JoinResult THEN 1 ELSE 0
    BY DEF JoinExact
  <2>1. /\ \A w \in Workers : ~Busy(w)
        /\ pending = {}
        /\ \A b \in BuildRows, p \in ProbeRows : Visited(b, p)
    BY AllVisited
  <2>2. CASE ~RequiresRightMark
    <3>1. InnerInv
      BY <2>2 DEF HInv
    <3>2. JoinResult = {x \in BuildRows \X ProbeRows : Joins(x[1], x[2])}
      BY <2>2 DEF JoinResult, RequiresRightMark
    <3>3. CASE r \in BuildRows \X ProbeRows
      <4>1. PICK b \in BuildRows, p \in ProbeRows : r = <<b, p>>
        BY <3>3
      <4>2. r \in JoinResult <=> Joins(b, p)
        BY <3>2, <4>1
      <4>3. emitted[<<b, p>>] = IF Joins(b, p) /\ Visited(b, p) THEN 1 ELSE 0
        BY <3>1 DEF InnerInv
      <4>4. QED
        BY <2>1, <4>1, <4>2, <4>3
    <3>4. CASE r \notin BuildRows \X ProbeRows
      <4>1. PICK p \in ProbeRows : r = <<NULL, p>>
        BY <3>4 DEF OutputRows
      <4>2. r \notin JoinResult
        BY <3>2, <3>4
      <4>3. emitted[<<NULL, p>>] = 0
        BY <3>1 DEF InnerInv
      <4>4. QED
        BY <4>1, <4>2, <4>3
    <3>5. QED
      BY <3>3, <3>4
  <2>3. CASE RequiresRightMark
    <3>1. RightInv
      BY <2>3 DEF HInv
    <3>2. \A p \in ProbeRows : Wanted(p) <=> <<NULL, p>> \in JoinResult
      <4>1. CASE join_type = "RIGHT_SEMI"
        <5>1. JoinResult = {<<NULL, p>> : p \in {q \in ProbeRows :
                                                   \E b \in BuildRows : Joins(b, q)}}
          BY <4>1 DEF JoinResult
        <5>2. QED
          BY <4>1, <5>1 DEF Wanted
      <4>2. CASE join_type = "RIGHT_ANTI"
        <5>1. JoinResult = {<<NULL, p>> : p \in {q \in ProbeRows :
                                                   \A b \in BuildRows : ~Joins(b, q)}}
          BY <4>2 DEF JoinResult
        <5>2. QED
          BY <4>2, <5>1 DEF Wanted
      <4>3. QED
        BY <2>3, <4>1, <4>2 DEF RequiresRightMark
    <3>3. \A b \in BuildRows, p \in ProbeRows : <<b, p>> \notin JoinResult
      BY <2>3, RowsAssumption DEF JoinResult, RequiresRightMark
    <3>4. \A p \in ProbeRows : emitted[<<NULL, p>>] = IF Wanted(p) THEN 1 ELSE 0
      BY <2>1, <3>1 DEF RightInv
    <3>5. \A b \in BuildRows, p \in ProbeRows : emitted[<<b, p>>] = 0
      BY <3>1 DEF RightInv
    <3>6. CASE r \in BuildRows \X ProbeRows
      BY <3>3, <3>5, <3>6
    <3>7. CASE r \notin BuildRows \X ProbeRows
      BY <3>2, <3>4, <3>7 DEF OutputRows
    <3>8. QED
      BY <3>6, <3>7
  <2>4. QED
    BY <2>2, <2>3
<1>2. QED
  BY <1>1, HInvariantHolds, PTL

(* A left semi join emits the build rows that have a partner, and no       *)
(* worker emits one of them twice, although the mark is read and written   *)
(* without a lock (HashJoinTranslator::CheckJoinPredicate).                *)
THEOREM LeftSemiIsCovered == Spec => []LeftSemiCovers
<1>1. HInv => LeftSemiCovers
  <2> SUFFICES ASSUME HInv, finalized, join_type = "LEFT_SEMI"
               PROVE  /\ \A r \in OutputRows : emitted[r] > 0 => r \in JoinResult
                      /\ \A b \in BuildRows :
                           /\ (\E p \in ProbeRows : Joins(b, p)) => Partners(b) # {}
                           /\ Cardinality(Partners(b)) <= Cardinality(active)
    BY DEF LeftSemiCovers
  <2>1. /\ \A w \in Workers : ~Busy(w)
        /\ \A b \in BuildRows, p \in ProbeRows : Visited(b, p)
    BY AllVisited
  <2>2. MarkInv
    BY DEF HInv, LeftSemiInv
  <2>3. ASSUME NEW r \in OutputRows, emitted[r] > 0
        PROVE  r \in JoinResult
    <3>1. JoinResult = {x \in BuildRows \X ProbeRows : Joins(x[1], x[2])}
      BY DEF JoinResult
    <3>2. CASE r \in BuildRows \X ProbeRows
      <4>1. PICK b \in BuildRows, p \in ProbeRows : r = <<b, p>>
        BY <3>2
      <4>2. Joins(b, p)
        BY <2>2, <2>3, <4>1 DEF MarkInv
      <4>3. QED
        BY <3>1, <4>1, <4>2
    <3>3. CASE r \notin BuildRows \X ProbeRows
      <4>1. PICK p \in ProbeRows : r = <<NULL, p>>
        BY <3>3 DEF OutputRows
      <4>2. emitted[r] = 0
        BY <2>2, <4>1 DEF MarkInv
      <4>3. QED
        BY <2>3, <4>2
    <3>4. QED
      BY <3>2, <3>3
  <2>4. ASSUME NEW b \in BuildRows, NEW p \in ProbeRows, Joins(b, p)
        PROVE  Partners(b) # {}
    <3>1. ~left_mark[b]
      BY <2>1, <2>2, <2>4 DEF MarkInv
    <3>2. \E q \in ProbeRows : emitted[<<b, q>>] > 0
      BY <2>1, <2>2, <3>1 DEF MarkInv, Busy
    <3>3. QED
      BY <3>2 DEF Partners
  <2>5. ASSUME NEW b \in BuildRows
        PROVE  Cardinality(Partners(b)) <= Cardinality(active)
    <3>1. PICK own \in [OutputRows -> active \cup {NULL}] : Owners(own)
      BY DEF HInv, LeftSemiInv
    <3> DEFINE f == [p \in Partners(b) |-> own[<<b, p>>]]
    <3>2. f \in Injection(Partners(b), active)
      <4>1. f \in [Partners(b) -> active]
        BY <3>1 DEF Owners, Partners
      <4>2. \A p, q \in Partners(b) : f[p] = f[q] => p = q
        BY <3>1 DEF Owners, Partners
      <4>3. QED
        BY <4>1, <4>2 DEF Injection, IsInjective
    <3> HIDE DEF f
    <3>3. IsFiniteSet(active)
      BY WorkersAssumption, FS_Subset DEF HInv, HTypeOK
    <3>4. QED
      BY <3>2, <3>3, FS_Injection
  <2>6. QED
    BY <2>3, <2>4, <2>5
<1>2. QED
  BY <1>1, HInvariantHolds, PTL

----------------------------------------------------------------------------
(* The rows of a batch, and the type of the result buffer. *)
BufferRows == OutputRows \cup {Unwritten}

BufferTypeOK ==
  /\ tuples \in Seq(BufferRows)
  /\ delivered \in Seq(Seq(BufferRows))
  /\ slot = [u \in Workers |-> slot[u]]

(* The one worker of a serial pipeline fills its slot before it asks for   *)
(* the next one, so no batch is handed over with an unwritten row, and     *)
(* what was emitted is in the batches, or about to be stored.              *)
SerialInv ==
  \A w \in Workers : active = {w} =>
    /\ pc[w] = "write" =>
         /\ slot[w] = [pos |-> Len(tuples), live |-> TRUE]
         /\ Len(tuples) # 0 /\ tuples[Len(tuples)] = Unwritten
    /\ ~finalized =>
         /\ \A r \in OutputRows :
              emitted[r] = Count(r, FlattenSeq(delivered)) + Count(r, tuples)
                             + (IF pc[w] = "write" /\ OutputRow(w) = r THEN 1 ELSE 0)
         /\ Count(Unwritten, FlattenSeq(delivered)) = 0
         /\ Count(Unwritten, tuples) = IF pc[w] = "write" THEN 1 ELSE 0
    /\ finalized =>
         /\ \A r \in OutputRows : emitted[r] = Count(r, FlattenSeq(delivered))
         /\ Count(Unwritten, FlattenSeq(delivered)) = 0

(* Every step keeps the type of the output buffer. *)
LEMMA BufferTypeStep ==
  ASSUME HInv, BufferTypeOK, [Next]_vars
  PROVE  BufferTypeOK'
<1> USE DEF BufferTypeOK
<1>1. ASSUME UNCHANGED buffer
      PROVE  BufferTypeOK'
  BY <1>1 DEF buffer
<1>2. CASE FinishPipelineWork
  <2>1. delivered' \in {Append(delivered, tuples), delivered} /\ UNCHANGED <<tuples, slot>>
    BY <1>2 DEF FinishPipelineWork, Finalize
  <2>2. Append(delivered, tuples) \in Seq(Seq(BufferRows))
    OBVIOUS
  <2>3. QED
    BY <2>1, <2>2
<1>3. ASSUME NEW w \in Workers, ProbeStep(w)
      PROVE  BufferTypeOK'
  <2>1. CASE ConsumeAlloc(w)
    <3>1. AllocOutputSlot(w)
      BY <2>1 DEF ConsumeAlloc
    <3>2. CASE Len(tuples) = batch_size
      <4>1. /\ delivered' = Append(delivered, tuples) /\ tuples' = <<Unwritten>>
            /\ slot' = [u \in Workers |-> IF u = w THEN [pos |-> 1, live |-> TRUE]
                                          ELSE [slot[u] EXCEPT !.live = FALSE]]
        BY <3>1, <3>2 DEF AllocOutputSlot
      <4>2. tuples' \in Seq(BufferRows) /\ delivered' \in Seq(Seq(BufferRows))
        BY <4>1 DEF BufferRows
      <4>3. slot' = [u \in Workers |-> slot'[u]]
        BY <4>1, Zenon
      <4>4. QED
        BY <4>2, <4>3
    <3>3. CASE Len(tuples) # batch_size
      <4>1. /\ delivered' = delivered /\ tuples' = Append(tuples, Unwritten)
            /\ slot' = [slot EXCEPT ![w] = [pos |-> Len(tuples) + 1, live |-> TRUE]]
        BY <3>1, <3>3 DEF AllocOutputSlot
      <4>2. tuples' \in Seq(BufferRows)
        BY <4>1 DEF BufferRows
      <4>3. slot' = [u \in Workers |-> slot'[u]]
        BY <4>1
      <4>4. QED
        BY <4>1, <4>2, <4>3
    <3>4. QED
      BY <3>2, <3>3
  <2>2. CASE ConsumeWrite(w)
    <3>1. WriteSlot(w, OutputRow(w)) /\ OutputRow(w) \in BufferRows
      BY <2>2, OutputRowType DEF ConsumeWrite, BufferRows
    <3>2. /\ delivered' = delivered /\ slot' = [slot EXCEPT ![w] = NoSlot]
          /\ \/ tuples' = tuples
             \/ \E i \in DOMAIN tuples : tuples' = [tuples EXCEPT ![i] = OutputRow(w)]
      BY <3>1 DEF WriteSlot
    <3>3. tuples' \in Seq(BufferRows)
      <4>1. CASE tuples' = tuples
        BY <4>1
      <4>2. CASE \E i \in DOMAIN tuples : tuples' = [tuples EXCEPT ![i] = OutputRow(w)]
        <5>1. PICK i \in DOMAIN tuples : tuples' = [tuples EXCEPT ![i] = OutputRow(w)]
          BY <4>2
        <5>2. i \in 1 .. Len(tuples)
          OBVIOUS
        <5>3. QED
          BY <3>1, <5>1, <5>2, ExceptSeq
      <4>3. QED
        BY <3>2, <4>1, <4>2
    <3>4. slot' = [u \in Workers |-> slot'[u]]
      BY <3>2
    <3>5. QED
      BY <3>2, <3>3, <3>4
  <2>3. QED
    BY <1>1, <1>3, <2>1, <2>2
       DEF ProbeStep, ConsumeRightRow, CheckRightMark, EndRightMark,
           CheckJoinPredicate, EndLoop, WriteLeftMark
<1>4. QED
  BY <1>1, <1>2, <1>3 DEF Next, vars

(* Handing a batch over moves its rows to the delivered ones. *)
LEMMA HandOver ==
  ASSUME BufferTypeOK, NEW x
  PROVE  /\ Count(x, FlattenSeq(Append(delivered, tuples))) =
               Count(x, FlattenSeq(delivered)) + Count(x, tuples)
         /\ Count(x, FlattenSeq(delivered)) \in Nat /\ Count(x, tuples) \in Nat
<1>1. tuples \in Seq(BufferRows) /\ delivered \in Seq(Seq(BufferRows))
  BY DEF BufferTypeOK
<1>2. /\ FlattenSeq(delivered) \in Seq(BufferRows)
      /\ FlattenSeq(Append(delivered, tuples)) = FlattenSeq(delivered) \o tuples
  BY <1>1, FlattenAppend
<1>3. QED
  BY <1>1, <1>2, CountConcat, CountType

(* A worker alone writes the slot it allocated last. *)
LEMMA SerialStep ==
  ASSUME HInv, BufferTypeOK, SerialInv, [Next]_vars
  PROVE  SerialInv'
<1> SUFFICES ASSUME NEW w \in Workers, active = {w}
             PROVE  /\ pc'[w] = "write" =>
                         /\ slot'[w] = [pos |-> Len(tuples'), live |-> TRUE]
                         /\ Len(tuples') # 0 /\ tuples'[Len(tuples')] = Unwritten
                    /\ ~finalized' =>
                         /\ \A r \in OutputRows :
                              emitted'[r] =
                                Count(r, FlattenSeq(delivered')) + Count(r, tuples')
                                  + (IF pc'[w] = "write" /\ OutputRow(w)' = r THEN 1 ELSE 0)
                         /\ Count(Unwritten, FlattenSeq(delivered')) = 0
                         /\ Count(Unwritten, tuples') = IF pc'[w] = "write" THEN 1 ELSE 0
                    /\ finalized' =>
                         /\ \A r \in OutputRows : emitted'[r] = Count(r, FlattenSeq(delivered'))
                         /\ Count(Unwritten, FlattenSeq(delivered')) = 0
  <2>1. active' = active
    BY StepFrame
  <2>2. QED
    BY <2>1 DEF SerialInv
<1> DEFINE Goal == /\ pc'[w] = "write" =>
                         /\ slot'[w] = [pos |-> Len(tuples'), live |-> TRUE]
                         /\ Len(tuples') # 0 /\ tuples'[Len(tuples')] = Unwritten
                   /\ ~finalized' =>
                         /\ \A r \in OutputRows :
                              emitted'[r] =
                                Count(r, FlattenSeq(delivered')) + Count(r, tuples')
                                  + (IF pc'[w] = "write" /\ OutputRow(w)' = r THEN 1 ELSE 0)
                         /\ Count(Unwritten, FlattenSeq(delivered')) = 0
                         /\ Count(Unwritten, tuples') = IF pc'[w] = "write" THEN 1 ELSE 0
                   /\ finalized' =>
                         /\ \A r \in OutputRows : emitted'[r] = Count(r, FlattenSeq(delivered'))
                         /\ Count(Unwritten, FlattenSeq(delivered')) = 0
<1> SUFFICES Goal
  OBVIOUS
<1>1. HTypeOK /\ HandInv
  BY DEF HInv
<1>2. /\ pc[w] = "write" =>
           /\ slot[w] = [pos |-> Len(tuples), live |-> TRUE]
           /\ Len(tuples) # 0 /\ tuples[Len(tuples)] = Unwritten
      /\ ~finalized =>
           /\ \A r \in OutputRows :
                emitted[r] = Count(r, FlattenSeq(delivered)) + Count(r, tuples)
                               + (IF pc[w] = "write" /\ OutputRow(w) = r THEN 1 ELSE 0)
           /\ Count(Unwritten, FlattenSeq(delivered)) = 0
           /\ Count(Unwritten, tuples) = IF pc[w] = "write" THEN 1 ELSE 0
      /\ finalized =>
           /\ \A r \in OutputRows : emitted[r] = Count(r, FlattenSeq(delivered))
           /\ Count(Unwritten, FlattenSeq(delivered)) = 0
  BY DEF SerialInv
<1>3. CASE UNCHANGED vars
  <2>1. /\ pc' = pc /\ slot' = slot /\ tuples' = tuples /\ delivered' = delivered
        /\ finalized' = finalized /\ emitted' = emitted /\ OutputRow(w)' = OutputRow(w)
    BY <1>3 DEF vars, join, buffer, OutputRow, RequiresRightMark
  <2>2. QED
    BY <1>2, <2>1
<1>4. CASE FinishPipelineWork
  <2>1. /\ pc' = pc /\ pc[w] = "idle" /\ emitted' = emitted
        /\ ~finalized /\ finalized'
        /\ delivered' = IF tuples # <<>> THEN Append(delivered, tuples) ELSE delivered
    BY <1>4 DEF FinishPipelineWork, Finalize, join
  <2>2. \A x : /\ Count(x, FlattenSeq(delivered')) =
                   Count(x, FlattenSeq(delivered)) + Count(x, tuples)
               /\ Count(x, FlattenSeq(delivered)) \in Nat /\ Count(x, tuples) \in Nat
    <3>1. TAKE x
    <3>2. CASE tuples # <<>>
      BY <2>1, <3>2, HandOver
    <3>3. CASE tuples = <<>>
      <4>1. Count(x, tuples) = 0
        BY <3>3, CountEmpty
      <4>2. QED
        BY <2>1, <3>3, <4>1, HandOver
    <3>4. QED
      BY <3>2, <3>3
  <2>3. \A r \in OutputRows : emitted'[r] = Count(r, FlattenSeq(delivered'))
    BY <1>2, <2>1, <2>2
  <2>4. Count(Unwritten, FlattenSeq(delivered')) = 0
    BY <1>2, <2>1, <2>2
  <2>5. QED
    BY <2>1, <2>3, <2>4
<1>5. ASSUME NEW u \in Workers, ProbeStep(u)
      PROVE  Goal
  <2>1. u = w
    <3>1. CASE Busy(u)
      BY <1>1, <3>1 DEF HandInv
    <3>2. CASE ~Busy(u)
      BY <1>5, <3>2
         DEF ProbeStep, ConsumeRightRow, CheckRightMark, EndRightMark,
             CheckJoinPredicate, EndLoop, WriteLeftMark, ConsumeAlloc, ConsumeWrite, Busy
    <3>3. QED
      BY <3>1, <3>2
  <2>2. ~finalized /\ ~finalized'
    <3>1. finalized' = finalized
      BY <1>5, BufferFrame
    <3>2. ~finalized
      BY <1>1, <1>5
         DEF ProbeStep, ConsumeRightRow, CheckRightMark, EndRightMark, HandInv,
             CheckJoinPredicate, EndLoop, WriteLeftMark, ConsumeAlloc, ConsumeWrite, Busy
    <3>3. QED
      BY <3>1, <3>2
  <2>3. pc \in [Workers -> {"idle", "loop", "mark", "alloc", "write"}]
        /\ emitted \in [OutputRows -> Nat]
    BY <1>1 DEF HTypeOK
  <2>4. CASE ConsumeAlloc(w)
    <3>1. /\ pc[w] = "alloc" /\ pc'[w] = "write" /\ AllocOutputSlot(w)
          /\ emitted' = [emitted EXCEPT ![OutputRow(w)] = emitted[OutputRow(w)] + 1]
      BY <2>3, <2>4 DEF ConsumeAlloc
    <3>2. OutputRow(w) \in OutputRows
      BY <3>1, OutputRowType
    <3>3. OutputRow(w)' = OutputRow(w)
      BY <2>4 DEF ConsumeAlloc, OutputRow, RequiresRightMark
    <3>4. \A x : /\ Count(x, FlattenSeq(delivered')) + Count(x, tuples') =
                     Count(x, FlattenSeq(delivered)) + Count(x, tuples)
                       + (IF x = Unwritten THEN 1 ELSE 0)
                 /\ Count(Unwritten, FlattenSeq(delivered')) = 0
      <4>1. TAKE x
      <4>2. tuples \in Seq(BufferRows) /\ Unwritten \in BufferRows
        BY DEF BufferTypeOK, BufferRows
      <4>3. CASE Len(tuples) = batch_size
        <5>1. delivered' = Append(delivered, tuples) /\ tuples' = <<Unwritten>>
          BY <3>1, <4>3 DEF AllocOutputSlot
        <5>2. tuples' = Append(<<>>, Unwritten) /\ <<>> \in Seq(BufferRows)
          BY <5>1
        <5>3. Count(x, tuples') = IF x = Unwritten THEN 1 ELSE 0
          <6>1. Count(x, tuples') = Count(x, <<>>) + (IF x = Unwritten THEN 1 ELSE 0)
            BY <4>2, <5>2, CountAppend
          <6>2. QED
            BY <6>1, CountEmpty
        <5>4. Count(x, FlattenSeq(delivered')) =
                Count(x, FlattenSeq(delivered)) + Count(x, tuples)
          BY <5>1, HandOver
        <5>5. Count(Unwritten, FlattenSeq(delivered')) = 0
          <6>1. Count(Unwritten, FlattenSeq(delivered')) =
                  Count(Unwritten, FlattenSeq(delivered)) + Count(Unwritten, tuples)
            BY <5>1, HandOver
          <6>2. QED
            BY <1>2, <2>2, <3>1, <6>1
        <5>6. QED
          BY <5>3, <5>4, <5>5
      <4>4. CASE Len(tuples) # batch_size
        <5>1. delivered' = delivered /\ tuples' = Append(tuples, Unwritten)
          BY <3>1, <4>4 DEF AllocOutputSlot
        <5>2. Count(x, tuples') = Count(x, tuples) + (IF x = Unwritten THEN 1 ELSE 0)
          BY <4>2, <5>1, CountAppend
        <5>3. Count(x, FlattenSeq(delivered)) \in Nat /\ Count(x, tuples) \in Nat
          BY HandOver
        <5>4. QED
          BY <1>2, <2>2, <5>1, <5>2, <5>3
      <4>5. QED
        BY <4>3, <4>4
    <3>5. /\ slot'[w] = [pos |-> Len(tuples'), live |-> TRUE]
          /\ Len(tuples') # 0 /\ tuples'[Len(tuples')] = Unwritten
      <4>1. CASE Len(tuples) = batch_size
        <5>1. /\ tuples' = <<Unwritten>>
              /\ slot' = [v \in Workers |-> IF v = w THEN [pos |-> 1, live |-> TRUE]
                                            ELSE [slot[v] EXCEPT !.live = FALSE]]
          BY <3>1, <4>1 DEF AllocOutputSlot
        <5>2. slot'[w] = [pos |-> 1, live |-> TRUE]
          BY <5>1, Zenon
        <5>3. QED
          BY <5>1, <5>2
      <4>2. CASE Len(tuples) # batch_size
        <5>1. /\ tuples' = Append(tuples, Unwritten)
              /\ slot' = [slot EXCEPT ![w] = [pos |-> Len(tuples) + 1, live |-> TRUE]]
          BY <3>1, <4>2 DEF AllocOutputSlot
        <5>2. slot'[w] = [pos |-> Len(tuples) + 1, live |-> TRUE]
          BY <5>1 DEF BufferTypeOK
        <5>3. Len(tuples') = Len(tuples) + 1 /\ Len(tuples) \in Nat
              /\ tuples'[Len(tuples) + 1] = Unwritten
          BY <5>1 DEF BufferTypeOK
        <5>4. QED
          BY <5>2, <5>3
      <4>3. QED
        BY <4>1, <4>2
    <3>6. ASSUME NEW r \in OutputRows
          PROVE  emitted'[r] = Count(r, FlattenSeq(delivered')) + Count(r, tuples')
                                 + (IF OutputRow(w) = r THEN 1 ELSE 0)
      <4>1. r # Unwritten
        BY UnwrittenAssumption
      <4>2. emitted[r] = Count(r, FlattenSeq(delivered)) + Count(r, tuples)
        BY <1>2, <2>2, <2>3, <3>1, HandOver
      <4>3. emitted'[r] = emitted[r] + (IF OutputRow(w) = r THEN 1 ELSE 0)
        BY <2>3, <3>1, <3>2
      <4>4. Count(r, FlattenSeq(delivered')) + Count(r, tuples') = emitted[r] /\ emitted[r] \in Nat
        BY <2>3, <3>4, <4>1, <4>2, HandOver
      <4>5. QED
        BY <4>3, <4>4
    <3>7. Count(Unwritten, tuples') = 1
      <4>1. Count(Unwritten, FlattenSeq(delivered)) = 0 /\ Count(Unwritten, tuples) = 0
        BY <1>2, <2>2, <3>1
      <4>2. Count(Unwritten, tuples') \in Nat
        BY BufferTypeStep, CountType DEF BufferTypeOK
      <4>3. QED
        BY <3>4, <4>1, <4>2
    <3>8. QED
      BY <2>2, <3>1, <3>3, <3>4, <3>5, <3>6, <3>7
  <2>5. CASE ConsumeWrite(w)
    <3>1. /\ pc[w] = "write" /\ pc'[w] # "write" /\ WriteSlot(w, OutputRow(w))
          /\ emitted' = emitted
      BY <2>3, <2>5 DEF ConsumeWrite
    <3>2. OutputRow(w) \in OutputRows
      BY <3>1, OutputRowType
    <3> DEFINE k == Len(tuples)
    <3>3. /\ delivered' = delivered
          /\ tuples' = [tuples EXCEPT ![k] = OutputRow(w)]
      <4>1. slot[w].live /\ slot[w].pos = k
        BY <1>2, <3>1
      <4>2. QED
        BY <3>1, <4>1 DEF WriteSlot
    <3>4. /\ tuples \in Seq(BufferRows) /\ OutputRow(w) \in BufferRows
          /\ k \in 1 .. Len(tuples) /\ tuples[k] = Unwritten /\ tuples[k] # OutputRow(w)
      BY <1>2, <3>1, <3>2, UnwrittenAssumption DEF BufferTypeOK, BufferRows
    <3> DEFINE y == OutputRow(w)
    <3>5. \A x : Exchanged(x, tuples, tuples', tuples[k], y)
      <4> HIDE DEF k, y
      <4>1. tuples \in Seq(BufferRows) /\ y \in BufferRows
        BY <3>4 DEF y
      <4>2. k \in 1 .. Len(tuples) /\ tuples[k] # y
        BY <3>4 DEF y
      <4>3. tuples' = [tuples EXCEPT ![k] = y]
        BY <3>3 DEF y
      <4>4. QED
        BY ONLY <4>1, <4>2, <4>3, CountExcept, Zenon
    <3>6. ASSUME NEW r \in OutputRows
          PROVE  emitted'[r] = Count(r, FlattenSeq(delivered')) + Count(r, tuples')
      <4>1. Count(r, tuples') = Count(r, tuples) + (IF OutputRow(w) = r THEN 1 ELSE 0)
        <5>1. r # tuples[k]
          BY <3>4, UnwrittenAssumption
        <5>2. Count(r, tuples) \in Nat
          BY HandOver
        <5>3. Exchanged(r, tuples, tuples', tuples[k], y)
          BY ONLY <3>5
        <5>4. QED
          BY <5>1, <5>2, <5>3 DEF Exchanged
      <4>2. Count(r, FlattenSeq(delivered)) \in Nat /\ Count(r, tuples) \in Nat
        BY HandOver
      <4>3. emitted[r] = Count(r, FlattenSeq(delivered)) + Count(r, tuples)
                           + (IF OutputRow(w) = r THEN 1 ELSE 0)
        BY <1>2, <2>2, <3>1
      <4>4. QED
        BY <3>1, <3>3, <4>1, <4>2, <4>3
    <3>7. Count(Unwritten, tuples') = 0
      <4>1. Count(Unwritten, tuples) = 1
        BY <1>2, <2>2, <3>1
      <4>2. Exchanged(Unwritten, tuples, tuples', tuples[k], y)
        BY ONLY <3>5
      <4>3. QED
        BY <3>4, <4>1, <4>2 DEF Exchanged
    <3>8. \A r \in OutputRows :
            Count(r, FlattenSeq(delivered')) + Count(r, tuples') \in Nat
      BY <2>3, <3>1, <3>6
    <3>9. \A r \in OutputRows :
            emitted'[r] = Count(r, FlattenSeq(delivered')) + Count(r, tuples')
              + (IF pc'[w] = "write" /\ OutputRow(w)' = r THEN 1 ELSE 0)
      BY <3>1, <3>6, <3>8
    <3>10. QED
      BY <1>2, <2>2, <3>1, <3>3, <3>7, <3>9
  <2>6. CASE ~ConsumeAlloc(w) /\ ~ConsumeWrite(w)
    <3>1. /\ pc[w] # "write" /\ pc'[w] # "write" /\ emitted' = emitted
          /\ tuples' = tuples /\ delivered' = delivered
      BY <1>5, <2>1, <2>3, <2>6
         DEF ProbeStep, ConsumeRightRow, CheckRightMark, EndRightMark,
             CheckJoinPredicate, EndLoop, WriteLeftMark, buffer
    <3>2. QED
      BY <1>2, <2>2, <3>1
  <2>7. QED
    BY <2>4, <2>5, <2>6
<1>6. QED
  BY <1>3, <1>4, <1>5 DEF Next

(* A query on one worker delivers every row it emits, as often as it emits *)
(* it, and no slot that nobody wrote (ResultBuffer::AllocOutputSlot,       *)
(* ResultBuffer::Finalize).                                                *)
THEOREM SerialDeliveryHolds == Spec => []SerialDelivery
<1>1. Init => BufferTypeOK /\ SerialInv
  <2> SUFFICES ASSUME Init PROVE BufferTypeOK /\ SerialInv
    OBVIOUS
  <2>1. /\ tuples = <<>> /\ delivered = <<>> /\ ~finalized
        /\ slot = [w \in Workers |-> NoSlot]
    BY DEF Init, BufferInit
  <2>2. BufferTypeOK
    BY <2>1 DEF BufferTypeOK
  <2>3. FlattenSeq(delivered) = <<>>
    BY <2>1 DEF FlattenSeq
  <2>4. \A x : Count(x, <<>>) = 0
    BY CountEmpty
  <2>5. \A w \in Workers : pc[w] # "write"
    BY DEF Init
  <2>6. \A r \in OutputRows : emitted[r] = 0
    BY DEF Init
  <2>7. SerialInv
    BY <2>1, <2>3, <2>4, <2>5, <2>6 DEF SerialInv
  <2>8. QED
    BY <2>2, <2>7
<1>2. HInv /\ BufferTypeOK /\ SerialInv /\ [Next]_vars => BufferTypeOK' /\ SerialInv'
  BY BufferTypeStep, SerialStep
<1>3. HInv /\ SerialInv => SerialDelivery
  <2> SUFFICES ASSUME HInv, SerialInv, finalized, Cardinality(active) = 1,
                      NEW r \in OutputRows \cup {Unwritten}
               PROVE  Occurrences(r, DeliveredRows) = IF r = Unwritten THEN 0 ELSE emitted[r]
    BY DEF SerialDelivery
  <2>1. PICK w : active = {w}
    <3>1. IsFiniteSet(active)
      BY WorkersAssumption, FS_Subset DEF HInv, HTypeOK
    <3>2. QED
      BY <3>1, FS_Singleton
  <2>2. w \in Workers
    BY <2>1 DEF HInv, HTypeOK
  <2>3. Occurrences(r, DeliveredRows) = Count(r, FlattenSeq(delivered))
    BY DEF Occurrences, Count, DeliveredRows
  <2>4. QED
    BY <2>1, <2>2, <2>3 DEF SerialInv
<1>4. QED
  BY <1>1, <1>2, <1>3, HInvariantHolds, PTL DEF Spec
=============================================================================
