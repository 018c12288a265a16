------------------------------- MODULE Sorter -------------------------------
(***************************************************************************)
(* Sorting: the build pipeline fills the global sorter, or one sorter per  *)
(* worker, keeping only a heap of the best tuples when the plan has a      *)
(* limit; its finish function sorts, in parallel if that pays; the serial  *)
(* produce pipeline then scans the global sorter.                          *)
(*                                                                         *)
(* The parallel sort sorts every thread-local sorter, cuts all of them at  *)
(* common splitters into work packages, and lets one task per package      *)
(* merge its ranges into its own stretch of the output.  A thread-local    *)
(* sorter is private to its worker while it is filled and sorted, so these *)
(* are single actions; the merge tasks interleave tuple by tuple.          *)
(***************************************************************************)
EXTENDS Integers, SequencesExt

(* Definitions such as MergeLast are faulty variants of the operation their *)
(* name starts with, kept to show that a property can fail.                 *)

CONSTANTS
  Tuples,     (* the rows                                                   *)
  Key,        (* the sort key of each row, already in plan order            *)
  Workers,    (* the threads, each with a sorter in its thread state        *)
  Global,     (* the sorter of the query state                              *)
  NULL,       (* an output position nobody has written                      *)
  Inputs,     (* the sets of rows a table may hold                          *)
  Plans,      (* the limits and offsets of order-by plans                   *)
  kDefaultMinTuplesForParallelSort

\* Sorters are different objects, a row is in memory, keys are compared as numbers.
ASSUME SorterAssumption ==
  /\ IsFiniteSet(Workers) /\ Global \notin Workers
  /\ NULL \notin Tuples /\ Key \in [Tuples -> Int]
  /\ \A I \in Inputs : I \subseteq Tuples /\ IsFiniteSet(I)

\* A limit of zero reads the front of an empty heap, and the generated code
\* holds offset + limit in 32 bits: plans outside these bounds are left out.
ASSUME PlansAssumption ==
  /\ Plans \subseteq [limited : BOOLEAN, limit : Nat, offset : Nat]
  /\ \A p \in Plans : p.limited => p.offset + p.limit > 0

VARIABLES
  parallel,   (* is the build pipeline parallel?                            *)
  plan,       (* limited, limit, offset                                     *)
  phase,      (* "fill", "merge", "built", "ready", "done"                  *)
  input,      (* the rows of the table ...                                  *)
  pending,    (* ... and those no worker has consumed                       *)
  tuples,     (* tuples_ of each sorter                                     *)
  storage,    (* tuple_storage_ of each sorter, as a set                    *)
  owned,      (* owned_tuples_ of the global sorter                         *)
  freed,      (* memory of destroyed sorters                                *)
  sorted,     (* sorted_ of each sorter                                     *)
  work,       (* merge_work: ranges still to be merged, next position       *)
  out         (* history: the rows the scan passed on                       *)

query == <<parallel, plan, input>>
vars  == <<query, phase, pending, tuples, storage, owned, freed, sorted, work, out>>

Sorters == Workers \cup {Global}

cmp_fn(a, b) == Key[a] < Key[b]

top_k == plan.offset + plan.limit

----------------------------------------------------------------------------
(* Operations on one vector of tuples *)

Ordered(q) == \A i \in 1 .. Len(q) - 1 : ~cmp_fn(q[i + 1], q[i])

\* A library sort of rows: any ordered arrangement, since it is not stable.
SetSortings(S) == {s \in SetToSeqs(S) : Ordered(s)}

Sortings(q) == SetSortings(Range(q))

IsHeap(q) == \A i \in 2 .. Len(q) : ~cmp_fn(q[i \div 2], q[i])

\* std::make_heap
Heaps(q) == {h \in SetToSeqs(Range(q)) : IsHeap(h)}

Swap(q, i, j) == [q EXCEPT ![i] = q[j], ![j] = q[i]]

\* The greater child of a position.
Child(q, idx) ==
  LET left == 2 * idx
  IN  IF left < Len(q) /\ cmp_fn(q[left], q[left + 1]) THEN left + 1 ELSE left

\* A heap and the position that is sifted down.
HeapPositions == [q : Seq(Tuples), idx : Nat \ {0}]

SiftDown[h \in HeapPositions] ==
  LET child == Child(h.q, h.idx)
  IN  IF 2 * h.idx > Len(h.q) \/ ~cmp_fn(h.q[h.idx], h.q[child]) THEN h.q
      ELSE SiftDown[[q |-> Swap(h.q, h.idx, child), idx |-> child]]

HeapSiftDownNot(q) == q

HeapSiftDown(q) == SiftDown[[q |-> q, idx |-> 1]]

\* The outcomes of AllocInputTupleTopKFinish.
TopKFinish(q) ==
  LET last == q[Len(q)]
      heap == Front(q)
  IN  IF Len(q) < top_k THEN {q}
      ELSE IF Len(q) = top_k THEN Heaps(q)
      ELSE {IF cmp_fn(last, heap[1]) THEN HeapSiftDown([heap EXCEPT ![1] = last]) ELSE heap}

----------------------------------------------------------------------------
Init ==
  /\ parallel \in BOOLEAN /\ plan \in Plans
  /\ phase = "fill"
  /\ input \in Inputs /\ pending = input
  /\ tuples = [s \in Sorters |-> <<>>]
  /\ storage = [s \in Sorters |-> {}]
  /\ owned = {} /\ freed = {}
  /\ sorted = [s \in Sorters |-> FALSE]
  /\ work = <<>> /\ out = <<>>

\* AllocInputTuple, the row's columns, and AllocInputTupleTopKFinish.
InsertIntoSorter(s, r) ==
  /\ phase = "fill" /\ r \in pending
  /\ s \in IF parallel THEN Workers ELSE {Global}
  /\ pending' = pending \ {r}
  /\ storage' = [storage EXCEPT ![s] = @ \cup {r}]
  /\ \E q \in IF plan.limited THEN TopKFinish(Append(tuples[s], r))
                              ELSE {Append(tuples[s], r)} :
       tuples' = [tuples EXCEPT ![s] = q]
  /\ UNCHANGED <<query, phase, owned, freed, sorted, work, out>>

\* The serial pipeline's finish function.
Sort ==
  /\ phase = "fill" /\ pending = {} /\ ~parallel
  /\ \E q \in Sortings(tuples[Global]) : tuples' = [tuples EXCEPT ![Global] = q]
  /\ sorted' = [sorted EXCEPT ![Global] = tuples[Global] # <<>>]
  /\ phase' = "built"
  /\ UNCHANGED <<query, pending, storage, owned, freed, work, out>>

----------------------------------------------------------------------------
(* SortParallel, SortTopKParallel *)

tl_sorters == {w \in Workers : tuples[w] # <<>>}

num_tuples == SumFunction([w \in tl_sorters |-> Len(tuples[w])])

UseSerialSort ==
  Cardinality(tl_sorters) = 1 \/ num_tuples < kDefaultMinTuplesForParallelSort

\* SortTopKParallel trims the result.
Trim(q) == IF plan.limited /\ top_k < Len(q) THEN SubSeq(q, 1, top_k) ELSE q

MoveStorageNot ==
  /\ owned' = owned
  /\ storage' = storage

MoveStorage ==
  /\ owned' = owned \cup UNION {storage[w] : w \in tl_sorters}
  /\ storage' = [s \in Sorters |-> IF s \in tl_sorters THEN {} ELSE storage[s]]

\* Nothing to sort, or a serial sort of everything.
SortParallelSerially ==
  /\ phase = "fill" /\ pending = {} /\ parallel
  /\ tl_sorters = {} \/ UseSerialSort
  /\ \E q \in Sortings(FlattenSeq(SetToSeq({tuples[w] : w \in tl_sorters}))) :
       tuples' = [s \in Sorters |-> IF s = Global THEN Trim(q) ELSE <<>>]
  /\ MoveStorage
  /\ sorted' = [sorted EXCEPT ![Global] = TRUE]
  /\ phase' = "built"
  /\ UNCHANGED <<query, pending, freed, work, out>>

\* The i-th splitter of the sorted vectors loc: the median of the candidates.
Splitter(loc, tl, i) ==
  LET n          == Cardinality(tl)
      candidates == {loc[w][i * (Len(loc[w]) \div n) + 1] : w \in tl}
  IN  (CHOOSE s \in SetSortings(candidates) : TRUE)[n \div 2 + 1]

\* Where package i ends in each sorter: after (the upper bound of) splitter i,
\* looked for from the end of package i - 1; the last package takes the rest.
Cuts(loc, tl) ==
  LET n == Cardinality(tl)
      End[i \in 0 .. n - 1] ==
        [w \in tl |->
           IF i = 0 THEN 0
           ELSE IF i = n - 1 THEN Len(loc[w])
           ELSE LET start == End[i - 1][w]
                IN  start + Cardinality({j \in start + 1 .. Len(loc[w]) :
                                           ~cmp_fn(Splitter(loc, tl, i), loc[w][j])})]
  IN  End

\* The non-empty ranges of a package, between two cuts.
InputRanges(from, to) ==
  {[s |-> w, first |-> from[w] + 1, last |-> to[w]] : w \in {v \in DOMAIN to : from[v] < to[v]}}

WritePos(cut) == 1 + SumFunction(cut)

WorkPackagesRestart(loc, tl) ==
  LET cuts == Cuts(loc, tl)
  IN  [i \in 1 .. Cardinality(tl) - 1 |->
         [ranges |-> InputRanges(cuts[0], cuts[i]), dest |-> WritePos(cuts[i - 1])]]

\* One package per splitter.
WorkPackages(loc, tl) ==
  LET cuts == Cuts(loc, tl)
  IN  [i \in 1 .. Cardinality(tl) - 1 |->
         [ranges |-> InputRanges(cuts[i - 1], cuts[i]), dest |-> WritePos(cuts[i - 1])]]

\* Up to the start of the merge tasks.
SortParallel ==
  /\ phase = "fill" /\ pending = {} /\ parallel
  /\ tl_sorters # {} /\ ~UseSerialSort
  /\ \E loc \in [tl_sorters -> UNION {Sortings(tuples[w]) : w \in tl_sorters}] :
       /\ \A w \in tl_sorters : Range(loc[w]) = Range(tuples[w])
       /\ work' = WorkPackages(loc, tl_sorters)
       /\ tuples' = [s \in Sorters |->
                       IF s = Global THEN [i \in 1 .. num_tuples |-> NULL]
                       ELSE IF s \in tl_sorters THEN loc[s] ELSE tuples[s]]
  /\ sorted' = [s \in Sorters |-> sorted[s] \/ s \in tl_sorters]
  /\ phase' = "merge"
  /\ UNCHANGED <<query, pending, storage, owned, freed, out>>

FrontTuple(r) == tuples[r.s][r.first]

MergeLast(ranges) == {r \in ranges : \A q \in ranges : ~cmp_fn(FrontTuple(r), FrontTuple(q))}

MergeTwo(ranges) ==
  {r \in ranges : Cardinality(ranges) > 1 /\ \A q \in ranges : ~cmp_fn(FrontTuple(q), FrontTuple(r))}

\* heap.top(): a range whose first tuple no other precedes.
Merge(ranges) == {r \in ranges : \A q \in ranges : ~cmp_fn(FrontTuple(q), FrontTuple(r))}

\* The ranges of a package once the first tuple of r is merged.
Advance(ranges, r) ==
  (ranges \ {r}) \cup (IF r.first = r.last THEN {}
                      ELSE {[s |-> r.s, first |-> r.first + 1, last |-> r.last]})

MergeStep(k) ==
  /\ phase = "merge" /\ k \in DOMAIN work
  /\ \E r \in Merge(work[k].ranges) :
       /\ tuples' = [tuples EXCEPT ![Global][work[k].dest] = FrontTuple(r)]
       /\ work' = [work EXCEPT ![k] = [ranges |-> Advance(@.ranges, r), dest |-> @.dest + 1]]
  /\ UNCHANGED <<query, phase, pending, storage, owned, freed, sorted, out>>

\* After the last task: ownership, and the trim of SortTopKParallel.
FinishSort ==
  /\ phase = "merge" /\ \A k \in DOMAIN work : work[k].ranges = {}
  /\ MoveStorage
  /\ tuples' = [s \in Sorters |-> IF s = Global THEN Trim(tuples[s]) ELSE <<>>]
  /\ sorted' = [sorted EXCEPT ![Global] = TRUE]
  /\ work' = <<>>
  /\ phase' = "built"
  /\ UNCHANGED <<query, pending, freed, out>>

----------------------------------------------------------------------------
\* The thread-local sorters are destroyed.
TearDownPipelineState ==
  /\ phase = "built" /\ phase' = "ready"
  /\ freed' = UNION {storage[w] : w \in Workers}
  /\ storage' = [s \in Sorters |-> IF s = Global THEN storage[s] ELSE {}]
  /\ UNCHANGED <<query, pending, tuples, owned, sorted, work, out>>

\* SkipRows(offset) exhausts the iterator if there are fewer rows.
ScanSorter ==
  /\ phase = "ready" /\ phase' = "done"
  /\ out' = SubSeq(tuples[Global], plan.offset + 1, Len(tuples[Global]))
  /\ UNCHANGED <<query, pending, tuples, storage, owned, freed, sorted, work>>

Next ==
  \/ \E s \in Sorters, r \in Tuples : InsertIntoSorter(s, r)
  \/ Sort \/ SortParallelSerially \/ SortParallel
  \/ \E k \in 1 .. Cardinality(Workers) - 1 : MergeStep(k)
  \/ FinishSort
  \/ TearDownPipelineState
  \/ ScanSorter
  \/ phase = "done" /\ UNCHANGED vars

Spec == Init /\ [][Next]_vars

(* The scan consumes every row, parallel_for_each runs every task, and the  *)
(* pipelines follow each other.                                             *)
FairSpec == Spec /\ WF_vars(Next)

----------------------------------------------------------------------------
(* While rows arrive, a sorter with a limit holds the best rows it was ever *)
(* given, as many as the limit allows, and once it holds that many its      *)
(* first one is a worst one: the comparison that decides whether a new row  *)
(* is kept is made against the right row.                                   *)
TopKKept ==
  phase = "fill" /\ plan.limited =>
    \A s \in Sorters :
      /\ IsInjective(tuples[s]) /\ Range(tuples[s]) \subseteq storage[s]
      /\ Len(tuples[s]) = Min({top_k, Cardinality(storage[s])})
      /\ \A a \in Range(tuples[s]), b \in storage[s] \ Range(tuples[s]) : ~cmp_fn(b, a)
      /\ Len(tuples[s]) = top_k => \A a \in Range(tuples[s]) : ~cmp_fn(tuples[s][1], a)

\* The output positions package k has still to write.
ToWrite(k) ==
  work[k].dest ..
    work[k].dest - 1 + SumFunction([r \in work[k].ranges |-> r.last - r.first + 1])

(* The merge tasks never write the same output position, and together they  *)
(* write all of them: at every moment the unwritten positions are those the *)
(* packages still have to write, each of exactly one package.               *)
PackagesPartitionOutput ==
  phase = "merge" =>
    /\ {i \in DOMAIN tuples[Global] : tuples[Global][i] = NULL} =
         UNION {ToWrite(k) : k \in DOMAIN work}
    /\ \A j, k \in DOMAIN work : j # k => ToWrite(j) \cap ToWrite(k) = {}

(* No row of the global sorter is in the memory of a destroyed sorter.      *)
NoFreedTuple ==
  phase \in {"ready", "done"} =>
    /\ Range(tuples[Global]) \cap freed = {}
    /\ Range(tuples[Global]) \subseteq storage[Global] \cup owned

(* The query returns the rows of the reference answer: the input in order   *)
(* of its keys, without the first offset rows, and at most limit of them,   *)
(* whichever way rows were spread, split and merged.                        *)
SortExact ==
  phase = "done" =>
    LET all    == CHOOSE s \in SetSortings(input) : TRUE
        last   == IF plan.limited THEN Min({Len(all), top_k}) ELSE Len(all)
        answer == SubSeq(all, plan.offset + 1, last)
    IN  /\ Len(out) = Len(answer) /\ IsInjective(out) /\ Range(out) \subseteq input
        /\ \A i \in DOMAIN out : Key[out[i]] = Key[answer[i]]

(* The sort ends and its result is scanned.                                 *)
SortFinishes == <>(phase = "done")
=============================================================================
