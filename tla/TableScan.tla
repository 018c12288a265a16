------------------------------ MODULE TableScan ------------------------------
(***************************************************************************)
(* Vector-wise iteration over a table: a table is a sequence of blocks,    *)
(* given here by their tuple counts, and an iterator walks a range of      *)
(* blocks, returning at most kDefaultVectorSize consecutive tuples of one  *)
(* block at a time.  All columns of a block have the same length, so that  *)
(* one column iterator stands for all of them.  A tuple is identified by   *)
(* its block and its position in it.                                       *)
(***************************************************************************)
EXTENDS Integers, Sequences, FiniteSets, FiniteSetsExt

(* AdvanceSameBlock is a faulty variant, kept to show that a property can   *)
(* fail.                                                                    *)

CONSTANT kDefaultVectorSize

ASSUME VectorSizeAssumption == kDefaultVectorSize \in Nat \ {0}

NoBlock == -1
ToEnd   == -1    \* the end of a range that was not given one

\* Init of the block iterator refuses these ranges.
RangeOK(blocks, lo, hi) ==
  /\ lo <= Len(blocks)
  /\ hi # ToEnd => hi <= Len(blocks) /\ lo < hi

IteratorInit(blocks, lo, hi) ==
  [pos |-> lo, end |-> IF hi = ToEnd THEN Len(blocks) ELSE hi,
   block |-> NoBlock, current |-> 0, next |-> 0]

ColumnCanAdvance(blocks, it) == it.block # NoBlock /\ it.next # blocks[it.block + 1]

\* The answer of TableVectorIterator::Advance.
CanAdvance(blocks, it) == ColumnCanAdvance(blocks, it) \/ it.pos # it.end

\* Move on in the block.
ColumnAdvance(blocks, it) ==
  [it EXCEPT !.current = it.next,
             !.next = Min({blocks[it.block + 1], it.next + kDefaultVectorSize})]

\* The next block; its column is reset.
BlockAdvance(blocks, it) ==
  [it EXCEPT !.block = it.pos, !.pos = @ + 1, !.current = 0,
             !.next = Min({blocks[it.pos + 1], kDefaultVectorSize})]

AdvanceSameBlock(blocks, it) ==
  IF it.pos # it.end THEN BlockAdvance(blocks, it) ELSE ColumnAdvance(blocks, it)

Advance(blocks, it) ==
  IF ColumnCanAdvance(blocks, it) THEN ColumnAdvance(blocks, it) ELSE BlockAdvance(blocks, it)

\* RefreshVectorProjection: the tuples of the current vector.
VectorTuples(it) == {<<it.block, i>> : i \in it.current .. it.next - 1}

\* The while (Advance()) loop over a whole table: an iterator cannot advance
\* more often than there are tuples and blocks.
ScanTable(blocks) ==
  LET bound == Len(blocks) + MapThenSumSet(LAMBDA b : blocks[b], DOMAIN blocks)
      after[n \in 0 .. bound] ==
        IF n = 0 THEN [it |-> IteratorInit(blocks, 0, ToEnd), tuples |-> {}]
        ELSE LET r == after[n - 1]
                 it == Advance(blocks, r.it)
             IN  IF ~CanAdvance(blocks, r.it) THEN r
                 ELSE [it |-> it, tuples |-> r.tuples \cup VectorTuples(it)]
  IN  after[bound].tuples

\* parallel_for splits [0, block count) into consecutive ranges in any way.
Splits(blocks) ==
  LET n == Len(blocks)
      Ranges(cuts) == {r \in (cuts \cup {0}) \X (cuts \cup {n}) :
                         r[1] < r[2] /\ ~\E c \in cuts : r[1] < c /\ c < r[2]}
  IN  {Ranges(cuts) : cuts \in SUBSET (1 .. n - 1)}
=============================================================================
