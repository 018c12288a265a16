------------------------ MODULE AggregationHashTable ------------------------
(***************************************************************************)
(* Hash aggregation: the build pipeline that folds input rows into partial *)
(* aggregates, and the produce pipeline that returns one row per group.    *)
(*                                                                         *)
(* A serial build works on the global table.  A parallel build gives each  *)
(* worker a table of its own, which is flushed into overflow partitions    *)
(* when it grows large; TransferMemoryAndPartitions splices the partitions *)
(* of all tables together, and a parallel scan then builds one table per   *)
(* partition, merging partials of the same group, and returns its rows.    *)
(*                                                                         *)
(* An entry is linked, through the one field entry->next, first into the   *)
(* index of a table, then into an overflow partition, then into the index  *)
(* of a partition table.  An entry is named by the row that allocated it   *)
(* (a row allocates at most one), so its key is the key of that row.  The  *)
(* index of a table is one bucket; what happens inside the directory is    *)
(* ChainingHashTable's business.                                           *)
(***************************************************************************)
EXTENDS Integers, SequencesExt

(* Definitions named after an operation with a suffix (GrowStaleFill, ...)  *)
(* are faulty variants of it: substituted for the operation, they must make *)
(* TLC report the property they were written for.                           *)

CONSTANTS
  Rows,              (* the input rows                                      *)
  Key,               (* the grouping key of each row, a tuple of columns    *)
  Partition,         (* the overflow partition of a key: its top hash bits  *)
  Slot,              (* its slot in the batch's HashToGroupIdMap            *)
  Workers,           (* the threads; each has a thread-local table          *)
  Partitions,        (* the overflow partitions                             *)
  Global,            (* the table of the query state                        *)
  NULL,
  InitialCapacity,   (* directory size of a new table                       *)
  flush_threshold,   (* flush_threshold_                                    *)
  MaxBatch,          (* bound: rows in a vector given to ProcessBatch       *)
  Vectorized,        (* may the build be a vectorized one?                  *)
  Limited            (* may a LIMIT sit above the aggregation?              *)

Tables == Workers \cup Partitions \cup {Global}

ASSUME RowsAssumption == IsFiniteSet(Rows) /\ NULL \notin Rows

(* The tables are different objects, and the pool has finitely many threads. *)
ASSUME TablesAssumption ==
  /\ IsFiniteSet(Workers) /\ Workers \cap Partitions = {}
  /\ Global \notin Workers \cup Partitions

(* There is a grouping key, and its hash selects one of the partitions. *)
ASSUME KeyAssumption ==
  \A r \in Rows : Len(Key[r]) \in Nat \ {0} /\ Partition[Key[r]] \in Partitions

(* A directory has at least one slot; the threshold is at least 256. *)
ASSUME SizeAssumption ==
  InitialCapacity \in Nat \ {0} /\ flush_threshold \in Nat \ {0} /\ MaxBatch \in Nat

ASSUME PlanAssumption == Vectorized \subseteq BOOLEAN /\ Limited \subseteq BOOLEAN

VARIABLES
  vectorized,        (* does the build use ProcessBatch?                    *)
  build_parallel,    (* parallelism of the build pipeline ...               *)
  produce_parallel,  (* ... and of the produce pipeline                     *)
  phase,             (* "build", "moved", "produce", "done"                 *)
  pending,           (* rows not aggregated yet                             *)
  tables,            (* per table: index, entries_, overflow partitions     *)
  next,              (* entry->next                                         *)
  agg,               (* the aggregate: how often each row was folded in     *)
  owned,             (* owned_entries_ of the global table                  *)
  freed,             (* memory of destroyed tables                          *)
  nonempty_parts,    (* partitions no task has picked yet                   *)
  task,              (* each worker's partition task and its iterator       *)
  out                (* history: how often each entry was returned          *)

plan == <<vectorized, build_parallel, produce_parallel>>
vars == <<plan, phase, pending, tables, next, agg, owned, freed, nonempty_parts,
          task, out>>

PartOf(e) == Partition[Key[e]]

----------------------------------------------------------------------------
(* Operations on one table.  A memory m holds all tables and next fields. *)

mem == [t |-> tables, n |-> next]

SetMem(m) == tables' = m.t /\ next' = m.n

\* The entries met from h.  A walk longer than Rows has met one twice.
Walk(n, h) ==
  LET bound == Cardinality(Rows) + 1
      at[i \in 1 .. bound] ==
        IF i = 1 THEN h ELSE IF at[i - 1] = NULL THEN NULL ELSE n[at[i - 1]]
  IN  [i \in 1 .. Cardinality({j \in 1 .. bound : at[j] # NULL}) |-> at[i]]

Index(m, s) == Walk(m.n, m.t[s].head)

\* llround(capacity * 0.7)
MaxFill(capacity) == (7 * capacity + 5) \div 10

NewTable ==
  [head |-> NULL, count |-> 0, capacity |-> InitialCapacity,
   max_fill |-> MaxFill(InitialCapacity), entries |-> <<>>,
   heads |-> [p \in Partitions |-> NULL], tails |-> [p \in Partitions |-> NULL]]

\* The entries of q are pushed one after the other on the list that begins at
\* h: the next fields after that ...
Pushed(n, h, q) ==
  [e \in Rows |->
     IF e \notin Range(q) THEN n[e]
     ELSE LET i == CHOOSE j \in DOMAIN q : q[j] = e IN IF i = 1 THEN h ELSE q[i - 1]]

\* ... and the first entry of the list.
Top(h, q) == IF q = <<>> THEN h ELSE q[Len(q)]

\* Insert<false> of the chaining table for each entry of q, in a table tb that
\* replaces table s.
InsertAll(m, s, tb, q) ==
  [t |-> [m.t EXCEPT ![s] =
            [head |-> Top(tb.head, q), count |-> tb.count + Len(q), capacity |-> tb.capacity,
             max_fill |-> tb.max_fill, entries |-> tb.entries,
             heads |-> tb.heads, tails |-> tb.tails]],
   n |-> Pushed(m.n, tb.head, q)]

\* Insert(entry), an entry that another table allocated.
Insert(m, s, e) == InsertAll(m, s, m.t[s], <<e>>)

NeedsToGrow(m, s) == m.t[s].count >= m.t[s].max_fill

NeedsToFlushToOverflowPartitions(m, s) == m.t[s].count >= flush_threshold

\* An empty index of another size.
Resized(tb, cap, fill) ==
  [head |-> NULL, count |-> 0, capacity |-> cap, max_fill |-> fill,
   entries |-> tb.entries, heads |-> tb.heads, tails |-> tb.tails]

GrowStaleFill(m, s) ==
  LET tb == m.t[s]
  IN  InsertAll(m, s, Resized(tb, 4 * tb.capacity, tb.max_fill), tb.entries)

\* Twice the capacity is asked for; at a load factor of 0.7, SetSize rounds a
\* power of two up to the next one.  All of entries_ is inserted again.
Grow(m, s) ==
  LET tb  == m.t[s]
      cap == 4 * tb.capacity
  IN  InsertAll(m, s, Resized(tb, cap, MaxFill(cap)), tb.entries)

\* AllocateEntryInternal, for each row of q.
AllocateEntries(m, s, q) ==
  LET tb == m.t[s]
  IN  InsertAll(m, s, [head |-> tb.head, count |-> tb.count, capacity |-> tb.capacity,
                       max_fill |-> tb.max_fill, entries |-> tb.entries \o q,
                       heads |-> tb.heads, tails |-> tb.tails], q)

AllocInputTuple(m, s, r) ==
  AllocateEntries(IF NeedsToGrow(m, s) THEN Grow(m, s) ELSE m, s, <<r>>)

\* FlushEntries: every entry of the index is pushed on its partition's list.
\* The tail of a list is the entry that was pushed first.
FlushToOverflowPartitions(m, s) ==
  LET c         == Index(m, s)
      In(p)     == {i \in DOMAIN c : PartOf(c[i]) = p}
      Before(i) == {j \in In(PartOf(c[i])) : j < i}
      At(e)     == CHOOSE i \in DOMAIN c : c[i] = e
      tb        == m.t[s]
  IN  [t |-> [m.t EXCEPT ![s] =
                [head |-> NULL, count |-> 0, capacity |-> tb.capacity,
                 max_fill |-> tb.max_fill, entries |-> tb.entries,
                 heads |-> [p \in Partitions |->
                              IF In(p) = {} THEN tb.heads[p] ELSE c[Max(In(p))]],
                 tails |-> [p \in Partitions |->
                              IF In(p) = {} \/ tb.tails[p] # NULL THEN tb.tails[p]
                              ELSE c[Min(In(p))]]]],
       n |-> [e \in Rows |->
                IF e \notin Range(c) THEN m.n[e]
                ELSE IF Before(At(e)) = {} THEN tb.heads[PartOf(e)]
                ELSE c[Max(Before(At(e)))]]]

AllocInputTuplePartitioned(m, s, r) ==
  LET a == AllocInputTuple(m, s, r)
  IN  IF NeedsToFlushToOverflowPartitions(a, s) THEN FlushToOverflowPartitions(a, s) ELSE a

\* PerformLookup: the first entry of the index with this key, or NULL.
PerformLookup(m, s, key) ==
  LET c   == Index(m, s)
      hit == {i \in DOMAIN c : Key[c[i]] = key}
  IN  IF hit = {} THEN NULL ELSE c[Min(hit)]

----------------------------------------------------------------------------
(* The build pipeline *)

Init ==
  /\ vectorized \in Vectorized
  /\ build_parallel \in BOOLEAN
  /\ \E limit \in Limited : produce_parallel = (build_parallel /\ ~limit)
  /\ phase = "build"
  /\ pending = Rows
  /\ tables = [s \in Tables |-> NewTable]
  /\ next = [e \in Rows |-> NULL]
  /\ agg = [e \in Rows |-> [r \in Rows |-> 0]]
  /\ owned = {} /\ freed = {}
  /\ nonempty_parts = {}
  /\ task = [w \in Workers |-> [pc |-> "idle", part |-> NULL, curr |-> NULL, next |-> NULL]]
  /\ out = [e \in Rows |-> 0]

\* The tables the build pipeline writes.
Building == IF build_parallel THEN Workers ELSE {Global}

\* One row: find its group or construct it, then advance the aggregate.
UpdateAggregates(s, r) ==
  /\ phase = "build" /\ ~vectorized /\ s \in Building /\ r \in pending
  /\ LET e == PerformLookup(mem, s, Key[r])
     IN  IF e # NULL
         THEN agg' = [agg EXCEPT ![e][r] = @ + 1] /\ UNCHANGED <<tables, next>>
         ELSE /\ SetMem(IF build_parallel THEN AllocInputTuplePartitioned(mem, s, r)
                                          ELSE AllocInputTuple(mem, s, r))
              /\ agg' = [agg EXCEPT ![r][r] = @ + 1]
  /\ pending' = pending \ {r}
  /\ UNCHANGED <<plan, phase, owned, freed, nonempty_parts, task, out>>

FixGroupingNoMap(g, r, col) ==
  [map |-> <<r>> \o g.map, entry |-> [g.entry EXCEPT ![r] = r], keq |-> g.keq \ {r}]

\* FixGrouping for one column and one row: g.map holds the rows that own a new
\* group, latest first; a row joins the first of its slot that agrees on the
\* column, and otherwise allocates a group.
FixGrouping(g, r, col) ==
  LET hit == {i \in DOMAIN g.map : /\ Slot[Key[g.map[i]]] = Slot[Key[r]]
                                   /\ Key[g.map[i]][col] = Key[r][col]}
  IN  IF hit # {}
      THEN [map |-> g.map, entry |-> [g.entry EXCEPT ![r] = g.entry[g.map[Min(hit)]]],
            keq |-> g.keq]
      ELSE [map |-> <<r>> \o g.map, entry |-> [g.entry EXCEPT ![r] = r], keq |-> g.keq \ {r}]

\* For each key column the rows still in key-equal, in vector order.
CreateMissingGroups(batch, found) ==
  LET size    == Len(batch)
      columns == Len(Key[batch[1]])
      At[i \in 0 .. columns * size] ==
        IF i = 0
        THEN [map |-> <<>>, entry |-> found, keq |-> {r \in Range(batch) : found[r] = NULL}]
        ELSE LET g == At[i - 1]
                 r == batch[1 + ((i - 1) % size)]
             IN  IF r \in g.keq THEN FixGrouping(g, r, 1 + ((i - 1) \div size)) ELSE g
  IN  At[columns * size]

\* One vector: find the groups of all rows, create the missing ones without
\* resizing, then flush or grow, then advance every row's group.
ProcessBatch(s, batch) ==
  /\ phase = "build" /\ vectorized /\ s \in Building
  /\ Range(batch) \subseteq pending
  /\ LET found == [r \in Range(batch) |-> PerformLookup(mem, s, Key[r])]
         g     == CreateMissingGroups(batch, found)
         m     == AllocateEntries(mem, s, Reverse(g.map))
     IN  /\ SetMem(CASE build_parallel /\ NeedsToFlushToOverflowPartitions(m, s)
                          -> FlushToOverflowPartitions(m, s)
                     [] ~build_parallel /\ NeedsToGrow(m, s) -> Grow(m, s)
                     [] OTHER -> m)
         /\ agg' = [e \in Rows |-> [r \in Rows |->
                      IF r \in Range(batch) /\ g.entry[r] = e THEN agg[e][r] + 1 ELSE agg[e][r]]]
  /\ pending' = pending \ Range(batch)
  /\ UNCHANGED <<plan, phase, owned, freed, nonempty_parts, task, out>>

----------------------------------------------------------------------------
(* From the build to the produce pipeline *)

SpliceHeadOnly(m, s, tb) ==
  [t |-> [m.t EXCEPT ![s] = tb,
                     ![Global].heads = [p \in Partitions |->
                        IF tb.heads[p] # NULL THEN tb.heads[p] ELSE @[p]]],
   n |-> m.n]

\* Our list of every partition is put behind the list of table s, which is tb
\* from now on.
Splice(m, s, tb) ==
  LET live == {p \in Partitions : tb.heads[p] # NULL}
      g    == m.t[Global]
  IN  [t |-> [m.t EXCEPT
                ![s] = tb,
                ![Global] =
                  [head |-> g.head, count |-> g.count, capacity |-> g.capacity,
                   max_fill |-> g.max_fill, entries |-> g.entries,
                   heads |-> [p \in Partitions |->
                                IF p \in live THEN tb.heads[p] ELSE g.heads[p]],
                   tails |-> [p \in Partitions |->
                                IF p \in live /\ g.tails[p] = NULL THEN tb.tails[p]
                                ELSE g.tails[p]]]],
       n |-> [e \in Rows |-> IF \E p \in live : e = tb.tails[p]
                             THEN g.heads[PartOf(e)] ELSE m.n[e]]]

TransferMemoryCopy(m, s) ==
  LET a == FlushToOverflowPartitions(m, s) IN Splice(a, s, a.t[s])

\* A thread-local table is flushed, and its memory and its lists are moved.
TransferMemory(m, s) ==
  LET a  == FlushToOverflowPartitions(m, s)
      tb == a.t[s]
  IN  Splice(a, s, [head |-> tb.head, count |-> tb.count, capacity |-> tb.capacity,
                    max_fill |-> tb.max_fill, entries |-> <<>>,
                    heads |-> tb.heads, tails |-> tb.tails])

\* The tables are transferred one after the other.
TransferAll(m, order) ==
  LET At[i \in 0 .. Len(order)] ==
        IF i = 0 THEN m ELSE TransferMemory(At[i - 1], order[i])
  IN  At[Len(order)]

\* The order is the one in which the thread states are enumerated.
TransferMemoryAndPartitions(order) ==
  /\ phase = "build" /\ pending = {} /\ build_parallel
  /\ SetMem(TransferAll(IF tables[Global].count > 0
                        THEN FlushToOverflowPartitions(mem, Global) ELSE mem, order))
  /\ owned' = owned \cup UNION {Range(tables[w].entries) : w \in Workers}
  /\ phase' = "moved"
  /\ UNCHANGED <<plan, pending, agg, freed, nonempty_parts, task, out>>

\* The build pipeline is torn down: the thread-local tables are destroyed.
\* The produce pipeline starts with the partitions that are not empty.
TearDownPipeline ==
  /\ \/ phase = "moved"
     \/ phase = "build" /\ pending = {} /\ ~build_parallel
  /\ freed' = freed \cup UNION {Range(tables[w].entries) : w \in Workers}
  /\ nonempty_parts' = {p \in Partitions : produce_parallel /\ tables[Global].heads[p] # NULL}
  /\ phase' = "produce"
  /\ UNCHANGED <<plan, pending, tables, next, agg, owned, task, out>>

----------------------------------------------------------------------------
(* The produce pipeline *)

\* GetOrBuildTableOverPartition: the iterator reads one entry ahead.
BuildTableOverPartition(w, p) ==
  /\ phase = "produce" /\ task[w].pc = "idle" /\ p \in nonempty_parts
  /\ nonempty_parts' = nonempty_parts \ {p}
  /\ LET h == tables[Global].heads[p]
     IN  task' = [task EXCEPT ![w] = [pc |-> "merge", part |-> p, curr |-> h, next |-> next[h]]]
  /\ UNCHANGED <<plan, phase, pending, tables, next, agg, owned, freed, out>>

\* AHTOverflowPartitionIterator::Next over a range of one partition.
IterNext(it, n) ==
  [pc |-> it.pc, part |-> it.part, curr |-> it.next,
   next |-> IF it.next = NULL THEN NULL ELSE n[it.next]]

MergePartialOnlyNew(w) ==
  LET it == task[w]
      e  == PerformLookup(mem, it.part, Key[it.curr])
  IN  /\ it.pc = "merge" /\ it.curr # NULL
      /\ IF e # NULL THEN UNCHANGED <<tables, next, task>>
         ELSE SetMem(Insert(mem, it.part, it.curr)) /\ task' = [task EXCEPT ![w] = IterNext(it, next')]
      /\ UNCHANGED <<plan, phase, pending, agg, owned, freed, nonempty_parts, out>>

\* The merge function's loop body for one partial aggregate: merged into the
\* aggregate of its group, or linked in as the first of the group.
MergePartial(w) ==
  LET it == task[w]
      e  == PerformLookup(mem, it.part, Key[it.curr])
  IN  /\ it.pc = "merge" /\ it.curr # NULL
      /\ IF e # NULL
         THEN /\ agg' = [agg EXCEPT ![e] = [r \in Rows |-> @[r] + agg[it.curr][r]]]
              /\ UNCHANGED <<tables, next>>
         ELSE SetMem(Insert(mem, it.part, it.curr)) /\ UNCHANGED agg
      /\ task' = [task EXCEPT ![w] = IterNext(it, next')]
      /\ UNCHANGED <<plan, phase, pending, owned, freed, nonempty_parts, out>>

\* ScanAggregationHashTable: one row per entry of the index.
Scan(s) == out' = [e \in Rows |-> IF e \in Range(Index(mem, s)) THEN out[e] + 1 ELSE out[e]]

ScanPartition(w) ==
  /\ task[w].pc = "merge" /\ task[w].curr = NULL
  /\ Scan(task[w].part)
  /\ task' = [task EXCEPT ![w] = [pc |-> "idle", part |-> @.part, curr |-> @.curr, next |-> @.next]]
  /\ UNCHANGED <<plan, phase, pending, tables, next, agg, owned, freed, nonempty_parts>>

\* A parallel scan ends when all its tasks have; a serial one reads the index
\* of the global table.
FinishProduce ==
  /\ phase = "produce"
  /\ IF produce_parallel
     THEN /\ nonempty_parts = {} /\ \A w \in Workers : task[w].pc = "idle"
          /\ UNCHANGED out
     ELSE Scan(Global)
  /\ phase' = "done"
  /\ UNCHANGED <<plan, pending, tables, next, agg, owned, freed, nonempty_parts, task>>

----------------------------------------------------------------------------
Batches == UNION {{b \in [1 .. k -> pending] : IsInjective(b)} : k \in 1 .. MaxBatch}

Produce(w) ==
  \/ \E p \in Partitions : BuildTableOverPartition(w, p)
  \/ MergePartial(w)
  \/ ScanPartition(w)

Next ==
  \/ \E s \in Tables, r \in Rows : UpdateAggregates(s, r)
  \/ \E s \in Tables, b \in Batches : ProcessBatch(s, b)
  \/ \E order \in SetToSeqs(Workers) : TransferMemoryAndPartitions(order)
  \/ TearDownPipeline
  \/ \E w \in Workers : Produce(w)
  \/ FinishProduce
  \/ phase = "done" /\ UNCHANGED vars

Spec == Init /\ [][Next]_vars

(* The tasks of the parallel scan are all run, and the caller waits for it. *)
FairSpec ==
  /\ Spec
  /\ WF_vars(TearDownPipeline) /\ WF_vars(FinishProduce)
  /\ \A w \in Workers : WF_vars(Produce(w))

----------------------------------------------------------------------------
\* The lists that hold partial aggregates between build and produce: every
\* index, and the overflow partitions of every table.
Lists ==
  {Index(mem, s) : s \in Tables} \cup
  {Walk(next, tables[s].heads[p]) : s \in Tables, p \in Partitions}

(* While rows are aggregated and until the thread-local tables are gone,    *)
(* every aggregated row is counted once in one partial aggregate of its own *)
(* group, and that partial is on a list, met once: growing, flushing and    *)
(* splicing lose no partial aggregate and leave none on two lists of a      *)
(* table.                                                                   *)
NoPartialLost ==
  phase = "build" =>
    \A r \in Rows \ pending : \E e \in Rows :
      /\ Key[e] = Key[r] /\ agg[e][r] = 1
      /\ \A f \in Rows \ {e} : agg[f][r] = 0
      /\ \E l \in Lists : \E i \in DOMAIN l :
           /\ l[i] = e
           /\ \A k \in Lists : \A j \in DOMAIN k : k[j] = e => k = l /\ j = i

(* Once the partitions are transferred, the global table's list of each     *)
(* partition holds exactly the partial aggregates of that partition, each   *)
(* once, and its tail is the end of the list.                               *)
PartitionsComplete ==
  phase = "moved" =>
    \A p \in Partitions :
      LET l == Walk(next, tables[Global].heads[p])
      IN  /\ IsInjective(l)
          /\ Range(l) = {e \in Rows : PartOf(e) = p /\ \E r \in Rows : agg[e][r] > 0}
          /\ l # <<>> => tables[Global].tails[p] = l[Len(l)]

\* Entries the produce pipeline reads: those an iterator stands on, and those
\* of the tables that are scanned.
InUse ==
  ({task[w].curr : w \in Workers} \ {NULL}) \cup
  UNION {Range(Index(mem, s)) : s \in Partitions \cup {Global}}

(* The produce pipeline reads no memory of a destroyed table: every entry   *)
(* it uses is one the global table owns, because the entries of the thread- *)
(* local tables were moved out of them before they were torn down.          *)
NoFreedPartial ==
  phase \in {"produce", "done"} =>
    InUse \cap freed = {} /\ InUse \subseteq owned \cup Range(tables[Global].entries)

\* Every group is returned as one row, and the row has aggregated exactly the
\* rows of the group.
OneRowPerGroup ==
  \A key \in {Key[r] : r \in Rows} :
    LET rows == {r \in Rows : Key[r] = key}
    IN  \E e \in rows :
          /\ out[e] = 1 /\ \A f \in rows \ {e} : out[f] = 0
          /\ \A r \in Rows : agg[e][r] = IF r \in rows THEN 1 ELSE 0

(* The aggregation is exact: when the produce pipeline is done every group  *)
(* was returned once, with every input row of the group counted once,       *)
(* however rows were spread over workers, flushed and merged.               *)
AggregationExact ==
  phase = "done" /\ (produce_parallel = build_parallel) => OneRowPerGroup

(* "If the build-side is parallel, the produce side is parallel": a LIMIT   *)
(* above the aggregation gets to see every group.                           *)
LimitSeesEveryGroup == phase = "done" => OneRowPerGroup

(* The produce pipeline ends: no partition list is endless, and every task  *)
(* that was started returns.                                                *)
ProduceFinishes == phase = "moved" ~> phase = "done"
=============================================================================
