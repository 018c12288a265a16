# TPL: a verification development

TPL is an in-memory query engine that compiles query plans to pipelines of
generated code. Scans hand rows to worker threads; joins, aggregations and
sorts materialise rows in thread-local structures, merge them into a global
one, and a later pipeline reads that. This directory models the parts of the
engine where threads share memory, where memory changes hands and where the
steps of a query are put in order, and the core of the language its generated
code is written in, from the text of a program to its result. It checks the
models with TLC on small instances, and proves with TLAPS what the hash tables,
the joins, the aggregation, the sorter and the execution of queries promise for
every instance.

Paths below are relative to `src/src/` of the repository.

## Inventory

| Component | State | Operations | Hard part | Correct when |
|---|---|---|---|---|
| Chaining hash table (`include/sql/chaining_hash_table.h`) | directory of tagged heads, `next` of every entry, element count | `SetSize`, `Insert`, `InsertBatch`, `FindChainHead`, `FlushEntries`, iterators | lock-free insertion by weak compare-and-exchange; tags accumulate over races | chains hold exactly what was inserted, end, and no tag hides an entry |
| Join hash table (`sql/join_hash_table.cpp`) | tuple buffers per table, `owned_`, latch, statistics for compression | `AllocInputTuple`, `Build`, `MergeParallel`, iteration, lookup | tasks merge concurrently; compression frees entries; thread-local tables are destroyed afterwards | the built table holds and owns exactly the live tuples |
| Hash join (`sql/codegen/operators/hash_join_translator.cpp`) | a mark per build row, a local mark per probe row | build, probe | marks shared between workers, hash collisions | exactly the rows of the join are emitted |
| Result buffer (`include/sql/result_buffer.h`) | current batch, latch | `AllocOutputSlot`, `Finalize` | a slot is filled after the latch is released | every emitted row is delivered once |
| Aggregation hash table (`sql/aggregation_hash_table.cpp`) | index, entries, overflow partitions with heads and tails, partition tables | insert, grow, flush, `ProcessBatch`, transfer, partitioned scans | one `next` field serves three lists; memory moves between tables | one exact row per group |
| Query execution (`sql/codegen/compilation_context.cpp`, `pipeline_graph.cpp`, `executable_query.cpp`) | pipelines, their dependencies, query state | prepare translators, order pipelines, run, tear down | dependencies declared in hash map order; steps that throw | a pipeline runs after what it reads; the result is that of the plan |
| Pipelines, thread states (`sql/codegen/pipeline.cpp`, `sql/thread_state_container.cpp`) | parallelism, thread-local states, installed functions | init, run, finish, tear down | several operators decide the parallelism; states outlive a failed step | a state is created and destroyed by the functions of one pipeline |
| Table scan (`sql/table_vector_iterator.cpp`, `sql/column_vector_iterator.cpp`) | block range, position in the block | `Init`, `Advance`, `ParallelScan` | block and vector boundaries, ranges taken by any thread | every row is handed out once |
| Concise hash table (`include/sql/concise_hash_table.h`, `sql/join_hash_table.cpp`) | bitmap slots, prefix counts, tuple buffer | insert, build, lookup | overflow, in-place reordering of the buffer through a small workspace | the chain of a hash holds every tuple that has it, once |
| Sorter (`sql/sorter.cpp`) | tuple pointers, own and taken-over tuple memory | insertion with a top-k heap, serial and parallel sort, scan | splitters and work packages, concurrent merge tasks, ownership | the scan returns the sorted rows between offset and limit |
| Vector probe, join manager (`sql/join_hash_table_vector_probe.cpp`, `sql/join_manager.cpp`) | tuple id lists, current matches, one shared selection | `Init`, `Next`, `Reset` | resumable nested iteration | each combination of matches returned once |
| Filter manager (`sql/filter_manager.cpp`) | clauses, ranked terms | `RunFilters` | terms reordered while sampled | result independent of the order |
| VM module (`vm/module.cpp`) | function pointers, compiled module | compile, adaptive execution | detached compile thread | a compiled run reaches machine code only |
| TPL front end (`parsing/parser.cpp`, `sema/`, `ast/`) | tokens, scopes, types of expressions | parse, declare, look up, check, convert literals | precedence, scopes, struct layout, implicit conversions | the tree is the program as written; only well-typed programs pass |
| Bytecode generator (`vm/bytecode_generator.cpp`, `vm/bytecode_emitter.cpp`) | instruction stream, locals of the current function, labels, the innermost result scope | one visitor per expression and statement | destinations and addressing modes handed between visitors, jumps patched later | the code computes what the program means |
| Interpreter and JIT (`vm/vm.cpp`, `vm/llvm_engine.cpp`) | call stack, frames, instruction pointer; or blocks of LLVM code | execute an instruction, call, return; find blocks, fill them | the same bytecode executed in two ways, uninitialised frames | both return the meaning of the program |
| Everything else | scanner, builtin calls, vector operations, values, regions, CSV, catalog | | sequential, data-heavy | not modelled |

Interaction: a scan calls the generated row code of each operator of the
pipeline; a join or aggregation writes its thread-local table; when the scan
has joined its tasks, the pipeline's finish function merges (`MergeParallel`,
`TransferMemoryAndPartitions`), and the tear-down function clears the thread
states, which destroys the thread-local tables. The next pipeline reads the
global table and ends in the result buffer.

The generated code itself is a TPL program. The compiler (`compiler/compiler.cpp`)
parses and checks it, or only checks it when the translators built the tree,
and makes a bytecode module; functions of the module are interpreted, or run as
machine code that the JIT made of the same bytecode, and adaptive execution
changes from one to the other while a query runs.

`PROJECT.json` lists every component with its status, and every hazard at its
line with the properties that would catch it.

## Modules

* `EntrySet` - abstract: a set that grows one entry at a time and is emptied
  as a whole. What a hash table promises.
* `ChainingHashTable` - one action per access to shared memory in
  `InsertTagged`/`InsertUntagged`: `LoadHead` (plain read of the head), `Link`
  (`entry->next = ...`), `CasSucceed`, `CasFail` (contention or the weak
  exchange's spurious failure), `AddElementCount`. `SetSize` and the
  single-threaded `Insert` are one action each. A head is a record of a pointer
  and a set of tag bits. `UseTags` is the template parameter.
* `JoinHashTable` - extends `ChainingHashTable`; an entry stands for a piece of
  memory, so `Packed[e]`, the compressed copy of `e`, is another entry and `e`
  becomes freed. `Build` is one thread's; `MergeParallel` starts tasks that
  run `MergeIncomplete` = `InsertBatch` (the concurrent steps above), then the
  latch, then `emplace_back` in two steps (read of the end, construction).
  The estimate of the number of elements may be any of `Sizes`. The serial
  merge is the same steps with one worker at a time.
* `ResultBuffer` - slot allocation, slot write, final delivery. A slot whose
  batch was cleared is a dangling pointer: the write is lost or lands in the
  slot now at that position.
* `HashJoin` - extends `ResultBuffer`; the generated probe loop, with the left
  mark read and written in separate steps. The chain is any ordering of the
  build rows, in one bucket.
* `AggregationHashTable` - tables are records (index head, count, capacity,
  fill limit, entries, partition heads and tails); growing, flushing and
  splicing are operators on a memory `[t |-> tables, n |-> next]`, so that one
  handler that calls several of them is still one action. An aggregate is the
  number of times each input row was folded in. Thread-local tables are private
  until the scan has ended, so one row or one vector is one action; in the
  produce pipeline one partial aggregate is one action.
* `Sorter` - the generated build pipeline (`InsertIntoSorter`, with the heap of
  `AllocInputTupleTopKFinish`), `Sort`, and `SortParallel` in four parts: the
  serial fallback, the work up to the merge tasks (`SortParallel`: local sorts,
  splitters, `WorkPackages`), one `MergeStep` per tuple of a task, and
  `FinishSort` (ownership and the trim of `SortTopKParallel`). Library sorts
  and heaps may return any arrangement their contract allows, so ties are
  broken in every way. `heap_cmp` of the merge is not a strict order on equal
  keys; the heap algorithms of the standard library keep their result with it,
  and the model takes any range with a least first tuple.
* `ConciseHashTable` - the build of a concise table by one thread, one action per
  turn of a loop: `Insert` gives one more tuple its slot; `Fill` copies one entry
  into the reorder buffer, `PlaceMain` and `PlaceOverflow` store one buffered entry,
  `Placed` ends a round; `MainReordered` computes the places of the overflow
  chains and `OverflowReordered` links them (`ChainHookup`). `Store` is the
  three-way choice of the code: the copies it makes differ, what it leaves where
  does not. The bits the code keeps in the slot number are fields of their own.
* `FilterManager` - `RunFilters` over clauses; what a term does (`Apply`) is a
  parameter, because the terms of a join manager also initialise probes.
  `JoinManager` instantiates it twice, for the scan and for the joins. Ranks are
  timings, so a sampled clause ends in any order.
* `VectorProbe` - a probe is a record; `InnerTurn` and `SemiTurn` are one turn of
  the loops in `NextInnerJoin` and `NextSemiOrAntiJoin`, and say whether the loop
  ends with it. A tuple's current entry is the rest of its chain.
* `JoinManager` - composes the three: tables are built, vectors are read and
  filtered, and either joined or given to a semi or anti join probe
  (`ProbeSemiOrAnti`, then one `SemiOrAntiStep` per turn). A call of `Next` starts
  with `JoinNext`; each further step is one turn of the loop of the probe `at`:
  it keeps looking, calls or returns to the probe behind it (`Descend`), returns
  to or calls the one before it (`BackUp`), or ends the call (`ReturnTrue`,
  `ReturnFalse`). Which of the two recursive functions runs, `AdvanceInitial` or
  `Advance`, is `first_join`: they differ in who resets a probe and when.
* `PipelineGraph` - the pipelines of a query, what they depend on, and the order
  of execution: `GeneratePlan` yields one for every order in which dependencies
  may be declared.
* `CompilationContext` - from a plan to a pipeline graph: one `Prepare...` per
  translator constructor.
* `TableScan` - block ranges, the column iterator and the table iterator, and
  the ways `parallel_for` may cut a table.
* `ThreadStateContainer` - the installed functions and the state of every
  thread; `destroyed` remembers which pipeline created and which destroyed it.
* `AdaptiveModule` - the compile-once flag and the number of functions that
  have been replaced by machine code.
* `QueryExecution` - extends `PipelineGraph`, `TableScan`, `ThreadStateContainer`
  and `AdaptiveModule`; how plans become pipelines is the parameter `Prepared`,
  which the instance sets to `PreparePlan`. A client runs one query several
  times; the main thread calls the steps of the execution plan, threads take
  tasks of a parallel pipeline, one vector is one action, and a step may throw.
  A row is the set of base tuples it was made of, so that lost, repeated and
  mixed-up rows all show.
* `QueryResult` - the rows a plan describes, and `QueryExact`, which compares
  structures and output with them.
* `Ast` - syntax trees and types as records, with struct layout, representability
  of literals and the test for terminating statements.
* `Parser` - recursive descent over a sequence of tokens; a parsing function
  takes the parser (tokens, position, error flag, last node) and returns it as
  it is afterwards. `...After` is what a function does once a part of it has
  been parsed; `Sema` and `BytecodeGenerator` split their visitors the same way
  (`Check...`; `...Into`, `...From`).
* `Sema` - name resolution, of variables and types alike, types and implicit
  conversions, refusal of ill-formed programs.
* `BytecodeGenerator` - one operator per visitor, on a record of the code so
  far, the functions with their locals, the labels, and the destination of the
  current result scope. An instruction is a sequence of cells, one per operand.
* `LLVMEngine` - the bytecode iterator, `BuildSimpleCFG` and `DefineFunction`:
  what block every instruction is put into and which branches are added.
* `VM` - composes the four: a program goes through the phases of the compiler,
  `unit` is what the last phase made of it, then `main` is invoked and every
  instruction is one action. The bytecode is interpreted, or compiled to the
  JIT's blocks first; the actions are the same and differ where
  the code does: how a jump is followed, what a parameter is, where a result
  goes, how `Lea` computes an address and when a condition is true.
* `TplText` writes a tree as tokens and `TplMeaning` evaluates it without
  frames, offsets or temporaries. They model no code: they are the references
  the parser and the compiler are compared with.
* `MC...` - the instances; `ChainingHashTableProofs`, `JoinHashTableProofs`,
  `HashJoinProofs`, `SorterProofs`, `AggregationHashTableProofs`,
  `JoinManagerProofs` and `QueryExecutionProofs` - the theorems about the modules
  they are named after; `SequenceLemmas` - the facts about numbers, sequences and
  finite sets they share.

Definitions named after an operation with a suffix (`CasSucceedBlind`,
`EmplaceCopy`, ...) are faulty variants. `PROJECT.json` lists under `mutants`
which property each of them must violate; they are not part of any
specification.

## Runs

| Run | Shows |
|---|---|
| `chaining_hash_table` | chains complete and finite, tags sound, count exact, every batch finishes, refinement of `EntrySet` |
| `join_hash_table` | built table complete, owned, never dangling; iteration exact; merge ends |
| `join_hash_table_stats` | **violated**: merging the statistics of an empty table erases those of the others |
| `hash_join` | inner, right semi, right anti exact; left semi covers its result, at most once per worker; a serial query delivers what it emits; pipeline ends |
| `hash_join_left_semi` | **violated**: two workers emit one build row of a left semi join |
| `aggregation_hash_table` | no partial aggregate lost or duplicated, partitions complete, no freed memory read, result exact, produce pipeline ends |
| `aggregation_limit` | **violated**: a limit above a parallel aggregation sees no group |
| `sorter` | heaps hold the best rows with a worst one in front, merge tasks write disjoint stretches that cover the output, no scanned row is in freed memory, result equal to the reference answer, the query ends |
| `vectorized_join` | chains of a concise table exact after both reorderings; the adaptive filter equal to its predicate; every combination of matches of a three-way join returned once; semi and anti joins right for the selected tuples; the loop over `Next` ends |
| `query_execution` | pipelines run after what they read and once; thread states created and destroyed by one pipeline's functions, none left; every structure and the result exact; compiled runs reach machine code only; a started query ends |
| `tpl` | the parser recovers every program from its text; memory stays well typed, aligned and free of overlap; every block of compiled code is well formed and every branch leads to one; interpreter and JIT return what the program means whatever unwritten memory holds; ill-formed programs are refused, all others end |
| `tpl_scope` | **violated**: `sample_tpl/scope.tpl`, a shadowing variable is not found |

The violated runs each check one statement of the repository's own comments or
samples; `findings` in `PROJECT.json` quotes them.

### Bounds

* Chaining table: 2 threads, 3 entries, directories of 2 and 4 buckets
  (`kMinTableSize` is a constant, 1 here). All entries share a bucket of the
  small directory, two share a tag bit, and one entry moves to another bucket
  when the directory grows: contested exchanges, retries after another entry
  was published and tags of several bits all occur.
* Join table: 2 workers, 2 thread-local tables, 2 tuples, compressible and
  not; tables may be empty, and the latch is contested. Both the serial and the
  parallel merge occur because the estimate may lie below or at
  `kDefaultMinSizeForParallelMerge`.
* Hash join: 3 build rows in every order, 4 probe rows, 2 workers or 1. There
  are hash collisions without a match, a build row with three partners and a
  probe row with two, and batches of 2 slots, so several batches are delivered.
* Aggregation: 5 rows, 3 groups, 3 partitions (one stays empty), 2 workers,
  vectors of up to 2 rows. Tables start with 2 buckets and flush at 2 elements,
  so growth and repeated flushes happen. There is one key column.
* Sorter: 5 rows, two of them with equal keys, or none; 3 workers, so two merge
  packages run at once and some sorters have fewer rows than packages or none.
  The threshold is 4 instead of 10000 (1000 in debug builds), so that two or three filled sorters are
  merged in parallel, unless heaps of one row leave too few. Limits of 1 and of
  2 after an offset of 1 (heaps of 1 and 3 rows), no limit, and an offset beyond
  the last row.
* Vectorized join: three joins over vectors of three tuples, two vectors in a
  row. The first table takes every sequence of up to four tuples over keys that
  share a hash, a slot or a group, or nothing; the workspace holds two tuples,
  so it is refilled, displaces tuples and uses its spare place. Further tables
  are chaining and concise, empty ones and ones with several partners included.
  The filter has two clauses, one of two terms; sampling is chosen at every
  step. A second vector meets probes, selections and term orders the first
  left behind.
* Query execution: three threads, vectors of 2 tuples over blocks of 0 to 3, so
  there are empty blocks, blocks of exactly one vector and blocks of more; nine
  sessions that use every operator, with a pipeline of two dependencies one of
  which has its own, and up to three runs in different modes.
* TPL: 656 accepted and 27 ill-formed programs, each interpreted and
  compiled, with unwritten memory read as 0 or 1. `MCTpl` builds them from six
  integer and seven Boolean expressions (literals, variables, dereferences,
  fields, elements, calls): every pair of integers under `-`, every pair of the
  ten arithmetic operators nested both ways, every pair of Booleans under `and`
  and `or`, 8-bit literals and sums around the ends of the range, and puts them into returns, assignments to variables, fields,
  elements and through pointers, conditions, nested ifs and loops of all header
  forms. Functions with pointer, struct-pointer and array parameters are
  called, one of them recursively. A struct of fields of 1, 4 and 1 bytes needs
  every kind of padding. Integers stay below 2^15 (`kBits`).

### Fairness

The engine runs parallel work with TBB `parallel_for`/`parallel_for_each`,
which return only when all tasks have run: every thread that can take a step
takes one (weak fairness per worker), and the caller continues when they are
done (weak fairness of the finishing action). The retry loop of the exchange
and the spin latch need strong fairness: a thread that can win infinitely often
wins at last. The code has no queueing there, so this is an assumption on the
hardware, and a finite number of competing insertions makes it mild: a
thread's exchange can lose to another only as often as others have entries
left. What is really assumed is that spurious failures do not repeat for ever.

In `Sorter` weak fairness of the next-state relation is enough: no action of a
merge task disables another's, and every behaviour is finite.

In `JoinManager` one thread runs the loop `while (Next())` and nothing else can
stop it: weak fairness of `JoinStep`, a turn of a call of `Next`. In `QueryExecution` (`FairSpec`) the main thread's
steps, the compiling thread and every thread inside a task are weakly fair. The
main thread takes part in TBB's loops, so it also takes tasks itself, and no
other thread has to come: there is no fairness on a worker taking a task.
Exceptions (`Throw`) and new runs have no fairness.

In `VM` one thread compiles and runs the program and keeps running. `Fairness`
is weak fairness of the next-state relation, with "the run has ended" for "it is
not enabled", which the deadlock check shows to be the same: TLC would parse and
compile again to find out whether a compiler phase is enabled.

## Proofs

Each theorem holds for every value of the constants that meets the assumptions;
TLC evaluates the assumptions and checks the properties on the instances.

| Module | Theorems | What they establish |
|---|---|---|
| `ChainingHashTableProofs` | `TypeCorrect`, `ChainsAreComplete`, `ChainsEnd`, `TagsHideNothing`, `CountIsExact`, `TableImplementsEntrySet` | the lock-free table: types, `ChainComplete`, `ChainEnds`, `NoFalseNegative`, `CountSettles`, the refinement of `EntrySet` |
| `JoinHashTableProofs` | `NothingDangles`, `IterationIsExact`, `BuildIsComplete`, `MergeInsertsFreshEntries`, `JoinTableImplementsEntrySet` | the join table with its parallel merge: `NoDanglingEntry`, `IterationExact`, `BuildComplete`, the precondition of concurrent insertion, the same refinement |
| `HashJoinProofs` | `JoinIsExact`, `LeftSemiIsCovered`, `SerialDeliveryHolds` | the probe pipeline: `JoinExact`, `LeftSemiCovers`, `SerialDelivery` |
| `SorterProofs` | `TopKIsKept`, `PackagesPartitionHolds`, `NothingFreed`, `SortIsExact` | sorting: `TopKKept`, `PackagesPartitionOutput`, `NoFreedTuple`, `SortExact` |
| `AggregationHashTableProofs` | `NoPartialLostHolds`, `PartitionsCompleteHolds`, `NoFreedPartialHolds`, `AggregationExactHolds` | hash aggregation: `NoPartialLost`, `PartitionsComplete`, `NoFreedPartial`, `AggregationExact` |
| `JoinManagerProofs` | `FilterExactHolds`, `ConciseChainsExactHolds`, `SemiAntiExactHolds`, `MatchesExactHolds` | vectorized joins: `FilterExact`, `ConciseChainsExact`, `SemiAntiExact`, `MatchesExact` |
| `QueryExecutionProofs` | `DependenciesFirstHolds`, `ThreadStateLifecycleHolds`, `CompiledRunsMachineCodeHolds` | the execution of queries: `DependenciesFirst`, `ThreadStateLifecycle`, `CompiledRunsMachineCode` |

`InvariantHolds`, `JInvariantHolds`, `HInvariantHolds`, `SInvariantHolds`,
`AInvariantHolds` and `QInvariantHolds` show the inductive invariants the others follow from.

### Assumptions

* `ChainingHashTable`: the null pointer is no entry, entries are finitely many,
  hashes are naturals whose tag bit is one of the 16, `UseTags` is Boolean and
  every size yields a directory with at least one bucket.
* `JoinHashTable`: the global table is not one of the thread-local ones, null is
  no thread; compression writes each tuple to memory of its own
  (`MemoryAssumption`); a directory exists for every number of tuples the run
  may insert.
* `HashJoin`: build rows and workers are finitely many, null is no build row, the
  content of an unwritten slot is no output row, batches hold at least one row.
* `Sorter`: workers are finitely many and their sorters are not the global one,
  null is no row, keys are integers, inputs are finite sets of rows; a plan with
  a limit keeps at least one row (`PlansAssumption`).
* `AggregationHashTable`: rows and workers are finitely many, null is no row, the
  thread-local, the partition and the global tables are different objects, every
  row has a key of at least one column whose hash selects a partition, a
  directory has at least one slot and the flush threshold is not zero.
* `JoinManager`: there is at least one join, hashes are naturals, build tuples are
  different and carry the hash of their key, keys of a vector have a hash, clauses
  and terms are sequences; slots, groups of slots and buckets are at least one
  each, and a reorder buffer holds a tuple besides the spare one. Tables, vectors,
  hash and tag functions and the predicate are arbitrary.
* `QueryExecution`: the main thread is one of the threads, and the translators
  leave a tree of pipelines (`PreparedAssumption`): a breaker's build pipeline is
  opened by that breaker alone and after the pipeline it is registered with.
  That the operations of a pipeline graph keep this is proved (`FirstIsTree`,
  `OpenBuildKeepsTree`, `RegisterKeepsTree`); since `Prepare`, which calls them, is
  a recursion over plans, it is an assumption of the theorems, which TLC evaluates
  for the pipelines `PreparePlan` makes of the plans of the run. Plans, tables and
  modes of runs are arbitrary.

### The chaining table

`ChainComplete` is not inductive: it talks about walks, and says nothing of
what a thread in the middle of an exchange knows. The inductive invariant
`IInv` adds (1) a closed description of the chains: heads and links of
published entries stay among the published entries of the same bucket
(`HeadsInserted`, `LinksStayInBucket`), every set of published entries that
contains a head and is closed under `next` contains all of that bucket
(`WalkMeetsAll`), no set of them links only to itself (`ChainEnds`), and the
tag of a bucket covers its hashes (`TagsKept`); (2) that the batches in flight
are disjoint (`BatchesDisjoint`); (3) per thread (`ThreadInv`), that what it
has still to insert is not published, and that at the exchange its entry links
to the head it expects. `CountIsExact` adds an invariant of its own that
relates the count, the published entries and the batches in flight.
The only interesting action is the successful exchange: since the head
equals the expected one, the new entry links to the current head and becomes
the new head, so every chain grows by exactly that entry at its front. A walk
is defined as the least closed set, which turns "the entries met from the
head" into first-order facts without induction over paths.

### The join table

`JIInv` puts the memory of the table beside the chaining table's `IInv`: every
live tuple is in exactly one list, a buffer or one of `owned_` (`LiveIsListed`,
`ListsDisjoint`), lists that were moved are indexed, buffers that wait for a
task are not (`IndexInv`), each buffer is waiting, in the hands of one task or
empty (`MergeInv`), and a task between its insertion and its move under the
latch knows the length of `owned_` (`WorkerInv`). `BuildComplete` and
`NoDanglingEntry` say only what holds at the end; without these parts a merge
step could insert a tuple twice, which the chaining table does not survive, or
leave one behind. The steps of the chaining table are taken from its own proof:
`MergeInsertsFreshEntries` is the precondition that module assumes of its
callers. `ScanInv` ties what the iterator returned to the lists it left behind.

### The hash join

What is emitted is tied to the part of the chain each worker has gone past:
`InnerInv` says that a pair was emitted once if it joins and was compared, and
not at all otherwise; `RightInv` does the same for the mark that right semi and
right anti joins test after the loop; `MarkInv` says that a taken mark of a left
semi join means a row emitted or about to be. That a worker emits a build row
once (`LeftSemiCovers` bounds the number by that of the workers) needs to know
who emitted which row, which the state does not record: `LeftSemiInv` says that
some assignment of rows to workers, `Owners`, fits. `SerialDelivery` needs that
the one worker stores its row before it asks for another slot (`SerialInv`),
and counts rows in the concatenated batches.

### The sorter

`Best` says what a vector has to hold of a set of rows: as many as the plan
wants, none twice, and none that a row left out precedes. `KeptInv` claims it
of every sorter, and that a full one with a limit is a heap; the step that
replaces the top needs that the top is a worst row (`HeapTop`) and that
`HeapSiftDown` repairs a heap that is wrong at one position only
(`SiftDownRepairs`). `SortExact` speaks of the end only; `MergeInv` says what
the tasks maintain until then: the positions not yet written are the
packages' spans, which follow each other (`Places`); what is written is in order
and every row left in a package belongs between what is written before and
after its span (`InPlace`); and every row is written or left (`Covers`). For
the start of the merge, `CutsAre` shows that a cut at a splitter separates what
is before it from what is after it in all sorters at once, wherever the
splitters came from, and `PackagesPartition` that the sizes of the ranges add up
to the distance of the destinations. At the end `TrimBest` shows that the best
rows of the sorters together contain the best rows of the input. `SameRank`
compares the result with the reference answer, which orders rows with equal keys
in another way.

### Hash aggregation

One `next` field links an entry into an index, then an overflow partition, then
the index of a partition table. `IsChain(n, h, L)` says that the list from `h`
is the set `L`, by a rank that falls along the links; `WalkMeets` shows once
that the recursive `Walk` then meets every entry of `L` once and ends. Everything
else is about sets: pushing entries (`PushedChain`), flushing an index
(`FlushChain`), putting one list behind another (`ChainAppend`), removing the
first entry (`ChainRest`) are lemmas on chains, and what each operation of the
code does to a table is one lemma on memories (`GrowIs`, `FlushIs`,
`AllocRowIs`, `AllocBatchIs`, `TransferMemoryIs`, `TransferAllIs`).

The inductive invariant `AInv` says, besides types and which phase allows what:

* build (`BuildInv`): the lists of a table are chains that share no entry and
  together hold its entries, tails are ends (`Sound`), no entry is in two tables
  (`Apart`), and an index has one entry per key. `Grow` inserts all of
  `entries_` again, which would link flushed entries a second time and cut their
  partition lists. `RowFill` shows why this does not happen: a table that was
  flushed has a directory whose fill limit is at least the flush threshold, so
  it is flushed before it is full. (A row-wise build checks for growth first and
  then for the flush; a vectorized one grows only if it is serial.)
* transfer (`MovedInv`): the lists of the global table hold what it owns, by
  partition. The loop over the tables keeps `Transferred`, which says that the
  tables not reached yet still have their lists.
* produce (`ProduceInv`): a partition is waiting, with a complete list, or in the
  hands of one worker (`TaskInv`): what its iterator has still to come to is a
  chain that shares nothing with the index built so far. The iterator reads one
  entry ahead, and that is needed: linking an entry into the index overwrites the
  field the list is held by.
* counts (`CountInv`): among the partial aggregates that were not merged into
  another one (`Live`), each row is counted in exactly one, of its own group.
  Merging moves the counts of one live partial to another and ends the first.
* output (`OutInv`): returned once are exactly the entries of the tables that
  were scanned (`Returned`). At the end `Live` and `Returned` are the same
  (`AtEnd`), and keys of one group fall into one partition.

`NoPartialLostHolds` and `AggregationExactHolds` have the hypothesis `Exact`, that
the build is by rows or keys have one column: with more, `FixGrouping` may put a
row into a group it shares one column with (see Limits). The other parts of
`AInv`, and with them `PartitionsCompleteHolds` and `NoFreedPartialHolds`, hold
for any number of columns.

### The vectorized join

*The filter.* `ScanTermsExact` and `ScanSampledExact` show that a clause keeps the
tuples all its terms hold for, run in order or sampled, and that stopping at an
empty list does not matter; the clauses add up to the predicate. `OrdersInv` says
that re-ranking only permutes the terms of a clause.

*The concise table.* `ConciseInv` follows the tuples through the build. While they
are moved (`Reordering`) each is at one live place (`EachOnce`): in the buffer of
tuples, where entries tagged as buffered are dead, or in the reorder buffer, where
those already placed are. `MainMoves` says that a processed main entry stands at
the number of taken slots before its own, and that an entry goes to the overflow
area only after one with its slot has arrived: then the number of main places is
that of the slots, and the overflow area has room when it is needed (`MainRoom`, a
counting argument). `OverflowMoves` says that the overflow entries of each slot
fill a stretch of their own from its end, and `OverflowRoom` that the stretch has a
place left for every entry still to come. `StoreKeeps` is the step both moves share:
a displaced entry finds a place of the reorder buffer that is done with. Once all
is in place, `WalkExact` shows that the walk along the links meets the entries of
one slot, each once. A chaining table's bucket is exact by the way it is filled
(`BucketRight`), and the tag test hides no match (`ChainingRight`).

*The probe.* `Turned(p, k, v, S)` says that probe `k` has made `v` turns for the
tuples `S`: each stands at entry `v` of its chain, or its chain has ended before.
A turn takes it to `v + 1` (`StepTurned`, `CheckTurned`). The loop of a semi or anti
join has then seen exactly the tuples with their key in the first `v` entries
(`SemiInv`), and when no chain goes on these are the tuples with a partner
(`HavingPartners`), since a chain holds all entries that have the hash of the key.

*The multi-way join.* `MatchesExact` says nothing of how far the probes are, so it
is not inductive. `JoinInv` reads the probes as the wheels of an odometer: there
are turns `v`, one number for each probe, such that probe `k` has made `v[k]` of
them for the tuples whose entries `v` of the probes before it match (`Standing`,
`Matching`), while the probes behind the one that moves are initialised (`Fit`)
and, in the first round, at the start of their chains (`Waiting`); and the output
is exactly the matches whose entries the probes have passed (`OutputIs`, `Done`:
smaller than `v` in the order of the wheels). Moving a probe, going on to the next
with a reset, and going back from an exhausted one each keep this, and a match
that is passed is output at that moment and was not output before. When the first
probe is exhausted every match has been passed (`AllOutput`). Where the loop
starts, `JoinFilterExact` shows that the join manager's filter leaves the tuples
with a chain in every table (`Candidates`), in any order of its terms, sampled or
not, and either has initialised every probe for them or has left none: a filter
that stops early leaves probes of an earlier vector, which then are not used.

### The execution of a query

`DependenciesFirst` has two parts. The first is about the graph: `OrderOK` says
that an execution order runs no pipeline twice and each after those it depends
on, and `PlanIsOrdered` that `CollectTransitiveDependencies` returns such an
order, whatever order the dependencies were declared in. Dependencies are
younger than what depends on them, so the recursion ends (`CollectEnds`). The
collector does not mark the pipelines it has been to; that none is run twice
comes from the tree: the subtrees of two dependencies of one pipeline share
nothing (`Apart`: the oldest pipeline in both would have a parent in both), so
their orders can be put behind each other (`OrderedConcat`, `OrderedTree`).
The second part is about the main thread. A step is the init, run or tear-down
step of a pipeline by its remainder modulo three (`StepParts`), and `MainInv`
says that the completed pipelines are exactly those the order has before the
step.

`ThreadInv` says that every state was made by the functions that are installed,
that a thread in a task has such a state, and when there are no states: between
two pipelines, and after a run that did not fail. A step that throws skips the
tear-down and leaves states behind; they are destroyed with the context, by the
functions that are still installed. `ModuleInv` says that a module whose
compilation has ended has every function replaced, so that a run in compiled
mode, which waits for that, cannot reach bytecode.

### Induction and recursion

The prover cannot instantiate an induction rule with a predicate. The proofs use
two rules that take a set instead: a non-empty set of naturals has a least
element (`LeastNatural`, from the library's theorem on well-founded relations),
and a family of finite sets that is closed under adding an element
(`SetInduction`). With them the definitions by recursion that these models use
are shown to be what they should be: `FlattenSeq` (`FlattenRange`,
`FlattenAppend`), sums over functions, as the number of units below a function
(`SumIsUnits`, `SumAdd`), `Cuts` as an iteration (`Iteration`), and
`SiftDown` as a loop whose position grows (`TailRecursion`), `Walk` as the visits
of a chain (`WalkVisits`), `CreateMissingGroups` and `TransferAll` as loops with
an invariant (`CreateSteps`, `TransferSteps`), and
`CollectTransitiveDependencies` as a recursion over a tree (`CollectOrders`).

### Only model-checked

* Liveness, since fairness and `ENABLED` are outside the prover:
  `SortFinishes`, `ProduceFinishes`, `QueryFinishes` and the other temporal
  properties.
  (`AggregationHashTableProofs` shows what `ProduceFinishes` rests on, that no
  partition list is endless.)
* `QueryExact`: the rows of a plan and its pipelines are both defined by
  recursion over the plan, and the comparison is an induction over plans.
* `VM` with the modules it composes (the TPL compiler). They declare recursive
  operators, which take the SMT solver from the prover, as their sources are
  recursive over trees.

## Limits of the models

* Memory is sequentially consistent. The build and the probe of a table are
  separated by the join of a task group, which orders them; inside the build
  only heads, links and the count are shared.
* Hash values, payloads and predicates are abstract; hash collisions and
  shared tag bits are chosen in the instances.
* Prefetching, timers, statistics for logging and the chain-length statistics
  change nothing and are left out.
* `Repartition`, `BuildAllPartitions` and `MergePartitions` of the aggregation
  table are called by tests but by no generated code; they are not modelled.
* Order-by plans with a limit of zero, or with an offset and limit whose sum
  does not fit the 32 bits generated code gives it, are left out
  (`PlansAssumption`). A plan with an offset and no limit is modelled as a build
  without assertions runs it.
* Left outer and full outer joins mark their build rows, but this code emits
  nothing for unmatched ones; no property is stated for them.
* All vectors of a run of `JoinManager` have one size. After a vector of another
  size whose filter emptied early, a probe that was not initialised again has
  lists of the old size, which breaks the precondition of the list operations.
* `Next` of a join manager is not called again after it answered false, and a
  semi or anti join probe is asked once per vector, as its comment says. An
  anti join also returns tuples the filter had removed; the caller drops them.
* A reorder workspace of 16 KB holds at least two tuples
  (`MaxBufferedAssumption`).
* Queries: keys and predicates are left out of `QueryExecution` (joins match
  everything, every row is a group), since `HashJoin` and `AggregationHashTable`
  have them; output batches are in `ResultBuffer`. Plans with a limit above a
  hash aggregation (see `aggregation_limit`) and nested loops over sources that
  can only be read serially are left out. Every run has a context of its own
  ("Stores information for one execution of a plan",
  `include/sql/execution_context.h`), which the client destroys before the query.
* An exception leaves a step only where the interpreter runs it on the main
  thread: compiled frames and the trampolines that tasks are called through have
  no unwind information.
* Scans: NULL bitmaps and the projection of columns are not modelled.
* Output slots: with several workers the model of `ResultBuffer` reaches states
  in which a batch is delivered, and its memory reused, while another worker has
  yet to store the columns of its slot (`AllocOutputSlot`,
  `include/sql/result_buffer.h:46`, returns the slot after the latch is
  released). `SerialDelivery` therefore speaks of queries with one worker.
* Vectors with several key columns: `FixGrouping`
  (`sql/aggregation_hash_table.cpp:389`) is run per column, and a later column
  may move a row to a new group that differs from it in an earlier one, when
  both share a slot of the map. `FixGrouping` is modelled with any number of
  columns; the instance has one, and `AggregationExact` holds for that.
* TPL programs of the passing run leave out what the model shows the compiler to
  get wrong. A variable that shadows another is not found (`tpl_scope`). A
  logical operator evaluates its left operand into its destination, so
  `x = t and x` reads `x` too late (`vm/bytecode_generator.cpp:2225`). A variable
  of type `[*]T` initialised with the address of an array is never written
  (`:293`). `nil` as an argument or result leaves its temporary in address mode
  (`:2174`). Compiled code divides a constant offset into a `[*]T` by the
  element's size in bits (`vm/llvm_engine.cpp:890`), has no blocks for jumps in
  statements after a return (`:846`), and no cell for a parameter that is
  assigned to (`:359`). The analysis takes the name of a builtin type for a
  variable of that type (`sema/sema_expr.cpp:199`; `VisitIdentifier`), for which
  the generator has no local, and the name of a function for a value; neither is
  used as an expression in the programs.
* They also leave out what the language does not define or
  the code does not support: reads before a write, indexes out of bounds,
  division by zero, operands whose order of evaluation shows (`x + f(&x)`),
  comparison of two pointers, `(&s).n` (`vm/bytecode_generator.cpp:414`), unary
  `+` and `^` (parsed, and impossible to `sema/sema_expr.cpp:330`), structs as
  parameters or results, empty blocks, a statement that begins with `*` or `(`
  (taken for the continuation of the one before), and incomplete texts (the
  argument list at `parsing/parser.cpp:467` is then never ended). Integers are 8
  or 32 bits wide, and `& | ^` are applied to operands that are not negative.
* A store to a parameter of compiled code is modelled as a store to the
  address the value denotes; the code asserts, or makes invalid LLVM code.

## Not modelled

Most of the 65 000 lines of the repository are outside these models: the
scanner, the calls of builtin functions in the type checker and the generator
with their instructions and handlers (one case each, which forward their
operands to the engine), the DSL that builds TPL programs, the plan nodes and
expressions, the vector operations specialised per type, SQL values with their
arithmetic, dates and strings, number parsers, and the translation of types and
the optimisation in the JIT. They are sequential functions of large data with
hardly any state between calls; a model of them would repeat the code case by
case, and small instances would check little of what can be wrong there, which
is arithmetic and the coverage of cases. Where the modelled parts call them,
their contract is used: a term of a filter selects tuples, a comparison orders
rows, an aggregate counts what was folded in, a generated function does what its
translator appended. That is also why the map covers a small part of the lines.

Of the TPL language, floating point numbers, strings, maps, SQL values, other
integer widths, named structs, function literals inside expressions and for-in
loops are left out.

Also left out: the barrier (tests only), trampolines, the destruction of a
module while its compile thread runs, the vector iterators over hash tables and
sorters (they copy rows in the order of the row iterators), and the
partition-wise merge of two aggregation tables (`Repartition`,
`BuildAllPartitions`, `MergePartitions`), which no plan's code calls.

## Plan

Done: `EntrySet`; `ChainingHashTable`, `JoinHashTable`, `ResultBuffer`,
`HashJoin`, `Sorter`, `AggregationHashTable`, `PipelineGraph`,
`ThreadStateContainer`, `AdaptiveModule` and `QueryExecution`, with proofs;
`ConciseHashTable`, `FilterManager`, `VectorProbe`, `JoinManager`, `TableScan`,
`CompilationContext`, `QueryResult`, and the TPL compiler: `Ast`, `Parser`, `Sema`,
`BytecodeGenerator`, `LLVMEngine`, `VM`.

Left, in this order:

1. Proofs about `TableScan`, that a scan's vectors partition a block range, and
   about `FilterManager`.
2. The remaining operations of the aggregation table, if a plan comes to use
   them, and NULL bitmaps of scans.
3. SQL Booleans in `Sema` and the generator (conversions and three-valued
   tests), named structs, and the remaining integer widths.
