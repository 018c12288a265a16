--------------------------- MODULE JoinHashTable ---------------------------
(***************************************************************************)
(* The build side of a hash join.  Build tuples are appended to the tuple  *)
(* buffer of a join hash table: the buffer of the global table when one    *)
(* thread runs the pipeline, the buffer of a thread-local table otherwise. *)
(* Build() indexes the global buffer; MergeParallel() indexes all thread-  *)
(* local buffers in the global chaining table, by one thread or by many,   *)
(* and moves the buffers into owned_.  When the pipeline is torn down the  *)
(* thread-local tables, and whatever they still own, are destroyed.        *)
(*                                                                         *)
(* Entries stand for pieces of memory: compression copies every tuple to a *)
(* new, smaller entry and frees the old one, so the entry that is linked   *)
(* into a chain must be one that stays allocated.                          *)
(***************************************************************************)
EXTENDS ChainingHashTable, SequencesExt

(* Definitions such as EmplaceCopy are faulty variants of the               *)
(* operation their name starts with, kept to show that a property can fail. *)

CONSTANTS
  Tables,                     (* the thread-local join hash tables          *)
  Global,                     (* the table the query probes                 *)
  Raw,                        (* entries written by AllocInputTuple         *)
  Packed,                     (* the entry each raw entry is compressed to  *)
  Bits,                       (* the bits a raw entry needs, compressed     *)
  MaxPackedBits,              (* ShouldCompress accepts up to this many     *)
  kDefaultMinSizeForParallelMerge

VARIABLES
  phase,        (* "fill", "load" (Build), "merge" (MergeParallel), "built", *)
                (* then "ready" once the build pipeline was torn down       *)
  supported,    (* were analysis and compression passes provided?           *)
  buf,          (* entries_ of every table                                  *)
  unmerged,     (* thread-local tables no merge task has picked yet         *)
  use_serial_build,
  packed,       (* were the buffers compressed?                             *)
  stats,        (* the AnalysisStats that compression was planned with      *)
  mpc,          (* where each worker stands in MergeIncomplete              *)
  src,          (* the table each worker merges                             *)
  latch,        (* owned_latch_: its holder, or NULL                        *)
  end,          (* size of owned_ as read inside emplace_back               *)
  owned,        (* owned_                                                   *)
  freed,        (* memory that was given back                               *)
  iter,         (* JoinHashTableIterator: list index and rest of the list   *)
  alloc,        (* history: the entries AllocInputTuple handed out          *)
  visited       (* history: the rows the iterator returned                  *)

plan  == <<supported, use_serial_build, packed, stats>>
merge == <<mpc, src, latch, end>>
scan  == <<iter, visited>>
jht   == <<phase, plan, buf, unmerged, merge, owned, freed, scan, alloc>>
jvars == <<vars, jht>>

AllTables == Tables \cup {Global}

ASSUME TablesAssumption == Global \notin Tables /\ NULL \notin Threads

\* Compression writes each tuple to memory of its own.
ASSUME MemoryAssumption ==
  /\ Raw \subseteq Entries
  /\ Packed \in [Raw -> Entries \ Raw]
  /\ \A d, e \in Raw : Packed[d] = Packed[e] => d = e

\* SetSize finds a directory for as many tuples as there can be.
ASSUME BuildSizeAssumption ==
  \A n \in 0 .. Cardinality(Raw) : DirectorySize(n) \in Nat \ {0}

----------------------------------------------------------------------------
(* Compression.  A statistics structure is the sequence of the bit widths   *)
(* of the columns; one column is enough to tell whether tuples still fit.   *)

\* Merge resizes the receiver to the other's column count, then takes maxima.
Merge(a, b) ==
  [i \in 1 .. Len(b) |-> IF i <= Len(a) /\ a[i] > b[i] THEN a[i] ELSE b[i]]

\* A buffer without tuples never reaches the analysis pass: the default
\* structure, with no columns, is returned.
AnalyzeBufferedTuples(B) ==
  IF B = {} THEN <<>> ELSE <<Max({Bits[e] : e \in B})>>

\* parallel_reduce: a range of tables is folded from a default structure, or
\* split in two whose results are merged, left to right.
Reductions[s \in Seq(SUBSET Entries)] ==
  LET Fold[i \in 0 .. Len(s)] ==
        IF i = 0 THEN <<>> ELSE Merge(Fold[i - 1], AnalyzeBufferedTuples(s[i]))
  IN  {Fold[Len(s)]} \cup
      UNION {{Merge(l, r) : l \in Reductions[SubSeq(s, 1, k)],
                            r \in Reductions[SubSeq(s, k + 1, Len(s))]}
             : k \in 1 .. Len(s) - 1}

TotalNumBits(st) == IF st = <<>> THEN 0 ELSE st[1]

ShouldCompress(st) == TotalNumBits(st) <= MaxPackedBits

CompressBufferedTuples(B) == {Packed[e] : e \in B}

----------------------------------------------------------------------------
JInit ==
  /\ Init
  /\ phase = "fill" /\ supported \in BOOLEAN
  /\ buf = [s \in AllTables |-> {}]
  /\ use_serial_build = FALSE /\ packed = FALSE /\ stats = <<>>
  /\ unmerged = {}
  /\ mpc = [t \in Threads |-> "idle"] /\ src = [t \in Threads |-> NULL]
  /\ latch = NULL /\ end = [t \in Threads |-> 0]
  /\ owned = <<>> /\ freed = {} /\ alloc = {}
  /\ iter = [list |-> 0, rest |-> {}] /\ visited = {}

\* A pipeline fills either the global table or the thread-local ones.
AllocInputTuple(s, e) ==
  /\ phase = "fill"
  /\ IF s = Global THEN \A u \in Tables : buf[u] = {} ELSE buf[Global] = {}
  /\ e \in Raw \ alloc
  /\ alloc' = alloc \cup {e}
  /\ buf' = [buf EXCEPT ![s] = @ \cup {e}]
  /\ next' = [next EXCEPT ![e] = NULL]
  /\ UNCHANGED <<capacity, entries, num_elements, inserted, local,
                 phase, plan, unmerged, merge, owned, freed, scan>>

GetTupleCount ==
  IF owned # <<>>
  THEN LET Size[i \in 0 .. Len(owned)] ==
             IF i = 0 THEN 0 ELSE Size[i - 1] + Cardinality(owned[i])
       IN  Size[Len(owned)]
  ELSE Cardinality(buf[Global])

----------------------------------------------------------------------------
(* Build(): one thread compresses, sizes, and loads the global table *)

Build ==
  /\ phase = "fill" /\ \A s \in Tables : buf[s] = {}
  /\ LET st   == AnalyzeBufferedTuples(buf[Global])
         pack == supported /\ ShouldCompress(st)
     IN  /\ packed' = pack /\ stats' = st
         /\ buf' = IF pack THEN [buf EXCEPT ![Global] = CompressBufferedTuples(@)] ELSE buf
         /\ freed' = IF pack THEN freed \cup buf[Global] ELSE freed
  /\ SetSize(GetTupleCount)
  /\ phase' = "load"
  /\ UNCHANGED <<supported, use_serial_build, unmerged, merge, owned, scan, alloc>>

BuildInsert(e) ==
  /\ phase = "load" /\ e \in buf[Global]
  /\ Insert(e)
  /\ UNCHANGED jht

BuildDone ==
  /\ phase = "load" /\ buf[Global] \subseteq inserted
  /\ phase' = "built"
  /\ UNCHANGED <<vars, plan, buf, unmerged, merge, owned, freed, scan, alloc>>

----------------------------------------------------------------------------
(* MergeParallel() *)

\* Up to the point where the merge tasks start; order is the one in which the
\* thread-local tables are enumerated.  n is the cardinality
\* estimate of the merged HyperLogLog sketches: any number of Sizes.
MergeParallel(n, order) ==
  /\ phase = "fill" /\ buf[Global] = {}
  /\ SetSize(n)
  /\ \E st \in Reductions[[i \in DOMAIN order |-> buf[order[i]]]] :
       LET pack == supported /\ ShouldCompress(st)
       IN  /\ packed' = pack /\ stats' = st
           /\ buf' = IF pack
                     THEN [s \in AllTables |-> CompressBufferedTuples(buf[s])]
                     ELSE buf
           /\ freed' = IF pack THEN freed \cup UNION {buf[s] : s \in Tables} ELSE freed
  /\ unmerged' = Tables
  /\ use_serial_build' = (n < kDefaultMinSizeForParallelMerge)
  /\ phase' = "merge"
  /\ UNCHANGED <<supported, merge, owned, scan, alloc>>

\* A task of parallel_for_each, or the next turn of the serial loop, which has
\* one worker at a time (its plain insertion is an exchange nobody contests).
MergeIncomplete(t, s) ==
  /\ phase = "merge" /\ s \in unmerged /\ mpc[t] = "idle"
  /\ use_serial_build => \A u \in Threads : mpc[u] = "idle"
  /\ InsertBatchBegin(t, buf[s])
  /\ unmerged' = unmerged \ {s}
  /\ mpc' = [mpc EXCEPT ![t] = "insert"]
  /\ src' = [src EXCEPT ![t] = s]
  /\ UNCHANGED <<phase, plan, buf, latch, end, owned, freed, scan, alloc>>

MergeInsert(t) ==
  /\ mpc[t] = "insert"
  /\ InsertStep(t)
  /\ UNCHANGED jht

AcquireLatchNever(t) ==
  /\ mpc[t] = "insert" /\ pc[t] = "idle"
  /\ end' = [end EXCEPT ![t] = Len(owned)]
  /\ mpc' = [mpc EXCEPT ![t] = "emplace"]
  /\ UNCHANGED <<vars, phase, plan, buf, unmerged, src, latch, owned, freed, scan, alloc>>

\* ScopedSpinLatch, and the read of the vector's end inside emplace_back.
AcquireLatch(t) ==
  /\ mpc[t] = "insert" /\ pc[t] = "idle"
  /\ latch = NULL
  /\ latch' = t
  /\ end' = [end EXCEPT ![t] = Len(owned)]
  /\ mpc' = [mpc EXCEPT ![t] = "emplace"]
  /\ UNCHANGED <<vars, phase, plan, buf, unmerged, src, owned, freed, scan, alloc>>

\* owned_ with a buffer constructed at position n + 1.
Emplaced(n, B) == [i \in 1 .. n + 1 |-> IF i <= n THEN owned[i] ELSE B]

EmplaceCopy(t) ==
  /\ mpc[t] = "emplace"
  /\ owned' = Emplaced(end[t], buf[src[t]])
  /\ latch' = NULL
  /\ mpc' = [mpc EXCEPT ![t] = "idle"]
  /\ UNCHANGED <<vars, phase, plan, buf, unmerged, src, end, freed, scan, alloc>>

EmplaceKeepLatch(t) ==
  /\ mpc[t] = "emplace"
  /\ owned' = Emplaced(end[t], buf[src[t]])
  /\ buf' = [buf EXCEPT ![src[t]] = {}]
  /\ mpc' = [mpc EXCEPT ![t] = "idle"]
  /\ UNCHANGED <<vars, phase, plan, unmerged, src, latch, end, freed, scan, alloc>>

\* emplace_back(std::move(source->entries_)), then the latch is released.
Emplace(t) ==
  /\ mpc[t] = "emplace"
  /\ owned' = Emplaced(end[t], buf[src[t]])
  /\ buf' = [buf EXCEPT ![src[t]] = {}]
  /\ latch' = NULL
  /\ mpc' = [mpc EXCEPT ![t] = "idle"]
  /\ UNCHANGED <<vars, phase, plan, unmerged, src, end, freed, scan, alloc>>

MergeDone ==
  /\ phase = "merge" /\ unmerged = {} /\ \A t \in Threads : mpc[t] = "idle"
  /\ phase' = "built"
  /\ UNCHANGED <<vars, plan, buf, unmerged, merge, owned, freed, scan, alloc>>

\* Clearing the thread states destroys the thread-local tables.
TearDownPipeline ==
  /\ phase = "built"
  /\ freed' = freed \cup UNION {buf[s] : s \in Tables}
  /\ buf' = [s \in AllTables |-> IF s = Global THEN buf[s] ELSE {}]
  /\ phase' = "ready"
  /\ UNCHANGED <<vars, plan, unmerged, merge, owned, scan, alloc>>

----------------------------------------------------------------------------
(* JoinHashTableIterator: the rows of the table's own buffer, then those of *)
(* the owned lists, of which any may be empty                               *)

FindNextListNoSkip(it) ==
  IF it.rest # {} \/ it.list = Len(owned) THEN it
  ELSE [list |-> it.list + 1, rest |-> owned[it.list + 1]]

FindNextNonEmptyList(it) ==
  LET later == {k \in it.list + 1 .. Len(owned) : owned[k] # {}}
  IN  IF it.rest # {} THEN it
      ELSE IF later = {} THEN [list |-> Len(owned), rest |-> {}]
      ELSE [list |-> Min(later), rest |-> owned[Min(later)]]

IterBegin ==
  /\ phase = "ready" /\ phase' = "scan"
  /\ LET first == [list |-> 0, rest |-> buf[Global]]
     IN  iter' = IF owned # <<>> THEN FindNextNonEmptyList(first) ELSE first
  /\ UNCHANGED <<vars, plan, buf, unmerged, merge, owned, freed, visited, alloc>>

\* GetCurrentRow of some row of the current list, then Next.
IterNext(e) ==
  /\ phase = "scan" /\ e \in iter.rest
  /\ visited' = visited \cup {e}
  /\ iter' = FindNextNonEmptyList([iter EXCEPT !.rest = @ \ {e}])
  /\ UNCHANGED <<vars, phase, plan, buf, unmerged, merge, owned, freed, alloc>>

HasNext == iter.rest # {}

----------------------------------------------------------------------------
MergeStep(t) ==
  \/ \E s \in Tables : MergeIncomplete(t, s)
  \/ MergeInsert(t)
  \/ AcquireLatch(t)
  \/ Emplace(t)

Finished == phase = "scan" /\ ~HasNext /\ UNCHANGED jvars

JNext ==
  \/ \E s \in AllTables, e \in Raw : AllocInputTuple(s, e)
  \/ Build
  \/ \E e \in Entries : BuildInsert(e)
  \/ BuildDone
  \/ \E n \in Sizes, order \in SetToSeqs(Tables) : MergeParallel(n, order)
  \/ \E t \in Threads : MergeStep(t)
  \/ MergeDone
  \/ TearDownPipeline
  \/ IterBegin
  \/ \E e \in Entries : IterNext(e)
  \/ Finished

JSpec == JInit /\ [][JNext]_jvars

(* The task scheduler runs every merge task and the spin latch, which never *)
(* stays taken, is eventually won; exchanges do not fail for ever.          *)
JFairness ==
  /\ WF_jvars(MergeDone)
  /\ \A t \in Threads :
       /\ WF_jvars(MergeStep(t))
       /\ SF_jvars(AcquireLatch(t))
       /\ SF_jvars(CasSucceed(t) /\ UNCHANGED jht)

JFairSpec == JSpec /\ JFairness

----------------------------------------------------------------------------
\* Every entry in a buffer the global table owns.
Stored == buf[Global] \cup UNION {owned[i] : i \in DOMAIN owned}

Live == IF packed THEN CompressBufferedTuples(alloc) ELSE alloc

IsBuilt == phase \in {"built", "ready", "scan"}

(* A built table is complete, whichever way it was built: the chains hold   *)
(* exactly the live entry of every tuple that was handed out, the table     *)
(* owns the buffer of each, and both counts agree with them.                *)
BuildComplete ==
  IsBuilt =>
    /\ Reachable = Live /\ Stored = Live
    /\ GetTupleCount = Cardinality(alloc) /\ num_elements = Cardinality(alloc)

(* No chain and no list of the global table ever refers to memory that was  *)
(* freed by compression or by destroying the thread-local tables.           *)
NoDanglingEntry ==
  Reachable \cap freed = {} /\ Stored \cap freed = {}

(* The iterator returns every stored row exactly once, however many of the  *)
(* merged buffers were empty.                                               *)
IterationExact ==
  phase = "scan" =>
    /\ visited \cap iter.rest = {}
    /\ ~HasNext => visited = Stored

(* Compression keeps, for every column, the number of bits required by the  *)
(* values stored in it (join_hash_table.h, BitsForCol): no tuple needs more *)
(* bits than the compressed entries have.                                   *)
CompressedTuplesFit ==
  packed => \A e \in alloc : Bits[e] <= TotalNumBits(stats)

(* MergeParallel returns: every merge task gets through the exchanges and   *)
(* the latch.                                                               *)
MergeFinishes == phase = "merge" ~> phase = "built"
=============================================================================
