------------------------ MODULE JoinHashTableProofs ------------------------
(***************************************************************************)
(* Proofs, for any number of workers, thread-local tables and tuples, that *)
(* a built join hash table is complete, that it refers to no freed memory, *)
(* and that its iterator returns every stored row once.                    *)
(*                                                                         *)
(* The argument: every live entry is at all times in exactly one list (the *)
(* buffer of one table, or one list of owned_), the lists already moved    *)
(* and those being inserted are indexed by the chains, and memory is freed *)
(* only after what it held was copied.                                     *)
(***************************************************************************)
EXTENDS JoinHashTable, ChainingHashTableProofs, SequenceLemmas

JTypeOK ==
  /\ phase \in {"fill", "load", "merge", "built", "ready", "scan"}
  /\ buf \in [AllTables -> SUBSET Entries]
  /\ unmerged \subseteq Tables
  /\ packed \in BOOLEAN
  /\ mpc \in [Threads -> {"idle", "insert", "emplace"}]
  /\ src \in [Threads -> Tables \cup {NULL}]
  /\ latch \in Threads \cup {NULL}
  /\ end \in [Threads -> Nat]
  /\ owned \in Seq(SUBSET Entries)
  /\ iter \in [list : Nat, rest : SUBSET Entries]
  /\ alloc \subseteq Raw
  /\ visited \subseteq Entries

\* Every live entry is in one list, and in one only.
LiveIsListed ==
  \A e \in Entries :
    e \in Live <=> \/ \E s \in AllTables : e \in buf[s]
                   \/ \E i \in DOMAIN owned : e \in owned[i]

ListsDisjoint ==
  /\ \A s, u \in AllTables : s # u => buf[s] \cap buf[u] = {}
  /\ \A i, j \in DOMAIN owned : i # j => owned[i] \cap owned[j] = {}
  /\ \A s \in AllTables, i \in DOMAIN owned : buf[s] \cap owned[i] = {}

\* Memory is given back by compression only: destroyed tables are empty.
FreedIsRaw == freed = IF packed THEN alloc ELSE {}

\* Which of the two ways of building the table is under way.
PhaseInv ==
  /\ phase = "fill" => ~packed /\ owned = <<>> /\ inserted = {}
  /\ phase # "merge" => \A t \in Threads : mpc[t] = "idle"
  /\ phase = "load" => owned = <<>> /\ \A s \in Tables : buf[s] = {}
  /\ phase = "merge" => buf[Global] = {}
  /\ phase \in {"built", "ready", "scan"} =>
       (\A s \in Tables : buf[s] = {}) /\ inserted = Live
  /\ owned # <<>> => buf[Global] = {}

\* What is indexed: only live entries, and every list that was moved.
IndexInv ==
  /\ inserted \subseteq Live
  /\ \A i \in DOMAIN owned : owned[i] \subseteq inserted
  /\ \A s \in unmerged : phase = "merge" => buf[s] \cap Taken = {}

\* A thread-local buffer waits for a merge task, is in one, or was moved.
MergeInv ==
  /\ phase = "merge" =>
       \A s \in Tables \ unmerged :
         buf[s] = {} \/ \E t \in Threads : mpc[t] # "idle" /\ src[t] = s
  /\ \A t, u \in Threads :
       t # u /\ mpc[t] # "idle" /\ mpc[u] # "idle" => src[t] # src[u]

WorkerInv(t) ==
  /\ mpc[t] # "insert" => pc[t] = "idle"
  /\ mpc[t] # "idle" =>
       /\ src[t] \in Tables \ unmerged
       /\ batch[t] \subseteq buf[src[t]] /\ buf[src[t]] \subseteq inserted \cup batch[t]
  /\ mpc[t] = "emplace" => latch = t /\ end[t] = Len(owned)

\* The iterator: list 0 is the table's own buffer, the others are owned_.
ListAt(k) == IF k = 0 THEN buf[Global] ELSE owned[k]

\* The rows an iterator has left behind.
Passed(it) ==
  {e \in Entries : e \notin it.rest /\ \E k \in 0 .. it.list : e \in ListAt(k)}

ScanInv ==
  /\ phase # "scan" => visited = {}
  /\ phase = "scan" =>
       /\ iter.list \in 0 .. Len(owned)
       /\ iter.rest \subseteq ListAt(iter.list)
       /\ iter.rest = {} => iter.list = Len(owned)
       /\ visited = Passed(iter)

JInv ==
  /\ JTypeOK /\ LiveIsListed /\ ListsDisjoint /\ FreedIsRaw /\ PhaseInv
  /\ IndexInv /\ MergeInv /\ (\A t \in Threads : WorkerInv(t)) /\ ScanInv

JIInv == IInv /\ CountInv /\ JInv

----------------------------------------------------------------------------
(* A worker that merges nothing inserts nothing. *)
LEMMA IdleWorker ==
  ASSUME JIInv, NEW t \in Threads, mpc[t] = "idle"
  PROVE  pc[t] = "idle" /\ batch[t] = {}
  BY DEF JIInv, JInv, WorkerInv, IInv, ThreadInv

(* Filling happens before anything was compressed, moved or indexed. *)
LEMMA Filling ==
  ASSUME JIInv, phase = "fill"
  PROVE  /\ AllIdle /\ inserted = {} /\ owned = <<>> /\ ~packed /\ freed = {} /\ Live = alloc
         /\ \A t \in Threads : mpc[t] = "idle" /\ batch[t] = {}
         /\ \A s \in AllTables : buf[s] \subseteq alloc
         /\ \A e \in alloc : \E s \in AllTables : e \in buf[s]
<1>1. \A t \in Threads : mpc[t] = "idle"
  BY DEF JIInv, JInv, PhaseInv
<1>2. AllIdle /\ \A t \in Threads : batch[t] = {}
  BY <1>1, IdleWorker DEF AllIdle
<1>3. owned = <<>> /\ inserted = {} /\ ~packed /\ freed = {} /\ Live = alloc
  BY DEF JIInv, JInv, PhaseInv, FreedIsRaw, Live
<1>4. alloc \subseteq Entries /\ \A s \in AllTables : buf[s] \subseteq Entries
  BY MemoryAssumption DEF JIInv, JInv, JTypeOK
<1>5. DOMAIN owned = {}
  BY <1>3
<1>6. \A e \in Entries : e \in alloc <=> \E s \in AllTables : e \in buf[s]
  BY <1>3, <1>5 DEF JIInv, JInv, LiveIsListed
<1>7. QED
  BY <1>1, <1>2, <1>3, <1>4, <1>6

(* The size Build asks for is the number of tuples in the global buffer. *)
LEMMA BuildSize ==
  ASSUME JIInv, phase = "fill"
  PROVE  DirectorySize(GetTupleCount) \in Nat \ {0}
<1>1. GetTupleCount = Cardinality(buf[Global])
  BY Filling DEF GetTupleCount
<1>2. buf[Global] \in SUBSET Raw /\ IsFiniteSet(Raw)
  BY Filling, MemoryAssumption, EntriesAssumption, FS_Subset DEF JIInv, JInv, JTypeOK, AllTables
<1>3. Cardinality(buf[Global]) \in 0 .. Cardinality(Raw)
  BY <1>2, FS_Subset, FS_CardinalityType
<1>4. QED
  BY <1>1, <1>3, BuildSizeAssumption

(* Whatever the join table does is, for the chaining table inside it, one  *)
(* of that table's own steps, a resize, or the initialisation of an entry  *)
(* no chain refers to: the invariants of the chains and of the element     *)
(* count carry over.                                                       *)
LEMMA ChainStep ==
  ASSUME JIInv, [JNext]_jvars
  PROVE  IInv' /\ CountInv'
<1>0. IInv /\ CountInv
  BY DEF JIInv
<1>1. ASSUME [Next]_vars PROVE IInv' /\ CountInv'
  BY <1>0, <1>1, NextInv, NextCount
<1>2. ASSUME NEW s \in AllTables, NEW e \in Raw, AllocInputTuple(s, e)
      PROVE  IInv' /\ CountInv'
  <2>1. /\ next' = [next EXCEPT ![e] = NULL] /\ phase = "fill"
        /\ UNCHANGED <<capacity, entries, num_elements, inserted, pc, batch, todo, cur, old_entry>>
    BY <1>2 DEF AllocInputTuple, local
  <2>2. inserted = {} /\ AllIdle /\ e \in Entries
    BY <2>1, Filling, MemoryAssumption
  <2>3. TypeOK'
    BY <1>0, <2>1, <2>2 DEF IInv, TypeOK
  <2>4. ChainInv'
    BY <1>0, <2>1, <2>2, ChainFrame DEF IInv
  <2>5. BatchesDisjoint' /\ \A t \in Threads : ThreadInv(t)'
    BY <1>0, <2>1, <2>2 DEF IInv, BatchesDisjoint, ThreadInv, AllIdle
  <2>6. CountInv'
    BY <1>0, <2>1, <2>2 DEF CountInv, InFlight, BatchProgress
  <2>7. QED
    BY <2>3, <2>4, <2>5, <2>6 DEF IInv
<1>3. CASE Build
  BY <1>0, <1>3, BuildSize, SetSizeInv, SetSizeCount DEF Build
<1>4. ASSUME NEW e \in Entries, BuildInsert(e) PROVE [Next]_vars
  BY <1>4 DEF BuildInsert, Next
<1>5. ASSUME NEW n \in Sizes, NEW order, MergeParallel(n, order) PROVE [Next]_vars
  BY <1>5 DEF MergeParallel, Next
<1>6. ASSUME NEW t \in Threads, MergeStep(t) PROVE [Next]_vars
  <2>1. ASSUME NEW s \in Tables, MergeIncomplete(t, s) PROVE [Next]_vars
    <3>1. buf[s] \in SUBSET Entries
      BY DEF JIInv, JInv, JTypeOK, AllTables
    <3>2. QED
      BY <2>1, <3>1 DEF MergeIncomplete, Next
  <2>2. CASE MergeInsert(t)
    BY <2>2 DEF MergeInsert, Next
  <2>3. CASE AcquireLatch(t) \/ Emplace(t)
    BY <2>3 DEF AcquireLatch, Emplace
  <2>4. QED
    BY <1>6, <2>1, <2>2, <2>3 DEF MergeStep
<1>7. CASE BuildDone \/ MergeDone \/ TearDownPipeline \/ IterBegin
  BY <1>1, <1>7 DEF BuildDone, MergeDone, TearDownPipeline, IterBegin
<1>8. ASSUME NEW e \in Entries, IterNext(e) PROVE [Next]_vars
  BY <1>8 DEF IterNext
<1>9. CASE Finished \/ UNCHANGED jvars
  BY <1>1, <1>9 DEF Finished, jvars
<1>10. QED
  BY <1>1, <1>2, <1>3, <1>4, <1>5, <1>6, <1>7, <1>8, <1>9 DEF JNext

----------------------------------------------------------------------------
(* AllocInputTuple appends a new entry to one buffer. *)
LEMMA AllocStep ==
  ASSUME JIInv, NEW s \in AllTables, NEW e \in Raw, AllocInputTuple(s, e)
  PROVE  JInv'
<1> USE DEF JIInv, JInv
<1>1. /\ phase = "fill" /\ e \notin alloc /\ alloc' = alloc \cup {e}
      /\ buf' = [buf EXCEPT ![s] = @ \cup {e}]
      /\ UNCHANGED <<inserted, pc, batch, phase, packed, unmerged, mpc, src, latch, end,
                     owned, freed, iter, visited>>
  BY DEF AllocInputTuple, local, plan, merge, scan
<1>2. e \in Entries
  BY MemoryAssumption
<1>3. JTypeOK'
  BY <1>1, <1>2 DEF JTypeOK
<1>4. /\ buf'[s] = buf[s] \cup {e}
      /\ \A u \in AllTables : u # s => buf'[u] = buf[u]
  BY <1>1 DEF JTypeOK
<1>5. /\ owned = <<>> /\ Live = alloc /\ ~packed /\ inserted = {} /\ freed = {}
      /\ \A t \in Threads : mpc[t] = "idle" /\ batch[t] = {}
      /\ \A u \in AllTables : e \notin buf[u]
  BY <1>1, Filling
<1>6. Live' = Live \cup {e} /\ DOMAIN owned = {} /\ owned' = owned
  BY <1>1, <1>5 DEF Live
<1>7. LiveIsListed'
  BY <1>1, <1>4, <1>6 DEF LiveIsListed
<1>8. ListsDisjoint'
  BY <1>4, <1>5, <1>6 DEF ListsDisjoint
<1>9. FreedIsRaw' /\ PhaseInv'
  BY <1>1, <1>5 DEF FreedIsRaw, PhaseInv
<1>10. IndexInv'
  BY <1>1, <1>5, <1>6 DEF IndexInv
<1>11. MergeInv' /\ ScanInv' /\ \A t \in Threads : WorkerInv(t)'
  BY <1>1, <1>5 DEF MergeInv, ScanInv, WorkerInv
<1>12. QED
  BY <1>3, <1>7, <1>8, <1>9, <1>10, <1>11

(* Compressing disjoint buffers gives disjoint buffers of live entries, none *)
(* of them in the memory that was given back.                               *)
LEMMA CompressFacts ==
  ASSUME NEW B \in SUBSET Raw, NEW C \in SUBSET Raw
  PROVE  /\ CompressBufferedTuples(B) \subseteq Entries
         /\ CompressBufferedTuples(B) \cap Raw = {}
         /\ B \cap C = {} => CompressBufferedTuples(B) \cap CompressBufferedTuples(C) = {}
  BY MemoryAssumption DEF CompressBufferedTuples

(* The state in which the index is about to be built: everything that was   *)
(* allocated is in some buffer, as it was or compressed, and nothing is     *)
(* indexed or moved.                                                        *)
LEMMA PlanStep ==
  ASSUME JIInv, phase = "fill", NEW pack \in BOOLEAN,
         packed' = pack, alloc' = alloc, owned' = owned, inserted' = {},
         buf' \in [AllTables -> SUBSET Entries],
         \A s \in AllTables : buf'[s] = IF pack THEN CompressBufferedTuples(buf[s]) ELSE buf[s],
         freed' = IF pack THEN alloc ELSE {}
  PROVE  LiveIsListed' /\ ListsDisjoint' /\ FreedIsRaw'
<1>1. /\ owned = <<>> /\ alloc \subseteq Raw /\ alloc \subseteq Entries
      /\ \A s \in AllTables : buf[s] \subseteq alloc
      /\ \A e \in alloc : \E s \in AllTables : e \in buf[s]
  BY Filling, MemoryAssumption DEF JIInv, JInv, JTypeOK
<1>2. DOMAIN owned' = {}
  BY <1>1
<1>3. FreedIsRaw'
  BY DEF FreedIsRaw
<1>4. \A s, u \in AllTables : s # u => buf[s] \cap buf[u] = {}
  BY DEF JIInv, JInv, ListsDisjoint
<1>5. \A s, u \in AllTables : s # u => buf'[s] \cap buf'[u] = {}
  BY <1>1, <1>4, CompressFacts
<1>6. ListsDisjoint'
  BY <1>2, <1>5 DEF ListsDisjoint
<1>7. \A e : e \in Live' <=> \E s \in AllTables : e \in buf'[s]
  BY <1>1 DEF Live, CompressBufferedTuples
<1>8. LiveIsListed'
  BY <1>2, <1>7 DEF LiveIsListed
<1>9. QED
  BY <1>3, <1>6, <1>8

(* Build() up to the loop that fills the chains. *)
LEMMA BuildStep ==
  ASSUME JIInv, Build
  PROVE  JInv'
<1> USE DEF JIInv, JInv
<1> DEFINE st   == AnalyzeBufferedTuples(buf[Global])
           pack == supported /\ ShouldCompress(st)
<1>1. /\ phase = "fill" /\ (\A s \in Tables : buf[s] = {}) /\ phase' = "load"
      /\ packed' = pack
      /\ buf' = IF pack THEN [buf EXCEPT ![Global] = CompressBufferedTuples(@)] ELSE buf
      /\ freed' = IF pack THEN freed \cup buf[Global] ELSE freed
      /\ inserted' = {}
      /\ UNCHANGED <<pc, batch, unmerged, mpc, src, latch, end, owned, iter, alloc, visited>>
  BY DEF Build, SetSize, local, merge, scan
<1>2. pack \in BOOLEAN
  OBVIOUS
<1> HIDE DEF pack, st
<1>3. /\ owned = <<>> /\ freed = {} /\ \A t \in Threads : mpc[t] = "idle" /\ batch[t] = {}
      /\ alloc \subseteq Raw /\ \A e \in alloc : \E s \in AllTables : e \in buf[s]
      /\ \A s \in AllTables : buf[s] \subseteq alloc
  BY <1>1, Filling DEF JTypeOK
<1>4. buf[Global] = alloc
  BY <1>1, <1>3 DEF AllTables
<1>5. CompressBufferedTuples(buf[Global]) \subseteq Entries
  BY <1>3, <1>4, CompressFacts
<1>6. CompressBufferedTuples({}) = {}
  BY DEF CompressBufferedTuples
<1>7. buf' \in [AllTables -> SUBSET Entries]
  BY <1>1, <1>5 DEF JTypeOK
<1>8. \A s \in AllTables : buf'[s] = IF pack THEN CompressBufferedTuples(buf[s]) ELSE buf[s]
  BY <1>1, <1>6, TablesAssumption DEF AllTables, JTypeOK
<1>9. freed' = IF pack THEN alloc ELSE {}
  BY <1>1, <1>3, <1>4
<1>10. LiveIsListed' /\ ListsDisjoint' /\ FreedIsRaw'
  BY <1>1, <1>2, <1>7, <1>8, <1>9, PlanStep
<1>11. JTypeOK'
  BY <1>1, <1>2, <1>7 DEF JTypeOK
<1>12. \A s \in Tables : buf'[s] = {}
  BY <1>1, <1>6, <1>8 DEF AllTables
<1>13. PhaseInv'
  BY <1>1, <1>3, <1>12 DEF PhaseInv
<1>14. DOMAIN owned' = {}
  BY <1>1, <1>3
<1>15. IndexInv'
  BY <1>1, <1>14 DEF IndexInv
<1>16. MergeInv' /\ ScanInv' /\ \A t \in Threads : WorkerInv(t)'
  BY <1>1, <1>3 DEF MergeInv, ScanInv, WorkerInv
<1>17. QED
  BY <1>10, <1>11, <1>13, <1>15, <1>16

(* Every tuple of the global buffer that Build() links is live. *)
LEMMA BuildInsertStep ==
  ASSUME JIInv, NEW e \in Entries, BuildInsert(e)
  PROVE  JInv'
<1> USE DEF JIInv, JInv
<1>1. /\ phase = "load" /\ e \in buf[Global] /\ inserted' = inserted \cup {e}
      /\ UNCHANGED <<pc, batch, phase, packed, buf, unmerged, mpc, src, latch, end, owned,
                     freed, iter, alloc, visited>>
  BY DEF BuildInsert, Insert, local, jht, plan, merge, scan
<1>2. JTypeOK' /\ ListsDisjoint' /\ FreedIsRaw' /\ LiveIsListed' /\ Live' = Live
  BY <1>1 DEF JTypeOK, ListsDisjoint, FreedIsRaw, LiveIsListed, Live
<1>3. e \in Live
  BY <1>1 DEF LiveIsListed, AllTables
<1>4. PhaseInv' /\ MergeInv' /\ ScanInv'
  BY <1>1 DEF PhaseInv, MergeInv, ScanInv, ListAt
<1>5. IndexInv'
  BY <1>1, <1>2, <1>3 DEF IndexInv
<1>6. \A t \in Threads : WorkerInv(t)'
  BY <1>1 DEF WorkerInv
<1>7. QED
  BY <1>2, <1>4, <1>5, <1>6

(* When the loop of Build() ends, the chains hold what is live. *)
LEMMA BuildDoneStep ==
  ASSUME JIInv, BuildDone
  PROVE  JInv'
<1> USE DEF JIInv, JInv
<1>1. /\ phase = "load" /\ buf[Global] \subseteq inserted /\ phase' = "built"
      /\ UNCHANGED <<inserted, pc, batch, packed, buf, unmerged, mpc, src, latch, end, owned,
                     freed, iter, alloc, visited>>
  BY DEF BuildDone, vars, table, local, plan, merge, scan
<1>2. JTypeOK' /\ ListsDisjoint' /\ FreedIsRaw' /\ LiveIsListed' /\ Live' = Live
  BY <1>1 DEF JTypeOK, ListsDisjoint, FreedIsRaw, LiveIsListed, Live
<1>3. owned = <<>> /\ DOMAIN owned = {} /\ \A s \in Tables : buf[s] = {}
  BY <1>1 DEF PhaseInv
<1>4. Live \subseteq Entries
  BY MemoryAssumption DEF Live, CompressBufferedTuples, JTypeOK
<1>5. inserted = Live
  BY <1>1, <1>3, <1>4 DEF LiveIsListed, IndexInv, AllTables
<1>6. PhaseInv'
  BY <1>1, <1>2, <1>3, <1>5 DEF PhaseInv
<1>7. IndexInv' /\ MergeInv' /\ ScanInv' /\ \A t \in Threads : WorkerInv(t)'
  BY <1>1, <1>2 DEF IndexInv, MergeInv, ScanInv, WorkerInv, ListAt
<1>8. QED
  BY <1>2, <1>6, <1>7

(* MergeParallel() up to the start of the merge tasks. *)
LEMMA MergeParallelStep ==
  ASSUME JIInv, NEW n \in Sizes, NEW order, MergeParallel(n, order)
  PROVE  JInv'
<1> USE DEF JIInv, JInv
<1>1. /\ phase = "fill" /\ buf[Global] = {} /\ phase' = "merge" /\ unmerged' = Tables
      /\ inserted' = {}
      /\ UNCHANGED <<pc, batch, mpc, src, latch, end, owned, iter, alloc, visited>>
  BY DEF MergeParallel, SetSize, local, merge, scan
<1>2. PICK st : /\ packed' = (supported /\ ShouldCompress(st))
                /\ buf' = IF supported /\ ShouldCompress(st)
                          THEN [s \in AllTables |-> CompressBufferedTuples(buf[s])] ELSE buf
                /\ freed' = IF supported /\ ShouldCompress(st)
                            THEN freed \cup UNION {buf[s] : s \in Tables} ELSE freed
  BY DEF MergeParallel
<1> DEFINE pack == supported /\ ShouldCompress(st)
<1>3. pack \in BOOLEAN /\ packed' = pack
  BY <1>2
<1>4. /\ buf' = IF pack THEN [s \in AllTables |-> CompressBufferedTuples(buf[s])] ELSE buf
      /\ freed' = IF pack THEN freed \cup UNION {buf[s] : s \in Tables} ELSE freed
  BY <1>2
<1> HIDE DEF pack
<1>5. /\ owned = <<>> /\ freed = {} /\ \A t \in Threads : mpc[t] = "idle" /\ batch[t] = {}
      /\ alloc \subseteq Raw /\ \A e \in alloc : \E s \in AllTables : e \in buf[s]
      /\ \A s \in AllTables : buf[s] \subseteq alloc
  BY <1>1, Filling DEF JTypeOK
<1>6. UNION {buf[s] : s \in Tables} = alloc
  BY <1>1, <1>5 DEF AllTables
<1>7. \A s \in AllTables : CompressBufferedTuples(buf[s]) \subseteq Entries
  BY <1>5, CompressFacts
<1>8. buf' \in [AllTables -> SUBSET Entries]
  BY <1>4, <1>7 DEF JTypeOK
<1>9. \A s \in AllTables : buf'[s] = IF pack THEN CompressBufferedTuples(buf[s]) ELSE buf[s]
  BY <1>4
<1>10. freed' = IF pack THEN alloc ELSE {}
  BY <1>4, <1>5, <1>6
<1>11. LiveIsListed' /\ ListsDisjoint' /\ FreedIsRaw'
  BY <1>1, <1>3, <1>8, <1>9, <1>10, PlanStep
<1>12. JTypeOK'
  BY <1>1, <1>3, <1>8 DEF JTypeOK
<1>13. CompressBufferedTuples({}) = {}
  BY DEF CompressBufferedTuples
<1>14. buf'[Global] = {}
  BY <1>1, <1>9, <1>13 DEF AllTables
<1>15. PhaseInv'
  BY <1>1, <1>5, <1>14 DEF PhaseInv
<1>16. DOMAIN owned' = {} /\ Taken' = {}
  BY <1>1, <1>5 DEF Taken
<1>17. IndexInv'
  BY <1>1, <1>16 DEF IndexInv
<1>18. MergeInv' /\ ScanInv' /\ \A t \in Threads : WorkerInv(t)'
  BY <1>1, <1>5 DEF MergeInv, ScanInv, WorkerInv
<1>19. QED
  BY <1>11, <1>12, <1>15, <1>17, <1>18

(* A merge task picks a table nobody else has picked. *)
LEMMA MergeIncompleteStep ==
  ASSUME JIInv, NEW t \in Threads, NEW s \in Tables, MergeIncomplete(t, s)
  PROVE  JInv'
<1> USE DEF JIInv, JInv
<1>1. /\ phase = "merge" /\ s \in unmerged /\ mpc[t] = "idle"
      /\ pc' = [pc EXCEPT ![t] = IF buf[s] = {} THEN "count" ELSE "load"]
      /\ batch' = [batch EXCEPT ![t] = buf[s]]
      /\ unmerged' = unmerged \ {s}
      /\ mpc' = [mpc EXCEPT ![t] = "insert"] /\ src' = [src EXCEPT ![t] = s]
      /\ UNCHANGED <<inserted, phase, packed, buf, latch, end, owned, freed, iter, alloc, visited>>
  BY DEF MergeIncomplete, InsertBatchBegin, table, plan, scan
<1>2. JTypeOK' /\ ListsDisjoint' /\ FreedIsRaw' /\ LiveIsListed' /\ Live' = Live
  BY <1>1 DEF JTypeOK, ListsDisjoint, FreedIsRaw, LiveIsListed, Live
<1>3. /\ mpc'[t] = "insert" /\ src'[t] = s /\ batch'[t] = buf[s]
      /\ \A u \in Threads : u # t => mpc'[u] = mpc[u] /\ src'[u] = src[u] /\ batch'[u] = batch[u]
                                     /\ pc'[u] = pc[u]
  BY <1>1 DEF JTypeOK, IInv, TypeOK
<1>4. PhaseInv' /\ ScanInv'
  BY <1>1 DEF PhaseInv, ScanInv, ListAt
<1>5. ASSUME NEW v \in unmerged', NEW e \in buf[v] PROVE e \notin Taken'
  <2>1. e \notin inserted /\ \A u \in Threads : e \notin batch[u]
    BY <1>1, <1>5 DEF IndexInv, Taken
  <2>2. v # s /\ e \notin buf[s]
    BY <1>1, <1>5 DEF ListsDisjoint, AllTables, JTypeOK
  <2>3. QED
    BY <1>1, <1>3, <2>1, <2>2 DEF Taken
<1>6. IndexInv'
  BY <1>1, <1>2, <1>5 DEF IndexInv
<1>7. MergeInv'
  <2>1. \A u \in Threads : u # t /\ mpc[u] # "idle" => src[u] # s
    BY <1>1 DEF WorkerInv
  <2>2. ASSUME NEW v \in Tables \ unmerged'
        PROVE  buf'[v] = {} \/ \E u \in Threads : mpc'[u] # "idle" /\ src'[u] = v
    <3>1. CASE v = s
      BY <1>3, <3>1
    <3>2. CASE v # s
      BY <1>1, <1>3, <2>2, <3>2 DEF MergeInv
    <3>3. QED
      BY <3>1, <3>2
  <2>3. ASSUME NEW u \in Threads, NEW v \in Threads, u # v, mpc'[u] # "idle", mpc'[v] # "idle"
        PROVE  src'[u] # src'[v]
    BY <1>3, <2>1, <2>3 DEF MergeInv
  <2>4. QED
    BY <2>2, <2>3 DEF MergeInv
<1>8. \A u \in Threads : WorkerInv(u)'
  BY <1>1, <1>3 DEF WorkerInv
<1>9. QED
  BY <1>2, <1>4, <1>6, <1>7, <1>8

(* What one step of an insertion does to the batch and to the index. *)
LEMMA InsertStepFacts ==
  ASSUME IInv, CountInv, NEW t \in Threads, InsertStep(t)
  PROVE  /\ \A u \in Threads : u # t => pc'[u] = pc[u] /\ batch'[u] = batch[u]
         /\ inserted \subseteq inserted' /\ inserted' \subseteq inserted \cup batch[t]
         /\ \/ batch'[t] = batch[t]
            \/ batch'[t] = {} /\ batch[t] \subseteq inserted
<1> USE DEF IInv, TypeOK
<1>1. ASSUME NEW e \in Entries, LoadHead(t, e)
      PROVE  UNCHANGED <<batch, inserted>> /\ \A u \in Threads : u # t => pc'[u] = pc[u]
  BY <1>1 DEF LoadHead, table
<1>2. CASE Link(t) \/ CasFail(t)
  BY <1>2 DEF Link, CasFail, table
<1>3. CASE CasSucceed(t)
  BY <1>3 DEF CasSucceed, ThreadInv
<1>4. CASE AddElementCount(t)
  <2>1. pc[t] = "count" /\ todo[t] = {}
    BY <1>4 DEF AddElementCount, ThreadInv
  <2>2. batch[t] \subseteq inserted
    BY <2>1 DEF CountInv, BatchProgress
  <2>3. QED
    BY <1>4, <2>2 DEF AddElementCount
<1>5. QED
  BY <1>1, <1>2, <1>3, <1>4 DEF InsertStep

(* A step of the batch insertion of a merge task. *)
LEMMA MergeInsertStep ==
  ASSUME JIInv, NEW t \in Threads, MergeInsert(t)
  PROVE  JInv'
<1> USE DEF JIInv, JInv
<1>1. /\ mpc[t] = "insert"
      /\ UNCHANGED <<phase, packed, buf, unmerged, mpc, src, latch, end, owned,
                     freed, iter, alloc, visited>>
  BY DEF MergeInsert, jht, plan, merge, scan
<1>2. /\ \A u \in Threads : u # t => pc'[u] = pc[u] /\ batch'[u] = batch[u]
      /\ inserted \subseteq inserted' /\ inserted' \subseteq inserted \cup batch[t]
      /\ \/ batch'[t] = batch[t]
         \/ batch'[t] = {} /\ batch[t] \subseteq inserted
  BY InsertStepFacts DEF MergeInsert
<1>3. JTypeOK' /\ ListsDisjoint' /\ FreedIsRaw' /\ LiveIsListed' /\ Live' = Live
  BY <1>1 DEF JTypeOK, ListsDisjoint, FreedIsRaw, LiveIsListed, Live
<1>4. phase = "merge"
  BY <1>1 DEF PhaseInv
<1>5. PhaseInv' /\ ScanInv' /\ MergeInv'
  BY <1>1, <1>4 DEF PhaseInv, ScanInv, MergeInv
<1>6. batch[t] \subseteq buf[src[t]] /\ src[t] \in AllTables
  BY <1>1 DEF WorkerInv, AllTables
<1>7. batch[t] \subseteq Live
  BY <1>6 DEF LiveIsListed, JTypeOK
<1>8. Taken' \subseteq Taken
  BY <1>2 DEF Taken
<1>9. IndexInv'
  BY <1>1, <1>2, <1>3, <1>7, <1>8 DEF IndexInv
<1>10. \A u \in Threads : WorkerInv(u)'
  BY <1>1, <1>2 DEF WorkerInv
<1>11. QED
  BY <1>3, <1>5, <1>9, <1>10

(* Taking the latch: its holder is the only worker that knows the end of    *)
(* owned_, and it stays right until the holder has used it.                 *)
LEMMA AcquireLatchStep ==
  ASSUME JIInv, NEW t \in Threads, AcquireLatch(t)
  PROVE  JInv'
<1> USE DEF JIInv, JInv
<1>1. /\ mpc[t] = "insert" /\ pc[t] = "idle" /\ latch = NULL /\ latch' = t
      /\ end' = [end EXCEPT ![t] = Len(owned)] /\ mpc' = [mpc EXCEPT ![t] = "emplace"]
      /\ UNCHANGED <<inserted, pc, batch, phase, packed, buf, unmerged, src, owned,
                     freed, iter, alloc, visited>>
  BY DEF AcquireLatch, vars, table, local, plan, scan
<1>2. Len(owned) \in Nat
  BY DEF JTypeOK
<1>3. JTypeOK' /\ ListsDisjoint' /\ FreedIsRaw' /\ LiveIsListed' /\ Live' = Live
  BY <1>1, <1>2 DEF JTypeOK, ListsDisjoint, FreedIsRaw, LiveIsListed, Live
<1>4. /\ mpc'[t] = "emplace" /\ end'[t] = Len(owned)
      /\ \A u \in Threads : u # t => mpc'[u] = mpc[u] /\ end'[u] = end[u]
  BY <1>1 DEF JTypeOK
<1>5. \A u \in Threads : mpc[u] # "emplace"
  BY <1>1, TablesAssumption DEF WorkerInv
<1>6. \A u \in Threads : mpc'[u] = "idle" <=> mpc[u] = "idle"
  BY <1>1, <1>4
<1>7. phase = "merge"
  BY <1>1 DEF PhaseInv
<1>8. PhaseInv' /\ ScanInv' /\ MergeInv'
  BY <1>1, <1>6, <1>7 DEF PhaseInv, ScanInv, MergeInv
<1>9. IndexInv'
  BY <1>1, <1>3 DEF IndexInv, Taken
<1>10. \A u \in Threads : WorkerInv(u)'
  BY <1>1, <1>4, <1>5 DEF WorkerInv
<1>11. QED
  BY <1>3, <1>8, <1>9, <1>10

(* owned_ with a buffer constructed at its end is owned_ with one more list. *)
LEMMA EmplacedFacts ==
  ASSUME JTypeOK, NEW B \in SUBSET Entries
  PROVE  LET q == Emplaced(Len(owned), B)
             n == Len(owned) + 1
         IN  /\ q \in Seq(SUBSET Entries) /\ Len(q) = n
             /\ DOMAIN q = DOMAIN owned \cup {n} /\ n \notin DOMAIN owned
             /\ q[n] = B /\ \A i \in DOMAIN owned : q[i] = owned[i]
<1> DEFINE k == Len(owned)
           q == Emplaced(k, B)
<1>1. /\ k \in Nat /\ DOMAIN owned = 1 .. k /\ \A i \in 1 .. k : owned[i] \in SUBSET Entries
  BY DEF JTypeOK
<1>2. q = [i \in 1 .. k + 1 |-> IF i <= k THEN owned[i] ELSE B]
  BY DEF Emplaced
<1> HIDE DEF k
<1>3. \A i \in 1 .. k + 1 : (IF i <= k THEN owned[i] ELSE B) \in SUBSET Entries
  BY <1>1
<1>4. q \in Seq(SUBSET Entries) /\ Len(q) = k + 1 /\ DOMAIN q = 1 .. k + 1
  BY <1>1, <1>2, <1>3
<1>5. q[k + 1] = B /\ \A i \in 1 .. k : q[i] = owned[i]
  BY <1>1, <1>2
<1>6. QED
  BY <1>1, <1>4, <1>5 DEF k

(* The holder of the latch moves its buffer to owned_. *)
LEMMA EmplaceStep ==
  ASSUME JIInv, NEW t \in Threads, Emplace(t)
  PROVE  JInv'
<1> USE DEF JIInv, JInv
<1> DEFINE s == src[t]
           n == Len(owned) + 1
<1>1. /\ mpc[t] = "emplace" /\ owned' = Emplaced(end[t], buf[s])
      /\ buf' = [buf EXCEPT ![s] = {}] /\ latch' = NULL /\ mpc' = [mpc EXCEPT ![t] = "idle"]
      /\ UNCHANGED <<inserted, pc, batch, phase, packed, unmerged, src, end,
                     freed, iter, alloc, visited>>
  BY DEF Emplace, vars, table, local, plan, scan
<1>2. /\ s \in Tables \ unmerged /\ s \in AllTables /\ latch = t /\ end[t] = Len(owned)
      /\ pc[t] = "idle" /\ batch[t] = {} /\ buf[s] \subseteq inserted
  BY <1>1 DEF WorkerInv, AllTables, IInv, ThreadInv
<1>3. buf[s] \in SUBSET Entries
  BY <1>2 DEF JTypeOK
<1>4. owned' = Emplaced(Len(owned), buf[s])
  BY <1>1, <1>2
<1>5. /\ owned' \in Seq(SUBSET Entries) /\ Len(owned') = n
      /\ DOMAIN owned' = DOMAIN owned \cup {n} /\ n \notin DOMAIN owned
      /\ owned'[n] = buf[s] /\ \A i \in DOMAIN owned : owned'[i] = owned[i]
  BY <1>3, <1>4, EmplacedFacts
<1>6. buf'[s] = {} /\ \A u \in AllTables : u # s => buf'[u] = buf[u]
  BY <1>1, <1>2 DEF JTypeOK
<1>7. /\ mpc'[t] = "idle" /\ \A u \in Threads : u # t => mpc'[u] = mpc[u]
      /\ phase = "merge" /\ Live' = Live
  BY <1>1 DEF JTypeOK, PhaseInv, Live
<1>8. \A u \in Threads : u # t => mpc[u] # "emplace" /\ (mpc[u] # "idle" => src[u] # s)
  BY <1>1, <1>2 DEF WorkerInv, MergeInv
<1> HIDE DEF s, n
<1>9. JTypeOK'
  BY <1>1, <1>5 DEF JTypeOK
<1>10. LiveIsListed'
  BY <1>2, <1>5, <1>6, <1>7 DEF LiveIsListed
<1>11. ListsDisjoint'
  BY <1>2, <1>5, <1>6 DEF ListsDisjoint
<1>12. FreedIsRaw' /\ ScanInv'
  BY <1>1, <1>7 DEF FreedIsRaw, ScanInv
<1>13. s # Global
  BY <1>2, TablesAssumption
<1>14. PhaseInv'
  BY <1>1, <1>6, <1>7, <1>13 DEF PhaseInv, AllTables
<1>15. \A v \in unmerged : buf'[v] = buf[v]
  BY <1>2, <1>6 DEF AllTables, JTypeOK
<1>16. IndexInv'
  BY <1>1, <1>2, <1>5, <1>7, <1>15 DEF IndexInv, Taken
<1>17. MergeInv'
  <2>1. ASSUME NEW v \in Tables \ unmerged'
        PROVE  buf'[v] = {} \/ \E u \in Threads : mpc'[u] # "idle" /\ src'[u] = v
    <3>1. CASE v = s
      BY <1>6, <3>1
    <3>2. CASE v # s
      <4>1. buf'[v] = buf[v]
        BY <1>6, <3>2 DEF AllTables
      <4>2. buf[v] = {} \/ \E u \in Threads : mpc[u] # "idle" /\ src[u] = v
        BY <1>1, <1>7, <2>1 DEF MergeInv
      <4>3. QED
        BY <1>1, <1>7, <3>2, <4>1, <4>2 DEF s
    <3>3. QED
      BY <3>1, <3>2
  <2>2. QED
    BY <1>1, <1>7, <2>1 DEF MergeInv
<1>18. \A u \in Threads : WorkerInv(u)'
  <2> SUFFICES ASSUME NEW u \in Threads PROVE WorkerInv(u)'
    OBVIOUS
  <2>1. CASE u = t
    BY <1>1, <1>2, <1>7, <2>1 DEF WorkerInv
  <2>2. CASE u # t
    BY <1>1, <1>6, <1>7, <1>8, <2>2 DEF WorkerInv, AllTables
  <2>3. QED
    BY <2>1, <2>2
<1>19. QED
  BY <1>9, <1>10, <1>11, <1>12, <1>14, <1>16, <1>17, <1>18

(* When all merge tasks have returned, every buffer was moved and indexed. *)
LEMMA MergeDoneStep ==
  ASSUME JIInv, MergeDone
  PROVE  JInv'
<1> USE DEF JIInv, JInv
<1>1. /\ phase = "merge" /\ unmerged = {} /\ (\A t \in Threads : mpc[t] = "idle")
      /\ phase' = "built"
      /\ UNCHANGED <<inserted, pc, batch, packed, buf, unmerged, mpc, src, latch, end, owned,
                     freed, iter, alloc, visited>>
  BY DEF MergeDone, vars, table, local, plan, merge, scan
<1>2. JTypeOK' /\ ListsDisjoint' /\ FreedIsRaw' /\ LiveIsListed' /\ Live' = Live
  BY <1>1 DEF JTypeOK, ListsDisjoint, FreedIsRaw, LiveIsListed, Live
<1>3. \A s \in AllTables : buf[s] = {}
  BY <1>1 DEF MergeInv, PhaseInv, AllTables
<1>4. Live \subseteq Entries
  BY MemoryAssumption DEF Live, CompressBufferedTuples, JTypeOK
<1>5. inserted = Live
  BY <1>3, <1>4 DEF LiveIsListed, IndexInv
<1>6. PhaseInv'
  BY <1>1, <1>2, <1>3, <1>5 DEF PhaseInv, AllTables
<1>7. IndexInv' /\ MergeInv' /\ ScanInv' /\ \A t \in Threads : WorkerInv(t)'
  BY <1>1, <1>2 DEF IndexInv, MergeInv, ScanInv, WorkerInv
<1>8. QED
  BY <1>2, <1>6, <1>7

(* The thread-local tables own nothing any more when they are destroyed. *)
LEMMA TearDownStep ==
  ASSUME JIInv, TearDownPipeline
  PROVE  JInv'
<1> USE DEF JIInv, JInv
<1>1. /\ phase = "built" /\ phase' = "ready"
      /\ freed' = freed \cup UNION {buf[s] : s \in Tables}
      /\ buf' = [s \in AllTables |-> IF s = Global THEN buf[s] ELSE {}]
      /\ UNCHANGED <<inserted, pc, batch, packed, unmerged, mpc, src, latch, end, owned,
                     iter, alloc, visited>>
  BY DEF TearDownPipeline, vars, table, local, plan, merge, scan
<1>2. \A s \in Tables : buf[s] = {}
  BY <1>1 DEF PhaseInv
<1>3. buf' = buf
  BY <1>1, <1>2 DEF JTypeOK, AllTables
<1>4. freed' = freed
  BY <1>1, <1>2
<1>5. JTypeOK' /\ ListsDisjoint' /\ FreedIsRaw' /\ LiveIsListed' /\ Live' = Live
  BY <1>1, <1>3, <1>4 DEF JTypeOK, ListsDisjoint, FreedIsRaw, LiveIsListed, Live
<1>6. PhaseInv' /\ IndexInv' /\ MergeInv' /\ ScanInv' /\ \A t \in Threads : WorkerInv(t)'
  BY <1>1, <1>3, <1>5 DEF PhaseInv, IndexInv, MergeInv, ScanInv, WorkerInv
<1>7. QED
  BY <1>5, <1>6

(* Two different lists of the table share no row. *)
LEMMA ListAtFacts ==
  ASSUME JTypeOK, ListsDisjoint,
         NEW j \in 0 .. Len(owned), NEW k \in 0 .. Len(owned)
  PROVE  /\ ListAt(j) \subseteq Entries
         /\ j # k => ListAt(j) \cap ListAt(k) = {}
<1>1. DOMAIN owned = 1 .. Len(owned) /\ Len(owned) \in Nat /\ Global \in AllTables
  BY DEF JTypeOK, AllTables
<1>2. /\ j # 0 => j \in DOMAIN owned
      /\ k # 0 => k \in DOMAIN owned
  BY <1>1
<1>3. ListAt(j) \subseteq Entries
  BY <1>1, <1>2 DEF ListAt, JTypeOK
<1>4. QED
  BY <1>1, <1>2, <1>3 DEF ListAt, ListsDisjoint

(* FindNextNonEmptyList leaves an iterator that has rows alone; otherwise   *)
(* it goes to the next list with rows, or to the end, and so passes no row. *)
LEMMA FindNextFacts ==
  ASSUME JTypeOK, ListsDisjoint,
         NEW it \in [list : Nat, rest : SUBSET Entries],
         it.list <= Len(owned), it.rest \subseteq ListAt(it.list)
  PROVE  LET n == FindNextNonEmptyList(it)
         IN  /\ n \in [list : Nat, rest : SUBSET Entries]
             /\ n.list \in 0 .. Len(owned) /\ n.rest \subseteq ListAt(n.list)
             /\ n.rest = {} => n.list = Len(owned)
             /\ Passed(n) = Passed(it)
<1> DEFINE n     == FindNextNonEmptyList(it)
           later == {k \in it.list + 1 .. Len(owned) : owned[k] # {}}
<1>1. Len(owned) \in Nat /\ it.list \in 0 .. Len(owned) /\ DOMAIN owned = 1 .. Len(owned)
  BY DEF JTypeOK
<1>2. CASE it.rest # {}
  <2>1. n = it
    BY <1>2 DEF FindNextNonEmptyList
  <2>2. QED
    BY <1>1, <1>2, <2>1
<1>3. CASE it.rest = {} /\ later = {}
  <2>1. n = [list |-> Len(owned), rest |-> {}]
    BY <1>3 DEF FindNextNonEmptyList
  <2>2. \A k \in it.list + 1 .. Len(owned) : ListAt(k) = {}
    BY <1>1, <1>3 DEF ListAt
  <2>3. Passed(n) = Passed(it)
    <3>1. \A k \in 0 .. Len(owned) : k \in 0 .. it.list \/ ListAt(k) = {}
      BY <1>1, <2>2
    <3>2. \A k \in 0 .. it.list : k \in 0 .. Len(owned)
      BY <1>1
    <3>3. QED
      BY <1>3, <2>1, <3>1, <3>2 DEF Passed
  <2>4. QED
    BY <1>1, <2>1, <2>3
<1>4. CASE it.rest = {} /\ later # {}
  <2> DEFINE m == Min(later)
  <2>1. later \in SUBSET Nat
    BY <1>1
  <2>2. m \in later /\ \A k \in later : m <= k
    BY <1>4, <2>1, MinIsLeast
  <2>3. n = [list |-> m, rest |-> owned[m]]
    BY <1>4 DEF FindNextNonEmptyList
  <2>4. m \in it.list + 1 .. Len(owned) /\ owned[m] # {}
    BY <2>2
  <2> HIDE DEF m
  <2>5. \A k \in it.list + 1 .. m - 1 : k \notin later
    BY <1>1, <2>1, <2>2, <2>4
  <2>6. \A k \in it.list + 1 .. m - 1 : ListAt(k) = {}
    BY <1>1, <2>4, <2>5 DEF ListAt
  <2>7. ListAt(m) = owned[m] /\ m \in 0 .. Len(owned)
    BY <1>1, <2>4 DEF ListAt
  <2>8. \A k \in 0 .. it.list : ListAt(k) \cap ListAt(m) = {}
    BY <1>1, <2>4, ListAtFacts
  <2>9. Passed(n) = Passed(it)
    <3>1. \A k \in 0 .. m : k \in 0 .. it.list \/ ListAt(k) = {} \/ k = m
      BY <1>1, <2>4, <2>6
    <3>2. \A k \in 0 .. it.list : k \in 0 .. m
      BY <1>1, <2>4
    <3>3. n.list = m /\ n.rest = ListAt(m)
      BY <2>3, <2>7
    <3>4. QED
      BY <1>4, <2>8, <3>1, <3>2, <3>3 DEF Passed
  <2>10. owned[m] \in SUBSET Entries
    BY <2>7, ListAtFacts
  <2>11. QED
    BY <1>1, <2>3, <2>4, <2>7, <2>9, <2>10
<1>5. QED
  BY <1>2, <1>3, <1>4

(* The iterator starts at the first list that has rows. *)
LEMMA IterBeginStep ==
  ASSUME JIInv, IterBegin
  PROVE  JInv'
<1> USE DEF JIInv, JInv
<1> DEFINE first == [list |-> 0, rest |-> buf[Global]]
<1>1. /\ phase = "ready" /\ phase' = "scan"
      /\ iter' = IF owned # <<>> THEN FindNextNonEmptyList(first) ELSE first
      /\ UNCHANGED <<inserted, pc, batch, packed, buf, unmerged, mpc, src, latch, end, owned,
                     freed, alloc, visited>>
  BY DEF IterBegin, vars, table, local, plan, merge
<1>2. first \in [list : Nat, rest : SUBSET Entries] /\ Len(owned) \in Nat
  BY DEF JTypeOK, AllTables
<1>3. first.list <= Len(owned) /\ first.rest \subseteq ListAt(first.list) /\ first.list = 0
  BY <1>2 DEF ListAt
<1>4. Passed(first) = {}
  BY DEF Passed, ListAt
<1> HIDE DEF first
<1>5. /\ iter' \in [list : Nat, rest : SUBSET Entries]
      /\ iter'.list \in 0 .. Len(owned) /\ iter'.rest \subseteq ListAt(iter'.list)
      /\ iter'.rest = {} => iter'.list = Len(owned)
      /\ Passed(iter') = {}
  <2>1. CASE owned # <<>>
    BY <1>1, <1>2, <1>3, <1>4, <2>1, FindNextFacts
  <2>2. CASE owned = <<>>
    BY <1>1, <1>2, <1>3, <1>4, <2>2
  <2>3. QED
    BY <2>1, <2>2
<1>6. \A k : ListAt(k)' = ListAt(k)
  BY <1>1 DEF ListAt
<1>7. ScanInv'
  BY <1>1, <1>5, <1>6 DEF ScanInv, Passed
<1>8. JTypeOK' /\ ListsDisjoint' /\ FreedIsRaw' /\ LiveIsListed' /\ Live' = Live
  BY <1>1, <1>5 DEF JTypeOK, ListsDisjoint, FreedIsRaw, LiveIsListed, Live
<1>9. PhaseInv' /\ IndexInv' /\ MergeInv' /\ \A t \in Threads : WorkerInv(t)'
  BY <1>1, <1>8 DEF PhaseInv, IndexInv, MergeInv, WorkerInv
<1>10. QED
  BY <1>7, <1>8, <1>9

(* The iterator returns a row of its list and moves past it. *)
LEMMA IterNextStep ==
  ASSUME JIInv, NEW e \in Entries, IterNext(e)
  PROVE  JInv'
<1> USE DEF JIInv, JInv
<1> DEFINE it == [list |-> iter.list, rest |-> iter.rest \ {e}]
<1>1. /\ phase = "scan" /\ e \in iter.rest /\ visited' = visited \cup {e}
      /\ iter' = FindNextNonEmptyList([iter EXCEPT !.rest = @ \ {e}])
      /\ UNCHANGED <<inserted, pc, batch, phase, packed, buf, unmerged, mpc, src, latch, end, owned,
                     freed, alloc>>
  BY DEF IterNext, vars, table, local, plan, merge
<1>2. iter \in [list : Nat, rest : SUBSET Entries]
  BY DEF JTypeOK
<1>3. [iter EXCEPT !.rest = iter.rest \ {e}] = it
  BY <1>2
<1>4. iter' = FindNextNonEmptyList(it) /\ it \in [list : Nat, rest : SUBSET Entries]
  BY <1>1, <1>2, <1>3
<1>5. /\ iter.list \in 0 .. Len(owned) /\ iter.rest \subseteq ListAt(iter.list)
      /\ visited = Passed(iter)
  BY <1>1 DEF ScanInv
<1>6. it.list = iter.list /\ it.rest = iter.rest \ {e}
  OBVIOUS
<1> HIDE DEF it
<1>7. Passed(it) = visited \cup {e}
  <2>1. e \in ListAt(iter.list) /\ iter.list \in 0 .. iter.list
    BY <1>1, <1>5
  <2>2. QED
    BY <1>5, <1>6, <2>1 DEF Passed
<1>8. it.list <= Len(owned) /\ it.rest \subseteq ListAt(it.list)
  BY <1>5, <1>6 DEF JTypeOK
<1>9. /\ iter' \in [list : Nat, rest : SUBSET Entries]
      /\ iter'.list \in 0 .. Len(owned) /\ iter'.rest \subseteq ListAt(iter'.list)
      /\ iter'.rest = {} => iter'.list = Len(owned)
      /\ Passed(iter') = visited \cup {e}
  BY <1>4, <1>7, <1>8, FindNextFacts
<1>10. \A k : ListAt(k)' = ListAt(k)
  BY <1>1 DEF ListAt
<1>11. ScanInv'
  BY <1>1, <1>9, <1>10 DEF ScanInv, Passed
<1>12. JTypeOK' /\ ListsDisjoint' /\ FreedIsRaw' /\ LiveIsListed' /\ Live' = Live
  BY <1>1, <1>9 DEF JTypeOK, ListsDisjoint, FreedIsRaw, LiveIsListed, Live
<1>13. PhaseInv' /\ IndexInv' /\ MergeInv' /\ \A t \in Threads : WorkerInv(t)'
  BY <1>1, <1>12 DEF PhaseInv, IndexInv, MergeInv, WorkerInv
<1>14. QED
  BY <1>11, <1>12, <1>13

----------------------------------------------------------------------------
(* A join table starts empty, in the phase that fills it. *)
LEMMA JInitInv == JInit => JIInv
<1> SUFFICES ASSUME JInit PROVE JIInv
  OBVIOUS
<1>1. IInv /\ CountInv
  BY InitInv, InitCount DEF JInit
<1>2. JTypeOK
  <2>1. iter \in [list : Nat, rest : SUBSET Entries] /\ owned \in Seq(SUBSET Entries)
    BY DEF JInit
  <2>2. packed \in BOOLEAN
    BY DEF JInit
  <2>3. QED
    BY <2>1, <2>2 DEF JInit, JTypeOK
<1>3. Live = {} /\ inserted = {} /\ DOMAIN owned = {} /\ \A s \in AllTables : buf[s] = {}
  BY DEF JInit, Init, Live
<1>4. LiveIsListed /\ ListsDisjoint /\ FreedIsRaw /\ IndexInv
  BY <1>3 DEF JInit, LiveIsListed, ListsDisjoint, FreedIsRaw, IndexInv
<1>5. PhaseInv /\ MergeInv /\ ScanInv /\ \A t \in Threads : WorkerInv(t)
  BY <1>3 DEF JInit, Init, PhaseInv, MergeInv, ScanInv, WorkerInv, AllTables
<1>6. QED
  BY <1>1, <1>2, <1>4, <1>5 DEF JIInv, JInv

(* Every step of the join table preserves the invariant. *)
LEMMA JNextInv == JIInv /\ [JNext]_jvars => JIInv'
<1> SUFFICES ASSUME JIInv, [JNext]_jvars PROVE JIInv'
  OBVIOUS
<1>1. IInv' /\ CountInv'
  BY ChainStep
<1> SUFFICES JInv'
  BY <1>1 DEF JIInv
<1>2. ASSUME NEW s \in AllTables, NEW e \in Raw, AllocInputTuple(s, e) PROVE JInv'
  BY <1>2, AllocStep
<1>3. CASE Build
  BY <1>3, BuildStep
<1>4. ASSUME NEW e \in Entries, BuildInsert(e) PROVE JInv'
  BY <1>4, BuildInsertStep
<1>5. CASE BuildDone
  BY <1>5, BuildDoneStep
<1>6. ASSUME NEW n \in Sizes, NEW order \in SetToSeqs(Tables), MergeParallel(n, order)
      PROVE  JInv'
  BY <1>6, MergeParallelStep
<1>7. ASSUME NEW t \in Threads, MergeStep(t) PROVE JInv'
  BY <1>7, MergeIncompleteStep, MergeInsertStep, AcquireLatchStep, EmplaceStep DEF MergeStep
<1>8. CASE MergeDone
  BY <1>8, MergeDoneStep
<1>9. CASE TearDownPipeline
  BY <1>9, TearDownStep
<1>10. CASE IterBegin
  BY <1>10, IterBeginStep
<1>11. ASSUME NEW e \in Entries, IterNext(e) PROVE JInv'
  BY <1>11, IterNextStep
<1>12. CASE Finished \/ UNCHANGED jvars
  <2>1. UNCHANGED <<inserted, pc, batch, phase, packed, buf, unmerged, mpc, src, latch, end, owned,
                    freed, iter, alloc, visited>>
    BY <1>12 DEF Finished, jvars, vars, table, local, jht, plan, merge, scan
  <2>2. JTypeOK' /\ ListsDisjoint' /\ FreedIsRaw' /\ LiveIsListed'
    BY <2>1 DEF JIInv, JInv, JTypeOK, ListsDisjoint, FreedIsRaw, LiveIsListed, Live
  <2>3. PhaseInv' /\ IndexInv' /\ MergeInv' /\ ScanInv' /\ \A t \in Threads : WorkerInv(t)'
    BY <2>1 DEF JIInv, JInv, PhaseInv, IndexInv, MergeInv, ScanInv, WorkerInv, Live, Taken,
                Passed, ListAt
  <2>4. QED
    BY <2>2, <2>3 DEF JInv
<1>13. QED
  BY <1>2, <1>3, <1>4, <1>5, <1>6, <1>7, <1>8, <1>9, <1>10, <1>11, <1>12 DEF JNext

(* The inductive invariant of the build side, from AllocInputTuple over     *)
(* Build or MergeParallel to the last row of the iterator.                  *)
THEOREM JInvariantHolds == JSpec => []JIInv
<1>1. QED
  BY JInitInv, JNextInv, PTL DEF JSpec

(* Neither compression nor the destruction of the thread-local tables frees *)
(* memory that a chain or a list of the global table refers to.             *)
THEOREM NothingDangles == JSpec => []NoDanglingEntry
<1>1. JIInv => NoDanglingEntry
  <2> SUFFICES ASSUME JIInv PROVE NoDanglingEntry
    OBVIOUS
  <2> USE DEF JIInv, JInv
  <2>1. freed \cap Live = {}
    BY MemoryAssumption DEF FreedIsRaw, Live, CompressBufferedTuples, JTypeOK
  <2>2. Reachable = inserted
    BY ReachableIsInserted DEF WalkMeetsInserted
  <2>3. inserted \subseteq Live
    BY DEF IndexInv
  <2>4. Stored \subseteq Live
    BY DEF Stored, LiveIsListed, JTypeOK, AllTables
  <2>5. QED
    BY <2>1, <2>2, <2>3, <2>4 DEF NoDanglingEntry
<1>2. QED
  BY <1>1, JInvariantHolds, PTL

(* JoinHashTableIterator returns every row of the global table once,        *)
(* however the rows are spread over its lists and however many are empty.   *)
THEOREM IterationIsExact == JSpec => []IterationExact
<1>1. JIInv => IterationExact
  <2> SUFFICES ASSUME JIInv, phase = "scan"
               PROVE  visited \cap iter.rest = {} /\ (iter.rest = {} => visited = Stored)
    BY DEF IterationExact, HasNext
  <2> USE DEF JIInv, JInv
  <2>1. visited = Passed(iter) /\ (iter.rest = {} => iter.list = Len(owned))
    BY DEF ScanInv
  <2>2. DOMAIN owned = 1 .. Len(owned) /\ Len(owned) \in Nat
    BY DEF JTypeOK
  <2>3. Stored = {e \in Entries : \E k \in 0 .. Len(owned) : e \in ListAt(k)}
    <3>1. Stored \subseteq Entries
      BY DEF Stored, JTypeOK, AllTables
    <3>2. \A e : e \in Stored <=> \E k \in 0 .. Len(owned) : e \in ListAt(k)
      BY <2>2 DEF Stored, ListAt
    <3>3. QED
      BY <3>1, <3>2
  <2>4. QED
    BY <2>1, <2>3 DEF Passed
<1>2. QED
  BY <1>1, JInvariantHolds, PTL

----------------------------------------------------------------------------
(* Compressing tuples keeps their number. *)
LEMMA CompressCount ==
  ASSUME NEW B \in SUBSET Raw
  PROVE  Cardinality(CompressBufferedTuples(B)) = Cardinality(B)
<1> DEFINE C == CompressBufferedTuples(B)
           f == [e \in B |-> Packed[e]]
<1>1. IsFiniteSet(B)
  BY MemoryAssumption, EntriesFinite
<1>2. f \in Bijection(B, C)
  BY MemoryAssumption DEF CompressBufferedTuples, Bijection, Injection, Surjection, IsInjective
<1>3. ExistsBijection(B, C)
  BY <1>2 DEF ExistsBijection
<1>4. QED
  BY <1>1, <1>3, FS_Bijection

(* The loop of GetTupleCount adds up the lengths of the lists of owned_; as *)
(* the lists are disjoint, the sum is the number of rows they hold.         *)
LEMMA OwnedCount ==
  ASSUME JTypeOK, ListsDisjoint, owned # <<>>
  PROVE  GetTupleCount = Cardinality(UNION {owned[i] : i \in DOMAIN owned})
<1> DEFINE n == Len(owned)
           U(i) == UNION {owned[k] : k \in 1 .. i}
           g == [i \in 0 .. n |-> Cardinality(U(i))]
           Size[i \in 0 .. Len(owned)] ==
             IF i = 0 THEN 0 ELSE Size[i - 1] + Cardinality(owned[i])
<1>1. n \in Nat /\ DOMAIN owned = 1 .. n /\ \A i \in 1 .. n : owned[i] \in SUBSET Entries
  BY DEF JTypeOK
<1>2. \A i, j \in 1 .. n : i # j => owned[i] \cap owned[j] = {}
  BY <1>1 DEF ListsDisjoint
<1>3. GetTupleCount = Size[n]
  BY DEF GetTupleCount
<1> HIDE DEF n
<1>4. Cardinality(U(0)) = 0
  <2>1. U(0) = {}
    OBVIOUS
  <2>2. QED
    BY <2>1, FS_EmptySet
<1>5. ASSUME NEW i \in 1 .. n
      PROVE  Cardinality(U(i)) = Cardinality(U(i - 1)) + Cardinality(owned[i])
  <2>1. U(i) = U(i - 1) \cup owned[i]
    <3>1. \A k : k \in 1 .. i <=> k \in 1 .. i - 1 \/ k = i
      BY <1>1
    <3>2. QED
      BY <3>1
  <2>2. U(i - 1) \cap owned[i] = {}
    BY <1>1, <1>2
  <2>3. U(i - 1) \in SUBSET Entries /\ owned[i] \in SUBSET Entries
    BY <1>1
  <2> HIDE DEF U
  <2>4. /\ IsFiniteSet(U(i - 1)) /\ IsFiniteSet(owned[i]) /\ Cardinality(U(i - 1) \cap owned[i]) = 0
        /\ Cardinality(U(i - 1)) \in Nat /\ Cardinality(owned[i]) \in Nat
    BY <2>2, <2>3, EntriesFinite, FS_EmptySet
  <2>5. Cardinality(U(i - 1) \cup owned[i]) =
          Cardinality(U(i - 1)) + Cardinality(owned[i]) - Cardinality(U(i - 1) \cap owned[i])
    BY <2>4, FS_Union, Zenon
  <2>6. QED
    BY <2>1, <2>4, <2>5
<1> HIDE DEF U
<1>6. g = [i \in 0 .. n |-> IF i = 0 THEN 0 ELSE g[i - 1] + Cardinality(owned[i])]
  <2>1. ASSUME NEW i \in 0 .. n
        PROVE  g[i] = IF i = 0 THEN 0 ELSE g[i - 1] + Cardinality(owned[i])
    BY <1>1, <1>4, <1>5
  <2>2. QED
    BY <2>1
<1> HIDE DEF g
<1>7. Size = [i \in 0 .. n |-> IF i = 0 THEN 0 ELSE Size[i - 1] + Cardinality(owned[i])]
  BY <1>6 DEF n
<1> HIDE DEF Size
<1>8. Size[n] = g[n]
  <2> DEFINE P == {i \in 0 .. n : Size[i] = g[i]}
  <2>1. 0 \in P
    BY <1>1, <1>6, <1>7
  <2>2. ASSUME NEW i \in 0 .. n - 1, i \in P PROVE i + 1 \in P
    <3>1. i + 1 \in 0 .. n /\ i + 1 # 0 /\ (i + 1) - 1 = i
      BY <1>1
    <3>2. Size[i + 1] = Size[i] + Cardinality(owned[i + 1])
      BY <1>7, <3>1
    <3>3. g[i + 1] = g[i] + Cardinality(owned[i + 1])
      BY <1>6, <3>1
    <3>4. QED
      BY <2>2, <3>1, <3>2, <3>3
  <2> HIDE DEF P
  <2>3. 0 .. n \subseteq P
    BY <1>1, <2>1, <2>2, UpTo
  <2>4. QED
    BY <1>1, <2>3 DEF P
<1>9. g[n] = Cardinality(U(n))
  BY <1>1 DEF g
<1>10. QED
  BY <1>1, <1>3, <1>8, <1>9 DEF U

(* Whether it was built by Build() or by merging thread-local tables, with  *)
(* or without compression, a built table indexes and stores exactly the     *)
(* live entry of every tuple it was given, and both of its counts say so.   *)
THEOREM BuildIsComplete == JSpec => []BuildComplete
<1>1. JIInv => BuildComplete
  <2> SUFFICES ASSUME JIInv, IsBuilt
               PROVE  /\ Reachable = Live /\ Stored = Live
                      /\ GetTupleCount = Cardinality(alloc) /\ num_elements = Cardinality(alloc)
    BY DEF BuildComplete
  <2> USE DEF JIInv, JInv
  <2>1. /\ phase \in {"built", "ready", "scan"} /\ inserted = Live
        /\ (\A s \in Tables : buf[s] = {}) /\ \A t \in Threads : mpc[t] = "idle"
        /\ owned # <<>> => buf[Global] = {}
    BY DEF IsBuilt, PhaseInv
  <2>2. Reachable = Live
    BY <2>1, ReachableIsInserted DEF WalkMeetsInserted
  <2>3. Live \subseteq Entries /\ alloc \in SUBSET Raw
    BY MemoryAssumption DEF Live, CompressBufferedTuples, JTypeOK
  <2>4. Stored = Live
    <3>1. \A e \in Entries : e \in Live <=> e \in Stored
      BY <2>1 DEF LiveIsListed, Stored, AllTables
    <3>2. Stored \subseteq Entries
      BY DEF Stored, JTypeOK, AllTables
    <3>3. QED
      BY <2>3, <3>1, <3>2
  <2>5. Cardinality(Live) = Cardinality(alloc)
    BY <2>3, CompressCount DEF Live
  <2>6. num_elements = Cardinality(inserted)
    <3>1. AllIdle /\ \A t \in Threads : batch[t] = {}
      BY <2>1, IdleWorker DEF AllIdle
    <3>2. inserted \ InFlight = inserted
      BY <3>1 DEF InFlight
    <3>3. QED
      BY <3>2 DEF CountInv
  <2>7. GetTupleCount = Cardinality(Stored)
    <3>1. CASE owned # <<>>
      <4>1. Stored = UNION {owned[i] : i \in DOMAIN owned}
        BY <2>1, <3>1 DEF Stored
      <4>2. QED
        BY <3>1, <4>1, OwnedCount
    <3>2. CASE owned = <<>>
      <4>1. Stored = buf[Global]
        BY <3>2 DEF Stored
      <4>2. QED
        BY <3>2, <4>1 DEF GetTupleCount
    <3>3. QED
      BY <3>1, <3>2
  <2>8. QED
    BY <2>1, <2>2, <2>4, <2>5, <2>6, <2>7
<1>2. QED
  BY <1>1, JInvariantHolds, PTL

----------------------------------------------------------------------------
\* No entry of a buffer that waits for a merge task is in the table or in the
\* batch of another task.
WaitingBuffersFresh ==
  phase = "merge" => \A s \in unmerged : buf[s] \cap Taken = {}

(* MergeIncomplete meets the condition under which InsertBatch may be called *)
(* from several threads (the guard of InsertBatchBegin): no task ever        *)
(* inserts an entry that is in the table or that another task inserts.       *)
THEOREM MergeInsertsFreshEntries == JSpec => []WaitingBuffersFresh
<1>1. JIInv => WaitingBuffersFresh
  BY DEF JIInv, JInv, IndexInv, WaitingBuffersFresh
<1>2. QED
  BY <1>1, JInvariantHolds, PTL

(* The chaining table of a join hash table is an atomic set for whoever     *)
(* walks it, under everything the join table does around it: allocation,    *)
(* compression, parallel merging, tear-down and iteration.                  *)
THEOREM JoinTableImplementsEntrySet == JSpec => ImplementsEntrySet
<1>1. JInit => Set!Init
  <2> SUFFICES ASSUME JInit PROVE Set!Init
    OBVIOUS
  <2>1. Reachable = inserted
    BY InitInv, ReachableIsInserted DEF WalkMeetsInserted, JInit
  <2>2. QED
    BY <2>1 DEF JInit, Init, Set!Init
<1>2. JIInv => WalkMeetsInserted
  BY ReachableIsInserted DEF JIInv
<1>3. JIInv' => WalkMeetsInserted'
  BY <1>2, PTL
<1>4. ASSUME JIInv, [JNext]_jvars
      PROVE  \/ \E e \in Entries : e \notin inserted /\ inserted' = inserted \cup {e}
             \/ inserted' = {}
             \/ inserted' = inserted
  <2>1. CASE [Next]_vars
    BY <1>4, <2>1, InsertedStep DEF JIInv
  <2>2. ASSUME NEW s \in AllTables, NEW e \in Raw, AllocInputTuple(s, e)
        PROVE  inserted' = inserted
    BY <2>2 DEF AllocInputTuple
  <2>3. CASE Build
    BY <2>3 DEF Build, SetSize
  <2>4. ASSUME NEW e \in Entries, BuildInsert(e) PROVE [Next]_vars
    BY <2>4 DEF BuildInsert, Next
  <2>5. ASSUME NEW n \in Sizes, NEW order \in SetToSeqs(Tables), MergeParallel(n, order)
        PROVE  inserted' = {}
    BY <2>5 DEF MergeParallel, SetSize
  <2>6. ASSUME NEW t \in Threads, MergeStep(t)
        PROVE  [Next]_vars \/ inserted' = inserted
    BY <2>6 DEF MergeStep, MergeIncomplete, InsertBatchBegin, table, MergeInsert, Next,
                AcquireLatch, Emplace, vars
  <2>7. CASE BuildDone \/ MergeDone \/ TearDownPipeline \/ IterBegin
    BY <2>7 DEF BuildDone, MergeDone, TearDownPipeline, IterBegin, vars, table
  <2>8. ASSUME NEW e \in Entries, IterNext(e) PROVE inserted' = inserted
    BY <2>8 DEF IterNext, vars, table
  <2>9. CASE Finished \/ UNCHANGED jvars
    BY <2>9 DEF Finished, jvars, vars, table
  <2>10. QED
    BY <1>4, <2>1, <2>2, <2>3, <2>4, <2>5, <2>6, <2>7, <2>8, <2>9 DEF JNext
<1>5. JIInv /\ JIInv' /\ [JNext]_jvars => [Set!Next]_Reachable
  <2> SUFFICES ASSUME JIInv, JIInv', [JNext]_jvars PROVE [Set!Next]_Reachable
    OBVIOUS
  <2>1. Reachable = inserted /\ Reachable' = inserted'
    BY <1>2, <1>3 DEF WalkMeetsInserted
  <2>2. QED
    BY <1>4, <2>1 DEF Set!Next, Set!Add, Set!Clear
<1>6. QED
  BY <1>1, <1>5, JInvariantHolds, PTL DEF JSpec, ImplementsEntrySet, Set!Spec
=============================================================================
