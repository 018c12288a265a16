------------------------- MODULE ChainingHashTable -------------------------
(***************************************************************************)
(* The bucket-chained hash table that joins and aggregations are built on. *)
(* The directory entries_ holds, per bucket, a pointer to the first entry  *)
(* of the bucket's chain whose unused high bits may carry a small Bloom    *)
(* filter (the tag).  Threads building a join table insert into the same   *)
(* directory without a lock: an entry is linked in front of the head that  *)
(* was read, and published by a weak compare-and-exchange of the head.     *)
(*                                                                         *)
(* Grain: one action per access to shared memory inside InsertTagged and   *)
(* InsertUntagged.  Calls that the callers make only from a single thread  *)
(* (SetSize, Insert<false>) are one action each.  The head is read by a    *)
(* plain, racing load; it is an aligned word, so the load returns a value  *)
(* the head had at that instant, and a compiler that reads it early is     *)
(* covered by the delay the interleaving allows before the next step.      *)
(***************************************************************************)
EXTENDS Integers, FiniteSets

(* Definitions named after an operation with a suffix (CasSucceedBlind,     *)
(* SetSizeKeepCount, ...) are faulty variants of it: substituted for the    *)
(* operation, they must make TLC report the property they were written for. *)

CONSTANTS
  Threads,        (* threads that call InsertBatch<true>                    *)
  Entries,        (* the HashTableEntry objects                             *)
  NULL,           (* the null pointer                                       *)
  Hash,           (* entry->hash, written when the entry is allocated       *)
  UseTags,        (* the template parameter of ChainingHashTable            *)
  kMinTableSize,  (* the smallest size SetSize accepts                      *)
  Sizes,          (* the sizes callers ask SetSize for                      *)
  TagShift        (* hashes are below NumTagBits * TagShift                 *)

NumTagBits == 16

TagBits == 0 .. NumTagBits - 1

VARIABLES
  capacity,       (* the size of the directory; 0 before the first SetSize  *)
  entries,        (* entries_: the tagged head pointer of every bucket      *)
  next,           (* entry->next                                            *)
  num_elements,   (* num_elements_                                          *)
  pc,             (* where each thread stands in InsertBatch<true>          *)
  batch,          (* the buffer each thread was given                       *)
  todo,           (* the part of the buffer after the loop index            *)
  cur,            (* entry: the one being inserted                          *)
  old_entry,      (* the head each thread expects the bucket to have        *)
  inserted        (* history: entries published since the last SetSize      *)

table == <<capacity, entries, next, num_elements, inserted>>
local == <<pc, batch, todo, cur, old_entry>>
vars  == <<table, local>>

----------------------------------------------------------------------------
(* Tagged pointers *)

TaggedPointers == [ptr : Entries \cup {NULL}, tag : SUBSET TagBits]

Empty == [ptr |-> NULL, tag |-> {}]

\* One of the 16 tag bits, picked by the most significant bits of the hash.
TagHash(hash) == {hash \div TagShift}

\* The untagged table stores the bare pointer; UpdateTag keeps the old bits.
UpdateTagForget(tagged_old, e) ==
  [ptr |-> e, tag |-> IF UseTags THEN TagHash(Hash[e]) ELSE {}]

UpdateTag(tagged_old, e) ==
  [ptr |-> e,
   tag |-> IF UseTags THEN tagged_old.tag \cup TagHash(Hash[e]) ELSE {}]

BucketPosition(hash) == hash % capacity

Pos(e) == BucketPosition(Hash[e])

FindChainHeadUntagged(hash) == entries[BucketPosition(hash)].ptr

FindChainHeadTagged(hash) ==
  IF TagHash(hash) \cap entries[BucketPosition(hash)].tag # {}
  THEN entries[BucketPosition(hash)].ptr ELSE NULL

FindChainHead(hash) ==
  IF UseTags THEN FindChainHeadTagged(hash) ELSE FindChainHeadUntagged(hash)

----------------------------------------------------------------------------
(* Sizing *)

PowerOf2Ceil(n) ==
  CHOOSE p \in {2^k : k \in 0 .. n} :
    p >= n /\ \A q \in {2^k : k \in 0 .. n} : q >= n => p <= q

\* The directory for new_size elements at load factor 0.7: the doubling test
\* next_size < new_size / 0.7 is taken without rounding.
DirectorySize(new_size) ==
  LET n    == IF new_size < kMinTableSize THEN kMinTableSize ELSE new_size
      size == PowerOf2Ceil(n)
  IN  IF 7 * size < 10 * n THEN 2 * size ELSE size

ASSUME NullAssumption == NULL \notin Entries
ASSUME EntriesAssumption == IsFiniteSet(Entries)
ASSUME HashAssumption ==
  /\ Hash \in [Entries -> Nat]
  /\ \A e \in Entries : TagHash(Hash[e]) \subseteq TagBits
ASSUME UseTagsAssumption == UseTags \in BOOLEAN
ASSUME SizesAssumption == \A n \in Sizes : DirectorySize(n) \in Nat \ {0}

----------------------------------------------------------------------------
Init ==
  /\ capacity = 0
  /\ entries = [b \in {} |-> Empty]
  /\ next = [e \in Entries |-> NULL]
  /\ num_elements = 0
  /\ pc = [t \in Threads |-> "idle"]
  /\ batch = [t \in Threads |-> {}]
  /\ todo = [t \in Threads |-> {}]
  /\ cur = [t \in Threads |-> NULL]
  /\ old_entry = [t \in Threads |-> Empty]
  /\ inserted = {}

AllIdle == \A t \in Threads : pc[t] = "idle"

\* Entries that are in the table or in a buffer some thread is inserting.
Taken == inserted \cup UNION {batch[t] : t \in Threads}

SetSizeKeepCapacity(n) ==
  /\ AllIdle
  /\ num_elements' = 0
  /\ entries' = [b \in 0 .. DirectorySize(n) - 1 |-> Empty]
  /\ inserted' = {}
  /\ UNCHANGED <<capacity, next, local>>

SetSizeKeepCount(n) ==
  /\ AllIdle
  /\ capacity' = DirectorySize(n)
  /\ entries' = [b \in 0 .. DirectorySize(n) - 1 |-> Empty]
  /\ inserted' = {}
  /\ UNCHANGED <<next, num_elements, local>>

\* A fresh, zeroed directory; nobody else uses the table meanwhile.
SetSize(n) ==
  /\ AllIdle
  /\ num_elements' = 0
  /\ capacity' = DirectorySize(n)
  /\ entries' = [b \in 0 .. DirectorySize(n) - 1 |-> Empty]
  /\ inserted' = {}
  /\ UNCHANGED <<next, local>>

\* Insert<false>: the plain form, used when a single thread builds the table.
Insert(e) ==
  /\ AllIdle /\ capacity > 0
  /\ e \notin inserted
  /\ next' = [next EXCEPT ![e] = entries[Pos(e)].ptr]
  /\ entries' = [entries EXCEPT ![Pos(e)] = UpdateTag(@, e)]
  /\ num_elements' = num_elements + 1
  /\ inserted' = inserted \cup {e}
  /\ UNCHANGED <<capacity, local>>

----------------------------------------------------------------------------
(* InsertBatch<true>: the loop of one thread, interleaved with the others *)

\* The buffer's order is the order in which LoadHead picks from todo.
InsertBatchBegin(t, S) ==
  /\ pc[t] = "idle" /\ capacity > 0
  /\ S \cap Taken = {}
  /\ pc' = [pc EXCEPT ![t] = IF S = {} THEN "count" ELSE "load"]
  /\ batch' = [batch EXCEPT ![t] = S]
  /\ todo' = [todo EXCEPT ![t] = S]
  /\ UNCHANGED <<table, cur, old_entry>>

LoadHeadNoAdvance(t, e) ==
  /\ pc[t] = "load" /\ e \in todo[t]
  /\ cur' = [cur EXCEPT ![t] = e]
  /\ old_entry' = [old_entry EXCEPT ![t] = entries[Pos(e)]]
  /\ pc' = [pc EXCEPT ![t] = "link"]
  /\ UNCHANGED <<table, batch, todo>>

LoadHead(t, e) ==
  /\ pc[t] = "load" /\ e \in todo[t]
  /\ cur' = [cur EXCEPT ![t] = e]
  /\ todo' = [todo EXCEPT ![t] = @ \ {e}]
  /\ old_entry' = [old_entry EXCEPT ![t] = entries[Pos(e)]]
  /\ pc' = [pc EXCEPT ![t] = "link"]
  /\ UNCHANGED <<table, batch>>

\* entry->next = UntagPointer(old_entry)
Link(t) ==
  /\ pc[t] = "link"
  /\ next' = [next EXCEPT ![cur[t]] = old_entry[t].ptr]
  /\ pc' = [pc EXCEPT ![t] = "cas"]
  /\ UNCHANGED <<capacity, entries, num_elements, inserted,
                 batch, todo, cur, old_entry>>

CasSucceedBlind(t) ==
  /\ pc[t] = "cas"
  /\ entries' = [entries EXCEPT ![Pos(cur[t])] = UpdateTag(old_entry[t], cur[t])]
  /\ inserted' = inserted \cup {cur[t]}
  /\ pc' = [pc EXCEPT ![t] = IF todo[t] = {} THEN "count" ELSE "load"]
  /\ UNCHANGED <<capacity, next, num_elements, batch, todo, cur, old_entry>>

CasSucceed(t) ==
  /\ pc[t] = "cas"
  /\ entries[Pos(cur[t])] = old_entry[t]
  /\ entries' = [entries EXCEPT ![Pos(cur[t])] = UpdateTag(old_entry[t], cur[t])]
  /\ inserted' = inserted \cup {cur[t]}
  /\ pc' = [pc EXCEPT ![t] = IF todo[t] = {} THEN "count" ELSE "load"]
  /\ UNCHANGED <<capacity, next, num_elements, batch, todo, cur, old_entry>>

CasFailNoRelink(t) ==
  /\ pc[t] = "cas"
  /\ old_entry' = [old_entry EXCEPT ![t] = entries[Pos(cur[t])]]
  /\ UNCHANGED <<table, pc, batch, todo, cur>>

CasFailStale(t) ==
  /\ pc[t] = "cas"
  /\ pc' = [pc EXCEPT ![t] = "link"]
  /\ UNCHANGED <<table, batch, todo, cur, old_entry>>

\* A weak exchange may fail although the head is the expected one; either way
\* old_entry receives the head and the loop body links again.
CasFail(t) ==
  /\ pc[t] = "cas"
  /\ old_entry' = [old_entry EXCEPT ![t] = entries[Pos(cur[t])]]
  /\ pc' = [pc EXCEPT ![t] = "link"]
  /\ UNCHANGED <<table, batch, todo, cur>>

AddElementCount(t) ==
  /\ pc[t] = "count"
  /\ num_elements' = num_elements + Cardinality(batch[t])
  /\ pc' = [pc EXCEPT ![t] = "idle"]
  /\ batch' = [batch EXCEPT ![t] = {}]
  /\ cur' = [cur EXCEPT ![t] = NULL]
  /\ old_entry' = [old_entry EXCEPT ![t] = Empty]
  /\ UNCHANGED <<capacity, entries, next, inserted, todo>>

InsertStep(t) ==
  \/ \E e \in Entries : LoadHead(t, e)
  \/ Link(t)
  \/ CasSucceed(t)
  \/ CasFail(t)
  \/ AddElementCount(t)

Next ==
  \/ \E n \in Sizes : SetSize(n)
  \/ \E e \in Entries : Insert(e)
  \/ \E t \in Threads, S \in SUBSET Entries : InsertBatchBegin(t, S)
  \/ \E t \in Threads : InsertStep(t)

Spec == Init /\ [][Next]_vars

(* The scheduler runs every thread, and a weak exchange does not fail for   *)
(* ever while the head is the expected one.                                 *)
Fairness ==
  \A t \in Threads : WF_vars(InsertStep(t)) /\ SF_vars(CasSucceed(t))

FairSpec == Spec /\ Fairness

----------------------------------------------------------------------------
(* What a reader finds *)

\* S holds the entry h (if any) and is closed under following next.
ClosedFrom(h, S) ==
  /\ h # NULL => h \in S
  /\ \A x \in S : next[x] # NULL => next[x] \in S

\* The entries met on the walk from h: those no closed set can leave out.
WalkFrom(h) == {e \in Entries : \A S \in SUBSET Entries : ClosedFrom(h, S) => e \in S}

Chain(b) == WalkFrom(entries[b].ptr)

Reachable == UNION {Chain(b) : b \in DOMAIN entries}

TypeOK ==
  /\ capacity \in Nat
  /\ entries \in [0 .. capacity - 1 -> TaggedPointers]
  /\ next \in [Entries -> Entries \cup {NULL}]
  /\ num_elements \in Nat
  /\ pc \in [Threads -> {"idle", "load", "link", "cas", "count"}]
  /\ batch \in [Threads -> SUBSET Entries]
  /\ todo \in [Threads -> SUBSET Entries]
  /\ cur \in [Threads -> Entries \cup {NULL}]
  /\ old_entry \in [Threads -> TaggedPointers]
  /\ inserted \subseteq Entries

(* However the inserting threads interleave, and whichever exchanges fail,  *)
(* walking a bucket from its head meets exactly the entries published for   *)
(* that bucket: no insertion is lost by a racing one, none leaks into       *)
(* another bucket, and nothing half-inserted is visible.                    *)
ChainComplete ==
  \A b \in DOMAIN entries : Chain(b) = {e \in inserted : Pos(e) = b}

(* No set of published entries links only to itself, so every walk ends:    *)
(* Lookup, the iterators and FlushEntries all loop until next is null.      *)
ChainEnds ==
  \A S \in SUBSET inserted : (\A x \in S : next[x] \in S) => S = {}

(* The tag never hides an entry: for every published entry the tag bit of   *)
(* its hash survived all later exchanges of the head, so FindChainHead does *)
(* not answer null for a hash that is present.                              *)
NoFalseNegative ==
  \A e \in inserted : FindChainHead(Hash[e]) # NULL

(* The element count lags behind the chains while batches are in flight and *)
(* is exact once every InsertBatch returned; GetElementCount is read then.  *)
CountSettles ==
  /\ num_elements <= Cardinality(inserted)
  /\ AllIdle => num_elements = Cardinality(inserted)

(* What a reader could walk to at any instant is a set that grows by one    *)
(* entry per successful exchange and is only ever emptied by SetSize.       *)
Set == INSTANCE EntrySet WITH contents <- Reachable
ImplementsEntrySet == Set!Spec

(* Every batch that was started is finished: no thread is kept in the retry *)
(* loop of the exchange for ever.                                           *)
BatchesFinish ==
  \A t \in Threads : pc[t] # "idle" ~> pc[t] = "idle"
=============================================================================
