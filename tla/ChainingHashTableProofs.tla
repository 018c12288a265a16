---------------------- MODULE ChainingHashTableProofs ----------------------
(***************************************************************************)
(* Proofs, for any number of threads, entries, hashes and directory sizes, *)
(* that the chains built by racing insertions are complete, end, and are   *)
(* never hidden by their tag, and that the table implements EntrySet.      *)
(*                                                                         *)
(* A walk along next is described by the sets closed under next, so no     *)
(* induction over the length of a chain is needed: an insertion puts one   *)
(* entry in front of a chain, and a set closed under the new chain is,     *)
(* without that entry, closed under the old one.                           *)
(***************************************************************************)
EXTENDS ChainingHashTable, FiniteSetTheorems, TLAPS

\* The part of the invariant that speaks of the shared chains.
HeadsInserted ==
  \A b \in 0 .. capacity - 1 :
    entries[b].ptr # NULL => entries[b].ptr \in inserted /\ Pos(entries[b].ptr) = b

LinksStayInBucket ==
  \A e \in inserted :
    next[e] # NULL => next[e] \in inserted /\ Pos(next[e]) = Pos(e)

WalkMeetsAll ==
  \A b \in 0 .. capacity - 1 : \A S \in SUBSET inserted :
    ClosedFrom(entries[b].ptr, S) => \A e \in inserted : Pos(e) = b => e \in S

TagsKept ==
  UseTags => \A e \in inserted : TagHash(Hash[e]) \subseteq entries[Pos(e)].tag

SizedFirst == inserted # {} => capacity # 0

ChainInv ==
  HeadsInserted /\ LinksStayInBucket /\ WalkMeetsAll /\ ChainEnds /\ TagsKept /\ SizedFirst

\* The part that speaks of what each thread holds.
BatchesDisjoint ==
  \A t, u \in Threads : t # u => batch[t] \cap batch[u] = {}

ThreadInv(t) ==
  /\ todo[t] \subseteq batch[t]
  /\ todo[t] \cap inserted = {}
  /\ pc[t] = "idle" => batch[t] = {}
  /\ pc[t] = "count" => todo[t] = {}
  /\ pc[t] # "idle" => capacity # 0
  /\ pc[t] \in {"link", "cas"} =>
       cur[t] \in batch[t] /\ cur[t] \notin todo[t] /\ cur[t] \notin inserted
  /\ pc[t] = "cas" => next[cur[t]] = old_entry[t].ptr

IInv ==
  TypeOK /\ ChainInv /\ BatchesDisjoint /\ \A t \in Threads : ThreadInv(t)

----------------------------------------------------------------------------
(* Every hash falls into a bucket of the directory. *)
LEMMA PosInDirectory ==
  ASSUME capacity \in Nat, capacity # 0, NEW e \in Entries
  PROVE  Pos(e) \in 0 .. capacity - 1
<1>1. Hash[e] \in Nat
  BY HashAssumption
<1>2. QED
  BY <1>1 DEF Pos, BucketPosition

(* A head written by UpdateTag is a tagged pointer to the new entry that    *)
(* carries the old tag bits and the new one.                                *)
LEMMA UpdateTagFacts ==
  ASSUME NEW old \in TaggedPointers, NEW e \in Entries
  PROVE  /\ UpdateTag(old, e) \in TaggedPointers
         /\ UpdateTag(old, e).ptr = e
         /\ UseTags => UpdateTag(old, e).tag = old.tag \cup TagHash(Hash[e])
<1>1. TagHash(Hash[e]) \subseteq TagBits
  BY HashAssumption
<1>2. old.tag \subseteq TagBits
  BY DEF TaggedPointers
<1>3. (IF UseTags THEN old.tag \cup TagHash(Hash[e]) ELSE {}) \in SUBSET TagBits
  BY <1>1, <1>2
<1>4. QED
  BY <1>3 DEF UpdateTag, TaggedPointers

(* Writes to next of an entry that is not published yet do not touch the    *)
(* chains: what holds of the chains before such a step holds after it.      *)
LEMMA ChainFrame ==
  ASSUME ChainInv,
         capacity' = capacity, entries' = entries, inserted' = inserted,
         \A x \in inserted : next'[x] = next[x]
  PROVE  ChainInv'
<1>1. \A e : Pos(e)' = Pos(e)
  BY DEF Pos, BucketPosition
<1>2. HeadsInserted' /\ LinksStayInBucket' /\ TagsKept' /\ SizedFirst'
  BY <1>1 DEF ChainInv, HeadsInserted, LinksStayInBucket, TagsKept, SizedFirst
<1>3. WalkMeetsAll'
  <2>1. ASSUME NEW b \in 0 .. capacity - 1, NEW S \in SUBSET inserted
        PROVE  ClosedFrom(entries[b].ptr, S)' <=> ClosedFrom(entries[b].ptr, S)
    BY DEF ClosedFrom
  <2>2. QED
    BY <1>1, <2>1 DEF ChainInv, WalkMeetsAll
<1>4. ChainEnds'
  BY DEF ChainInv, ChainEnds
<1>5. QED
  BY <1>2, <1>3, <1>4 DEF ChainInv

(* Publishing e in front of its bucket: the step common to Insert and to a  *)
(* successful exchange.                                                     *)
LEMMA ChainPublish ==
  ASSUME TypeOK, ChainInv, NEW e \in Entries,
         e \notin inserted, capacity # 0, capacity' = capacity,
         next' = [next EXCEPT ![e] = entries[Pos(e)].ptr],
         entries' = [entries EXCEPT ![Pos(e)] = UpdateTag(@, e)],
         inserted' = inserted \cup {e}
  PROVE  ChainInv'
<1> DEFINE p == Pos(e)
           h == entries[p].ptr
<1>1. /\ \A x : Pos(x)' = Pos(x)
      /\ p \in 0 .. capacity - 1
  BY PosInDirectory DEF TypeOK, Pos, BucketPosition
<1>2. entries[p] \in TaggedPointers
  BY <1>1 DEF TypeOK
<1>3. /\ entries'[p].ptr = e
      /\ UseTags => entries'[p].tag = entries[p].tag \cup TagHash(Hash[e])
      /\ \A b \in 0 .. capacity - 1 : b # p => entries'[b] = entries[b]
  BY <1>1, <1>2, UpdateTagFacts DEF TypeOK
<1>4. next'[e] = h /\ \A x \in inserted : next'[x] = next[x]
  BY DEF TypeOK
<1>5. h # NULL => h \in inserted /\ Pos(h) = p
  BY <1>1 DEF ChainInv, HeadsInserted
<1>6. e # NULL
  BY NullAssumption
<1> HIDE DEF p, h
<1>7. HeadsInserted'
  BY <1>1, <1>3, <1>6 DEF ChainInv, HeadsInserted, p
<1>8. LinksStayInBucket'
  BY <1>1, <1>4, <1>5 DEF ChainInv, LinksStayInBucket, p
<1>9. WalkMeetsAll'
  <2> SUFFICES ASSUME NEW b \in 0 .. capacity - 1, NEW S \in SUBSET (inserted \cup {e}),
                      ClosedFrom(entries[b].ptr, S)',
                      NEW x \in inserted \cup {e}, Pos(x) = b
               PROVE  x \in S
    BY <1>1 DEF WalkMeetsAll
  <2>1. /\ entries'[b].ptr # NULL => entries'[b].ptr \in S
        /\ \A y \in S : next'[y] # NULL => next'[y] \in S
    BY DEF ClosedFrom
  <2> DEFINE T == S \ {e}
  <2>2. \A y \in T : next[y] # NULL => next[y] \in T
    BY <1>4, <2>1 DEF ChainInv, LinksStayInBucket
  <2>3. entries[b].ptr # NULL => entries[b].ptr \in T
    <3>1. CASE b = p
      BY <1>3, <1>4, <1>5, <1>6, <2>1, <3>1 DEF h
    <3>2. CASE b # p
      BY <1>3, <2>1, <3>2 DEF ChainInv, HeadsInserted
    <3>3. QED
      BY <3>1, <3>2
  <2>4. T \in SUBSET inserted /\ ClosedFrom(entries[b].ptr, T)
    BY <2>2, <2>3 DEF ClosedFrom
  <2>5. \A y \in inserted : Pos(y) = b => y \in T
    BY <2>4 DEF ChainInv, WalkMeetsAll
  <2>6. x = e => x \in S
    BY <1>3, <1>6, <2>1 DEF p
  <2>7. QED
    BY <2>5, <2>6
<1>10. ChainEnds'
  <2> SUFFICES ASSUME NEW S \in SUBSET (inserted \cup {e}), \A x \in S : next'[x] \in S
               PROVE  S = {}
    BY DEF ChainEnds
  <2> DEFINE T == S \ {e}
  <2>1. \A x \in T : next[x] \in T
    <3> SUFFICES ASSUME NEW x \in T
                 PROVE  next[x] \in T
      OBVIOUS
    <3>1. x \in inserted /\ next[x] \in S
      BY <1>4
    <3>2. next[x] # NULL
      BY <3>1, NullAssumption DEF TypeOK
    <3>3. QED
      BY <3>1, <3>2 DEF ChainInv, LinksStayInBucket
  <2>2. T = {}
    BY <2>1 DEF ChainInv, ChainEnds
  <2>3. e \in S => h \in S /\ h # NULL
    BY <1>4, <1>6, NullAssumption DEF TypeOK
  <2>4. e \in S => h \in T
    BY <1>5, <2>3
  <2>5. QED
    BY <2>2, <2>4
<1>11. TagsKept'
  BY <1>1, <1>3, PosInDirectory DEF ChainInv, TagsKept, TypeOK, p
<1>12. SizedFirst'
  BY DEF SizedFirst
<1>13. QED
  BY <1>7, <1>8, <1>9, <1>10, <1>11, <1>12 DEF ChainInv

----------------------------------------------------------------------------
(* The table is constructed empty and unsized, with no thread at work. *)
LEMMA InitInv == Init => IInv
<1> SUFFICES ASSUME Init PROVE IInv
  OBVIOUS
<1>1. Empty \in TaggedPointers
  BY DEF Empty, TaggedPointers
<1>2. TypeOK
  BY <1>1 DEF Init, TypeOK
<1>3. ChainInv
  BY DEF Init, ChainInv, HeadsInserted, LinksStayInBucket, WalkMeetsAll, ChainEnds,
         TagsKept, SizedFirst
<1>4. BatchesDisjoint /\ \A t \in Threads : ThreadInv(t)
  BY DEF Init, BatchesDisjoint, ThreadInv
<1>5. QED
  BY <1>2, <1>3, <1>4 DEF IInv

(* SetSize preserves the invariant for every size it finds a directory for, *)
(* the sizes the callers compute (Build) as well as those in Sizes.         *)
LEMMA SetSizeInv ==
  ASSUME IInv, NEW n, DirectorySize(n) \in Nat \ {0}, SetSize(n)
  PROVE  IInv'
<1> USE DEF IInv
<1> DEFINE D == DirectorySize(n)
<1>1. Empty \in TaggedPointers /\ D \in Nat
  BY DEF Empty, TaggedPointers
<1>2. /\ capacity' = D /\ entries' = [b \in 0 .. D - 1 |-> Empty]
      /\ inserted' = {} /\ next' = next /\ num_elements' = 0
      /\ UNCHANGED <<pc, batch, todo, cur, old_entry>> /\ AllIdle
  BY DEF SetSize, local
<1> HIDE DEF D
<1>3. TypeOK'
  BY <1>1, <1>2 DEF TypeOK
<1>4. \A b \in 0 .. D - 1 : entries'[b].ptr = NULL
  BY <1>2 DEF Empty
<1>5. HeadsInserted'
  BY <1>2, <1>4 DEF HeadsInserted
<1>6. LinksStayInBucket' /\ WalkMeetsAll' /\ ChainEnds' /\ TagsKept' /\ SizedFirst'
  BY <1>2 DEF LinksStayInBucket, WalkMeetsAll, ChainEnds, TagsKept, SizedFirst
<1>7. BatchesDisjoint' /\ \A t \in Threads : ThreadInv(t)'
  BY <1>2 DEF BatchesDisjoint, ThreadInv, AllIdle, TypeOK
<1>8. QED
  BY <1>3, <1>5, <1>6, <1>7 DEF ChainInv

(* Every operation of the table preserves the invariant. *)
LEMMA NextInv == IInv /\ [Next]_vars => IInv'
<1> SUFFICES ASSUME IInv, [Next]_vars PROVE IInv'
  OBVIOUS
<1> USE DEF IInv
<1>1. ASSUME NEW n \in Sizes, SetSize(n) PROVE IInv'
  BY <1>1, SizesAssumption, SetSizeInv
<1>2. ASSUME NEW e \in Entries, Insert(e) PROVE IInv'
  <2>1. /\ capacity # 0 /\ capacity' = capacity /\ e \notin inserted
        /\ next' = [next EXCEPT ![e] = entries[Pos(e)].ptr]
        /\ entries' = [entries EXCEPT ![Pos(e)] = UpdateTag(@, e)]
        /\ inserted' = inserted \cup {e} /\ num_elements' = num_elements + 1
        /\ UNCHANGED <<pc, batch, todo, cur, old_entry>> /\ AllIdle
    BY <1>2 DEF Insert, local, TypeOK
  <2>2. Pos(e) \in 0 .. capacity - 1 /\ entries[Pos(e)] \in TaggedPointers
    BY <2>1, PosInDirectory DEF TypeOK
  <2>3. UpdateTag(entries[Pos(e)], e) \in TaggedPointers
    BY <2>2, UpdateTagFacts
  <2>4. entries[Pos(e)].ptr \in Entries \cup {NULL}
    BY <2>2 DEF TaggedPointers
  <2>5. TypeOK'
    BY <2>1, <2>2, <2>3, <2>4 DEF TypeOK
  <2>6. ChainInv'
    BY <2>1, ChainPublish
  <2>7. BatchesDisjoint' /\ \A t \in Threads : ThreadInv(t)'
    BY <2>1 DEF BatchesDisjoint, ThreadInv, AllIdle, TypeOK
  <2>8. QED
    BY <2>5, <2>6, <2>7
<1>3. ASSUME NEW t \in Threads, NEW S \in SUBSET Entries, InsertBatchBegin(t, S)
      PROVE  IInv'
  <2>1. /\ pc[t] = "idle" /\ capacity # 0 /\ S \cap Taken = {}
        /\ pc' = [pc EXCEPT ![t] = IF S = {} THEN "count" ELSE "load"]
        /\ batch' = [batch EXCEPT ![t] = S] /\ todo' = [todo EXCEPT ![t] = S]
        /\ UNCHANGED <<capacity, entries, next, num_elements, inserted, cur, old_entry>>
    BY <1>3 DEF InsertBatchBegin, table, TypeOK
  <2>2. S \cap inserted = {} /\ \A u \in Threads : S \cap batch[u] = {}
    BY <2>1 DEF Taken
  <2>3. TypeOK'
    BY <2>1 DEF TypeOK
  <2>4. ChainInv'
    BY <2>1, ChainFrame
  <2>5. BatchesDisjoint'
    BY <2>1, <2>2 DEF BatchesDisjoint, TypeOK
  <2>6. \A u \in Threads : ThreadInv(u)'
    BY <2>1, <2>2 DEF ThreadInv, TypeOK
  <2>7. QED
    BY <2>3, <2>4, <2>5, <2>6
<1>4. ASSUME NEW t \in Threads, NEW e \in Entries, LoadHead(t, e) PROVE IInv'
  <2>1. /\ pc[t] = "load" /\ e \in todo[t]
        /\ cur' = [cur EXCEPT ![t] = e] /\ todo' = [todo EXCEPT ![t] = @ \ {e}]
        /\ old_entry' = [old_entry EXCEPT ![t] = entries[Pos(e)]]
        /\ pc' = [pc EXCEPT ![t] = "link"]
        /\ UNCHANGED <<capacity, entries, next, num_elements, inserted, batch>>
    BY <1>4 DEF LoadHead, table
  <2>2. capacity # 0
    BY <2>1 DEF ThreadInv
  <2>3. entries[Pos(e)] \in TaggedPointers
    BY <2>2, PosInDirectory DEF TypeOK
  <2>4. TypeOK'
    BY <2>1, <2>3 DEF TypeOK
  <2>5. ChainInv'
    BY <2>1, ChainFrame
  <2>6. BatchesDisjoint' /\ \A u \in Threads : ThreadInv(u)'
    BY <2>1, <2>2 DEF BatchesDisjoint, ThreadInv, TypeOK
  <2>7. QED
    BY <2>4, <2>5, <2>6
<1>5. ASSUME NEW t \in Threads, Link(t) PROVE IInv'
  <2>1. /\ pc[t] = "link"
        /\ next' = [next EXCEPT ![cur[t]] = old_entry[t].ptr]
        /\ pc' = [pc EXCEPT ![t] = "cas"]
        /\ UNCHANGED <<capacity, entries, num_elements, inserted, batch, todo, cur, old_entry>>
    BY <1>5 DEF Link
  <2>2. cur[t] \in Entries /\ cur[t] \in batch[t] /\ cur[t] \notin inserted
    BY <2>1 DEF ThreadInv, TypeOK
  <2>3. old_entry[t].ptr \in Entries \cup {NULL}
    BY DEF TypeOK, TaggedPointers
  <2>4. TypeOK'
    BY <2>1, <2>3 DEF TypeOK
  <2>5. \A x \in inserted : next'[x] = next[x]
    BY <2>1, <2>2 DEF TypeOK
  <2>6. ChainInv'
    BY <2>1, <2>5, ChainFrame
  <2>7. BatchesDisjoint'
    BY <2>1 DEF BatchesDisjoint
  <2>8. ThreadInv(t)'
    BY <2>1, <2>2 DEF ThreadInv, TypeOK
  <2>9. ASSUME NEW u \in Threads, u # t PROVE ThreadInv(u)'
    <3>1. pc[u] \in {"link", "cas"} => cur[u] \in batch[u] /\ cur[u] # cur[t]
      BY <2>2, <2>9 DEF BatchesDisjoint, ThreadInv
    <3>2. QED
      BY <2>1, <2>2, <2>9, <3>1 DEF ThreadInv, TypeOK
  <2>10. QED
    BY <2>4, <2>6, <2>7, <2>8, <2>9
<1>6. ASSUME NEW t \in Threads, CasSucceed(t) PROVE IInv'
  <2> DEFINE e == cur[t]
  <2>1. /\ pc[t] = "cas" /\ entries[Pos(e)] = old_entry[t]
        /\ entries' = [entries EXCEPT ![Pos(e)] = UpdateTag(old_entry[t], e)]
        /\ inserted' = inserted \cup {e}
        /\ pc' = [pc EXCEPT ![t] = IF todo[t] = {} THEN "count" ELSE "load"]
        /\ UNCHANGED <<capacity, next, num_elements, batch, todo, cur, old_entry>>
    BY <1>6 DEF CasSucceed
  <2>2. /\ e \in Entries /\ e \in batch[t] /\ e \notin inserted /\ e \notin todo[t]
        /\ capacity # 0 /\ next[e] = old_entry[t].ptr
    BY <2>1 DEF ThreadInv, TypeOK
  <2> HIDE DEF e
  <2>3. Pos(e) \in 0 .. capacity - 1 /\ old_entry[t] \in TaggedPointers
    BY <2>2, PosInDirectory DEF TypeOK
  <2>4. UpdateTag(old_entry[t], e) \in TaggedPointers
    BY <2>2, <2>3, UpdateTagFacts
  <2>5. TypeOK'
    BY <2>1, <2>2, <2>3, <2>4 DEF TypeOK
  <2>6. next' = [next EXCEPT ![e] = entries[Pos(e)].ptr]
    BY <2>1, <2>2 DEF TypeOK
  <2>7. entries' = [entries EXCEPT ![Pos(e)] = UpdateTag(@, e)]
    BY <2>1, <2>3 DEF TypeOK
  <2>8. ChainInv'
    BY <2>1, <2>2, <2>6, <2>7, ChainPublish
  <2>9. BatchesDisjoint'
    BY <2>1 DEF BatchesDisjoint
  <2>10. ThreadInv(t)'
    BY <2>1, <2>2 DEF ThreadInv, TypeOK
  <2>11. ASSUME NEW u \in Threads, u # t PROVE ThreadInv(u)'
    <3>1. e \notin batch[u]
      BY <2>2, <2>11 DEF BatchesDisjoint
    <3>2. QED
      BY <2>1, <2>2, <2>11, <3>1 DEF ThreadInv, TypeOK
  <2>12. QED
    BY <2>5, <2>8, <2>9, <2>10, <2>11
<1>7. ASSUME NEW t \in Threads, CasFail(t) PROVE IInv'
  <2>1. /\ pc[t] = "cas"
        /\ old_entry' = [old_entry EXCEPT ![t] = entries[Pos(cur[t])]]
        /\ pc' = [pc EXCEPT ![t] = "link"]
        /\ UNCHANGED <<capacity, entries, next, num_elements, inserted, batch, todo, cur>>
    BY <1>7 DEF CasFail, table
  <2>2. cur[t] \in Entries /\ capacity # 0
    BY <2>1 DEF ThreadInv, TypeOK
  <2>3. entries[Pos(cur[t])] \in TaggedPointers
    BY <2>2, PosInDirectory DEF TypeOK
  <2>4. TypeOK'
    BY <2>1, <2>3 DEF TypeOK
  <2>5. ChainInv'
    BY <2>1, ChainFrame
  <2>6. BatchesDisjoint' /\ \A u \in Threads : ThreadInv(u)'
    BY <2>1 DEF BatchesDisjoint, ThreadInv, TypeOK
  <2>7. QED
    BY <2>4, <2>5, <2>6
<1>8. ASSUME NEW t \in Threads, AddElementCount(t) PROVE IInv'
  <2>1. /\ pc[t] = "count"
        /\ num_elements' = num_elements + Cardinality(batch[t])
        /\ pc' = [pc EXCEPT ![t] = "idle"] /\ batch' = [batch EXCEPT ![t] = {}]
        /\ cur' = [cur EXCEPT ![t] = NULL] /\ old_entry' = [old_entry EXCEPT ![t] = Empty]
        /\ UNCHANGED <<capacity, entries, next, inserted, todo>>
    BY <1>8 DEF AddElementCount
  <2>2. todo[t] = {}
    BY <2>1 DEF ThreadInv
  <2>3. Cardinality(batch[t]) \in Nat
    BY FS_CardinalityType, FS_Subset, EntriesAssumption DEF TypeOK
  <2>4. Empty \in TaggedPointers
    BY DEF Empty, TaggedPointers
  <2>5. TypeOK'
    BY <2>1, <2>3, <2>4 DEF TypeOK
  <2>6. ChainInv'
    BY <2>1, ChainFrame
  <2>7. BatchesDisjoint' /\ \A u \in Threads : ThreadInv(u)'
    BY <2>1, <2>2 DEF BatchesDisjoint, ThreadInv, TypeOK
  <2>8. QED
    BY <2>5, <2>6, <2>7
<1>9. CASE UNCHANGED vars
  <2>1. UNCHANGED <<capacity, entries, next, num_elements, inserted,
                    pc, batch, todo, cur, old_entry>>
    BY <1>9 DEF vars, table, local
  <2>2. TypeOK' /\ BatchesDisjoint' /\ \A u \in Threads : ThreadInv(u)'
    BY <2>1 DEF TypeOK, BatchesDisjoint, ThreadInv
  <2>3. QED
    BY <2>1, <2>2, ChainFrame
<1>10. QED
  BY <1>1, <1>2, <1>3, <1>4, <1>5, <1>6, <1>7, <1>8, <1>9 DEF Next, InsertStep

(* The inductive invariant of concurrent insertion (InsertTagged and its    *)
(* callers): types, well-founded chains, disjoint batches, and what each    *)
(* thread knows at its place in the exchange loop.                          *)
THEOREM InvariantHolds == Spec => []IInv
<1>1. QED
  BY InitInv, NextInv, PTL DEF Spec

(* Whatever the threads, entries and sizes, the variables of the table keep *)
(* their types: in particular the head of every bucket of the directory     *)
(* allocated by the last SetSize is null or a pointer to an entry.          *)
THEOREM TypeCorrect == Spec => []TypeOK
<1>1. IInv => TypeOK
  BY DEF IInv
<1>2. QED
  BY <1>1, InvariantHolds, PTL

----------------------------------------------------------------------------
(* The set of published entries of a bucket is what a walk from its head    *)
(* meets.                                                                   *)
LEMMA WalkIsBucket ==
  ASSUME IInv, NEW b \in 0 .. capacity - 1
  PROVE  Chain(b) = {e \in inserted : Pos(e) = b}
<1> DEFINE B == {e \in inserted : Pos(e) = b}
           h == entries[b].ptr
<1>1. inserted \subseteq Entries
  BY DEF IInv, TypeOK
<1>2. ClosedFrom(h, B)
  BY DEF IInv, ChainInv, HeadsInserted, LinksStayInBucket, ClosedFrom
<1>3. Chain(b) \subseteq B
  BY <1>1, <1>2 DEF Chain, WalkFrom
<1>4. ASSUME NEW e \in B, NEW S \in SUBSET Entries, ClosedFrom(h, S) PROVE e \in S
  <2> DEFINE T == S \cap inserted
  <2>1. T \in SUBSET inserted /\ ClosedFrom(h, T)
    BY <1>4 DEF IInv, ChainInv, HeadsInserted, LinksStayInBucket, ClosedFrom
  <2>2. QED
    BY <2>1 DEF IInv, ChainInv, WalkMeetsAll
<1>5. B \subseteq Chain(b)
  BY <1>1, <1>4 DEF Chain, WalkFrom
<1>6. QED
  BY <1>3, <1>5

(* No racing insertion is lost, misplaced or visible too early, for any     *)
(* number of threads: InsertTagged and InsertUntagged with weak exchanges   *)
(* leave every bucket's chain with exactly the published entries.           *)
THEOREM ChainsAreComplete == Spec => []ChainComplete
<1>1. IInv => ChainComplete
  <2> SUFFICES ASSUME IInv, NEW b \in DOMAIN entries
               PROVE  Chain(b) = {e \in inserted : Pos(e) = b}
    BY DEF ChainComplete
  <2>1. b \in 0 .. capacity - 1
    BY DEF IInv, TypeOK
  <2>2. QED
    BY <2>1, WalkIsBucket
<1>2. QED
  BY <1>1, InvariantHolds, PTL

(* No chain has a cycle, so the loops that follow next until null end.      *)
THEOREM ChainsEnd == Spec => []ChainEnds
<1>1. IInv => ChainEnds
  BY DEF IInv, ChainInv
<1>2. QED
  BY <1>1, InvariantHolds, PTL

(* FindChainHead never answers null for the hash of a published entry, with *)
(* tags or without: UpdateTag carries every earlier tag bit over.           *)
THEOREM TagsHideNothing == Spec => []NoFalseNegative
<1>1. ASSUME IInv, NEW e \in inserted PROVE FindChainHead(Hash[e]) # NULL
  <2>1. e \in Entries /\ capacity \in Nat /\ capacity # 0
    BY <1>1 DEF IInv, TypeOK, ChainInv, SizedFirst
  <2>2. Pos(e) \in 0 .. capacity - 1
    BY <2>1, PosInDirectory
  <2>3. entries[Pos(e)].ptr # NULL
    <3> SUFFICES ASSUME entries[Pos(e)].ptr = NULL PROVE FALSE
      OBVIOUS
    <3>1. ClosedFrom(entries[Pos(e)].ptr, {})
      BY DEF ClosedFrom
    <3>2. QED
      BY <1>1, <2>2, <3>1 DEF IInv, ChainInv, WalkMeetsAll
  <2>4. UseTags => TagHash(Hash[e]) \cap entries[Pos(e)].tag # {}
    BY <1>1 DEF IInv, ChainInv, TagsKept, TagHash
  <2>5. QED
    BY <2>3, <2>4 DEF FindChainHead, FindChainHeadTagged, FindChainHeadUntagged, Pos
<1>2. IInv => NoFalseNegative
  BY <1>1 DEF NoFalseNegative
<1>3. QED
  BY <1>2, InvariantHolds, PTL

----------------------------------------------------------------------------
WalkMeetsInserted == Reachable = inserted

(* What a reader can walk to is exactly what was published. *)
LEMMA ReachableIsInserted == IInv => WalkMeetsInserted
<1> SUFFICES ASSUME IInv PROVE Reachable = inserted
  BY DEF WalkMeetsInserted
<1>1. DOMAIN entries = 0 .. capacity - 1
  BY DEF IInv, TypeOK
<1>2. \A b \in 0 .. capacity - 1 : Chain(b) = {e \in inserted : Pos(e) = b}
  BY WalkIsBucket
<1>3. \A e \in inserted : Pos(e) \in 0 .. capacity - 1
  BY PosInDirectory DEF IInv, TypeOK, ChainInv, SizedFirst
<1>4. QED
  BY <1>1, <1>2, <1>3 DEF Reachable

(* Every step changes the set of published entries in one of the ways       *)
(* EntrySet allows, or not at all.                                          *)
LEMMA InsertedStep ==
  ASSUME IInv, [Next]_vars
  PROVE  \/ \E e \in Entries : e \notin inserted /\ inserted' = inserted \cup {e}
         \/ inserted' = {}
         \/ inserted' = inserted
<1>1. ASSUME NEW t \in Threads, CasSucceed(t)
      PROVE  cur[t] \in Entries /\ cur[t] \notin inserted
  BY <1>1 DEF IInv, TypeOK, ThreadInv, CasSucceed
<1>2. ASSUME NEW t \in Threads, InsertStep(t)
      PROVE  \/ cur[t] \in Entries /\ cur[t] \notin inserted
                   /\ inserted' = inserted \cup {cur[t]}
             \/ inserted' = inserted
  BY <1>1, <1>2 DEF InsertStep, LoadHead, Link, CasSucceed, CasFail, AddElementCount, table
<1>3. QED
  BY <1>2 DEF Next, SetSize, Insert, InsertBatchBegin, table, local, vars

(* The lock-free table implements the atomic set: an insertion takes effect *)
(* at its successful exchange, and readers never observe a partial state.   *)
THEOREM TableImplementsEntrySet == Spec => ImplementsEntrySet
<1>1. Init => Set!Init
  <2> SUFFICES ASSUME Init PROVE Set!Init
    OBVIOUS
  <2>1. Reachable = inserted
    BY InitInv, ReachableIsInserted DEF WalkMeetsInserted
  <2>2. QED
    BY <2>1 DEF Init, Set!Init
<1>2. IInv' => WalkMeetsInserted'
  BY ReachableIsInserted, PTL
<1>3. IInv /\ IInv' /\ [Next]_vars => [Set!Next]_Reachable
  <2> SUFFICES ASSUME IInv, IInv', [Next]_vars PROVE [Set!Next]_Reachable
    OBVIOUS
  <2>1. Reachable = inserted /\ Reachable' = inserted'
    BY <1>2, ReachableIsInserted DEF WalkMeetsInserted
  <2>2. QED
    BY <2>1, InsertedStep DEF Set!Next, Set!Add, Set!Clear
<1>4. QED
  BY <1>1, <1>3, InvariantHolds, PTL DEF Spec, ImplementsEntrySet, Set!Spec

----------------------------------------------------------------------------
(* The element count: it is the number of published entries that belong to  *)
(* no batch still in flight, because a batch is counted as a whole, after   *)
(* its last entry was published.                                            *)

InFlight == {e \in Entries : \E t \in Threads : e \in batch[t]}

BatchProgress(t) ==
  \A e \in batch[t] :
    e \in inserted \/ e \in todo[t] \/ (pc[t] \in {"link", "cas"} /\ e = cur[t])

CountInv ==
  /\ num_elements = Cardinality(inserted \ InFlight)
  /\ \A t \in Threads : BatchProgress(t)

(* Subsets of the entries are finite and have a size. *)
LEMMA EntriesFinite ==
  ASSUME NEW S \in SUBSET Entries
  PROVE  IsFiniteSet(S) /\ Cardinality(S) \in Nat
  BY FS_Subset, FS_CardinalityType, EntriesAssumption

(* A new table counts nothing. *)
LEMMA InitCount == Init => CountInv
<1>1. Init => inserted \ InFlight = {} /\ num_elements = 0
  BY DEF Init
<1>2. QED
  BY <1>1, FS_EmptySet DEF Init, CountInv, BatchProgress

(* A table that was just sized counts nothing. *)
LEMMA SetSizeCount ==
  ASSUME IInv, CountInv, NEW n, SetSize(n)
  PROVE  CountInv'
<1>1. inserted' \ InFlight' = {} /\ num_elements' = 0
  BY DEF SetSize
<1>2. \A t \in Threads : BatchProgress(t)'
  BY DEF SetSize, local, AllIdle, BatchProgress, IInv, ThreadInv
<1>3. QED
  BY <1>1, <1>2, FS_EmptySet DEF CountInv

(* Counting is exact at every step, given the invariant of the chains. *)
LEMMA NextCount == IInv /\ CountInv /\ [Next]_vars => CountInv'
<1> SUFFICES ASSUME IInv, CountInv, [Next]_vars PROVE CountInv'
  OBVIOUS
<1> USE DEF CountInv
<1>0. TypeOK /\ inserted \subseteq Entries
  BY DEF IInv, TypeOK
<1>1. ASSUME NEW n \in Sizes, SetSize(n) PROVE CountInv'
  BY <1>1, SetSizeCount
<1>2. ASSUME NEW e \in Entries, Insert(e) PROVE CountInv'
  <2>1. InFlight = {} /\ InFlight' = {}
    BY <1>2 DEF Insert, local, AllIdle, InFlight, IInv, ThreadInv
  <2>2. Cardinality(inserted \cup {e}) = Cardinality(inserted) + 1
    BY <1>0, <1>2, EntriesFinite, FS_AddElement DEF Insert
  <2>3. inserted' = inserted \cup {e} /\ num_elements' = num_elements + 1
    BY <1>2 DEF Insert
  <2>4. inserted' \ InFlight' = inserted \cup {e} /\ inserted \ InFlight = inserted
    BY <2>1, <2>3
  <2>5. \A t \in Threads : BatchProgress(t)'
    BY <1>2 DEF Insert, local, BatchProgress
  <2>6. QED
    BY <2>2, <2>3, <2>4, <2>5
<1>3. ASSUME NEW t \in Threads, NEW S \in SUBSET Entries, InsertBatchBegin(t, S)
      PROVE  CountInv'
  <2>1. /\ pc[t] = "idle" /\ S \cap inserted = {}
        /\ batch' = [batch EXCEPT ![t] = S] /\ todo' = [todo EXCEPT ![t] = S]
        /\ pc' = [pc EXCEPT ![t] = IF S = {} THEN "count" ELSE "load"]
        /\ UNCHANGED <<inserted, num_elements, cur>>
    BY <1>3 DEF InsertBatchBegin, table, Taken
  <2>2. batch[t] = {}
    BY <2>1 DEF IInv, ThreadInv
  <2>3. inserted' \ InFlight' = inserted \ InFlight
    BY <1>0, <2>1, <2>2 DEF InFlight, TypeOK
  <2>4. \A u \in Threads : BatchProgress(u)'
    BY <1>0, <2>1 DEF BatchProgress, TypeOK
  <2>5. QED
    BY <2>1, <2>3, <2>4
<1>4. ASSUME NEW t \in Threads, NEW e \in Entries, LoadHead(t, e) PROVE CountInv'
  <2>1. inserted' \ InFlight' = inserted \ InFlight /\ num_elements' = num_elements
    BY <1>4 DEF LoadHead, table, InFlight
  <2>2. \A u \in Threads : BatchProgress(u)'
    BY <1>0, <1>4 DEF LoadHead, table, BatchProgress, TypeOK
  <2>3. QED
    BY <2>1, <2>2
<1>5. ASSUME NEW t \in Threads, Link(t) \/ CasFail(t) PROVE CountInv'
  <2>1. inserted' \ InFlight' = inserted \ InFlight /\ num_elements' = num_elements
    BY <1>5 DEF Link, CasFail, table, InFlight
  <2>2. \A u \in Threads : BatchProgress(u)'
    BY <1>0, <1>5 DEF Link, CasFail, table, BatchProgress, TypeOK
  <2>3. QED
    BY <2>1, <2>2
<1>6. ASSUME NEW t \in Threads, CasSucceed(t) PROVE CountInv'
  <2>1. cur[t] \in batch[t]
    BY <1>6 DEF CasSucceed, IInv, ThreadInv
  <2>2. /\ inserted' = inserted \cup {cur[t]} /\ UNCHANGED <<batch, todo, cur, num_elements>>
        /\ pc' = [pc EXCEPT ![t] = IF todo[t] = {} THEN "count" ELSE "load"]
    BY <1>6 DEF CasSucceed
  <2>3. inserted' \ InFlight' = inserted \ InFlight
    BY <1>0, <2>1, <2>2 DEF InFlight, TypeOK
  <2>4. \A u \in Threads : BatchProgress(u)'
    BY <1>0, <2>2 DEF BatchProgress, TypeOK
  <2>5. QED
    BY <2>2, <2>3, <2>4
<1>7. ASSUME NEW t \in Threads, AddElementCount(t) PROVE CountInv'
  <2> DEFINE A == inserted \ InFlight
             B == batch[t]
  <2>1. /\ pc[t] = "count" /\ num_elements' = num_elements + Cardinality(B)
        /\ pc' = [pc EXCEPT ![t] = "idle"] /\ batch' = [batch EXCEPT ![t] = {}]
        /\ UNCHANGED <<inserted, todo>> /\ cur' = [cur EXCEPT ![t] = NULL]
    BY <1>7 DEF AddElementCount
  <2>2. B \subseteq inserted
    BY <2>1 DEF BatchProgress, IInv, ThreadInv
  <2>3. A \cap B = {} /\ A \subseteq Entries /\ B \subseteq Entries
    BY <1>0, <2>2 DEF InFlight
  <2>4. \A u \in Threads : u # t => batch[u] \cap B = {}
    BY DEF IInv, BatchesDisjoint
  <2>5. inserted' \ InFlight' = A \cup B
    BY <1>0, <2>1, <2>2, <2>4 DEF InFlight, TypeOK
  <2>6. Cardinality(A \cup B) = Cardinality(A) + Cardinality(B)
    <3>1. /\ IsFiniteSet(A) /\ IsFiniteSet(B)
          /\ Cardinality(A) \in Nat /\ Cardinality(B) \in Nat /\ Cardinality(A \cap B) = 0
      BY <2>3, EntriesFinite, FS_EmptySet
    <3> HIDE DEF A, B
    <3>2. Cardinality(A \cup B) = Cardinality(A) + Cardinality(B) - Cardinality(A \cap B)
      BY <3>1, FS_Union, Zenon
    <3>3. QED
      BY <3>1, <3>2
  <2>7. \A u \in Threads : BatchProgress(u)'
    BY <1>0, <2>1 DEF BatchProgress, TypeOK
  <2>8. QED
    BY <2>1, <2>5, <2>6, <2>7
<1>8. CASE UNCHANGED vars
  BY <1>8 DEF vars, table, local, InFlight, BatchProgress
<1>9. QED
  BY <1>1, <1>2, <1>3, <1>4, <1>5, <1>6, <1>7, <1>8 DEF Next, InsertStep

(* The element count never runs ahead of the chains, and once no batch is   *)
(* in flight it is the number of entries in the table.                      *)
THEOREM CountIsExact == Spec => []CountSettles
<1>1. IInv /\ CountInv => CountSettles
  <2> SUFFICES ASSUME IInv, CountInv PROVE CountSettles
    OBVIOUS
  <2>1. inserted \in SUBSET Entries /\ inserted \ InFlight \subseteq inserted
    BY DEF IInv, TypeOK
  <2>2. Cardinality(inserted \ InFlight) <= Cardinality(inserted)
    BY <2>1, EntriesFinite, FS_Subset
  <2>3. AllIdle => inserted \ InFlight = inserted
    BY DEF AllIdle, InFlight, IInv, ThreadInv
  <2>4. QED
    BY <2>2, <2>3 DEF CountSettles, CountInv
<1>2. QED
  BY <1>1, InitCount, NextCount, InvariantHolds, PTL DEF Spec
=============================================================================
