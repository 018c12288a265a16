--------------------------- MODULE ConciseHashTable ---------------------------
(***************************************************************************)
(* The concise join index.  A bitmap, split into groups of slots, says     *)
(* which slots are taken; every group keeps the number of taken slots up   *)
(* to and including itself.  A build tuple's place in the tuple buffer is  *)
(* the number of taken slots before its own, so Build() moves the tuples   *)
(* inside the buffer: those that took a slot to the front, in slot order,  *)
(* those that found none (overflow) behind them, contiguous per slot, each *)
(* chain linked from the tuple that has the slot.  Both moves go through a *)
(* reorder buffer that holds only some of the tuples.                      *)
(*                                                                         *)
(* An entry is the tuple it holds, the slot it was given and the two tag   *)
(* bits the reordering uses; places in the buffer are counted from 0.  One *)
(* thread builds a table; every step is one turn of a loop of the build.   *)
(***************************************************************************)
EXTENDS Integers, Sequences, FiniteSets, FiniteSetsExt

(* ProbeLimitOne is a faulty variant, kept to show that a property can fail. *)

CONSTANTS
  kMinNumSlots, kLoadFactor, kSlotsPerGroup,
  MaxBuffered   (* tuples a reorder buffer holds besides its spare one      *)

ASSUME SlotsAssumption ==
  kMinNumSlots \in Nat \ {0} /\ kLoadFactor \in Nat /\ kSlotsPerGroup \in Nat \ {0}

\* A reorder buffer of 16 KB holds a tuple and the spare one: larger tuples
\* leave no room for either, and nothing would be moved.
ASSUME MaxBufferedAssumption == MaxBuffered \in Nat \ {0}

VARIABLES
  stage,          (* "idle", "insert", "fill", "place" or "built"           *)
  area,           (* the tuples being moved: "main" or "overflow"           *)
  capacity,       (* number of slots                                        *)
  bits,           (* the taken slots                                        *)
  num_overflow,   (* tuples that found no free slot                         *)
  entries,        (* the tuple buffer                                       *)
  overflow_count, (* of the main entries                                    *)
  next,           (* of all entries                                         *)
  read_idx,       (* next place to read                                     *)
  overflow_idx,   (* next place of the overflow area to write               *)
  buf,            (* the reorder buffer                                     *)
  idx,            (* the buffered entry to place                            *)
  buf_write_idx   (* where an entry that has to make room is buffered       *)

table   == <<capacity, bits, num_overflow, overflow_count, next>>
cursors == <<read_idx, overflow_idx, idx, buf_write_idx>>
concise == <<stage, area, table, entries, buf, cursors>>

NoEntry == -1

NumEntries == Cardinality(DOMAIN entries)
NumMain    == NumEntries - num_overflow

----------------------------------------------------------------------------
(* SetSize, Insert, Build *)

\* llvm::PowerOf2Floor: the result, in a set that is empty where it is 0.
PowerOf2Floor(n) == {p \in 1 .. n : (\E k \in 0 .. n : p = 2 ^ k) /\ n < 2 * p}

SetSize(n) ==
  IF \E p \in PowerOf2Floor(n * kLoadFactor) : p > kMinNumSlots
  THEN CHOOSE p \in PowerOf2Floor(n * kLoadFactor) : p > kMinNumSlots
  ELSE kMinNumSlots

GroupIndex(slot) == slot \div kSlotsPerGroup

\* The default of the constructor.
ProbeLimitOne == 1

\* JoinHashTable constructs its table with a probe limit of zero.
ProbeLimit == 0

\* The slots an insertion may take: it never leaves the group.
Probed(slot) == {s \in slot .. slot + ProbeLimit : GroupIndex(s) = GroupIndex(slot)}

\* rows is the tuple buffer: the table is sized for it.
BeginBuild(rows) ==
  /\ stage = "idle"
  /\ stage' = "insert" /\ area' = "main"
  /\ capacity' = SetSize(Len(rows)) /\ bits' = {} /\ num_overflow' = 0
  /\ entries' = [i \in 0 .. Len(rows) - 1 |->
                   [row |-> rows[i + 1], slot |-> NoEntry, buffered |-> FALSE, processed |-> FALSE]]
  /\ overflow_count' = <<>> /\ next' = <<>> /\ buf' = <<>>
  /\ read_idx' = 0 /\ overflow_idx' = 0 /\ idx' = 1 /\ buf_write_idx' = 1

\* Insert of one more tuple: the first free slot, or the last one probed.
Insert ==
  /\ stage = "insert" /\ read_idx < NumEntries
  /\ LET probed == Probed(entries[read_idx].row.hash % capacity)
         free   == probed \ bits
         slot   == IF free # {} THEN Min(free) ELSE Max(probed)
     IN  /\ bits' = bits \cup {slot}
         /\ num_overflow' = IF free = {} THEN num_overflow + 1 ELSE num_overflow
         /\ entries' = [entries EXCEPT ![read_idx].slot = slot]
  /\ read_idx' = read_idx + 1
  /\ UNCHANGED <<stage, area, capacity, overflow_count, next, buf, overflow_idx, idx, buf_write_idx>>

\* Build: the prefix count of a group, the group itself included.
PrefixCount(g) == Cardinality({s \in bits : GroupIndex(s) <= g})

NumFilledSlotsBefore(slot) ==
  LET g == GroupIndex(slot)
  IN  PrefixCount(g) - Cardinality({s \in bits : GroupIndex(s) = g /\ s >= slot})

\* The start of ReorderMainEntries.
Inserted ==
  /\ stage = "insert" /\ read_idx = NumEntries
  /\ stage' = "fill" /\ read_idx' = 0 /\ overflow_idx' = NumMain
  /\ UNCHANGED <<area, table, entries, buf, idx, buf_write_idx>>

----------------------------------------------------------------------------
(* ReorderBuffer *)

EndReadIdx == IF area = "main" THEN NumMain ELSE NumEntries

CanFill == Len(buf) < MaxBuffered /\ read_idx < EndReadIdx

\* A turn of Fill: an unprocessed entry is copied, and tagged where it stands.
Fill ==
  /\ stage = "fill" /\ CanFill
  /\ read_idx' = read_idx + 1
  /\ IF entries[read_idx].processed THEN UNCHANGED <<entries, buf>>
     ELSE /\ buf' = Append(buf, entries[read_idx])
          /\ entries' = [entries EXCEPT ![read_idx].buffered = TRUE]
  /\ UNCHANGED <<stage, area, table, overflow_idx, idx, buf_write_idx>>

\* Fill returned true.
Filled ==
  /\ stage = "fill" /\ ~CanFill /\ buf # <<>>
  /\ stage' = "place" /\ idx' = 1 /\ buf_write_idx' = 1
  /\ UNCHANGED <<area, table, entries, buf, read_idx, overflow_idx>>

\* Store entry e at dest.  Unless the entry there is in the reorder buffer
\* already, it takes a place of the buffer that is done with.
Store(e, dest) ==
  /\ entries' = [entries EXCEPT ![dest] = e]
  /\ IF entries[dest].buffered THEN UNCHANGED <<buf, buf_write_idx>>
     ELSE /\ buf' = [buf EXCEPT ![buf_write_idx] = entries[dest]]
          /\ buf_write_idx' = buf_write_idx + 1
  /\ idx' = idx + 1

\* ReorderMainEntries: the first entry to arrive takes the place of its slot
\* in the main area, later ones go to the overflow area as they come.
PlaceMain ==
  /\ stage = "place" /\ area = "main" /\ idx <= Len(buf)
  /\ LET home == NumFilledSlotsBefore(buf[idx].slot)
     IN  IF entries[home].processed
         THEN Store(buf[idx], overflow_idx) /\ overflow_idx' = overflow_idx + 1
         ELSE Store([buf[idx] EXCEPT !.processed = TRUE], home) /\ UNCHANGED overflow_idx
  /\ UNCHANGED <<stage, area, table, read_idx>>

\* ReorderOverflowEntries, step 4: the overflow count of the entry that has
\* the slot is one more than the last free place of its chain.
PlaceOverflow ==
  /\ stage = "place" /\ area = "overflow" /\ idx <= Len(buf)
  /\ LET parent == NumFilledSlotsBefore(buf[idx].slot)
         dest   == overflow_count[parent] - 1
     IN  /\ overflow_count' = [overflow_count EXCEPT ![parent] = dest]
         /\ Store([buf[idx] EXCEPT !.processed = TRUE], dest)
  /\ UNCHANGED <<stage, area, capacity, bits, num_overflow, next, read_idx, overflow_idx>>

\* Reset(buf_write_idx), after the last buffered entry.
Placed ==
  /\ stage = "place" /\ idx > Len(buf)
  /\ buf' = SubSeq(buf, 1, buf_write_idx - 1)
  /\ stage' = "fill" /\ idx' = 1 /\ buf_write_idx' = 1
  /\ UNCHANGED <<area, table, entries, read_idx, overflow_idx>>

----------------------------------------------------------------------------
(* ReorderOverflowEntries *)

\* The overflow entries whose slot has its place up to p.
OverflowUpTo(p) == {j \in NumMain .. NumEntries - 1 : NumFilledSlotsBefore(entries[j].slot) <= p}

\* Steps 1 to 3: the chain length of every main entry, turned into the place
\* behind its chain by a prefix sum.
OverflowCounts ==
  [p \in 0 .. NumMain - 1 |->
     IF OverflowUpTo(p) = OverflowUpTo(p - 1) THEN NoEntry
     ELSE NumMain + Cardinality(OverflowUpTo(p))]

\* Fill returned false for the main entries.
MainReordered ==
  /\ stage = "fill" /\ area = "main" /\ ~CanFill /\ buf = <<>>
  /\ area' = "overflow" /\ read_idx' = NumMain
  /\ overflow_count' = OverflowCounts
  /\ UNCHANGED <<stage, capacity, bits, num_overflow, next, entries, buf, overflow_idx, idx, buf_write_idx>>

\* Step 5: the count of a main entry is now the place of its first overflow
\* entry; overflow entries of one slot are neighbours.
ChainHookup ==
  [p \in DOMAIN entries |->
     IF p < NumMain THEN overflow_count[p]
     ELSE IF p < NumEntries - 1 /\ entries[p].slot = entries[p + 1].slot THEN p + 1
     ELSE NoEntry]

OverflowReordered ==
  /\ stage = "fill" /\ area = "overflow" /\ ~CanFill /\ buf = <<>>
  /\ stage' = "built" /\ next' = ChainHookup
  /\ UNCHANGED <<area, capacity, bits, num_overflow, overflow_count, entries, buf, cursors>>

\* BuildConciseHashTable, after SetSize.
BuildStep ==
  \/ Insert \/ Inserted
  \/ Fill \/ Filled \/ PlaceMain \/ PlaceOverflow \/ Placed
  \/ MainReordered \/ OverflowReordered

----------------------------------------------------------------------------
(* Lookup: the chain of entries for a hash, empty if the slot is free *)

\* The places on the chain that starts at p.  A walk is cut after as many
\* steps as there are entries, so that a cycle shows as a repeated entry.
Walk(p) ==
  LET walk[n \in 0 .. NumEntries] ==
        IF n = 0 THEN <<p>>
        ELSE LET w == walk[n - 1]
             IN  IF next[w[Len(w)]] = NoEntry THEN w ELSE Append(w, next[w[Len(w)]])
  IN  walk[NumEntries]

LookupConcise(hash) ==
  LET slot == hash % capacity
      walk == Walk(NumFilledSlotsBefore(slot))
  IN  IF slot \in bits THEN [i \in 1 .. Len(walk) |-> entries[walk[i]].row] ELSE <<>>

ConciseInit ==
  /\ stage = "idle" /\ area = "main"
  /\ capacity = kMinNumSlots /\ bits = {} /\ num_overflow = 0
  /\ entries = <<>> /\ overflow_count = <<>> /\ next = <<>> /\ buf = <<>>
  /\ read_idx = 0 /\ overflow_idx = 0 /\ idx = 1 /\ buf_write_idx = 1
=============================================================================
