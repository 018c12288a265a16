----------------------------- MODULE JoinManager -----------------------------
(***************************************************************************)
(* A vectorized pipeline: vectors of a scan are filtered by the scan's     *)
(* filter manager and joined, by a join manager, with several built join   *)
(* hash tables at once, or given to one semi or anti join probe.           *)
(*                                                                         *)
(* The join manager first runs its own filter manager: term k initialises  *)
(* probe k with the tuples still in the list and keeps those that found a  *)
(* chain.  Every Next() then produces one vector of tuples with, for each  *)
(* table, a matching entry: the last probe moves fastest, and when it has  *)
(* no more, the one before it moves and the last is reset.  All probes     *)
(* filter one shared projection, whose selection has to be put back before *)
(* a probe moves on.  Build, Next and the probe of a semi or anti join are *)
(* loops of one thread: each step here is one turn of such a loop.         *)
(*                                                                         *)
(* All vectors of a run have the same size.  After a vector of another     *)
(* size that its filter emptied early, a probe still has lists of the old  *)
(* size, and the intersection in NextInnerJoin of lists whose sizes differ *)
(* breaks the precondition of BitVector::Intersect.                        *)
(***************************************************************************)
EXTENDS ConciseHashTable, VectorProbe, Functions

(* JoinNextFresh is a faulty variant, kept to show that a property can fail. *)

CONSTANTS
  BuildSides,   (* the tables: for each, concise or not, and its rows       *)
  NumJoins,
  NumBuckets,   (* buckets of a chaining table                              *)
  HashOf,       (* hash of a key                                            *)
  TagOf,        (* tag of a hash in a chaining table's bucket               *)
  Vectors,      (* the vectors a scan may return                            *)
  Clauses,      (* the scan's predicate: a sequence of sequences of terms   *)
  MaxVectors    (* bound on the number of vectors in a run                  *)

Joins == 1 .. NumJoins

ASSUME JoinsAssumption == NumJoins \in Nat \ {0} /\ NumBuckets \in Nat \ {0}

ASSUME HashAssumption == \A key \in DOMAIN HashOf : HashOf[key] \in Nat

\* The tuple buffer of a table holds different entries, each with its hash.
ASSUME BuildSidesAssumption ==
  \A b \in BuildSides : \A k \in Joins :
    /\ b[k].rows \in Seq(Range(b[k].rows)) /\ IsInjective(b[k].rows)
    /\ \A r \in Range(b[k].rows) : r.key \in DOMAIN HashOf /\ r.hash = HashOf[r.key]

ASSUME VectorsAssumption ==
  \A v \in Vectors : \A k \in Joins : \A t \in Tids : v.keys[k][t] \in DOMAIN HashOf

ASSUME ClausesAssumption ==
  /\ Clauses \in Seq(Range(Clauses))
  /\ \A c \in DOMAIN Clauses : Clauses[c] \in Seq(Range(Clauses[c]))

VARIABLES
  tables,       (* the build side                                           *)
  chains,       (* what LookupBatch returns, for each built table and hash  *)
  phase,        (* "build", "scan", "filter", "prepare", "join", "advance"  *)
                (* inside of a call of Next, or "semi"                      *)
  count,        (* vectors read so far                                      *)
  vector,       (* the current vector                                       *)
  scan_orders,  (* terms_ of the clauses of the scan's filter manager       *)
  join_order,   (* terms_ of the only clause of the join's                  *)
  selected,     (* the selection of the shared vector projection            *)
  input_tids,   (* input_tid_list_                                          *)
  probes,
  first_join,
  at,           (* the probe that moves                                     *)
  passed,       (* history: the tuples that passed the scan's filter        *)
  output,       (* history: tuples and matches returned for this vector     *)
  repeated,     (* history: was one of them returned twice?                 *)
  semi          (* a semi or anti join: which, its probe, the tuples seen   *)

joinState == <<join_order, selected, input_tids, probes, first_join, at>>
history   == <<passed, output, repeated, semi>>
vars      == <<concise, tables, chains, phase, count, vector, scan_orders, joinState, history>>

JoinIds == [k \in Joins |-> k]
Hashes == {HashOf[k] : k \in DOMAIN HashOf}

----------------------------------------------------------------------------
(* Build and LookupBatch *)

\* Every entry is inserted in front of the entries of its bucket.
BucketOf(rows, hash) ==
  LET chain[i \in 0 .. Len(rows)] ==
        IF i = 0 THEN <<>>
        ELSE IF rows[i].hash % NumBuckets = hash % NumBuckets
        THEN <<rows[i]>> \o chain[i - 1] ELSE chain[i - 1]
  IN  chain[Len(rows)]

\* FindChainHead: the tags of the bucket may say that no entry has the hash.
LookupChaining(rows, hash) ==
  IF \E r \in Range(BucketOf(rows, hash)) : TagOf[r.hash] = TagOf[hash]
  THEN BucketOf(rows, hash) ELSE <<>>

\* The next table is built: found[h] is the chain of hash h.
TableBuilt(found) ==
  /\ chains' = Append(chains, found)
  /\ phase' = IF Len(chains) + 1 = NumJoins THEN "scan" ELSE "build"
  /\ UNCHANGED <<tables, count, vector, scan_orders, joinState, history>>

\* Build, in the physical form the table was created with.
BuildChainingTable(k) ==
  /\ phase = "build" /\ Len(chains) = k - 1 /\ ~tables[k].concise
  /\ TableBuilt([h \in Hashes |-> LookupChaining(tables[k].rows, h)])
  /\ UNCHANGED concise

BuildConciseTable(k) ==
  /\ phase = "build" /\ Len(chains) = k - 1 /\ tables[k].concise
  /\ BeginBuild(tables[k].rows)
  /\ UNCHANGED <<tables, chains, phase, count, vector, scan_orders, joinState, history>>

ConciseStep ==
  /\ BuildStep
  /\ UNCHANGED <<tables, chains, phase, count, vector, scan_orders, joinState, history>>

ConciseTableBuilt ==
  /\ stage = "built" /\ stage' = "idle"
  /\ TableBuilt([h \in Hashes |-> LookupConcise(h)])
  /\ UNCHANGED <<area, table, entries, buf, cursors>>

LookupBatch(k, keys) == [t \in Tids |-> chains[k][HashOf[keys[t]]]]

----------------------------------------------------------------------------
(* The scan and its filter *)

\* A new vector: Reset selects every tuple of it.
ReadVector(v) ==
  /\ phase = "scan" /\ count < MaxVectors
  /\ count' = count + 1 /\ vector' = v
  /\ selected' = Tids
  /\ phase' = "filter"
  /\ passed' = {} /\ output' = {} /\ repeated' = FALSE /\ semi' = <<>>
  /\ UNCHANGED <<concise, tables, chains, scan_orders, join_order, input_tids, probes, first_join, at>>

\* A term the scan translator generated: it keeps the tuples it holds for.
ScanTerm(st, term) == [st EXCEPT !.tids = st.tids \cap vector.holds[term]]

ScanFilter == INSTANCE FilterManager WITH Apply <- ScanTerm

FilterVector(sampled) ==
  /\ phase = "filter"
  /\ LET st == ScanFilter!RunFilters(scan_orders, sampled, selected, [tids |-> {}, output |-> {}])
     IN  selected' = st.output /\ passed' = st.output
  /\ scan_orders' \in {o \in [DOMAIN Clauses -> UNION {ScanFilter!Reordered(scan_orders[c], TRUE) : c \in DOMAIN Clauses}] :
                         \A c \in DOMAIN Clauses : o[c] \in ScanFilter!Reordered(scan_orders[c], sampled[c])}
  /\ phase' = "prepare"
  /\ UNCHANGED <<concise, tables, chains, count, vector, join_order, input_tids, probes,
                 first_join, at, output, repeated, semi>>

----------------------------------------------------------------------------
(* SetInputBatch *)

\* PrepareSingleJoin: the probe sees what the list still has, and the list
\* keeps the tuples that found a chain.
PrepareSingleJoin(st, k) ==
  LET probe == ProbeInit(vector.keys[k], LookupBatch(k, vector.keys[k]), st.tids)
  IN  [st EXCEPT !.probes[k] = probe, !.tids = st.tids \cap probe.key_matches]

JoinFilter == INSTANCE FilterManager WITH Apply <- PrepareSingleJoin

SetInputBatch(sampled) ==
  /\ phase = "prepare"
  /\ LET st == JoinFilter!RunFilters(<<join_order>>, <<sampled>>, selected,
                                     [tids |-> {}, output |-> {}, probes |-> probes])
     IN  /\ probes' = st.probes
         /\ selected' = st.output /\ input_tids' = st.output
  /\ join_order' \in JoinFilter!Reordered(join_order, sampled)
  /\ first_join' = TRUE
  /\ phase' = "join"
  /\ UNCHANGED <<concise, tables, chains, count, vector, scan_orders, at, history>>

----------------------------------------------------------------------------
(* Next *)

OuterMatchList(k) == IF k = 1 THEN input_tids ELSE probes[k - 1].key_matches

\* The probes ps, after Next was called for probe k with selection sel.
CallNext(ps, k, sel) == [ps EXCEPT ![k] = ApplyInputFilter(ps[k], sel)]

unmoved == <<concise, tables, chains, count, vector, scan_orders, join_order, input_tids, passed, semi>>

JoinNextFresh ==
  /\ phase = "join" /\ phase' = "advance"
  /\ at' = IF first_join THEN 1 ELSE NumJoins
  /\ selected' = IF first_join THEN selected ELSE OuterMatchList(NumJoins)
  /\ probes' = CallNext([probes EXCEPT ![at'] = ProbeReset(@)], at', selected')
  /\ UNCHANGED <<unmoved, first_join, output, repeated>>

\* A call of Next: AdvanceInitial from the first probe, or Advance from the
\* last.
JoinNext ==
  /\ phase = "join" /\ phase' = "advance"
  /\ at' = IF first_join THEN 1 ELSE NumJoins
  /\ selected' = IF first_join THEN selected ELSE OuterMatchList(NumJoins)
  /\ probes' = CallNext(probes, at', selected')
  /\ UNCHANGED <<unmoved, first_join, output, repeated>>

Turn == InnerTurn(probes[at])
Moved == [probes EXCEPT ![at] = Turn.probe]

\* No tuple has a match yet: the loop of the probe goes on.
KeepLooking ==
  /\ phase = "advance" /\ Turn.outcome = "more"
  /\ probes' = Moved
  /\ UNCHANGED <<unmoved, phase, at, selected, first_join, output, repeated>>

\* Probe at found matches: AdvanceInitial calls itself for the next probe;
\* Advance returns to it, and it starts over.
Descend ==
  /\ phase = "advance" /\ Turn.outcome = "found" /\ at < NumJoins
  /\ selected' = Turn.probe.key_matches
  /\ at' = at + 1
  /\ LET inner == IF first_join THEN Moved
                  ELSE [Moved EXCEPT ![at + 1] = ProbeReset(probes[at + 1])]
     IN  probes' = CallNext(inner, at + 1, Turn.probe.key_matches)
  /\ UNCHANGED <<unmoved, phase, first_join, output, repeated>>

\* Probe at has no more: AdvanceInitial resets it and returns to the probe
\* before; Advance calls itself for that one.
BackUp ==
  /\ phase = "advance" /\ Turn.outcome = "none" /\ at # 1
  /\ selected' = OuterMatchList(at - 1)
  /\ at' = at - 1
  /\ LET outer == IF first_join THEN [Moved EXCEPT ![at] = ProbeReset(Turn.probe)] ELSE Moved
     IN  probes' = CallNext(outer, at - 1, OuterMatchList(at - 1))
  /\ UNCHANGED <<unmoved, phase, first_join, output, repeated>>

\* GetOutputBatch: the current entry of every probe, for the selected tuples.
OutputBatch(ps, sel) == {<<t, [k \in Joins |-> Head(ps[k].curr_matches[t])]>> : t \in sel}

\* Next returns true, and its caller takes the output.
ReturnTrue ==
  /\ phase = "advance" /\ Turn.outcome = "found" /\ at = NumJoins
  /\ phase' = "join" /\ first_join' = FALSE
  /\ probes' = Moved /\ selected' = Turn.probe.key_matches
  /\ LET batch == OutputBatch(Moved, Turn.probe.key_matches)
     IN  /\ output' = output \cup batch
         /\ repeated' = (repeated \/ output \cap batch # {})
  /\ UNCHANGED <<unmoved, at>>

ReturnFalse ==
  /\ phase = "advance" /\ Turn.outcome = "none" /\ at = 1
  /\ phase' = "scan" /\ first_join' = FALSE
  /\ probes' = Moved
  /\ UNCHANGED <<unmoved, at, selected, output, repeated>>

----------------------------------------------------------------------------
(* The other use of a probe: a semi or anti join with the first table, which *)
(* handles the whole vector in one call of Next.                            *)

ProbeSemiOrAnti(match) ==
  /\ phase = "prepare" /\ phase' = "semi"
  /\ LET p == ProbeInit(vector.keys[1], LookupBatch(1, vector.keys[1]), selected)
     IN  semi' = <<match, ApplyInputFilter(p, selected), {}>>
  /\ UNCHANGED <<concise, tables, chains, count, vector, scan_orders, joinState, passed, output, repeated>>

SemiOrAntiStep ==
  /\ phase = "semi"
  /\ LET turn == SemiTurn(semi[2], semi[3])
     IN  IF turn.ended
         THEN /\ phase' = "scan"
              /\ semi' = <<semi[1], [turn.probe EXCEPT !.key_matches =
                                       SemiOrAntiMatches(turn.seen, semi[1])], turn.seen>>
         ELSE UNCHANGED phase /\ semi' = <<semi[1], turn.probe, turn.seen>>
  /\ UNCHANGED <<concise, tables, chains, count, vector, scan_orders, joinState, passed, output, repeated>>

----------------------------------------------------------------------------
Init ==
  /\ ConciseInit
  /\ tables \in BuildSides /\ chains = <<>>
  /\ phase = "build" /\ count = 0 /\ vector = <<>>
  /\ scan_orders = Clauses /\ join_order = JoinIds
  /\ selected = {} /\ input_tids = {}
  /\ probes = [k \in Joins |-> ProbeNew] /\ first_join = TRUE /\ at = 1
  /\ passed = {} /\ output = {} /\ repeated = FALSE /\ semi = <<>>

Finished == phase = "scan" /\ count = MaxVectors /\ UNCHANGED vars

(* A call of Next, to its end.                                              *)
JoinStep == JoinNext \/ KeepLooking \/ Descend \/ BackUp \/ ReturnTrue \/ ReturnFalse

Next ==
  \/ \E k \in Joins : BuildChainingTable(k) \/ BuildConciseTable(k)
  \/ ConciseStep \/ ConciseTableBuilt
  \/ \E v \in Vectors : ReadVector(v)
  \/ \E sampled \in [DOMAIN Clauses -> BOOLEAN] : FilterVector(sampled)
  \/ \E sampled \in BOOLEAN : SetInputBatch(sampled)
  \/ JoinStep
  \/ \E match \in BOOLEAN : ProbeSemiOrAnti(match)
  \/ SemiOrAntiStep
  \/ Finished

Spec == Init /\ [][Next]_vars

(* One thread runs the loop while (Next()) and does not stop in it.         *)
FairSpec == Spec /\ WF_vars(JoinStep)

----------------------------------------------------------------------------
RowsWithKey(k, key) == {r \in Range(tables[k].rows) : r.key = key}

Partners(t) == RowsWithKey(1, vector.keys[1][t])

(* Whichever way the tuples of a concise table were moved, the chain of a   *)
(* hash holds every tuple that has it, no tuple twice, and ends.            *)
ConciseChainsExact ==
  \A k \in DOMAIN chains : tables[k].concise =>
    \A h \in Hashes :
      /\ {r \in Range(tables[k].rows) : r.hash = h} \subseteq Range(chains[k][h])
      /\ Len(chains[k][h]) = Cardinality(Range(chains[k][h]))

(* The scan's filter lets through exactly the tuples for which all terms of *)
(* some clause hold, sampled or not, in whatever order the terms are by now.*)
FilterExact ==
  phase = "prepare" =>
    passed = {t \in Tids : \E c \in DOMAIN Clauses :
                             \A i \in DOMAIN Clauses[c] : t \in vector.holds[Clauses[c][i]]}

(* The while (Next()) loop returns every combination of a tuple that passed *)
(* the filter with one partner from each table exactly once and no other,   *)
(* also when the filter emptied an earlier or this vector before all probes *)
(* had been initialised.                                                    *)
MatchesExact ==
  /\ ~repeated
  /\ output \subseteq passed \X [Joins -> UNION {Range(tables[k].rows) : k \in Joins}]
  /\ \A o \in output : \A k \in Joins : o[2][k] \in RowsWithKey(k, vector.keys[k][o[1]])
  /\ phase = "scan" /\ count > 0 /\ semi = <<>> =>
       \A t \in passed : \A m \in [Joins -> UNION {Range(tables[k].rows) : k \in Joins}] :
         (\A k \in Joins : m[k] \in RowsWithKey(k, vector.keys[k][t])) => <<t, m>> \in output

(* One call of Next answers a semi join with the selected tuples that have  *)
(* a partner; of the selected tuples an anti join returns those without one *)
(* (and, line 159, tuples the filter removed: the caller has to drop them). *)
SemiAntiExact ==
  phase = "scan" /\ semi # <<>> =>
    LET result == semi[2].key_matches
    IN  /\ semi[1] => result \subseteq passed
        /\ \A t \in passed : (t \in result) <=> (semi[1] <=> Partners(t) # {})

(* The loop over Next() comes to its end for every vector.                  *)
JoinFinishes == phase = "join" ~> phase = "scan"
=============================================================================
