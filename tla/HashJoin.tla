------------------------------ MODULE HashJoin ------------------------------
(***************************************************************************)
(* The probe pipeline that HashJoinTranslator generates, run by one worker *)
(* (a serial pipeline) or by many (a parallel scan hands each probe row to *)
(* one of them) over a join hash table that is complete and immutable but  *)
(* for the mark of each build row.  Matching rows go to the result buffer. *)
(*                                                                         *)
(* All build rows are in one bucket, in any order: what a chain holds is   *)
(* JoinHashTable's business, and the walks of two buckets share nothing.   *)
(* A left mark is read, and later written, as plain shared memory.         *)
(***************************************************************************)
EXTENDS ResultBuffer

(* Definitions such as WriteLeftMarkNever are faulty variants of the        *)
(* operation their name starts with, kept to show that a property can fail. *)

CONSTANTS
  BuildRows, ProbeRows, NULL,
  Hash,         (* hash of the join keys of every build and probe row       *)
  Matching,     (* the pairs <<b, p>> that satisfy the join predicate       *)
  JoinTypes     (* the logical join types that plans ask for                *)

ASSUME RowsAssumption == IsFiniteSet(BuildRows) /\ NULL \notin BuildRows

ASSUME WorkersAssumption == IsFiniteSet(Workers)

VARIABLES
  join_type,    (* GetLogicalJoinType()                                     *)
  active,       (* the workers the pipeline runs on                         *)
  chain,        (* the bucket's chain                                       *)
  left_mark,    (* the mark attribute of each build row                     *)
  pending,      (* probe rows no worker has been given                      *)
  pc,           (* where each worker stands in ProbeJoinHashTable           *)
  probe,        (* its probe row                                            *)
  entry,        (* its position in the chain, 0 for nil                     *)
  right_mark,   (* its local variable of that name                          *)
  emitted       (* history: how often each output row was consumed          *)

join   == <<join_type, active, chain, left_mark, pending, pc, probe, entry,
            right_mark, emitted>>
vars   == <<join, buffer>>

RequiresLeftMark == join_type \in {"LEFT", "SEMI", "ANTI", "OUTER", "LEFT_SEMI"}

RequiresRightMark == join_type \in {"RIGHT_SEMI", "RIGHT_ANTI"}

\* A right semi or anti join emits the probe row alone.
OutputRows == BuildRows \X ProbeRows \cup {<<NULL, p>> : p \in ProbeRows}

ASSUME UnwrittenAssumption == Unwritten \notin OutputRows

Init ==
  /\ BufferInit
  /\ join_type \in JoinTypes
  /\ active \in {Workers} \cup {{w} : w \in Workers}
  /\ chain \in SetToSeqs(BuildRows)
  /\ left_mark = [b \in BuildRows |-> TRUE]
  /\ pending = ProbeRows
  /\ pc = [w \in Workers |-> "idle"]
  /\ probe = [w \in Workers |-> NULL]
  /\ entry = [w \in Workers |-> 0]
  /\ right_mark = [w \in Workers |-> TRUE]
  /\ emitted = [r \in OutputRows |-> 0]

----------------------------------------------------------------------------
\* entry->next, as a position.
Following(i) == IF i < Len(chain) THEN i + 1 ELSE 0

\* JoinHashTable::Lookup<false>: the first entry of the chain with this hash.
Lookup(hash) ==
  LET found == {i \in DOMAIN chain : Hash[chain[i]] = hash}
  IN  IF found = {} THEN 0 ELSE Min(found)

ConsumeRightRow(w, p) ==
  /\ pc[w] = "idle" /\ w \in active /\ p \in pending /\ ~finalized
  /\ pending' = pending \ {p}
  /\ probe' = [probe EXCEPT ![w] = p]
  /\ entry' = [entry EXCEPT ![w] = Lookup(Hash[p])]
  /\ right_mark' = [right_mark EXCEPT ![w] = TRUE]
  /\ pc' = [pc EXCEPT ![w] = "loop"]
  /\ UNCHANGED <<join_type, active, chain, left_mark, emitted, buffer>>

HashOnlyCandidate(w) ==
  entry[w] # 0 /\ Hash[chain[entry[w]]] = Hash[probe[w]]

\* hash_val == entry->GetHash(), then the join predicate.
Candidate(w) ==
  /\ entry[w] # 0
  /\ Hash[chain[entry[w]]] = Hash[probe[w]]
  /\ <<chain[entry[w]], probe[w]>> \in Matching

\* The loop over the chain of a join that needs the right mark: it stops at
\* the first match.  Only the worker's own variables are touched.
CheckRightMark(w) ==
  /\ pc[w] = "loop" /\ RequiresRightMark
  /\ entry[w] # 0 /\ right_mark[w]
  /\ right_mark' = [right_mark EXCEPT ![w] = ~Candidate(w)]
  /\ entry' = [entry EXCEPT ![w] = Following(@)]
  /\ UNCHANGED <<join_type, active, chain, left_mark, pending, pc, probe, emitted, buffer>>

\* After the loop: anti joins emit a row without a match, semi joins one with.
EndRightMark(w) ==
  /\ pc[w] = "loop" /\ RequiresRightMark
  /\ entry[w] = 0 \/ ~right_mark[w]
  /\ pc' = [pc EXCEPT ![w] = IF right_mark[w] = (join_type = "RIGHT_ANTI")
                             THEN "alloc" ELSE "idle"]
  /\ UNCHANGED <<join_type, active, chain, left_mark, pending, probe, entry,
                 right_mark, emitted, buffer>>

CheckJoinPredicateStay(w) ==
  /\ pc[w] = "loop" /\ ~RequiresRightMark /\ entry[w] # 0
  /\ Candidate(w) /\ (join_type = "LEFT_SEMI" => left_mark[chain[entry[w]]])
  /\ pc' = [pc EXCEPT ![w] = IF RequiresLeftMark THEN "mark" ELSE "alloc"]
  /\ UNCHANGED <<join_type, active, chain, left_mark, pending, probe, entry,
                 right_mark, emitted, buffer>>

\* One turn of the other loop.  The left mark of a semi join is read here.
CheckJoinPredicate(w) ==
  /\ pc[w] = "loop" /\ ~RequiresRightMark /\ entry[w] # 0
  /\ LET condition == /\ Candidate(w)
                      /\ join_type = "LEFT_SEMI" => left_mark[chain[entry[w]]]
     IN  /\ entry' = IF condition THEN entry ELSE [entry EXCEPT ![w] = Following(@)]
         /\ pc' = [pc EXCEPT ![w] = IF ~condition THEN "loop"
                                    ELSE IF RequiresLeftMark THEN "mark" ELSE "alloc"]
  /\ UNCHANGED <<join_type, active, chain, left_mark, pending, probe, right_mark,
                 emitted, buffer>>

EndLoop(w) ==
  /\ pc[w] = "loop" /\ ~RequiresRightMark /\ entry[w] = 0
  /\ pc' = [pc EXCEPT ![w] = "idle"]
  /\ UNCHANGED <<join_type, active, chain, left_mark, pending, probe, entry,
                 right_mark, emitted, buffer>>

WriteLeftMarkNever(w) ==
  /\ pc[w] = "mark"
  /\ pc' = [pc EXCEPT ![w] = "alloc"]
  /\ UNCHANGED <<join_type, active, chain, left_mark, pending, probe, entry,
                 right_mark, emitted, buffer>>

WriteLeftMark(w) ==
  /\ pc[w] = "mark"
  /\ left_mark' = [left_mark EXCEPT ![chain[entry[w]]] = FALSE]
  /\ pc' = [pc EXCEPT ![w] = "alloc"]
  /\ UNCHANGED <<join_type, active, chain, pending, probe, entry, right_mark,
                 emitted, buffer>>

\* The row handed to the next operator of the pipeline.
OutputRow(w) ==
  <<IF RequiresRightMark THEN NULL ELSE chain[entry[w]], probe[w]>>

\* OutputTranslator::Consume: a slot is reserved, ...
ConsumeAlloc(w) ==
  /\ pc[w] = "alloc"
  /\ AllocOutputSlot(w)
  /\ emitted' = [emitted EXCEPT ![OutputRow(w)] = @ + 1]
  /\ pc' = [pc EXCEPT ![w] = "write"]
  /\ UNCHANGED <<join_type, active, chain, left_mark, pending, probe, entry, right_mark>>

\* ... filled, and the probe loop goes on with the next entry.
ConsumeWrite(w) ==
  /\ pc[w] = "write"
  /\ WriteSlot(w, OutputRow(w))
  /\ IF RequiresRightMark
     THEN pc' = [pc EXCEPT ![w] = "idle"] /\ UNCHANGED entry
     ELSE /\ pc' = [pc EXCEPT ![w] = "loop"]
          /\ entry' = [entry EXCEPT ![w] = Following(@)]
  /\ UNCHANGED <<join_type, active, chain, left_mark, pending, probe, right_mark, emitted>>

\* FinishPipelineWork, after the parallel scan has joined all its tasks.
FinishPipelineWork ==
  /\ pending = {} /\ \A w \in Workers : pc[w] = "idle"
  /\ Finalize
  /\ UNCHANGED join

ProbeStep(w) ==
  \/ \E p \in ProbeRows : ConsumeRightRow(w, p)
  \/ CheckRightMark(w) \/ EndRightMark(w)
  \/ CheckJoinPredicate(w) \/ EndLoop(w)
  \/ WriteLeftMark(w)
  \/ ConsumeAlloc(w) \/ ConsumeWrite(w)

Next ==
  \/ \E w \in Workers : ProbeStep(w)
  \/ FinishPipelineWork
  \/ finalized /\ UNCHANGED vars

Spec == Init /\ [][Next]_vars

(* Every worker of the scan keeps running; the latch of the result buffer   *)
(* is held for one critical section only.                                   *)
FairSpec ==
  Spec /\ WF_vars(FinishPipelineWork) /\ \A w \in Workers : WF_vars(ProbeStep(w))

----------------------------------------------------------------------------
Joins(b, p) == Hash[b] = Hash[p] /\ <<b, p>> \in Matching

\* The rows an inner, right semi or right anti join is defined to return.
JoinResult ==
  CASE join_type = "RIGHT_SEMI" ->
         {<<NULL, p>> : p \in {q \in ProbeRows : \E b \in BuildRows : Joins(b, q)}}
    [] join_type = "RIGHT_ANTI" ->
         {<<NULL, p>> : p \in {q \in ProbeRows : \A b \in BuildRows : ~Joins(b, q)}}
    [] OTHER -> {r \in BuildRows \X ProbeRows : Joins(r[1], r[2])}

\* How often a build row was emitted.
Partners(b) == {p \in ProbeRows : emitted[<<b, p>>] > 0}

(* When the probe pipeline is done, an inner, right semi or right anti join *)
(* has emitted exactly the rows of the join, each once, however probe rows  *)
(* were spread over the workers.                                            *)
JoinExact ==
  finalized /\ join_type # "LEFT_SEMI" =>
    \A r \in OutputRows : emitted[r] = IF r \in JoinResult THEN 1 ELSE 0

(* A left semi join emits every build row that has a partner, only such     *)
(* rows, and (the mark being read and written without a lock) each at most  *)
(* once per worker: a worker sees its own writes of the mark.               *)
LeftSemiCovers ==
  finalized /\ join_type = "LEFT_SEMI" =>
    /\ \A r \in OutputRows : emitted[r] > 0 => r \in JoinResult
    /\ \A b \in BuildRows :
         /\ (\E p \in ProbeRows : Joins(b, p)) => Partners(b) # {}
         /\ Cardinality(Partners(b)) <= Cardinality(active)

(* CheckJoinPredicate's comment: "we also need to make sure the build-side  *)
(* tuple has not already found an earlier join partner".                    *)
LeftSemiOnce ==
  join_type = "LEFT_SEMI" => \A b \in BuildRows : Cardinality(Partners(b)) <= 1

(* A query on one worker delivers what it emits: every output row reaches   *)
(* the consumer, as often as it was emitted, and nothing else does.         *)
SerialDelivery ==
  finalized /\ Cardinality(active) = 1 =>
    \A r \in OutputRows \cup {Unwritten} :
      Occurrences(r, DeliveredRows) = IF r = Unwritten THEN 0 ELSE emitted[r]

(* The probe pipeline ends, and its last batch is handed over.              *)
ProbeFinishes == <>finalized
=============================================================================
