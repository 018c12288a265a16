---------------------------- MODULE ResultBuffer ----------------------------
(***************************************************************************)
(* The result buffer of a query.  A worker that produces a row asks for an *)
(* output slot, and stores the row's columns into it after the call has    *)
(* returned.  AllocOutputSlot hands a full batch to the consumer, clears   *)
(* the buffer and appends a slot, all under output_latch_; Finalize hands  *)
(* over the last batch when the pipeline's work is done.                   *)
(*                                                                         *)
(* clear() gives the memory of the slots back.  A worker still holding one *)
(* of them then writes to freed memory: the write is lost, or it lands in  *)
(* a slot of the next batch that was placed at the same address.           *)
(***************************************************************************)
EXTENDS Integers, SequencesExt

(* Definitions such as FinalizeNothing are faulty variants of the           *)
(* operation their name starts with, kept to show that a property can fail. *)

CONSTANTS
  Workers,      (* the threads that run the output pipeline                 *)
  batch_size,   (* batch_size_                                              *)
  Unwritten     (* the content of a slot nobody has stored a row in         *)

ASSUME BatchSizeAssumption == batch_size \in Nat \ {0}

VARIABLES
  tuples,       (* tuples_: the rows of the current batch                   *)
  slot,         (* the slot each worker was given: its position, 0 if none, *)
                (* and whether it still is a slot of the current batch      *)
  delivered,    (* the batches the consumer received                        *)
  finalized     (* was Finalize called?                                     *)

buffer == <<tuples, slot, delivered, finalized>>

NoSlot == [pos |-> 0, live |-> FALSE]

BufferInit ==
  /\ tuples = <<>>
  /\ slot = [w \in Workers |-> NoSlot]
  /\ delivered = <<>>
  /\ finalized = FALSE

\* One critical section of output_latch_.
AllocOutputSlot(w) ==
  /\ slot[w] = NoSlot
  /\ IF Len(tuples) = batch_size
     THEN /\ delivered' = Append(delivered, tuples)
          /\ tuples' = <<Unwritten>>
          /\ slot' = [u \in Workers |-> IF u = w THEN [pos |-> 1, live |-> TRUE]
                                        ELSE [slot[u] EXCEPT !.live = FALSE]]
     ELSE /\ tuples' = Append(tuples, Unwritten)
          /\ slot' = [slot EXCEPT ![w] = [pos |-> Len(tuples) + 1, live |-> TRUE]]
          /\ UNCHANGED delivered
  /\ UNCHANGED finalized

\* The assignments out.col = col, without the latch.
WriteSlot(w, row) ==
  /\ slot[w] # NoSlot
  /\ \/ /\ slot[w].pos \in DOMAIN tuples
        /\ tuples' = [tuples EXCEPT ![slot[w].pos] = row]
     \/ ~slot[w].live /\ UNCHANGED tuples
  /\ slot' = [slot EXCEPT ![w] = NoSlot]
  /\ UNCHANGED <<delivered, finalized>>

FinalizeNothing ==
  /\ ~finalized /\ finalized' = TRUE
  /\ UNCHANGED <<tuples, slot, delivered>>

\* Called once, when every worker is done.  The rows stay in the buffer.
Finalize ==
  /\ ~finalized /\ finalized' = TRUE
  /\ delivered' = IF tuples # <<>> THEN Append(delivered, tuples) ELSE delivered
  /\ UNCHANGED <<tuples, slot>>

----------------------------------------------------------------------------
\* The rows of all batches, in order.
DeliveredRows == FlattenSeq(delivered)

Occurrences(x, s) == Cardinality({i \in DOMAIN s : s[i] = x})
=============================================================================
