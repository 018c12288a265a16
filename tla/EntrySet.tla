------------------------------ MODULE EntrySet ------------------------------
(***************************************************************************)
(* What a hash table of TPL promises its callers: a set of entries that    *)
(* grows one entry at a time, never loses one, and is emptied as a whole   *)
(* when the table is given a new size.  ChainingHashTable implements it    *)
(* with bucket chains built by racing threads.                             *)
(***************************************************************************)
CONSTANT Entries     (* every HashTableEntry that may be inserted *)

VARIABLE contents    (* the entries a reader of the table finds   *)

Init == contents = {}

\* An insertion takes effect at one instant.
Add(e) ==
  /\ e \notin contents
  /\ contents' = contents \cup {e}

\* Resizing the directory forgets everything (SetSize allocates a zeroed one).
Clear == contents' = {}

Next ==
  \/ \E e \in Entries : Add(e)
  \/ Clear

Spec == Init /\ [][Next]_contents
=============================================================================
