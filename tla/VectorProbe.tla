----------------------------- MODULE VectorProbe -----------------------------
(***************************************************************************)
(* JoinHashTableVectorProbe: one vector of probe tuples against one built  *)
(* join hash table.  Init looks up the chain of every selected tuple; each *)
(* call of Next moves all tuples along their chains in lock step and       *)
(* leaves in key_matches the tuples whose current entry has an equal key.  *)
(*                                                                         *)
(* A probe is a record; a tuple's current entry is the rest of its chain.  *)
(* The loops of Next are given by what one turn of them does.              *)
(***************************************************************************)
EXTENDS Integers, Sequences

(* ProbeResetNotFirst and SemiTurnOnce are faulty variants, kept to show    *)
(* that a property can fail.                                                *)

CONSTANTS Tids     (* the tuple ids of a vector                             *)

\* keys[t] is the probe key of tuple t, found[t] the chain LookupBatch finds
\* for its hash, sel the tuples the input projection selects.
ProbeInit(keys, found, sel) ==
  LET heads   == [t \in Tids |-> IF t \in sel THEN found[t] ELSE <<>>]
      initial == {t \in sel : heads[t] # <<>>}
  IN  [keys |-> keys, initial_match_list |-> initial, initial_matches |-> heads,
       non_null_entries |-> initial, key_matches |-> initial,
       curr_matches |-> heads, first |-> TRUE]

\* A probe that was constructed and never initialised.
ProbeNew == ProbeInit([t \in Tids |-> 0], [t \in Tids |-> <<>>], {})

ProbeResetNotFirst(p) ==
  [p EXCEPT !.non_null_entries = p.initial_match_list,
            !.key_matches = p.initial_match_list,
            !.curr_matches = p.initial_matches]

ProbeReset(p) ==
  [p EXCEPT !.non_null_entries = p.initial_match_list,
            !.key_matches = p.initial_match_list,
            !.curr_matches = p.initial_matches, !.first = TRUE]

CheckKeyEquality(p) ==
  [p EXCEPT !.key_matches = {t \in p.key_matches : Head(p.curr_matches[t]).key = p.keys[t]}]

FollowNext(p) ==
  LET curr == [t \in Tids |-> IF t \in p.non_null_entries
                              THEN Tail(p.curr_matches[t]) ELSE p.curr_matches[t]]
  IN  [p EXCEPT !.curr_matches = curr,
                !.non_null_entries = {t \in p.non_null_entries : curr[t] # <<>>}]

\* A call of Next starts with it: the input may have been filtered after Init.
ApplyInputFilter(p, sel) == [p EXCEPT !.non_null_entries = p.non_null_entries \cap sel]

\* The body both loops start with; seen is semi_anti_key_matches, the tuples
\* that found a partner.
Step(p, seen) ==
  LET q == IF p.first THEN p ELSE FollowNext(p)
  IN  [q EXCEPT !.first = FALSE, !.key_matches = q.non_null_entries \ seen]

\* One turn of the loop in NextInnerJoin, and whether the loop ends with it.
InnerTurn(p) ==
  LET q == Step(p, {})
      r == CheckKeyEquality(q)
  IN  IF p.non_null_entries = {} THEN [outcome |-> "none", probe |-> p]
      ELSE IF q.key_matches = {} THEN [outcome |-> "none", probe |-> q]
      ELSE [outcome |-> IF r.key_matches # {} THEN "found" ELSE "more", probe |-> r]

SemiTurnOnce(p, seen) ==
  LET r == CheckKeyEquality(Step(p, seen))
  IN  [ended |-> TRUE, probe |-> r, seen |-> seen \cup r.key_matches]

\* One turn of the loop in NextSemiOrAntiJoin.
SemiTurn(p, seen) ==
  LET q == Step(p, seen)
      r == CheckKeyEquality(q)
  IN  IF p.non_null_entries = {} THEN [ended |-> TRUE, probe |-> p, seen |-> seen]
      ELSE IF q.key_matches = {} THEN [ended |-> TRUE, probe |-> q, seen |-> seen]
      ELSE [ended |-> FALSE, probe |-> r, seen |-> seen \cup r.key_matches]

\* AddAll makes a list of every tuple of the vector, selected or not.
SemiOrAntiMatches(seen, match) == IF match THEN Tids \cap seen ELSE Tids \ seen
=============================================================================
