---------------------------- MODULE FilterManager ----------------------------
(***************************************************************************)
(* Adaptive evaluation of a predicate in disjunctive form over a vector of *)
(* tuples.  A clause is a sequence of terms, each a function that removes  *)
(* tuple ids from a list.  Most of the time the terms run one after the    *)
(* other on what the previous left; now and then a clause is sampled: each *)
(* term runs on the clause's whole input, the results are intersected, and *)
(* the terms are sorted by their measured rank, that is, into any order.   *)
(*                                                                         *)
(* A term is applied to a state with a field tids, the list it filters; a  *)
(* term may also change other fields.                                      *)
(***************************************************************************)
EXTENDS Integers, Sequences, Functions

(* RunSampledLast is a faulty variant, kept to show that a property can     *)
(* fail.                                                                    *)

CONSTANT Apply(_, _)   (* Apply(st, term): the state after the term ran     *)

\* The clause is not sampled: stop at the first empty list.
RunTerms(order, st) ==
  LET after[i \in 0 .. Len(order)] ==
        IF i = 0 THEN st
        ELSE LET s == after[i - 1] IN IF s.tids = {} THEN s ELSE Apply(s, order[i])
  IN  after[Len(order)]

RunSampledLast(order, st) ==
  LET after[i \in 0 .. Len(order)] ==
        IF i = 0 THEN st ELSE Apply([after[i - 1] EXCEPT !.tids = st.tids], order[i])
  IN  after[Len(order)]

\* The clause is sampled: every term gets a copy of the input list.
RunSampled(order, st) ==
  LET after[i \in 0 .. Len(order)] ==
        IF i = 0 THEN st
        ELSE LET s   == after[i - 1]
                 run == Apply([s EXCEPT !.tids = st.tids], order[i])
             IN  [run EXCEPT !.tids = run.tids \cap s.tids]
  IN  after[Len(order)]

\* Clause::RunFilter, ShouldReRank having answered sampled.
RunFilter(order, sampled, st) ==
  IF sampled THEN RunSampled(order, st) ELSE RunTerms(order, st)

\* The orders a clause may be left with.
Reordered(order, sampled) ==
  IF sampled THEN {p \in [DOMAIN order -> Range(order)] : Range(p) = Range(order)} ELSE {order}

\* One turn of the loop in RunFilters: the tuples that no earlier clause let
\* through are the clause's input.
ClauseStep(input, st, order, sampled) ==
  LET rest == input \ st.output
  IN  IF rest = {} THEN st
      ELSE LET run == RunFilter(order, sampled, [st EXCEPT !.tids = rest])
           IN  [run EXCEPT !.output = st.output \cup run.tids]

\* RunFilters over the clauses: the tuples that pass are in the field output.
RunFilters(orders, sampled, input, st) ==
  LET after[c \in 0 .. Len(orders)] ==
        IF c = 0 THEN [st EXCEPT !.output = {}]
        ELSE ClauseStep(input, after[c - 1], orders[c], sampled[c])
  IN  after[Len(orders)]
=============================================================================
