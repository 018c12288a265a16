------------------------------ MODULE MCSorter ------------------------------
(* Five rows, two of them with equal keys, over three workers: two merge    *)
(* packages, sorters with fewer rows than packages, empty sorters, and      *)
(* heaps of one, two and three rows.                                        *)
EXTENDS Sorter

CONSTANTS w1, w2, w3, a, b, c, d, e

MCWorkers == {w1, w2, w3}
MCTuples == {a, b, c, d, e}
MCKey == (a :> 1) @@ (b :> 2) @@ (c :> 2) @@ (d :> 3) @@ (e :> 4)
MCInputs == {{}, MCTuples}
MCPlans ==
  {[limited |-> FALSE, limit |-> 0, offset |-> 0],
   [limited |-> FALSE, limit |-> 0, offset |-> 6],
   [limited |-> TRUE, limit |-> 1, offset |-> 0],
   [limited |-> TRUE, limit |-> 2, offset |-> 1]}
=============================================================================
