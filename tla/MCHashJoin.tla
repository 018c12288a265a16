----------------------------- MODULE MCHashJoin -----------------------------
(* b1 and b2 have the hash of the first three probe rows, b3 another one;   *)
(* b1 joins those three, b2 only p2, and p4 has the hash of b3 but joins    *)
(* nothing.  A batch of two slots is full in the middle of the query.       *)
EXTENDS HashJoin

CONSTANTS w1, w2, b1, b2, b3, p1, p2, p3, p4

MCWorkers == {w1, w2}
MCBuildRows == {b1, b2, b3}
MCProbeRows == {p1, p2, p3, p4}
MCHash == [r \in MCBuildRows \cup MCProbeRows |-> IF r \in {b3, p4} THEN 2 ELSE 1]
MCMatching == {<<b1, p1>>, <<b1, p2>>, <<b1, p3>>, <<b2, p2>>, <<b3, p1>>}
=============================================================================
