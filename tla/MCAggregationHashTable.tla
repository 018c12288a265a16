----------------------- MODULE MCAggregationHashTable -----------------------
(* Five rows of three groups, two of which share a partition.  A table      *)
(* grows at its second entry and is flushed at its second entry too, so a   *)
(* thread-local table may be flushed twice, and grow before the first time. *)
EXTENDS AggregationHashTable

CONSTANTS w1, w2, r1, r2, r3, r4, r5, x1, x2, x3

MCRows == {r1, r2, r3, r4, r5}
MCKey == (r1 :> <<1>>) @@ (r2 :> <<2>>) @@ (r3 :> <<3>>) @@ (r4 :> <<1>>) @@ (r5 :> <<2>>)
MCPartition == (<<1>> :> x1) @@ (<<2>> :> x1) @@ (<<3>> :> x2)
MCSlot == [k \in {<<1>>, <<2>>, <<3>>} |-> 0]
MCWorkers == {w1, w2}
MCPartitions == {x1, x2, x3}
=============================================================================
