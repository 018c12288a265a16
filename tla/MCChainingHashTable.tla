------------------------ MODULE MCChainingHashTable ------------------------
(* Two threads race on a directory of two, later four, buckets.  All three  *)
(* entries share a bucket of the small directory; e3 moves to a bucket of   *)
(* its own when the directory grows.  e1 and e3 also share a tag bit.       *)
EXTENDS ChainingHashTable, TLC

CONSTANTS t1, t2, e1, e2, e3

MCThreads == {t1, t2}
MCEntries == {e1, e2, e3}
MCTagShift == 16
MCHash == (e1 :> 0) @@ (e2 :> 20) @@ (e3 :> 2)
=============================================================================
