-------------------------- MODULE MCJoinHashTable --------------------------
(* Two workers, two thread-local tables, two tuples in one bucket: enough   *)
(* for contested exchanges, a contested latch and an empty table.           *)
EXTENDS JoinHashTable

CONSTANTS t1, t2, l1, l2, r1, r2, p1, p2

MCThreads == {t1, t2}
MCTables == {l1, l2}
MCRaw == {r1, r2}
MCEntries == {r1, r2, p1, p2}
MCPacked == (r1 :> p1) @@ (r2 :> p2)
MCHash == (r1 :> 0) @@ (r2 :> 20) @@ (p1 :> 0) @@ (p2 :> 20)
MCBits == (r1 :> 1) @@ (r2 :> 2)
MCTagShift == 16
=============================================================================
