--------------------------- MODULE MCJoinManager ---------------------------
(* Three joins over vectors of three tuples.  Keys 1 and 4 have one hash; 2   *)
(* shares their slot and bucket, 3 shares their slot group, 5 is in the     *)
(* other group.  One family of build sides has every order of up to four    *)
(* tuples in a concise first table, the other tables of both forms with     *)
(* several partners per key.                                                *)
EXTENDS JoinManager, TLC

CONSTANTS term_p, term_q, term_r

MCTids == 0 .. 2
MCHashOf == <<0, 4, 1, 0, 3>>
MCTagOf == [h \in {0, 1, 3, 4} |-> h \div 4]
MCClauses == << <<term_p, term_q>>, <<term_r>> >>

Rows(s) == [i \in DOMAIN s |-> [id |-> i, key |-> s[i], hash |-> MCHashOf[s[i]]]]
Table(form, s) == [concise |-> form, rows |-> Rows(s)]

AllOrders == {<<Table(TRUE, s), Table(FALSE, <<1>>), Table(FALSE, <<3, 1>>)>> :
                s \in UNION {[1 .. n -> {1, 2, 3, 5}] : n \in 0 .. 4}}
ManyPartners ==
  {<<Table(f, s), Table(~f, t), Table(f, u)>> :
     f \in BOOLEAN, s \in {<<1, 4, 1, 2>>, <<3, 1, 2>>, <<2, 2, 2>>, <<5, 4>>},
     t \in {<<1, 3, 1>>, <<4, 1, 2>>, <<>>}, u \in {<<3, 1, 3>>, <<2>>}}
MCBuildSides == AllOrders \cup ManyPartners

Vec(k1, k2, k3, P, Q, R) ==
  [keys |-> <<[t \in MCTids |-> k1[t + 1]], [t \in MCTids |-> k2[t + 1]],
              [t \in MCTids |-> k3[t + 1]]>>,
   holds |-> (term_p :> P) @@ (term_q :> Q) @@ (term_r :> R)]

MCVectors == {Vec(<<1, 2, 3>>, <<1, 1, 3>>, <<3, 1, 1>>, {0, 1, 2}, {0, 1}, {2}),
              Vec(<<5, 5, 4>>, <<1, 3, 3>>, <<3, 3, 2>>, {0, 1}, {1, 2}, {2})}
=============================================================================
