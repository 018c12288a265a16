-------------------------- MODULE MCQueryExecution --------------------------
(* Vectors of two tuples over blocks of none to three.  The plans have      *)
(* every operator: joins of scans run twice while the module is compiled, a *)
(* pipeline with two dependencies one of which has its own, breakers on top *)
(* of each other, and a nested loop below an aggregate.                     *)
EXTENDS QueryResult

MCTables == <<<<3, 1>>, <<1, 0, 2>>, <<2>>, <<1, 1>>>>

Scan(i) == Leaf("seqscan", i)
File    == Leaf("csvscan", 3)

JoinOfScans  == Node("hashjoin", 10, <<Scan(1), Scan(4)>>)
JoinOfJoins  == Node("hashjoin", 10,
                  <<Node("projection", 11, <<File>>),
                    Node("hashjoin", 12, <<Node("hashagg", 13, <<Scan(4)>>), Scan(3)>>)>>)
SortOfGroups == Node("sort", 10, <<Node("hashagg", 11, <<Scan(2)>>)>>)
GroupsOfFile == Node("hashagg", 10, <<File>>)
CountOfLoops == Node("staticagg", 10, <<Node("nestloop", 11, <<Scan(4), Scan(1)>>)>>)

Session(plan, parallel, modes) == [plan |-> plan, parallel |-> parallel, modes |-> modes]

MCSessions ==
  {Session(Scan(2), TRUE, <<"Adaptive", "Compiled">>),
   Session(JoinOfScans, FALSE, <<"Adaptive", "Compiled", "Interpret">>),
   Session(JoinOfScans, TRUE, <<"Adaptive", "Compiled">>),
   Session(JoinOfJoins, TRUE, <<"Compiled">>),
   Session(JoinOfJoins, FALSE, <<"Interpret", "Adaptive">>),
   Session(SortOfGroups, TRUE, <<"Interpret">>),
   Session(GroupsOfFile, TRUE, <<"Interpret">>),
   Session(CountOfLoops, TRUE, <<"Interpret">>),
   Session(Node("nestloop", 10, <<Scan(4), Scan(3)>>), TRUE, <<"Interpret">>)}
=============================================================================
