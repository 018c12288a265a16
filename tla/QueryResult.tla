---------------------------- MODULE QueryResult ----------------------------
(***************************************************************************)
(* What a query has to return: the rows its plan describes, whatever the   *)
(* pipelines, threads and vectors they were computed with.                 *)
(***************************************************************************)
EXTENDS QueryExecution, CompilationContext

RECURSIVE RowsOf(_)
RowsOf(plan) ==
  CASE plan.op = "seqscan" ->
         BaseRows(plan.id, UNION {{b - 1} \X (0 .. Tables[plan.id][b] - 1) : b \in DOMAIN Tables[plan.id]})
    [] plan.op = "csvscan" -> FileRows(plan.id)
    [] plan.op = "projection" /\ plan.kids = <<>> -> {{<<plan.id, 0, 0>>}}
    [] plan.op \in {"hashjoin", "nestloop"} ->
         {a \cup b : a \in RowsOf(plan.kids[1]), b \in RowsOf(plan.kids[2])}
    [] plan.op = "staticagg" -> {UNION RowsOf(plan.kids[1])}
    [] OTHER -> RowsOf(plan.kids[1])

(* A structure holds each row its operator's input has exactly once when    *)
(* its pipeline has run, wherever blocks were split and whoever took them.  *)
(* The output never has a wrong row or one twice, and is complete unless    *)
(* the query failed.                                                        *)
QueryExact ==
  /\ filled # <<>> =>
       \A e \in query.edges : e.to \in completed => filled[e.to] = SetToBag(RowsOf(e.input))
  /\ output \sqsubseteq SetToBag(RowsOf(session.plan))
  /\ pc = "destroy" /\ ~failed => output = SetToBag(RowsOf(session.plan))
=============================================================================
