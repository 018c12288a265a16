------------------------- MODULE CompilationContext -------------------------
(***************************************************************************)
(* From a plan to the pipelines of a query.  A plan is a tree of nodes     *)
(* [op, id, kids].  Preparing a node runs the constructor of its           *)
(* translator, which registers the translator with a pipeline and prepares *)
(* the children of the node.                                               *)
(*                                                                         *)
(* The limit operator is in AggregationHashTable.                          *)
(***************************************************************************)
EXTENDS PipelineGraph, TLC

Leaf(op, id) == [op |-> op, id |-> id, kids |-> <<>>]
Node(op, id, kids) == [op |-> op, id |-> id, kids |-> kids]

RECURSIVE Prepare(_, _, _)

PrepareSeqScan(plan, pipe, g) == RegisterSource(g, pipe, plan.id, TRUE)

PrepareCSVScan(plan, pipe, g) == RegisterSource(g, pipe, plan.id, FALSE)

PrepareProjection(plan, pipe, g) ==
  IF plan.kids = <<>> THEN RegisterSource(g, pipe, plan.id, FALSE)
  ELSE Prepare(plan.kids[1], pipe, g)

\* The left child is built from, the right one probes in the join's pipeline.
PrepareHashJoin(plan, pipe, g) ==
  Prepare(plan.kids[2], pipe,
          Prepare(plan.kids[1], BuildPipeline(g), OpenBuild(plan, pipe, g)))

\* The produce side is as parallel as the build side turned out to be.
PrepareHashAggregation(plan, pipe, g) ==
  LET built == Prepare(plan.kids[1], BuildPipeline(g), OpenBuild(plan, pipe, g))
  IN  RegisterSource(built, pipe, plan.id, built.pipes[BuildPipeline(g)].parallel)

\* One row is produced, so serially.
PrepareStaticAggregation(plan, pipe, g) ==
  Prepare(plan.kids[1], BuildPipeline(g),
          RegisterSource(OpenBuild(plan, pipe, g), pipe, plan.id, FALSE))

\* Serial to keep the order.
PrepareSort(plan, pipe, g) ==
  Prepare(plan.kids[1], BuildPipeline(g),
          RegisterSource(OpenBuild(plan, pipe, g), pipe, plan.id, FALSE))

\* Only the outermost loop, prepared last, decides on parallelism.
PrepareNestedLoopJoin(plan, pipe, g) ==
  LET inner == Prepare(plan.kids[1], pipe, SetParallelCheck(g, pipe, FALSE))
  IN  Prepare(plan.kids[2], pipe, SetParallelCheck(inner, pipe, TRUE))

Prepare(plan, pipe, g0) ==
  LET g == [RegisterStep(g0, pipe, plan.id) EXCEPT !.op = (plan.id :> plan.op) @@ @]
  IN  CASE plan.op = "seqscan"    -> PrepareSeqScan(plan, pipe, g)
        [] plan.op = "csvscan"    -> PrepareCSVScan(plan, pipe, g)
        [] plan.op = "projection" -> PrepareProjection(plan, pipe, g)
        [] plan.op = "hashjoin"   -> PrepareHashJoin(plan, pipe, g)
        [] plan.op = "hashagg"    -> PrepareHashAggregation(plan, pipe, g)
        [] plan.op = "staticagg"  -> PrepareStaticAggregation(plan, pipe, g)
        [] plan.op = "sort"       -> PrepareSort(plan, pipe, g)
        [] plan.op = "nestloop"   -> PrepareNestedLoopJoin(plan, pipe, g)

\* The pipelines of a plan; the output translator is the first step of the main
\* pipeline.
PreparePlan(plan, setting) ==
  Prepare(plan, MainPipeline,
          NewPipeline([pipes |-> <<>>, edges |-> {}, op |-> <<>>, setting |-> setting], OutputId))
=============================================================================
