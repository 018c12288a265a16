--------------------------- MODULE PipelineGraph ---------------------------
(***************************************************************************)
(* The pipelines of a query and the order they run in.                     *)
(*                                                                         *)
(* A translator is registered with a pipeline.  A pipeline breaker (hash   *)
(* join, aggregation, sort) opens a second pipeline, the one that fills    *)
(* its structure, and declares that the pipeline reading the structure     *)
(* depends on it.  Translators live in a hash map keyed by plan node       *)
(* addresses, so a pipeline's dependencies are declared in any order.      *)
(***************************************************************************)
EXTENDS Integers, SequencesExt

(* CollectDependentsFirst is a faulty variant, kept to show that a property *)
(* can fail.                                                                *)

OutputId == 0   \* the output translator, the first step of the main pipeline
NoNode == -1

MainPipeline == 1

----------------------------------------------------------------------------
(* Pipeline: a graph g has the pipelines, numbered in the order they were   *)
(* created, and the edges the translators are going to declare.             *)

NewPipeline(g, id) ==
  [g EXCEPT !.pipes = Append(@, [steps |-> <<id>>, driver |-> NoNode,
                                 parallel |-> g.setting, check |-> TRUE])]

RegisterStep(g, pipe, id) == [g EXCEPT !.pipes[pipe].steps = Append(@, id)]

\* The minimum of the levels, Serial being the lower one.
UpdateParallelism(g, pipe, parallel) ==
  [g EXCEPT !.pipes[pipe].parallel = @ /\ (g.pipes[pipe].check => parallel)]

SetParallelCheck(g, pipe, check) == [g EXCEPT !.pipes[pipe].check = check]

\* The last source to register drives the pipeline.
RegisterSource(g, pipe, id, parallel) ==
  UpdateParallelism([g EXCEPT !.pipes[pipe].driver = id], pipe, parallel)

\* What DeclarePipelineDependencies of a breaker will add: the pipeline it is
\* registered with, from, reads what pipeline to fills.
Breaker(g, plan, from, to) ==
  [g EXCEPT !.edges = @ \cup {[node |-> plan.id, from |-> from, to |-> to,
                               input |-> plan.kids[1]]}]

\* The build pipeline of a breaker registered with pipe, and its number.
BuildPipeline(g) == Len(g.pipes) + 1
OpenBuild(plan, pipe, g) == Breaker(NewPipeline(g, plan.id), plan, pipe, BuildPipeline(g))

----------------------------------------------------------------------------
(* The order of execution *)

\* EstablishPipelineDependencies: what each pipeline depends on, in every order
\* in which the translators may declare it.
Needs(edges, p) == {e.to : e \in {d \in edges : d.from = p}}

EstablishPipelineDependencies(g) ==
  {deps \in [DOMAIN g.pipes -> UNION {SetToSeqs(Needs(g.edges, p)) : p \in DOMAIN g.pipes}] :
     \A p \in DOMAIN g.pipes : deps[p] \in SetToSeqs(Needs(g.edges, p))}

CollectDependentsFirst(deps, p) ==
  LET from[q \in DOMAIN deps] ==
        <<q>> \o FlattenSeq([i \in DOMAIN deps[q] |-> from[deps[q][i]]])
  IN  from[p]

\* No translator nests a pipeline in another, so there are no outer nestings.
CollectTransitiveDependencies(deps, p) ==
  LET from[q \in DOMAIN deps] ==
        FlattenSeq([i \in DOMAIN deps[q] |-> from[deps[q][i]]]) \o <<q>>
  IN  from[p]

\* GeneratePlan: the queries that may result from a prepared plan.
GeneratePlan(g) ==
  {[pipes |-> g.pipes, edges |-> g.edges, op |-> g.op,
    exec_order |-> CollectTransitiveDependencies(deps, MainPipeline)] :
     deps \in EstablishPipelineDependencies(g)}
=============================================================================
