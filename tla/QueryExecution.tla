--------------------------- MODULE QueryExecution ---------------------------
(***************************************************************************)
(* The execution of a query.  Its plan was split into pipelines by the     *)
(* translators of its operators (CompilationContext); they are ordered     *)
(* (PipelineGraph), and every pipeline becomes three functions of a module *)
(* (AdaptiveModule) that the main thread calls one after the other:        *)
(*   Init      installs the pipeline's functions in the container of       *)
(*             thread states (ThreadStateContainer),                       *)
(*   Run       drives the pipeline from its source, in a parallel pipeline *)
(*             with tasks that any thread may take (TableScan), and then   *)
(*             lets the sink merge what the threads collected,             *)
(*   TearDown  clears the thread states.                                   *)
(* A step may throw; the query is then torn down and the rest left out.    *)
(* The threads' states stay behind until the client destroys the context.  *)
(*                                                                         *)
(* A row is the set of base tuples it was made of.  Keys and predicates    *)
(* are left out: all keys are equal, every predicate holds, every row is a *)
(* group of its own.  The output operator's batches are in ResultBuffer.   *)
(***************************************************************************)
EXTENDS PipelineGraph, TableScan, ThreadStateContainer, AdaptiveModule

CONSTANTS
  Sessions,        (* a client's runs of one query: its plan, whether       *)
                   (* parallel execution is enabled, and each run's mode    *)
  Prepared(_, _),  (* the pipelines the translators made of a plan          *)
  Tables           (* the blocks of the table or file each scan node reads  *)

(* A pipeline other than the main one was opened by one breaker, which is   *)
(* registered with an older pipeline.                                       *)
PipelineTree(g) ==
  /\ Len(g.pipes) \in Nat \ {0} /\ DOMAIN g.pipes = 1 .. Len(g.pipes)
  /\ \A e \in g.edges : e.from \in 1 .. Len(g.pipes) /\ e.to \in 1 .. Len(g.pipes) /\ e.from < e.to
  /\ \A d, e \in g.edges : d.to = e.to => d = e

ASSUME PreparedAssumption == \A s \in Sessions : PipelineTree(Prepared(s.plan, s.parallel))

ASSUME ThreadsAssumption == main \in Threads

VARIABLES
  session, query,
  runs,       (* runs started                                               *)
  pc,         (* of the main thread: "idle", "init", "step", "work",        *)
              (* "teardown", "destroy"                                      *)
  step,       (* the step of the execution plan                             *)
  failed,     (* did a step throw?                                          *)
  tasks,      (* tasks nobody has taken                                     *)
  work,       (* the task each thread is in                                 *)
  filled,     (* the structure each pipeline fills, in the query state      *)
  output,     (* the rows given to the result buffer                        *)
  completed,  (* the pipelines whose Run step has returned                  *)
  ran         (* history: implementations the main thread called            *)

mainVars == <<runs, pc, step, failed>>
workVars == <<tasks, work, filled, output>>
vars == <<session, query, mainVars, workVars, completed, ran, tls, module>>

NoTask == [kind |-> "none"]

Mode == session.modes[runs]
Current == query.exec_order[((step - 1) \div 3) + 1]
StepKind == <<"Init", "Run", "TearDown">>[((step - 1) % 3) + 1]
NumSteps == 3 * Len(query.exec_order)
NumFunctions == NumSteps + 2     \* and the query's init and tear-down functions

Pipe == query.pipes[Current]
Edge(node) == CHOOSE e \in query.edges : e.node = node
Structure(node) == BagToSet(filled[Edge(node).to])

BaseRows(id, tuples) == {{<<id, t[1], t[2]>>} : t \in tuples}
FileRows(id) == BaseRows(id, {0} \X (0 .. Tables[id][1] - 1))

----------------------------------------------------------------------------
(* ExecutableQuery::Run *)

\* ExecutionStep::Run gets a function from the module and calls it.
Call(fn) == CanCall(Mode) /\ ran' = ran \cup {Implementation(Mode, fn)}

\* A fresh context; getting the init function starts the compilation.
BeginRun ==
  /\ pc = "idle" /\ runs < Len(session.modes)
  /\ runs' = runs + 1 /\ pc' = "init" /\ step' = 1 /\ failed' = FALSE
  /\ RequestCompile(session.modes[runs + 1])
  /\ installed' = 0 /\ states' = [t \in Threads |-> NoState] /\ destroyed' = {}
  /\ output' = EmptyBag /\ completed' = {} /\ ran' = {}
  /\ UNCHANGED <<session, query, tasks, work, filled>>

InitQuery ==
  /\ pc = "init" /\ Call(1)
  /\ filled' = [p \in DOMAIN query.pipes |-> EmptyBag]
  /\ pc' = "step"
  /\ UNCHANGED <<session, query, runs, step, failed, tasks, work, output, completed, tls, module>>

\* The deferred tear-down of the query frees the structures.
TearDownQuery ==
  /\ pc = "teardown" \/ (pc = "step" /\ step > NumSteps)
  /\ Call(2)
  /\ filled' = <<>>
  /\ pc' = "destroy"
  /\ UNCHANGED <<session, query, runs, step, failed, tasks, work, output, completed, tls, module>>

\* The client destroys the context, and the container with it.
DestroyContext ==
  /\ pc = "destroy" /\ pc' = "idle"
  /\ Clear /\ UNCHANGED installed
  /\ UNCHANGED <<session, query, runs, step, failed, workVars, completed, ran, module>>

----------------------------------------------------------------------------
(* The three functions of a pipeline *)

InitPipeline ==
  /\ pc = "step" /\ step <= NumSteps /\ StepKind = "Init" /\ Call(step + 2)
  /\ Reset(Current)
  /\ step' = step + 1
  /\ UNCHANGED <<session, query, runs, pc, failed, workVars, completed, module>>

\* The serial scan of an aggregation reads the index of the global table,
\* which a parallel build leaves empty.
ScanAggregationHashTable(d) == IF query.pipes[Edge(d).to].parallel THEN {} ELSE Structure(d)

\* One row, whatever was aggregated.
ProduceAggregates(d) == {UNION Structure(d)}

\* What the driver of a pipeline that is not a table scan iterates over.
SourceRows(d) ==
  CASE query.op[d] = "csvscan"    -> FileRows(d)
    [] query.op[d] = "projection" -> {{<<d, 0, 0>>}}
    [] query.op[d] = "sort"       -> Structure(d)
    [] query.op[d] = "staticagg"  -> ProduceAggregates(d)
    [] query.op[d] = "hashagg"    -> ScanAggregationHashTable(d)

ScanTask(lo, hi) == [kind |-> "scan", lo |-> lo, hi |-> hi]
RowsTask(rows)   == [kind |-> "rows", rows |-> rows]

\* DrivePipeline: the ways the driver's work may be split.
DrivePipeline ==
  LET d == Pipe.driver
  IN  IF query.op[d] = "seqscan"
      THEN IF Pipe.parallel THEN {{ScanTask(r[1], r[2]) : r \in split} : split \in Splits(Tables[d])}
           ELSE {{ScanTask(0, ToEnd)}}
      ELSE IF Pipe.parallel THEN {{RowsTask({r}) : r \in Structure(d)}}
           ELSE {{RowsTask(SourceRows(d))}}

RunPipeline ==
  /\ pc = "step" /\ step <= NumSteps /\ StepKind = "Run" /\ Call(step + 2)
  /\ tasks' \in DrivePipeline
  /\ pc' = "work"
  /\ UNCHANGED <<session, query, runs, step, failed, work, filled, output, completed, tls, module>>

TearDownPipeline ==
  /\ pc = "step" /\ step <= NumSteps /\ StepKind = "TearDown" /\ Call(step + 2)
  /\ Clear /\ UNCHANGED installed
  /\ step' = step + 1
  /\ UNCHANGED <<session, query, runs, pc, failed, workVars, completed, module>>

----------------------------------------------------------------------------
(* The work of a pipeline *)

\* A thread takes a task and asks for its state; only the main thread runs a
\* serial pipeline.
TakeTask(t) ==
  /\ pc = "work" /\ work[t] = NoTask
  /\ Pipe.parallel \/ t = main
  /\ \E task \in tasks :
       /\ tasks' = tasks \ {task}
       /\ task.kind = "scan" => RangeOK(Tables[Pipe.driver], task.lo, task.hi)
       /\ work' = [work EXCEPT ![t] =
            IF task.kind = "rows" THEN task
            ELSE [kind |-> "iterator", it |-> IteratorInit(Tables[Pipe.driver], task.lo, task.hi)]]
  /\ AccessCurrentThreadState(t)
  /\ UNCHANGED <<session, query, mainVars, filled, output, completed, ran, module>>

\* Every build row in the table is a partner of every probe row.
ProbeJoinHashTable(node, rows) == {b \cup r : b \in Structure(node), r \in rows}

\* An inner loop of a nested loop join scans its table for each row.
InnerScan(node, rows) ==
  {s \cup r : s \in BaseRows(node, ScanTable(Tables[node])), r \in rows}

\* Consume of one translator between the driver and the sink: projections and
\* nested loop joins pass on what they get.
ConsumeAt(node, rows) ==
  CASE query.op[node] = "hashjoin" -> ProbeJoinHashTable(node, rows)
    [] query.op[node] = "seqscan"  -> InnerScan(node, rows)
    [] OTHER -> rows

\* The rows that reach the sink, the first step of the pipeline.
Consume(rows) == FoldRight(ConsumeAt, SubSeq(Pipe.steps, 2, Len(Pipe.steps) - 1), rows)

\* The sink of a parallel pipeline writes to the thread's state, that of a
\* serial one to the structure in the query state.
Sink(t, rows) ==
  IF Current = MainPipeline
  THEN output' = output (+) SetToBag(rows) /\ UNCHANGED <<filled, states>>
  ELSE IF Pipe.parallel
  THEN /\ states' = [states EXCEPT ![t] = [born |-> @.born, rows |-> @.rows (+) SetToBag(rows)]]
       /\ UNCHANGED <<filled, output>>
  ELSE filled' = [filled EXCEPT ![Current] = @ (+) SetToBag(rows)] /\ UNCHANGED <<output, states>>

\* One turn of the loop over the vectors of a range.
ScanVector(t) ==
  /\ work[t].kind = "iterator"
  /\ CanAdvance(Tables[Pipe.driver], work[t].it)
  /\ LET it == Advance(Tables[Pipe.driver], work[t].it)
     IN  /\ work' = [work EXCEPT ![t] = [kind |-> "iterator", it |-> it]]
         /\ Sink(t, Consume(BaseRows(Pipe.driver, VectorTuples(it))))
  /\ UNCHANGED <<session, query, mainVars, tasks, completed, ran, installed, destroyed, module>>

ScanEnds(t) ==
  /\ work[t].kind = "iterator"
  /\ ~CanAdvance(Tables[Pipe.driver], work[t].it)
  /\ work' = [work EXCEPT ![t] = NoTask]
  /\ UNCHANGED <<session, query, mainVars, tasks, filled, output, completed, ran, tls, module>>

ProduceRows(t) ==
  /\ work[t].kind = "rows"
  /\ Sink(t, Consume(work[t].rows))
  /\ work' = [work EXCEPT ![t] = NoTask]
  /\ UNCHANGED <<session, query, mainVars, tasks, completed, ran, installed, destroyed, module>>

WorkDone == tasks = {} /\ \A t \in Threads : work[t] = NoTask

\* FinishPipelineWork: the sink of a parallel pipeline collects what is in
\* the states of the threads.
FinishPipelineWork ==
  /\ pc = "work" /\ WorkDone
  /\ filled' = IF Pipe.parallel /\ Current # MainPipeline
               THEN [filled EXCEPT ![Current] = @ (+) AllRows] ELSE filled
  /\ completed' = completed \cup {Current}
  /\ pc' = "step" /\ step' = step + 1
  /\ UNCHANGED <<session, query, runs, failed, tasks, work, output, ran, tls, module>>

\* An exception leaves a step that is interpreted.  It cannot leave compiled
\* code, nor a task, which is called through a trampoline.
Throw ==
  /\ pc = "work" /\ Mode # "Compiled"
  /\ ~Pipe.parallel \/ WorkDone
  /\ pc' = "teardown" /\ failed' = TRUE
  /\ tasks' = {} /\ work' = [t \in Threads |-> NoTask]
  /\ UNCHANGED <<session, query, runs, step, filled, output, completed, ran, tls, module>>

----------------------------------------------------------------------------
Init ==
  /\ session \in Sessions
  /\ query \in GeneratePlan(Prepared(session.plan, session.parallel))
  /\ runs = 0 /\ pc = "idle" /\ step = 1 /\ failed = FALSE
  /\ tasks = {} /\ work = [t \in Threads |-> NoTask]
  /\ filled = <<>> /\ output = EmptyBag /\ completed = {} /\ ran = {}
  /\ TlsInit /\ ModuleInit

Compile ==
  /\ JitModule \/ StoreFunction(NumFunctions)
  /\ UNCHANGED <<session, query, mainVars, workVars, completed, ran, tls>>

\* The part of the main thread that does not depend on other threads' luck.
MainStep ==
  \/ InitQuery \/ InitPipeline \/ RunPipeline \/ FinishPipelineWork \/ TearDownPipeline
  \/ TearDownQuery \/ DestroyContext \/ TakeTask(main)

TaskStep(t) == ScanVector(t) \/ ScanEnds(t) \/ ProduceRows(t)

Finished == pc = "idle" /\ runs = Len(session.modes) /\ UNCHANGED vars

Next ==
  \/ BeginRun \/ MainStep \/ Throw \/ Compile \/ Finished
  \/ \E t \in Threads \ {main} : TakeTask(t)
  \/ \E t \in Threads : TaskStep(t)

Spec == Init /\ [][Next]_vars

(* The main thread takes part in a parallel loop, so that no other thread   *)
(* has to come; one that has taken a task works on it, and the compiling    *)
(* thread compiles.                                                         *)
FairSpec ==
  /\ Spec
  /\ WF_vars(MainStep) /\ WF_vars(Compile)
  /\ \A t \in Threads : WF_vars(TaskStep(t))

----------------------------------------------------------------------------
(* However the dependencies were declared, a pipeline runs only once all    *)
(* structures its operators read are complete, and no pipeline runs twice   *)
(* in a query.                                                              *)
DependenciesFirst ==
  pc = "work" =>
    /\ Current \notin completed
    /\ \A e \in query.edges : e.from = Current => e.to \in completed

(* A thread works on a state that the current pipeline created, no state is *)
(* destroyed by the functions of another pipeline, and none is left after a *)
(* query that did not fail or when its context is gone.                     *)
ThreadStateLifecycle ==
  /\ \A d \in destroyed : d[1] = d[2]
  /\ \A t \in Threads : work[t] # NoTask => states[t].born = Current
  /\ (pc = "destroy" /\ ~failed) \/ pc = "idle" => Live = {}

(* A query run in compiled mode calls machine code only, also when an       *)
(* earlier adaptive run of the query is still being compiled.               *)
CompiledRunsMachineCode ==
  runs > 0 /\ Mode = "Compiled" => ran \subseteq {"machine"}

(* A query that was started ends, with its result or without.               *)
QueryFinishes == pc = "init" ~> pc = "idle"
=============================================================================
