------------------------ MODULE QueryExecutionProofs ------------------------
(***************************************************************************)
(* Proofs about the execution of a query: however the dependencies of      *)
(* pipelines were declared, whoever takes tasks and whichever step throws, *)
(* pipelines run after the ones they depend on, thread states are created  *)
(* and destroyed by the same pipeline's functions, and a run in compiled   *)
(* mode calls machine code only.                                           *)
(***************************************************************************)
EXTENDS QueryExecution, SequenceLemmas

----------------------------------------------------------------------------
(* The steps of an execution plan *)

(* The place of a step in its pipeline, and how many pipelines it follows. *)
Part(s) == (s - 1) % 3
Before(s) == (s - 1) \div 3

(* Every pipeline has three steps. *)
LEMMA StepParts ==
  \A s \in Nat \ {0} :
    /\ Part(s) \in 0 .. 2 /\ Before(s) \in Nat /\ s = 3 * Before(s) + Part(s) + 1
    /\ Part(s) < 2 => Part(s + 1) = Part(s) + 1 /\ Before(s + 1) = Before(s)
    /\ Part(s) = 2 => Part(s + 1) = 0 /\ Before(s + 1) = Before(s) + 1
BY DEF Part, Before

(* A step of the plan belongs to a pipeline of the order; the step after   *)
(* the last one begins a pipeline.                                         *)
LEMMA StepBounds ==
  \A n \in Nat, s \in Nat \ {0} :
    /\ s <= 3 * n => Before(s) + 1 \in 1 .. n
    /\ s <= 3 * n /\ Part(s) < 2 => s + 1 <= 3 * n
    /\ s <= 3 * n + 1 /\ s > 3 * n => Part(s) = 0
<1>1. ASSUME NEW n \in Nat, NEW s \in Nat, NEW q \in Nat, NEW p \in 0 .. 2, s = 3 * q + p + 1
      PROVE  /\ s <= 3 * n => q + 1 \in 1 .. n
             /\ s <= 3 * n /\ p < 2 => s + 1 <= 3 * n
             /\ s <= 3 * n + 1 /\ s > 3 * n => p = 0
  BY <1>1
<1>2. QED
  BY <1>1, StepParts

(* The kind of a step tells its place. *)
LEMMA KindOfStep ==
  ASSUME step \in Nat \ {0}
  PROVE  /\ StepKind = "Init" <=> Part(step) = 0
         /\ StepKind = "Run" <=> Part(step) = 1
         /\ StepKind = "TearDown" <=> Part(step) = 2
         /\ Current = query.exec_order[Before(step) + 1]
<1>1. Part(step) \in 0 .. 2
  BY StepParts
<1>2. StepKind = <<"Init", "Run", "TearDown">>[Part(step) + 1]
  BY DEF StepKind, Part
<1>3. Current = query.exec_order[Before(step) + 1]
  BY DEF Current, Before
<1>4. \/ Part(step) = 0 /\ StepKind = "Init"
      \/ Part(step) = 1 /\ StepKind = "Run"
      \/ Part(step) = 2 /\ StepKind = "TearDown"
  BY <1>1, <1>2
<1>5. QED
  BY <1>3, <1>4

----------------------------------------------------------------------------
(* The invariant *)

(* The order runs every pipeline once, after those it depends on. *)
OrderOK(q) ==
  /\ Len(q.exec_order) \in Nat
  /\ \A i, j \in 1 .. Len(q.exec_order) : q.exec_order[i] = q.exec_order[j] => i = j
  /\ \A i \in 1 .. Len(q.exec_order), e \in q.edges :
       e.from = q.exec_order[i] => \E j \in 1 .. i - 1 : e.to = q.exec_order[j]

(* The first n pipelines of the order. *)
FirstPipelines(n) == {query.exec_order[j] : j \in 1 .. n}

(* How many pipelines have run before step s is taken. *)
RunSoFar(s) == IF Part(s) = 2 THEN Before(s) + 1 ELSE Before(s)

(* The main thread: where it is, and what has run. *)
MainInv ==
  /\ OrderOK(query) /\ runs \in Nat /\ step \in Nat \ {0} /\ step <= NumSteps + 1
  /\ pc \in {"idle", "init", "step", "work", "teardown", "destroy"}
  /\ pc # "idle" => runs > 0
  /\ pc = "init" => step = 1
  /\ pc = "work" => Part(step) = 1 /\ step <= NumSteps
  /\ pc = "teardown" => failed = TRUE
  /\ pc \in {"init", "step", "work"} => completed = FirstPipelines(RunSoFar(step))

(* When no thread may have a state. *)
NoStates ==
  \/ pc \in {"idle", "init"} \/ (pc = "step" /\ Part(step) = 0)
  \/ (pc = "destroy" /\ failed = FALSE)

(* The threads: every state was made by the installed functions. *)
ThreadInv ==
  /\ DOMAIN states = Threads /\ DOMAIN work = Threads
  /\ \A t \in Threads : states[t] = NoState \/ states[t].born = installed
  /\ \A t \in Threads : work[t] # NoTask => pc = "work" /\ states[t].born = installed
  /\ pc \in {"step", "work"} /\ Part(step) # 0 => installed = Current
  /\ NoStates => \A t \in Threads : states[t] = NoState
  /\ \A d \in destroyed : d[1] = d[2]

(* The module: it is compiled once, and called when that has ended. *)
ModuleInv ==
  /\ stored \in Nat /\ compiled_flag \in {"idle", "jit", "store", "done"}
  /\ compiled_flag \in {"idle", "jit"} => stored = 0
  /\ compiled_flag = "store" => stored < NumFunctions
  /\ compiled_flag = "done" => stored = NumFunctions

CalledInv == runs > 0 /\ Mode = "Compiled" => ran \subseteq {"machine"}

QInv == MainInv /\ ThreadInv /\ ModuleInv /\ CalledInv

(* What only depends on the plan stays. *)
PlanSame ==
  /\ session' = session /\ query' = query /\ NumSteps' = NumSteps /\ NumFunctions' = NumFunctions
  /\ (runs' = runs => Mode' = Mode) /\ (step' = step => Current' = Current)
  /\ \A n : FirstPipelines(n)' = FirstPipelines(n)

(* No action changes the plan. *)
LEMMA PlanStays ==
  ASSUME session' = session, query' = query
  PROVE  PlanSame
BY DEF PlanSame, NumSteps, NumFunctions, Mode, Current, FirstPipelines

(* There are as many functions as steps, and two. *)
LEMMA NumbersAre ==
  ASSUME MainInv
  PROVE  NumSteps \in Nat /\ NumFunctions = NumSteps + 2 /\ Len(query.exec_order) \in Nat
         /\ NumSteps = 3 * Len(query.exec_order)
BY DEF MainInv, OrderOK, NumSteps, NumFunctions

(* A call in compiled mode reaches machine code. *)
LEMMA CallIs ==
  ASSUME QInv, NEW fn \in Nat, fn <= NumFunctions, Call(fn), PlanSame, runs' = runs, runs > 0
  PROVE  CalledInv'
<1>1. CASE Mode = "Compiled"
  <2>1. compiled_flag = "done" /\ stored = NumFunctions
    BY <1>1 DEF Call, CanCall, CompileReturns, QInv, ModuleInv
  <2>2. Implementation(Mode, fn) = "machine"
    BY <1>1, <2>1 DEF Implementation
  <2>3. ran' \subseteq {"machine"}
    BY <1>1, <2>2 DEF Call, QInv, CalledInv
  <2>4. QED
    BY <2>3 DEF CalledInv
<1>2. CASE Mode # "Compiled"
  BY <1>2 DEF PlanSame, CalledInv
<1>3. QED
  BY <1>1, <1>2

(* Nothing about the module changes. *)
LEMMA ModuleSame ==
  ASSUME ModuleInv, PlanSame, stored' = stored, compiled_flag' = compiled_flag
  PROVE  ModuleInv'
BY DEF ModuleInv, PlanSame

(* No function is called. *)
LEMMA CalledSame ==
  ASSUME CalledInv, PlanSame, runs' = runs, ran' = ran
  PROVE  CalledInv'
BY DEF CalledInv, PlanSame

(* Clearing destroys every state with the functions that are installed. *)
LEMMA ClearIs ==
  ASSUME ThreadInv, Clear
  PROVE  /\ DOMAIN states' = Threads /\ (\A t \in Threads : states'[t] = NoState)
         /\ \A d \in destroyed' : d[1] = d[2]
<1>1. \A t \in Live : states[t].born = installed
  BY DEF ThreadInv, Live
<1>2. destroyed' = destroyed \cup {<<states[t].born, installed>> : t \in Live}
      /\ states' = [t \in Threads |-> NoState]
  BY DEF Clear
<1>3. \A d \in destroyed : d[1] = d[2]
  BY DEF ThreadInv
<1>4. QED
  BY <1>1, <1>2, <1>3

----------------------------------------------------------------------------
(* The steps of the main thread *)

(* A run begins with a fresh context. *)
LEMMA BeginRunStep == ASSUME QInv, BeginRun PROVE QInv'
<1>1. /\ pc = "idle" /\ runs' = runs + 1 /\ pc' = "init" /\ step' = 1 /\ failed' = FALSE
      /\ RequestCompile(session.modes[runs + 1])
      /\ states' = [t \in Threads |-> NoState] /\ destroyed' = {} /\ completed' = {} /\ ran' = {}
      /\ session' = session /\ query' = query /\ work' = work
  BY DEF BeginRun
<1>2. PlanSame /\ MainInv /\ ThreadInv /\ ModuleInv
  BY <1>1, PlanStays DEF QInv
<1>3. Part(1) = 0 /\ RunSoFar(1) = 0
  BY DEF Part, Before, RunSoFar
<1>4. MainInv'
  <2>1. FirstPipelines(0) = {}
    BY DEF FirstPipelines
  <2>2. NumSteps \in Nat
    BY <1>2, NumbersAre
  <2>3. QED
    BY <1>1, <1>2, <1>3, <2>1, <2>2 DEF MainInv, PlanSame
<1>5. ThreadInv'
  BY <1>1, <1>2 DEF ThreadInv
<1>6. ModuleInv'
  BY <1>1, <1>2 DEF ModuleInv, PlanSame, RequestCompile
<1>7. CalledInv'
  BY <1>1 DEF CalledInv
<1>8. QED
  BY <1>4, <1>5, <1>6, <1>7 DEF QInv

(* The init function of the query. *)
LEMMA InitQueryStep == ASSUME QInv, InitQuery PROVE QInv'
<1>1. /\ pc = "init" /\ Call(1) /\ pc' = "step" /\ runs' = runs /\ step' = step /\ failed' = failed
      /\ states' = states /\ destroyed' = destroyed /\ installed' = installed
      /\ completed' = completed /\ stored' = stored /\ compiled_flag' = compiled_flag
      /\ session' = session /\ query' = query /\ work' = work
  BY DEF InitQuery, tls, module
<1>2. PlanSame /\ MainInv /\ ThreadInv /\ ModuleInv
  BY <1>1, PlanStays DEF QInv
<1>3. step = 1 /\ Part(step) = 0 /\ NumSteps \in Nat /\ NumFunctions = NumSteps + 2 /\ runs > 0
  BY <1>1, <1>2, NumbersAre DEF MainInv, Part
<1>4. MainInv'
  BY <1>1, <1>2, <1>3 DEF MainInv, PlanSame
<1>5. ThreadInv'
  BY <1>1, <1>2, <1>3 DEF ThreadInv, NoStates
<1>6. ModuleInv' /\ CalledInv'
  BY <1>1, <1>2, <1>3, ModuleSame, CallIs
<1>7. QED
  BY <1>4, <1>5, <1>6 DEF QInv

(* The tear-down function of the query. *)
LEMMA TearDownQueryStep == ASSUME QInv, TearDownQuery PROVE QInv'
<1>1. /\ pc = "teardown" \/ (pc = "step" /\ step > NumSteps)
      /\ Call(2) /\ pc' = "destroy" /\ runs' = runs /\ step' = step /\ failed' = failed
      /\ states' = states /\ destroyed' = destroyed /\ installed' = installed
      /\ stored' = stored /\ compiled_flag' = compiled_flag
      /\ session' = session /\ query' = query /\ work' = work
  BY DEF TearDownQuery, tls, module
<1>2. PlanSame /\ MainInv /\ ThreadInv /\ ModuleInv
  BY <1>1, PlanStays DEF QInv
<1>3. NumSteps \in Nat /\ NumFunctions = NumSteps + 2 /\ runs > 0
  BY <1>1, <1>2, NumbersAre DEF MainInv
<1>4. MainInv'
  BY <1>1, <1>2, <1>3 DEF MainInv, PlanSame
<1>5. pc = "step" => Part(step) = 0
  <2>1. pc = "step" => step > NumSteps /\ step <= NumSteps + 1 /\ step \in Nat \ {0}
    BY <1>1, <1>2 DEF MainInv
  <2>2. QED
    BY <1>2, <2>1, NumbersAre, StepBounds
<1>6. ThreadInv'
  <2>1. failed = FALSE => \A t \in Threads : states[t] = NoState
    BY <1>1, <1>2, <1>5 DEF ThreadInv, NoStates, MainInv
  <2>2. \A t \in Threads : work[t] = NoTask
    BY <1>1, <1>2 DEF ThreadInv
  <2>3. QED
    BY <1>1, <1>2, <2>1, <2>2 DEF ThreadInv, NoStates
<1>7. ModuleInv' /\ CalledInv'
  BY <1>1, <1>2, <1>3, ModuleSame, CallIs
<1>8. QED
  BY <1>4, <1>6, <1>7 DEF QInv

(* The client destroys the context. *)
LEMMA DestroyStep == ASSUME QInv, DestroyContext PROVE QInv'
<1>1. /\ pc = "destroy" /\ Clear /\ pc' = "idle" /\ runs' = runs /\ step' = step /\ failed' = failed
      /\ installed' = installed /\ ran' = ran /\ stored' = stored /\ compiled_flag' = compiled_flag
      /\ session' = session /\ query' = query /\ work' = work
  BY DEF DestroyContext, workVars, module
<1>2. PlanSame /\ MainInv /\ ThreadInv /\ ModuleInv /\ CalledInv
  BY <1>1, PlanStays DEF QInv
<1>3. MainInv'
  BY <1>1, <1>2 DEF MainInv, PlanSame
<1>4. ThreadInv'
  <2>1. /\ DOMAIN states' = Threads /\ (\A t \in Threads : states'[t] = NoState)
        /\ \A d \in destroyed' : d[1] = d[2]
    BY <1>1, <1>2, ClearIs
  <2>2. \A t \in Threads : work[t] = NoTask
    BY <1>1, <1>2 DEF ThreadInv
  <2>3. QED
    BY <1>1, <1>2, <2>1, <2>2 DEF ThreadInv
<1>5. ModuleInv' /\ CalledInv'
  BY <1>1, <1>2, ModuleSame, CalledSame
<1>6. QED
  BY <1>3, <1>4, <1>5 DEF QInv

(* A pipeline installs its functions, after clearing what was left. *)
LEMMA InitPipelineStep == ASSUME QInv, InitPipeline PROVE QInv'
<1>1. /\ pc = "step" /\ step <= NumSteps /\ StepKind = "Init" /\ Call(step + 2)
      /\ Clear /\ installed' = Current /\ step' = step + 1
      /\ pc' = pc /\ runs' = runs /\ failed' = failed /\ completed' = completed
      /\ stored' = stored /\ compiled_flag' = compiled_flag
      /\ session' = session /\ query' = query /\ work' = work
  BY DEF InitPipeline, Reset, workVars, module
<1>2. PlanSame /\ MainInv /\ ThreadInv /\ ModuleInv /\ step \in Nat \ {0}
  BY <1>1, PlanStays DEF QInv, MainInv
<1>3. /\ NumSteps \in Nat /\ NumFunctions = NumSteps + 2 /\ runs > 0
      /\ Part(step) = 0 /\ Part(step + 1) = 1 /\ Before(step + 1) = Before(step)
  <2>1. Part(step) = 0
    BY <1>1, <1>2, KindOfStep
  <2>2. Part(step + 1) = 1 /\ Before(step + 1) = Before(step)
    BY <1>2, <2>1, StepParts
  <2>3. NumSteps \in Nat /\ NumFunctions = NumSteps + 2
    BY <1>2, NumbersAre
  <2>4. runs > 0
    BY <1>1, <1>2 DEF MainInv
  <2>5. QED
    BY <2>1, <2>2, <2>3, <2>4
<1>4. RunSoFar(step + 1) = RunSoFar(step) /\ Current' = Current
  <2>1. Current' = query'.exec_order[Before(step') + 1]
    BY DEF Current, Before
  <2>2. QED
    BY <1>1, <1>2, <1>3, <2>1, KindOfStep DEF RunSoFar
<1>5. MainInv'
  BY <1>1, <1>2, <1>3, <1>4 DEF MainInv, PlanSame
<1>6. ThreadInv'
  <2>1. /\ DOMAIN states' = Threads /\ (\A t \in Threads : states'[t] = NoState)
        /\ \A d \in destroyed' : d[1] = d[2]
    BY <1>1, <1>2, ClearIs
  <2>2. \A t \in Threads : work[t] = NoTask
    BY <1>1, <1>2 DEF ThreadInv
  <2>3. QED
    BY <1>1, <1>2, <1>4, <2>1, <2>2 DEF ThreadInv
<1>7. ModuleInv' /\ CalledInv'
  BY <1>1, <1>2, <1>3, ModuleSame, CallIs
<1>8. QED
  BY <1>5, <1>6, <1>7 DEF QInv

(* The run function of a pipeline starts its work. *)
LEMMA RunPipelineStep == ASSUME QInv, RunPipeline PROVE QInv'
<1>1. /\ pc = "step" /\ step <= NumSteps /\ StepKind = "Run" /\ Call(step + 2)
      /\ pc' = "work" /\ step' = step /\ runs' = runs /\ failed' = failed /\ completed' = completed
      /\ states' = states /\ destroyed' = destroyed /\ installed' = installed
      /\ stored' = stored /\ compiled_flag' = compiled_flag
      /\ session' = session /\ query' = query /\ work' = work
  BY DEF RunPipeline, tls, module
<1>2. PlanSame /\ MainInv /\ ThreadInv /\ ModuleInv /\ step \in Nat \ {0}
  BY <1>1, PlanStays DEF QInv, MainInv
<1>3. /\ NumSteps \in Nat /\ NumFunctions = NumSteps + 2 /\ runs > 0 /\ Part(step) = 1
  BY <1>1, <1>2, NumbersAre, KindOfStep DEF MainInv
<1>4. MainInv'
  BY <1>1, <1>2, <1>3 DEF MainInv, PlanSame
<1>5. ThreadInv'
  BY <1>1, <1>2, <1>3 DEF ThreadInv, NoStates, PlanSame
<1>6. ModuleInv' /\ CalledInv'
  BY <1>1, <1>2, <1>3, ModuleSame, CallIs
<1>7. QED
  BY <1>4, <1>5, <1>6 DEF QInv

(* The tear-down function of a pipeline clears the states. *)
LEMMA TearDownPipelineStep == ASSUME QInv, TearDownPipeline PROVE QInv'
<1>1. /\ pc = "step" /\ step <= NumSteps /\ StepKind = "TearDown" /\ Call(step + 2)
      /\ Clear /\ installed' = installed /\ step' = step + 1
      /\ pc' = pc /\ runs' = runs /\ failed' = failed /\ completed' = completed
      /\ stored' = stored /\ compiled_flag' = compiled_flag
      /\ session' = session /\ query' = query /\ work' = work
  BY DEF TearDownPipeline, workVars, module
<1>2. PlanSame /\ MainInv /\ ThreadInv /\ ModuleInv /\ step \in Nat \ {0}
  BY <1>1, PlanStays DEF QInv, MainInv
<1>3. /\ NumSteps \in Nat /\ NumFunctions = NumSteps + 2 /\ runs > 0
      /\ Part(step) = 2 /\ Part(step + 1) = 0 /\ Before(step + 1) = Before(step) + 1
  BY <1>1, <1>2, NumbersAre, KindOfStep, StepParts DEF MainInv
<1>4. RunSoFar(step + 1) = RunSoFar(step)
  BY <1>3 DEF RunSoFar
<1>5. MainInv'
  BY <1>1, <1>2, <1>3, <1>4 DEF MainInv, PlanSame
<1>6. ThreadInv'
  <2>1. /\ DOMAIN states' = Threads /\ (\A t \in Threads : states'[t] = NoState)
        /\ \A d \in destroyed' : d[1] = d[2]
    BY <1>1, <1>2, ClearIs
  <2>2. \A t \in Threads : work[t] = NoTask
    BY <1>1, <1>2 DEF ThreadInv
  <2>3. QED
    BY <1>1, <1>2, <1>3, <2>1, <2>2 DEF ThreadInv
<1>7. ModuleInv' /\ CalledInv'
  BY <1>1, <1>2, <1>3, ModuleSame, CallIs
<1>8. QED
  BY <1>5, <1>6, <1>7 DEF QInv

----------------------------------------------------------------------------
(* The work of a pipeline *)

(* What a step that only works on tasks leaves alone. *)
WorkOnly ==
  /\ session' = session /\ query' = query /\ runs' = runs /\ pc' = pc /\ step' = step
  /\ failed' = failed /\ completed' = completed /\ ran' = ran
  /\ installed' = installed /\ destroyed' = destroyed
  /\ stored' = stored /\ compiled_flag' = compiled_flag

(* While a pipeline works, the installed functions are its own. *)
LEMMA WorkInstalled ==
  ASSUME MainInv, ThreadInv, pc = "work"
  PROVE  installed = Current /\ Part(step) = 1 /\ ~NoStates
BY DEF MainInv, ThreadInv, NoStates

(* A step that only works on tasks keeps the invariant when the states it  *)
(* leaves were made by the installed functions.                            *)
LEMMA WorkOnlyStep ==
  ASSUME QInv, WorkOnly, pc = "work",
         DOMAIN states' = Threads, DOMAIN work' = Threads,
         \A t \in Threads : states'[t] = NoState \/ states'[t].born = installed,
         \A t \in Threads : work'[t] # NoTask => states'[t].born = installed
  PROVE  QInv'
<1>1. PlanSame /\ MainInv /\ ThreadInv /\ ModuleInv /\ CalledInv
  BY PlanStays DEF QInv, WorkOnly
<1>2. MainInv'
  BY <1>1 DEF MainInv, PlanSame, WorkOnly
<1>3. installed = Current /\ Part(step) = 1 /\ ~NoStates
  BY <1>1, WorkInstalled
<1>4. ThreadInv'
  <2>1. ~NoStates'
    BY <1>3 DEF NoStates, WorkOnly
  <2>2. QED
    BY <1>1, <1>3, <2>1 DEF ThreadInv, WorkOnly, PlanSame
<1>5. ModuleInv' /\ CalledInv'
  BY <1>1, ModuleSame, CalledSame DEF WorkOnly
<1>6. QED
  BY <1>2, <1>4, <1>5 DEF QInv

(* A thread that takes a task gets a state of the current pipeline. *)
LEMMA TakeTaskStep == ASSUME QInv, NEW t \in Threads, TakeTask(t) PROVE QInv'
<1>1. WorkOnly /\ pc = "work"
  BY DEF TakeTask, AccessCurrentThreadState, mainVars, module, WorkOnly
<1>2. MainInv /\ ThreadInv
  BY DEF QInv
<1>3. PICK new : work' = [work EXCEPT ![t] = new]
  BY DEF TakeTask
<1>4. states' = [states EXCEPT ![t] = StateOf(t)]
  BY DEF TakeTask, AccessCurrentThreadState
<1>5. StateOf(t).born = installed
  BY <1>2 DEF StateOf, ThreadInv
<1>6. DOMAIN states' = Threads /\ DOMAIN work' = Threads
  BY <1>2, <1>3, <1>4 DEF ThreadInv
<1>7. \A u \in Threads : states'[u] = NoState \/ states'[u].born = installed
  BY <1>2, <1>4, <1>5 DEF ThreadInv
<1>8. \A u \in Threads : work'[u] # NoTask => states'[u].born = installed
  BY <1>2, <1>3, <1>4, <1>5 DEF ThreadInv
<1>9. QED
  BY <1>1, <1>6, <1>7, <1>8, WorkOnlyStep

(* The sink changes what a state has collected, and who made it stays. *)
LEMMA SinkKeeps ==
  ASSUME ThreadInv, NEW t \in Threads, work[t] # NoTask, NEW rows, Sink(t, rows)
  PROVE  /\ DOMAIN states' = Threads
         /\ \A u \in Threads : states'[u] = states[u] \/ (u = t /\ states'[u].born = installed)
<1>1. states[t].born = installed /\ DOMAIN states = Threads
  BY DEF ThreadInv
<1>2. \/ states' = states
      \/ states' = [states EXCEPT ![t] = [born |-> @.born, rows |-> @.rows (+) SetToBag(rows)]]
  BY DEF Sink
<1>3. CASE states' = states
  BY <1>1, <1>3
<1>4. CASE states' = [states EXCEPT ![t] = [born |-> @.born, rows |-> @.rows (+) SetToBag(rows)]]
  <2> DEFINE s == states[t].rows (+) SetToBag(rows)
             n == [born |-> states[t].born, rows |-> s]
  <2>1. states' = [states EXCEPT ![t] = n]
    BY <1>4
  <2>2. n.born = installed
    BY <1>1
  <2> HIDE DEF s, n
  <2>3. QED
    BY <1>1, <2>1, <2>2
<1>5. QED
  BY <1>2, <1>3, <1>4

(* The task a thread is in when the step changed only that thread's task. *)
LEMMA OneThread ==
  ASSUME QInv, WorkOnly, pc = "work", NEW t \in Threads, work[t] # NoTask,
         NEW new, work' = [work EXCEPT ![t] = new], DOMAIN states' = Threads,
         \A u \in Threads : states'[u] = states[u] \/ (u = t /\ states'[u].born = installed)
  PROVE  QInv'
<1>1. ThreadInv
  BY DEF QInv
<1>2. DOMAIN work' = Threads /\ \A u \in Threads : u # t => work'[u] = work[u]
  BY <1>1 DEF ThreadInv
<1>3. \A u \in Threads : states'[u] = NoState \/ states'[u].born = installed
  BY <1>1 DEF ThreadInv
<1>4. \A u \in Threads : work'[u] # NoTask => states'[u].born = installed
  BY <1>1, <1>2 DEF ThreadInv
<1>5. QED
  BY <1>2, <1>3, <1>4, WorkOnlyStep

(* A task that is not done has a kind. *)
LEMMA BusyThread ==
  ASSUME ThreadInv, NEW t \in Threads, work[t].kind \in {"iterator", "rows"}
  PROVE  work[t] # NoTask /\ pc = "work"
BY DEF ThreadInv, NoTask

(* The next vector of a range. *)
LEMMA ScanVectorStep == ASSUME QInv, NEW t \in Threads, ScanVector(t) PROVE QInv'
<1>1. ThreadInv /\ work[t] # NoTask /\ pc = "work" /\ WorkOnly
  BY BusyThread DEF ScanVector, QInv, WorkOnly, mainVars, module
<1>2. PICK new, rows : work' = [work EXCEPT ![t] = new] /\ Sink(t, rows)
  BY DEF ScanVector
<1>3. QED
  BY <1>1, <1>2, SinkKeeps, OneThread

(* The end of a range. *)
LEMMA ScanEndsStep == ASSUME QInv, NEW t \in Threads, ScanEnds(t) PROVE QInv'
<1>1. ThreadInv /\ work[t] # NoTask /\ pc = "work" /\ WorkOnly
  BY BusyThread DEF ScanEnds, QInv, WorkOnly, mainVars, module, tls
<1>2. work' = [work EXCEPT ![t] = NoTask] /\ states' = states
  BY DEF ScanEnds, tls
<1>3. DOMAIN states' = Threads
  BY <1>1, <1>2 DEF ThreadInv
<1>4. QED
  BY <1>1, <1>2, <1>3, OneThread

(* The rows of a source. *)
LEMMA ProduceRowsStep == ASSUME QInv, NEW t \in Threads, ProduceRows(t) PROVE QInv'
<1>1. ThreadInv /\ work[t] # NoTask /\ pc = "work" /\ WorkOnly
  BY BusyThread DEF ProduceRows, QInv, WorkOnly, mainVars, module
<1>2. PICK rows : work' = [work EXCEPT ![t] = NoTask] /\ Sink(t, rows)
  BY DEF ProduceRows
<1>3. QED
  BY <1>1, <1>2, SinkKeeps, OneThread

(* The pipeline that ran is the next one of the order. *)
LEMMA OneMoreRan ==
  ASSUME MainInv, pc = "work"
  PROVE  /\ step + 1 <= NumSteps /\ Part(step + 1) = 2 /\ Before(step + 1) = Before(step)
         /\ Current = query.exec_order[Before(step) + 1]
         /\ Before(step) + 1 \in 1 .. Len(query.exec_order)
         /\ completed = FirstPipelines(Before(step))
         /\ FirstPipelines(RunSoFar(step + 1)) = completed \cup {Current}
<1>1. step \in Nat \ {0} /\ Part(step) = 1 /\ step <= NumSteps /\ completed = FirstPipelines(RunSoFar(step))
  BY DEF MainInv
<1>2. NumSteps = 3 * Len(query.exec_order) /\ Len(query.exec_order) \in Nat
  BY NumbersAre
<1>3. Part(step + 1) = 2 /\ Before(step + 1) = Before(step) /\ Before(step) \in Nat
  BY <1>1, StepParts
<1>4. step + 1 <= NumSteps /\ Before(step) + 1 \in 1 .. Len(query.exec_order)
  BY <1>1, <1>2, StepBounds
<1>5. Current = query.exec_order[Before(step) + 1]
  BY <1>1, KindOfStep
<1>6. completed = FirstPipelines(Before(step))
  BY <1>1 DEF RunSoFar
<1>7. RunSoFar(step + 1) = Before(step) + 1
  BY <1>3 DEF RunSoFar
<1>8. FirstPipelines(Before(step) + 1) = FirstPipelines(Before(step)) \cup {query.exec_order[Before(step) + 1]}
  <2> SUFFICES ASSUME NEW n \in Nat PROVE FirstPipelines(n + 1) = FirstPipelines(n) \cup {query.exec_order[n + 1]}
    BY <1>3
  <2>1. 1 .. n + 1 = (1 .. n) \cup {n + 1}
    OBVIOUS
  <2>2. QED
    BY <2>1 DEF FirstPipelines
<1>9. QED
  BY <1>3, <1>4, <1>5, <1>6, <1>7, <1>8

(* A pipeline's work is finished. *)
LEMMA FinishStep == ASSUME QInv, FinishPipelineWork PROVE QInv'
<1>1. /\ pc = "work" /\ (\A t \in Threads : work[t] = NoTask) /\ pc' = "step" /\ step' = step + 1
      /\ completed' = completed \cup {Current} /\ runs' = runs /\ failed' = failed /\ ran' = ran
      /\ states' = states /\ destroyed' = destroyed /\ installed' = installed
      /\ stored' = stored /\ compiled_flag' = compiled_flag
      /\ session' = session /\ query' = query /\ work' = work
  BY DEF FinishPipelineWork, WorkDone, tls, module
<1>2. PlanSame /\ MainInv /\ ThreadInv /\ ModuleInv /\ CalledInv /\ step \in Nat \ {0}
  BY <1>1, PlanStays DEF QInv, MainInv
<1>3. /\ step + 1 <= NumSteps /\ Part(step + 1) = 2 /\ Before(step + 1) = Before(step)
      /\ Current = query.exec_order[Before(step) + 1]
      /\ FirstPipelines(RunSoFar(step + 1)) = completed \cup {Current}
  BY <1>1, <1>2, OneMoreRan
<1>4. NumSteps \in Nat
  BY <1>2, NumbersAre
<1>5. MainInv'
  BY <1>1, <1>2, <1>3, <1>4 DEF MainInv, PlanSame
<1>6. ThreadInv'
  <2>1. Current' = Current
    <3>1. Current' = query'.exec_order[Before(step') + 1]
      BY DEF Current, Before
    <3>2. QED
      BY <1>1, <1>3, <3>1
  <2>2. installed = Current
    BY <1>1, <1>2, WorkInstalled
  <2>3. ~NoStates'
    BY <1>1, <1>3 DEF NoStates
  <2>4. QED
    BY <1>1, <1>2, <2>1, <2>2, <2>3 DEF ThreadInv
<1>7. ModuleInv' /\ CalledInv'
  BY <1>1, <1>2, ModuleSame, CalledSame
<1>8. QED
  BY <1>5, <1>6, <1>7 DEF QInv

(* A step throws. *)
LEMMA ThrowStep == ASSUME QInv, Throw PROVE QInv'
<1>1. /\ pc = "work" /\ pc' = "teardown" /\ failed' = TRUE /\ step' = step
      /\ work' = [t \in Threads |-> NoTask] /\ completed' = completed /\ runs' = runs /\ ran' = ran
      /\ states' = states /\ destroyed' = destroyed /\ installed' = installed
      /\ stored' = stored /\ compiled_flag' = compiled_flag
      /\ session' = session /\ query' = query
  BY DEF Throw, tls, module
<1>2. PlanSame /\ MainInv /\ ThreadInv /\ ModuleInv /\ CalledInv
  BY <1>1, PlanStays DEF QInv
<1>3. MainInv'
  BY <1>1, <1>2 DEF MainInv, PlanSame
<1>4. ThreadInv'
  BY <1>1, <1>2 DEF ThreadInv, NoStates
<1>5. ModuleInv' /\ CalledInv'
  BY <1>1, <1>2, ModuleSame, CalledSame
<1>6. QED
  BY <1>3, <1>4, <1>5 DEF QInv

(* The compiling thread. *)
LEMMA CompileStep == ASSUME QInv, Compile PROVE QInv'
<1>1. /\ JitModule \/ StoreFunction(NumFunctions)
      /\ pc' = pc /\ failed' = failed /\ step' = step
      /\ work' = work /\ completed' = completed /\ runs' = runs /\ ran' = ran
      /\ states' = states /\ destroyed' = destroyed /\ installed' = installed
      /\ session' = session /\ query' = query
  BY DEF Compile, tls, mainVars, workVars
<1>2. PlanSame /\ MainInv /\ ThreadInv /\ ModuleInv /\ CalledInv
  BY <1>1, PlanStays DEF QInv
<1>3. MainInv'
  BY <1>1, <1>2 DEF MainInv, PlanSame
<1>4. ThreadInv'
  BY <1>1, <1>2 DEF ThreadInv, NoStates, PlanSame
<1>5. NumFunctions \in Nat /\ NumFunctions > 0
  BY <1>2, NumbersAre
<1>6. ModuleInv'
  BY <1>1, <1>2, <1>5 DEF ModuleInv, PlanSame, JitModule, StoreFunction
<1>7. CalledInv'
  BY <1>1, <1>2, CalledSame
<1>8. QED
  BY <1>3, <1>4, <1>6, <1>7 DEF QInv

----------------------------------------------------------------------------
(* The order of the pipelines *)

(* N has the pipelines that each of n pipelines needs: they are younger    *)
(* than it, and needed by no other.                                        *)
TreeOf(N, n) ==
  /\ \A q \in 1 .. n : \A k \in N[q] : k \in 1 .. n /\ q < k
  /\ \A q, r \in 1 .. n : \A k \in N[q] : k \in N[r] => q = r

(* A sequence runs no pipeline twice, and each after those it needs, if    *)
(* the ones in B have run.                                                 *)
Ordered(s, N, B) ==
  /\ IsInjective(s)
  /\ \A i \in 1 .. Len(s) : \A k \in N[s[i]] : k \in B \/ \E j \in 1 .. i - 1 : s[j] = k

(* Pipelines that are needed, directly or not, by the oldest of them. *)
Rooted(A, N, q) ==
  q \in A /\ \A x \in A : q <= x /\ (x = q \/ \E y \in A : x \in N[y])

(* One sequence after another. *)
LEMMA OrderedConcat ==
  ASSUME NEW S, NEW N, NEW s \in Seq(S), NEW t \in Seq(S),
         Ordered(s, N, {}), Ordered(t, N, Range(s)), Range(t) \cap Range(s) = {}
  PROVE  /\ s \o t \in Seq(S) /\ Ordered(s \o t, N, {})
         /\ \A e : e \in Range(s \o t) <=> e \in Range(s) \/ e \in Range(t)
<1> DEFINE c == s \o t
           m == Len(s)
<1>1. IsInjective(s) /\ IsInjective(t)
  BY DEF Ordered
<1>2. /\ c \in Seq(S) /\ Len(c) = m + Len(t) /\ IsInjective(c)
      /\ \A e : e \in Range(c) <=> e \in Range(s) \/ e \in Range(t)
  BY <1>1, ConcatIs
<1>3. /\ \A i \in 1 .. m : c[i] = s[i]
      /\ \A i \in 1 .. Len(t) : c[m + i] = t[i]
      /\ m \in Nat /\ Len(t) \in Nat
  OBVIOUS
<1>4. \A x : x \in Range(s) <=> \E k \in 1 .. m : x = s[k]
  BY InRange
<1> HIDE DEF c, m
<1>5. ASSUME NEW i \in 1 .. m + Len(t), NEW k \in N[c[i]] PROVE \E j \in 1 .. i - 1 : c[j] = k
  <2>1. CASE i \in 1 .. m
    <3>1. k \in N[s[i]]
      BY <1>3, <1>5, <2>1
    <3>2. PICK j \in 1 .. i - 1 : s[j] = k
      BY <2>1, <3>1 DEF Ordered, m
    <3>3. j \in 1 .. m
      BY <1>3, <2>1
    <3>4. QED
      BY <1>3, <3>2, <3>3
  <2>2. CASE i \notin 1 .. m
    <3>1. i - m \in 1 .. Len(t) /\ i = m + (i - m)
      BY <1>3, <2>2
    <3>2. k \in N[t[i - m]]
      BY <1>3, <1>5, <3>1
    <3>3. k \in Range(s) \/ \E j \in 1 .. (i - m) - 1 : t[j] = k
      BY <3>1, <3>2 DEF Ordered
    <3>4. CASE k \in Range(s)
      <4>1. PICK j \in 1 .. m : k = s[j]
        BY <1>4, <3>4
      <4>2. j \in 1 .. i - 1
        BY <1>3, <2>2
      <4>3. QED
        BY <1>3, <4>1, <4>2
    <3>5. CASE \E j \in 1 .. (i - m) - 1 : t[j] = k
      <4>1. PICK j \in 1 .. (i - m) - 1 : t[j] = k
        BY <3>5
      <4>2. m + j \in 1 .. i - 1 /\ j \in 1 .. Len(t)
        BY <1>3, <3>1
      <4>3. QED
        BY <1>3, <4>1, <4>2
    <3>6. QED
      BY <3>3, <3>4, <3>5
  <2>3. QED
    BY <2>1, <2>2
<1>6. Ordered(c, N, {})
  BY <1>2, <1>5 DEF Ordered
<1>7. QED
  BY <1>2, <1>6 DEF c

(* The pipelines needed by two that the same pipeline needs are apart. *)
LEMMA Apart ==
  ASSUME NEW n \in Nat, NEW N, TreeOf(N, n), NEW q \in 1 .. n,
         NEW a \in N[q], NEW b \in N[q], a # b,
         NEW A \in SUBSET (1 .. n), NEW B \in SUBSET (1 .. n), Rooted(A, N, a), Rooted(B, N, b)
  PROVE  A \cap B = {}
<1> SUFFICES ASSUME A \cap B # {} PROVE FALSE
  OBVIOUS
<1>1. A \cap B \in SUBSET Nat
  OBVIOUS
<1>2. PICK x \in A \cap B : \A y \in A \cap B : x <= y
  BY <1>1, LeastNatural
<1>3. a \in 1 .. n /\ b \in 1 .. n /\ q < a /\ q < b
  BY DEF TreeOf
<1>4. \A y \in 1 .. n : a \in N[y] => y = q
  BY DEF TreeOf
<1>5. \A y \in 1 .. n : b \in N[y] => y = q
  BY DEF TreeOf
<1>6. CASE x = a
  <2>1. PICK y \in B : a \in N[y]
    BY <1>2, <1>6 DEF Rooted
  <2>2. y = q /\ b <= y
    BY <1>4, <2>1 DEF Rooted
  <2>3. QED
    BY <1>3, <2>2
<1>7. CASE x = b
  <2>1. PICK y \in A : b \in N[y]
    BY <1>2, <1>7 DEF Rooted
  <2>2. y = q /\ a <= y
    BY <1>5, <2>1 DEF Rooted
  <2>3. QED
    BY <1>3, <2>2
<1>8. CASE x # a /\ x # b
  <2>1. PICK y \in A : x \in N[y]
    BY <1>2, <1>8 DEF Rooted
  <2>2. PICK z \in B : x \in N[z]
    BY <1>2, <1>8 DEF Rooted
  <2>3. y \in 1 .. n /\ z \in 1 .. n
    OBVIOUS
  <2>4. y = z /\ y < x
    BY <2>1, <2>2, <2>3 DEF TreeOf
  <2>5. x <= y /\ x \in 1 .. n
    BY <1>2, <2>4
  <2>6. QED
    BY <2>3, <2>4, <2>5
<1>9. QED
  BY <1>6, <1>7, <1>8

(* The orders of what a pipeline needs, one after the other, and then the  *)
(* pipeline itself.                                                        *)
LEMMA OrderedTree ==
  ASSUME NEW n \in Nat, NEW N, TreeOf(N, n), NEW q \in 1 .. n,
         NEW kids \in Seq(1 .. n), IsInjective(kids), Range(kids) = N[q],
         NEW g, g \in [1 .. Len(kids) -> Seq(1 .. n)],
         \A i \in 1 .. Len(kids) : Ordered(g[i], N, {}) /\ Rooted(Range(g[i]), N, kids[i])
  PROVE  /\ FlattenSeq(g) \o <<q>> \in Seq(1 .. n)
         /\ Ordered(FlattenSeq(g) \o <<q>>, N, {})
         /\ Rooted(Range(FlattenSeq(g) \o <<q>>), N, q)
<1> DEFINE D == 1 .. n
           l == Len(kids)
           G(k) == [i \in 1 .. k |-> g[i]]
           P == {k \in 0 .. l : Ordered(FlattenSeq(G(k)), N, {})}
<1>1. l \in Nat /\ DOMAIN kids = 1 .. l
  OBVIOUS
<1>2. \A x : x \in N[q] <=> \E k \in 1 .. l : x = kids[k]
  <2>1. \A x : x \in Range(kids) <=> \E k \in 1 .. Len(kids) : x = kids[k]
    BY InRange
  <2>2. QED
    BY <2>1
<1>3. \A i \in 1 .. l : kids[i] \in N[q] /\ kids[i] \in D /\ q < kids[i]
  BY <1>2 DEF TreeOf
<1>4. \A i \in 1 .. l : Range(g[i]) \in SUBSET D
  <2>1. ASSUME NEW i \in 1 .. l PROVE Range(g[i]) \subseteq D
    <3>1. g[i] \in Seq(1 .. n)
      OBVIOUS
    <3>2. QED
      BY <3>1, RangeFinite
  <2>2. QED
    BY <2>1
<1>5. \A i, j \in 1 .. l : i # j => Range(g[i]) \cap Range(g[j]) = {}
  <2> SUFFICES ASSUME NEW i \in 1 .. l, NEW j \in 1 .. l, i # j PROVE Range(g[i]) \cap Range(g[j]) = {}
    OBVIOUS
  <2>1. kids[i] # kids[j]
    BY <1>1 DEF IsInjective
  <2>2. Rooted(Range(g[i]), N, kids[i]) /\ Rooted(Range(g[j]), N, kids[j])
    OBVIOUS
  <2>3. Range(g[i]) \in SUBSET (1 .. n) /\ Range(g[j]) \in SUBSET (1 .. n)
    BY <1>4
  <2>4. kids[i] \in N[q] /\ kids[j] \in N[q]
    BY <1>3
  <2> DEFINE a == kids[i]
             b == kids[j]
             A == Range(g[i])
             B == Range(g[j])
  <2>5. Rooted(A, N, a) /\ Rooted(B, N, b) /\ A \in SUBSET (1 .. n) /\ B \in SUBSET (1 .. n)
        /\ a \in N[q] /\ b \in N[q] /\ a # b
    BY <2>1, <2>2, <2>3, <2>4
  <2> HIDE DEF a, b, A, B, D, l, G, P
  <2>6. A \cap B = {}
    BY <2>5, Apart
  <2>7. QED
    BY <2>6 DEF A, B
<1>6. ASSUME NEW k \in 0 .. l
      PROVE  /\ G(k) \in Seq(Seq(D)) /\ Len(G(k)) = k /\ FlattenSeq(G(k)) \in Seq(D)
             /\ \A e : e \in Range(FlattenSeq(G(k))) <=> \E i \in 1 .. k : e \in Range(g[i])
  <2>1. G(k) \in Seq(Seq(D)) /\ Len(G(k)) = k /\ \A i \in 1 .. k : G(k)[i] = g[i]
    BY <1>1
  <2> DEFINE gk == G(k)
  <2> HIDE DEF D, G
  <2>2. Range(FlattenSeq(gk)) = UNION {Range(gk[i]) : i \in 1 .. Len(gk)}
    BY <2>1, FlattenRange
  <2>3. FlattenSeq(gk) \in Seq(D)
    <3>1. <<>> \in Seq(D)
      OBVIOUS
    <3>2. QED
      BY <2>1, <3>1, FlattenAppend
  <2>4. QED
    BY <2>1, <2>2, <2>3
<1>7. 0 \in P
  <2>1. G(0) \in Seq(Seq(D)) /\ FlattenSeq(G(0)) \in Seq(D)
        /\ \A e : e \in Range(FlattenSeq(G(0))) <=> \E i \in 1 .. 0 : e \in Range(g[i])
    <3>1. 0 \in 0 .. l
      BY <1>1
    <3> HIDE DEF G, D, P, l
    <3>2. QED
      BY <1>6, <3>1
  <2> DEFINE s == FlattenSeq(G(0))
  <2> HIDE DEF s
  <2>2. \A x : x \in Range(s) <=> \E k \in 1 .. Len(s) : x = s[k]
    BY <2>1, InRange DEF s
  <2>3. ASSUME NEW k \in 1 .. Len(s) PROVE FALSE
    <3>1. s[k] \in Range(s)
      BY <2>2
    <3>2. PICK i \in 1 .. 0 : s[k] \in Range(g[i])
      BY <2>1, <3>1 DEF s
    <3>3. QED
      OBVIOUS
  <2>4. DOMAIN s = 1 .. Len(s)
    BY <2>1 DEF s
  <2>5. Ordered(s, N, {})
    BY <2>3, <2>4 DEF Ordered, IsInjective
  <2>6. QED
    BY <1>1, <2>5 DEF s
<1>8. ASSUME NEW k \in 0 .. l - 1, k \in P PROVE k + 1 \in P
  <2>1. k \in 0 .. l /\ k + 1 \in 0 .. l /\ k + 1 \in 1 .. l /\ k \in Nat
    BY <1>1
  <2> DEFINE a == G(k)
             b == G(k + 1)
             t == g[k + 1]
  <2>2. a \in Seq(Seq(D)) /\ Len(a) = k /\ \A e : e \in Range(FlattenSeq(a)) <=> \E i \in 1 .. k : e \in Range(g[i])
    BY <1>6, <2>1
  <2>3. t \in Seq(D) /\ Ordered(t, N, {})
    BY <2>1
  <2>4. b = Append(a, t)
    <3>1. b = [i \in 1 .. k + 1 |-> g[i]] /\ a = [i \in 1 .. k |-> g[i]]
      OBVIOUS
    <3>2. Append(a, t) = [i \in 1 .. k + 1 |-> IF i = k + 1 THEN t ELSE a[i]]
      BY <2>1, <2>2
    <3>3. \A i \in 1 .. k + 1 : (IF i = k + 1 THEN t ELSE a[i]) = g[i]
      BY <2>1, <3>1
    <3>4. QED
      BY <3>1, <3>2, <3>3
  <2>5. Ordered(FlattenSeq(a), N, {})
    BY <1>8
  <2> HIDE DEF a, b, t, D, l, G
  <2>6. FlattenSeq(b) = FlattenSeq(a) \o t /\ FlattenSeq(a) \in Seq(D)
    BY <2>2, <2>3, <2>4, FlattenAppend
  <2>7. Range(t) \cap Range(FlattenSeq(a)) = {}
    <3>1. \A i \in 1 .. k : i \in 1 .. l /\ i # k + 1
      BY <1>1, <2>1
    <3>2. \A i \in 1 .. k : Range(g[i]) \cap Range(t) = {}
      BY <1>5, <2>1, <3>1 DEF t
    <3>3. QED
      BY <2>2, <3>2
  <2>8. Ordered(t, N, Range(FlattenSeq(a)))
    BY <2>3 DEF Ordered
  <2>9. Ordered(FlattenSeq(b), N, {})
    BY <2>3, <2>5, <2>6, <2>7, <2>8, OrderedConcat
  <2>10. QED
    BY <2>1, <2>9 DEF b
<1>9. 0 .. l \subseteq P
  <2> HIDE DEF P, l
  <2>1. QED
    BY <1>1, <1>7, <1>8, UpTo
<1>10. G(l) = g
  OBVIOUS
<1> DEFINE f == FlattenSeq(g)
           u == <<q>>
           s == f \o u
<1>11. /\ Ordered(f, N, {}) /\ f \in Seq(D)
       /\ \A e : e \in Range(f) <=> \E i \in 1 .. l : e \in Range(g[i])
  <2>1. l \in 0 .. l /\ l \in P
    <3> HIDE DEF P, l
    <3>1. QED
      BY <1>1, <1>9
  <2>2. Ordered(FlattenSeq(G(l)), N, {})
    BY <2>1
  <2> HIDE DEF G, P, D
  <2>3. QED
    BY <1>6, <1>10, <2>1, <2>2
<1> HIDE DEF f, G, P
<1>12. /\ u \in Seq(D) /\ Len(u) = 1 /\ u[1] = q /\ DOMAIN u = {1}
       /\ \A x : x \in Range(u) <=> x = q
  BY DEF Range
<1>13. \A x \in Range(f) : q < x
  <2> SUFFICES ASSUME NEW x \in Range(f) PROVE q < x
    OBVIOUS
  <2>1. PICK i \in 1 .. l : x \in Range(g[i])
    BY <1>11
  <2>2. kids[i] <= x /\ x \in D /\ q < kids[i] /\ kids[i] \in D
    BY <1>3, <1>4, <2>1 DEF Rooted
  <2>3. QED
    BY <2>2
<1> HIDE DEF u, D, l
<1>14. Range(u) \cap Range(f) = {}
  BY <1>12, <1>13 DEF D
<1>15. \A i \in 1 .. l : kids[i] \in Range(f)
  BY <1>11 DEF Rooted, l
<1>16. Ordered(u, N, Range(f))
  <2>1. \A k \in N[q] : k \in Range(f)
    BY <1>2, <1>15
  <2>2. IsInjective(u)
    BY <1>12 DEF IsInjective
  <2>3. \A i \in 1 .. Len(u) : u[i] = q
    BY <1>12
  <2>4. QED
    BY <2>1, <2>2, <2>3 DEF Ordered
<1>17. /\ s \in Seq(D) /\ Ordered(s, N, {})
       /\ \A e : e \in Range(s) <=> e \in Range(f) \/ e \in Range(u)
  BY <1>11, <1>12, <1>14, <1>16, OrderedConcat
<1>18. Rooted(Range(s), N, q)
  <2>1. q \in Range(s)
    BY <1>12, <1>17
  <2>2. ASSUME NEW x \in Range(s) PROVE q <= x /\ (x = q \/ \E y \in Range(s) : x \in N[y])
    <3>1. CASE x = q
      BY <3>1
    <3>2. CASE x \in Range(f)
      <4>1. PICK i \in 1 .. l : x \in Range(g[i])
        BY <1>11, <3>2
      <4>2. x = kids[i] \/ \E y \in Range(g[i]) : x \in N[y]
        BY <4>1 DEF Rooted, l
      <4>3. \A y \in Range(g[i]) : y \in Range(s)
        BY <1>11, <1>17
      <4>4. kids[i] \in N[q]
        BY <1>3
      <4>5. x \in D /\ q < x
        BY <1>4, <1>13, <3>2, <4>1
      <4>6. QED
        BY <2>1, <4>2, <4>3, <4>4, <4>5 DEF D
    <3>3. QED
      BY <1>12, <1>17, <3>1, <3>2
  <2>3. QED
    BY <2>1, <2>2 DEF Rooted
<1>19. QED
  BY <1>17, <1>18 DEF f, u, D

(* What CollectTransitiveDependencies returns for a pipeline, given what   *)
(* it returns for those the pipeline depends on.                           *)
Collected(f, deps, q) == FlattenSeq([i \in DOMAIN deps[q] |-> f[deps[q][i]]]) \o <<q>>

(* The dependencies of each pipeline, in some order. *)
Declared(deps, N, n) ==
  /\ DOMAIN deps = 1 .. n
  /\ \A q \in 1 .. n : deps[q] \in Seq(1 .. n) /\ IsInjective(deps[q]) /\ Range(deps[q]) = N[q]

(* It only looks at younger pipelines. *)
LEMMA DeclaredIs ==
  ASSUME NEW n \in Nat, NEW N, TreeOf(N, n), NEW deps, Declared(deps, N, n), NEW q \in 1 .. n
  PROVE  /\ DOMAIN deps[q] = 1 .. Len(deps[q]) /\ Len(deps[q]) \in Nat
         /\ \A i \in DOMAIN deps[q] : deps[q][i] \in 1 .. n /\ q < deps[q][i]
<1>1. deps[q] \in Seq(1 .. n) /\ Range(deps[q]) = N[q]
  BY DEF Declared
<1>2. \A i \in DOMAIN deps[q] : deps[q][i] \in N[q]
  BY <1>1 DEF Range
<1>3. QED
  BY <1>1, <1>2 DEF TreeOf

(* What is collected is a sequence of pipelines. *)
LEMMA CollectedType ==
  ASSUME NEW n \in Nat, NEW N, TreeOf(N, n), NEW deps, Declared(deps, N, n), NEW q \in 1 .. n,
         NEW f, \A i \in DOMAIN deps[q] : f[deps[q][i]] \in Seq(1 .. n)
  PROVE  /\ [i \in DOMAIN deps[q] |-> f[deps[q][i]]] \in [1 .. Len(deps[q]) -> Seq(1 .. n)]
         /\ Collected(f, deps, q) \in Seq(1 .. n)
<1> DEFINE g == [i \in DOMAIN deps[q] |-> f[deps[q][i]]]
           D == 1 .. n
           t == <<q>>
<1>1. DOMAIN deps[q] = 1 .. Len(deps[q]) /\ Len(deps[q]) \in Nat
  BY DeclaredIs
<1>2. g \in [1 .. Len(deps[q]) -> Seq(D)]
  BY <1>1
<1>3. g \in Seq(Seq(D)) /\ t \in Seq(D)
  BY <1>1, <1>2
<1>4. Collected(f, deps, q) = FlattenSeq(g) \o t
  BY DEF Collected
<1> HIDE DEF g, D, t
<1>5. FlattenSeq(g) \in Seq(D)
  BY <1>3, FlattenAppend
<1>6. QED
  BY <1>2, <1>3, <1>4, <1>5 DEF g, D

(* Equal arguments are collected equally. *)
LEMMA CollectedSame ==
  ASSUME NEW deps, NEW q, NEW f, NEW h, \A i \in DOMAIN deps[q] : f[deps[q][i]] = h[deps[q][i]]
  PROVE  Collected(f, deps, q) = Collected(h, deps, q)
<1>1. [i \in DOMAIN deps[q] |-> f[deps[q][i]]] = [i \in DOMAIN deps[q] |-> h[deps[q][i]]]
  OBVIOUS
<1>2. QED
  BY <1>1 DEF Collected

(* The recursion ends, because dependencies are younger. *)
LEMMA CollectEnds ==
  ASSUME NEW n \in Nat, NEW N, TreeOf(N, n), NEW deps, Declared(deps, N, n)
  PROVE  \E f : f = [q \in 1 .. n |-> Collected(f, deps, q)]
<1> DEFINE Ok(f, k) == \A q \in 1 .. n : q > n - k => f[q] = Collected(f, deps, q)
           P == {k \in 0 .. n : \E f \in [1 .. n -> Seq(1 .. n)] : Ok(f, k)}
<1>1. 0 \in P
  <2> DEFINE f == [q \in 1 .. n |-> <<>>]
  <2>1. f \in [1 .. n -> Seq(1 .. n)]
    OBVIOUS
  <2> HIDE DEF f
  <2>2. Ok(f, 0)
    OBVIOUS
  <2> HIDE DEF Ok
  <2>3. QED
    BY <2>1, <2>2
<1>2. ASSUME NEW k \in 0 .. n - 1, k \in P PROVE k + 1 \in P
  <2>1. PICK f \in [1 .. n -> Seq(1 .. n)] : Ok(f, k)
    BY <1>2
  <2> DEFINE r == n - k
             b == Collected(f, deps, r)
             h == [f EXCEPT ![r] = b]
  <2>2. r \in 1 .. n
    OBVIOUS
  <2> HIDE DEF r
  <2>3. b \in Seq(1 .. n)
    <3>1. \A i \in DOMAIN deps[r] : deps[r][i] \in 1 .. n
      BY <2>2, DeclaredIs
    <3>2. \A i \in DOMAIN deps[r] : f[deps[r][i]] \in Seq(1 .. n)
      BY <3>1
    <3>3. QED
      BY <2>2, <3>2, CollectedType
  <2> HIDE DEF b
  <2>4. h \in [1 .. n -> Seq(1 .. n)] /\ h[r] = b /\ \A q \in 1 .. n : q # r => h[q] = f[q]
    BY <2>2, <2>3
  <2> HIDE DEF h
  <2>5. ASSUME NEW q \in 1 .. n, q > n - (k + 1) PROVE h[q] = Collected(h, deps, q)
    <3>1. q = r \/ q > n - k
      BY <2>5 DEF r
    <3>2. \A i \in DOMAIN deps[q] : deps[q][i] \in 1 .. n /\ q < deps[q][i]
      BY DeclaredIs
    <3>3. \A i \in DOMAIN deps[q] : deps[q][i] # r
      BY <2>2, <3>1, <3>2 DEF r
    <3>4. \A i \in DOMAIN deps[q] : f[deps[q][i]] = h[deps[q][i]]
      BY <2>4, <3>2, <3>3
    <3>5. Collected(f, deps, q) = Collected(h, deps, q)
      BY <3>4, CollectedSame
    <3>6. CASE q = r
      BY <2>4, <3>5, <3>6 DEF b
    <3>7. CASE q > n - k
      <4>1. q # r
        BY <3>7 DEF r
      <4>2. f[q] = Collected(f, deps, q)
        BY <2>1, <3>7
      <4>3. QED
        BY <2>4, <3>5, <4>1, <4>2
    <3>8. QED
      BY <3>1, <3>6, <3>7
  <2>6. Ok(h, k + 1)
    BY <2>5
  <2>7. QED
    BY <2>4, <2>6
<1>3. n \in P
  <2> HIDE DEF P
  <2>1. 0 .. n \subseteq P
    BY <1>1, <1>2, UpTo
  <2>2. QED
    BY <2>1
<1>4. PICK f \in [1 .. n -> Seq(1 .. n)] : Ok(f, n)
  BY <1>3
<1>5. \A q \in 1 .. n : f[q] = Collected(f, deps, q)
  BY <1>4
<1> HIDE DEF Ok, P
<1>6. f = [q \in 1 .. n |-> Collected(f, deps, q)]
  BY <1>5
<1>7. QED
  BY <1>6

(* The order that is collected. *)
LEMMA CollectOrders ==
  ASSUME NEW n \in Nat, NEW N, TreeOf(N, n), NEW deps, Declared(deps, N, n), NEW p \in 1 .. n
  PROVE  /\ CollectTransitiveDependencies(deps, p) \in Seq(1 .. n)
         /\ Ordered(CollectTransitiveDependencies(deps, p), N, {})
<1> DEFINE from[q \in DOMAIN deps] ==
             FlattenSeq([i \in DOMAIN deps[q] |-> from[deps[q][i]]]) \o <<q>>
<1>1. CollectTransitiveDependencies(deps, p) = from[p]
  BY DEF CollectTransitiveDependencies
<1>2. DOMAIN deps = 1 .. n
  BY DEF Declared
<1>3. PICK f : f = [q \in 1 .. n |-> Collected(f, deps, q)]
  BY CollectEnds
<1>4. f = [q \in DOMAIN deps |-> FlattenSeq([i \in DOMAIN deps[q] |-> f[deps[q][i]]]) \o <<q>>]
  BY <1>2, <1>3 DEF Collected
<1>5. from = [q \in DOMAIN deps |-> FlattenSeq([i \in DOMAIN deps[q] |-> from[deps[q][i]]]) \o <<q>>]
  BY <1>4
<1> HIDE DEF from
<1>6. \A q \in 1 .. n : from[q] = Collected(from, deps, q)
  BY <1>2, <1>5 DEF Collected
<1> DEFINE Good(q) == /\ from[q] \in Seq(1 .. n) /\ Ordered(from[q], N, {})
                      /\ Rooted(Range(from[q]), N, q)
           T == {m \in 0 .. n : \E q \in 1 .. n : m = n - q /\ ~Good(q)}
<1>7. T = {}
  <2> SUFFICES ASSUME T # {} PROVE FALSE
    OBVIOUS
  <2>1. T \in SUBSET Nat
    OBVIOUS
  <2>2. PICK m \in T : \A k \in T : m <= k
    <3> HIDE DEF T
    <3>1. QED
      BY <2>1, LeastNatural
  <2>3. PICK q \in 1 .. n : m = n - q /\ ~Good(q)
    OBVIOUS
  <2>4. \A r \in 1 .. n : q < r => Good(r)
    <3> SUFFICES ASSUME NEW r \in 1 .. n, q < r, ~Good(r) PROVE FALSE
      OBVIOUS
    <3>1. n - r \in T /\ n - r < m
      BY <2>3
    <3> HIDE DEF T, Good
    <3>2. QED
      BY <2>1, <2>2, <3>1
  <2> HIDE DEF T
  <2> DEFINE kids == deps[q]
             g == [i \in DOMAIN deps[q] |-> from[deps[q][i]]]
  <2>5. /\ DOMAIN kids = 1 .. Len(kids)
        /\ \A i \in DOMAIN kids : kids[i] \in 1 .. n /\ q < kids[i]
    BY DeclaredIs
  <2>6. \A i \in DOMAIN kids : Good(kids[i])
    BY <2>4, <2>5
  <2>7. kids \in Seq(1 .. n) /\ IsInjective(kids) /\ Range(kids) = N[q]
    BY DEF Declared
  <2>8. g \in [1 .. Len(kids) -> Seq(1 .. n)]
    BY <2>5, <2>6
  <2>9. \A i \in 1 .. Len(kids) : Ordered(g[i], N, {}) /\ Rooted(Range(g[i]), N, kids[i])
    BY <2>5, <2>6
  <2>10. from[q] = FlattenSeq(g) \o <<q>>
    BY <1>6 DEF Collected
  <2> HIDE DEF g, kids
  <2>11. /\ FlattenSeq(g) \o <<q>> \in Seq(1 .. n)
         /\ Ordered(FlattenSeq(g) \o <<q>>, N, {})
         /\ Rooted(Range(FlattenSeq(g) \o <<q>>), N, q)
    BY <2>7, <2>8, <2>9, OrderedTree
  <2>12. QED
    BY <2>3, <2>10, <2>11
<1>8. Good(p)
  <2>1. n - p \in 0 .. n
    OBVIOUS
  <2>2. QED
    BY <1>7, <2>1
<1>9. QED
  BY <1>1, <1>8

(* Every query that may result from a plan has such an order. *)
LEMMA PlanIsOrdered ==
  ASSUME NEW g, PipelineTree(g), NEW qr \in GeneratePlan(g)
  PROVE  OrderOK(qr)
<1> DEFINE n == Len(g.pipes)
           N == [p \in 1 .. n |-> Needs(g.edges, p)]
<1>1. n \in Nat /\ n # 0 /\ DOMAIN g.pipes = 1 .. n
  BY DEF PipelineTree
<1>2. PICK deps \in EstablishPipelineDependencies(g) :
        qr = [pipes |-> g.pipes, edges |-> g.edges, op |-> g.op,
              exec_order |-> CollectTransitiveDependencies(deps, MainPipeline)]
  BY DEF GeneratePlan
<1>3. \A e \in g.edges : e.from \in 1 .. n /\ e.to \in 1 .. n /\ e.from < e.to
  BY DEF PipelineTree
<1>4. \A d, e \in g.edges : d.to = e.to => d = e
  BY DEF PipelineTree
<1> HIDE DEF n
<1>5. \A p \in 1 .. n : \A k : k \in N[p] <=> \E e \in g.edges : e.from = p /\ e.to = k
  BY DEF Needs
<1>6. \A p \in 1 .. n : N[p] = Needs(g.edges, p)
  OBVIOUS
<1> HIDE DEF N
<1>7. TreeOf(N, n)
  <2>1. ASSUME NEW q \in 1 .. n, NEW k \in N[q] PROVE k \in 1 .. n /\ q < k
    <3>1. PICK e \in g.edges : e.from = q /\ e.to = k
      BY <1>5, <2>1
    <3>2. QED
      BY <1>3, <3>1
  <2>2. ASSUME NEW q \in 1 .. n, NEW r \in 1 .. n, NEW k \in N[q], k \in N[r] PROVE q = r
    <3>1. PICK e \in g.edges : e.from = q /\ e.to = k
      BY <1>5, <2>2
    <3>2. PICK d \in g.edges : d.from = r /\ d.to = k
      BY <1>5, <2>2
    <3>3. QED
      BY <1>4, <3>1, <3>2
  <2>3. QED
    BY <2>1, <2>2 DEF TreeOf
<1>8. Declared(deps, N, n)
  <2>1. DOMAIN deps = 1 .. n /\ \A p \in 1 .. n : deps[p] \in SetToSeqs(Needs(g.edges, p))
    BY <1>1 DEF EstablishPipelineDependencies
  <2>2. ASSUME NEW p \in 1 .. n
        PROVE  deps[p] \in Seq(1 .. n) /\ IsInjective(deps[p]) /\ Range(deps[p]) = N[p]
    <3> DEFINE S == N[p]
               s == deps[p]
    <3>1. s \in SetToSeqs(S)
      BY <1>6, <2>1
    <3>2. S \subseteq 1 .. n
      BY <1>7 DEF TreeOf
    <3>3. IsFiniteSet(S)
      BY <1>1, <3>2, FirstSize, FS_Subset
    <3> HIDE DEF S, s
    <3>4. s \in Seq(S) /\ IsInjective(s) /\ Range(s) = S
      BY <3>1, <3>3, Arrangement
    <3>5. s \in Seq(1 .. n)
      <4> DEFINE D == 1 .. n
      <4>1. S \subseteq D
        BY <3>2
      <4> HIDE DEF D
      <4>2. s \in Seq(D)
        BY <3>4, <4>1
      <4>3. QED
        BY <4>2 DEF D
    <3>6. QED
      BY <3>4, <3>5 DEF S, s
  <2>3. QED
    BY <2>1, <2>2 DEF Declared
<1> DEFINE o == CollectTransitiveDependencies(deps, MainPipeline)
<1>9. o \in Seq(1 .. n) /\ Ordered(o, N, {})
  <2>1. MainPipeline \in 1 .. n
    BY <1>1 DEF MainPipeline
  <2>2. QED
    BY <1>1, <1>7, <1>8, <2>1, CollectOrders
<1>10. qr.exec_order = o /\ qr.edges = g.edges
  BY <1>2
<1> HIDE DEF o
<1>11. Len(o) \in Nat /\ DOMAIN o = 1 .. Len(o) /\ \A i \in 1 .. Len(o) : o[i] \in 1 .. n
  <2> DEFINE D == 1 .. n
  <2>1. o \in Seq(D)
    BY <1>9
  <2> HIDE DEF D
  <2>2. Len(o) \in Nat /\ DOMAIN o = 1 .. Len(o) /\ \A i \in 1 .. Len(o) : o[i] \in D
    BY <2>1
  <2>3. QED
    BY <2>2 DEF D
<1>12. \A i, j \in 1 .. Len(o) : o[i] = o[j] => i = j
  BY <1>9, <1>11 DEF Ordered, IsInjective
<1>13. ASSUME NEW i \in 1 .. Len(o), NEW e \in g.edges, e.from = o[i]
       PROVE  \E j \in 1 .. i - 1 : e.to = o[j]
  <2>1. e.to \in N[o[i]]
    BY <1>5, <1>11, <1>13
  <2>2. QED
    BY <1>9, <2>1 DEF Ordered
<1>14. QED
  BY <1>10, <1>11, <1>12, <1>13 DEF OrderOK

----------------------------------------------------------------------------
(* The theorems *)

(* A query begins with a plan, an untouched module and no thread states. *)
LEMMA InitHolds == Init => QInv
<1> SUFFICES ASSUME Init PROVE QInv
  OBVIOUS
<1>1. /\ session \in Sessions /\ query \in GeneratePlan(Prepared(session.plan, session.parallel))
      /\ runs = 0 /\ pc = "idle" /\ step = 1 /\ failed = FALSE /\ work = [t \in Threads |-> NoTask]
      /\ states = [t \in Threads |-> NoState] /\ destroyed = {}
      /\ compiled_flag = "idle" /\ stored = 0
  BY DEF Init, TlsInit, ModuleInit
<1>2. OrderOK(query)
  <2>1. PipelineTree(Prepared(session.plan, session.parallel))
    BY <1>1, PreparedAssumption
  <2>2. QED
    BY <1>1, <2>1, PlanIsOrdered
<1>3. NumSteps \in Nat
  BY <1>2 DEF OrderOK, NumSteps
<1>4. MainInv
  BY <1>1, <1>2, <1>3 DEF MainInv
<1>5. ThreadInv
  BY <1>1 DEF ThreadInv
<1>6. ModuleInv
  BY <1>1 DEF ModuleInv
<1>7. CalledInv
  BY <1>1 DEF CalledInv
<1>8. QED
  BY <1>4, <1>5, <1>6, <1>7 DEF QInv

(* Stuttering keeps everything. *)
LEMMA StutterStep == ASSUME QInv, UNCHANGED vars PROVE QInv'
<1>1. /\ session' = session /\ query' = query /\ runs' = runs /\ pc' = pc /\ step' = step
      /\ failed' = failed /\ work' = work /\ completed' = completed /\ ran' = ran
      /\ installed' = installed /\ states' = states /\ destroyed' = destroyed
      /\ stored' = stored /\ compiled_flag' = compiled_flag
  BY DEF vars, mainVars, workVars, tls, module
<1>2. PlanSame /\ MainInv /\ ThreadInv /\ ModuleInv /\ CalledInv
  BY <1>1, PlanStays DEF QInv
<1>3. MainInv'
  BY <1>1, <1>2 DEF MainInv, PlanSame
<1>4. ThreadInv'
  BY <1>1, <1>2 DEF ThreadInv, NoStates, PlanSame
<1>5. ModuleInv' /\ CalledInv'
  BY <1>1, <1>2, ModuleSame, CalledSame
<1>6. QED
  BY <1>3, <1>4, <1>5 DEF QInv

(* Every step keeps the invariant. *)
LEMMA NextKeeps == QInv /\ [Next]_vars => QInv'
<1> SUFFICES ASSUME QInv, [Next]_vars PROVE QInv'
  OBVIOUS
<1>1. CASE UNCHANGED vars
  BY <1>1, StutterStep
<1>2. CASE BeginRun
  BY <1>2, BeginRunStep
<1>3. CASE MainStep
  <2>1. CASE TakeTask(main)
    BY <2>1, TakeTaskStep, ThreadsAssumption
  <2>2. QED
    BY <1>3, <2>1, InitQueryStep, InitPipelineStep, RunPipelineStep, FinishStep,
       TearDownPipelineStep, TearDownQueryStep, DestroyStep DEF MainStep
<1>4. CASE Throw
  BY <1>4, ThrowStep
<1>5. CASE Compile
  BY <1>5, CompileStep
<1>6. CASE Finished
  BY <1>6, StutterStep DEF Finished
<1>7. CASE \E t \in Threads \ {main} : TakeTask(t)
  BY <1>7, TakeTaskStep
<1>8. CASE \E t \in Threads : TaskStep(t)
  BY <1>8, ScanVectorStep, ScanEndsStep, ProduceRowsStep DEF TaskStep
<1>9. QED
  BY <1>1, <1>2, <1>3, <1>4, <1>5, <1>6, <1>7, <1>8 DEF Next

(* The inductive invariant holds in every state of every session: the      *)
(* order of execution, who made each thread's state, and how far the       *)
(* module is compiled.                                                     *)
THEOREM QInvariantHolds == Spec => []QInv
<1>1. QED
  BY InitHolds, NextKeeps, PTL DEF Spec

(* The invariant gives the order of pipelines. *)
LEMMA QInvDependencies == QInv => DependenciesFirst
<1> SUFFICES ASSUME QInv, pc = "work"
             PROVE  /\ Current \notin completed
                    /\ \A e \in query.edges : e.from = Current => e.to \in completed
  BY DEF DependenciesFirst
<1>1. MainInv /\ OrderOK(query)
  BY DEF QInv, MainInv
<1> DEFINE b == Before(step)
<1>2. /\ Current = query.exec_order[b + 1] /\ b + 1 \in 1 .. Len(query.exec_order)
      /\ completed = FirstPipelines(b)
  BY <1>1, OneMoreRan
<1>3. b \in Nat
  <2>1. step \in Nat \ {0}
    BY <1>1 DEF MainInv
  <2>2. QED
    BY <2>1, StepParts
<1> HIDE DEF b
<1>4. completed = {query.exec_order[j] : j \in 1 .. b}
  BY <1>2 DEF FirstPipelines
<1>5. \A j \in 1 .. b : j \in 1 .. Len(query.exec_order) /\ j # b + 1
  BY <1>1, <1>2, <1>3 DEF OrderOK
<1>6. Current \notin completed
  BY <1>1, <1>2, <1>4, <1>5 DEF OrderOK
<1>7. ASSUME NEW e \in query.edges, e.from = Current PROVE e.to \in completed
  <2>1. \E j \in 1 .. (b + 1) - 1 : e.to = query.exec_order[j]
    BY <1>1, <1>2, <1>7 DEF OrderOK
  <2>2. (b + 1) - 1 = b
    BY <1>3
  <2>3. QED
    BY <1>4, <2>1, <2>2
<1>8. QED
  BY <1>6, <1>7

(* A pipeline runs only when everything it reads is complete, and once in  *)
(* a query: for every plan the translators prepare, every order they       *)
(* declare dependencies in, and any number of threads.                     *)
THEOREM DependenciesFirstHolds == Spec => []DependenciesFirst
<1>1. QED
  BY QInvariantHolds, QInvDependencies, PTL

(* The invariant gives the lifecycle of states. *)
LEMMA QInvLifecycle == QInv => ThreadStateLifecycle
<1> SUFFICES ASSUME QInv PROVE ThreadStateLifecycle
  OBVIOUS
<1>1. MainInv /\ ThreadInv
  BY DEF QInv
<1>2. \A d \in destroyed : d[1] = d[2]
  BY <1>1 DEF ThreadInv
<1>3. ASSUME NEW t \in Threads, work[t] # NoTask PROVE states[t].born = Current
  <2>1. pc = "work" /\ states[t].born = installed
    BY <1>1, <1>3 DEF ThreadInv
  <2>2. QED
    BY <1>1, <2>1, WorkInstalled
<1>4. ASSUME (pc = "destroy" /\ ~failed) \/ pc = "idle" PROVE Live = {}
  <2>1. NoStates
    BY <1>4 DEF NoStates
  <2>2. QED
    BY <1>1, <2>1 DEF ThreadInv, Live
<1>5. QED
  BY <1>2, <1>3, <1>4 DEF ThreadStateLifecycle

(* No thread works on a state of another pipeline, no state is destroyed   *)
(* by another pipeline's function, and none outlives its query's context,  *)
(* whichever step throws.                                                  *)
THEOREM ThreadStateLifecycleHolds == Spec => []ThreadStateLifecycle
<1>1. QED
  BY QInvariantHolds, QInvLifecycle, PTL

(* A run in compiled mode never calls bytecode, whatever an adaptive run   *)
(* before it has left to compile.                                          *)
THEOREM CompiledRunsMachineCodeHolds == Spec => []CompiledRunsMachineCode
<1>1. QInv => CompiledRunsMachineCode
  BY DEF QInv, CalledInv, CompiledRunsMachineCode
<1>2. QED
  BY <1>1, QInvariantHolds, PTL

----------------------------------------------------------------------------
(* The pipelines the translators make *)

(* Graphs of pipelines; what nodes and edges are is left open. *)
Graphs(E, X) ==
  [pipes : Seq([steps : Seq(X), driver : X, parallel : BOOLEAN, check : BOOLEAN]),
   edges : E, op : X, setting : BOOLEAN]

(* The graph a query starts from has one pipeline. *)
LEMMA FirstIsTree ==
  ASSUME NEW setting, NEW op
  PROVE  PipelineTree(NewPipeline([pipes |-> <<>>, edges |-> {}, op |-> op, setting |-> setting], OutputId))
<1> DEFINE new == [steps |-> <<OutputId>>, driver |-> NoNode, parallel |-> setting, check |-> TRUE]
           h == NewPipeline([pipes |-> <<>>, edges |-> {}, op |-> op, setting |-> setting], OutputId)
<1>1. h.pipes = Append(<<>>, new) /\ h.edges = {}
  BY DEF NewPipeline
<1> HIDE DEF new, h
<1>2. Append(<<>>, new) = <<new>>
  OBVIOUS
<1>3. Len(h.pipes) = 1 /\ DOMAIN h.pipes = 1 .. 1
  BY <1>1, <1>2
<1>4. PipelineTree(h)
  BY <1>1, <1>3 DEF PipelineTree
<1>5. QED
  BY <1>4 DEF h

(* A breaker that opens its build pipeline adds one edge, to a pipeline    *)
(* that is new.                                                            *)
LEMMA OpenBuildKeepsTree ==
  ASSUME NEW X, NEW E, NEW g \in Graphs(E, X), PipelineTree(g),
         NEW plan, NEW pipe \in 1 .. Len(g.pipes)
  PROVE  PipelineTree(OpenBuild(plan, pipe, g))
<1> DEFINE n == Len(g.pipes)
           new == [steps |-> <<plan.id>>, driver |-> NoNode, parallel |-> g.setting, check |-> TRUE]
           h == OpenBuild(plan, pipe, g)
           edge == [node |-> plan.id, from |-> pipe, to |-> n + 1, input |-> plan.kids[1]]
           R == [steps : Seq(X), driver : X, parallel : BOOLEAN, check : BOOLEAN]
<1>1. h.pipes = Append(g.pipes, new) /\ h.edges = g.edges \cup {edge}
  BY DEF OpenBuild, Breaker, NewPipeline, BuildPipeline, Graphs
<1>2. edge.from = pipe /\ edge.to = n + 1
  OBVIOUS
<1>3. g.pipes \in Seq(R)
  BY DEF Graphs
<1> HIDE DEF new, h, edge, R
<1>4. n \in Nat /\ Len(h.pipes) = n + 1 /\ DOMAIN h.pipes = 1 .. n + 1
  BY <1>1, <1>3
<1>5. /\ \A e \in g.edges : e.from \in 1 .. n /\ e.to \in 1 .. n /\ e.from < e.to
      /\ \A d, e \in g.edges : d.to = e.to => d = e
  BY DEF PipelineTree
<1>6. \A e \in h.edges : e.from \in 1 .. n + 1 /\ e.to \in 1 .. n + 1 /\ e.from < e.to
  BY <1>1, <1>2, <1>4, <1>5
<1>7. \A e \in g.edges : e.to # n + 1
  BY <1>4, <1>5
<1>8. \A d, e \in h.edges : d.to = e.to => d = e
  BY <1>1, <1>2, <1>5, <1>7
<1>9. PipelineTree(h)
  BY <1>4, <1>6, <1>8 DEF PipelineTree
<1>10. QED
  BY <1>9 DEF h

(* The other operations of translators change pipelines, and add none. *)
LEMMA RegisterKeepsTree ==
  ASSUME NEW X, NEW E, NEW g \in Graphs(E, X), PipelineTree(g),
         NEW id, NEW parallel, NEW pipe \in 1 .. Len(g.pipes)
  PROVE  /\ PipelineTree(RegisterStep(g, pipe, id))
         /\ PipelineTree(RegisterSource(g, pipe, id, parallel))
         /\ PipelineTree(SetParallelCheck(g, pipe, parallel))
<1> DEFINE R == [steps : Seq(X), driver : X, parallel : BOOLEAN, check : BOOLEAN]
           Same(h) == h.edges = g.edges /\ \E x : h.pipes = [g.pipes EXCEPT ![pipe] = x]
<1>1. g.pipes \in Seq(R)
  BY DEF Graphs
<1>2. ASSUME NEW h, Same(h) PROVE PipelineTree(h)
  <2>1. PICK x : h.pipes = [g.pipes EXCEPT ![pipe] = x]
    BY <1>2
  <2> DEFINE S == R \cup {x}
  <2> HIDE DEF R
  <2>2. h.pipes \in [1 .. Len(g.pipes) -> S]
    BY <1>1, <2>1
  <2> HIDE DEF S
  <2>3. Len(h.pipes) = Len(g.pipes) /\ DOMAIN h.pipes = DOMAIN g.pipes
    BY <1>1, <2>2
  <2>4. QED
    BY <1>2, <2>3 DEF PipelineTree
<1>3. Same(RegisterStep(g, pipe, id))
  BY <1>1 DEF RegisterStep, Graphs
<1>4. Same(SetParallelCheck(g, pipe, parallel))
  BY <1>1 DEF SetParallelCheck, Graphs
<1>5. Same(RegisterSource(g, pipe, id, parallel))
  BY <1>1 DEF RegisterSource, UpdateParallelism, Graphs
<1> HIDE DEF Same
<1>6. QED
  BY <1>2, <1>3, <1>4, <1>5
=============================================================================
