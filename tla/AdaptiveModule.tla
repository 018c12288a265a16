--------------------------- MODULE AdaptiveModule ---------------------------
(***************************************************************************)
(* A module of generated code.  functions_ has the implementation of every *)
(* function, at first its bytecode.  A thread compiles the module once and *)
(* then replaces the implementations one after the other: a detached       *)
(* thread if the module is run adaptively, the caller if it is run         *)
(* compiled.  Whoever calls CompileToMachineCode while another thread is   *)
(* in it waits for that thread, by std::call_once.                         *)
(***************************************************************************)
EXTENDS Integers

(* JitModuleRetry and CompiledStarted are faulty variants, kept to show     *)
(* that a property can fail.                                                *)

VARIABLES
  compiled_flag,   (* "idle", "jit", "store" or "done"                      *)
  stored           (* how many entries of functions_ are machine code       *)

module == <<compiled_flag, stored>>

ModuleInit == compiled_flag = "idle" /\ stored = 0

\* The first call of CompileToMachineCode, by whichever thread.
RequestCompile(mode) ==
  /\ compiled_flag' = IF mode # "Interpret" /\ compiled_flag = "idle" THEN "jit" ELSE compiled_flag
  /\ UNCHANGED stored

JitModuleRetry == compiled_flag = "jit" /\ UNCHANGED module

JitModule ==
  /\ compiled_flag = "jit" /\ compiled_flag' = "store"
  /\ UNCHANGED stored

StoreFunction(numFunctions) ==
  /\ compiled_flag = "store"
  /\ stored' = stored + 1
  /\ compiled_flag' = IF stored' = numFunctions THEN "done" ELSE "store"

\* jit_module_ is set, the entries may not be.
CompiledStarted == compiled_flag \in {"store", "done"}

\* CompileToMachineCode returns.
CompileReturns == compiled_flag = "done"

\* GetFunction returns a function to call.
CanCall(mode) == mode = "Compiled" => CompileReturns

\* The implementation a call of it reaches: a function that was got for
\* interpretation never looks at functions_.
Implementation(mode, fn) == IF mode = "Compiled" /\ fn <= stored THEN "machine" ELSE "bytecode"
=============================================================================
