--------------------------------- MODULE VM ---------------------------------
(***************************************************************************)
(* From the text of a TPL program to its result: parser, analysis,         *)
(* bytecode, and execution of the function main by the interpreter or by   *)
(* the code the JIT compiler makes of the bytecode.                        *)
(*                                                                         *)
(* Both execute the same instructions.  They differ in how they follow     *)
(* control (positions in the bytecode, or blocks) and in what a parameter  *)
(* is (a cell of the frame, or a value).                                   *)
(*                                                                         *)
(* Memory maps the address of every initialised scalar to its value; what  *)
(* a cell holds before it is written is fill, chosen at the start.         *)
(***************************************************************************)
EXTENDS Ast, TLC

CONSTANTS
  Programs,   (* the programs, a sequence                                   *)
  IllFormed,  (* those of them analysis has to refuse, a set of indexes     *)
  Modes       (* subset of {"Interpret", "Compiled"}                        *)

ASSUME ProgramsAssumption ==
  /\ Programs # <<>>
  /\ IllFormed \subseteq DOMAIN Programs
  /\ Modes \subseteq {"Interpret", "Compiled"}

Txt == INSTANCE TplText
Par == INSTANCE Parser
Sem == INSTANCE Sema
Gen == INSTANCE BytecodeGenerator
Jit == INSTANCE LLVMEngine
Ref == INSTANCE TplMeaning

VARIABLES
  prog,     (* the program being run, an index of Programs                  *)
  phase,    (* "Text", "Source", "Typed", "Bytecode", "MachineCode",        *)
            (* "Running", and at the end "SyntaxError", "Rejected" or "Done"*)
  unit,     (* what the phase before made of it: tokens, a tree, a typed    *)
            (* tree, or a module: the code, the functions and their blocks  *)
  mode,     (* how it is executed                                           *)
  frames,   (* the call stack                                               *)
  mem,      (* memory                                                       *)
  fill      (* what uninitialised memory holds                              *)

machine == <<mode, frames, mem, fill>>
vars == <<prog, phase, unit, mode, frames, mem, fill>>

kResult == 8         \* where the caller of main wants the result
kStackStart == 16    \* the address of main's frame

Module == unit
Top == frames[Len(frames)]
Func == Module.funcs[Top.fn]

\* The instruction to execute: a position, or a branch between two blocks.
Current == IF mode = "Interpret" THEN Jit!InstrAt(Top.pos) ELSE Module.ir[Top.fn][Top.blk][Top.pos]
OpIs(ops) == /\ phase = "Running"
             /\ Current.at >= 0
             /\ Jit!OpAt(Module, Func, Current.at) \in ops
Opcode == Module.code[Func.start + Current.at + 1]
Operand(i) == Jit!Operand(Module, Func, Current.at, i)

Read(a) == IF a \in DOMAIN mem THEN mem[a] ELSE fill

\* The value of a local operand.  A parameter of compiled code is a value,
\* whatever the addressing mode says.
LocalAt(v) ==
  CASE v.off \in DOMAIN Top.args -> Top.args[v.off]
    [] v.off \notin DOMAIN Top.args /\ v.mode = "Value" -> Read(Top.base + v.off)
    [] OTHER -> Top.base + v.off
Val(i) == LocalAt(Operand(i))

\* The type of what the value of a local operand points to.
Pointee(v) ==
  LET t == Func.locals[SelectInSeq(Func.locals, LAMBDA l : l.off = v.off)].type
  IN IF v.mode = "Address" /\ v.off \notin DOMAIN Top.args THEN t ELSE t.of

(* Control. *)
NextPos == IF mode = "Interpret" THEN Jit!NextPosition(Module, Func, Top.pos) ELSE Top.pos + 1
Advanced == [frames EXCEPT ![Len(frames)].pos = NextPos]
Goto(target) ==
  IF mode = "Interpret" THEN [frames EXCEPT ![Len(frames)].pos = target]
  ELSE [frames EXCEPT ![Len(frames)].blk = target, ![Len(frames)].pos = 1]

Write(a, v) == mem' = (a :> v) @@ mem

\* Copies size bytes; uninitialised cells are copied as such.
Copied(dest, src, size) ==
  LET cells == {k \in 0..(size - 1) : src + k \in DOMAIN mem}
      kept == DOMAIN mem \ (dest..(dest + size - 1))
  IN [a \in kept \union {dest + k : k \in cells} |->
        IF a \in dest..(dest + size - 1) THEN mem[src + (a - dest)] ELSE mem[a]]

\* Arithmetic on an integer of w bytes.
Wrap(n, w) == IF w = 1 THEN ((n + 128) % 256) - 128 ELSE n

\* Bit i of n, in two's complement; integers have at most kBits bits and a sign.
kBits == 15
BitOf(n, i) == (n \div 2^i) % 2
BitOp(op, x, y) ==
  CASE op = "&" -> x * y [] op = "|" -> x + y - x * y [] op = "^" -> (x + y) % 2
BitByBit(op, l, r) ==
  MapThenSumSet(LAMBDA i : BitOp(op, BitOf(l, i), BitOf(r, i)) * 2^i, 0..(kBits - 1))
    - BitOp(op, BitOf(l, kBits), BitOf(r, kBits)) * 2^kBits

\* Division rounds towards zero; a shift to the right keeps the sign.
Truncated(l, r) == LET q == Abs(l) \div Abs(r) IN IF (l < 0) = (r < 0) THEN q ELSE -q

Arithmetic(op, l, r) ==
  CASE op = "+" -> l + r [] op = "-" -> l - r [] op = "*" -> l * r
    [] op = "/" -> Truncated(l, r)
    [] op = "%" -> l - r * Truncated(l, r)
    [] op \in {"&", "|", "^"} -> BitByBit(op, l, r)
    [] op = "<<" -> l * 2^r
    [] op = ">>" -> l \div 2^r

Compares(op, l, r) ==
  CASE op = "<" -> l < r [] op = "<=" -> l <= r [] op = ">" -> l > r
    [] op = ">=" -> l >= r [] op = "==" -> l = r [] op = "!=" -> l # r

Bit(b) == IF b THEN 1 ELSE 0

Step(op) == OpIs(op) /\ frames' = Advanced /\ UNCHANGED <<prog, phase, unit, mode, fill>>

OpAssignImm == Step({"AssignImm"}) /\ Write(Val(1), Operand(2))
OpAssign == Step({"Assign"}) /\ Write(Val(1), Val(2))
OpCopy == Step({"Deref", "DerefN", "AssignN"}) /\ mem' = Copied(Val(1), Val(2), Opcode.w)
OpArithmetic ==
  Step(ArithmeticOps) /\ Write(Val(1), Wrap(Arithmetic(Opcode.op, Val(2), Val(3)), Opcode.w))
OpCompare ==
  Step({"<", "<=", ">", ">=", "==", "!="}) /\ Write(Val(1), Bit(Compares(Opcode.op, Val(2), Val(3))))
OpNeg == Step({"Neg"}) /\ Write(Val(1), Wrap(-Val(2), Opcode.w))
OpBitNeg == Step({"BitNeg"}) /\ Write(Val(1), -Val(2) - 1)
OpNot == Step({"Not"}) /\ Write(Val(1), Bit(Val(2) = 0))
OpIsNullPtr ==
  /\ Step({"IsNullPtr", "IsNotNullPtr"})
  /\ Write(Val(1), Bit((Val(2) = 0) = (Opcode.op = "IsNullPtr")))
OpLea ==
  /\ Step({"Lea"})
  /\ \E t \in {Pointee(Operand(2))} :
       Write(Val(1), Val(2) + IF mode = "Interpret" THEN Operand(3) ELSE Jit!LeaOffset(t, Operand(3)))
OpLeaScaled == Step({"LeaScaled"}) /\ Write(Val(1), Val(2) + Operand(4) * Val(3) + Operand(5))

OpJump ==
  /\ OpIs({"Jump"})
  /\ frames' = Goto(Jit!BranchTarget(Module, Func, Current.at))
  /\ UNCHANGED <<prog, phase, unit, mode, mem, fill>>

\* The interpreter tests the byte, compiled code compares it with one.
OpConditionalJump ==
  LET cond == IF mode = "Interpret" THEN Val(1) % 256 # 0 ELSE Val(1) = 1
      target == Jit!BranchTarget(Module, Func, Current.at)
      through == Jit!NextPosition(Module, Func, Current.at)
  IN /\ OpIs({"JumpIfTrue", "JumpIfFalse"})
     /\ frames' = Goto(IF cond = (Opcode.op = "JumpIfTrue") THEN target ELSE through)
     /\ UNCHANGED <<prog, phase, unit, mode, mem, fill>>

\* Only compiled code has these: a block runs into the next one.
Branch ==
  /\ phase = "Running" /\ Current.at < 0
  /\ frames' = Goto(Current.to)
  /\ UNCHANGED <<prog, phase, unit, mode, mem, fill>>

(* A frame for function id; args are its arguments, the result's address   *)
(* first, and ret is where the result of compiled code goes.               *)
Offsets(f, args) == {f.locals[i].off : i \in DOMAIN args}
ArgAt(f, args, off) == args[SelectInSeq(f.locals, LAMBDA l : l.off = off)]

NewFrame(md, id, base, args) ==
  LET f == Module.funcs[id]
      direct == Jit!FunctionHasDirectReturn(f)
  IN IF md = "Interpret"
     THEN [fn |-> id, base |-> base, pos |-> 0, blk |-> 0, args |-> <<>>, ret |-> 0]
     ELSE [fn |-> id, base |-> base, pos |-> 1, blk |-> 0,
           args |-> [o \in Offsets(f, args) |->
                       IF o = 0 /\ direct THEN base ELSE ArgAt(f, args, o)],
           ret |-> IF direct THEN args[1] ELSE 0]

\* The interpreter copies the arguments into the frame.
WithArguments(md, m, id, base, args) ==
  LET f == Module.funcs[id]
  IN IF md = "Interpret"
     THEN [a \in {base + o : o \in Offsets(f, args)} |-> ArgAt(f, args, a - base)] @@ m
     ELSE m

OpCall ==
  LET id == Operand(1)
      args == [i \in 1..Operand(2) |-> Val(2 + i)]
      base == AlignTo(Top.base + Func.frameSize, 8)
  IN /\ OpIs({"Call"})
     /\ frames' = Append(Advanced, NewFrame(mode, id, base, args))
     /\ mem' = WithArguments(mode, mem, id, base, args)
     /\ UNCHANGED <<prog, phase, unit, mode, fill>>

\* The frame goes; compiled code hands its result to the caller.
OpReturn ==
  LET live == [a \in {b \in DOMAIN mem : b < Top.base} |-> mem[a]]
  IN /\ OpIs({"Return"})
     /\ frames' = Front(frames)
     /\ mem' = IF mode = "Compiled" /\ Jit!FunctionHasDirectReturn(Func)
               THEN (Top.ret :> Read(Top.base)) @@ live ELSE live
     /\ phase' = IF Len(frames) = 1 THEN "Done" ELSE phase
     /\ UNCHANGED <<prog, unit, mode, fill>>

(* The phases before. *)
Parse ==
  /\ phase = "Text"
  /\ \E r \in {Par!Parse(unit)} :
       /\ phase' = IF r.err THEN "SyntaxError" ELSE "Source"
       /\ unit' = r.node
  /\ UNCHANGED <<prog, machine>>

Analyze ==
  /\ phase = "Source"
  /\ \E r \in {Sem!Analyze(unit)} :
       /\ phase' = IF r.err THEN "Rejected" ELSE "Typed"
       /\ unit' = r.node
  /\ UNCHANGED <<prog, machine>>

Generate ==
  /\ phase = "Typed"
  /\ phase' = "Bytecode"
  /\ unit' = Gen!Compile(unit)
  /\ UNCHANGED <<prog, machine>>

CompileToMachineCode ==
  /\ phase = "Bytecode"
  /\ "Compiled" \in Modes
  /\ phase' = "MachineCode"
  /\ unit' = unit @@ [ir |-> [f \in DOMAIN unit.funcs |-> Jit!DefineFunction(unit, unit.funcs[f])]]
  /\ UNCHANGED <<prog, machine>>

\* main is the last function and has no parameters but the result.
InvokeFunction ==
  LET md == IF phase = "Bytecode" THEN "Interpret" ELSE "Compiled"
      id == Len(Module.funcs)
  IN /\ phase \in {"Bytecode", "MachineCode"}
     /\ md \in Modes
     /\ phase' = "Running"
     /\ mode' = md
     /\ fill' \in {0, 1}
     /\ frames' = <<NewFrame(md, id, kStackStart, <<kResult>>)>>
     /\ mem' = WithArguments(md, mem, id, kStackStart, <<kResult>>)
     /\ UNCHANGED <<prog, unit>>

Init ==
  /\ prog \in DOMAIN Programs
  /\ phase = "Text"
  /\ unit = Txt!Text(Programs[prog])
  /\ mode = "Interpret"
  /\ frames = <<>>
  /\ mem = <<>>
  /\ fill = 0

Execute ==
  \/ OpAssignImm \/ OpAssign \/ OpCopy \/ OpArithmetic \/ OpCompare \/ OpNeg \/ OpBitNeg \/ OpNot
  \/ OpIsNullPtr \/ OpLea \/ OpLeaScaled \/ OpJump \/ OpConditionalJump \/ Branch
  \/ OpCall \/ OpReturn

Next == Parse \/ Analyze \/ Generate \/ CompileToMachineCode \/ InvokeFunction \/ Execute

Ended == phase \in {"SyntaxError", "Rejected", "Done"}
Finished == Ended /\ UNCHANGED vars

\* A thread that runs a query keeps running it.  This is weak fairness of Next,
\* which is enabled until the run has ended.
Fairness == []<>Ended \/ []<><<Next>>_vars

Spec == Init /\ [][Next \/ Finished]_vars /\ Fairness

-----------------------------------------------------------------------------

\* The objects of type t at offset off, its parts included.
RECURSIVE Objects(_, _)
Objects(t, off) ==
  {<<off, t>>} \union
  CASE t.tk = "struct" ->
         UNION {Objects(t.fields[i].type, off + GetFieldOffset(t, i)) : i \in DOMAIN t.fields}
    [] t.tk = "array" /\ t.len # 0 ->
         UNION {Objects(t.of, off + i * GetSize(t.of)) : i \in 0..(t.len - 1)}
    [] OTHER -> {}

IsScalar(t) == t.tk # "struct" /\ ~(t.tk = "array" /\ t.len # 0)

\* What the compiled form of a function keeps in the place of its result
\* pointer is the result, if that is returned directly.
LocalType(f, i) ==
  IF i = 1 /\ mode = "Compiled" /\ Jit!FunctionHasDirectReturn(f) THEN f.ret ELSE f.locals[i].type

\* The live objects: every variable of every frame, and its parts.
LiveIn(fr, f) ==
  UNION {Objects(LocalType(f, l), fr.base + f.locals[l].off) : l \in DOMAIN f.locals}
LiveObjects ==
  {<<kResult, Last(Module.funcs).ret>>}
    \union UNION {LiveIn(frames[i], Module.funcs[frames[i].fn]) : i \in DOMAIN frames}

HasType(v, t, live) ==
  CASE t.tk = "bool" -> v \in {0, 1}
    [] t.tk = "int8" -> v \in -128..127
    [] t.tk = "int32" -> v \in Int
    [] OTHER -> v = 0 \/ <<v, t.of>> \in live

WellTypedIn(live) ==
  /\ \A a \in DOMAIN mem \ {kResult} :
       \E o \in live :
          /\ o[1] = a /\ IsScalar(o[2]) /\ a % GetAlignment(o[2]) = 0 /\ HasType(mem[a], o[2], live)
          /\ \A k \in 1..(GetSize(o[2]) - 1) : a + k \notin DOMAIN mem
  /\ \A i \in DOMAIN frames : \A o \in DOMAIN frames[i].args :
       \E l \in Range(Module.funcs[frames[i].fn].locals) :
          l.off = o /\ HasType(frames[i].args[o], l.type, live)

\* Type soundness: whatever the analysis lets through, every scalar in memory
\* is where the layout of some live variable puts a scalar of its type, at an
\* address aligned for it, overlaps no other, and holds a value of that type: a
\* pointer is nil or points to a live object of the type it was declared with.
WellTypedMemory == phase = "Running" => \A live \in {LiveObjects} : WellTypedIn(live)

\* The parser takes the text for the program it was written from: operators
\* bind and associate as written, statements end where the next one starts,
\* and no token is lost or left.
ParsedAsWritten ==
  phase # "SyntaxError" /\ (phase = "Source" => unit = Programs[prog])

Meanings == [i \in DOMAIN Programs \ IllFormed |-> Ref!Meaning(Sem!Analyze(Programs[i]).node)]

\* The compiler and both ways to execute its code are right: the result of
\* main is what the program means, whatever unwritten memory holds.
ResultIsMeaning == phase = "Done" /\ prog \notin IllFormed => Read(kResult) = Meanings[prog]

\* Where the last instruction of a block may go.
EndsBlock(f, c) == c.at < 0 \/ Jit!IsTerminal(Jit!OpAt(Module, f, c.at))
Targets(f, c) ==
  CASE c.at < 0 -> {c.to}
    [] c.at >= 0 /\ Jit!OpAt(Module, f, c.at) = "Return" -> {}
    [] c.at >= 0 /\ Jit!OpAt(Module, f, c.at) = "Jump" -> {Jit!BranchTarget(Module, f, c.at)}
    [] OTHER -> {Jit!BranchTarget(Module, f, c.at), Jit!NextPosition(Module, f, c.at)}

\* The code handed to LLVM is well formed: each basic block ends in its only
\* terminator, and branches lead to blocks that exist.
BlocksWellFormed ==
  phase = "MachineCode" =>
    \A k \in DOMAIN Module.funcs : \A b \in DOMAIN Module.ir[k] :
      /\ Module.ir[k][b] # <<>>
      /\ \A i \in DOMAIN Module.ir[k][b] :
           EndsBlock(Module.funcs[k], Module.ir[k][b][i]) <=> i = Len(Module.ir[k][b])
      /\ Targets(Module.funcs[k], Last(Module.ir[k][b])) \subseteq DOMAIN Module.ir[k]

\* Every program is decided and every accepted one runs to its end: analysis
\* refuses the ill-formed ones only, and the loops of the others are left.
RunEnds == <>(phase = IF prog \in IllFormed THEN "Rejected" ELSE "Done")

==============================================================================
