----------------------------- MODULE LLVMEngine -----------------------------
(***************************************************************************)
(* The control-flow graph and the code the JIT compiler makes of the       *)
(* bytecode of a function.  A block is named by the position of its first  *)
(* instruction, relative to the start of the function; its code is a       *)
(* sequence of bytecode positions, each standing for the instruction there,*)
(* and of branches added where one block runs into the next.               *)
(***************************************************************************)
EXTENDS Ast

(* The bytecode iterator. *)
NumOperands(op) ==
  CASE op = "Return" -> 0
    [] op = "Jump" -> 1
    [] op \in {"JumpIfTrue", "JumpIfFalse", "AssignImm", "Assign", "Deref", "Not", "Neg", "BitNeg",
               "IsNullPtr", "IsNotNullPtr", "Call"} -> 2
    [] op = "LeaScaled" -> 5
    [] OTHER -> 3

IsConditionalJump(op) == op \in {"JumpIfTrue", "JumpIfFalse"}
IsTerminal(op) == op \in {"Return", "Jump"} \/ IsConditionalJump(op)

OpAt(m, f, pos) == m.code[f.start + pos + 1].op
Operand(m, f, pos, i) == m.code[f.start + pos + i + 1]

CurrentBytecodeSize(m, f, pos) ==
  LET op == OpAt(m, f, pos)
  IN 1 + NumOperands(op) + (IF op = "Call" THEN Operand(m, f, pos, 2) ELSE 0)

Done(f, pos) == pos >= f.end - f.start
NextPosition(m, f, pos) == pos + CurrentBytecodeSize(m, f, pos)

\* The jump offset is the last operand and is relative to itself.
BranchTarget(m, f, pos) ==
  LET n == NumOperands(OpAt(m, f, pos)) IN pos + n + Operand(m, f, pos, n)

RECURSIVE TerminalFrom(_, _, _), GrowCFG(_, _, _, _), Instructions(_, _, _)

\* The first terminal at or after pos; the end of the function if there is none.
TerminalFrom(m, f, pos) ==
  IF Done(f, pos) \/ IsTerminal(OpAt(m, f, pos)) THEN pos
  ELSE TerminalFrom(m, f, NextPosition(m, f, pos))

\* Mutant of Successors: what follows a conditional jump starts no block.
BranchTargetOnly(m, f, pos) ==
  LET t == TerminalFrom(m, f, pos)
  IN IF Done(f, t) \/ OpAt(m, f, t) = "Return" THEN <<>> ELSE <<BranchTarget(m, f, t)>>

\* Where control goes from the block that starts at pos, in the order pushed.
Successors(m, f, pos) ==
  LET t == TerminalFrom(m, f, pos)
  IN CASE Done(f, t) -> <<>>
       [] ~Done(f, t) /\ OpAt(m, f, t) = "Jump" -> <<BranchTarget(m, f, t)>>
       [] ~Done(f, t) /\ IsConditionalJump(OpAt(m, f, t)) ->
            <<NextPosition(m, f, t), BranchTarget(m, f, t)>>
       [] OTHER -> <<>>

\* Depth-first search; a block is pushed when it is first seen.
GrowCFG(m, f, blocks, stack) ==
  IF stack = <<>> THEN blocks
  ELSE LET new == SelectSeq(Successors(m, f, Last(stack)), LAMBDA b : b \notin blocks)
       IN GrowCFG(m, f, blocks \union ToSet(new), Front(stack) \o new)

BuildSimpleCFG(m, f) == GrowCFG(m, f, {0}, <<0>>)

\* The positions of all instructions from pos on.
Instructions(m, f, pos) ==
  IF Done(f, pos) THEN <<>> ELSE <<pos>> \o Instructions(m, f, NextPosition(m, f, pos))

BrTo(b) == [at |-> -1, to |-> b]
InstrAt(pos) == [at |-> pos, to |-> -1]

\* The instructions in bytecode order, each put into the current block.  When
\* the next position starts a block, that block becomes the current one.
DefineBlocks(m, f, blocks) ==
  LET Put(acc, pos) ==
        LET next == NextPosition(m, f, pos)
            with == [acc.ir EXCEPT ![acc.cur] = Append(@, InstrAt(pos))]
            linked == IF IsTerminal(OpAt(m, f, pos)) THEN with
                      ELSE [with EXCEPT ![acc.cur] = Append(@, BrTo(next))]
        IN IF next \in blocks THEN [cur |-> next, ir |-> linked]
           ELSE [acc EXCEPT !.ir = with]
  IN VisitInOrder(Put, [cur |-> 0, ir |-> [b \in blocks |-> <<>>]], Instructions(m, f, 0)).ir

DefineFunction(m, f) == DefineBlocks(m, f, BuildSimpleCFG(m, f))

\* How far Lea goes from a pointer to pointee: to the field that holds the
\* offset, to the element of an array, and otherwise to an element whose index
\* is the offset divided by the size in bits.
LeaOffset(pointee, off) ==
  CASE pointee.tk = "struct" ->
         Max({GetFieldOffset(pointee, i) : i \in DOMAIN pointee.fields} \intersect 0..off)
    [] pointee.tk = "array" /\ pointee.len # 0 ->
         (off \div GetSize(pointee.of)) * GetSize(pointee.of)
    [] OTHER -> (off \div (8 * GetSize(pointee))) * GetSize(pointee)

\* The result of such a function is a value, not written through a pointer.
FunctionHasDirectReturn(f) == f.ret # TNil /\ GetSize(f.ret) <= 8

==============================================================================
