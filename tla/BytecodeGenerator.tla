------------------------- MODULE BytecodeGenerator -------------------------
(***************************************************************************)
(* Translation of a type-checked TPL program into bytecode.                *)
(*                                                                         *)
(* The instruction stream is a sequence of cells: an opcode (its name and  *)
(* the width w of the type it works on), then one cell per operand.  The   *)
(* position of a cell is the number of cells before it.  A jump operand    *)
(* is the distance from the operand to the target.                         *)
(*                                                                         *)
(* The generator is a record g: the code so far, the functions, the        *)
(* labels, and dest, the destination of the innermost result scope.        *)
(* Visiting an expression with dest set to a local asks for the result     *)
(* there; with NoVar, the visitor sets dest to where the result is.        *)
(***************************************************************************)
EXTENDS Ast, TLC

(* A reference to a local: the offset in the frame and the addressing mode. *)
LocalVar(off, addressing) == [off |-> off, mode |-> addressing]
NoVar == LocalVar(-1, "Address")
ValueOf(v) == LocalVar(v.off, "Value")

(* The current function is the last one. *)
Fn(g) == g.funcs[Len(g.funcs)]
SetDest(g, v) == [g EXCEPT !.dest = v]

\* A local at an aligned offset; dest becomes its address.
PlaceLocal(g, off, info, size) ==
  [g EXCEPT !.funcs[Len(g.funcs)].locals = Append(@, info @@ [off |-> off]),
            !.funcs[Len(g.funcs)].frameSize = off + size,
            !.dest = LocalVar(off, "Address")]
NewNamedLocal(g, type, name, isParam) ==
  PlaceLocal(g, AlignTo(Fn(g).frameSize, GetAlignment(type)),
             [name |-> name, type |-> type, param |-> isParam], GetSize(type))

NewLocal(g, type) ==
  NewNamedLocal([g EXCEPT !.funcs[Len(g.funcs)].numTemps = @ + 1], type,
                "tmp" \o ToString(Fn(g).numTemps + 1), FALSE)

\* The first local of that name.
LookupLocalInfoByName(g, name) ==
  LET locals == Fn(g).locals
  IN locals[SelectInSeq(locals, LAMBDA l : l.name = name)]

GetOrCreateDestination(g, type) == IF g.dest # NoVar THEN g ELSE NewLocal(g, type)

(* The emitter. *)
kJumpPlaceholder == 1000000   \* past the end of every function
Op(name, w) == [op |-> name, w |-> w]
Position(g) == Len(g.code)
Emit(g, op, operands) == [g EXCEPT !.code = @ \o <<op>> \o operands]

NewLabel(g) == [g EXCEPT !.labels = Append(@, [bound |-> FALSE, off |-> 0, refs |-> {}])]
LabelOf(g) == Len(g.labels)

\* The distance to a bound label, or a placeholder the label remembers.
EmitJump(g, label) ==
  IF g.labels[label].bound
  THEN [g EXCEPT !.code = Append(@, g.labels[label].off - Position(g))]
  ELSE [g EXCEPT !.code = Append(@, kJumpPlaceholder),
                 !.labels[label].refs = @ \union {Position(g)}]

\* Patches every jump that waits for the label.
Bind(g, label) ==
  LET at == Position(g)
      refs == g.labels[label].refs
  IN [g EXCEPT !.code = [i \in DOMAIN @ |-> IF i - 1 \in refs THEN at - (i - 1) ELSE @[i]],
               !.labels[label] = [@ EXCEPT !.bound = TRUE, !.off = at]]

EmitJumpTo(g, label) == EmitJump(Emit(g, Op("Jump", 0), <<>>), label)
EmitConditionalJump(g, op, cond, label) == EmitJump(Emit(g, Op(op, 1), <<cond>>), label)

\* An instruction whose first operand is its destination; the result is there.
EmitInto(g, dest, op, operands) == SetDest(Emit(g, op, <<dest>> \o operands), ValueOf(dest))

\* One instruction for a size a register has, another for every other size.
Moves(g, dest, src, size, op, opN) ==
  IF size \in {1, 2, 4, 8} THEN Emit(g, Op(op, size), <<dest, src>>)
  ELSE Emit(g, Op(opN, size), <<dest, src, size>>)
BuildAssign(g, dest, val, type) == Moves(g, dest, val, GetSize(type), "Assign", "AssignN")
BuildDeref(g, dest, ptr, type) == Moves(g, dest, ptr, GetSize(type), "Deref", "DerefN")

\* The pointer a double pointer points to.
LoadPointerInto(n, ptr) == EmitInto(n, n.dest, Op("Deref", 8), <<ptr>>)
BuildLoadPointer(g, ptr, type) ==
  IF ptr.mode = "Address" THEN SetDest(g, ValueOf(ptr)) ELSE LoadPointerInto(NewLocal(g, type), ptr)

RECURSIVE VisitExpression(_, _, _)

(* An expression for its address, for its value, or for its value in dest. *)
ForLValue(g, e) == VisitExpression(SetDest(g, NoVar), e, "LValue")
ForRValue(g, e) == VisitExpression(SetDest(g, NoVar), e, "RValue")
ForRValueIn(g, e, dest) == VisitExpression(SetDest(g, dest), e, "RValue")

(* A visitor with several parts has one operator for each: what follows a   *)
(* part takes the generator after it (n when a local was made last) as its  *)
(* first argument.                                                          *)

\* A nil literal leaves the destination as it is; the others make it a value.
LiteralInto(n, e) ==
  IF e.lit = "nil" THEN Emit(n, Op("AssignImm", 8), <<n.dest, 0>>)
  ELSE EmitInto(n, n.dest, Op("AssignImm", GetSize(e.type)), <<e.val>>)
VisitLiteral(g, e) == LiteralInto(GetOrCreateDestination(g, e.type), e)

UseLocal(g, local, isParam, type, ctx) ==
  CASE ctx = "LValue" -> SetDest(g, local)
    [] ctx = "RValue" /\ g.dest = NoVar -> SetDest(g, ValueOf(local))
    [] ctx = "RValue" /\ g.dest # NoVar ->
         IF isParam THEN BuildAssign(g, g.dest, ValueOf(local), type)
         ELSE BuildDeref(g, g.dest, local, type)
UseInfo(g, info, type, ctx) == UseLocal(g, LocalVar(info.off, "Address"), info.param, type, ctx)
VisitIdentifier(g, e, ctx) == UseInfo(g, LookupLocalInfoByName(g, e.name), e.type, ctx)

AddressInto(addr, dest, type) ==
  IF dest = NoVar THEN addr ELSE SetDest(BuildAssign(addr, dest, addr.dest, type), dest)
VisitAddressOf(g, e) == AddressInto(ForLValue(g, e.input), g.dest, e.type)

\* Loads what g.dest points to, or answers it when an address is wanted.
DerefInto(n, ptr, type) == SetDest(BuildDeref(n, n.dest, ptr, type), ValueOf(n.dest))
LoadFrom(g, outer, type, ctx) ==
  IF ctx = "LValue" THEN g
  ELSE DerefInto(GetOrCreateDestination(SetDest(g, outer), type), g.dest, type)

VisitDeref(g, e, ctx) == LoadFrom(ForRValue(g, e.input), g.dest, e.type, ctx)

\* Negation, complement and logical not: destination first, then the input.
UnaryFrom(in, dest, e) ==
  LET op == CASE e.op = "!" -> "Not" [] e.op = "-" -> "Neg" [] e.op = "~" -> "BitNeg"
  IN EmitInto(in, dest, Op(op, GetSize(e.type)), <<in.dest>>)
UnaryInto(n, e) == UnaryFrom(ForRValue(n, e.input), n.dest, e)
VisitUnary(g, e) == UnaryInto(GetOrCreateDestination(g, e.type), e)

\* Arithmetic and comparisons: both operands before the destination is written.
BinaryFrom(r, left, dest, op) == EmitInto(r, dest, op, <<left, r.dest>>)
RightOperand(l, dest, e, w) == BinaryFrom(ForRValue(l, e.right), l.dest, dest, Op(e.op, w))
OperandsInto(n, e, w) == RightOperand(ForRValue(n, e.left), n.dest, e, w)
VisitOperands(g, e, w) == OperandsInto(GetOrCreateDestination(g, e.type), e, w)

IsNil(e) == e.kind = "Literal" /\ e.lit = "nil"

NullTestFrom(in, dest, e) ==
  EmitInto(in, dest, Op(IF e.op = "==" THEN "IsNullPtr" ELSE "IsNotNullPtr", 8), <<in.dest>>)
NullTestInto(n, e) == NullTestFrom(ForRValue(n, IF IsNil(e.left) THEN e.right ELSE e.left), n.dest, e)
VisitComparison(g, e) ==
  IF ~IsNil(e.left) /\ ~IsNil(e.right) THEN VisitOperands(g, e, GetSize(e.left.type))
  ELSE NullTestInto(GetOrCreateDestination(g, e.type), e)

\* Both operands are computed into the destination, which decides the jump.
LogicalInto(n, e, jump) ==
  LET Skip(l) == EmitConditionalJump(l, jump, ValueOf(n.dest), LabelOf(n))
  IN SetDest(Bind(ForRValueIn(Skip(ForRValueIn(n, e.left, n.dest)), e.right, n.dest), LabelOf(n)),
             ValueOf(n.dest))

\* Mutant of VisitLogicalAndOr: both operators skip their right operand on false.
SameJumpForAndOr(g, e) == LogicalInto(NewLabel(GetOrCreateDestination(g, e.type)), e, "JumpIfFalse")

VisitLogicalAndOr(g, e) ==
  LogicalInto(NewLabel(GetOrCreateDestination(g, e.type)), e,
              IF e.op = "or" THEN "JumpIfTrue" ELSE "JumpIfFalse")

\* The address of the result is the first argument of a call.
WithArgument(v, args) == [g |-> v, args |-> Append(args, v.dest)]
CallFrom(call, e, result) ==
  LET id == SelectInSeq(call.g.funcs, LAMBDA f : f.name = e.func)
  IN SetDest(Emit(call.g, Op("Call", 0), <<id, Len(call.args)>> \o call.args), result)
CallInto(n, e, ret, result) ==
  CallFrom(VisitInOrder(LAMBDA acc, arg : WithArgument(ForRValue(acc.g, arg), acc.args),
                        [g |-> n, args |-> ret], e.args),
           e, result)
CallForResult(n, e, ctx) ==
  CallInto(n, e, <<n.dest>>, IF ctx = "RValue" THEN ValueOf(n.dest) ELSE n.dest)
VisitRegularCall(g, e, ctx) ==
  IF e.type = TNil THEN CallInto(g, e, <<>>, g.dest)
  ELSE CallForResult(GetOrCreateDestination(g, e.type), e, ctx)

LeaInto(n, base, off) == EmitInto(n, n.dest, Op("Lea", 8), <<base, off>>)

FieldAddress(ptr, e, struct) ==
  LeaInto(NewLocal(ptr, PointerTo(e.type)), ptr.dest, GetOffsetOfFieldByName(struct, e.member))
FieldThrough(obj, e) == FieldAddress(BuildLoadPointer(obj, obj.dest, e.object.type), e, e.object.type.of)
VisitMember(g, e, ctx) ==
  LoadFrom(IF IsPointerType(e.object.type) THEN FieldThrough(ForLValue(g, e.object), e)
           ELSE FieldAddress(ForLValue(g, e.object), e, e.object.type),
           g.dest, e.type, ctx)

\* A literal index is an offset; another one is scaled at run time.
LeaScaledFrom(i, dest, base, size) == EmitInto(i, dest, Op("LeaScaled", 8), <<base, i.dest, size, 0>>)
IndexInto(n, base, e, size) ==
  IF e.index.kind = "Literal" THEN LeaInto(n, base, size * e.index.val)
  ELSE LeaScaledFrom(ForRValue(n, e.index), n.dest, base, size)
ElementAddress(arr, e) ==
  IndexInto(NewLocal(arr, PointerTo(e.type)), arr.dest, e, GetSize(e.object.type.of))
VisitArrayIndex(g, e, ctx) ==
  LoadFrom(ElementAddress(IF e.object.type.len # 0 THEN ForLValue(g, e.object)
                          ELSE ForRValue(g, e.object), e),
           g.dest, e.type, ctx)

\* A cast between types of the same size only forwards its input.
CastInto(n, in, type) == SetDest(BuildAssign(n, n.dest, in, type), ValueOf(n.dest))
CastFrom(in, outer, e) ==
  IF GetSize(e.input.type) = GetSize(e.type) THEN in
  ELSE CastInto(GetOrCreateDestination(SetDest(in, outer), e.type), in.dest, e.type)
VisitImplicitCast(g, e) == CastFrom(ForRValue(g, e.input), g.dest, e)

VisitExpression(g, e, ctx) ==
  CASE e.kind = "Literal" -> VisitLiteral(g, e)
    [] e.kind = "Identifier" -> VisitIdentifier(g, e, ctx)
    [] e.kind = "Unary" /\ e.op = "&" -> VisitAddressOf(g, e)
    [] e.kind = "Unary" /\ e.op = "*" -> VisitDeref(g, e, ctx)
    [] e.kind = "Unary" /\ e.op \in {"-", "~", "!"} -> VisitUnary(g, e)
    [] e.kind = "Binary" /\ e.op \in LogicalOps -> VisitLogicalAndOr(g, e)
    [] e.kind = "Binary" /\ e.op \notin LogicalOps -> VisitOperands(g, e, GetSize(e.type))
    [] e.kind = "Compare" -> VisitComparison(g, e)
    [] e.kind = "Call" -> VisitRegularCall(g, e, ctx)
    [] e.kind = "Member" -> VisitMember(g, e, ctx)
    [] e.kind = "Index" -> VisitArrayIndex(g, e, ctx)
    [] e.kind = "Cast" -> VisitImplicitCast(g, e)

\* A branch on the expression; falls through to the code for TRUE.
BranchOn(c, elseLabel) == EmitConditionalJump(c, "JumpIfFalse", c.dest, elseLabel)
ForTest(g, e, elseLabel) == BranchOn(ForRValue(g, e), elseLabel)

RECURSIVE VisitStatement(_, _)

VisitOptional(g, s) == IF s = None THEN g ELSE VisitStatement(g, s)

\* The else label is bound before the else part, or at the end without one.
ElsePart(then, s, else, end) ==
  IF s.else = None THEN Bind(then, else)
  ELSE VisitStatement(Bind(IF IsTerminating(s.then) THEN then ELSE EmitJumpTo(then, end), else),
                      s.else)
IfWith(g, s, else, end) ==
  Bind(ElsePart(VisitStatement(ForTest(g, s.cond, else), s.then), s, else, end), end)
VisitIfStatement(g, s) == IfWith(NewLabel(NewLabel(g)), s, LabelOf(g) + 1, LabelOf(g) + 2)

LoopTest(g, s, break) == IF s.cond = None THEN g ELSE ForTest(g, s.cond, break)
LoopFrom(init, s, break) ==
  VisitOptional(VisitStatement(LoopTest(init, s, break), s.body), s.next)
LoopWith(g, s, header, break) ==
  Bind(EmitJumpTo(LoopFrom(Bind(VisitOptional(g, s.init), header), s, break), header), break)
VisitForStatement(g, s) == LoopWith(NewLabel(NewLabel(g)), s, LabelOf(g) + 1, LabelOf(g) + 2)

InitInto(n, s) == IF s.init = None THEN n ELSE ForRValueIn(n, s.init, n.dest)
VisitVariableDeclaration(g, s) == InitInto(NewNamedLocal(g, s.type, s.name, FALSE), s)

SourceInto(l, s) == ForRValueIn(l, s.src, l.dest)
VisitAssignmentStatement(g, s) == SourceInto(ForLValue(g, s.dest), s)

\* The result is written through the pointer at the start of the frame.
ResultFrom(v, type) == BuildAssign(v, ValueOf(LocalVar(0, "Address")), v.dest, type)
VisitReturnStatement(g, s) ==
  Emit(CASE s.value = None -> g
         [] s.value # None /\ s.value.type.tk = "struct" ->
              ResultFrom(ForLValue(g, s.value), s.value.type)
         [] OTHER -> ResultFrom(ForRValue(g, s.value), s.value.type),
       Op("Return", 0), <<>>)

VisitStatement(g, s) ==
  CASE s.kind = "Block" -> VisitInOrder(VisitStatement, g, s.stmts)
    [] s.kind = "Decl" -> VisitVariableDeclaration(g, s)
    [] s.kind = "Assign" -> VisitAssignmentStatement(g, s)
    [] s.kind = "If" -> VisitIfStatement(g, s)
    [] s.kind = "For" -> VisitForStatement(g, s)
    [] s.kind = "Return" -> VisitReturnStatement(g, s)
    [] s.kind = "Expr" -> VisitExpression(SetDest(g, NoVar), s.expr, "None")

NewFunction(g, f) ==
  [name |-> f.name, ret |-> f.ret, locals |-> <<>>, frameSize |-> 0, numTemps |-> 0,
   numParams |-> Len(f.params) + (IF f.ret = TNil THEN 0 ELSE 1),
   start |-> Position(g), end |-> Position(g)]

\* A function with a result has a hidden first parameter, where it goes.
WithResult(g, ret) ==
  IF ret = TNil THEN g ELSE NewNamedLocal(g, PointerTo(ret), "hiddenRv", TRUE)
AllocateFunc(g, f) ==
  VisitInOrder(LAMBDA acc, p : NewNamedLocal(acc, p.type, p.name, TRUE),
               WithResult([g EXCEPT !.funcs = Append(@, NewFunction(g, f))], f.ret), f.params)

EndFunction(g) == [g EXCEPT !.funcs[Len(g.funcs)].end = Position(g)]
VisitFunctionDeclaration(g, f) == EndFunction(VisitStatement(AllocateFunc(g, f), f.body))

\* The bytecode module of a type-checked program.
ModuleOf(g) == [code |-> g.code, funcs |-> g.funcs]
Compile(program) ==
  ModuleOf(VisitInOrder(VisitFunctionDeclaration,
                        [code |-> <<>>, funcs |-> <<>>, labels |-> <<>>, dest |-> NoVar], program))

==============================================================================
