--------------------------------- MODULE Ast ---------------------------------
(***************************************************************************)
(* The syntax trees and the types of TPL, the language queries are         *)
(* compiled to.  A node is a record with a kind; semantic analysis adds a  *)
(* field type to every expression.  A program is a sequence of functions;  *)
(* struct declarations are left out and a struct type is its fields.       *)
(***************************************************************************)
EXTENDS Integers, Sequences, SequencesExt, FiniteSetsExt

(* Types. *)
TInt == [tk |-> "int32"]
TInt8 == [tk |-> "int8"]
TBool == [tk |-> "bool"]
TNil == [tk |-> "nil"]
NoType == [tk |-> "none"]
PointerTo(t) == [tk |-> "ptr", of |-> t]
StructOf(fields) == [tk |-> "struct", fields |-> fields]
ArrayOf(n, t) == [tk |-> "array", len |-> n, of |-> t]
FunctionOf(params, ret) == [tk |-> "fun", params |-> params, ret |-> ret]

IsIntegerType(t) == t.tk \in {"int32", "int8"}
IsPointerType(t) == t.tk = "ptr"

Abs(n) == IF n < 0 THEN -n ELSE n

AlignTo(n, align) == ((n + align - 1) \div align) * align

RECURSIVE GetSize(_), GetAlignment(_), EndOfFields(_, _)

\* Mutant of EndOfFields: fields are laid out without padding.
EndOfPackedFields(fields, n) ==
  IF n = 0 THEN 0 ELSE EndOfFields(fields, n - 1) + GetSize(fields[n].type)

\* Where the first n fields of a struct end, the padding between them included.
EndOfFields(fields, n) ==
  IF n = 0 THEN 0
  ELSE AlignTo(EndOfFields(fields, n - 1), GetAlignment(fields[n].type))
         + GetSize(fields[n].type)

GetAlignment(t) ==
  CASE t.tk = "struct" -> Max({GetAlignment(t.fields[i].type) : i \in DOMAIN t.fields})
    [] t.tk = "array" -> IF t.len = 0 THEN 8 ELSE GetAlignment(t.of)
    [] OTHER -> GetSize(t)

\* An array of unknown length is a pointer to its elements.
GetSize(t) ==
  CASE t.tk = "struct" -> AlignTo(EndOfFields(t.fields, Len(t.fields)), GetAlignment(t))
    [] t.tk = "array" -> IF t.len = 0 THEN 8 ELSE GetSize(t.of) * t.len
    [] t.tk \in {"ptr", "fun"} -> 8
    [] t.tk = "int32" -> 4
    [] OTHER -> 1

FieldIndex(t, name) == SelectInSeq(t.fields, LAMBDA f : f.name = name)

GetFieldOffset(t, i) ==
  AlignTo(EndOfFields(t.fields, i - 1), GetAlignment(t.fields[i].type))

GetOffsetOfFieldByName(t, name) ==
  IF FieldIndex(t, name) = 0 THEN 0 ELSE GetFieldOffset(t, FieldIndex(t, name))

LookupFieldByName(t, name) ==
  IF FieldIndex(t, name) = 0 THEN NoType ELSE t.fields[FieldIndex(t, name)].type

(* Expressions; booleans are the integers 0 and 1. *)
None == [kind |-> "None"]
BadExpression == [kind |-> "Bad"]
IntLiteral(n) == [kind |-> "Literal", lit |-> "int", val |-> n]
BoolLiteral(b) == [kind |-> "Literal", lit |-> "bool", val |-> IF b THEN 1 ELSE 0]
NilLiteral == [kind |-> "Literal", lit |-> "nil", val |-> 0]
Identifier(n) == [kind |-> "Identifier", name |-> n]
UnaryOp(op, e) == [kind |-> "Unary", op |-> op, input |-> e]
BinaryOp(op, l, r) == [kind |-> "Binary", op |-> op, left |-> l, right |-> r]
ComparisonOp(op, l, r) == [kind |-> "Compare", op |-> op, left |-> l, right |-> r]
CallOf(f, args) == [kind |-> "Call", func |-> f, args |-> args]
Member(o, name) == [kind |-> "Member", object |-> o, member |-> name]
IndexOf(o, i) == [kind |-> "Index", object |-> o, index |-> i]

LogicalOps == {"and", "or"}
EqualityOps == {"==", "!="}
ArithmeticOps == {"+", "-", "*", "/", "%", "&", "|", "^", "<<", ">>"}

(* Statements and functions; a missing part is None. *)
Block(stmts) == [kind |-> "Block", stmts |-> stmts]
VarDecl(name, type, init) ==
  [kind |-> "Decl", name |-> name, repr |-> type, init |-> init]
Assignment(dest, src) == [kind |-> "Assign", dest |-> dest, src |-> src]
ExprStmt(e) == [kind |-> "Expr", expr |-> e]
IfStmt(c, th, el) == [kind |-> "If", cond |-> c, then |-> th, else |-> el]
ForStmt(init, c, next, body) ==
  [kind |-> "For", init |-> init, cond |-> c, next |-> next, body |-> body]
ReturnStmt(e) == [kind |-> "Return", value |-> e]
FunctionDecl(name, params, ret, body) ==
  [name |-> name, params |-> params, ret |-> ret, body |-> body]
Param(name, type) == [name |-> name, type |-> type]

FunctionTypeOf(f) == FunctionOf(f.params, f.ret)

IsRepresentable(e, t) ==
  CASE t.tk = "int32" -> e.lit = "int"
    [] t.tk = "int8" -> e.lit = "int" /\ e.val \in -128..127
    [] t.tk = "bool" -> e.lit = "bool"
    [] t.tk = "ptr" -> e.lit = "nil"
    [] OTHER -> FALSE

\* Visits the elements in order, like FoldLeft.  Taking the accumulator from a
\* set makes TLC compute it before the visit, not inside it.
VisitInOrder(Visit(_, _), init, seq) ==
  FoldLeft(LAMBDA acc, x : CHOOSE r \in {Visit(a, x) : a \in {acc}} : TRUE, init, seq)

RECURSIVE IsTerminating(_)

\* Undefined for an empty block, whose last statement the code reads anyway.
IsTerminating(s) ==
  CASE s.kind = "Block" -> IsTerminating(s.stmts[Len(s.stmts)])
    [] s.kind = "If" ->
         s.else # None /\ IsTerminating(s.then) /\ IsTerminating(s.else)
    [] OTHER -> s.kind = "Return"

==============================================================================
