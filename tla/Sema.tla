-------------------------------- MODULE Sema --------------------------------
(***************************************************************************)
(* Semantic analysis of TPL programs: names are resolved through a stack   *)
(* of scopes, every expression gets its type, and literals take the type   *)
(* the place they stand in asks for.  The SQL types and the builtin        *)
(* functions are left out.                                                 *)
(*                                                                         *)
(* An expression that does not check keeps NoType.  Visiting a statement   *)
(* yields [node, scopes, err]: the typed statement, the scopes after it    *)
(* and whether an error has been reported.  A check of parts that have     *)
(* been visited takes them as arguments.                                   *)
(***************************************************************************)
EXTENDS Ast, TLC

\* scopes[Len(scopes)] is the innermost one.
LookupLocal(scopes, name) ==
  LET decls == scopes[Len(scopes)]
  IN IF name \in DOMAIN decls THEN decls[name] ELSE NoType

RECURSIVE Lookup(_, _)

Lookup(scopes, name) ==
  IF scopes = <<>> THEN NoType
  ELSE IF LookupLocal(scopes, name) # NoType THEN LookupLocal(scopes, name)
  ELSE Lookup(Front(scopes), name)

\* Nothing is declared when any scope has the name; no caller looks at the answer.
Declare(scopes, name, type) ==
  IF Lookup(scopes, name) # NoType THEN scopes
  ELSE [scopes EXCEPT ![Len(scopes)] = (name :> type) @@ @]

OpenScope(scopes) == Append(scopes, <<>>)

\* The builtin types of the model, two of them with an alias.
LookupBuiltinType(name) ==
  CASE name \in {"nil", "bool", "int8", "int32"} -> [tk |-> name]
    [] name = "int" -> TInt
    [] name = "void" -> TNil
    [] OTHER -> NoType

\* Variables and types are looked up alike: a type's name passes for a variable,
\* a variable's for a type.
VisitIdentifier(name, scopes) ==
  IF Lookup(scopes, name) # NoType THEN Lookup(scopes, name) ELSE LookupBuiltinType(name)

RECURSIVE ResolveType(_, _)

\* The type a representation stands for; NoType when one of its parts has none.
ResolveFields(fields, scopes) ==
  [i \in DOMAIN fields |-> Param(fields[i].name, ResolveType(fields[i].type, scopes))]
AreResolved(fields) == \A i \in DOMAIN fields : fields[i].type # NoType
ResolveType(repr, scopes) ==
  CASE repr.tk \in {"ptr", "array"} ->
         LET of == ResolveType(repr.of, scopes)
         IN IF of = NoType \/ (repr.tk = "array" /\ repr.len < 0) THEN NoType ELSE [repr EXCEPT !.of = of]
    [] repr.tk = "struct" ->
         LET fields == ResolveFields(repr.fields, scopes)
         IN IF AreResolved(fields) THEN StructOf(fields) ELSE NoType
    [] repr.tk = "fun" ->
         LET params == ResolveFields(repr.params, scopes)
             ret == ResolveType(repr.ret, scopes)
         IN IF AreResolved(params) /\ ret # NoType THEN FunctionOf(params, ret) ELSE NoType
    [] OTHER -> VisitIdentifier(repr.tk, scopes)

\* A literal takes the target's type when it can represent it, and *[N]T
\* becomes [*]T by a bit cast.
CheckAssignmentConstraints(target, e) ==
  CASE e.type = target -> [ok |-> TRUE, e |-> e]
    [] e.type # target /\ e.kind = "Literal" ->
         [ok |-> IsRepresentable(e, target), e |-> [e EXCEPT !.type = target]]
    [] e.type # target /\ e.kind # "Literal" /\ target.tk = "array" /\ e.type.tk = "ptr" ->
         [ok |-> e.type.of.tk = "array" /\ target.len = 0 /\ e.type.of.len # 0
                   /\ target.of = e.type.of.of,
          e  |-> [kind |-> "Cast", input |-> e, type |-> target]]
    [] OTHER -> [ok |-> FALSE, e |-> e]

Typed(e, type) == e @@ [type |-> type]
Operands(e, l, r, type) == Typed([e EXCEPT !.left = l, !.right = r], type)

\* The operands after the second has taken the type of the first, or else the
\* first that of the second.
Assigned(fst, snd, toFirst, toSecond) ==
  CASE toFirst.ok -> [ok |-> TRUE, fst |-> fst, snd |-> toFirst.e]
    [] ~toFirst.ok /\ toSecond.ok -> [ok |-> TRUE, fst |-> toSecond.e, snd |-> snd]
    [] OTHER -> [ok |-> FALSE, fst |-> fst, snd |-> snd]
Unify(fst, snd) ==
  Assigned(fst, snd, CheckAssignmentConstraints(fst.type, snd),
                     CheckAssignmentConstraints(snd.type, fst))

\* Mutant of CheckArithmeticOperands: a literal does not take the other type.
ArithmeticWithoutUnification(e, l, r) ==
  Operands(e, l, r, IF IsIntegerType(l.type) /\ l.type = r.type THEN l.type ELSE NoType)

Arithmetic(e, both) ==
  Operands(e, both.fst, both.snd, IF both.ok THEN both.fst.type ELSE NoType)
CheckArithmeticOperands(e, l, r) ==
  IF IsIntegerType(l.type) /\ IsIntegerType(r.type) THEN Arithmetic(e, Unify(l, r))
  ELSE Operands(e, l, r, NoType)

\* Pointers may be compared for equality only.
Comparison(e, both) ==
  LET ok == both.ok /\ (IsPointerType(both.snd.type) => e.op \in EqualityOps)
  IN Operands(e, both.snd, both.fst, IF ok THEN TBool ELSE NoType)
CheckComparisonOperands(e, l, r) == Comparison(e, Unify(r, l))

CheckLogicalOperands(e, l, r) ==
  Operands(e, l, r, IF l.type = TBool /\ r.type = TBool THEN TBool ELSE NoType)

UnaryType(op, t) ==
  CASE op = "!" /\ t = TBool -> t
    [] op \in {"-", "~"} /\ IsIntegerType(t) -> t
    [] op = "*" /\ IsPointerType(t) -> t.of
    [] op = "&" /\ t.tk # "fun" -> PointerTo(t)
    [] OTHER -> NoType

LiteralType(e) ==
  CASE e.lit = "nil" -> TNil [] e.lit = "bool" -> TBool [] OTHER -> TInt

RECURSIVE Resolve(_, _)

CheckOperands(e, l, r) ==
  CASE l.type = NoType \/ r.type = NoType -> Typed(e, NoType)
    [] l.type # NoType /\ r.type # NoType /\ e.kind = "Compare" ->
         CheckComparisonOperands(e, l, r)
    [] l.type # NoType /\ r.type # NoType /\ e.op \in LogicalOps ->
         CheckLogicalOperands(e, l, r)
    [] OTHER -> CheckArithmeticOperands(e, l, r)
VisitBinary(e, scopes) == CheckOperands(e, Resolve(e.left, scopes), Resolve(e.right, scopes))

CheckCall(e, f, args) ==
  LET checked == [i \in DOMAIN args |-> CheckAssignmentConstraints(f.params[i].type, args[i])]
  IN IF /\ f.tk = "fun"
        /\ Len(e.args) = Len(f.params)
        /\ \A i \in DOMAIN args : args[i].type # NoType
        /\ \A i \in DOMAIN args : checked[i].ok
     THEN Typed([e EXCEPT !.args = [i \in DOMAIN args |-> checked[i].e]], f.ret)
     ELSE Typed(e, NoType)
VisitCall(e, scopes) ==
  CheckCall(e, VisitIdentifier(e.func, scopes), [i \in DOMAIN e.args |-> Resolve(e.args[i], scopes)])

\* A literal index is checked against the length, when the length is known.
CheckIndex(e, o, i) ==
  LET good == /\ o.type.tk = "array"
              /\ IsIntegerType(i.type)
              /\ e.index.kind = "Literal" =>
                   /\ e.index.val >= 0
                   /\ o.type.len = 0 \/ e.index.val < o.type.len
  IN Typed([e EXCEPT !.object = o, !.index = i], IF good THEN o.type.of ELSE NoType)
VisitIndex(e, scopes) == CheckIndex(e, Resolve(e.object, scopes), Resolve(e.index, scopes))

CheckMember(e, o) ==
  LET t == IF IsPointerType(o.type) THEN o.type.of ELSE o.type
  IN Typed([e EXCEPT !.object = o],
           IF t.tk = "struct" THEN LookupFieldByName(t, e.member) ELSE NoType)
VisitMember(e, scopes) == CheckMember(e, Resolve(e.object, scopes))

CheckUnary(e, input) ==
  Typed([e EXCEPT !.input = input],
        IF input.type = NoType THEN NoType ELSE UnaryType(e.op, input.type))

Resolve(e, scopes) ==
  CASE e.kind = "Literal" -> Typed(e, LiteralType(e))
    [] e.kind = "Identifier" -> Typed(e, VisitIdentifier(e.name, scopes))
    [] e.kind = "Unary" -> CheckUnary(e, Resolve(e.input, scopes))
    [] e.kind \in {"Binary", "Compare"} -> VisitBinary(e, scopes)
    [] e.kind = "Call" -> VisitCall(e, scopes)
    [] e.kind = "Index" -> VisitIndex(e, scopes)
    [] e.kind = "Member" -> VisitMember(e, scopes)

Visited(node, scopes, err) == [node |-> node, scopes |-> scopes, err |-> err]
Collected(acc, v) == Visited(Append(acc.node, v.node), v.scopes, acc.err \/ v.err)
ResolveOptional(e, scopes) == IF e = None THEN None ELSE Resolve(e, scopes)

\* A declaration without a type takes its initialiser's, which may not be nil;
\* one of the two that does not resolve is an error, and the other is used.
CheckVariableDeclaration(s, scopes, declared, init) ==
  LET initial == IF init = None THEN NoType ELSE init.type
      both == declared # NoType /\ initial # NoType
      checked == CheckAssignmentConstraints(declared, init)
      type == IF declared # NoType THEN declared ELSE initial
      unresolved == (s.repr # NoType /\ declared = NoType) \/ (init # None /\ initial = NoType)
  IN IF \/ LookupLocal(scopes, s.name) # NoType \/ type = NoType
        \/ both /\ ~checked.ok
        \/ declared = NoType /\ initial = TNil
     THEN Visited(s, scopes, TRUE)
     ELSE Visited([s EXCEPT !.init = IF both THEN checked.e ELSE init] @@ [type |-> type],
                  Declare(scopes, s.name, type), unresolved)

VisitVariableDeclaration(s, scopes) ==
  CheckVariableDeclaration(s, scopes, IF s.repr = NoType THEN NoType ELSE ResolveType(s.repr, scopes),
                           ResolveOptional(s.init, scopes))

CheckAssignment(s, scopes, src, dest) ==
  LET checked == CheckAssignmentConstraints(dest.type, src)
      ok == src.type # NoType /\ dest.type # NoType /\ checked.ok
  IN Visited([s EXCEPT !.dest = dest, !.src = IF ok THEN checked.e ELSE src], scopes, ~ok)
VisitAssignmentStatement(s, scopes) ==
  CheckAssignment(s, scopes, Resolve(s.src, scopes), Resolve(s.dest, scopes))

CheckReturn(s, scopes, ret, value) ==
  LET checked == CheckAssignmentConstraints(ret, value)
      ok == IF ret = TNil THEN value = None
            ELSE value # None /\ value.type # NoType /\ checked.ok
  IN Visited([s EXCEPT !.value = IF value # None /\ ok THEN checked.e ELSE value], scopes, ~ok)
VisitReturnStatement(s, scopes, ret) ==
  CheckReturn(s, scopes, ret, ResolveOptional(s.value, scopes))

RECURSIVE VisitStatement(_, _, _)

VisitOptional(s, scopes, ret) ==
  IF s = None THEN Visited(None, scopes, FALSE) ELSE VisitStatement(s, scopes, ret)

\* The declarations of a block end with it.
CloseBlock(s, scopes, v) == Visited([s EXCEPT !.stmts = v.node], scopes, v.err)
VisitBlockStatement(s, scopes, ret) ==
  LET Visit(acc, stmt) == Collected(acc, VisitStatement(stmt, acc.scopes, ret))
  IN CloseBlock(s, scopes, VisitInOrder(Visit, Visited(<<>>, OpenScope(scopes), FALSE), s.stmts))

CheckIf(s, scopes, cond, th, el) ==
  Visited([s EXCEPT !.cond = cond, !.then = th.node, !.else = el.node], scopes,
          cond.type # TBool \/ th.err \/ el.err)
VisitIfStatement(s, scopes, ret) ==
  CheckIf(s, scopes, Resolve(s.cond, scopes), VisitStatement(s.then, scopes, ret),
          VisitOptional(s.else, scopes, ret))

\* The scope of the loop holds what its initialiser declares.
CheckFor(s, scopes, init, cond, next, body) ==
  Visited([s EXCEPT !.init = init.node, !.cond = cond, !.next = next.node, !.body = body.node],
          scopes,
          init.err \/ (cond # None /\ cond.type # TBool) \/ next.err \/ body.err)
VisitBody(s, scopes, ret, init, cond, next) ==
  CheckFor(s, scopes, init, cond, next, VisitStatement(s.body, next.scopes, ret))
VisitHeader(s, scopes, ret, init) ==
  VisitBody(s, scopes, ret, init, ResolveOptional(s.cond, init.scopes),
            VisitOptional(s.next, init.scopes, ret))
VisitForStatement(s, scopes, ret) ==
  VisitHeader(s, scopes, ret, VisitOptional(s.init, OpenScope(scopes), ret))

CheckExpression(s, scopes, e) == Visited([s EXCEPT !.expr = e], scopes, e.type = NoType)

VisitStatement(s, scopes, ret) ==
  CASE s.kind = "Block" -> VisitBlockStatement(s, scopes, ret)
    [] s.kind = "Decl" -> VisitVariableDeclaration(s, scopes)
    [] s.kind = "Assign" -> VisitAssignmentStatement(s, scopes)
    [] s.kind = "If" -> VisitIfStatement(s, scopes, ret)
    [] s.kind = "For" -> VisitForStatement(s, scopes, ret)
    [] s.kind = "Return" -> VisitReturnStatement(s, scopes, ret)
    [] s.kind = "Expr" -> CheckExpression(s, scopes, Resolve(s.expr, scopes))

\* The return a nil function may leave out is added.
CheckFunction(f, scopes, body) ==
  LET open == f.body.stmts = <<>> \/ ~IsTerminating(f.body)
      node == IF open THEN [body.node EXCEPT !.stmts = Append(@, ReturnStmt(None))] ELSE body.node
  IN Visited([f EXCEPT !.body = node], scopes, body.err \/ (open /\ f.ret # TNil))
VisitFunctionBody(f, scopes) ==
  LET params == VisitInOrder(LAMBDA sc, p : Declare(sc, p.name, p.type), OpenScope(scopes), f.params)
  IN CheckFunction(f, scopes, VisitBlockStatement(f.body, params, f.ret))
CheckFunctionDeclaration(f, scopes, type) ==
  IF type = NoType \/ Cardinality({f.params[i].name : i \in DOMAIN f.params}) # Len(f.params)
  THEN Visited(f, scopes, TRUE)
  ELSE VisitFunctionBody([f EXCEPT !.params = type.params, !.ret = type.ret], Declare(scopes, f.name, type))
VisitFunctionDeclaration(f, scopes) ==
  CheckFunctionDeclaration(f, scopes, ResolveType(FunctionTypeOf(f), scopes))

\* The whole analysis: [node, scopes, err] of the file.
Analyze(program) ==
  LET Visit(acc, f) == Collected(acc, VisitFunctionDeclaration(f, acc.scopes))
  IN VisitInOrder(Visit, Visited(<<>>, OpenScope(<<>>), FALSE), program)

==============================================================================
