------------------------------- MODULE Parser -------------------------------
(***************************************************************************)
(* The recursive-descent parser of TPL.  A token is [t, v]: its type, and  *)
(* the name or the number of an identifier or an integer.  The scanner,    *)
(* struct declarations, for-in loops, maps, function literals inside       *)
(* expressions and builtin calls are left out.                             *)
(*                                                                         *)
(* The parser is a record p: the tokens, the index of the next one,        *)
(* whether an error was reported, and the node parsed last.                *)
(***************************************************************************)
EXTENDS Ast

Token(type, v) == [t |-> type, v |-> v]

Peek(p) == IF p.at > Len(p.toks) THEN "eos" ELSE p.toks[p.at].t
Next(p) == [p EXCEPT !.at = @ + 1]
Expect(p, type) == [Next(p) EXCEPT !.err = @ \/ Peek(p) # type]
Matches(p, type) == IF Peek(p) = type THEN Next(p) ELSE p
GetSymbol(p) == p.toks[p.at - 1].v
With(p, node) == [p EXCEPT !.node = node]
Making(p, Node(_)) == With(p, Node(p.node))

GetPrecedence(type) ==
  CASE type = "," -> 1
    [] type = "or" -> 3
    [] type = "and" -> 4
    [] type = "|" -> 5
    [] type = "^" -> 6
    [] type = "&" -> 7
    [] type \in EqualityOps -> 8
    [] type \in {"<", "<=", ">", ">="} -> 9
    [] type \in {"<<", ">>"} -> 10
    [] type \in {"+", "-"} -> 11
    [] type \in {"*", "/", "%"} -> 12
    [] OTHER -> 0

IsCompareOp(type) == GetPrecedence(type) \in {8, 9}

RECURSIVE ParseBinaryOpExpression(_, _), Climb(_, _, _), ParseUnaryOpExpression(_), Postfix(_)
RECURSIVE ParseArguments(_, _), ParseType(_), ParseFields(_, _), ParseParameters(_, _), ParseFunctionType(_)
RECURSIVE ParseStatement(_), ParseStatements(_, _), ParseIfStatement(_), ParseDeclarations(_, _)

(* What follows a part that has been parsed is an operator of its own, with  *)
(* the parser after that part as its argument.                               *)

ParseExpression(p) == ParseBinaryOpExpression(p, 1)

\* Mutant of Climb: operators of one precedence associate to the right.
ClimbToTheRight(p, prec, minPrec) ==
  LET op == Peek(p)
      right == ParseBinaryOpExpression(Next(p), prec - 1)
      node == IF IsCompareOp(op) THEN ComparisonOp(op, p.node, right.node)
              ELSE BinaryOp(op, p.node, right.node)
  IN CASE prec <= minPrec \/ GetPrecedence(op) < minPrec -> p
       [] prec > minPrec /\ GetPrecedence(op) = prec -> Climb(With(right, node), prec, minPrec)
       [] OTHER -> Climb(p, prec - 1, minPrec)

\* Takes all operators of precedence prec, then those of the next lower one,
\* while they bind tighter than what is to the left.
Climb(p, prec, minPrec) ==
  LET op == Peek(p)
      right == ParseBinaryOpExpression(Next(p), prec)
      node == IF IsCompareOp(op) THEN ComparisonOp(op, p.node, right.node)
              ELSE BinaryOp(op, p.node, right.node)
  IN CASE prec <= minPrec \/ GetPrecedence(op) < minPrec -> p
       [] prec > minPrec /\ GetPrecedence(op) = prec -> Climb(With(right, node), prec, minPrec)
       [] OTHER -> Climb(p, prec - 1, minPrec)

ClimbFrom(left, minPrec) == Climb(left, GetPrecedence(Peek(left)), minPrec)
ParseBinaryOpExpression(p, minPrec) == ClimbFrom(ParseUnaryOpExpression(p), minPrec)

ParseOperand(p) ==
  CASE Peek(p) = "nil" -> With(Next(p), NilLiteral)
    [] Peek(p) \in {"true", "false"} -> With(Next(p), BoolLiteral(Peek(p) = "true"))
    [] Peek(p) = "ident" -> With(Next(p), Identifier(GetSymbol(Next(p))))
    [] Peek(p) = "num" -> With(Next(p), IntLiteral(GetSymbol(Next(p))))
    [] Peek(p) = "(" -> Expect(ParseExpression(Next(p)), ")")
    [] OTHER -> [Next(p) EXCEPT !.err = TRUE, !.node = BadExpression]

\* A comma between two arguments may be left out.
ArgumentsAfter(arg, args) == ParseArguments(Matches(arg, ","), Append(args, arg.node))
ParseArguments(p, args) ==
  IF Peek(p) = ")" THEN With(Next(p), args) ELSE ArgumentsAfter(ParseExpression(p), args)

\* Calls, members and elements of what was parsed last.
Postfix(p) ==
  CASE Peek(p) = "(" ->
         Postfix(Making(ParseArguments(Next(p), <<>>), LAMBDA args : CallOf(p.node.name, args)))
    [] Peek(p) = "." ->
         Postfix(Making(ParseOperand(Next(p)), LAMBDA member : Member(p.node, member.name)))
    [] Peek(p) = "[" ->
         Postfix(Expect(Making(ParseExpression(Next(p)), LAMBDA i : IndexOf(p.node, i)), "]"))
    [] OTHER -> p

ParsePrimaryExpression(p) == Postfix(ParseOperand(p))

\* A sign or a negation in front of a literal makes another literal.
ParseUnaryOpExpression(p) ==
  LET op == Peek(p)
      in == ParseUnaryOpExpression(Next(p))
      Is(kind) == in.node.kind = "Literal" /\ in.node.lit = kind
  IN CASE op \notin {"&", "!", "~", "^", "-", "+", "*"} -> ParsePrimaryExpression(p)
       [] op = "!" /\ Is("bool") -> With(in, BoolLiteral(in.node.val = 0))
       [] op = "+" /\ Is("int") -> in
       [] op = "-" /\ Is("int") -> With(in, IntLiteral(-in.node.val))
       [] OTHER -> With(in, UnaryOp(op, in.node))

(* Types. *)
ParsePointerType(p) == Making(ParseType(Next(p)), PointerTo)

\* A length that is no number is left to the analysis, a missing one is not.
kNoLength == -1
LengthOf(e) == IF e.kind = "Literal" /\ e.lit = "int" THEN e.val ELSE kNoLength
ParseLength(p) ==
  CASE Peek(p) = "]" -> [Next(p) EXCEPT !.err = TRUE, !.node = None]
    [] Peek(p) = "*" -> Expect(With(Next(p), IntLiteral(0)), "]")
    [] OTHER -> Expect(ParseExpression(p), "]")
ElementsAfter(len) == Making(ParseType(len), LAMBDA t : ArrayOf(LengthOf(len.node), t))
ParseArrayType(p) == ElementsAfter(ParseLength(Next(p)))

FieldsAfter(type, name, fields) == ParseFields(type, Append(fields, Param(name, type.node)))
ParseFields(p, fields) ==
  IF Peek(p) = "}" THEN With(Next(p), StructOf(fields))
  ELSE FieldsAfter(ParseType(Expect(Expect(p, "ident"), ":")), GetSymbol(Next(p)), fields)

ParseStructType(p) == ParseFields(Next(p), <<>>)

ParseType(p) ==
  CASE Peek(p) = "nil" -> With(Next(p), TNil)
    [] Peek(p) = "ident" -> With(Next(p), [tk |-> GetSymbol(Next(p))])
    [] Peek(p) = "(" -> ParseFunctionType(p)
    [] Peek(p) = "*" -> ParsePointerType(p)
    [] Peek(p) = "[" -> ParseArrayType(p)
    [] Peek(p) = "struct" -> ParseStructType(Next(p))
    [] OTHER -> [p EXCEPT !.err = TRUE, !.node = NoType]

\* A parameter of a function type may have no name; a name without a colon is its type.
ParametersAfter(type, name, params) ==
  LET all == Append(params, Param(name, type.node))
  IN IF Peek(type) = "," THEN ParseParameters(Next(type), all) ELSE With(type, all)
ParseParameters(p, params) ==
  CASE Peek(p) = ")" -> With(p, params)
    [] Peek(p) = "ident" /\ Peek(Next(p)) = ":" ->
         ParametersAfter(ParseType(Next(Next(p))), GetSymbol(Next(p)), params)
    [] OTHER -> ParametersAfter(ParseType(Matches(p, ":")), "", params)

\* Parameters, then the type of the result.
ResultAfter(params) ==
  Making(ParseType(Expect(Expect(params, ")"), "->")), LAMBDA ret : FunctionOf(params.node, ret))
ParseFunctionType(p) == ResultAfter(ParseParameters(Next(p), <<>>))

(* Statements. *)
StatementsAfter(s, stmts) == ParseStatements(s, Append(stmts, s.node))
ParseStatements(p, stmts) ==
  IF Peek(p) \in {"}", "eos"} THEN With(p, stmts) ELSE StatementsAfter(ParseStatement(p), stmts)

ParseBlockStatement(p) == Expect(Making(ParseStatements(Expect(p, "{"), <<>>), Block), "}")

\* A type or an initialiser may be missing, not both.
InitAfter(init, name, type) ==
  [init EXCEPT !.node = VarDecl(name, type, @), !.err = @ \/ (type = NoType /\ init.node = None)]
DeclarationAfter(type, name) ==
  InitAfter(IF Peek(type) = "=" THEN ParseExpression(Next(type)) ELSE With(type, None), name, type.node)
ParseVariableDeclaration(p) ==
  LET name == Expect(Next(p), "ident")
  IN DeclarationAfter(IF Peek(name) = ":" THEN ParseType(Next(name)) ELSE With(name, NoType),
                      GetSymbol(name))

SourceAfter(left) ==
  IF Peek(left) = "=" THEN Making(ParseExpression(Next(left)), LAMBDA e : Assignment(left.node, e))
  ELSE Making(left, ExprStmt)
ParseSimpleStatement(p) == SourceAfter(ParseExpression(p))

ElseAfter(then, cond) ==
  LET after == Next(then)
      else == IF Peek(after) = "if" THEN ParseIfStatement(after) ELSE ParseBlockStatement(after)
  IN IF Peek(then) = "else" THEN Making(else, LAMBDA s : IfStmt(cond, then.node, s))
     ELSE With(then, IfStmt(cond, then.node, None))
ThenAfter(cond) == ElseAfter(ParseBlockStatement(Expect(cond, ")")), cond.node)
ParseIfStatement(p) == ThenAfter(ParseExpression(Expect(Next(p), "(")))

\* The expression of a statement that must be one.
MakeExpr(p) ==
  CASE p.node = None -> p
    [] p.node # None /\ p.node.kind = "Expr" -> With(p, p.node.expr)
    [] OTHER -> [p EXCEPT !.err = TRUE, !.node = None]

StatementUnless(p, stop) == IF Peek(p) = stop THEN With(p, None) ELSE ParseStatement(p)

\* The header's node is <<init, cond, next>>: none of them, a condition, or all three.
NextAfter(cond, init) ==
  Making(StatementUnless(Expect(cond, ";"), ")"), LAMBDA next : <<init, cond.node, next>>)
ConditionAfter(first) ==
  IF Peek(first) = ";" THEN NextAfter(MakeExpr(StatementUnless(Next(first), ";")), first.node)
  ELSE Making(MakeExpr(first), LAMBDA cond : <<None, cond, None>>)
ParseForHeader(p) ==
  IF Peek(p) = "{" THEN With(p, <<None, None, None>>)
  ELSE Expect(ConditionAfter(StatementUnless(Expect(p, "("), ";")), ")")

BodyAfter(header) ==
  Making(ParseBlockStatement(header),
         LAMBDA body : ForStmt(header.node[1], header.node[2], header.node[3], body))
ParseForStatement(p) == BodyAfter(ParseForHeader(Next(p)))

ParseReturnStatement(p) ==
  Making(IF Peek(Next(p)) = "}" THEN With(Next(p), None) ELSE ParseExpression(Next(p)), ReturnStmt)

ParseStatement(p) ==
  CASE Peek(p) = "{" -> ParseBlockStatement(p)
    [] Peek(p) = "for" -> ParseForStatement(p)
    [] Peek(p) = "if" -> ParseIfStatement(p)
    [] Peek(p) = "return" -> ParseReturnStatement(p)
    [] Peek(p) = "var" -> ParseVariableDeclaration(p)
    [] OTHER -> ParseSimpleStatement(p)

(* Functions. *)
FunctionBodyAfter(type, name) ==
  Making(ParseBlockStatement(type), LAMBDA body : FunctionDecl(name, type.node.params, type.node.ret, body))
ParseFunctionDeclaration(p) ==
  FunctionBodyAfter(ParseFunctionType(Expect(Next(p), "ident")), GetSymbol(Next(Next(p))))

\* Skips at least one token, up to the next declaration.
Sync(p) ==
  LET starts == {i \in (p.at + 1)..Len(p.toks) : p.toks[i].t \in {"struct", "fun"}}
  IN [p EXCEPT !.err = TRUE, !.at = IF starts = {} THEN Len(p.toks) + 1 ELSE Min(starts)]

DeclarationsAfter(f, decls) == ParseDeclarations(f, Append(decls, f.node))
ParseDeclarations(p, decls) ==
  CASE Peek(p) = "eos" -> With(p, decls)
    [] Peek(p) = "fun" -> DeclarationsAfter(ParseFunctionDeclaration(p), decls)
    [] OTHER -> ParseDeclarations(Sync(p), decls)

\* The program, and whether an error was reported.
Parse(toks) == ParseDeclarations([toks |-> toks, at |-> 1, err |-> FALSE, node |-> None], <<>>)

==============================================================================
