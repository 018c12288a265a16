------------------------------- MODULE TplText -------------------------------
(***************************************************************************)
(* How a TPL program is written down, as the tokens the scanner makes of   *)
(* the text: the reference the parser is checked against.  An operand is   *)
(* put in parentheses only where the operators around it bind as tightly.  *)
(***************************************************************************)
EXTENDS Ast

Word(w) == <<[t |-> w, v |-> 0]>>
Name(n) == <<[t |-> "ident", v |-> n]>>
Number(n) == <<[t |-> "num", v |-> n]>>

\* Loosest first.
Levels == <<{"or"}, {"and"}, {"|"}, {"^"}, {"&"}, {"==", "!="}, {"<", "<=", ">", ">="},
            {"<<", ">>"}, {"+", "-"}, {"*", "/", "%"}>>
LevelOf(op) == CHOOSE i \in DOMAIN Levels : op \in Levels[i]
kPrefix == 11
kPostfix == 12

RECURSIVE TypeText(_), FieldsText(_), ExpressionText(_, _), ListText(_), StatementText(_)

FieldsText(fields) == FoldLeft(LAMBDA acc, f : acc \o Name(f.name) \o Word(":") \o TypeText(f.type), <<>>, fields)

Separated(seqs) ==
  IF seqs = <<>> THEN <<>> ELSE FoldLeft(LAMBDA acc, s : acc \o Word(",") \o s, Head(seqs), Tail(seqs))

\* Parameters may have no names.
SignatureText(f) ==
  Word("(")
    \o Separated([i \in DOMAIN f.params |->
                    IF f.params[i].name = "" THEN TypeText(f.params[i].type) ELSE FieldsText(<<f.params[i]>>)])
    \o Word(")") \o Word("->") \o TypeText(f.ret)

TypeText(t) ==
  CASE t.tk = "ptr" -> Word("*") \o TypeText(t.of)
    [] t.tk = "array" ->
         Word("[") \o (IF t.len = 0 THEN Word("*") ELSE ExpressionText(IntLiteral(t.len), 0)) \o Word("]") \o TypeText(t.of)
    [] t.tk = "struct" -> Word("struct") \o Word("{") \o FieldsText(t.fields) \o Word("}")
    [] t.tk = "fun" -> SignatureText(t)
    [] t.tk = "nil" -> Word("nil")
    [] OTHER -> Name(t.tk)

ListText(args) == Separated([i \in DOMAIN args |-> ExpressionText(args[i], 0)])

Parens(text, level, min) == IF level < min THEN Word("(") \o text \o Word(")") ELSE text

\* The text of e where only operators of level min or above may stand unprotected.
ExpressionText(e, min) ==
  CASE e.kind = "Literal" /\ e.lit = "nil" -> Word("nil")
    [] e.kind = "Literal" /\ e.lit = "bool" -> Word(IF e.val = 1 THEN "true" ELSE "false")
    [] e.kind = "Literal" /\ e.lit = "int" ->
         IF e.val >= 0 THEN Number(e.val) ELSE Parens(Word("-") \o Number(-e.val), kPrefix, min)
    [] e.kind = "Identifier" -> Name(e.name)
    [] e.kind = "Unary" -> Parens(Word(e.op) \o ExpressionText(e.input, kPrefix), kPrefix, min)
    [] e.kind \in {"Binary", "Compare"} ->
         LET level == LevelOf(e.op)
         IN Parens(ExpressionText(e.left, level) \o Word(e.op) \o ExpressionText(e.right, level + 1),
                   level, min)
    [] e.kind = "Call" -> Name(e.func) \o Word("(") \o ListText(e.args) \o Word(")")
    [] e.kind = "Member" -> ExpressionText(e.object, kPostfix) \o Word(".") \o Name(e.member)
    [] e.kind = "Index" ->
         ExpressionText(e.object, kPostfix) \o Word("[") \o ExpressionText(e.index, 0) \o Word("]")

OptionalText(s) == IF s = None THEN <<>> ELSE StatementText(s)

StatementText(s) ==
  CASE s.kind = "Block" ->
         Word("{") \o FoldLeft(LAMBDA acc, x : acc \o StatementText(x), <<>>, s.stmts) \o Word("}")
    [] s.kind = "Decl" ->
         Word("var") \o Name(s.name)
           \o (IF s.repr = NoType THEN <<>> ELSE Word(":") \o TypeText(s.repr))
           \o (IF s.init = None THEN <<>> ELSE Word("=") \o ExpressionText(s.init, 0))
    [] s.kind = "Assign" -> ExpressionText(s.dest, 0) \o Word("=") \o ExpressionText(s.src, 0)
    [] s.kind = "Expr" -> ExpressionText(s.expr, 0)
    [] s.kind = "If" ->
         Word("if") \o Word("(") \o ExpressionText(s.cond, 0) \o Word(")") \o StatementText(s.then)
           \o (IF s.else = None THEN <<>> ELSE Word("else") \o StatementText(s.else))
    [] s.kind = "For" ->
         Word("for")
           \o (IF s.init = None /\ s.cond = None /\ s.next = None THEN <<>>
               ELSE IF s.init = None /\ s.next = None
               THEN Word("(") \o ExpressionText(s.cond, 0) \o Word(")")
               ELSE Word("(") \o OptionalText(s.init) \o Word(";")
                      \o (IF s.cond = None THEN <<>> ELSE ExpressionText(s.cond, 0))
                      \o Word(";") \o OptionalText(s.next) \o Word(")"))
           \o StatementText(s.body)
    [] s.kind = "Return" ->
         Word("return") \o (IF s.value = None THEN <<>> ELSE ExpressionText(s.value, 0))

FunctionText(f) == Word("fun") \o Name(f.name) \o SignatureText(f) \o StatementText(f.body)

Text(program) == FoldLeft(LAMBDA acc, f : acc \o FunctionText(f), <<>>, program)

==============================================================================
