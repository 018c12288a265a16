----------------------------- MODULE TplMeaning -----------------------------
(***************************************************************************)
(* What a type-checked TPL program means, said without frames, offsets,    *)
(* temporaries, labels or addressing modes: names are lexically scoped, a  *)
(* variable is a sequence of cells, and operands are evaluated from left   *)
(* to right.  This is the reference the compiler is checked against.       *)
(*                                                                         *)
(* A location is <<variable, cell>>; a state s is the store and the number *)
(* of variables made so far; an environment is a stack of scopes.          *)
(***************************************************************************)
EXTENDS Ast, Bitwise, TLC

RECURSIVE Cells(_), CellsBefore(_, _)

Cells(t) ==
  CASE t.tk = "struct" -> CellsBefore(t.fields, Len(t.fields))
    [] t.tk = "array" /\ t.len # 0 -> t.len * Cells(t.of)
    [] OTHER -> 1

CellsBefore(fields, n) ==
  IF n = 0 THEN 0 ELSE CellsBefore(fields, n - 1) + Cells(fields[n].type)

NilLocation == <<0, 0>>
Undefined == "undefined"

\* The variable made last is at <<s.vars, 0>>.
NewVariable(s, type) ==
  [vars |-> s.vars + 1,
   store |-> [l \in {<<s.vars + 1, k>> : k \in 0..(Cells(type) - 1)} |-> Undefined] @@ s.store]

\* A value is the sequence of its cells.
Load(s, loc, type) == [k \in 1..Cells(type) |-> s.store[<<loc[1], loc[2] + k - 1>>]]

Store(s, loc, val) ==
  [s EXCEPT !.store =
     [l \in {<<loc[1], loc[2] + k - 1>> : k \in DOMAIN val} |-> val[l[2] - loc[2] + 1]] @@ @]

RECURSIVE Find(_, _)
Find(env, name) ==
  IF name \in DOMAIN Last(env) THEN Last(env)[name] ELSE Find(Front(env), name)

Bound(env, name, loc) == [env EXCEPT ![Len(env)] = (name :> loc) @@ @]

InType(n, type) == IF type.tk = "int8" THEN ((n + 128) % 256) - 128 ELSE n
Truth(b) == IF b THEN 1 ELSE 0

\* The integer next to the exact quotient, on the side of zero.
Quotient(l, r) ==
  CHOOSE q \in -Abs(l)..Abs(l) :
    /\ Abs(l) - Abs(q * r) \in 0..(Abs(r) - 1)
    /\ q * r = 0 \/ (q * r < 0) = (l < 0)

\* The operands of & | ^ are not negative in the programs checked.
Calculate(op, l, r) ==
  CASE op = "+" -> l + r [] op = "-" -> l - r [] op = "*" -> l * r
    [] op = "/" -> Quotient(l, r)
    [] op = "%" -> l - Quotient(l, r) * r
    [] op = "&" -> l & r [] op = "|" -> l | r [] op = "^" -> l ^^ r
    [] op = "<<" -> l * 2^r [] op = ">>" -> l \div 2^r
    [] op = "<" -> Truth(l < r) [] op = "<=" -> Truth(l <= r) [] op = ">" -> Truth(l > r)
    [] op = ">=" -> Truth(l >= r) [] op = "==" -> Truth(l = r) [] op = "!=" -> Truth(l # r)

Answer(s, v) == [s |-> s, v |-> v]

RECURSIVE LocationOf(_, _, _, _), ValueIn(_, _, _, _), Run(_, _, _, _), Apply(_, _, _, _)

(* A rule with several parts has one operator for each; what follows a part *)
(* takes the answer to it as its first argument.                            *)

\* The location off cells into what o points to, or what o is.
Inside(o, isPointer, off) ==
  Answer(o.s, IF isPointer THEN <<o.v[1][1], o.v[1][2] + off>> ELSE <<o.v[1], o.v[2] + off>>)
Pointed(a) == Answer(a.s, a.v[1])
ElementOf(o, i, e) == Inside(Answer(i.s, o.v), e.object.type.len = 0, i.v[1] * Cells(e.type))

ObjectOf(p, e, isPointer, env, s) ==
  IF isPointer THEN ValueIn(p, e.object, env, s) ELSE LocationOf(p, e.object, env, s)
MemberOf(o, e, struct) ==
  Inside(o, IsPointerType(e.object.type),
         CellsBefore(struct.fields, FieldIndex(struct, e.member) - 1))
IndexedBy(o, p, e, env) == ElementOf(o, ValueIn(p, e.index, env, o.s), e)

LocationOf(p, e, env, s) ==
  CASE e.kind = "Identifier" -> Answer(s, Find(env, e.name))
    [] e.kind = "Unary" -> Pointed(ValueIn(p, e.input, env, s))
    [] e.kind = "Member" ->
         MemberOf(ObjectOf(p, e, IsPointerType(e.object.type), env, s), e,
                  IF IsPointerType(e.object.type) THEN e.object.type.of ELSE e.object.type)
    [] e.kind = "Index" -> IndexedBy(ObjectOf(p, e, e.object.type.len = 0, env, s), p, e, env)

Negated(a, e) ==
  Answer(a.s, <<CASE e.op = "-" -> InType(-a.v[1], e.type)
                  [] e.op = "~" -> -1 - a.v[1]
                  [] e.op = "!" -> 1 - a.v[1]>>)
RightIfNeeded(l, p, e, env) ==
  IF l.v[1] = Truth(e.op = "or") THEN l ELSE ValueIn(p, e.right, env, l.s)
Calculated(l, r, e) == Answer(r.s, <<InType(Calculate(e.op, l.v[1], r.v[1]), e.type)>>)
WithRight(l, p, e, env) == Calculated(l, ValueIn(p, e.right, env, l.s), e)
WithArg(a, args) == Answer(a.s, Append(args, a.v))
ApplyTo(args, p, f) == Apply(p, f, args.v, args.s)
Held(a, type) == Answer(a.s, Load(a.s, a.v, type))
AddressAt(a) == Answer(a.s, <<a.v>>)

ValueIn(p, e, env, s) ==
  CASE e.kind = "Literal" -> Answer(s, <<IF e.lit = "nil" THEN NilLocation ELSE e.val>>)
    [] e.kind = "Unary" /\ e.op = "&" -> AddressAt(LocationOf(p, e.input, env, s))
    [] e.kind = "Unary" /\ e.op \in {"-", "~", "!"} -> Negated(ValueIn(p, e.input, env, s), e)
    [] e.kind = "Binary" /\ e.op \in LogicalOps ->
         RightIfNeeded(ValueIn(p, e.left, env, s), p, e, env)
    [] e.kind = "Compare" \/ (e.kind = "Binary" /\ e.op \notin LogicalOps) ->
         WithRight(ValueIn(p, e.left, env, s), p, e, env)
    [] e.kind = "Call" ->
         ApplyTo(VisitInOrder(LAMBDA acc, arg : WithArg(ValueIn(p, arg, env, acc.s), acc.v),
                              Answer(s, <<>>), e.args),
                 p, e.func)
    [] e.kind = "Cast" -> ValueIn(p, e.input, env, s)
    [] OTHER -> Held(LocationOf(p, e, env, s), e.type)

\* What a statement does: the state and environment after it, and what it returns.
Did(s, env, ret) == [s |-> s, env |-> env, ret |-> ret]
WithEnv(d, env) == Did(d.s, env, d.ret)

RECURSIVE Loop(_, _, _, _)

Again(d, p, st, env) ==
  IF d.ret # <<>> THEN d
  ELSE Loop(p, st, env, IF st.next = None THEN d.s ELSE Run(p, st.next, env, d.s).s)
IfTrue(c, p, st, env) ==
  IF c.v[1] = 0 THEN Did(c.s, env, <<>>) ELSE Again(Run(p, st.body, env, c.s), p, st, env)
Loop(p, st, env, s) ==
  IfTrue(IF st.cond = None THEN Answer(s, <<1>>) ELSE ValueIn(p, st.cond, env, s), p, st, env)

Declared(n, v, name, env) ==
  Did(Store(n, <<n.vars, 0>>, v), Bound(env, name, <<n.vars, 0>>), <<>>)
InitialValue(v, st, env) == Declared(NewVariable(v.s, st.type), v.v, st.name, env)
AssignTo(dest, v, env) == Did(Store(v.s, dest, v.v), env, <<>>)
SourceOf(dest, p, st, env) == AssignTo(dest.v, ValueIn(p, st.src, env, dest.s), env)
Branch(c, p, st, env) ==
  CASE c.v[1] = 1 -> Run(p, st.then, env, c.s)
    [] c.v[1] # 1 /\ st.else # None -> Run(p, st.else, env, c.s)
    [] OTHER -> Did(c.s, env, <<>>)
Returned(v, env) == Did(v.s, env, <<v.v>>)

Run(p, st, env, s) ==
  CASE st.kind = "Block" ->
         WithEnv(VisitInOrder(LAMBDA acc, stmt : IF acc.ret # <<>> THEN acc
                                                 ELSE Run(p, stmt, acc.env, acc.s),
                              Did(s, Append(env, <<>>), <<>>), st.stmts),
                 env)
    [] st.kind = "Decl" ->
         InitialValue(IF st.init = None THEN Answer(s, <<>>) ELSE ValueIn(p, st.init, env, s), st, env)
    [] st.kind = "Assign" -> SourceOf(LocationOf(p, st.dest, env, s), p, st, env)
    [] st.kind = "Expr" -> Did(ValueIn(p, st.expr, env, s).s, env, <<>>)
    [] st.kind = "If" -> Branch(ValueIn(p, st.cond, env, s), p, st, env)
    [] st.kind = "For" ->
         WithEnv(LET Repeat(d) == Loop(p, st, d.env, d.s)
                 IN Repeat(IF st.init = None THEN Did(s, Append(env, <<>>), <<>>)
                           ELSE Run(p, st.init, Append(env, <<>>), s)),
                 env)
    [] st.kind = "Return" ->
         Returned(IF st.value = None THEN Answer(s, <<>>) ELSE ValueIn(p, st.value, env, s), env)

\* Every call has its own parameters and variables.
Pass(acc, param, arg) == Declared(NewVariable(acc.s, param.type), arg, param.name, acc.env)
Result(d) == Answer(d.s, d.ret[1])
Body(entry, p, f) == Result(Run(p, f.body, entry.env, entry.s))
ApplyFunction(p, f, args, s) ==
  Body(VisitInOrder(LAMBDA acc, i : Pass(acc, f.params[i], args[i]), Did(s, <<<<>>>>, <<>>),
                    [i \in DOMAIN args |-> i]), p, f)
Apply(p, name, args, s) == ApplyFunction(p, p[SelectInSeq(p, LAMBDA d : d.name = name)], args, s)

\* The result of main, the last function of a type-checked program p.
Meaning(p) == Apply(p, p[Len(p)].name, <<>>, [vars |-> 0, store |-> <<>>]).v[1]

==============================================================================
