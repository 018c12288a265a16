-------------------------------- MODULE MCTpl --------------------------------
(***************************************************************************)
(* Every way to put small expressions into small statements: integer and   *)
(* Boolean expressions over variables, literals, pointers, fields, array   *)
(* elements and calls, in returns, assignments, conditions and loops.      *)
(***************************************************************************)
EXTENDS VM

Id(n) == Identifier(n)
Lit(n) == IntLiteral(n)
Add(l, r) == BinaryOp("+", l, r)
Let(n, e) == VarDecl(n, NoType, e)
Var(n, t) == VarDecl(n, t, None)
Set(l, e) == Assignment(l, e)
Deref(e) == UnaryOp("*", e)
AddrOf(e) == UnaryOp("&", e)
Lt(l, r) == ComparisonOp("<", l, r)
Eq(l, r) == ComparisonOp("==", l, r)
And(l, r) == BinaryOp("and", l, r)
Or(l, r) == BinaryOp("or", l, r)

Alias == [tk |-> "int"]   \* of int32
Pair == StructOf(<<Param("c", TInt8), Param("n", TInt), Param("b", TBool)>>)

(* The functions a program may call. *)
Twice == FunctionDecl("twice", <<Param("x", TInt)>>, TInt, Block(<<ReturnStmt(Add(Id("x"), Id("x")))>>))
Count == FunctionDecl("count", <<Param("x", TInt)>>, TInt,
  Block(<<IfStmt(Lt(Id("x"), Lit(1)), Block(<<ReturnStmt(Lit(0))>>), None),
          ReturnStmt(Add(Lit(1), CallOf("count", <<BinaryOp("-", Id("x"), Lit(1))>>)))>>))
Put == FunctionDecl("put", <<Param("to", PointerTo(TInt)), Param("v", TInt)>>, TNil,
  Block(<<Set(Deref(Id("to")), Id("v"))>>))
Flip == FunctionDecl("flip", <<Param("v", TBool), Param("s", PointerTo(Pair))>>, TBool,
  Block(<<IfStmt(Id("v"), Block(<<ReturnStmt(Member(Id("s"), "b"))>>),
                          Block(<<ReturnStmt(UnaryOp("!", Member(Id("s"), "b")))>>))>>))
First == FunctionDecl("first", <<Param("r", ArrayOf(0, TInt)), Param("i", TInt)>>, TInt,
  Block(<<ReturnStmt(IndexOf(Id("r"), Id("i")))>>))

Prologue ==
  <<Let("a", Lit(1)), VarDecl("b", TInt, Lit(2)), Let("t", BoolLiteral(TRUE)),
    Let("p", AddrOf(Id("a"))), Var("s", Pair), Set(Member(Id("s"), "c"), Lit(100)),
    Set(Member(Id("s"), "n"), Lit(3)), Set(Member(Id("s"), "b"), BoolLiteral(FALSE)),
    Var("r", ArrayOf(2, TInt)), Set(IndexOf(Id("r"), Lit(0)), Lit(4)),
    Set(IndexOf(Id("r"), Lit(1)), Lit(5))>>

Main(stmts) ==
  <<Twice, Count, Put, Flip, First,
    FunctionDecl("main", <<>>, TInt, Block(Prologue \o stmts))>>

Elem(i) == IndexOf(Id("r"), i)
Field(f) == Member(Id("s"), f)

IntAtoms == <<Lit(7), Id("b"), Deref(Id("p")), Field("n"), Elem(Id("a")), CallOf("twice", <<Id("b")>>)>>
BoolAtoms == <<Id("t"), Field("b"), Lt(Id("a"), Id("b")), UnaryOp("!", Id("t")),
               ComparisonOp("!=", Id("p"), NilLiteral), Eq(Id("p"), NilLiteral),
               CallOf("flip", <<Id("t"), AddrOf(Id("s"))>>)>>

AllPairs(l, r, F(_, _)) == FoldLeft(LAMBDA acc, x : acc \o [i \in DOMAIN r |-> F(x, r[i])], <<>>, l)

Map(s, F(_)) == [i \in DOMAIN s |-> F(s[i])]

ArithmeticSeq == <<"+", "-", "*", "/", "%", "&", "|", "^", "<<", ">>">>

Ints ==
  IntAtoms
    \o AllPairs(IntAtoms, IntAtoms, LAMBDA l, r : BinaryOp("-", l, r))
    \o [i \in DOMAIN IntAtoms |-> UnaryOp("-", BinaryOp("*", IntAtoms[i], Add(Id("a"), Lit(2))))]
    \o [i \in DOMAIN IntAtoms |-> CallOf("twice", <<Add(IntAtoms[i], CallOf("count", <<Id("b")>>))>>)]
    \o AllPairs(ArithmeticSeq, ArithmeticSeq, LAMBDA o, q : BinaryOp(q, BinaryOp(o, Lit(7), Id("b")), Elem(Lit(1))))
    \o AllPairs(ArithmeticSeq, ArithmeticSeq, LAMBDA o, q : BinaryOp(o, Field("n"), BinaryOp(q, Lit(7), Id("b"))))
    \o Map(<<"/", "%", ">>", "<<">>, LAMBDA o : BinaryOp(o, UnaryOp("-", Elem(Lit(1))), Id("b")))
    \o <<UnaryOp("~", Add(Id("b"), Id("a"))), BinaryOp("/", Lit(7), UnaryOp("-", Id("b")))>>

Bools ==
  BoolAtoms \o AllPairs(BoolAtoms, BoolAtoms, And) \o AllPairs(BoolAtoms, BoolAtoms, Or)
    \o <<And(Or(Id("t"), Field("b")), Or(Field("b"), Lt(Id("a"), Id("b")))),
         Or(And(Id("t"), Field("b")), UnaryOp("!", And(Field("b"), Id("t")))),
         Lt(Field("c"), Lit(101)), Lt(Lit(3), Field("c")), ComparisonOp(">=", Elem(Lit(1)), Field("n")),
         ComparisonOp("<=", Lit(2), Id("b")), Eq(BinaryOp("&", Id("b"), Lit(3)), Lit(2)),
         Lt(BinaryOp("<<", Id("a"), Id("b")), BinaryOp("|", Lit(4), Id("a"))), ComparisonOp(">", Add(Id("a"), Id("b")), Deref(Id("p")))>>

(* Statements around an expression; v is a Boolean, e an integer. *)
Returns(e) == <<ReturnStmt(e)>>
Branches(v) == <<IfStmt(v, Block(<<ReturnStmt(Lit(10))>>), Block(<<Set(Id("a"), Lit(20))>>)), ReturnStmt(Id("a"))>>
Keeps(v) == <<Let("v", v), IfStmt(Id("v"), Block(<<Set(Id("a"), Lit(30))>>), None), ReturnStmt(Id("a"))>>
Assigns(l, e) ==
  <<Block(<<Set(l, e)>>), ReturnStmt(Add(Add(Id("a"), Id("b")), Add(Field("n"), Add(Elem(Lit(0)), Elem(Lit(1))))))>>
Counts(n, v) ==
  <<ForStmt(Let("i", Lit(0)), And(v, Lt(Id("i"), Lit(n))), Set(Id("i"), Add(Id("i"), Lit(1))),
            Block(<<Let("x", Elem(Lit(1))), Set(Id("b"), Add(Id("b"), Id("x")))>>)),
    ReturnStmt(Id("b"))>>

LValues == <<Id("b"), Deref(Id("p")), Field("n"), Member(Deref(AddrOf(Id("s"))), "n"), Elem(Lit(1)), Elem(Id("a"))>>

Others == <<
  (* calls for their effect, also on the caller's variables *)
  <<ExprStmt(CallOf("put", <<Id("p"), Lit(9)>>)), ExprStmt(CallOf("put", <<AddrOf(Field("n")), Id("a")>>)),
    ExprStmt(CallOf("put", <<AddrOf(Elem(BinaryOp("-", Id("b"), Lit(1)))), Lit(6)>>)), ReturnStmt(Add(Id("a"), Field("n")))>>,
  (* narrow arithmetic wraps *)
  <<Set(Field("c"), Add(Field("c"), Field("c"))),
    IfStmt(Lt(Field("c"), Lit(0)), Block(<<ReturnStmt(Lit(1))>>), None), ReturnStmt(Lit(2))>>,
  <<Set(Field("c"), Add(Field("c"), Lit(28))),
    IfStmt(Lt(Field("c"), Lit(0)), Block(<<ReturnStmt(Lit(1))>>), None), ReturnStmt(Lit(2))>>,
  <<VarDecl("d", TInt8, Lit(-128)), Let("e", UnaryOp("-", Id("d"))),
    IfStmt(Eq(Id("e"), Id("d")), Block(<<ReturnStmt(Lit(1))>>), Block(<<ReturnStmt(Lit(2))>>))>>,
  (* aggregates are copied *)
  <<Let("u", Id("s")), Set(Member(Id("u"), "n"), Lit(8)), Set(Field("b"), BoolLiteral(TRUE)),
    IfStmt(Member(Id("u"), "b"), Block(<<ReturnStmt(Lit(0))>>), None),
    ReturnStmt(Add(Field("n"), Member(Id("u"), "n")))>>,
  <<Let("u", Id("r")), Set(IndexOf(Id("u"), Lit(0)), Lit(8)), ReturnStmt(Add(Elem(Lit(0)), IndexOf(Id("u"), Lit(0))))>>,
  (* pointers to pointers, to aggregates, and nil *)
  <<Let("q", AddrOf(Id("p"))), Set(Id("p"), AddrOf(Id("b"))), Block(<<Set(Deref(Deref(Id("q"))), Lit(50))>>), ReturnStmt(Id("b"))>>,
  <<Let("q", AddrOf(Id("s"))), Set(Member(Id("q"), "n"), Add(Member(Id("q"), "n"), Lit(1))), ReturnStmt(Field("n"))>>,
  <<VarDecl("q", PointerTo(TInt), NilLiteral), Set(Id("p"), Id("q")),
    IfStmt(Eq(NilLiteral, Id("p")), Block(<<ReturnStmt(Lit(1))>>), Block(<<ReturnStmt(Lit(2))>>))>>,
  <<ReturnStmt(CallOf("first", <<AddrOf(Id("r")), Id("a")>>))>>,
  (* types: pointers to functions, aliases, arrays of structs *)
  <<VarDecl("q", PointerTo(FunctionOf(<<Param("", PointerTo(Alias)), Param("x", TInt)>>, TBool)), NilLiteral),
    IfStmt(Eq(Id("q"), NilLiteral), Block(<<ReturnStmt(Lit(1))>>), Block(<<ReturnStmt(Lit(2))>>))>>,
  <<VarDecl("d", Alias, Lit(3)), Set(Id("p"), AddrOf(Id("d"))), ReturnStmt(Add(Id("d"), Deref(Id("p"))))>>,
  <<Var("m", ArrayOf(2, Pair)), Set(IndexOf(Id("m"), Lit(0)), Id("s")), Set(IndexOf(Id("m"), Id("a")), Id("s")),
    Set(Member(IndexOf(Id("m"), Lit(0)), "c"), Lit(9)), Set(Member(IndexOf(Id("m"), Id("a")), "n"), Lit(8)),
    Set(Member(IndexOf(Id("m"), Lit(0)), "b"), BoolLiteral(TRUE)),
    IfStmt(Member(IndexOf(Id("m"), Lit(1)), "b"), Block(<<ReturnStmt(Lit(0))>>), None),
    ReturnStmt(Add(Member(IndexOf(Id("m"), Lit(0)), "n"), Member(IndexOf(Id("m"), Lit(1)), "n")))>>,
  (* loops: nested *)
  <<ForStmt(Let("i", Lit(0)), Lt(Id("i"), Lit(2)), Set(Id("i"), Add(Id("i"), Lit(1))),
      Block(<<ForStmt(Let("j", Lit(0)), Lt(Id("j"), Id("i")), Set(Id("j"), Add(Id("j"), Lit(1))),
        Block(<<Set(Id("a"), Add(Id("a"), Lit(10)))>>))>>)), ReturnStmt(Id("a"))>>,
  <<ForStmt(None, Lt(Id("a"), Lit(4)), None, Block(<<Set(Id("a"), Add(Id("a"), Id("b")))>>)), ReturnStmt(Id("a"))>>,
  <<ForStmt(None, Lt(Id("a"), Lit(3)), Set(Id("a"), Add(Id("a"), Lit(1))),
      Block(<<IfStmt(Eq(Id("a"), Id("b")), Block(<<ReturnStmt(Lit(90))>>), None)>>)), ReturnStmt(Id("a"))>>,
  (* branches inside branches *)
  <<IfStmt(Field("b"), Block(<<ReturnStmt(Lit(1))>>),
      IfStmt(Id("t"), Block(<<ReturnStmt(Lit(2))>>), Block(<<ReturnStmt(Lit(3))>>)))>>,
  <<IfStmt(Id("t"), Block(<<IfStmt(Field("b"), Block(<<Set(Id("a"), Lit(60))>>), Block(<<Set(Id("a"), Lit(70))>>))>>),
      Block(<<Set(Id("a"), Lit(80))>>)), ReturnStmt(Id("a"))>>
>>

(* Programs the analysis has to refuse. *)
Refused == <<
  <<ReturnStmt(Id("nowhere"))>>, <<ReturnStmt(Id("t"))>>, <<ReturnStmt(None)>>, <<Set(Id("a"), Lit(3))>>,
  <<Set(Id("a"), BoolLiteral(TRUE)), ReturnStmt(Id("a"))>>,
  <<Set(Id("p"), Id("b")), ReturnStmt(Id("a"))>>,
  <<Set(Id("p"), AddrOf(Id("t"))), ReturnStmt(Id("a"))>>,
  <<Set(Field("c"), Lit(200)), ReturnStmt(Id("a"))>>,
  <<Set(Field("c"), Id("a")), ReturnStmt(Id("a"))>>,
  <<Set(Field("z"), Id("a")), ReturnStmt(Id("a"))>>,
  <<Let("a", Lit(4)), ReturnStmt(Id("a"))>>,
  <<VarDecl("d", [tk |-> "nowhere"], Lit(4)), ReturnStmt(Id("d"))>>,
  <<Var("d", StructOf(<<Param("n", [tk |-> "nowhere"])>>)), ReturnStmt(Id("a"))>>,
  <<Var("d", ArrayOf(-2, TInt)), ReturnStmt(Id("a"))>>, <<ReturnStmt(CallOf("int32", <<Id("a")>>))>>,
  <<Let("q", NilLiteral), ReturnStmt(Id("a"))>>,
  <<IfStmt(Id("a"), Block(<<ReturnStmt(Lit(1))>>), None), ReturnStmt(Id("a"))>>,
  <<ReturnStmt(Add(Id("a"), Id("t")))>>, <<ReturnStmt(Add(Id("a"), Field("c")))>>,
  <<Set(Field("c"), Add(Field("c"), Lit(200))), ReturnStmt(Id("a"))>>,
  <<ReturnStmt(Elem(Lit(2)))>>, <<ReturnStmt(Elem(Id("t")))>>, <<ReturnStmt(Deref(Id("a")))>>,
  <<ReturnStmt(CallOf("twice", <<>>))>>, <<ReturnStmt(CallOf("twice", <<Id("t")>>))>>,
  <<ReturnStmt(CallOf("put", <<Id("p"), Lit(1)>>))>>,
  <<Let("v", And(Id("t"), Id("a"))), ReturnStmt(Id("a"))>>,
  <<Let("v", Lt(Id("p"), Id("p"))), ReturnStmt(Id("a"))>>,
  <<ForStmt(None, Id("a"), None, Block(<<Set(Id("a"), Lit(1))>>)), ReturnStmt(Id("a"))>>,
  <<ForStmt(None, None, None, Block(<<ReturnStmt(Id("a"))>>))>>,
  <<IfStmt(Id("t"), Block(<<Let("x", Lit(1))>>), None), ReturnStmt(Id("x"))>>
>>

Accepted ==
  Map(Ints, Returns) \o Map(Bools, Branches) \o Map(Bools, Keeps)
    \o AllPairs(LValues, IntAtoms, Assigns)
    \o Map(Bools, LAMBDA v : Counts(2, v)) \o Map(<<0, 1, 3>>, LAMBDA n : Counts(n, Id("t")))
    \o Others

(* TLC computes these once. *)
AllPrograms == Map(Accepted \o Refused, Main)
RefusedPrograms == {Len(Accepted) + i : i \in DOMAIN Refused}

MCPrograms == AllPrograms
MCIllFormed == RefusedPrograms

==============================================================================
