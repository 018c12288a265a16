----------------------------- MODULE MCTplScope -----------------------------
(***************************************************************************)
(* sample_tpl/scope.tpl: each block declares its own b.                    *)
(***************************************************************************)
EXTENDS MCTpl

ScopeProgram == <<<<FunctionDecl("main", <<>>, TInt, Block(<<
  Let("a", Lit(2)),
  IfStmt(Lt(Id("a"), Lit(10)), Block(<<
    Let("b", Lit(8)),
    IfStmt(Lt(Id("a"), Id("b")), Block(<<
      Let("b", Lit(5)),
      IfStmt(Lt(Id("a"), Id("b")), Block(<<
        Let("b", Lit(1)),
        IfStmt(Lt(Id("a"), Id("b")), Block(<<ReturnStmt(Lit(100))>>), None)>>), None)>>), None)>>), None),
  ReturnStmt(Lit(3))>>))>>>>
==============================================================================
