------------------------------ MODULE Programs ------------------------------
(***************************************************************************)
(* Programs to compile, execute and read.  Most are a function f(a) with   *)
(* one of the bodies below, over the outer variables x and t, used in each *)
(* of the contexts: every construct is executed plainly, under pcall,      *)
(* under a pcall in a pcall, in a loop, in an expression and as a          *)
(* condition, and fails in all of them.                                    *)
(***************************************************************************)
EXTENDS Ast, Integers

L(s) == Str(<<s>>)
N(n) == IntLit(n)
a == Name("a")
x == Name("x")
t == Name("t")
f == Name("f")
Local(y, e)     == LocalDecl(<<y>>, <<e>>)
Do1(e)          == ExprStmt(e)
Log(e)          == ExprStmt(Call(Name("log"), <<e>>))
Fn(ps, b)       == FuncDef(ps, b)
Lib(m, g, args) == Call(Field(Name(m), g), args)
OnlyIf(e, b)    == If(<<Clause(e, b)>>, NoBlock)
Fails(e)        == ExprStmt(Call(Name("error"), <<e>>))
Try(y, z, args) == LocalDecl(<<y, z>>, <<Call(Name("pcall"), args)>>)
AddTo(y, e)     == AssignName(y, BinOp("Add", Name(y), e))

Bodies == [
  upvalue   |-> Returning(<<AddTo("x", a)>>, x),
  store     |-> Returning(<<AssignIndex(t, a, x), AssignIndex(t, L("b"), a)>>,
                          BinOp("Concat", Index(t, N(2)), Field(t, "b"))),
  fails     |-> Block(<<AddTo("x", N(1)), Fails(L("a")), AddTo("x", N(1))>>),
  early     |-> Block(<<OnlyIf(BinOp("Gt", a, N(1)), Returning(<< >>, L("b")))>>),
  clauses   |-> Returning(<<If(<<Clause(BinOp("Lt", a, N(1)), Block(<<Log(L("a"))>>)),
                                 Clause(BinOp("Eq", a, N(1)), Block(<<Log(L("b"))>>))>>,
                               Block(<<Log(a)>>))>>, BinOp("Ge", a, N(2))),
  insert    |-> Returning(<<Do1(Lib("table", "insert", <<t, a>>)),
                            Do1(Lib("table", "insert", <<t, x>>)),
                            Local("last", Lib("table", "remove", <<t>>))>>,
                          BinOp("Mul", UnOp("Len", t), Name("last"))),
  nested    |-> Returning(<<LocalFunction("g", << >>, Returning(<<AddTo("x", a)>>, x))>>,
                          BinOp("Sub", Call(Name("g"), << >>), Call(Name("g"), << >>))),
  caught    |-> Returning(<<Try("ok", "e", <<Fn(<< >>,
                              Block(<<AssignName("x", N(5)), Fails(a)>>))>>), Log(Name("ok"))>>,
                          Name("e")),
  single    |-> Returning(<<Local("ok", Call(Name("pcall"), <<Name("tostring"), x>>))>>,
                          BinOp("And", Name("ok"), Call(Name("pcall"), <<N(1)>>))),
  tool      |-> Returning(<<Local("r", Lib("tool", "call", <<L("a"), t>>))>>,
                          Index(Name("r"), N(1))),
  badtool   |-> Returning(<< >>, Lib("tool", "call", <<L("a"), a>>)),
  loop      |-> Returning(<<While(TrueExpr, Block(<<AddTo("x", N(1)),
                              OnlyIf(BinOp("Gt", x, N(3)), Block(<<Break>>))>>))>>,
                          BinOp("Concat", x, BinOp("Concat", L("a"), L("b")))),
  down      |-> Block(<<NumericFor("i", N(3), N(1), UnOp("Neg", N(1)),
                                   Block(<<Log(Name("i"))>>))>>),
  up        |-> Block(<<NumericFor("i", N(1), a, NoValue,
                          Block(<<Log(Name("i")), AssignName("i", N(7))>>)), Log(x)>>),
  keys      |-> Block(<<GenericFor(<<"k", "v">>,
                          <<Call(Name("pairs"), <<TableOf(<<NamedKey("b", N(1)), Positional(N(2)),
                              ExplicitKey(N(5), a), NamedKey("a", N(3))>>)>>)>>,
                          Block(<<Log(BinOp("Concat", Name("k"), Name("v"))),
                            OnlyIf(BinOp("Eq", Name("v"), N(3)), Block(<<Break>>))>>))>>),
  elements  |-> Block(<<GenericFor(<<"i", "v">>, <<Call(Name("ipairs"), <<t>>)>>,
                          Block(<<Log(Name("v")), Do1(Lib("table", "remove", <<t>>))>>)),
                        GenericFor(<<"i">>, <<Call(Name("ipairs"), <<TableOf(<< >>)>>)>>,
                          Block(<<Log(Name("i"))>>))>>),
  choice    |-> Returning(<< >>, BinOp("Or", BinOp("And", BinOp("Gt", a, N(1)), L("a")),
                                       BinOp("And", UnOp("Not", x), Index(NilExpr, N(1))))),
  object    |-> Returning(<<Local("o", TableOf(<<NamedKey("n", N(2))>>)),
                            AssignIndex(Name("o"), L("get"), Fn(<<"self", "d">>, Returning(<< >>,
                               BinOp("IDiv", Field(Name("self"), "n"), Name("d")))))>>,
                          MethodCall(Name("o"), "get", <<BinOp("Sub", a, N(1)), N(0)>>)),
  strings   |-> Returning(<<Local("s", L("a")), OnlyIf(BinOp("Le", Name("s"), L("b")),
                              Block(<<AssignName("s", BinOp("Concat", Name("s"), L("b")))>>))>>,
                          BinOp("Add", MethodCall(Name("s"), "len", << >>), UnOp("Len", Name("s")))),
  sorts     |-> Returning(<<Do1(Lib("table", "sort", <<t, Fn(<<"p", "q">>,
                              Returning(<< >>, BinOp("Gt", Name("p"), Name("q"))))>>))>>,
                          Index(t, N(1))),
  plainsort |-> Returning(<<Do1(Lib("table", "sort", <<t>>))>>, Index(t, N(2))),
  badsort   |-> Returning(<<Do1(Lib("table", "sort", <<t, Fn(<<"p", "q">>,
                              Block(<<AssignName("x", N(6)), Fails(L("b"))>>))>>))>>, x),
  changes   |-> Returning(<<Do1(Lib("table", "sort", <<t, Fn(<<"p", "q">>,
                              Returning(<<AssignIndex(t, N(2), N(7)), AssignIndex(t, N(4), x)>>,
                                        BinOp("Lt", Name("p"), Name("q"))))>>))>>,
                          Index(t, N(2))),
  deep      |-> Returning(<< >>, Call(f, <<BinOp("Add", a, N(1))>>)),
  deeper    |-> Returning(<<Try("ok", "e", <<f, a>>), Log(Name("ok"))>>, Name("e")),
  wraps     |-> Returning(<<Local("n", BinOp("Add", N(7), a))>>,
                          BinOp("Mod", Name("n"), UnOp("Neg", N(3)))),
  zero      |-> Returning(<< >>, BinOp("Mod", a, N(0))),
  named     |-> Returning(<<FunctionDecl(<<"h">>, FALSE, <<"n">>,
                              Returning(<< >>, BinOp("Mul", Name("n"), N(2)))),
                            FunctionDecl(<<"h">>, FALSE, <<"n", "m">>,
                              Returning(<< >>, BinOp("Ne", Name("n"), Name("m"))))>>,
                          Call(Name("h"), <<a>>)),
  shadows   |-> Returning(<<Local("a", BinOp("Add", a, N(1))),
                            Do(Block(<<Local("a", L("b")), LocalDecl(<<"c", "d">>, <<a>>),
                                       Log(Name("c")), Log(Name("d"))>>)),
                            Local("e", NilExpr)>>, BinOp("Concat", a, Call(Name("type"), <<Name("e")>>))),
  mixed     |-> Returning(<<Local("m", TableOf(<<Positional(a), Positional(L("a"))>>)),
                            Do1(Lib("table", "sort", <<Name("m")>>))>>, UnOp("Len", Name("m"))),
  long      |-> Returning(<<Local("s", L("a")), NumericFor("i", N(1), N(4), NoValue,
                              Block(<<AssignName("s", BinOp("Concat", Name("s"), Name("s")))>>))>>,
                          Name("s")) ]

Contexts == [
  plain     |-> Returning(<<Local("r", Call(f, <<N(2)>>)), Log(x)>>, Name("r")),
  pcalled   |-> Returning(<<Try("ok", "r", <<f, N(2)>>), Log(Name("ok")), Log(x)>>, Name("r")),
  twice     |-> Returning(<<Try("ok", "r", <<Fn(<< >>, Block(<<
                              Try("in", "e", <<f, N(1)>>), Log(Name("in")),
                              Fails(BinOp("Or", Name("e"), L("b")))>>))>>), Log(Name("ok"))>>,
                          Name("r")),
  repeated  |-> Returning(<<NumericFor("n", N(1), N(2), NoValue,
                              Block(<<Try("ok", "r", <<f, Name("n")>>), Log(Name("ok"))>>))>>, x),
  value     |-> Returning(<<Local("u", TableOf(<<Positional(Call(f, <<N(0)>>)),
                              NamedKey("b", Call(Name("tostring"), <<Call(f, <<N(1)>>)>>))>>))>>,
                          Field(Name("u"), "b")),
  condition |-> Block(<<If(<<Clause(Call(f, <<N(1)>>), Block(<<Log(L("a"))>>))>>,
                           Block(<<Log(L("b"))>>))>>) ]

(* Bodies that make an order of 1 and 2, or fail, and change nothing.      *)
Comparing == {"choice", "fails", "early", "deep"}
AsComparator(b) ==
  Returning(<<Local("x", N(1)), Local("u", TableOf(<<Positional(N(2)), Positional(N(1))>>)),
              LocalFunction("f", <<"a">>, b), Do1(Lib("table", "sort", <<Name("u"), f>>))>>,
            Index(Name("u"), N(1)))

Whole(b, c) ==
  [c EXCEPT !.stmts =
     <<Local("x", N(1)), Local("t", TableOf(<<Positional(N(3)), Positional(N(1)), Positional(N(2))>>)),
       LocalFunction("f", <<"a">>, b)>> \o @]

Forever == Block(<<Local("x", N(1)), While(TrueExpr, Block(<<AddTo("x", N(1))>>))>>)
Growing == Block(<<Local("t", TableOf(<< >>)),
                   NumericFor("i", N(1), N(2), N(0),
                     Block(<<Do1(Lib("table", "insert", <<t, Name("i")>>))>>))>>)
=============================================================================
