------------------------------ MODULE Printing ------------------------------
(***************************************************************************)
(* The grammar from the other side: the tokens of a syntax tree, with no   *)
(* more parentheses than the precedence of the operators in Lua asks for.  *)
(* Parser is checked against it.                                           *)
(***************************************************************************)
EXTENDS Ast, Integers, SequencesExt

Word(kind)     == <<[kind |-> kind, datum |-> ""]>>
Datum(kind, d) == <<[kind |-> kind, datum |-> d]>>
Ident1(x)      == Datum("Name", x)

(* The levels of the operators, from the loosest, and those that group to  *)
(* the right.                                                              *)
Levels == << {<<"Or", "or">>}, {<<"And", "and">>},
             {<<"Lt", "<">>, <<"Le", "<=">>, <<"Gt", ">">>, <<"Ge", ">=">>, <<"Eq", "==">>, <<"Ne", "~=">>},
             {<<"Concat", "..">>}, {<<"Add", "+">>, <<"Sub", "-">>},
             {<<"Mul", "*">>, <<"IDiv", "//">>, <<"Mod", "%">>} >>
LevelOf(op)  == CHOOSE l \in DOMAIN Levels : \E p \in Levels[l] : p[1] = op
SignOf(op)   == (CHOOSE p \in Levels[LevelOf(op)] : p[1] = op)[2]
RightGrouping == {"Concat"}
UnaryLevel   == Len(Levels) + 1
SuffixLevel  == Len(Levels) + 2
UnarySigns   == [Not |-> "not", Neg |-> "-", Len |-> "#"]

Separated(parts, sep) ==
  FoldLeft(LAMBDA s, p : IF s = << >> THEN p ELSE s \o sep \o p, << >>, parts)
NameList(xs) == Separated([i \in DOMAIN xs |-> Ident1(xs[i])], Word(","))
InParens(ts) == Word("(") \o ts \o Word(")")

RECURSIVE Show(_, _), ShowStmt(_), ShowBlock(_)

ShowAll(es)      == Separated([i \in DOMAIN es |-> Show(es[i], 0)], Word(","))
ShowBody(ps, b)  == InParens(NameList(ps)) \o ShowBlock(b) \o Word("end")
ShowField(f) ==
  CASE f.tag = "NamedKey"    -> Ident1(f.name) \o Word("=") \o Show(f.value, 0)
    [] f.tag = "ExplicitKey" -> Word("[") \o Show(f.key, 0) \o Word("]") \o Word("=") \o Show(f.value, 0)
    [] f.tag = "Positional"  -> Show(f.value, 0)

(* An expression where only operators of a level of at least level stand   *)
(* without parentheses.                                                    *)
Show(e, level) ==
  LET Base(b) == Show(b, SuffixLevel)
      Bare(l, ts) == IF l < level THEN InParens(ts) ELSE ts
      l == LevelOf(e.op)
      grouped == IF e.op \in RightGrouping THEN 1 ELSE 0
  IN  CASE e.tag = "Nil"       -> Word("nil")
        [] e.tag = "True"      -> Word("true")
        [] e.tag = "False"     -> Word("false")
        [] e.tag = "Integer"   -> Datum("Integer", e.n)
        [] e.tag = "StringLit" -> Datum("String", e.s)
        [] e.tag = "Name"      -> Ident1(e.name)
        [] e.tag = "Field"     -> Base(e.table) \o Word(".") \o Ident1(e.name)
        [] e.tag = "Index"     -> Base(e.table) \o Word("[") \o Show(e.key, 0) \o Word("]")
        [] e.tag = "Call"      -> Base(e.func) \o InParens(ShowAll(e.args))
        [] e.tag = "MethodCall" ->
             Base(e.object) \o Word(":") \o Ident1(e.method) \o InParens(ShowAll(e.args))
        [] e.tag = "TableConstructor" ->
             Word("{") \o Separated([i \in DOMAIN e.fields |-> ShowField(e.fields[i])], Word(","))
               \o Word("}")
        [] e.tag = "FuncDef"   -> Word("function") \o ShowBody(e.params, e.block)
        [] e.tag = "UnOp"      ->
             Bare(UnaryLevel, Word(UnarySigns[e.op]) \o Show(e.operand, UnaryLevel))
        [] e.tag = "BinOp"     ->
             Bare(l, Show(e.left, l + grouped) \o Word(SignOf(e.op)) \o Show(e.right, l + 1 - grouped))

ShowClauses(cs) ==
  Separated([i \in DOMAIN cs |-> Show(cs[i].condition, 0) \o Word("then") \o ShowBlock(cs[i].block)],
            Word("elseif"))

ShowLoop(head, b) == head \o Word("do") \o ShowBlock(b) \o Word("end")

ShowStmt(s) ==
  CASE s.tag = "LocalDecl"    -> Word("local") \o NameList(s.names) \o
                                   (IF s.values = << >> THEN << >> ELSE Word("=") \o ShowAll(s.values))
    [] s.tag = "AssignName"   -> Ident1(s.name) \o Word("=") \o Show(s.value, 0)
    [] s.tag = "AssignIndex"  -> Show(Index(s.table, s.key), 0) \o Word("=") \o Show(s.value, 0)
    [] s.tag = "While"        -> ShowLoop(Word("while") \o Show(s.condition, 0), s.block)
    [] s.tag = "NumericFor"   ->
         ShowLoop(Word("for") \o Ident1(s.var) \o Word("=") \o
                  ShowAll(<<s.start, s.limit>> \o (IF s.step = NoValue THEN << >> ELSE <<s.step>>)),
                  s.block)
    [] s.tag = "GenericFor"   ->
         ShowLoop(Word("for") \o NameList(s.vars) \o Word("in") \o ShowAll(s.iterators), s.block)
    [] s.tag = "LocalFunctionDecl" ->
         Word("local") \o Word("function") \o Ident1(s.name) \o ShowBody(s.params, s.block)
    [] s.tag = "FunctionDecl" ->
         Word("function") \o
         (IF s.isMethod THEN Separated([i \in DOMAIN Front(s.parts) |-> Ident1(s.parts[i])], Word("."))
                             \o Word(":") \o Ident1(Last(s.parts))
          ELSE Separated([i \in DOMAIN s.parts |-> Ident1(s.parts[i])], Word(".")))
         \o ShowBody(s.params, s.block)
    [] s.tag = "ExprStmt"     -> Show(s.expr, 0)
    [] s.tag = "Break"        -> Word("break")
    [] s.tag = "Do"           -> ShowLoop(<< >>, s.block)
    [] s.tag = "If"           ->
         Word("if") \o ShowClauses(s.clauses)
           \o (IF s.otherwise = NoBlock THEN << >> ELSE Word("else") \o ShowBlock(s.otherwise))
           \o Word("end")

(* A statement that could go on the one before it is set off by ";".       *)
ShowBlock(b) ==
  FoldLeft(LAMBDA ts, s :
             LET next == ShowStmt(s)
             IN  IF ts # << >> /\ Head(next).kind \in {"(", "{", "String"}
                   THEN ts \o Word(";") \o next ELSE ts \o next,
           << >>, b.stmts)
    \o (IF b.ret # "return" THEN << >>
        ELSE Word("return") \o (IF b.value = NoValue THEN << >> ELSE Show(b.value, 0)))

ShowProgram(b) == ShowBlock(b) \o Word("Eof")

-----------------------------------------------------------------------------
(* What of the tokens a tree has to account for: all but the punctuation   *)
(* that groups and separates, with t.k and t["k"] the same.                *)
Punctuation == {"(", ")", ";", ",", "[", "]", "."}
Skeleton(ts) ==
  [i \in DOMAIN SelectSeq(ts, LAMBDA t : t.kind \notin Punctuation) |->
     LET t == SelectSeq(ts, LAMBDA u : u.kind \notin Punctuation)[i]
     IN  <<IF t.kind = "String" THEN "Name" ELSE t.kind, t.datum>>]
=============================================================================
