------------------------------- MODULE Parser -------------------------------
(***************************************************************************)
(* The parser (parser/mod.rs), by recursive descent over the tokens of the *)
(* lexer.  A function of the parser takes the position of the next token   *)
(* and returns a result: the position after what it read and its tree, or  *)
(* a ParseError.                                                           *)
(***************************************************************************)
EXTENDS Lexer, Ast

Got(at, tree) == [ok |-> TRUE, at |-> at, tree |-> tree]
Bad(error)    == [ok |-> FALSE, at |-> 0, tree |-> error]

(* The operator "?" *)
Then(r, F(_)) == IF r.ok THEN F(r) ELSE r

Kind(i)      == tokens[i].kind
IsName(i, x) == Kind(i) = "Name" /\ tokens[i].datum = x

(* expect, expect_ident *)
Expect(i, kind, F(_)) == IF Kind(i) = kind THEN F(i + 1) ELSE Bad("UnexpectedToken")
Ident(i, F(_, _)) == IF Kind(i) = "Name" THEN F(i + 1, tokens[i].datum) ELSE Bad("UnexpectedToken")

Disallowed ==
  {"debug", "io", "os", "package", "require", "load", "dofile", "loadfile", "loadstring",
   "collectgarbage", "setmetatable", "getmetatable", "rawget", "rawset", "setfenv", "getfenv",
   "coroutine"}

AtBlockEnd(i) == Kind(i) \in {"end", "else", "elseif", "return", "Eof"}

-----------------------------------------------------------------------------
(* peek_binop: the operators with their precedence and associativity.      *)
Binary(op, prec, right) == [op |-> op, prec |-> prec, right |-> right]
BinaryOps ==
  ("or" :> Binary("Or", 1, FALSE)) @@ ("and" :> Binary("And", 2, FALSE)) @@
  ("<"  :> Binary("Lt", 3, FALSE)) @@ ("<="  :> Binary("Le", 3, FALSE)) @@
  (">"  :> Binary("Gt", 3, FALSE)) @@ (">="  :> Binary("Ge", 3, FALSE)) @@
  ("==" :> Binary("Eq", 3, FALSE)) @@ ("~="  :> Binary("Ne", 3, FALSE)) @@
  (".." :> Binary("Concat", 4, TRUE)) @@
  ("+"  :> Binary("Add", 5, FALSE)) @@ ("-"   :> Binary("Sub", 5, FALSE)) @@
  ("*"  :> Binary("Mul", 6, FALSE)) @@ ("//"  :> Binary("IDiv", 6, FALSE)) @@
  ("%"  :> Binary("Mod", 6, FALSE))

UnaryOps == ("not" :> "Not") @@ ("-" :> "Neg") @@ ("#" :> "Len")

(* Mutant: every operator groups to the left. *)
OperandLevelLeft(o) == o.prec + 1

(* The least precedence in the right operand. *)
OperandLevel(o) == IF o.right THEN o.prec ELSE o.prec + 1

(* expr_to_assign_target *)
AssignTarget(e, value) ==
  CASE e.tag = "Field" -> Got(0, AssignIndex(e.table, Str(e.name), value))
    [] e.tag = "Index" -> Got(0, AssignIndex(e.table, e.key, value))
    [] e.tag = "Name"  -> Got(0, AssignName(e.name, value))
    [] OTHER           -> Bad("UnexpectedToken")

-----------------------------------------------------------------------------
RECURSIVE ParseBinop(_, _), Climb(_, _, _), ParseUnop(_), Suffixed(_, _), Atom(_),
          ParseExprs(_, _), ParseNames(_, _), CallArgs(_), Fields(_, _), FuncBody(_),
          ParseBlock(_, _), Clauses(_, _)

ParseExpr(i) == ParseBinop(i, 0)

(* parse_binop: operators that bind at least as tight as level.            *)
ParseBinop(i, level) == Then(ParseUnop(i), LAMBDA r : Climb(r.at, r.tree, level))

Climb(i, left, level) ==
  IF Kind(i) \notin DOMAIN BinaryOps THEN Got(i, left)
  ELSE LET o == BinaryOps[Kind(i)]
       IN  IF o.prec < level THEN Got(i, left)
           ELSE Then(ParseBinop(i + 1, OperandLevel(o)),
                     LAMBDA r : Climb(r.at, BinOp(o.op, left, r.tree), level))

ParseUnop(i) ==
  IF Kind(i) \in DOMAIN UnaryOps
    THEN Then(ParseUnop(i + 1), LAMBDA r : Got(r.at, UnOp(UnaryOps[Kind(i)], r.tree)))
    ELSE Then(Atom(i), LAMBDA r : Suffixed(r.at, r.tree))

(* The loop of parse_suffixed_expr. *)
Suffixed(i, e) ==
  CASE Kind(i) = "." -> Ident(i + 1, LAMBDA j, x : Suffixed(j, Field(e, x)))
    [] Kind(i) = "[" ->
         Then(ParseExpr(i + 1), LAMBDA k :
           Expect(k.at, "]", LAMBDA j : Suffixed(j, Index(e, k.tree))))
    [] Kind(i) = ":" ->
         Ident(i + 1, LAMBDA j, m :
           Then(CallArgs(j), LAMBDA r : Suffixed(r.at, MethodCall(e, m, r.tree))))
    [] Kind(i) \in {"(", "String", "{"} ->
         Then(CallArgs(i), LAMBDA r : Suffixed(r.at, Call(e, r.tree)))
    [] OTHER -> Got(i, e)

(* parse_tool_or_error, after "tool". *)
Tool(i) ==
  IF Kind(i) = "." /\ IsName(i + 1, "call")
    THEN LET e == Field(Name("tool"), "call")
         IN  IF Kind(i + 2) = "(" THEN Then(CallArgs(i + 2), LAMBDA r : Got(r.at, Call(e, r.tree)))
             ELSE Got(i + 2, e)
    ELSE Bad("ToolAsValue")

(* parse_primary_atom *)
Atom(i) ==
  CASE Kind(i) = "nil"      -> Got(i + 1, NilExpr)
    [] Kind(i) = "true"     -> Got(i + 1, TrueExpr)
    [] Kind(i) = "false"    -> Got(i + 1, FalseExpr)
    [] Kind(i) = "Integer"  -> Got(i + 1, IntLit(tokens[i].datum))
    [] Kind(i) = "String"   -> Got(i + 1, Str(tokens[i].datum))
    [] Kind(i) = "..."      -> Bad("VariadicNotAllowed")
    [] Kind(i) = "Name"     -> IF tokens[i].datum = "tool" THEN Tool(i + 1)
                               ELSE IF tokens[i].datum \in Disallowed THEN Bad("DisallowedIdent")
                               ELSE Got(i + 1, Name(tokens[i].datum))
    [] Kind(i) = "("        -> Then(ParseExpr(i + 1), LAMBDA r :
                                 Expect(r.at, ")", LAMBDA j : Got(j, r.tree)))
    [] Kind(i) = "function" -> Then(FuncBody(i + 1), LAMBDA r :
                                 Got(r.at, FuncDef(r.tree.params, r.tree.block)))
    [] Kind(i) = "{"        -> Fields(i + 1, << >>)
    [] OTHER                -> Bad("ExpectedExpr")

(* parse_call_args *)
CallArgs(i) ==
  CASE Kind(i) = "(" ->
         IF Kind(i + 1) = ")" THEN Got(i + 2, << >>)
         ELSE Then(ParseExprs(i + 1, << >>), LAMBDA r :
                Expect(r.at, ")", LAMBDA j : Got(j, r.tree)))
    [] Kind(i) \in {"String", "{"} -> Then(Atom(i), LAMBDA r : Got(r.at, <<r.tree>>))
    [] OTHER -> Bad("UnexpectedToken")

(* Expressions, and names, separated by commas: one at least.              *)
ParseExprs(i, before) ==
  Then(ParseExpr(i), LAMBDA r :
    IF Kind(r.at) = "," THEN ParseExprs(r.at + 1, Append(before, r.tree))
    ELSE Got(r.at, Append(before, r.tree)))

ParseNames(i, before) ==
  Ident(i, LAMBDA j, x :
    IF Kind(j) = "," THEN ParseNames(j + 1, Append(before, x)) ELSE Got(j, Append(before, x)))

(* parse_table_constructor and parse_table_field, after the bracket.       *)
FieldAt(i) ==
  IF Kind(i) = "["
    THEN Then(ParseExpr(i + 1), LAMBDA k :
           Expect(k.at, "]", LAMBDA j : Expect(j, "=", LAMBDA e :
             Then(ParseExpr(e), LAMBDA v : Got(v.at, ExplicitKey(k.tree, v.tree))))))
  ELSE IF Kind(i) = "Name" /\ Kind(i + 1) = "="
    THEN Then(ParseExpr(i + 2), LAMBDA v : Got(v.at, NamedKey(tokens[i].datum, v.tree)))
  ELSE Then(ParseExpr(i), LAMBDA v : Got(v.at, Positional(v.tree)))

Fields(i, before) ==
  IF Kind(i) = "}" THEN Got(i + 1, TableOf(before))
  ELSE Then(FieldAt(i), LAMBDA f :
         IF Kind(f.at) \in {",", ";"} THEN Fields(f.at + 1, Append(before, f.tree))
         ELSE Expect(f.at, "}", LAMBDA j : Got(j, TableOf(Append(before, f.tree)))))

-----------------------------------------------------------------------------
(* The loop of parse_block. *)
ParseReturn(i, stmts) ==
  LET After(j) == IF Kind(j) = ";" THEN j + 1 ELSE j
  IN  IF AtBlockEnd(i) \/ Kind(i) = ";" THEN Got(After(i), Returning(stmts, NoValue))
      ELSE Then(ParseExpr(i), LAMBDA r : Got(After(r.at), Returning(stmts, r.tree)))

(* A block up to "end". *)
Body(i, Tree(_)) ==
  Then(ParseBlock(i, << >>), LAMBDA b : Expect(b.at, "end", LAMBDA j : Got(j, Tree(b.tree))))

(* "do", a block and "end". *)
Loop(i, Tree(_)) == Expect(i, "do", LAMBDA j : Body(j, Tree))

(* parse_func_body: a comma may follow the last parameter. *)
RECURSIVE Params(_, _)
Params(i, before) ==
  IF Kind(i) = "..." THEN Bad("VariadicNotAllowed")
  ELSE Ident(i, LAMBDA j, x :
         IF Kind(j) = "," THEN Params(j + 1, Append(before, x)) ELSE Got(j, Append(before, x)))

FuncBody(i) ==
  Expect(i, "(", LAMBDA p :
    Then(IF Kind(p) = ")" THEN Got(p, << >>) ELSE Params(p, << >>), LAMBDA ps :
      Expect(ps.at, ")", LAMBDA j :
        Body(j, LAMBDA b : [params |-> ps.tree, block |-> b]))))

ParseLocal(i) ==
  IF Kind(i) = "function"
    THEN Ident(i + 1, LAMBDA j, x : Then(FuncBody(j), LAMBDA f :
           Got(f.at, LocalFunction(x, f.tree.params, f.tree.block))))
    ELSE Then(ParseNames(i, << >>), LAMBDA xs :
           IF Kind(xs.at) = "="
             THEN Then(ParseExprs(xs.at + 1, << >>), LAMBDA es : Got(es.at, LocalDecl(xs.tree, es.tree)))
             ELSE Got(xs.at, LocalDecl(xs.tree, << >>)))

(* parse_if: the clauses, after "if" or "elseif". *)
Clauses(i, before) ==
  Then(ParseExpr(i), LAMBDA c : Expect(c.at, "then", LAMBDA t :
    Then(ParseBlock(t, << >>), LAMBDA b :
      LET all == Append(before, Clause(c.tree, b.tree))
      IN  CASE Kind(b.at) = "elseif" -> Clauses(b.at + 1, all)
            [] Kind(b.at) = "else"   -> Body(b.at + 1, LAMBDA e : If(all, e))
            [] OTHER -> Expect(b.at, "end", LAMBDA j : Got(j, If(all, NoBlock))))))

(* parse_for *)
NumericStep(i) == IF Kind(i) = "," THEN ParseExpr(i + 1) ELSE Got(i, NoValue)

ParseNumeric(i, x) ==
  Then(ParseExpr(i), LAMBDA s : Expect(s.at, ",", LAMBDA k :
    Then(ParseExpr(k), LAMBDA l : Then(NumericStep(l.at), LAMBDA p :
      Loop(p.at, LAMBDA b : NumericFor(x, s.tree, l.tree, p.tree, b))))))

ParseGeneric(i) ==
  Then(ParseNames(i, << >>), LAMBDA xs : Expect(xs.at, "in", LAMBDA k :
    Then(ParseExprs(k, << >>), LAMBDA es :
      Loop(es.at, LAMBDA b : GenericFor(xs.tree, es.tree, b)))))

ParseFor(i) ==
  IF Kind(i) = "Name" /\ Kind(i + 1) = "=" THEN ParseNumeric(i + 2, tokens[i].datum)
  ELSE ParseGeneric(i)

(* parse_function_decl *)
RECURSIVE FuncName(_, _)
FuncName(i, parts) ==
  CASE Kind(i) = "." -> Ident(i + 1, LAMBDA j, x : FuncName(j, Append(parts, x)))
    [] Kind(i) = ":" -> Ident(i + 1, LAMBDA j, m : Got(j, [parts |-> Append(parts, m), method |-> TRUE]))
    [] OTHER         -> Got(i, [parts |-> parts, method |-> FALSE])

ParseFunctionDecl(i) ==
  Ident(i, LAMBDA j, x : Then(FuncName(j, <<x>>), LAMBDA n :
    Then(FuncBody(n.at), LAMBDA f :
      Got(f.at, FunctionDecl(n.tree.parts, n.tree.method, f.tree.params, f.tree.block)))))

(* parse_expr_or_assign *)
ParseExprOrAssign(i) ==
  Then(Then(Atom(i), LAMBDA a : Suffixed(a.at, a.tree)), LAMBDA e :
    CASE Kind(e.at) = "," -> Bad("MultiAssignNotSupported")
      [] Kind(e.at) = "=" ->
           Then(ParseExpr(e.at + 1), LAMBDA v :
             Then(AssignTarget(e.tree, v.tree), LAMBDA s : Got(v.at, s.tree)))
      [] OTHER -> IF e.tree.tag \in {"Call", "MethodCall"} THEN Got(e.at, ExprStmt(e.tree))
                  ELSE Bad("UnexpectedToken"))

(* parse_stat *)
ParseStat(i) ==
  CASE Kind(i) = "local"    -> ParseLocal(i + 1)
    [] Kind(i) = "if"       -> Clauses(i + 1, << >>)
    [] Kind(i) = "while"    -> Then(ParseExpr(i + 1), LAMBDA c : Loop(c.at, LAMBDA b : While(c.tree, b)))
    [] Kind(i) = "for"      -> ParseFor(i + 1)
    [] Kind(i) = "function" -> ParseFunctionDecl(i + 1)
    [] Kind(i) = "do"       -> Body(i + 1, LAMBDA b : Do(b))
    [] Kind(i) = "break"    -> Got(i + 1, Break)
    [] OTHER                -> ParseExprOrAssign(i)

ParseBlock(i, stmts) ==
  CASE Kind(i) = ";"      -> ParseBlock(i + 1, stmts)
    [] Kind(i) = "return" -> ParseReturn(i + 1, stmts)
    [] AtBlockEnd(i) /\ Kind(i) # "return" -> Got(i, Block(stmts))
    [] OTHER -> Then(ParseStat(i), LAMBDA s : ParseBlock(s.at, Append(stmts, s.tree)))

(* Mutant: what follows the block is dropped. *)
ExpectEofNever(r) == r

ExpectEof(r) == Then(r, LAMBDA b : IF Kind(b.at) = "Eof" THEN b ELSE Bad("UnexpectedToken"))

(* parse, once there are tokens. *)
ParseTokens == ExpectEof(ParseBlock(1, << >>))
=============================================================================
