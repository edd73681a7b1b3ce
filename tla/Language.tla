------------------------------ MODULE Language ------------------------------
(***************************************************************************)
(* What a program means, said on its syntax tree: names are bound to cells *)
(* of their own, a call evaluates the body of the function, an error goes  *)
(* to the pcall around it.  No slots, no operand stack, no jumps, no       *)
(* captured upvalues: the compiler and the interpreter together must do    *)
(* what this says.                                                         *)
(*                                                                         *)
(* A state has the bindings env of names to cells, the cells, the tables   *)
(* in heap, the logs, the answers tools will give, how the last statement  *)
(* ended (flow), the error if one is on its way, and the value v of the    *)
(* last expression (v2, the second value of a pcall).                      *)
(***************************************************************************)
EXTENDS Ast, Globals

CONSTANT MaxDepth     \* how deep calls may nest

Start(answers) ==
  [env |-> << >>, cells |-> << >>, heap |-> Modules, logs |-> << >>, answers |-> answers,
   depth |-> 1, flow |-> "next", fault |-> "none", error |-> Nil, v |-> Nil, v2 |-> Nil]

Known ==
  [type |-> Builtin("type"), tostring |-> Builtin("tostring"),
   string |-> TableVal(StringModule), table |-> TableVal(TableModule)]

Goes(st)     == st.fault = "none" /\ st.flow = "next"
Gives(st, v) == IF st.fault = "none" THEN [st EXCEPT !.v = v] ELSE st
Throw(st, v) == IF st.fault = "none" THEN [st EXCEPT !.fault = "raised", !.error = v] ELSE st
Throws(st)   == Throw(st, Text("type error"))

GivesResult(st, r) ==
  CASE r.error = "none"   -> Gives(st, r.value)
    [] r.error = "type"   -> Throws(st)
    [] r.error = "memory" -> IF st.fault = "none" THEN [st EXCEPT !.fault = "memory"] ELSE st
    [] OTHER              -> Throw(st, Text("runtime error"))

(* A new variable, visible until the block it is in ends. *)
Bound(st, x, v) ==
  [st EXCEPT !.cells = Append(@, v), !.env = (x :> Len(st.cells) + 1) @@ @]

InScope(st, after) == [after EXCEPT !.env = st.env]

SetIn(st, t, k, v) ==
  IF ~IsKey(k) THEN IF k = Nil THEN Throw(st, Text("runtime error")) ELSE Throws(st)
  ELSE IF ~IsKind(t, TableKind) THEN Throws(st)
  ELSE IF k = IntKey(IntMin) THEN Throw(st, Text("runtime error"))
  ELSE IF st.fault # "none" THEN st
  ELSE [st EXCEPT !.heap[t[2]] = Rawset(@, k, v).table]

FieldOf(st, t, k) ==
  IF IsKind(t, StringKind)
    THEN LET method == Get(st.heap[StringModule], k)
         IN  IF method = Nil THEN Throw(st, Text("no method")) ELSE Gives(st, method)
  ELSE IF ~IsKind(t, TableKind) THEN Throws(st)
  ELSE Gives(st, Get(st.heap[t[2]], k))

Permutations1toN(n) == {p \in [1..n -> 1..n] : \A i, j \in 1..n : i # j => p[i] # p[j]}

-----------------------------------------------------------------------------
RECURSIVE Eval(_, _), RunBlock(_, _)

(* Expressions from left to right, and their values. *)
EvalAll(es, st) ==
  FoldLeft(LAMBDA acc, e : LET r == Eval(e, acc.st)
                           IN  [st |-> r, vs |-> Append(acc.vs, r.v)],
           [st |-> st, vs |-> << >>], es)

(* The body of a function on its arguments; what it returns, or nil. *)
Enter(st, f, args) ==
  LET Param(s, i) == Bound(s, f[2].params[i], IF i \in DOMAIN args THEN args[i] ELSE Nil)
      entered == FoldLeft(Param, [st EXCEPT !.env = f[2].env, !.depth = @ + 1],
                          [i \in DOMAIN f[2].params |-> i])
      done    == RunBlock(f[2].block, entered)
  IN  IF st.fault # "none" THEN st
      ELSE [done EXCEPT !.env = st.env, !.depth = st.depth, !.flow = "next",
                        !.v = IF done.flow = "return" THEN @ ELSE Nil]

(* A sort: some arrangement of the elements in which, by what the          *)
(* comparator says of every two of them, none comes before a lesser one.   *)
SortBy(st, a, f) ==
  LET array == st.heap[a].array
      n     == Len(array)
      every == [k \in 1..n * n |-> <<((k - 1) \div n) + 1, ((k - 1) % n) + 1>>]
      pairs == SelectSeq(every, LAMBDA p : p[1] # p[2])
      Ask(acc, p) == LET r == Enter(acc.st, f, <<array[p[1]], array[p[2]]>>)
                     IN  [st |-> r, says |-> (p :> Truthy(r.v)) @@ acc.says]
      asked == FoldLeft(Ask, [st |-> st, says |-> << >>], pairs)
      order == CHOOSE p \in Permutations1toN(n) :
                 \A i, j \in 1..n : i < j => ~asked.says[<<p[j], p[i]>>]
      Put(s, i) == SetIn(s, TableVal(a), IntVal(i), array[order[i]])
  IN  IF n <= 1 THEN Gives(st, Nil)
      ELSE IF asked.st.fault # "none" THEN asked.st
      ELSE Gives(FoldLeft(Put, asked.st, [i \in 1..n |-> i]), Nil)

SortDefault(st, a) ==
  LET array  == st.heap[a].array
      sorted == SortSeq(array, Before)
      Put(s, i) == SetIn(s, TableVal(a), IntVal(i), sorted[i])
  IN  IF Len(array) <= 1 THEN Gives(st, Nil)
      ELSE IF \E i, j \in DOMAIN array : ~Comparable(array[i], array[j]) THEN Throws(st)
      ELSE Gives(FoldLeft(Put, st, [i \in DOMAIN array |-> i]), Nil)

ApplyBuiltin(st, b, args) ==
  LET t   == args[1]
      len == Length(st.heap[t[2]])
      on  == args # << >> /\ IsKind(t, TableKind)
  IN  CASE st.fault # "none" -> st
        [] b = "type" /\ args # << >> -> Gives(st, Text(TypeName(args[1])))
        [] b = "tostring" /\ args # << >> -> Gives(st, StrVal(ToLuaString(args[1])))
        [] b = "len" /\ args # << >> /\ IsKind(args[1], StringKind) ->
             Gives(st, IntVal(Len(args[1][2])))
        [] b = "insert" /\ on /\ Len(args) >= 2 ->
             Gives(SetIn(st, t, IntVal(len + 1), args[2]), Nil)
        [] b = "remove" /\ on ->
             Gives(SetIn(st, t, IntVal(len), Nil), Get(st.heap[t[2]], IntVal(len)))
        [] b = "sort" /\ ~on -> Throws(st)
        [] b = "sort" /\ Len(args) > 1 /\ args[2] # Nil ->
             IF IsKind(args[2], FunctionKind) THEN SortBy(st, t[2], args[2])
             ELSE IF len <= 1 THEN Gives(st, Nil) ELSE Throws(st)
        [] b = "sort" -> SortDefault(st, t[2])
        [] OTHER -> Throw(st, Text("bad argument"))

(* A call is refused when it would be too deep, whatever it calls; a pcall *)
(* is refused only a function.                                             *)
Apply(st, f, args) ==
  IF st.depth >= MaxDepth THEN Throw(st, Text("call depth exceeded"))
  ELSE CASE IsKind(f, BuiltinKind)  -> ApplyBuiltin(st, f[2], args)
         [] IsKind(f, FunctionKind) -> Enter(st, f, args)
         [] OTHER                   -> Throw(st, Text("attempt to call"))

(* What went wrong in a pcall is its second value, and nothing else of it  *)
(* is undone.                                                              *)
Protected(st, done) ==
  CASE st.fault # "none"     -> st
    [] done.fault # "raised" -> [done EXCEPT !.v = TrueVal, !.v2 = done.v]
    [] OTHER -> [done EXCEPT !.fault = "none", !.flow = "next", !.env = st.env,
                             !.depth = st.depth, !.v = FalseVal, !.v2 = done.error]

Refuses(st, v) == IF st.fault # "none" THEN st ELSE [st EXCEPT !.v = FalseVal, !.v2 = v]

PCallOf(st, es) ==
  LET all  == EvalAll(es, st)
      f    == IF all.vs = << >> THEN Nil ELSE all.vs[1]
      args == Tail(all.vs)
  IN  IF all.st.fault # "none" THEN all.st
      ELSE CASE IsKind(f, BuiltinKind)  -> Protected(all.st, ApplyBuiltin(all.st, f[2], args))
             [] IsKind(f, FunctionKind) ->
                  IF all.st.depth >= MaxDepth THEN Refuses(all.st, Text("call depth exceeded"))
                  ELSE Protected(all.st, Enter(all.st, f, args))
             [] OTHER -> Refuses(all.st, Text("type error"))

IsPCall(e) == e.tag = "Call" /\ e.func.tag = "Name" /\ e.func.name = "pcall"

ToolOf(st, es) ==
  LET all == EvalAll(es, st)
      a   == Head(all.st.answers)
      on  == [all.st EXCEPT !.answers = Tail(@)]
  IN  IF all.st.fault # "none" THEN all.st
      ELSE IF ~IsKind(all.vs[1], StringKind) \/ ~IsKind(all.vs[2], TableKind) THEN Throws(all.st)
      ELSE IF ~a.ok THEN Throw(on, Text("tool error"))
      ELSE Gives([on EXCEPT !.heap = Append(@, a.table)], TableVal(Len(on.heap) + 1))

EvalCall(e, st) ==
  LET one == IF e.args = << >> THEN Gives(st, Nil) ELSE Eval(e.args[1], st)
      named(xs) == e.func.tag = "Name" /\ e.func.name \in xs
      f   == Eval(e.func, st)
      all == EvalAll(e.args, f)
  IN  CASE e.func.tag = "Field" /\ e.func.table = Name("tool") -> ToolOf(st, e.args)
        [] named({"pcall"})        -> PCallOf(st, e.args)
        [] named({"error"})        -> Throw(one, one.v)
        [] named({"print", "log"}) ->
             IF one.fault # "none" THEN one
             ELSE Gives([one EXCEPT !.logs = Append(@, ToLuaString(one.v))], Nil)
        [] OTHER -> IF all.st.fault # "none" THEN all.st ELSE Apply(all.st, f.v, all.vs)

EvalMethodCall(e, st) ==
  LET object == Eval(e.object, st)
      method == IF object.fault # "none" THEN object ELSE FieldOf(object, object.v, Text(e.method))
      all    == EvalAll(e.args, method)
  IN  IF all.st.fault # "none" THEN all.st ELSE Apply(all.st, method.v, <<object.v>> \o all.vs)

EvalBinOp(e, st) ==
  LET left  == Eval(e.left, st)
      right == Eval(e.right, left)
  IN  CASE left.fault # "none" -> left
        [] e.op = "And" -> IF Truthy(left.v) THEN right ELSE left
        [] e.op = "Or"  -> IF Truthy(left.v) THEN left ELSE right
        [] right.fault # "none" -> right
        [] e.op = "Concat" -> GivesResult(right, ConcatTwo(left.v, right.v))
        [] OTHER -> GivesResult(right, BinaryResult(e.op, left.v, right.v))

EvalUnOp(e, st) ==
  LET r == Eval(e.operand, st)
  IN  CASE r.fault # "none" -> r
        [] e.op = "Not"     -> Gives(r, BoolVal(~Truthy(r.v)))
        [] e.op = "Neg"     -> GivesResult(r, Arith("Sub", IntVal(0), r.v))
        [] IsKind(r.v, StringKind) -> Gives(r, IntVal(Len(r.v[2])))
        [] IsKind(r.v, TableKind)  -> Gives(r, IntVal(Length(r.heap[r.v[2]])))
        [] OTHER            -> Throws(r)

(* { ... }: the positional values are numbered from 1. *)
EvalTable(e, st) ==
  LET t == TableVal(Len(st.heap) + 1)
      Number(i) == IntVal(Cardinality({j \in 1..i : e.fields[j].tag = "Positional"}))
      Put(s, i) ==
        LET f   == e.fields[i]
            key == CASE f.tag = "NamedKey"    -> Gives(s, Text(f.name))
                     [] f.tag = "Positional"  -> Gives(s, Number(i))
                     [] f.tag = "ExplicitKey" -> Eval(f.key, s)
            val == Eval(f.value, key)
        IN  IF val.fault # "none" THEN val ELSE SetIn(val, t, key.v, val.v)
  IN  Gives(FoldLeft(Put, [st EXCEPT !.heap = Append(@, EmptyTable)],
                     [i \in DOMAIN e.fields |-> i]), t)

FunctionVal(st, ps, b) == <<FunctionKind, [params |-> ps, block |-> b, env |-> st.env]>>

Eval(e, st) ==
  IF st.fault # "none" THEN st ELSE
  CASE e.tag = "Nil"       -> Gives(st, Nil)
    [] e.tag = "True"      -> Gives(st, TrueVal)
    [] e.tag = "False"     -> Gives(st, FalseVal)
    [] e.tag = "Integer"   -> Gives(st, IntVal(e.n))
    [] e.tag = "StringLit" -> Gives(st, StrVal(e.s))
    [] e.tag = "Name"      -> Gives(st, IF e.name \in DOMAIN st.env THEN st.cells[st.env[e.name]]
                                        ELSE Known[e.name])
    [] e.tag = "Field"     -> LET t == Eval(e.table, st)
                              IN  IF t.fault # "none" THEN t ELSE FieldOf(t, t.v, Text(e.name))
    [] e.tag = "Index"     ->
         LET t == Eval(e.table, st)
             k == Eval(e.key, t)
         IN  IF k.fault # "none" THEN k
             ELSE IF k.v = Nil THEN Throw(k, Text("runtime error"))
             ELSE IF ~IsKey(k.v) \/ ~IsKind(t.v, TableKind) THEN Throws(k)
             ELSE Gives(k, Get(k.heap[t.v[2]], k.v))
    [] e.tag = "TableConstructor" -> EvalTable(e, st)
    [] e.tag = "BinOp"      -> EvalBinOp(e, st)
    [] e.tag = "UnOp"       -> EvalUnOp(e, st)
    [] e.tag = "Call"       -> EvalCall(e, st)
    [] e.tag = "MethodCall" -> EvalMethodCall(e, st)
    [] e.tag = "FuncDef"    -> Gives(st, FunctionVal(st, e.params, e.block))

-----------------------------------------------------------------------------
(* Statements.  A body of a loop runs in a scope of its own; a break ends  *)
(* the loop around it.                                                     *)

Turn(st, b)   == RunBlock(b, st)
LoopDone(st)  == IF st.flow = "break" THEN [st EXCEPT !.flow = "next"] ELSE st

RECURSIVE Loop(_, _, _), CountLoop(_, _, _, _, _), KeyLoop(_, _, _, _, _)
Loop(st, e, b) ==
  LET test == Eval(e, st)
      turn == Turn(test, b)
  IN  IF test.fault # "none" \/ ~Truthy(test.v) THEN test
      ELSE IF Goes(turn) THEN Loop(turn, e, b) ELSE LoopDone(turn)

CountLoop(st, s, i, limit, step) ==
  LET over == IF step[2] < 0 THEN Compare("Lt", i, limit) ELSE Compare("Gt", i, limit)
      turn == InScope(st, Turn(Bound(st, s.var, i), s.block))
  IN  IF over.error # "none" THEN Throws(st)
      ELSE IF over.value = TrueVal THEN st
      ELSE IF Goes(turn) THEN CountLoop(turn, s, Arith("Add", i, step).value, limit, step)
      ELSE LoopDone(turn)

(* The keys there were at the start, with the values there are now; or the *)
(* elements from 1 while there are any.                                    *)
KeyLoop(st, s, t, keys, i) ==
  LET sorted == s.iterators[1].func.name # "ipairs"
      key    == IF sorted THEN keys[i] ELSE IntVal(i)
      value  == Get(st.heap[t], key)
      Var(n, x) == IF n \in DOMAIN s.vars THEN s.vars[n] ELSE x
      turn   == InScope(st, Turn(Bound(Bound(st, Var(1, "_"), key), Var(2, "_v"), value), s.block))
  IN  IF (sorted /\ i > Len(keys)) \/ (~sorted /\ value = Nil) THEN st
      ELSE IF Goes(turn) THEN KeyLoop(turn, s, t, keys, i + 1) ELSE LoopDone(turn)

RunFor(st, s) ==
  LET all  == EvalAll(<<s.start, s.limit, IF s.step = NoValue THEN [tag |-> "Integer", n |-> 1]
                                          ELSE s.step>>, st)
  IN  IF all.st.fault # "none" THEN all.st
      ELSE IF ~IsKind(all.vs[3], IntegerKind) THEN Throws(all.st)
      ELSE CountLoop(all.st, s, all.vs[1], all.vs[2], all.vs[3])

RunForIn(st, s) ==
  LET t == Eval(s.iterators[1].args[1], st)
  IN  IF t.fault # "none" THEN t
      ELSE IF ~IsKind(t.v, TableKind) THEN Throws(t)
      ELSE KeyLoop(t, s, t.v[2], SortedKeys(t.heap[t.v[2]]), 1)

(* local x, y = ...: a pcall alone gives two values; else a variable is    *)
(* bound before the value of the next is computed.                         *)
RunLocal(st, s) ==
  LET Fill(a, i) ==
        LET r == IF i \in DOMAIN s.values THEN Eval(s.values[i], a) ELSE Gives(a, Nil)
        IN  Bound(r, s.names[i], r.v)
      two  == Eval(s.values[1], st)
      both == Bound(Bound(two, s.names[1], two.v), s.names[2], two.v2)
      from(n) == [i \in 1..Len(s.names) - n |-> n + i]
  IN  IF Len(s.names) >= 2 /\ Len(s.values) = 1 /\ IsPCall(s.values[1])
        THEN FoldLeft(Fill, both, from(2)) ELSE FoldLeft(Fill, st, from(0))

RunAssignName(st, s) ==
  LET r == Eval(s.value, st)
  IN  IF r.fault # "none" THEN r ELSE [r EXCEPT !.cells[st.env[s.name]] = r.v]

RunAssignIndex(st, s) ==
  LET all == EvalAll(<<s.table, s.key, s.value>>, st)
  IN  IF all.st.fault # "none" THEN all.st ELSE SetIn(all.st, all.vs[1], all.vs[2], all.vs[3])

RECURSIVE RunIf(_, _, _)
RunIf(st, s, i) ==
  LET test == Eval(s.clauses[i].condition, st)
  IN  IF i > Len(s.clauses)
        THEN IF s.otherwise = NoBlock THEN st ELSE RunBlock(s.otherwise, st)
      ELSE IF test.fault # "none" THEN test
      ELSE IF Truthy(test.v) THEN RunBlock(s.clauses[i].block, test) ELSE RunIf(test, s, i + 1)

(* function x() and function a.b() assign; a name that is not known is a   *)
(* new variable.                                                           *)
RunFunctionDecl(st, s) ==
  LET f  == FunctionVal(st, (IF s.isMethod THEN <<"self">> ELSE << >>) \o s.params, s.block)
      x  == s.parts[1]
      Down(a, p) == IF a.fault # "none" THEN a ELSE FieldOf(a, a.v, Text(p))
      table == FoldLeft(Down, Eval(Name(x), st), SubSeq(s.parts, 2, Len(s.parts) - 1))
  IN  IF Len(s.parts) > 1
        THEN IF table.fault # "none" THEN table ELSE SetIn(table, table.v, Text(Last(s.parts)), f)
      ELSE IF x \in DOMAIN st.env THEN [st EXCEPT !.cells[st.env[x]] = f]
      ELSE Bound(st, x, f)

RunLocalFunction(st, s) ==
  LET bound == Bound(st, s.name, Nil)
  IN  [bound EXCEPT !.cells[bound.env[s.name]] = FunctionVal(bound, s.params, s.block)]

Run(s, st) ==
  IF ~Goes(st) THEN st ELSE
  CASE s.tag = "LocalDecl"         -> RunLocal(st, s)
    [] s.tag = "AssignName"        -> RunAssignName(st, s)
    [] s.tag = "AssignIndex"       -> RunAssignIndex(st, s)
    [] s.tag = "If"                -> RunIf(st, s, 1)
    [] s.tag = "While"             -> Loop(st, s.condition, s.block)
    [] s.tag = "NumericFor"        -> RunFor(st, s)
    [] s.tag = "GenericFor"        -> RunForIn(st, s)
    [] s.tag = "FunctionDecl"      -> RunFunctionDecl(st, s)
    [] s.tag = "LocalFunctionDecl" -> RunLocalFunction(st, s)
    [] s.tag = "ExprStmt"          -> Eval(s.expr, st)
    [] s.tag = "Break"             -> [st EXCEPT !.flow = "break"]
    [] s.tag = "Do"                -> RunBlock(s.block, st)

RunBlock(b, st) ==
  LET ran == FoldLeft(LAMBDA a, s : Run(s, a), st, b.stmts)
      ret == IF b.value = NoValue THEN Gives(ran, Nil) ELSE Eval(b.value, ran)
  IN  IF b.ret = "none" \/ ~Goes(ran) THEN InScope(st, ran)
      ELSE InScope(st, IF ret.fault = "none" THEN [ret EXCEPT !.flow = "return"] ELSE ret)

(* The whole program, with what its tools will answer. *)
Meaning(block, answers) ==
  LET done == RunBlock(block, Start(answers))
  IN  [done EXCEPT !.v = IF done.flow = "return" THEN @ ELSE Nil]
=============================================================================
