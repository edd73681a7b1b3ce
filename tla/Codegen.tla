------------------------------ MODULE Codegen ------------------------------
(***************************************************************************)
(* The compiler from the syntax tree to bytecode (compiler/codegen.rs).    *)
(* An operator takes the state of the compiler and gives it back with what *)
(* it emitted; after the first error its output is of no use.  Line        *)
(* numbers are left out.                                                   *)
(*                                                                         *)
(* Slots, constants and prototypes count from 0 as in the code, positions  *)
(* in a code from 1 as in Bytecode.                                        *)
(***************************************************************************)
EXTENDS Ast, Bytecode, LuaValues

CONSTANTS
  MaxLocals,       \* the slots a function may declare
  MaxPool          \* the constants of a function, the prototypes of a program

(* FunctionScope *)
NewScope(params) ==
  [code |-> << >>, constants |-> << >>, paramCount |-> params, blocks |-> << << >> >>,
   upvalues |-> << >>, nextSlot |-> params, maxLocals |-> params, breaks |-> << >>]

Top(c)      == Last(c.scopes)
Fail(c, e)  == IF c.error = "none" THEN [c EXCEPT !.error = e] ELSE c
Update(c, s) == [c EXCEPT !.scopes[Len(c.scopes)] = s]

EnterFunction(c, params) == [c EXCEPT !.scopes = Append(@, NewScope(params))]

(* exit_function: the prototype of the innermost scope, which is left.     *)
Prototype(s) ==
  [code |-> s.code, constants |-> s.constants, paramCount |-> s.paramCount,
   localCount |-> s.maxLocals, upvalues |-> [i \in DOMAIN s.upvalues |-> s.upvalues[i].desc]]
ExitFunction(c) == [c EXCEPT !.scopes = Front(@)]

EnterBlock(c) == Update(c, [Top(c) EXCEPT !.blocks = Append(@, << >>)])

ExitBlock(c) ==
  LET s == Top(c)
  IN  Update(c, [s EXCEPT !.blocks = Front(@), !.nextSlot = @ - Len(Last(s.blocks))])

(* Mutant: the mark is where the new slot is, not past it. *)
TakeSlotMarked(s) ==
  [s EXCEPT !.nextSlot = @ + 1, !.maxLocals = IF s.nextSlot > @ THEN s.nextSlot ELSE @]

(* A new slot, with the high-water mark: declare_local and alloc_temp_slot. *)
TakeSlot(s) ==
  [s EXCEPT !.nextSlot = @ + 1, !.maxLocals = IF s.nextSlot + 1 > @ THEN s.nextSlot + 1 ELSE @]

Bind(s, name, slot) ==
  [s EXCEPT !.blocks[Len(s.blocks)] = Append(@, [name |-> name, slot |-> slot])]

DeclareLocal(c, name) ==
  IF Top(c).nextSlot >= MaxLocals THEN Fail(c, "TooManyLocals")
  ELSE Update(c, Bind(TakeSlot(Top(c)), name, Top(c).nextSlot))

(* The slot of the local declared last. *)
Declared(c) == Top(c).nextSlot - 1

AllocTempSlot(c) == Update(c, TakeSlot(Top(c)))
FreeTempSlot(c)  == Update(c, [Top(c) EXCEPT !.nextSlot = @ - 1])

PushBreakScope(c, pops) ==
  Update(c, [Top(c) EXCEPT !.breaks = Append(@, [pops |-> pops, at |-> << >>])])

-----------------------------------------------------------------------------
(* Variable resolution.                                                    *)

Ref(kind, n) == [kind |-> kind, n |-> n]

(* The innermost local of that name, else an upvalue already captured. *)
Visible(s, name) ==
  LET locals   == FlattenSeq(s.blocks)
      matching == {i \in DOMAIN locals : locals[i].name = name}
      captured == {i \in DOMAIN s.upvalues : s.upvalues[i].name = name}
  IN  IF matching # {} THEN Ref("Local", locals[CHOOSE i \in matching :
                                                 \A j \in matching : j <= i].slot)
      ELSE IF captured # {} THEN Ref("Upvalue", (CHOOSE i \in captured :
                                                   \A j \in captured : i <= j) - 1)
      ELSE Ref("Global", 0)

(* find_upvalue_in_enclosing: every function between the one that uses a   *)
(* name and the one that declares it captures it.                          *)
RECURSIVE Capture(_, _, _)
Capture(c, name, d) ==
  IF d = 1 \/ Visible(c.scopes[d], name).kind # "Global" THEN c
  ELSE LET outer == Capture(c, name, d - 1)
           found == Visible(outer.scopes[d - 1], name)
       IN  IF found.kind = "Global" THEN c
           ELSE [outer EXCEPT !.scopes[d].upvalues =
                   Append(@, [name |-> name, desc |-> found])]

(* resolve_var, and what the name then means in the current function.      *)
Resolve(c, name)  == Capture(c, name, Len(c.scopes))
Meant(c, name)    == Visible(Top(c), name)

-----------------------------------------------------------------------------
(* Emission.                                                               *)

Emit(c, i)       == Update(c, [Top(c) EXCEPT !.code = Append(@, i)])
EmitOp(c, op)    == Emit(c, Bare(op))
EmitN(c, op, n)  == Emit(c, Instruction(op, n))
HereAt(c)        == Len(Top(c).code)
EndOf(c)         == HereAt(c) + 1

AsI16(n) == ((n + 32768) % 65536) - 32768

PatchTo(c, at, target) ==
  Update(c, [Top(c) EXCEPT !.code[at].n = AsI16(target - at - 1)])
Patch(c, at)      == PatchTo(c, at, EndOf(c))
PatchAll(c, ats, target) == FoldLeft(LAMBDA d, at : PatchTo(d, at, target), c, ats)
JumpBack(c, to)   == EmitN(c, "Jmp", AsI16(to - EndOf(c) - 1))

(* The loop ends here: so do the breaks in it (pop_break_scope).           *)
EndLoop(c) ==
  LET d == PatchAll(c, Last(Top(c).breaks).at, EndOf(c))
  IN  Update(d, [Top(d) EXCEPT !.breaks = Front(@)])

(* add_constant: a constant is in the pool once. *)
AddConstant(c, k) ==
  IF \E i \in DOMAIN Top(c).constants : Top(c).constants[i] = k THEN c
  ELSE IF Len(Top(c).constants) >= MaxPool THEN Fail(c, "TooManyConstants")
  ELSE Update(c, [Top(c) EXCEPT !.constants = Append(@, k)])

ConstIndex(c, k) ==
  (CHOOSE i \in DOMAIN Top(c).constants : Top(c).constants[i] = k) - 1

WithConstant(c, op, k) ==
  LET d == AddConstant(c, k)
  IN  IF d.error # "none" THEN d ELSE EmitN(d, op, ConstIndex(d, k))

(* A constant added to the pool now and used after what compiles next.     *)
LateConstant(c, op, k) == IF c.error # "none" THEN c ELSE EmitN(c, op, ConstIndex(c, k))

Literals == [Nil |-> "PushNil", True |-> "PushTrue", False |-> "PushFalse"]
LoadOps  == [Local |-> "LoadLocal", Upvalue |-> "LoadUp"]
StoreOps == [Local |-> "StoreLocal", Upvalue |-> "StoreUp"]

LoadRef(c, ref) ==
  IF ref.kind = "Global" THEN Fail(c, "UnknownGlobal") ELSE EmitN(c, LoadOps[ref.kind], ref.n)
StoreRef(c, ref) ==
  IF ref.kind = "Global" THEN Fail(c, "UnknownGlobal") ELSE EmitN(c, StoreOps[ref.kind], ref.n)

StoreNew(c, name) ==
  LET d == DeclareLocal(c, name) IN EmitN(d, "StoreLocal", Declared(d))

-----------------------------------------------------------------------------
(* What the compiler recognizes by its syntax.                             *)

IsName(e, x)    == e.tag = "Name" /\ e.name = x
IsCallOf(e, xs) == e.tag = "Call" /\ e.func.tag = "Name" /\ e.func.name \in xs
IsToolCall(e)   == e.func.tag = "Field" /\ IsName(e.func.table, "tool") /\ e.func.name = "call"

SortedIterators == {"pairs_sorted", "pairs"}
Iterators       == SortedIterators \cup {"ipairs"}

(* compile_name: the globals that are sentinel strings of the interpreter. *)
Sentinels ==
  [string |-> "__string", math |-> "__math", table |-> "__table", json |-> "__json",
   decimal |-> "__decimal", tostring |-> "__tostring", tonumber |-> "__tonumber",
   type |-> "__type", select |-> "__select", unpack |-> "__unpack"]

CompileName(c, name) ==
  LET d == Resolve(c, name)
  IN  IF name \in Iterators \cup {"tool"} THEN Fail(c, "ToolAsValue")
      ELSE IF Meant(d, name).kind # "Global" THEN LoadRef(d, Meant(d, name))
      ELSE IF name \in DOMAIN Sentinels THEN WithConstant(d, "PushK", Text(Sentinels[name]))
      ELSE Fail(d, "UnknownGlobal")

RECURSIVE ConcatArgs(_)
ConcatArgs(e) ==
  IF e.tag = "BinOp" /\ e.op = "Concat" THEN ConcatArgs(e.left) \o ConcatArgs(e.right) ELSE <<e>>

-----------------------------------------------------------------------------
RECURSIVE CompileExpr(_, _), CompileBlock(_, _), CompileBody(_, _, _)

CompileAll(c, es) == FoldLeft(LAMBDA d, e : CompileExpr(d, e), c, es)

(* compile_table_constructor: positional values get the keys 1, 2, ...     *)
CompileField(c, fields, i) ==
  LET f        == fields[i]
      position == Cardinality({j \in 1..i : fields[j].tag = "Positional"})
      dup      == EmitOp(c, "Dup")
  IN  CASE f.tag = "NamedKey" ->
             LateConstant(CompileExpr(AddConstant(dup, Text(f.name)), f.value),
                          "SetField", Text(f.name))
        [] f.tag = "ExplicitKey" ->
             EmitOp(CompileExpr(CompileExpr(dup, f.key), f.value), "SetTable")
        [] f.tag = "Positional" ->
             EmitOp(CompileExpr(WithConstant(dup, "PushK", IntVal(position)), f.value), "SetTable")

CompileTable(c, fields) ==
  FoldLeft(LAMBDA d, i : CompileField(d, fields, i), EmitOp(c, "NewTable"),
           [i \in DOMAIN fields |-> i])

(* Mutant: the value on the left stays under that on the right. *)
CompileShortCircuitKeeping(c, b) ==
  LET left == EmitN(CompileExpr(c, b.left), b.op, 0)
  IN  Patch(CompileExpr(left, b.right), HereAt(left))

CompileShortCircuit(c, b) ==
  LET left == EmitN(CompileExpr(c, b.left), b.op, 0)
  IN  Patch(CompileExpr(EmitOp(left, "Pop"), b.right), HereAt(left))

(* compile_binop and compile_concat_expr *)
CompileBinop(c, b) ==
  CASE b.op \in ShortCircuits -> CompileShortCircuit(c, b)
    [] b.op = "Concat" ->
         EmitN(CompileAll(c, ConcatArgs(b)), "Concat", Len(ConcatArgs(b)) % 256)
    [] OTHER -> EmitOp(CompileExpr(CompileExpr(c, b.left), b.right), b.op)

(* compile_pcall_two_values *)
CompilePCall(c, e) ==
  IF e.args = << >> THEN EmitN(EmitOp(c, "PushNil"), "PCall", 0)
  ELSE EmitN(CompileAll(c, e.args), "PCall", (Len(e.args) - 1) % 256)

FirstOrNil(c, args) == IF args = << >> THEN EmitOp(c, "PushNil") ELSE CompileExpr(c, args[1])

CompileCall(c, e) ==
  CASE IsToolCall(e) ->
         IF Len(e.args) # 2 THEN Fail(c, "ToolAsValue")
         ELSE EmitOp(CompileAll(c, e.args), "ToolCall")
    [] IsCallOf(e, {"tool"})  -> Fail(c, "ToolAsValue")
    [] IsCallOf(e, {"pcall"}) -> EmitOp(CompilePCall(c, e), "Pop")
    [] IsCallOf(e, {"error"}) -> EmitOp(FirstOrNil(c, e.args), "Error")
    [] IsCallOf(e, {"print", "log"}) ->
         EmitOp(EmitOp(FirstOrNil(c, e.args), "Log"), "PushNil")
    [] OTHER -> EmitN(CompileAll(CompileExpr(c, e.func), e.args), "Call", Len(e.args) % 256)

(* compile_method_call: the object waits in a temporary slot. *)
CompileMethodCall(c, e) ==
  LET temp   == AllocTempSlot(CompileExpr(c, e.object))
      saved  == EmitN(EmitOp(temp, "Dup"), "StoreLocal", Declared(temp))
      method == WithConstant(saved, "GetField", Text(e.method))
      self   == FreeTempSlot(EmitN(method, "LoadLocal", Declared(temp)))
  IN  EmitN(CompileAll(self, e.args), "Call", (1 + Len(e.args)) % 256)

(* Closure over a function compiled now: its prototype is the last one.    *)
EmitClosure(c, params, block) ==
  LET d == CompileBody(c, params, block) IN EmitN(d, "Closure", Len(d.prototypes) - 1)

CompileExpr(c, e) ==
  IF c.error # "none" THEN c ELSE
  CASE e.tag \in DOMAIN Literals -> EmitOp(c, Literals[e.tag])
    [] e.tag = "Integer"          -> WithConstant(c, "PushK", IntVal(e.n))
    [] e.tag = "StringLit"        -> WithConstant(c, "PushK", StrVal(e.s))
    [] e.tag = "Vararg"           -> Fail(c, "VariadicNotAllowed")
    [] e.tag = "Name"             -> CompileName(c, e.name)
    [] e.tag = "Field"            ->
         IF IsName(e.table, "tool") /\ e.name = "call" THEN Fail(c, "ToolAsValue")
         ELSE WithConstant(CompileExpr(c, e.table), "GetField", Text(e.name))
    [] e.tag = "Index"            -> EmitOp(CompileExpr(CompileExpr(c, e.table), e.key), "GetTable")
    [] e.tag = "TableConstructor" -> CompileTable(c, e.fields)
    [] e.tag = "BinOp"            -> CompileBinop(c, e)
    [] e.tag = "UnOp"             -> EmitOp(CompileExpr(c, e.operand), e.op)
    [] e.tag = "Call"             -> CompileCall(c, e)
    [] e.tag = "MethodCall"       -> CompileMethodCall(c, e)
    [] e.tag = "FuncDef"          -> EmitClosure(c, e.params, e.block)

-----------------------------------------------------------------------------
(* Statements.                                                             *)

(* compile_local_decl: a pcall alone gives the first two names its two     *)
(* values; else a name is declared before the value of the next compiles.  *)
CompileLocalDecl(c, s) ==
  LET Fill(d, i) ==
        StoreNew(IF i \in DOMAIN s.values THEN CompileExpr(d, s.values[i])
                 ELSE EmitOp(d, "PushNil"), s.names[i])
      Names(from) == [i \in 1..Len(s.names) - from + 1 |-> from + i - 1]
      first   == DeclareLocal(CompilePCall(c, s.values[1]), s.names[1])
      second  == DeclareLocal(first, s.names[2])
      both    == EmitN(EmitN(second, "StoreLocal", Declared(second)),
                       "StoreLocal", Declared(first))
  IN  IF Len(s.names) >= 2 /\ Len(s.values) = 1 /\ IsCallOf(s.values[1], {"pcall"})
        THEN FoldLeft(Fill, both, Names(3))
        ELSE FoldLeft(Fill, c, Names(1))

(* compile_assign: the variable is resolved before its value compiles.     *)
CompileAssignName(c, s) ==
  LET d == Resolve(c, s.name) IN StoreRef(CompileExpr(d, s.value), Meant(d, s.name))

CompileAssignIndex(c, s) ==
  LET table == CompileExpr(c, s.table)
      key   == StrVal(s.key.s)
  IN  IF s.key.tag = "StringLit"
        THEN LateConstant(CompileExpr(AddConstant(table, key), s.value), "SetField", key)
        ELSE EmitOp(CompileExpr(CompileExpr(table, s.key), s.value), "SetTable")

(* compile_if: each clause but the last of an if without else jumps to the *)
(* end, an elseif clause always.                                           *)
CompileIf(c, s) ==
  LET Compile(st, i) ==
        LET test   == EmitN(CompileExpr(st.c, s.clauses[i].condition), "JmpIfNot", 0)
            body   == CompileBlock(test, s.clauses[i].block)
            leaves == i > 1 \/ Len(s.clauses) > 1 \/ s.otherwise # NoBlock
            done   == IF leaves THEN EmitN(body, "Jmp", 0) ELSE body
        IN  [c    |-> Patch(done, HereAt(test)),
             ends |-> IF leaves THEN Append(st.ends, HereAt(done)) ELSE st.ends]
      all == FoldLeft(Compile, [c |-> c, ends |-> << >>], [i \in DOMAIN s.clauses |-> i])
      out == IF s.otherwise = NoBlock THEN all.c ELSE CompileBlock(all.c, s.otherwise)
  IN  PatchAll(out, all.ends, EndOf(out))

CompileWhile(c, s) ==
  LET test == EmitN(CompileExpr(PushBreakScope(c, 0), s.condition), "JmpIfNot", 0)
      back == JumpBack(CompileBlock(test, s.block), EndOf(c))
  IN  EndLoop(Patch(back, HereAt(test)))

(* Mutant: the counter is compared with the limit one way only. *)
EmitForTestUp(c, i, lim, step) ==
  LET Test(d, op, jump) ==
        EmitN(EmitOp(EmitN(EmitN(d, "LoadLocal", i), "LoadLocal", lim), op), jump, 0)
      up == Test(c, "Gt", "JmpIf")
  IN  [c |-> up, exits |-> <<HereAt(up)>>]

(* The test at the top of a numeric for: the sign of the step says which   *)
(* way the counter is compared with the limit.                             *)
EmitForTest(c, i, lim, step) ==
  LET Test(d, op, jump) ==
        EmitN(EmitOp(EmitN(EmitN(d, "LoadLocal", i), "LoadLocal", lim), op), jump, 0)
      sign == EmitN(EmitOp(WithConstant(EmitN(c, "LoadLocal", step), "PushK", IntVal(0)), "Lt"),
                    "JmpIfNot", 0)
      down == Test(sign, "Lt", "JmpIf")
      skip == EmitN(down, "Jmp", 0)
      up   == Test(Patch(skip, HereAt(sign)), "Gt", "JmpIf")
  IN  [c |-> Patch(up, HereAt(skip)), exits |-> <<HereAt(down), HereAt(up)>>]

CompileNumericFor(c, s) ==
  LET start == StoreNew(CompileExpr(EnterBlock(c), s.start), "(for_i)")
      limit == StoreNew(CompileExpr(start, s.limit), "(for_lim)")
      step  == StoreNew(IF s.step = NoValue THEN WithConstant(limit, "PushK", IntVal(1))
                        ELSE CompileExpr(limit, s.step), "(for_step)")
      var   == DeclareLocal(step, s.var)
      i     == Declared(start)
      test  == EmitForTest(PushBreakScope(var, 0), i, Declared(limit), Declared(step))
      copy  == EmitN(EmitN(test.c, "LoadLocal", i), "StoreLocal", Declared(var))
      body  == CompileBlock(copy, s.block)
      added == EmitOp(EmitN(EmitN(body, "LoadLocal", i), "LoadLocal", Declared(step)), "Add")
      back  == JumpBack(EmitN(added, "StoreLocal", i), EndOf(var))
  IN  ExitBlock(EndLoop(PatchAll(back, test.exits, EndOf(back))))

(* Mutant: a break out of a generic for leaves the iterator on the stack. *)
HandlePopsNone == 0

(* The iterator handle a break must pop. *)
HandlePops == 1

CompileGenericFor(c, s) ==
  LET iter  == s.iterators[1]
      table == PushBreakScope(CompileExpr(c, iter.args[1]), HandlePops)
      init  == EmitN(table, IF iter.func.name \in SortedIterators THEN "IterInitSorted"
                            ELSE "IterInitArray", 0)
      next  == EmitN(init, "IterNext", 0)
      Var(n, hidden) == IF n \in DOMAIN s.vars THEN s.vars[n] ELSE hidden
      key   == DeclareLocal(EnterBlock(next), Var(1, "_"))
      val   == DeclareLocal(key, Var(2, "_v"))
      bound == EmitN(EmitN(val, "StoreLocal", Declared(val)), "StoreLocal", Declared(key))
      back  == JumpBack(ExitBlock(CompileBlock(bound, s.block)), HereAt(next))
  IN  IF Len(s.iterators) # 1 \/ ~IsCallOf(iter, Iterators) \/ iter.args = << >>
        THEN Fail(c, "GenericForNotIterator")
      ELSE EndLoop(PatchAll(back, <<HereAt(next), HereAt(init)>>, EndOf(back)))

(* store_func_name: a name that is not known becomes a local; a dotted one *)
(* is a field of a table, which is loaded before the closure is put aside  *)
(* and once more after it.                                                 *)
StoreFuncName(c, parts) ==
  LET d    == Resolve(c, parts[1])
      ref  == Meant(d, parts[1])
      Fields(e) == FoldLeft(LAMBDA f, x : WithConstant(f, "GetField", Text(x)),
                            LoadRef(e, ref), SubSeq(parts, 2, Len(parts) - 1))
      temp  == AllocTempSlot(Fields(d))
      table == Fields(EmitN(temp, "StoreLocal", Declared(temp)))
      both  == FreeTempSlot(EmitN(table, "LoadLocal", Declared(temp)))
  IN  IF Len(parts) = 1
        THEN IF ref.kind = "Global" THEN StoreNew(d, parts[1]) ELSE StoreRef(d, ref)
      ELSE IF ref.kind = "Global" THEN Fail(d, "UnknownGlobal")
      ELSE WithConstant(both, "SetField", Text(Last(parts)))

CompileFunctionDecl(c, s) ==
  StoreFuncName(EmitClosure(c, (IF s.isMethod THEN <<"self">> ELSE << >>) \o s.params, s.block),
                s.parts)

(* compile_local_function_decl: the body may refer to the name. *)
CompileLocalFunction(c, s) ==
  LET d == DeclareLocal(c, s.name)
      n == EmitN(EmitOp(d, "PushNil"), "StoreLocal", Declared(d))
  IN  EmitN(EmitClosure(n, s.params, s.block), "StoreLocal", Declared(d))

CompileExprStmt(c, s) ==
  IF s.expr.tag \in {"Call", "MethodCall"} THEN EmitOp(CompileExpr(c, s.expr), "Pop")
  ELSE Fail(c, "ExprStmtNotCall")

CompileBreak(c) ==
  LET loops == Top(c).breaks
      pops  == FoldLeft(LAMBDA d, i : EmitOp(d, "Pop"), c,
                        [i \in 1..Last(loops).pops |-> i])
      jump  == EmitN(pops, "Jmp", 0)
  IN  IF loops = << >> THEN Fail(c, "BreakOutsideLoop")
      ELSE Update(jump, [Top(jump) EXCEPT
                           !.breaks[Len(loops)].at = Append(@, HereAt(jump))])

CompileStmt(c, s) ==
  IF c.error # "none" THEN c ELSE
  CASE s.tag = "LocalDecl"         -> CompileLocalDecl(c, s)
    [] s.tag = "AssignName"        -> CompileAssignName(c, s)
    [] s.tag = "AssignIndex"       -> CompileAssignIndex(c, s)
    [] s.tag = "If"                -> CompileIf(c, s)
    [] s.tag = "While"             -> CompileWhile(c, s)
    [] s.tag = "NumericFor"        -> CompileNumericFor(c, s)
    [] s.tag = "GenericFor"        -> CompileGenericFor(c, s)
    [] s.tag = "FunctionDecl"      -> CompileFunctionDecl(c, s)
    [] s.tag = "LocalFunctionDecl" -> CompileLocalFunction(c, s)
    [] s.tag = "ExprStmt"          -> CompileExprStmt(c, s)
    [] s.tag = "Break"             -> CompileBreak(c)
    [] s.tag = "Do"                -> CompileBlock(c, s.block)

CompileReturn(c, b) ==
  CASE b.ret = "none"    -> c
    [] b.value = NoValue -> EmitN(c, "Ret", 0)
    [] OTHER             -> EmitN(CompileExpr(c, b.value), "Ret", 1)

CompileBlock(c, b) ==
  ExitBlock(CompileReturn(FoldLeft(LAMBDA d, s : CompileStmt(d, s), EnterBlock(c), b.stmts), b))

-----------------------------------------------------------------------------
(* compile_function_body: a return is added unless one is the last         *)
(* instruction, wherever the jumps of the body lead.                       *)
CompileBody(c, params, block) ==
  LET Param(d, i) == Update(d, Bind(Top(d), params[i], i - 1))
      entered == FoldLeft(Param, EnterFunction(c, Len(params) % 256), [i \in DOMAIN params |-> i])
      body    == CompileBlock(entered, block)
      code    == Top(body).code
      closed  == IF code # << >> /\ Last(code).op = "Ret" THEN body ELSE EmitN(body, "Ret", 0)
  IN  IF Len(closed.prototypes) >= MaxPool THEN Fail(ExitFunction(closed), "TooManyPrototypes")
      ELSE [ExitFunction(closed) EXCEPT
              !.prototypes = Append(@, Prototype(Top(closed)))]

(* Compiler::compile: the top-level chunk is prototype 0. *)
Compile(block) ==
  LET start == [scopes |-> << >>, prototypes |-> <<Prototype(NewScope(0))>>, error |-> "none"]
      done  == EmitN(CompileBlock(EnterFunction(start, 0), block), "Ret", 0)
  IN  [prototypes |-> [done.prototypes EXCEPT ![1] = Prototype(Top(done))], error |-> done.error]
=============================================================================
