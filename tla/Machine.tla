------------------------------ MODULE Machine ------------------------------
(***************************************************************************)
(* The interpreter (vm/engine.rs): frames on a stack of slots, closures    *)
(* over shared cells, pcall and the sort comparators that run functions    *)
(* inside one instruction, gas and memory.  A step is one turn of the loop *)
(* in execute or run_inner.  What a tool answers is up to the host.        *)
(***************************************************************************)
EXTENDS Bytecode, Globals

CONSTANTS
  MaxCallDepth,   \* VmConfig::max_call_depth
  ToolAnswers,    \* what a tool may answer
  GasLimits       \* VmConfig::gas_limit

(* The chunk itself takes a frame; a tool answers with data (the response  *)
(* is JSON).                                                               *)
ASSUME MachineAssumption ==
  /\ MaxCallDepth \in Nat \ {0}
  /\ \A a \in ToolAnswers : a.ok => IsData(a.table)

VARIABLES
  program,   \* CompiledProgram: the prototypes, the top-level chunk first
  vm         \* the state of Vm

(* StackSlot: a value, a shared cell or an iterator handle. *)
SharedKind == 7
HandleKind == 8
IsHandle(slot) == slot[1] = HandleKind

FunctionCall   == 10
FunctionReturn == 5
PcallSetup     == 15
PcallUnwind    == 10
TableAlloc     == 20
TableGet       == 2
ToolCallBase   == 100
LogBase        == 10
ErrorRaise     == 10

(* resolve_sentinel *)
ResolveSentinel(v) == IF v \in DOMAIN Globals THEN Globals[v] ELSE v

-----------------------------------------------------------------------------
(* The state an instruction works on.  After a fault nothing more is done: *)
(* a raised error carries its value, gas and memory faults are final.      *)

Raise(m, v) == IF m.fault # "none" THEN m ELSE [m EXCEPT !.fault = "raised", !.error = v]

TypeError(m)    == Raise(m, Text("type error"))

Push(m, v) == IF m.fault # "none" THEN m ELSE [m EXCEPT !.stack = Append(@, v)]
Drop(m, n) == [m EXCEPT !.stack = SubSeq(@, 1, Len(@) - n)]

(* as_value *)
Value(m, slot) == IF slot[1] = SharedKind THEN m.cells[slot[2]] ELSE slot

(* The i-th value from the top. *)
Operand(m, i) == Value(m, m.stack[Len(m.stack) + 1 - i])

(* pop_value, n times: an iterator handle is no value. *)
Pop(m, n) ==
  IF \E i \in 1..n : IsHandle(m.stack[Len(m.stack) + 1 - i])
    THEN Raise(m, Text("handle as value"))
  ELSE Drop(m, n)

PushResult(m, r) ==
  CASE r.error = "none"    -> Push(m, r.value)
    [] r.error = "type"    -> TypeError(m)
    [] r.error = "runtime" -> Raise(m, Text("runtime error"))
    [] OTHER               -> IF m.fault = "none" THEN [m EXCEPT !.fault = "memory"] ELSE m

Frame(m)    == Last(m.frames)
Proto(m)    == program[Frame(m).proto + 1]
Here        == Proto(vm).code[Frame(vm).pc]
Slot(m, n)  == Frame(m).base + n + 1
Constant(n) == Proto(vm).constants[n + 1]

JumpBy(m, n) ==
  IF m.fault # "none" THEN m ELSE [m EXCEPT !.frames[Len(m.frames)].pc = @ + n]

(* An operator of Meters on the table at an address. *)
OnTable(m, a, Op(_)) ==
  LET r == Op([table |-> m.heap[a], gas |-> m.gas, mem |-> m.mem, fault |-> m.fault])
  IN  [m EXCEPT !.heap[a] = r.table, !.gas = r.gas, !.mem = r.mem, !.fault = r.fault]

NewTable(m, t) == Push([m EXCEPT !.heap = Append(@, t)], TableVal(Len(m.heap) + 1))

(* push_call_frame: parameters without an argument are nil, arguments      *)
(* without a parameter are dropped.                                        *)
PushCallFrame(m, f, args) ==
  LET proto == program[f[2][1] + 1]
      local(i) == IF i \in DOMAIN args /\ i <= proto.paramCount THEN args[i] ELSE Nil
      paid  == Alloc(m, 64 + 8 * proto.localCount)
  IN  IF paid.fault # "none" THEN paid
      ELSE [paid EXCEPT
              !.frames = Append(@, [proto |-> f[2][1], pc |-> 1, base |-> Len(m.stack),
                                    upvalues |-> f[2][2]]),
              !.stack  = @ \o [i \in 1..proto.localCount |-> local(i)]]

-----------------------------------------------------------------------------
(* Functions that run inside an instruction: a pcall, or a sort with a     *)
(* comparator.  An entry of inner remembers the stack and the frames there *)
(* were before the function (PCallCheckpoint; target_frame_depth).         *)

Checkpoint(m) == [kind |-> "pcall", stackLen |-> Len(m.stack), frameLen |-> Len(m.frames)]

PcallEntry(m) == [m EXCEPT !.inner = Append(@, Checkpoint(m))]
LeaveInner(m) == [m EXCEPT !.inner = Front(@)]

(* Mutant: a pcall that succeeded is still there to catch errors. *)
FinishStaying(m, byPcall, v) ==
  IF m.fault # "none" THEN m
  ELSE IF byPcall THEN Push(Push(m, TrueVal), v) ELSE Push(m, v)

(* The result of what a Call or a PCall has run inside itself.             *)
Finish(m, byPcall, v) ==
  IF m.fault # "none" THEN m
  ELSE IF byPcall THEN Push(Push(LeaveInner(m), TrueVal), v) ELSE Push(m, v)

(* merge_sort_with_comp up to its first comparison that has no answer yet: *)
(* the array sorted so far, the answers used and the pair it asks about.   *)
Sorting(array, used, ask) == [array |-> array, used |-> used, ask |-> ask]

(* The loop that merges two halves: it takes from the left if the answer   *)
(* is yes.                                                                 *)
Merging(s)  == s.left # << >> /\ s.right # << >>
TakeOne(s, answers) ==
  IF ~Merging(s) \/ s.used >= Len(answers) THEN s
  ELSE IF answers[s.used + 1]
    THEN [s EXCEPT !.array = Append(@, Head(s.left)), !.left = Tail(@), !.used = @ + 1]
  ELSE [s EXCEPT !.array = Append(@, Head(s.right)), !.right = Tail(@), !.used = @ + 1]

Merge(left, right, used, answers) ==
  LET n == Len(left) + Len(right)
      after[k \in 0..n] ==
        IF k = 0 THEN [array |-> << >>, left |-> left, right |-> right, used |-> used]
        ELSE TakeOne(after[k - 1], answers)
      s == after[n]
  IN  IF Merging(s) THEN Sorting(<< >>, s.used, <<Head(s.left), Head(s.right)>>)
      ELSE Sorting(s.array \o s.left \o s.right, s.used, << >>)

(* The slice from lo to hi, with n levels of recursion below and so many   *)
(* answers used up.                                                        *)
MergeSort(array, answers) ==
  LET Sorted[n \in 0..Len(array)] ==
        [at \in [lo : DOMAIN array, hi : DOMAIN array, used : 0..Len(answers)] |->
           LET mid   == at.lo + (at.hi + 1 - at.lo) \div 2
               left  == Sorted[n - 1][[at EXCEPT !.hi = mid - 1]]
               right == Sorted[n - 1][[at EXCEPT !.lo = mid, !.used = left.used]]
           IN  IF n = 0 \/ at.hi <= at.lo
                 THEN Sorting(SubSeq(array, at.lo, at.hi), at.used, << >>)
               ELSE IF left.ask # << >> THEN left
               ELSE IF right.ask # << >> THEN right
               ELSE Merge(left.array, right.array, right.used, answers)]
  IN  Sorted[Len(array)][[lo |-> 1, hi |-> Len(array), used |-> 0]]

(* The sorted values go back to 1..n without being metered, whatever the   *)
(* table has become since they were read.                                  *)
WriteBack(m, a, array) ==
  LET Put(t) ==
        LET after[i \in 0..Len(array)] ==
              IF i = 0 THEN t ELSE SetRaw(after[i - 1], IntKey(i), array[i])
        IN  after[Len(array)]
  IN  OnTable(m, a, Put)

(* call_comparator has no check of the call depth. *)
SortOn(m) ==
  LET e == Last(m.inner)
      r == MergeSort(e.array, e.answers)
  IN  IF r.ask = << >>
        THEN Finish(WriteBack(LeaveInner(m), e.table, r.array), e.byPcall, Nil)
      ELSE IF ~IsKind(e.comp, FunctionKind) THEN TypeError(m)
      ELSE PushCallFrame(m, e.comp, r.ask)

(* do_table_sort and merge_sort_default *)
TableSort(m, args, byPcall) ==
  LET a     == args[1][2]
      array == m.heap[a].array
      paid  == Charge(m, SortGas(Len(array)))
      entry == [kind |-> "sort", stackLen |-> Len(m.stack), frameLen |-> Len(m.frames),
                table |-> a, array |-> array, comp |-> args[2],
                answers |-> << >>, byPcall |-> byPcall]
  IN  IF args = << >> \/ ~IsKind(args[1], TableKind) THEN TypeError(m)
      ELSE IF Len(array) <= 1 THEN Finish(m, byPcall, Nil)
      ELSE IF Len(args) > 1 /\ args[2] # Nil
        THEN IF paid.fault # "none" THEN paid ELSE SortOn([paid EXCEPT !.inner = Append(@, entry)])
      ELSE IF \E i \in 2..Len(array) : ~Comparable(array[1], array[i]) THEN TypeError(paid)
      ELSE IF ~Comparable(array[1], array[1]) THEN TypeError(paid)
      ELSE Finish(WriteBack(paid, a, SortedSeq(array)), byPcall, Nil)

(* call_builtin: the ones modelled here.  A result or none, which is nil.  *)
CallBuiltin(m, b, args, byPcall) ==
  LET arg(i) == args[i]
      takes(n) == Len(args) >= n
      onTable == takes(1) /\ IsKind(args[1], TableKind)
      len == Length(m.heap[args[1][2]])
  IN  CASE b = "sort" -> TableSort(m, args, byPcall)
        [] b = "type" /\ takes(1) -> Finish(m, byPcall, Text(TypeName(arg(1))))
        [] b = "tostring" /\ takes(1) -> Finish(m, byPcall, StrVal(ToLuaString(arg(1))))
        [] b = "len" /\ takes(1) /\ IsKind(args[1], StringKind) ->
             Finish(m, byPcall, IntVal(Len(args[1][2])))
        [] b = "insert" /\ onTable /\ takes(2) ->
             Finish(OnTable(m, args[1][2], LAMBDA t : TableInsert(t, len + 1, args[2])),
                    byPcall, Nil)
        [] b = "remove" /\ onTable ->
             IF len = 0 THEN Finish(m, byPcall, Nil)
             ELSE Finish(OnTable(m, args[1][2], LAMBDA t : TableRemove(t, len)),
                         byPcall, Get(m.heap[args[1][2]], IntKey(len)))
        [] OTHER -> Raise(m, Text("bad argument"))

-----------------------------------------------------------------------------
(* Mutant: an error unwinds the frames and leaves their slots. *)
SettleShallow(m) ==
  LET pcalls == {i \in DOMAIN m.inner : m.inner[i].kind = "pcall"}
      p      == CHOOSE i \in pcalls : \A j \in pcalls : j <= i
      e      == m.inner[p]
      paid   == Charge([m EXCEPT !.fault = "none"], PcallUnwind)
  IN  IF m.fault # "raised" \/ pcalls = {} \/ paid.fault # "none" THEN m
      ELSE [paid EXCEPT !.stack  = @ \o <<FalseVal, m.error>>,
                        !.frames = SubSeq(@, 1, e.frameLen),
                        !.inner  = SubSeq(@, 1, p - 1)]

(* Mutant: a pcall catches every fault. *)
SettleAll(m) ==
  LET pcalls == {i \in DOMAIN m.inner : m.inner[i].kind = "pcall"}
      p      == CHOOSE i \in pcalls : \A j \in pcalls : j <= i
      e      == m.inner[p]
  IN  IF m.fault = "none" \/ pcalls = {} THEN m
      ELSE [m EXCEPT !.fault  = "none",
                     !.stack  = SubSeq(@, 1, e.stackLen) \o <<FalseVal, m.error>>,
                     !.frames = SubSeq(@, 1, e.frameLen),
                     !.inner  = SubSeq(@, 1, p - 1)]

(* The end of an instruction: an error goes to the innermost pcall, which  *)
(* pays for it and goes back to its checkpoint; with no pcall, or if it    *)
(* cannot pay, the run is over.  Gas and memory faults are not caught      *)
(* (is_unrecoverable).                                                     *)
Settle(m) ==
  LET pcalls == {i \in DOMAIN m.inner : m.inner[i].kind = "pcall"}
      p      == CHOOSE i \in pcalls : \A j \in pcalls : j <= i
      e      == m.inner[p]
      paid   == Charge([m EXCEPT !.fault = "none"], PcallUnwind)
  IN  IF m.fault # "raised" \/ pcalls = {} THEN m
      ELSE IF paid.fault # "none" THEN paid
      ELSE [paid EXCEPT !.stack  = SubSeq(@, 1, e.stackLen) \o <<FalseVal, m.error>>,
                        !.frames = SubSeq(@, 1, e.frameLen),
                        !.inner  = SubSeq(@, 1, p - 1)]

(* do_return, and the end of run_inner when the frame it waits for goes. *)
Return(m, v) ==
  LET left == [m EXCEPT !.stack = SubSeq(@, 1, Frame(m).base), !.frames = Front(@)]
  IN  IF m.fault # "none" THEN m
      ELSE IF left.frames = << >> THEN [left EXCEPT !.status = "done", !.answer = v]
      ELSE IF m.inner = << >> \/ Last(m.inner).frameLen < Len(left.frames) THEN Push(left, v)
      ELSE IF Last(m.inner).kind = "pcall" THEN Finish(left, TRUE, v)
      ELSE SortOn([left EXCEPT !.inner[Len(m.inner)].answers = Append(@, Truthy(v))])

-----------------------------------------------------------------------------
Running  == vm.status = "running" /\ vm.fault = "none"
InCode   == Frame(vm).pc <= Len(Proto(vm).code)

Executing(ops) == Running /\ InCode /\ Here.op \in ops

(* Mutant: the instruction itself costs nothing. *)
FetchedFree == JumpBy(vm, 1)

(* The instruction is fetched and charged for before anything else. *)
Fetched == Charge(JumpBy(vm, 1), 1)

Becomes(m) == vm' = Settle(m) /\ UNCHANGED program

(* The instruction goes on if it could be paid for, with n operands popped. *)
Step(n, m) == Becomes(IF Fetched.fault # "none" THEN Fetched
                      ELSE IF Pop(Fetched, n).fault # "none" THEN Pop(Fetched, n) ELSE m)

After(n)  == Pop(Fetched, n)
Arg(i)    == Operand(vm, i)

Push1 ==
  \/ Executing({"PushK"})     /\ Step(0, Push(Fetched, Constant(Here.n)))
  \/ Executing({"PushNil"})   /\ Step(0, Push(Fetched, Nil))
  \/ Executing({"PushTrue"})  /\ Step(0, Push(Fetched, TrueVal))
  \/ Executing({"PushFalse"}) /\ Step(0, Push(Fetched, FalseVal))
  \/ Executing({"Dup"})       /\ Step(0, Push(Fetched, Last(vm.stack)))
  \/ Executing({"LoadLocal"}) /\
       Step(0, Push(Fetched, Value(vm, vm.stack[Slot(vm, Here.n)])))
  \/ Executing({"LoadUp"})    /\ Step(0, Push(Fetched, vm.cells[Frame(vm).upvalues[Here.n + 1]]))

(* Pop takes anything off the stack, an iterator handle too. *)
PopTop == Executing({"Pop"}) /\ Step(0, Drop(Fetched, 1))

(* A store to a shared slot goes to its cell. *)
Store ==
  \/ /\ Executing({"StoreLocal"})
     /\ LET at == Slot(vm, Here.n)
        IN  Step(1, IF vm.stack[at][1] = SharedKind
                      THEN [After(1) EXCEPT !.cells[vm.stack[at][2]] = Arg(1)]
                    ELSE [After(1) EXCEPT !.stack[at] = Arg(1)])
  \/ /\ Executing({"StoreUp"})
     /\ Step(1, [After(1) EXCEPT !.cells[Frame(vm).upvalues[Here.n + 1]] = Arg(1)])

MakeTable ==
  /\ Executing({"NewTable"})
  /\ LET paid == Alloc(Charge(Fetched, TableAlloc), TableBase)
     IN  Step(0, IF paid.fault # "none" THEN paid ELSE NewTable(paid, EmptyTable))

(* GetTable and SetTable refuse the key before they look at the table.     *)
KeyFault(m, k) == IF k = Nil THEN Raise(m, Text("runtime error")) ELSE TypeError(m)

GetTable ==
  /\ Executing({"GetTable"})
  /\ LET m == Charge(After(2), TableGet)
         t == ResolveSentinel(Arg(2))
     IN  Step(2, IF ~IsKey(Arg(1)) THEN KeyFault(m, Arg(1))
                 ELSE IF ~IsKind(t, TableKind) THEN TypeError(m)
                 ELSE Push(m, Get(m.heap[t[2]], Arg(1))))

(* A field of a string is that of the string module, and must be there.    *)
GetField ==
  /\ Executing({"GetField"})
  /\ LET m   == Charge(After(1), TableGet)
         t   == ResolveSentinel(Arg(1))
         key == Constant(Here.n)
         method == Get(m.heap[StringModule], key)
     IN  Step(1, IF IsKind(t, StringKind)
                   THEN IF method = Nil THEN Raise(m, Text("no method")) ELSE Push(m, method)
                 ELSE IF ~IsKind(t, TableKind) THEN TypeError(m)
                 ELSE Push(m, Get(m.heap[t[2]], key)))

SetAt(m, t, k, v) ==
  IF ~IsKind(t, TableKind) THEN TypeError(m)
  ELSE IF k = IntKey(IntMin) THEN Raise(m, Text("runtime error"))
  ELSE OnTable(m, t[2], LAMBDA u : DoRawset(u, k, v))

SetTable ==
  \/ /\ Executing({"SetTable"})
     /\ Step(3, IF ~IsKey(Arg(2)) THEN KeyFault(After(3), Arg(2))
                ELSE SetAt(After(3), Arg(3), Arg(2), Arg(1)))
  \/ /\ Executing({"SetField"})
     /\ Step(2, SetAt(After(2), Arg(2), Constant(Here.n), Arg(1)))

Operate ==
  \/ Executing(Binary) /\ Step(2, PushResult(After(2), BinaryResult(Here.op, Arg(2), Arg(1))))
  \/ Executing({"Neg"}) /\ Step(1, PushResult(After(1), Arith("Sub", IntVal(0), Arg(1))))
  \/ Executing({"Not"}) /\ Step(1, Push(After(1), BoolVal(~Truthy(Arg(1)))))
  \/ /\ Executing({"Len"})
     /\ LET m == Charge(After(1), 1)
        IN  Step(1, CASE IsKind(Arg(1), StringKind) -> Push(m, IntVal(Len(Arg(1)[2])))
                      [] IsKind(Arg(1), TableKind) -> Push(m, IntVal(Length(m.heap[Arg(1)[2]])))
                      [] OTHER -> TypeError(m))

(* Concat folds its operands from the left. *)
Concat ==
  /\ Executing({"Concat"})
  /\ LET n == Here.n
         parts == [i \in 1..n |-> Arg(n + 1 - i)]
         joined[i \in 1..n] ==
           IF i = 1 THEN Ok(parts[1])
           ELSE IF joined[i - 1].error = "none" THEN ConcatTwo(joined[i - 1].value, parts[i])
           ELSE joined[i - 1]
         r == joined[n]
         len == IF IsKind(r.value, StringKind) THEN Len(r.value[2]) ELSE 0
         paid == Alloc(Charge(After(n), len), 24 + len)
     IN  Step(n, IF r.error # "none" THEN PushResult(After(n), r) ELSE Push(paid, r.value))

Taken(op, v) ==
  CASE op \in {"JmpIf", "Or"}     -> Truthy(v)
    [] op \in {"JmpIfNot", "And"} -> ~Truthy(v)

Jump ==
  \/ Executing({"Jmp"}) /\ Step(0, JumpBy(Fetched, Here.n))
  \/ Executing(CondJumps) /\ Step(1, IF Taken(Here.op, Arg(1)) THEN JumpBy(After(1), Here.n)
                                     ELSE After(1))
  \/ Executing(ShortCircuits) /\ Step(0, IF Taken(Here.op, Arg(1)) THEN JumpBy(Fetched, Here.n)
                                         ELSE Fetched)

-----------------------------------------------------------------------------
(* Mutant: a pcall is not refused when too many frames are on the stack. *)
DepthExceededNever(m) == FALSE

DepthExceeded(m) == Len(m.frames) >= MaxCallDepth

Args(n) == [i \in 1..n |-> Arg(n + 1 - i)]

(* Call: the depth is checked first; then what is called decides. *)
ExecCall ==
  /\ Executing({"Call"})
  /\ LET n    == Here.n
         paid == Charge(Fetched, FunctionCall)
         m    == Pop(paid, n + 1)
         f    == ResolveSentinel(Arg(n + 1))
     IN  Becomes(IF paid.fault # "none" THEN paid
                 ELSE IF DepthExceeded(paid) THEN Raise(paid, Text("call depth exceeded"))
                 ELSE IF m.fault # "none" THEN m
                 ELSE CASE IsKind(f, BuiltinKind)  -> CallBuiltin(m, f[2], Args(n), FALSE)
                        [] IsKind(f, FunctionKind) -> PushCallFrame(m, f, Args(n))
                        [] OTHER -> Raise(m, Text("attempt to call")))

(* PCall: a builtin runs at once, whatever the depth; what cannot be       *)
(* called, or would be too deep, is a failed call without an unwinding.    *)
ExecPCall ==
  /\ Executing({"PCall"})
  /\ LET n    == Here.n
         paid == Charge(Fetched, PcallSetup)
         m    == Pop(paid, n + 1)
         f    == ResolveSentinel(Arg(n + 1))
         failed(v) == Push(Push(m, FalseVal), v)
     IN  Becomes(IF paid.fault # "none" THEN paid
                 ELSE IF m.fault # "none" THEN m
                 ELSE CASE IsKind(f, BuiltinKind) -> CallBuiltin(PcallEntry(m), f[2], Args(n), TRUE)
                        [] ~IsKind(f, FunctionKind) /\ ~IsKind(f, BuiltinKind) ->
                             failed(Text("type error"))
                        [] OTHER -> IF DepthExceeded(m) THEN failed(Text("call depth exceeded"))
                                    ELSE PushCallFrame(PcallEntry(m), f, Args(n)))

ExecRet ==
  /\ Executing({"Ret"})
  /\ LET m == Charge(Fetched, FunctionReturn)
     IN  Becomes(IF m.fault # "none" THEN m
                 ELSE Return(Pop(m, Here.n), IF Here.n = 0 THEN Nil ELSE Arg(Here.n)))

(* The code of a function has run out: it returns nil. *)
FallOff == Running /\ ~InCode /\ Becomes(Return(vm, Nil))

(* Mutant: a closure gets a cell of its own for a captured local. *)
CaptureFresh(st, desc) ==
  LET at    == Slot(vm, desc.n)
      local == desc.kind = "Local"
      cell  == IF local THEN Len(st.cells) + 1 ELSE Frame(vm).upvalues[desc.n + 1]
  IN  [stack |-> st.stack, upvalues |-> Append(st.upvalues, cell), refused |-> FALSE,
       cells |-> IF local THEN Append(st.cells, Value(st, st.stack[at])) ELSE st.cells]

(* One upvalue of a closure: the cell of the enclosing closure, or that of *)
(* a slot, which becomes shared if it is not.  An iterator handle is       *)
(* refused; what was shared before it stays so.                            *)
CaptureOne(st, desc) ==
  LET at     == Slot(vm, desc.n)
      slot   == st.stack[at]
      shared == desc.kind = "Local" /\ slot[1] = SharedKind
      fresh  == desc.kind = "Local" /\ ~shared
      cell   == CASE desc.kind = "Upvalue" -> Frame(vm).upvalues[desc.n + 1]
                  [] shared                -> slot[2]
                  [] OTHER                 -> Len(st.cells) + 1
  IN  IF st.refused \/ (fresh /\ IsHandle(slot)) THEN [st EXCEPT !.refused = TRUE]
      ELSE [stack    |-> IF fresh THEN [st.stack EXCEPT ![at] = <<SharedKind, cell>>] ELSE st.stack,
            cells    |-> IF fresh THEN Append(st.cells, slot) ELSE st.cells,
            upvalues |-> Append(st.upvalues, cell),
            refused  |-> FALSE]

MakeClosure ==
  /\ Executing({"Closure"})
  /\ LET descs == program[Here.n + 1].upvalues
         paid  == Alloc(Fetched, 32 + 8 * Len(descs))
         after[i \in 0..Len(descs)] ==
           IF i = 0 THEN [stack |-> vm.stack, cells |-> vm.cells, upvalues |-> << >>, refused |-> FALSE]
           ELSE CaptureOne(after[i - 1], descs[i])
         taken == after[Len(descs)]
         bound == [paid EXCEPT !.stack = taken.stack, !.cells = taken.cells]
     IN  Step(0, IF paid.fault # "none" THEN paid
                 ELSE IF taken.refused THEN Raise(bound, Text("cannot capture iterator handle"))
                 ELSE Push(bound, <<FunctionKind, <<Here.n, taken.upvalues>>>>))

(* ToolCall, by what ToolRegistry answers: a table, which is paid for, or  *)
(* an error.                                                               *)
ExecToolCall ==
  /\ Executing({"ToolCall"})
  /\ \E a \in ToolAnswers :
       LET called == [After(2) EXCEPT !.tools = Append(@, [args |-> Arg(1), answer |-> a])]
           paid   == Charge(called, ToolCallBase)
       IN  Step(2, IF ~IsKind(Arg(2), StringKind) \/ ~IsKind(Arg(1), TableKind)
                     THEN TypeError(After(2))
                   ELSE IF ~a.ok THEN Raise(called, Text("tool error"))
                   ELSE IF paid.fault # "none" THEN paid ELSE NewTable(paid, a.table))

ExecLog ==
  /\ Executing({"Log"})
  /\ LET msg  == ToLuaString(Arg(1))
         paid == Charge(After(1), LogBase + Len(msg))
     IN  Step(1, IF paid.fault # "none" THEN paid ELSE [paid EXCEPT !.logs = Append(@, msg)])

ExecError == Executing({"Error"}) /\ Step(1, Raise(Charge(After(1), ErrorRaise), Arg(1)))

-----------------------------------------------------------------------------
Handle(kind, keys, index, table) ==
  <<HandleKind, [kind |-> kind, keys |-> keys, index |-> index, table |-> table]>>

IterInit ==
  /\ Executing(IterInits)
  /\ LET a      == Arg(1)[2]
         sorted == Here.op = "IterInitSorted"
         keys   == SortedKeys(vm.heap[a])
         paid   == Charge(After(1), IF sorted THEN SortGas(Len(keys)) ELSE 1)
         empty  == IF sorted THEN keys = << >> ELSE Get(vm.heap[a], IntKey(1)) = Nil
     IN  Step(1, IF ~IsKind(Arg(1), TableKind) THEN TypeError(After(1))
                 ELSE IF empty THEN JumpBy(paid, Here.n)
                 ELSE Push(paid, IF sorted THEN Handle("sorted", keys, 0, a)
                                 ELSE Handle("array", << >>, 1, a)))

(* The key and the value go on top of the handle; an exhausted handle is   *)
(* gone and the loop left.                                                 *)
IterNext ==
  /\ Executing({"IterNext"})
  /\ LET h     == Last(vm.stack)[2]
         off   == Drop(Fetched, 1)
         key   == IF h.kind = "sorted" THEN h.keys[h.index + 1] ELSE IntKey(h.index)
         value == Get(vm.heap[h.table], key)
         over  == IF h.kind = "sorted" THEN h.index >= Len(h.keys)
                  ELSE Get(vm.heap[h.table], IntKey(h.index)) = Nil
         paid  == Charge(off, IF h.kind = "sorted" THEN IterSortedStep ELSE IterArrayStep)
         moved == Handle(h.kind, h.keys, h.index + 1, h.table)
     IN  Step(0, IF ~IsHandle(Last(vm.stack)) THEN Raise(Fetched, Text("expected handle"))
                 ELSE IF over THEN JumpBy(off, Here.n)
                 ELSE Push(Push(Push(paid, moved), key), value))

-----------------------------------------------------------------------------
(* execute: the locals of the top-level chunk, no input. *)
VmInit ==
  LET main == program[1]
  IN  \E limit \in GasLimits :
        vm = [stack |-> [i \in 1..main.localCount |-> Nil],
              frames |-> <<[proto |-> 0, pc |-> 1, base |-> 0, upvalues |-> << >>]>>,
              inner |-> << >>, cells |-> << >>, heap |-> Modules, gas |-> limit,
              mem |-> 64 + 8 * main.localCount, fault |-> "none", error |-> Nil,
              logs |-> << >>, tools |-> << >>, status |-> "running", answer |-> Nil]

VmNext ==
  \/ Push1 \/ PopTop \/ Store \/ MakeTable \/ GetTable \/ GetField \/ SetTable \/ Operate
  \/ Concat \/ Jump \/ ExecCall \/ ExecPCall \/ ExecRet \/ FallOff \/ MakeClosure
  \/ ExecToolCall \/ ExecLog \/ ExecError \/ IterInit \/ IterNext
=============================================================================
