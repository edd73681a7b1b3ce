----------------------------- MODULE Execution -----------------------------
(***************************************************************************)
(* Compiled programs in the interpreter: a compiler makes the prototypes   *)
(* that Machine runs, and a semantics says what their source means.        *)
(***************************************************************************)
EXTENDS Machine

CONSTANTS
  Compiled(_),      \* what the compiler makes of a block (Codegen!Compile)
  MeaningOf(_, _),  \* what a block means, by what tools answer (Language!Meaning)
  Sources,          \* the programs, by name
  Endless           \* those that only a limit stops

VARIABLES
  source,      \* the name of the program
  depths       \* what the verifier computes for it, by prototype

vars == <<source, depths, program, vm>>

-----------------------------------------------------------------------------
Spent(m)   == m.fault \in {"gas", "memory"}
Ended(m)   == m.status = "done" \/ m.fault # "none"
Answers    == [i \in DOMAIN vm.tools |-> vm.tools[i].answer]

(* Values, tables and logs without what the two sides represent in their   *)
(* own way: functions.                                                     *)
Opaque(v)  == IF IsKind(v, FunctionKind) THEN <<FunctionKind, 0>> ELSE v
Seen(heap) == [a \in DOMAIN heap |->
                 LET c == Contents(heap[a]) IN [k \in DOMAIN c |-> Opaque(c[k])]]

Init ==
  /\ source \in DOMAIN Sources
  /\ program = Compiled(Sources[source]).prototypes
  /\ depths = [p \in DOMAIN program |->
                LET c == program[p].code IN ReachedIn(c, Len(c) + 1)]
  /\ VmInit

Terminating == ~Running /\ UNCHANGED vars

Next ==
  \/ VmNext /\ UNCHANGED <<source, depths>>
  \/ Terminating

Spec == Init /\ [][Next]_vars

(* A run is one loop of Rust code: it goes on until it ends.  This is      *)
(* WF_vars(VmNext), enabled while the run is going on: no running state is *)
(* a deadlock.                                                             *)
FairSpec == Spec /\ ([]<>~Running \/ []<><<TRUE>>_vars)

-----------------------------------------------------------------------------

(* The operands of the innermost frame. *)
Operands == Len(vm.stack) - Frame(vm).base - Proto(vm).localCount

-----------------------------------------------------------------------------
(* A prototype: what its instructions refer to is there.  The verifier     *)
(* checks constants, prototypes and upvalues (structural_checks); the      *)
(* slots of locals and what a closure captures it leaves to the compiler.  *)
IsPrototype(proto) ==
  /\ proto.localCount \in Nat
  /\ proto.code \in Seq(Range(proto.code))
  /\ proto.upvalues \in Seq(Range(proto.upvalues))
  /\ \A i \in DOMAIN proto.constants : IsPlain(proto.constants[i])

Captures(proto, desc) ==
  \/ desc.kind = "Local" /\ desc.n \in 0..proto.localCount - 1
  \/ desc.kind = "Upvalue" /\ desc.n + 1 \in DOMAIN proto.upvalues

RefersRightly(proto, i) ==
  /\ i.op \in Jumps => i.n \in Int
  /\ i.op \in Counted => i.n \in Nat
  /\ i.op = "Concat" => i.n \in Nat \ {0}
  /\ i.op \in ConstLoads \cup FieldOps => i.n + 1 \in DOMAIN proto.constants
  /\ i.op \in FieldOps => IsKey(proto.constants[i.n + 1])
  /\ i.op \in {"LoadLocal", "StoreLocal"} => i.n \in 0..proto.localCount - 1
  /\ i.op \in UpvalueOps => i.n + 1 \in DOMAIN proto.upvalues
  /\ i.op \in ProtoLoads =>
       /\ i.n + 1 \in DOMAIN program
       /\ \A u \in DOMAIN program[i.n + 1].upvalues :
            Captures(proto, program[i.n + 1].upvalues[u])

(* The depths the verifier computes (stack_analysis): one for each         *)
(* instruction, with which the instruction finds its operands and a return *)
(* its value only, up to those of the instructions it may lead to.         *)
Balanced(code, D) ==
  /\ <<1, 0>> \in D
  /\ \A s \in D :
       /\ s = <<s[1], s[2]>> /\ s[1] \in 1..Len(code) + 1 /\ s[2] \in Nat
       /\ s[1] <= Len(code) =>
            /\ ~Starved(code[s[1]], s[2])
            /\ code[s[1]].op = "Ret" => s[2] = code[s[1]].n
            /\ Successors(code, s) \subseteq D
            /\ \A r \in D : r[1] = s[1] => r = s

(* What the compiler emits passes the verifier, and stays within the slots *)
(* its prototypes declare; the top-level chunk captures nothing.           *)
ProgramVerified ==
  /\ program # << >> /\ program \in Seq(Range(program)) /\ program[1].upvalues = << >>
  /\ DOMAIN depths = DOMAIN program
  /\ \A p \in DOMAIN program :
       /\ IsPrototype(program[p])
       /\ \A pc \in DOMAIN program[p].code : RefersRightly(program[p], program[p].code[pc])
       /\ Balanced(program[p].code, depths[p])

-----------------------------------------------------------------------------
(* The shape the interpreter relies on without checking it (unwrap and     *)
(* direct indexing in dispatch): frames lie one above the other on the     *)
(* stack, shared slots and upvalues have a cell, and each function that    *)
(* runs inside an instruction is above the checkpoint of that instruction. *)
TypeOK ==
  /\ \A f \in DOMAIN vm.frames :
       LET frame == vm.frames[f]
           proto == program[frame.proto + 1]
           top   == IF f = Len(vm.frames) THEN Len(vm.stack) ELSE vm.frames[f + 1].base
       IN  /\ frame.pc \in 1..Len(proto.code) + 1
           /\ frame.base + proto.localCount <= top
           /\ Len(frame.upvalues) = Len(proto.upvalues)
           /\ \A u \in DOMAIN frame.upvalues : frame.upvalues[u] \in DOMAIN vm.cells
           /\ \A i \in 1..proto.localCount : ~IsHandle(vm.stack[frame.base + i])
  /\ \A i \in DOMAIN vm.stack : vm.stack[i][1] = SharedKind => vm.stack[i][2] \in DOMAIN vm.cells
  /\ \A i \in DOMAIN vm.cells : vm.cells[i][1] \notin {SharedKind, HandleKind}
  /\ ~Ended(vm) =>
       \A i \in DOMAIN vm.inner : /\ vm.inner[i].frameLen < Len(vm.frames)
                                  /\ vm.inner[i].stackLen <= vm.frames[vm.inner[i].frameLen + 1].base
                                  /\ i > 1 => vm.inner[i - 1].frameLen <= vm.inner[i].frameLen

(* The compiler and the interpreter together do what the source means:     *)
(* whatever slots, jumps, captured cells, iterators, unwound pcalls and    *)
(* comparators there were on the way, a run that ends by itself has        *)
(* returned, logged and left in its tables what it means (Language), or    *)
(* failed with its error.                                                  *)
SameMeaning ==
  Ended(vm) /\ ~Spent(vm) =>
    LET meant == MeaningOf(Sources[source], Answers)
    IN  /\ (vm.fault = "raised") = (meant.fault = "raised")
        /\ Opaque(IF vm.fault = "raised" THEN vm.error ELSE vm.answer)
             = Opaque(IF vm.fault = "raised" THEN meant.error ELSE meant.v)
        /\ vm.logs = meant.logs
        /\ Seen(vm.heap) = Seen(meant.heap)

(* A limit only cuts a run short: when the gas or the memory runs out, no  *)
(* pcall catches it to go on (is_unrecoverable).  What the program has     *)
(* logged is the beginning of what it logs without a limit, whatever tools *)
(* answer to calls it did not get to (here, with errors).                  *)
LimitsOnlyCut ==
  Ended(vm) /\ source \notin Endless =>
    LET refused == [i \in 1..3 |-> [ok |-> FALSE, table |-> EmptyTable]]
    IN  IsPrefix(vm.logs, MeaningOf(Sources[source], Answers \o refused).logs)

(* What the compiler emits balances the operand stack the way the verifier *)
(* demands (one depth for each instruction, nothing taken that is not      *)
(* there, a return that finds exactly its value), and the depth the        *)
(* verifier computes is the one the interpreter has, however it got to the *)
(* instruction: by jumps, after calls, out of loops, past unwound errors.  *)
DepthsAsVerified ==
  Running /\ InCode =>
    LET here == {p \in depths[Frame(vm).proto + 1] : p[1] = Frame(vm).pc}
    IN  /\ here = {<<Frame(vm).pc, Operands>>}
        /\ ~Starved(Here, Operands)
        /\ Here.op = "Ret" => Operands = Here.n

(* What a step may do to the pcalls that run: e.stackLen and e.frameLen    *)
(* are the heights of stack and frames a pcall was called at (ExecPCall).  *)
PcallStep ==
  \A i \in DOMAIN vm.inner :
    vm.inner[i].kind = "pcall" /\ Len(vm'.inner) >= i - 1
    => LET e == vm.inner[i]
       IN  /\ SubSeq(vm'.stack, 1, e.stackLen) = SubSeq(vm.stack, 1, e.stackLen)
           /\ SubSeq(vm'.frames, 1, e.frameLen) = SubSeq(vm.frames, 1, e.frameLen)
           /\ Len(vm'.inner) >= i => vm'.inner[i] = e
           /\ Len(vm'.inner) = i - 1 =>
                /\ Len(vm'.stack) = e.stackLen + 2 /\ Len(vm'.frames) = e.frameLen
                /\ vm'.stack[e.stackLen + 1] \in {TrueVal, FalseVal}

(* A pcall gives its caller two values and changes nothing else of its: as *)
(* long as it runs, whatever it calls and catches, the frames and the      *)
(* stack below its checkpoint stay as they are, and when it ends, however  *)
(* deep the error was raised, they are what is left, with the result and   *)
(* what it says of how it ended on top (ExecPCall, 816-915).               *)
PcallReturns == [][PcallStep]_vars

(* max_call_depth bounds the frames but for those of comparators: a call   *)
(* that would go deeper is an error, from a pcall too.                     *)
Sorts(inner, n) == Cardinality({i \in 1..n : inner[i].kind = "sort"})
Comparators(m)  == Sorts(m.inner, Len(m.inner))
DepthLimited    == Len(vm.frames) <= MaxCallDepth + Comparators(vm)

(* Every run ends, also that of a program that loops for ever: each        *)
(* instruction is charged for before it is executed.                       *)
RunEnds == <>Ended(vm)

-----------------------------------------------------------------------------
(* max_call_depth bounds the call stack.  It does not: a comparator is     *)
(* called without the check (call_comparator, engine.rs:1406), and a pcall *)
(* of table.sort is made without it too, so a comparator that sorts goes   *)
(* as deep as the gas lets it.                                             *)
DepthBounded == Len(vm.frames) <= MaxCallDepth

(* "closures capture by value at creation time" (engine.rs:789-791): what  *)
(* a closure captured changes by an assignment of the closure's own code   *)
(* only.  It does not: the slot stays shared with the closure when its     *)
(* variable is gone, so that a later variable in the slot writes to it.    *)
CapturedByValue ==
  [][\A c \in DOMAIN vm.cells : vm'.cells[c] # vm.cells[c] => Executing({"StoreUp"})]_vars
=============================================================================
