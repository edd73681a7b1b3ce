------------------------------ MODULE Verifier ------------------------------
(***************************************************************************)
(* The bytecode verifier on one prototype (bytecode/verifier.rs,           *)
(* verify_proto): structural checks, then an abstract interpretation that  *)
(* finds the depth of the operand stack at each instruction with a         *)
(* worklist.  One action per arm of the match in stack_analysis.           *)
(***************************************************************************)
EXTENDS Bytecode

CONSTANTS
  Codes,            \* the codes a prototype may have
  ConstLen,         \* length of its constant pool
  ProtoCount,       \* number of prototypes of the program
  UpvalueCount,     \* upvalue_count
  MaxStackDepth     \* MAX_STACK_DEPTH

ASSUME VerifierAssumption ==
  /\ Codes \subseteq Seq(Instructions)
  /\ ConstLen \in Nat /\ ProtoCount \in Nat /\ UpvalueCount \in Nat
  /\ MaxStackDepth \in Nat

VARIABLES
  code,       \* FunctionProto::code
  depths,     \* the depth at entry to each instruction, where known
  worklist,   \* instructions to visit, with their depths
  verdict     \* of verify_proto: "structure", "analysis" while it runs

verifierVars == <<code, depths, worklist, verdict>>

Unknown == -1
Pcs     == 1..Len(code)

Faults == {"OperandOob", "JumpOutOfRange", "StackUnderflow", "StackOverflow",
           "StackDepthMismatch", "RetStackMismatch"}
Verdicts == Faults \cup {"structure", "analysis", "ok", "panic"}

VerifierInit ==
  /\ code \in Codes
  /\ depths = [pc \in 1..Len(code) |-> Unknown]
  /\ worklist = << >>
  /\ verdict = "structure"

-----------------------------------------------------------------------------
(* structural_checks, check_jump_target and jump_target: a jump may land   *)
(* one past the last instruction.                                          *)

OperandOk(i) ==
  /\ i.op \in ConstLoads \cup FieldOps => i.n < ConstLen
  /\ i.op \in ProtoLoads => i.n < ProtoCount
  /\ i.op \in UpvalueOps => i.n < UpvalueCount

JumpOk(pc) == code[pc].op \in Jumps => Target(pc, code[pc]) \in 1..Len(code) + 1

(* The first instruction that fails a check decides the error. *)
StructuralChecks ==
  /\ verdict = "structure"
  /\ LET bad == {pc \in Pcs : ~OperandOk(code[pc]) \/ ~JumpOk(pc)}
     IN  \/ /\ bad = {} /\ code = << >>
            /\ verdict' = "ok" /\ UNCHANGED <<depths, worklist>>
         \/ /\ bad = {} /\ code # << >>
            /\ verdict' = "analysis"
            /\ depths' = [depths EXCEPT ![1] = 0] /\ worklist' = <<<<1, 0>>>>
         \/ \E pc \in bad :
              /\ \A q \in bad : pc <= q
              /\ verdict' = IF OperandOk(code[pc]) THEN "JumpOutOfRange" ELSE "OperandOob"
              /\ UNCHANGED <<depths, worklist>>
  /\ UNCHANGED code

-----------------------------------------------------------------------------
(* The state of stack_analysis as its helpers see it.                      *)

Analysis(ds, wl, v) == [depths |-> ds, worklist |-> wl, verdict |-> v]
Failed(st, fault)   == [st EXCEPT !.verdict = fault]

(* Mutant: an instruction already scheduled is visited again. *)
ScheduleAgain(st, pc, depth) ==
  IF st.verdict # "analysis" THEN st
  ELSE IF pc \notin DOMAIN st.depths THEN Failed(st, "panic")
  ELSE IF st.depths[pc] \notin {Unknown, depth} THEN Failed(st, "StackDepthMismatch")
  ELSE Analysis([st.depths EXCEPT ![pc] = depth],
                Append(st.worklist, <<pc, depth>>), "analysis")

(* schedule, after which an error returns at once.  depths has an element  *)
(* per instruction and none past the end: indexing it there panics.        *)
Schedule(st, pc, depth) ==
  IF st.verdict # "analysis" THEN st
  ELSE IF pc \notin DOMAIN st.depths THEN Failed(st, "panic")
  ELSE IF st.depths[pc] = Unknown
    THEN Analysis([st.depths EXCEPT ![pc] = depth],
                  Append(st.worklist, <<pc, depth>>), "analysis")
  ELSE IF st.depths[pc] # depth THEN Failed(st, "StackDepthMismatch")
  ELSE st

(* stack_effect: the operands a non-branching instruction requires, and    *)
(* the net change it makes.                                                *)
Effect(min, delta) == [min |-> min, delta |-> delta]

(* Mutant: an instruction requires no more than its net change consumes. *)
StackEffectNet(i) ==
  LET delta == CASE i.op \in Pushes \cup {"Dup"} -> 1
                 [] i.op \in Stores -> 0 - 1
                 [] i.op \in {"Nop", "GetField"} \cup Unary -> 0
                 [] i.op \in {"GetTable", "ToolCall"} \cup Binary -> 0 - 1
                 [] i.op = "SetTable" -> 0 - 3
                 [] i.op = "SetField" -> 0 - 2
                 [] i.op = "Concat" -> 0 - (i.n - 1)
                 [] i.op = "Call" -> 0 - i.n
                 [] i.op = "PCall" -> 1 - i.n
  IN  Effect(IF delta < 0 THEN 0 - delta ELSE 0, delta)

StackEffect(i) ==
  CASE i.op = "Nop"      -> Effect(0, 0)
    [] i.op \in Pushes   -> Effect(0, 1)
    [] i.op \in Stores   -> Effect(1, 0 - 1)
    [] i.op = "Dup"      -> Effect(1, 1)
    [] i.op = "GetTable" -> Effect(2, 0 - 1)
    [] i.op = "SetTable" -> Effect(3, 0 - 3)
    [] i.op = "GetField" -> Effect(1, 0)
    [] i.op = "SetField" -> Effect(2, 0 - 2)
    [] i.op \in Binary   -> Effect(2, 0 - 1)
    [] i.op \in Unary    -> Effect(1, 0)
    [] i.op = "Concat"   -> Effect(i.n, 0 - (i.n - 1))
    [] i.op = "Call"     -> Effect(i.n + 1, 0 - i.n)
    [] i.op = "PCall"    -> Effect(i.n + 1, 1 - i.n)
    [] i.op = "ToolCall" -> Effect(2, 0 - 1)

-----------------------------------------------------------------------------
(* One turn of the worklist loop.                                          *)

Here   == code[Head(worklist)[1]]
At     == Head(worklist)[1]
Depth  == Head(worklist)[2]
Popped == Analysis(depths, Tail(worklist), "analysis")

Visiting(ops) == verdict = "analysis" /\ worklist # << >> /\ Here.op \in ops

(* An entry whose depth is no longer the recorded one is skipped.          *)
Becomes(st) ==
  LET now == IF depths[At] = Depth THEN st ELSE Popped
  IN  /\ depths' = now.depths /\ worklist' = now.worklist /\ verdict' = now.verdict
      /\ UNCHANGED code

Requires(n, st) == IF Depth < n THEN Failed(Popped, "StackUnderflow") ELSE st

VisitRet ==
  /\ Visiting({"Ret"})
  /\ Becomes(IF Depth # Here.n THEN Failed(Popped, "RetStackMismatch") ELSE Popped)

VisitError == Visiting({"Error"}) /\ Becomes(Requires(1, Popped))

(* Mutant: the instruction after an unconditional jump is scheduled too. *)
VisitJmpThrough ==
  /\ Visiting({"Jmp"})
  /\ Becomes(Schedule(Schedule(Popped, Target(At, Here), Depth), At + 1, Depth))

VisitJmp == Visiting({"Jmp"}) /\ Becomes(Schedule(Popped, Target(At, Here), Depth))

VisitCondJump ==
  /\ Visiting(CondJumps)
  /\ Becomes(Requires(1, Schedule(Schedule(Popped, Target(At, Here), Depth - 1),
                                  At + 1, Depth - 1)))

VisitShortCircuit ==
  /\ Visiting(ShortCircuits)
  /\ Becomes(Requires(1, Schedule(Schedule(Popped, Target(At, Here), Depth),
                                  At + 1, Depth)))

VisitIterInit ==
  /\ Visiting(IterInits)
  /\ Becomes(Requires(1, Schedule(Schedule(Popped, Target(At, Here), Depth - 1),
                                  At + 1, Depth)))

(* Mutant: the key and value an iteration pushes are not bounded. *)
VisitIterNextUnbounded ==
  /\ Visiting({"IterNext"})
  /\ Becomes(Requires(1,
       Schedule(Schedule(Popped, Target(At, Here), Depth - 1), At + 1, Depth + 2)))

VisitIterNext ==
  /\ Visiting({"IterNext"})
  /\ LET done == Schedule(Popped, Target(At, Here), Depth - 1)
     IN  Becomes(Requires(1,
           IF done.verdict # "analysis" THEN done
           ELSE IF Depth + 2 > MaxStackDepth THEN Failed(done, "StackOverflow")
           ELSE Schedule(done, At + 1, Depth + 2)))

(* The other instructions, with apply_delta: the last of a code has no     *)
(* successor, the interpreter returns there by itself.                     *)
VisitOther ==
  /\ Visiting((Plain \cup Indexed \cup {"Concat", "Call", "PCall"}) \ {"Error"})
  /\ LET e   == StackEffect(Here)
         out == Depth + e.delta
     IN  Becomes(Requires(e.min,
           IF out < 0 THEN Failed(Popped, "StackUnderflow")
           ELSE IF out > MaxStackDepth THEN Failed(Popped, "StackOverflow")
           ELSE IF At + 1 <= Len(code) THEN Schedule(Popped, At + 1, out)
           ELSE Popped))

AnalysisDone ==
  /\ verdict = "analysis" /\ worklist = << >>
  /\ verdict' = "ok" /\ UNCHANGED <<code, depths, worklist>>

VerifierNext ==
  \/ StructuralChecks \/ VisitRet \/ VisitError \/ VisitJmp \/ VisitCondJump
  \/ VisitShortCircuit \/ VisitIterInit \/ VisitIterNext \/ VisitOther \/ AnalysisDone
=============================================================================
