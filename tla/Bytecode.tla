------------------------------ MODULE Bytecode ------------------------------
(***************************************************************************)
(* The instruction set (compiler/proto.rs) and what each instruction does  *)
(* to the operand stack of its frame when the interpreter executes it      *)
(* (vm/engine.rs, dispatch).  Values are left out: an instruction that     *)
(* depends on one has several outcomes.                                    *)
(*                                                                         *)
(* Program counters count from 1, so a code of length n has instructions   *)
(* 1..n and n + 1 is one past its end.                                     *)
(***************************************************************************)
EXTENDS Integers, Sequences

ConstLoads  == {"PushK"}
FieldOps    == {"GetField", "SetField"}
UpvalueOps  == {"LoadUp", "StoreUp"}
ProtoLoads  == {"Closure"}
PlainPushes == {"PushNil", "PushTrue", "PushFalse", "LoadLocal", "NewTable"}
Pushes      == ConstLoads \cup ProtoLoads \cup PlainPushes \cup {"LoadUp"}
Stores      == {"Pop", "StoreLocal", "StoreUp", "Log"}
Binary      == {"Add", "Sub", "Mul", "IDiv", "Mod", "Eq", "Ne", "Lt", "Le", "Gt", "Ge"}
Unary       == {"Neg", "Not", "Len"}
CondJumps   == {"JmpIf", "JmpIfNot"}
ShortCircuits == {"And", "Or"}
IterInits   == {"IterInitSorted", "IterInitArray"}
Jumps       == {"Jmp", "IterNext"} \cup CondJumps \cup ShortCircuits \cup IterInits
Indexed     == ConstLoads \cup ProtoLoads \cup FieldOps \cup UpvalueOps
Counted     == {"Call", "PCall", "Ret"}
Plain       == {"Nop", "Pop", "Dup", "StoreLocal", "GetTable", "SetTable", "ToolCall",
                "Log", "Error"} \cup PlainPushes \cup Binary \cup Unary

(* An instruction and its operand: an index, a number of values, or a jump *)
(* offset.  A local's slot is left out, with the locals.  The compiler     *)
(* emits Concat for two values or more.                                    *)
Instructions ==
  [op : Plain, n : {0}] \cup [op : Indexed \cup Counted, n : Nat]
    \cup [op : {"Concat"}, n : Nat \ {0}] \cup [op : Jumps, n : Int]

Bare(op)           == [op |-> op, n |-> 0]
Instruction(op, n) == [op |-> op, n |-> n]

(* Offsets are relative to the instruction after the jump. *)
Target(pc, i) == pc + 1 + i.n

-----------------------------------------------------------------------------
(* An outcome of an instruction that does not raise an error: the operands *)
(* it takes off the stack (a peek takes and gives back), those it leaves,  *)
(* and whether it jumps.                                                   *)
Move(takes, gives, jumps) == [takes |-> takes, gives |-> gives, jumps |-> jumps]

(* dispatch.  A call that returns has left one result, a pcall two.  Ret   *)
(* and Error end the frame: they are not moves.                            *)
Moves(i) ==
  CASE i.op = "Nop"            -> {Move(0, 0, FALSE)}
    [] i.op \in Pushes         -> {Move(0, 1, FALSE)}
    [] i.op \in Stores         -> {Move(1, 0, FALSE)}
    [] i.op = "Dup"            -> {Move(1, 2, FALSE)}
    [] i.op = "GetTable"       -> {Move(2, 1, FALSE)}
    [] i.op = "SetTable"       -> {Move(3, 0, FALSE)}
    [] i.op = "GetField"       -> {Move(1, 1, FALSE)}
    [] i.op = "SetField"       -> {Move(2, 0, FALSE)}
    [] i.op \in Binary         -> {Move(2, 1, FALSE)}
    [] i.op \in Unary          -> {Move(1, 1, FALSE)}
    [] i.op = "Concat"         -> {Move(i.n, 1, FALSE)}
    [] i.op = "Call"           -> {Move(i.n + 1, 1, FALSE)}
    [] i.op = "PCall"          -> {Move(i.n + 1, 2, FALSE)}
    [] i.op = "ToolCall"       -> {Move(2, 1, FALSE)}
    [] i.op = "Jmp"            -> {Move(0, 0, TRUE)}
    [] i.op \in CondJumps      -> {Move(1, 0, TRUE), Move(1, 0, FALSE)}
    [] i.op \in ShortCircuits  -> {Move(1, 1, TRUE), Move(1, 1, FALSE)}
    [] i.op \in IterInits      -> {Move(1, 0, TRUE), Move(1, 1, FALSE)}
    [] i.op = "IterNext"       -> {Move(1, 0, TRUE), Move(1, 3, FALSE)}
    [] i.op \in {"Ret", "Error"} -> {}

(* With h operands, an instruction takes one that is not there.            *)
Starved(i, h) == \/ \E m \in Moves(i) : h < m.takes
                 \/ i.op = "Error" /\ h < 1
                 \/ i.op = "Ret" /\ h < i.n

(* Where a frame of the code c at s = <<pc, operands>> may be an           *)
(* instruction later, and the states it can reach in k instructions,       *)
(* errors aside.                                                           *)
Successors(c, s) ==
  {<<IF m.jumps THEN Target(s[1], c[s[1]]) ELSE s[1] + 1, s[2] - m.takes + m.gives>> :
     m \in Moves(c[s[1]])}

ReachedIn(c, k) ==
  LET Reached[j \in Nat] ==
        IF j = 0 THEN {<<1, 0>>}
        ELSE LET before == Reached[j - 1]
             IN  before \cup UNION {Successors(c, s) : s \in {r \in before : r[1] \in 1..Len(c)}}
  IN  Reached[k]
=============================================================================
