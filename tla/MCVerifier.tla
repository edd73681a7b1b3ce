---------------------------- MODULE MCVerifier ----------------------------
(***************************************************************************)
(* Instances of VerifiedRun for TLC: every code of bounded length over a   *)
(* small alphabet with a representative of each kind of instruction.       *)
(***************************************************************************)
EXTENDS VerifiedRun, SequencesExt

With(ops, ns) == {Instruction(op, n) : op \in ops, n \in ns}

(* Every arm of stack_effect and of stack_analysis, operands in and out of *)
(* range, jumps back, to themselves, forward and out of the code.          *)
Alphabet ==
  With({"Nop", "PushNil", "Pop", "Dup", "GetTable", "SetTable", "Add", "Not",
        "ToolCall", "Error"}, {0})
    \cup With({"PushK", "GetField", "SetField", "Closure", "LoadUp", "StoreUp"}, {0})
    \cup With({"PushK", "Closure", "LoadUp"}, {1})
    \cup With({"Concat"}, {2, 3}) \cup With({"Call"}, {0, 1})
    \cup With({"PCall"}, {0, 2}) \cup With({"Ret"}, {0, 1})
    \cup With({"Jmp", "JmpIf", "And", "IterInitArray", "IterNext"}, {-3, -2, 0, 1})

ShortCodes == BoundedSeq(Alphabet, 3)

(* The instructions loops are made of, long enough for an iteration with a *)
(* branch in its body.                                                     *)
LoopAlphabet ==
  With({"PushNil", "Pop"}, {0}) \cup With({"Ret"}, {0, 1})
    \cup With({"Jmp"}, {-4}) \cup With({"JmpIf"}, {-3, 1})
    \cup With({"IterInitSorted"}, {1, 2}) \cup With({"IterNext"}, {-2, 1, 2})

LoopCodes == [1..5 -> LoopAlphabet]

AllCodes == ShortCodes \cup LoopCodes

(* "function f(x) if x then return 1 end end": the jump of the if lands    *)
(* past the Ret that ends the body.                                        *)
EarlyReturn ==
  {<<Bare("LoadLocal"), Instruction("JmpIfNot", 2), Bare("PushK"), Instruction("Ret", 1)>>}
=============================================================================
