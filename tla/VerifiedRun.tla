---------------------------- MODULE VerifiedRun ----------------------------
(***************************************************************************)
(* A prototype is verified and, once accepted, run: a frame of the         *)
(* interpreter (vm/engine.rs) with its program counter and the number of   *)
(* operands it holds above its locals.  The stack is shared with the       *)
(* frames below, so an instruction that takes an operand that is not there *)
(* takes a local or an operand of the caller instead, without an error.    *)
(***************************************************************************)
EXTENDS Verifier, FiniteSets

VARIABLES
  frame,    \* "none" before the run, then "running", "returned" or "raised"
  pc,
  height    \* operands of the frame

vars == <<code, depths, worklist, verdict, frame, pc, height>>

Init == VerifierInit /\ frame = "none" /\ pc = 1 /\ height = 0

Verify == VerifierNext /\ UNCHANGED <<frame, pc, height>>

(* execute and push_call_frame: a frame starts with no operands.           *)
Enter ==
  /\ verdict = "ok" /\ frame = "none"
  /\ frame' = "running" /\ pc' = 1 /\ height' = 0
  /\ UNCHANGED verifierVars

Executing == frame = "running" /\ pc \in Pcs

Execute(m) ==
  /\ Executing /\ m \in Moves(code[pc])
  /\ height' = height - m.takes + m.gives
  /\ pc' = IF m.jumps THEN Target(pc, code[pc]) ELSE pc + 1
  /\ UNCHANGED <<verifierVars, frame>>

(* do_return: the results are taken off, then whatever the frame has left. *)
Return ==
  /\ Executing /\ code[pc].op = "Ret"
  /\ frame' = "returned" /\ height' = height - code[pc].n
  /\ UNCHANGED <<verifierVars, pc>>

(* Past the end of the code the interpreter returns nil. *)
ReturnAtEnd ==
  /\ frame = "running" /\ pc = Len(code) + 1
  /\ frame' = "returned"
  /\ UNCHANGED <<verifierVars, pc, height>>

(* An error ends the frame: Error itself, a value of the wrong type, a     *)
(* quota, gas, or an error of the callee.                                  *)
RaiseError ==
  /\ Executing /\ frame' = "raised"
  /\ UNCHANGED <<verifierVars, pc, height>>

Next ==
  \/ Verify \/ Enter \/ Return \/ ReturnAtEnd \/ RaiseError
  \/ Executing /\ \E m \in Moves(code[pc]) : Execute(m)

Spec == Init /\ [][Next]_vars

(* verify is a loop that waits for nothing. *)
FairSpec == Spec /\ WF_vars(Verify)

-----------------------------------------------------------------------------
TypeOK ==
  /\ code \in Seq(Instructions)
  /\ depths \in [Pcs -> 0..MaxStackDepth \cup {Unknown}]
  /\ worklist \in Seq(Pcs \X (0..MaxStackDepth))
  /\ verdict \in Verdicts
  /\ frame \in {"none", "running", "returned", "raised"}
  /\ pc \in Nat \ {0}
  /\ height \in Int

(* Accepted code keeps to its own operands on every path: an instruction   *)
(* finds what it takes, Ret has exactly its results left, and neither the  *)
(* stack nor the code is overrun (verify against dispatch).                *)
AcceptedIsSafe ==
  frame = "running" =>
    /\ pc \in 1..Len(code) + 1
    /\ height \in 0..MaxStackDepth
    /\ pc \in Pcs => ~Starved(code[pc], height)
    /\ pc \in Pcs /\ code[pc].op = "Ret" => height = code[pc].n

(* What a fault of the depth analysis says of c happens on some path.      *)
DepthFaults == Faults \ {"OperandOob", "JumpOutOfRange"}

Happens(c, fault) ==
  LET reached == ReachedIn(c, Len(c) + 1)
      visited == {s \in reached : s[1] \in 1..Len(c)}
  IN  \/ fault = "StackUnderflow" /\ \E s \in visited : Starved(c[s[1]], s[2])
      \/ fault = "StackOverflow" /\ \E s \in reached : s[2] > MaxStackDepth
      \/ /\ fault = "RetStackMismatch"
         /\ \E s \in visited : c[s[1]].op = "Ret" /\ s[2] # c[s[1]].n
      \/ /\ fault = "StackDepthMismatch"
         /\ \E s, t \in reached : s[1] = t[1] /\ s[2] # t[2]

(* The depth analysis rejects nothing that is sound: what it found wrong   *)
(* happens on some path through the code (stack_analysis).                 *)
RejectionIsReal == verdict \in DepthFaults => Happens(code, verdict)

(* verify comes to a verdict on every code, loops included.                *)
VerifyEnds == <>(verdict \notin {"structure", "analysis"})

(* verifier.rs says of a jump one past the last instruction: "inclusive -- *)
(* landing past last instruction is ok for forward jumps that exit the     *)
(* function".                                                              *)
LandingPastEndIsOk == verdict # "panic"

-----------------------------------------------------------------------------
(* The inductive invariant behind AcceptedIsSafe.                          *)

Listed(wl) == {wl[k] : k \in 1..Len(wl)}

(* A frame with h operands may go on at q. *)
Lands(ds, q, h) ==
  /\ h \in 0..MaxStackDepth
  /\ \/ q \in Pcs /\ ds[q] = h
     \/ q = Len(code) + 1

(* The instruction at p is sound at depth h, and the depths hold after it. *)
Settled(ds, p, h) ==
  /\ ~Starved(code[p], h)
  /\ code[p].op = "Ret" => h = code[p].n
  /\ \A m \in Moves(code[p]) :
       Lands(ds, IF m.jumps THEN Target(p, code[p]) ELSE p + 1, h - m.takes + m.gives)

(* Nothing is found before the analysis starts; in it, every depth found   *)
(* is settled or waits on the worklist.                                    *)
Certificate ==
  /\ verdict = "structure" => worklist = << >> /\ \A p \in Pcs : depths[p] = Unknown
  /\ verdict \in {"analysis", "ok"} =>
       /\ code # << >> => depths[1] = 0
       /\ \A p \in Pcs : depths[p] # Unknown =>
            <<p, depths[p]>> \in Listed(worklist) \/ Settled(depths, p, depths[p])
  /\ verdict = "ok" => worklist = << >>

(* The run follows the depths.                                             *)
FollowsDepths ==
  /\ frame # "none" => verdict = "ok"
  /\ frame = "running" => Lands(depths, pc, height)

SafetyInv == TypeOK /\ Certificate /\ FollowsDepths

(* The inductive invariant behind RejectionIsReal: a depth is found one    *)
(* instruction after another, so the paths to all of them are no longer    *)
(* than the depths are many.                                               *)
Found(ds) == {p \in DOMAIN ds : ds[p] # Unknown}

Shown(c, ds) ==
  \A p \in Found(ds) : <<p, ds[p]>> \in ReachedIn(c, Cardinality(Found(ds)) - 1)

RejectionInv ==
  /\ SafetyInv /\ RejectionIsReal
  /\ verdict = "analysis" => Shown(code, depths)
=============================================================================
