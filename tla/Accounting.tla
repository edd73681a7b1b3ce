----------------------------- MODULE Accounting -----------------------------
(***************************************************************************)
(* What the meters and counters of a run say about its trace, the run      *)
(* being recorded or replayed.                                             *)
(***************************************************************************)
EXTENDS Replay, FiniteSets, Functions

(* The steps that reached the host, and those that gave its response to    *)
(* the program.                                                            *)
Asked  == {i \in 1..Len(trace) : trace[i].ans.kind # "none"}
Served == {i \in Asked : trace[i].ans.kind = "ok" /\ trace[i].vm.result.kind = "ok"}

ArgsOf(i)     == ArgBytes[trace[i].op.call]
ResponseOf(i) == Size[Canon[trace[i].ans.val]]
CostOf(i)     == ToolCallBase + ArgsOf(i) + ResponseOf(i)

(* The calls whose response has no encoding: counted, but not recorded.    *)
Lost == {i \in Asked : trace[i].ans.kind = "ok" /\ Canon[trace[i].ans.val] = NoBytes}

(* Every call that reaches the host is counted and recorded, answered or   *)
(* refused afterwards, except those that are lost; a replay loses none     *)
(* (ToolRegistry::call steps 4 and 6a).                                    *)
CallsAccounted ==
  /\ vm.calls_made = Cardinality(Asked)
  /\ Len(vm.records) = vm.calls_made - Cardinality(Lost)
  /\ vm.total_bytes_in = SumFunction([i \in Asked |-> ArgsOf(i)])
  /\ phase = "replay" => Lost = {}

(* No response reaches the program that the gas meter has not been paid    *)
(* for, nor beyond the bytes-out quota, even when errors are caught and    *)
(* the calls go on (steps 6d and 6e).                                      *)
ServedIsPaid ==
  /\ SumFunction([i \in Served |-> CostOf(i)]) <= GasLimit - vm.remaining
  /\ SumFunction([i \in Served |-> ResponseOf(i)]) <= MaxToolBytesOut

(* engine.rs says at the head of execute: "Reset state for fresh           *)
(* execution."  A run that is about to begin has its VmConfig's gas.       *)
FreshExecution == Running /\ trace = << >> => vm = NewVm

(* tape.rs says: "The replay is bit-for-bit identical to the dry run (same *)
(* gas, same memory, same return value)".                                  *)
BitForBit ==
  phase = "replay" /\ ~changed /\ TapeFits
    => /\ Len(trace) <= Len(recorded)
       /\ Observed(trace) = Observed(SubSeq(recorded, 1, Len(trace)))
=============================================================================
