---------------------------- MODULE ToolRegistry ----------------------------
(***************************************************************************)
(* One VM run as its tool calls see it: the gas meter (vm/gas.rs), the     *)
(* quotas and counters of ToolRegistry (host/tool_registry.rs) and the     *)
(* records of the Transcript (host/transcript.rs).                         *)
(*                                                                         *)
(* The state of a run is one record v, and After(v, op, a) is the state    *)
(* that operation op of the program leaves when the host answers a.  It is *)
(* a function because the VM is meant to be one: the Replay module runs it *)
(* twice, once against a live host and once against a tape.                *)
(***************************************************************************)
EXTENDS Integers, Sequences

CONSTANTS
  Calls,            \* (tool name, canonical arguments) pairs
  ArgBytes,         \* [Calls -> Nat]: length of the canonical arguments
  Tables,           \* response tables, up to what a program can observe of one
  Bytes,            \* canonical encodings of tables
  NoBytes,          \* "this table has no canonical encoding"
  EmptyBytes,       \* the empty byte string an error record carries
  Canon,            \* [Tables -> Bytes \cup {NoBytes}]: canonical_serialize_table
  NoTable,          \* "these bytes do not decode to a table"
  Decode,           \* [Bytes -> Tables \cup {NoTable}]: canonical_deserialize
  Size,             \* [Bytes -> Nat]: length of an encoding
  Messages,         \* error messages a host may return, "" among them
  WorkCosts,        \* gas of the instructions between two tool calls
  GasLimit, MaxToolCalls, MaxToolBytesIn, MaxToolBytesOut,   \* VmConfig
  BaseInstruction, ToolCallBase, PcallUnwind                 \* gas_cost

(***************************************************************************)
(* Decoding a canonical encoding yields a table that can be encoded again, *)
(* though not always to the same bytes: a key such as "10" comes back as   *)
(* an integer.  Every instruction costs gas.                               *)
(***************************************************************************)
ASSUME CanonAssumption ==
  /\ EmptyBytes \notin Bytes /\ NoBytes \notin Bytes /\ NoTable \notin Tables
  /\ Canon \in [Tables -> Bytes \cup {NoBytes}]
  /\ Decode \in [Bytes -> Tables \cup {NoTable}]
  /\ \A b \in Bytes : Decode[b] \in Tables => Canon[Decode[b]] \in Bytes
  /\ Size \in [Bytes -> Nat]

ASSUME MeterAssumption ==
  /\ ArgBytes \in [Calls -> Nat]
  /\ WorkCosts \subseteq Nat
  /\ GasLimit \in Nat /\ MaxToolCalls \in Nat
  /\ MaxToolBytesIn \in Nat /\ MaxToolBytesOut \in Nat
  /\ BaseInstruction \in Nat \ {0} /\ ToolCallBase \in Nat /\ PcallUnwind \in Nat

-----------------------------------------------------------------------------
(* What a program can do between two observations.  pcall tells whether a  *)
(* pcall is there to catch an error the operation raises.                  *)

Work(n)       == [kind |-> "work", gas |-> n]
ToolCall(c,p) == [kind |-> "call", call |-> c, pcall |-> p]
BadCall(p)    == [kind |-> "badcall", pcall |-> p]  \* arguments without an encoding
Return        == [kind |-> "return"]

Ops ==
  {Work(n) : n \in WorkCosts} \cup {ToolCall(c,p) : c \in Calls, p \in BOOLEAN}
    \cup {BadCall(p) : p \in BOOLEAN} \cup {Return}

(* What a host answers, and what the program observes of an operation.     *)
OkAnswer(t)  == [kind |-> "ok", val |-> t]
ErrAnswer(m) == [kind |-> "err", val |-> m]
NoAnswer     == [kind |-> "none", val |-> ""]

LiveAnswers == {OkAnswer(t) : t \in Tables} \cup {ErrAnswer(m) : m \in Messages}

Result(kind, val) == [kind |-> kind, val |-> val]
NoResult     == Result("none", "")
GasExhausted == Result("GasExhausted", "")

-----------------------------------------------------------------------------
(* Vm::new.                                                                *)
NewVm == [ remaining |-> GasLimit, calls_made |-> 0, total_bytes_in |-> 0,
           total_bytes_out |-> 0, records |-> << >>,
           status |-> "running", result |-> NoResult ]

(* Mutant: the registry's counters survive into the next execution.        *)
ResetMeterless(v) == [ v EXCEPT !.records = << >>, !.status = "running", !.result = NoResult ]

(* The reset at the head of Vm::execute: stack, logs, transcript and       *)
(* registry counters, but neither meter.                                   *)
Reset(v) == [ NewVm EXCEPT !.remaining = v.remaining ]

(* GasMeter::charge.  Running out is final: no pcall catches it.           *)
Charge(v, n) ==
  IF n > v.remaining
  THEN [v EXCEPT !.remaining = 0, !.status = "failed", !.result = GasExhausted]
  ELSE [v EXCEPT !.remaining = @ - n]

(* A recoverable error: the nearest pcall pays for the unwinding and gives *)
(* the error to the program, or the run ends with it.                      *)
Raise(v, err, pcall) ==
  IF pcall THEN Charge([v EXCEPT !.result = err], PcallUnwind)
           ELSE [v EXCEPT !.status = "failed", !.result = err]

(* Transcript::record_ok_attested and record_error.                        *)
OkRecord(c, b, cost) ==
  [ call |-> c, response_canonical |-> b, error_message |-> "",
    gas_charged |-> cost, status |-> "Ok" ]
ErrorRecord(c, m) ==
  [ call |-> c, response_canonical |-> EmptyBytes, error_message |-> m,
    gas_charged |-> 0, status |-> "Error" ]
Recorded(v, r) == [v EXCEPT !.records = Append(@, r)]

-----------------------------------------------------------------------------
(* ToolRegistry::call, in the order of its steps.                          *)

(* Steps 2 and 3: the quotas that refuse a call before the host sees it.   *)
OverCallsLate(v)  == v.calls_made > MaxToolCalls   \* mutant: off by one
OverCalls(v)      == v.calls_made >= MaxToolCalls
OverBytesIn(v, c) == v.total_bytes_in + ArgBytes[c] > MaxToolBytesIn

(* Step 4. *)
Counted(v, c) == [v EXCEPT !.calls_made = @ + 1, !.total_bytes_in = @ + ArgBytes[c]]

(* Mutants: the response is recorded only once the bytes-out quota allows  *)
(* it; the quota compares each response alone.                             *)
RespondedThenRecorded(v, c, t, pcall) ==
  LET b    == Canon[t]
      cost == ToolCallBase + ArgBytes[c] + Size[b]
  IN  IF b = NoBytes
        THEN Raise(v, Result("RuntimeError", "tool response"), pcall)
      ELSE IF v.total_bytes_out + Size[b] > MaxToolBytesOut
        THEN Raise(v, Result("RuntimeError", "tool output bytes limit exceeded"), pcall)
      ELSE Charge([Recorded(v, OkRecord(c, b, cost)) EXCEPT
                     !.total_bytes_out = @ + Size[b], !.result = Result("ok", t)], cost)

RespondedUncounted(v, c, t, pcall) ==
  LET b    == Canon[t]
      cost == ToolCallBase + ArgBytes[c] + Size[b]
      w    == Recorded(v, OkRecord(c, b, cost))
  IN  IF b = NoBytes
        THEN Raise(v, Result("RuntimeError", "tool response"), pcall)
      ELSE IF Size[b] > MaxToolBytesOut
        THEN Raise(w, Result("RuntimeError", "tool output bytes limit exceeded"), pcall)
      ELSE Charge([w EXCEPT !.result = Result("ok", t)], cost)

(* Step 6: the host answered with table t.  The call is recorded before    *)
(* the bytes-out quota and the gas charge can fail.                        *)
Responded(v, c, t, pcall) ==
  LET b    == Canon[t]
      cost == ToolCallBase + ArgBytes[c] + Size[b]
      w    == Recorded(v, OkRecord(c, b, cost))
  IN  IF b = NoBytes
        THEN Raise(v, Result("RuntimeError", "tool response"), pcall)
      ELSE IF v.total_bytes_out + Size[b] > MaxToolBytesOut
        THEN Raise(w, Result("RuntimeError", "tool output bytes limit exceeded"), pcall)
      ELSE Charge([w EXCEPT !.total_bytes_out = @ + Size[b],
                            !.result = Result("ok", t)], cost)

(* Step 7: the host answered with an error. *)
Rejected(v, c, m, pcall) ==
  Raise(Recorded(v, ErrorRecord(c, m)), Result("ToolError", m), pcall)

(* The host is asked when neither quota refuses the call. *)
Asks(v, c) == ~OverCalls(v) /\ ~OverBytesIn(v, c)

Called(v, c, pcall, a) ==
  IF OverCalls(v)
    THEN Raise(v, Result("RuntimeError", "tool call limit exceeded"), pcall)
  ELSE IF OverBytesIn(v, c)
    THEN Raise(v, Result("RuntimeError", "tool input bytes limit exceeded"), pcall)
  ELSE IF a.kind = "ok"
    THEN Responded(Counted(v, c), c, a.val, pcall)
    ELSE Rejected(Counted(v, c), c, a.val, pcall)

-----------------------------------------------------------------------------
(* Each operation starts with the charge of its instruction (dispatch).    *)
(* Consults says that it reaches HostInterface::call_tool.                 *)
Consults(v, op) ==
  /\ op.kind = "call"
  /\ BaseInstruction <= v.remaining
  /\ Asks(v, op.call)

(* Mutant: an instruction pays its own cost only.                          *)
AfterBaseless(v, op, a) ==
  CASE op.kind = "work"    -> Charge(v, op.gas)
    [] op.kind = "return"  -> [v EXCEPT !.status = "returned"]
    [] op.kind = "badcall" -> Raise(v, Result("RuntimeError", "tool args"), op.pcall)
    [] op.kind = "call"    -> Called(v, op.call, op.pcall, a)

After(v, op, a) ==
  LET w == Charge(v, BaseInstruction) IN
  CASE w.status = "failed"  -> w
    [] w.status # "failed" /\ op.kind = "work"   -> Charge(w, op.gas)
    [] w.status # "failed" /\ op.kind = "return" -> [w EXCEPT !.status = "returned"]
    [] w.status # "failed" /\ op.kind = "badcall" ->
         Raise(w, Result("RuntimeError", "tool args"), op.pcall)
    [] w.status # "failed" /\ op.kind = "call"   -> Called(w, op.call, op.pcall, a)
=============================================================================
