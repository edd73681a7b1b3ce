------------------------------- MODULE Replay -------------------------------
(***************************************************************************)
(* Record and replay.  A program runs on a Vm over a live host (the dry    *)
(* run); its transcript becomes a tape; a program runs again on a new Vm   *)
(* over a TapeHost.  The VM is the one of ToolRegistry both times, so what *)
(* can differ is what the host answers and, then, what the program does.   *)
(*                                                                         *)
(* A program is any deterministic one: in the dry run each operation is    *)
(* arbitrary, and the same program repeats an operation in the replay for  *)
(* as long as it has observed what it observed in the dry run.             *)
(***************************************************************************)
EXTENDS TapeHost

CONSTANTS
  HostAnswers,   \* what the live host may answer
  Strictness,    \* the kinds of TapeHost a replay may use: a set of BOOLEAN
  Changes,       \* whether the replayed program may be another one: ditto
  LegacyTapes,   \* whether the tape may lack its calls: ditto
  MaxRuns        \* bound on the executions of one Vm before the replay

ASSUME ReplayAssumption ==
  /\ HostAnswers \subseteq LiveAnswers
  /\ Strictness \subseteq BOOLEAN /\ Changes \subseteq BOOLEAN
  /\ LegacyTapes \subseteq BOOLEAN
  /\ MaxRuns \in Nat \ {0}

VARIABLES
  phase,         \* "dry" or "replay"
  vm,            \* the run in progress
  trace,         \* its steps so far: operation, answer of the host, vm after
  runs,          \* executions of the dry run's Vm
  recorded,      \* the trace of the run the tape was made from
  changed        \* the replayed program is not the recorded one

vars == <<phase, vm, trace, runs, recorded, changed, tape, cursor, strict, divergence>>

Init ==
  /\ phase = "dry" /\ vm = NewVm /\ trace = << >> /\ runs = 1
  /\ recorded = << >> /\ changed = FALSE
  /\ tape = EmptyTape /\ cursor = 0 /\ strict = FALSE /\ divergence = NoDivergence

Running == vm.status = "running"

Step(op, a, v) == [op |-> op, ans |-> a, vm |-> v]

(* Operation op takes place, the host having answered a if it was asked.   *)
Advance(op, a) ==
  /\ vm' = After(vm, op, a)
  /\ trace' = Append(trace, Step(op, a, vm'))

-----------------------------------------------------------------------------
(* The dry run.                                                            *)

DryOp(op) ==
  /\ phase = "dry" /\ Running
  /\ ~Consults(vm, op)
  /\ Advance(op, NoAnswer)
  /\ UNCHANGED <<phase, runs, recorded, changed, tapeVars>>

DryToolCall(op) ==
  /\ phase = "dry" /\ Running
  /\ Consults(vm, op)
  /\ \E a \in HostAnswers : Advance(op, a)
  /\ UNCHANGED <<phase, runs, recorded, changed, tapeVars>>

(* Vm::execute called again on the same Vm. *)
Execute ==
  /\ phase = "dry" /\ ~Running /\ runs < MaxRuns
  /\ vm' = Reset(vm) /\ trace' = << >> /\ runs' = runs + 1
  /\ UNCHANGED <<phase, recorded, changed, tapeVars>>

-----------------------------------------------------------------------------
(* The replay: Vm::new over a TapeHost with the transcript's tape.         *)

(* Mutant: the replay runs on the Vm of the dry run. *)
StartReplayOnUsedVm ==
  /\ phase = "dry" /\ ~Running
  /\ phase' = "replay"
  /\ recorded' = trace
  /\ vm' = Reset(vm) /\ trace' = << >>
  /\ changed' \in Changes
  /\ \E s \in Strictness, legacy \in LegacyTapes :
       LET t == FromRecords(vm.records)
       IN  Load(IF legacy THEN WithoutCalls(t) ELSE t, s)
  /\ UNCHANGED runs

StartReplay ==
  /\ phase = "dry" /\ ~Running
  /\ phase' = "replay"
  /\ recorded' = trace
  /\ vm' = NewVm /\ trace' = << >>
  /\ changed' \in Changes
  /\ \E s \in Strictness, legacy \in LegacyTapes :
       LET t == FromRecords(vm.records)
       IN  Load(IF legacy THEN WithoutCalls(t) ELSE t, s)
  /\ UNCHANGED runs

(* What a program can tell of a trace. *)
Observed(tr) == [i \in 1..Len(tr) |-> <<tr[i].op, tr[i].vm.result>>]

OnScript ==
  /\ ~changed
  /\ Len(trace) < Len(recorded)
  /\ Observed(trace) = Observed(SubSeq(recorded, 1, Len(trace)))

MayDo(op) == OnScript => op = recorded[Len(trace) + 1].op

ReplayOp(op) ==
  /\ phase = "replay" /\ Running /\ MayDo(op)
  /\ ~Consults(vm, op)
  /\ Advance(op, NoAnswer)
  /\ UNCHANGED <<phase, runs, recorded, changed, tapeVars>>

TapeAnswers == LiveAnswers \cup {ErrAnswer(m) : m \in TapeMessages}

ReplayToolCall(op) ==
  /\ phase = "replay" /\ Running /\ MayDo(op)
  /\ Consults(vm, op)
  /\ \E a \in TapeAnswers : TapeCall(op.call, a) /\ Advance(op, a)
  /\ UNCHANGED <<phase, runs, recorded, changed>>

-----------------------------------------------------------------------------
DryStep    == \E op \in Ops : DryOp(op) \/ DryToolCall(op)
ReplayStep == \E op \in Ops : ReplayOp(op) \/ ReplayToolCall(op)

Next == DryStep \/ Execute \/ StartReplay \/ ReplayStep

Spec == Init /\ [][Next]_vars

(* The interpreter loop of a replay runs by itself: its host is the tape,  *)
(* and nothing it waits for is outside it.  The live host may never answer *)
(* and the embedder may never replay, so nothing is assumed of the rest.   *)
FairSpec == Spec /\ WF_vars(ReplayStep)

-----------------------------------------------------------------------------
(* Properties.                                                             *)

Results ==
  {NoResult, GasExhausted}
    \cup {Result("ok", t) : t \in Tables}
    \cup {Result("ToolError", m) : m \in Messages \cup TapeMessages}
    \cup {Result("RuntimeError", m) :
            m \in {"tool args", "tool response", "tool call limit exceeded",
                   "tool input bytes limit exceeded",
                   "tool output bytes limit exceeded"}}

Records ==
  [ call : Calls, response_canonical : Bytes \cup {EmptyBytes},
    error_message : Messages \cup TapeMessages \cup {""},
    gas_charged : Nat, status : {"Ok", "Error"} ]

VmStates ==
  [ remaining : 0..GasLimit, calls_made : 0..MaxToolCalls,
    total_bytes_in : 0..MaxToolBytesIn, total_bytes_out : 0..MaxToolBytesOut,
    records : Seq(Records), status : {"running", "returned", "failed"},
    result : Results ]

Answers == TapeAnswers \cup {NoAnswer}
Steps   == [op : Ops, ans : Answers, vm : VmStates]

Entries == [kind : {"Ok"}, val : Bytes \cup {EmptyBytes}]
             \cup [kind : {"Err"}, val : Messages \cup TapeMessages]

Divergences ==
  [ seq : Nat, expected : {NoCall} \cup {KnownCall(c) : c \in Calls}, actual : Calls ]

(* Types, and the quotas: the counters of a run never pass the limits of   *)
(* VmConfig that call checks before it adds to them.                       *)
TypeOK ==
  /\ phase \in {"dry", "replay"} /\ runs \in 1..MaxRuns /\ changed \in BOOLEAN
  /\ vm \in VmStates /\ trace \in Seq(Steps) /\ recorded \in Seq(Steps)
  /\ tape \in [entries : Seq(Entries), calls : Seq(Calls)]
  /\ cursor \in 0..Len(tape.entries)
  /\ strict \in BOOLEAN
  /\ divergence \in {NoDivergence} \cup Divergences

(* An answer a tape can carry: a table that its own canonical encoding     *)
(* decodes to, or an error with a message.                                 *)
FaithfulAnswer(a) ==
  /\ a.kind = "ok" => /\ Canon[a.val] \in Bytes
                      /\ Decode[Canon[a.val]] = a.val
  /\ a.kind = "err" => a.val # ""

Faithful(tr) == \A i \in 1..Len(tr) : FaithfulAnswer(tr[i].ans)

(* The tape has what the replay's host needs of it. *)
TapeFits == strict => Len(tape.calls) = Len(tape.entries)

(* A replay of the same program, of a run that had its Vm to itself and    *)
(* whose answers a tape can carry, is the recorded run step by step: same  *)
(* operations, answers, gas, counters and records (TapeHost over           *)
(* from_records, ToolRegistry::call).                                      *)
ReplayFidelity ==
  phase = "replay" /\ ~changed /\ runs = 1 /\ Faithful(recorded) /\ TapeFits
    => /\ Len(trace) <= Len(recorded)
       /\ trace = SubSeq(recorded, 1, Len(trace))

(* A strict replay, of whatever program, reports exactly the first call    *)
(* that is not the recorded one: the calls before it are the recorded      *)
(* ones, and every call from there on is answered by the divergence error  *)
(* (check_strict).                                                         *)
StrictFindsFirst ==
  phase = "replay" /\ strict =>
    LET rs == vm.records
        n  == IF Diverged THEN divergence.seq ELSE Len(rs)
    IN  /\ n <= Len(tape.entries) /\ n <= Len(tape.calls)
        /\ \A i \in 1..n : rs[i].call = tape.calls[i]
        /\ Diverged =>
             /\ n < Len(rs)
             /\ rs[n + 1].call = divergence.actual
             /\ n < Len(tape.calls) => divergence.actual # tape.calls[n + 1]
             /\ \A i \in n + 1..Len(rs) : rs[i].error_message = DivergedMsg

(* The transcript of a replay yields the part of the tape it consumed, so  *)
(* the commitments over the one are those over the other, whatever program *)
(* is replayed by position (from_records, record_ok_attested).             *)
TapeReproduced ==
  phase = "replay" /\ Faithful(recorded) =>
    /\ cursor <= Len(vm.records)
    /\ \A i \in 1..cursor : EntryOf(vm.records[i]) = tape.entries[i]

(* Catching the error of a divergence does not resynchronise the replay:   *)
(* the divergence stays and nothing more is taken from the tape.           *)
DivergenceLatched ==
  [][phase = "replay" /\ Diverged => UNCHANGED tapeVars]_vars

(* No run lasts for ever: every operation costs gas, caught errors and     *)
(* refused calls included, and the one that runs out of it is the last     *)
(* (dispatch, GasMeter::charge).                                           *)
RunIsBounded ==
  /\ Running => Len(trace) + vm.remaining <= GasLimit
  /\ Len(trace) <= GasLimit + 1

(* Under a host that only gives faithful answers, record and replay        *)
(* implement Playback.                                                     *)
PB == INSTANCE Playback WITH
        recorded <- IF phase = "dry" THEN trace ELSE recorded,
        sealed   <- phase = "replay",
        played   <- IF phase = "dry" THEN << >> ELSE trace
ImplementsPlayback == PB!Spec

-----------------------------------------------------------------------------
(* The inductive invariant behind ReplayFidelity.                          *)

Before(tr, i) == IF i = 1 THEN NewVm ELSE tr[i - 1].vm
LastVm(tr)    == Before(tr, Len(tr) + 1)

LiveStep(v, s) ==
  /\ v.status = "running"
  /\ IF Consults(v, s.op) THEN s.ans \in LiveAnswers ELSE s.ans = NoAnswer
  /\ s.vm = After(v, s.op, s.ans)

PrefixOf(rs, qs) == Len(rs) <= Len(qs) /\ \A j \in 1..Len(rs) : rs[j] = qs[j]

(* tr is a run of a new Vm over a live host; its records only grew. *)
LiveRun(tr) ==
  \A i \in 1..Len(tr) : /\ LiveStep(Before(tr, i), tr[i])
                        /\ PrefixOf(tr[i].vm.records, LastVm(tr).records)

DryInv == phase = "dry" /\ runs = 1 => vm = LastVm(trace) /\ LiveRun(trace)

(* The tape is that of the recorded run, which has ended.                  *)
TapeInv ==
  phase = "replay" /\ runs = 1 =>
    LET rs == LastVm(recorded).records
    IN  /\ LiveRun(recorded) /\ LastVm(recorded).status # "running"
        /\ Len(tape.entries) = Len(rs)
        /\ \A i \in 1..Len(rs) : tape.entries[i] = EntryOf(rs[i])
        /\ Len(tape.calls) = Len(rs) => \A i \in 1..Len(rs) : tape.calls[i] = rs[i].call

(* The replay is where the recording was after as many steps, and the tape *)
(* where the recorded transcript was.                                      *)
InStep ==
  phase = "replay" /\ ~changed /\ runs = 1 /\ Faithful(recorded) /\ TapeFits
    => /\ Len(trace) <= Len(recorded)
       /\ trace = SubSeq(recorded, 1, Len(trace))
       /\ vm = Before(recorded, Len(trace) + 1)
       /\ cursor = Len(vm.records)
       /\ ~Diverged

FidelityInv == TypeOK /\ DryInv /\ TapeInv /\ InStep
=============================================================================
