---------------------------- MODULE ReplayProofs ----------------------------
(***************************************************************************)
(* Theorems about runs and their replays (Replay) and what they cost       *)
(* (Accounting), for every program, host, tape and limit: the types and    *)
(* quotas and the fidelity of a replay, then what a strict replay reports  *)
(* and what tape a replay yields, then what the counters and the gas meter *)
(* say about the whole trace of a run.                                     *)
(***************************************************************************)
EXTENDS Accounting, Induction

-----------------------------------------------------------------------------
(* The VM: every operation leaves a VM state.                              *)

LEMMA ChargeType ==
  ASSUME NEW v \in VmStates, NEW n \in Nat
  PROVE  Charge(v, n) \in VmStates
<1>1. CASE n > v.remaining
  <2>1. GasExhausted \in Results
    BY DEF Results
  <2>2. 0 \in 0..GasLimit
    BY MeterAssumption DEF MeterAssumption
  <2>3. QED
    BY <1>1, <2>1, <2>2 DEF Charge, VmStates
<1>2. CASE ~(n > v.remaining)
  <2>1. v.remaining - n \in 0..GasLimit
    BY <1>2, MeterAssumption DEF MeterAssumption, VmStates
  <2>2. QED
    BY <1>2, <2>1 DEF Charge, VmStates
<1>3. QED
  BY <1>1, <1>2

LEMMA RaiseType ==
  ASSUME NEW v \in VmStates, NEW err \in Results, NEW p \in BOOLEAN
  PROVE  Raise(v, err, p) \in VmStates
<1>1. [v EXCEPT !.result = err] \in VmStates
  BY DEF VmStates
<1>2. [v EXCEPT !.status = "failed", !.result = err] \in VmStates
  BY DEF VmStates
<1>3. PcallUnwind \in Nat
  BY MeterAssumption DEF MeterAssumption
<1>4. QED
  BY <1>1, <1>2, <1>3, ChargeType DEF Raise

LEMMA RecordedType ==
  ASSUME NEW v \in VmStates, NEW r \in Records
  PROVE  Recorded(v, r) \in VmStates
<1>1. v.records \in Seq(Records)
  BY DEF VmStates
<1>2. Append(v.records, r) \in Seq(Records)
  BY <1>1
<1>3. QED
  BY <1>2 DEF VmStates, Recorded

LEMMA CountedType ==
  ASSUME NEW v \in VmStates, NEW c \in Calls, Asks(v, c)
  PROVE  Counted(v, c) \in VmStates
<1>1. v.calls_made + 1 \in 0..MaxToolCalls
  BY MeterAssumption DEF MeterAssumption, VmStates, Asks, OverCalls
<1>2. v.total_bytes_in + ArgBytes[c] \in 0..MaxToolBytesIn
  BY MeterAssumption DEF MeterAssumption, VmStates, Asks, OverBytesIn
<1>3. QED
  BY <1>1, <1>2 DEF VmStates, Counted

LEMMA ServedType ==
  ASSUME NEW v \in VmStates, NEW n \in 0..MaxToolBytesOut, NEW r \in Results
  PROVE  [v EXCEPT !.total_bytes_out = n, !.result = r] \in VmStates
BY DEF VmStates

LEMMA RespondedType ==
  ASSUME NEW v \in VmStates, NEW c \in Calls, NEW t \in Tables, NEW p \in BOOLEAN
  PROVE  Responded(v, c, t, p) \in VmStates
<1> DEFINE b == Canon[t]
           cost == ToolCallBase + ArgBytes[c] + Size[b]
           w == Recorded(v, OkRecord(c, b, cost))
           x == [w EXCEPT !.total_bytes_out = @ + Size[b], !.result = Result("ok", t)]
<1>1. CASE b = NoBytes
  <2>1. Result("RuntimeError", "tool response") \in Results
    BY DEF Results
  <2>2. QED
    BY <1>1, <2>1, RaiseType DEF Responded
<1>2. CASE b # NoBytes
  <2>1. b \in Bytes /\ Size[b] \in Nat /\ cost \in Nat
    BY <1>2, CanonAssumption, MeterAssumption DEF CanonAssumption, MeterAssumption
  <2>2. OkRecord(c, b, cost) \in Records
    BY <2>1 DEF OkRecord, Records
  <2>3. w \in VmStates /\ w.total_bytes_out = v.total_bytes_out
    BY <2>2, RecordedType DEF Recorded, VmStates
  <2>4. CASE v.total_bytes_out + Size[b] > MaxToolBytesOut
    <3>1. Result("RuntimeError", "tool output bytes limit exceeded") \in Results
      BY DEF Results
    <3>2. QED
      BY <1>2, <2>3, <2>4, <3>1, RaiseType DEF Responded
  <2>5. CASE ~(v.total_bytes_out + Size[b] > MaxToolBytesOut)
    <3>1. Result("ok", t) \in Results
      BY DEF Results
    <3>2. v.total_bytes_out + Size[b] \in 0..MaxToolBytesOut
      <4>1. v.total_bytes_out \in Nat /\ MaxToolBytesOut \in Nat
        BY MeterAssumption DEF MeterAssumption, VmStates
      <4>2. QED
        BY <2>1, <2>5, <4>1
    <3>3. x \in VmStates
      <4> DEFINE n == w.total_bytes_out + Size[b]
      <4>1. n \in 0..MaxToolBytesOut
        BY <2>3, <3>2
      <4>2. [w EXCEPT !.total_bytes_out = n, !.result = Result("ok", t)] = x
        OBVIOUS
      <4> HIDE DEF n, x
      <4>3. QED
        BY <2>3, <3>1, <4>1, <4>2, ServedType
    <3>4. Responded(v, c, t, p) = Charge(x, cost)
      BY <1>2, <2>5 DEF Responded
    <3>5. QED
      BY <2>1, <3>3, <3>4, ChargeType
  <2>6. QED
    BY <2>4, <2>5
<1>3. QED
  BY <1>1, <1>2

LEMMA RejectedType ==
  ASSUME NEW v \in VmStates, NEW c \in Calls, NEW m \in Messages \cup TapeMessages,
         NEW p \in BOOLEAN
  PROVE  Rejected(v, c, m, p) \in VmStates
<1>1. ErrorRecord(c, m) \in Records
  BY DEF ErrorRecord, Records
<1>2. Result("ToolError", m) \in Results
  BY DEF Results
<1>3. QED
  BY <1>1, <1>2, RecordedType, RaiseType DEF Rejected

(* The answers that can meet an operation. *)
Meets(v, op, a) ==
  IF Consults(v, op) THEN a \in TapeAnswers ELSE a = NoAnswer

LEMMA CalledType ==
  ASSUME NEW v \in VmStates, NEW c \in Calls, NEW p \in BOOLEAN, NEW a,
         Asks(v, c) => a \in TapeAnswers
  PROVE  Called(v, c, p, a) \in VmStates
<1>1. CASE ~Asks(v, c)
  <2>1. /\ Result("RuntimeError", "tool call limit exceeded") \in Results
        /\ Result("RuntimeError", "tool input bytes limit exceeded") \in Results
    BY DEF Results
  <2>2. QED
    BY <1>1, <2>1, RaiseType DEF Called, Asks
<1>2. CASE Asks(v, c)
  <2>1. Counted(v, c) \in VmStates
    BY <1>2, CountedType
  <2>2. \/ a.kind = "ok" /\ a.val \in Tables
        \/ a.kind = "err" /\ a.val \in Messages \cup TapeMessages
    BY <1>2 DEF TapeAnswers, LiveAnswers, OkAnswer, ErrAnswer
  <2>3. QED
    BY <1>2, <2>1, <2>2, RespondedType, RejectedType DEF Called, Asks
<1>3. QED
  BY <1>1, <1>2

LEMMA AfterType ==
  ASSUME NEW v \in VmStates, NEW op \in Ops, NEW a, Meets(v, op, a)
  PROVE  After(v, op, a) \in VmStates
<1> DEFINE w == Charge(v, BaseInstruction)
<1>1. w \in VmStates
  BY ChargeType, MeterAssumption DEF MeterAssumption
<1>2. CASE w.status = "failed"
  BY <1>1, <1>2 DEF After
<1>3. CASE w.status # "failed" /\ op.kind = "work"
  <2>1. op.gas \in Nat
    BY <1>3, MeterAssumption DEF MeterAssumption, Ops, Work, ToolCall, BadCall, Return
  <2>2. After(v, op, a) = Charge(w, op.gas)
    BY <1>3 DEF After
  <2>3. QED
    BY <1>1, <2>1, <2>2, ChargeType
<1>4. CASE w.status # "failed" /\ op.kind = "return"
  <2>1. After(v, op, a) = [w EXCEPT !.status = "returned"]
    BY <1>4 DEF After
  <2>2. QED
    BY <1>1, <2>1 DEF VmStates
<1>5. CASE w.status # "failed" /\ op.kind = "badcall"
  <2>1. After(v, op, a) = Raise(w, Result("RuntimeError", "tool args"), op.pcall)
    BY <1>5 DEF After
  <2>2. op.pcall \in BOOLEAN
    BY <1>5 DEF Ops, Work, ToolCall, BadCall, Return
  <2>3. Result("RuntimeError", "tool args") \in Results
    BY DEF Results
  <2>4. QED
    BY <1>1, <2>1, <2>2, <2>3, RaiseType
<1>6. CASE w.status # "failed" /\ op.kind = "call"
  <2>1. After(v, op, a) = Called(w, op.call, op.pcall, a)
    BY <1>6 DEF After
  <2>2. op.call \in Calls /\ op.pcall \in BOOLEAN
    BY <1>6 DEF Ops, Work, ToolCall, BadCall, Return
  <2>3. BaseInstruction <= v.remaining /\ w = [v EXCEPT !.remaining = @ - BaseInstruction]
    BY <1>6, MeterAssumption DEF MeterAssumption, Charge, VmStates
  <2>4. Consults(v, op) <=> Asks(w, op.call)
    BY <1>6, <2>3 DEF Consults, Asks, OverCalls, OverBytesIn, VmStates
  <2>5. Asks(w, op.call) => a \in TapeAnswers
    BY <2>4 DEF Meets
  <2>6. QED
    BY <1>1, <2>1, <2>2, <2>5, CalledType
<1>7. op.kind \in {"work", "return", "badcall", "call"}
  BY DEF Ops, Work, ToolCall, BadCall, Return
<1>8. QED
  BY <1>2, <1>3, <1>4, <1>5, <1>6, <1>7

-----------------------------------------------------------------------------
(* The state machine: every step leaves typed variables.                   *)

LEMMA FromRecordsType ==
  ASSUME NEW rs \in Seq(Records)
  PROVE  /\ FromRecords(rs) \in [entries : Seq(Entries), calls : Seq(Calls)]
         /\ Len(FromRecords(rs).entries) = Len(rs)
         /\ Len(FromRecords(rs).calls) = Len(rs)
         /\ \A i \in 1..Len(rs) : /\ FromRecords(rs).entries[i] = EntryOf(rs[i])
                                  /\ FromRecords(rs).calls[i] = rs[i].call
<1> DEFINE es == [i \in 1..Len(rs) |-> EntryOf(rs[i])]
           cs == [i \in 1..Len(rs) |-> rs[i].call]
<1>1. Len(rs) \in Nat /\ \A i \in 1..Len(rs) : rs[i] \in Records
  OBVIOUS
<1>2. \A r \in Records : EntryOf(r) \in Entries /\ r.call \in Calls
  BY DEF Records, EntryOf, Entries, OkEntry, ErrEntry
<1>3. es \in Seq(Entries) /\ Len(es) = Len(rs)
  BY <1>1, <1>2
<1>4. cs \in Seq(Calls) /\ Len(cs) = Len(rs)
  BY <1>1, <1>2
<1>5. FromRecords(rs) = [entries |-> es, calls |-> cs]
  BY DEF FromRecords
<1> HIDE DEF es, cs
<1>6. /\ FromRecords(rs) \in [entries : Seq(Entries), calls : Seq(Calls)]
      /\ Len(FromRecords(rs).entries) = Len(rs)
      /\ Len(FromRecords(rs).calls) = Len(rs)
  BY <1>3, <1>4, <1>5
<1>7. QED
  BY <1>5, <1>6 DEF es, cs

LEMMA AdvanceType ==
  ASSUME TypeOK, NEW op \in Ops, NEW a \in Answers, Meets(vm, op, a), Advance(op, a)
  PROVE  vm' \in VmStates /\ trace' \in Seq(Steps)
<1>1. vm' \in VmStates
  BY AfterType DEF TypeOK, Advance
<1>2. Step(op, a, vm') \in Steps
  BY <1>1 DEF Step, Steps
<1>3. trace \in Seq(Steps)
  BY DEF TypeOK
<1>4. QED
  BY <1>1, <1>2, <1>3 DEF Advance

LEMMA NewVmType == NewVm \in VmStates /\ \A v \in VmStates : Reset(v) \in VmStates
<1>1. << >> \in Seq(Records) /\ NoResult \in Results
  BY DEF Results
<1>2. 0 \in 0..MaxToolCalls /\ 0 \in 0..MaxToolBytesIn /\ 0 \in 0..MaxToolBytesOut
      /\ GasLimit \in 0..GasLimit
  BY MeterAssumption DEF MeterAssumption
<1>3. NewVm \in VmStates
  BY <1>1, <1>2 DEF NewVm, VmStates
<1>4. QED
  BY <1>3 DEF Reset, VmStates

LEMMA InitType == Init => TypeOK
<1> SUFFICES ASSUME Init PROVE TypeOK
  OBVIOUS
<1>1. << >> \in Seq(Records) /\ Len(<< >>) = 0 /\ << >> \in Seq(Steps)
  OBVIOUS
<1>2. EmptyTape \in [entries : Seq(Entries), calls : Seq(Calls)] /\ Len(EmptyTape.entries) = 0
  BY <1>1, FromRecordsType DEF EmptyTape
<1>3. vm \in VmStates
  BY NewVmType DEF Init
<1>4. runs \in 1..MaxRuns
  BY ReplayAssumption DEF ReplayAssumption, Init
<1>5. /\ tape \in [entries : Seq(Entries), calls : Seq(Calls)]
      /\ cursor \in 0..Len(tape.entries)
  BY <1>2 DEF Init
<1>6. trace \in Seq(Steps) /\ recorded \in Seq(Steps)
  BY <1>1 DEF Init
<1>7. QED
  BY <1>3, <1>4, <1>5, <1>6 DEF Init, TypeOK

LEMMA TapeCallType ==
  ASSUME TypeOK, NEW c \in Calls, NEW a, TapeCall(c, a)
  PROVE  /\ tape' = tape /\ strict' = strict
         /\ cursor' \in 0..Len(tape.entries)
         /\ divergence' \in {NoDivergence} \cup Divergences
<1>1. CASE StayDiverged(a) \/ Exhaust(c, a)
  BY <1>1 DEF StayDiverged, Exhaust, tapeVars, TypeOK
<1>2. CASE Diverge(c, a)
  <2>1. Expected \in {NoCall} \cup {KnownCall(d) : d \in Calls}
    BY DEF Expected, TypeOK, IsExhausted
  <2>2. cursor \in Nat
    BY DEF TypeOK
  <2>3. divergence' \in Divergences
    BY <1>2, <2>1, <2>2 DEF Diverge, Divergences
  <2>4. QED
    BY <1>2, <2>3 DEF Diverge, TypeOK
<1>3. CASE Serve(c, a)
  <2>1. cursor + 1 \in 0..Len(tape.entries)
    BY <1>3 DEF Serve, IsExhausted, TypeOK
  <2>2. QED
    BY <1>3, <2>1 DEF Serve, TypeOK
<1>4. QED
  BY <1>1, <1>2, <1>3 DEF TapeCall

LEMMA NextType == TypeOK /\ [Next]_vars => TypeOK'
<1> SUFFICES ASSUME TypeOK, [Next]_vars PROVE TypeOK'
  OBVIOUS
<1>1. ASSUME NEW op \in Ops, DryOp(op) PROVE TypeOK'
  <2>1. vm' \in VmStates /\ trace' \in Seq(Steps)
    BY <1>1, AdvanceType DEF DryOp, Meets, Answers
  <2>2. QED
    BY <1>1, <2>1 DEF DryOp, TypeOK, tapeVars
<1>2. ASSUME NEW op \in Ops, DryToolCall(op) PROVE TypeOK'
  <2>1. PICK a \in HostAnswers : Advance(op, a)
    BY <1>2 DEF DryToolCall
  <2>2. a \in TapeAnswers
    BY ReplayAssumption DEF ReplayAssumption, TapeAnswers
  <2>3. vm' \in VmStates /\ trace' \in Seq(Steps)
    BY <1>2, <2>1, <2>2, AdvanceType DEF DryToolCall, Meets, Answers
  <2>4. QED
    BY <1>2, <2>3 DEF DryToolCall, TypeOK, tapeVars
<1>3. CASE Execute
  <2>1. vm' \in VmStates /\ trace' \in Seq(Steps)
    BY <1>3, NewVmType DEF Execute, TypeOK
  <2>2. runs' \in 1..MaxRuns
    BY <1>3, ReplayAssumption DEF ReplayAssumption, Execute, TypeOK
  <2>3. QED
    BY <1>3, <2>1, <2>2 DEF Execute, TypeOK, tapeVars
<1>4. CASE StartReplay
  <2>1. vm' \in VmStates /\ trace' \in Seq(Steps)
    BY <1>4, NewVmType DEF StartReplay
  <2>2. recorded' \in Seq(Steps) /\ changed' \in BOOLEAN
    BY <1>4, ReplayAssumption DEF ReplayAssumption, StartReplay, TypeOK
  <2>3. PICK s \in Strictness, legacy \in LegacyTapes :
          LET t == FromRecords(vm.records)
          IN  Load(IF legacy THEN WithoutCalls(t) ELSE t, s)
    BY <1>4 DEF StartReplay
  <2>4. vm.records \in Seq(Records)
    BY DEF TypeOK, VmStates
  <2>5. /\ FromRecords(vm.records) \in [entries : Seq(Entries), calls : Seq(Calls)]
        /\ Len(FromRecords(vm.records).entries) \in Nat
    BY <2>4, FromRecordsType
  <2>6. /\ tape' \in [entries : Seq(Entries), calls : Seq(Calls)]
        /\ Len(tape'.entries) \in Nat
    <3> DEFINE t == FromRecords(vm.records)
    <3>1. tape' = IF legacy THEN [t EXCEPT !.calls = << >>] ELSE t
      BY <2>3 DEF Load, WithoutCalls
    <3>2. t \in [entries : Seq(Entries), calls : Seq(Calls)] /\ Len(t.entries) \in Nat
      BY <2>5
    <3> HIDE DEF t
    <3>3. << >> \in Seq(Calls)
      OBVIOUS
    <3>4. QED
      BY <3>1, <3>2, <3>3
  <2>7. cursor' = 0 /\ strict' \in BOOLEAN /\ divergence' = NoDivergence
    BY <2>3, ReplayAssumption DEF ReplayAssumption, Load
  <2>8. QED
    BY <1>4, <2>1, <2>2, <2>6, <2>7 DEF StartReplay, TypeOK
<1>5. ASSUME NEW op \in Ops, ReplayOp(op) PROVE TypeOK'
  <2>1. vm' \in VmStates /\ trace' \in Seq(Steps)
    BY <1>5, AdvanceType DEF ReplayOp, Meets, Answers
  <2>2. QED
    BY <1>5, <2>1 DEF ReplayOp, TypeOK, tapeVars
<1>6. ASSUME NEW op \in Ops, ReplayToolCall(op) PROVE TypeOK'
  <2>1. PICK a \in TapeAnswers : TapeCall(op.call, a) /\ Advance(op, a)
    BY <1>6 DEF ReplayToolCall
  <2>2. vm' \in VmStates /\ trace' \in Seq(Steps)
    BY <1>6, <2>1, AdvanceType DEF ReplayToolCall, Meets, Answers
  <2>3. op.call \in Calls
    BY <1>6 DEF ReplayToolCall, Consults, Ops, Work, ToolCall, BadCall, Return
  <2>4. /\ tape' = tape /\ strict' = strict
        /\ cursor' \in 0..Len(tape.entries)
        /\ divergence' \in {NoDivergence} \cup Divergences
    BY <2>1, <2>3, TapeCallType
  <2>5. QED
    BY <1>6, <2>2, <2>4 DEF ReplayToolCall, TypeOK
<1>7. CASE UNCHANGED vars
  BY <1>7 DEF vars, TypeOK
<1>8. QED
  BY <1>1, <1>2, <1>3, <1>4, <1>5, <1>6, <1>7 DEF Next, DryStep, ReplayStep

(* Every reachable state is typed, and the counters of a run are within    *)
(* the limits of its VmConfig (ToolRegistry::call steps 2, 3 and 6d).      *)
THEOREM TypeCorrect == Spec => []TypeOK
BY InitType, NextType, PTL DEF Spec

-----------------------------------------------------------------------------
(* What an operation does to the records: it leaves them alone unless it   *)
(* reaches the host, and then appends at most one record.                  *)

LEMMA ChargeRecords ==
  ASSUME NEW v \in VmStates, NEW n
  PROVE  Charge(v, n).records = v.records
BY DEF Charge, VmStates

LEMMA RaiseRecords ==
  ASSUME NEW v \in VmStates, NEW err \in Results, NEW p \in BOOLEAN
  PROVE  Raise(v, err, p).records = v.records
<1>1. [v EXCEPT !.result = err] \in VmStates /\ [v EXCEPT !.result = err].records = v.records
  BY DEF VmStates
<1>2. QED
  BY <1>1, ChargeRecords DEF Raise, VmStates

LEMMA RespondedRecords ==
  ASSUME NEW v \in VmStates, NEW c \in Calls, NEW t \in Tables, NEW p \in BOOLEAN
  PROVE  LET b == Canon[t]
             r == OkRecord(c, b, ToolCallBase + ArgBytes[c] + Size[b])
         IN  Responded(v, c, t, p).records
               = IF b = NoBytes THEN v.records ELSE Append(v.records, r)
<1> DEFINE b == Canon[t]
           cost == ToolCallBase + ArgBytes[c] + Size[b]
           w == Recorded(v, OkRecord(c, b, cost))
           x == [w EXCEPT !.total_bytes_out = @ + Size[b], !.result = Result("ok", t)]
<1>1. /\ Result("RuntimeError", "tool response") \in Results
      /\ Result("RuntimeError", "tool output bytes limit exceeded") \in Results
      /\ Result("ok", t) \in Results
  BY DEF Results
<1>2. CASE b = NoBytes
  BY <1>1, <1>2, RaiseRecords DEF Responded
<1>3. CASE b # NoBytes
  <2>1. b \in Bytes /\ Size[b] \in Nat /\ cost \in Nat
    BY <1>3, CanonAssumption, MeterAssumption DEF CanonAssumption, MeterAssumption
  <2>2. OkRecord(c, b, cost) \in Records
    BY <2>1 DEF OkRecord, Records
  <2>3. /\ w \in VmStates /\ w.total_bytes_out = v.total_bytes_out
        /\ w.records = Append(v.records, OkRecord(c, b, cost))
    BY <2>2, RecordedType DEF Recorded, VmStates
  <2>4. CASE v.total_bytes_out + Size[b] > MaxToolBytesOut
    BY <1>1, <1>3, <2>3, <2>4, RaiseRecords DEF Responded
  <2>5. CASE ~(v.total_bytes_out + Size[b] > MaxToolBytesOut)
    <3>1. v.total_bytes_out + Size[b] \in 0..MaxToolBytesOut
      <4>1. v.total_bytes_out \in Nat /\ MaxToolBytesOut \in Nat
        BY MeterAssumption DEF MeterAssumption, VmStates
      <4>2. QED
        BY <2>1, <2>5, <4>1
    <3>2. x \in VmStates
      <4> DEFINE n == w.total_bytes_out + Size[b]
      <4>1. n \in 0..MaxToolBytesOut
        BY <2>3, <3>1
      <4>2. [w EXCEPT !.total_bytes_out = n, !.result = Result("ok", t)] = x
        OBVIOUS
      <4> HIDE DEF n, x
      <4>3. QED
        BY <1>1, <2>3, <4>1, <4>2, ServedType
    <3>3. x.records = w.records
      BY <2>3 DEF VmStates
    <3>4. Responded(v, c, t, p) = Charge(x, cost)
      BY <1>3, <2>5 DEF Responded
    <3>5. QED
      BY <1>3, <2>3, <3>2, <3>3, <3>4, ChargeRecords
  <2>6. QED
    BY <2>4, <2>5
<1>4. QED
  BY <1>2, <1>3

LEMMA RejectedRecords ==
  ASSUME NEW v \in VmStates, NEW c \in Calls, NEW m \in Messages \cup TapeMessages,
         NEW p \in BOOLEAN
  PROVE  Rejected(v, c, m, p).records = Append(v.records, ErrorRecord(c, m))
<1>1. ErrorRecord(c, m) \in Records
  BY DEF ErrorRecord, Records
<1>2. Result("ToolError", m) \in Results
  BY DEF Results
<1>3. /\ Recorded(v, ErrorRecord(c, m)) \in VmStates
      /\ Recorded(v, ErrorRecord(c, m)).records = Append(v.records, ErrorRecord(c, m))
  BY <1>1, RecordedType DEF Recorded, VmStates
<1>4. QED
  BY <1>2, <1>3, RaiseRecords DEF Rejected

LEMMA ConsultedRecords ==
  ASSUME NEW v \in VmStates, NEW op \in Ops, NEW a \in TapeAnswers,
         v.status = "running", Consults(v, op)
  PROVE  /\ op.call \in Calls
         /\ a.kind = "ok" =>
              /\ a.val \in Tables
              /\ LET b == Canon[a.val]
                     r == OkRecord(op.call, b, ToolCallBase + ArgBytes[op.call] + Size[b])
                 IN  After(v, op, a).records
                       = IF b = NoBytes THEN v.records ELSE Append(v.records, r)
         /\ a.kind # "ok" =>
              /\ a.kind = "err" /\ a.val \in Messages \cup TapeMessages
              /\ After(v, op, a).records = Append(v.records, ErrorRecord(op.call, a.val))
<1> DEFINE w == Charge(v, BaseInstruction)
           u == Counted(w, op.call)
<1>1. op.kind = "call" /\ op.call \in Calls /\ op.pcall \in BOOLEAN
  BY DEF Consults, Ops, Work, ToolCall, BadCall, Return
<1>2. w \in VmStates /\ w.records = v.records
  BY ChargeType, ChargeRecords, MeterAssumption DEF MeterAssumption
<1>3. /\ w = [v EXCEPT !.remaining = @ - BaseInstruction]
      /\ w.status # "failed"
  BY MeterAssumption DEF MeterAssumption, Consults, Charge, VmStates
<1>4. Asks(w, op.call)
  BY <1>3 DEF Consults, Asks, OverCalls, OverBytesIn, VmStates
<1>5. u \in VmStates /\ u.records = v.records
  BY <1>1, <1>2, <1>4, CountedType DEF Counted, VmStates
<1>6. After(v, op, a) = Called(w, op.call, op.pcall, a)
  BY <1>1, <1>3 DEF After
<1>7. After(v, op, a) = IF a.kind = "ok" THEN Responded(u, op.call, a.val, op.pcall)
                                         ELSE Rejected(u, op.call, a.val, op.pcall)
  BY <1>4, <1>6 DEF Called, Asks
<1>8. \/ a.kind = "ok" /\ a.val \in Tables
      \/ a.kind = "err" /\ a.val \in Messages \cup TapeMessages
  BY DEF TapeAnswers, LiveAnswers, OkAnswer, ErrAnswer
<1> HIDE DEF w, u
<1>9. CASE a.kind = "ok"
  BY <1>1, <1>5, <1>7, <1>8, <1>9, RespondedRecords
<1>10. CASE a.kind # "ok"
  BY <1>1, <1>5, <1>7, <1>8, <1>10, RejectedRecords
<1>11. QED
  BY <1>1, <1>9, <1>10

LEMMA UnconsultedRecords ==
  ASSUME NEW v \in VmStates, NEW op \in Ops, NEW a, v.status = "running", ~Consults(v, op)
  PROVE  After(v, op, a).records = v.records
<1> DEFINE w == Charge(v, BaseInstruction)
<1>1. w \in VmStates /\ w.records = v.records
  BY ChargeType, ChargeRecords, MeterAssumption DEF MeterAssumption
<1>2. CASE w.status = "failed"
  BY <1>1, <1>2 DEF After
<1>3. CASE w.status # "failed" /\ op.kind = "work"
  BY <1>1, <1>3, ChargeRecords DEF After
<1>4. CASE w.status # "failed" /\ op.kind = "return"
  <2>1. After(v, op, a) = [w EXCEPT !.status = "returned"]
    BY <1>4 DEF After
  <2>2. QED
    BY <1>1, <2>1 DEF VmStates
<1>5. CASE w.status # "failed" /\ op.kind = "badcall"
  <2>1. Result("RuntimeError", "tool args") \in Results
    BY DEF Results
  <2>2. After(v, op, a) = Raise(w, Result("RuntimeError", "tool args"), op.pcall)
    BY <1>5 DEF After
  <2>3. op.pcall \in BOOLEAN
    BY <1>5 DEF Ops, Work, ToolCall, BadCall, Return
  <2>4. QED
    BY <1>1, <2>1, <2>2, <2>3, RaiseRecords
<1>6. CASE w.status # "failed" /\ op.kind = "call"
  <2>1. /\ w = [v EXCEPT !.remaining = @ - BaseInstruction]
        /\ BaseInstruction <= v.remaining
    BY <1>6, MeterAssumption DEF MeterAssumption, Charge, VmStates
  <2>2. ~Asks(w, op.call)
    BY <1>6, <2>1 DEF Consults, Asks, OverCalls, OverBytesIn, VmStates
  <2>3. /\ Result("RuntimeError", "tool call limit exceeded") \in Results
        /\ Result("RuntimeError", "tool input bytes limit exceeded") \in Results
    BY DEF Results
  <2>4. After(v, op, a) = Called(w, op.call, op.pcall, a)
    BY <1>6 DEF After
  <2>5. op.pcall \in BOOLEAN
    BY <1>6 DEF Ops, Work, ToolCall, BadCall, Return
  <2>6. \E err \in Results : After(v, op, a) = Raise(w, err, op.pcall)
    BY <2>2, <2>3, <2>4 DEF Called, Asks
  <2>7. QED
    BY <1>1, <2>5, <2>6, RaiseRecords
<1>7. op.kind \in {"work", "return", "badcall", "call"}
  BY DEF Ops, Work, ToolCall, BadCall, Return
<1>8. QED
  BY <1>2, <1>3, <1>4, <1>5, <1>6, <1>7

LEMMA RecordsGrow ==
  ASSUME NEW v \in VmStates, NEW op \in Ops, NEW a, v.status = "running", Meets(v, op, a)
  PROVE  PrefixOf(v.records, After(v, op, a).records)
<1>1. v.records \in Seq(Records)
  BY DEF VmStates
<1>2. PrefixOf(v.records, v.records)
  BY <1>1 DEF PrefixOf
<1>3. \A r : PrefixOf(v.records, Append(v.records, r))
  BY <1>1 DEF PrefixOf
<1>4. CASE Consults(v, op)
  BY <1>2, <1>3, <1>4, ConsultedRecords DEF Meets
<1>5. CASE ~Consults(v, op)
  BY <1>2, <1>5, UnconsultedRecords
<1>6. QED
  BY <1>4, <1>5

(* A faithful answer leaves a record from which the tape gives it back.    *)
LEMMA FaithfulRecord ==
  ASSUME NEW v \in VmStates, NEW op \in Ops, NEW a \in LiveAnswers,
         v.status = "running", Consults(v, op), FaithfulAnswer(a)
  PROVE  /\ Len(After(v, op, a).records) = Len(v.records) + 1
         /\ LET r == After(v, op, a).records[Len(v.records) + 1]
            IN  r.call = op.call /\ EntryAnswer(EntryOf(r)) = a
<1>1. v.records \in Seq(Records)
  BY DEF VmStates
<1>2. a \in TapeAnswers
  BY DEF TapeAnswers
<1>3. CASE a.kind = "ok"
  <2> DEFINE b == Canon[a.val]
             r == OkRecord(op.call, b, ToolCallBase + ArgBytes[op.call] + Size[b])
  <2>1. b \in Bytes /\ b # NoBytes /\ Decode[b] = a.val /\ a.val \in Tables
    BY <1>2, <1>3, CanonAssumption, ConsultedRecords DEF CanonAssumption, FaithfulAnswer
  <2>2. After(v, op, a).records = Append(v.records, r)
    BY <1>2, <1>3, <2>1, ConsultedRecords
  <2>3. r.call = op.call /\ EntryOf(r) = OkEntry(b)
    BY DEF OkRecord, EntryOf
  <2>4. EntryAnswer(OkEntry(b)) = OkAnswer(a.val)
    BY <2>1 DEF EntryAnswer, OkEntry
  <2>5. a = OkAnswer(a.val)
    BY <1>3 DEF LiveAnswers, OkAnswer, ErrAnswer
  <2> HIDE DEF r
  <2>6. QED
    BY <1>1, <2>2, <2>3, <2>4, <2>5
<1>4. CASE a.kind # "ok"
  <2> DEFINE r == ErrorRecord(op.call, a.val)
  <2>1. a.kind = "err" /\ After(v, op, a).records = Append(v.records, r)
    BY <1>2, <1>4, ConsultedRecords
  <2>2. a.val # ""
    BY <2>1 DEF FaithfulAnswer
  <2>3. a = ErrAnswer(a.val)
    BY <1>4 DEF LiveAnswers, OkAnswer, ErrAnswer
  <2>4. r.call = op.call /\ EntryOf(r) = ErrEntry(a.val)
    BY <2>2 DEF ErrorRecord, EntryOf
  <2>5. EntryAnswer(ErrEntry(a.val)) = ErrAnswer(a.val)
    BY DEF EntryAnswer, ErrEntry
  <2> HIDE DEF r
  <2>6. QED
    BY <1>1, <2>1, <2>3, <2>4, <2>5
<1>5. QED
  BY <1>3, <1>4

-----------------------------------------------------------------------------
(* The replay follows the recording.                                       *)

LEMMA LastVmType ==
  ASSUME NEW tr \in Seq(Steps)
  PROVE  /\ \A i \in 1..Len(tr) + 1 : Before(tr, i) \in VmStates
         /\ LastVm(tr) \in VmStates
<1>1. ASSUME NEW i \in 1..Len(tr) + 1 PROVE Before(tr, i) \in VmStates
  <2>1. CASE i = 1
    BY <2>1, NewVmType DEF Before
  <2>2. CASE i # 1
    <3>1. tr[i - 1] \in Steps
      BY <2>2
    <3>2. QED
      BY <2>2, <3>1 DEF Before, Steps
  <2>3. QED
    BY <2>1, <2>2
<1>2. Len(tr) + 1 \in 1..Len(tr) + 1
  OBVIOUS
<1>3. QED
  BY <1>1, <1>2 DEF LastVm

LEMMA PrefixTransitive ==
  ASSUME NEW rs \in Seq(Records), NEW qs \in Seq(Records), NEW ps \in Seq(Records),
         PrefixOf(rs, qs), PrefixOf(qs, ps)
  PROVE  PrefixOf(rs, ps)
<1>1. Len(rs) \in Nat /\ Len(qs) \in Nat /\ Len(ps) \in Nat
  OBVIOUS
<1>2. Len(rs) <= Len(ps)
  BY <1>1 DEF PrefixOf
<1>3. \A j \in 1..Len(rs) : j \in 1..Len(qs)
  BY <1>1 DEF PrefixOf
<1>4. QED
  BY <1>2, <1>3 DEF PrefixOf

LEMMA LiveStepGrows ==
  ASSUME NEW v \in VmStates, NEW s \in Steps, LiveStep(v, s)
  PROVE  PrefixOf(v.records, s.vm.records)
<1>1. s.op \in Ops
  BY DEF Steps
<1>2. Meets(v, s.op, s.ans)
  BY DEF LiveStep, Meets, TapeAnswers
<1>3. QED
  BY <1>1, <1>2, RecordsGrow DEF LiveStep

LEMMA AppendRun ==
  ASSUME NEW tr \in Seq(Steps), LiveRun(tr), NEW s \in Steps, LiveStep(LastVm(tr), s)
  PROVE  LiveRun(Append(tr, s)) /\ LastVm(Append(tr, s)) = s.vm
<1> DEFINE ts == Append(tr, s)
<1>1. /\ ts \in Seq(Steps) /\ Len(ts) = Len(tr) + 1 /\ ts[Len(ts)] = s
      /\ \A i \in 1..Len(tr) : ts[i] = tr[i]
  OBVIOUS
<1>2. LastVm(ts) = s.vm
  BY <1>1 DEF LastVm, Before
<1>3. \A i \in 1..Len(tr) + 1 : Before(ts, i) = Before(tr, i)
  BY <1>1 DEF Before
<1>4. PrefixOf(LastVm(tr).records, s.vm.records)
  BY LastVmType, LiveStepGrows
<1>5. ASSUME NEW i \in 1..Len(ts)
      PROVE  LiveStep(Before(ts, i), ts[i]) /\ PrefixOf(ts[i].vm.records, s.vm.records)
  <2>1. CASE i = Len(ts)
    <3>1. LiveStep(Before(ts, i), ts[i])
      BY <1>1, <1>3, <2>1 DEF LastVm
    <3>2. s.vm.records \in Seq(Records)
      BY DEF Steps, VmStates
    <3>3. QED
      BY <1>1, <2>1, <3>1, <3>2 DEF PrefixOf
  <2>2. CASE i \in 1..Len(tr)
    <3>1. LiveStep(Before(tr, i), tr[i]) /\ PrefixOf(tr[i].vm.records, LastVm(tr).records)
      BY <2>2 DEF LiveRun
    <3>2. tr[i] \in Steps /\ LastVm(tr) \in VmStates
      BY <2>2, LastVmType
    <3>3. /\ tr[i].vm.records \in Seq(Records)
          /\ LastVm(tr).records \in Seq(Records)
          /\ s.vm.records \in Seq(Records)
      BY <3>2 DEF Steps, VmStates
    <3>4. PrefixOf(tr[i].vm.records, s.vm.records)
      BY <1>4, <3>1, <3>3, PrefixTransitive
    <3>5. QED
      BY <1>1, <1>3, <2>2, <3>1, <3>4
  <2>3. QED
    BY <1>1, <2>1, <2>2
<1>6. QED
  BY <1>1, <1>2, <1>5 DEF LiveRun

LEMMA DryInvInductive == TypeOK /\ DryInv /\ [Next]_vars => DryInv'
<1> SUFFICES ASSUME TypeOK, DryInv, [Next]_vars, phase' = "dry", runs' = 1
             PROVE  vm' = LastVm(trace') /\ LiveRun(trace')
  BY DEF DryInv, LastVm, Before, LiveRun
<1>1. ASSUME NEW op \in Ops, NEW a, phase = "dry", runs = 1, Running, Advance(op, a),
             IF Consults(vm, op) THEN a \in LiveAnswers ELSE a = NoAnswer
      PROVE  vm' = LastVm(trace') /\ LiveRun(trace')
  <2>1. vm = LastVm(trace) /\ LiveRun(trace)
    BY <1>1 DEF DryInv
  <2>2. vm' \in VmStates
    BY <1>1, AdvanceType DEF Meets, Answers, TapeAnswers
  <2>3. Step(op, a, vm') \in Steps
    BY <1>1, <2>2 DEF Step, Steps, Answers, TapeAnswers
  <2>4. LiveStep(LastVm(trace), Step(op, a, vm'))
    BY <1>1, <2>1 DEF LiveStep, Step, Running, Advance
  <2>5. QED
    BY <1>1, <2>1, <2>3, <2>4, AppendRun DEF Advance, Step, TypeOK
<1>2. ASSUME NEW op \in Ops, DryOp(op)
      PROVE  vm' = LastVm(trace') /\ LiveRun(trace')
  BY <1>1, <1>2 DEF DryOp
<1>3. ASSUME NEW op \in Ops, DryToolCall(op)
      PROVE  vm' = LastVm(trace') /\ LiveRun(trace')
  <2>1. PICK a \in HostAnswers : Advance(op, a)
    BY <1>3 DEF DryToolCall
  <2>2. a \in LiveAnswers
    BY ReplayAssumption DEF ReplayAssumption
  <2>3. QED
    BY <1>1, <1>3, <2>1, <2>2 DEF DryToolCall
<1>4. ~Execute
  BY DEF Execute, TypeOK
<1>5. ~StartReplay
  BY DEF StartReplay
<1>6. \A op \in Ops : ~ReplayOp(op) /\ ~ReplayToolCall(op)
  BY DEF ReplayOp, ReplayToolCall
<1>7. CASE UNCHANGED vars
  BY <1>7 DEF vars, DryInv
<1>8. QED
  BY <1>2, <1>3, <1>4, <1>5, <1>6, <1>7 DEF Next, DryStep, ReplayStep

LEMMA StartReplayTape ==
  ASSUME TypeOK, StartReplay
  PROVE  LET rs == vm.records
         IN  /\ Len(tape'.entries) = Len(rs)
             /\ \A i \in 1..Len(rs) : tape'.entries[i] = EntryOf(rs[i])
             /\ Len(tape'.calls) = Len(rs) => \A i \in 1..Len(rs) : tape'.calls[i] = rs[i].call
             /\ cursor' = 0 /\ divergence' = NoDivergence
<1> DEFINE rs == vm.records
           t == FromRecords(rs)
<1>1. PICK s \in Strictness, legacy \in LegacyTapes :
        Load(IF legacy THEN WithoutCalls(t) ELSE t, s)
  BY DEF StartReplay
<1>2. tape' = IF legacy THEN [t EXCEPT !.calls = << >>] ELSE t
  BY <1>1 DEF Load, WithoutCalls
<1>3. cursor' = 0 /\ divergence' = NoDivergence
  BY <1>1 DEF Load
<1>4. rs \in Seq(Records)
  BY DEF TypeOK, VmStates
<1>5. /\ t \in [entries : Seq(Entries), calls : Seq(Calls)]
      /\ Len(t.entries) = Len(rs)
      /\ \A i \in 1..Len(rs) : t.entries[i] = EntryOf(rs[i]) /\ t.calls[i] = rs[i].call
  BY <1>4, FromRecordsType
<1> HIDE DEF t
<1>6. tape'.entries = t.entries /\ tape'.calls \in {<< >>, t.calls}
  BY <1>2, <1>5
<1>7. Len(rs) \in Nat /\ Len(<< >>) = 0
  BY <1>4
<1>8. Len(tape'.calls) = Len(rs) => \A i \in 1..Len(rs) : tape'.calls[i] = rs[i].call
  <2>1. CASE tape'.calls = << >>
    BY <1>7, <2>1
  <2>2. CASE tape'.calls = t.calls
    BY <1>5, <2>2
  <2>3. QED
    BY <1>6, <2>1, <2>2
<1>9. QED
  BY <1>3, <1>5, <1>6, <1>8

LEMMA TapeInvInductive == FidelityInv /\ [Next]_vars => TapeInv'
<1> SUFFICES ASSUME FidelityInv, [Next]_vars, phase' = "replay", runs' = 1
             PROVE  TapeInv'
  BY DEF TapeInv
<1>1. CASE StartReplay
  <2>1. /\ recorded' = trace /\ phase = "dry" /\ runs = 1 /\ ~Running
    BY <1>1 DEF StartReplay
  <2>2. vm = LastVm(trace) /\ LiveRun(trace) /\ TypeOK
    BY <2>1 DEF FidelityInv, DryInv
  <2>3. LiveRun(recorded)' /\ LastVm(recorded)' = vm
    BY <2>1, <2>2 DEF LiveRun, LastVm, Before
  <2>4. QED
    BY <1>1, <2>1, <2>2, <2>3, StartReplayTape DEF TapeInv, Running
<1>2. CASE phase = "replay" /\ UNCHANGED <<recorded, runs, tape>>
  BY <1>2 DEF FidelityInv, TapeInv, LiveRun, LastVm, Before
<1>3. ASSUME NEW op \in Ops, ReplayOp(op) PROVE TapeInv'
  BY <1>2, <1>3 DEF ReplayOp, tapeVars
<1>4. ASSUME NEW op \in Ops, ReplayToolCall(op) PROVE TapeInv'
  <2>1. PICK a \in TapeAnswers : TapeCall(op.call, a)
    BY <1>4 DEF ReplayToolCall
  <2>2. tape' = tape
    BY <2>1 DEF TapeCall, StayDiverged, Diverge, Exhaust, Serve, tapeVars
  <2>3. QED
    BY <1>2, <1>4, <2>2 DEF ReplayToolCall
<1>5. \A op \in Ops : ~DryOp(op) /\ ~DryToolCall(op)
  BY DEF DryOp, DryToolCall
<1>6. ~Execute
  BY DEF Execute
<1>7. CASE UNCHANGED vars
  BY <1>2, <1>7 DEF vars
<1>8. QED
  BY <1>1, <1>3, <1>4, <1>5, <1>6, <1>7 DEF Next, DryStep, ReplayStep

(* One step of the replay: the program repeats the recorded operation, and *)
(* the tape gives the recorded answer if the host is asked.                *)
LEMMA ReplayStepInStep ==
  ASSUME FidelityInv, phase = "replay", ~changed, runs = 1, Faithful(recorded), TapeFits,
         Running, NEW op \in Ops, MayDo(op), NEW a, Advance(op, a),
         IF Consults(vm, op) THEN TapeCall(op.call, a) /\ a \in TapeAnswers
                             ELSE a = NoAnswer /\ UNCHANGED tapeVars
  PROVE  LET n == Len(trace) IN
         /\ n < Len(recorded)
         /\ trace' = SubSeq(recorded, 1, n + 1)
         /\ Len(trace') = n + 1
         /\ vm' = recorded[n + 1].vm
         /\ cursor' = Len(vm'.records)
         /\ divergence' = NoDivergence
<1> DEFINE n == Len(trace)
           s == recorded[n + 1]
           rs == LastVm(recorded).records
<1>1. /\ trace \in Seq(Steps) /\ recorded \in Seq(Steps) /\ vm \in VmStates
      /\ n \in Nat /\ n <= Len(recorded)
      /\ trace = SubSeq(recorded, 1, n)
      /\ vm = Before(recorded, n + 1)
      /\ cursor = Len(vm.records) /\ ~Diverged
  BY DEF FidelityInv, TypeOK, InStep
<1>2. /\ LiveRun(recorded) /\ LastVm(recorded).status # "running"
      /\ Len(tape.entries) = Len(rs)
      /\ \A i \in 1..Len(rs) : tape.entries[i] = EntryOf(rs[i])
      /\ Len(tape.calls) = Len(rs) => \A i \in 1..Len(rs) : tape.calls[i] = rs[i].call
  BY DEF FidelityInv, TapeInv
<1>3. n < Len(recorded)
  <2>1. n # Len(recorded)
    BY <1>1, <1>2 DEF LastVm, Running
  <2>2. QED
    BY <1>1, <2>1
<1>4. n + 1 \in 1..Len(recorded) /\ s \in Steps
  BY <1>1, <1>3
<1>5. op = s.op
  BY <1>1, <1>3 DEF MayDo, OnScript
<1>6. LiveStep(vm, s) /\ PrefixOf(s.vm.records, rs) /\ FaithfulAnswer(s.ans)
  BY <1>1, <1>2, <1>4 DEF LiveRun, Faithful
<1>7. a = s.ans /\ cursor' = Len(s.vm.records) /\ divergence' = NoDivergence
  <2>1. CASE ~Consults(vm, op)
    <3>1. a = s.ans
      BY <1>5, <1>6, <2>1 DEF LiveStep
    <3>2. s.vm.records = vm.records
      BY <1>1, <1>5, <1>6, <2>1, UnconsultedRecords DEF LiveStep
    <3>3. QED
      BY <1>1, <2>1, <3>1, <3>2 DEF tapeVars, Diverged
  <2>2. CASE Consults(vm, op)
    <3> DEFINE r == s.vm.records[cursor + 1]
    <3>1. s.ans \in LiveAnswers /\ s.vm = After(vm, op, s.ans)
      BY <1>5, <1>6, <2>2 DEF LiveStep
    <3>2. /\ Len(s.vm.records) = cursor + 1
          /\ r.call = op.call /\ EntryAnswer(EntryOf(r)) = s.ans
      BY <1>1, <1>6, <2>2, <3>1, FaithfulRecord DEF Running
    <3>3. cursor \in Nat /\ LastVm(recorded) \in VmStates
      BY <1>1, LastVmType DEF VmStates
    <3>4. rs \in Seq(Records)
      BY <3>3 DEF VmStates
    <3>5. cursor + 1 \in 1..Len(rs) /\ rs[cursor + 1] = r
      BY <1>6, <3>2, <3>3, <3>4 DEF PrefixOf
    <3>6. ~IsExhausted /\ tape.entries[cursor + 1] = EntryOf(r)
      BY <1>2, <3>3, <3>4, <3>5 DEF IsExhausted
    <3>7. strict => Expected = KnownCall(op.call)
      BY <1>2, <3>2, <3>3, <3>4, <3>5, <3>6 DEF Expected, TapeFits
    <3>8. Serve(op.call, a)
      BY <1>1, <2>2, <3>6, <3>7
         DEF TapeCall, StayDiverged, Diverge, Exhaust
    <3>9. QED
      BY <1>1, <3>2, <3>6, <3>8 DEF Serve, Diverged
  <2>3. QED
    BY <2>1, <2>2
<1>8. vm' = s.vm
  BY <1>5, <1>6, <1>7 DEF Advance, LiveStep
<1>9. Step(op, a, vm') = s
  BY <1>4, <1>5, <1>7, <1>8 DEF Step, Steps
<1>10. trace' = SubSeq(recorded, 1, n + 1) /\ Len(trace') = n + 1
  BY <1>1, <1>4, <1>9 DEF Advance
<1>11. QED
  BY <1>3, <1>7, <1>8, <1>10

LEMMA InStepInductive == FidelityInv /\ [Next]_vars => InStep'
<1> SUFFICES ASSUME FidelityInv, [Next]_vars,
                    phase' = "replay", ~changed', runs' = 1, Faithful(recorded'), TapeFits'
             PROVE  /\ Len(trace') <= Len(recorded')
                    /\ trace' = SubSeq(recorded', 1, Len(trace'))
                    /\ vm' = Before(recorded', Len(trace') + 1)
                    /\ cursor' = Len(vm'.records)
                    /\ ~Diverged'
  BY DEF InStep, Faithful, FaithfulAnswer, Before
<1>1. /\ TypeOK /\ trace \in Seq(Steps) /\ recorded \in Seq(Steps)
  BY DEF FidelityInv, TypeOK
<1>2. CASE StartReplay
  <2>1. /\ trace' = << >> /\ vm' = NewVm /\ recorded' = trace
    BY <1>2 DEF StartReplay
  <2>2. cursor' = 0 /\ divergence' = NoDivergence
    BY <1>1, <1>2, StartReplayTape
  <2>3. SubSeq(trace, 1, 0) = << >> /\ Len(<< >>) = 0 /\ Len(trace) \in Nat
    BY <1>1
  <2>4. Len(NewVm.records) = 0
    BY <2>3 DEF NewVm
  <2>5. QED
    BY <2>1, <2>2, <2>3, <2>4 DEF Before, Diverged
<1>3. ASSUME phase = "replay", UNCHANGED <<changed, runs, recorded>>, TapeFits,
             Running, NEW op \in Ops, MayDo(op), NEW a, Advance(op, a),
             IF Consults(vm, op) THEN TapeCall(op.call, a) /\ a \in TapeAnswers
                                 ELSE a = NoAnswer /\ UNCHANGED tapeVars
      PROVE  /\ Len(trace') <= Len(recorded')
             /\ trace' = SubSeq(recorded', 1, Len(trace'))
             /\ vm' = Before(recorded', Len(trace') + 1)
             /\ cursor' = Len(vm'.records)
             /\ ~Diverged'
  <2> DEFINE n == Len(trace)
  <2>1. /\ n < Len(recorded)
        /\ trace' = SubSeq(recorded, 1, n + 1)
        /\ Len(trace') = n + 1
        /\ vm' = recorded[n + 1].vm
        /\ cursor' = Len(vm'.records)
        /\ divergence' = NoDivergence
    BY <1>3, ReplayStepInStep
  <2>2. n \in Nat /\ Len(recorded) \in Nat
    BY <1>1
  <2>3. QED
    BY <1>3, <2>1, <2>2 DEF Before, Diverged
<1>4. ASSUME NEW op \in Ops, ReplayOp(op) PROVE InStep'
  <2>1. TapeFits
    BY <1>4 DEF ReplayOp, tapeVars, TapeFits
  <2>2. QED
    BY <1>3, <1>4, <2>1 DEF ReplayOp, InStep
<1>5. ASSUME NEW op \in Ops, ReplayToolCall(op) PROVE InStep'
  <2>1. PICK a \in TapeAnswers : TapeCall(op.call, a) /\ Advance(op, a)
    BY <1>5 DEF ReplayToolCall
  <2>2. TapeFits
    BY <2>1 DEF TapeCall, StayDiverged, Diverge, Exhaust, Serve, tapeVars, TapeFits
  <2>3. QED
    BY <1>3, <1>5, <2>1, <2>2 DEF ReplayToolCall, InStep
<1>6. \A op \in Ops : ~DryOp(op) /\ ~DryToolCall(op)
  BY DEF DryOp, DryToolCall
<1>7. ~Execute
  BY DEF Execute
<1>8. CASE UNCHANGED vars
  BY <1>8 DEF vars, FidelityInv, InStep, TapeFits, Diverged
<1>9. QED
  BY <1>2, <1>4, <1>5, <1>6, <1>7, <1>8 DEF Next, DryStep, ReplayStep, InStep

(* Record and replay keep in step: the replay of the same program, of a    *)
(* first run whose answers a tape can carry, repeats the recorded run step *)
(* by step, with the same answers, gas, counters and records.              *)
THEOREM Fidelity == Spec => []ReplayFidelity
<1>1. Init => FidelityInv
  BY InitType DEF Init, FidelityInv, DryInv, TapeInv, InStep, LiveRun, LastVm, Before
<1>2. FidelityInv /\ [Next]_vars => FidelityInv'
  BY NextType, DryInvInductive, TapeInvInductive, InStepInductive DEF FidelityInv
<1>3. FidelityInv => ReplayFidelity
  BY DEF FidelityInv, InStep, ReplayFidelity
<1>4. QED
  BY <1>1, <1>2, <1>3, PTL DEF Spec

-----------------------------------------------------------------------------
(* What a replay reports and yields: StrictFindsFirst, DivergenceLatched,  *)
(* RunIsBounded and TapeReproduced.                                        *)

(* A tape never holds more calls than entries.                             *)
Aligned == Len(tape.calls) <= Len(tape.entries)

(* StrictFindsFirst, and where the cursor is: at the divergence, or one    *)
(* past the last call of the transcript.                                   *)
StrictInv ==
  phase = "replay" /\ strict =>
    LET rs == vm.records
        n  == IF Diverged THEN divergence.seq ELSE Len(rs)
    IN  /\ cursor = n /\ n <= Len(tape.calls)
        /\ \A i \in 1..n : rs[i].call = tape.calls[i]
        /\ Diverged =>
             /\ n < Len(rs)
             /\ rs[n + 1].call = divergence.actual
             /\ n < Len(tape.calls) => divergence.actual # tape.calls[n + 1]
             /\ \A i \in n + 1..Len(rs) : rs[i].error_message = DivergedMsg

-----------------------------------------------------------------------------
(* An answer of the tape always leaves one record: a table that was        *)
(* decoded can be encoded.                                                 *)
LEMMA EntryAnswerRecordable ==
  ASSUME NEW e \in Entries, NEW a, a = EntryAnswer(e), a.kind = "ok"
  PROVE  Canon[a.val] \in Bytes
BY CanonAssumption DEF CanonAssumption, EntryAnswer, OkAnswer, ErrAnswer

LEMMA TapeCallRecorded ==
  ASSUME TypeOK, NEW op \in Ops, NEW a \in TapeAnswers, Running, Consults(vm, op),
         TapeCall(op.call, a)
  PROVE  \E r : /\ After(vm, op, a).records = Append(vm.records, r)
                /\ r.call = op.call
                /\ a.kind = "err" => r.error_message = a.val
<1>1. vm \in VmStates /\ vm.status = "running"
  BY DEF TypeOK, Running
<1>2. CASE a.kind = "ok"
  <2>1. Canon[a.val] \in Bytes
    <3>1. a # ErrAnswer(DivergedMsg) /\ a # ErrAnswer(ExhaustedMsg)
      BY <1>2 DEF ErrAnswer
    <3>2. Serve(op.call, a)
      BY <3>1 DEF TapeCall, StayDiverged, Diverge, Exhaust
    <3>3. tape.entries[cursor + 1] \in Entries
      BY <3>2 DEF Serve, IsExhausted, TypeOK
    <3>4. QED
      BY <1>2, <3>2, <3>3, EntryAnswerRecordable DEF Serve
  <2> DEFINE b == Canon[a.val]
             r == OkRecord(op.call, b, ToolCallBase + ArgBytes[op.call] + Size[b])
  <2>2. After(vm, op, a).records = Append(vm.records, r)
    BY <1>1, <1>2, <2>1, CanonAssumption, ConsultedRecords DEF CanonAssumption
  <2>3. r.call = op.call
    BY DEF OkRecord
  <2>4. QED
    BY <1>2, <2>2, <2>3
<1>3. CASE a.kind # "ok"
  <2> DEFINE r == ErrorRecord(op.call, a.val)
  <2>1. After(vm, op, a).records = Append(vm.records, r)
    BY <1>1, <1>3, ConsultedRecords
  <2>2. r.call = op.call /\ r.error_message = a.val
    BY DEF ErrorRecord
  <2>3. QED
    BY <2>1, <2>2
<1>4. QED
  BY <1>2, <1>3

LEMMA AlignedInductive == TypeOK /\ Aligned /\ [Next]_vars => Aligned'
<1> SUFFICES ASSUME TypeOK, Aligned, [Next]_vars PROVE Aligned'
  OBVIOUS
<1>1. CASE StartReplay
  <2> DEFINE t == FromRecords(vm.records)
  <2>1. PICK s \in Strictness, legacy \in LegacyTapes :
          Load(IF legacy THEN WithoutCalls(t) ELSE t, s)
    BY <1>1 DEF StartReplay
  <2>2. tape' = IF legacy THEN [t EXCEPT !.calls = << >>] ELSE t
    BY <2>1 DEF Load, WithoutCalls
  <2>3. vm.records \in Seq(Records)
    BY DEF TypeOK, VmStates
  <2>4. /\ t \in [entries : Seq(Entries), calls : Seq(Calls)]
        /\ Len(t.entries) = Len(t.calls) /\ Len(t.entries) \in Nat
    BY <2>3, FromRecordsType
  <2> HIDE DEF t
  <2>5. Len(<< >>) = 0
    OBVIOUS
  <2>6. QED
    BY <2>2, <2>4, <2>5 DEF Aligned
<1>2. ASSUME NEW op \in Ops, ReplayToolCall(op) PROVE UNCHANGED tape
  BY <1>2 DEF ReplayToolCall, TapeCall, StayDiverged, Diverge, Exhaust, Serve, tapeVars
<1>3. CASE UNCHANGED tape
  BY <1>3 DEF Aligned
<1>4. QED
  BY <1>1, <1>2, <1>3
  DEF Next, DryStep, ReplayStep, DryOp, DryToolCall, Execute, ReplayOp, vars, tapeVars

-----------------------------------------------------------------------------
(* One call of a strict replay. *)
LEMMA StrictCall ==
  ASSUME TypeOK, Aligned, StrictInv, phase = "replay", strict,
         NEW op \in Ops, Running, Consults(vm, op),
         NEW a \in TapeAnswers, TapeCall(op.call, a), Advance(op, a),
         UNCHANGED phase
  PROVE  StrictInv'
<1> DEFINE rs == vm.records
           c == op.call
<1>1. PICK r : /\ After(vm, op, a).records = Append(rs, r)
               /\ r.call = c
               /\ a.kind = "err" => r.error_message = a.val
  BY TapeCallRecorded
<1>2. /\ rs \in Seq(Records) /\ Len(rs) \in Nat
      /\ cursor \in Nat /\ Len(tape.calls) \in Nat /\ Len(tape.entries) \in Nat
  BY DEF TypeOK, VmStates
<1>3. /\ Len(vm'.records) = Len(rs) + 1 /\ vm'.records[Len(rs) + 1] = r
      /\ \A i \in 1..Len(rs) : vm'.records[i] = rs[i]
  BY <1>1, <1>2 DEF Advance
<1>4. tape' = tape /\ strict' = strict
  BY DEF TapeCall, StayDiverged, Diverge, Exhaust, Serve, tapeVars
<1>5. CASE StayDiverged(a)
  <2>1. Diverged /\ divergence' = divergence /\ cursor' = cursor
    BY <1>5 DEF StayDiverged, tapeVars
  <2>2. r.error_message = DivergedMsg
    BY <1>1, <1>5 DEF StayDiverged, ErrAnswer
  <2>3. divergence.seq = cursor
    BY <2>1 DEF StrictInv
  <2> DEFINE n == divergence.seq
  <2>4. /\ n <= Len(tape.calls) /\ \A i \in 1..n : rs[i].call = tape.calls[i]
        /\ n < Len(rs) /\ rs[n + 1].call = divergence.actual
        /\ n < Len(tape.calls) => divergence.actual # tape.calls[n + 1]
        /\ \A i \in n + 1..Len(rs) : rs[i].error_message = DivergedMsg
    BY <2>1 DEF StrictInv
  <2>5. /\ \A i \in 1..n : vm'.records[i] = rs[i]
        /\ vm'.records[n + 1] = rs[n + 1]
        /\ \A i \in n + 1..Len(rs) + 1 : i \in n + 1..Len(rs) \/ i = Len(rs) + 1
    BY <1>2, <1>3, <2>3, <2>4
  <2>6. \A i \in n + 1..Len(rs) + 1 : vm'.records[i].error_message = DivergedMsg
    BY <1>2, <1>3, <2>2, <2>3, <2>4, <2>5
  <2>7. Diverged'
    BY <2>1 DEF Diverged
  <2>8. n < Len(vm'.records)
    BY <1>2, <1>3, <2>3, <2>4
  <2>9. QED
    BY <1>3, <1>4, <2>1, <2>3, <2>4, <2>5, <2>6, <2>7, <2>8 DEF StrictInv
<1>6. CASE Diverge(c, a)
  <2>1. /\ ~Diverged /\ cursor' = cursor /\ Expected # KnownCall(c)
        /\ divergence' = [seq |-> cursor, expected |-> Expected, actual |-> c]
    BY <1>6 DEF Diverge
  <2>2. r.error_message = DivergedMsg
    BY <1>1, <1>6 DEF Diverge, ErrAnswer
  <2>3. /\ cursor = Len(rs) /\ cursor <= Len(tape.calls)
        /\ \A i \in 1..Len(rs) : rs[i].call = tape.calls[i]
    BY <2>1 DEF StrictInv
  <2>4. cursor < Len(tape.calls) => c # tape.calls[cursor + 1]
    BY <1>2, <2>1 DEF Expected, IsExhausted, Aligned, KnownCall
  <2>5. /\ Diverged' /\ divergence'.seq = cursor /\ divergence'.actual = c
    BY <1>2, <2>1 DEF Diverged, NoDivergence
  <2>6. \A i \in cursor + 1..Len(rs) + 1 : i = Len(rs) + 1
    BY <1>2, <2>3
  <2>7. \A i \in 1..cursor : vm'.records[i].call = tape.calls[i]
    BY <1>3, <2>3
  <2>8. \A i \in cursor + 1..Len(vm'.records) : vm'.records[i].error_message = DivergedMsg
    BY <1>3, <2>2, <2>6
  <2>9. cursor < Len(vm'.records) /\ vm'.records[cursor + 1].call = c
    BY <1>1, <1>2, <1>3, <2>3
  <2>10. QED
    BY <1>4, <2>1, <2>3, <2>4, <2>5, <2>7, <2>8, <2>9 DEF StrictInv
<1>7. CASE Serve(c, a)
  <2>1. /\ ~Diverged /\ Expected = KnownCall(c)
        /\ cursor' = cursor + 1 /\ divergence' = divergence
    BY <1>7 DEF Serve, Accepts
  <2>2. cursor < Len(tape.calls) /\ c = tape.calls[cursor + 1]
    BY <1>2, <2>1 DEF Expected, IsExhausted, KnownCall, NoCall
  <2>3. cursor = Len(rs) /\ \A i \in 1..Len(rs) : rs[i].call = tape.calls[i]
    BY <2>1 DEF StrictInv
  <2>4. \A i \in 1..Len(rs) + 1 : i \in 1..Len(rs) \/ i = Len(rs) + 1
    BY <1>2
  <2>5. \A i \in 1..Len(vm'.records) : vm'.records[i].call = tape.calls[i]
    BY <1>1, <1>3, <2>2, <2>3, <2>4
  <2>6. ~Diverged' /\ cursor' = Len(vm'.records) /\ cursor' <= Len(tape.calls)
    BY <1>2, <1>3, <2>1, <2>2, <2>3 DEF Diverged
  <2>7. QED
    BY <1>4, <2>5, <2>6 DEF StrictInv
<1>8. ~Exhaust(c, a)
  BY <1>2 DEF Exhaust, Accepts, Expected, IsExhausted, KnownCall, NoCall
<1>9. QED
  BY <1>5, <1>6, <1>7, <1>8 DEF TapeCall

LEMMA StrictInductive == TypeOK /\ Aligned /\ StrictInv /\ [Next]_vars => StrictInv'
<1> SUFFICES ASSUME TypeOK, Aligned, StrictInv, [Next]_vars, phase' = "replay", strict'
             PROVE  StrictInv'
  BY DEF StrictInv
<1>1. CASE StartReplay
  <2>1. cursor' = 0 /\ ~Diverged' /\ tape' \in [entries : Seq(Entries), calls : Seq(Calls)]
    <3>1. TypeOK'
      BY NextType
    <3>2. QED
      BY <1>1, <3>1, StartReplayTape DEF Diverged, TypeOK
  <2>2. vm'.records = << >>
    BY <1>1 DEF StartReplay, NewVm
  <2>3. Len(<< >>) = 0 /\ Len(tape'.calls) \in Nat
    BY <2>1
  <2>4. QED
    BY <2>1, <2>2, <2>3 DEF StrictInv
<1>2. ASSUME NEW op \in Ops, ReplayOp(op) PROVE StrictInv'
  <2>1. vm'.records = vm.records
    BY <1>2, UnconsultedRecords DEF ReplayOp, Advance, TypeOK, Running
  <2>2. UNCHANGED <<phase, tape, cursor, strict, divergence>>
    BY <1>2 DEF ReplayOp, tapeVars
  <2>3. QED
    BY <2>1, <2>2 DEF StrictInv, Diverged
<1>3. ASSUME NEW op \in Ops, ReplayToolCall(op) PROVE StrictInv'
  <2>1. PICK a \in TapeAnswers : TapeCall(op.call, a) /\ Advance(op, a)
    BY <1>3 DEF ReplayToolCall
  <2>2. strict
    BY <2>1 DEF TapeCall, StayDiverged, Diverge, Exhaust, Serve, tapeVars
  <2>3. QED
    BY <1>3, <2>1, <2>2, StrictCall DEF ReplayToolCall
<1>4. CASE UNCHANGED vars
  BY <1>4 DEF vars, StrictInv, Diverged
<1>5. QED
  BY <1>1, <1>2, <1>3, <1>4
  DEF Next, DryStep, ReplayStep, DryOp, DryToolCall, Execute

(* A strict replay, of whatever program, reports exactly the first call    *)
(* that is not the recorded one (TapeHost::check_strict).                  *)
THEOREM StrictReplayFindsFirst == Spec => []StrictFindsFirst
<1>1. Init => Aligned /\ StrictInv
  <2>1. Len(<< >>) = 0 /\ << >> \in Seq(Records)
    OBVIOUS
  <2> DEFINE rs == << >>
  <2>2. Len(FromRecords(rs).entries) = Len(rs) /\ Len(FromRecords(rs).calls) = Len(rs)
    <3>1. rs \in Seq(Records)
      BY <2>1
    <3> HIDE DEF rs
    <3>2. QED
      BY <3>1, FromRecordsType
  <2>3. QED
    BY <2>1, <2>2 DEF Init, Aligned, StrictInv, EmptyTape
<1>2. TypeOK /\ Aligned /\ StrictInv => StrictFindsFirst
  <2> SUFFICES ASSUME TypeOK, Aligned, StrictInv, phase = "replay", strict
               PROVE  StrictFindsFirst
    BY DEF StrictFindsFirst
  <2>1. cursor <= Len(tape.entries)
    BY DEF TypeOK
  <2>2. QED
    BY <2>1 DEF StrictInv, StrictFindsFirst
<1>3. QED
  BY <1>1, <1>2, InitType, NextType, AlignedInductive, StrictInductive, PTL DEF Spec

(* Once a strict replay has diverged, its host never changes again: an     *)
(* error that is caught does not resynchronise it (check_strict's latch).  *)
THEOREM DivergenceIsLatched == Spec => DivergenceLatched
<1> DEFINE Inv == Diverged => strict
<1>1. Init => Inv
  BY DEF Init, Diverged
<1>2. Inv /\ [Next]_vars => Inv'
  <2> SUFFICES ASSUME Inv, [Next]_vars PROVE Inv'
    OBVIOUS
  <2>1. ASSUME NEW op \in Ops, ReplayToolCall(op) PROVE Inv'
    <3>1. PICK a \in TapeAnswers : TapeCall(op.call, a)
      BY <2>1 DEF ReplayToolCall
    <3>2. QED
      BY <3>1 DEF TapeCall, StayDiverged, Diverge, Exhaust, Serve, tapeVars, Diverged
  <2>2. CASE StartReplay
    BY <2>2 DEF StartReplay, Load, Diverged
  <2>3. CASE UNCHANGED tapeVars
    BY <2>3 DEF tapeVars, Diverged
  <2>4. QED
    BY <2>1, <2>2, <2>3
    DEF Next, DryStep, ReplayStep, DryOp, DryToolCall, Execute, ReplayOp, vars, tapeVars
<1>3. Inv /\ [Next]_vars => [phase = "replay" /\ Diverged => UNCHANGED tapeVars]_vars
  <2> SUFFICES ASSUME strict, Next, phase = "replay", Diverged PROVE UNCHANGED tapeVars
    OBVIOUS
  <2>1. ASSUME NEW op \in Ops, ReplayToolCall(op) PROVE UNCHANGED tapeVars
    <3>1. PICK a \in TapeAnswers : TapeCall(op.call, a)
      BY <2>1 DEF ReplayToolCall
    <3>2. QED
      BY <3>1 DEF TapeCall, StayDiverged, Diverge, Exhaust, Serve, Accepts
  <2>2. QED
    BY <2>1 DEF Next, DryStep, ReplayStep, DryOp, DryToolCall, Execute, StartReplay, ReplayOp
<1>4. QED
  BY <1>1, <1>2, <1>3, PTL DEF Spec, DivergenceLatched

-----------------------------------------------------------------------------
(* Gas is only ever spent, and every operation that leaves the run going   *)
(* spends some.                                                            *)

LEMMA ChargeSpends ==
  ASSUME NEW v \in VmStates, NEW n \in Nat
  PROVE  Charge(v, n).remaining <= v.remaining
<1>1. v.remaining \in Nat
  BY MeterAssumption DEF MeterAssumption, VmStates
<1>2. QED
  BY <1>1 DEF Charge, VmStates

LEMMA RaiseSpends ==
  ASSUME NEW v \in VmStates, NEW err \in Results, NEW p \in BOOLEAN
  PROVE  Raise(v, err, p).remaining <= v.remaining
<1>1. /\ [v EXCEPT !.result = err] \in VmStates
      /\ [v EXCEPT !.result = err].remaining = v.remaining
      /\ [v EXCEPT !.status = "failed", !.result = err].remaining = v.remaining
  BY DEF VmStates
<1>2. PcallUnwind \in Nat /\ v.remaining \in Nat
  BY MeterAssumption DEF MeterAssumption, VmStates
<1>3. Charge([v EXCEPT !.result = err], PcallUnwind).remaining <= v.remaining
  BY <1>1, <1>2, ChargeSpends
<1>4. QED
  BY <1>1, <1>2, <1>3 DEF Raise

LEMMA RespondedSpends ==
  ASSUME NEW v \in VmStates, NEW c \in Calls, NEW t \in Tables, NEW p \in BOOLEAN
  PROVE  Responded(v, c, t, p).remaining <= v.remaining
<1> DEFINE b == Canon[t]
           cost == ToolCallBase + ArgBytes[c] + Size[b]
           w == Recorded(v, OkRecord(c, b, cost))
           x == [w EXCEPT !.total_bytes_out = @ + Size[b], !.result = Result("ok", t)]
<1>1. /\ Result("RuntimeError", "tool response") \in Results
      /\ Result("RuntimeError", "tool output bytes limit exceeded") \in Results
      /\ Result("ok", t) \in Results
  BY DEF Results
<1>2. CASE b = NoBytes
  BY <1>1, <1>2, RaiseSpends DEF Responded
<1>3. CASE b # NoBytes
  <2>1. b \in Bytes /\ Size[b] \in Nat /\ cost \in Nat
    BY <1>3, CanonAssumption, MeterAssumption DEF CanonAssumption, MeterAssumption
  <2>2. OkRecord(c, b, cost) \in Records
    BY <2>1 DEF OkRecord, Records
  <2>3. /\ w \in VmStates /\ w.total_bytes_out = v.total_bytes_out
        /\ w.remaining = v.remaining
    BY <2>2, RecordedType DEF Recorded, VmStates
  <2>4. CASE v.total_bytes_out + Size[b] > MaxToolBytesOut
    BY <1>1, <1>3, <2>3, <2>4, RaiseSpends DEF Responded
  <2>5. CASE ~(v.total_bytes_out + Size[b] > MaxToolBytesOut)
    <3>1. v.total_bytes_out + Size[b] \in 0..MaxToolBytesOut
      <4>1. v.total_bytes_out \in Nat /\ MaxToolBytesOut \in Nat
        BY MeterAssumption DEF MeterAssumption, VmStates
      <4>2. QED
        BY <2>1, <2>5, <4>1
    <3>2. x \in VmStates
      <4> DEFINE n == w.total_bytes_out + Size[b]
      <4>1. n \in 0..MaxToolBytesOut
        BY <2>3, <3>1
      <4>2. [w EXCEPT !.total_bytes_out = n, !.result = Result("ok", t)] = x
        OBVIOUS
      <4> HIDE DEF n, x
      <4>3. QED
        BY <1>1, <2>3, <4>1, <4>2, ServedType
    <3>3. x.remaining = w.remaining
      BY <2>3 DEF VmStates
    <3>4. Responded(v, c, t, p) = Charge(x, cost)
      BY <1>3, <2>5 DEF Responded
    <3>5. Charge(x, cost).remaining <= x.remaining
      BY <2>1, <3>2, ChargeSpends
    <3>6. QED
      BY <2>3, <3>3, <3>4, <3>5
  <2>6. QED
    BY <2>4, <2>5
<1>4. QED
  BY <1>2, <1>3

LEMMA CalledSpends ==
  ASSUME NEW v \in VmStates, NEW c \in Calls, NEW p \in BOOLEAN, NEW a,
         Asks(v, c) => a \in TapeAnswers
  PROVE  Called(v, c, p, a).remaining <= v.remaining
<1>1. CASE ~Asks(v, c)
  <2>1. /\ Result("RuntimeError", "tool call limit exceeded") \in Results
        /\ Result("RuntimeError", "tool input bytes limit exceeded") \in Results
    BY DEF Results
  <2>2. QED
    BY <1>1, <2>1, RaiseSpends DEF Called, Asks
<1>2. CASE Asks(v, c)
  <2> DEFINE u == Counted(v, c)
  <2>1. u \in VmStates /\ u.remaining = v.remaining
    BY <1>2, CountedType DEF Counted, VmStates
  <2>2. \/ a.kind = "ok" /\ a.val \in Tables
        \/ a.kind = "err" /\ a.val \in Messages \cup TapeMessages
    BY <1>2 DEF TapeAnswers, LiveAnswers, OkAnswer, ErrAnswer
  <2>3. CASE a.kind = "ok"
    BY <1>2, <2>1, <2>2, <2>3, RespondedSpends DEF Called, Asks
  <2>4. CASE a.kind = "err"
    <3>1. ErrorRecord(c, a.val) \in Records /\ Result("ToolError", a.val) \in Results
      BY <2>2, <2>4 DEF ErrorRecord, Records, Results
    <3>2. /\ Recorded(u, ErrorRecord(c, a.val)) \in VmStates
          /\ Recorded(u, ErrorRecord(c, a.val)).remaining = u.remaining
      BY <2>1, <3>1, RecordedType DEF Recorded, VmStates
    <3>3. Rejected(u, c, a.val, p).remaining <= u.remaining
      BY <3>1, <3>2, RaiseSpends DEF Rejected
    <3>4. QED
      BY <1>2, <2>1, <2>4, <3>3 DEF Called, Asks
  <2>5. QED
    BY <2>2, <2>3, <2>4
<1>3. QED
  BY <1>1, <1>2

LEMMA AfterOnlySpends ==
  ASSUME NEW v \in VmStates, NEW op \in Ops, NEW a, v.status = "running", Meets(v, op, a)
  PROVE  After(v, op, a).remaining <= Charge(v, BaseInstruction).remaining
<1> DEFINE w == Charge(v, BaseInstruction)
<1>1. w \in VmStates /\ w.remaining \in Nat
  <2>1. w \in VmStates
    BY ChargeType, MeterAssumption DEF MeterAssumption
  <2> HIDE DEF w
  <2>2. QED
    BY <2>1, MeterAssumption DEF MeterAssumption, VmStates
<1>2. CASE w.status # "failed"
  <2>1. CASE op.kind = "work"
    <3>1. op.gas \in Nat
      BY <2>1, MeterAssumption DEF MeterAssumption, Ops, Work, ToolCall, BadCall, Return
    <3>2. After(v, op, a) = Charge(w, op.gas)
      BY <1>2, <2>1 DEF After
    <3>3. QED
      BY <1>1, <3>1, <3>2, ChargeSpends
  <2>2. CASE op.kind = "return"
    <3>1. After(v, op, a) = [w EXCEPT !.status = "returned"]
      BY <1>2, <2>2 DEF After
    <3>2. QED
      BY <1>1, <3>1, MeterAssumption DEF MeterAssumption, VmStates
  <2>3. CASE op.kind = "badcall"
    <3>1. Result("RuntimeError", "tool args") \in Results /\ op.pcall \in BOOLEAN
      BY <2>3 DEF Results, Ops, Work, ToolCall, BadCall, Return
    <3>2. After(v, op, a) = Raise(w, Result("RuntimeError", "tool args"), op.pcall)
      BY <1>2, <2>3 DEF After
    <3>3. QED
      BY <1>1, <3>1, <3>2, RaiseSpends
  <2>4. CASE op.kind = "call"
    <3>1. op.call \in Calls /\ op.pcall \in BOOLEAN
      BY <2>4 DEF Ops, Work, ToolCall, BadCall, Return
    <3>2. After(v, op, a) = Called(w, op.call, op.pcall, a)
      BY <1>2, <2>4 DEF After
    <3>3. w = [v EXCEPT !.remaining = @ - BaseInstruction] /\ BaseInstruction <= v.remaining
      <4>1. v.remaining \in Nat /\ BaseInstruction \in Nat
        BY MeterAssumption DEF MeterAssumption, VmStates
      <4>2. QED
        BY <1>2, <4>1 DEF Charge
    <3>4. Asks(w, op.call) => a \in TapeAnswers
      BY <2>4, <3>3 DEF Meets, Consults, Asks, OverCalls, OverBytesIn, VmStates
    <3>5. QED
      BY <1>1, <3>1, <3>2, <3>4, CalledSpends
  <2>5. QED
    BY <2>1, <2>2, <2>3, <2>4 DEF Ops, Work, ToolCall, BadCall, Return
<1>3. CASE w.status = "failed"
  BY <1>1, <1>3 DEF After
<1>4. QED
  BY <1>2, <1>3

LEMMA AfterSpends ==
  ASSUME NEW v \in VmStates, NEW op \in Ops, NEW a, v.status = "running", Meets(v, op, a),
         After(v, op, a).status = "running"
  PROVE  After(v, op, a).remaining + 1 <= v.remaining
<1> DEFINE w == Charge(v, BaseInstruction)
<1>1. w \in VmStates
  BY ChargeType, MeterAssumption DEF MeterAssumption
<1>2. After(v, op, a) \in VmStates
  BY AfterType
<1>3. w.status # "failed"
  BY DEF After
<1>4. w.remaining + 1 <= v.remaining /\ w.remaining \in Nat
  <2>1. v.remaining \in Nat /\ BaseInstruction \in Nat /\ BaseInstruction >= 1
    BY MeterAssumption DEF MeterAssumption, VmStates
  <2>2. BaseInstruction <= v.remaining
    BY <1>3, <2>1 DEF Charge
  <2>3. w = [v EXCEPT !.remaining = @ - BaseInstruction]
    BY <2>1, <2>2 DEF Charge
  <2>4. w.remaining = v.remaining - BaseInstruction
    BY <2>3 DEF VmStates
  <2>5. QED
    BY <2>1, <2>2, <2>4
<1>5. After(v, op, a).remaining <= w.remaining
  BY AfterOnlySpends
<1>6. After(v, op, a).remaining \in Nat /\ v.remaining \in Nat
  BY <1>2, MeterAssumption DEF MeterAssumption, VmStates
<1>7. QED
  BY <1>4, <1>5, <1>6

LEMMA AdvanceBounded ==
  ASSUME TypeOK, RunIsBounded, Running, NEW op \in Ops, NEW a \in Answers,
         Meets(vm, op, a), Advance(op, a)
  PROVE  RunIsBounded'
<1>1. /\ vm \in VmStates /\ vm' \in VmStates /\ trace \in Seq(Steps)
      /\ vm.remaining \in Nat /\ vm'.remaining \in Nat
  BY AdvanceType, MeterAssumption DEF MeterAssumption, TypeOK, VmStates
<1>2. Len(trace') = Len(trace) + 1 /\ Len(trace) \in Nat
  BY <1>1 DEF Advance
<1>3. Len(trace) + vm.remaining <= GasLimit
  BY DEF RunIsBounded
<1>4. Running' => vm'.remaining + 1 <= vm.remaining
  BY <1>1, AfterSpends DEF Advance, Running
<1>5. QED
  BY <1>1, <1>2, <1>3, <1>4, MeterAssumption DEF MeterAssumption, RunIsBounded

(* No run lasts for ever: its operations are no more than its gas, and one *)
(* (dispatch charges each of them, GasMeter::charge ends the run).         *)
THEOREM RunsAreBounded == Spec => []RunIsBounded
<1>1. Len(<< >>) = 0 /\ GasLimit \in Nat
  BY MeterAssumption DEF MeterAssumption
<1>2. Init => RunIsBounded
  BY <1>1 DEF Init, NewVm, RunIsBounded
<1>3. TypeOK /\ RunIsBounded /\ [Next]_vars => RunIsBounded'
  <2> SUFFICES ASSUME TypeOK, RunIsBounded, [Next]_vars PROVE RunIsBounded'
    OBVIOUS
  <2>1. ASSUME NEW op \in Ops, DryOp(op) PROVE RunIsBounded'
    BY <2>1, AdvanceBounded DEF DryOp, Meets, Answers
  <2>2. ASSUME NEW op \in Ops, DryToolCall(op) PROVE RunIsBounded'
    <3>1. PICK a \in HostAnswers : Advance(op, a)
      BY <2>2 DEF DryToolCall
    <3>2. a \in TapeAnswers
      BY ReplayAssumption DEF ReplayAssumption, TapeAnswers
    <3>3. QED
      BY <2>2, <3>1, <3>2, AdvanceBounded DEF DryToolCall, Meets, Answers
  <2>3. CASE Execute
    <3>1. vm'.remaining = vm.remaining /\ trace' = << >>
      BY <2>3 DEF Execute, Reset, NewVm
    <3>2. vm.remaining \in Nat /\ vm.remaining <= GasLimit
      BY <1>1 DEF TypeOK, VmStates
    <3>3. QED
      BY <1>1, <3>1, <3>2 DEF RunIsBounded
  <2>4. CASE StartReplay
    BY <1>1, <2>4 DEF StartReplay, NewVm, RunIsBounded
  <2>5. ASSUME NEW op \in Ops, ReplayOp(op) PROVE RunIsBounded'
    BY <2>5, AdvanceBounded DEF ReplayOp, Meets, Answers
  <2>6. ASSUME NEW op \in Ops, ReplayToolCall(op) PROVE RunIsBounded'
    <3>1. PICK a \in TapeAnswers : Advance(op, a)
      BY <2>6 DEF ReplayToolCall
    <3>2. QED
      BY <2>6, <3>1, AdvanceBounded DEF ReplayToolCall, Meets, Answers
  <2>7. CASE UNCHANGED vars
    BY <2>7 DEF vars, RunIsBounded, Running
  <2>8. QED
    BY <2>1, <2>2, <2>3, <2>4, <2>5, <2>6, <2>7 DEF Next, DryStep, ReplayStep
<1>4. QED
  BY <1>2, <1>3, InitType, NextType, PTL DEF Spec

-----------------------------------------------------------------------------

(* The transcript of a replay reproduces the tape it consumed.             *)

(* An entry that comes back when its answer is recorded. *)
Carried(e) ==
  \/ \E b \in Bytes : /\ e = OkEntry(b)
                      /\ Decode[b] \in Tables /\ Canon[Decode[b]] = b
  \/ \E m \in Messages \cup TapeMessages : e = ErrEntry(m) /\ m # ""

(* Faithful answers leave such entries. *)
TranscriptInv ==
  phase = "dry" /\ Faithful(trace) =>
    \A i \in 1..Len(vm.records) : Carried(EntryOf(vm.records[i]))

EntriesInv ==
  phase = "replay" /\ Faithful(recorded) =>
    \A i \in 1..Len(tape.entries) : Carried(tape.entries[i])

(* As long as the tape serves, each record of the replay is from an entry. *)
CursorInv ==
  phase = "replay" /\ ~IsExhausted /\ ~Diverged => cursor = Len(vm.records)

(* Only a strict replay diverges. *)
LatchInv == Diverged => strict

ReproductionInv ==
  TypeOK /\ TranscriptInv /\ EntriesInv /\ CursorInv /\ LatchInv /\ TapeReproduced

-----------------------------------------------------------------------------
LEMMA FaithfulIsCarried ==
  ASSUME NEW v \in VmStates, NEW op \in Ops, NEW a \in LiveAnswers,
         v.status = "running", Consults(v, op), FaithfulAnswer(a)
  PROVE  \E r : /\ After(v, op, a).records = Append(v.records, r)
                /\ Carried(EntryOf(r))
<1>1. a \in TapeAnswers
  BY DEF TapeAnswers
<1>2. CASE a.kind = "ok"
  <2> DEFINE b == Canon[a.val]
             r == OkRecord(op.call, b, ToolCallBase + ArgBytes[op.call] + Size[b])
  <2>1. b \in Bytes /\ b # NoBytes /\ Decode[b] = a.val /\ a.val \in Tables
    BY <1>1, <1>2, CanonAssumption, ConsultedRecords DEF CanonAssumption, FaithfulAnswer
  <2>2. After(v, op, a).records = Append(v.records, r)
    BY <1>1, <1>2, <2>1, ConsultedRecords
  <2>3. EntryOf(r) = OkEntry(b)
    BY DEF OkRecord, EntryOf
  <2>4. Carried(OkEntry(b))
    BY <2>1 DEF Carried
  <2> HIDE DEF r
  <2>5. QED
    BY <2>2, <2>3, <2>4
<1>3. CASE a.kind # "ok"
  <2> DEFINE r == ErrorRecord(op.call, a.val)
  <2>1. /\ a.kind = "err" /\ a.val \in Messages \cup TapeMessages
        /\ After(v, op, a).records = Append(v.records, r)
    BY <1>1, <1>3, ConsultedRecords
  <2>2. a.val # ""
    BY <2>1 DEF FaithfulAnswer
  <2>3. EntryOf(r) = ErrEntry(a.val)
    BY <2>2 DEF ErrorRecord, EntryOf
  <2>4. Carried(ErrEntry(a.val))
    BY <2>1, <2>2 DEF Carried
  <2> HIDE DEF r
  <2>5. QED
    BY <2>1, <2>3, <2>4
<1>4. QED
  BY <1>2, <1>3

LEMMA CarriedComesBack ==
  ASSUME NEW v \in VmStates, NEW op \in Ops, v.status = "running", Consults(v, op),
         NEW e, Carried(e), NEW a \in TapeAnswers, a = EntryAnswer(e)
  PROVE  \E r : After(v, op, a).records = Append(v.records, r) /\ EntryOf(r) = e
<1>1. CASE \E b \in Bytes : e = OkEntry(b) /\ Decode[b] \in Tables /\ Canon[Decode[b]] = b
  <2>1. PICK b \in Bytes : e = OkEntry(b) /\ Decode[b] \in Tables /\ Canon[Decode[b]] = b
    BY <1>1
  <2> DEFINE r == OkRecord(op.call, b, ToolCallBase + ArgBytes[op.call] + Size[b])
  <2>2. a.kind = "ok" /\ Canon[a.val] = b /\ b # NoBytes
    BY <2>1, CanonAssumption DEF CanonAssumption, EntryAnswer, OkEntry, OkAnswer
  <2>3. After(v, op, a).records = Append(v.records, r)
    BY <2>2, ConsultedRecords
  <2>4. EntryOf(r) = e
    BY <2>1 DEF OkRecord, EntryOf
  <2> HIDE DEF r
  <2>5. QED
    BY <2>3, <2>4
<1>2. CASE \E m \in Messages \cup TapeMessages : e = ErrEntry(m) /\ m # ""
  <2>1. PICK m \in Messages \cup TapeMessages : e = ErrEntry(m) /\ m # ""
    BY <1>2
  <2> DEFINE r == ErrorRecord(op.call, m)
  <2>2. a.kind = "err" /\ a.val = m
    BY <2>1 DEF EntryAnswer, ErrEntry, ErrAnswer
  <2>3. After(v, op, a).records = Append(v.records, r)
    BY <2>2, ConsultedRecords
  <2>4. EntryOf(r) = e
    BY <2>1 DEF ErrorRecord, EntryOf
  <2> HIDE DEF r
  <2>5. QED
    BY <2>3, <2>4
<1>3. QED
  BY <1>1, <1>2 DEF Carried

-----------------------------------------------------------------------------
(* The dry run. *)
LEMMA TranscriptInductive == ReproductionInv /\ [Next]_vars => TranscriptInv'
<1> SUFFICES ASSUME ReproductionInv, [Next]_vars, (phase = "dry" /\ Faithful(trace))'
             PROVE  \A i \in 1..Len(vm'.records) : Carried(EntryOf(vm'.records[i]))
  BY DEF TranscriptInv
<1>1. /\ vm \in VmStates /\ vm.records \in Seq(Records) /\ trace \in Seq(Steps)
      /\ vm' \in VmStates /\ vm'.records \in Seq(Records) /\ trace' \in Seq(Steps)
  BY NextType DEF ReproductionInv, TypeOK, VmStates
<1>2. ASSUME NEW op \in Ops, NEW a, Advance(op, a), phase = "dry"
      PROVE  /\ FaithfulAnswer(a)
             /\ \A i \in 1..Len(vm.records) : Carried(EntryOf(vm.records[i]))
  <2>1. trace' = Append(trace, Step(op, a, vm'))
    BY <1>2 DEF Advance
  <2>2. /\ Len(trace') = Len(trace) + 1 /\ trace'[Len(trace) + 1] = Step(op, a, vm')
        /\ \A i \in 1..Len(trace) : trace'[i] = trace[i]
    BY <1>1, <2>1
  <2>3. FaithfulAnswer(a)
    BY <1>1, <2>2 DEF Faithful, Step
  <2>4. Faithful(trace)
    BY <1>1, <2>2 DEF Faithful
  <2>5. QED
    BY <1>2, <2>3, <2>4 DEF ReproductionInv, TranscriptInv
<1>3. ASSUME NEW op \in Ops, DryOp(op)
      PROVE  \A i \in 1..Len(vm'.records) : Carried(EntryOf(vm'.records[i]))
  <2>1. vm'.records = vm.records
    BY <1>1, <1>3, UnconsultedRecords DEF DryOp, Running, Advance
  <2>2. QED
    BY <1>2, <1>3, <2>1 DEF DryOp
<1>4. ASSUME NEW op \in Ops, DryToolCall(op)
      PROVE  \A i \in 1..Len(vm'.records) : Carried(EntryOf(vm'.records[i]))
  <2>1. PICK a \in HostAnswers : Advance(op, a)
    BY <1>4 DEF DryToolCall
  <2>2. a \in LiveAnswers /\ FaithfulAnswer(a)
    BY <1>2, <1>4, <2>1, ReplayAssumption DEF ReplayAssumption, DryToolCall
  <2>3. PICK r : vm'.records = Append(vm.records, r) /\ Carried(EntryOf(r))
    BY <1>1, <1>4, <2>1, <2>2, FaithfulIsCarried DEF DryToolCall, Running, Advance
  <2>4. \A i \in 1..Len(vm'.records) : vm'.records[i] = IF i <= Len(vm.records) THEN vm.records[i] ELSE r
    BY <1>1, <2>3
  <2>5. \A i \in 1..Len(vm.records) : Carried(EntryOf(vm.records[i]))
    BY <1>2, <1>4, <2>1 DEF DryToolCall
  <2>6. ASSUME NEW i \in 1..Len(vm'.records) PROVE Carried(EntryOf(vm'.records[i]))
    <3>1. CASE i <= Len(vm.records)
      BY <1>1, <2>4, <2>5, <3>1
    <3>2. CASE ~(i <= Len(vm.records))
      BY <2>3, <2>4, <3>2
    <3>3. QED
      BY <3>1, <3>2
  <2>7. QED
    BY <2>6
<1>5. CASE Execute
  BY <1>5 DEF Execute, Reset, NewVm
<1>6. CASE UNCHANGED vars
  BY <1>6 DEF vars, ReproductionInv, TranscriptInv
<1>7. phase' # "replay"
  OBVIOUS
<1>8. QED
  BY <1>3, <1>4, <1>5, <1>6, <1>7
  DEF Next, DryStep, ReplayStep, StartReplay, ReplayOp, ReplayToolCall

LEMMA EntriesInductive == ReproductionInv /\ [Next]_vars => EntriesInv'
<1> SUFFICES ASSUME ReproductionInv, [Next]_vars, (phase = "replay" /\ Faithful(recorded))'
             PROVE  \A i \in 1..Len(tape'.entries) : Carried(tape'.entries[i])
  BY DEF EntriesInv
<1>1. CASE StartReplay
  <2>1. \A i \in 1..Len(vm.records) : Carried(EntryOf(vm.records[i]))
    BY <1>1 DEF StartReplay, ReproductionInv, TranscriptInv, Faithful
  <2>2. /\ Len(tape'.entries) = Len(vm.records)
        /\ \A i \in 1..Len(vm.records) : tape'.entries[i] = EntryOf(vm.records[i])
    BY <1>1, StartReplayTape DEF ReproductionInv
  <2>3. QED
    BY <2>1, <2>2
<1>2. CASE phase = "replay" /\ UNCHANGED <<recorded, tape>>
  BY <1>2 DEF ReproductionInv, EntriesInv, Faithful
<1>3. ASSUME NEW op \in Ops, ReplayToolCall(op)
      PROVE  phase = "replay" /\ UNCHANGED <<recorded, tape>>
  BY <1>3 DEF ReplayToolCall, TapeCall, StayDiverged, Diverge, Exhaust, Serve, tapeVars
<1>4. QED
  BY <1>1, <1>2, <1>3
  DEF Next, DryStep, ReplayStep, DryOp, DryToolCall, Execute, ReplayOp, vars, tapeVars

-----------------------------------------------------------------------------
(* The replay. *)
LEMMA ReproducingCall ==
  ASSUME ReproductionInv, phase = "replay", UNCHANGED <<phase, recorded>>,
         NEW op \in Ops, Running, Consults(vm, op),
         NEW a \in TapeAnswers, TapeCall(op.call, a), Advance(op, a)
  PROVE  CursorInv' /\ TapeReproduced'
<1> DEFINE rs == vm.records
<1>1. /\ TypeOK /\ rs \in Seq(Records) /\ Len(rs) \in Nat /\ cursor \in Nat
      /\ Len(tape.entries) \in Nat /\ vm \in VmStates /\ vm.status = "running"
  BY DEF ReproductionInv, TypeOK, VmStates, Running
<1>2. PICK r : vm'.records = Append(rs, r)
  BY <1>1, TapeCallRecorded DEF Advance
<1>3. /\ Len(vm'.records) = Len(rs) + 1 /\ vm'.records[Len(rs) + 1] = r
      /\ \A i \in 1..Len(rs) : vm'.records[i] = rs[i]
  BY <1>1, <1>2
<1>4. CASE StayDiverged(a) \/ Diverge(op.call, a) \/ Exhaust(op.call, a)
  <2>1. UNCHANGED <<cursor, tape>> /\ (Diverged' \/ IsExhausted')
    BY <1>1, <1>4
    DEF StayDiverged, Diverge, Exhaust, tapeVars, Diverged, IsExhausted, NoDivergence
  <2>2. CursorInv'
    BY <2>1 DEF CursorInv
  <2>3. TapeReproduced'
    <3> SUFFICES ASSUME Faithful(recorded)
                 PROVE  /\ cursor' <= Len(vm'.records)
                        /\ \A i \in 1..cursor' : EntryOf(vm'.records[i]) = tape'.entries[i]
      BY DEF TapeReproduced, Faithful
    <3>1. cursor <= Len(rs) /\ \A i \in 1..cursor : EntryOf(rs[i]) = tape.entries[i]
      BY DEF ReproductionInv, TapeReproduced
    <3>2. QED
      BY <1>1, <1>3, <2>1, <3>1
  <2>4. QED
    BY <2>2, <2>3
<1>5. CASE Serve(op.call, a)
  <2> DEFINE e == tape.entries[cursor + 1]
  <2>1. /\ ~IsExhausted /\ ~Diverged /\ a = EntryAnswer(e)
        /\ cursor' = cursor + 1 /\ tape' = tape /\ divergence' = divergence
    <3>1. Diverged => strict
      BY DEF ReproductionInv, LatchInv
    <3>2. QED
      BY <1>5, <3>1 DEF Serve, Accepts
  <2>2. cursor = Len(rs) /\ cursor + 1 \in 1..Len(tape.entries)
    BY <1>1, <2>1 DEF ReproductionInv, CursorInv, IsExhausted
  <2>3. CursorInv'
    BY <1>3, <2>1, <2>2 DEF CursorInv
  <2>4. ASSUME Faithful(recorded)
        PROVE  EntryOf(r) = e
    <3>1. Carried(e)
      BY <2>2, <2>4 DEF ReproductionInv, EntriesInv
    <3>2. PICK q : vm'.records = Append(rs, q) /\ EntryOf(q) = e
      <4> HIDE DEF e
      <4>1. QED
        BY <1>1, <2>1, <3>1, CarriedComesBack DEF Advance
    <3>3. vm'.records[Len(rs) + 1] = q
      BY <1>1, <3>2
    <3>4. QED
      BY <1>3, <3>2, <3>3
  <2>5. TapeReproduced'
    <3> SUFFICES ASSUME Faithful(recorded)
                 PROVE  /\ cursor' <= Len(vm'.records)
                        /\ \A i \in 1..cursor' : EntryOf(vm'.records[i]) = tape'.entries[i]
      BY DEF TapeReproduced, Faithful
    <3>1. \A i \in 1..cursor : EntryOf(rs[i]) = tape.entries[i]
      BY DEF ReproductionInv, TapeReproduced
    <3>2. \A i \in 1..cursor + 1 : i \in 1..cursor \/ i = cursor + 1
      BY <1>1
    <3>3. QED
      BY <1>1, <1>3, <2>1, <2>2, <2>4, <3>1, <3>2
  <2>6. QED
    BY <2>3, <2>5
<1>6. QED
  BY <1>4, <1>5 DEF TapeCall

LEMMA ReplayInductive == ReproductionInv /\ [Next]_vars => CursorInv' /\ TapeReproduced'
<1> SUFFICES ASSUME ReproductionInv, [Next]_vars, phase' = "replay"
             PROVE  CursorInv' /\ TapeReproduced'
  BY DEF CursorInv, TapeReproduced
<1>1. CASE StartReplay
  <2>1. cursor' = 0 /\ vm'.records = << >>
    BY <1>1, StartReplayTape DEF ReproductionInv, StartReplay, NewVm
  <2>2. Len(<< >>) = 0 /\ 1..0 = {}
    OBVIOUS
  <2>3. QED
    BY <2>1, <2>2 DEF CursorInv, TapeReproduced
<1>2. ASSUME NEW op \in Ops, ReplayOp(op) PROVE CursorInv' /\ TapeReproduced'
  <2>1. vm'.records = vm.records
    BY <1>2, UnconsultedRecords DEF ReplayOp, Advance, ReproductionInv, TypeOK, Running
  <2>2. UNCHANGED <<phase, recorded, tape, cursor, divergence>>
    BY <1>2 DEF ReplayOp, tapeVars
  <2>3. QED
    BY <2>1, <2>2
    DEF ReproductionInv, CursorInv, TapeReproduced, IsExhausted, Diverged, Faithful
<1>3. ASSUME NEW op \in Ops, ReplayToolCall(op) PROVE CursorInv' /\ TapeReproduced'
  <2>1. PICK a \in TapeAnswers : TapeCall(op.call, a) /\ Advance(op, a)
    BY <1>3 DEF ReplayToolCall
  <2>2. QED
    BY <1>3, <2>1, ReproducingCall DEF ReplayToolCall
<1>4. CASE UNCHANGED vars
  BY <1>4
  DEF vars, ReproductionInv, CursorInv, TapeReproduced, IsExhausted, Diverged, Faithful
<1>5. QED
  BY <1>1, <1>2, <1>3, <1>4
  DEF Next, DryStep, ReplayStep, DryOp, DryToolCall, Execute

LEMMA LatchInductive == ReproductionInv /\ [Next]_vars => LatchInv'
<1> SUFFICES ASSUME ReproductionInv, [Next]_vars PROVE LatchInv'
  OBVIOUS
<1>1. ASSUME NEW op \in Ops, ReplayToolCall(op) PROVE LatchInv'
  <2>1. PICK a \in TapeAnswers : TapeCall(op.call, a)
    BY <1>1 DEF ReplayToolCall
  <2>2. QED
    BY <2>1
    DEF ReproductionInv, LatchInv, TapeCall, StayDiverged, Diverge, Exhaust, Serve,
        tapeVars, Diverged
<1>2. CASE StartReplay
  BY <1>2 DEF LatchInv, StartReplay, Load, Diverged
<1>3. CASE UNCHANGED tapeVars
  BY <1>3 DEF ReproductionInv, LatchInv, tapeVars, Diverged
<1>4. QED
  BY <1>1, <1>2, <1>3
  DEF Next, DryStep, ReplayStep, DryOp, DryToolCall, Execute, ReplayOp, vars, tapeVars

(* Whatever program is replayed, by position or strictly, its transcript   *)
(* yields the entries it consumed, so commitments over the two agree       *)
(* (OracleTape::from_records, TapeHost::call_tool, record_ok_attested).    *)
THEOREM TapeIsReproduced == Spec => []TapeReproduced
<1>1. Init => ReproductionInv
  <2> SUFFICES ASSUME Init PROVE ReproductionInv
    OBVIOUS
  <2>1. TypeOK /\ vm.records = << >> /\ Len(<< >>) = 0
    BY InitType DEF Init, NewVm
  <2>2. QED
    BY <2>1
    DEF Init, ReproductionInv, TranscriptInv, EntriesInv, CursorInv, LatchInv,
        TapeReproduced, Diverged
<1>2. ReproductionInv /\ [Next]_vars => ReproductionInv'
  <2>1. ReproductionInv /\ [Next]_vars => TypeOK'
    BY NextType DEF ReproductionInv
  <2>2. QED
    BY <2>1, TranscriptInductive, EntriesInductive, LatchInductive, ReplayInductive
    DEF ReproductionInv
<1>3. ReproductionInv => TapeReproduced
  BY DEF ReproductionInv
<1>4. QED
  BY <1>1, <1>2, <1>3, PTL DEF Spec

-----------------------------------------------------------------------------
(* Sums over the trace, for CallsAccounted and ServedIsPaid.  Each step    *)
(* needs the lemmas of Induction on a sum with one element more.           *)

(* What one operation does to the counters.                                *)

SameCounts(v, w) ==
  /\ w.calls_made = v.calls_made /\ w.total_bytes_in = v.total_bytes_in
  /\ w.total_bytes_out = v.total_bytes_out

LEMMA ChargeCounts ==
  ASSUME NEW v \in VmStates, NEW n \in Nat
  PROVE  SameCounts(v, Charge(v, n))
BY DEF Charge, VmStates, SameCounts

LEMMA RaiseCounts ==
  ASSUME NEW v \in VmStates, NEW err \in Results, NEW p \in BOOLEAN
  PROVE  /\ SameCounts(v, Raise(v, err, p))
         /\ err.kind # "ok" => Raise(v, err, p).result.kind # "ok"
<1> DEFINE u == [v EXCEPT !.result = err]
<1>1. u \in VmStates /\ SameCounts(v, u) /\ u.result = err
  BY DEF VmStates, SameCounts
<1>2. /\ SameCounts(v, [v EXCEPT !.status = "failed", !.result = err])
      /\ [v EXCEPT !.status = "failed", !.result = err].result = err
  BY DEF VmStates, SameCounts
<1>3. PcallUnwind \in Nat
  BY MeterAssumption DEF MeterAssumption
<1>4. Charge(u, PcallUnwind).result \in {err, GasExhausted}
  BY <1>1, <1>3 DEF Charge, VmStates
<1>5. GasExhausted.kind # "ok"
  BY DEF GasExhausted, Result
<1>6. Raise(v, err, p) = IF p THEN Charge(u, PcallUnwind)
                              ELSE [v EXCEPT !.status = "failed", !.result = err]
  BY DEF Raise
<1> HIDE DEF u
<1>7. SameCounts(u, Charge(u, PcallUnwind))
  BY <1>1, <1>3, ChargeCounts
<1>8. QED
  BY <1>1, <1>2, <1>4, <1>5, <1>6, <1>7 DEF SameCounts

(* A response that reaches the program is paid for and within the quota;   *)
(* one that does not is no gain to the meter or the counter.               *)
LEMMA RespondedCounts ==
  ASSUME NEW v \in VmStates, NEW c \in Calls, NEW t \in Tables, NEW p \in BOOLEAN
  PROVE  LET x == Responded(v, c, t, p) IN
         /\ x.calls_made = v.calls_made /\ x.total_bytes_in = v.total_bytes_in
         /\ x.total_bytes_out >= v.total_bytes_out
         /\ x.result.kind = "ok" =>
              /\ Canon[t] \in Bytes
              /\ x.total_bytes_out = v.total_bytes_out + Size[Canon[t]]
              /\ x.remaining = v.remaining - (ToolCallBase + ArgBytes[c] + Size[Canon[t]])
<1> DEFINE b == Canon[t]
           cost == ToolCallBase + ArgBytes[c] + Size[b]
           w == Recorded(v, OkRecord(c, b, cost))
           x == [w EXCEPT !.total_bytes_out = @ + Size[b], !.result = Result("ok", t)]
<1> DEFINE e1 == Result("RuntimeError", "tool response")
           e2 == Result("RuntimeError", "tool output bytes limit exceeded")
<1>1. v.total_bytes_out \in Nat /\ v.remaining \in Nat
  BY MeterAssumption DEF MeterAssumption, VmStates
<1>e. /\ e1 \in Results /\ e1.kind # "ok" /\ e2 \in Results /\ e2.kind # "ok"
      /\ GasExhausted.kind # "ok"
  <2>1. e1 \in Results /\ e2 \in Results
    BY DEF Results
  <2>2. QED
    BY <2>1 DEF Result, GasExhausted
<1>2. CASE b = NoBytes
  <2>1. Responded(v, c, t, p) = Raise(v, e1, p)
    BY <1>2 DEF Responded
  <2> HIDE DEF e1
  <2>2. SameCounts(v, Raise(v, e1, p)) /\ Raise(v, e1, p).result.kind # "ok"
    BY <1>e, RaiseCounts
  <2>3. QED
    BY <1>1, <2>1, <2>2 DEF SameCounts
<1>3. CASE b # NoBytes
  <2>1. b \in Bytes /\ Size[b] \in Nat /\ cost \in Nat
    BY <1>3, CanonAssumption, MeterAssumption DEF CanonAssumption, MeterAssumption
  <2>2. OkRecord(c, b, cost) \in Records
    BY <2>1 DEF OkRecord, Records
  <2>3. w \in VmStates /\ SameCounts(v, w) /\ w.remaining = v.remaining
    BY <2>2, RecordedType DEF Recorded, VmStates, SameCounts
  <2>4. CASE v.total_bytes_out + Size[b] > MaxToolBytesOut
    <3>1. Responded(v, c, t, p) = Raise(w, e2, p)
      BY <1>3, <2>4 DEF Responded
    <3> HIDE DEF e2, w
    <3>2. SameCounts(w, Raise(w, e2, p)) /\ Raise(w, e2, p).result.kind # "ok"
      BY <1>e, <2>3, RaiseCounts
    <3>3. QED
      BY <1>1, <2>3, <3>1, <3>2 DEF SameCounts
  <2>5. CASE ~(v.total_bytes_out + Size[b] > MaxToolBytesOut)
    <3>1. Responded(v, c, t, p) = Charge(x, cost)
      BY <1>3, <2>5 DEF Responded
    <3>2. /\ x.calls_made = w.calls_made /\ x.total_bytes_in = w.total_bytes_in
          /\ x.total_bytes_out = w.total_bytes_out + Size[b]
          /\ x.remaining = w.remaining
      BY <2>3 DEF VmStates
    <3>3. /\ Charge(x, cost).calls_made = x.calls_made
          /\ Charge(x, cost).total_bytes_in = x.total_bytes_in
          /\ Charge(x, cost).total_bytes_out = x.total_bytes_out
          /\ \/ Charge(x, cost).result = GasExhausted
             \/ Charge(x, cost).remaining = x.remaining - cost
      BY <2>3 DEF Charge, VmStates
    <3> DEFINE y == Responded(v, c, t, p)
    <3>4. /\ y.calls_made = v.calls_made /\ y.total_bytes_in = v.total_bytes_in
          /\ y.total_bytes_out = v.total_bytes_out + Size[b]
          /\ y.result.kind = "ok" => y.remaining = v.remaining - cost
      <4> HIDE DEF x, w, cost
      <4>1. QED
        BY <1>e, <2>3, <3>1, <3>2, <3>3 DEF SameCounts
    <3>5. y.total_bytes_out >= v.total_bytes_out
      BY <1>1, <2>1, <3>4
    <3>6. QED
      BY <2>1, <3>4, <3>5
  <2>6. QED
    BY <2>4, <2>5
<1>4. QED
  BY <1>2, <1>3

LEMMA RejectedCounts ==
  ASSUME NEW v \in VmStates, NEW c \in Calls, NEW m \in Messages \cup TapeMessages,
         NEW p \in BOOLEAN
  PROVE  SameCounts(v, Rejected(v, c, m, p))
<1> DEFINE w == Recorded(v, ErrorRecord(c, m))
<1>1. ErrorRecord(c, m) \in Records /\ Result("ToolError", m) \in Results
  BY DEF ErrorRecord, Records, Results
<1>2. w \in VmStates /\ SameCounts(v, w)
  BY <1>1, RecordedType DEF Recorded, VmStates, SameCounts
<1>3. SameCounts(w, Rejected(v, c, m, p))
  BY <1>1, <1>2, RaiseCounts DEF Rejected
<1>4. QED
  BY <1>2, <1>3 DEF SameCounts

LEMMA ConsultedCounts ==
  ASSUME NEW v \in VmStates, NEW op \in Ops, NEW a \in TapeAnswers,
         v.status = "running", Consults(v, op)
  PROVE  LET w == After(v, op, a) IN
         /\ w.calls_made = v.calls_made + 1
         /\ w.total_bytes_in = v.total_bytes_in + ArgBytes[op.call]
         /\ w.total_bytes_out >= v.total_bytes_out
         /\ a.kind = "ok" /\ w.result.kind = "ok" =>
              /\ Canon[a.val] \in Bytes
              /\ w.total_bytes_out = v.total_bytes_out + Size[Canon[a.val]]
              /\ w.remaining + (ToolCallBase + ArgBytes[op.call] + Size[Canon[a.val]])
                   <= v.remaining
<1> DEFINE w == Charge(v, BaseInstruction)
           u == Counted(w, op.call)
           cost == ToolCallBase + ArgBytes[op.call] + Size[Canon[a.val]]
<1>1. op.kind = "call" /\ op.call \in Calls /\ op.pcall \in BOOLEAN
  BY DEF Consults, Ops, Work, ToolCall, BadCall, Return
<1>2. /\ w = [v EXCEPT !.remaining = @ - BaseInstruction]
      /\ w.status # "failed"
  BY MeterAssumption DEF MeterAssumption, Consults, Charge, VmStates
<1>3. w \in VmStates /\ SameCounts(v, w) /\ w.remaining = v.remaining - BaseInstruction
  BY <1>2, ChargeType, MeterAssumption DEF MeterAssumption, SameCounts, VmStates
<1>4. Asks(w, op.call)
  BY <1>2 DEF Consults, Asks, OverCalls, OverBytesIn, VmStates
<1>5. /\ u \in VmStates /\ u.remaining = w.remaining
      /\ u.calls_made = w.calls_made + 1 /\ u.total_bytes_out = w.total_bytes_out
      /\ u.total_bytes_in = w.total_bytes_in + ArgBytes[op.call]
  BY <1>1, <1>3, <1>4, CountedType DEF Counted, VmStates
<1>6. After(v, op, a) = Called(w, op.call, op.pcall, a)
  BY <1>1, <1>2 DEF After
<1>7. After(v, op, a) = IF a.kind = "ok" THEN Responded(u, op.call, a.val, op.pcall)
                                         ELSE Rejected(u, op.call, a.val, op.pcall)
  BY <1>4, <1>6 DEF Called, Asks
<1>8. \/ a.kind = "ok" /\ a.val \in Tables
      \/ a.kind = "err" /\ a.val \in Messages \cup TapeMessages
  BY DEF TapeAnswers, LiveAnswers, OkAnswer, ErrAnswer
<1>9. /\ v.remaining \in Nat /\ v.total_bytes_out \in Nat /\ u.remaining \in Nat
      /\ BaseInstruction \in Nat /\ ArgBytes[op.call] \in Nat
  BY <1>1, <1>5, MeterAssumption DEF MeterAssumption, VmStates
<1> HIDE DEF w, u
<1>10. CASE a.kind = "ok"
  <2> DEFINE x == Responded(u, op.call, a.val, op.pcall)
  <2>1. /\ x.calls_made = u.calls_made /\ x.total_bytes_in = u.total_bytes_in
        /\ x.total_bytes_out >= u.total_bytes_out
        /\ x.result.kind = "ok" =>
             /\ Canon[a.val] \in Bytes
             /\ x.total_bytes_out = u.total_bytes_out + Size[Canon[a.val]]
             /\ x.remaining = u.remaining - cost
    BY <1>1, <1>5, <1>8, <1>10, RespondedCounts
  <2>2. After(v, op, a) = x
    BY <1>7, <1>10
  <2>3. ASSUME x.result.kind = "ok" PROVE x.remaining + cost <= v.remaining
    <3>1. Size[Canon[a.val]] \in Nat /\ cost \in Nat
      BY <1>9, <2>1, <2>3, CanonAssumption, MeterAssumption DEF CanonAssumption, MeterAssumption
    <3> HIDE DEF cost
    <3>2. QED
      BY <1>3, <1>5, <1>9, <2>1, <2>3, <3>1
  <2> HIDE DEF x
  <2>4. QED
    BY <1>3, <1>5, <2>1, <2>2, <2>3 DEF SameCounts
<1>11. CASE a.kind # "ok"
  <2>1. After(v, op, a) = Rejected(u, op.call, a.val, op.pcall)
    BY <1>7, <1>11
  <2>2. SameCounts(u, After(v, op, a))
    BY <1>1, <1>5, <1>8, <1>11, <2>1, RejectedCounts
  <2>3. QED
    BY <1>3, <1>5, <1>9, <1>11, <2>2 DEF SameCounts
<1>12. QED
  BY <1>10, <1>11

LEMMA UnconsultedCounts ==
  ASSUME NEW v \in VmStates, NEW op \in Ops, NEW a, v.status = "running", ~Consults(v, op)
  PROVE  SameCounts(v, After(v, op, a))
<1> DEFINE w == Charge(v, BaseInstruction)
<1>1. w \in VmStates /\ SameCounts(v, w)
  BY ChargeType, ChargeCounts, MeterAssumption DEF MeterAssumption
<1>2. SameCounts(w, After(v, op, a))
  <2>1. CASE w.status = "failed"
    BY <2>1 DEF After, SameCounts
  <2>2. CASE w.status # "failed" /\ op.kind = "work"
    <3>1. op.gas \in Nat
      <4>1. op.kind = "work"
        BY <2>2
      <4> HIDE DEF w
      <4>2. QED
        BY <4>1, MeterAssumption DEF MeterAssumption, Ops, Work, ToolCall, BadCall, Return
    <3>2. After(v, op, a) = Charge(w, op.gas)
      BY <2>2 DEF After
    <3>3. QED
      BY <1>1, <3>1, <3>2, ChargeCounts
  <2>3. CASE w.status # "failed" /\ op.kind = "return"
    <3>1. After(v, op, a) = [w EXCEPT !.status = "returned"]
      BY <2>3 DEF After
    <3>2. QED
      BY <1>1, <3>1 DEF VmStates, SameCounts
  <2>4. CASE w.status # "failed" /\ op.kind = "badcall"
    <3>1. After(v, op, a) = Raise(w, Result("RuntimeError", "tool args"), op.pcall)
      BY <2>4 DEF After
    <3>2. Result("RuntimeError", "tool args") \in Results /\ op.pcall \in BOOLEAN
      BY <2>4 DEF Results, Ops, Work, ToolCall, BadCall, Return
    <3>3. QED
      BY <1>1, <3>1, <3>2, RaiseCounts
  <2>5. CASE w.status # "failed" /\ op.kind = "call"
    <3>1. /\ w = [v EXCEPT !.remaining = @ - BaseInstruction]
          /\ BaseInstruction <= v.remaining
      BY <2>5, MeterAssumption DEF MeterAssumption, Charge, VmStates
    <3>2. ~Asks(w, op.call)
      BY <2>5, <3>1 DEF Consults, Asks, OverCalls, OverBytesIn, VmStates
    <3>3. /\ Result("RuntimeError", "tool call limit exceeded") \in Results
          /\ Result("RuntimeError", "tool input bytes limit exceeded") \in Results
      BY DEF Results
    <3>4. op.pcall \in BOOLEAN
      BY <2>5 DEF Ops, Work, ToolCall, BadCall, Return
    <3>5. \E err \in Results : After(v, op, a) = Raise(w, err, op.pcall)
      BY <2>5, <3>2, <3>3 DEF After, Called, Asks
    <3>6. QED
      BY <1>1, <3>4, <3>5, RaiseCounts
  <2>6. QED
    BY <2>1, <2>2, <2>3, <2>4, <2>5 DEF Ops, Work, ToolCall, BadCall, Return
<1>3. QED
  BY <1>1, <1>2 DEF SameCounts

-----------------------------------------------------------------------------
(* The inductive invariant.  A step that reached the host is a call, and a *)
(* response that reached the program has an encoding: the sums below are   *)
(* sums of numbers.                                                        *)

AskedInv == \A i \in Asked : trace[i].op.kind = "call"

ServedInv == \A i \in Served : Canon[trace[i].ans.val] \in Bytes

ArgSum      == SumFunction([i \in Asked |-> ArgsOf(i)])
CostSum     == SumFunction([i \in Served |-> CostOf(i)])
ResponseSum == SumFunction([i \in Served |-> ResponseOf(i)])

(* The quota on responses, on the counter it is checked against.           *)
PaidInv == CostSum <= GasLimit - vm.remaining /\ ResponseSum <= vm.total_bytes_out

AccountInv == AskedInv /\ ServedInv /\ CallsAccounted /\ PaidInv

LEMMA TraceSets ==
  ASSUME TypeOK
  PROVE  /\ IsFiniteSet(Asked) /\ IsFiniteSet(Served) /\ IsFiniteSet(Lost)
         /\ Len(trace) \in Nat /\ Served \subseteq Asked /\ Asked \subseteq 1..Len(trace)
         /\ \A i \in 1..Len(trace) : trace[i] \in Steps
<1>1. trace \in Seq(Steps) /\ Len(trace) \in Nat
  BY DEF TypeOK
<1>2. IsFiniteSet(1..Len(trace))
  BY <1>1, FS_Interval
<1>3. Asked \subseteq 1..Len(trace) /\ Served \subseteq Asked /\ Lost \subseteq Asked
  BY DEF Asked, Served, Lost
<1>4. IsFiniteSet(Asked)
  BY <1>2, <1>3, FS_Subset
<1>5. IsFiniteSet(Served) /\ IsFiniteSet(Lost)
  BY <1>3, <1>4, FS_Subset
<1>6. \A i \in 1..Len(trace) : trace[i] \in Steps
  BY <1>1
<1>7. QED
  BY <1>1, <1>3, <1>4, <1>5, <1>6

LEMMA SumTypes ==
  ASSUME TypeOK, AskedInv, ServedInv
  PROVE  /\ \A i \in Asked : ArgsOf(i) \in Nat
         /\ \A i \in Served : CostOf(i) \in Nat /\ ResponseOf(i) \in Nat
         /\ ArgSum \in Int /\ CostSum \in Int /\ ResponseSum \in Int
<1>1. ASSUME NEW i \in Asked PROVE ArgsOf(i) \in Nat
  <2>1. trace[i].op \in Ops /\ trace[i].op.kind = "call"
    BY <1>1, TraceSets DEF AskedInv, Steps
  <2>2. trace[i].op.call \in Calls
    BY <2>1 DEF Ops, Work, ToolCall, BadCall, Return
  <2>3. QED
    BY <2>2, MeterAssumption DEF MeterAssumption, ArgsOf
<1>2. ASSUME NEW i \in Served PROVE CostOf(i) \in Nat /\ ResponseOf(i) \in Nat
  <2>1. ArgsOf(i) \in Nat
    BY <1>1, <1>2, TraceSets
  <2>2. QED
    BY <1>2, <2>1, CanonAssumption, MeterAssumption
    DEF CanonAssumption, MeterAssumption, ServedInv, CostOf, ResponseOf
<1>3. ArgSum \in Int
  BY <1>1, TraceSets, SumInt DEF ArgSum, SumFunction
<1>4. CostSum \in Int
  BY <1>2, TraceSets, SumInt DEF CostSum, SumFunction
<1>5. ResponseSum \in Int
  BY <1>2, TraceSets, SumInt DEF ResponseSum, SumFunction
<1>6. QED
  BY <1>1, <1>2, <1>3, <1>4, <1>5

(* One more step of the run, the host having answered a or not been asked. *)
LEMMA AdvanceAccounts ==
  ASSUME TypeOK, AccountInv, Running, NEW op \in Ops, NEW a \in Answers,
         Meets(vm, op, a), Advance(op, a), phase' = phase,
         phase = "replay" /\ a.kind = "ok" => Canon[a.val] \in Bytes
  PROVE  AccountInv'
<1>1. PICK n \in Nat : n = Len(trace) + 1
  BY DEF TypeOK
<1>2. /\ vm \in VmStates /\ vm' \in VmStates /\ vm.status = "running"
      /\ vm' = After(vm, op, a)
  BY AdvanceType DEF TypeOK, Running, Advance
<1>3. /\ trace \in Seq(Steps) /\ trace' = Append(trace, Step(op, a, vm'))
      /\ Len(trace) \in Nat /\ Asked \subseteq 1..Len(trace)
      /\ IsFiniteSet(Asked) /\ IsFiniteSet(Served) /\ IsFiniteSet(Lost)
      /\ Served \subseteq Asked /\ Lost \subseteq Asked
  BY TraceSets DEF TypeOK, Advance, Lost
<1>4. /\ Len(trace') = n /\ n \notin Asked
      /\ \A i \in 1..Len(trace) : trace'[i] = trace[i]
      /\ trace'[n].op = op /\ trace'[n].ans = a /\ trace'[n].vm = vm'
  BY <1>1, <1>3 DEF Step
<1>5. \A i \in Asked : /\ trace'[i] = trace[i] /\ ArgsOf(i)' = ArgsOf(i)
                       /\ CostOf(i)' = CostOf(i) /\ ResponseOf(i)' = ResponseOf(i)
  BY <1>3, <1>4 DEF ArgsOf, CostOf, ResponseOf
<1>6. /\ \A i \in Asked : ArgsOf(i) \in Nat
      /\ \A i \in Served : CostOf(i) \in Nat /\ ResponseOf(i) \in Nat
      /\ ArgSum \in Int /\ CostSum \in Int /\ ResponseSum \in Int
  BY SumTypes DEF AccountInv
<1>7. Asked' = IF a.kind = "none" THEN Asked ELSE Asked \cup {n}
  <2> DEFINE m == Len(trace)
  <2>1. 1..Len(trace') = (1..m) \cup {n}
    BY <1>1, <1>3, <1>4
  <2>2. Asked' = {i \in (1..m) \cup {n} : trace'[i].ans.kind # "none"}
    BY <2>1 DEF Asked
  <2>3. Asked = {i \in 1..m : trace[i].ans.kind # "none"}
    BY DEF Asked
  <2> HIDE DEF m
  <2>4. QED
    BY <1>4, <2>2, <2>3 DEF m
<1>8. vm.remaining \in Nat /\ vm'.remaining \in Nat /\ GasLimit \in Int
      /\ vm.total_bytes_out \in Nat /\ vm'.total_bytes_out \in Nat
      /\ vm'.remaining <= vm.remaining
  <2>1. Charge(vm, BaseInstruction).remaining <= vm.remaining
    BY <1>2, ChargeSpends, MeterAssumption DEF MeterAssumption
  <2>2. vm'.remaining <= Charge(vm, BaseInstruction).remaining
    BY <1>2, AfterOnlySpends
  <2>3. Charge(vm, BaseInstruction) \in VmStates
    BY <1>2, ChargeType, MeterAssumption DEF MeterAssumption
  <2>4. \A v \in VmStates : v.remaining \in Nat /\ v.total_bytes_out \in Nat
    BY MeterAssumption DEF MeterAssumption, VmStates
  <2>5. QED
    BY <1>2, <2>1, <2>2, <2>3, <2>4, MeterAssumption DEF MeterAssumption
<1>9. CASE ~Consults(vm, op)
  <2>1. a.kind = "none" /\ Asked' = Asked
    <3>1. a = NoAnswer
      BY <1>9 DEF Meets
    <3>2. QED
      BY <1>7, <3>1 DEF NoAnswer
  <2>2. Served' = Served /\ Lost' = Lost
    BY <1>5, <2>1 DEF Served, Lost
  <2>3. ArgSum' = ArgSum /\ CostSum' = CostSum /\ ResponseSum' = ResponseSum
    <3>1. [i \in Asked |-> ArgsOf(i)]' = [i \in Asked |-> ArgsOf(i)]
      BY <1>5, <2>1
    <3>2. [i \in Served |-> CostOf(i)]' = [i \in Served |-> CostOf(i)]
      BY <1>3, <1>5, <2>2
    <3>3. [i \in Served |-> ResponseOf(i)]' = [i \in Served |-> ResponseOf(i)]
      BY <1>3, <1>5, <2>2
    <3>4. QED
      BY <3>1, <3>2, <3>3 DEF ArgSum, CostSum, ResponseSum
  <2>4. SameCounts(vm, vm') /\ vm'.records = vm.records
    BY <1>2, <1>9, UnconsultedCounts, UnconsultedRecords
  <2>5. AskedInv' /\ ServedInv'
    BY <1>3, <1>5, <2>1, <2>2 DEF AccountInv, AskedInv, ServedInv
  <2>6. CallsAccounted'
    BY <2>1, <2>2, <2>3, <2>4 DEF AccountInv, CallsAccounted, SameCounts, ArgSum
  <2>7. PaidInv'
    BY <1>6, <1>8, <2>3, <2>4 DEF AccountInv, PaidInv, SameCounts
  <2>8. QED
    BY <2>5, <2>6, <2>7 DEF AccountInv
<1>10. CASE Consults(vm, op)
  <2>1. /\ a \in TapeAnswers /\ a.kind \in {"ok", "err"}
        /\ op.kind = "call" /\ op.call \in Calls /\ ArgBytes[op.call] \in Nat
    <3>1. a \in TapeAnswers
      BY <1>10 DEF Meets
    <3>2. a.kind \in {"ok", "err"}
      BY <3>1 DEF TapeAnswers, LiveAnswers, OkAnswer, ErrAnswer
    <3>3. op.kind = "call" /\ op.call \in Calls
      BY <1>10 DEF Consults, Ops, Work, ToolCall, BadCall, Return
    <3>4. QED
      BY <3>1, <3>2, <3>3, MeterAssumption DEF MeterAssumption
  <2>2. Asked' = Asked \cup {n} /\ n \notin Asked /\ n \notin Served /\ n \notin Lost
    BY <1>3, <1>4, <1>7, <2>1
  <2> DEFINE served == a.kind = "ok" /\ vm'.result.kind = "ok"
             lost   == a.kind = "ok" /\ Canon[a.val] = NoBytes
  <2>3. Served' = IF served THEN Served \cup {n} ELSE Served
    BY <1>4, <1>5, <2>2 DEF Served
  <2>4. Lost' = IF lost THEN Lost \cup {n} ELSE Lost
    BY <1>4, <1>5, <2>2 DEF Lost
  <2>5. /\ vm'.calls_made = vm.calls_made + 1
        /\ vm'.total_bytes_in = vm.total_bytes_in + ArgBytes[op.call]
        /\ vm'.total_bytes_out >= vm.total_bytes_out
        /\ served =>
             /\ Canon[a.val] \in Bytes
             /\ vm'.total_bytes_out = vm.total_bytes_out + Size[Canon[a.val]]
             /\ vm'.remaining + (ToolCallBase + ArgBytes[op.call] + Size[Canon[a.val]])
                  <= vm.remaining
    BY <1>2, <1>10, <2>1, ConsultedCounts
  <2>6. Len(vm'.records) = IF lost THEN Len(vm.records) ELSE Len(vm.records) + 1
    <3>1. vm.records \in Seq(Records)
      BY <1>2 DEF VmStates
    <3>2. vm'.records = IF lost THEN vm.records ELSE Append(vm.records,
            IF a.kind = "ok"
            THEN OkRecord(op.call, Canon[a.val],
                          ToolCallBase + ArgBytes[op.call] + Size[Canon[a.val]])
            ELSE ErrorRecord(op.call, a.val))
      BY <1>2, <1>10, <2>1, ConsultedRecords
    <3>3. QED
      BY <3>1, <3>2
  <2>7. /\ ArgsOf(n)' = ArgBytes[op.call] /\ ResponseOf(n)' = Size[Canon[a.val]]
        /\ CostOf(n)' = ToolCallBase + ArgBytes[op.call] + Size[Canon[a.val]]
    BY <1>4 DEF ArgsOf, ResponseOf, CostOf
  <2>8. served => ResponseOf(n)' \in Nat /\ CostOf(n)' \in Nat
    BY <2>1, <2>5, <2>7, CanonAssumption, MeterAssumption DEF CanonAssumption, MeterAssumption
  <2> HIDE DEF served, lost
  <2>9. AskedInv' /\ ServedInv'
    <3>1. AskedInv'
      BY <1>4, <1>5, <2>1, <2>2 DEF AccountInv, AskedInv
    <3>2. ServedInv'
      BY <1>3, <1>4, <1>5, <2>3, <2>5 DEF AccountInv, ServedInv
    <3>3. QED
      BY <3>1, <3>2
  <2>10. ArgSum' = ArgSum + ArgBytes[op.call]
    <3> DEFINE f == [i \in Asked |-> ArgsOf(i)]
               g == [i \in Asked' |-> ArgsOf(i)']
    <3>1. \A i \in Asked : g[i] \in Int /\ f[i] = g[i]
      BY <1>5, <1>6, <2>2
    <3>2. g[n] = ArgBytes[op.call] /\ g[n] \in Int
      BY <2>1, <2>2, <2>7
    <3>3. ArgSum = SumFunctionOnSet(f, Asked) /\ ArgSum' = SumFunctionOnSet(g, Asked')
      BY DEF ArgSum, SumFunction
    <3>4. IsFiniteSet(Asked) /\ n \notin Asked
      BY <1>3, <1>4
    <3>5. g[n] \in Int
      BY <3>2
    <3> HIDE DEF f, g
    <3>6. SumFunctionOnSet(g, Asked \cup {n}) = SumFunctionOnSet(f, Asked) + g[n]
      BY <3>1, <3>4, <3>5, SumAdd
    <3>7. QED
      BY <2>2, <3>2, <3>3, <3>6
  <2>11. CostSum' = IF served THEN CostSum + CostOf(n)' ELSE CostSum
    <3> DEFINE f == [i \in Served |-> CostOf(i)]
               g == [i \in Served' |-> CostOf(i)']
    <3>1. CASE ~served
      <4>1. f = g
        BY <1>3, <1>5, <2>3, <3>1
      <4>2. QED
        BY <3>1, <4>1 DEF CostSum
    <3>2. CASE served
      <4>1. \A i \in Served : g[i] \in Int /\ f[i] = g[i]
        BY <1>3, <1>5, <1>6, <2>3, <3>2
      <4>2. g[n] = CostOf(n)' /\ g[n] \in Int
        BY <2>3, <2>8, <3>2
      <4>3. CostSum = SumFunctionOnSet(f, Served) /\ CostSum' = SumFunctionOnSet(g, Served')
        BY DEF CostSum, SumFunction
      <4> HIDE DEF f, g
      <4>4. SumFunctionOnSet(g, Served \cup {n}) = SumFunctionOnSet(f, Served) + g[n]
        BY <1>3, <2>2, <4>1, <4>2, SumAdd
      <4>5. QED
        BY <2>3, <3>2, <4>2, <4>3, <4>4
    <3>3. QED
      BY <3>1, <3>2
  <2>12. ResponseSum' = IF served THEN ResponseSum + ResponseOf(n)' ELSE ResponseSum
    <3> DEFINE f == [i \in Served |-> ResponseOf(i)]
               g == [i \in Served' |-> ResponseOf(i)']
    <3>1. CASE ~served
      <4>1. f = g
        BY <1>3, <1>5, <2>3, <3>1
      <4>2. QED
        BY <3>1, <4>1 DEF ResponseSum
    <3>2. CASE served
      <4>1. \A i \in Served : g[i] \in Int /\ f[i] = g[i]
        BY <1>3, <1>5, <1>6, <2>3, <3>2
      <4>2. g[n] = ResponseOf(n)' /\ g[n] \in Int
        BY <2>3, <2>8, <3>2
      <4>3. /\ ResponseSum = SumFunctionOnSet(f, Served)
            /\ ResponseSum' = SumFunctionOnSet(g, Served')
        BY DEF ResponseSum, SumFunction
      <4> HIDE DEF f, g
      <4>4. SumFunctionOnSet(g, Served \cup {n}) = SumFunctionOnSet(f, Served) + g[n]
        BY <1>3, <2>2, <4>1, <4>2, SumAdd
      <4>5. QED
        BY <2>3, <3>2, <4>2, <4>3, <4>4
    <3>3. QED
      BY <3>1, <3>2
  <2>13. CallsAccounted'
    <3>1. Cardinality(Asked') = Cardinality(Asked) + 1 /\ Cardinality(Asked) \in Nat
      BY <1>3, <2>2, FS_AddElement, FS_CardinalityType
    <3>2. /\ Cardinality(Lost') = IF lost THEN Cardinality(Lost) + 1 ELSE Cardinality(Lost)
          /\ Cardinality(Lost) \in Nat
      BY <1>3, <2>2, <2>4, FS_AddElement, FS_CardinalityType
    <3>3. /\ vm.calls_made = Cardinality(Asked)
          /\ Len(vm.records) = vm.calls_made - Cardinality(Lost)
          /\ vm.total_bytes_in = ArgSum
          /\ phase = "replay" => Lost = {}
      BY DEF AccountInv, CallsAccounted, ArgSum
    <3>4. Len(vm'.records) = vm'.calls_made - Cardinality(Lost')
      BY <2>5, <2>6, <3>1, <3>2, <3>3
    <3>5. phase' = "replay" => Lost' = {}
      BY <2>4, <3>3, CanonAssumption DEF CanonAssumption, lost
    <3>6. QED
      BY <2>5, <2>10, <3>1, <3>3, <3>4, <3>5 DEF CallsAccounted, ArgSum
  <2>14. PaidInv'
    <3>1. CostSum <= GasLimit - vm.remaining /\ ResponseSum <= vm.total_bytes_out
      BY DEF AccountInv, PaidInv
    <3>2. CASE served
      BY <1>6, <1>8, <2>5, <2>7, <2>8, <2>11, <2>12, <3>1, <3>2 DEF PaidInv
    <3>3. CASE ~served
      BY <1>6, <1>8, <2>5, <2>11, <2>12, <3>1, <3>3 DEF PaidInv
    <3>4. QED
      BY <3>2, <3>3
  <2>15. QED
    BY <2>9, <2>13, <2>14 DEF AccountInv
<1>11. QED
  BY <1>9, <1>10

(* A run that is about to begin has nothing to account for.                *)
NothingYet ==
  /\ trace = << >> /\ vm.records = << >> /\ vm.remaining \in 0..GasLimit
  /\ vm.calls_made = 0 /\ vm.total_bytes_in = 0 /\ vm.total_bytes_out = 0

LEMMA EmptyAccounts == NothingYet => AccountInv
<1> SUFFICES ASSUME NothingYet PROVE AccountInv
  OBVIOUS
<1> USE DEF NothingYet
<1>1. Asked = {} /\ Served = {} /\ Lost = {}
  BY DEF Asked, Served, Lost
<1>2. \A f : SumFunctionOnSet(f, {}) = 0
  BY SumEmpty
<1>3. ArgSum = 0 /\ CostSum = 0 /\ ResponseSum = 0
  BY <1>1, <1>2 DEF ArgSum, CostSum, ResponseSum, SumFunction
<1>4. Cardinality({}) = 0 /\ Len(vm.records) = 0
  BY FS_EmptySet
<1>5. AskedInv /\ ServedInv
  BY <1>1 DEF AskedInv, ServedInv
<1>6. CallsAccounted
  BY <1>1, <1>3, <1>4 DEF CallsAccounted, ArgSum
<1>7. PaidInv
  BY <1>3, MeterAssumption DEF MeterAssumption, PaidInv
<1>8. QED
  BY <1>5, <1>6, <1>7 DEF AccountInv

(* What the tape answers can be encoded again: a replay loses no call.     *)
LEMMA TapeAnswerEncodes ==
  ASSUME TypeOK, NEW c \in Calls, NEW a \in TapeAnswers, TapeCall(c, a), a.kind = "ok"
  PROVE  Canon[a.val] \in Bytes
<1>1. a # ErrAnswer(DivergedMsg) /\ a # ErrAnswer(ExhaustedMsg)
  BY DEF ErrAnswer
<1>2. Serve(c, a)
  BY <1>1 DEF TapeCall, StayDiverged, Diverge, Exhaust
<1>3. tape.entries[cursor + 1] \in Entries
  BY <1>2 DEF Serve, IsExhausted, TypeOK
<1>4. QED
  BY <1>2, <1>3, EntryAnswerRecordable DEF Serve

LEMMA AccountsInductive == TypeOK /\ AccountInv /\ [Next]_vars => AccountInv'
<1> SUFFICES ASSUME TypeOK, AccountInv, [Next]_vars PROVE AccountInv'
  OBVIOUS
<1>1. ASSUME NEW op \in Ops, DryOp(op) PROVE AccountInv'
  <2>1. phase = "dry"
    BY <1>1 DEF DryOp
  <2>2. Meets(vm, op, NoAnswer) /\ NoAnswer \in Answers
    BY <1>1 DEF DryOp, Meets, Answers
  <2>3. QED
    BY <1>1, <2>1, <2>2, AdvanceAccounts DEF DryOp
<1>2. ASSUME NEW op \in Ops, DryToolCall(op) PROVE AccountInv'
  <2>1. PICK a \in HostAnswers : Advance(op, a)
    BY <1>2 DEF DryToolCall
  <2>2. a \in Answers /\ Meets(vm, op, a)
    BY <1>2, ReplayAssumption DEF ReplayAssumption, DryToolCall, Meets, Answers, TapeAnswers
  <2>3. QED
    BY <1>2, <2>1, <2>2, AdvanceAccounts DEF DryToolCall
<1>3. CASE Execute
  <2>1. /\ trace' = << >> /\ vm' = Reset(vm) /\ vm.remaining \in 0..GasLimit
    BY <1>3 DEF Execute, TypeOK, VmStates
  <2>2. NothingYet'
    BY <2>1 DEF Reset, NewVm, NothingYet
  <2>3. QED
    BY <2>2, EmptyAccounts, PTL
<1>4. CASE StartReplay
  <2>1. trace' = << >> /\ vm' = NewVm
    BY <1>4 DEF StartReplay
  <2>2. NothingYet'
    BY <2>1, MeterAssumption DEF MeterAssumption, NewVm, NothingYet
  <2>3. QED
    BY <2>2, EmptyAccounts, PTL
<1>5. ASSUME NEW op \in Ops, ReplayOp(op) PROVE AccountInv'
  <2>1. Meets(vm, op, NoAnswer) /\ NoAnswer \in Answers /\ NoAnswer.kind # "ok"
    BY <1>5 DEF ReplayOp, Meets, Answers, NoAnswer
  <2>2. QED
    BY <1>5, <2>1, AdvanceAccounts DEF ReplayOp
<1>6. ASSUME NEW op \in Ops, ReplayToolCall(op) PROVE AccountInv'
  <2>1. PICK a \in TapeAnswers : TapeCall(op.call, a) /\ Advance(op, a)
    BY <1>6 DEF ReplayToolCall
  <2>2. op.call \in Calls
    BY <1>6 DEF ReplayToolCall, Consults, Ops, Work, ToolCall, BadCall, Return
  <2>3. a.kind = "ok" => Canon[a.val] \in Bytes
    BY <2>1, <2>2, TapeAnswerEncodes
  <2>4. a \in Answers /\ Meets(vm, op, a)
    BY <1>6 DEF ReplayToolCall, Meets, Answers
  <2>5. QED
    BY <1>6, <2>1, <2>3, <2>4, AdvanceAccounts DEF ReplayToolCall
<1>7. CASE UNCHANGED vars
  BY <1>7 DEF vars, AccountInv, AskedInv, ServedInv, CallsAccounted, PaidInv, ArgSum,
              CostSum, ResponseSum, Asked, Served, Lost, ArgsOf, CostOf, ResponseOf
<1>8. QED
  BY <1>1, <1>2, <1>3, <1>4, <1>5, <1>6, <1>7 DEF Next, DryStep, ReplayStep

LEMMA AccountsHold == Spec => [](TypeOK /\ AccountInv)
<1>1. Init => AccountInv
  <2> SUFFICES ASSUME Init PROVE AccountInv
    OBVIOUS
  <2>1. NothingYet
    BY MeterAssumption DEF MeterAssumption, Init, NewVm, NothingYet
  <2>2. QED
    BY <2>1, EmptyAccounts
<1>2. QED
  BY <1>1, InitType, NextType, AccountsInductive, PTL DEF Spec

(* Every call that reaches the host is counted, and recorded unless its    *)
(* response has no encoding; a replay loses none (ToolRegistry::call).     *)
THEOREM EveryCallIsAccounted == Spec => []CallsAccounted
<1>1. AccountInv => CallsAccounted
  BY DEF AccountInv
<1>2. QED
  BY <1>1, AccountsHold, PTL

(* The responses the program has received were paid for from its gas and   *)
(* fit the bytes-out quota together (ToolRegistry::call steps 6d and 6e).  *)
THEOREM EveryResponseIsPaid == Spec => []ServedIsPaid
<1>1. TypeOK /\ AccountInv => ServedIsPaid
  <2> SUFFICES ASSUME TypeOK, AccountInv PROVE ServedIsPaid
    OBVIOUS
  <2>1. vm.total_bytes_out \in Nat /\ vm.total_bytes_out <= MaxToolBytesOut
    BY MeterAssumption DEF MeterAssumption, TypeOK, VmStates
  <2>2. ResponseSum \in Int
    BY SumTypes DEF AccountInv
  <2>3. QED
    BY <2>1, <2>2, MeterAssumption
    DEF MeterAssumption, AccountInv, PaidInv, ServedIsPaid, CostSum, ResponseSum
<1>2. QED
  BY <1>1, AccountsHold, PTL
=============================================================================
