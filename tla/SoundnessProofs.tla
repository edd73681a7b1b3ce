-------------------------- MODULE SoundnessProofs --------------------------
(***************************************************************************)
(* Compiled programs that the verifier accepts (ProgramVerified) do not go *)
(* wrong in the interpreter: proof of TypeOK, DepthsAsVerified and         *)
(* PcallReturns, for every such program, every limit and whatever tools    *)
(* answer.                                                                 *)
(*                                                                         *)
(* Every action leads from a sound state to a sound state.  Most take      *)
(* operands off and put results on as the verifier expects (StepGoes); a   *)
(* call pushes a frame on one that waits, and a return, an error that is   *)
(* caught or a sort that ends goes back to one (Ready).  Lands adds what   *)
(* the step does to the pcalls it ends.                                    *)
(***************************************************************************)
EXTENDS SoundStates

-----------------------------------------------------------------------------
(* The actions.                                                            *)

LEMMA Begins ==
  ASSUME ProgramVerified, Sound(vm), NEW ops, Executing(ops)
  PROVE  InTurn /\ Running /\ Here.op \in ops /\ Operands \in Nat /\ DataSound(vm) /\ Mid(vm)
BY HereFacts DEF InTurn, Executing

(* Pushing something onto the stack. *)
LEMMA PushStep ==
  ASSUME InTurn, NEW n \in Nat, NEW g \in Nat, g = n + 1, Move(n, g, FALSE) \in Moves(Here),
         NEW s, HeldSlot(vm, s), Step(0, Push(Fetched, s))
  PROVE  Lands(vm, vm')
<1>1. Operands \in Nat
  BY HereFacts DEF InTurn
<1>2. /\ Turn(Fetched, Frame(vm).pc + 1, Operands)
      /\ Fetched.heap = vm.heap /\ Fetched.cells = vm.cells
  BY FetchedFacts
<1>3. HeldSlot(Fetched, s)
  BY <1>2 DEF HeldSlot
<1>4. Work(Push(Fetched, s), Frame(vm).pc + 1, Operands + 1)
  BY <1>2, <1>3, WorkIs, WorkPush DEF InTurn
<1>5. Operands - n + g = Operands + 1
  BY <1>1
<1>6. Lands(vm, Push(Fetched, s))
  <2>1. Work(Push(Fetched, s), Frame(vm).pc + 1, Operands - n + g)
    BY <1>4, <1>5
  <2>2. \A m : Work(m, Frame(vm).pc + 1, Operands - n + g) => Lands(vm, m)
    BY Goes
  <2>3. QED
    BY <2>1, <2>2
<1>7. 0 \in 0..Operands
  BY <1>1
<1>8. QED
  BY <1>6, <1>7, StepLands

LEMMA LocalFacts ==
  ASSUME InTurn, Here.op \in {"LoadLocal", "StoreLocal"}
  PROVE  /\ Here.n \in 0..Proto(vm).localCount - 1
         /\ Slot(vm, Here.n) \in 1..Len(vm.stack)
         /\ HeldSlot(vm, vm.stack[Slot(vm, Here.n)])
         /\ ~IsHandle(vm.stack[Slot(vm, Here.n)])
<1>1. /\ Frame(vm).base \in Nat /\ Proto(vm).localCount \in Nat /\ Operands \in Nat
      /\ Len(vm.stack) = Frame(vm).base + Proto(vm).localCount + Operands
      /\ \A i \in 1..Proto(vm).localCount : ~IsHandle(vm.stack[Frame(vm).base + i])
      /\ DataSound(vm)
  BY HereFacts DEF InTurn
<1>2. Here.n \in 0..Proto(vm).localCount - 1
  BY HereRefers DEF RefersRightly
<1>3. /\ Slot(vm, Here.n) = Frame(vm).base + (Here.n + 1)
      /\ Here.n + 1 \in 1..Proto(vm).localCount
  <2> DEFINE b == Frame(vm).base
             l == Proto(vm).localCount
             n == Here.n
  <2>1. b \in Nat /\ l \in Nat /\ n \in 0..l - 1 /\ Slot(vm, n) = b + n + 1
    BY <1>1, <1>2 DEF Slot
  <2> HIDE DEF b, l, n
  <2>2. Slot(vm, n) = b + (n + 1) /\ n + 1 \in 1..l
    BY <2>1
  <2>3. QED
    BY <2>2 DEF b, l, n
<1>4. Slot(vm, Here.n) \in 1..Len(vm.stack)
  BY <1>1, <1>3
<1>5. HeldSlot(vm, vm.stack[Slot(vm, Here.n)])
  BY <1>1, <1>4 DEF DataSound, StackSound, HeldSlot
<1>6. QED
  BY <1>1, <1>2, <1>3, <1>4, <1>5

LEMMA UpvalueFacts ==
  ASSUME InTurn, NEW n, n + 1 \in DOMAIN Proto(vm).upvalues
  PROVE  /\ Frame(vm).upvalues[n + 1] \in 1..Len(vm.cells)
         /\ Held(vm, vm.cells[Frame(vm).upvalues[n + 1]])
<1>1. /\ Mid(vm) /\ DataSound(vm) /\ Len(vm.frames) \in 1..Len(vm.frames)
      /\ Frame(vm) = vm.frames[Len(vm.frames)] /\ Proto(vm) = ProtoOf(vm, Len(vm.frames))
      /\ Frame(vm).proto + 1 \in DOMAIN program
  BY HereFacts DEF InTurn
<1>2. DOMAIN Proto(vm).upvalues = 1..Len(Proto(vm).upvalues)
  BY <1>1, ProtoFacts DEF Proto, InTurn
<1>3. /\ Len(Frame(vm).upvalues) = Len(Proto(vm).upvalues)
      /\ \A u \in 1..Len(Frame(vm).upvalues) : Frame(vm).upvalues[u] \in 1..Len(vm.cells)
  BY <1>1 DEF Mid, Shaped, FrameOk
<1>4. Frame(vm).upvalues[n + 1] \in 1..Len(vm.cells)
  BY <1>2, <1>3
<1>5. QED
  BY <1>1, <1>4 DEF Held, DataSound, AllValues

LEMMA ConstantFacts ==
  ASSUME InTurn, Here.op \in ConstLoads \cup FieldOps
  PROVE  /\ IsPlain(Constant(Here.n))
         /\ Here.op \in FieldOps => IsKey(Constant(Here.n))
<1>1. IsPrototype(Proto(vm)) /\ RefersRightly(Proto(vm), Here)
  BY HereFacts, HereRefers DEF InTurn
<1>2. QED
  BY <1>1 DEF IsPrototype, RefersRightly, Constant

LEMMA Push1Sound ==
  ASSUME ProgramVerified, Sound(vm), Push1
  PROVE  Lands(vm, vm')
<1> USE DEF Pushes, ConstLoads, ProtoLoads, PlainPushes
<1>1. ASSUME NEW ops, ops \subseteq Pushes, NEW s, HeldSlot(vm, s),
             Executing(ops), Step(0, Push(Fetched, s))
      PROVE  Lands(vm, vm')
  <2>1. InTurn /\ Here.op \in Pushes
    BY <1>1, Begins
  <2>2. Move(0, 1, FALSE) \in Moves(Here)
    BY <2>1, MovesOf
  <2>3. 0 \in Nat /\ 1 \in Nat /\ 1 = 0 + 1
    OBVIOUS
  <2>4. QED
    BY <1>1, <2>1, <2>2, <2>3, PushStep
<1>2. CASE Executing({"PushK"}) /\ Step(0, Push(Fetched, Constant(Here.n)))
  <2>1. HeldSlot(vm, Constant(Here.n))
    BY <1>2, Begins, ConstantFacts, PlainHeld
  <2>2. QED
    BY <1>1, <1>2, <2>1
<1>3. CASE \/ Executing({"PushNil"})   /\ Step(0, Push(Fetched, Nil))
           \/ Executing({"PushTrue"})  /\ Step(0, Push(Fetched, TrueVal))
           \/ Executing({"PushFalse"}) /\ Step(0, Push(Fetched, FalseVal))
  <2>1. HeldSlot(vm, Nil) /\ HeldSlot(vm, TrueVal) /\ HeldSlot(vm, FalseVal)
    BY PlainValues, PlainHeld
  <2>2. QED
    BY <1>1, <1>3, <2>1
<1>4. CASE Executing({"Dup"}) /\ Step(0, Push(Fetched, Last(vm.stack)))
  <2>1. InTurn /\ Here.op = "Dup" /\ DataSound(vm)
    BY <1>4, Begins
  <2>2. Move(1, 2, FALSE) \in Moves(Here)
    BY <2>1, MovesOf
  <2>3. 1 \in 0..Operands
    BY <2>1, <2>2, Goes
  <2>4. Len(vm.stack) \in 1..Len(vm.stack)
    <3>1. /\ Frame(vm).base \in Nat /\ Proto(vm).localCount \in Nat /\ Operands \in Nat
          /\ Len(vm.stack) = Frame(vm).base + Proto(vm).localCount + Operands
      BY <2>1, HereFacts DEF InTurn
    <3>2. QED
      BY <2>3, <3>1
  <2>5. HeldSlot(vm, Last(vm.stack))
    BY <2>1, <2>4 DEF DataSound, StackSound, HeldSlot, Last
  <2>6. 1 \in Nat /\ 2 \in Nat /\ 2 = 1 + 1
    OBVIOUS
  <2>7. QED
    BY <1>4, <2>1, <2>2, <2>5, <2>6, PushStep
<1>5. CASE Executing({"LoadLocal"}) /\ Step(0, Push(Fetched, Value(vm, vm.stack[Slot(vm, Here.n)])))
  <2>1. InTurn /\ Here.op = "LoadLocal" /\ DataSound(vm)
    BY <1>5, Begins
  <2>2. HeldSlot(vm, Value(vm, vm.stack[Slot(vm, Here.n)]))
    BY <2>1, LocalFacts, PlainSlot, SlotOf
  <2>3. QED
    BY <1>1, <1>5, <2>2
<1>6. CASE Executing({"LoadUp"}) /\ Step(0, Push(Fetched, vm.cells[Frame(vm).upvalues[Here.n + 1]]))
  <2>1. InTurn /\ Here.op = "LoadUp"
    BY <1>6, Begins
  <2>2. Here.n + 1 \in DOMAIN Proto(vm).upvalues
    BY <2>1, HereRefers DEF RefersRightly, UpvalueOps
  <2>3. HeldSlot(vm, vm.cells[Frame(vm).upvalues[Here.n + 1]])
    BY <2>1, <2>2, UpvalueFacts, SlotOf
  <2>4. QED
    BY <1>1, <1>6, <2>3
<1>7. QED
  BY <1>2, <1>3, <1>4, <1>5, <1>6 DEF Push1

LEMMA PopTopSound ==
  ASSUME ProgramVerified, Sound(vm), PopTop
  PROVE  Lands(vm, vm')
<1>1. InTurn /\ Here.op = "Pop" /\ Operands \in Nat /\ Step(0, Drop(Fetched, 1)) /\ Running
  BY Begins DEF PopTop
<1>2. Move(1, 0, FALSE) \in Moves(Here)
  BY <1>1, MovesOf DEF Stores
<1>3. 1 \in 0..Operands
  BY <1>1, <1>2, Goes
<1>4. Turn(Drop(Fetched, 1), Frame(vm).pc + 1, Operands - 1)
  BY <1>1, <1>3, FetchedFacts, TurnDrop
<1>5. Work(Drop(Fetched, 1), Frame(vm).pc + 1, Operands - 1 + 0)
  BY <1>1, <1>4, WorkIs
<1>6. Lands(vm, Drop(Fetched, 1))
  BY <1>1, <1>2, <1>5, Goes
<1>7. 0 \in 0..Operands
  BY <1>1
<1>8. QED
  BY <1>1, <1>6, <1>7, StepLands

LEMMA StepGoes ==
  ASSUME InTurn, NEW n \in Nat, NEW g \in Nat, Move(n, g, FALSE) \in Moves(Here),
         NEW m, Step(n, m), NEW h, h = Operands - n + g,
         After(n).fault = "none" => Work(m, Frame(vm).pc + 1, h)
  PROVE  Lands(vm, vm')
<1>1. n \in 0..Operands /\ \A s : Work(s, Frame(vm).pc + 1, h) => Lands(vm, s)
  BY Goes
<1>2. Fetched.fault = "none" /\ After(n).fault = "none" => Lands(vm, m)
  BY <1>1
<1>3. QED
  BY <1>1, <1>2, StepLands

(* The state after n operands have been popped, which are values in it. *)
LEMMA AfterWork ==
  ASSUME InTurn, NEW n \in Nat, NEW g \in Nat, Move(n, g, FALSE) \in Moves(Here),
         After(n).fault = "none", NEW k, k = Operands - n
  PROVE  /\ Work(After(n), Frame(vm).pc + 1, k) /\ DataSound(After(n))
         /\ \A i \in 1..n : Held(vm, Arg(i)) /\ Held(After(n), Arg(i))
         /\ After(n).heap = vm.heap /\ After(n).cells = vm.cells /\ k \in Nat
<1>1. n \in 0..Operands
  BY Goes
<1>2. /\ Turn(After(n), Frame(vm).pc + 1, Operands - n)
      /\ After(n).heap = vm.heap /\ After(n).cells = vm.cells
      /\ \A i \in 1..n : Held(vm, Arg(i)) /\ Held(After(n), Arg(i))
  BY <1>1, AfterFacts
<1>3. Work(After(n), Frame(vm).pc + 1, k) /\ k \in Nat
  BY <1>2, WorkIs DEF Turn
<1>4. QED
  BY <1>2, <1>3, WorkGood

LEMMA StoreSound ==
  ASSUME ProgramVerified, Sound(vm), Store
  PROVE  Lands(vm, vm')
<1> DEFINE r == After(1)
           toCell(c) == [r EXCEPT !.cells[c] = Arg(1)]
           toSlot == [r EXCEPT !.stack[Slot(vm, Here.n)] = Arg(1)]
           at == vm.stack[Slot(vm, Here.n)]
<1>1. InTurn /\ Running /\ Here.op \in {"StoreLocal", "StoreUp"} /\ DataSound(vm)
  BY Begins DEF Store
<1>2. Move(1, 0, FALSE) \in Moves(Here)
  BY <1>1, MovesOf DEF Stores
<1>3. 1 \in Nat /\ 0 \in Nat /\ 1 \in 1..1 /\ 1 \in 0..Operands /\ Operands - 1 = Operands - 1 + 0
  <2>1. Operands \in Nat
    BY <1>1, HereFacts DEF InTurn
  <2>2. 1 \in Nat /\ 0 \in Nat /\ 1 \in 1..1 /\ Operands - 1 = Operands - 1 + 0
    BY <2>1
  <2>3. 1 \in 0..Operands
    BY <1>1, <1>2, <2>2, Goes
  <2>4. QED
    BY <2>2, <2>3
<1>4. ASSUME r.fault = "none"
      PROVE  /\ Turn(r, Frame(vm).pc + 1, Operands - 1) /\ r.cells = vm.cells
             /\ Held(r, Arg(1))
  BY <1>1, <1>3, <1>4, AfterFacts
<1> HIDE DEF r
<1>5. ASSUME NEW c \in 1..Len(vm.cells), r.fault = "none"
      PROVE  Work(toCell(c), Frame(vm).pc + 1, Operands - 1)
  BY <1>1, <1>4, <1>5, CellSet, WorkIs
<1>6. ASSUME Here.op = "StoreLocal", r.fault = "none"
      PROVE  Work(toSlot, Frame(vm).pc + 1, Operands - 1)
  <2>1. Here.n \in 0..Proto(vm).localCount - 1
    BY <1>1, <1>6, LocalFacts
  <2>2. QED
    BY <1>1, <1>4, <1>6, <2>1, SlotSet, WorkIs
<1>7. CASE Here.op = "StoreLocal"
  <2>1. HeldSlot(vm, at)
    BY <1>1, <1>7, LocalFacts
  <2>2. at[1] = SharedKind => at[2] \in 1..Len(vm.cells)
    BY <2>1 DEF HeldSlot, IsSlot, IsValue, SharedKind, HandleKind
  <2> DEFINE m == IF at[1] = SharedKind THEN toCell(at[2]) ELSE toSlot
  <2>3. r.fault = "none" => Work(m, Frame(vm).pc + 1, Operands - 1)
    BY <1>5, <1>6, <1>7, <2>2
  <2>4. Step(1, m)
    BY <1>7 DEF Store, Executing, r
  <2> HIDE DEF m, toCell, toSlot, at
  <2>5. QED
    BY <1>1, <1>2, <1>3, <2>3, <2>4, StepGoes DEF r
<1>8. CASE Here.op = "StoreUp"
  <2> DEFINE c == Frame(vm).upvalues[Here.n + 1]
             m == toCell(c)
  <2>1. Here.n + 1 \in DOMAIN Proto(vm).upvalues
    BY <1>1, <1>8, HereRefers DEF RefersRightly, UpvalueOps
  <2>2. c \in 1..Len(vm.cells)
    BY <1>1, <2>1, UpvalueFacts
  <2>3. r.fault = "none" => Work(m, Frame(vm).pc + 1, Operands - 1)
    BY <1>5, <2>2
  <2>4. Step(1, m)
    BY <1>8 DEF Store, Executing, r
  <2> HIDE DEF m, toCell, toSlot
  <2>5. QED
    BY <1>1, <1>2, <1>3, <2>3, <2>4, StepGoes DEF r
<1>9. QED
  BY <1>1, <1>7, <1>8

LEMMA EmptyIsTable ==
  ASSUME NEW T, NEW C
  PROVE  IsTable(EmptyTable, T, C)
<1>1. IsSeq(<< >>) /\ Len(<< >>) = 0 /\ IsFiniteSet({})
  BY SeqEmpty, FS_EmptySet
<1>2. DOMAIN << >> = {} /\ 1..0 = {}
  OBVIOUS
<1>3. QED
  BY <1>1, <1>2 DEF IsTable, EmptyTable, AllValues

LEMMA MakeTableSound ==
  ASSUME ProgramVerified, Sound(vm), MakeTable
  PROVE  Lands(vm, vm')
<1> DEFINE paid == Alloc(Charge(Fetched, TableAlloc), TableBase)
           m    == IF paid.fault # "none" THEN paid ELSE NewTable(paid, EmptyTable)
           pc   == Frame(vm).pc + 1
<1>1. InTurn /\ Here.op = "NewTable" /\ Step(0, m) /\ Running /\ Operands \in Nat
  BY Begins DEF MakeTable
<1>2. Move(0, 1, FALSE) \in Moves(Here)
  BY <1>1, MovesOf DEF Pushes, PlainPushes
<1>3. Work(paid, pc, Operands)
  BY FetchedFacts, WorkIs, WorkCharge, <1>1
<1> HIDE DEF paid
<1>4. paid.fault = "none" => Work(NewTable(paid, EmptyTable), pc, Operands + 1)
  BY <1>1, <1>3, EmptyIsTable, WorkNewTable DEF InTurn
<1>5. paid.fault # "none" => Work(paid, pc, Operands + 1)
  BY <1>3, WorkFaulted
<1>6. Work(m, pc, Operands + 1)
  BY <1>4, <1>5
<1> HIDE DEF m
<1>7. 0 \in Nat /\ 1 \in Nat /\ Operands + 1 = Operands - 0 + 1
  BY <1>1
<1>8. QED
  BY <1>1, <1>2, <1>6, <1>7, StepGoes

LEMMA GetTableSound ==
  ASSUME ProgramVerified, Sound(vm), GetTable
  PROVE  Lands(vm, vm')
<1> DEFINE m == Charge(After(2), TableGet)
           t == ResolveSentinel(Arg(2))
           r == IF ~IsKey(Arg(1)) THEN KeyFault(m, Arg(1))
                ELSE IF ~IsKind(t, TableKind) THEN TypeError(m)
                ELSE Push(m, Get(m.heap[t[2]], Arg(1)))
           pc == Frame(vm).pc + 1
<1>1. InTurn /\ Here.op = "GetTable" /\ Step(2, r) /\ Running /\ Operands \in Nat
  BY Begins DEF GetTable
<1>2. Move(2, 1, FALSE) \in Moves(Here)
  BY <1>1, MovesOf
<1>3. 2 \in Nat /\ 1 \in Nat /\ 1 \in 1..2 /\ 2 \in 1..2 /\ Operands - 1 = Operands - 2 + 1
      /\ Operands - 1 = (Operands - 2) + 1
  BY <1>1
<1>4. ASSUME After(2).fault = "none" PROVE Work(r, pc, Operands - 1)
  <2>1. Work(After(2), pc, Operands - 2) /\ DataSound(After(2)) /\ Held(After(2), Arg(2))
    BY <1>1, <1>2, <1>3, <1>4, AfterWork
  <2>2. Same(After(2), m) /\ Work(m, pc, Operands - 2)
    BY <2>1, ChargeSame, WorkCharge
  <2>3. Held(After(2), t)
    BY <2>1, ResolveHeld
  <2> HIDE DEF m, t
  <2>4. Held(m, t) /\ DataSound(m)
    BY <2>2, <2>3, SameHeld DEF Same
  <2>5. IsKind(t, TableKind) => HeldSlot(m, Get(m.heap[t[2]], Arg(1)))
    BY <2>4, HeldTable, SlotOf
  <2>6. IsKind(t, TableKind) => Work(Push(m, Get(m.heap[t[2]], Arg(1))), pc, Operands - 1)
    BY <1>1, <1>3, <2>2, <2>5, WorkPush DEF InTurn
  <2>7. Work(KeyFault(m, Arg(1)), pc, Operands - 1) /\ Work(TypeError(m), pc, Operands - 1)
    BY <2>2, WorkKeyFault, WorkRaise
  <2>8. QED
    BY <2>6, <2>7
<1> HIDE DEF r
<1>5. QED
  BY <1>1, <1>2, <1>3, <1>4, StepGoes

LEMMA GetFieldSound ==
  ASSUME ProgramVerified, Sound(vm), GetField
  PROVE  Lands(vm, vm')
<1> DEFINE m   == Charge(After(1), TableGet)
           t   == ResolveSentinel(Arg(1))
           key == Constant(Here.n)
           method == Get(m.heap[StringModule], key)
           r   == IF IsKind(t, StringKind)
                    THEN IF method = Nil THEN Raise(m, Text("no method")) ELSE Push(m, method)
                  ELSE IF ~IsKind(t, TableKind) THEN TypeError(m)
                  ELSE Push(m, Get(m.heap[t[2]], key))
           pc == Frame(vm).pc + 1
<1>1. InTurn /\ Here.op = "GetField" /\ Step(1, r) /\ Running /\ Operands \in Nat
  <2>1. Executing({"GetField"}) /\ Step(1, r)
    BY DEF GetField
  <2> HIDE DEF r
  <2>2. QED
    BY <2>1, Begins
<1>2. Move(1, 1, FALSE) \in Moves(Here)
  BY <1>1, MovesOf
<1>3. 1 \in Nat /\ 1 \in 1..1 /\ Operands = Operands - 1 + 1
  <2>1. Operands \in Nat
    BY <1>1
  <2>2. QED
    BY <2>1
<1>4. ASSUME After(1).fault = "none" PROVE Work(r, pc, Operands)
  <2>1. Work(After(1), pc, Operands - 1) /\ DataSound(After(1)) /\ Held(After(1), Arg(1))
    BY <1>1, <1>2, <1>3, <1>4, AfterWork
  <2>2. Same(After(1), m) /\ Work(m, pc, Operands - 1)
    BY <2>1, ChargeSame, WorkCharge
  <2>3. Held(After(1), t)
    BY <2>1, ResolveHeld
  <2> HIDE DEF m, t
  <2>4. Held(m, t) /\ DataSound(m)
    BY <2>2, <2>3, SameHeld DEF Same
  <2>5. IsKind(t, TableKind) => HeldSlot(m, Get(m.heap[t[2]], key))
    BY <2>4, HeldTable, SlotOf
  <2>6. HeldSlot(m, method)
    <3>1. StringModule \in 1..Len(m.heap)
      <4>1. Len(m.heap) \in Nat /\ Len(m.heap) >= 2
        BY <2>4, SizesOf
      <4>2. QED
        BY <4>1 DEF StringModule
    <3>2. IsTable(m.heap[StringModule], Len(m.heap), Len(m.cells))
      BY <2>4, <3>1 DEF DataSound, HeapSound
    <3>3. QED
      BY <3>2, GetHeld, SlotOf DEF Held
  <2>7. \A v : HeldSlot(m, v) => Work(Push(m, v), pc, Operands)
    BY <1>1, <1>3, <2>2, WorkPush DEF InTurn
  <2>8. Work(Raise(m, Text("no method")), pc, Operands) /\ Work(TypeError(m), pc, Operands)
    BY <2>2, WorkRaise
  <2>9. QED
    BY <2>5, <2>6, <2>7, <2>8
<1> HIDE DEF r
<1>5. QED
  BY <1>1, <1>2, <1>3, <1>4, StepGoes

LEMMA SetTableSound ==
  ASSUME ProgramVerified, Sound(vm), SetTable
  PROVE  Lands(vm, vm')
<1> DEFINE pc == Frame(vm).pc + 1
           r == IF ~IsKey(Arg(2)) THEN KeyFault(After(3), Arg(2))
                ELSE SetAt(After(3), Arg(3), Arg(2), Arg(1))
           s == SetAt(After(2), Arg(2), Constant(Here.n), Arg(1))
<1>1. CASE Executing({"SetTable"}) /\ Step(3, r)
  <2>1. InTurn /\ Here.op = "SetTable" /\ Running /\ Operands \in Nat
    BY <1>1, Begins
  <2>2. Move(3, 0, FALSE) \in Moves(Here)
    BY <2>1, MovesOf
  <2>3. 3 \in Nat /\ 0 \in Nat /\ 1 \in 1..3 /\ 2 \in 1..3 /\ 3 \in 1..3
        /\ Operands - 3 = Operands - 3 + 0
    BY <2>1
  <2>4. ASSUME After(3).fault = "none" PROVE Work(r, pc, Operands - 3)
    <3>1. /\ Work(After(3), pc, Operands - 3) /\ Held(After(3), Arg(1))
          /\ Held(After(3), Arg(3))
      BY <2>1, <2>2, <2>3, <2>4, AfterWork
    <3>2. Work(KeyFault(After(3), Arg(2)), pc, Operands - 3)
      BY <3>1, WorkKeyFault
    <3>3. IsKey(Arg(2)) => Work(SetAt(After(3), Arg(3), Arg(2), Arg(1)), pc, Operands - 3)
      BY <2>1, <3>1, WorkSetAt DEF InTurn
    <3>4. QED
      BY <3>2, <3>3
  <2> HIDE DEF r
  <2>5. QED
    BY <1>1, <2>1, <2>2, <2>3, <2>4, StepGoes
<1>2. CASE Executing({"SetField"}) /\ Step(2, s)
  <2>1. InTurn /\ Here.op = "SetField" /\ Running /\ Operands \in Nat
    BY <1>2, Begins
  <2>2. Move(2, 0, FALSE) \in Moves(Here)
    BY <2>1, MovesOf
  <2>3. 2 \in Nat /\ 0 \in Nat /\ 1 \in 1..2 /\ 2 \in 1..2 /\ Operands - 2 = Operands - 2 + 0
    BY <2>1
  <2>4. ASSUME After(2).fault = "none" PROVE Work(s, pc, Operands - 2)
    <3>1. /\ Work(After(2), pc, Operands - 2) /\ Held(After(2), Arg(1))
          /\ Held(After(2), Arg(2))
      BY <2>1, <2>2, <2>3, <2>4, AfterWork
    <3>2. IsKey(Constant(Here.n))
      BY <2>1, ConstantFacts DEF FieldOps
    <3>3. QED
      BY <2>1, <3>1, <3>2, WorkSetAt DEF InTurn
  <2> HIDE DEF s
  <2>5. QED
    BY <1>2, <2>1, <2>2, <2>3, <2>4, StepGoes
<1>3. QED
  BY <1>1, <1>2 DEF SetTable

(* The result of an operation on n operands. *)
LEMMA ResultStep ==
  ASSUME InTurn, NEW n \in Nat, Move(n, 1, FALSE) \in Moves(Here), NEW r, IsPlain(r.value),
         NEW m, Same(After(n), m) \/ m = After(n), Step(n, PushResult(m, r))
  PROVE  Lands(vm, vm')
<1>1. 1 \in Nat /\ Operands \in Nat /\ ProgramVerified /\ Sound(vm) /\ Running
  BY HereFacts DEF InTurn
<1> DEFINE k == Operands - n
<1>2. ASSUME After(n).fault = "none"
      PROVE  Work(PushResult(m, r), Frame(vm).pc + 1, k + 1)
  <2>1. Work(After(n), Frame(vm).pc + 1, k)
    BY <1>1, <1>2, AfterWork
  <2>2. Work(m, Frame(vm).pc + 1, k)
    BY <2>1, WorkSame
  <2> HIDE DEF k
  <2>3. QED
    BY <1>1, <2>2, WorkPushResult
<1>3. QED
  BY <1>1, <1>2, StepGoes

LEMMA PushIsResult ==
  ASSUME NEW m, NEW v
  PROVE  PushResult(m, Ok(v)) = Push(m, v) /\ PushResult(m, Failure("type")) = TypeError(m)
BY DEF PushResult, Ok, Failure

LEMMA OperateSound ==
  ASSUME ProgramVerified, Sound(vm), Operate
  PROVE  Lands(vm, vm')
<1> USE DEF Unary
<1>1. 1 \in Nat /\ 2 \in Nat
  OBVIOUS
<1>2. CASE /\ Executing(Binary)
           /\ Step(2, PushResult(After(2), BinaryResult(Here.op, Arg(2), Arg(1))))
  <2>1. InTurn /\ Move(2, 1, FALSE) \in Moves(Here)
    BY <1>2, Begins, MovesOf
  <2>2. QED
    BY <1>1, <1>2, <2>1, ResultIsPlain, ResultStep
<1>3. CASE Executing({"Neg"}) /\ Step(1, PushResult(After(1), Arith("Sub", IntVal(0), Arg(1))))
  <2>1. InTurn /\ Move(1, 1, FALSE) \in Moves(Here)
    BY <1>3, Begins, MovesOf
  <2>2. QED
    BY <1>1, <1>3, <2>1, ResultIsPlain, ResultStep
<1>4. CASE Executing({"Not"}) /\ Step(1, Push(After(1), BoolVal(~Truthy(Arg(1)))))
  <2> DEFINE r == Ok(BoolVal(~Truthy(Arg(1))))
  <2>1. InTurn /\ Move(1, 1, FALSE) \in Moves(Here)
    BY <1>4, Begins, MovesOf
  <2>2. IsPlain(r.value)
    BY PlainValues DEF Ok, BoolVal
  <2>3. Step(1, PushResult(After(1), r))
    BY <1>4, PushIsResult
  <2> HIDE DEF r
  <2>4. QED
    BY <1>1, <2>1, <2>2, <2>3, ResultStep
<1>5. CASE /\ Executing({"Len"})
           /\ LET m == Charge(After(1), 1)
              IN  Step(1, CASE IsKind(Arg(1), StringKind) -> Push(m, IntVal(Len(Arg(1)[2])))
                            [] IsKind(Arg(1), TableKind) ->
                                 Push(m, IntVal(Length(m.heap[Arg(1)[2]])))
                            [] OTHER -> TypeError(m))
  <2> DEFINE m == Charge(After(1), 1)
             r == CASE IsKind(Arg(1), StringKind) -> Ok(IntVal(Len(Arg(1)[2])))
                    [] IsKind(Arg(1), TableKind) -> Ok(IntVal(Length(m.heap[Arg(1)[2]])))
                    [] OTHER -> Failure("type")
  <2>1. InTurn /\ Move(1, 1, FALSE) \in Moves(Here)
    BY <1>5, Begins, MovesOf
  <2>2. IsPlain(r.value)
    <3> HIDE DEF m
    <3>1. QED
      BY PlainValues DEF Ok, Failure
  <2>3. Step(1, PushResult(m, r))
    <3>1. PushResult(m, r) = CASE IsKind(Arg(1), StringKind) -> Push(m, IntVal(Len(Arg(1)[2])))
                                [] IsKind(Arg(1), TableKind) ->
                                     Push(m, IntVal(Length(m.heap[Arg(1)[2]])))
                                [] OTHER -> TypeError(m)
      <4> HIDE DEF m
      <4>1. QED
        BY PushIsResult
    <3>2. QED
      BY <1>5, <3>1
  <2>4. After(1).fault = "none" => Same(After(1), m)
    BY <1>1, <2>1, AfterWork, ChargeSame
  <2> HIDE DEF m, r
  <2>5. CASE After(1).fault = "none"
    BY <1>1, <2>1, <2>2, <2>3, <2>4, <2>5, ResultStep
  <2>6. CASE After(1).fault # "none"
    <3>1. Step(1, PushResult(After(1), r))
      BY <2>3, <2>6 DEF Step, After
    <3>2. QED
      BY <1>1, <2>1, <2>2, <3>1, ResultStep
  <2>7. QED
    BY <2>5, <2>6
<1>6. QED
  BY <1>2, <1>3, <1>4, <1>5 DEF Operate

(* The operands of a concatenation, joined from the left. *)
LEMMA JoinedHeld ==
  ASSUME NEW T, NEW C, NEW n \in Nat \ {0}, NEW parts, IsValue(parts[1], T, C)
  PROVE  LET joined[i \in 1..n] ==
               IF i = 1 THEN Ok(parts[1])
               ELSE IF joined[i - 1].error = "none"
                 THEN ConcatTwo(joined[i - 1].value, parts[i])
               ELSE joined[i - 1]
         IN  IsValue(joined[n].value, T, C)
<1> DEFINE Join(r, i) == IF r.error = "none" THEN ConcatTwo(r.value, parts[i]) ELSE r
           Rec(f, k) == f = [i \in 1..k |-> IF i = 1 THEN Ok(parts[1]) ELSE Join(f[i - 1], i)]
           joined[i \in 1..n] == IF i = 1 THEN Ok(parts[1]) ELSE Join(joined[i - 1], i)
           K == {k \in Nat : \E f : Rec(f, k)}
           J == {k \in Nat : k \in 1..n => IsValue(joined[k].value, T, C)}
<1>1. ASSUME NEW r, IsValue(r.value, T, C), NEW i PROVE IsValue(Join(r, i).value, T, C)
  BY <1>1, ResultIsPlain, PlainIsValue
<1>2. IsValue(Ok(parts[1]).value, T, C)
  BY DEF Ok
<1> HIDE DEF Join
<1>3. 0 \in K
  <2> DEFINE f == [i \in 1..0 |-> Nil]
  <2>1. Rec(f, 0)
    OBVIOUS
  <2> HIDE DEF f
  <2>2. QED
    BY <2>1
<1>4. ASSUME NEW k \in K PROVE k + 1 \in K
  <2>1. PICK g : Rec(g, k)
    OBVIOUS
  <2> DEFINE f == [i \in 1..k + 1 |-> IF i = 1 THEN Ok(parts[1])
                                      ELSE IF i = k + 1 THEN Join(g[k], k + 1) ELSE g[i]]
  <2>2. Rec(f, k + 1)
    BY <2>1
  <2> HIDE DEF f
  <2>3. QED
    BY <2>2
<1>5. K = Nat
  <2> HIDE DEF K
  <2>1. K \in SUBSET Nat
    BY DEF K
  <2>2. QED
    BY <1>3, <1>4, <2>1, NatInd
<1>6. Rec(joined, n)
  BY <1>5
<1> HIDE DEF joined
<1>7. 0 \in J
  OBVIOUS
<1>8. ASSUME NEW k \in J PROVE k + 1 \in J
  <2> SUFFICES ASSUME k + 1 \in 1..n PROVE IsValue(joined[k + 1].value, T, C)
    OBVIOUS
  <2>1. joined[k + 1] = IF k + 1 = 1 THEN Ok(parts[1]) ELSE Join(joined[k], k + 1)
    BY <1>6
  <2>2. k + 1 # 1 => k \in 1..n
    OBVIOUS
  <2>3. QED
    BY <1>1, <1>2, <2>1, <2>2
<1>9. J = Nat
  <2> HIDE DEF J
  <2>1. J \in SUBSET Nat
    BY DEF J
  <2>2. QED
    BY <1>7, <1>8, <2>1, NatInd
<1>10. IsValue(joined[n].value, T, C)
  BY <1>9
<1>11. QED
  BY <1>10 DEF joined, Join

LEMMA ConcatSound ==
  ASSUME ProgramVerified, Sound(vm), Concat
  PROVE  Lands(vm, vm')
<1> DEFINE n == Here.n
           parts == [i \in 1..n |-> Arg(n + 1 - i)]
           joined[i \in 1..n] ==
             IF i = 1 THEN Ok(parts[1])
             ELSE IF joined[i - 1].error = "none" THEN ConcatTwo(joined[i - 1].value, parts[i])
             ELSE joined[i - 1]
           r == joined[n]
           len == IF IsKind(r.value, StringKind) THEN Len(r.value[2]) ELSE 0
           paid == Alloc(Charge(After(n), len), 24 + len)
           m == IF r.error # "none" THEN PushResult(After(n), r) ELSE Push(paid, r.value)
           pc == Frame(vm).pc + 1
           k == Operands - n
<1>1. Executing({"Concat"}) /\ Step(n, m)
  BY DEF Concat
<1> HIDE DEF n, m
<1>2. InTurn /\ Here.op = "Concat" /\ Running /\ Operands \in Nat
  BY <1>1, Begins
<1>3. Move(n, 1, FALSE) \in Moves(Here)
  BY <1>2, MovesOf DEF n
<1>4. n \in Nat \ {0} /\ 1 \in Nat
  BY <1>2, HereRefers DEF RefersRightly, n
<1>5. ASSUME After(n).fault = "none" PROVE Work(m, pc, k + 1)
  <2> HIDE DEF r
  <2>1. /\ Work(After(n), pc, k) /\ DataSound(After(n))
        /\ \A i \in 1..n : Held(vm, Arg(i))
        /\ After(n).heap = vm.heap /\ After(n).cells = vm.cells
    BY <1>2, <1>3, <1>4, <1>5, AfterWork
  <2>2. IsValue(parts[1], Len(vm.heap), Len(vm.cells))
    <3>1. 1 \in 1..n /\ n \in 1..n /\ n + 1 - 1 = n
      BY <1>4
    <3>2. QED
      BY <2>1, <3>1 DEF Held
  <2>3. Held(vm, r.value)
    <3> HIDE DEF parts
    <3>1. QED
      BY <1>4, <2>2, JoinedHeld DEF Held, r
  <2> HIDE DEF k
  <2>4. Work(Charge(After(n), len), pc, k) /\ Work(paid, pc, k)
    BY <2>1, WorkCharge
  <2>5. HeldSlot(paid, r.value)
    <3>1. Same(After(n), Charge(After(n), len))
      BY <2>1, ChargeSame
    <3>2. Same(Charge(After(n), len), paid)
      BY <3>1, AllocSame DEF Same
    <3>3. Held(After(n), r.value)
      BY <2>1, <2>3 DEF Held
    <3> HIDE DEF paid
    <3>4. QED
      BY <3>1, <3>2, <3>3, SameHeld, SlotOf
  <2> HIDE DEF paid
  <2>6. Work(Push(paid, r.value), pc, k + 1)
    BY <1>2, <2>4, <2>5, WorkPush DEF InTurn
  <2>7. r.error # "none" => Work(PushResult(After(n), r), pc, k + 1)
    <3> DEFINE s == Failure(r.error)
    <3>1. IsPlain(s.value) /\ s.error = r.error
      BY PlainValues DEF Failure
    <3>2. r.error # "none" => PushResult(After(n), r) = PushResult(After(n), s)
      BY <3>1 DEF PushResult
    <3> HIDE DEF s
    <3>3. Work(PushResult(After(n), s), pc, k + 1)
      BY <1>2, <2>1, <3>1, WorkPushResult DEF InTurn
    <3>4. QED
      BY <3>2, <3>3
  <2>8. QED
    BY <2>6, <2>7 DEF m
<1>6. QED
  BY <1>1, <1>2, <1>3, <1>4, <1>5, StepGoes

(* What the verifier demands of an error and a return. *)
LEMMA EndsFed ==
  ASSUME InTurn
  PROVE  /\ Here.op = "Error" => 1 \in 0..Operands
         /\ Here.op = "Ret" => Operands = Here.n
         /\ ~Starved(Here, Operands)
<1> DEFINE c == Proto(vm).code
           s == <<Frame(vm).pc, Operands>>
<1>1. s \in depths[Frame(vm).proto + 1] /\ Balanced(c, depths[Frame(vm).proto + 1])
  BY HereFacts DEF InTurn
<1>2. Frame(vm).pc \in 1..Len(c) /\ Len(c) \in Nat /\ Operands \in Nat
  BY HereRefers, HereFacts DEF InTurn
<1>3. c[s[1]] = Here
  BY DEF Here
<1>4. s[1] <= Len(c) /\ s[2] = Operands
  BY <1>2
<1>5. ~Starved(Here, Operands) /\ (Here.op = "Ret" => Operands = Here.n)
  BY <1>1, <1>3, <1>4 DEF Balanced
<1>6. Here.op = "Error" => ~(Operands < 1)
  BY <1>5 DEF Starved
<1>7. Here.op = "Error" => 1 \in 0..Operands
  BY <1>2, <1>6
<1>8. QED
  BY <1>5, <1>7

LEMMA JumpSound ==
  ASSUME ProgramVerified, Sound(vm), Jump
  PROVE  Lands(vm, vm')
<1> DEFINE pc == Frame(vm).pc + 1
           to == pc + Here.n
<1>1. CASE Executing({"Jmp"}) /\ Step(0, JumpBy(Fetched, Here.n))
  <2>1. InTurn /\ Here.op = "Jmp" /\ Running /\ Operands \in Nat
    BY <1>1, Begins
  <2>2. Move(0, 0, TRUE) \in Moves(Here)
    BY <2>1, MovesOf
  <2>3. 0 \in Nat /\ 0 \in 0..Operands /\ Operands - 0 + 0 = Operands
    BY <2>1
  <2>4. to \in 1..Len(Proto(vm).code) + 1
    BY <2>1, <2>2, <2>3, GoesTo
  <2>5. Work(Fetched, pc, Operands)
    BY <2>1, FetchedFacts, WorkIs
  <2>6. Work(JumpBy(Fetched, Here.n), to, Operands)
    BY <2>1, <2>4, <2>5, WorkJump DEF InTurn
  <2>7. Work(JumpBy(Fetched, Here.n), to, Operands - 0 + 0)
    BY <2>3, <2>6
  <2> HIDE DEF pc
  <2>8. Lands(vm, JumpBy(Fetched, Here.n))
    BY <2>1, <2>2, <2>3, <2>7, GoesTo DEF pc
  <2>9. QED
    BY <1>1, <2>1, <2>3, <2>8, StepLands
<1>2. CASE /\ Executing(CondJumps)
           /\ Step(1, IF Taken(Here.op, Arg(1)) THEN JumpBy(After(1), Here.n) ELSE After(1))
  <2> DEFINE m == IF Taken(Here.op, Arg(1)) THEN JumpBy(After(1), Here.n) ELSE After(1)
             k == Operands - 1
  <2>1. InTurn /\ Here.op \in CondJumps /\ Running /\ Operands \in Nat
    BY <1>2, Begins
  <2>2. Move(1, 0, TRUE) \in Moves(Here) /\ Move(1, 0, FALSE) \in Moves(Here)
    BY <2>1, MovesOf
  <2>3. 0 \in Nat /\ 1 \in Nat /\ k + 0 = k
    BY <2>1
  <2>4. to \in 1..Len(Proto(vm).code) + 1 /\ 1 \in 0..Operands
    BY <2>1, <2>2, <2>3, GoesTo
  <2>5. ASSUME After(1).fault = "none" PROVE Lands(vm, m)
    <3>1. Work(After(1), pc, k)
      BY <2>1, <2>2, <2>3, <2>5, AfterWork
    <3> HIDE DEF k
    <3>2. Work(JumpBy(After(1), Here.n), to, k + 0) /\ Work(After(1), pc, k + 0)
      BY <2>1, <2>3, <2>4, <3>1, WorkJump DEF InTurn
    <3> HIDE DEF pc
    <3>3. Lands(vm, JumpBy(After(1), Here.n))
      BY <2>1, <2>2, <2>3, <3>2, GoesTo DEF k, pc
    <3>4. Lands(vm, After(1))
      BY <2>1, <2>2, <2>3, <3>2, Goes DEF k, pc
    <3>5. QED
      BY <3>3, <3>4
  <2>6. Step(1, m)
    BY <1>2
  <2> HIDE DEF m
  <2>7. QED
    BY <2>1, <2>4, <2>5, <2>6, StepLands
<1>3. CASE /\ Executing(ShortCircuits)
           /\ Step(0, IF Taken(Here.op, Arg(1)) THEN JumpBy(Fetched, Here.n) ELSE Fetched)
  <2> DEFINE m == IF Taken(Here.op, Arg(1)) THEN JumpBy(Fetched, Here.n) ELSE Fetched
  <2>1. InTurn /\ Here.op \in ShortCircuits /\ Running /\ Operands \in Nat
    BY <1>3, Begins
  <2>2. Move(1, 1, TRUE) \in Moves(Here) /\ Move(1, 1, FALSE) \in Moves(Here)
    BY <2>1, MovesOf
  <2>3. 1 \in Nat /\ Operands - 1 + 1 = Operands /\ 0 \in 0..Operands
    BY <2>1
  <2>4. to \in 1..Len(Proto(vm).code) + 1
    BY <2>1, <2>2, <2>3, GoesTo
  <2>5. Work(Fetched, pc, Operands)
    BY <2>1, FetchedFacts, WorkIs
  <2>6. Work(JumpBy(Fetched, Here.n), to, Operands)
    BY <2>1, <2>4, <2>5, WorkJump DEF InTurn
  <2> HIDE DEF pc
  <2>7. Work(JumpBy(Fetched, Here.n), to, Operands - 1 + 1) /\ Work(Fetched, pc, Operands - 1 + 1)
    BY <2>3, <2>5, <2>6
  <2>8. Lands(vm, JumpBy(Fetched, Here.n))
    BY <2>1, <2>2, <2>3, <2>7, GoesTo DEF pc
  <2>9. Lands(vm, Fetched)
    BY <2>1, <2>2, <2>3, <2>7, Goes DEF pc
  <2>10. Step(0, m)
    BY <1>3
  <2>11. Lands(vm, m)
    BY <2>8, <2>9
  <2> HIDE DEF m
  <2>12. QED
    BY <2>1, <2>3, <2>10, <2>11, StepLands
<1>4. QED
  BY <1>1, <1>2, <1>3 DEF Jump

LEMMA ExecErrorSound ==
  ASSUME ProgramVerified, Sound(vm), ExecError
  PROVE  Lands(vm, vm')
<1> DEFINE m == Charge(After(1), ErrorRaise)
           r == Raise(m, Arg(1))
<1>1. InTurn /\ Here.op = "Error" /\ Running /\ Operands \in Nat /\ Step(1, r)
  BY Begins DEF ExecError
<1>2. 1 \in 0..Operands /\ 1 \in 1..1
  BY <1>1, EndsFed
<1>3. ASSUME After(1).fault = "none" PROVE Lands(vm, r)
  <2>1. Turn(After(1), Frame(vm).pc + 1, Operands - 1) /\ Held(After(1), Arg(1))
    BY <1>1, <1>2, <1>3, AfterFacts
  <2>2. Same(After(1), m) /\ DataSound(m)
    BY <2>1, ChargeSame DEF Turn, Moved, Same
  <2> HIDE DEF m
  <2>3. Turn(m, Frame(vm).pc + 1, Operands - 1) /\ Held(m, Arg(1))
    BY <2>1, <2>2, TurnSame, SameHeld
  <2>4. Same(m, r) /\ r.fault # "none"
    BY <2>2, <2>3, RaiseSame
  <2> HIDE DEF r
  <2>5. Turn(r, Frame(vm).pc + 1, Operands - 1)
    BY <2>3, <2>4, TurnSame
  <2>6. QED
    BY <1>1, <2>4, <2>5, TurnMid DEF InTurn
<1> HIDE DEF r
<1>4. QED
  BY <1>1, <1>2, <1>3, StepLands

LEMMA ExecLogSound ==
  ASSUME ProgramVerified, Sound(vm), ExecLog
  PROVE  Lands(vm, vm')
<1> DEFINE msg  == ToLuaString(Arg(1))
           paid == Charge(After(1), LogBase + Len(msg))
           r    == [paid EXCEPT !.logs = Append(@, msg)]
           m    == IF paid.fault # "none" THEN paid ELSE r
           pc   == Frame(vm).pc + 1
           k    == Operands - 1
<1>1. InTurn /\ Here.op = "Log" /\ Running /\ Operands \in Nat /\ Step(1, m)
  BY Begins DEF ExecLog
<1>2. Move(1, 0, FALSE) \in Moves(Here)
  BY <1>1, MovesOf DEF Stores
<1>3. 0 \in Nat /\ 1 \in Nat /\ k = k + 0
  BY <1>1
<1>4. ASSUME After(1).fault = "none" PROVE Work(m, pc, k)
  <2>1. Work(After(1), pc, k)
    BY <1>1, <1>2, <1>3, <1>4, AfterWork
  <2>2. Work(paid, pc, k)
    BY <2>1, WorkCharge
  <2> HIDE DEF paid, msg
  <2>3. DataSound(paid) /\ DOMAIN paid = Fields /\ Held(paid, paid.error)
    BY <2>2, WorkGood, SizesOf DEF DataSound, Held
  <2>4. /\ DOMAIN r = Fields /\ r.stack = paid.stack /\ r.frames = paid.frames
        /\ r.inner = paid.inner /\ r.cells = paid.cells /\ r.heap = paid.heap
        /\ r.status = paid.status /\ r.fault = paid.fault /\ r.error = paid.error
    BY <2>3 DEF Fields
  <2> HIDE DEF r
  <2>5. Same(paid, r)
    BY <2>3, <2>4, SameParts
  <2>6. QED
    BY <2>2, <2>5, WorkSame
<1> HIDE DEF m
<1>5. QED
  BY <1>1, <1>2, <1>3, <1>4, StepGoes

LEMMA DataIsTable ==
  ASSUME NEW t, IsData(t), NEW T, NEW C
  PROVE  IsTable(t, T, C)
<1>1. DOMAIN t = {"array", "hash", "entries", "capacity"}
  BY DEF IsData, EmptyTable
<1>2. AllValues(t.array, T, C)
  BY SeqIs, PlainIsValue DEF IsData, AllValues
<1>3. QED
  BY <1>1, <1>2, PlainIsValue DEF IsData, IsTable

LEMMA ExecToolCallSound ==
  ASSUME ProgramVerified, Sound(vm), ExecToolCall
  PROVE  Lands(vm, vm')
<1>1. PICK a \in ToolAnswers :
        LET called == [After(2) EXCEPT !.tools = Append(@, [args |-> Arg(1), answer |-> a])]
            paid   == Charge(called, ToolCallBase)
        IN  Step(2, IF ~IsKind(Arg(2), StringKind) \/ ~IsKind(Arg(1), TableKind)
                      THEN TypeError(After(2))
                    ELSE IF ~a.ok THEN Raise(called, Text("tool error"))
                    ELSE IF paid.fault # "none" THEN paid ELSE NewTable(paid, a.table))
  BY DEF ExecToolCall
<1> DEFINE called == [After(2) EXCEPT !.tools = Append(@, [args |-> Arg(1), answer |-> a])]
           paid   == Charge(called, ToolCallBase)
           m == IF ~IsKind(Arg(2), StringKind) \/ ~IsKind(Arg(1), TableKind) THEN TypeError(After(2))
                ELSE IF ~a.ok THEN Raise(called, Text("tool error"))
                ELSE IF paid.fault # "none" THEN paid ELSE NewTable(paid, a.table)
           pc   == Frame(vm).pc + 1
           k    == Operands - 2
<1>2. Step(2, m)
  BY <1>1
<1> HIDE DEF m
<1>3. InTurn /\ Here.op = "ToolCall" /\ Running /\ Operands \in Nat
  <2>1. Executing({"ToolCall"})
    BY DEF ExecToolCall
  <2> HIDE DEF called, paid
  <2>2. QED
    BY <2>1, Begins
<1>4. Move(2, 1, FALSE) \in Moves(Here)
  BY <1>3, MovesOf
<1>5. 2 \in Nat /\ 1 \in Nat
  OBVIOUS
<1>6. ASSUME After(2).fault = "none" PROVE Work(m, pc, k + 1)
  <2>1. Work(After(2), pc, k) /\ DataSound(After(2))
    BY <1>3, <1>4, <1>5, <1>6, AfterWork
  <2>2. DOMAIN After(2) = Fields /\ Held(After(2), After(2).error)
    BY <2>1, SizesOf DEF DataSound, Held
  <2>3. /\ DOMAIN called = Fields /\ called.stack = After(2).stack
        /\ called.frames = After(2).frames /\ called.inner = After(2).inner
        /\ called.cells = After(2).cells /\ called.heap = After(2).heap
        /\ called.status = After(2).status /\ called.fault = After(2).fault
        /\ called.error = After(2).error
    BY <2>2 DEF Fields
  <2> HIDE DEF called, k
  <2>4. Same(After(2), called)
    BY <2>1, <2>2, <2>3, SameParts
  <2>5. Work(called, pc, k) /\ Work(paid, pc, k)
    BY <2>1, <2>4, WorkSame, WorkCharge
  <2> HIDE DEF paid
  <2>6. Work(TypeError(After(2)), pc, k + 1) /\ Work(Raise(called, Text("tool error")), pc, k + 1)
    BY <2>1, <2>5, WorkRaise
  <2>7. paid.fault # "none" => Work(paid, pc, k + 1)
    BY <2>5, WorkFaulted
  <2>8. a.ok /\ paid.fault = "none" => Work(NewTable(paid, a.table), pc, k + 1)
    <3>1. a.ok => IsTable(a.table, Len(paid.heap), Len(paid.cells))
      BY MachineAssumption, DataIsTable
    <3>2. QED
      BY <1>3, <2>5, <3>1, WorkNewTable DEF InTurn
  <2>9. QED
    BY <2>6, <2>7, <2>8 DEF m
<1>7. QED
  BY <1>2, <1>3, <1>4, <1>5, <1>6, StepGoes

LEMMA IterInitSound ==
  ASSUME ProgramVerified, Sound(vm), IterInit
  PROVE  Lands(vm, vm')
<1> DEFINE a      == Arg(1)[2]
           sorted == Here.op = "IterInitSorted"
           keys   == SortedKeys(vm.heap[a])
           price  == IF sorted THEN SortGas(Len(keys)) ELSE 1
           paid   == Charge(After(1), price)
           empty  == IF sorted THEN keys = << >> ELSE Get(vm.heap[a], IntKey(1)) = Nil
           h      == IF sorted THEN Handle("sorted", keys, 0, a) ELSE Handle("array", << >>, 1, a)
           m      == IF ~IsKind(Arg(1), TableKind) THEN TypeError(After(1))
                     ELSE IF empty THEN JumpBy(paid, Here.n) ELSE Push(paid, h)
           pc     == Frame(vm).pc + 1
           to     == pc + Here.n
           k      == Operands - 1
<1>1. Executing(IterInits) /\ Step(1, m)
  BY DEF IterInit
<1> HIDE DEF m
<1>2. InTurn /\ Here.op \in IterInits /\ Running /\ Operands \in Nat
  BY <1>1, Begins
<1>3. Move(1, 0, TRUE) \in Moves(Here) /\ Move(1, 1, FALSE) \in Moves(Here)
  BY <1>2, MovesOf
<1>4. 0 \in Nat /\ 1 \in Nat /\ k + 0 = k /\ 1 \in 1..1
  BY <1>2
<1>5. to \in 1..Len(Proto(vm).code) + 1 /\ 1 \in 0..Operands
  BY <1>2, <1>3, <1>4, GoesTo
<1>6. ASSUME After(1).fault = "none" PROVE Lands(vm, m)
  <2>1. /\ Work(After(1), pc, k) /\ DataSound(After(1)) /\ Held(vm, Arg(1))
        /\ After(1).heap = vm.heap /\ After(1).cells = vm.cells
    BY <1>2, <1>3, <1>4, <1>6, AfterWork
  <2> HIDE DEF k, price
  <2>2. Same(After(1), paid) /\ Work(paid, pc, k)
    BY <2>1, ChargeSame, WorkCharge
  <2> HIDE DEF paid
  <2>3. Lands(vm, TypeError(After(1)))
    <3>1. Work(TypeError(After(1)), pc, k + 1)
      BY <2>1, WorkRaise
    <3> HIDE DEF pc
    <3>2. QED
      BY <1>2, <1>3, <1>4, <3>1, Goes DEF k, pc
  <2>4. Lands(vm, JumpBy(paid, Here.n))
    <3>1. Work(JumpBy(paid, Here.n), to, k + 0)
      BY <1>2, <1>4, <1>5, <2>2, WorkJump DEF InTurn
    <3> HIDE DEF pc
    <3>2. QED
      BY <1>2, <1>3, <1>4, <3>1, GoesTo DEF k, pc
  <2>5. ASSUME IsKind(Arg(1), TableKind) PROVE Lands(vm, Push(paid, h))
    <3>1. /\ a \in 1..Len(vm.heap)
          /\ IsTable(vm.heap[a], Len(vm.heap), Len(vm.cells))
      BY <1>2, <2>1, <2>5, HeldTable, HereFacts DEF InTurn
    <3>2. IsSeq(keys) /\ \A i \in 1..Len(keys) : IsKey(keys[i])
      BY <3>1, KeysAreKeys
    <3> HIDE DEF a, keys
    <3>3. h[1] = HandleKind /\ IsIterator(h[2], Len(vm.heap))
      BY <3>1, <3>2 DEF IsIterator, Handle
    <3>4. Len(paid.heap) = Len(vm.heap)
      BY <2>1, <2>2 DEF Same
    <3> HIDE DEF h
    <3>5. HeldSlot(paid, h)
      BY <3>3, <3>4 DEF HeldSlot, IsSlot
    <3>6. Work(Push(paid, h), pc, k + 1)
      BY <1>2, <2>2, <3>5, WorkPush DEF InTurn
    <3> HIDE DEF pc
    <3>7. QED
      BY <1>2, <1>3, <1>4, <3>6, Goes DEF k, pc
  <2>6. \/ m \in {TypeError(After(1)), JumpBy(paid, Here.n)}
        \/ IsKind(Arg(1), TableKind) /\ m = Push(paid, h)
    BY DEF m, paid, price
  <2>7. QED
    BY <2>3, <2>4, <2>5, <2>6
<1>7. QED
  BY <1>1, <1>2, <1>5, <1>6, StepLands

(* A push leaves the tables and cells as they are. *)
LEMMA PushKeeps ==
  ASSUME NEW m, DOMAIN m = Fields, NEW v
  PROVE  Push(m, v).heap = m.heap /\ Push(m, v).cells = m.cells
BY DEF Push, Fields

LEMMA IterNextSound ==
  ASSUME ProgramVerified, Sound(vm), IterNext
  PROVE  Lands(vm, vm')
<1> DEFINE h     == Last(vm.stack)[2]
           off   == Drop(Fetched, 1)
           key   == IF h.kind = "sorted" THEN h.keys[h.index + 1] ELSE IntKey(h.index)
           value == Get(vm.heap[h.table], key)
           over  == IF h.kind = "sorted" THEN h.index >= Len(h.keys)
                    ELSE Get(vm.heap[h.table], IntKey(h.index)) = Nil
           price == IF h.kind = "sorted" THEN IterSortedStep ELSE IterArrayStep
           paid  == Charge(off, price)
           moved == Handle(h.kind, h.keys, h.index + 1, h.table)
           m == IF ~IsHandle(Last(vm.stack)) THEN Raise(Fetched, Text("expected handle"))
                ELSE IF over THEN JumpBy(off, Here.n)
                ELSE Push(Push(Push(paid, moved), key), value)
           pc == Frame(vm).pc + 1
           to == pc + Here.n
           k  == Operands - 1
<1>1. Executing({"IterNext"}) /\ Step(0, m)
  BY DEF IterNext
<1> HIDE DEF m
<1>2. InTurn /\ Here.op = "IterNext" /\ Running /\ Operands \in Nat /\ DataSound(vm)
  BY <1>1, Begins
<1>3. Move(1, 0, TRUE) \in Moves(Here) /\ Move(1, 3, FALSE) \in Moves(Here)
  BY <1>2, MovesOf
<1>4. 0 \in Nat /\ 1 \in Nat /\ 3 \in Nat /\ k + 0 = k /\ k + 3 = ((k + 1) + 1) + 1
      /\ 0 \in 0..Operands
  BY <1>2
<1>5. to \in 1..Len(Proto(vm).code) + 1 /\ 1 \in 0..Operands
  BY <1>2, <1>3, <1>4, GoesTo
<1>6. /\ Turn(Fetched, pc, Operands) /\ Turn(off, pc, k)
      /\ Fetched.heap = vm.heap /\ Fetched.cells = vm.cells
  BY <1>2, <1>5, FetchedFacts, TurnDrop
<1>7. /\ DataSound(off) /\ off.heap = vm.heap /\ off.cells = vm.cells
  BY <1>6, SizesOf DEF Turn, Moved, Drop, Fields
<1> HIDE DEF off, k, price
<1>8. Lands(vm, Raise(Fetched, Text("expected handle")))
  <2>1. Work(Raise(Fetched, Text("expected handle")), pc, k + 3)
    BY <1>6, WorkIs, WorkRaise
  <2> HIDE DEF pc
  <2>2. QED
    BY <1>2, <1>3, <1>4, <2>1, Goes DEF pc, k
<1>9. Lands(vm, JumpBy(off, Here.n))
  <2>1. Work(JumpBy(off, Here.n), to, k + 0)
    BY <1>2, <1>4, <1>5, <1>6, WorkIs, WorkJump DEF InTurn
  <2> HIDE DEF pc
  <2>2. QED
    BY <1>2, <1>3, <1>4, <2>1, GoesTo DEF pc, k
<1>10. ASSUME IsHandle(Last(vm.stack)), ~over
       PROVE  Lands(vm, Push(Push(Push(paid, moved), key), value))
  <2>1. IsIterator(h, Len(vm.heap))
    <3>1. Len(vm.stack) \in 1..Len(vm.stack)
      <4>1. /\ Frame(vm).base \in Nat /\ Proto(vm).localCount \in Nat
            /\ Len(vm.stack) = Frame(vm).base + Proto(vm).localCount + Operands
        BY <1>2, HereFacts DEF InTurn
      <4>2. QED
        BY <1>2, <1>5, <4>1
    <3>2. HeldSlot(vm, Last(vm.stack))
      BY <1>2, <3>1 DEF DataSound, StackSound, HeldSlot, Last
    <3>3. QED
      BY <1>10, <3>2 DEF HeldSlot, IsSlot, IsHandle, IsValue, HandleKind, SharedKind
  <2>2. IsIterator(moved[2], Len(vm.heap)) /\ moved[1] = HandleKind
    <3> HIDE DEF h
    <3>1. h.index + 1 \in Nat
      BY <2>1 DEF IsIterator
    <3>2. QED
      BY <2>1, <3>1 DEF IsIterator, Handle
  <2>3. IsKey(key)
    <3> HIDE DEF h
    <3>1. CASE h.kind = "sorted"
      <4>1. h.index \in Nat /\ IsSeq(h.keys) /\ ~(h.index >= Len(h.keys))
        BY <1>10, <2>1, <3>1 DEF IsIterator
      <4>2. h.index + 1 \in 1..Len(h.keys)
        BY <4>1, SeqFacts
      <4>3. QED
        BY <2>1, <3>1, <4>2 DEF IsIterator
    <3>2. CASE h.kind # "sorted"
      BY <3>2, PlainValues
    <3>3. QED
      BY <3>1, <3>2
  <2>4. Held(vm, value)
    <3>1. h.table \in 1..Len(vm.heap)
      BY <2>1 DEF IsIterator
    <3> HIDE DEF h, key
    <3>2. IsTable(vm.heap[h.table], Len(vm.heap), Len(vm.cells))
      BY <1>2, <3>1 DEF DataSound, HeapSound
    <3>3. QED
      BY <3>2, GetHeld DEF Held
  <2> DEFINE m1 == Push(paid, moved)
             m2 == Push(m1, key)
  <2>5. Same(off, paid) /\ Work(paid, pc, k)
    BY <1>6, <1>7, ChargeSame, WorkIs, WorkCharge
  <2> HIDE DEF paid, moved, key, value
  <2>6. Len(paid.heap) = Len(vm.heap) /\ Len(paid.cells) = Len(vm.cells)
        /\ DOMAIN paid = Fields
    BY <1>7, <2>5, SizesOf DEF Same
  <2>7. HeldSlot(paid, moved)
    BY <2>2, <2>6 DEF HeldSlot, IsSlot
  <2>8. Work(m1, pc, k + 1) /\ m1.heap = paid.heap /\ m1.cells = paid.cells
    BY <1>2, <2>5, <2>6, <2>7, WorkPush, PushKeeps DEF InTurn
  <2> HIDE DEF m1
  <2>9. HeldSlot(m1, key) /\ DOMAIN m1 = Fields
    BY <2>3, <2>8, PlainValues, PlainHeld, WorkGood, SizesOf
  <2>10. Work(m2, pc, (k + 1) + 1) /\ m2.heap = m1.heap /\ m2.cells = m1.cells
    BY <1>2, <2>8, <2>9, WorkPush, PushKeeps DEF InTurn
  <2> HIDE DEF m2
  <2>11. HeldSlot(m2, value)
    BY <2>4, <2>6, <2>8, <2>10, SlotOf DEF Held
  <2>12. Work(Push(m2, value), pc, ((k + 1) + 1) + 1)
    BY <1>2, <2>10, <2>11, WorkPush DEF InTurn
  <2>13. Work(Push(m2, value), pc, k + 3)
    BY <1>4, <2>12
  <2> HIDE DEF pc
  <2>14. Lands(vm, Push(m2, value))
    BY <1>2, <1>3, <1>4, <2>13, Goes DEF pc, k
  <2>15. QED
    BY <2>14 DEF m1, m2
<1>11. \/ m \in {Raise(Fetched, Text("expected handle")), JumpBy(off, Here.n)}
       \/ IsHandle(Last(vm.stack)) /\ ~over /\ m = Push(Push(Push(paid, moved), key), value)
  BY DEF m, off, price
<1>12. Lands(vm, m)
  BY <1>8, <1>9, <1>10, <1>11
<1>13. QED
  BY <1>1, <1>2, <1>4, <1>12, StepLands

(* The slots and cells when i upvalues of a closure have been captured.    *)
Captured(st, i) ==
  /\ IsSeq(st.stack) /\ Len(st.stack) = Len(vm.stack)
  /\ \A j \in 1..Len(st.stack) : IsSlot(st.stack[j], Len(vm.heap), Len(st.cells))
  /\ AllValues(st.cells, Len(vm.heap), Len(st.cells)) /\ Len(st.cells) >= Len(vm.cells)
  /\ \A j \in 1..Frame(vm).base : st.stack[j] = vm.stack[j]
  /\ \A j \in 1..Proto(vm).localCount : ~IsHandle(st.stack[Frame(vm).base + j])
  /\ IsSeq(st.upvalues) /\ Len(st.upvalues) = i
  /\ \A u \in 1..i : st.upvalues[u] \in 1..Len(st.cells)
  /\ st.refused = FALSE

(* One more cell captured. *)
LEMMA CaptureCell ==
  ASSUME NEW st, NEW i \in Nat, Captured(st, i), NEW cell \in 1..Len(st.cells),
         NEW r, r.stack = st.stack, r.cells = st.cells, r.upvalues = Append(st.upvalues, cell),
         r.refused = FALSE
  PROVE  Captured(r, i + 1)
<1>1. IsSeq(st.upvalues) /\ Len(st.upvalues) = i
      /\ \A u \in 1..i : st.upvalues[u] \in 1..Len(st.cells)
  BY DEF Captured
<1>2. /\ IsSeq(r.upvalues) /\ Len(r.upvalues) = i + 1 /\ r.upvalues[i + 1] = cell
      /\ \A u \in 1..i : r.upvalues[u] = st.upvalues[u]
  BY <1>1, SeqAppend
<1>3. \A u \in 1..i + 1 : u \in 1..i \/ u = i + 1
  OBVIOUS
<1>4. \A u \in 1..i + 1 : r.upvalues[u] \in 1..Len(st.cells)
  BY <1>1, <1>2, <1>3
<1>5. QED
  BY <1>2, <1>4 DEF Captured

(* A local slot that becomes shared. *)
LEMMA CaptureFreshSlot ==
  ASSUME ProgramVerified, Sound(vm), Running, NEW st, NEW i, Captured(st, i),
         NEW n \in 0..Proto(vm).localCount - 1, NEW at, at = Slot(vm, n),
         st.stack[at][1] # SharedKind, NEW c, c = Len(st.cells) + 1,
         NEW r, r.stack = [st.stack EXCEPT ![at] = <<SharedKind, c>>],
         r.cells = Append(st.cells, st.stack[at]), r.upvalues = st.upvalues, r.refused = FALSE
  PROVE  Captured(r, i) /\ c \in 1..Len(r.cells)
<1> DEFINE T == Len(vm.heap)
           C == Len(st.cells)
           b == Frame(vm).base
           l == Proto(vm).localCount
           k == Operands
<1>1. /\ IsSeq(st.stack) /\ Len(st.stack) = Len(vm.stack)
      /\ \A j \in 1..Len(st.stack) : IsSlot(st.stack[j], T, C)
      /\ AllValues(st.cells, T, C) /\ C >= Len(vm.cells)
      /\ \A j \in 1..b : st.stack[j] = vm.stack[j]
      /\ \A j \in 1..l : ~IsHandle(st.stack[b + j])
      /\ \A u \in 1..i : st.upvalues[u] \in 1..C
  BY DEF Captured
<1>2. /\ b \in Nat /\ l \in Nat /\ k \in Nat /\ Len(vm.stack) = b + l + k /\ T \in Nat
      /\ Len(vm.cells) \in Nat
  BY HereFacts, SizesOf
<1>3. C \in Nat /\ IsSeq(st.cells) /\ DOMAIN st.stack = 1..Len(st.stack)
  BY <1>1, SeqFacts DEF AllValues
<1>4. at = b + n + 1
  BY DEF Slot
<1> HIDE DEF T, C, b, l, k
<1>5. at = b + (n + 1) /\ at \in 1..Len(vm.stack) /\ at > b /\ n + 1 \in 1..l
  BY <1>2, <1>4 DEF l
<1>6. /\ IsSlot(st.stack[at], T, C) /\ ~IsHandle(st.stack[at])
  BY <1>1, <1>5
<1>7. IsValue(st.stack[at], T, C)
  BY <1>6 DEF IsSlot, IsHandle
<1>8. C + 1 \in Nat /\ C <= C + 1 /\ T <= T /\ C + 1 \in 1..C + 1 /\ 1..C \subseteq 1..C + 1
      /\ C + 1 >= Len(vm.cells)
  BY <1>1, <1>2, <1>3
<1>9. /\ \A v : IsValue(v, T, C) => IsValue(v, T, C + 1)
      /\ \A s : IsSlot(s, T, C) => IsSlot(s, T, C + 1)
      /\ \A s : AllValues(s, T, C) => AllValues(s, T, C + 1)
  BY <1>2, <1>3, <1>8, ValueGrows
<1>10. /\ IsSeq(r.cells) /\ Len(r.cells) = C + 1 /\ AllValues(r.cells, T, C + 1)
  <2>1. IsValue(st.stack[at], T, C + 1) /\ AllValues(st.cells, T, C + 1)
    BY <1>1, <1>7, <1>9
  <2>2. AllValues(r.cells, T, C + 1)
    BY <2>1, AppendValue
  <2>3. QED
    BY <1>3, <2>2, SeqAppend DEF C
<1> DEFINE s == [st.stack EXCEPT ![at] = <<SharedKind, c>>]
<1>11. /\ s = [j \in 1..Len(vm.stack) |-> s[j]] /\ s[at] = <<SharedKind, c>>
       /\ \A j \in 1..Len(vm.stack) : j # at => s[j] = st.stack[j]
  BY <1>1, <1>3, <1>5
<1>12. r.stack = s /\ c = C + 1
  BY DEF C
<1> HIDE DEF s
<1>13. IsSeq(s) /\ Len(s) = Len(vm.stack)
  BY <1>2, <1>11, SeqFrom
<1>14. IsSlot(s[at], T, C + 1) /\ ~IsHandle(s[at])
  BY <1>8, <1>11, <1>12 DEF IsSlot, IsHandle, SharedKind, HandleKind
<1>15. \A j \in 1..Len(s) : IsSlot(s[j], T, C + 1)
  BY <1>1, <1>9, <1>11, <1>13, <1>14
<1>16. /\ \A j \in 1..b : s[j] = vm.stack[j]
       /\ \A j \in 1..l : ~IsHandle(s[b + j])
  <2>1. b \in Nat /\ l \in Nat /\ k \in Nat /\ Len(vm.stack) = b + l + k /\ at \in Int /\ at > b
    BY <1>2, <1>5
  <2>2. \A j \in 1..b : j \in 1..Len(vm.stack) /\ j # at
    BY <2>1
  <2>3. \A j \in 1..l : b + j \in 1..Len(vm.stack)
    BY <2>1
  <2>4. QED
    BY <1>1, <1>11, <1>14, <2>2, <2>3
<1>17. \A u \in 1..i : r.upvalues[u] \in 1..C + 1
  BY <1>1, <1>8
<1>18. QED
  BY <1>8, <1>10, <1>12, <1>13, <1>15, <1>16, <1>17 DEF Captured, T, C, b, l

LEMMA CaptureOneHeld ==
  ASSUME InTurn, NEW st, NEW i \in Nat, Captured(st, i), NEW desc, Captures(Proto(vm), desc)
  PROVE  Captured(CaptureOne(st, desc), i + 1)
<1> DEFINE at == Slot(vm, desc.n)
           slot == st.stack[at]
           C == Len(st.cells)
           up == [stack |-> st.stack, cells |-> st.cells, refused |-> FALSE,
                  upvalues |-> Append(st.upvalues, Frame(vm).upvalues[desc.n + 1])]
           old == [stack |-> st.stack, cells |-> st.cells, refused |-> FALSE,
                   upvalues |-> Append(st.upvalues, slot[2])]
           half == [stack |-> [st.stack EXCEPT ![at] = <<SharedKind, C + 1>>], refused |-> FALSE,
                    cells |-> Append(st.cells, slot), upvalues |-> st.upvalues]
           new == [stack |-> [st.stack EXCEPT ![at] = <<SharedKind, C + 1>>], refused |-> FALSE,
                   cells |-> Append(st.cells, slot), upvalues |-> Append(st.upvalues, C + 1)]
<1>1. /\ ProgramVerified /\ Sound(vm) /\ Running /\ Frame(vm).base \in Nat
      /\ Proto(vm).localCount \in Nat /\ Operands \in Nat /\ Len(vm.cells) \in Nat
      /\ Len(vm.stack) = Frame(vm).base + Proto(vm).localCount + Operands
  BY HereFacts, SizesOf DEF InTurn
<1>2. C \in Nat /\ C >= Len(vm.cells) /\ st.refused = FALSE
  BY SeqFacts DEF Captured, AllValues
<1>3. CASE desc.kind = "Upvalue"
  <2>1. desc.n + 1 \in DOMAIN Proto(vm).upvalues
    BY <1>3 DEF Captures
  <2>2. Frame(vm).upvalues[desc.n + 1] \in 1..Len(vm.cells)
    BY <2>1, UpvalueFacts
  <2>3. Frame(vm).upvalues[desc.n + 1] \in 1..Len(st.cells)
    BY <1>1, <1>2, <2>2
  <2>4. Captured(up, i + 1)
    BY <2>3, CaptureCell
  <2>5. CaptureOne(st, desc) = up
    BY <1>2, <1>3 DEF CaptureOne
  <2>6. QED
    BY <2>4, <2>5
<1>4. CASE desc.kind # "Upvalue" /\ slot[1] = SharedKind
  <2>1. desc.kind = "Local" /\ desc.n \in 0..Proto(vm).localCount - 1
    BY <1>4 DEF Captures
  <2>2. at \in 1..Len(vm.stack)
    BY <1>1, <2>1 DEF Slot
  <2>3. IsSlot(slot, Len(vm.heap), Len(st.cells))
    BY <2>2 DEF Captured
  <2>4. slot[2] \in 1..Len(st.cells)
    BY <1>4, <2>3 DEF IsSlot, IsValue, SharedKind, HandleKind
  <2>5. Captured(old, i + 1)
    BY <2>4, CaptureCell
  <2>6. CaptureOne(st, desc) = old
    BY <1>2, <1>4, <2>1 DEF CaptureOne
  <2>7. QED
    BY <2>5, <2>6
<1>5. CASE desc.kind # "Upvalue" /\ slot[1] # SharedKind
  <2>1. desc.kind = "Local" /\ desc.n \in 0..Proto(vm).localCount - 1
    BY <1>5 DEF Captures
  <2>2. Captured(half, i) /\ C + 1 \in 1..Len(half.cells)
    BY <1>1, <1>5, <2>1, CaptureFreshSlot
  <2>3. /\ new.stack = half.stack /\ new.cells = half.cells /\ new.refused = FALSE
        /\ new.upvalues = Append(half.upvalues, C + 1)
    OBVIOUS
  <2>4. CaptureOne(st, desc) = new
    <3>1. at = Frame(vm).base + (desc.n + 1) /\ desc.n + 1 \in 1..Proto(vm).localCount
      BY <1>1, <2>1 DEF Slot
    <3>2. ~IsHandle(slot)
      BY <3>1 DEF Captured
    <3>3. QED
      BY <1>2, <1>5, <2>1, <3>2 DEF CaptureOne
  <2> HIDE DEF new, half, C
  <2>5. Captured(new, i + 1)
    BY <2>2, <2>3, CaptureCell
  <2>6. QED
    BY <2>4, <2>5
<1>6. QED
  BY <1>3, <1>4, <1>5

LEMMA CapturesHeld ==
  ASSUME InTurn, NEW descs, IsSeq(descs),
         \A u \in 1..Len(descs) : Captures(Proto(vm), descs[u])
  PROVE  LET after[i \in 0..Len(descs)] ==
               IF i = 0 THEN [stack |-> vm.stack, cells |-> vm.cells, upvalues |-> << >>, refused |-> FALSE]
               ELSE CaptureOne(after[i - 1], descs[i])
         IN  Captured(after[Len(descs)], Len(descs))
<1> DEFINE n == Len(descs)
           x == [stack |-> vm.stack, cells |-> vm.cells, upvalues |-> << >>, refused |-> FALSE]
           Take(y, i) == CaptureOne(y, descs[i])
           Rec(f, k) == f = [i \in 0..k |-> IF i = 0 THEN x ELSE Take(f[i - 1], i)]
           after[i \in 0..n] == IF i = 0 THEN x ELSE Take(after[i - 1], i)
           K == {k \in Nat : \E f : Rec(f, k)}
           J == {k \in Nat : k <= n => Captured(after[k], k)}
<1>1. n \in Nat
  BY SeqFacts
<1>2. Captured(x, 0)
  <2>1. x.stack = vm.stack /\ x.cells = vm.cells /\ x.upvalues = << >> /\ x.refused = FALSE
    OBVIOUS
  <2>2. /\ DataSound(vm) /\ \A i \in 1..Proto(vm).localCount : ~IsHandle(vm.stack[Frame(vm).base + i])
    BY HereFacts DEF InTurn
  <2>3. Len(vm.cells) \in Nat /\ IsSeq(<< >>) /\ Len(<< >>) = 0
    BY <2>2, SizesOf, SeqEmpty
  <2> HIDE DEF x
  <2>4. QED
    BY <2>1, <2>2, <2>3 DEF Captured, DataSound, StackSound
<1>3. ASSUME NEW y, NEW i \in 1..n, Captured(y, i - 1) PROVE Captured(Take(y, i), i)
  <2>1. i - 1 \in Nat /\ (i - 1) + 1 = i
    OBVIOUS
  <2>2. Captured(Take(y, i), (i - 1) + 1)
    BY <1>3, <2>1, CaptureOneHeld
  <2>3. QED
    BY <2>1, <2>2
<1> HIDE DEF Take, n, x
<1>4. 0 \in K
  <2> DEFINE f == [i \in 0..0 |-> x]
  <2>1. Rec(f, 0)
    OBVIOUS
  <2> HIDE DEF f
  <2>2. QED
    BY <2>1
<1>5. ASSUME NEW k \in K PROVE k + 1 \in K
  <2>1. PICK g : Rec(g, k)
    OBVIOUS
  <2> DEFINE f == [i \in 0..k + 1 |-> IF i = k + 1 THEN Take(g[k], k + 1) ELSE g[i]]
  <2>2. Rec(f, k + 1)
    BY <2>1
  <2> HIDE DEF f
  <2>3. QED
    BY <2>2
<1>6. K = Nat
  <2> HIDE DEF K
  <2>1. K \in SUBSET Nat
    BY DEF K
  <2>2. QED
    BY <1>4, <1>5, <2>1, NatInd
<1>7. Rec(after, n)
  BY <1>1, <1>6
<1> HIDE DEF after
<1>8. 0 \in J
  BY <1>1, <1>2, <1>7
<1>9. ASSUME NEW k \in J PROVE k + 1 \in J
  <2>1. CASE k + 1 <= n
    <3>1. after[k + 1] = Take(after[k], k + 1) /\ Captured(after[k], k)
      BY <1>1, <1>7, <2>1
    <3>2. k + 1 \in 1..n /\ (k + 1) - 1 = k
      BY <1>1, <2>1
    <3>3. Captured(Take(after[k], k + 1), k + 1)
      BY <1>3, <3>1, <3>2
    <3>4. QED
      BY <3>1, <3>3
  <2>2. QED
    BY <1>1, <2>1
<1>10. J = Nat
  <2> HIDE DEF J
  <2>1. J \in SUBSET Nat
    BY DEF J
  <2>2. QED
    BY <1>8, <1>9, <2>1, NatInd
<1>11. Captured(after[n], n)
  BY <1>1, <1>10
<1>12. QED
  BY <1>11 DEF after, n, Take, x

LEMMA MakeClosureSound ==
  ASSUME ProgramVerified, Sound(vm), MakeClosure
  PROVE  Lands(vm, vm')
<1> DEFINE descs == program[Here.n + 1].upvalues
           paid  == Alloc(Fetched, 32 + 8 * Len(descs))
           after[i \in 0..Len(descs)] ==
             IF i = 0 THEN [stack |-> vm.stack, cells |-> vm.cells, upvalues |-> << >>, refused |-> FALSE]
             ELSE CaptureOne(after[i - 1], descs[i])
           taken == after[Len(descs)]
           r     == [paid EXCEPT !.stack = taken.stack, !.cells = taken.cells]
           v     == <<FunctionKind, <<Here.n, taken.upvalues>>>>
           m     == IF paid.fault # "none" THEN paid
                    ELSE IF taken.refused THEN Raise(r, Text("cannot capture iterator handle"))
                    ELSE Push(r, v)
           pc    == Frame(vm).pc + 1
           k     == Operands
<1>1. Executing({"Closure"}) /\ Step(0, m)
  BY DEF MakeClosure
<1> HIDE DEF m
<1>2. InTurn /\ Here.op = "Closure" /\ Running /\ k \in Nat /\ DataSound(vm)
  <2> HIDE DEF after
  <2>1. QED
    BY <1>1, Begins
<1>3. Move(0, 1, FALSE) \in Moves(Here) /\ 0 \in Nat /\ 1 \in Nat /\ k + 1 = k - 0 + 1
  <2>1. Here.op \in Pushes
    BY <1>2 DEF Pushes, ProtoLoads
  <2>2. Move(0, 1, FALSE) \in Moves(Here)
    BY <2>1, MovesOf
  <2>3. k + 1 = k - 0 + 1
    BY <1>2
  <2>4. QED
    BY <2>2, <2>3
<1>4. /\ Here.n + 1 \in DOMAIN program /\ IsSeq(descs) /\ Len(descs) \in Nat
      /\ \A u \in 1..Len(descs) : Captures(Proto(vm), descs[u])
  <2> HIDE DEF after
  <2>1. /\ Here.n + 1 \in DOMAIN program
        /\ \A u \in DOMAIN descs : Captures(Proto(vm), descs[u])
    BY <1>2, HereRefers DEF RefersRightly, ProtoLoads
  <2>2. IsSeq(descs) /\ Len(descs) \in Nat /\ DOMAIN descs = 1..Len(descs)
    BY <1>2, <2>1, ProtoFacts DEF InTurn
  <2>3. QED
    BY <2>1, <2>2
<1>5. Captured(taken, Len(descs))
  <2> HIDE DEF descs
  <2>1. QED
    BY <1>2, <1>4, CapturesHeld
<1> HIDE DEF taken, after
<1>6. /\ Turn(Fetched, pc, k) /\ Fetched.stack = vm.stack /\ Fetched.heap = vm.heap
      /\ Fetched.cells = vm.cells
  BY <1>2, FetchedFacts
<1>7. Same(Fetched, paid) /\ Turn(paid, pc, k)
  <2>1. DataSound(Fetched)
    BY <1>6 DEF Turn, Moved
  <2>2. Same(Fetched, paid)
    BY <2>1, AllocSame
  <2>3. QED
    BY <1>6, <2>2, TurnSame
<1> HIDE DEF paid
<1>8. /\ DataSound(paid) /\ paid.stack = vm.stack /\ Len(paid.heap) = Len(vm.heap)
      /\ paid.cells = vm.cells
  BY <1>6, <1>7 DEF Same
<1>9. /\ DOMAIN paid = Fields /\ Len(paid.heap) \in Nat /\ Len(paid.cells) \in Nat
  BY <1>8, SizesOf
<1>10. /\ DOMAIN r = Fields /\ r.stack = taken.stack /\ r.cells = taken.cells
       /\ r.heap = paid.heap /\ r.frames = paid.frames /\ r.inner = paid.inner
       /\ r.status = paid.status /\ r.error = paid.error /\ r.fault = paid.fault
  BY <1>9 DEF Fields
<1> HIDE DEF r
<1> DEFINE T == Len(paid.heap)
           C == Len(taken.cells)
<1>11. /\ IsSeq(taken.stack) /\ Len(taken.stack) = Len(vm.stack)
       /\ \A j \in 1..Len(taken.stack) : IsSlot(taken.stack[j], T, C)
       /\ AllValues(taken.cells, T, C) /\ C >= Len(paid.cells)
       /\ \A j \in 1..Frame(vm).base : taken.stack[j] = vm.stack[j]
       /\ \A j \in 1..Proto(vm).localCount : ~IsHandle(taken.stack[Frame(vm).base + j])
       /\ IsSeq(taken.upvalues) /\ Len(taken.upvalues) = Len(descs)
       /\ \A u \in 1..Len(descs) : taken.upvalues[u] \in 1..C
       /\ taken.refused = FALSE
  BY <1>5, <1>8 DEF Captured
<1>12. C \in Nat
  BY <1>11, SeqFacts DEF AllValues
<1>13. T <= T /\ Len(paid.cells) <= C
  BY <1>9, <1>11, <1>12
<1>14. /\ \A w : IsValue(w, T, Len(paid.cells)) => IsValue(w, T, C)
       /\ \A t : IsTable(t, T, Len(paid.cells)) => IsTable(t, T, C)
  BY <1>9, <1>12, <1>13, ValueGrows
<1>15. DataSound(r)
  <2>1. HeapSound(r)
    BY <1>8, <1>10, <1>14 DEF DataSound, HeapSound
  <2>2. StackSound(r) /\ AllValues(r.cells, Len(r.heap), Len(r.cells))
    BY <1>10, <1>11 DEF StackSound
  <2>3. IsValue(r.error, Len(r.heap), Len(r.cells))
    BY <1>8, <1>10, <1>14 DEF DataSound
  <2>4. Good(r)
    BY <1>8, <1>10 DEF DataSound, Good
  <2>5. QED
    BY <2>1, <2>2, <2>3, <2>4 DEF DataSound
<1>16. SameBelow(paid, r)
  BY <1>8, <1>10, <1>11 DEF SameBelow
<1>17. Turn(r, pc, k)
  <2>1. Len(r.heap) >= Len(paid.heap) /\ Len(r.cells) >= Len(paid.cells)
    BY <1>9, <1>10, <1>11
  <2>2. Len(r.stack) = Frame(vm).base + Proto(vm).localCount + k
    BY <1>2, <1>10, <1>11, HereFacts DEF InTurn
  <2>3. QED
    BY <1>2, <1>7, <1>10, <1>15, <1>16, <2>1, <2>2, TurnMore DEF InTurn
<1>18. HeldSlot(r, v)
  <2>1. /\ v[1] = FunctionKind /\ v[2][1] = Here.n /\ v[2][2] = taken.upvalues
    OBVIOUS
  <2> HIDE DEF v
  <2>2. IsValue(v, T, C)
    BY <1>4, <1>11, <2>1 DEF IsValue, FunctionKind, TableKind, SharedKind, HandleKind
  <2>3. QED
    BY <1>10, <2>2 DEF HeldSlot, IsSlot
<1> HIDE DEF v
<1>19. Work(Push(r, v), pc, k + 1)
  BY <1>2, <1>17, <1>18, WorkIs, WorkPush DEF InTurn
<1>20. paid.fault # "none" => Work(paid, pc, k + 1)
  BY <1>7, WorkIs, WorkFaulted
<1>21. Work(m, pc, k + 1)
  BY <1>11, <1>19, <1>20 DEF m
<1>22. QED
  BY <1>1, <1>2, <1>3, <1>21, StepGoes

-----------------------------------------------------------------------------
(* A state ready for the result of a call: where the innermost frame is    *)
(* once it has that, and that nothing else waits in it.                    *)

Ready(m, byPcall) ==
  LET n == Len(m.frames)
  IN  /\ Mid(m) /\ m.frames # << >>
      /\ IF byPcall
           THEN /\ FoundAt(m, n, Height(m, n) + 2) /\ m.inner # << >>
                /\ Last(m.inner).kind = "pcall" /\ Last(m.inner).frameLen = n
         ELSE FoundAt(m, n, Height(m, n) + 1) /\ ~Waits(m, n)

LEMMA TopFacts ==
  ASSUME ProgramVerified, NEW m, Mid(m), m.frames # << >>
  PROVE  LET n == Len(m.frames)
         IN  /\ n \in 1..n /\ n \in Nat /\ TopOf(m, n) = Len(m.stack) /\ Len(m.stack) \in Nat
             /\ Height(m, n) \in Nat /\ Len(m.inner) \in Nat
             /\ \A i \in 1..Len(m.inner) : m.inner[i].frameLen \in 1..n
<1> DEFINE n == Len(m.frames)
<1>1. DataSound(m)
  BY DEF Mid
<1>2. n \in Nat /\ IsSeq(m.frames) /\ Len(m.stack) \in Nat /\ Len(m.inner) \in Nat
  BY <1>1, SizesOf
<1>3. n >= 1
  BY <1>2, SeqFront
<1>4. n \in 1..n
  BY <1>2, <1>3
<1>5. /\ m.frames[n].base \in Nat /\ ProtoOf(m, n).localCount \in Nat
      /\ m.frames[n].base + ProtoOf(m, n).localCount <= TopOf(m, n)
      /\ TopOf(m, n) = Len(m.stack)
  BY <1>4, FrameFacts
<1>6. Height(m, n) \in Nat
  BY <1>2, <1>5 DEF Height
<1>7. \A i \in 1..Len(m.inner) : m.inner[i].frameLen \in 1..n
  BY EntryFacts
<1>8. QED
  BY <1>2, <1>4, <1>5, <1>6, <1>7

(* More on the stack, and nothing else. *)
LEMMA MoreMid ==
  ASSUME ProgramVerified, NEW m, Mid(m), m.frames # << >>, NEW r, DataSound(r),
         r.frames = m.frames, r.inner = m.inner,
         Len(r.heap) >= Len(m.heap), Len(r.cells) >= Len(m.cells),
         Len(m.stack) <= Len(r.stack), \A i \in 1..Len(m.stack) : r.stack[i] = m.stack[i],
         Waits(m, Len(m.frames)) => Len(r.stack) = Len(m.stack)
  PROVE  /\ Mid(r) /\ Height(r, Len(m.frames)) = Len(r.stack) - Len(m.stack) + Height(m, Len(m.frames))
         /\ \A f : Waits(r, f) = Waits(m, f)
<1> DEFINE n == Len(m.frames)
           p == Len(m.inner)
<1>1. /\ n \in 1..n /\ TopOf(m, n) = Len(m.stack) /\ p \in Nat
      /\ \A i \in 1..p : m.inner[i].frameLen \in 1..n
  BY TopFacts
<1>2. /\ p \in 0..p /\ (\A i \in 1..p : m.inner[i].frameLen <= n)
      /\ \A i \in p + 1..p : m.inner[i].frameLen >= n
  BY <1>1
<1>3. (\E i \in 1..p : m.inner[i].frameLen = n) => Len(r.stack) = TopOf(m, n)
  BY <1>1 DEF Waits
<1>4. Cut(m, r, n, p)
  BY <1>1, <1>2, <1>3 DEF Cut
<1>5. \A f : Waits(r, f) = Waits(m, f)
  BY DEF Waits
<1>6. QED
  BY <1>1, <1>4, <1>5, CutMid

LEMMA SameMid ==
  ASSUME ProgramVerified, NEW m, Mid(m), m.frames # << >>, NEW r, Same(m, r)
  PROVE  Mid(r) /\ Height(r, Len(m.frames)) = Height(m, Len(m.frames))
<1>1. /\ DataSound(r) /\ r.stack = m.stack /\ r.frames = m.frames /\ r.inner = m.inner
      /\ r.cells = m.cells /\ Len(r.heap) = Len(m.heap)
  BY DEF Same
<1>2. Len(m.heap) \in Nat /\ Len(m.cells) \in Nat /\ Len(m.stack) \in Nat
      /\ Height(m, Len(m.frames)) \in Nat
  BY SizesOf, TopFacts DEF Mid
<1>3. /\ Len(r.heap) >= Len(m.heap) /\ Len(r.cells) >= Len(m.cells)
      /\ Len(m.stack) <= Len(r.stack)
  BY <1>1, <1>2
<1>4. /\ Mid(r)
      /\ Height(r, Len(m.frames)) = Len(r.stack) - Len(m.stack) + Height(m, Len(m.frames))
  BY <1>1, <1>3, MoreMid
<1>5. QED
  BY <1>1, <1>2, <1>4

LEMMA ReadySame ==
  ASSUME ProgramVerified, NEW m, NEW b, Ready(m, b), NEW r, Same(m, r)
  PROVE  Ready(r, b)
<1>1. Mid(r) /\ Height(r, Len(m.frames)) = Height(m, Len(m.frames))
  BY SameMid DEF Ready
<1>2. r.frames = m.frames /\ r.inner = m.inner
  BY DEF Same
<1>3. QED
  BY <1>1, <1>2 DEF Ready, FoundAt, Waits

LEMMA ReadyFaulted ==
  ASSUME ProgramVerified, NEW m, NEW b, Ready(m, b), NEW r, Same(m, r), r.fault # "none"
  PROVE  Lands(m, r)
<1>1. Sound(r)
  BY ReadySame DEF Ready, Sound
<1>2. Keeps(m, r)
  BY KeepsSame DEF Ready, Same
<1>3. QED
  BY <1>1, <1>2, KeepsLands

(* The innermost function inside an instruction is gone. *)
LEMMA LeftInner ==
  ASSUME ProgramVerified, NEW m, Mid(m), m.frames # << >>, m.inner # << >>,
         Last(m.inner).frameLen = Len(m.frames),
         NEW r, DataSound(r), r.frames = m.frames, r.inner = Front(m.inner),
         Len(r.heap) >= Len(m.heap), Len(r.cells) >= Len(m.cells),
         Len(m.stack) <= Len(r.stack), \A i \in 1..Len(m.stack) : r.stack[i] = m.stack[i],
         (\E i \in 1..Len(m.inner) - 1 : m.inner[i].frameLen = Len(m.frames)) =>
           Len(r.stack) = Len(m.stack)
  PROVE  /\ Mid(r) /\ Height(r, Len(m.frames)) = Len(r.stack) - Len(m.stack) + Height(m, Len(m.frames))
         /\ Len(r.inner) = Len(m.inner) - 1 /\ \A i \in 1..Len(m.inner) - 1 : r.inner[i] = m.inner[i]
<1> DEFINE n == Len(m.frames)
           p == Len(m.inner)
<1>1. /\ n \in 1..n /\ TopOf(m, n) = Len(m.stack) /\ p \in Nat
      /\ \A i \in 1..p : m.inner[i].frameLen \in 1..n
  BY TopFacts
<1>2. IsSeq(m.inner)
  BY SizesOf DEF Mid
<1>3. /\ p >= 1 /\ Len(r.inner) = p - 1 /\ m.inner[p].frameLen = n
      /\ \A i \in 1..p - 1 : r.inner[i] = m.inner[i]
  BY <1>2, SeqFront
<1>4. /\ p - 1 \in 0..p /\ (\A i \in 1..p - 1 : m.inner[i].frameLen <= n)
      /\ \A i \in (p - 1) + 1..p : m.inner[i].frameLen >= n
  <2>1. p - 1 \in 0..p /\ \A i \in 1..p - 1 : i \in 1..p
    BY <1>1, <1>3
  <2>2. \A i \in 1..p : m.inner[i].frameLen <= n
    BY <1>1
  <2>3. \A i \in (p - 1) + 1..p : i = p
    BY <1>1, <1>3
  <2>4. m.inner[p].frameLen >= n
    BY <1>1, <1>3
  <2>5. QED
    BY <2>1, <2>2, <2>3, <2>4
<1>5. Cut(m, r, n, p - 1)
  BY <1>1, <1>3, <1>4 DEF Cut
<1>6. Mid(r) /\ Height(r, n) = Len(r.stack) - TopOf(m, n) + Height(m, n)
  BY <1>5, CutMid
<1>7. Mid(r) /\ Height(r, n) = Len(r.stack) - Len(m.stack) + Height(m, n)
  BY <1>1, <1>6
<1>8. QED
  BY <1>3, <1>7

(* Nothing below a pcall waits in the frame it waits in. *)
LEMMA BelowPcall ==
  ASSUME NEW m, Mid(m), m.inner # << >>, ~(Last(m.inner).kind = "sort" /\ Last(m.inner).byPcall)
  PROVE  \A i \in 1..Len(m.inner) - 1 : m.inner[i].frameLen # Last(m.inner).frameLen
<1> DEFINE p == Len(m.inner)
<1>1. IsSeq(m.inner) /\ p \in Nat
  BY SizesOf DEF Mid
<1>2. p >= 1 /\ Last(m.inner) = m.inner[p]
  BY <1>1, SeqFront
<1>3. p \in 1..p
  BY <1>1, <1>2
<1>4. ASSUME NEW i \in 1..p - 1 PROVE m.inner[i].frameLen # m.inner[p].frameLen
  <2>1. i \in 1..p /\ i < p
    BY <1>1
  <2>2. m.inner[i].frameLen < m.inner[p].frameLen
    BY <1>2, <1>3, <2>1, EntriesRise
  <2>3. m.inner[i].frameLen \in Int /\ m.inner[p].frameLen \in Int
    BY <1>3, <2>1, EntryFacts
  <2>4. QED
    BY <2>2, <2>3
<1>5. QED
  BY <1>2, <1>4

LEMMA FinishSound ==
  ASSUME ProgramVerified, NEW m, NEW b \in BOOLEAN, Ready(m, b), NEW v, Held(m, v)
  PROVE  Lands(m, Finish(m, b, v))
<1> DEFINE n == Len(m.frames)
<1>1. Mid(m) /\ DataSound(m) /\ m.frames # << >>
  BY DEF Ready, Mid
<1>2. /\ n \in 1..n /\ Len(m.stack) \in Nat /\ Height(m, n) \in Nat
      /\ Len(m.heap) \in Nat /\ Len(m.cells) \in Nat /\ DOMAIN m = Fields
      /\ IsSeq(m.inner) /\ Len(m.inner) \in Nat
  BY <1>1, TopFacts, SizesOf
<1>3. CASE m.fault # "none"
  BY <1>1, <1>3, KeepsSame, KeepsLands DEF Finish, Sound
<1>4. CASE m.fault = "none" /\ b = FALSE
  <2> DEFINE r == [m EXCEPT !.stack = Append(@, v)]
  <2>1. /\ DataSound(r) /\ r.frames = m.frames /\ r.inner = m.inner
        /\ r.heap = m.heap /\ r.cells = m.cells /\ Len(r.stack) = Len(m.stack) + 1
        /\ \A i \in 1..Len(m.stack) : r.stack[i] = m.stack[i]
    BY <1>1, SlotOf, StackGrown
  <2>2. Finish(m, b, v) = r
    BY <1>4 DEF Finish, Push
  <2> HIDE DEF r
  <2>3. FoundAt(m, n, Height(m, n) + 1) /\ ~Waits(m, n)
    BY <1>4 DEF Ready
  <2>4. Len(r.heap) >= Len(m.heap) /\ Len(r.cells) >= Len(m.cells) /\ Len(m.stack) <= Len(r.stack)
    BY <1>2, <2>1
  <2>5. Mid(r) /\ Height(r, n) = Len(r.stack) - Len(m.stack) + Height(m, n) /\ ~Waits(r, n)
    BY <1>1, <2>1, <2>3, <2>4, MoreMid
  <2>6. Height(r, n) = Height(m, n) + 1
    BY <1>2, <2>1, <2>5
  <2>7. Done(r)
    BY <1>1, <2>1, <2>3, <2>5, <2>6 DEF Done, FoundAt
  <2>8. Keeps(m, r)
    BY <1>1, <2>1, KeepsMore DEF IsPcall
  <2>9. Sound(r)
    BY <2>5, <2>7 DEF Sound
  <2>10. QED
    BY <2>2, <2>8, <2>9, KeepsLands
<1>5. CASE m.fault = "none" /\ b = TRUE
  <2> DEFINE s == LeaveInner(m)
             t == [s EXCEPT !.stack = Append(@, TrueVal)]
             r == [t EXCEPT !.stack = Append(@, v)]
  <2>1. /\ FoundAt(m, n, Height(m, n) + 2) /\ m.inner # << >>
        /\ Last(m.inner).kind = "pcall" /\ Last(m.inner).frameLen = n
    BY <1>5 DEF Ready
  <2>2. /\ DOMAIN s = Fields /\ s.stack = m.stack /\ s.frames = m.frames
        /\ s.inner = Front(m.inner) /\ s.heap = m.heap /\ s.cells = m.cells
        /\ s.error = m.error /\ s.fault = "none"
    BY <1>2, <1>5 DEF LeaveInner, Fields
  <2> HIDE DEF s
  <2>3. DataSound(s)
    <3>1. Good(s)
      BY <1>1, <1>2, <2>1, <2>2, SeqFront DEF DataSound, Good
    <3>2. QED
      BY <1>1, <2>2, <3>1 DEF DataSound, StackSound, HeapSound
  <2>4. HeldSlot(s, TrueVal)
    BY PlainValues, PlainHeld
  <2>5. /\ DataSound(t) /\ t.frames = m.frames /\ t.inner = Front(m.inner)
        /\ t.heap = m.heap /\ t.cells = m.cells /\ Len(t.stack) = Len(m.stack) + 1
        /\ t.fault = "none" /\ \A i \in 1..Len(m.stack) : t.stack[i] = m.stack[i]
        /\ t.stack[Len(m.stack) + 1] = TrueVal
    BY <2>2, <2>3, <2>4, StackGrown
  <2>6. Push(s, TrueVal) = t
    BY <2>2 DEF Push
  <2> HIDE DEF t
  <2>7. HeldSlot(t, v)
    BY <2>5, SlotOf DEF Held
  <2>8. /\ DataSound(r) /\ r.frames = t.frames /\ r.inner = t.inner
        /\ r.heap = t.heap /\ r.cells = t.cells /\ Len(r.stack) = Len(t.stack) + 1
        /\ \A i \in 1..Len(t.stack) : r.stack[i] = t.stack[i]
    BY <2>5, <2>7, StackGrown
  <2>9. Push(t, v) = r
    BY <2>5 DEF Push
  <2>10. Finish(m, b, v) = r
    BY <1>5, <2>6, <2>9 DEF Finish, s
  <2> HIDE DEF r
  <2>11. /\ Len(r.stack) = Len(m.stack) + 2 /\ Len(m.stack) <= Len(r.stack)
         /\ \A i \in 1..Len(m.stack) : i \in 1..Len(t.stack)
         /\ Len(r.heap) >= Len(m.heap) /\ Len(r.cells) >= Len(m.cells)
    BY <1>2, <2>5, <2>8
  <2>12. \A i \in 1..Len(m.stack) : r.stack[i] = m.stack[i]
    BY <2>5, <2>8, <2>11
  <2>13. \A i \in 1..Len(m.inner) - 1 : m.inner[i].frameLen # n
    BY <1>1, <2>1, BelowPcall
  <2>14. r.frames = m.frames /\ r.inner = Front(m.inner)
    BY <2>5, <2>8
  <2>15. /\ Mid(r) /\ Height(r, n) = Len(r.stack) - Len(m.stack) + Height(m, n)
         /\ Len(r.inner) = Len(m.inner) - 1 /\ \A i \in 1..Len(m.inner) - 1 : r.inner[i] = m.inner[i]
    BY <1>1, <2>1, <2>8, <2>11, <2>12, <2>13, <2>14, LeftInner
  <2>16. Height(r, n) = Height(m, n) + 2 /\ ~Waits(r, n)
    <3>1. Height(r, n) = Height(m, n) + 2
      BY <1>2, <2>11, <2>15
    <3>2. ~Waits(r, n)
      BY <2>13, <2>15 DEF Waits
    <3>3. QED
      BY <3>1, <3>2
  <2>17. Done(r)
    BY <1>1, <2>1, <2>14, <2>16 DEF Done, FoundAt
  <2>18. ASSUME NEW i, IsPcall(m, i)
         PROVE  /\ i <= Len(r.inner) => r.inner[i] = m.inner[i] /\ Kept(m, r, i)
                /\ i = Len(r.inner) + 1 => Kept(m, r, i) /\ Given(m, r, i)
    <3>1. i \in 1..Len(m.inner)
      BY <2>18 DEF IsPcall
    <3>2. Kept(m, r, i)
      BY <1>1, <2>12, <2>14, <3>1, KeptMore
    <3>3. i <= Len(r.inner) => i \in 1..Len(m.inner) - 1
      BY <1>2, <2>15, <3>1
    <3>4. ASSUME i = Len(r.inner) + 1 PROVE Given(m, r, i)
      <4>1. i = Len(m.inner) /\ m.inner[i] = Last(m.inner)
        BY <1>2, <2>1, <2>15, <3>4, SeqFront
      <4>2. m.inner[i].frameLen = n /\ m.inner[i].stackLen = Len(m.stack)
        <5>1. m.inner[i].stackLen = TopOf(m, m.inner[i].frameLen)
          BY <1>1, <3>1, EntryFacts
        <5>2. QED
          BY <2>1, <4>1, <5>1 DEF TopOf
      <4>3. r.stack[Len(m.stack) + 1] = TrueVal
        <5>1. Len(m.stack) + 1 \in 1..Len(t.stack)
          BY <1>2, <2>5
        <5>2. QED
          BY <2>5, <2>8, <5>1
      <4>4. QED
        BY <2>11, <2>14, <4>2, <4>3 DEF Given
    <3>5. QED
      BY <2>15, <3>2, <3>3, <3>4
  <2>19. Returns(m, r)
    BY <2>18 DEF Returns
  <2>20. QED
    BY <2>10, <2>15, <2>17, <2>19 DEF Lands, Sound
<1>6. QED
  BY <1>3, <1>4, <1>5

-----------------------------------------------------------------------------
(* A frame pushed on top of one that is where its call will have left it.  *)

LEMMA CallSound ==
  ASSUME ProgramVerified, NEW m, Mid(m), m.frames # << >>,
         Waits(m, Len(m.frames)) \/ FoundAt(m, Len(m.frames), Height(m, Len(m.frames)) + 1),
         NEW f, IsKind(f, FunctionKind), Held(m, f), NEW args, HeldAll(m, args)
  PROVE  Lands(m, PushCallFrame(m, f, args))
<1> DEFINE n == Len(m.frames)
           T == Len(m.heap)
           C == Len(m.cells)
           s == Len(m.stack)
           q == f[2][1] + 1
           l == program[q].localCount
           local(i) == IF i \in DOMAIN args /\ i <= program[q].paramCount THEN args[i] ELSE Nil
           locals == [i \in 1..l |-> local(i)]
           frame == [proto |-> f[2][1], pc |-> 1, base |-> s, upvalues |-> f[2][2]]
           paid == Alloc(m, 64 + 8 * l)
           r == [paid EXCEPT !.frames = Append(@, frame), !.stack = @ \o locals]
<1>1. DataSound(m) /\ n \in 1..n /\ n \in Nat /\ TopOf(m, n) = s /\ s \in Nat
      /\ \A i \in 1..Len(m.inner) : m.inner[i].frameLen \in 1..n
  BY TopFacts DEF Mid
<1>2. T \in Nat /\ C \in Nat /\ IsSeq(m.stack) /\ IsSeq(m.frames)
  BY <1>1, SizesOf
<1>3. /\ q \in DOMAIN program /\ IsSeq(f[2][2]) /\ Len(f[2][2]) = Len(program[q].upvalues)
      /\ \A u \in 1..Len(f[2][2]) : f[2][2][u] \in 1..C
  BY DEF Held, IsValue, IsKind
<1>4. l \in Nat /\ Len(program[q].code) \in Nat /\ Balanced(program[q].code, depths[q])
  BY <1>3, ProtoFacts
<1>5. PushCallFrame(m, f, args) = IF paid.fault # "none" THEN paid ELSE r
  BY DEF PushCallFrame
<1>6. Same(m, paid) /\ DataSound(paid) /\ DOMAIN paid = Fields
  BY <1>1, AllocSame, SizesOf DEF Same
<1>7. Mid(paid)
  BY <1>6, SameMid
<1> HIDE DEF q, l, paid
<1>8. /\ paid.stack = m.stack /\ paid.frames = m.frames /\ paid.inner = m.inner
      /\ Len(paid.heap) = T /\ paid.cells = m.cells
  BY <1>6 DEF Same
<1>9. /\ DOMAIN r = Fields /\ r.frames = Append(m.frames, frame) /\ r.stack = m.stack \o locals
      /\ r.inner = m.inner /\ r.heap = paid.heap /\ r.cells = m.cells /\ r.error = paid.error
  BY <1>6, <1>8 DEF Fields
<1>10. /\ IsSeq(locals) /\ Len(locals) = l
       /\ \A i \in 1..l : IsValue(locals[i], T, C) /\ HeldSlot(m, locals[i]) /\ ~IsHandle(locals[i])
  <2>1. locals = [i \in 1..l |-> locals[i]]
    OBVIOUS
  <2>2. \A i \in 1..l : IsValue(locals[i], T, C)
    <3>1. IsValue(Nil, T, C)
      BY PlainValues, PlainIsValue
    <3>2. \A i \in DOMAIN args : IsValue(args[i], T, C)
      BY SeqFacts DEF HeldAll, AllValues
    <3>3. QED
      BY <3>1, <3>2
  <2> HIDE DEF locals
  <2>3. IsSeq(locals) /\ Len(locals) = l
    BY <1>4, <2>1, SeqFrom
  <2>4. \A i \in 1..l : HeldSlot(m, locals[i]) /\ ~IsHandle(locals[i])
    BY <2>2, SlotOf DEF Held
  <2>5. QED
    BY <2>2, <2>3, <2>4
<1> HIDE DEF locals, r
<1>11. /\ IsSeq(r.stack) /\ Len(r.stack) = s + l
       /\ \A i \in 1..s : r.stack[i] = m.stack[i]
       /\ \A i \in 1..l : r.stack[s + i] = locals[i]
  <2>1. /\ IsSeq(m.stack \o locals) /\ Len(m.stack \o locals) = Len(m.stack) + Len(locals)
        /\ \A i \in 1..Len(m.stack) : (m.stack \o locals)[i] = m.stack[i]
        /\ \A i \in 1..Len(locals) : (m.stack \o locals)[Len(m.stack) + i] = locals[i]
    <3>1. IsSeq(m.stack) /\ IsSeq(locals)
      BY <1>2, <1>10
    <3> HIDE DEF locals
    <3>2. QED
      BY <3>1, SeqConcat
  <2>2. r.stack = m.stack \o locals /\ Len(locals) = l
    BY <1>9, <1>10
  <2>3. QED
    BY <2>1, <2>2
<1>12. /\ IsSeq(r.frames) /\ Len(r.frames) = n + 1 /\ r.frames[n + 1] = frame
       /\ \A g \in 1..n : r.frames[g] = m.frames[g]
  BY <1>2, <1>9, SeqAppend
<1>13. /\ DOMAIN frame = {"proto", "pc", "base", "upvalues"} /\ frame.proto + 1 = q
       /\ frame.pc = 1 /\ frame.base = s /\ frame.upvalues = f[2][2]
  BY DEF q
<1> HIDE DEF frame
<1>14. DataSound(r)
  <2>1. \A i \in 1..s : HeldSlot(m, m.stack[i])
    BY <1>1 DEF DataSound, StackSound, HeldSlot
  <2>2. ASSUME NEW i \in 1..s + l PROVE HeldSlot(m, r.stack[i])
    <3>1. CASE i \in 1..s
      BY <1>11, <2>1, <3>1
    <3>2. CASE i \notin 1..s
      <4>1. i - s \in 1..l /\ s + (i - s) = i
        BY <1>1, <1>4, <3>2
      <4>2. r.stack[i] = locals[i - s]
        BY <1>11, <4>1
      <4>3. QED
        BY <1>10, <4>1, <4>2
    <3>3. QED
      BY <3>1, <3>2
  <2>3. StackSound(r)
    BY <1>8, <1>9, <1>11, <2>2 DEF StackSound, HeldSlot
  <2>4. Good(r) /\ HeapSound(r) /\ AllValues(r.cells, Len(r.heap), Len(r.cells))
    BY <1>6, <1>8, <1>9, <1>12 DEF DataSound, Good, HeapSound
  <2>5. IsValue(r.error, Len(r.heap), Len(r.cells))
    BY <1>6, <1>8, <1>9 DEF DataSound
  <2>6. QED
    BY <2>3, <2>4, <2>5 DEF DataSound
<1>15. /\ TopOf(r, n + 1) = s + l
       /\ \A g \in 1..n : TopOf(r, g) = TopOf(m, g) /\ ProtoOf(r, g) = ProtoOf(m, g)
                           /\ Height(r, g) = Height(m, g)
  <2>1. TopOf(r, n + 1) = s + l
    BY <1>11, <1>12 DEF TopOf
  <2>2. ASSUME NEW g \in 1..n
        PROVE  TopOf(r, g) = TopOf(m, g) /\ ProtoOf(r, g) = ProtoOf(m, g)
               /\ Height(r, g) = Height(m, g)
    <3>1. g # n + 1 /\ (g # n => g + 1 \in 1..n)
      BY <1>1
    <3>2. TopOf(r, g) = r.frames[g + 1].base
      BY <1>12, <3>1 DEF TopOf
    <3>3. TopOf(r, g) = TopOf(m, g)
      BY <1>1, <1>12, <1>13, <3>1, <3>2 DEF TopOf
    <3>4. ProtoOf(r, g) = ProtoOf(m, g)
      BY <1>12 DEF ProtoOf
    <3>5. QED
      BY <1>12, <3>3, <3>4 DEF Height
  <2>3. QED
    BY <2>1, <2>2
<1>16. ASSUME NEW g \in 1..n PROVE FrameOk(r, g)
  <2>1. FrameOk(m, g)
    BY DEF Mid, Shaped
  <2>2. /\ m.frames[g].base \in Nat /\ ProtoOf(m, g).localCount \in Nat
        /\ m.frames[g].base + ProtoOf(m, g).localCount <= TopOf(m, g) /\ TopOf(m, g) \in Nat
        /\ TopOf(m, g) <= s
    BY FrameFacts, BasesRise
  <2>3. \A i \in 1..ProtoOf(m, g).localCount : m.frames[g].base + i \in 1..s
    BY <1>1, <2>2
  <2>4. \A i \in 1..ProtoOf(m, g).localCount : ~IsHandle(r.stack[m.frames[g].base + i])
    BY <1>11, <2>1, <2>3 DEF FrameOk
  <2>5. r.frames[g] = m.frames[g] /\ TopOf(r, g) = TopOf(m, g) /\ ProtoOf(r, g) = ProtoOf(m, g)
    BY <1>12, <1>15
  <2>6. QED
    BY <1>9, <2>1, <2>4, <2>5 DEF FrameOk
<1>17. FrameOk(r, n + 1)
  <2>1. ProtoOf(r, n + 1) = program[q]
    BY <1>12, <1>13 DEF ProtoOf
  <2>2. 1 \in 1..Len(program[q].code) + 1
    BY <1>4
  <2>3. s + l <= TopOf(r, n + 1)
    BY <1>1, <1>4, <1>15
  <2>4. \A i \in 1..l : ~IsHandle(r.stack[s + i])
    BY <1>10, <1>11
  <2>5. /\ DOMAIN r.frames[n + 1] = {"proto", "pc", "base", "upvalues"}
        /\ r.frames[n + 1].proto + 1 \in DOMAIN program
        /\ r.frames[n + 1].pc = 1 /\ r.frames[n + 1].base = s /\ r.frames[n + 1].upvalues = f[2][2]
    BY <1>3, <1>12, <1>13
  <2>6. ProtoOf(r, n + 1).localCount = l
    BY <2>1 DEF l
  <2>7. QED
    BY <1>1, <1>3, <1>9, <2>1, <2>2, <2>3, <2>4, <2>5, <2>6 DEF FrameOk
<1>18. ASSUME NEW i \in 1..Len(m.inner) PROVE EntryOk(r, i)
  <2>1. EntryOk(m, i) /\ m.inner[i].frameLen \in 1..n
    BY <1>1 DEF Mid, Shaped
  <2>2. m.inner[i].frameLen \in 1..Len(r.frames)
    BY <1>1, <1>12, <2>1
  <2>3. TopOf(r, m.inner[i].frameLen) = TopOf(m, m.inner[i].frameLen)
    BY <1>15, <2>1
  <2>4. m.inner[i].kind = "sort" => SortOk(r, m.inner[i])
    BY <1>8, <1>9, <2>1 DEF EntryOk, SortOk
  <2>5. QED
    BY <1>9, <2>1, <2>2, <2>3, <2>4 DEF EntryOk
<1>19. ASSUME NEW g \in 1..n PROVE FoundAt(r, g, Height(r, g) + Awaits(r, g))
  <2>1. Awaits(r, g) = Awaits(m, g) /\ Waits(r, g) = Waits(m, g)
    BY <1>9 DEF Awaits, Waits
  <2>2. FoundAt(m, g, Height(m, g) + Awaits(m, g))
    <3>1. CASE g # n \/ Waits(m, g)
      <4>1. g < n \/ Waits(m, g)
        BY <1>1, <3>1
      <4>2. QED
        BY <4>1 DEF Mid, Shaped
    <3>2. CASE g = n /\ ~Waits(m, g)
      <4>1. Awaits(m, g) = 1
        BY <3>2 DEF Awaits, Waits
      <4>2. QED
        BY <3>2, <4>1
    <3>3. QED
      BY <3>1, <3>2
  <2>3. QED
    BY <1>12, <1>15, <2>1, <2>2 DEF FoundAt
<1>20. ~Waits(r, n + 1)
  <2>1. \A i \in 1..Len(m.inner) : m.inner[i].frameLen # n + 1
    BY <1>1
  <2>2. QED
    BY <1>9, <2>1 DEF Waits
<1>21. \A g \in 1..n + 1 : g \in 1..n \/ g = n + 1
  BY <1>1
<1>22. Mid(r)
  <2>1. \A g \in 1..Len(r.frames) : FrameOk(r, g)
    BY <1>12, <1>16, <1>17, <1>21
  <2>2. \A i \in 1..Len(r.inner) : EntryOk(r, i)
    BY <1>9, <1>18
  <2>3. ASSUME NEW g \in 1..Len(r.frames), g < Len(r.frames) \/ Waits(r, g)
        PROVE  FoundAt(r, g, Height(r, g) + Awaits(r, g))
    <3>1. g # n + 1
      BY <1>1, <1>12, <1>20, <2>3
    <3>2. g \in 1..n
      BY <1>12, <1>21, <3>1
    <3>3. QED
      BY <1>19, <3>2
  <2>4. QED
    BY <1>14, <2>1, <2>2, <2>3 DEF Mid, Shaped
<1>23. Done(r)
  <2>1. Height(r, n + 1) = 0
    <3>1. ProtoOf(r, n + 1).localCount = l /\ r.frames[n + 1].base = s
      BY <1>12, <1>13 DEF ProtoOf, l
    <3>2. QED
      BY <1>1, <1>4, <1>15, <3>1 DEF Height
  <2>2. <<1, 0>> \in depths[q]
    BY <1>4 DEF Balanced
  <2>3. FoundAt(r, n + 1, Height(r, n + 1))
    BY <1>12, <1>13, <2>1, <2>2 DEF FoundAt
  <2>4. r.frames # << >>
    BY <1>1, <1>12
  <2>5. QED
    BY <1>12, <1>20, <2>3, <2>4 DEF Done
<1>24. Sound(r) /\ (paid.fault # "none" => Sound(paid))
  BY <1>7, <1>22, <1>23 DEF Sound
<1>25. Keeps(m, r) /\ Keeps(m, paid)
  BY <1>8, <1>9, <1>11, <1>12, KeepsMore, KeepsSame DEF IsPcall
<1>26. QED
  BY <1>5, <1>24, <1>25, KeepsLands

-----------------------------------------------------------------------------
(* A function inside the instruction of the innermost frame: a pcall, or a *)
(* sort, which may be what a pcall runs.                                   *)

LEMMA WriteBackSame ==
  ASSUME NEW m, DataSound(m), NEW a \in 1..Len(m.heap), NEW array, HeldAll(m, array)
  PROVE  Same(m, WriteBack(m, a, array))
<1> DEFINE T == Len(m.heap)
           C == Len(m.cells)
           after[i \in 0..Len(array)] ==
             IF i = 0 THEN Meter(m, a) ELSE SetRaw(after[i - 1], IntKey(i), array[i])
<1>1. WriteBack(m, a, array) = Metered(m, a, after[Len(array)])
  BY DEF WriteBack, OnTable, Metered, Meter
<1>2. IsMetered(Meter(m, a), T, C) /\ AllValues(array, T, C)
  BY MeterIsMetered DEF HeldAll
<1>3. Metes(Meter(m, a), after[Len(array)], T, C)
  BY <1>2, PutMetes
<1> HIDE DEF after
<1>4. QED
  BY <1>1, <1>3, MeteredSame

Enters(m, e) ==
  LET n == Len(m.frames)
  IN  /\ e.kind \in {"pcall", "sort"} /\ e.frameLen = n /\ e.stackLen = Len(m.stack)
      /\ e.kind = "sort" => SortOk(m, e)
      /\ IF e.kind = "sort" /\ e.byPcall
           THEN /\ m.inner # << >> /\ Last(m.inner).kind = "pcall"
                /\ Last(m.inner).frameLen = n /\ FoundAt(m, n, Height(m, n) + 2)
         ELSE /\ ~Waits(m, n)
              /\ FoundAt(m, n, Height(m, n) + IF e.kind = "pcall" THEN 2 ELSE 1)

LEMMA EnterMid ==
  ASSUME ProgramVerified, NEW m, Mid(m), m.frames # << >>,
         NEW e, Enters(m, e),
         NEW r, DOMAIN r = Fields, r.stack = m.stack, r.frames = m.frames, r.heap = m.heap,
         r.cells = m.cells, r.error = m.error, r.inner = Append(m.inner, e)
  PROVE  Mid(r) /\ r.inner # << >> /\ Last(r.inner) = e /\ Keeps(m, r)
<1> DEFINE n == Len(m.frames)
           p == Len(m.inner)
<1>1. /\ e.kind \in {"pcall", "sort"} /\ e.frameLen = n /\ e.stackLen = Len(m.stack)
      /\ e.kind = "sort" => SortOk(m, e)
      /\ e.kind = "sort" /\ e.byPcall =>
           /\ m.inner # << >> /\ Last(m.inner).kind = "pcall"
           /\ Last(m.inner).frameLen = n /\ FoundAt(m, n, Height(m, n) + 2)
      /\ ~(e.kind = "sort" /\ e.byPcall) =>
           ~Waits(m, n) /\ FoundAt(m, n, Height(m, n) + IF e.kind = "pcall" THEN 2 ELSE 1)
  BY DEF Enters
<1>2. /\ DataSound(m) /\ n \in 1..n /\ n \in Nat /\ TopOf(m, n) = Len(m.stack) /\ p \in Nat
      /\ \A i \in 1..p : m.inner[i].frameLen \in 1..n
  BY TopFacts DEF Mid
<1>3. IsSeq(m.inner)
  BY <1>2, SizesOf
<1>4. /\ IsSeq(r.inner) /\ Len(r.inner) = p + 1 /\ r.inner[p + 1] = e
      /\ \A i \in 1..p : r.inner[i] = m.inner[i]
  BY <1>3, SeqAppend
<1>5. r.inner # << >> /\ Last(r.inner) = e
  BY <1>2, <1>4 DEF Last
<1>6. DataSound(r)
  BY <1>2, <1>4 DEF DataSound, Good, StackSound, HeapSound
<1>7. ASSUME NEW f
      PROVE  /\ TopOf(r, f) = TopOf(m, f) /\ ProtoOf(r, f) = ProtoOf(m, f)
             /\ Height(r, f) = Height(m, f)
  BY DEF TopOf, ProtoOf, Height
<1>8. \A i \in 1..p + 1 : i \in 1..p \/ i = p + 1
  BY <1>2
<1>9. \A f \in 1..n : FrameOk(r, f)
  BY <1>7 DEF Mid, Shaped, FrameOk
<1>10. ASSUME NEW i \in 1..p PROVE EntryOk(r, i)
  <2>1. EntryOk(m, i) /\ i - 1 \in Int /\ (i > 1 => i - 1 \in 1..p)
    BY <1>2 DEF Mid, Shaped
  <2>2. r.inner[i] = m.inner[i] /\ (i > 1 => r.inner[i - 1] = m.inner[i - 1])
    BY <1>4, <2>1
  <2>3. m.inner[i].kind = "sort" => SortOk(r, m.inner[i])
    BY <2>1 DEF EntryOk, SortOk
  <2>4. QED
    BY <1>7, <2>1, <2>2, <2>3 DEF EntryOk
<1>11. p + 1 > 1 => /\ (p + 1) - 1 = p /\ p \in 1..p /\ Last(m.inner) = m.inner[p]
                    /\ r.inner[(p + 1) - 1] = m.inner[p]
  BY <1>2, <1>4 DEF Last
<1>12. EntryOk(r, p + 1)
  <2>1. e.kind = "sort" => SortOk(r, e)
    BY <1>1 DEF SortOk
  <2>2. e.frameLen \in 1..n /\ e.stackLen = TopOf(r, e.frameLen)
    BY <1>1, <1>2, <1>7
  <2>3. CASE e.kind = "sort" /\ e.byPcall
    <3>1. m.inner # << >> /\ Last(m.inner).kind = "pcall" /\ Last(m.inner).frameLen = e.frameLen
      BY <1>1, <2>3
    <3>2. p >= 1
      BY <1>3, <3>1, SeqFront
    <3>3. p + 1 > 1
      BY <1>2, <3>2
    <3>4. QED
      BY <1>4, <1>11, <2>1, <2>2, <2>3, <3>1, <3>3 DEF EntryOk
  <2>4. CASE ~(e.kind = "sort" /\ e.byPcall)
    <3>1. ASSUME p + 1 > 1 PROVE m.inner[p].frameLen < e.frameLen
      <4>1. m.inner[p].frameLen # n
        BY <1>1, <1>11, <2>4, <3>1 DEF Waits
      <4>2. m.inner[p].frameLen \in 1..n
        BY <1>2, <1>11, <3>1
      <4>3. QED
        BY <1>1, <1>2, <4>1, <4>2
    <3>2. QED
      BY <1>1, <1>4, <1>11, <2>1, <2>2, <2>4, <3>1 DEF EntryOk
  <2>5. QED
    BY <2>3, <2>4
<1>13. ASSUME NEW f \in 1..n, f < n \/ Waits(r, f)
       PROVE  FoundAt(r, f, Height(r, f) + Awaits(r, f))
  <2>1. CASE f # n
    <3>1. f < n
      BY <1>2, <2>1
    <3>2. FoundAt(m, f, Height(m, f) + Awaits(m, f))
      BY <3>1 DEF Mid, Shaped
    <3>3. Awaits(r, f) = Awaits(m, f)
      BY <1>1, <1>4, <1>8, <2>1 DEF Awaits
    <3>4. QED
      BY <1>7, <3>2, <3>3 DEF FoundAt
  <2>2. CASE f = n /\ e.kind = "sort" /\ e.byPcall
    <3>1. m.inner # << >> /\ Last(m.inner).kind = "pcall" /\ Last(m.inner).frameLen = n
          /\ FoundAt(m, n, Height(m, n) + 2)
      BY <1>1, <2>2
    <3>2. p >= 1
      BY <1>3, <3>1, SeqFront
    <3>3. p + 1 > 1
      BY <1>2, <3>2
    <3>4. p \in 1..Len(r.inner) /\ r.inner[p].frameLen = n /\ r.inner[p].kind = "pcall"
      BY <1>2, <1>4, <1>11, <3>1, <3>3
    <3>5. Awaits(r, n) = 2
      BY <3>4 DEF Awaits
    <3>6. QED
      BY <1>7, <2>2, <3>1, <3>5 DEF FoundAt
  <2>3. CASE f = n /\ ~(e.kind = "sort" /\ e.byPcall)
    <3>1. ~Waits(m, n)
      BY <1>1, <2>3
    <3>2. \A i \in 1..p : r.inner[i].frameLen # n
      BY <1>4, <3>1 DEF Waits
    <3>3. p + 1 \in 1..p + 1
      BY <1>2
    <3>4. Awaits(r, n) = IF e.kind = "pcall" THEN 2 ELSE 1
      <4>1. CASE e.kind = "pcall"
        BY <1>1, <1>4, <3>3, <4>1 DEF Awaits
      <4>2. CASE e.kind # "pcall"
        BY <1>4, <1>8, <3>2, <4>2 DEF Awaits
      <4>3. QED
        BY <4>1, <4>2
    <3>5. FoundAt(m, n, Height(m, n) + IF e.kind = "pcall" THEN 2 ELSE 1)
      BY <1>1, <2>3
    <3>6. QED
      BY <1>7, <2>3, <3>4, <3>5 DEF FoundAt
  <2>4. QED
    BY <2>1, <2>2, <2>3
<1>14. \A i \in 1..Len(r.inner) : EntryOk(r, i)
  BY <1>4, <1>8, <1>10, <1>12
<1>15. Keeps(m, r)
  <2>1. \A i \in 1..p : i \in 1..Len(r.inner)
    BY <1>2, <1>4
  <2>2. QED
    BY <1>4, <2>1, KeepsMore DEF IsPcall
<1>16. QED
  BY <1>5, <1>6, <1>9, <1>13, <1>14, <1>15 DEF Mid, Shaped

(* A sort whose comparator is waited for, or is to be called. *)
SortReady(m) ==
  /\ Mid(m) /\ m.frames # << >> /\ m.inner # << >>
  /\ Last(m.inner).kind = "sort" /\ Last(m.inner).frameLen = Len(m.frames)

LEMMA SortLeaves ==
  ASSUME ProgramVerified, NEW m, SortReady(m)
  PROVE  /\ Last(m.inner).byPcall \in BOOLEAN
         /\ Ready(LeaveInner(m), Last(m.inner).byPcall)
         /\ LeaveInner(m).heap = m.heap /\ LeaveInner(m).cells = m.cells
         /\ Keeps(m, LeaveInner(m))
<1> DEFINE n == Len(m.frames)
           p == Len(m.inner)
           e == Last(m.inner)
           s == LeaveInner(m)
<1>1. /\ DataSound(m) /\ Mid(m) /\ m.frames # << >> /\ m.inner # << >>
      /\ e.kind = "sort" /\ e.frameLen = n
  BY DEF Mid, SortReady
<1>2. /\ n \in 1..n /\ Len(m.stack) \in Nat /\ Height(m, n) \in Nat
      /\ Len(m.heap) \in Nat /\ Len(m.cells) \in Nat /\ DOMAIN m = Fields
      /\ IsSeq(m.inner) /\ p \in Nat
  BY <1>1, TopFacts, SizesOf
<1>3. p >= 1 /\ e = m.inner[p]
  BY <1>1, <1>2, SeqFront
<1>4. p \in 1..p
  BY <1>2, <1>3
<1> HIDE DEF e
<1>5. EntryOk(m, p) /\ SortOk(m, e) /\ e.byPcall \in BOOLEAN
  BY <1>1, <1>3, <1>4 DEF Mid, Shaped, EntryOk, SortOk
<1>6. /\ DOMAIN s = Fields /\ s.stack = m.stack /\ s.frames = m.frames
      /\ s.inner = Front(m.inner) /\ s.heap = m.heap /\ s.cells = m.cells
      /\ s.error = m.error
  BY <1>2 DEF LeaveInner, Fields
<1> HIDE DEF s
<1>7. DataSound(s)
  <2>1. Good(s)
    BY <1>1, <1>2, <1>6, SeqFront DEF DataSound, Good
  <2>2. QED
    BY <1>1, <1>6, <2>1 DEF DataSound, StackSound, HeapSound
<1>8. /\ Len(s.heap) >= Len(m.heap) /\ Len(s.cells) >= Len(m.cells)
      /\ Len(m.stack) <= Len(s.stack)
  BY <1>2, <1>6
<1>9. Last(m.inner).frameLen = n
  BY <1>1 DEF e
<1>10. /\ Mid(s) /\ Height(s, n) = Len(s.stack) - Len(m.stack) + Height(m, n)
       /\ Len(s.inner) = p - 1 /\ \A i \in 1..p - 1 : s.inner[i] = m.inner[i]
  BY <1>1, <1>6, <1>7, <1>8, <1>9, LeftInner
<1>11. Height(s, n) = Height(m, n)
  BY <1>2, <1>6, <1>10
<1>12. FoundAt(m, n, Height(m, n) + Awaits(m, n))
  <2>1. Waits(m, n)
    BY <1>1, <1>3, <1>4 DEF Waits
  <2>2. QED
    BY <1>1, <1>2, <2>1 DEF Mid, Shaped
<1>13. ASSUME e.byPcall PROVE Ready(s, TRUE)
  <2>1. p > 1 /\ m.inner[p - 1].kind = "pcall" /\ m.inner[p - 1].frameLen = n
    BY <1>1, <1>3, <1>5, <1>13 DEF EntryOk
  <2>2. p - 1 \in 1..p /\ p - 1 \in 1..p - 1 /\ p - 1 \in Nat
    BY <1>2, <2>1
  <2>3. Awaits(m, n) = 2
    BY <2>1, <2>2 DEF Awaits
  <2>4. s.inner # << >> /\ Last(s.inner) = m.inner[p - 1]
    BY <1>10, <2>2 DEF Last
  <2>5. FoundAt(s, n, Height(s, n) + 2)
    BY <1>6, <1>11, <1>12, <2>3 DEF FoundAt
  <2>6. QED
    BY <1>1, <1>6, <1>10, <2>1, <2>4, <2>5 DEF Ready
<1>14. ASSUME ~e.byPcall PROVE Ready(s, FALSE)
  <2>1. \A i \in 1..p - 1 : m.inner[i].frameLen # n
    <3>1. ~(Last(m.inner).kind = "sort" /\ Last(m.inner).byPcall)
      BY <1>14 DEF e
    <3>2. QED
      BY <1>1, <1>9, <3>1, BelowPcall
  <2>2. \A i \in 1..p : i \in 1..p - 1 \/ i = p
    BY <1>2
  <2>3. Awaits(m, n) = 1
    BY <1>1, <1>3, <2>1, <2>2 DEF Awaits
  <2>4. ~Waits(s, n)
    BY <1>10, <2>1 DEF Waits
  <2>5. FoundAt(s, n, Height(s, n) + 1)
    BY <1>6, <1>11, <1>12, <2>3 DEF FoundAt
  <2>6. QED
    BY <1>1, <1>6, <1>10, <2>4, <2>5 DEF Ready
<1>15. Ready(s, e.byPcall)
  <2>1. CASE e.byPcall = TRUE
    BY <1>13, <2>1
  <2>2. CASE e.byPcall = FALSE
    BY <1>14, <2>2
  <2>3. QED
    BY <1>5, <2>1, <2>2
<1>16. Keeps(m, s)
  <2>1. ASSUME NEW i, IsPcall(m, i) PROVE i \in 1..Len(s.inner) /\ s.inner[i] = m.inner[i]
    <3>1. i \in 1..p /\ i # p
      BY <1>1, <1>3, <2>1 DEF IsPcall
    <3>2. i \in 1..p - 1
      BY <1>2, <3>1
    <3>3. QED
      BY <1>10, <3>2
  <2>2. QED
    BY <1>1, <1>6, <2>1, KeepsMore
<1>17. QED
  BY <1>5, <1>6, <1>15, <1>16 DEF e, s

LEMMA SortOnSound ==
  ASSUME ProgramVerified, NEW m, SortReady(m)
  PROVE  Lands(m, SortOn(m))
<1> DEFINE e == Last(m.inner)
           p == Len(m.inner)
           n == Len(m.frames)
           S == {e.array[i] : i \in DOMAIN e.array}
           r == MergeSort(e.array, e.answers)
           left == LeaveInner(m)
           w == WriteBack(left, e.table, r.array)
<1>1. /\ Mid(m) /\ DataSound(m) /\ m.frames # << >> /\ m.inner # << >>
      /\ e.kind = "sort" /\ e.frameLen = n
  BY DEF Mid, SortReady
<1>2. IsSeq(m.inner) /\ p \in Nat /\ Len(m.heap) \in Nat /\ n \in Nat
  BY <1>1, SizesOf
<1>3. p \in 1..p /\ e = m.inner[p]
  <2>1. p >= 1 /\ e = m.inner[p]
    BY <1>1, <1>2, SeqFront
  <2>2. QED
    BY <1>2, <2>1
<1>4. SortOk(m, e)
  BY <1>1, <1>3 DEF Mid, Shaped, EntryOk
<1>5. /\ e.byPcall \in BOOLEAN /\ Ready(left, e.byPcall) /\ left.heap = m.heap
      /\ left.cells = m.cells /\ Keeps(m, left)
  BY SortLeaves
<1>6. SortOn(m) = IF r.ask = << >> THEN Finish(w, e.byPcall, Nil)
                  ELSE IF ~IsKind(e.comp, FunctionKind) THEN TypeError(m)
                  ELSE PushCallFrame(m, e.comp, r.ask)
  BY DEF SortOn
<1> HIDE DEF e, left
<1>7. /\ AllValues(e.array, Len(m.heap), Len(m.cells)) /\ e.answers \in Seq(BOOLEAN)
      /\ e.table \in 1..Len(m.heap) /\ Held(m, e.comp)
  BY <1>4 DEF SortOk, Held
<1>8. e.array \in Seq(S) /\ e.array # << >>
  <2>1. IsSeq(e.array)
    BY <1>7 DEF AllValues
  <2>2. e.array \in Seq(S)
    BY <2>1 DEF IsSeq
  <2>3. Len(e.array) >= 1
    BY <1>4 DEF SortOk
  <2>4. QED
    BY <2>2, <2>3
<1>9. \A x \in S : Held(m, x)
  BY <1>7, SeqFacts DEF AllValues, Held
<1>10. r.array \in Seq(S) /\ (r.ask = << >> \/ \E x, y \in S : r.ask = <<x, y>>)
  <2> HIDE DEF S
  <2>1. QED
    BY <1>7, <1>8, MergeSortOutcome
<1>11. HeldAll(m, r.array)
  BY <1>7, <1>10, ValuesFrom DEF HeldAll
<1> HIDE DEF r, S
<1>12. CASE r.ask = << >>
  <2>1. Mid(left) /\ DataSound(left)
    BY <1>5 DEF Ready, Mid
  <2>2. HeldAll(left, r.array) /\ e.table \in 1..Len(left.heap)
    BY <1>5, <1>7, <1>11 DEF HeldAll
  <2>3. Same(left, w)
    BY <2>1, <2>2, WriteBackSame
  <2> HIDE DEF w
  <2>4. Ready(w, e.byPcall)
    <3>1. CASE e.byPcall = TRUE
      BY <1>5, <2>3, <3>1, ReadySame
    <3>2. CASE e.byPcall = FALSE
      BY <1>5, <2>3, <3>2, ReadySame
    <3>3. QED
      BY <1>5, <3>1, <3>2
  <2>5. Held(w, Nil)
    BY PlainValues, PlainHeld
  <2>6. Lands(m, Finish(w, e.byPcall, Nil))
    <3>1. Lands(w, Finish(w, e.byPcall, Nil))
      BY <1>5, <2>4, <2>5, FinishSound
    <3>2. Keeps(left, w)
      BY <2>1, <2>3, KeepsSame DEF Same
    <3>3. QED
      BY <1>5, <3>1, <3>2, KeepsThen
  <2>7. SortOn(m) = Finish(w, e.byPcall, Nil)
    BY <1>6, <1>12
  <2>8. QED
    BY <2>6, <2>7
<1>13. CASE r.ask # << >> /\ ~IsKind(e.comp, FunctionKind)
  <2>1. Same(m, TypeError(m)) /\ TypeError(m).fault # "none"
    BY <1>1, RaiseText
  <2>2. Mid(TypeError(m))
    BY <1>1, <2>1, SameMid
  <2>3. Sound(TypeError(m)) /\ Keeps(m, TypeError(m))
    BY <1>1, <2>1, <2>2, KeepsSame DEF Sound, Same
  <2>4. QED
    BY <1>6, <1>13, <2>3, KeepsLands
<1>14. CASE r.ask # << >> /\ IsKind(e.comp, FunctionKind)
  <2>1. PICK x \in S, y \in S : r.ask = <<x, y>>
    BY <1>10, <1>14
  <2>2. /\ IsSeq(r.ask) /\ Len(r.ask) = 2 /\ r.ask[1] = x /\ r.ask[2] = y
    BY <2>1, SeqPair
  <2>3. HeldAll(m, r.ask)
    <3>1. \A i \in 1..2 : i = 1 \/ i = 2
      OBVIOUS
    <3>2. Held(m, x) /\ Held(m, y)
      BY <1>9
    <3>3. QED
      BY <2>2, <3>1, <3>2 DEF HeldAll, AllValues, Held
  <2>4. Waits(m, n)
    BY <1>1, <1>3 DEF Waits
  <2>5. Lands(m, PushCallFrame(m, e.comp, r.ask))
    BY <1>1, <1>7, <1>14, <2>3, <2>4, CallSound
  <2>6. QED
    BY <1>6, <1>14, <2>5
<1>15. QED
  BY <1>12, <1>13, <1>14

LEMMA TableSortSound ==
  ASSUME ProgramVerified, NEW m, NEW b \in BOOLEAN, Ready(m, b), NEW args, HeldAll(m, args)
  PROVE  Lands(m, TableSort(m, args, b))
<1> DEFINE a     == args[1][2]
           array == m.heap[a].array
           paid  == Charge(m, SortGas(Len(array)))
           entry == [kind |-> "sort", stackLen |-> Len(m.stack), frameLen |-> Len(m.frames),
                     table |-> a, array |-> array, comp |-> args[2],
                     answers |-> << >>, byPcall |-> b]
           r     == [paid EXCEPT !.inner = Append(@, entry)]
           sorted == SortedSeq(array)
           w     == WriteBack(paid, a, sorted)
           n     == Len(m.frames)
<1>1. Mid(m) /\ DataSound(m) /\ m.frames # << >> /\ IsSeq(args)
  BY DEF Ready, Mid, HeldAll, AllValues
<1>2. Same(m, TypeError(m)) /\ TypeError(m).fault # "none"
  BY <1>1, RaiseText
<1>3. Lands(m, TypeError(m))
  BY <1>2, ReadyFaulted
<1>4. CASE args = << >> \/ ~IsKind(args[1], TableKind)
  BY <1>3, <1>4 DEF TableSort
<1>5. CASE ~(args = << >> \/ ~IsKind(args[1], TableKind))
  <2>1. Len(args) >= 1 /\ Len(args) \in Nat
    BY <1>1, <1>5, SeqFront, SeqFacts
  <2>2. \A i \in 1..Len(args) : Held(m, args[i])
    BY DEF HeldAll, AllValues, Held
  <2>3. 1 \in 1..Len(args)
    BY <2>1
  <2>4. Held(m, args[1])
    BY <2>2, <2>3
  <2>5. a \in 1..Len(m.heap) /\ IsTable(m.heap[a], Len(m.heap), Len(m.cells))
    BY <1>1, <1>5, <2>4, HeldTable
  <2>6. HeldAll(m, array) /\ Len(array) \in Nat
    BY <2>5, SeqFacts DEF IsTable, HeldAll, AllValues
  <2>7. Lands(m, Finish(m, b, Nil))
    BY PlainValues, PlainHeld, FinishSound
  <2>8. TableSort(m, args, b) \in {Finish(m, b, Nil), TypeError(paid), Finish(w, b, Nil)}
        \/ /\ Len(args) > 1 /\ ~(Len(array) <= 1)
           /\ TableSort(m, args, b) = IF paid.fault # "none" THEN paid ELSE SortOn(r)
    BY <1>5 DEF TableSort
  <2>9. Same(m, paid)
    BY <1>1, ChargeSame
  <2> HIDE DEF paid
  <2>10. Ready(paid, b) /\ Mid(paid) /\ DataSound(paid)
    <3>1. CASE b = TRUE
      BY <2>9, <3>1, ReadySame DEF Ready, Mid
    <3>2. CASE b = FALSE
      BY <2>9, <3>2, ReadySame DEF Ready, Mid
    <3>3. QED
      BY <3>1, <3>2
  <2>11. Keeps(m, paid)
    BY <1>1, <2>9, KeepsSame DEF Same
  <2>12. Lands(m, TypeError(paid))
    <3>1. Same(paid, TypeError(paid)) /\ TypeError(paid).fault # "none"
      BY <2>10, RaiseText
    <3>2. Lands(paid, TypeError(paid))
      BY <2>10, <3>1, ReadyFaulted
    <3>3. QED
      BY <2>11, <3>2, KeepsThen
  <2>13. /\ Len(paid.heap) = Len(m.heap) /\ paid.cells = m.cells /\ paid.stack = m.stack
         /\ paid.frames = m.frames /\ paid.inner = m.inner
    BY <2>9 DEF Same
  <2>14. HeldAll(paid, array) /\ a \in 1..Len(paid.heap)
    BY <2>5, <2>6, <2>13 DEF HeldAll
  <2> HIDE DEF a, array
  <2>15. Lands(m, Finish(w, b, Nil))
    <3>1. HeldAll(paid, sorted)
      BY <2>14, SortedValues DEF HeldAll
    <3> HIDE DEF sorted
    <3>2. Same(paid, w)
      BY <2>10, <2>14, <3>1, WriteBackSame
    <3> HIDE DEF w
    <3>3. Ready(w, b)
      BY <2>10, <3>2, ReadySame
    <3>4. Lands(w, Finish(w, b, Nil))
      BY <3>3, PlainValues, PlainHeld, FinishSound
    <3>5. Keeps(paid, w)
      BY <2>10, <3>2, KeepsSame DEF Same
    <3>6. QED
      BY <2>11, <3>4, <3>5, KeepsThen
  <2>16. ASSUME Len(args) > 1, ~(Len(array) <= 1), paid.fault = "none" PROVE Lands(m, SortOn(r))
    <3>1. /\ DOMAIN r = Fields /\ r.stack = paid.stack /\ r.frames = paid.frames
          /\ r.heap = paid.heap /\ r.cells = paid.cells /\ r.error = paid.error
          /\ r.inner = Append(paid.inner, entry)
      BY <2>10, SizesOf DEF Fields
    <3>2. /\ entry.kind = "sort" /\ entry.frameLen = n /\ entry.stackLen = Len(m.stack)
          /\ entry.byPcall = b
          /\ DOMAIN entry = {"kind", "stackLen", "frameLen", "table", "array", "comp",
                             "answers", "byPcall"}
          /\ entry.table = a /\ entry.array = array /\ entry.comp = args[2]
          /\ entry.answers = << >>
      OBVIOUS
    <3> HIDE DEF r, entry
    <3>3. SortOk(paid, entry)
      <4>1. 2 \in 1..Len(args)
        BY <2>1, <2>16
      <4>2. Held(m, args[2])
        BY <2>2, <4>1
      <4>3. IsValue(entry.comp, Len(paid.heap), Len(paid.cells))
        BY <2>13, <3>2, <4>2 DEF Held
      <4>4. entry.answers \in Seq(BOOLEAN)
        BY <3>2
      <4>5. AllValues(entry.array, Len(paid.heap), Len(paid.cells)) /\ Len(entry.array) >= 1
        BY <2>6, <2>14, <2>16, <3>2 DEF HeldAll
      <4>6. QED
        BY <2>14, <3>2, <4>3, <4>4, <4>5 DEF SortOk
    <3>4. Mid(r) /\ r.inner # << >> /\ Last(r.inner) = entry /\ Keeps(paid, r)
      <4>1. CASE b = TRUE
        <5>1. /\ paid.inner # << >> /\ Last(paid.inner).kind = "pcall"
              /\ Last(paid.inner).frameLen = Len(paid.frames)
              /\ FoundAt(paid, Len(paid.frames), Height(paid, Len(paid.frames)) + 2)
          BY <2>10, <4>1 DEF Ready
        <5>2. entry.kind = "sort" /\ entry.byPcall
          BY <3>2, <4>1
        <5>3. /\ entry.frameLen = Len(paid.frames) /\ entry.stackLen = Len(paid.stack)
              /\ entry.kind \in {"pcall", "sort"} /\ paid.frames # << >>
          BY <1>1, <2>13, <3>2
        <5>4. Enters(paid, entry)
          BY <3>3, <5>1, <5>2, <5>3 DEF Enters
        <5>5. Mid(paid) /\ paid.frames # << >>
          BY <2>10, <5>3
        <5>6. QED
          BY <3>1, <5>4, <5>5, EnterMid
      <4>2. CASE b = FALSE
        <5>1. /\ ~Waits(paid, Len(paid.frames))
              /\ FoundAt(paid, Len(paid.frames), Height(paid, Len(paid.frames)) + 1)
          BY <2>10, <4>2 DEF Ready
        <5>2. /\ ~(entry.kind = "sort" /\ entry.byPcall) /\ entry.kind # "pcall"
          BY <3>2, <4>2
        <5>3. /\ entry.frameLen = Len(paid.frames) /\ entry.stackLen = Len(paid.stack)
              /\ entry.kind \in {"pcall", "sort"} /\ paid.frames # << >>
          BY <1>1, <2>13, <3>2
        <5>4. Enters(paid, entry)
          BY <3>3, <5>1, <5>2, <5>3 DEF Enters
        <5>5. Mid(paid) /\ paid.frames # << >>
          BY <2>10, <5>3
        <5>6. QED
          BY <3>1, <5>4, <5>5, EnterMid
      <4>3. QED
        BY <4>1, <4>2
    <3>5. SortReady(r)
      BY <1>1, <2>13, <3>1, <3>2, <3>4 DEF SortReady
    <3>6. Lands(r, SortOn(r))
      BY <3>5, SortOnSound
    <3>7. QED
      BY <2>11, <3>4, <3>6, KeepsThen
  <2>17. ASSUME paid.fault # "none" PROVE Lands(m, paid)
    BY <2>10, <2>17, <2>11, KeepsLands DEF Sound
  <2> HIDE DEF w, r
  <2>18. QED
    BY <2>7, <2>8, <2>12, <2>15, <2>16, <2>17
<1>6. QED
  BY <1>4, <1>5

LEMMA CallBuiltinSound ==
  ASSUME ProgramVerified, NEW m, NEW byPcall \in BOOLEAN, Ready(m, byPcall),
         NEW args, HeldAll(m, args), NEW b
  PROVE  Lands(m, CallBuiltin(m, b, args, byPcall))
<1> DEFINE a == args[1][2]
           len == Length(m.heap[a])
           more == TableInsert(Meter(m, a), len + 1, args[2])
           less == TableRemove(Meter(m, a), len)
           inserted == Metered(m, a, more)
           removed  == Metered(m, a, less)
           HasTable == Len(args) >= 1 /\ IsKind(args[1], TableKind)
<1>1. Mid(m) /\ DataSound(m) /\ m.frames # << >> /\ IsSeq(args)
  BY DEF Ready, Mid, HeldAll, AllValues
<1>2. ASSUME NEW v, IsPlain(v) PROVE Lands(m, Finish(m, byPcall, v))
  BY <1>2, PlainHeld, FinishSound
<1>3. \A i \in 1..Len(args) : Held(m, args[i])
  BY DEF HeldAll, AllValues, Held
<1>4. Len(args) \in Nat
  BY <1>1, SeqFacts
<1>5. ASSUME HasTable
      PROVE  /\ a \in 1..Len(m.heap) /\ IsTable(m.heap[a], Len(m.heap), Len(m.cells))
             /\ \A k : Held(m, Get(m.heap[a], k))
             /\ IsMetered(Meter(m, a), Len(m.heap), Len(m.cells))
             /\ Meter(m, a).table = m.heap[a]
  <2>1. 1 \in 1..Len(args)
    BY <1>4, <1>5
  <2>2. Held(m, args[1])
    BY <1>3, <2>1
  <2>3. /\ a \in 1..Len(m.heap) /\ IsTable(m.heap[a], Len(m.heap), Len(m.cells))
        /\ \A k : Held(m, Get(m.heap[a], k))
    BY <1>1, <1>5, <2>2, HeldTable
  <2>4. IsMetered(Meter(m, a), Len(m.heap), Len(m.cells))
    BY <1>1, <2>3, MeterIsMetered
  <2>5. QED
    BY <2>3, <2>4 DEF Meter
<1>6. ASSUME HasTable, Len(args) >= 2 PROVE Lands(m, Finish(inserted, byPcall, Nil))
  <2>1. 2 \in 1..Len(args)
    BY <1>4, <1>6
  <2>2. IsValue(args[2], Len(m.heap), Len(m.cells))
    BY <1>3, <2>1 DEF Held
  <2>3. Metes(Meter(m, a), more, Len(m.heap), Len(m.cells))
    BY <1>5, <1>6, <2>2, InsertMetes
  <2> HIDE DEF more
  <2>4. Same(m, inserted)
    BY <1>1, <1>5, <1>6, <2>3, MeteredSame
  <2> HIDE DEF inserted
  <2>5. Ready(inserted, byPcall)
    BY <2>4, ReadySame
  <2>6. Lands(inserted, Finish(inserted, byPcall, Nil))
    BY <2>5, PlainValues, PlainHeld, FinishSound
  <2>7. Keeps(m, inserted)
    BY <1>1, <2>4, KeepsSame DEF Same
  <2>8. QED
    BY <2>6, <2>7, KeepsThen
<1>7. ASSUME HasTable, NEW k PROVE Lands(m, Finish(removed, byPcall, Get(m.heap[a], k)))
  <2>1. Metes(Meter(m, a), less, Len(m.heap), Len(m.cells))
    BY <1>5, <1>7, RemoveMetes
  <2> HIDE DEF less
  <2>2. Same(m, removed)
    BY <1>1, <1>5, <1>7, <2>1, MeteredSame
  <2> HIDE DEF removed
  <2>3. Ready(removed, byPcall)
    BY <2>2, ReadySame
  <2>4. Held(removed, Get(m.heap[a], k))
    BY <1>5, <1>7, <2>2, SameHeld
  <2>5. Lands(removed, Finish(removed, byPcall, Get(m.heap[a], k)))
    BY <2>3, <2>4, FinishSound
  <2>6. Keeps(m, removed)
    BY <1>1, <2>2, KeepsSame DEF Same
  <2>7. QED
    BY <2>5, <2>6, KeepsThen
<1>8. Lands(m, TableSort(m, args, byPcall))
  BY TableSortSound
<1>9. Lands(m, Raise(m, Text("bad argument")))
  <2>1. Same(m, Raise(m, Text("bad argument"))) /\ Raise(m, Text("bad argument")).fault # "none"
    BY <1>1, RaiseText
  <2>2. QED
    BY <2>1, ReadyFaulted
<1>10. \/ \E v : IsPlain(v) /\ CallBuiltin(m, b, args, byPcall) = Finish(m, byPcall, v)
       \/ /\ HasTable /\ Len(args) >= 2
          /\ CallBuiltin(m, b, args, byPcall) = Finish(inserted, byPcall, Nil)
       \/ /\ HasTable
          /\ \E k : CallBuiltin(m, b, args, byPcall) = Finish(removed, byPcall, Get(m.heap[a], k))
       \/ CallBuiltin(m, b, args, byPcall) = TableSort(m, args, byPcall)
       \/ CallBuiltin(m, b, args, byPcall) = Raise(m, Text("bad argument"))
  BY PlainValues DEF CallBuiltin, OnTable, Metered, Meter
<1> HIDE DEF inserted, removed, a, HasTable
<1>11. QED
  BY <1>2, <1>6, <1>7, <1>8, <1>9, <1>10

-----------------------------------------------------------------------------
(* Calls: what the arguments are taken off is ready for a result.          *)

(* A value popped off a state with the stack of vm. *)
LEMMA ArgHeld ==
  ASSUME InTurn, NEW n \in 0..Operands, NEW i \in 1..n,
         ~IsHandle(vm.stack[Len(vm.stack) + 1 - i])
  PROVE  Held(vm, Arg(i))
<1>1. /\ DataSound(vm) /\ Operands \in Nat /\ Len(vm.stack) \in Nat
      /\ Frame(vm).base \in Nat /\ Proto(vm).localCount \in Nat
      /\ Len(vm.stack) = Frame(vm).base + Proto(vm).localCount + Operands
  BY HereFacts, SizesOf DEF InTurn
<1>2. Len(vm.stack) + 1 - i \in 1..Len(vm.stack)
  BY <1>1
<1>3. HeldSlot(vm, vm.stack[Len(vm.stack) + 1 - i])
  BY <1>1, <1>2 DEF DataSound, StackSound, HeldSlot
<1>4. QED
  BY <1>1, <1>3, PlainSlot DEF Arg, Operand

LEMMA CalledFacts ==
  ASSUME InTurn, NEW n \in Nat, NEW g \in Nat, Move(n + 1, g, FALSE) \in Moves(Here),
         NEW paid, Same(Fetched, paid), NEW m, m = Pop(paid, n + 1)
  PROVE  /\ Mid(paid) /\ DataSound(paid) /\ Keeps(vm, paid)
         /\ paid.fault # "none" => Lands(vm, paid)
         /\ m.fault # "none" => Lands(vm, m)
         /\ m.fault = "none" =>
              /\ Work(m, Frame(vm).pc + 1, Operands - (n + 1))
              /\ Mid(m) /\ m.frames # << >> /\ ~Waits(m, Len(m.frames))
              /\ FoundAt(m, Len(m.frames), Height(m, Len(m.frames)) + g)
              /\ HeldAll(m, Args(n)) /\ Held(m, ResolveSentinel(Arg(n + 1)))
              /\ Keeps(vm, m)
<1> DEFINE mv == Move(n + 1, g, FALSE)
           q == Frame(vm).pc + 1
           L == Len(vm.frames)
           h == Operands - (n + 1)
<1>1. ProgramVerified /\ Sound(vm) /\ Running
  BY DEF InTurn
<1>2. /\ Turn(Fetched, q, Operands) /\ Fetched.stack = vm.stack
      /\ Fetched.heap = vm.heap /\ Fetched.cells = vm.cells
  BY FetchedFacts
<1>3. Turn(paid, q, Operands)
  BY <1>2, TurnSame
<1>4. /\ Mid(paid) /\ DataSound(paid) /\ (paid.fault # "none" => Lands(vm, paid))
      /\ Keeps(vm, paid)
  BY <1>1, <1>3, TurnMid, KeepsTurn DEF Mid
<1>5. n + 1 \in Nat /\ Operands \in Nat /\ n + 1 \in 0..Operands
  <2>1. n + 1 \in Nat
    OBVIOUS
  <2>2. QED
    BY <1>1, <2>1, Goes, HereFacts
<1>6. m.fault # "none" => Lands(vm, m)
  <2>1. PICK p, k : Turn(m, p, k)
    BY <1>1, <1>3, <1>5, PopFaulted
  <2>2. QED
    BY <1>1, <2>1, TurnMid
<1>7. ASSUME m.fault = "none"
      PROVE  /\ Work(m, q, h) /\ Mid(m) /\ m.frames # << >> /\ ~Waits(m, Len(m.frames))
             /\ FoundAt(m, Len(m.frames), Height(m, Len(m.frames)) + g)
             /\ HeldAll(m, Args(n)) /\ Held(m, ResolveSentinel(Arg(n + 1)))
             /\ Keeps(vm, m)
  <2>1. /\ Turn(m, q, h)
        /\ \A i \in 1..n + 1 : ~IsHandle(paid.stack[Len(paid.stack) + 1 - i])
    BY <1>1, <1>3, <1>5, <1>7, TurnPop
  <2>2. /\ Mid(m) /\ m.frames # << >> /\ DataSound(m) /\ Len(m.frames) = L /\ L \in 1..L
        /\ Height(m, L) = h /\ ~Waits(m, L)
        /\ Frame(m) = m.frames[L] /\ Frame(m).pc = q /\ Frame(m).proto = Frame(vm).proto
        /\ \A v : Held(vm, v) => Held(m, v)
    BY <1>1, <2>1, TurnFacts
  <2>3. paid.stack = vm.stack
    BY <1>2 DEF Same
  <2>4. ASSUME NEW i \in 1..n + 1 PROVE Held(m, Arg(i))
    <3>1. Held(vm, Arg(i))
      BY <1>5, <2>1, <2>3, ArgHeld
    <3>2. QED
      BY <2>2, <3>1
  <2>5. HeldAll(m, Args(n))
    <3> DEFINE args == Args(n)
    <3>1. args = [i \in 1..n |-> args[i]] /\ \A i \in 1..n : args[i] = Arg(n + 1 - i)
      BY DEF Args
    <3> HIDE DEF args
    <3>2. IsSeq(args) /\ Len(args) = n
      BY <3>1, SeqFrom
    <3>3. \A i \in 1..n : n + 1 - i \in 1..n + 1
      OBVIOUS
    <3>4. \A i \in 1..n : Held(m, args[i])
      BY <2>4, <3>1, <3>3
    <3>5. QED
      BY <3>2, <3>4 DEF HeldAll, AllValues, Held, args
  <2>6. Held(m, ResolveSentinel(Arg(n + 1)))
    <3>1. n + 1 \in 1..n + 1
      OBVIOUS
    <3>2. QED
      BY <2>2, <2>4, <3>1, ResolveHeld
  <2>7. FoundAt(m, L, Height(m, L) + g)
    <3>1. mv.takes = n + 1 /\ mv.gives = g /\ mv.jumps = FALSE
      BY DEF Move
    <3> HIDE DEF mv
    <3>2. <<Landing(mv), Left(mv)>> \in depths[Frame(vm).proto + 1]
      BY MoveLands DEF mv
    <3>3. Landing(mv) = q /\ Left(mv) = h + g
      BY <3>1 DEF Landing, Left
    <3>4. QED
      BY <2>2, <3>2, <3>3 DEF FoundAt
  <2>8. Work(m, q, h) /\ Keeps(vm, m)
    BY <1>1, <2>1, WorkIs, KeepsTurn
  <2>9. QED
    BY <2>2, <2>5, <2>6, <2>7, <2>8
<1>8. QED
  BY <1>4, <1>6, <1>7

LEMMA ChargedFetched ==
  ASSUME InTurn, NEW c
  PROVE  Same(Fetched, Charge(Fetched, c))
<1>1. DataSound(Fetched)
  BY FetchedFacts DEF Turn, Moved
<1>2. QED
  BY <1>1, ChargeSame

LEMMA ExecCallSound ==
  ASSUME ProgramVerified, Sound(vm), ExecCall
  PROVE  Lands(vm, vm')
<1> DEFINE n    == Here.n
           paid == Charge(Fetched, FunctionCall)
           m    == Pop(paid, n + 1)
           f    == ResolveSentinel(Arg(n + 1))
           r    == IF paid.fault # "none" THEN paid
                   ELSE IF DepthExceeded(paid) THEN Raise(paid, Text("call depth exceeded"))
                   ELSE IF m.fault # "none" THEN m
                   ELSE CASE IsKind(f, BuiltinKind)  -> CallBuiltin(m, f[2], Args(n), FALSE)
                          [] IsKind(f, FunctionKind) -> PushCallFrame(m, f, Args(n))
                          [] OTHER -> Raise(m, Text("attempt to call"))
<1>1. Executing({"Call"}) /\ Becomes(r)
  BY DEF ExecCall
<1> HIDE DEF r
<1>2. InTurn /\ Here.op = "Call"
  BY <1>1, Begins
<1>3. Move(n + 1, 1, FALSE) \in Moves(Here) /\ n \in Nat /\ 1 \in Nat
  <2>1. Move(n + 1, 1, FALSE) \in Moves(Here)
    BY <1>2, MovesOf
  <2>2. n \in Nat
    BY <1>2, HereRefers DEF RefersRightly, Counted
  <2>3. QED
    BY <2>1, <2>2
<1>4. Same(Fetched, paid)
  BY <1>2, ChargedFetched
<1> HIDE DEF n, paid
<1>5. /\ Mid(paid) /\ DataSound(paid) /\ (paid.fault # "none" => Lands(vm, paid))
      /\ Keeps(vm, paid)
      /\ m.fault # "none" => Lands(vm, m)
      /\ m.fault = "none" =>
           /\ Mid(m) /\ m.frames # << >> /\ ~Waits(m, Len(m.frames))
           /\ FoundAt(m, Len(m.frames), Height(m, Len(m.frames)) + 1)
           /\ HeldAll(m, Args(n)) /\ Held(m, f) /\ Keeps(vm, m)
  BY <1>2, <1>3, <1>4, CalledFacts
<1>6. Lands(vm, Raise(paid, Text("call depth exceeded")))
  <2> DEFINE s == Raise(paid, Text("call depth exceeded"))
  <2>1. Same(paid, s) /\ s.fault # "none"
    BY <1>5, RaiseText
  <2>2. paid.frames # << >>
    BY <1>2, <1>4, FetchedFacts, TurnFacts DEF Same, InTurn
  <2> HIDE DEF s
  <2>3. Mid(s)
    BY <1>2, <1>5, <2>1, <2>2, SameMid DEF InTurn
  <2>4. Lands(vm, s)
    <3>1. Sound(s)
      BY <2>1, <2>3 DEF Sound
    <3>2. Keeps(paid, s)
      BY <1>2, <1>5, <2>1, KeepsSame DEF Same, InTurn
    <3>3. QED
      BY <1>5, <3>1, <3>2, KeepsThen, KeepsLands
  <2>5. QED
    BY <2>4 DEF s
<1> HIDE DEF m, f
<1>7. ASSUME m.fault = "none"
      PROVE  /\ Lands(vm, CallBuiltin(m, f[2], Args(n), FALSE))
             /\ IsKind(f, FunctionKind) => Lands(vm, PushCallFrame(m, f, Args(n)))
             /\ Lands(vm, Raise(m, Text("attempt to call")))
  <2>1. ProgramVerified /\ DataSound(m)
    BY <1>2, <1>5, <1>7 DEF InTurn, Mid
  <2>2. Ready(m, FALSE)
    BY <1>5, <1>7 DEF Ready
  <2>3. Lands(vm, CallBuiltin(m, f[2], Args(n), FALSE))
    <3>1. FALSE \in BOOLEAN
      OBVIOUS
    <3> DEFINE b == CallBuiltin(m, f[2], Args(n), FALSE)
    <3>2. Lands(m, b)
      BY <1>5, <1>7, <2>1, <2>2, <3>1, CallBuiltinSound
    <3> HIDE DEF b
    <3>3. Lands(vm, b)
      BY <1>5, <1>7, <3>2, KeepsThen
    <3>4. QED
      BY <3>3 DEF b
  <2>4. ASSUME IsKind(f, FunctionKind) PROVE Lands(vm, PushCallFrame(m, f, Args(n)))
    <3>1. Lands(m, PushCallFrame(m, f, Args(n)))
      BY <1>5, <1>7, <2>1, <2>4, CallSound
    <3>2. QED
      BY <1>5, <1>7, <3>1, KeepsThen
  <2>5. Lands(vm, Raise(m, Text("attempt to call")))
    <3>1. /\ Same(m, Raise(m, Text("attempt to call")))
          /\ Raise(m, Text("attempt to call")).fault # "none"
      BY <2>1, RaiseText
    <3>2. Lands(m, Raise(m, Text("attempt to call")))
      BY <2>1, <2>2, <3>1, ReadyFaulted
    <3>3. QED
      BY <1>5, <1>7, <3>2, KeepsThen
  <2>6. QED
    BY <2>3, <2>4, <2>5
<1>8. Lands(vm, r)
  BY <1>5, <1>6, <1>7 DEF r, m, f
<1>9. QED
  BY <1>1, <1>2, <1>8, BecomesLands DEF InTurn

(* A pcall, once it has its checkpoint. *)
LEMMA PcallReady ==
  ASSUME ProgramVerified, NEW m, Mid(m), m.frames # << >>, ~Waits(m, Len(m.frames)),
         FoundAt(m, Len(m.frames), Height(m, Len(m.frames)) + 2)
  PROVE  /\ Ready(PcallEntry(m), TRUE) /\ Waits(PcallEntry(m), Len(PcallEntry(m).frames))
         /\ \A v : Held(m, v) => Held(PcallEntry(m), v)
         /\ \A s : HeldAll(m, s) => HeldAll(PcallEntry(m), s)
         /\ Keeps(m, PcallEntry(m))
<1> DEFINE r == PcallEntry(m)
           e == Checkpoint(m)
           n == Len(m.frames)
<1>1. DOMAIN m = Fields /\ DataSound(m)
  BY SizesOf DEF Mid
<1>2. /\ DOMAIN r = Fields /\ r.stack = m.stack /\ r.frames = m.frames /\ r.heap = m.heap
      /\ r.cells = m.cells /\ r.error = m.error /\ r.inner = Append(m.inner, e)
  BY <1>1 DEF PcallEntry, Fields
<1>3. e.kind = "pcall" /\ e.frameLen = n /\ e.stackLen = Len(m.stack)
  BY DEF Checkpoint
<1> HIDE DEF r, e
<1>4. Enters(m, e)
  BY <1>3 DEF Enters
<1>5. Mid(r) /\ r.inner # << >> /\ Last(r.inner) = e /\ Keeps(m, r)
  BY <1>2, <1>4, EnterMid
<1>6. \A f : Height(r, f) = Height(m, f)
  BY <1>2 DEF Height, TopOf, ProtoOf
<1>7. FoundAt(r, n, Height(r, n) + 2)
  BY <1>2, <1>6 DEF FoundAt
<1>8. Ready(r, TRUE)
  BY <1>2, <1>3, <1>5, <1>7 DEF Ready
<1>9. Waits(r, n)
  <2>1. IsSeq(r.inner) /\ Len(r.inner) \in Nat
    BY <1>5, SizesOf DEF Mid
  <2>2. Len(r.inner) >= 1 /\ Last(r.inner) = r.inner[Len(r.inner)]
    BY <1>5, <2>1, SeqFront
  <2>3. Len(r.inner) \in 1..Len(r.inner)
    BY <2>1, <2>2
  <2>4. QED
    BY <1>3, <1>5, <2>2, <2>3 DEF Waits
<1>10. QED
  BY <1>2, <1>5, <1>8, <1>9 DEF Held, HeldAll, r

LEMMA ExecPCallSound ==
  ASSUME ProgramVerified, Sound(vm), ExecPCall
  PROVE  Lands(vm, vm')
<1> DEFINE n    == Here.n
           paid == Charge(Fetched, PcallSetup)
           m    == Pop(paid, n + 1)
           f    == ResolveSentinel(Arg(n + 1))
           failed(v) == Push(Push(m, FalseVal), v)
           r    == IF paid.fault # "none" THEN paid
                   ELSE IF m.fault # "none" THEN m
                   ELSE CASE IsKind(f, BuiltinKind) ->
                               CallBuiltin(PcallEntry(m), f[2], Args(n), TRUE)
                          [] ~IsKind(f, FunctionKind) /\ ~IsKind(f, BuiltinKind) ->
                               failed(Text("type error"))
                          [] OTHER -> IF DepthExceeded(m) THEN failed(Text("call depth exceeded"))
                                      ELSE PushCallFrame(PcallEntry(m), f, Args(n))
<1>1. Executing({"PCall"}) /\ Becomes(r)
  BY DEF ExecPCall
<1> HIDE DEF r
<1>2. InTurn /\ Here.op = "PCall"
  BY <1>1, Begins
<1>3. Move(n + 1, 2, FALSE) \in Moves(Here) /\ n \in Nat /\ 2 \in Nat
  <2>1. Move(n + 1, 2, FALSE) \in Moves(Here)
    BY <1>2, MovesOf
  <2>2. n \in Nat
    BY <1>2, HereRefers DEF RefersRightly, Counted
  <2>3. QED
    BY <2>1, <2>2
<1>4. Same(Fetched, paid)
  BY <1>2, ChargedFetched
<1> HIDE DEF n, paid
<1>5. /\ Mid(paid) /\ DataSound(paid) /\ (paid.fault # "none" => Lands(vm, paid))
      /\ m.fault # "none" => Lands(vm, m)
      /\ m.fault = "none" =>
           /\ Work(m, Frame(vm).pc + 1, Operands - (n + 1))
           /\ Mid(m) /\ m.frames # << >> /\ ~Waits(m, Len(m.frames))
           /\ FoundAt(m, Len(m.frames), Height(m, Len(m.frames)) + 2)
           /\ HeldAll(m, Args(n)) /\ Held(m, f) /\ Keeps(vm, m)
  BY <1>2, <1>3, <1>4, CalledFacts
<1> HIDE DEF m, f
<1>6. ASSUME m.fault = "none"
      PROVE  /\ Lands(vm, CallBuiltin(PcallEntry(m), f[2], Args(n), TRUE))
             /\ IsKind(f, FunctionKind) => Lands(vm, PushCallFrame(PcallEntry(m), f, Args(n)))
             /\ \A t : Lands(vm, failed(Text(t)))
  <2> DEFINE s == PcallEntry(m)
  <2>1. ProgramVerified /\ Sound(vm) /\ Running
    BY <1>2 DEF InTurn
  <2>2. /\ Ready(s, TRUE) /\ Waits(s, Len(s.frames)) /\ Held(s, f) /\ HeldAll(s, Args(n))
        /\ Keeps(m, s)
    BY <1>5, <1>6, <2>1, PcallReady
  <2> HIDE DEF s
  <2>3. Lands(vm, CallBuiltin(s, f[2], Args(n), TRUE))
    <3>1. TRUE \in BOOLEAN
      OBVIOUS
    <3> DEFINE b == CallBuiltin(s, f[2], Args(n), TRUE)
    <3>2. Lands(s, b)
      BY <2>1, <2>2, <3>1, CallBuiltinSound
    <3> HIDE DEF b
    <3>3. Lands(m, b)
      BY <2>2, <3>2, KeepsThen
    <3>4. Lands(vm, b)
      BY <1>5, <1>6, <3>3, KeepsThen
    <3>5. QED
      BY <3>4 DEF b
  <2>4. ASSUME IsKind(f, FunctionKind) PROVE Lands(vm, PushCallFrame(s, f, Args(n)))
    <3>1. Lands(s, PushCallFrame(s, f, Args(n)))
      BY <2>1, <2>2, <2>4, CallSound DEF Ready
    <3>2. QED
      BY <1>5, <1>6, <2>2, <3>1, KeepsThen
  <2>5. ASSUME NEW t PROVE Lands(vm, failed(Text(t)))
    <3> DEFINE p == Frame(vm).pc + 1
               h == Operands - (n + 1)
               one == Push(m, FalseVal)
    <3>1. Work(m, p, h)
      BY <1>5, <1>6
    <3>2. HeldSlot(m, FalseVal)
      BY PlainValues, PlainHeld
    <3>3. Work(one, p, h + 1)
      BY <2>1, <3>1, <3>2, WorkPush
    <3> HIDE DEF one
    <3>4. HeldSlot(one, Text(t))
      BY PlainValues, PlainHeld
    <3>5. Work(Push(one, Text(t)), p, (h + 1) + 1)
      BY <2>1, <3>3, <3>4, WorkPush
    <3>6. n + 1 \in Nat /\ Operands \in Nat
      BY <1>3, <2>1, HereFacts
    <3>7. (h + 1) + 1 = Operands - (n + 1) + 2
      BY <3>6
    <3>8. Work(Push(one, Text(t)), p, Operands - (n + 1) + 2)
      BY <3>5, <3>7
    <3>9. Lands(vm, Push(one, Text(t)))
      BY <1>2, <1>3, <3>6, <3>8, Goes
    <3>10. QED
      BY <3>9 DEF one
  <2>6. QED
    BY <2>3, <2>4, <2>5 DEF s
<1>7. Lands(vm, r)
  <2>1. CASE m.fault = "none"
    BY <1>5, <1>6, <2>1 DEF r, m, f
  <2>2. CASE m.fault # "none"
    BY <1>5, <2>2 DEF r, m, f
  <2>3. QED
    BY <2>1, <2>2
<1>8. QED
  BY <1>1, <1>2, <1>7, BecomesLands DEF InTurn

-----------------------------------------------------------------------------
(* Returns: the slots of the frame are gone, and what waited for its       *)
(* result goes on.                                                         *)

LEMMA AppendMember ==
  ASSUME NEW S, NEW s \in Seq(S), NEW x \in S
  PROVE  Append(s, x) \in Seq(S)
OBVIOUS

(* An answer of a comparator is remembered. *)
LEMMA AnswerReady ==
  ASSUME ProgramVerified, NEW m, SortReady(m), NEW b \in BOOLEAN,
         NEW r, r = [m EXCEPT !.inner[Len(m.inner)].answers = Append(@, b)]
  PROVE  SortReady(r) /\ Keeps(m, r)
<1> DEFINE n == Len(m.frames)
           p == Len(m.inner)
           e == m.inner[p]
           d == [e EXCEPT !.answers = Append(@, b)]
<1>1. /\ DataSound(m) /\ Mid(m) /\ m.frames # << >> /\ m.inner # << >> /\ DOMAIN m = Fields
      /\ IsSeq(m.inner) /\ p \in Nat /\ DOMAIN m.inner = 1..p
  BY SizesOf DEF SortReady, Mid
<1>2. p \in 1..p /\ e.kind = "sort" /\ e.frameLen = n
  <2>1. p >= 1 /\ Last(m.inner) = e
    BY <1>1, SeqFront
  <2>2. QED
    BY <1>1, <2>1 DEF SortReady
<1>3. EntryOk(m, p) /\ SortOk(m, e)
  BY <1>1, <1>2 DEF Mid, Shaped, EntryOk
<1>4. /\ DOMAIN r = Fields /\ r.stack = m.stack /\ r.frames = m.frames /\ r.heap = m.heap
      /\ r.cells = m.cells /\ r.error = m.error /\ r.inner = [m.inner EXCEPT ![p] = d]
  BY <1>1 DEF Fields
<1>5. /\ DOMAIN d = DOMAIN e /\ d.kind = e.kind /\ d.stackLen = e.stackLen
      /\ d.frameLen = e.frameLen /\ d.table = e.table /\ d.array = e.array
      /\ d.comp = e.comp /\ d.byPcall = e.byPcall /\ d.answers = Append(e.answers, b)
  BY <1>3 DEF SortOk
<1>6. Append(e.answers, b) \in Seq(BOOLEAN)
  <2>1. e.answers \in Seq(BOOLEAN)
    BY <1>3 DEF SortOk
  <2> HIDE DEF e
  <2>2. QED
    BY <2>1, AppendMember
<1>7. SortOk(m, d)
  BY <1>3, <1>5, <1>6 DEF SortOk
<1> HIDE DEF d
<1>8. /\ r.inner = [i \in 1..p |-> r.inner[i]] /\ r.inner[p] = d
      /\ \A i \in 1..p : i # p => r.inner[i] = m.inner[i]
  BY <1>1, <1>2, <1>4
<1> HIDE DEF e
<1>9. IsSeq(r.inner) /\ Len(r.inner) = p
  BY <1>1, <1>8, SeqFrom
<1>10. \A i \in 1..p : /\ r.inner[i].kind = m.inner[i].kind
                       /\ r.inner[i].frameLen = m.inner[i].frameLen
                       /\ r.inner[i].stackLen = m.inner[i].stackLen
  BY <1>5, <1>8 DEF e
<1>11. \A f : /\ TopOf(r, f) = TopOf(m, f) /\ ProtoOf(r, f) = ProtoOf(m, f)
              /\ Height(r, f) = Height(m, f)
  BY <1>4 DEF TopOf, ProtoOf, Height
<1>12. DataSound(r)
  BY <1>1, <1>4, <1>9 DEF DataSound, Good, StackSound, HeapSound
<1>13. \A f \in 1..n : FrameOk(r, f)
  BY <1>1, <1>4, <1>11 DEF Mid, Shaped, FrameOk
<1>14. ASSUME NEW i \in 1..p PROVE EntryOk(r, i)
  <2>1. EntryOk(m, i) /\ (i > 1 => i - 1 \in 1..p)
    BY <1>1 DEF Mid, Shaped
  <2>2. i > 1 => /\ r.inner[i - 1].kind = m.inner[i - 1].kind
                 /\ r.inner[i - 1].frameLen = m.inner[i - 1].frameLen
    BY <1>10, <2>1
  <2>3. \A x : SortOk(m, x) => SortOk(r, x)
    BY <1>4 DEF SortOk
  <2>4. CASE i = p
    <3>1. /\ r.inner[i].kind = "sort" /\ SortOk(r, r.inner[i])
          /\ r.inner[i].byPcall = m.inner[i].byPcall /\ m.inner[i].kind = "sort"
      BY <1>2, <1>5, <1>7, <1>8, <2>3, <2>4 DEF e
    <3>2. QED
      BY <1>4, <1>10, <1>11, <2>1, <2>2, <3>1 DEF EntryOk
  <2>5. CASE i # p
    <3>1. r.inner[i] = m.inner[i]
      BY <1>8, <2>5
    <3>2. QED
      BY <1>4, <1>11, <2>1, <2>2, <2>3, <3>1 DEF EntryOk
  <2>6. QED
    BY <2>4, <2>5
<1>15. \A f : Waits(r, f) = Waits(m, f) /\ Awaits(r, f) = Awaits(m, f)
  BY <1>9, <1>10 DEF Waits, Awaits
<1>16. \A f, h : FoundAt(r, f, h) = FoundAt(m, f, h)
  BY <1>4 DEF FoundAt
<1>17. ASSUME NEW f \in 1..n, f < n \/ Waits(r, f)
       PROVE  FoundAt(r, f, Height(r, f) + Awaits(r, f))
  <2>1. FoundAt(m, f, Height(m, f) + Awaits(m, f))
    BY <1>1, <1>15, <1>17 DEF Mid, Shaped
  <2>2. QED
    BY <1>11, <1>15, <1>16, <2>1
<1>18. Mid(r)
  <2>1. \A i \in 1..Len(r.inner) : EntryOk(r, i)
    BY <1>9, <1>14
  <2>2. QED
    BY <1>4, <1>12, <1>13, <1>17, <2>1 DEF Mid, Shaped
<1>19. r.inner # << >> /\ Last(r.inner) = d
  BY <1>2, <1>8, <1>9 DEF Last
<1>20. Keeps(m, r)
  <2>1. \A i : IsPcall(m, i) => i \in 1..p /\ i # p
    BY <1>2 DEF IsPcall, e
  <2>2. QED
    BY <1>1, <1>4, <1>8, <1>9, <2>1, KeepsMore
<1>21. QED
  BY <1>1, <1>2, <1>4, <1>5, <1>18, <1>19, <1>20 DEF SortReady

LEMMA ReturnSound ==
  ASSUME ProgramVerified, NEW m, Mid(m), m.frames # << >>, ~Waits(m, Len(m.frames)),
         NEW v, Held(m, v)
  PROVE  Lands(m, Return(m, v))
<1> DEFINE L     == Len(m.frames)
           p     == Len(m.inner)
           left  == [m EXCEPT !.stack = SubSeq(@, 1, Frame(m).base), !.frames = Front(@)]
           over  == [left EXCEPT !.status = "done", !.answer = v]
           told  == [left EXCEPT !.inner[Len(m.inner)].answers = Append(@, Truthy(v))]
<1>1. /\ DataSound(m) /\ L \in 1..L /\ L \in Nat /\ Len(m.stack) \in Nat /\ p \in Nat
      /\ DOMAIN m = Fields /\ IsSeq(m.inner) /\ IsSeq(m.frames) /\ IsSeq(m.stack)
      /\ \A i \in 1..p : m.inner[i].frameLen \in 1..L
      /\ Len(m.heap) \in Nat /\ Len(m.cells) \in Nat
  BY TopFacts, SizesOf DEF Mid
<1>2. /\ Frame(m) = m.frames[L] /\ IsSeq(Front(m.frames)) /\ Len(Front(m.frames)) = L - 1
      /\ \A f \in 1..L - 1 : Front(m.frames)[f] = m.frames[f]
  BY <1>1, SeqFront DEF Frame
<1> DEFINE base == m.frames[L].base
<1>3. base \in Nat /\ base <= Len(m.stack)
  <2>1. /\ base \in Nat /\ ProtoOf(m, L).localCount \in Nat
        /\ base + ProtoOf(m, L).localCount <= TopOf(m, L) /\ TopOf(m, L) = Len(m.stack)
    BY <1>1, FrameFacts
  <2>2. QED
    BY <1>1, <2>1
<1>4. /\ DOMAIN left = Fields /\ left.stack = SubSeq(m.stack, 1, base)
      /\ left.frames = Front(m.frames) /\ left.inner = m.inner /\ left.heap = m.heap
      /\ left.cells = m.cells /\ left.error = m.error
      /\ DOMAIN over = Fields /\ over.stack = left.stack /\ over.frames = left.frames
      /\ over.inner = m.inner /\ over.heap = m.heap /\ over.cells = m.cells
      /\ over.error = m.error /\ over.status = "done"
  BY <1>1, <1>2 DEF Fields
<1>5. Return(m, v) =
        IF m.fault # "none" THEN m
        ELSE IF left.frames = << >> THEN over
        ELSE IF m.inner = << >> \/ Last(m.inner).frameLen < Len(left.frames) THEN Push(left, v)
        ELSE IF Last(m.inner).kind = "pcall" THEN Finish(left, TRUE, v)
        ELSE SortOn(told)
  BY DEF Return
<1> HIDE DEF left, over
<1>6. /\ IsSeq(left.stack) /\ Len(left.stack) = base
      /\ \A i \in 1..base : left.stack[i] = m.stack[i]
  BY <1>3, <1>4, SeqSub
<1>7. DataSound(left)
  <2>1. \A i \in 1..base : i \in 1..Len(m.stack)
    BY <1>1, <1>3
  <2>2. StackSound(left)
    BY <1>1, <1>4, <1>6, <2>1 DEF StackSound, DataSound
  <2>3. QED
    BY <1>1, <1>2, <1>4, <2>2 DEF DataSound, Good, HeapSound
<1>8. Held(left, v)
  BY <1>4 DEF Held
<1>9. \A i \in 1..p : m.inner[i].frameLen # L
  BY DEF Waits
<1>10. CASE m.fault # "none"
  BY <1>5, <1>10, KeepsSame, KeepsLands DEF Sound
<1>11. CASE m.fault = "none" /\ left.frames = << >>
  <2>1. L - 1 = 0
    BY <1>2, <1>4, <1>11, SeqEmpty
  <2>2. p = 0
    <3>1. 1 \notin 1..p
      <4>1. L = 1
        BY <1>1, <2>1
      <4>2. \A i \in 1..p : m.inner[i].frameLen \in 1..1 /\ m.inner[i].frameLen # 1
        BY <1>1, <1>9, <4>1
      <4>3. \A i \in 1..p : FALSE
        BY <4>2
      <4>4. QED
        BY <4>3
    <3>2. QED
      BY <1>1, <3>1
  <2>3. Len(over.frames) = 0 /\ Len(over.inner) = 0
    BY <1>2, <1>4, <2>1, <2>2
  <2>4. DataSound(over)
    BY <1>4, <1>7 DEF DataSound, Good, StackSound, HeapSound
  <2>5. Mid(over)
    BY <2>3, <2>4 DEF Mid, Shaped
  <2>6. Keeps(m, over)
    BY <2>2 DEF Keeps, IsPcall
  <2>7. Sound(over)
    BY <1>4, <2>5 DEF Sound
  <2>8. QED
    BY <1>5, <1>11, <2>6, <2>7, KeepsLands
<1>12. CASE m.fault = "none" /\ left.frames # << >>
  <2> DEFINE n == L - 1
  <2>1. Len(left.frames) = n
    BY <1>2, <1>4
  <2>2. n \in 1..L /\ n \in Nat /\ n >= 1 /\ n < L /\ n + 1 = L
    <3>1. L \in Nat /\ L >= 1
      BY <1>1
    <3>2. IsSeq(left.frames)
      BY <1>2, <1>4
    <3>3. Len(left.frames) >= 1
      BY <1>12, <3>2, SeqFront
    <3>4. L - 1 >= 1
      BY <2>1, <3>3
    <3> HIDE DEF L
    <3>5. QED
      BY <3>1, <3>4
  <2>3. TopOf(m, n) = base
    BY <2>2 DEF TopOf
  <2>4. ASSUME NEW i \in 1..p PROVE m.inner[i].frameLen \in 1..n
    <3>1. m.inner[i].frameLen \in 1..L /\ m.inner[i].frameLen # L
      BY <1>1, <1>9
    <3>2. QED
      BY <1>1, <3>1
  <2>5. Cut(m, left, n, p)
    <3>1. p \in 0..p /\ Len(left.heap) >= Len(m.heap) /\ Len(left.cells) >= Len(m.cells)
      BY <1>1, <1>4
    <3>2. \A i \in 1..p : m.inner[i].frameLen <= n
      BY <2>4
    <3>3. \A i \in p + 1..p : m.inner[i].frameLen >= n
      BY <1>1
    <3>4. TopOf(m, n) <= Len(left.stack) /\ Len(left.stack) = TopOf(m, n)
      BY <1>3, <1>6, <2>3
    <3>5. \A f \in 1..n : left.frames[f] = m.frames[f]
      BY <1>2, <1>4
    <3>6. QED
      BY <1>4, <1>6, <1>7, <2>1, <2>2, <2>3, <3>1, <3>2, <3>3, <3>4, <3>5 DEF Cut
  <2>6. Mid(left) /\ Height(left, n) = Len(left.stack) - TopOf(m, n) + Height(m, n)
    BY <2>5, CutMid
  <2>7. Height(left, n) = Height(m, n)
    <3>1. m.frames[n].base \in Nat /\ ProtoOf(m, n).localCount \in Nat /\ TopOf(m, n) \in Nat
      BY <2>2, FrameFacts
    <3>2. Height(m, n) \in Int
      BY <3>1 DEF Height
    <3>3. QED
      BY <1>3, <1>6, <2>3, <2>6, <3>2
  <2>8. FoundAt(left, n, Height(left, n) + Awaits(m, n))
    <3>1. FoundAt(m, n, Height(m, n) + Awaits(m, n))
      BY <2>2 DEF Mid, Shaped
    <3>2. left.frames[n] = m.frames[n]
      BY <1>2, <1>4, <2>2
    <3>3. QED
      BY <2>7, <3>1, <3>2 DEF FoundAt
  <2>9. m.inner # << >> => /\ p \in 1..p /\ Last(m.inner) = m.inner[p]
                           /\ \A i \in 1..p : m.inner[i].frameLen <= m.inner[p].frameLen
    <3>1. ASSUME m.inner # << >> PROVE p \in 1..p /\ Last(m.inner) = m.inner[p]
      BY <1>1, <3>1, SeqFront
    <3>2. ASSUME p \in 1..p, NEW i \in 1..p PROVE m.inner[i].frameLen <= m.inner[p].frameLen
      <4>1. CASE i = p
        BY <2>4, <4>1
      <4>2. CASE i # p
        <5>1. i < p
          BY <1>1, <4>2
        <5>2. QED
          BY <3>2, <5>1, EntriesRise
      <4>3. QED
        BY <4>1, <4>2
    <3>3. QED
      BY <3>1, <3>2
  <2>10. left.frames # << >>
    BY <1>12
  <2>11. Keeps(m, left)
    <3>1. ASSUME NEW i, IsPcall(m, i)
          PROVE  i \in 1..p /\ Kept(m, left, i)
      <4> DEFINE d == m.inner[i]
      <4>1. i \in 1..p
        BY <3>1 DEF IsPcall
      <4>2. d.frameLen \in 1..n /\ d.stackLen \in Nat /\ d.stackLen <= base
        BY <1>9, <4>1, CheckpointFacts
      <4> HIDE DEF d
      <4>3. /\ \A f \in 1..d.frameLen : f \in 1..n
            /\ \A j \in 1..d.stackLen : j \in 1..base
        BY <1>3, <2>2, <4>2
      <4>4. /\ \A f \in 1..n : left.frames[f] = m.frames[f]
            /\ \A j \in 1..base : left.stack[j] = m.stack[j]
        BY <1>2, <1>4, <1>6
      <4>5. QED
        BY <4>1, <4>3, <4>4 DEF Kept, d
    <3>2. QED
      BY <1>4, <3>1 DEF Keeps
  <2> HIDE DEF n, base
  <2>12. CASE m.inner = << >> \/ Last(m.inner).frameLen < n
    <3>1. ~Waits(m, n)
      <4>1. CASE m.inner = << >>
        <5>1. p = 0
          BY <4>1, SeqEmpty
        <5>2. QED
          BY <5>1 DEF Waits
      <4>2. CASE m.inner # << >>
        <5>1. \A i \in 1..p : m.inner[i].frameLen <= m.inner[p].frameLen
              /\ m.inner[p].frameLen < n /\ m.inner[i].frameLen \in 1..n
              /\ m.inner[p].frameLen \in 1..n
          BY <2>4, <2>9, <2>12, <4>2
        <5>2. \A i \in 1..p : m.inner[i].frameLen # n
          BY <2>2, <5>1
        <5>3. QED
          BY <5>2 DEF Waits
      <4>3. QED
        BY <4>1, <4>2
    <3>2. Awaits(m, n) = 1 /\ ~Waits(left, n)
      BY <1>4, <3>1 DEF Awaits, Waits
    <3>3. Ready(left, FALSE)
      BY <2>1, <2>6, <2>8, <2>10, <3>2 DEF Ready
    <3>4. FALSE \in BOOLEAN
      OBVIOUS
    <3>5. Lands(m, Finish(left, FALSE, v))
      BY <1>8, <2>11, <3>3, <3>4, FinishSound, KeepsThen
    <3>6. Finish(left, FALSE, v) = Push(left, v)
      BY DEF Finish, Push
    <3>7. Return(m, v) = Push(left, v)
      BY <1>5, <1>12, <2>1, <2>12
    <3>8. QED
      BY <3>5, <3>6, <3>7
  <2>13. ASSUME m.inner # << >>, ~(Last(m.inner).frameLen < n)
         PROVE  Last(m.inner).frameLen = n /\ m.inner[p].frameLen = n /\ p \in 1..p
                /\ Last(m.inner) = m.inner[p]
    <3>1. Last(m.inner) = m.inner[p] /\ m.inner[p].frameLen \in 1..n /\ p \in 1..p
      BY <2>4, <2>9, <2>13
    <3>2. QED
      BY <2>2, <2>13, <3>1
  <2>14. CASE /\ m.inner # << >> /\ ~(Last(m.inner).frameLen < n)
              /\ Last(m.inner).kind = "pcall"
    <3>1. Awaits(m, n) = 2
      BY <2>13, <2>14 DEF Awaits
    <3>2. Ready(left, TRUE)
      BY <1>4, <2>1, <2>6, <2>8, <2>10, <2>13, <2>14, <3>1 DEF Ready
    <3>3. TRUE \in BOOLEAN
      OBVIOUS
    <3>4. Lands(m, Finish(left, TRUE, v))
      BY <1>8, <2>11, <3>2, <3>3, FinishSound, KeepsThen
    <3>5. Return(m, v) = Finish(left, TRUE, v)
      BY <1>5, <1>12, <2>1, <2>14
    <3>6. QED
      BY <3>4, <3>5
  <2>15. CASE /\ m.inner # << >> /\ ~(Last(m.inner).frameLen < n)
              /\ Last(m.inner).kind # "pcall"
    <3>1. Last(m.inner).kind = "sort"
      BY <2>13, <2>15, EntryFacts
    <3>2. SortReady(left)
      BY <1>4, <2>1, <2>6, <2>10, <2>13, <2>15, <3>1 DEF SortReady
    <3>3. Truthy(v) \in BOOLEAN
      BY DEF Truthy
    <3>4. told = [left EXCEPT !.inner[Len(left.inner)].answers = Append(@, Truthy(v))]
      BY <1>4
    <3> HIDE DEF told
    <3>5. SortReady(told) /\ Keeps(left, told)
      BY <3>2, <3>3, <3>4, AnswerReady
    <3>6. Lands(m, SortOn(told))
      <4>1. Lands(told, SortOn(told))
        BY <3>5, SortOnSound
      <4>2. QED
        BY <2>11, <3>5, <4>1, KeepsThen
    <3>7. Return(m, v) = SortOn(told)
      BY <1>5, <1>12, <2>1, <2>15
    <3>8. QED
      BY <3>6, <3>7
  <2>16. QED
    BY <2>12, <2>14, <2>15
<1>13. QED
  BY <1>10, <1>11, <1>12

LEMMA ExecRetSound ==
  ASSUME ProgramVerified, Sound(vm), ExecRet
  PROVE  Lands(vm, vm')
<1> DEFINE n == Here.n
           paid == Charge(Fetched, FunctionReturn)
           m == Pop(paid, n)
           v == IF n = 0 THEN Nil ELSE Arg(n)
           r == IF paid.fault # "none" THEN paid ELSE Return(m, v)
<1>1. Executing({"Ret"}) /\ Becomes(r)
  BY DEF ExecRet
<1> HIDE DEF r
<1>2. InTurn /\ Running /\ Here.op = "Ret" /\ Operands \in Nat
  BY <1>1, Begins
<1>3. Operands = n
  BY <1>2, EndsFed
<1> DEFINE q == Frame(vm).pc + 1
<1>4. /\ Turn(Fetched, q, Operands) /\ Fetched.stack = vm.stack /\ Same(Fetched, paid)
  BY <1>2, FetchedFacts, ChargedFetched
<1>5. Turn(paid, q, Operands) /\ paid.stack = vm.stack
  BY <1>4, TurnSame DEF Same
<1> HIDE DEF n, paid
<1>6. n \in 0..Operands /\ n \in Nat
  BY <1>2, <1>3
<1>7. ASSUME paid.fault # "none" PROVE Lands(vm, r)
  BY <1>2, <1>5, <1>7, TurnMid DEF r
<1>8. ASSUME paid.fault = "none", m.fault # "none" PROVE Lands(vm, r)
  <2>1. PICK i, k : Turn(m, i, k)
    BY <1>2, <1>5, <1>6, PopFaulted
  <2>2. Lands(vm, m)
    BY <1>2, <1>8, <2>1, TurnMid
  <2>3. r = m
    BY <1>8 DEF r, Return
  <2>4. QED
    BY <2>2, <2>3
<1>9. ASSUME paid.fault = "none", m.fault = "none" PROVE Lands(vm, r)
  <2>1. /\ Turn(m, q, Operands - n)
        /\ \A i \in 1..n : ~IsHandle(vm.stack[Len(vm.stack) + 1 - i])
    BY <1>2, <1>5, <1>6, <1>9, TurnPop
  <2>2. /\ Mid(m) /\ m.frames # << >> /\ Len(m.frames) = Len(vm.frames)
        /\ ~Waits(m, Len(vm.frames)) /\ (\A x : Held(vm, x) => Held(m, x))
        /\ Keeps(vm, m)
    BY <1>2, <2>1, TurnFacts, KeepsTurn
  <2>3. Held(m, v)
    <3>1. CASE n = 0
      BY <3>1, PlainValues, PlainHeld
    <3>2. CASE n # 0
      <4>1. n \in 1..n
        BY <1>6, <3>2
      <4>2. Held(vm, Arg(n))
        BY <1>2, <1>6, <2>1, <4>1, ArgHeld
      <4>3. QED
        BY <2>2, <3>2, <4>2
    <3>3. QED
      BY <3>1, <3>2
  <2> HIDE DEF m, v
  <2>4. Lands(vm, Return(m, v))
    BY <1>2, <2>2, <2>3, ReturnSound, KeepsThen
  <2>5. QED
    BY <1>9, <2>4 DEF r, m, v
<1>10. Lands(vm, r)
  BY <1>7, <1>8, <1>9
<1>11. QED
  BY <1>1, <1>2, <1>10, BecomesLands DEF InTurn

LEMMA FallOffSound ==
  ASSUME ProgramVerified, Sound(vm), FallOff
  PROVE  Lands(vm, vm')
<1>1. Running /\ Becomes(Return(vm, Nil))
  BY DEF FallOff
<1>2. Mid(vm) /\ vm.frames # << >> /\ ~Waits(vm, Len(vm.frames))
  BY <1>1, HereFacts
<1>3. Held(vm, Nil)
  BY PlainValues, PlainHeld
<1>4. Lands(vm, Return(vm, Nil))
  BY <1>2, <1>3, ReturnSound
<1>5. QED
  BY <1>1, <1>4, BecomesLands

-----------------------------------------------------------------------------
(* The first state, every step, and the theorems.                          *)

(* At most seven things are finitely many.                                 *)
LEMMA SevenAreFinite ==
  ASSUME NEW a, NEW b, NEW c, NEW d, NEW e, NEW f, NEW g
  PROVE  IsFiniteSet({a, b, c, d, e, f, g})
<1>1. IsFiniteSet({a}) /\ IsFiniteSet({b}) /\ IsFiniteSet({c}) /\ IsFiniteSet({d})
      /\ IsFiniteSet({e}) /\ IsFiniteSet({f}) /\ IsFiniteSet({g})
  BY FS_Singleton
<1>2. IsFiniteSet({a} \cup {b}) /\ IsFiniteSet({c} \cup {d}) /\ IsFiniteSet({e} \cup {f})
  BY <1>1, FS_Union
<1>3. IsFiniteSet(({a} \cup {b}) \cup ({c} \cup {d}))
  BY <1>2, FS_Union
<1>4. IsFiniteSet(({e} \cup {f}) \cup {g})
  BY <1>1, <1>2, FS_Union
<1>5. IsFiniteSet((({a} \cup {b}) \cup ({c} \cup {d})) \cup (({e} \cup {f}) \cup {g}))
  BY <1>3, <1>4, FS_Union
<1>6. {a, b, c, d, e, f, g}
        = (({a} \cup {b}) \cup ({c} \cup {d})) \cup (({e} \cup {f}) \cup {g})
  OBVIOUS
<1>7. QED
  BY <1>5, <1>6

(* The table of a module is one of builtins under names.                   *)
LEMMA ModuleSound ==
  ASSUME NEW names, IsFiniteSet({Text(b) : b \in names})
  PROVE  \A T, C : IsTable(ModuleOf(names), T, C)
<1> DEFINE keys == {Text(b) : b \in names}
           m == ModuleOf(names)
<1>1. \A b, T, C : IsValue(Builtin(b), T, C)
  BY DEF IsValue, Builtin, BuiltinKind, SharedKind, HandleKind, TableKind, FunctionKind
<1>2. \A k \in keys : IsKey(k)
  BY DEF IsKey, Text, StrVal, IsKind, StringKind, IntegerKind, BooleanKind
<1>3. /\ DOMAIN m = {"array", "hash", "entries", "capacity"} /\ m.array = << >>
      /\ DOMAIN m.hash = keys
      /\ \A k \in DOMAIN m.hash : \E b : m.hash[k] = Builtin(b)
  BY DEF ModuleOf, EmptyTable
<1> HIDE DEF m
<1>4. \A T, C : AllValues(<< >>, T, C)
  <2>1. IsSeq(<< >>) /\ 1..Len(<< >>) = {}
    BY SeqEmpty
  <2>2. QED
    BY <2>1 DEF AllValues
<1>5. IsFiniteSet(DOMAIN m.hash)
  BY <1>3
<1> HIDE DEF keys
<1>6. \A T, C : IsTable(m, T, C)
  BY <1>1, <1>2, <1>3, <1>4, <1>5 DEF IsTable
<1>7. QED
  BY <1>6 DEF m

LEMMA ModulesSound ==
  /\ IsSeq(Modules) /\ Len(Modules) = 2
  /\ \A T, C : \A a \in 1..2 : IsTable(Modules[a], T, C)
<1> DEFINE one == ModuleOf(StringNames)
           two == ModuleOf(TableNames)
<1>1. Modules = <<one, two>>
  BY DEF Modules
<1>2. IsFiniteSet({Text(b) : b \in StringNames})
  <2> DEFINE first == {Text("len"), Text("sub"), Text("find"), Text("find_literal"),
                       Text("upper"), Text("lower"), Text("rep")}
             rest  == {Text("byte"), Text("char"), Text("format"), Text("match"),
                       Text("gmatch"), Text("gsub"), Text("gsub")}
  <2>1. {Text(b) : b \in StringNames} = first \cup rest
    BY DEF StringNames
  <2>2. IsFiniteSet(first)
    BY SevenAreFinite, Zenon
  <2>3. IsFiniteSet(rest)
    BY SevenAreFinite, Zenon
  <2> HIDE DEF first, rest
  <2>4. IsFiniteSet(first \cup rest)
    BY <2>2, <2>3, FS_Union
  <2>5. QED
    BY <2>1, <2>4
<1>3. IsFiniteSet({Text(b) : b \in TableNames})
  <2> DEFINE all == {Text("insert"), Text("remove"), Text("concat"), Text("sort"),
                     Text("move"), Text("move"), Text("move")}
  <2>1. {Text(b) : b \in TableNames} = all
    BY DEF TableNames
  <2>2. IsFiniteSet(all)
    BY SevenAreFinite, Zenon
  <2> HIDE DEF all
  <2>3. QED
    BY <2>1, <2>2
<1>4. \A T, C : IsTable(one, T, C) /\ IsTable(two, T, C)
  BY <1>2, <1>3, ModuleSound
<1> HIDE DEF one, two
<1>5. IsSeq(Modules) /\ Len(Modules) = 2 /\ Modules[1] = one /\ Modules[2] = two
  BY <1>1, SeqPair
<1>6. \A a \in 1..2 : a = 1 \/ a = 2
  OBVIOUS
<1>7. QED
  BY <1>4, <1>5, <1>6

LEMMA VmInitSound ==
  ASSUME ProgramVerified, VmInit
  PROVE  Sound(vm)
<1> DEFINE main == program[1]
           l == main.localCount
           slots == [i \in 1..l |-> Nil]
           frame == [proto |-> 0, pc |-> 1, base |-> 0, upvalues |-> << >>]
<1>1. /\ DOMAIN vm = Fields /\ vm.stack = slots /\ vm.frames = <<frame>> /\ vm.inner = << >>
      /\ vm.cells = << >> /\ vm.heap = Modules /\ vm.error = Nil
  BY DEF VmInit, Fields
<1>2. 1 \in DOMAIN program /\ main.upvalues = << >>
  <2>1. IsSeq(program) /\ program # << >>
    BY SeqIs DEF ProgramVerified, Range, IsSeq
  <2>2. Len(program) >= 1 /\ Len(program) \in Nat /\ DOMAIN program = 1..Len(program)
    BY <2>1, SeqFront, SeqFacts
  <2>3. 1 \in DOMAIN program
    BY <2>2
  <2>4. QED
    BY <2>3 DEF ProgramVerified
<1>3. l \in Nat /\ Len(main.code) \in Nat /\ Balanced(main.code, depths[1])
  BY <1>2, ProtoFacts
<1>4. IsSeq(slots) /\ Len(slots) = l /\ \A i \in 1..l : slots[i] = Nil
  <2>1. slots = [i \in 1..l |-> slots[i]] /\ \A i \in 1..l : slots[i] = Nil
    OBVIOUS
  <2> HIDE DEF slots
  <2>2. QED
    BY <1>3, <2>1, SeqFrom
<1> HIDE DEF slots, main
<1>5. /\ IsSeq(vm.frames) /\ Len(vm.frames) = 1 /\ vm.frames[1] = frame
  <2>1. <<frame>> = [i \in 1..1 |-> <<frame>>[i]] /\ <<frame>>[1] = frame
    OBVIOUS
  <2> HIDE DEF frame
  <2>2. QED
    BY <1>1, <2>1, SeqFrom
<1>6. /\ DOMAIN frame = {"proto", "pc", "base", "upvalues"} /\ frame.proto = 0 /\ frame.pc = 1
      /\ frame.base = 0 /\ frame.upvalues = << >>
  OBVIOUS
<1> HIDE DEF frame
<1>7. /\ IsSeq(vm.inner) /\ Len(vm.inner) = 0 /\ IsSeq(vm.cells) /\ Len(vm.cells) = 0
      /\ IsSeq(vm.heap) /\ Len(vm.heap) = 2
  BY <1>1, SeqEmpty, ModulesSound
<1>8. DataSound(vm)
  <2>1. Good(vm)
    BY <1>1, <1>5, <1>7 DEF Good
  <2>2. \A T, C : IsSlot(Nil, T, C) /\ IsValue(Nil, T, C)
    BY PlainValues, PlainIsValue
  <2>3. StackSound(vm)
    BY <1>1, <1>4, <2>2 DEF StackSound
  <2>4. HeapSound(vm)
    BY <1>1, <1>7, ModulesSound DEF HeapSound
  <2>5. AllValues(vm.cells, Len(vm.heap), Len(vm.cells))
    BY <1>7 DEF AllValues
  <2>6. QED
    BY <1>1, <2>1, <2>2, <2>3, <2>4, <2>5 DEF DataSound
<1>9. /\ TopOf(vm, 1) = l /\ ProtoOf(vm, 1) = main
  BY <1>1, <1>4, <1>5, <1>6 DEF TopOf, ProtoOf, main
<1>10. Height(vm, 1) = 0
  BY <1>3, <1>5, <1>6, <1>9 DEF Height
<1>11. FrameOk(vm, 1)
  <2>1. 1 \in 1..Len(main.code) + 1 /\ 0 + l <= l
    BY <1>3
  <2>2. IsSeq(frame.upvalues) /\ Len(frame.upvalues) = Len(main.upvalues) /\ 1..Len(frame.upvalues) = {}
    BY <1>2, <1>6, SeqEmpty
  <2>3. \A i \in 1..l : 0 + i = i
    BY <1>3
  <2>4. ~IsHandle(Nil)
    BY PlainValues, PlainSlot DEF Nil, IsHandle, NilKind, HandleKind
  <2>5. \A i \in 1..l : ~IsHandle(vm.stack[0 + i])
    BY <1>1, <1>4, <2>3, <2>4
  <2>6. 0 + 1 \in DOMAIN program
    BY <1>2
  <2>7. QED
    BY <1>5, <1>6, <1>9, <2>1, <2>2, <2>5, <2>6 DEF FrameOk
<1>12. ~Waits(vm, 1)
  BY <1>7 DEF Waits
<1>13. Mid(vm)
  <2>1. \A f \in 1..Len(vm.frames) : f = 1
    BY <1>5
  <2>2. \A i \in 1..Len(vm.inner) : FALSE
    BY <1>7
  <2>3. QED
    BY <1>5, <1>8, <1>11, <1>12, <2>1, <2>2 DEF Mid, Shaped
<1>14. Done(vm)
  <2>1. <<1, 0>> \in depths[1]
    BY <1>3 DEF Balanced
  <2>2. FoundAt(vm, 1, Height(vm, 1))
    BY <1>5, <1>6, <1>10, <2>1 DEF FoundAt
  <2>3. vm.frames # << >>
    BY <1>5
  <2>4. QED
    BY <1>5, <1>12, <2>2, <2>3 DEF Done
<1>15. QED
  BY <1>13, <1>14 DEF Sound

LEMMA VmNextSound ==
  ASSUME ProgramVerified, Sound(vm), VmNext
  PROVE  Lands(vm, vm')
BY Push1Sound, PopTopSound, StoreSound, MakeTableSound, GetTableSound, GetFieldSound,
   SetTableSound, OperateSound, ConcatSound, JumpSound, ExecCallSound, ExecPCallSound,
   ExecRetSound, FallOffSound, MakeClosureSound, ExecToolCallSound, ExecLogSound,
   ExecErrorSound, IterInitSound, IterNextSound DEF VmNext

(* The program does not change: what is sound after a step is so for the    *)
(* program there is after it.                                              *)
LEMMA PrimedSound ==
  ASSUME program' = program, depths' = depths, Sound(vm')
  PROVE  Sound(vm)'
<1>1. DataSound(vm')  /\ Shaped(vm')
  BY DEF Sound, Mid
<1>2. DataSound(vm)'
  <2>1. Good(vm)'
    BY <1>1 DEF DataSound, Good
  <2>2. StackSound(vm)'
    BY <1>1 DEF DataSound, StackSound, IsSlot, IsValue, IsIterator
  <2>3. AllValues(vm.cells, Len(vm.heap), Len(vm.cells))' /\ IsValue(vm.error, Len(vm.heap), Len(vm.cells))'
    BY <1>1 DEF DataSound, AllValues, IsValue
  <2>4. ASSUME NEW a \in 1..Len(vm'.heap)
        PROVE  IsTable(vm.heap[a], Len(vm.heap), Len(vm.cells))'
    <3>1. IsTable(vm'.heap[a], Len(vm'.heap), Len(vm'.cells))
      BY <1>1, <2>4 DEF DataSound, HeapSound
    <3>2. AllValues(vm.heap[a].array, Len(vm.heap), Len(vm.cells))'
      BY <3>1 DEF IsTable, AllValues, IsValue
    <3>3. \A k \in DOMAIN vm'.heap[a].hash :
            IsKey(k) /\ IsValue(vm.heap[a].hash[k], Len(vm.heap), Len(vm.cells))'
      BY <3>1 DEF IsTable, IsValue
    <3>4. QED
      BY <3>1, <3>2, <3>3 DEF IsTable
  <2>5. HeapSound(vm)'
    BY <1>1, <2>4 DEF DataSound, HeapSound
  <2>6. QED
    BY <2>1, <2>2, <2>3, <2>5 DEF DataSound
<1>3. ASSUME NEW f \in 1..Len(vm'.frames) PROVE FrameOk(vm, f)'
  BY <1>1, <1>3 DEF Shaped, FrameOk, ProtoOf, TopOf
<1>4. ASSUME NEW i \in 1..Len(vm'.inner) PROVE EntryOk(vm, i)'
  BY <1>1, <1>4 DEF Shaped, EntryOk, SortOk, TopOf, AllValues, IsValue
<1>5. ASSUME NEW f \in 1..Len(vm'.frames), (f < Len(vm.frames) \/ Waits(vm, f))'
      PROVE  FoundAt(vm, f, Height(vm, f) + Awaits(vm, f))'
  BY <1>1, <1>5 DEF Shaped, FoundAt, Height, ProtoOf, TopOf, Waits, Awaits
<1>6. Shaped(vm)'
  BY <1>3, <1>4, <1>5 DEF Shaped
<1>7. Done(vm') => Done(vm)'
  BY DEF Done, Waits, FoundAt, Height, TopOf, ProtoOf
<1>8. QED
  BY <1>2, <1>6, <1>7 DEF Sound, Mid

-----------------------------------------------------------------------------
(* The inductive invariant. *)
VmSound == ProgramVerified /\ Sound(vm)

LEMMA VmSoundSteps ==
  ASSUME VmSound, [Next]_vars
  PROVE  VmSound'
<1>1. program' = program /\ depths' = depths
  BY DEF Next, Terminating, vars, VmNext, Becomes, Step, Push1, PopTop, Store, MakeTable, GetTable,
     GetField, SetTable, Operate, Concat, Jump, ExecCall, ExecPCall, ExecRet, FallOff,
     MakeClosure, ExecToolCall, ExecLog, ExecError, IterInit, IterNext
<1>2. Sound(vm')
  <2>1. CASE VmNext
    BY <2>1, VmNextSound DEF VmSound, Lands
  <2>2. CASE UNCHANGED vm
    BY <2>2 DEF VmSound
  <2>3. QED
    BY <2>1, <2>2 DEF Next, Terminating, vars
<1>3. ProgramVerified'
  BY <1>1 DEF VmSound, ProgramVerified, RefersRightly
<1>4. QED
  BY <1>1, <1>2, <1>3, PrimedSound DEF VmSound

LEMMA SoundTypes ==
  ASSUME VmSound
  PROVE  TypeOK
<1>1. Mid(vm) /\ Good(vm) /\ DataSound(vm) /\ Shaped(vm)
  BY DEF VmSound, Sound, Mid, DataSound
<1>2. /\ DOMAIN vm.frames = 1..Len(vm.frames) /\ DOMAIN vm.stack = 1..Len(vm.stack)
      /\ DOMAIN vm.cells = 1..Len(vm.cells) /\ DOMAIN vm.inner = 1..Len(vm.inner)
      /\ Len(vm.frames) \in Nat /\ Len(vm.inner) \in Nat
  BY <1>1, SeqFacts, SizesOf DEF Good, DataSound, StackSound, AllValues
<1>3. ASSUME NEW f \in DOMAIN vm.frames
      PROVE  LET frame == vm.frames[f]
                 proto == program[frame.proto + 1]
                 top   == IF f = Len(vm.frames) THEN Len(vm.stack) ELSE vm.frames[f + 1].base
             IN  /\ frame.pc \in 1..Len(proto.code) + 1
                 /\ frame.base + proto.localCount <= top
                 /\ Len(frame.upvalues) = Len(proto.upvalues)
                 /\ \A u \in DOMAIN frame.upvalues : frame.upvalues[u] \in DOMAIN vm.cells
                 /\ \A i \in 1..proto.localCount : ~IsHandle(vm.stack[frame.base + i])
  <2>1. FrameOk(vm, f)
    BY <1>1, <1>2, <1>3 DEF Shaped
  <2>2. DOMAIN vm.frames[f].upvalues = 1..Len(vm.frames[f].upvalues)
    BY <2>1, SeqFacts DEF FrameOk
  <2>3. QED
    BY <1>2, <2>1, <2>2 DEF FrameOk, ProtoOf, TopOf
<1>4. ASSUME NEW i \in DOMAIN vm.stack, vm.stack[i][1] = SharedKind
      PROVE  vm.stack[i][2] \in DOMAIN vm.cells
  <2>1. IsSlot(vm.stack[i], Len(vm.heap), Len(vm.cells))
    BY <1>1, <1>2, <1>4 DEF DataSound, StackSound
  <2>2. QED
    BY <1>2, <1>4, <2>1 DEF IsSlot, IsValue, SharedKind, HandleKind
<1>5. ASSUME NEW i \in DOMAIN vm.cells
      PROVE  vm.cells[i][1] \notin {SharedKind, HandleKind}
  BY <1>1, <1>2, <1>5 DEF DataSound, AllValues, IsValue
<1>6. ASSUME ~Ended(vm), NEW i \in DOMAIN vm.inner
      PROVE  /\ vm.inner[i].frameLen < Len(vm.frames)
             /\ vm.inner[i].stackLen <= vm.frames[vm.inner[i].frameLen + 1].base
             /\ i > 1 => vm.inner[i - 1].frameLen <= vm.inner[i].frameLen
  <2>1. Done(vm)
    BY <1>6 DEF VmSound, Sound, Ended
  <2>2. EntryOk(vm, i) /\ (i > 1 => EntryOk(vm, i - 1))
    <3>1. i \in 1..Len(vm.inner) /\ (i > 1 => i - 1 \in 1..Len(vm.inner))
      BY <1>2, <1>6
    <3>2. QED
      BY <1>1, <3>1 DEF Shaped
  <2>3. vm.inner[i].frameLen \in 1..Len(vm.frames) /\ vm.inner[i].frameLen # Len(vm.frames)
    BY <1>2, <1>6, <2>1, <2>2 DEF EntryOk, Done, Waits
  <2>4. vm.inner[i].stackLen = vm.frames[vm.inner[i].frameLen + 1].base
    BY <2>2, <2>3 DEF EntryOk, TopOf
  <2>5. vm.frames[vm.inner[i].frameLen + 1].base \in Nat
    <3>1. vm.inner[i].frameLen + 1 \in 1..Len(vm.frames)
      BY <1>2, <2>3
    <3>2. QED
      BY <1>1, <3>1 DEF Shaped, FrameOk
  <2>6. i > 1 => vm.inner[i - 1].frameLen <= vm.inner[i].frameLen
    <3>1. CASE i > 1
      <4>1. vm.inner[i - 1].frameLen \in 1..Len(vm.frames)
        BY <2>2, <3>1 DEF EntryOk
      <4>2. \/ vm.inner[i - 1].frameLen = vm.inner[i].frameLen
            \/ vm.inner[i - 1].frameLen < vm.inner[i].frameLen
        BY <2>2, <3>1 DEF EntryOk
      <4>3. QED
        BY <1>2, <2>3, <4>1, <4>2
    <3>2. QED
      BY <3>1
  <2>7. QED
    BY <1>2, <2>3, <2>4, <2>5, <2>6
<1>7. QED
  BY <1>3, <1>4, <1>5, <1>6 DEF TypeOK

LEMMA SoundDepths ==
  ASSUME VmSound
  PROVE  DepthsAsVerified
<1> SUFFICES ASSUME Running, InCode
             PROVE  LET here == {p \in depths[Frame(vm).proto + 1] : p[1] = Frame(vm).pc}
                    IN  /\ here = {<<Frame(vm).pc, Operands>>}
                        /\ ~Starved(Here, Operands)
                        /\ Here.op = "Ret" => Operands = Here.n
  BY DEF DepthsAsVerified
<1>1. InTurn
  BY DEF InTurn, VmSound
<1>2. ~Starved(Here, Operands) /\ (Here.op = "Ret" => Operands = Here.n)
  BY <1>1, EndsFed
<1> DEFINE c == Proto(vm).code
           D == depths[Frame(vm).proto + 1]
           s == <<Frame(vm).pc, Operands>>
<1>3. s \in D /\ Balanced(c, D) /\ s[1] = Frame(vm).pc
  BY <1>1, HereFacts DEF InTurn
<1>4. s[1] <= Len(c)
  BY <1>3 DEF InCode
<1> HIDE DEF c, D, s
<1>5. \A r \in D : r[1] = s[1] => r = s
  BY <1>3, <1>4 DEF Balanced
<1>6. {p \in D : p[1] = Frame(vm).pc} = {s}
  BY <1>3, <1>5
<1>7. QED
  BY <1>2, <1>6 DEF D, s

(* Sequences that agree up to n. *)
LEMMA SameSub ==
  ASSUME NEW s, NEW t, NEW n \in Nat, \A i \in 1..n : s[i] = t[i]
  PROVE  SubSeq(s, 1, n) = SubSeq(t, 1, n)
OBVIOUS

(* What becomes of a pcall of this state. *)
LEMMA SoundPcalls ==
  ASSUME VmSound, [Next]_vars
  PROVE  [PcallStep]_vars
<1> SUFFICES ASSUME VmNext, NEW i \in DOMAIN vm.inner,
                    vm.inner[i].kind = "pcall", Len(vm'.inner) >= i - 1
             PROVE  LET e == vm.inner[i]
                    IN  /\ SubSeq(vm'.stack, 1, e.stackLen) = SubSeq(vm.stack, 1, e.stackLen)
                        /\ SubSeq(vm'.frames, 1, e.frameLen) = SubSeq(vm.frames, 1, e.frameLen)
                        /\ Len(vm'.inner) >= i => vm'.inner[i] = e
                        /\ Len(vm'.inner) = i - 1 =>
                             /\ Len(vm'.stack) = e.stackLen + 2 /\ Len(vm'.frames) = e.frameLen
                             /\ vm'.stack[e.stackLen + 1] \in {TrueVal, FalseVal}
  BY DEF Next, Terminating, PcallStep
<1> DEFINE e == vm.inner[i]
<1>1. Lands(vm, vm') /\ Mid(vm) /\ Mid(vm') /\ ProgramVerified
  BY VmNextSound DEF VmSound, Sound, Lands
<1>2. i \in 1..Len(vm.inner) /\ Len(vm.inner) \in Nat /\ Len(vm'.inner) \in Nat
  BY <1>1, SizesOf DEF Mid
<1>3. IsPcall(vm, i)
  BY <1>2 DEF IsPcall
<1>4. i <= Len(vm'.inner) \/ i = Len(vm'.inner) + 1
  BY <1>2
<1>5. /\ Kept(vm, vm', i)
      /\ i <= Len(vm'.inner) => vm'.inner[i] = e
      /\ i = Len(vm'.inner) + 1 => Given(vm, vm', i)
  BY <1>1, <1>3, <1>4 DEF Lands, Returns
<1>6. e.stackLen \in Nat /\ e.frameLen \in Nat
  BY <1>1, <1>2, CheckpointFacts
<1>7. /\ SubSeq(vm'.stack, 1, e.stackLen) = SubSeq(vm.stack, 1, e.stackLen)
      /\ SubSeq(vm'.frames, 1, e.frameLen) = SubSeq(vm.frames, 1, e.frameLen)
  BY <1>5, <1>6, SameSub DEF Kept
<1>8. (Len(vm'.inner) >= i => i <= Len(vm'.inner)) /\ (Len(vm'.inner) = i - 1 => i = Len(vm'.inner) + 1)
  BY <1>2
<1>9. QED
  BY <1>5, <1>7, <1>8 DEF Given

-----------------------------------------------------------------------------
(* Whatever programs, limits and answers there are.                        *)

LEMMA VmSoundAlways == Spec /\ ProgramVerified => []VmSound
<1>1. Init /\ ProgramVerified => VmSound
  BY VmInitSound DEF Init, VmSound
<1>2. VmSound /\ [Next]_vars => VmSound'
  BY VmSoundSteps
<1>3. QED
  BY <1>1, <1>2, PTL DEF Spec

(* The interpreter takes the prototypes it is given for granted: no check  *)
(* of an index, of the height of the stack or of the kind of a slot is     *)
(* left to it (unwrap, direct indexing and unwinding in dispatch and       *)
(* run_inner).  A program that keeps to its slots and that the verifier    *)
(* has accepted keeps its frames one above the other, its shared slots and *)
(* upvalues in cells and its pcalls and comparators above the frames that  *)
(* wait for them, through errors that unwind any number of them.           *)
THEOREM FramesStaySound == Spec /\ ProgramVerified => []TypeOK
<1>1. VmSound => TypeOK
  BY SoundTypes
<1>2. QED
  BY <1>1, VmSoundAlways, PTL

(* The verifier is sound (stack_analysis): wherever a verified program is, *)
(* in whatever way it got there - by a call that returned, an error that   *)
(* a pcall caught, a comparator between two comparisons - the operands on  *)
(* its frame are as many as the verifier found for the instruction, and    *)
(* the instruction does not find too few.                                  *)
THEOREM StackAnalysisIsSound == Spec /\ ProgramVerified => []DepthsAsVerified
<1>1. VmSound => DepthsAsVerified
  BY SoundDepths
<1>2. QED
  BY <1>1, VmSoundAlways, PTL

(* pcall keeps what is its caller's (ExecPCall and the unwinding in        *)
(* run_inner, 816-915): while it runs, no call, comparator or inner pcall  *)
(* touches the frames and operands below its checkpoint, and when it ends, *)
(* however deep the error was raised, just these are left, and two values: *)
(* whether the call succeeded, and its result or its error.                *)
THEOREM PcallsGiveTwoValues == Spec /\ ProgramVerified => PcallReturns
<1>1. VmSound /\ [Next]_vars => [PcallStep]_vars
  BY SoundPcalls
<1>2. QED
  BY <1>1, VmSoundAlways, PTL DEF Spec, PcallReturns
=============================================================================
