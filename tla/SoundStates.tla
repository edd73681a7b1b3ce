---------------------------- MODULE SoundStates ----------------------------
(***************************************************************************)
(* When a state of the interpreter is sound, and what the parts of         *)
(* instructions make of one that is: half of the proof that compiled and   *)
(* verified programs do not go wrong (the other is in SoundnessProofs).    *)
(*                                                                         *)
(* The invariant has three parts.  What is stored anywhere is sound: the   *)
(* value of a table has a table, a closure its prototype and its cells     *)
(* (DataSound).  The frames lie one above the other, and the functions     *)
(* that run inside instructions above the frames that wait for them        *)
(* (FrameOk, EntryOk).  A frame that waits is where the verifier has it    *)
(* once its call has left the result; the innermost one is there as it is, *)
(* between two instructions (Done).                                        *)
(***************************************************************************)
EXTENDS ExecutionProofs

(* A value, when there are so many tables and cells.                       *)
IsValue(v, tables, cells) ==
  /\ v[1] \notin {SharedKind, HandleKind}
  /\ v[1] = TableKind => v[2] \in 1..tables
  /\ v[1] = FunctionKind =>
       /\ v[2][1] + 1 \in DOMAIN program
       /\ IsSeq(v[2][2]) /\ Len(v[2][2]) = Len(program[v[2][1] + 1].upvalues)
       /\ \A u \in 1..Len(v[2][2]) : v[2][2][u] \in 1..cells

IsIterator(h, tables) ==
  /\ h.table \in 1..tables /\ h.index \in Nat
  /\ h.kind = "sorted" => IsSeq(h.keys) /\ \A i \in 1..Len(h.keys) : IsKey(h.keys[i])

IsSlot(s, tables, cells) ==
  \/ IsValue(s, tables, cells)
  \/ s[1] = SharedKind /\ s[2] \in 1..cells
  \/ s[1] = HandleKind /\ IsIterator(s[2], tables)

AllValues(s, tables, cells) ==
  IsSeq(s) /\ \A i \in 1..Len(s) : IsValue(s[i], tables, cells)

IsTable(t, tables, cells) ==
  /\ DOMAIN t = {"array", "hash", "entries", "capacity"}
  /\ AllValues(t.array, tables, cells)
  /\ IsFiniteSet(DOMAIN t.hash)
  /\ \A k \in DOMAIN t.hash : IsKey(k) /\ IsValue(t.hash[k], tables, cells)

(* What is stored in a state. *)
StackSound(m) == IsSeq(m.stack) /\ \A i \in 1..Len(m.stack) : IsSlot(m.stack[i], Len(m.heap), Len(m.cells))
HeapSound(m)  == /\ IsSeq(m.heap) /\ Len(m.heap) >= 2
                 /\ \A a \in 1..Len(m.heap) : IsTable(m.heap[a], Len(m.heap), Len(m.cells))
DataSound(m) ==
  /\ Good(m) /\ StackSound(m) /\ HeapSound(m)
  /\ AllValues(m.cells, Len(m.heap), Len(m.cells))
  /\ IsValue(m.error, Len(m.heap), Len(m.cells))

(* Where the slots of a frame end. *)
TopOf(m, f)   == IF f = Len(m.frames) THEN Len(m.stack) ELSE m.frames[f + 1].base
ProtoOf(m, f) == program[m.frames[f].proto + 1]
Height(m, f)  == TopOf(m, f) - m.frames[f].base - ProtoOf(m, f).localCount

FrameOk(m, f) ==
  LET frame == m.frames[f]
  IN  /\ DOMAIN frame = {"proto", "pc", "base", "upvalues"}
      /\ frame.proto + 1 \in DOMAIN program
      /\ frame.pc \in 1..Len(ProtoOf(m, f).code) + 1
      /\ frame.base \in Nat /\ frame.base + ProtoOf(m, f).localCount <= TopOf(m, f)
      /\ IsSeq(frame.upvalues) /\ Len(frame.upvalues) = Len(ProtoOf(m, f).upvalues)
      /\ \A u \in 1..Len(frame.upvalues) : frame.upvalues[u] \in 1..Len(m.cells)
      /\ \A i \in 1..ProtoOf(m, f).localCount : ~IsHandle(m.stack[frame.base + i])

SortOk(m, e) ==
  /\ DOMAIN e = {"kind", "stackLen", "frameLen", "table", "array", "comp", "answers", "byPcall"}
  /\ e.byPcall \in BOOLEAN /\ e.table \in 1..Len(m.heap) /\ e.answers \in Seq(BOOLEAN)
  /\ AllValues(e.array, Len(m.heap), Len(m.cells)) /\ Len(e.array) >= 1
  /\ IsValue(e.comp, Len(m.heap), Len(m.cells))

(* A sort called by a pcall waits in the same frame as the pcall. *)
EntryOk(m, i) ==
  LET e == m.inner[i]
  IN  /\ e.kind \in {"pcall", "sort"}
      /\ e.frameLen \in 1..Len(m.frames) /\ e.stackLen = TopOf(m, e.frameLen)
      /\ e.kind = "sort" => SortOk(m, e)
      /\ IF e.kind = "sort" /\ e.byPcall
           THEN i > 1 /\ m.inner[i - 1].kind = "pcall" /\ m.inner[i - 1].frameLen = e.frameLen
         ELSE i > 1 => m.inner[i - 1].frameLen < e.frameLen

Waits(m, f)  == \E i \in 1..Len(m.inner) : m.inner[i].frameLen = f
Awaits(m, f) == IF \E i \in 1..Len(m.inner) : m.inner[i].frameLen = f /\ m.inner[i].kind = "pcall"
                  THEN 2 ELSE 1

FoundAt(m, f, h) == <<m.frames[f].pc, h>> \in depths[m.frames[f].proto + 1]

Shaped(m) ==
  /\ \A f \in 1..Len(m.frames) : FrameOk(m, f)
  /\ \A i \in 1..Len(m.inner) : EntryOk(m, i)
  /\ \A f \in 1..Len(m.frames) :
       f < Len(m.frames) \/ Waits(m, f) => FoundAt(m, f, Height(m, f) + Awaits(m, f))

Mid(m) == DataSound(m) /\ Shaped(m)

(* Between two instructions. *)
Done(m) ==
  /\ m.frames # << >> /\ ~Waits(m, Len(m.frames))
  /\ FoundAt(m, Len(m.frames), Height(m, Len(m.frames)))

Sound(m) == Mid(m) /\ (m.status # "done" /\ m.fault = "none" => Done(m))

-----------------------------------------------------------------------------
(* Values stay values when there are more tables and cells.                *)

LEMMA ValueGrows ==
  ASSUME NEW T \in Nat, NEW C \in Nat, NEW U \in Nat, NEW D \in Nat, T <= U, C <= D
  PROVE  /\ \A v : IsValue(v, T, C) => IsValue(v, U, D)
         /\ \A s : IsSlot(s, T, C) => IsSlot(s, U, D)
         /\ \A s : AllValues(s, T, C) => AllValues(s, U, D)
         /\ \A t : IsTable(t, T, C) => IsTable(t, U, D)
<1>1. ASSUME NEW v, IsValue(v, T, C) PROVE IsValue(v, U, D)
  BY <1>1 DEF IsValue
<1>2. ASSUME NEW s, IsSlot(s, T, C) PROVE IsSlot(s, U, D)
  BY <1>1, <1>2 DEF IsSlot, IsIterator
<1>3. ASSUME NEW s, AllValues(s, T, C) PROVE AllValues(s, U, D)
  BY <1>1, <1>3 DEF AllValues
<1>4. ASSUME NEW t, IsTable(t, T, C) PROVE IsTable(t, U, D)
  BY <1>1, <1>3, <1>4 DEF IsTable
<1>5. QED
  BY <1>1, <1>2, <1>3, <1>4

LEMMA PlainIsValue ==
  ASSUME NEW v, IsPlain(v), NEW T, NEW C
  PROVE  IsValue(v, T, C) /\ IsSlot(v, T, C)
BY DEF IsPlain, IsValue, IsSlot, NilKind, IntegerKind, StringKind, BooleanKind, TableKind,
       FunctionKind, SharedKind, HandleKind

LEMMA PlainValues ==
  /\ IsPlain(Nil) /\ IsPlain(TrueVal) /\ IsPlain(FalseVal)
  /\ \A n : IsPlain(IntVal(n)) /\ IsPlain(StrVal(n)) /\ IsPlain(Text(n)) /\ IsPlain(IntKey(n))
  /\ \A b : IsPlain(BoolVal(b))
  /\ \A v : IsKey(v) => IsPlain(v)
  /\ \A n : IsKey(IntKey(n))
BY DEF IsPlain, Nil, TrueVal, FalseVal, IntVal, StrVal, Text, IntKey, BoolVal, IsKey,
       NilKind, IntegerKind, StringKind, BooleanKind

LEMMA ResultIsPlain ==
  ASSUME NEW op, NEW a, NEW b
  PROVE  /\ IsPlain(BinaryResult(op, a, b).value)
         /\ IsPlain(Arith(op, a, b).value)
         /\ IsPlain(ConcatTwo(a, b).value)
<1>1. \A v, e : Ok(v).value = v /\ Failure(e).value = Nil
  BY DEF Ok, Failure
<1>2. IsPlain(Arith(op, a, b).value)
  BY <1>1, PlainValues DEF Arith
<1>3. IsPlain(Compare(op, a, b).value)
  BY <1>1, PlainValues DEF Compare
<1>4. IsPlain(BinaryResult(op, a, b).value)
  BY <1>1, <1>2, <1>3, PlainValues DEF BinaryResult
<1>5. IsPlain(ConcatTwo(a, b).value)
  BY <1>1, PlainValues DEF ConcatTwo
<1>6. QED
  BY <1>2, <1>4, <1>5

(* A sequence of what is in another. *)
LEMMA ValuesFrom ==
  ASSUME NEW T, NEW C, NEW s, AllValues(s, T, C), NEW r \in Seq({s[i] : i \in DOMAIN s})
  PROVE  AllValues(r, T, C)
<1> DEFINE S == {s[i] : i \in DOMAIN s}
<1>1. \A x \in S : IsValue(x, T, C)
  BY SeqFacts DEF AllValues
<1>2. r \in Seq(S)
  OBVIOUS
<1> HIDE DEF S
<1>3. IsSeq(r) /\ \A i \in 1..Len(r) : r[i] \in S
  BY <1>2, SeqIs
<1>4. QED
  BY <1>1, <1>3 DEF AllValues

-----------------------------------------------------------------------------
(* What tables hold.                                                       *)

LEMMA TableParts ==
  ASSUME NEW T, NEW C, NEW t, IsTable(t, T, C), NEW a, NEW h, NEW n, NEW c,
         AllValues(a, T, C), IsFiniteSet(DOMAIN h),
         \A k \in DOMAIN h : IsKey(k) /\ IsValue(h[k], T, C),
         NEW u, DOMAIN u = DOMAIN t, u.array = a, u.hash = h
  PROVE  IsTable(u, T, C)
BY DEF IsTable

LEMMA GetHeld ==
  ASSUME NEW T, NEW C, NEW t, IsTable(t, T, C), NEW k
  PROVE  IsValue(Get(t, k), T, C)
BY PlainValues, PlainIsValue DEF IsTable, AllValues, Get, InArray, Length

LEMMA WithoutOne ==
  ASSUME NEW s, IsSeq(s), NEW k \in 1..Len(s)
  PROVE  RemoveAt(s, k) \in Seq({s[i] : i \in DOMAIN s})
<1> DEFINE S == {s[i] : i \in DOMAIN s}
<1>1. s \in Seq(S)
  BY DEF IsSeq
<1> HIDE DEF S
<1>2. Len(s) \in Nat
  BY <1>1
<1>3. SubSeq(s, 1, k - 1) \in Seq(S) /\ SubSeq(s, k + 1, Len(s)) \in Seq(S)
  <2>1. \A i \in 1..Len(s) : s[i] \in S
    BY <1>1
  <2>2. SubSeq(s, 1, k - 1) \in Seq(S)
    BY <1>1, <1>2, <2>1
  <2>3. SubSeq(s, k + 1, Len(s)) \in Seq(S)
    BY <1>1, <1>2, <2>1
  <2>4. QED
    BY <2>2, <2>3
<1>4. RemoveAt(s, k) \in Seq(S)
  BY <1>3 DEF RemoveAt
<1>5. QED
  BY <1>4 DEF S

LEMMA RawremoveHeld ==
  ASSUME NEW T, NEW C, NEW t, IsTable(t, T, C), NEW k
  PROVE  IsTable(Rawremove(t, k), T, C)
<1> DEFINE a == RemoveAt(t.array, k[2])
           h == Without(t.hash, k)
           less == [t EXCEPT !.array = a, !.entries = @ - 1]
           gone == [t EXCEPT !.hash = h, !.entries = @ - 1]
<1>1. /\ AllValues(t.array, T, C) /\ IsFiniteSet(DOMAIN t.hash)
      /\ \A j \in DOMAIN t.hash : IsKey(j) /\ IsValue(t.hash[j], T, C)
      /\ DOMAIN t = {"array", "hash", "entries", "capacity"}
  BY DEF IsTable
<1>2. ASSUME InArray(t, k) PROVE IsTable(less, T, C)
  <2>1. IsSeq(t.array) /\ k[2] \in 1..Len(t.array)
    BY <1>1, <1>2 DEF AllValues, InArray, Length
  <2>2. AllValues(a, T, C)
    BY <1>1, <2>1, WithoutOne, ValuesFrom
  <2>3. less.array = a /\ less.hash = t.hash /\ DOMAIN less = DOMAIN t
    BY <1>1
  <2> HIDE DEF less, a
  <2>4. QED
    BY <1>1, <2>2, <2>3 DEF IsTable
<1>3. IsTable(gone, T, C)
  <2>1. DOMAIN h = DOMAIN t.hash \ {k} /\ \A j \in DOMAIN h : h[j] = t.hash[j]
    BY DEF Without
  <2>2. IsFiniteSet(DOMAIN h)
    BY <1>1, <2>1, FS_Subset
  <2>3. gone.array = t.array /\ gone.hash = h /\ DOMAIN gone = DOMAIN t
    BY <1>1
  <2> HIDE DEF gone, h
  <2>4. QED
    BY <1>1, <2>1, <2>2, <2>3 DEF IsTable
<1>4. Rawremove(t, k) = less \/ Rawremove(t, k) = gone \/ Rawremove(t, k) = t
  BY DEF Rawremove
<1>5. ~InArray(t, k) => Rawremove(t, k) = gone \/ Rawremove(t, k) = t
  BY DEF Rawremove
<1> HIDE DEF less, gone
<1>6. QED
  BY <1>2, <1>3, <1>4, <1>5

(* Some key after the array part is missing from the hash part. *)
LEMMA KeyRunEnds ==
  ASSUME NEW D, IsFiniteSet(D), NEW n \in Nat
  PROVE  /\ Cardinality(D) \in Nat
         /\ \E m \in n..n + Cardinality(D) :
              (\A i \in n + 1..m : IntKey(i) \in D) /\ IntKey(m + 1) \notin D
<1> DEFINE size == Cardinality(D)
           M == {m \in Nat : m >= n /\ IntKey(m + 1) \notin D}
           f == [i \in n + 1..n + size + 1 |-> IntKey(i)]
<1>1. size \in Nat
  BY FS_CardinalityType
<1> HIDE DEF size
<1>2. PICK x \in n + 1..n + size + 1 : IntKey(x) \notin D
  <2> SUFFICES ASSUME \A i \in n + 1..n + size + 1 : IntKey(i) \in D PROVE FALSE
    OBVIOUS
  <2>1. \A i, j \in n + 1..n + size + 1 : IntKey(i) = IntKey(j) => i = j
    BY <1>1 DEF IntKey, IntVal
  <2>2. f \in Injection(n + 1..n + size + 1, D)
    BY <2>1 DEF Injection, IsInjective
  <2>3. Cardinality(n + 1..n + size + 1) <= size
    BY <2>2, FS_Injection DEF size
  <2>4. Cardinality(n + 1..n + size + 1) =
          IF n + 1 > n + size + 1 THEN 0 ELSE (n + size + 1) - (n + 1) + 1
    <3>1. n + 1 \in Int /\ n + size + 1 \in Int
      BY <1>1
    <3>2. QED
      BY <3>1, FS_Interval
  <2>5. QED
    BY <1>1, <2>3, <2>4
<1>3. x - 1 \in M
  BY <1>1, <1>2
<1>4. PICK m \in M : \A j \in M : m <= j
  <2>1. M \in SUBSET Nat
    OBVIOUS
  <2> HIDE DEF M
  <2>2. QED
    BY <1>3, <2>1, LeastNat
<1>5. m \in n..n + size
  BY <1>1, <1>2, <1>3, <1>4
<1>6. ASSUME NEW i \in n + 1..m PROVE IntKey(i) \in D
  <2>1. i - 1 \in Nat /\ i - 1 >= n /\ ~(m <= i - 1) /\ (i - 1) + 1 = i
    BY <1>5
  <2>2. i - 1 \notin M
    BY <1>4, <2>1
  <2>3. QED
    BY <2>1, <2>2
<1>7. IntKey(m + 1) \notin D
  BY <1>4
<1> HIDE DEF M, f
<1>8. \E k \in n..n + size : (\A i \in n + 1..k : IntKey(i) \in D) /\ IntKey(k + 1) \notin D
  BY <1>5, <1>6, <1>7
<1>9. QED
  BY <1>1, <1>8 DEF size

LEMMA ConsolidateHeld ==
  ASSUME NEW T, NEW C, NEW t, IsTable(t, T, C)
  PROVE  IsTable(Consolidate(t), T, C)
<1> DEFINE n == Len(t.array)
           D == DOMAIN t.hash
           IsEnd(m) == (\A i \in n + 1..m : IntKey(i) \in D) /\ IntKey(m + 1) \notin D
           end == CHOOSE m \in n..n + Cardinality(D) : IsEnd(m)
           a == [i \in 1..end |-> IF i <= n THEN t.array[i] ELSE t.hash[IntKey(i)]]
           E == {j \in D : ~(j[1] = IntegerKind /\ j[2] \in 1..end)}
           h == [k \in E |-> t.hash[k]]
           u == [t EXCEPT !.array = a, !.hash = h]
<1>1. /\ IsSeq(t.array) /\ (\A i \in 1..n : IsValue(t.array[i], T, C)) /\ IsFiniteSet(D)
      /\ \A j \in D : IsKey(j) /\ IsValue(t.hash[j], T, C)
      /\ DOMAIN t = {"array", "hash", "entries", "capacity"}
  BY DEF IsTable, AllValues
<1>2. n \in Nat
  BY <1>1, SeqFacts
<1>3. end \in Nat /\ end >= n /\ IsEnd(end)
  <2>1. Cardinality(D) \in Nat /\ \E m \in n..n + Cardinality(D) : IsEnd(m)
    <3> HIDE DEF D, n
    <3>1. QED
      BY <1>1, <1>2, KeyRunEnds
  <2> HIDE DEF IsEnd
  <2>2. end \in n..n + Cardinality(D) /\ IsEnd(end)
    BY <2>1
  <2>3. QED
    BY <1>2, <2>1, <2>2
<1>4. Consolidate(t) = u
  BY DEF Consolidate, Length
<1> HIDE DEF end
<1>5. ASSUME NEW i \in 1..end PROVE IsValue(a[i], T, C)
  <2>1. CASE i <= n
    BY <1>1, <1>2, <1>3, <2>1
  <2>2. CASE ~(i <= n)
    <3>1. i \in n + 1..end
      BY <1>2, <1>3, <2>2
    <3>2. QED
      BY <1>1, <1>3, <2>2, <3>1
  <2>3. QED
    BY <2>1, <2>2
<1>6. AllValues(a, T, C)
  <2>1. a = [i \in 1..end |-> a[i]]
    OBVIOUS
  <2> HIDE DEF a
  <2>2. IsSeq(a) /\ Len(a) = end
    BY <1>3, <2>1, SeqFrom
  <2>3. QED
    BY <1>5, <2>2 DEF AllValues
<1>7. /\ IsFiniteSet(DOMAIN h)
      /\ \A k \in DOMAIN h : IsKey(k) /\ IsValue(h[k], T, C)
  <2>1. DOMAIN h \subseteq D /\ \A k \in DOMAIN h : h[k] = t.hash[k]
    OBVIOUS
  <2> HIDE DEF h
  <2>2. QED
    BY <1>1, <2>1, FS_Subset
<1>8. DOMAIN u = DOMAIN t /\ u.array = a /\ u.hash = h
  BY <1>1
<1> HIDE DEF u, a, h
<1>9. QED
  BY <1>4, <1>6, <1>7, <1>8, TableParts

LEMMA AppendValue ==
  ASSUME NEW T, NEW C, NEW s, AllValues(s, T, C), NEW v, IsValue(v, T, C)
  PROVE  AllValues(Append(s, v), T, C)
<1>1. IsSeq(s)
  BY DEF AllValues
<1>2. /\ IsSeq(Append(s, v)) /\ Len(Append(s, v)) = Len(s) + 1 /\ Append(s, v)[Len(s) + 1] = v
      /\ \A i \in 1..Len(s) : Append(s, v)[i] = s[i]
  BY <1>1, SeqAppend
<1>3. \A i \in 1..Len(s) + 1 : i \in 1..Len(s) \/ i = Len(s) + 1
  BY <1>1, SeqFacts
<1>4. QED
  BY <1>2, <1>3 DEF AllValues

LEMMA ExtendHeld ==
  ASSUME NEW T, NEW C, NEW t, IsTable(t, T, C), NEW v, IsValue(v, T, C)
  PROVE  IsTable(Extend(t, v), T, C)
<1> DEFINE u == [t EXCEPT !.array = Append(@, v), !.entries = @ + 1]
<1>1. AllValues(Append(t.array, v), T, C)
  BY AppendValue DEF IsTable
<1>2. IsTable(u, T, C)
  BY <1>1 DEF IsTable
<1> HIDE DEF u
<1>3. QED
  BY <1>2, ConsolidateHeld DEF Extend, u

LEMMA InsertHeld ==
  ASSUME NEW T, NEW C, NEW t, IsTable(t, T, C), NEW k, IsKey(k), NEW v, IsValue(v, T, C)
  PROVE  IsTable(Insert(t, k, v), T, C)
<1> DEFINE h == [j \in DOMAIN t.hash \cup {k} |-> IF j = k THEN v ELSE t.hash[j]]
           needed == CapacityFor(Cardinality(DOMAIN h))
           u == [t EXCEPT !.hash = h, !.entries = @ + 1,
                          !.capacity = IF needed > @ THEN needed ELSE @]
<1>1. IsFiniteSet(DOMAIN h) /\ \A j \in DOMAIN h : IsKey(j) /\ IsValue(h[j], T, C)
  <2>1. DOMAIN h = DOMAIN t.hash \cup {k} /\ IsFiniteSet(DOMAIN t.hash)
    BY DEF IsTable
  <2>2. IsFiniteSet(DOMAIN h)
    BY <2>1, FS_AddElement
  <2>3. QED
    BY <2>2 DEF IsTable
<1>2. DOMAIN u = DOMAIN t /\ u.array = t.array /\ u.hash = h
  BY DEF IsTable
<1>3. Insert(t, k, v) = u
  BY DEF Insert
<1> HIDE DEF u, h, needed
<1>4. AllValues(t.array, T, C)
  BY DEF IsTable
<1>5. QED
  BY <1>1, <1>2, <1>3, <1>4, TableParts

LEMMA PutInPlace ==
  ASSUME NEW T, NEW C, NEW s, AllValues(s, T, C), NEW i \in 1..Len(s), NEW v, IsValue(v, T, C)
  PROVE  AllValues([s EXCEPT ![i] = v], T, C)
<1> DEFINE r == [s EXCEPT ![i] = v]
<1>1. IsSeq(s)
  BY DEF AllValues
<1>2. DOMAIN s = 1..Len(s) /\ Len(s) \in Nat
  BY <1>1, SeqFacts
<1>3. r = [j \in 1..Len(s) |-> r[j]] /\ r[i] = v /\ \A j \in 1..Len(s) : j # i => r[j] = s[j]
  BY <1>2
<1> HIDE DEF r
<1>4. IsSeq(r) /\ Len(r) = Len(s)
  BY <1>2, <1>3, SeqFrom
<1>5. AllValues(r, T, C)
  BY <1>3, <1>4 DEF AllValues
<1>6. QED
  BY <1>5 DEF r

LEMMA RawsetHeld ==
  ASSUME NEW T, NEW C, NEW t, IsTable(t, T, C), NEW k, IsKey(k), NEW v, IsValue(v, T, C)
  PROVE  IsTable(Rawset(t, k, v).table, T, C)
<1> DEFINE i == AsUsize(k[2])
           inArray == [t EXCEPT !.array = [@ EXCEPT ![i] = v]]
           inHash  == [t EXCEPT !.hash = [@ EXCEPT ![k] = v]]
<1>1. i \in 1..Length(t) => IsTable(inArray, T, C)
  <2>1. i \in 1..Length(t) => AllValues([t.array EXCEPT ![i] = v], T, C)
    BY PutInPlace DEF Length, IsTable
  <2>2. QED
    BY <2>1 DEF IsTable
<1>2. k \in DOMAIN t.hash => IsTable(inHash, T, C)
  BY DEF IsTable
<1>3. \/ Rawset(t, k, v).table = t
      \/ Rawset(t, k, v).table = Rawremove(t, k)
      \/ i \in 1..Length(t) /\ Rawset(t, k, v).table = inArray
      \/ Rawset(t, k, v).table = Extend(t, v)
      \/ k \in DOMAIN t.hash /\ Rawset(t, k, v).table = inHash
      \/ Rawset(t, k, v).table = Insert(t, k, v)
  <2> DEFINE r == Rawset(t, k, v)
  <2>1. \/ r = SetResult(t, FALSE, FALSE, "runtime")
        \/ r = SetResult(Rawremove(t, k), FALSE, FALSE, "none")
        \/ r = SetResult(t, FALSE, FALSE, "panic")
        \/ i \in 1..Length(t) /\ r = Stored(t, inArray)
        \/ r = Stored(t, Extend(t, v))
        \/ k \in DOMAIN t.hash /\ r = Stored(t, inHash)
        \/ r = Stored(t, Insert(t, k, v))
    BY DEF Rawset
  <2> HIDE DEF r, inArray, inHash
  <2>2. /\ r = SetResult(t, FALSE, FALSE, "runtime") => r.table = t
        /\ r = SetResult(t, FALSE, FALSE, "panic") => r.table = t
        /\ r = SetResult(Rawremove(t, k), FALSE, FALSE, "none") => r.table = Rawremove(t, k)
    BY DEF SetResult
  <2>3. \A u : Stored(t, u).table = u
    BY DEF SetResult, Stored
  <2>4. QED
    BY <2>1, <2>2, <2>3 DEF r
<1> HIDE DEF inArray, inHash, i
<1>4. QED
  BY <1>1, <1>2, <1>3, RawremoveHeld, ExtendHeld, InsertHeld

-----------------------------------------------------------------------------
(* The operators of Meters, and what a sort writes back.                   *)

IsMetered(x, T, C) ==
  DOMAIN x = {"table", "gas", "mem", "fault"} /\ IsTable(x.table, T, C)

Metes(x, r, T, C) == IsMetered(r, T, C) /\ (r.fault = "none" => x.fault = "none")

LEMMA MetesTwice ==
  ASSUME NEW T, NEW C, NEW x, NEW r, NEW s, Metes(x, r, T, C), Metes(r, s, T, C)
  PROVE  Metes(x, s, T, C)
BY DEF Metes

LEMMA ChargeMetes ==
  ASSUME NEW T, NEW C, NEW x, IsMetered(x, T, C), NEW n
  PROVE  Metes(x, Charge(x, n), T, C) /\ Charge(x, n).table = x.table
BY DEF Charge, IsMetered, Metes

LEMMA AllocMetes ==
  ASSUME NEW T, NEW C, NEW x, IsMetered(x, T, C), NEW n
  PROVE  Metes(x, Alloc(x, n), T, C)
BY DEF Alloc, IsMetered, Metes

LEMMA SetRawMetes ==
  ASSUME NEW T, NEW C, NEW x, IsMetered(x, T, C), NEW k, IsKey(k), NEW v, IsValue(v, T, C)
  PROVE  Metes(x, SetRaw(x, k, v), T, C)
<1>1. IsTable(Rawset(x.table, k, v).table, T, C)
  BY RawsetHeld DEF IsMetered
<1>2. QED
  BY <1>1 DEF SetRaw, IsMetered, Metes

LEMMA SetPaidMetes ==
  ASSUME NEW T, NEW C, NEW x, IsMetered(x, T, C), NEW k, IsKey(k), NEW v, IsValue(v, T, C)
  PROVE  Metes(x, SetPaid(x, k, v), T, C)
<1> DEFINE u == SetRaw(x, k, v)
<1>1. Metes(x, u, T, C) /\ IsMetered(u, T, C)
  BY SetRawMetes DEF Metes
<1>2. SetPaid(x, k, v) = u \/ \E n : SetPaid(x, k, v) = Alloc(u, n)
  BY DEF SetPaid
<1> HIDE DEF u
<1>3. QED
  BY <1>1, <1>2, AllocMetes, MetesTwice

LEMMA DoRawsetMetes ==
  ASSUME NEW T, NEW C, NEW x, IsMetered(x, T, C), NEW k, IsKey(k), NEW v, IsValue(v, T, C)
  PROVE  Metes(x, DoRawset(x, k, v), T, C)
<1> DEFINE r == Rawset(x.table, k, v)
           u == SetRaw(x, k, v)
           paid == IF ~r.inserted THEN Charge(u, TableSetExisting)
                   ELSE IF r.grew THEN Charge(Charge(u, TableSetNewKey), r.table.capacity)
                   ELSE Charge(u, TableSetNewKey)
<1>1. Metes(x, u, T, C) /\ IsMetered(u, T, C)
  BY SetRawMetes DEF Metes
<1>2. \/ DoRawset(x, k, v) = u
      \/ DoRawset(x, k, v) = paid
      \/ \E n : DoRawset(x, k, v) = Alloc(paid, n)
  BY DEF DoRawset
<1> HIDE DEF u
<1>3. Metes(x, paid, T, C) /\ IsMetered(paid, T, C)
  <2>1. \A n : Metes(x, Charge(u, n), T, C) /\ IsMetered(Charge(u, n), T, C)
    BY <1>1, ChargeMetes, MetesTwice DEF Metes
  <2>2. \A n, j : Metes(x, Charge(Charge(u, n), j), T, C)
    BY <2>1, ChargeMetes, MetesTwice
  <2>3. QED
    BY <2>1, <2>2 DEF Metes
<1> HIDE DEF paid
<1>4. QED
  BY <1>1, <1>2, <1>3, AllocMetes, MetesTwice

(* An insertion after the last element, which moves nothing. *)
LEMMA InsertMetes ==
  ASSUME NEW T, NEW C, NEW x, IsMetered(x, T, C), NEW v, IsValue(v, T, C)
  PROVE  Metes(x, TableInsert(x, Length(x.table) + 1, v), T, C)
<1> DEFINE len == Length(x.table)
           MoveUp(u, k) == SetPaid(u, IntKey(k + 1), Get(u.table, IntKey(k)))
           pos == len + 1
           after[i \in 0..len - pos + 1] ==
             IF i = 0 THEN Charge(x, 5 + len - pos + 1) ELSE MoveUp(after[i - 1], len + 1 - i)
<1>1. len \in Nat
  BY SeqFacts DEF IsMetered, IsTable, AllValues, Length
<1>2. TableInsert(x, len + 1, v) = SetPaid(after[len - pos + 1], IntKey(pos), v)
  BY DEF TableInsert
<1>3. after[len - pos + 1] = Charge(x, 5 + len - pos + 1)
  <2> DEFINE g == [i \in 0..len - pos + 1 |-> Charge(x, 5 + len - pos + 1)]
             Rec(f) == f = [i \in 0..len - pos + 1 |->
                              IF i = 0 THEN Charge(x, 5 + len - pos + 1)
                              ELSE MoveUp(f[i - 1], len + 1 - i)]
  <2> HIDE DEF len
  <2>1. \A i \in 0..len - pos + 1 : i = 0
    BY <1>1
  <2>2. Rec(g)
    BY <2>1
  <2> HIDE DEF g
  <2>3. Rec(after)
    BY <2>2
  <2>4. 0 \in 0..len - pos + 1 /\ len - pos + 1 = 0
    BY <1>1
  <2> HIDE DEF after
  <2>5. after[0] = Charge(x, 5 + len - pos + 1)
    BY <2>3, <2>4
  <2>6. QED
    BY <2>4, <2>5
<1> HIDE DEF after, len
<1>4. \A n : Metes(x, Charge(x, n), T, C) /\ IsMetered(Charge(x, n), T, C)
  BY ChargeMetes DEF Metes
<1>5. IsKey(IntKey(pos))
  BY PlainValues
<1>6. QED
  BY <1>2, <1>3, <1>4, <1>5, SetPaidMetes, MetesTwice DEF len

(* The last element removed, which moves nothing. *)
LEMMA RemoveMetes ==
  ASSUME NEW T, NEW C, NEW x, IsMetered(x, T, C)
  PROVE  Metes(x, TableRemove(x, Length(x.table)), T, C)
<1> DEFINE len == Length(x.table)
           MoveDown(u, k) == SetRaw(u, IntKey(k), Get(u.table, IntKey(k + 1)))
           after[i \in 0..len - len] ==
             IF i = 0 THEN Charge(x, 5 + len - len) ELSE MoveDown(after[i - 1], len + i - 1)
           shifted == after[len - len]
<1>1. len \in Nat
  BY SeqFacts DEF IsMetered, IsTable, AllValues, Length
<1>2. TableRemove(x, len) = IF shifted.fault # "none" THEN shifted
                            ELSE [shifted EXCEPT !.table = Rawremove(@, IntKey(len))]
  BY DEF TableRemove
<1>3. shifted = Charge(x, 5 + len - len)
  <2> DEFINE g == [i \in 0..len - len |-> Charge(x, 5 + len - len)]
             Rec(f) == f = [i \in 0..len - len |->
                              IF i = 0 THEN Charge(x, 5 + len - len)
                              ELSE MoveDown(f[i - 1], len + i - 1)]
  <2> HIDE DEF len
  <2>1. \A i \in 0..len - len : i = 0
    BY <1>1
  <2>2. Rec(g)
    BY <2>1
  <2> HIDE DEF g
  <2>3. Rec(after)
    BY <2>2
  <2>4. 0 \in 0..len - len /\ len - len = 0
    BY <1>1
  <2> HIDE DEF after
  <2>5. after[0] = Charge(x, 5 + len - len)
    BY <2>3, <2>4
  <2>6. QED
    BY <2>4, <2>5
<1>4. Metes(x, shifted, T, C) /\ IsMetered(shifted, T, C)
  BY <1>3, ChargeMetes DEF Metes
<1> HIDE DEF shifted, after, len
<1>5. IsTable(Rawremove(shifted.table, IntKey(len)), T, C)
  BY <1>4, RawremoveHeld DEF IsMetered
<1>6. Metes(x, TableRemove(x, len), T, C)
  BY <1>2, <1>4, <1>5 DEF Metes, IsMetered
<1>7. QED
  BY <1>6 DEF len

LEMMA PutMetes ==
  ASSUME NEW T, NEW C, NEW x, IsMetered(x, T, C), NEW array, AllValues(array, T, C)
  PROVE  LET after[i \in 0..Len(array)] ==
               IF i = 0 THEN x ELSE SetRaw(after[i - 1], IntKey(i), array[i])
         IN  Metes(x, after[Len(array)], T, C)
<1> DEFINE n == Len(array)
           PutAt(y, i) == SetRaw(y, IntKey(i), array[i])
           Rec(f, k) == f = [i \in 0..k |-> IF i = 0 THEN x ELSE PutAt(f[i - 1], i)]
           after[i \in 0..n] == IF i = 0 THEN x ELSE PutAt(after[i - 1], i)
           K == {k \in Nat : \E f : Rec(f, k)}
           J == {k \in Nat : k <= n => Metes(x, after[k], T, C)}
<1>1. n \in Nat /\ \A i \in 1..n : IsValue(array[i], T, C)
  BY SeqFacts DEF AllValues
<1>2. ASSUME NEW y, Metes(x, y, T, C), NEW i \in 1..n PROVE Metes(x, PutAt(y, i), T, C)
  <2>1. IsMetered(y, T, C) /\ IsKey(IntKey(i)) /\ IsValue(array[i], T, C)
    BY <1>1, <1>2, PlainValues DEF Metes
  <2>2. Metes(y, PutAt(y, i), T, C)
    BY <2>1, SetRawMetes
  <2>3. QED
    BY <1>2, <2>2, MetesTwice
<1> HIDE DEF PutAt, n
<1>3. 0 \in K
  <2> DEFINE f == [i \in 0..0 |-> x]
  <2>1. Rec(f, 0)
    OBVIOUS
  <2> HIDE DEF f
  <2>2. QED
    BY <2>1
<1>4. ASSUME NEW k \in K PROVE k + 1 \in K
  <2>1. PICK g : Rec(g, k)
    OBVIOUS
  <2> DEFINE f == [i \in 0..k + 1 |-> IF i = k + 1 THEN PutAt(g[k], k + 1) ELSE g[i]]
  <2>2. Rec(f, k + 1)
    BY <2>1
  <2> HIDE DEF f
  <2>3. QED
    BY <2>2
<1>5. K = Nat
  <2> HIDE DEF K
  <2>1. K \in SUBSET Nat
    BY DEF K
  <2>2. QED
    BY <1>3, <1>4, <2>1, NatInd
<1>6. Rec(after, n)
  BY <1>1, <1>5
<1> HIDE DEF after
<1>7. 0 \in J
  <2>1. after[0] = x
    BY <1>1, <1>6
  <2>2. QED
    BY <2>1 DEF Metes
<1>8. ASSUME NEW k \in J PROVE k + 1 \in J
  <2>1. CASE k + 1 <= n
    <3>1. after[k + 1] = PutAt(after[k], k + 1) /\ Metes(x, after[k], T, C)
      BY <1>1, <1>6, <2>1
    <3>2. QED
      BY <1>1, <1>2, <2>1, <3>1
  <2>2. QED
    BY <1>1, <2>1
<1>9. J = Nat
  <2> HIDE DEF J
  <2>1. J \in SUBSET Nat
    BY DEF J
  <2>2. QED
    BY <1>7, <1>8, <2>1, NatInd
<1>10. Metes(x, after[n], T, C)
  BY <1>1, <1>9
<1>11. QED
  BY <1>10 DEF after, n, PutAt

-----------------------------------------------------------------------------
(* What sorts make of values.                                              *)

LEMMA KeysInOrder ==
  ASSUME NEW S, IsFiniteSet(S)
  PROVE  IsSeq(InOrder(S)) /\ \A i \in 1..Len(InOrder(S)) : InOrder(S)[i] \in S
<1> DEFINE n == Cardinality(S)
           r == InOrder(S)
           place(k) == Cardinality({j \in S : KeyBefore(j, k)})
<1>1. n \in Nat
  BY FS_CardinalityType
<1>2. ASSUME NEW i \in 1..n PROVE \E k \in S : place(k) = i - 1 \/ \A j \in S : place(j) # i - 1
  <2>1. S # {}
    BY <1>1, FS_EmptySet
  <2> HIDE DEF place
  <2>2. QED
    BY <2>1
<1>3. r = [i \in 1..n |-> CHOOSE k \in S : place(k) = i - 1 \/ \A j \in S : place(j) # i - 1]
  BY DEF InOrder
<1> HIDE DEF r, n, place
<1>4. \A i \in 1..n : r[i] \in S
  BY <1>2, <1>3
<1>5. r = [i \in 1..n |-> r[i]]
  BY <1>3
<1>6. IsSeq(r) /\ Len(r) = n
  BY <1>1, <1>5, SeqFrom
<1>7. QED
  BY <1>4, <1>6 DEF r

LEMMA KeysAreKeys ==
  ASSUME NEW T, NEW C, NEW t, IsTable(t, T, C)
  PROVE  IsSeq(SortedKeys(t)) /\ \A i \in 1..Len(SortedKeys(t)) : IsKey(SortedKeys(t)[i])
<1> DEFINE a == [i \in 1..Length(t) |-> IntKey(i)]
           b == InOrder(DOMAIN t.hash)
           S == {a[i] : i \in DOMAIN a} \cup {b[i] : i \in DOMAIN b}
<1>1. Length(t) \in Nat
  BY SeqFacts DEF IsTable, AllValues, Length
<1>2. IsSeq(a) /\ \A i \in DOMAIN a : IsKey(a[i])
  <2>1. \A i \in DOMAIN a : IsKey(a[i])
    BY PlainValues
  <2>2. a = [i \in 1..Length(t) |-> a[i]]
    OBVIOUS
  <2> HIDE DEF a
  <2>3. QED
    BY <1>1, <2>1, <2>2, SeqFrom
<1>3. IsSeq(b) /\ \A i \in DOMAIN b : IsKey(b[i])
  BY KeysInOrder, SeqFacts DEF IsTable
<1> HIDE DEF a, b
<1>4. a \in Seq(S) /\ b \in Seq(S)
  BY <1>2, <1>3 DEF IsSeq
<1>5. \A x \in S : IsKey(x)
  BY <1>2, <1>3
<1>6. SortedKeys(t) = a \o b
  BY DEF SortedKeys, a, b
<1> HIDE DEF S
<1>7. SortedKeys(t) \in Seq(S)
  BY <1>4, <1>6
<1> DEFINE r == SortedKeys(t)
<1> HIDE DEF r
<1>8. IsSeq(r) /\ \A i \in 1..Len(r) : r[i] \in S
  BY <1>7, SeqIs DEF r
<1>9. QED
  BY <1>5, <1>8 DEF r

LEMMA SortedValues ==
  ASSUME NEW T, NEW C, NEW s, AllValues(s, T, C)
  PROVE  AllValues(SortedSeq(s), T, C)
<1> DEFINE r == SortedSeq(s)
           place(p) == Cardinality({q \in DOMAIN s : Precedes(s, q, p)})
           at(i) == CHOOSE p \in DOMAIN s : place(p) = i - 1 \/ \A q \in DOMAIN s : place(q) # i - 1
<1>1. DOMAIN s = 1..Len(s) /\ Len(s) \in Nat /\ \A p \in DOMAIN s : IsValue(s[p], T, C)
  BY SeqFacts DEF AllValues
<1>2. r = [i \in 1..Len(s) |-> s[at(i)]]
  BY <1>1 DEF SortedSeq
<1> HIDE DEF r, place
<1>3. ASSUME NEW i \in 1..Len(s) PROVE at(i) \in DOMAIN s
  BY <1>1
<1> HIDE DEF at
<1>4. \A i \in 1..Len(s) : IsValue(r[i], T, C)
  BY <1>1, <1>2, <1>3
<1>5. r = [i \in 1..Len(s) |-> r[i]]
  BY <1>2
<1>6. IsSeq(r) /\ Len(r) = Len(s)
  BY <1>1, <1>5, SeqFrom
<1>7. QED
  BY <1>4, <1>6 DEF AllValues, r

LEMMA MergeOutcome ==
  ASSUME NEW S, NEW A, A \in Seq(BOOLEAN), NEW left \in Seq(S), NEW right \in Seq(S),
         NEW used \in 0..Len(A)
  PROVE  LET r == Merge(left, right, used, A)
         IN  /\ r.array \in Seq(S) /\ r.used \in 0..Len(A)
             /\ r.ask = << >> \/ \E x, y \in S : r.ask = <<x, y>>
<1> DEFINE n == Len(left) + Len(right)
           St == [array : Seq(S), left : Seq(S), right : Seq(S), used : 0..Len(A)]
           c == [array |-> << >>, left |-> left, right |-> right, used |-> used]
           Rec(f, k) == f = [i \in 0..k |-> IF i = 0 THEN c ELSE TakeOne(f[i - 1], A)]
           after[k \in 0..n] == IF k = 0 THEN c ELSE TakeOne(after[k - 1], A)
           s == after[n]
           K == {k \in Nat : \E f : Rec(f, k)}
           J == {k \in Nat : k <= n => after[k] \in St}
<1>1. n \in Nat /\ c \in St
  OBVIOUS
<1>2. ASSUME NEW y \in St PROVE TakeOne(y, A) \in St
  <2>1. CASE ~Merging(y) \/ y.used >= Len(A)
    BY <2>1 DEF TakeOne
  <2>2. CASE Merging(y) /\ ~(y.used >= Len(A))
    <3>1. y.left \in Seq(S) /\ y.right \in Seq(S) /\ y.left # << >> /\ y.right # << >>
          /\ y.array \in Seq(S) /\ y.used \in 0..Len(A) /\ y.used + 1 \in 0..Len(A)
      BY <2>2 DEF Merging
    <3>2. Head(y.left) \in S /\ Tail(y.left) \in Seq(S)
      BY <3>1
    <3>3. Head(y.right) \in S /\ Tail(y.right) \in Seq(S)
      BY <3>1
    <3>4. Append(y.array, Head(y.left)) \in Seq(S) /\ Append(y.array, Head(y.right)) \in Seq(S)
      BY <3>1, <3>2, <3>3
    <3>5. A[y.used + 1] \in BOOLEAN
      BY <3>1, <2>2
    <3>6. CASE A[y.used + 1] = TRUE
      BY <2>2, <3>1, <3>2, <3>4, <3>6 DEF TakeOne
    <3>7. CASE A[y.used + 1] = FALSE
      BY <2>2, <3>1, <3>3, <3>4, <3>7 DEF TakeOne
    <3>8. QED
      BY <3>5, <3>6, <3>7
  <2>3. QED
    BY <2>1, <2>2
<1> HIDE DEF n, c, St
<1>3. 0 \in K
  <2> DEFINE f == [i \in 0..0 |-> c]
  <2>1. Rec(f, 0)
    OBVIOUS
  <2> HIDE DEF f
  <2>2. QED
    BY <2>1
<1>4. ASSUME NEW k \in K PROVE k + 1 \in K
  <2>1. PICK g : Rec(g, k)
    OBVIOUS
  <2> DEFINE f == [i \in 0..k + 1 |-> IF i = k + 1 THEN TakeOne(g[k], A) ELSE g[i]]
  <2>2. Rec(f, k + 1)
    BY <2>1
  <2> HIDE DEF f, Rec
  <2>3. QED
    BY <2>2
<1>5. K = Nat
  <2> HIDE DEF K
  <2>1. K \in SUBSET Nat
    BY DEF K
  <2>2. QED
    BY <1>3, <1>4, <2>1, NatInd
<1>6. Rec(after, n)
  BY <1>1, <1>5
<1> HIDE DEF after
<1>7. 0 \in J
  BY <1>1, <1>6
<1>8. ASSUME NEW k \in J PROVE k + 1 \in J
  BY <1>1, <1>2, <1>6
<1>9. J = Nat
  <2> HIDE DEF J
  <2>1. J \in SUBSET Nat
    BY DEF J
  <2>2. QED
    BY <1>7, <1>8, <2>1, NatInd
<1>10. s \in St
  BY <1>1, <1>9
<1> HIDE DEF s
<1>11. Merge(left, right, used, A) =
         IF Merging(s) THEN Sorting(<< >>, s.used, <<Head(s.left), Head(s.right)>>)
         ELSE Sorting(s.array \o s.left \o s.right, s.used, << >>)
  BY DEF Merge, s, after, n, c
<1>12. s.array \in Seq(S) /\ s.left \in Seq(S) /\ s.right \in Seq(S) /\ s.used \in 0..Len(A)
  BY <1>10 DEF St
<1>13. CASE Merging(s)
  <2>1. Head(s.left) \in S /\ Head(s.right) \in S
    BY <1>12, <1>13 DEF Merging
  <2>2. QED
    BY <1>11, <1>12, <1>13, <2>1 DEF Sorting
<1>14. CASE ~Merging(s)
  <2>1. s.array \o s.left \o s.right \in Seq(S)
    BY <1>12
  <2>2. QED
    BY <1>11, <1>12, <1>14, <2>1 DEF Sorting
<1>15. QED
  BY <1>13, <1>14

LEMMA MergeSortOutcome ==
  ASSUME NEW S, NEW A, A \in Seq(BOOLEAN), NEW array \in Seq(S), array # << >>
  PROVE  LET r == MergeSort(array, A)
         IN  r.array \in Seq(S) /\ (r.ask = << >> \/ \E x, y \in S : r.ask = <<x, y>>)
<1> DEFINE n == Len(array)
           Fine(r) == /\ r.array \in Seq(S) /\ r.used \in 0..Len(A)
                      /\ r.ask = << >> \/ \E x, y \in S : r.ask = <<x, y>>
           Slices == [lo : DOMAIN array, hi : DOMAIN array, used : 0..Len(A)]
           SliceSorted(f, k, at) ==
             LET mid   == at.lo + (at.hi + 1 - at.lo) \div 2
                 left  == f[k - 1][[at EXCEPT !.hi = mid - 1]]
                 right == f[k - 1][[at EXCEPT !.lo = mid, !.used = left.used]]
             IN  IF k = 0 \/ at.hi <= at.lo
                   THEN Sorting(SubSeq(array, at.lo, at.hi), at.used, << >>)
                 ELSE IF left.ask # << >> THEN left
                 ELSE IF right.ask # << >> THEN right
                 ELSE Merge(left.array, right.array, right.used, A)
           Row(f, k) == [at \in Slices |-> SliceSorted(f, k, at)]
           Rec(f, k) == f = [i \in 0..k |-> Row(f, i)]
           Sorted[i \in 0..n] ==
             [at \in [lo : DOMAIN array, hi : DOMAIN array, used : 0..Len(A)] |->
                LET mid   == at.lo + (at.hi + 1 - at.lo) \div 2
                    left  == Sorted[i - 1][[at EXCEPT !.hi = mid - 1]]
                    right == Sorted[i - 1][[at EXCEPT !.lo = mid, !.used = left.used]]
                IN  IF i = 0 \/ at.hi <= at.lo
                      THEN Sorting(SubSeq(array, at.lo, at.hi), at.used, << >>)
                    ELSE IF left.ask # << >> THEN left
                    ELSE IF right.ask # << >> THEN right
                    ELSE Merge(left.array, right.array, right.used, A)]
           K == {k \in Nat : \E f : Rec(f, k)}
           J == {k \in Nat : k <= n =>
                   \A slice \in Slices : Fine(Sorted[k][slice])}
<1>1. n \in Nat /\ n >= 1 /\ DOMAIN array = 1..n /\ Len(A) \in Nat
  OBVIOUS
<1>2. ASSUME NEW f, NEW k \in Nat, NEW slice \in Slices,
             k > 0 => \A t \in Slices : Fine(f[k - 1][t])
      PROVE  Fine(SliceSorted(f, k, slice))
  <2> DEFINE lo    == slice.lo
             hi    == slice.hi
             used  == slice.used
             mid   == lo + (hi + 1 - lo) \div 2
             one   == [slice EXCEPT !.hi = mid - 1]
             left  == f[k - 1][one]
             two   == [slice EXCEPT !.lo = mid, !.used = left.used]
             right == f[k - 1][two]
             whole == Merge(left.array, right.array, right.used, A)
  <2>1. lo \in 1..n /\ hi \in 1..n /\ used \in 0..Len(A)
    BY <1>1
  <2>2. CASE k = 0 \/ hi <= lo
    <3>1. SubSeq(array, lo, hi) \in Seq(S)
      <4> HIDE DEF lo, hi
      <4>1. \A i \in lo..hi : array[i] \in S
        BY <1>1, <2>1
      <4>2. QED
        BY <1>1, <2>1, <4>1
    <3>2. SliceSorted(f, k, slice) = Sorting(SubSeq(array, lo, hi), used, << >>)
      BY <2>2
    <3> HIDE DEF SliceSorted, lo, hi, used
    <3>3. QED
      BY <2>1, <3>1, <3>2 DEF Sorting
  <2>3. CASE k > 0 /\ ~(hi <= lo)
    <3>1. \/ SliceSorted(f, k, slice) = left
          \/ SliceSorted(f, k, slice) = right
          \/ SliceSorted(f, k, slice) = whole
      <4>1. ~(k = 0 \/ slice.hi <= slice.lo)
        BY <2>3
      <4>2. CASE left.ask # << >>
        BY <4>1, <4>2
      <4>3. CASE left.ask = << >> /\ right.ask # << >>
        BY <4>1, <4>3
      <4>4. CASE left.ask = << >> /\ right.ask = << >>
        BY <4>1, <4>4
      <4> HIDE DEF left, right
      <4>5. QED
        BY <4>2, <4>3, <4>4
    <3> HIDE DEF SliceSorted, lo, hi, used
    <3>2. mid \in 1..n /\ mid - 1 \in 1..n
      BY <1>1, <2>1, <2>3
    <3> HIDE DEF mid
    <3>3. Fine(left)
      <4>1. one \in Slices
        BY <1>1, <2>1, <3>2
      <4> HIDE DEF Slices, Fine, one, two
      <4>2. QED
        BY <1>2, <2>3, <4>1
    <3> HIDE DEF left
    <3>4. Fine(right)
      <4>1. two \in Slices
        BY <1>1, <2>1, <3>2, <3>3
      <4> HIDE DEF Slices, Fine, one, two
      <4>2. QED
        BY <1>2, <2>3, <4>1
    <3> HIDE DEF right
    <3>5. Fine(whole)
      BY <3>3, <3>4, MergeOutcome
    <3> HIDE DEF whole, Fine
    <3>6. QED
      BY <3>1, <3>3, <3>4, <3>5
  <2>4. lo \in Int /\ hi \in Int /\ (k = 0 \/ k > 0)
    BY <2>1
  <2> HIDE DEF SliceSorted, Fine, lo, hi
  <2>5. QED
    BY <2>2, <2>3, <2>4
<1> HIDE DEF SliceSorted, Fine, Slices
<1>3. 0 \in K
  <2> DEFINE e == << >>
             f == [i \in 0..0 |-> Row(e, 0)]
  <2>1. Row(f, 0) = Row(e, 0)
    <3>1. ASSUME NEW at PROVE SliceSorted(f, 0, at) = SliceSorted(e, 0, at)
      BY DEF SliceSorted
    <3> HIDE DEF f, e
    <3>2. QED
      BY <3>1
  <2> HIDE DEF Row, e
  <2>2. Rec(f, 0)
    BY <2>1
  <2> HIDE DEF f, Rec
  <2>3. QED
    BY <2>2
<1>4. ASSUME NEW k \in K PROVE k + 1 \in K
  <2>1. PICK g : Rec(g, k)
    OBVIOUS
  <2> DEFINE f == [i \in 0..k + 1 |-> IF i = k + 1 THEN Row(g, k + 1) ELSE g[i]]
  <2>2. ASSUME NEW i \in 0..k + 1 PROVE f[i] = Row(f, i)
    <3>1. f[i] = Row(g, i)
      <4> HIDE DEF Row
      <4>1. CASE i = k + 1
        BY <4>1
      <4>2. CASE i \in 0..k
        <5>1. g[i] = Row(g, i)
          BY <2>1, <4>2
        <5>2. f[i] = g[i]
          BY <4>2
        <5> HIDE DEF f
        <5>3. QED
          BY <5>1, <5>2
      <4>3. QED
        BY <4>1, <4>2
    <3>2. i > 0 => f[i - 1] = g[i - 1]
      <4> HIDE DEF Row
      <4>1. QED
        OBVIOUS
    <3> HIDE DEF f
    <3>3. ASSUME NEW at PROVE SliceSorted(f, i, at) = SliceSorted(g, i, at)
      <4>1. CASE i = 0
        BY <4>1 DEF SliceSorted
      <4>2. CASE i > 0
        BY <3>2, <4>2 DEF SliceSorted
      <4>3. QED
        BY <4>1, <4>2
    <3>4. Row(f, i) = Row(g, i)
      BY <3>3
    <3> HIDE DEF Row
    <3>5. QED
      BY <3>1, <3>4
  <2> HIDE DEF Row
  <2>3. f = [i \in 0..k + 1 |-> f[i]]
    OBVIOUS
  <2> HIDE DEF f
  <2>4. Rec(f, k + 1)
    BY <2>2, <2>3
  <2> HIDE DEF Rec
  <2>5. QED
    BY <2>4
<1>5. K = Nat
  <2> HIDE DEF K
  <2>1. K \in SUBSET Nat
    BY DEF K
  <2>2. QED
    BY <1>3, <1>4, <2>1, NatInd
<1>6. Rec(Sorted, n)
  <2>1. \E f : Rec(f, n)
    BY <1>1, <1>5
  <2>2. QED
    BY <2>1 DEF SliceSorted, Slices
<1> HIDE DEF Sorted
<1>7. ASSUME NEW k \in 0..n, NEW slice \in Slices
      PROVE Sorted[k][slice] = SliceSorted(Sorted, k, slice)
  <2>1. Sorted[k] = Row(Sorted, k)
    <3> HIDE DEF Row
    <3>1. QED
      BY <1>1, <1>6
  <2>2. QED
    BY <2>1
<1> HIDE DEF Rec, Row
<1>8. 0 \in J
  BY <1>1, <1>2, <1>7
<1>9. ASSUME NEW k \in J PROVE k + 1 \in J
  <2>1. CASE k + 1 <= n
    <3>1. \A t \in Slices : Fine(Sorted[(k + 1) - 1][t])
      BY <1>1, <2>1
    <3>2. ASSUME NEW slice \in Slices PROVE Fine(Sorted[k + 1][slice])
      <4>1. Fine(SliceSorted(Sorted, k + 1, slice))
        BY <1>2, <3>1
      <4>2. QED
        BY <1>1, <1>7, <2>1, <4>1
    <3>3. QED
      BY <3>2
  <2>2. QED
    BY <1>1, <2>1
<1>10. J = Nat
  <2> HIDE DEF J
  <2>1. J \in SUBSET Nat
    BY DEF J
  <2>2. QED
    BY <1>8, <1>9, <2>1, NatInd
<1>11. Fine(Sorted[n][[lo |-> 1, hi |-> n, used |-> 0]])
  <2>1. [lo |-> 1, hi |-> n, used |-> 0] \in Slices
    BY <1>1 DEF Slices
  <2>2. QED
    BY <1>1, <1>10, <2>1
<1>12. MergeSort(array, A) = Sorted[n][[lo |-> 1, hi |-> n, used |-> 0]]
  BY DEF MergeSort, Sorted
<1>13. QED
  BY <1>11, <1>12 DEF Fine

-----------------------------------------------------------------------------
(* What leaves the stack, the frames and the cells as they are.            *)

Same(m, r) ==
  /\ DataSound(r) /\ r.stack = m.stack /\ r.frames = m.frames /\ r.inner = m.inner
  /\ r.cells = m.cells /\ Len(r.heap) = Len(m.heap) /\ r.status = m.status
  /\ r.fault = "none" => m.fault = "none"

(* Whether a value is one in a state. *)
Held(m, v)   == IsValue(v, Len(m.heap), Len(m.cells))
HeldAll(m, s) == AllValues(s, Len(m.heap), Len(m.cells))

LEMMA SameTwice ==
  ASSUME NEW m, NEW r, NEW s, Same(m, r), Same(r, s)
  PROVE  Same(m, s)
BY DEF Same

LEMMA SameAsIs ==
  ASSUME NEW m, DataSound(m)
  PROVE  Same(m, m)
BY DEF Same

LEMMA SameParts ==
  ASSUME NEW m, DataSound(m), NEW r, DOMAIN r = Fields,
         r.stack = m.stack, r.frames = m.frames, r.inner = m.inner, r.cells = m.cells,
         r.heap = m.heap, r.status = m.status, r.fault = "none" => m.fault = "none",
         Held(m, r.error)
  PROVE  Same(m, r)
BY DEF Same, DataSound, Good, StackSound, HeapSound, Held

LEMMA ChargeSame ==
  ASSUME NEW m, DataSound(m), NEW n
  PROVE  Same(m, Charge(m, n))
<1> DEFINE over == [m EXCEPT !.gas = 0, !.fault = "gas"]
           less == [m EXCEPT !.gas = @ - n]
<1>1. DOMAIN m = Fields /\ Held(m, m.error)
  BY DEF DataSound, Good, Held
<1>2. Same(m, over)
  <2>1. /\ DOMAIN over = Fields /\ over.stack = m.stack /\ over.frames = m.frames
        /\ over.inner = m.inner /\ over.cells = m.cells /\ over.heap = m.heap
        /\ over.status = m.status /\ over.error = m.error /\ over.fault = "gas"
    BY <1>1 DEF Fields
  <2> HIDE DEF over
  <2>2. QED
    BY <1>1, <2>1, SameParts
<1>3. Same(m, less)
  <2>1. /\ DOMAIN less = Fields /\ less.stack = m.stack /\ less.frames = m.frames
        /\ less.inner = m.inner /\ less.cells = m.cells /\ less.heap = m.heap
        /\ less.status = m.status /\ less.error = m.error /\ less.fault = m.fault
    BY <1>1 DEF Fields
  <2> HIDE DEF less
  <2>2. QED
    BY <1>1, <2>1, SameParts
<1>4. Charge(m, n) = m \/ Charge(m, n) = over \/ Charge(m, n) = less
  BY DEF Charge
<1> HIDE DEF over, less
<1>5. QED
  BY <1>2, <1>3, <1>4, SameAsIs

LEMMA AllocSame ==
  ASSUME NEW m, DataSound(m), NEW n
  PROVE  Same(m, Alloc(m, n))
<1> DEFINE r == [m EXCEPT !.mem = @ + n, !.fault = IF m.mem + n > MemLimit THEN "memory" ELSE @]
<1>1. DOMAIN m = Fields /\ Held(m, m.error)
  BY DEF DataSound, Good, Held
<1>2. /\ DOMAIN r = Fields /\ r.stack = m.stack /\ r.frames = m.frames
      /\ r.inner = m.inner /\ r.cells = m.cells /\ r.heap = m.heap
      /\ r.status = m.status /\ r.error = m.error /\ (r.fault = "none" => m.fault = "none")
  BY <1>1 DEF Fields
<1>3. Alloc(m, n) = m \/ Alloc(m, n) = r
  BY DEF Alloc
<1> HIDE DEF r
<1>4. QED
  BY <1>1, <1>2, <1>3, SameParts, SameAsIs

LEMMA RaiseSame ==
  ASSUME NEW m, DataSound(m), NEW v, Held(m, v)
  PROVE  Same(m, Raise(m, v)) /\ Raise(m, v).fault # "none"
<1> DEFINE r == [m EXCEPT !.fault = "raised", !.error = v]
<1>1. DOMAIN m = Fields
  BY DEF DataSound, Good
<1>2. /\ DOMAIN r = Fields /\ r.stack = m.stack /\ r.frames = m.frames
      /\ r.inner = m.inner /\ r.cells = m.cells /\ r.heap = m.heap
      /\ r.status = m.status /\ r.error = v /\ r.fault = "raised"
  BY <1>1 DEF Fields
<1>3. IF m.fault # "none" THEN Raise(m, v) = m ELSE Raise(m, v) = r
  BY DEF Raise
<1> HIDE DEF r
<1>4. QED
  BY <1>2, <1>3, SameParts, SameAsIs

LEMMA RaiseText ==
  ASSUME NEW m, DataSound(m)
  PROVE  /\ \A p : Same(m, Raise(m, Text(p))) /\ Raise(m, Text(p)).fault # "none"
         /\ Same(m, TypeError(m)) /\ TypeError(m).fault # "none"
<1>1. \A p : Held(m, Text(p))
  BY PlainValues, PlainIsValue DEF Held
<1>2. QED
  BY <1>1, RaiseSame DEF TypeError

(* The record OnTable gives its operator, and what it makes of the result. *)
Meter(m, a)       == [table |-> m.heap[a], gas |-> m.gas, mem |-> m.mem, fault |-> m.fault]
Metered(m, a, r) == [m EXCEPT !.heap[a] = r.table, !.gas = r.gas, !.mem = r.mem,
                              !.fault = r.fault]

LEMMA MeterIsMetered ==
  ASSUME NEW m, DataSound(m), NEW a \in 1..Len(m.heap)
  PROVE  IsMetered(Meter(m, a), Len(m.heap), Len(m.cells))
BY DEF DataSound, HeapSound, IsMetered, Meter

LEMMA MeteredSame ==
  ASSUME NEW m, DataSound(m), NEW a \in 1..Len(m.heap),
         NEW r, Metes(Meter(m, a), r, Len(m.heap), Len(m.cells))
  PROVE  Same(m, Metered(m, a, r))
<1> DEFINE h == [m.heap EXCEPT ![a] = r.table]
           s == Metered(m, a, r)
<1>1. /\ DOMAIN m = Fields /\ IsSeq(m.heap) /\ Len(m.heap) >= 2
      /\ \A i \in 1..Len(m.heap) : IsTable(m.heap[i], Len(m.heap), Len(m.cells))
  BY DEF DataSound, Good, HeapSound
<1>2. IsTable(r.table, Len(m.heap), Len(m.cells)) /\ (r.fault = "none" => m.fault = "none")
  BY DEF Metes, IsMetered, Meter
<1>3. Len(m.heap) \in Nat /\ DOMAIN m.heap = 1..Len(m.heap)
  BY <1>1, SeqFacts
<1>4. h = [i \in 1..Len(m.heap) |-> h[i]] /\ h[a] = r.table
      /\ \A i \in 1..Len(m.heap) : i # a => h[i] = m.heap[i]
  BY <1>3
<1>5. /\ DOMAIN s = Fields /\ s.stack = m.stack /\ s.frames = m.frames /\ s.inner = m.inner
      /\ s.cells = m.cells /\ s.heap = h /\ s.status = m.status /\ s.error = m.error
      /\ s.fault = r.fault
  BY <1>1 DEF Metered, Fields
<1> HIDE DEF h, s
<1>6. IsSeq(h) /\ Len(h) = Len(m.heap)
  BY <1>3, <1>4, SeqFrom
<1>7. \A i \in 1..Len(h) : IsTable(h[i], Len(h), Len(m.cells))
  BY <1>1, <1>2, <1>4, <1>6
<1>8. DataSound(s)
  BY <1>1, <1>5, <1>6, <1>7 DEF DataSound, Good, StackSound, HeapSound
<1>9. QED
  BY <1>2, <1>5, <1>6, <1>8 DEF Same, s

-----------------------------------------------------------------------------
(* How frames and functions inside instructions lie above each other.      *)

LEMMA ProtoFacts ==
  ASSUME ProgramVerified, NEW p \in DOMAIN program
  PROVE  /\ program[p].localCount \in Nat /\ IsPrototype(program[p])
         /\ IsSeq(program[p].code) /\ IsSeq(program[p].upvalues)
         /\ Len(program[p].code) \in Nat /\ Len(program[p].upvalues) \in Nat
         /\ DOMAIN program[p].code = 1..Len(program[p].code)
         /\ DOMAIN program[p].upvalues = 1..Len(program[p].upvalues)
         /\ \A pc \in DOMAIN program[p].code : RefersRightly(program[p], program[p].code[pc])
         /\ Balanced(program[p].code, depths[p])
<1>1. IsPrototype(program[p])
  BY DEF ProgramVerified
<1>2. IsSeq(program[p].code) /\ IsSeq(program[p].upvalues)
  BY <1>1, SeqIs DEF IsPrototype
<1>3. QED
  BY <1>1, <1>2, SeqFacts DEF ProgramVerified, IsPrototype

LEMMA FrameFacts ==
  ASSUME ProgramVerified, NEW m, Mid(m), NEW f \in 1..Len(m.frames)
  PROVE  /\ Len(m.frames) \in Nat /\ Len(m.stack) \in Nat
         /\ m.frames[f].proto + 1 \in DOMAIN program
         /\ m.frames[f].base \in Nat /\ ProtoOf(m, f).localCount \in Nat
         /\ m.frames[f].base + ProtoOf(m, f).localCount <= TopOf(m, f)
         /\ m.frames[f].pc \in 1..Len(ProtoOf(m, f).code) + 1
         /\ f < Len(m.frames) => TopOf(m, f) = m.frames[f + 1].base /\ f + 1 \in 1..Len(m.frames)
         /\ TopOf(m, Len(m.frames)) = Len(m.stack)
         /\ TopOf(m, f) \in Nat
<1>1. IsSeq(m.frames) /\ IsSeq(m.stack)
  BY DEF Mid, DataSound, Good, StackSound
<1>2. Len(m.frames) \in Nat /\ Len(m.stack) \in Nat
  BY <1>1, SeqFacts
<1>3. \A g \in 1..Len(m.frames) : FrameOk(m, g)
  BY DEF Mid, Shaped
<1>4. m.frames[f].proto + 1 \in DOMAIN program
  BY <1>3 DEF FrameOk
<1>5. ProtoOf(m, f).localCount \in Nat
  BY <1>4, ProtoFacts DEF ProtoOf
<1>6. /\ m.frames[f].base \in Nat
      /\ m.frames[f].base + ProtoOf(m, f).localCount <= TopOf(m, f)
      /\ m.frames[f].pc \in 1..Len(ProtoOf(m, f).code) + 1
  BY <1>3 DEF FrameOk
<1>7. f < Len(m.frames) => TopOf(m, f) = m.frames[f + 1].base /\ f + 1 \in 1..Len(m.frames)
  BY <1>2 DEF TopOf
<1>8. TopOf(m, Len(m.frames)) = Len(m.stack)
  BY DEF TopOf
<1>9. TopOf(m, f) \in Nat
  <2>1. CASE f < Len(m.frames)
    <3>1. FrameOk(m, f + 1) /\ TopOf(m, f) = m.frames[f + 1].base
      BY <1>3, <1>7, <2>1
    <3>2. QED
      BY <3>1 DEF FrameOk
  <2>2. CASE f = Len(m.frames)
    BY <1>2, <1>8, <2>2
  <2>3. QED
    BY <1>2, <2>1, <2>2
<1>10. QED
  BY <1>2, <1>4, <1>5, <1>6, <1>7, <1>8, <1>9

LEMMA BasesRise ==
  ASSUME ProgramVerified, NEW m, Mid(m)
  PROVE  /\ \A f, g \in 1..Len(m.frames) : f < g =>
              TopOf(m, f) <= m.frames[g].base /\ m.frames[f].base <= m.frames[g].base
         /\ \A f \in 1..Len(m.frames) : TopOf(m, f) <= Len(m.stack)
<1> DEFINE L == Len(m.frames)
           K == {k \in Nat : \A f \in 1..L : f + k + 1 <= L =>
                   TopOf(m, f) <= m.frames[f + k + 1].base}
<1>1. L \in Nat
  BY SeqFacts DEF Mid, DataSound, Good
<1>2. \A f \in 1..L : /\ m.frames[f].base \in Nat /\ ProtoOf(m, f).localCount \in Nat
                      /\ m.frames[f].base + ProtoOf(m, f).localCount <= TopOf(m, f)
                      /\ f < L => TopOf(m, f) = m.frames[f + 1].base
                      /\ TopOf(m, L) = Len(m.stack) /\ TopOf(m, f) \in Nat
  BY FrameFacts
<1>3. 0 \in K
  <2>1. ASSUME NEW f \in 1..L, f + 0 + 1 <= L PROVE TopOf(m, f) <= m.frames[f + 0 + 1].base
    <3>1. f < L /\ f + 0 + 1 = f + 1
      BY <1>1, <2>1
    <3>2. TopOf(m, f) = m.frames[f + 1].base /\ TopOf(m, f) \in Nat
      BY <1>2, <3>1
    <3>3. QED
      BY <3>1, <3>2
  <2>2. QED
    BY <2>1
<1>4. ASSUME NEW k \in K PROVE k + 1 \in K
  <2>1. ASSUME NEW f \in 1..L, f + (k + 1) + 1 <= L
        PROVE TopOf(m, f) <= m.frames[f + (k + 1) + 1].base
    <3> DEFINE g == f + k + 1
    <3>1. g \in 1..L /\ g < L /\ g + 1 = f + (k + 1) + 1 /\ f + k + 1 <= L /\ g + 1 \in 1..L
      BY <1>1, <2>1
    <3>2. TopOf(m, f) <= m.frames[g].base
      BY <3>1
    <3>3. m.frames[g].base <= m.frames[g + 1].base
      <4> HIDE DEF g, K
      <4>1. /\ m.frames[g].base \in Nat /\ ProtoOf(m, g).localCount \in Nat
            /\ m.frames[g].base + ProtoOf(m, g).localCount <= TopOf(m, g)
            /\ TopOf(m, g) = m.frames[g + 1].base
        BY <1>2, <3>1
      <4>2. m.frames[g + 1].base \in Nat
        BY <1>2, <3>1
      <4>3. QED
        BY <4>1, <4>2
    <3>4. TopOf(m, f) \in Nat /\ m.frames[g].base \in Nat /\ m.frames[g + 1].base \in Nat
      BY <1>2, <3>1
    <3> HIDE DEF g
    <3>5. QED
      BY <3>1, <3>2, <3>3, <3>4
  <2>2. QED
    BY <2>1
<1>5. K = Nat
  <2> HIDE DEF K
  <2>1. K \in SUBSET Nat
    BY DEF K
  <2>2. QED
    BY <1>3, <1>4, <2>1, NatInd
<1>6. ASSUME NEW f \in 1..L, NEW g \in 1..L, f < g
      PROVE TopOf(m, f) <= m.frames[g].base /\ m.frames[f].base <= m.frames[g].base
  <2>1. g - f - 1 \in Nat /\ f + (g - f - 1) + 1 = g
    BY <1>1, <1>6
  <2>2. TopOf(m, f) <= m.frames[g].base
    <3> DEFINE k == g - f - 1
    <3>1. k \in K /\ f + k + 1 = g
      BY <1>5, <2>1
    <3> HIDE DEF k
    <3>2. QED
      BY <1>6, <3>1, <1>1
  <2>3. QED
    BY <1>2, <2>2
<1>7. ASSUME NEW f \in 1..L PROVE TopOf(m, f) <= Len(m.stack)
  <2>1. CASE f = L
    BY <1>2, <2>1
  <2>2. CASE f < L
    <3>1. L \in 1..L
      BY <1>1, <2>2
    <3>2. TopOf(m, f) <= m.frames[L].base
      BY <1>6, <2>2, <3>1
    <3>3. /\ m.frames[L].base \in Nat /\ ProtoOf(m, L).localCount \in Nat
          /\ m.frames[L].base + ProtoOf(m, L).localCount <= Len(m.stack)
          /\ TopOf(m, f) \in Nat /\ Len(m.stack) \in Nat
      BY <1>2, <3>1
    <3> HIDE DEF L, K
    <3>4. QED
      BY <3>2, <3>3
  <2>3. QED
    BY <1>1, <2>1, <2>2
<1>8. QED
  BY <1>6, <1>7

LEMMA EntryFacts ==
  ASSUME NEW m, Mid(m), NEW i \in 1..Len(m.inner)
  PROVE  /\ Len(m.inner) \in Nat /\ Len(m.frames) \in Nat
         /\ m.inner[i].frameLen \in 1..Len(m.frames)
         /\ m.inner[i].stackLen = TopOf(m, m.inner[i].frameLen)
         /\ m.inner[i].kind \in {"pcall", "sort"}
         /\ i > 1 => i - 1 \in 1..Len(m.inner)
         /\ m.inner[i].kind = "sort" => SortOk(m, m.inner[i])
<1>1. IsSeq(m.inner) /\ IsSeq(m.frames)
  BY DEF Mid, DataSound, Good
<1>2. Len(m.inner) \in Nat /\ Len(m.frames) \in Nat
  BY <1>1, SeqFacts
<1>3. EntryOk(m, i)
  BY DEF Mid, Shaped
<1>4. QED
  BY <1>2, <1>3 DEF EntryOk

LEMMA EntriesRise ==
  ASSUME NEW m, Mid(m)
  PROVE  \A i, j \in 1..Len(m.inner) : j < i =>
           /\ m.inner[j].frameLen <= m.inner[i].frameLen
           /\ ~(m.inner[i].kind = "sort" /\ m.inner[i].byPcall) =>
                m.inner[j].frameLen < m.inner[i].frameLen
<1> DEFINE n == Len(m.inner)
           F(i) == m.inner[i].frameLen
           K == {k \in Nat : \A i \in 1..n : i + k <= n => F(i) <= F(i + k)}
<1>1. n \in Nat
  BY SeqFacts DEF Mid, DataSound, Good
<1>2. \A i \in 1..n : F(i) \in Int
  <2>1. ASSUME NEW i \in 1..n PROVE F(i) \in Int
    <3>1. F(i) \in 1..Len(m.frames)
      BY EntryFacts
    <3>2. QED
      BY <3>1
  <2>2. QED
    BY <2>1
<1>3. ASSUME NEW i \in 1..n, i > 1
      PROVE  /\ F(i - 1) <= F(i)
             /\ ~(m.inner[i].kind = "sort" /\ m.inner[i].byPcall) => F(i - 1) < F(i)
  <2>1. EntryOk(m, i) /\ i - 1 \in 1..n
    BY <1>1, <1>3 DEF Mid, Shaped
  <2>2. F(i) \in Int /\ F(i - 1) \in Int
    BY <1>2, <2>1
  <2>3. QED
    BY <1>3, <2>1, <2>2 DEF EntryOk
<1> HIDE DEF F, n
<1>4. 0 \in K
  BY <1>1, <1>2
<1>5. ASSUME NEW k \in K PROVE k + 1 \in K
  <2>1. ASSUME NEW i \in 1..n, i + (k + 1) <= n PROVE F(i) <= F(i + (k + 1))
    <3>1. F(i) <= F(i + k)
      BY <1>1, <2>1
    <3>2. i + k \in 1..n /\ i + (k + 1) \in 1..n /\ i + (k + 1) > 1 /\ (i + (k + 1)) - 1 = i + k
      BY <1>1, <2>1
    <3>3. F(i + k) <= F(i + (k + 1))
      BY <1>3, <3>2
    <3>4. QED
      BY <1>2, <3>1, <3>2, <3>3
  <2>2. QED
    BY <2>1
<1>6. K = Nat
  <2> HIDE DEF K
  <2>1. K \in SUBSET Nat
    BY DEF K
  <2>2. QED
    BY <1>4, <1>5, <2>1, NatInd
<1>7. ASSUME NEW i \in 1..n, NEW j \in 1..n, j <= i PROVE F(j) <= F(i)
  <2> DEFINE k == i - j
  <2>1. k \in Nat /\ j + k = i
    BY <1>1, <1>7
  <2>2. k \in K
    BY <1>6, <2>1
  <2> HIDE DEF k
  <2>3. QED
    BY <1>1, <1>7, <2>1, <2>2
<1>8. ASSUME NEW i \in 1..n, NEW j \in 1..n, j < i
      PROVE  /\ F(j) <= F(i)
             /\ ~(m.inner[i].kind = "sort" /\ m.inner[i].byPcall) => F(j) < F(i)
  <2>1. i - 1 \in 1..n /\ i > 1 /\ j <= i - 1
    BY <1>1, <1>8
  <2>2. F(j) <= F(i - 1)
    BY <1>7, <2>1
  <2>3. QED
    BY <1>2, <1>3, <2>1, <2>2
<1>9. QED
  BY <1>8 DEF F, n

-----------------------------------------------------------------------------
(* A state that differs in what is stored, and in the operands and the     *)
(* program counter of the innermost frame.                                 *)

SameFrame(e, f) ==
  /\ DOMAIN f = DOMAIN e
  /\ f.proto = e.proto /\ f.base = e.base /\ f.upvalues = e.upvalues

Moved(m, r) ==
  LET n == Len(m.frames)
  IN  /\ DataSound(r) /\ r.inner = m.inner
      /\ Len(r.heap) >= Len(m.heap) /\ Len(r.cells) >= Len(m.cells)
      /\ Len(r.frames) = n /\ \A f \in 1..n - 1 : r.frames[f] = m.frames[f]
      /\ SameFrame(m.frames[n], r.frames[n])
      /\ r.frames[n].pc \in 1..Len(ProtoOf(m, n).code) + 1
      /\ m.frames[n].base + ProtoOf(m, n).localCount <= Len(r.stack)
      /\ \A i \in 1..m.frames[n].base : r.stack[i] = m.stack[i]
      /\ \A i \in 1..ProtoOf(m, n).localCount : ~IsHandle(r.stack[m.frames[n].base + i])

LEMMA SizesOf ==
  ASSUME NEW m, DataSound(m)
  PROVE  /\ Len(m.heap) \in Nat /\ Len(m.heap) >= 2 /\ Len(m.cells) \in Nat
         /\ Len(m.stack) \in Nat /\ Len(m.frames) \in Nat /\ Len(m.inner) \in Nat
         /\ IsSeq(m.heap) /\ IsSeq(m.cells) /\ IsSeq(m.stack) /\ IsSeq(m.frames) /\ IsSeq(m.inner)
         /\ DOMAIN m.heap = 1..Len(m.heap) /\ DOMAIN m.cells = 1..Len(m.cells)
         /\ DOMAIN m.stack = 1..Len(m.stack) /\ DOMAIN m.frames = 1..Len(m.frames)
         /\ DOMAIN m.inner = 1..Len(m.inner) /\ DOMAIN m = Fields
BY SeqFacts DEF DataSound, Good, StackSound, HeapSound, AllValues

(* The frames of the two. *)
LEMMA MovedFrames ==
  ASSUME ProgramVerified, NEW m, Mid(m), m.frames # << >>, NEW r, Moved(m, r)
  PROVE  /\ \A f \in 1..Len(m.frames) :
              /\ ProtoOf(r, f) = ProtoOf(m, f) /\ r.frames[f].base = m.frames[f].base
              /\ r.frames[f].proto = m.frames[f].proto
              /\ r.frames[f].upvalues = m.frames[f].upvalues
              /\ DOMAIN r.frames[f] = DOMAIN m.frames[f]
         /\ \A f \in 1..Len(m.frames) - 1 :
              /\ TopOf(r, f) = TopOf(m, f) /\ r.frames[f] = m.frames[f]
              /\ Height(r, f) = Height(m, f)
         /\ Len(m.frames) \in 1..Len(m.frames)
         /\ r.inner = m.inner /\ Len(r.frames) = Len(m.frames)
<1> DEFINE n == Len(m.frames)
<1>1. n \in Nat /\ n # 0
  BY SizesOf, SeqFacts DEF Mid, IsSeq
<1>2. /\ \A f \in 1..n - 1 : r.frames[f] = m.frames[f]
      /\ SameFrame(m.frames[n], r.frames[n])
      /\ Len(r.frames) = n
  BY DEF Moved
<1>3. /\ r.frames[n].base = m.frames[n].base /\ r.frames[n].proto = m.frames[n].proto
      /\ r.frames[n].upvalues = m.frames[n].upvalues
      /\ DOMAIN r.frames[n] = DOMAIN m.frames[n]
  BY <1>2 DEF SameFrame
<1> HIDE DEF n
<1>4. ASSUME NEW f \in 1..n
      PROVE  /\ ProtoOf(r, f) = ProtoOf(m, f) /\ r.frames[f].base = m.frames[f].base
             /\ r.frames[f].proto = m.frames[f].proto
             /\ r.frames[f].upvalues = m.frames[f].upvalues
             /\ DOMAIN r.frames[f] = DOMAIN m.frames[f]
  BY <1>1, <1>2, <1>3 DEF ProtoOf
<1>5. ASSUME NEW f \in 1..n - 1
      PROVE  TopOf(r, f) = TopOf(m, f) /\ r.frames[f] = m.frames[f]
  <2>1. f # n /\ f + 1 \in 1..n
    BY <1>1
  <2>2. r.frames[f + 1].base = m.frames[f + 1].base
    BY <1>4, <2>1
  <2>3. QED
    BY <1>2, <2>1, <2>2 DEF TopOf, n
<1>6. ASSUME NEW f \in 1..n - 1 PROVE Height(r, f) = Height(m, f)
  BY <1>1, <1>4, <1>5 DEF Height
<1>7. r.inner = m.inner
  BY DEF Moved
<1>8. QED
  BY <1>1, <1>2, <1>4, <1>5, <1>6, <1>7 DEF n

LEMMA MovedMid ==
  ASSUME ProgramVerified, NEW m, Mid(m), m.frames # << >>, NEW r, Moved(m, r),
         Waits(m, Len(m.frames)) => Len(r.stack) = Len(m.stack) /\ r.frames = m.frames
  PROVE  Mid(r)
<1> DEFINE n == Len(m.frames)
<1>1. n \in Nat /\ n >= 1 /\ n \in 1..n /\ Len(r.frames) = n /\ r.inner = m.inner
  BY MovedFrames, SizesOf DEF Mid
<1>2. Len(r.heap) >= Len(m.heap) /\ Len(r.cells) >= Len(m.cells) /\ DataSound(r)
  BY DEF Moved
<1>3. /\ Len(m.heap) \in Nat /\ Len(m.cells) \in Nat
      /\ Len(r.heap) \in Nat /\ Len(r.cells) \in Nat
  BY <1>2, SizesOf DEF Mid
<1>4. /\ \A v : IsValue(v, Len(m.heap), Len(m.cells)) => IsValue(v, Len(r.heap), Len(r.cells))
      /\ \A s : AllValues(s, Len(m.heap), Len(m.cells)) => AllValues(s, Len(r.heap), Len(r.cells))
  BY <1>2, <1>3, ValueGrows
<1>5. /\ \A f \in 1..n :
           /\ ProtoOf(r, f) = ProtoOf(m, f) /\ r.frames[f].base = m.frames[f].base
           /\ r.frames[f].proto = m.frames[f].proto
           /\ r.frames[f].upvalues = m.frames[f].upvalues
           /\ DOMAIN r.frames[f] = DOMAIN m.frames[f]
      /\ \A f \in 1..n - 1 : /\ TopOf(r, f) = TopOf(m, f) /\ r.frames[f] = m.frames[f]
                             /\ Height(r, f) = Height(m, f)
  BY MovedFrames
<1>6. TopOf(r, n) = Len(r.stack) /\ TopOf(m, n) = Len(m.stack)
  BY <1>1 DEF TopOf
<1>7. /\ r.frames[n].pc \in 1..Len(ProtoOf(m, n).code) + 1
      /\ m.frames[n].base + ProtoOf(m, n).localCount <= Len(r.stack)
      /\ \A i \in 1..m.frames[n].base : r.stack[i] = m.stack[i]
      /\ \A i \in 1..ProtoOf(m, n).localCount : ~IsHandle(r.stack[m.frames[n].base + i])
  BY DEF Moved
<1>8. \A f \in 1..n : FrameOk(m, f) /\ \A i \in 1..Len(m.inner) : EntryOk(m, i)
  BY DEF Mid, Shaped
<1>9. \A f \in 1..n : f < n \/ Waits(m, f) => FoundAt(m, f, Height(m, f) + Awaits(m, f))
  BY DEF Mid, Shaped
<1>10. \A f \in 1..n : Waits(r, f) = Waits(m, f) /\ Awaits(r, f) = Awaits(m, f)
  BY <1>1 DEF Waits, Awaits
<1>11. \A f \in 1..n - 1 : f \in 1..n /\ TopOf(m, f) <= m.frames[n].base /\ ~(f = n)
  BY <1>1, BasesRise
<1>12. \A f \in 1..n : /\ m.frames[f].base \in Nat /\ ProtoOf(m, f).localCount \in Nat
                       /\ m.frames[f].base + ProtoOf(m, f).localCount <= TopOf(m, f)
                       /\ TopOf(m, f) \in Nat
  BY FrameFacts
<1> HIDE DEF n
<1>13. ASSUME NEW f \in 1..n PROVE FrameOk(r, f)
  <2>1. FrameOk(m, f)
    BY <1>8
  <2>2. \A u \in 1..Len(m.frames[f].upvalues) : m.frames[f].upvalues[u] \in 1..Len(r.cells)
    BY <1>2, <1>3, <2>1 DEF FrameOk
  <2>3. CASE f = n
    BY <1>5, <1>6, <1>7, <2>1, <2>2, <2>3 DEF FrameOk
  <2>4. CASE f # n
    <3>1. f \in 1..n - 1
      BY <1>1, <2>4
    <3>2. \A i \in 1..ProtoOf(m, f).localCount : m.frames[f].base + i \in 1..m.frames[n].base
      <4>1. /\ m.frames[f].base \in Nat /\ ProtoOf(m, f).localCount \in Nat
            /\ m.frames[f].base + ProtoOf(m, f).localCount <= TopOf(m, f)
            /\ TopOf(m, f) \in Nat
        BY <1>12
      <4>2. m.frames[n].base \in Nat /\ TopOf(m, f) <= m.frames[n].base
        BY <1>1, <1>11, <1>12, <3>1
      <4>3. QED
        BY <4>1, <4>2
    <3>3. \A i \in 1..ProtoOf(m, f).localCount : ~IsHandle(r.stack[m.frames[f].base + i])
      BY <1>7, <2>1, <3>2 DEF FrameOk
    <3>4. QED
      BY <1>5, <2>1, <2>2, <3>1, <3>3 DEF FrameOk
  <2>5. QED
    BY <2>3, <2>4
<1>14. ASSUME NEW i \in 1..Len(r.inner) PROVE EntryOk(r, i)
  <2> DEFINE e == m.inner[i]
  <2>1. EntryOk(m, i) /\ r.inner[i] = e
    BY <1>1, <1>8
  <2>2. e.frameLen \in 1..n
    BY <2>1 DEF EntryOk, n
  <2>3. TopOf(r, e.frameLen) = TopOf(m, e.frameLen)
    <3>1. CASE e.frameLen = n
      <4>1. Waits(m, n)
        BY <1>1, <3>1 DEF Waits
      <4>2. QED
        BY <1>6, <3>1, <4>1 DEF n
    <3>2. CASE e.frameLen # n
      BY <1>1, <1>5, <2>2, <3>2
    <3>3. QED
      BY <3>1, <3>2
  <2>4. SortOk(m, e) => SortOk(r, e)
    BY <1>2, <1>3, <1>4 DEF SortOk
  <2> HIDE DEF e
  <2>5. QED
    BY <1>1, <2>1, <2>2, <2>3, <2>4 DEF EntryOk, e
<1>15. ASSUME NEW f \in 1..n, f < n \/ Waits(r, f)
       PROVE FoundAt(r, f, Height(r, f) + Awaits(r, f))
  <2>1. FoundAt(m, f, Height(m, f) + Awaits(m, f)) /\ Awaits(r, f) = Awaits(m, f)
    BY <1>9, <1>10, <1>15
  <2>2. CASE f # n
    BY <1>1, <1>5, <2>1, <2>2 DEF FoundAt
  <2>3. CASE f = n
    <3>1. Waits(m, n)
      BY <1>1, <1>10, <1>15, <2>3
    <3>2. TopOf(r, n) = TopOf(m, n) /\ r.frames[n] = m.frames[n]
      BY <1>6, <3>1 DEF n
    <3>3. Height(r, n) = Height(m, n)
      BY <1>1, <1>5, <3>2 DEF Height
    <3>4. QED
      BY <2>1, <2>3, <3>2, <3>3 DEF FoundAt
  <2>4. QED
    BY <2>2, <2>3
<1>16. QED
  BY <1>1, <1>2, <1>13, <1>14, <1>15 DEF Mid, Shaped

-----------------------------------------------------------------------------
(* An instruction of a frame that does not wait.                           *)

InTurn == ProgramVerified /\ Sound(vm) /\ Running /\ InCode

LEMMA HereFacts ==
  ASSUME ProgramVerified, Sound(vm), Running
  PROVE  LET n == Len(vm.frames)
         IN  /\ Mid(vm) /\ DataSound(vm) /\ n \in Nat /\ n >= 1 /\ n \in 1..n /\ vm.frames # << >>
             /\ Frame(vm) = vm.frames[n] /\ Proto(vm) = ProtoOf(vm, n)
             /\ Frame(vm).proto + 1 \in DOMAIN program
             /\ ~Waits(vm, n) /\ Operands = Height(vm, n)
             /\ Frame(vm).base \in Nat /\ Proto(vm).localCount \in Nat /\ Operands \in Nat
             /\ Len(vm.stack) = Frame(vm).base + Proto(vm).localCount + Operands
             /\ Frame(vm).pc \in 1..Len(Proto(vm).code) + 1 /\ Len(Proto(vm).code) \in Nat
             /\ <<Frame(vm).pc, Operands>> \in depths[Frame(vm).proto + 1]
             /\ Balanced(Proto(vm).code, depths[Frame(vm).proto + 1])
             /\ vm.status = "running" /\ vm.fault = "none"
             /\ IsPrototype(Proto(vm))
             /\ IsSeq(Frame(vm).upvalues) /\ Len(Frame(vm).upvalues) = Len(Proto(vm).upvalues)
             /\ \A i \in 1..Proto(vm).localCount : ~IsHandle(vm.stack[Frame(vm).base + i])
<1> DEFINE n == Len(vm.frames)
<1>1. Mid(vm) /\ Done(vm) /\ vm.status = "running" /\ vm.fault = "none"
  BY DEF Sound, Running
<1>2. DataSound(vm)
  BY <1>1 DEF Mid
<1>3. n \in Nat /\ n >= 1 /\ vm.frames # << >> /\ IsSeq(vm.frames)
  <2>1. IsSeq(vm.frames) /\ n \in Nat
    BY <1>2, SizesOf
  <2>2. vm.frames # << >>
    BY <1>1 DEF Done
  <2>3. n # 0
    <3> DEFINE t == vm.frames
    <3>1. t \in Seq({t[i] : i \in DOMAIN t})
      BY <2>1 DEF IsSeq
    <3> HIDE DEF t
    <3>2. Len(t) = 0 => t = << >>
      BY <3>1
    <3>3. QED
      BY <2>2, <3>2 DEF t
  <2>4. QED
    BY <2>1, <2>2, <2>3
<1>4. Frame(vm) = vm.frames[n] /\ Proto(vm) = ProtoOf(vm, n)
  BY DEF Frame, Proto, Last, ProtoOf
<1>5. FrameOk(vm, n)
  BY <1>1, <1>3 DEF Mid, Shaped
<1>6. /\ Frame(vm).proto + 1 \in DOMAIN program
      /\ Frame(vm).base \in Nat /\ Proto(vm).localCount \in Nat
      /\ Frame(vm).base + Proto(vm).localCount <= TopOf(vm, n)
      /\ TopOf(vm, n) = Len(vm.stack) /\ Len(vm.stack) \in Nat
      /\ Frame(vm).pc \in 1..Len(Proto(vm).code) + 1
  BY <1>1, <1>3, <1>4, FrameFacts
<1>7. Operands = Height(vm, n) /\ Operands \in Nat
      /\ Len(vm.stack) = Frame(vm).base + Proto(vm).localCount + Operands
  BY <1>4, <1>6 DEF Operands, Height
<1>8. ~Waits(vm, n) /\ <<Frame(vm).pc, Operands>> \in depths[Frame(vm).proto + 1]
  BY <1>1, <1>4, <1>7 DEF Done, FoundAt
<1>9. /\ Balanced(Proto(vm).code, depths[Frame(vm).proto + 1])
      /\ IsPrototype(Proto(vm)) /\ Len(Proto(vm).code) \in Nat
  BY <1>6, ProtoFacts DEF Proto
<1>10. /\ IsSeq(Frame(vm).upvalues) /\ Len(Frame(vm).upvalues) = Len(Proto(vm).upvalues)
       /\ \A i \in 1..Proto(vm).localCount : ~IsHandle(vm.stack[Frame(vm).base + i])
  BY <1>4, <1>5 DEF FrameOk
<1> HIDE DEF n
<1>11. n \in 1..n
  BY <1>3
<1>12. QED
  BY <1>1, <1>2, <1>3, <1>4, <1>6, <1>7, <1>8, <1>9, <1>10, <1>11 DEF n

LEMMA HereRefers ==
  ASSUME InTurn
  PROVE  /\ RefersRightly(Proto(vm), Here)
         /\ Frame(vm).pc \in 1..Len(Proto(vm).code)
         /\ \A s \in depths[Frame(vm).proto + 1] :
              s[1] \in 1..Len(Proto(vm).code) + 1 /\ s[2] \in Nat
         /\ <<1, 0>> \in depths[Frame(vm).proto + 1]
<1>1. /\ Frame(vm).pc \in 1..Len(Proto(vm).code) + 1 /\ Len(Proto(vm).code) \in Nat
      /\ Frame(vm).proto + 1 \in DOMAIN program
      /\ Balanced(Proto(vm).code, depths[Frame(vm).proto + 1])
  BY HereFacts DEF InTurn
<1>2. Frame(vm).pc \in 1..Len(Proto(vm).code)
  BY <1>1 DEF InTurn, InCode
<1>3. RefersRightly(Proto(vm), Here)
  BY <1>1, <1>2, ProtoFacts DEF Proto, Here, InTurn
<1>4. QED
  BY <1>1, <1>2, <1>3 DEF Balanced

(* Where the outcomes of an instruction lead. *)
Landing(mv) == IF mv.jumps THEN Frame(vm).pc + 1 + Here.n ELSE Frame(vm).pc + 1
Left(mv)    == Operands - mv.takes + mv.gives

LEMMA MoveLands ==
  ASSUME InTurn, NEW mv \in Moves(Here)
  PROVE  /\ ~(Operands < mv.takes)
         /\ <<Landing(mv), Left(mv)>> \in depths[Frame(vm).proto + 1]
         /\ Landing(mv) \in 1..Len(Proto(vm).code) + 1 /\ Left(mv) \in Nat
<1> DEFINE D == depths[Frame(vm).proto + 1]
           c == Proto(vm).code
           s == <<Frame(vm).pc, Operands>>
<1>1. s \in D /\ Balanced(c, D)
  BY HereFacts DEF InTurn
<1>2. Frame(vm).pc \in 1..Len(c) /\ Len(c) \in Nat
  BY HereRefers, HereFacts DEF InTurn
<1>3. c[s[1]] = Here
  BY DEF Here
<1>4. s[1] <= Len(c) /\ s[1] = Frame(vm).pc /\ s[2] = Operands
  BY <1>2
<1>5. ~Starved(Here, Operands) /\ Successors(c, s) \subseteq D
  BY <1>1, <1>3, <1>4 DEF Balanced
<1>6. <<Landing(mv), Left(mv)>> \in Successors(c, s)
  BY <1>3, <1>4 DEF Successors, Landing, Left, Target
<1>7. <<Landing(mv), Left(mv)>> \in D
  BY <1>5, <1>6
<1> HIDE DEF D
<1>8. \A r \in D : r[1] \in 1..Len(c) + 1 /\ r[2] \in Nat
  BY HereRefers DEF D
<1>9. Landing(mv) \in 1..Len(c) + 1 /\ Left(mv) \in Nat
  BY <1>7, <1>8
<1>10. QED
  BY <1>5, <1>7, <1>9 DEF Starved, D

-----------------------------------------------------------------------------
(* The state an instruction works on, with the program counter at q and k  *)
(* operands; and with p and h unless it has faulted.                       *)

Turn(m, q, k) ==
  /\ Moved(vm, m) /\ m.status = vm.status
  /\ m.frames[Len(vm.frames)].pc = q
  /\ k \in Nat /\ Len(m.stack) = Frame(vm).base + Proto(vm).localCount + k

Work(m, p, h) == \E q, k : Turn(m, q, k) /\ (m.fault = "none" => q = p /\ k = h)

LEMMA TurnFacts ==
  ASSUME ProgramVerified, Sound(vm), Running, NEW m, NEW q, NEW k, Turn(m, q, k)
  PROVE  LET n == Len(vm.frames)
         IN  /\ DataSound(m) /\ m.inner = vm.inner /\ Len(m.frames) = n /\ n \in 1..n
             /\ m.frames # << >>
             /\ q \in 1..Len(Proto(vm).code) + 1 /\ k \in Nat
             /\ Frame(m).base = Frame(vm).base /\ Frame(m).proto = Frame(vm).proto
             /\ Frame(m).pc = q /\ Frame(m) = m.frames[n]
             /\ Proto(m) = Proto(vm) /\ ProtoOf(m, n) = Proto(vm)
             /\ Height(m, n) = k /\ Mid(m) /\ ~Waits(m, n) /\ m.status = "running"
             /\ \A v : Held(vm, v) => Held(m, v)
<1> DEFINE n == Len(vm.frames)
<1>1. /\ Mid(vm) /\ vm.frames # << >> /\ ~Waits(vm, n) /\ n \in Nat /\ n \in 1..n
      /\ Frame(vm) = vm.frames[n] /\ Proto(vm) = ProtoOf(vm, n)
      /\ Frame(vm).base \in Nat /\ Proto(vm).localCount \in Nat /\ vm.status = "running"
  BY HereFacts
<1>2. /\ Moved(vm, m) /\ m.frames[n].pc = q /\ m.status = vm.status
      /\ k \in Nat /\ Len(m.stack) = Frame(vm).base + Proto(vm).localCount + k
  BY DEF Turn
<1>3. /\ ProtoOf(m, n) = ProtoOf(vm, n) /\ m.frames[n].base = vm.frames[n].base
      /\ m.frames[n].proto = vm.frames[n].proto /\ Len(m.frames) = n /\ m.inner = vm.inner
  BY <1>1, <1>2, MovedFrames
<1>4. DataSound(m) /\ q \in 1..Len(Proto(vm).code) + 1
  BY <1>1, <1>2 DEF Moved
<1>5. Frame(m) = m.frames[n] /\ Proto(m) = Proto(vm)
  BY <1>1, <1>3 DEF Frame, Proto, Last, ProtoOf
<1>6. m.frames # << >>
  BY <1>1, <1>3
<1>7. Mid(m)
  BY <1>1, <1>2, MovedMid
<1>8. Height(m, n) = k
  BY <1>1, <1>2, <1>3 DEF Height, TopOf
<1>9. ~Waits(m, n)
  BY <1>1, <1>3 DEF Waits
<1>10. ASSUME NEW v, Held(vm, v) PROVE Held(m, v)
  <2>1. Len(m.heap) >= Len(vm.heap) /\ Len(m.cells) >= Len(vm.cells)
    BY <1>2 DEF Moved
  <2>2. /\ Len(m.heap) \in Nat /\ Len(vm.heap) \in Nat
        /\ Len(m.cells) \in Nat /\ Len(vm.cells) \in Nat
    BY <1>1, <1>4, SizesOf DEF Mid
  <2>3. QED
    BY <1>10, <2>1, <2>2, ValueGrows DEF Held
<1>11. QED
  BY <1>1, <1>2, <1>3, <1>4, <1>5, <1>6, <1>7, <1>8, <1>9, <1>10

LEMMA TurnSame ==
  ASSUME NEW m, NEW q, NEW k, Turn(m, q, k), NEW r, Same(m, r)
  PROVE  Turn(r, q, k)
BY DEF Turn, Same, Moved

LEMMA WorkSame ==
  ASSUME NEW m, NEW p, NEW h, Work(m, p, h), NEW r, Same(m, r)
  PROVE  Work(r, p, h)
<1>1. PICK q, k : Turn(m, q, k) /\ (m.fault = "none" => q = p /\ k = h)
  BY DEF Work
<1>2. Turn(r, q, k)
  BY <1>1, TurnSame
<1>3. r.fault = "none" => m.fault = "none"
  BY DEF Same
<1>4. QED
  BY <1>1, <1>2, <1>3 DEF Work

LEMMA WorkIs ==
  ASSUME NEW m, NEW q, NEW k, Turn(m, q, k)
  PROVE  Work(m, q, k)
BY DEF Work

LEMMA WorkGood ==
  ASSUME NEW m, NEW p, NEW h, Work(m, p, h)
  PROVE  DataSound(m)
BY DEF Work, Turn, Moved

LEMMA WorkTurn ==
  ASSUME NEW m, NEW p, NEW h, Work(m, p, h), m.fault = "none"
  PROVE  Turn(m, p, h)
BY DEF Work

(* Of a state that has faulted, the program counter does not matter.       *)
LEMMA WorkFaulted ==
  ASSUME NEW m, NEW p, NEW h, Work(m, p, h), m.fault # "none", NEW q, NEW k
  PROVE  Work(m, q, k)
BY DEF Work

LEMMA WorkCharge ==
  ASSUME NEW m, NEW p, NEW h, Work(m, p, h), NEW n
  PROVE  Work(Charge(m, n), p, h) /\ Work(Alloc(m, n), p, h)
BY WorkGood, WorkSame, ChargeSame, AllocSame

(* An error: where the instruction would have led does not matter.         *)
LEMMA WorkRaise ==
  ASSUME NEW m, NEW p, NEW h, Work(m, p, h), NEW q, NEW k
  PROVE  /\ \A t : Work(Raise(m, Text(t)), q, k)
         /\ Work(TypeError(m), q, k)
         /\ \A v : Held(m, v) => Work(Raise(m, v), q, k)
<1>1. DataSound(m)
  BY WorkGood
<1>2. ASSUME NEW r, Same(m, r), r.fault # "none" PROVE Work(r, q, k)
  BY <1>2, WorkSame, WorkFaulted
<1>3. QED
  BY <1>1, <1>2, RaiseText, RaiseSame

(* Pushing a slot. *)
HeldSlot(m, s) == IsSlot(s, Len(m.heap), Len(m.cells))

LEMMA StackGrown ==
  ASSUME NEW m, DataSound(m), NEW v, HeldSlot(m, v),
         NEW r, r = [m EXCEPT !.stack = Append(@, v)]
  PROVE  /\ DataSound(r) /\ r.frames = m.frames /\ r.inner = m.inner /\ r.status = m.status
         /\ r.heap = m.heap /\ r.cells = m.cells /\ r.fault = m.fault
         /\ Len(r.stack) = Len(m.stack) + 1 /\ r.stack[Len(m.stack) + 1] = v
         /\ \A i \in 1..Len(m.stack) : r.stack[i] = m.stack[i]
<1>1. DOMAIN m = Fields /\ IsSeq(m.stack) /\ Len(m.stack) \in Nat
  BY SizesOf
<1>2. /\ DOMAIN r = Fields /\ r.frames = m.frames /\ r.inner = m.inner /\ r.status = m.status
      /\ r.heap = m.heap /\ r.cells = m.cells /\ r.error = m.error /\ r.fault = m.fault
      /\ r.stack = Append(m.stack, v)
  BY <1>1 DEF Fields
<1>3. /\ IsSeq(r.stack) /\ Len(r.stack) = Len(m.stack) + 1 /\ r.stack[Len(m.stack) + 1] = v
      /\ \A i \in 1..Len(m.stack) : r.stack[i] = m.stack[i]
  BY <1>1, <1>2, SeqAppend
<1>4. \A i \in 1..Len(m.stack) + 1 : i \in 1..Len(m.stack) \/ i = Len(m.stack) + 1
  BY <1>1
<1>5. DataSound(r)
  <2>1. \A i \in 1..Len(m.stack) : HeldSlot(m, m.stack[i])
    BY DEF DataSound, StackSound, HeldSlot
  <2>2. \A i \in 1..Len(m.stack) + 1 : HeldSlot(m, r.stack[i])
    BY <1>3, <1>4, <2>1
  <2>3. StackSound(r)
    BY <1>2, <1>3, <2>2 DEF StackSound, HeldSlot
  <2>4. QED
    BY <1>2, <2>3 DEF DataSound, Good, HeapSound
<1>6. QED
  BY <1>2, <1>3, <1>5

LEMMA Within ==
  ASSUME NEW b \in Nat, NEW l \in Nat, NEW k \in Nat, NEW n, n = b + l + k
  PROVE  (\A i \in 1..b : i \in 1..n) /\ (\A i \in 1..l : b + i \in 1..n) /\ b + l <= n
OBVIOUS

(* What is below the operands is as it was. *)
SameBelow(m, r) ==
  /\ \A i \in 1..Frame(vm).base : r.stack[i] = m.stack[i]
  /\ \A i \in 1..Proto(vm).localCount :
       IsHandle(r.stack[Frame(vm).base + i]) => IsHandle(m.stack[Frame(vm).base + i])

LEMMA TurnMore ==
  ASSUME ProgramVerified, Sound(vm), Running, NEW m, NEW q, NEW k, Turn(m, q, k),
         NEW r, DataSound(r), r.frames = m.frames, r.inner = m.inner, r.status = m.status,
         Len(r.heap) >= Len(m.heap), Len(r.cells) >= Len(m.cells),
         NEW j \in Nat, Len(r.stack) = Frame(vm).base + Proto(vm).localCount + j,
         SameBelow(m, r)
  PROVE  Turn(r, q, j)
<1>1. /\ Frame(vm).base \in Nat /\ Proto(vm).localCount \in Nat
      /\ Frame(vm) = vm.frames[Len(vm.frames)] /\ Proto(vm) = ProtoOf(vm, Len(vm.frames))
      /\ DataSound(vm)
  BY HereFacts
<1>2. Moved(vm, m) /\ DataSound(m)
  BY DEF Turn, Moved
<1>3. Len(r.heap) >= Len(vm.heap) /\ Len(r.cells) >= Len(vm.cells)
  <2>1. Len(m.heap) >= Len(vm.heap) /\ Len(m.cells) >= Len(vm.cells)
    BY <1>2 DEF Moved
  <2>2. /\ Len(m.heap) \in Nat /\ Len(vm.heap) \in Nat /\ Len(r.heap) \in Nat
        /\ Len(m.cells) \in Nat /\ Len(vm.cells) \in Nat /\ Len(r.cells) \in Nat
    BY <1>1, <1>2, SizesOf
  <2>3. QED
    BY <2>1, <2>2
<1>4. Frame(vm).base + Proto(vm).localCount <= Len(r.stack)
  BY <1>1, Within
<1>5. \A i \in 1..Frame(vm).base : r.stack[i] = vm.stack[i]
  BY <1>1, <1>2 DEF Moved, SameBelow
<1>6. \A i \in 1..Proto(vm).localCount : ~IsHandle(r.stack[Frame(vm).base + i])
  BY <1>1, <1>2 DEF Moved, SameBelow
<1>7. Moved(vm, r)
  <2>1. SameFrame(vm.frames[Len(vm.frames)], r.frames[Len(vm.frames)])
    BY <1>2 DEF Moved
  <2>2. /\ r.frames[Len(vm.frames)].pc \in 1..Len(Proto(vm).code) + 1
        /\ r.inner = vm.inner /\ Len(r.frames) = Len(vm.frames)
        /\ \A f \in 1..Len(vm.frames) - 1 : r.frames[f] = vm.frames[f]
    BY <1>1, <1>2 DEF Moved
  <2>3. QED
    BY <1>1, <1>3, <1>4, <1>5, <1>6, <2>1, <2>2 DEF Moved
<1>8. QED
  BY <1>7 DEF Turn

LEMMA TurnPush ==
  ASSUME ProgramVerified, Sound(vm), Running, NEW m, NEW q, NEW k, Turn(m, q, k),
         NEW v, HeldSlot(m, v), NEW r, r = [m EXCEPT !.stack = Append(@, v)]
  PROVE  Turn(r, q, k + 1)
<1>1. /\ DataSound(m) /\ k \in Nat
      /\ Len(m.stack) = Frame(vm).base + Proto(vm).localCount + k
      /\ Frame(vm).base \in Nat /\ Proto(vm).localCount \in Nat
      /\ Frame(vm) = vm.frames[Len(vm.frames)] /\ Proto(vm) = ProtoOf(vm, Len(vm.frames))
  BY HereFacts DEF Turn, Moved
<1>2. /\ DataSound(r) /\ r.frames = m.frames /\ r.inner = m.inner /\ r.status = m.status
      /\ r.heap = m.heap /\ r.cells = m.cells /\ r.fault = m.fault
      /\ Len(r.stack) = Len(m.stack) + 1
      /\ \A i \in 1..Len(m.stack) : r.stack[i] = m.stack[i]
  BY <1>1, StackGrown
<1>3. SameBelow(m, r)
  <2>1. /\ \A i \in 1..Frame(vm).base : i \in 1..Len(m.stack)
        /\ \A i \in 1..Proto(vm).localCount : Frame(vm).base + i \in 1..Len(m.stack)
    BY <1>1, Within
  <2>2. QED
    BY <1>2, <2>1 DEF SameBelow
<1>4. k + 1 \in Nat /\ Len(r.stack) = Frame(vm).base + Proto(vm).localCount + (k + 1)
  BY <1>1, <1>2
<1>5. Len(r.heap) >= Len(m.heap) /\ Len(r.cells) >= Len(m.cells)
  BY <1>1, <1>2, SizesOf
<1>6. QED
  BY <1>2, <1>3, <1>4, <1>5, TurnMore

LEMMA WorkPush ==
  ASSUME ProgramVerified, Sound(vm), Running, NEW m, NEW p, NEW h, Work(m, p, h),
         NEW v, HeldSlot(m, v)
  PROVE  Work(Push(m, v), p, h + 1)
<1> DEFINE r == [m EXCEPT !.stack = Append(@, v)]
<1>1. CASE m.fault # "none"
  BY <1>1, WorkFaulted DEF Push
<1>2. CASE m.fault = "none"
  <2>1. Turn(m, p, h) /\ Push(m, v) = r
    BY <1>2, WorkTurn DEF Push
  <2>2. Turn(r, p, h + 1)
    BY <2>1, TurnPush
  <2> HIDE DEF r
  <2>3. QED
    BY <2>1, <2>2, WorkIs
<1>3. QED
  BY <1>1, <1>2

LEMMA TurnDrop ==
  ASSUME ProgramVerified, Sound(vm), Running, NEW m, NEW q, NEW k, Turn(m, q, k),
         NEW n \in 0..k
  PROVE  Turn(Drop(m, n), q, k - n)
<1> DEFINE s == SubSeq(m.stack, 1, Len(m.stack) - n)
           r == Drop(m, n)
<1>1. /\ DataSound(m) /\ k \in Nat
      /\ Len(m.stack) = Frame(vm).base + Proto(vm).localCount + k
      /\ Frame(vm).base \in Nat /\ Proto(vm).localCount \in Nat
  BY HereFacts DEF Turn, Moved
<1>2. DOMAIN m = Fields /\ IsSeq(m.stack) /\ Len(m.stack) \in Nat
  BY <1>1, SizesOf
<1>3. k - n \in Nat /\ Len(m.stack) - n \in Nat
      /\ Len(m.stack) - n = Frame(vm).base + Proto(vm).localCount + (k - n)
  BY <1>1
<1>4. /\ IsSeq(s) /\ Len(s) = Len(m.stack) - n
      /\ \A i \in 1..Len(s) : s[i] = m.stack[i]
  BY <1>3, SeqSub
<1>5. /\ DOMAIN r = Fields /\ r.frames = m.frames /\ r.inner = m.inner /\ r.status = m.status
      /\ r.heap = m.heap /\ r.cells = m.cells /\ r.error = m.error /\ r.stack = s
  BY <1>2 DEF Fields, Drop
<1> HIDE DEF s, r
<1>6. DataSound(r)
  <2>1. \A i \in 1..Len(m.stack) : HeldSlot(m, m.stack[i])
    BY <1>1 DEF DataSound, StackSound, HeldSlot
  <2>2. \A i \in 1..Len(s) : i \in 1..Len(m.stack)
    BY <1>2, <1>3, <1>4
  <2>3. StackSound(r)
    BY <1>4, <1>5, <2>1, <2>2 DEF StackSound, HeldSlot
  <2>4. QED
    BY <1>1, <1>5, <2>3 DEF DataSound, Good, HeapSound
<1>7. SameBelow(m, r)
  <2>1. /\ \A i \in 1..Frame(vm).base : i \in 1..Len(s)
        /\ \A i \in 1..Proto(vm).localCount : Frame(vm).base + i \in 1..Len(s)
    BY <1>1, <1>3, <1>4, Within
  <2>2. QED
    BY <1>4, <1>5, <2>1 DEF SameBelow
<1>8. Len(r.heap) >= Len(m.heap) /\ Len(r.cells) >= Len(m.cells)
  BY <1>1, <1>5, SizesOf
<1>9. Turn(r, q, k - n)
  BY <1>3, <1>4, <1>5, <1>6, <1>7, <1>8, TurnMore
<1>10. QED
  BY <1>9 DEF r

LEMMA TurnJump ==
  ASSUME ProgramVerified, Sound(vm), Running, NEW m, NEW q, NEW k, Turn(m, q, k),
         m.fault = "none", NEW n, q + n \in 1..Len(Proto(vm).code) + 1
  PROVE  Turn(JumpBy(m, n), q + n, k)
<1> DEFINE L == Len(vm.frames)
           e == [m.frames[L] EXCEPT !.pc = @ + n]
           fs == [m.frames EXCEPT ![L] = e]
           r == JumpBy(m, n)
<1>1. /\ DataSound(m) /\ Len(m.frames) = L /\ m.frames[L].pc = q /\ L \in 1..L /\ L \in Nat
      /\ Moved(vm, m) /\ Frame(vm) = vm.frames[L] /\ Proto(vm) = ProtoOf(vm, L)
  BY HereFacts DEF Turn, Moved
<1>2. DOMAIN m = Fields /\ IsSeq(m.frames) /\ DOMAIN m.frames = 1..L
  BY <1>1, SizesOf
<1>3. /\ DOMAIN r = Fields /\ r.frames = fs /\ r.inner = m.inner /\ r.status = m.status
      /\ r.heap = m.heap /\ r.cells = m.cells /\ r.error = m.error /\ r.stack = m.stack
  BY <1>1, <1>2 DEF Fields, JumpBy
<1>4. DOMAIN m.frames[L] = {"proto", "pc", "base", "upvalues"}
  <2>1. FrameOk(m, L)
    BY <1>1, TurnFacts DEF Mid, Shaped
  <2>2. QED
    BY <2>1 DEF FrameOk
<1>5. e.pc = q + n /\ SameFrame(m.frames[L], e)
  BY <1>1, <1>4 DEF SameFrame
<1>6. SameFrame(vm.frames[L], m.frames[L])
  BY <1>1 DEF Moved
<1>7. SameFrame(vm.frames[L], e)
  BY <1>5, <1>6 DEF SameFrame
<1> HIDE DEF e
<1>8. fs = [i \in 1..L |-> fs[i]] /\ fs[L] = e /\ \A i \in 1..L - 1 : fs[i] = m.frames[i]
  BY <1>1, <1>2
<1> HIDE DEF fs, r
<1>9. IsSeq(fs) /\ Len(fs) = L
  BY <1>1, <1>8, SeqFrom
<1>10. DataSound(r)
  BY <1>1, <1>3, <1>9 DEF DataSound, Good, StackSound, HeapSound
<1>11. Moved(vm, r)
  <2>1. /\ \A f \in 1..L - 1 : r.frames[f] = vm.frames[f]
        /\ SameFrame(vm.frames[L], r.frames[L])
        /\ r.frames[L].pc \in 1..Len(Proto(vm).code) + 1
    BY <1>1, <1>3, <1>5, <1>7, <1>8 DEF Moved
  <2>2. QED
    BY <1>1, <1>3, <1>9, <1>10, <2>1 DEF Moved
<1>12. Turn(r, q + n, k)
  BY <1>1, <1>3, <1>5, <1>8, <1>11 DEF Turn
<1>13. QED
  BY <1>12 DEF r

LEMMA WorkJump ==
  ASSUME ProgramVerified, Sound(vm), Running, NEW m, NEW p, NEW h, Work(m, p, h),
         NEW n, p + n \in 1..Len(Proto(vm).code) + 1
  PROVE  Work(JumpBy(m, n), p + n, h)
<1>1. CASE m.fault # "none"
  BY <1>1, WorkFaulted DEF JumpBy
<1>2. CASE m.fault = "none"
  BY <1>2, WorkTurn, TurnJump, WorkIs
<1>3. QED
  BY <1>1, <1>2

LEMMA TurnStart ==
  ASSUME ProgramVerified, Sound(vm), Running
  PROVE  Turn(vm, Frame(vm).pc, Operands)
<1> DEFINE L == Len(vm.frames)
<1>1. /\ DataSound(vm) /\ Frame(vm) = vm.frames[L] /\ Proto(vm) = ProtoOf(vm, L) /\ L \in 1..L
      /\ Frame(vm).base \in Nat /\ Proto(vm).localCount \in Nat /\ Operands \in Nat
      /\ Len(vm.stack) = Frame(vm).base + Proto(vm).localCount + Operands
      /\ Frame(vm).pc \in 1..Len(Proto(vm).code) + 1
      /\ \A i \in 1..Proto(vm).localCount : ~IsHandle(vm.stack[Frame(vm).base + i])
      /\ Mid(vm)
  BY HereFacts
<1>2. SameFrame(vm.frames[L], vm.frames[L])
  BY DEF SameFrame
<1>3. Frame(vm).base + Proto(vm).localCount <= Len(vm.stack)
  BY <1>1, Within
<1>4. Len(vm.heap) >= Len(vm.heap) /\ Len(vm.cells) >= Len(vm.cells)
  BY <1>1, SizesOf
<1>5. Moved(vm, vm)
  BY <1>1, <1>2, <1>3, <1>4 DEF Moved
<1>6. QED
  BY <1>1, <1>5 DEF Turn

(* The instruction has been fetched, and its operands popped. *)
LEMMA TurnFetched ==
  ASSUME InTurn
  PROVE  Turn(Fetched, Frame(vm).pc + 1, Operands)
<1>1. Turn(vm, Frame(vm).pc, Operands) /\ vm.fault = "none"
  BY TurnStart, HereFacts DEF InTurn
<1>2. Frame(vm).pc + 1 \in 1..Len(Proto(vm).code) + 1
  <2>1. Frame(vm).pc \in 1..Len(Proto(vm).code) /\ Len(Proto(vm).code) \in Nat
    BY HereRefers, HereFacts DEF InTurn
  <2>2. QED
    BY <2>1
<1>3. Turn(JumpBy(vm, 1), Frame(vm).pc + 1, Operands)
  BY <1>1, <1>2, TurnJump DEF InTurn
<1>4. DataSound(JumpBy(vm, 1))
  BY <1>3 DEF Turn, Moved
<1>5. QED
  BY <1>3, <1>4, ChargeSame, TurnSame DEF Fetched

LEMMA TurnPop ==
  ASSUME ProgramVerified, Sound(vm), Running, NEW m, NEW q, NEW k, Turn(m, q, k),
         NEW n \in 0..k
  PROVE  Pop(m, n).fault = "none" => /\ Turn(Pop(m, n), q, k - n) /\ m.fault = "none"
                                     /\ Pop(m, n) = Drop(m, n)
                                     /\ \A i \in 1..n : ~IsHandle(m.stack[Len(m.stack) + 1 - i])
<1>1. DataSound(m) /\ DOMAIN m = Fields
  BY SizesOf DEF Turn, Moved
<1>2. Raise(m, Text("handle as value")).fault # "none"
  BY <1>1, RaiseText
<1>3. Drop(m, n).fault = m.fault
  BY <1>1 DEF Drop, Fields
<1>4. Turn(Drop(m, n), q, k - n)
  BY TurnDrop
<1>5. QED
  BY <1>2, <1>3, <1>4 DEF Pop

LEMMA PopFaulted ==
  ASSUME ProgramVerified, Sound(vm), Running, NEW m, NEW q, NEW k, Turn(m, q, k),
         NEW n \in 0..k
  PROVE  \E p, h : Turn(Pop(m, n), p, h)
<1>1. DataSound(m)
  BY DEF Turn, Moved
<1>2. Turn(Raise(m, Text("handle as value")), q, k)
  BY <1>1, RaiseText, TurnSame
<1>3. Turn(Drop(m, n), q, k - n)
  BY TurnDrop
<1>4. QED
  BY <1>2, <1>3 DEF Pop

-----------------------------------------------------------------------------
(* Going back to the first n frames, with p functions left that run inside *)
(* instructions: what was above the n-th frame's slots is gone, and there  *)
(* may be new operands.                                                    *)

Cut(m, r, n, p) ==
  /\ n \in 1..Len(m.frames) /\ p \in 0..Len(m.inner)
  /\ DataSound(r) /\ Len(r.heap) >= Len(m.heap) /\ Len(r.cells) >= Len(m.cells)
  /\ Len(r.frames) = n /\ \A f \in 1..n : r.frames[f] = m.frames[f]
  /\ Len(r.inner) = p /\ \A i \in 1..p : r.inner[i] = m.inner[i]
  /\ TopOf(m, n) <= Len(r.stack) /\ \A i \in 1..TopOf(m, n) : r.stack[i] = m.stack[i]
  /\ \A i \in 1..p : m.inner[i].frameLen <= n
  /\ \A i \in p + 1..Len(m.inner) : m.inner[i].frameLen >= n
  /\ (\E i \in 1..p : m.inner[i].frameLen = n) => Len(r.stack) = TopOf(m, n)

LEMMA CutMid ==
  ASSUME ProgramVerified, NEW m, Mid(m), NEW r, NEW n, NEW p, Cut(m, r, n, p)
  PROVE  Mid(r) /\ Height(r, n) = Len(r.stack) - TopOf(m, n) + Height(m, n)
<1>1. /\ n \in 1..Len(m.frames) /\ p \in 0..Len(m.inner)
      /\ DataSound(r) /\ Len(r.heap) >= Len(m.heap) /\ Len(r.cells) >= Len(m.cells)
      /\ Len(r.frames) = n /\ Len(r.inner) = p
      /\ TopOf(m, n) <= Len(r.stack)
      /\ (\E i \in 1..p : m.inner[i].frameLen = n) => Len(r.stack) = TopOf(m, n)
  BY DEF Cut
<1>2. /\ \A f \in 1..n : r.frames[f] = m.frames[f]
      /\ \A i \in 1..p : r.inner[i] = m.inner[i] /\ m.inner[i].frameLen <= n
      /\ \A i \in p + 1..Len(m.inner) : m.inner[i].frameLen >= n
      /\ \A i \in 1..TopOf(m, n) : r.stack[i] = m.stack[i]
  BY DEF Cut
<1>3. /\ Len(m.heap) \in Nat /\ Len(m.cells) \in Nat /\ Len(m.frames) \in Nat
      /\ Len(r.heap) \in Nat /\ Len(r.cells) \in Nat /\ Len(m.inner) \in Nat /\ Len(r.stack) \in Nat
  BY <1>1, SizesOf DEF Mid
<1>4. /\ \A v : IsValue(v, Len(m.heap), Len(m.cells)) => IsValue(v, Len(r.heap), Len(r.cells))
      /\ \A s : AllValues(s, Len(m.heap), Len(m.cells)) => AllValues(s, Len(r.heap), Len(r.cells))
  BY <1>1, <1>3, ValueGrows
<1>5. \A f \in 1..n : f \in 1..Len(m.frames) /\ ProtoOf(r, f) = ProtoOf(m, f)
  BY <1>1, <1>2, <1>3 DEF ProtoOf
<1>6. ASSUME NEW f \in 1..n, f < n PROVE TopOf(r, f) = TopOf(m, f)
  <2>1. f + 1 \in 1..n /\ f # n /\ f # Len(m.frames)
    BY <1>1, <1>3, <1>6
  <2>2. QED
    BY <1>1, <1>2, <2>1 DEF TopOf
<1>7. TopOf(r, n) = Len(r.stack)
  BY <1>1 DEF TopOf
<1>8. \A f \in 1..n : /\ m.frames[f].base \in Nat /\ ProtoOf(m, f).localCount \in Nat
                      /\ m.frames[f].base + ProtoOf(m, f).localCount <= TopOf(m, f)
                      /\ TopOf(m, f) \in Nat
  BY <1>5, FrameFacts
<1>9. ASSUME NEW f \in 1..n PROVE TopOf(m, f) <= TopOf(m, n)
  <2>1. CASE f = n
    BY <1>8, <2>1
  <2>2. CASE f < n
    <3>1. TopOf(m, f) <= m.frames[n].base
      BY <1>1, <1>5, <2>2, BasesRise
    <3>2. /\ TopOf(m, f) \in Nat /\ m.frames[n].base \in Nat /\ ProtoOf(m, n).localCount \in Nat
          /\ m.frames[n].base + ProtoOf(m, n).localCount <= TopOf(m, n) /\ TopOf(m, n) \in Nat
      <4>1. n \in 1..n
        BY <1>1
      <4>2. QED
        BY <1>8, <4>1
    <3> DEFINE x == TopOf(m, f)
               b == m.frames[n].base
               l == ProtoOf(m, n).localCount
               y == TopOf(m, n)
    <3>3. x \in Nat /\ b \in Nat /\ l \in Nat /\ y \in Nat /\ x <= b /\ b + l <= y
      BY <3>1, <3>2
    <3> HIDE DEF x, b, l, y
    <3>4. x <= y
      BY <3>3
    <3>5. QED
      BY <3>4 DEF x, y
  <2>3. QED
    BY <1>1, <1>3, <2>1, <2>2
<1>10. \A f \in 1..n : FrameOk(m, f)
  BY <1>5 DEF Mid, Shaped
<1>11. ASSUME NEW f \in 1..n PROVE FrameOk(r, f)
  <2>1. FrameOk(m, f) /\ r.frames[f] = m.frames[f] /\ ProtoOf(r, f) = ProtoOf(m, f)
    BY <1>2, <1>5, <1>10
  <2>2. \A u \in 1..Len(m.frames[f].upvalues) : m.frames[f].upvalues[u] \in 1..Len(r.cells)
    <3>1. \A c \in 1..Len(m.cells) : c \in 1..Len(r.cells)
      BY <1>1, <1>3
    <3>2. QED
      BY <2>1, <3>1 DEF FrameOk
  <2>3. \A i \in 1..ProtoOf(m, f).localCount : m.frames[f].base + i \in 1..TopOf(m, n)
    <3>1. /\ m.frames[f].base \in Nat /\ ProtoOf(m, f).localCount \in Nat
          /\ m.frames[f].base + ProtoOf(m, f).localCount <= TopOf(m, f)
          /\ TopOf(m, f) \in Nat /\ TopOf(m, n) \in Nat /\ TopOf(m, f) <= TopOf(m, n)
      BY <1>1, <1>8, <1>9
    <3>2. QED
      BY <3>1
  <2>4. \A i \in 1..ProtoOf(m, f).localCount : ~IsHandle(r.stack[m.frames[f].base + i])
    BY <1>2, <2>1, <2>3 DEF FrameOk
  <2>5. m.frames[f].base + ProtoOf(m, f).localCount <= TopOf(r, f)
    <3>1. CASE f = n
      BY <1>1, <1>3, <1>7, <1>8, <3>1
    <3>2. CASE f < n
      BY <1>6, <1>8, <3>2
    <3>3. QED
      BY <1>1, <1>3, <3>1, <3>2
  <2>6. QED
    BY <2>1, <2>2, <2>4, <2>5 DEF FrameOk
<1>12. ASSUME NEW i \in 1..p PROVE EntryOk(r, i)
  <2> DEFINE e == m.inner[i]
  <2>1. i \in 1..Len(m.inner) /\ r.inner[i] = e /\ e.frameLen <= n
    BY <1>1, <1>2, <1>3
  <2>2. EntryOk(m, i)
    BY <2>1 DEF Mid, Shaped
  <2>3. e.frameLen \in 1..n
    <3>1. e.frameLen \in 1..Len(m.frames)
      BY <2>2 DEF EntryOk
    <3>2. QED
      BY <1>1, <1>3, <2>1, <3>1
  <2>4. e.stackLen = TopOf(r, e.frameLen)
    <3>1. e.stackLen = TopOf(m, e.frameLen)
      BY <2>2 DEF EntryOk
    <3>2. CASE e.frameLen = n
      BY <1>1, <1>7, <3>1, <3>2
    <3>3. CASE e.frameLen < n
      BY <1>6, <2>3, <3>1, <3>3
    <3>4. QED
      BY <1>1, <2>3, <3>2, <3>3
  <2>5. SortOk(m, e) => SortOk(r, e)
    BY <1>1, <1>3, <1>4 DEF SortOk
  <2>6. i > 1 => r.inner[i - 1] = m.inner[i - 1]
    <3>1. p \in Nat
      BY <1>1, <1>3
    <3>2. i > 1 => i - 1 \in 1..p
      BY <3>1
    <3>3. QED
      BY <1>2, <3>2
  <2> HIDE DEF e
  <2>7. QED
    BY <1>1, <2>1, <2>2, <2>3, <2>4, <2>5, <2>6 DEF EntryOk, e
<1>13. ASSUME NEW f \in 1..n, f < n
       PROVE  Waits(r, f) = Waits(m, f) /\ Awaits(r, f) = Awaits(m, f)
  <2>1. \A i \in 1..Len(m.inner) : m.inner[i].frameLen = f => i \in 1..p
    <3>1. SUFFICES ASSUME NEW i \in 1..Len(m.inner), m.inner[i].frameLen = f, i \notin 1..p
                   PROVE FALSE
      OBVIOUS
    <3>2. i \in p + 1..Len(m.inner)
      BY <1>1, <1>3, <3>1
    <3>3. m.inner[i].frameLen >= n
      BY <1>2, <3>2
    <3>4. QED
      BY <1>1, <1>13, <3>1, <3>3
  <2>2. \A i \in 1..p : i \in 1..Len(m.inner) /\ r.inner[i] = m.inner[i]
    BY <1>1, <1>2, <1>3
  <2>3. QED
    BY <1>1, <2>1, <2>2 DEF Waits, Awaits
<1>14. Waits(r, n) => Waits(m, n) /\ Awaits(r, n) = Awaits(m, n) /\ Len(r.stack) = TopOf(m, n)
  <2>1. SUFFICES ASSUME NEW j \in 1..p, r.inner[j].frameLen = n
                 PROVE Waits(m, n) /\ Awaits(r, n) = Awaits(m, n) /\ Len(r.stack) = TopOf(m, n)
    BY <1>1 DEF Waits
  <2>2. \A i \in 1..p : i \in 1..Len(m.inner) /\ r.inner[i] = m.inner[i]
    BY <1>1, <1>2, <1>3
  <2>3. Waits(m, n) /\ Len(r.stack) = TopOf(m, n)
    BY <1>1, <2>1, <2>2 DEF Waits
  <2>4. ASSUME NEW i \in 1..Len(m.inner), m.inner[i].frameLen = n, m.inner[i].kind = "pcall"
        PROVE  i \in 1..p
    <3>1. SUFFICES ASSUME i \notin 1..p PROVE FALSE
      OBVIOUS
    <3>2. j < i /\ j \in 1..Len(m.inner) /\ m.inner[j].frameLen = n
      BY <1>1, <1>3, <2>1, <2>2, <3>1
    <3>3. m.inner[j].frameLen < m.inner[i].frameLen
      BY <2>4, <3>2, EntriesRise
    <3>4. QED
      BY <1>1, <2>4, <3>2, <3>3
  <2>5. QED
    BY <1>1, <2>2, <2>3, <2>4 DEF Awaits
<1>15. Height(r, n) = Len(r.stack) - TopOf(m, n) + Height(m, n)
  <2>1. Height(r, n) = Len(r.stack) - m.frames[n].base - ProtoOf(m, n).localCount
    BY <1>1, <1>2, <1>5, <1>7 DEF Height
  <2>2. Height(m, n) = TopOf(m, n) - m.frames[n].base - ProtoOf(m, n).localCount
    BY DEF Height
  <2>3. /\ m.frames[n].base \in Nat /\ ProtoOf(m, n).localCount \in Nat /\ TopOf(m, n) \in Nat
    <3>1. n \in 1..n
      BY <1>1
    <3>2. QED
      BY <1>8, <3>1
  <2> DEFINE b == m.frames[n].base
             l == ProtoOf(m, n).localCount
             x == TopOf(m, n)
             y == Len(r.stack)
  <2>4. b \in Nat /\ l \in Nat /\ x \in Nat /\ y \in Nat
    BY <1>3, <2>3
  <2>5. Height(r, n) = y - b - l /\ Height(m, n) = x - b - l
    BY <2>1, <2>2
  <2> HIDE DEF b, l, x, y
  <2>6. Height(r, n) = y - x + Height(m, n)
    BY <2>4, <2>5
  <2>7. QED
    BY <2>6 DEF x, y
<1>16. ASSUME NEW f \in 1..n, f < n \/ Waits(r, f)
       PROVE FoundAt(r, f, Height(r, f) + Awaits(r, f))
  <2>1. CASE f < n
    <3>1. FoundAt(m, f, Height(m, f) + Awaits(m, f))
      BY <1>1, <1>3, <1>5, <2>1 DEF Mid, Shaped
    <3>2. Height(r, f) = Height(m, f)
      BY <1>2, <1>5, <1>6, <2>1 DEF Height
    <3>3. QED
      BY <1>2, <1>13, <2>1, <3>1, <3>2 DEF FoundAt
  <2>2. CASE f = n
    <3>1. Waits(m, n) /\ Awaits(r, n) = Awaits(m, n) /\ Len(r.stack) = TopOf(m, n)
      BY <1>1, <1>14, <1>16, <2>2
    <3>2. FoundAt(m, n, Height(m, n) + Awaits(m, n))
      BY <1>1, <3>1 DEF Mid, Shaped
    <3>3. Height(r, n) = Height(m, n)
      BY <1>2, <1>5, <1>7, <2>2, <3>1 DEF Height
    <3>4. QED
      BY <1>2, <2>2, <3>1, <3>2, <3>3 DEF FoundAt
  <2>3. QED
    BY <1>1, <1>3, <2>1, <2>2
<1>17. QED
  BY <1>1, <1>11, <1>12, <1>15, <1>16 DEF Mid, Shaped

LEMMA SeqConcat ==
  ASSUME NEW s, IsSeq(s), NEW t, IsSeq(t)
  PROVE  /\ IsSeq(s \o t) /\ Len(s \o t) = Len(s) + Len(t)
         /\ \A i \in 1..Len(s) : (s \o t)[i] = s[i]
         /\ \A i \in 1..Len(t) : (s \o t)[Len(s) + i] = t[i]
<1> DEFINE S == {s[i] : i \in DOMAIN s} \cup {t[i] : i \in DOMAIN t}
<1>1. s \in Seq(S) /\ t \in Seq(S)
  BY DEF IsSeq
<1> HIDE DEF S
<1>2. /\ s \o t \in Seq(S) /\ Len(s \o t) = Len(s) + Len(t)
      /\ \A i \in 1..Len(s) : (s \o t)[i] = s[i]
  BY <1>1
<1>3. \A i \in 1..Len(t) : (s \o t)[Len(s) + i] = t[i]
  BY <1>1
<1>4. QED
  BY <1>2, <1>3, SeqIs

LEMMA SeqPair ==
  ASSUME NEW x, NEW y
  PROVE  /\ IsSeq(<<x, y>>) /\ Len(<<x, y>>) = 2 /\ <<x, y>>[1] = x /\ <<x, y>>[2] = y
BY SeqIs DEF IsSeq

(* What only the frames, the stack and the data of a state decide. *)
LEMMA MidParts ==
  ASSUME NEW m, Mid(m), NEW r, DOMAIN r = Fields, r.stack = m.stack, r.frames = m.frames,
         r.inner = m.inner, r.cells = m.cells, r.heap = m.heap, r.error = m.error
  PROVE  Mid(r)
<1>1. DataSound(r)
  BY DEF Mid, DataSound, Good, StackSound, HeapSound
<1>2. ASSUME NEW f
      PROVE  /\ TopOf(r, f) = TopOf(m, f) /\ ProtoOf(r, f) = ProtoOf(m, f)
             /\ Waits(r, f) = Waits(m, f) /\ Awaits(r, f) = Awaits(m, f)
             /\ Height(r, f) = Height(m, f)
             /\ \A h : FoundAt(r, f, h) = FoundAt(m, f, h)
  BY DEF TopOf, ProtoOf, Waits, Awaits, Height, FoundAt
<1>3. ASSUME NEW f \in 1..Len(m.frames) PROVE FrameOk(r, f)
  <2>1. FrameOk(m, f)
    BY DEF Mid, Shaped
  <2>2. QED
    BY <1>2, <2>1 DEF FrameOk
<1>4. ASSUME NEW i \in 1..Len(m.inner) PROVE EntryOk(r, i)
  <2>1. EntryOk(m, i)
    BY DEF Mid, Shaped
  <2>2. SortOk(m, m.inner[i]) => SortOk(r, m.inner[i])
    BY DEF SortOk
  <2>3. QED
    BY <1>2, <2>1, <2>2 DEF EntryOk
<1>5. \A f \in 1..Len(m.frames) :
        f < Len(m.frames) \/ Waits(m, f) => FoundAt(m, f, Height(m, f) + Awaits(m, f))
  BY DEF Mid, Shaped
<1>6. \A f \in 1..Len(r.frames) :
        f < Len(r.frames) \/ Waits(r, f) => FoundAt(r, f, Height(r, f) + Awaits(r, f))
  BY <1>2, <1>5
<1>7. Shaped(r)
  BY <1>3, <1>4, <1>6 DEF Shaped
<1>8. QED
  BY <1>1, <1>7 DEF Mid

-----------------------------------------------------------------------------
(* The pcalls of a state, in one that comes of it: those that still run    *)
(* have the frames and the stack below their checkpoint that they had, and *)
(* one that has just ended has given two values, and is back there.        *)

IsPcall(m, i) == i \in 1..Len(m.inner) /\ m.inner[i].kind = "pcall"

Kept(m, r, i) ==
  /\ \A f \in 1..m.inner[i].frameLen : r.frames[f] = m.frames[f]
  /\ \A j \in 1..m.inner[i].stackLen : r.stack[j] = m.stack[j]

Given(m, r, i) ==
  /\ Len(r.frames) = m.inner[i].frameLen /\ Len(r.stack) = m.inner[i].stackLen + 2
  /\ r.stack[m.inner[i].stackLen + 1] \in {TrueVal, FalseVal}

Keeps(m, r) ==
  \A i : IsPcall(m, i) => i \in 1..Len(r.inner) /\ r.inner[i] = m.inner[i] /\ Kept(m, r, i)

Returns(m, r) ==
  \A i : IsPcall(m, i) =>
    /\ i <= Len(r.inner) => r.inner[i] = m.inner[i] /\ Kept(m, r, i)
    /\ i = Len(r.inner) + 1 => Kept(m, r, i) /\ Given(m, r, i)

Lands(m, r) == Sound(r) /\ Returns(m, r)

(* Where a checkpoint is. *)
LEMMA CheckpointFacts ==
  ASSUME ProgramVerified, NEW m, Mid(m), NEW i \in 1..Len(m.inner)
  PROVE  LET e == m.inner[i]
             n == Len(m.frames)
         IN  /\ n \in Nat /\ e.frameLen \in 1..n /\ e.stackLen \in Nat
             /\ e.stackLen <= Len(m.stack) /\ Len(m.stack) \in Nat /\ Len(m.inner) \in Nat
             /\ e.frameLen # n => e.frameLen \in 1..n - 1 /\ e.stackLen <= m.frames[n].base
<1> DEFINE e == m.inner[i]
           n == Len(m.frames)
<1>1. n \in Nat /\ e.frameLen \in 1..n /\ e.stackLen = TopOf(m, e.frameLen) /\ Len(m.inner) \in Nat
  BY EntryFacts
<1>2. /\ TopOf(m, e.frameLen) \in Nat /\ Len(m.stack) \in Nat
      /\ TopOf(m, e.frameLen) <= Len(m.stack)
  BY <1>1, FrameFacts, BasesRise
<1>3. ASSUME e.frameLen # n PROVE e.frameLen \in 1..n - 1 /\ e.stackLen <= m.frames[n].base
  <2>1. e.frameLen \in 1..n - 1 /\ e.frameLen < n /\ n \in 1..n
    BY <1>1, <1>3
  <2>2. QED
    BY <1>1, <2>1, BasesRise
<1>4. QED
  BY <1>1, <1>2, <1>3

(* The frames and the stack are there, and so are the pcalls. *)
LEMMA KeptMore ==
  ASSUME ProgramVerified, NEW m, Mid(m), NEW r, NEW i \in 1..Len(m.inner),
         \A f \in 1..Len(m.frames) : r.frames[f] = m.frames[f],
         \A j \in 1..Len(m.stack) : r.stack[j] = m.stack[j]
  PROVE  Kept(m, r, i)
<1> DEFINE e == m.inner[i]
<1>1. /\ Len(m.frames) \in Nat /\ e.frameLen \in 1..Len(m.frames) /\ e.stackLen \in Nat
      /\ e.stackLen <= Len(m.stack) /\ Len(m.stack) \in Nat
  BY CheckpointFacts
<1>2. /\ \A f \in 1..e.frameLen : f \in 1..Len(m.frames)
      /\ \A j \in 1..e.stackLen : j \in 1..Len(m.stack)
  BY <1>1
<1>3. QED
  BY <1>2 DEF Kept

LEMMA KeepsMore ==
  ASSUME ProgramVerified, NEW m, Mid(m), NEW r,
         \A i : IsPcall(m, i) => i \in 1..Len(r.inner) /\ r.inner[i] = m.inner[i],
         \A f \in 1..Len(m.frames) : r.frames[f] = m.frames[f],
         \A j \in 1..Len(m.stack) : r.stack[j] = m.stack[j]
  PROVE  Keeps(m, r)
<1>1. ASSUME NEW i, IsPcall(m, i) PROVE Kept(m, r, i)
  BY <1>1, KeptMore DEF IsPcall
<1>2. QED
  BY <1>1 DEF Keeps

LEMMA KeepsSame ==
  ASSUME ProgramVerified, NEW m, Mid(m), NEW r, r.stack = m.stack, r.frames = m.frames,
         r.inner = m.inner
  PROVE  Keeps(m, r)
BY DEF Keeps, Kept, IsPcall

LEMMA KeepsReturns ==
  ASSUME NEW m, NEW r, DataSound(r), Keeps(m, r)
  PROVE  Returns(m, r)
<1>1. Len(r.inner) \in Nat
  BY SizesOf
<1>2. \A i \in 1..Len(r.inner) : i # Len(r.inner) + 1
  BY <1>1
<1>3. QED
  BY <1>2 DEF Keeps, Returns

LEMMA KeepsLands ==
  ASSUME NEW m, NEW r, Sound(r), Keeps(m, r)
  PROVE  Lands(m, r)
BY KeepsReturns DEF Lands, Sound, Mid

(* One after the other. *)
LEMMA KeepsThen ==
  ASSUME NEW m, NEW s, Keeps(m, s), NEW r
  PROVE  /\ Keeps(s, r) => Keeps(m, r)
         /\ Returns(s, r) => Returns(m, r)
         /\ Lands(s, r) => Lands(m, r)
<1>1. ASSUME NEW i, IsPcall(m, i)
      PROVE  /\ IsPcall(s, i) /\ s.inner[i] = m.inner[i]
             /\ Kept(s, r, i) => Kept(m, r, i)
             /\ Given(s, r, i) => Given(m, r, i)
  <2>1. i \in 1..Len(s.inner) /\ s.inner[i] = m.inner[i] /\ Kept(m, s, i)
    BY <1>1 DEF Keeps
  <2>2. IsPcall(s, i)
    BY <1>1, <2>1 DEF IsPcall
  <2>3. Kept(s, r, i) => Kept(m, r, i)
    BY <2>1 DEF Kept
  <2>4. Given(s, r, i) => Given(m, r, i)
    BY <2>1 DEF Given
  <2>5. QED
    BY <2>1, <2>2, <2>3, <2>4
<1>2. Keeps(s, r) => Keeps(m, r)
  BY <1>1 DEF Keeps
<1>3. Returns(s, r) => Returns(m, r)
  BY <1>1 DEF Returns
<1>4. QED
  BY <1>2, <1>3 DEF Lands

(* What an instruction works on keeps the pcalls. *)
LEMMA KeepsTurn ==
  ASSUME ProgramVerified, Sound(vm), Running, NEW m, NEW q, NEW k, Turn(m, q, k)
  PROVE  Keeps(vm, m) /\ Returns(vm, m)
<1> DEFINE n == Len(vm.frames)
<1>1. Mid(vm) /\ ~Waits(vm, n) /\ Frame(vm) = vm.frames[n] /\ DataSound(m)
  BY HereFacts DEF Turn, Moved
<1>2. /\ m.inner = vm.inner /\ (\A f \in 1..n - 1 : m.frames[f] = vm.frames[f])
      /\ \A j \in 1..vm.frames[n].base : m.stack[j] = vm.stack[j]
  BY DEF Turn, Moved
<1>3. ASSUME NEW i, IsPcall(vm, i) PROVE Kept(vm, m, i)
  <2> DEFINE e == vm.inner[i]
  <2>1. i \in 1..Len(vm.inner) /\ e.frameLen # n
    BY <1>1, <1>3 DEF IsPcall, Waits
  <2>2. /\ n \in Nat /\ e.frameLen \in 1..n - 1 /\ e.stackLen \in Nat
        /\ e.stackLen <= vm.frames[n].base
    BY <1>1, <2>1, CheckpointFacts
  <2>3. vm.frames[n].base \in Nat
    BY <1>1, HereFacts
  <2> HIDE DEF e, n
  <2>4. /\ \A f \in 1..e.frameLen : f \in 1..n - 1
        /\ \A j \in 1..e.stackLen : j \in 1..vm.frames[n].base
    BY <2>2, <2>3
  <2>5. QED
    BY <1>2, <2>4 DEF Kept, e
<1>4. Keeps(vm, m)
  BY <1>2, <1>3 DEF Keeps, IsPcall
<1>5. QED
  BY <1>1, <1>4, KeepsReturns

-----------------------------------------------------------------------------
(* The end of an instruction. *)
LEMMA SettleLands ==
  ASSUME ProgramVerified, NEW x, NEW m, Lands(x, m)
  PROVE  Lands(x, Settle(m))
<1> DEFINE pcalls == {i \in DOMAIN m.inner : m.inner[i].kind = "pcall"}
           p      == CHOOSE i \in pcalls : \A j \in pcalls : j <= i
           e      == m.inner[p]
           cured  == [m EXCEPT !.fault = "none"]
           paid   == Charge(cured, PcallUnwind)
           cut    == SubSeq(m.stack, 1, e.stackLen)
           r      == [paid EXCEPT !.stack  = SubSeq(@, 1, e.stackLen) \o <<FalseVal, m.error>>,
                                  !.frames = SubSeq(@, 1, e.frameLen),
                                  !.inner  = SubSeq(@, 1, p - 1)]
<1>1. Settle(m) = IF m.fault # "raised" \/ pcalls = {} THEN m
                  ELSE IF paid.fault # "none" THEN paid ELSE r
  BY DEF Settle
<1>2. Mid(m) /\ DataSound(m) /\ Shaped(m) /\ Returns(x, m)
  BY DEF Lands, Sound, Mid
<1>3. /\ Len(m.inner) \in Nat /\ DOMAIN m.inner = 1..Len(m.inner) /\ DOMAIN m = Fields
      /\ Len(m.frames) \in Nat /\ Len(m.stack) \in Nat /\ Len(m.heap) \in Nat /\ Len(m.cells) \in Nat
  BY <1>2, SizesOf
<1>4. /\ DOMAIN cured = Fields /\ cured.stack = m.stack /\ cured.frames = m.frames
      /\ cured.inner = m.inner /\ cured.cells = m.cells /\ cured.heap = m.heap
      /\ cured.error = m.error
  BY <1>3 DEF Fields
<1> HIDE DEF cured
<1>5. Mid(cured)
  BY <1>2, <1>4, MidParts
<1>6. /\ DOMAIN paid = Fields /\ paid.stack = m.stack /\ paid.frames = m.frames
      /\ paid.inner = m.inner /\ paid.cells = m.cells /\ paid.heap = m.heap
      /\ paid.error = m.error
  BY <1>4 DEF Charge, Fields
<1> HIDE DEF paid
<1>7. Mid(paid)
  BY <1>2, <1>6, MidParts
<1>8. paid.fault # "none" => Lands(x, paid)
  <2>1. Returns(x, paid)
    BY <1>2, <1>6 DEF Returns, Kept, Given
  <2>2. QED
    BY <1>7, <2>1 DEF Lands, Sound
<1>9. /\ DOMAIN r = Fields /\ r.stack = cut \o <<FalseVal, m.error>>
      /\ r.frames = SubSeq(m.frames, 1, e.frameLen) /\ r.inner = SubSeq(m.inner, 1, p - 1)
      /\ r.cells = m.cells /\ r.heap = m.heap /\ r.error = m.error
  BY <1>6 DEF Fields
<1> HIDE DEF r
<1>10. ASSUME pcalls # {} PROVE Lands(x, r)
  <2>1. pcalls \in SUBSET (1..Len(m.inner))
    BY <1>3
  <2>2. p \in 1..Len(m.inner) /\ e.kind = "pcall"
    BY <1>3, <1>10, <2>1, Innermost
  <2> HIDE DEF p
  <2> DEFINE n == e.frameLen
             b == TopOf(m, n)
  <2>3. EntryOk(m, p) /\ n \in 1..Len(m.frames) /\ e.stackLen = b
    BY <1>2, <2>2, EntryFacts DEF Shaped
  <2>4. b \in Nat /\ b <= Len(m.stack)
    BY <1>2, <2>3, FrameFacts, BasesRise
  <2>5. /\ IsSeq(cut) /\ Len(cut) = b /\ \A i \in 1..b : cut[i] = m.stack[i]
    BY <2>3, <2>4, SeqSub
  <2> HIDE DEF cut
  <2>6. /\ IsSeq(r.stack) /\ Len(r.stack) = b + 2
        /\ \A i \in 1..b : r.stack[i] = m.stack[i]
        /\ r.stack[b + 1] = FalseVal /\ r.stack[b + 2] = m.error
    <3>1. /\ IsSeq(cut \o <<FalseVal, m.error>>) /\ Len(cut \o <<FalseVal, m.error>>) = b + 2
          /\ \A i \in 1..b : (cut \o <<FalseVal, m.error>>)[i] = cut[i]
          /\ \A i \in 1..2 : (cut \o <<FalseVal, m.error>>)[b + i] = <<FalseVal, m.error>>[i]
      BY <2>5, SeqPair, SeqConcat
    <3>2. 1 \in 1..2 /\ 2 \in 1..2
      OBVIOUS
    <3>3. QED
      BY <1>9, <2>5, <3>1, <3>2, SeqPair
  <2>7. n \in Nat /\ p - 1 \in Nat
    BY <1>3, <2>2, <2>3
  <2>8. /\ IsSeq(r.frames) /\ Len(r.frames) = n /\ \A f \in 1..n : r.frames[f] = m.frames[f]
        /\ IsSeq(r.inner) /\ Len(r.inner) = p - 1 /\ \A i \in 1..p - 1 : r.inner[i] = m.inner[i]
    BY <1>9, <2>7, SeqSub
  <2> HIDE DEF e, n, b
  <2>9. DataSound(r)
    <3>1. \A i \in 1..Len(m.stack) : HeldSlot(m, m.stack[i])
      BY <1>2 DEF DataSound, StackSound, HeldSlot
    <3>2. HeldSlot(m, FalseVal) /\ HeldSlot(m, m.error)
      <4>1. IsValue(FalseVal, Len(m.heap), Len(m.cells))
        BY PlainValues, PlainIsValue
      <4>2. IsValue(m.error, Len(m.heap), Len(m.cells))
        BY <1>2 DEF DataSound
      <4>3. QED
        BY <4>1, <4>2 DEF HeldSlot, IsSlot
    <3>3. \A i \in 1..b : i \in 1..Len(m.stack)
      BY <1>3, <2>4
    <3>4. \A i \in 1..b + 2 : i \in 1..b \/ i = b + 1 \/ i = b + 2
      BY <2>4
    <3>5. \A i \in 1..b + 2 : HeldSlot(m, r.stack[i])
      BY <2>6, <3>1, <3>2, <3>3, <3>4
    <3>6. StackSound(r)
      BY <1>9, <2>6, <3>5 DEF StackSound, HeldSlot
    <3>7. QED
      BY <1>2, <1>9, <2>8, <3>6 DEF DataSound, Good, HeapSound
  <2>10. ASSUME NEW i \in 1..p - 1
         PROVE  i \in 1..Len(m.inner) /\ m.inner[i].frameLen < n
    <3>1. i \in 1..Len(m.inner) /\ i < p
      BY <1>3, <2>2
    <3>2. QED
      BY <1>2, <2>2, <3>1, EntriesRise DEF e, n
  <2>11. ASSUME NEW i \in p..Len(m.inner) PROVE m.inner[i].frameLen >= n
    <3>1. i \in 1..Len(m.inner) /\ (p < i \/ i = p)
      BY <1>3, <2>2
    <3>2. CASE i = p
      BY <2>7, <3>2 DEF e, n
    <3>3. CASE p < i
      <4>1. m.inner[p].frameLen <= m.inner[i].frameLen
        BY <1>2, <2>2, <3>1, <3>3, EntriesRise
      <4>2. m.inner[i].frameLen \in Nat
        BY <1>2, <1>3, <3>1, EntryFacts
      <4>3. QED
        BY <2>7, <4>1, <4>2 DEF e, n
    <3>4. QED
      BY <3>1, <3>2, <3>3
  <2>12. Cut(m, r, n, p - 1)
    <3>1. p - 1 \in 0..Len(m.inner)
      BY <1>3, <2>2
    <3>2. \A i \in 1..p - 1 : m.inner[i].frameLen <= n /\ m.inner[i].frameLen # n
      <4>1. \A i \in 1..p - 1 : m.inner[i].frameLen \in Nat
        BY <1>2, <1>3, <2>10, EntryFacts
      <4>2. QED
        BY <2>7, <2>10, <4>1
    <3>3. \A i \in (p - 1) + 1..Len(m.inner) : m.inner[i].frameLen >= n
      <4>1. (p - 1) + 1 = p
        BY <2>2
      <4>2. QED
        BY <2>11, <4>1
    <3>4. Len(r.heap) >= Len(m.heap) /\ Len(r.cells) >= Len(m.cells)
      BY <1>3, <1>9
    <3>5. b <= Len(r.stack)
      BY <2>4, <2>6
    <3>6. QED
      BY <2>3, <2>6, <2>8, <2>9, <3>1, <3>2, <3>3, <3>4, <3>5 DEF Cut, b
  <2>13. Mid(r) /\ Height(r, n) = Len(r.stack) - b + Height(m, n)
    BY <1>2, <2>12, CutMid DEF b
  <2>14. Height(m, n) \in Int /\ Height(r, n) = Height(m, n) + 2
    <3>1. Height(m, n) \in Int
      <4>1. m.frames[n].base \in Nat /\ ProtoOf(m, n).localCount \in Nat /\ TopOf(m, n) \in Nat
        BY <1>2, <2>3, FrameFacts
      <4>2. QED
        BY <4>1 DEF Height
    <3>2. QED
      BY <2>4, <2>6, <2>13, <3>1
  <2>15. FoundAt(m, n, Height(m, n) + 2)
    <3>1. m.inner[p].frameLen = n /\ m.inner[p].kind = "pcall"
      BY <2>2 DEF e, n
    <3>2. Waits(m, n) /\ Awaits(m, n) = 2
      BY <2>2, <3>1 DEF Waits, Awaits
    <3>3. QED
      BY <1>2, <2>3, <3>2 DEF Shaped
  <2>16. Done(r)
    <3>1. n \in 1..n
      BY <2>3, <2>7
    <3>2. FoundAt(r, n, Height(r, n))
      BY <2>8, <2>14, <2>15, <3>1 DEF FoundAt
    <3>3. ~Waits(r, n)
      <4>1. \A i \in 1..p - 1 : m.inner[i].frameLen # n
        <5>1. \A i \in 1..p - 1 : m.inner[i].frameLen \in Nat
          BY <1>2, <1>3, <2>10, EntryFacts
        <5>2. QED
          BY <2>7, <2>10, <5>1
      <4>2. QED
        BY <2>8, <4>1 DEF Waits
    <3>4. r.frames # << >>
      BY <2>7, <2>8, <3>1
    <3>5. QED
      BY <2>8, <3>2, <3>3, <3>4 DEF Done
  <2>17. ASSUME NEW i, IsPcall(x, i), i <= p PROVE x.inner[i] = m.inner[i] /\ Kept(x, m, i)
    <3>1. i <= Len(m.inner)
      BY <1>3, <2>2, <2>17 DEF IsPcall
    <3>2. QED
      BY <1>2, <2>17, <3>1 DEF Returns
  <2>18. ASSUME NEW i, IsPcall(x, i), i <= p PROVE Kept(x, r, i)
    <3> DEFINE d == m.inner[i]
    <3>1. i \in 1..p /\ i \in 1..Len(m.inner)
      BY <1>3, <2>2, <2>18 DEF IsPcall
    <3>2. d.frameLen \in Nat /\ d.frameLen <= n /\ d.stackLen \in Nat /\ d.stackLen <= b
      <4>1. CASE i = p
        BY <2>3, <2>4, <2>7, <4>1 DEF e, n, b
      <4>2. CASE i # p
        <5>1. i \in 1..p - 1
          BY <2>2, <3>1, <4>2
        <5>2. d.frameLen < n /\ d.frameLen \in 1..Len(m.frames) /\ d.stackLen = TopOf(m, d.frameLen)
          BY <1>2, <2>10, <3>1, <5>1, EntryFacts
        <5>3. /\ TopOf(m, d.frameLen) <= m.frames[n].base /\ TopOf(m, d.frameLen) \in Nat
              /\ m.frames[n].base \in Nat /\ ProtoOf(m, n).localCount \in Nat
              /\ m.frames[n].base + ProtoOf(m, n).localCount <= b
          BY <1>2, <2>3, <5>2, BasesRise, FrameFacts DEF b
        <5>4. d.stackLen <= b
          BY <2>4, <5>2, <5>3
        <5>5. d.frameLen <= n /\ d.frameLen \in Nat
          BY <2>7, <5>2
        <5>6. QED
          BY <5>2, <5>3, <5>4, <5>5
      <4>3. QED
        BY <4>1, <4>2
    <3>3. x.inner[i] = d /\ Kept(x, m, i)
      BY <2>17, <2>18
    <3> HIDE DEF d
    <3>4. /\ \A f \in 1..d.frameLen : f \in 1..n
          /\ \A j \in 1..d.stackLen : j \in 1..b
      BY <2>4, <2>7, <3>2
    <3>5. QED
      BY <2>6, <2>8, <3>3, <3>4 DEF Kept
  <2>19. ASSUME NEW i, IsPcall(x, i)
         PROVE  /\ i <= Len(r.inner) => r.inner[i] = x.inner[i] /\ Kept(x, r, i)
                /\ i = Len(r.inner) + 1 => Kept(x, r, i) /\ Given(x, r, i)
    <3>1. i \in Nat /\ i >= 1
      BY <2>19 DEF IsPcall
    <3>2. ASSUME i <= Len(r.inner) PROVE r.inner[i] = x.inner[i] /\ Kept(x, r, i)
      <4>1. i \in 1..p - 1 /\ i <= p
        BY <2>2, <2>8, <3>1, <3>2
      <4>2. QED
        BY <2>8, <2>17, <2>18, <2>19, <4>1
    <3>3. ASSUME i = Len(r.inner) + 1 PROVE Kept(x, r, i) /\ Given(x, r, i)
      <4>1. i = p /\ i <= p
        BY <2>2, <2>8, <3>3
      <4>2. x.inner[i] = m.inner[p]
        BY <2>17, <2>19, <4>1
      <4>3. Len(r.frames) = x.inner[i].frameLen /\ x.inner[i].stackLen = b
        BY <2>3, <2>8, <4>2 DEF e, n
      <4>4. QED
        BY <2>6, <2>18, <2>19, <4>1, <4>3 DEF Given
    <3>4. QED
      BY <3>2, <3>3
  <2>20. Returns(x, r)
    BY <2>19 DEF Returns
  <2>21. QED
    BY <2>13, <2>16, <2>20 DEF Lands, Sound
<1>11. QED
  BY <1>1, <1>8, <1>10

LEMMA BecomesLands ==
  ASSUME ProgramVerified, NEW m, Lands(vm, m), Becomes(m)
  PROVE  Lands(vm, vm')
BY SettleLands DEF Becomes

-----------------------------------------------------------------------------
(* What the outcome of an instruction has to be.                           *)

LEMMA TurnMid ==
  ASSUME ProgramVerified, Sound(vm), Running, NEW m, NEW q, NEW k, Turn(m, q, k)
  PROVE  Mid(m) /\ (m.fault # "none" => Lands(vm, m))
BY TurnFacts, KeepsTurn DEF Sound, Lands

LEMMA LandsAt ==
  ASSUME ProgramVerified, Sound(vm), Running, NEW m, NEW p, NEW h, Work(m, p, h),
         m.fault = "none" => <<p, h>> \in depths[Frame(vm).proto + 1]
  PROVE  Lands(vm, m)
<1>1. CASE m.fault # "none"
  BY <1>1, TurnMid DEF Work
<1>2. CASE m.fault = "none"
  <2> DEFINE n == Len(vm.frames)
  <2>1. Turn(m, p, h)
    BY <1>2, WorkTurn
  <2>2. /\ Mid(m) /\ Len(m.frames) = n /\ m.frames # << >> /\ ~Waits(m, n) /\ Height(m, n) = h
        /\ Frame(m) = m.frames[n] /\ Frame(m).pc = p /\ Frame(m).proto = Frame(vm).proto
    BY <2>1, TurnFacts
  <2>3. FoundAt(m, n, Height(m, n))
    BY <1>2, <2>2 DEF FoundAt
  <2>4. Returns(vm, m)
    BY <2>1, KeepsTurn
  <2>5. QED
    BY <2>2, <2>3, <2>4 DEF Lands, Sound, Done
<1>3. QED
  BY <1>1, <1>2

LEMMA OutcomeLands ==
  ASSUME InTurn, NEW mv \in Moves(Here), NEW m, Work(m, Landing(mv), Left(mv))
  PROVE  Lands(vm, m)
BY MoveLands, LandsAt DEF InTurn

(* What an instruction finds when its operands have been popped.           *)
LEMMA FetchedFacts ==
  ASSUME InTurn
  PROVE  /\ Turn(Fetched, Frame(vm).pc + 1, Operands)
         /\ Fetched.stack = vm.stack /\ Fetched.heap = vm.heap /\ Fetched.cells = vm.cells
         /\ Fetched.frames = JumpBy(vm, 1).frames
<1>1. Turn(Fetched, Frame(vm).pc + 1, Operands)
  BY TurnFetched
<1>2. DOMAIN vm = Fields /\ vm.fault = "none"
  BY HereFacts, SizesOf DEF InTurn
<1> DEFINE s == JumpBy(vm, 1)
<1>3. DOMAIN s = Fields /\ s.stack = vm.stack /\ s.heap = vm.heap /\ s.cells = vm.cells
  BY <1>2 DEF JumpBy, Fields
<1> HIDE DEF s
<1>4. /\ Charge(s, 1).stack = s.stack /\ Charge(s, 1).heap = s.heap
      /\ Charge(s, 1).cells = s.cells /\ Charge(s, 1).frames = s.frames
  BY <1>3 DEF Charge, Fields
<1>5. QED
  BY <1>1, <1>3, <1>4 DEF Fetched, s

LEMMA PlainSlot ==
  ASSUME NEW m, DataSound(m), NEW s, HeldSlot(m, s), ~IsHandle(s)
  PROVE  Held(m, Value(m, s))
<1>1. CASE IsValue(s, Len(m.heap), Len(m.cells))
  BY <1>1 DEF Value, Held, IsValue
<1>2. CASE s[1] = SharedKind /\ s[2] \in 1..Len(m.cells)
  BY <1>2 DEF Value, Held, DataSound, AllValues
<1>3. QED
  BY <1>1, <1>2 DEF HeldSlot, IsSlot, IsHandle

LEMMA AfterFacts ==
  ASSUME InTurn, NEW n \in 0..Operands, After(n).fault = "none"
  PROVE  /\ Turn(After(n), Frame(vm).pc + 1, Operands - n)
         /\ After(n).heap = vm.heap /\ After(n).cells = vm.cells
         /\ After(n) = Drop(Fetched, n) /\ Fetched.fault = "none"
         /\ \A i \in 1..n : Held(vm, Arg(i)) /\ Held(After(n), Arg(i))
<1>1. /\ Turn(Fetched, Frame(vm).pc + 1, Operands) /\ Fetched.stack = vm.stack
      /\ Fetched.heap = vm.heap /\ Fetched.cells = vm.cells
  BY FetchedFacts
<1>2. /\ Turn(After(n), Frame(vm).pc + 1, Operands - n) /\ Fetched.fault = "none"
      /\ After(n) = Drop(Fetched, n)
      /\ \A i \in 1..n : ~IsHandle(vm.stack[Len(vm.stack) + 1 - i])
  BY <1>1, TurnPop DEF After, InTurn
<1>3. DOMAIN Fetched = Fields
  BY <1>1, SizesOf DEF Turn, Moved
<1>4. After(n).heap = vm.heap /\ After(n).cells = vm.cells
  BY <1>1, <1>2, <1>3 DEF Drop, Fields
<1>5. ASSUME NEW i \in 1..n PROVE Held(vm, Arg(i))
  <2>1. /\ DataSound(vm) /\ Operands \in Nat /\ Len(vm.stack) \in Nat
        /\ Frame(vm).base \in Nat /\ Proto(vm).localCount \in Nat
        /\ Len(vm.stack) = Frame(vm).base + Proto(vm).localCount + Operands
    BY HereFacts, SizesOf DEF InTurn
  <2>2. Len(vm.stack) + 1 - i \in 1..Len(vm.stack)
    BY <2>1
  <2>3. HeldSlot(vm, vm.stack[Len(vm.stack) + 1 - i])
    BY <2>1, <2>2 DEF DataSound, StackSound, HeldSlot
  <2>4. QED
    BY <1>2, <2>1, <2>3, PlainSlot DEF Arg, Operand
<1>6. \A v : Held(vm, v) => Held(After(n), v)
  BY <1>2, TurnFacts DEF InTurn
<1>7. QED
  BY <1>2, <1>4, <1>5, <1>6

(* An instruction that takes n operands. *)
LEMMA StepLands ==
  ASSUME InTurn, NEW n \in 0..Operands, NEW m, Step(n, m),
         Fetched.fault = "none" /\ After(n).fault = "none" => Lands(vm, m)
  PROVE  Lands(vm, vm')
<1>1. Turn(Fetched, Frame(vm).pc + 1, Operands)
  BY FetchedFacts
<1>2. Fetched.fault # "none" => Lands(vm, Fetched)
  BY <1>1, TurnMid DEF InTurn
<1>3. \E q, k : Turn(After(n), q, k)
  BY <1>1, PopFaulted DEF After, InTurn
<1>4. After(n).fault # "none" => Lands(vm, After(n))
  BY <1>3, TurnMid DEF InTurn
<1> DEFINE r == IF Fetched.fault # "none" THEN Fetched
                ELSE IF Pop(Fetched, n).fault # "none" THEN Pop(Fetched, n) ELSE m
<1>5. Lands(vm, r)
  BY <1>2, <1>4 DEF After
<1>6. Becomes(r)
  BY DEF Step
<1> HIDE DEF r
<1>7. QED
  BY <1>5, <1>6, BecomesLands DEF InTurn

-----------------------------------------------------------------------------
(* The outcomes of each instruction (Moves).                               *)

LEMMA MovesOf ==
  ASSUME NEW i
  PROVE  /\ i.op \in Pushes => Move(0, 1, FALSE) \in Moves(i)
         /\ i.op \in Stores => Move(1, 0, FALSE) \in Moves(i)
         /\ i.op = "Dup" => Move(1, 2, FALSE) \in Moves(i)
         /\ i.op = "GetTable" => Move(2, 1, FALSE) \in Moves(i)
         /\ i.op = "SetTable" => Move(3, 0, FALSE) \in Moves(i)
         /\ i.op = "GetField" => Move(1, 1, FALSE) \in Moves(i)
         /\ i.op = "SetField" => Move(2, 0, FALSE) \in Moves(i)
         /\ i.op \in Binary => Move(2, 1, FALSE) \in Moves(i)
         /\ i.op \in Unary => Move(1, 1, FALSE) \in Moves(i)
         /\ i.op = "Concat" => Move(i.n, 1, FALSE) \in Moves(i)
         /\ i.op = "Call" => Move(i.n + 1, 1, FALSE) \in Moves(i)
         /\ i.op = "PCall" => Move(i.n + 1, 2, FALSE) \in Moves(i)
         /\ i.op = "ToolCall" => Move(2, 1, FALSE) \in Moves(i)
         /\ i.op = "Jmp" => Move(0, 0, TRUE) \in Moves(i)
         /\ i.op \in CondJumps => Move(1, 0, TRUE) \in Moves(i) /\ Move(1, 0, FALSE) \in Moves(i)
         /\ i.op \in ShortCircuits =>
              Move(1, 1, TRUE) \in Moves(i) /\ Move(1, 1, FALSE) \in Moves(i)
         /\ i.op \in IterInits => Move(1, 0, TRUE) \in Moves(i) /\ Move(1, 1, FALSE) \in Moves(i)
         /\ i.op = "IterNext" => Move(1, 0, TRUE) \in Moves(i) /\ Move(1, 3, FALSE) \in Moves(i)
BY DEF Moves, Pushes, Stores, Binary, Unary, CondJumps, ShortCircuits, IterInits, ConstLoads,
       ProtoLoads, PlainPushes

LEMMA Goes ==
  ASSUME InTurn, NEW n \in Nat, NEW g \in Nat, Move(n, g, FALSE) \in Moves(Here)
  PROVE  /\ n \in 0..Operands
         /\ \A m : Work(m, Frame(vm).pc + 1, Operands - n + g) => Lands(vm, m)
<1> DEFINE mv == Move(n, g, FALSE)
<1>1. mv.takes = n /\ mv.gives = g /\ mv.jumps = FALSE
  BY DEF Move
<1>2. Operands \in Nat
  BY HereFacts DEF InTurn
<1> HIDE DEF mv
<1>3. mv \in Moves(Here)
  BY DEF mv
<1>4. ~(Operands < mv.takes)
  BY <1>3, MoveLands
<1>5. Landing(mv) = Frame(vm).pc + 1 /\ Left(mv) = Operands - n + g
  BY <1>1 DEF Landing, Left
<1>6. QED
  BY <1>1, <1>2, <1>3, <1>4, <1>5, OutcomeLands

LEMMA GoesTo ==
  ASSUME InTurn, NEW n \in Nat, NEW g \in Nat, Move(n, g, TRUE) \in Moves(Here)
  PROVE  /\ n \in 0..Operands
         /\ (Frame(vm).pc + 1) + Here.n \in 1..Len(Proto(vm).code) + 1
         /\ \A m : Work(m, (Frame(vm).pc + 1) + Here.n, Operands - n + g) => Lands(vm, m)
<1> DEFINE mv == Move(n, g, TRUE)
<1>1. mv.takes = n /\ mv.gives = g /\ mv.jumps = TRUE
  BY DEF Move
<1>2. Operands \in Nat
  BY HereFacts DEF InTurn
<1> HIDE DEF mv
<1>3. mv \in Moves(Here)
  BY DEF mv
<1>4. ~(Operands < mv.takes) /\ Landing(mv) \in 1..Len(Proto(vm).code) + 1
  BY <1>3, MoveLands
<1>5. Landing(mv) = (Frame(vm).pc + 1) + Here.n /\ Left(mv) = Operands - n + g
  BY <1>1 DEF Landing, Left
<1>6. QED
  BY <1>1, <1>2, <1>3, <1>4, <1>5, OutcomeLands

-----------------------------------------------------------------------------
(* What instructions do to a state: a cell or a slot is assigned to, a     *)
(* table is made.                                                          *)

LEMMA CellSet ==
  ASSUME ProgramVerified, Sound(vm), Running, NEW m, NEW q, NEW k, Turn(m, q, k),
         NEW c \in 1..Len(m.cells), NEW v, Held(m, v),
         NEW r, r = [m EXCEPT !.cells[c] = v]
  PROVE  Turn(r, q, k) /\ r.fault = m.fault
<1> DEFINE cells == [m.cells EXCEPT ![c] = v]
<1>1. /\ DataSound(m) /\ k \in Nat
      /\ Len(m.stack) = Frame(vm).base + Proto(vm).localCount + k
  BY DEF Turn, Moved
<1>2. /\ DOMAIN m = Fields /\ DOMAIN m.cells = 1..Len(m.cells) /\ Len(m.cells) \in Nat
      /\ Len(m.heap) \in Nat
  BY <1>1, SizesOf
<1>3. /\ DOMAIN r = Fields /\ r.stack = m.stack /\ r.frames = m.frames /\ r.inner = m.inner
      /\ r.cells = cells /\ r.heap = m.heap /\ r.error = m.error /\ r.status = m.status
      /\ r.fault = m.fault
  BY <1>2 DEF Fields
<1>4. /\ cells = [i \in 1..Len(m.cells) |-> cells[i]] /\ cells[c] = v
      /\ \A i \in 1..Len(m.cells) : i # c => cells[i] = m.cells[i]
  BY <1>2
<1> HIDE DEF cells
<1>5. IsSeq(cells) /\ Len(cells) = Len(m.cells)
  BY <1>2, <1>4, SeqFrom
<1>6. \A i \in 1..Len(m.cells) : Held(m, m.cells[i])
  BY <1>1 DEF DataSound, AllValues, Held
<1>7. AllValues(cells, Len(m.heap), Len(m.cells))
  BY <1>4, <1>5, <1>6 DEF AllValues, Held
<1>8. DataSound(r)
  BY <1>1, <1>3, <1>5, <1>7 DEF DataSound, Good, StackSound, HeapSound
<1>9. SameBelow(m, r)
  BY <1>3 DEF SameBelow
<1>10. Len(r.heap) >= Len(m.heap) /\ Len(r.cells) >= Len(m.cells)
  BY <1>2, <1>3, <1>5
<1>11. QED
  BY <1>1, <1>3, <1>8, <1>9, <1>10, TurnMore

LEMMA SlotSet ==
  ASSUME ProgramVerified, Sound(vm), Running, NEW m, NEW q, NEW k, Turn(m, q, k),
         NEW n \in 0..Proto(vm).localCount - 1, NEW v, Held(m, v),
         NEW r, r = [m EXCEPT !.stack[Slot(vm, n)] = v]
  PROVE  Turn(r, q, k) /\ r.fault = m.fault
<1> DEFINE at == Slot(vm, n)
           stack == [m.stack EXCEPT ![at] = v]
<1>1. /\ DataSound(m) /\ k \in Nat
      /\ Len(m.stack) = Frame(vm).base + Proto(vm).localCount + k
      /\ Frame(vm).base \in Nat /\ Proto(vm).localCount \in Nat
  BY HereFacts DEF Turn, Moved
<1>2. /\ DOMAIN m = Fields /\ DOMAIN m.stack = 1..Len(m.stack) /\ Len(m.stack) \in Nat
      /\ Len(m.heap) \in Nat /\ Len(m.cells) \in Nat
  BY <1>1, SizesOf
<1>3. /\ DOMAIN r = Fields /\ r.stack = stack /\ r.frames = m.frames /\ r.inner = m.inner
      /\ r.cells = m.cells /\ r.heap = m.heap /\ r.error = m.error /\ r.status = m.status
      /\ r.fault = m.fault
  BY <1>2 DEF Fields
<1>4. at = Frame(vm).base + n + 1
  BY DEF Slot
<1>5. at \in 1..Len(m.stack) /\ at > Frame(vm).base
  BY <1>1, <1>4
<1> HIDE DEF at
<1>6. /\ stack = [i \in 1..Len(m.stack) |-> stack[i]] /\ stack[at] = v
      /\ \A i \in 1..Len(m.stack) : i # at => stack[i] = m.stack[i]
  BY <1>2, <1>5
<1> HIDE DEF stack
<1>7. IsSeq(stack) /\ Len(stack) = Len(m.stack)
  BY <1>2, <1>6, SeqFrom
<1>8. \A i \in 1..Len(m.stack) : HeldSlot(m, m.stack[i])
  BY <1>1 DEF DataSound, StackSound, HeldSlot
<1>9. HeldSlot(m, v) /\ ~IsHandle(v)
  BY DEF HeldSlot, IsSlot, Held, IsValue, IsHandle
<1>10. DataSound(r)
  <2>1. StackSound(r)
    BY <1>3, <1>6, <1>7, <1>8, <1>9 DEF StackSound, HeldSlot
  <2>2. QED
    BY <1>1, <1>3, <2>1 DEF DataSound, Good, HeapSound
<1>11. SameBelow(m, r)
  <2>1. /\ \A i \in 1..Frame(vm).base : i \in 1..Len(m.stack) /\ i # at
        /\ \A i \in 1..Proto(vm).localCount : Frame(vm).base + i \in 1..Len(m.stack)
    BY <1>1, <1>2, <1>5
  <2>2. QED
    BY <1>3, <1>6, <1>9, <2>1 DEF SameBelow
<1>12. Len(r.heap) >= Len(m.heap) /\ Len(r.cells) >= Len(m.cells)
  BY <1>2, <1>3
<1>13. QED
  BY <1>1, <1>3, <1>7, <1>10, <1>11, <1>12, TurnMore

LEMMA WorkNewTable ==
  ASSUME ProgramVerified, Sound(vm), Running, NEW m, NEW p, NEW h, Work(m, p, h),
         m.fault = "none", NEW t, IsTable(t, Len(m.heap), Len(m.cells))
  PROVE  Work(NewTable(m, t), p, h + 1)
<1> DEFINE r == [m EXCEPT !.heap = Append(@, t)]
           heap == Append(m.heap, t)
           n == Len(m.heap)
<1>1. Turn(m, p, h)
  BY WorkTurn
<1>2. /\ DataSound(m) /\ h \in Nat
      /\ Len(m.stack) = Frame(vm).base + Proto(vm).localCount + h
  BY <1>1 DEF Turn, Moved
<1>3. /\ DOMAIN m = Fields /\ n \in Nat /\ Len(m.cells) \in Nat /\ IsSeq(m.heap)
      /\ n >= 2 /\ \A a \in 1..n : IsTable(m.heap[a], n, Len(m.cells))
  BY <1>2, SizesOf DEF DataSound, HeapSound
<1>4. /\ DOMAIN r = Fields /\ r.stack = m.stack /\ r.frames = m.frames /\ r.inner = m.inner
      /\ r.cells = m.cells /\ r.heap = heap /\ r.error = m.error /\ r.status = m.status
      /\ r.fault = m.fault
  BY <1>3 DEF Fields
<1>5. /\ IsSeq(heap) /\ Len(heap) = n + 1 /\ heap[n + 1] = t
      /\ \A i \in 1..n : heap[i] = m.heap[i]
  BY <1>3, SeqAppend
<1> HIDE DEF heap, r
<1>6. n + 1 \in Nat /\ n <= n + 1 /\ Len(m.cells) <= Len(m.cells)
  BY <1>3
<1>7. /\ \A v : IsValue(v, n, Len(m.cells)) => IsValue(v, n + 1, Len(m.cells))
      /\ \A s : IsSlot(s, n, Len(m.cells)) => IsSlot(s, n + 1, Len(m.cells))
      /\ \A s : AllValues(s, n, Len(m.cells)) => AllValues(s, n + 1, Len(m.cells))
      /\ \A u : IsTable(u, n, Len(m.cells)) => IsTable(u, n + 1, Len(m.cells))
  BY <1>3, <1>6, ValueGrows
<1>8. HeapSound(r)
  <2>1. \A a \in 1..n + 1 : a \in 1..n \/ a = n + 1
    BY <1>3
  <2>2. \A a \in 1..n + 1 : IsTable(heap[a], n + 1, Len(m.cells))
    BY <1>3, <1>5, <1>7, <2>1
  <2>3. QED
    BY <1>3, <1>4, <1>5, <2>2 DEF HeapSound
<1>9. DataSound(r)
  BY <1>2, <1>4, <1>5, <1>7, <1>8 DEF DataSound, Good, StackSound
<1>10. SameBelow(m, r) /\ Len(r.heap) >= Len(m.heap) /\ Len(r.cells) >= Len(m.cells)
  BY <1>3, <1>4, <1>5 DEF SameBelow
<1>11. Turn(r, p, h)
  BY <1>1, <1>2, <1>4, <1>9, <1>10, TurnMore
<1>12. HeldSlot(r, TableVal(n + 1))
  <2>1. n + 1 \in 1..Len(r.heap)
    BY <1>3, <1>4, <1>5
  <2>2. QED
    BY <2>1 DEF HeldSlot, IsSlot, IsValue, TableVal, TableKind, SharedKind, HandleKind,
                FunctionKind
<1>13. Work(Push(r, TableVal(n + 1)), p, h + 1)
  BY <1>11, <1>12, WorkIs, WorkPush
<1>14. QED
  BY <1>13 DEF NewTable, r

LEMMA SameHeld ==
  ASSUME NEW m, NEW r, Same(m, r)
  PROVE  \A v : Held(m, v) => Held(r, v)
BY DEF Same, Held

LEMMA HeldTable ==
  ASSUME NEW m, DataSound(m), NEW v, Held(m, v), IsKind(v, TableKind)
  PROVE  /\ v[2] \in 1..Len(m.heap) /\ IsTable(m.heap[v[2]], Len(m.heap), Len(m.cells))
         /\ \A k : Held(m, Get(m.heap[v[2]], k))
<1>1. v[2] \in 1..Len(m.heap) /\ IsTable(m.heap[v[2]], Len(m.heap), Len(m.cells))
  BY DEF Held, IsValue, IsKind, DataSound, HeapSound
<1>2. QED
  BY <1>1, GetHeld DEF Held

LEMMA SlotOf ==
  ASSUME NEW m, NEW v, Held(m, v)
  PROVE  HeldSlot(m, v) /\ ~IsHandle(v)
BY DEF HeldSlot, IsSlot, Held, IsValue, IsHandle

LEMMA PlainHeld ==
  ASSUME NEW m, NEW v, IsPlain(v)
  PROVE  Held(m, v) /\ HeldSlot(m, v)
BY PlainIsValue DEF Held, HeldSlot

LEMMA ResolveHeld ==
  ASSUME NEW m, DataSound(m), NEW v, Held(m, v)
  PROVE  Held(m, ResolveSentinel(v))
<1>1. /\ Held(m, Builtin("type")) /\ Held(m, Builtin("tostring"))
  BY DEF Held, IsValue, Builtin, BuiltinKind, SharedKind, HandleKind, TableKind, FunctionKind
<1>2. 1 \in 1..Len(m.heap) /\ 2 \in 1..Len(m.heap)
  <2>1. Len(m.heap) \in Nat /\ Len(m.heap) >= 2
    BY SizesOf
  <2>2. QED
    BY <2>1
<1>3. Held(m, TableVal(StringModule)) /\ Held(m, TableVal(TableModule))
  BY <1>2 DEF Held, IsValue, TableVal, StringModule, TableModule, SharedKind, HandleKind,
              TableKind, FunctionKind
<1>4. ASSUME NEW g \in DOMAIN Globals PROVE Held(m, Globals[g])
  <2>1. g \in {Text("__type"), Text("__tostring"), Text("__string"), Text("__table")}
    BY DEF Globals
  <2>2. Globals[g] \in {Builtin("type"), Builtin("tostring"), TableVal(StringModule),
                        TableVal(TableModule)}
    BY <2>1 DEF Globals
  <2>3. QED
    BY <1>1, <1>3, <2>2
<1>5. QED
  BY <1>4 DEF ResolveSentinel

(* The result of an operation, and an assignment to a field.               *)
LEMMA WorkPushResult ==
  ASSUME ProgramVerified, Sound(vm), Running, NEW m, NEW p, NEW h, Work(m, p, h),
         NEW r, IsPlain(r.value)
  PROVE  Work(PushResult(m, r), p, h + 1)
<1> DEFINE s == [m EXCEPT !.fault = "memory"]
           over == IF m.fault = "none" THEN s ELSE m
<1>1. DataSound(m)
  BY WorkGood
<1>2. DOMAIN m = Fields /\ Held(m, m.error)
  BY <1>1, SizesOf DEF DataSound, Held
<1>3. Work(Push(m, r.value), p, h + 1)
  BY WorkPush, PlainHeld
<1>4. Work(TypeError(m), p, h + 1) /\ Work(Raise(m, Text("runtime error")), p, h + 1)
  BY WorkRaise
<1>5. Work(over, p, h + 1)
  <2>1. CASE m.fault # "none"
    BY <2>1, WorkFaulted
  <2>2. CASE m.fault = "none"
    <3>1. /\ DOMAIN s = Fields /\ s.stack = m.stack /\ s.frames = m.frames
          /\ s.inner = m.inner /\ s.cells = m.cells /\ s.heap = m.heap
          /\ s.status = m.status /\ s.error = m.error /\ s.fault = "memory"
      BY <1>2 DEF Fields
    <3> HIDE DEF s
    <3>2. Same(m, s)
      BY <1>1, <1>2, <3>1, SameParts
    <3>3. Work(s, p, h + 1)
      BY <3>1, <3>2, WorkSame, WorkFaulted
    <3>4. QED
      BY <2>2, <3>3
  <2>3. QED
    BY <2>1, <2>2
<1>6. PushResult(m, r) \in {Push(m, r.value), TypeError(m), Raise(m, Text("runtime error")), over}
  BY DEF PushResult
<1> HIDE DEF over
<1>7. QED
  BY <1>3, <1>4, <1>5, <1>6

LEMMA WorkSetAt ==
  ASSUME ProgramVerified, Sound(vm), Running, NEW m, NEW p, NEW h, Work(m, p, h),
         NEW t, Held(m, t), NEW k, IsKey(k), NEW v, Held(m, v)
  PROVE  Work(SetAt(m, t, k, v), p, h)
<1> DEFINE a == t[2]
           s == DoRawset(Meter(m, a), k, v)
<1>1. DataSound(m)
  BY WorkGood
<1>2. CASE ~IsKind(t, TableKind) \/ k = IntKey(IntMin)
  BY <1>2, WorkRaise DEF SetAt
<1>3. CASE IsKind(t, TableKind) /\ k # IntKey(IntMin)
  <2>1. a \in 1..Len(m.heap)
    BY <1>1, <1>3, HeldTable
  <2>2. SetAt(m, t, k, v) = Metered(m, a, s)
    BY <1>3 DEF SetAt, OnTable, Metered, Meter
  <2>3. IsMetered(Meter(m, a), Len(m.heap), Len(m.cells))
    BY <1>1, <2>1, MeterIsMetered
  <2>4. Metes(Meter(m, a), s, Len(m.heap), Len(m.cells))
    BY <2>3, DoRawsetMetes DEF Held
  <2> HIDE DEF s
  <2>5. Same(m, Metered(m, a, s))
    BY <1>1, <2>1, <2>4, MeteredSame
  <2>6. QED
    BY <2>2, <2>5, WorkSame
<1>4. QED
  BY <1>2, <1>3

LEMMA WorkKeyFault ==
  ASSUME NEW m, NEW p, NEW h, Work(m, p, h), NEW k, NEW q, NEW j
  PROVE  Work(KeyFault(m, k), q, j)
BY WorkRaise DEF KeyFault
=============================================================================
