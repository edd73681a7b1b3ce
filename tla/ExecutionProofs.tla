--------------------------- MODULE ExecutionProofs ---------------------------
(***************************************************************************)
(* The depth of the call stack, for every program, verified or not, and    *)
(* every limit: proof of DepthLimited.                                     *)
(*                                                                         *)
(* Most of what an instruction does leaves the frames and the functions    *)
(* that run inside instructions as they are (Level).  The rest pushes a    *)
(* frame, after a check or for a comparator, or goes back to what there    *)
(* was before one of those functions was called.                           *)
(***************************************************************************)
EXTENDS Execution, Induction

Fields == {"stack", "frames", "inner", "cells", "heap", "gas", "mem", "fault", "error",
           "logs", "tools", "status", "answer"}

-----------------------------------------------------------------------------
(* Sequences of whatever they hold.                                        *)

IsSeq(s) == s \in Seq({s[i] : i \in DOMAIN s})

LEMMA SeqIs ==
  ASSUME NEW S, NEW s \in Seq(S)
  PROVE  IsSeq(s) /\ Len(s) \in Nat /\ DOMAIN s = 1..Len(s)
<1>1. Len(s) \in Nat /\ DOMAIN s = 1..Len(s) /\ s = [i \in 1..Len(s) |-> s[i]]
  OBVIOUS
<1>2. \A i \in 1..Len(s) : s[i] \in {s[j] : j \in DOMAIN s}
  BY <1>1
<1>3. QED
  BY <1>1, <1>2 DEF IsSeq

LEMMA SeqFacts ==
  ASSUME NEW s, IsSeq(s)
  PROVE  Len(s) \in Nat /\ DOMAIN s = 1..Len(s)
BY SeqIs DEF IsSeq

LEMMA SeqFrom ==
  ASSUME NEW n \in Nat, NEW s, s = [i \in 1..n |-> s[i]]
  PROVE  IsSeq(s) /\ Len(s) = n
<1>1. DOMAIN s = 1..n
  OBVIOUS
<1>2. Len(s) = n
  BY <1>1
<1>3. \A i \in 1..n : s[i] \in {s[j] : j \in DOMAIN s}
  BY <1>1
<1>4. QED
  BY <1>1, <1>2, <1>3 DEF IsSeq

LEMMA SeqEmpty == IsSeq(<< >>) /\ Len(<< >>) = 0
BY DEF IsSeq

LEMMA SeqAppend ==
  ASSUME NEW s, IsSeq(s), NEW e
  PROVE  /\ IsSeq(Append(s, e)) /\ Len(Append(s, e)) = Len(s) + 1
         /\ Append(s, e)[Len(s) + 1] = e
         /\ \A i \in 1..Len(s) : Append(s, e)[i] = s[i]
<1> DEFINE S == {s[i] : i \in DOMAIN s} \cup {e}
<1>1. s \in Seq(S)
  BY DEF IsSeq
<1> HIDE DEF S
<1>2. e \in S
  BY DEF S
<1>3. Append(s, e) \in Seq(S) /\ Len(Append(s, e)) = Len(s) + 1
  BY <1>1, <1>2
<1>4. /\ Append(s, e)[Len(s) + 1] = e
      /\ \A i \in 1..Len(s) : Append(s, e)[i] = s[i]
  BY <1>1, <1>2
<1>5. QED
  BY <1>3, <1>4, SeqIs

LEMMA SeqSub ==
  ASSUME NEW s, NEW n \in Nat
  PROVE  /\ IsSeq(SubSeq(s, 1, n)) /\ Len(SubSeq(s, 1, n)) = n
         /\ \A i \in 1..n : SubSeq(s, 1, n)[i] = s[i]
<1> DEFINE t == SubSeq(s, 1, n)
<1>1. t = [i \in 1..n |-> s[i]]
  OBVIOUS
<1>2. \A i \in 1..n : t[i] = s[i]
  BY <1>1
<1>3. t = [i \in 1..n |-> t[i]]
  BY <1>1
<1> HIDE DEF t
<1>4. IsSeq(t) /\ Len(t) = n
  BY <1>3, SeqFrom
<1>5. QED
  BY <1>2, <1>4 DEF t

LEMMA SeqFront ==
  ASSUME NEW s, IsSeq(s), s # << >>
  PROVE  /\ IsSeq(Front(s)) /\ Len(s) >= 1 /\ Len(Front(s)) = Len(s) - 1
         /\ Last(s) = s[Len(s)]
         /\ \A i \in 1..Len(s) - 1 : Front(s)[i] = s[i]
<1>1. Len(s) \in Nat /\ Len(s) # 0
  BY SeqFacts DEF IsSeq
<1>2. Len(s) - 1 \in Nat
  BY <1>1
<1>3. Front(s) = SubSeq(s, 1, Len(s) - 1) /\ Last(s) = s[Len(s)]
  BY DEF Front, Last
<1>4. /\ IsSeq(Front(s)) /\ Len(Front(s)) = Len(s) - 1
      /\ \A i \in 1..Len(s) - 1 : Front(s)[i] = s[i]
  BY <1>2, <1>3, SeqSub
<1>5. QED
  BY <1>1, <1>3, <1>4

-----------------------------------------------------------------------------
(* What leaves the frames and the inner functions as they are.             *)

Good(m) == DOMAIN m = Fields /\ IsSeq(m.frames) /\ IsSeq(m.inner)

(* As many frames, and the same functions inside instructions. *)
Level(m, r) == Good(r) /\ r.inner = m.inner /\ Len(r.frames) = Len(m.frames)

LEMMA LevelTwice ==
  ASSUME NEW m, NEW r, NEW t, Level(m, r), Level(r, t)
  PROVE  Level(m, t)
BY DEF Level

LEMMA Untouched ==
  ASSUME NEW m, Good(m), NEW r, DOMAIN r = Fields,
         r.frames = m.frames, r.inner = m.inner
  PROVE  Level(m, r)
BY DEF Level, Good

LEMMA SameLevel ==
  ASSUME NEW m, Good(m)
  PROVE  Level(m, m)
BY DEF Level, Good

LEMMA ChargeLevel ==
  ASSUME NEW m, Good(m), NEW n
  PROVE  Level(m, Charge(m, n))
<1> DEFINE over == [m EXCEPT !.gas = 0, !.fault = "gas"]
           less == [m EXCEPT !.gas = @ - n]
<1>1. DOMAIN over = Fields /\ over.frames = m.frames /\ over.inner = m.inner
  BY DEF Good, Fields
<1>2. DOMAIN less = Fields /\ less.frames = m.frames /\ less.inner = m.inner
  BY DEF Good, Fields
<1>3. Charge(m, n) = m \/ Charge(m, n) = over \/ Charge(m, n) = less
  BY DEF Charge
<1> HIDE DEF over, less
<1>4. QED
  BY <1>1, <1>2, <1>3, Untouched, SameLevel

LEMMA AllocLevel ==
  ASSUME NEW m, Good(m), NEW n
  PROVE  Level(m, Alloc(m, n))
<1> DEFINE r == [m EXCEPT !.mem = @ + n, !.fault = IF m.mem + n > MemLimit THEN "memory" ELSE @]
<1>1. DOMAIN r = Fields /\ r.frames = m.frames /\ r.inner = m.inner
  BY DEF Good, Fields
<1>2. Alloc(m, n) = m \/ Alloc(m, n) = r
  BY DEF Alloc
<1> HIDE DEF r
<1>3. QED
  BY <1>1, <1>2, Untouched, SameLevel

LEMMA RaiseLevel ==
  ASSUME NEW m, Good(m), NEW v
  PROVE  Level(m, Raise(m, v))
<1> DEFINE r == [m EXCEPT !.fault = "raised", !.error = v]
<1>1. DOMAIN r = Fields /\ r.frames = m.frames /\ r.inner = m.inner
  BY DEF Good, Fields
<1>2. Raise(m, v) = m \/ Raise(m, v) = r
  BY DEF Raise
<1> HIDE DEF r
<1>3. QED
  BY <1>1, <1>2, Untouched, SameLevel

LEMMA TypeErrorLevel ==
  ASSUME NEW m, Good(m)
  PROVE  Level(m, TypeError(m))
BY RaiseLevel DEF TypeError

LEMMA PushLevel ==
  ASSUME NEW m, Good(m), NEW v
  PROVE  Level(m, Push(m, v))
BY Untouched, SameLevel DEF Push, Good, Fields

LEMMA DropLevel ==
  ASSUME NEW m, Good(m), NEW n
  PROVE  Level(m, Drop(m, n))
BY Untouched DEF Drop, Good, Fields

LEMMA PopLevel ==
  ASSUME NEW m, Good(m), NEW n
  PROVE  Level(m, Pop(m, n))
BY RaiseLevel, DropLevel DEF Pop

LEMMA ResultLevel ==
  ASSUME NEW m, Good(m), NEW r
  PROVE  Level(m, PushResult(m, r))
<1>1. Level(m, IF m.fault = "none" THEN [m EXCEPT !.fault = "memory"] ELSE m)
  BY Untouched, SameLevel DEF Good, Fields
<1>2. QED
  BY <1>1, PushLevel, RaiseLevel, TypeErrorLevel DEF PushResult

(* What OnTable does, whatever the operator. *)
LEMMA TableLevel ==
  ASSUME NEW m, Good(m), NEW a, NEW r
  PROVE  Level(m, [m EXCEPT !.heap[a] = r.table, !.gas = r.gas, !.mem = r.mem,
                            !.fault = r.fault])
<1> DEFINE t == [m EXCEPT !.heap[a] = r.table, !.gas = r.gas, !.mem = r.mem,
                          !.fault = r.fault]
<1>1. DOMAIN t = Fields /\ t.frames = m.frames /\ t.inner = m.inner
  BY DEF Good, Fields
<1> HIDE DEF t
<1>2. Level(m, t)
  BY <1>1, Untouched
<1>3. QED
  BY <1>2 DEF t

LEMMA NewTableLevel ==
  ASSUME NEW m, Good(m), NEW t
  PROVE  Level(m, NewTable(m, t))
<1> DEFINE r == [m EXCEPT !.heap = Append(@, t)]
<1>1. Level(m, r) /\ Good(r)
  BY Untouched DEF Good, Fields
<1>2. QED
  BY <1>1, PushLevel, LevelTwice DEF NewTable

LEMMA JumpLevel ==
  ASSUME NEW m, Good(m), NEW n
  PROVE  Level(m, JumpBy(m, n))
<1> DEFINE k == Len(m.frames)
           e == [m.frames[k] EXCEPT !.pc = @ + n]
           r == [m EXCEPT !.frames = [m.frames EXCEPT ![k] = e]]
<1>1. IsSeq(m.frames) /\ DOMAIN r = Fields
      /\ r.frames = [m.frames EXCEPT ![k] = e] /\ r.inner = m.inner
  BY DEF Good, Fields
<1> HIDE DEF r, e, k
<1>2. IsSeq(r.frames) /\ Len(r.frames) = Len(m.frames)
  <2>1. DOMAIN m.frames = 1..Len(m.frames) /\ Len(m.frames) \in Nat
    BY <1>1, SeqFacts
  <2>2. r.frames = [i \in 1..Len(m.frames) |-> r.frames[i]]
    BY <1>1, <2>1
  <2>3. QED
    BY <2>1, <2>2, SeqFrom
<1>3. Level(m, r)
  BY <1>1, <1>2 DEF Level, Good
<1>4. JumpBy(m, n) = IF m.fault # "none" THEN m ELSE r
  BY DEF JumpBy, r, e, k
<1>5. QED
  BY <1>3, <1>4, SameLevel

LEMMA WriteBackLevel ==
  ASSUME NEW m, Good(m), NEW a, NEW array
  PROVE  Level(m, WriteBack(m, a, array))
BY TableLevel DEF WriteBack, OnTable

LEMMA SetAtLevel ==
  ASSUME NEW m, Good(m), NEW t, NEW k, NEW v
  PROVE  Level(m, SetAt(m, t, k, v))
<1>1. Level(m, OnTable(m, t[2], LAMBDA u : DoRawset(u, k, v)))
  BY TableLevel DEF OnTable
<1>2. QED
  BY <1>1, RaiseLevel, TypeErrorLevel DEF SetAt

LEMMA KeyFaultLevel ==
  ASSUME NEW m, Good(m), NEW k
  PROVE  Level(m, KeyFault(m, k))
BY RaiseLevel, TypeErrorLevel DEF KeyFault

-----------------------------------------------------------------------------
(* The functions that run inside instructions.                             *)

LEMMA SortsFacts ==
  ASSUME NEW s
  PROVE  /\ Sorts(s, 0) = 0
         /\ \A n \in Nat :
              /\ Sorts(s, n) \in Nat
              /\ s[n + 1].kind # "sort" => Sorts(s, n + 1) = Sorts(s, n)
              /\ s[n + 1].kind = "sort" => Sorts(s, n + 1) = Sorts(s, n) + 1
<1> DEFINE At(n) == {i \in 1..n : s[i].kind = "sort"}
<1>1. At(0) = {}
  OBVIOUS
<1>2. \A n \in Nat : IsFiniteSet(At(n))
  <2>1. SUFFICES ASSUME NEW n \in Nat PROVE IsFiniteSet(At(n))
    OBVIOUS
  <2>2. IsFiniteSet(1..n)
    BY FS_Interval
  <2>3. At(n) \subseteq 1..n
    OBVIOUS
  <2>4. QED
    BY <2>2, <2>3, FS_Subset
<1>3. ASSUME NEW n \in Nat
      PROVE  /\ s[n + 1].kind # "sort" => At(n + 1) = At(n)
             /\ s[n + 1].kind = "sort" => At(n + 1) = At(n) \cup {n + 1}
             /\ n + 1 \notin At(n)
  OBVIOUS
<1> HIDE DEF At
<1>4. Cardinality(At(0)) = 0
  BY <1>1, FS_EmptySet
<1>5. ASSUME NEW n \in Nat
      PROVE  /\ Cardinality(At(n)) \in Nat
             /\ s[n + 1].kind # "sort" => Cardinality(At(n + 1)) = Cardinality(At(n))
             /\ s[n + 1].kind = "sort" => Cardinality(At(n + 1)) = Cardinality(At(n)) + 1
  <2>1. IsFiniteSet(At(n))
    BY <1>2
  <2>2. Cardinality(At(n)) \in Nat
    BY <2>1, FS_CardinalityType
  <2>3. n + 1 \notin At(n)
    BY <1>3
  <2>4. Cardinality(At(n) \cup {n + 1}) = Cardinality(At(n)) + 1
    BY <2>1, <2>3, FS_AddElement
  <2>5. CASE s[n + 1].kind # "sort"
    <3>1. At(n + 1) = At(n)
      BY <1>3, <2>5
    <3>2. QED
      BY <2>2, <2>5, <3>1
  <2>6. CASE s[n + 1].kind = "sort"
    <3>1. At(n + 1) = At(n) \cup {n + 1}
      BY <1>3, <2>6
    <3>2. QED
      BY <2>2, <2>4, <2>6, <3>1
  <2>7. QED
    BY <2>5, <2>6
<1>6. \A n \in Nat : Sorts(s, n) = Cardinality(At(n))
  BY DEF Sorts, At
<1>7. QED
  BY <1>4, <1>5, <1>6

LEMMA SortsBelow ==
  ASSUME NEW s, NEW n \in Nat, n >= 1
  PROVE  /\ Sorts(s, n - 1) \in Nat
         /\ s[n].kind # "sort" => Sorts(s, n) = Sorts(s, n - 1)
         /\ s[n].kind = "sort" => Sorts(s, n) = Sorts(s, n - 1) + 1
<1>1. ASSUME NEW k \in Nat, k + 1 = n
      PROVE  /\ Sorts(s, k) \in Nat
             /\ s[n].kind # "sort" => Sorts(s, n) = Sorts(s, k)
             /\ s[n].kind = "sort" => Sorts(s, n) = Sorts(s, k) + 1
  BY <1>1, SortsFacts
<1>2. n - 1 \in Nat /\ (n - 1) + 1 = n
  OBVIOUS
<1>3. QED
  BY <1>1, <1>2

(* Of an entry, what the invariant is about. *)
SameEntry(e, f) ==
  e.kind = f.kind /\ e.frameLen = f.frameLen /\ (e.kind = "sort" => e.byPcall = f.byPcall)

LEMMA SortsAlike ==
  ASSUME NEW s, NEW t, NEW n \in Nat, \A i \in 1..n : t[i].kind = s[i].kind
  PROVE  Sorts(t, n) = Sorts(s, n)
<1>1. {i \in 1..n : t[i].kind = "sort"} = {i \in 1..n : s[i].kind = "sort"}
  OBVIOUS
<1>2. QED
  BY <1>1 DEF Sorts

IsEntry(e) ==
  /\ e.kind \in {"pcall", "sort"} /\ {"kind", "frameLen"} \subseteq DOMAIN e
  /\ e.kind = "sort" => "byPcall" \in DOMAIN e /\ e.byPcall \in BOOLEAN

(* Unwinding to a checkpoint leaves no more frames than the comparators    *)
(* below it allow, and a sort called by a pcall ends with that pcall.      *)
NestedAt(inner, i) ==
  /\ inner[i].frameLen \in Nat
  /\ inner[i].frameLen <= MaxCallDepth + Sorts(inner, i - 1)
  /\ inner[i].kind = "sort" /\ inner[i].byPcall => i > 1 /\ inner[i - 1].kind = "pcall"

WellNested(s) == \A i \in 1..Len(s) : IsEntry(s[i]) /\ NestedAt(s, i)

LEMMA NestedShorter ==
  ASSUME NEW s, IsSeq(s), WellNested(s), NEW t, IsSeq(t), Len(t) <= Len(s),
         \A i \in 1..Len(t) : IsEntry(t[i]) /\ SameEntry(t[i], s[i])
  PROVE  WellNested(t) /\ \A n \in 0..Len(t) : Sorts(t, n) = Sorts(s, n)
<1>1. Len(s) \in Nat /\ Len(t) \in Nat
  BY SeqFacts
<1>2. ASSUME NEW n \in 0..Len(t) PROVE Sorts(t, n) = Sorts(s, n)
  BY <1>1, SortsAlike DEF SameEntry
<1>3. ASSUME NEW i \in 1..Len(t) PROVE NestedAt(t, i)
  <2>1. NestedAt(s, i) /\ i \in 1..Len(s) /\ i - 1 \in 0..Len(t)
    BY <1>1 DEF WellNested
  <2>2. Sorts(t, i - 1) = Sorts(s, i - 1)
    BY <1>2, <2>1
  <2>3. i > 1 => i - 1 \in 1..Len(t)
    BY <1>1
  <2>4. SameEntry(t[i], s[i]) /\ (i > 1 => SameEntry(t[i - 1], s[i - 1]))
    BY <2>3
  <2>5. QED
    BY <2>1, <2>2, <2>4 DEF NestedAt, SameEntry
<1>4. QED
  BY <1>2, <1>3 DEF WellNested

LEMMA NestedAppend ==
  ASSUME NEW s, IsSeq(s), WellNested(s), NEW e, IsEntry(e), e.frameLen \in Nat,
         e.frameLen <= MaxCallDepth + Sorts(s, Len(s)),
         e.kind = "sort" /\ e.byPcall => s # << >> /\ Last(s).kind = "pcall"
  PROVE  LET t == Append(s, e)
         IN  /\ WellNested(t) /\ Sorts(t, Len(s)) = Sorts(s, Len(s))
             /\ Sorts(t, Len(t)) >= Sorts(s, Len(s))
             /\ e.kind = "sort" => Sorts(t, Len(t)) = Sorts(s, Len(s)) + 1
<1> DEFINE t == Append(s, e)
           n == Len(s)
<1>1. n \in Nat
  BY SeqFacts
<1>2. /\ IsSeq(t) /\ Len(t) = n + 1 /\ t[n + 1] = e
      /\ \A i \in 1..n : t[i] = s[i]
  BY SeqAppend
<1> HIDE DEF t
<1>3. \A k \in 0..n : Sorts(t, k) = Sorts(s, k)
  BY <1>1, <1>2, SortsAlike
<1>4. /\ Sorts(t, n) = Sorts(s, n) /\ Sorts(s, n) \in Nat
      /\ Sorts(t, n + 1) >= Sorts(s, n)
      /\ e.kind = "sort" => Sorts(t, n + 1) = Sorts(s, n) + 1
  <2>1. Sorts(t, n) = Sorts(s, n)
    BY <1>1, <1>3
  <2>2. /\ Sorts(t, n) \in Nat
        /\ t[n + 1].kind # "sort" => Sorts(t, n + 1) = Sorts(t, n)
        /\ t[n + 1].kind = "sort" => Sorts(t, n + 1) = Sorts(t, n) + 1
    BY <1>1, SortsFacts
  <2>3. QED
    BY <1>2, <2>1, <2>2
<1>5. ASSUME NEW i \in 1..n PROVE IsEntry(t[i]) /\ NestedAt(t, i)
  <2>1. IsEntry(s[i]) /\ NestedAt(s, i) /\ t[i] = s[i] /\ i - 1 \in 0..n
    BY <1>1, <1>2 DEF WellNested
  <2>2. i > 1 => t[i - 1] = s[i - 1]
    BY <1>1, <1>2
  <2>3. Sorts(t, i - 1) = Sorts(s, i - 1)
    BY <1>3, <2>1
  <2>4. QED
    BY <2>1, <2>2, <2>3 DEF NestedAt
<1>6. IsEntry(t[n + 1]) /\ NestedAt(t, n + 1)
  <2>1. (n + 1) - 1 = n
    BY <1>1
  <2>2. s # << >> => n >= 1 /\ Last(s) = s[n] /\ s[n] = t[n]
    BY <1>1, <1>2, SeqFront
  <2>3. QED
    BY <1>1, <1>2, <1>4, <2>1, <2>2 DEF NestedAt
<1>7. WellNested(t)
  <2>1. \A i \in 1..n + 1 : i \in 1..n \/ i = n + 1
    BY <1>1
  <2>2. QED
    BY <1>2, <1>5, <1>6, <2>1 DEF WellNested
<1>8. QED
  BY <1>2, <1>4, <1>7 DEF t

-----------------------------------------------------------------------------
(* The invariant, of any state an instruction works on.                    *)

Deep(m) == Len(m.frames) <= MaxCallDepth + Comparators(m)

Nested(m) == Good(m) /\ WellNested(m.inner) /\ Deep(m)

LEMMA LevelNested ==
  ASSUME NEW m, Nested(m), NEW r, Level(m, r)
  PROVE  Nested(r)
BY DEF Nested, Level, Deep, Comparators

LEMMA GoodNumbers ==
  ASSUME NEW m, Good(m)
  PROVE  /\ Len(m.frames) \in Nat /\ Len(m.inner) \in Nat /\ MaxCallDepth \in Nat
         /\ Comparators(m) \in Nat
BY SeqFacts, SortsFacts, MachineAssumption DEF Good, Comparators

(* A frame pushed where there is room for it. *)
LEMMA PushCallFrameNested ==
  ASSUME NEW m, Nested(m), NEW f, NEW args, Len(m.frames) + 1 <= MaxCallDepth + Comparators(m)
  PROVE  Nested(PushCallFrame(m, f, args))
<1> DEFINE proto == program[f[2][1] + 1]
           local(i) == IF i \in DOMAIN args /\ i <= proto.paramCount THEN args[i] ELSE Nil
           paid  == Alloc(m, 64 + 8 * proto.localCount)
           frame == [proto |-> f[2][1], pc |-> 1, base |-> Len(m.stack), upvalues |-> f[2][2]]
           slots == [i \in 1..proto.localCount |-> local(i)]
           r == [paid EXCEPT !.frames = Append(@, frame), !.stack = @ \o slots]
<1>1. PushCallFrame(m, f, args) = IF paid.fault # "none" THEN paid ELSE r
  BY DEF PushCallFrame
<1>2. Level(m, paid)
  BY AllocLevel DEF Nested
<1> HIDE DEF proto, local, paid, frame, slots
<1>3. DOMAIN r = Fields /\ r.frames = Append(paid.frames, frame) /\ r.inner = m.inner
  BY <1>2 DEF Level, Good, Fields
<1> HIDE DEF r
<1>4. IsSeq(paid.frames) /\ Len(paid.frames) = Len(m.frames)
  BY <1>2 DEF Level, Good
<1>5. IsSeq(r.frames) /\ Len(r.frames) = Len(m.frames) + 1
  BY <1>3, <1>4, SeqAppend
<1>6. Nested(r)
  BY <1>3, <1>5 DEF Nested, Good, Deep, Comparators
<1>7. QED
  BY <1>1, <1>2, <1>6, LevelNested

LEMMA PcallEntryNested ==
  ASSUME NEW m, Nested(m)
  PROVE  /\ Nested(PcallEntry(m)) /\ PcallEntry(m).inner # << >>
         /\ Last(PcallEntry(m).inner).kind = "pcall"
         /\ PcallEntry(m).frames = m.frames /\ Comparators(PcallEntry(m)) >= Comparators(m)
<1> DEFINE r == PcallEntry(m)
           e == Checkpoint(m)
<1>1. /\ DOMAIN r = Fields /\ r.frames = m.frames /\ r.inner = Append(m.inner, e)
  BY DEF PcallEntry, Nested, Good, Fields
<1>2. IsEntry(e) /\ e.kind = "pcall" /\ e.frameLen = Len(m.frames)
  BY DEF Checkpoint, IsEntry
<1> HIDE DEF r, e
<1>3. IsSeq(m.inner) /\ IsSeq(m.frames) /\ WellNested(m.inner) /\ Deep(m)
  BY DEF Nested, Good
<1>4. /\ IsSeq(r.inner) /\ Len(r.inner) = Len(m.inner) + 1 /\ r.inner[Len(m.inner) + 1] = e
      /\ Len(m.inner) \in Nat /\ Len(m.frames) \in Nat
  BY <1>1, <1>3, SeqAppend, SeqFacts
<1>5. WellNested(r.inner) /\ Sorts(r.inner, Len(r.inner)) >= Sorts(m.inner, Len(m.inner))
  BY <1>1, <1>2, <1>3, <1>4, NestedAppend DEF Deep, Comparators
<1>6. r.inner # << >>
  BY <1>4
<1>7. Last(r.inner) = e
  BY <1>4 DEF Last
<1>8. Comparators(r) \in Nat /\ Comparators(m) \in Nat /\ MaxCallDepth \in Nat
  <2>1. Len(r.inner) \in Nat
    BY <1>4
  <2>2. QED
    BY <1>4, <2>1, SortsFacts, MachineAssumption DEF Comparators
<1>9. Deep(r)
  BY <1>1, <1>3, <1>4, <1>5, <1>8 DEF Deep, Comparators
<1>10. Nested(r) /\ Comparators(r) >= Comparators(m)
  BY <1>1, <1>3, <1>4, <1>5, <1>9 DEF Nested, Good, Comparators
<1>11. QED
  BY <1>1, <1>2, <1>6, <1>7, <1>10 DEF r

(* The last of the inner functions leaves, when the frames fit without it. *)
LEMMA LeaveInnerNested ==
  ASSUME NEW m, Nested(m), m.inner # << >>,
         Len(m.frames) <= MaxCallDepth + Sorts(m.inner, Len(m.inner) - 1)
  PROVE  /\ Nested(LeaveInner(m)) /\ LeaveInner(m).inner = Front(m.inner)
         /\ \A i \in 1..Len(m.inner) - 1 : LeaveInner(m).inner[i] = m.inner[i]
<1> DEFINE r == LeaveInner(m)
<1>1. DOMAIN r = Fields /\ r.frames = m.frames /\ r.inner = Front(m.inner)
  BY DEF LeaveInner, Nested, Good, Fields
<1> HIDE DEF r
<1>2. IsSeq(m.inner) /\ WellNested(m.inner) /\ IsSeq(m.frames)
  BY DEF Nested, Good
<1>3. /\ IsSeq(r.inner) /\ Len(r.inner) = Len(m.inner) - 1 /\ Len(m.inner) >= 1
      /\ \A i \in 1..Len(m.inner) - 1 : r.inner[i] = m.inner[i]
  BY <1>1, <1>2, SeqFront
<1>4. Len(m.inner) \in Nat
  BY <1>2, SeqFacts
<1>5. \A i \in 1..Len(r.inner) : IsEntry(r.inner[i]) /\ SameEntry(r.inner[i], m.inner[i])
  BY <1>2, <1>3, <1>4 DEF WellNested, SameEntry
<1>6. WellNested(r.inner) /\ \A n \in 0..Len(r.inner) : Sorts(r.inner, n) = Sorts(m.inner, n)
  <2>1. Len(r.inner) <= Len(m.inner)
    BY <1>3, <1>4
  <2>2. QED
    BY <1>2, <1>3, <1>5, <2>1, NestedShorter
<1>7. Comparators(r) = Sorts(m.inner, Len(m.inner) - 1)
  BY <1>3, <1>4, <1>6 DEF Comparators
<1>8. Nested(r)
  BY <1>1, <1>2, <1>3, <1>6, <1>7 DEF Nested, Good, Deep
<1>9. QED
  BY <1>1, <1>3, <1>8 DEF r

(* What Finish may be told it is the end of. *)
InPcall(m, byPcall) ==
  /\ byPcall \in BOOLEAN
  /\ byPcall => m.inner # << >> /\ Last(m.inner).kind = "pcall"

LEMMA FinishNested ==
  ASSUME NEW m, Nested(m), NEW byPcall, InPcall(m, byPcall), NEW v
  PROVE  Nested(Finish(m, byPcall, v))
<1>1. Nested(Push(m, v))
  BY PushLevel, LevelNested DEF Nested
<1>2. ASSUME byPcall PROVE Nested(Push(Push(LeaveInner(m), TrueVal), v))
  <2>1. m.inner # << >> /\ Last(m.inner).kind = "pcall" /\ IsSeq(m.inner)
    BY <1>2 DEF InPcall, Nested, Good
  <2>2. Len(m.inner) >= 1 /\ Len(m.inner) \in Nat /\ Last(m.inner) = m.inner[Len(m.inner)]
    BY <2>1, SeqFront, SeqFacts
  <2>3. Sorts(m.inner, Len(m.inner)) = Sorts(m.inner, Len(m.inner) - 1)
    BY <2>1, <2>2, SortsBelow
  <2>4. Nested(LeaveInner(m))
    BY <2>1, <2>3, LeaveInnerNested DEF Nested, Deep, Comparators
  <2>5. Nested(Push(LeaveInner(m), TrueVal))
    BY <2>4, PushLevel, LevelNested DEF Nested
  <2>6. QED
    BY <2>5, PushLevel, LevelNested DEF Nested
<1>3. QED
  BY <1>1, <1>2 DEF Finish, InPcall

(* A comparator that is waited for: its sort is the last inner function,   *)
(* and the frames fit without it.                                          *)
LEMMA SortOnNested ==
  ASSUME NEW m, Nested(m), m.inner # << >>, Last(m.inner).kind = "sort",
         Len(m.frames) <= MaxCallDepth + Sorts(m.inner, Len(m.inner) - 1)
  PROVE  Nested(SortOn(m))
<1> DEFINE e == Last(m.inner)
           n == Len(m.inner)
<1>1. IsSeq(m.inner) /\ IsSeq(m.frames) /\ WellNested(m.inner)
  BY DEF Nested, Good
<1>2. n \in Nat /\ n >= 1 /\ e = m.inner[n]
  BY <1>1, SeqFacts, SeqFront
<1>3. IsEntry(e) /\ NestedAt(m.inner, n) /\ e.kind = "sort"
  BY <1>1, <1>2 DEF WellNested
<1>4. ASSUME NEW array PROVE Nested(Finish(WriteBack(LeaveInner(m), e.table, array), e.byPcall, Nil))
  <2> DEFINE left == LeaveInner(m)
             r    == WriteBack(left, e.table, array)
  <2>1. /\ Nested(left) /\ left.inner = Front(m.inner)
        /\ \A i \in 1..n - 1 : left.inner[i] = m.inner[i]
    BY LeaveInnerNested
  <2> HIDE DEF left
  <2>2. Level(left, r)
    BY <2>1, WriteBackLevel DEF Nested
  <2>3. Nested(r) /\ r.inner = left.inner
    BY <2>1, <2>2, LevelNested DEF Level
  <2>4. e.byPcall \in BOOLEAN
    BY <1>3 DEF IsEntry
  <2>5. ASSUME e.byPcall PROVE left.inner # << >> /\ Last(left.inner).kind = "pcall"
    <3>1. n > 1 /\ m.inner[n - 1].kind = "pcall"
      BY <1>2, <1>3, <2>5 DEF NestedAt
    <3>2. Len(left.inner) = n - 1
      BY <1>1, <1>2, <2>1, SeqFront
    <3>3. Last(left.inner) = m.inner[n - 1]
      BY <1>2, <2>1, <3>1, <3>2 DEF Last
    <3>4. left.inner # << >>
      BY <1>2, <3>1, <3>2
    <3>5. QED
      BY <3>1, <3>3, <3>4
  <2>6. InPcall(r, e.byPcall)
    BY <2>3, <2>4, <2>5 DEF InPcall
  <2> HIDE DEF r, e
  <2>7. Nested(Finish(r, e.byPcall, Nil))
    BY <2>3, <2>6, FinishNested
  <2>8. QED
    BY <2>7 DEF r, left
<1>5. ASSUME NEW ask PROVE Nested(PushCallFrame(m, e.comp, ask))
  <2>1. m.inner[n].kind = "sort"
    BY <1>2, <1>3
  <2>2. Sorts(m.inner, n) = Sorts(m.inner, n - 1) + 1 /\ Sorts(m.inner, n - 1) \in Nat
    BY <1>2, <2>1, SortsBelow
  <2>3. Len(m.frames) \in Nat
    BY <1>1, SeqFacts
  <2>4. Len(m.frames) + 1 <= MaxCallDepth + Comparators(m)
    BY <2>2, <2>3, MachineAssumption DEF Comparators
  <2>5. QED
    BY <2>4, PushCallFrameNested
<1>6. Nested(TypeError(m))
  BY TypeErrorLevel, LevelNested DEF Nested
<1>7. QED
  BY <1>4, <1>5, <1>6 DEF SortOn

LEMMA TableSortNested ==
  ASSUME NEW m, Nested(m), NEW args, NEW byPcall, InPcall(m, byPcall)
  PROVE  Nested(TableSort(m, args, byPcall))
<1> DEFINE a     == args[1][2]
           array == m.heap[a].array
           paid  == Charge(m, SortGas(Len(array)))
           entry == [kind |-> "sort", stackLen |-> Len(m.stack), frameLen |-> Len(m.frames),
                     table |-> a, array |-> array, comp |-> args[2],
                     answers |-> << >>, byPcall |-> byPcall]
           r     == [paid EXCEPT !.inner = Append(@, entry)]
<1>1. TableSort(m, args, byPcall) \in
        {TypeError(m), TypeError(paid), Finish(m, byPcall, Nil), paid, SortOn(r),
         Finish(WriteBack(paid, a, SortedSeq(array)), byPcall, Nil)}
  BY DEF TableSort
<1>2. IsEntry(entry) /\ entry.kind = "sort" /\ entry.frameLen = Len(m.frames)
      /\ entry.byPcall = byPcall
  BY DEF IsEntry, InPcall
<1>3. Level(m, paid)
  BY ChargeLevel DEF Nested
<1> HIDE DEF a, array, paid, entry
<1>4. Nested(paid) /\ paid.inner = m.inner /\ Len(paid.frames) = Len(m.frames)
  BY <1>3, LevelNested DEF Level
<1>5. Nested(TypeError(m)) /\ Nested(TypeError(paid)) /\ Nested(Finish(m, byPcall, Nil))
  BY <1>4, TypeErrorLevel, LevelNested, FinishNested DEF Nested
<1>6. ASSUME NEW s PROVE Nested(Finish(WriteBack(paid, a, s), byPcall, Nil))
  <2>1. Level(paid, WriteBack(paid, a, s))
    BY <1>4, WriteBackLevel DEF Nested
  <2>2. Nested(WriteBack(paid, a, s)) /\ WriteBack(paid, a, s).inner = m.inner
    BY <1>4, <2>1, LevelNested DEF Level
  <2>3. InPcall(WriteBack(paid, a, s), byPcall)
    BY <2>2 DEF InPcall
  <2>4. QED
    BY <2>2, <2>3, FinishNested
<1>7. /\ Nested(r) /\ r.inner # << >> /\ Last(r.inner).kind = "sort"
      /\ Len(r.frames) <= MaxCallDepth + Sorts(r.inner, Len(r.inner) - 1)
  <2> DEFINE n == Len(m.inner)
  <2>1. DOMAIN r = Fields /\ r.frames = paid.frames /\ r.inner = Append(m.inner, entry)
    BY <1>4 DEF Nested, Good, Fields
  <2> HIDE DEF r
  <2>2. /\ IsSeq(m.inner) /\ WellNested(m.inner) /\ n \in Nat /\ Len(m.frames) \in Nat
        /\ IsSeq(r.frames) /\ Len(r.frames) = Len(m.frames) /\ MaxCallDepth \in Nat
        /\ Len(m.frames) <= MaxCallDepth + Sorts(m.inner, n)
    BY <1>4, <2>1, SeqFacts, MachineAssumption DEF Nested, Good, Deep, Comparators
  <2>3. IsSeq(r.inner) /\ Len(r.inner) = n + 1 /\ r.inner[n + 1] = entry
    BY <2>1, <2>2, SeqAppend
  <2>4. entry.byPcall => m.inner # << >> /\ Last(m.inner).kind = "pcall"
    BY <1>2 DEF InPcall
  <2>5. /\ WellNested(r.inner) /\ Sorts(r.inner, n) = Sorts(m.inner, n)
        /\ Sorts(r.inner, n + 1) = Sorts(m.inner, n) + 1
    BY <1>2, <2>1, <2>2, <2>3, <2>4, NestedAppend
  <2>6. Sorts(m.inner, n) \in Nat
    BY <2>2, SortsFacts
  <2>7. Deep(r)
    BY <2>2, <2>3, <2>5, <2>6 DEF Deep, Comparators
  <2>8. r.inner # << >> /\ Last(r.inner) = entry /\ Len(r.inner) - 1 = n
    BY <2>2, <2>3 DEF Last
  <2>9. QED
    BY <1>2, <2>1, <2>2, <2>3, <2>5, <2>7, <2>8 DEF Nested, Good
<1> HIDE DEF r
<1>8. Nested(SortOn(r))
  BY <1>7, SortOnNested
<1>9. QED
  BY <1>1, <1>4, <1>5, <1>6, <1>8

LEMMA CallBuiltinNested ==
  ASSUME NEW m, Nested(m), NEW b, NEW args, NEW byPcall, InPcall(m, byPcall)
  PROVE  Nested(CallBuiltin(m, b, args, byPcall))
<1> DEFINE len == Length(m.heap[args[1][2]])
           inserted == OnTable(m, args[1][2], LAMBDA t : TableInsert(t, len + 1, args[2]))
           removed  == OnTable(m, args[1][2], LAMBDA t : TableRemove(t, len))
<1>1. ASSUME NEW v PROVE Nested(Finish(m, byPcall, v))
  BY FinishNested
<1>2. ASSUME NEW r, Level(m, r), NEW v PROVE Nested(Finish(r, byPcall, v))
  <2>1. Nested(r) /\ r.inner = m.inner
    BY <1>2, LevelNested DEF Level
  <2>2. InPcall(r, byPcall)
    BY <2>1 DEF InPcall
  <2>3. QED
    BY <2>1, <2>2, FinishNested
<1>3. Level(m, inserted) /\ Level(m, removed)
  BY TableLevel DEF OnTable, Nested
<1> HIDE DEF len, inserted, removed
<1>4. /\ \A v : Nested(Finish(inserted, byPcall, v))
      /\ \A v : Nested(Finish(removed, byPcall, v))
  BY <1>2, <1>3
<1>5. Nested(TableSort(m, args, byPcall))
  BY TableSortNested
<1>6. Nested(Raise(m, Text("bad argument")))
  BY RaiseLevel, LevelNested DEF Nested
<1>7. \/ \E v : CallBuiltin(m, b, args, byPcall) = Finish(m, byPcall, v)
      \/ \E v : CallBuiltin(m, b, args, byPcall) = Finish(inserted, byPcall, v)
      \/ \E v : CallBuiltin(m, b, args, byPcall) = Finish(removed, byPcall, v)
      \/ CallBuiltin(m, b, args, byPcall) = TableSort(m, args, byPcall)
      \/ CallBuiltin(m, b, args, byPcall) = Raise(m, Text("bad argument"))
  BY DEF CallBuiltin, inserted, removed, len
<1>8. QED
  BY <1>1, <1>4, <1>5, <1>6, <1>7

LEMMA ReturnNested ==
  ASSUME NEW m, Nested(m), NEW v
  PROVE  Nested(Return(m, v))
<1> DEFINE left  == [m EXCEPT !.stack = SubSeq(@, 1, Frame(m).base), !.frames = Front(@)]
           over  == [left EXCEPT !.status = "done", !.answer = v]
           n     == Len(m.inner)
           entry == [m.inner[n] EXCEPT !.answers = Append(@, Truthy(v))]
           told  == [left EXCEPT !.inner = [@ EXCEPT ![n] = entry]]
<1>1. /\ DOMAIN left = Fields /\ left.frames = Front(m.frames) /\ left.inner = m.inner
      /\ DOMAIN over = Fields /\ over.frames = left.frames /\ over.inner = m.inner
      /\ DOMAIN told = Fields /\ told.frames = left.frames
      /\ told.inner = [m.inner EXCEPT ![n] = entry]
  BY DEF Nested, Good, Fields
<1>2. Return(m, v) =
        IF m.fault # "none" THEN m
        ELSE IF left.frames = << >> THEN over
        ELSE IF m.inner = << >> \/ Last(m.inner).frameLen < Len(left.frames) THEN Push(left, v)
        ELSE IF Last(m.inner).kind = "pcall" THEN Finish(left, TRUE, v)
        ELSE SortOn(told)
  BY DEF Return
<1>8. /\ n >= 1 /\ IsEntry(m.inner[n]) /\ m.inner[n].kind = "sort"
      => IsEntry(entry) /\ SameEntry(entry, m.inner[n]) /\ entry.kind = "sort"
  BY DEF IsEntry, SameEntry
<1>9. m.frames = << >> => left.frames = << >>
  BY <1>1 DEF Front
<1> HIDE DEF left, over, told, entry
<1>3. /\ IsSeq(m.inner) /\ IsSeq(m.frames) /\ WellNested(m.inner) /\ Deep(m)
      /\ n \in Nat /\ Len(m.frames) \in Nat /\ Comparators(m) \in Nat /\ MaxCallDepth \in Nat
  BY GoodNumbers DEF Nested, Good
<1>4. CASE left.frames = << >>
  <2>1. IsSeq(over.frames) /\ Len(over.frames) = 0
    BY <1>1, <1>4, SeqEmpty
  <2>2. Nested(over)
    BY <1>1, <1>3, <2>1 DEF Nested, Good, Deep, Comparators
  <2>3. QED
    BY <1>2, <1>4, <2>2
<1>5. CASE left.frames # << >> /\ m.frames # << >>
  <2>1. IsSeq(left.frames) /\ Len(left.frames) = Len(m.frames) - 1
    BY <1>1, <1>3, <1>5, SeqFront
  <2>2. Nested(left)
    BY <1>1, <1>3, <2>1 DEF Nested, Good, Deep, Comparators
  <2>3. Nested(Push(left, v))
    BY <2>2, PushLevel, LevelNested DEF Nested
  <2>4. ASSUME m.inner # << >>, Last(m.inner).kind = "pcall" PROVE Nested(Finish(left, TRUE, v))
    BY <1>1, <2>2, <2>4, FinishNested DEF InPcall
  <2>5. ASSUME m.inner # << >>, Last(m.inner).kind # "pcall",
               ~(Last(m.inner).frameLen < Len(left.frames))
        PROVE  Nested(SortOn(told))
    <3>1. n >= 1 /\ Last(m.inner) = m.inner[n]
      BY <1>3, <2>5, SeqFront
    <3>2. IsEntry(m.inner[n]) /\ NestedAt(m.inner, n) /\ m.inner[n].kind = "sort"
      BY <1>3, <2>5, <3>1 DEF WellNested, IsEntry
    <3>3. IsEntry(entry) /\ SameEntry(entry, m.inner[n]) /\ entry.kind = "sort"
      BY <1>8, <3>1, <3>2
    <3>4. /\ IsSeq(told.inner) /\ Len(told.inner) = n /\ told.inner[n] = entry
          /\ \A i \in 1..n : i # n => told.inner[i] = m.inner[i]
      <4>1. DOMAIN m.inner = 1..n /\ n \in 1..n
        BY <1>3, <3>1, SeqFacts
      <4>2. /\ told.inner = [i \in 1..n |-> told.inner[i]] /\ told.inner[n] = entry
            /\ \A i \in 1..n : i # n => told.inner[i] = m.inner[i]
        BY <1>1, <4>1
      <4>3. QED
        BY <1>3, <4>2, SeqFrom
    <3>5. \A i \in 1..n : IsEntry(told.inner[i]) /\ SameEntry(told.inner[i], m.inner[i])
      BY <1>3, <3>3, <3>4 DEF WellNested, SameEntry
    <3>6. WellNested(told.inner) /\ \A k \in 0..n : Sorts(told.inner, k) = Sorts(m.inner, k)
      BY <1>3, <3>4, <3>5, NestedShorter
    <3>7. Len(left.frames) <= MaxCallDepth + Sorts(told.inner, n - 1)
      <4>1. n - 1 \in 0..n /\ Sorts(m.inner, n - 1) \in Nat
        BY <1>3, <3>1, SortsBelow
      <4>2. /\ m.inner[n].frameLen \in Nat /\ ~(m.inner[n].frameLen < Len(left.frames))
            /\ m.inner[n].frameLen <= MaxCallDepth + Sorts(m.inner, n - 1)
        BY <2>5, <3>1, <3>2 DEF NestedAt
      <4>3. Len(left.frames) \in Int
        BY <1>3, <2>1
      <4>4. Sorts(told.inner, n - 1) = Sorts(m.inner, n - 1)
        BY <3>6, <4>1
      <4>5. QED
        BY <1>3, <4>1, <4>2, <4>3, <4>4
    <3>8. Nested(told)
      BY <1>1, <1>3, <2>1, <2>2, <3>4, <3>6 DEF Nested, Good, Deep, Comparators
    <3>9. told.inner # << >> /\ Last(told.inner) = entry
      BY <1>3, <3>1, <3>4 DEF Last
    <3>10. QED
      BY <1>1, <3>3, <3>4, <3>7, <3>8, <3>9, SortOnNested
  <2>6. QED
    BY <1>2, <1>5, <2>3, <2>4, <2>5
<1>6. QED
  BY <1>4, <1>5, <1>9

(* The innermost of the pcalls. *)
LEMMA Innermost ==
  ASSUME NEW n \in Nat, NEW T \in SUBSET (1..n), T # {}
  PROVE  \E i \in T : \A j \in T : j <= i
<1> DEFINE D == {n - i : i \in T}
<1>1. D \in SUBSET Nat /\ D # {}
  <2>1. \A i \in T : i \in 1..n
    OBVIOUS
  <2>2. \A i \in T : n - i \in Nat
    BY <2>1
  <2>3. QED
    BY <2>2
<1>2. PICK d \in D : \A f \in D : d <= f
  BY <1>1, LeastNat
<1>3. PICK i \in T : d = n - i
  OBVIOUS
<1>4. ASSUME NEW j \in T PROVE j <= i
  <2>1. d <= n - j
    BY <1>2
  <2>2. QED
    BY <1>3, <2>1
<1>5. QED
  BY <1>4

LEMMA SettleNested ==
  ASSUME NEW m, Nested(m)
  PROVE  Nested(Settle(m))
<1> DEFINE pcalls == {i \in DOMAIN m.inner : m.inner[i].kind = "pcall"}
           p      == CHOOSE i \in pcalls : \A j \in pcalls : j <= i
           e      == m.inner[p]
           cured  == [m EXCEPT !.fault = "none"]
           paid   == Charge(cured, PcallUnwind)
           r      == [paid EXCEPT !.stack  = SubSeq(@, 1, e.stackLen) \o <<FalseVal, m.error>>,
                                  !.frames = SubSeq(@, 1, e.frameLen),
                                  !.inner  = SubSeq(@, 1, p - 1)]
<1>1. Settle(m) = IF m.fault # "raised" \/ pcalls = {} THEN m
                  ELSE IF paid.fault # "none" THEN paid ELSE r
  BY DEF Settle
<1>2. /\ IsSeq(m.inner) /\ WellNested(m.inner) /\ Len(m.inner) \in Nat
      /\ DOMAIN m.inner = 1..Len(m.inner)
  BY SeqFacts DEF Nested, Good
<1>3. pcalls \in SUBSET (1..Len(m.inner))
  BY <1>2
<1>4. Level(m, cured)
  BY Untouched DEF Nested, Good, Fields
<1> HIDE DEF cured
<1>5. Level(m, paid)
  BY <1>4, ChargeLevel, LevelTwice DEF Level
<1> HIDE DEF paid
<1>6. /\ DOMAIN r = Fields /\ r.frames = SubSeq(paid.frames, 1, e.frameLen)
      /\ r.inner = SubSeq(m.inner, 1, p - 1)
  BY <1>5 DEF Level, Good, Fields
<1> HIDE DEF r
<1>7. ASSUME pcalls # {} PROVE Nested(r)
  <2>1. p \in 1..Len(m.inner)
    BY <1>2, <1>3, <1>7, Innermost
  <2> HIDE DEF p
  <2>2. IsEntry(e) /\ NestedAt(m.inner, p)
    BY <1>2, <2>1 DEF WellNested
  <2>3. e.frameLen \in Nat /\ e.frameLen <= MaxCallDepth + Sorts(m.inner, p - 1)
    BY <2>2 DEF NestedAt
  <2>4. p - 1 \in Nat /\ p - 1 <= Len(m.inner)
    BY <1>2, <2>1
  <2>5. IsSeq(r.frames) /\ Len(r.frames) = e.frameLen
    BY <1>6, <2>3, SeqSub
  <2>6. /\ IsSeq(r.inner) /\ Len(r.inner) = p - 1
        /\ \A i \in 1..p - 1 : r.inner[i] = m.inner[i]
    BY <1>6, <2>4, SeqSub
  <2>7. \A i \in 1..Len(r.inner) : IsEntry(r.inner[i]) /\ SameEntry(r.inner[i], m.inner[i])
    BY <1>2, <2>4, <2>6 DEF WellNested, SameEntry
  <2>8. WellNested(r.inner) /\ \A n \in 0..p - 1 : Sorts(r.inner, n) = Sorts(m.inner, n)
    BY <1>2, <2>4, <2>6, <2>7, NestedShorter
  <2>9. Deep(r)
    BY <2>3, <2>4, <2>5, <2>6, <2>8 DEF Deep, Comparators
  <2>10. QED
    BY <1>6, <2>5, <2>6, <2>8, <2>9 DEF Nested, Good
<1>8. Nested(paid)
  BY <1>5, LevelNested
<1>9. QED
  BY <1>1, <1>7, <1>8

-----------------------------------------------------------------------------
(* The actions.                                                            *)

LEMMA BecomesNested ==
  ASSUME NEW m, Nested(m), Becomes(m)
  PROVE  Nested(vm')
BY SettleNested DEF Becomes

LEMMA FetchedLevel ==
  ASSUME Nested(vm)
  PROVE  Level(vm, Fetched) /\ Good(Fetched)
<1>1. Level(vm, JumpBy(vm, 1)) /\ Good(JumpBy(vm, 1))
  BY JumpLevel DEF Nested, Level
<1>2. Level(JumpBy(vm, 1), Charge(JumpBy(vm, 1), 1))
  BY <1>1, ChargeLevel
<1>3. QED
  BY <1>1, <1>2, LevelTwice DEF Fetched, Level

LEMMA AfterLevel ==
  ASSUME Nested(vm), NEW n
  PROVE  Level(vm, After(n)) /\ Good(After(n))
<1>1. Level(Fetched, After(n))
  BY FetchedLevel, PopLevel DEF After
<1>2. QED
  BY <1>1, FetchedLevel, LevelTwice DEF Level

(* An instruction that leaves the frames as they are. *)
LEMMA StepNested ==
  ASSUME Nested(vm), NEW n, NEW m, Level(vm, m), Step(n, m)
  PROVE  Nested(vm')
<1>1. Nested(Fetched) /\ Nested(After(n)) /\ Nested(m)
  BY FetchedLevel, AfterLevel, LevelNested
<1>2. QED
  BY <1>1, BecomesNested DEF Step, After

LEMMA PushedLevel ==
  ASSUME Nested(vm), NEW m, Level(vm, m), NEW v
  PROVE  Level(vm, Push(m, v))
<1>1. Level(m, Push(m, v))
  BY PushLevel DEF Level
<1>2. QED
  BY <1>1, LevelTwice

LEMMA Push1Nested ==
  ASSUME Nested(vm), Push1
  PROVE  Nested(vm')
<1>1. \A v : Level(vm, Push(Fetched, v))
  BY FetchedLevel, PushedLevel
<1>2. \E v : Step(0, Push(Fetched, v))
  BY DEF Push1
<1>3. QED
  BY <1>1, <1>2, StepNested

LEMMA PopTopNested ==
  ASSUME Nested(vm), PopTop
  PROVE  Nested(vm')
<1>1. Level(Fetched, Drop(Fetched, 1))
  BY FetchedLevel, DropLevel
<1>2. Level(vm, Drop(Fetched, 1))
  BY <1>1, FetchedLevel, LevelTwice
<1>3. QED
  BY <1>2, StepNested DEF PopTop

LEMMA StoreNested ==
  ASSUME Nested(vm), Store
  PROVE  Nested(vm')
<1> DEFINE toCell(a, c, v) == [a EXCEPT !.cells[c] = v]
           toSlot(a, i, v) == [a EXCEPT !.stack[i] = v]
<1>1. ASSUME NEW c, NEW v
      PROVE  Level(After(1), toCell(After(1), c, v)) /\ Level(After(1), toSlot(After(1), c, v))
  BY AfterLevel, Untouched DEF Good, Fields
<1>2. ASSUME NEW c, NEW v
      PROVE  Level(vm, toCell(After(1), c, v)) /\ Level(vm, toSlot(After(1), c, v))
  BY <1>1, AfterLevel, LevelTwice
<1>3. \/ \E c, v : Step(1, toCell(After(1), c, v))
      \/ \E c, v : Step(1, toSlot(After(1), c, v))
  BY DEF Store
<1> HIDE DEF toCell, toSlot
<1>4. QED
  BY <1>2, <1>3, StepNested

LEMMA MakeTableNested ==
  ASSUME Nested(vm), MakeTable
  PROVE  Nested(vm')
<1> DEFINE charged == Charge(Fetched, TableAlloc)
           paid    == Alloc(charged, TableBase)
           m       == IF paid.fault # "none" THEN paid ELSE NewTable(paid, EmptyTable)
<1>1. Level(vm, charged) /\ Good(charged)
  BY FetchedLevel, ChargeLevel, LevelTwice DEF Level
<1>2. Level(vm, paid) /\ Good(paid)
  BY <1>1, AllocLevel, LevelTwice DEF Level
<1> HIDE DEF paid
<1>3. Level(vm, m)
  BY <1>2, NewTableLevel, LevelTwice
<1>4. Step(0, m)
  BY DEF MakeTable, paid
<1> HIDE DEF m
<1>5. QED
  BY <1>3, <1>4, StepNested

LEMMA ChargedAfter ==
  ASSUME Nested(vm), NEW n, NEW c
  PROVE  Level(vm, Charge(After(n), c)) /\ Good(Charge(After(n), c))
<1>1. Level(After(n), Charge(After(n), c))
  BY AfterLevel, ChargeLevel
<1>2. QED
  BY <1>1, AfterLevel, LevelTwice DEF Level

(* What a level state becomes by one more operation. *)
LEMMA OnceMore ==
  ASSUME Nested(vm), NEW m, Level(vm, m)
  PROVE  /\ \A v : Level(vm, Push(m, v)) /\ Level(vm, Raise(m, v))
         /\ \A n : Level(vm, JumpBy(m, n)) /\ Level(vm, Charge(m, n)) /\ Level(vm, Alloc(m, n))
         /\ \A k : Level(vm, KeyFault(m, k))
         /\ \A r : Level(vm, PushResult(m, r))
         /\ \A t : Level(vm, NewTable(m, t))
         /\ \A t, k, v : Level(vm, SetAt(m, t, k, v))
         /\ Level(vm, TypeError(m))
<1>1. Good(m)
  BY DEF Level
<1>2. \A r : Level(m, r) => Level(vm, r)
  BY LevelTwice
<1>3. \A v : Level(vm, Push(m, v)) /\ Level(vm, Raise(m, v))
  BY <1>1, <1>2, PushLevel, RaiseLevel
<1>4. \A n : Level(vm, JumpBy(m, n)) /\ Level(vm, Charge(m, n)) /\ Level(vm, Alloc(m, n))
  BY <1>1, <1>2, JumpLevel, ChargeLevel, AllocLevel
<1>5. \A k : Level(vm, KeyFault(m, k))
  BY <1>1, <1>2, KeyFaultLevel
<1>6. \A r : Level(vm, PushResult(m, r))
  BY <1>1, <1>2, ResultLevel
<1>7. \A t : Level(vm, NewTable(m, t))
  BY <1>1, <1>2, NewTableLevel
<1>8. \A t, k, v : Level(vm, SetAt(m, t, k, v))
  BY <1>1, <1>2, SetAtLevel
<1>9. Level(vm, TypeError(m))
  BY <1>1, <1>2, TypeErrorLevel
<1>10. QED
  BY <1>3, <1>4, <1>5, <1>6, <1>7, <1>8, <1>9

LEMMA GetTableNested ==
  ASSUME Nested(vm), GetTable
  PROVE  Nested(vm')
<1> DEFINE m == Charge(After(2), TableGet)
           t == ResolveSentinel(Arg(2))
           r == IF ~IsKey(Arg(1)) THEN KeyFault(m, Arg(1))
                ELSE IF ~IsKind(t, TableKind) THEN TypeError(m)
                ELSE Push(m, Get(m.heap[t[2]], Arg(1)))
<1>1. Level(vm, m)
  BY ChargedAfter
<1>2. Step(2, r)
  BY DEF GetTable
<1> HIDE DEF m, t
<1>3. Level(vm, r)
  BY <1>1, OnceMore
<1> HIDE DEF r
<1>4. QED
  BY <1>2, <1>3, StepNested

LEMMA GetFieldNested ==
  ASSUME Nested(vm), GetField
  PROVE  Nested(vm')
<1> DEFINE m   == Charge(After(1), TableGet)
           t   == ResolveSentinel(Arg(1))
           key == Constant(Here.n)
           method == Get(m.heap[StringModule], key)
           r   == IF IsKind(t, StringKind)
                    THEN IF method = Nil THEN Raise(m, Text("no method")) ELSE Push(m, method)
                  ELSE IF ~IsKind(t, TableKind) THEN TypeError(m)
                  ELSE Push(m, Get(m.heap[t[2]], key))
<1>1. Level(vm, m)
  BY ChargedAfter
<1>2. Step(1, r)
  BY DEF GetField
<1> HIDE DEF m, t, key, method
<1>3. Level(vm, r)
  BY <1>1, OnceMore
<1> HIDE DEF r
<1>4. QED
  BY <1>2, <1>3, StepNested

LEMMA SetTableNested ==
  ASSUME Nested(vm), SetTable
  PROVE  Nested(vm')
<1>1. Level(vm, After(2)) /\ Level(vm, After(3))
  BY AfterLevel
<1>2. \A t, k, v : Level(vm, SetAt(After(2), t, k, v)) /\ Level(vm, SetAt(After(3), t, k, v))
  BY <1>1, OnceMore
<1>3. \A k : Level(vm, KeyFault(After(3), k))
  BY <1>1, OnceMore
<1>4. \E n, m : Step(n, m) /\ Level(vm, m)
  BY <1>2, <1>3 DEF SetTable
<1>5. QED
  BY <1>4, StepNested

LEMMA OperateNested ==
  ASSUME Nested(vm), Operate
  PROVE  Nested(vm')
<1> DEFINE m == Charge(After(1), 1)
           r == CASE IsKind(Arg(1), StringKind) -> Push(m, IntVal(Len(Arg(1)[2])))
                  [] IsKind(Arg(1), TableKind) -> Push(m, IntVal(Length(m.heap[Arg(1)[2]])))
                  [] OTHER -> TypeError(m)
<1>1. Level(vm, After(1)) /\ Level(vm, After(2)) /\ Level(vm, m)
  BY AfterLevel, ChargedAfter
<1>2. \/ \E v : Step(2, PushResult(After(2), v)) \/ Step(1, PushResult(After(1), v))
                                               \/ Step(1, Push(After(1), v))
      \/ Step(1, r)
  BY DEF Operate
<1> HIDE DEF m
<1>3. Level(vm, r)
  BY <1>1, OnceMore
<1> HIDE DEF r
<1>4. \A v : /\ Level(vm, PushResult(After(2), v)) /\ Level(vm, PushResult(After(1), v))
            /\ Level(vm, Push(After(1), v))
  BY <1>1, OnceMore
<1>5. QED
  BY <1>2, <1>3, <1>4, StepNested

LEMMA ConcatNested ==
  ASSUME Nested(vm), Concat
  PROVE  Nested(vm')
<1>1. ASSUME NEW n, NEW len PROVE Level(vm, Alloc(Charge(After(n), len), 24 + len))
  BY ChargedAfter, OnceMore
<1>2. \A n, len, r : Level(vm, Push(Alloc(Charge(After(n), len), 24 + len), r))
  BY <1>1, OnceMore
<1>3. \A n, r : Level(vm, PushResult(After(n), r))
  BY AfterLevel, OnceMore
<1>4. \E n, len, r, v, b :
        Step(n, IF b THEN PushResult(After(n), r)
                ELSE Push(Alloc(Charge(After(n), len), 24 + len), v))
  BY DEF Concat
<1>5. PICK n, len, r, v, b :
        Step(n, IF b THEN PushResult(After(n), r)
                ELSE Push(Alloc(Charge(After(n), len), 24 + len), v))
  BY <1>4
<1> DEFINE m == IF b THEN PushResult(After(n), r)
                ELSE Push(Alloc(Charge(After(n), len), 24 + len), v)
<1>6. Level(vm, m)
  BY <1>2, <1>3
<1>7. Step(n, m)
  BY <1>5
<1> HIDE DEF m
<1>8. QED
  BY <1>6, <1>7, StepNested

LEMMA JumpNested ==
  ASSUME Nested(vm), Jump
  PROVE  Nested(vm')
<1>1. Level(vm, Fetched) /\ Level(vm, After(1))
  BY FetchedLevel, AfterLevel
<1>2. \A n : Level(vm, JumpBy(Fetched, n)) /\ Level(vm, JumpBy(After(1), n))
  BY <1>1, OnceMore
<1>3. \E n, m : Step(n, m) /\ Level(vm, m)
  <2>1. CASE \E n : Step(0, JumpBy(Fetched, n))
    BY <1>2, <2>1
  <2>2. CASE Step(1, IF Taken(Here.op, Arg(1)) THEN JumpBy(After(1), Here.n) ELSE After(1))
    <3>1. Level(vm, IF Taken(Here.op, Arg(1)) THEN JumpBy(After(1), Here.n) ELSE After(1))
      BY <1>1, <1>2
    <3>2. QED
      BY <2>2, <3>1
  <2>3. CASE Step(0, IF Taken(Here.op, Arg(1)) THEN JumpBy(Fetched, Here.n) ELSE Fetched)
    <3>1. Level(vm, IF Taken(Here.op, Arg(1)) THEN JumpBy(Fetched, Here.n) ELSE Fetched)
      BY <1>1, <1>2
    <3>2. QED
      BY <2>3, <3>1
  <2>4. QED
    BY <2>1, <2>2, <2>3 DEF Jump
<1>4. QED
  BY <1>3, StepNested

LEMMA ExecCallNested ==
  ASSUME Nested(vm), ExecCall
  PROVE  Nested(vm')
<1> DEFINE n    == Here.n
           paid == Charge(Fetched, FunctionCall)
           m    == Pop(paid, n + 1)
           f    == ResolveSentinel(Arg(n + 1))
           called == CASE IsKind(f, BuiltinKind)  -> CallBuiltin(m, f[2], Args(n), FALSE)
                       [] IsKind(f, FunctionKind) -> PushCallFrame(m, f, Args(n))
                       [] OTHER -> Raise(m, Text("attempt to call"))
           r == IF paid.fault # "none" THEN paid
                ELSE IF DepthExceeded(paid) THEN Raise(paid, Text("call depth exceeded"))
                ELSE IF m.fault # "none" THEN m
                ELSE called
<1>1. Becomes(r)
  BY DEF ExecCall
<1>2. Level(vm, paid) /\ Good(paid)
  BY FetchedLevel, OnceMore DEF Level
<1> HIDE DEF paid
<1>3. Level(paid, m)
  BY <1>2, PopLevel
<1> HIDE DEF m
<1>4. Nested(paid) /\ Nested(m) /\ Len(m.frames) = Len(paid.frames)
  BY <1>2, <1>3, LevelNested DEF Level
<1>5. Nested(Raise(paid, Text("call depth exceeded"))) /\ Nested(Raise(m, Text("attempt to call")))
  BY <1>4, RaiseLevel, LevelNested DEF Nested
<1>6. Nested(CallBuiltin(m, f[2], Args(n), FALSE))
  BY <1>4, CallBuiltinNested DEF InPcall
<1>7. ASSUME ~DepthExceeded(paid) PROVE Nested(PushCallFrame(m, f, Args(n)))
  <2>1. /\ Len(m.frames) \in Nat /\ MaxCallDepth \in Nat /\ Comparators(m) \in Nat
    BY <1>4, GoodNumbers DEF Nested
  <2>2. ~(Len(m.frames) >= MaxCallDepth)
    BY <1>4, <1>7 DEF DepthExceeded
  <2>3. Len(m.frames) + 1 <= MaxCallDepth + Comparators(m)
    BY <2>1, <2>2
  <2>4. QED
    BY <1>4, <2>3, PushCallFrameNested
<1> HIDE DEF f, n
<1>8. Nested(r)
  BY <1>4, <1>5, <1>6, <1>7
<1> HIDE DEF r
<1>9. QED
  BY <1>1, <1>8, BecomesNested

LEMMA ExecPCallNested ==
  ASSUME Nested(vm), ExecPCall
  PROVE  Nested(vm')
<1> DEFINE n    == Here.n
           paid == Charge(Fetched, PcallSetup)
           m    == Pop(paid, n + 1)
           f    == ResolveSentinel(Arg(n + 1))
           failed(v) == Push(Push(m, FalseVal), v)
           called == CASE IsKind(f, BuiltinKind) ->
                            CallBuiltin(PcallEntry(m), f[2], Args(n), TRUE)
                       [] ~IsKind(f, FunctionKind) /\ ~IsKind(f, BuiltinKind) ->
                            failed(Text("type error"))
                       [] OTHER -> IF DepthExceeded(m) THEN failed(Text("call depth exceeded"))
                                   ELSE PushCallFrame(PcallEntry(m), f, Args(n))
           r == IF paid.fault # "none" THEN paid ELSE IF m.fault # "none" THEN m ELSE called
<1>1. Becomes(r)
  BY DEF ExecPCall
<1>2. Level(vm, paid) /\ Good(paid)
  BY FetchedLevel, OnceMore DEF Level
<1> HIDE DEF paid
<1>3. Level(paid, m) /\ Nested(paid)
  BY <1>2, PopLevel, LevelNested
<1>4. Nested(m)
  BY <1>3, LevelNested
<1> HIDE DEF m
<1>5. ASSUME NEW v PROVE Nested(failed(v))
  <2>1. Nested(Push(m, FalseVal))
    BY <1>4, PushLevel, LevelNested DEF Nested
  <2>2. QED
    BY <2>1, PushLevel, LevelNested DEF Nested
<1>6. Nested(CallBuiltin(PcallEntry(m), f[2], Args(n), TRUE))
  BY <1>4, PcallEntryNested, CallBuiltinNested DEF InPcall
<1>7. ASSUME ~DepthExceeded(m) PROVE Nested(PushCallFrame(PcallEntry(m), f, Args(n)))
  <2>1. /\ Nested(PcallEntry(m)) /\ PcallEntry(m).frames = m.frames
        /\ Comparators(PcallEntry(m)) >= Comparators(m)
    BY <1>4, PcallEntryNested
  <2>2. /\ Len(m.frames) \in Nat /\ MaxCallDepth \in Nat /\ Comparators(m) \in Nat
        /\ Comparators(PcallEntry(m)) \in Nat
    BY <1>4, <2>1, GoodNumbers DEF Nested
  <2>3. ~(Len(m.frames) >= MaxCallDepth)
    BY <1>7 DEF DepthExceeded
  <2>4. Len(PcallEntry(m).frames) + 1 <= MaxCallDepth + Comparators(PcallEntry(m))
    BY <2>1, <2>2, <2>3
  <2>5. QED
    BY <2>1, <2>4, PushCallFrameNested
<1> HIDE DEF f, n, failed
<1>8. Nested(r)
  BY <1>3, <1>4, <1>5, <1>6, <1>7
<1> HIDE DEF r
<1>9. QED
  BY <1>1, <1>8, BecomesNested

LEMMA ExecRetNested ==
  ASSUME Nested(vm), ExecRet
  PROVE  Nested(vm')
<1> DEFINE m == Charge(Fetched, FunctionReturn)
           v == IF Here.n = 0 THEN Nil ELSE Arg(Here.n)
           r == IF m.fault # "none" THEN m ELSE Return(Pop(m, Here.n), v)
<1>1. Becomes(r)
  BY DEF ExecRet
<1>2. Level(vm, m) /\ Good(m)
  BY FetchedLevel, OnceMore DEF Level
<1> HIDE DEF m, v
<1>3. Nested(m)
  BY <1>2, LevelNested
<1>4. Nested(Pop(m, Here.n))
  BY <1>2, <1>3, PopLevel, LevelNested
<1>5. Nested(Return(Pop(m, Here.n), v))
  BY <1>4, ReturnNested
<1>6. Nested(r)
  BY <1>3, <1>5
<1> HIDE DEF r
<1>7. QED
  BY <1>1, <1>6, BecomesNested

LEMMA FallOffNested ==
  ASSUME Nested(vm), FallOff
  PROVE  Nested(vm')
BY ReturnNested, BecomesNested DEF FallOff

LEMMA MakeClosureNested ==
  ASSUME Nested(vm), MakeClosure
  PROVE  Nested(vm')
<1> DEFINE with(a, stack, cells) == [a EXCEPT !.stack = stack, !.cells = cells]
           r(n, stack, cells, refused, e, v) ==
             IF Alloc(Fetched, n).fault # "none" THEN Alloc(Fetched, n)
             ELSE IF refused THEN Raise(with(Alloc(Fetched, n), stack, cells), e)
             ELSE Push(with(Alloc(Fetched, n), stack, cells), v)
<1>1. ASSUME NEW n, NEW stack, NEW cells, NEW refused, NEW e, NEW v
      PROVE  Level(vm, r(n, stack, cells, refused, e, v))
  <2> DEFINE paid == Alloc(Fetched, n)
  <2>1. Level(vm, paid)
    BY FetchedLevel, OnceMore
  <2> HIDE DEF paid
  <2>2. Level(paid, with(paid, stack, cells))
    BY <2>1, Untouched DEF Level, Good, Fields
  <2> HIDE DEF with
  <2>3. Level(vm, with(paid, stack, cells))
    BY <2>1, <2>2, LevelTwice
  <2>4. /\ Level(vm, Push(with(paid, stack, cells), v))
        /\ Level(vm, Raise(with(paid, stack, cells), e))
    BY <2>3, OnceMore
  <2>5. QED
    BY <2>1, <2>4 DEF paid
<1>2. \E n, stack, cells, refused, e, v : Step(0, r(n, stack, cells, refused, e, v))
  BY Zenon DEF MakeClosure
<1> HIDE DEF r
<1>3. QED
  BY <1>1, <1>2, StepNested

LEMMA ExecToolCallNested ==
  ASSUME Nested(vm), ExecToolCall
  PROVE  Nested(vm')
<1> DEFINE called(a) == [After(2) EXCEPT !.tools = Append(@, [args |-> Arg(1), answer |-> a])]
           paid(a)   == Charge(called(a), ToolCallBase)
           r(a) == IF ~IsKind(Arg(2), StringKind) \/ ~IsKind(Arg(1), TableKind)
                     THEN TypeError(After(2))
                   ELSE IF ~a.ok THEN Raise(called(a), Text("tool error"))
                   ELSE IF paid(a).fault # "none" THEN paid(a) ELSE NewTable(paid(a), a.table)
<1>1. Level(vm, After(2))
  BY AfterLevel
<1>2. ASSUME NEW a PROVE Level(After(2), called(a))
  BY <1>1, Untouched DEF Level, Good, Fields
<1>3. \E a : Step(2, r(a))
  BY DEF ExecToolCall
<1> HIDE DEF called
<1>4. ASSUME NEW a PROVE Level(vm, r(a))
  <2>1. Level(vm, called(a))
    BY <1>1, <1>2, LevelTwice
  <2>2. Level(vm, paid(a)) /\ Level(vm, Raise(called(a), Text("tool error")))
    BY <2>1, OnceMore
  <2> HIDE DEF paid
  <2>3. Level(vm, NewTable(paid(a), a.table)) /\ Level(vm, TypeError(After(2)))
    BY <1>1, <2>2, OnceMore
  <2>4. QED
    BY <2>2, <2>3
<1> HIDE DEF r
<1>5. QED
  BY <1>3, <1>4, StepNested

LEMMA ExecLogNested ==
  ASSUME Nested(vm), ExecLog
  PROVE  Nested(vm')
<1> DEFINE msg  == ToLuaString(Arg(1))
           paid == Charge(After(1), LogBase + Len(msg))
           with == [paid EXCEPT !.logs = Append(@, msg)]
           r    == IF paid.fault # "none" THEN paid ELSE with
<1>1. Step(1, r)
  BY DEF ExecLog
<1>2. Level(vm, paid)
  BY ChargedAfter
<1> HIDE DEF paid
<1>3. Level(paid, with)
  BY <1>2, Untouched DEF Level, Good, Fields
<1> HIDE DEF with
<1>4. Level(vm, with)
  BY <1>2, <1>3, LevelTwice
<1>5. Level(vm, r)
  BY <1>2, <1>4
<1> HIDE DEF r
<1>6. QED
  BY <1>1, <1>5, StepNested

LEMMA ExecErrorNested ==
  ASSUME Nested(vm), ExecError
  PROVE  Nested(vm')
<1>1. Level(vm, Raise(Charge(After(1), ErrorRaise), Arg(1)))
  BY ChargedAfter, OnceMore
<1>2. QED
  BY <1>1, StepNested DEF ExecError

LEMMA IterInitNested ==
  ASSUME Nested(vm), IterInit
  PROVE  Nested(vm')
<1> DEFINE a      == Arg(1)[2]
           sorted == Here.op = "IterInitSorted"
           keys   == SortedKeys(vm.heap[a])
           paid   == Charge(After(1), IF sorted THEN SortGas(Len(keys)) ELSE 1)
           empty  == IF sorted THEN keys = << >> ELSE Get(vm.heap[a], IntKey(1)) = Nil
           handle == IF sorted THEN Handle("sorted", keys, 0, a) ELSE Handle("array", << >>, 1, a)
           r      == IF ~IsKind(Arg(1), TableKind) THEN TypeError(After(1))
                     ELSE IF empty THEN JumpBy(paid, Here.n)
                     ELSE Push(paid, handle)
<1>1. Step(1, r)
  BY DEF IterInit
<1>2. Level(vm, paid) /\ Level(vm, After(1))
  BY ChargedAfter, AfterLevel
<1> HIDE DEF paid, handle, empty
<1>3. Level(vm, r)
  BY <1>2, OnceMore
<1> HIDE DEF r
<1>4. QED
  BY <1>1, <1>3, StepNested

LEMMA IterNextNested ==
  ASSUME Nested(vm), IterNext
  PROVE  Nested(vm')
<1> DEFINE h     == Last(vm.stack)[2]
           off   == Drop(Fetched, 1)
           key   == IF h.kind = "sorted" THEN h.keys[h.index + 1] ELSE IntKey(h.index)
           value == Get(vm.heap[h.table], key)
           over  == IF h.kind = "sorted" THEN h.index >= Len(h.keys)
                    ELSE Get(vm.heap[h.table], IntKey(h.index)) = Nil
           paid  == Charge(off, IF h.kind = "sorted" THEN IterSortedStep ELSE IterArrayStep)
           moved == Handle(h.kind, h.keys, h.index + 1, h.table)
           r     == IF ~IsHandle(Last(vm.stack)) THEN Raise(Fetched, Text("expected handle"))
                    ELSE IF over THEN JumpBy(off, Here.n)
                    ELSE Push(Push(Push(paid, moved), key), value)
<1>1. Step(0, r)
  BY DEF IterNext
<1>2. Level(Fetched, off)
  BY FetchedLevel, DropLevel
<1>3. Level(vm, off)
  BY <1>2, FetchedLevel, LevelTwice
<1> HIDE DEF off
<1>4. Level(vm, paid)
  BY <1>3, OnceMore
<1> HIDE DEF h, key, value, over, paid, moved
<1>5. Level(vm, Push(paid, moved))
  BY <1>4, OnceMore
<1>6. Level(vm, Push(Push(paid, moved), key))
  BY <1>5, OnceMore
<1>7. Level(vm, Push(Push(Push(paid, moved), key), value))
  BY <1>6, OnceMore
<1>8. Level(vm, JumpBy(off, Here.n)) /\ Level(vm, Raise(Fetched, Text("expected handle")))
  BY <1>3, FetchedLevel, OnceMore
<1>9. Level(vm, r)
  BY <1>7, <1>8
<1> HIDE DEF r
<1>10. QED
  BY <1>1, <1>9, StepNested

-----------------------------------------------------------------------------

LEMMA VmInitNested ==
  ASSUME VmInit
  PROVE  Nested(vm)
<1> DEFINE frame == [proto |-> 0, pc |-> 1, base |-> 0, upvalues |-> << >>]
<1>1. DOMAIN vm = Fields /\ vm.frames = <<frame>> /\ vm.inner = << >>
  BY DEF VmInit, Fields
<1> HIDE DEF frame
<1>2. IsSeq(vm.frames) /\ Len(vm.frames) = 1
  <2>1. IsSeq(<<frame>>) /\ Len(<<frame>>) = 1
    BY DEF IsSeq
  <2>2. QED
    BY <1>1, <2>1
<1>3. IsSeq(vm.inner) /\ Len(vm.inner) = 0
  BY <1>1, SeqEmpty
<1>4. WellNested(vm.inner)
  BY <1>3 DEF WellNested
<1>5. Deep(vm)
  BY <1>2, <1>3, SortsFacts, MachineAssumption DEF Deep, Comparators
<1>6. QED
  BY <1>1, <1>2, <1>3, <1>4, <1>5 DEF Nested, Good

LEMMA VmNextNested ==
  ASSUME Nested(vm), VmNext
  PROVE  Nested(vm')
BY Push1Nested, PopTopNested, StoreNested, MakeTableNested, GetTableNested, GetFieldNested,
   SetTableNested, OperateNested, ConcatNested, JumpNested, ExecCallNested, ExecPCallNested,
   ExecRetNested, FallOffNested, MakeClosureNested, ExecToolCallNested, ExecLogNested,
   ExecErrorNested, IterInitNested, IterNextNested
   DEF VmNext

(* The inductive invariant. *)
VmNested == Nested(vm)

(* The depth of the call stack is limited, but for the frames of           *)
(* comparators (max_call_depth, checked by exec_call and exec_pcall): for  *)
(* every program the interpreter is given, verified or not, every limit of *)
(* depth and of gas, whatever tools answer.                                *)
THEOREM DepthIsLimited == Spec => []DepthLimited
<1>1. Init => VmNested
  BY VmInitNested DEF Init, VmNested
<1>2. VmNested /\ [Next]_vars => VmNested'
  <2> SUFFICES ASSUME Nested(vm), [Next]_vars PROVE Nested(vm')
    BY DEF VmNested
  <2>1. CASE VmNext
    BY <2>1, VmNextNested
  <2>2. CASE UNCHANGED vm
    BY <2>2
  <2>3. QED
    BY <2>1, <2>2 DEF Next, Terminating, vars
<1>3. VmNested => DepthLimited
  BY DEF VmNested, Nested, Deep, DepthLimited
<1>4. QED
  BY <1>1, <1>2, <1>3, PTL DEF Spec
=============================================================================
