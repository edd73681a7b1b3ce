----------------------------- MODULE TableProofs -----------------------------
(***************************************************************************)
(* Proofs about MeteredTable: the layout and the accounts of a table hold  *)
(* for every size, key and value, whatever the operations and the limits.  *)
(***************************************************************************)
EXTENDS MeteredTable, Induction

-----------------------------------------------------------------------------
(* The numbers of the meters.                                              *)

LEMMA Pow2Recursion ==
  /\ Pow2 \in [Nat -> Nat] /\ Pow2[0] = 1
  /\ \A k \in Nat \ {0} : Pow2[k] = 2 * Pow2[k - 1]
<1> DEFINE step == [k \in Nat |-> [x \in Nat |-> 2 * x]]
           F(g) == [k \in Nat |-> IF k = 0 THEN 1 ELSE 2 * g[k - 1]]
           pow == CHOOSE g : g = F(g)
<1>1. \E f : UnrollsOnNat(f, Nat, 1, step)
  <2>1. \A n \in Nat : IsStep(Nat, step, n)
    BY DEF IsStep
  <2> HIDE DEF step
  <2>2. QED
    BY <2>1, RecursionOnNat
<1>2. PICK f \in [Nat -> Nat] : f[0] = 1 /\ \A k \in Nat \ {0} : f[k] = step[k][f[k - 1]]
  BY <1>1 DEF UnrollsOnNat
<1>3. \A k \in Nat \ {0} : f[k] = 2 * f[k - 1]
  <2>1. \A k \in Nat \ {0} : k - 1 \in Nat /\ f[k - 1] \in Nat
    OBVIOUS
  <2>2. QED
    BY <1>2, <2>1
<1>4. f = F(f)
  BY <1>2, <1>3
<1>5. pow = F(pow)
  <2> HIDE DEF F
  <2>1. QED
    BY <1>4
<1>6. Pow2 = pow
  BY DEF Pow2
<1> HIDE DEF pow
<1>7. Pow2[0] = 1 /\ \A k \in Nat \ {0} : Pow2[k] = 2 * Pow2[k - 1]
  BY <1>5, <1>6
<1>8. Pow2 = [k \in Nat |-> Pow2[k]]
  BY <1>5, <1>6
<1> DEFINE T == {k \in Nat : Pow2[k] \in Nat}
<1>9. 0 \in T /\ T \in SUBSET Nat
  BY <1>7
<1>10. ASSUME NEW k \in T PROVE k + 1 \in T
  <2>1. k + 1 \in Nat \ {0} /\ (k + 1) - 1 = k
    OBVIOUS
  <2>2. Pow2[k + 1] = 2 * Pow2[k]
    BY <1>7, <2>1
  <2>3. QED
    BY <2>1, <2>2
<1>11. T = Nat
  <2> HIDE DEF T
  <2>1. QED
    BY <1>9, <1>10, NatInd
<1>12. \A k \in Nat : Pow2[k] \in Nat
  BY <1>11
<1> HIDE DEF T
<1>13. QED
  BY <1>7, <1>8, <1>12

LEMMA Pow2Exceeds == \A k \in Nat : Pow2[k] > k
<1> DEFINE T == {k \in Nat : Pow2[k] > k}
<1>1. 0 \in T
  BY Pow2Recursion
<1>2. ASSUME NEW k \in T PROVE k + 1 \in T
  <2>1. k + 1 \in Nat \ {0} /\ (k + 1) - 1 = k
    OBVIOUS
  <2>2. Pow2[k + 1] = 2 * Pow2[k] /\ Pow2[k] \in Nat /\ Pow2[k] > k
    BY Pow2Recursion, <2>1
  <2>3. QED
    BY <2>1, <2>2
<1>3. T \in SUBSET Nat
  OBVIOUS
<1>4. T = Nat
  <2> HIDE DEF T
  <2>1. QED
    BY <1>1, <1>2, <1>3, NatInd
<1>5. QED
  BY <1>4

(* The least power of two, from the first-th on, that reaches n. *)
LEMMA FirstPower ==
  ASSUME NEW n \in Nat, NEW first \in Nat, first <= n
  PROVE  \E k \in first..n : Pow2[k] >= n /\ (k = first \/ Pow2[k - 1] < n)
<1> DEFINE T == {k \in Nat : k >= first /\ Pow2[k] >= n}
<1>1. n \in T
  BY Pow2Exceeds, Pow2Recursion
<1>2. PICK k \in T : \A j \in T : k <= j
  <2>1. T \in SUBSET Nat
    OBVIOUS
  <2> HIDE DEF T
  <2>2. QED
    BY <1>1, <2>1, LeastNat
<1>3. k \in first..n
  BY <1>1, <1>2
<1>4. k = first \/ Pow2[k - 1] < n
  <2> SUFFICES ASSUME k # first PROVE Pow2[k - 1] < n
    OBVIOUS
  <2>1. k - 1 \in Nat /\ k - 1 >= first /\ ~(k <= k - 1)
    BY <1>3
  <2>2. ~(Pow2[k - 1] >= n)
    BY <1>2, <2>1
  <2>3. Pow2[k - 1] \in Nat
    BY <2>1, Pow2Recursion
  <2>4. QED
    BY <2>2, <2>3
<1>5. QED
  BY <1>3, <1>4

(* The capacity keeps n entries within three quarters of it.               *)
LEMMA CapacitySuffices ==
  ASSUME NEW n \in Nat
  PROVE  CapacityFor(n) \in Nat /\ 3 * CapacityFor(n) >= 4 * n
<1>1. CASE n = 0
  BY <1>1 DEF CapacityFor
<1>2. CASE n # 0
  <2> DEFINE threshold == (4 * n + 2) \div 3
             Fits(p) == p >= threshold /\ (p = 4 \/ p < 2 * threshold)
             Powers == {Pow2[k] : k \in 2..(threshold + 2)}
  <2>1. threshold \in Nat /\ threshold >= 2 /\ 3 * threshold >= 4 * n
    BY <1>2
  <2> HIDE DEF threshold
  <2>2. PICK k \in 2..threshold : Pow2[k] >= threshold /\ (k = 2 \/ Pow2[k - 1] < threshold)
    BY <2>1, FirstPower
  <2>3. k \in Nat /\ k \in 2..(threshold + 2) /\ Pow2[k] \in Nat /\ k - 1 \in Nat
    BY <2>1, Pow2Recursion
  <2>4. k = 2 => Pow2[k] = 4
    <3>1. Pow2[1] = 2 * Pow2[0] /\ Pow2[2] = 2 * Pow2[1] /\ Pow2[0] = 1
      BY Pow2Recursion
    <3>2. QED
      BY <3>1
  <2>5. k # 2 => Pow2[k] < 2 * threshold
    <3>1. Pow2[k] = 2 * Pow2[k - 1] /\ Pow2[k - 1] \in Nat
      BY <2>3, Pow2Recursion
    <3>2. QED
      BY <2>1, <2>2, <3>1
  <2>6. Pow2[k] \in Powers /\ Fits(Pow2[k])
    BY <2>2, <2>3, <2>4, <2>5
  <2>7. CapacityFor(n) = CHOOSE p \in Powers : Fits(p)
    BY <1>2 DEF CapacityFor, threshold
  <2>8. CapacityFor(n) \in Powers /\ Fits(CapacityFor(n))
    BY <2>6, <2>7
  <2>9. Powers \subseteq Nat
    BY <2>1, Pow2Recursion
  <2>10. CapacityFor(n) \in Nat /\ CapacityFor(n) >= threshold
    BY <2>8, <2>9
  <2> HIDE DEF Powers, Fits
  <2>11. QED
    BY <2>1, <2>10
<1>3. QED
  BY <1>1, <1>2

LEMMA SortGasIsNat == ASSUME NEW n \in Nat PROVE SortGas(n) \in Nat
<1> DEFINE N == n + 1
<1>1. CeilLog2(N) \in Nat
  <2>1. CASE n = 0
    BY <2>1 DEF CeilLog2
  <2>2. CASE n # 0
    <3>1. N \in Nat /\ 1 <= N /\ N > 1
      BY <2>2
    <3> HIDE DEF N
    <3>2. PICK k \in 0..N : Pow2[k] >= N /\ (k = 0 \/ Pow2[k - 1] < N)
      BY <3>1, FirstPower
    <3>3. k # 0
      BY <3>1, <3>2, Pow2Recursion
    <3>4. k \in 1..N /\ Pow2[k] >= N /\ Pow2[k - 1] < N
      BY <3>2, <3>3
    <3>5. CeilLog2(N) = CHOOSE j \in 1..N : Pow2[j] >= N /\ Pow2[j - 1] < N
      BY <3>1 DEF CeilLog2
    <3>6. CeilLog2(N) \in 1..N
      BY <3>4, <3>5
    <3>7. QED
      BY <3>6
  <2>3. QED
    BY <2>1, <2>2
<1>2. SortGas(n) = n * CeilLog2(N)
  BY DEF SortGas
<1> HIDE DEF N
<1>3. QED
  BY <1>1, <1>2

-----------------------------------------------------------------------------
(* Keys.                                                                   *)

LEMMA KeyShapes ==
  /\ \A k \in LuaKeys : /\ k[1] \in {IntegerKind, StringKind, BooleanKind}
                        /\ k[1] = IntegerKind => k[2] \in Int /\ k = IntKey(k[2])
                        /\ k[1] = BooleanKind => k[2] \in {0, 1} /\ k = <<BooleanKind, k[2]>>
                        /\ k[1] = StringKind =>
                             k[2] \in Seq(Range(Pieces)) /\ k = <<StringKind, k[2]>>
  /\ \A i \in Int : IntKey(i) \in LuaKeys /\ IntKey(i)[1] = IntegerKind /\ IntKey(i)[2] = i
BY DEF LuaKeys, IntKey, IntVal, IntegerKind, StringKind, BooleanKind

(* The integer keys from a to b. *)
KeysBetween(a, b) == {IntKey(i) : i \in a..b}

LEMMA KeysBetweenCount ==
  ASSUME NEW a \in Int, NEW b \in Int, a <= b + 1
  PROVE  IsFiniteSet(KeysBetween(a, b)) /\ Cardinality(KeysBetween(a, b)) = b - a + 1
<1> DEFINE f == [i \in a..b |-> IntKey(i)]
<1>1. IsFiniteSet(a..b) /\ Cardinality(a..b) = IF a > b THEN 0 ELSE b - a + 1
  BY FS_Interval
<1>2. \A i, j \in a..b : IntKey(i) = IntKey(j) => i = j
  BY KeyShapes
<1>3. f \in Bijection(a..b, KeysBetween(a, b))
  BY <1>2 DEF Bijection, Injection, IsInjective, Surjection, KeysBetween
<1>4. ExistsBijection(a..b, KeysBetween(a, b))
  BY <1>3 DEF ExistsBijection
<1>5. /\ IsFiniteSet(KeysBetween(a, b))
      /\ Cardinality(KeysBetween(a, b)) = Cardinality(a..b)
  BY <1>1, <1>4, FS_Bijection
<1>6. QED
  BY <1>1, <1>5

-----------------------------------------------------------------------------
(* The tables a program can build.                                         *)

HashParts == UNION {[D -> Values] : D \in {D \in SUBSET LuaKeys : IsFiniteSet(D)}}

LEMMA HashPartIs ==
  ASSUME NEW h
  PROVE  h \in HashParts <=>
           /\ IsFiniteSet(DOMAIN h) /\ DOMAIN h \subseteq LuaKeys
           /\ h \in [DOMAIN h -> Values]
<1>1. ASSUME h \in HashParts
      PROVE  /\ IsFiniteSet(DOMAIN h) /\ DOMAIN h \subseteq LuaKeys
             /\ h \in [DOMAIN h -> Values]
  <2>1. PICK D \in SUBSET LuaKeys : IsFiniteSet(D) /\ h \in [D -> Values]
    BY <1>1 DEF HashParts
  <2>2. DOMAIN h = D
    BY <2>1
  <2>3. QED
    BY <2>1, <2>2
<1>2. ASSUME IsFiniteSet(DOMAIN h), DOMAIN h \subseteq LuaKeys, h \in [DOMAIN h -> Values]
      PROVE  h \in HashParts
  BY <1>2 DEF HashParts
<1>3. QED
  BY <1>1, <1>2

Rows == [array : Seq(Values), hash : HashParts, entries : Nat, capacity : Nat]

(* The array part is the longest run of keys from 1. *)
Longest(t) == \A i \in 1..Len(t.array) + 1 : IntKey(i) \notin DOMAIN t.hash

Counted(t) == t.entries = Len(t.array) + Cardinality(DOMAIN t.hash)

Covered(t) == 4 * Cardinality(DOMAIN t.hash) <= 3 * t.capacity

GoodTables == {t \in Rows : Longest(t) /\ Counted(t) /\ Covered(t)}

(* What the cases of an assignment need to know of a table. *)
LEMMA GoodTableIs ==
  ASSUME NEW t \in GoodTables
  PROVE  /\ t \in Rows /\ Longest(t) /\ Counted(t) /\ Covered(t)
         /\ t.array \in Seq(Values) /\ Len(t.array) \in Nat
         /\ Length(t) = Len(t.array)
         /\ t.array = [i \in 1..Len(t.array) |-> t.array[i]]
         /\ t.entries \in Nat /\ t.capacity \in Nat
         /\ IsFiniteSet(DOMAIN t.hash) /\ DOMAIN t.hash \subseteq LuaKeys
         /\ t.hash \in [DOMAIN t.hash -> Values]
         /\ Cardinality(DOMAIN t.hash) \in Nat
<1>1. t \in Rows /\ Longest(t) /\ Counted(t) /\ Covered(t)
  BY DEF GoodTables
<1>2. /\ t.array \in Seq(Values) /\ t.hash \in HashParts
      /\ t.entries \in Nat /\ t.capacity \in Nat
  BY <1>1 DEF Rows
<1>3. /\ IsFiniteSet(DOMAIN t.hash) /\ DOMAIN t.hash \subseteq LuaKeys
      /\ t.hash \in [DOMAIN t.hash -> Values]
  BY <1>2, HashPartIs
<1>4. Cardinality(DOMAIN t.hash) \in Nat
  BY <1>3, FS_CardinalityType
<1>5. Length(t) = Len(t.array) /\ Len(t.array) \in Nat
  BY <1>2 DEF Length
<1>6. t.array = [i \in 1..Len(t.array) |-> t.array[i]]
  BY <1>2
<1>7. QED
  BY <1>1, <1>2, <1>3, <1>4, <1>5, <1>6

LEMMA EmptyIsGood == EmptyTable \in GoodTables
<1>1. << >> \in HashParts
  <2>1. DOMAIN << >> = {}
    OBVIOUS
  <2>2. IsFiniteSet({})
    BY FS_EmptySet
  <2>3. << >> \in [{} -> Values]
    OBVIOUS
  <2>4. QED
    BY <2>1, <2>2, <2>3, HashPartIs
<1>2. Cardinality(DOMAIN << >>) = 0 /\ DOMAIN << >> = {}
  BY FS_EmptySet
<1>3. << >> \in Seq(Values) /\ Len(<< >>) = 0
  OBVIOUS
<1>4. QED
  BY <1>1, <1>2, <1>3 DEF EmptyTable, GoodTables, Rows, Longest, Counted, Covered

(* An element leaves a list and those after it move down. *)
LEMMA RemoveAtIs ==
  ASSUME NEW V, NEW s \in Seq(V), NEW i \in 1..Len(s)
  PROVE  /\ RemoveAt(s, i) \in Seq(V)
         /\ RemoveAt(s, i) = [j \in 1..Len(s) - 1 |-> IF j < i THEN s[j] ELSE s[j + 1]]
<1> DEFINE a == SubSeq(s, 1, i - 1)
           b == SubSeq(s, i + 1, Len(s))
<1>1. a \in Seq(V) /\ Len(a) = i - 1 /\ \A j \in 1..i - 1 : a[j] = s[j]
  OBVIOUS
<1>2. b \in Seq(V) /\ Len(b) = Len(s) - i /\ \A j \in 1..Len(s) - i : b[j] = s[i + j]
  OBVIOUS
<1>3. RemoveAt(s, i) = a \o b
  BY DEF RemoveAt
<1> HIDE DEF a, b
<1>4. a \o b \in Seq(V)
  BY <1>1, <1>2
<1>5. Len(a \o b) = Len(s) - 1
  <2>1. a \in Seq(V) /\ b \in Seq(V)
    BY <1>1, <1>2
  <2>2. Len(a \o b) = Len(a) + Len(b)
    BY <2>1
  <2>3. QED
    BY <1>1, <1>2, <2>2
<1>6. ASSUME NEW j \in 1..Len(s) - 1
      PROVE  (a \o b)[j] = IF j < i THEN s[j] ELSE s[j + 1]
  <2>1. CASE j < i
    <3>1. j \in 1..Len(a)
      BY <1>1, <2>1
    <3>2. (a \o b)[j] = a[j]
      BY <1>1, <1>2, <3>1
    <3>3. QED
      BY <1>1, <2>1, <3>2
  <2>2. CASE ~(j < i)
    <3>1. j - (i - 1) \in 1..Len(b) /\ j > Len(a) /\ j <= Len(a) + Len(b)
      BY <1>1, <1>2, <2>2
    <3>2. (a \o b)[j] = b[j - Len(a)]
      BY <1>1, <1>2, <3>1
    <3>3. j - Len(a) = j - (i - 1) /\ i + (j - (i - 1)) = j + 1
      BY <1>1
    <3>4. QED
      BY <1>2, <2>2, <3>1, <3>2, <3>3
  <2>3. QED
    BY <2>1, <2>2
<1> DEFINE r == a \o b
<1>7. r \in Seq(V) /\ Len(r) = Len(s) - 1
  BY <1>4, <1>5
<1>8. \A j \in 1..Len(s) - 1 : r[j] = IF j < i THEN s[j] ELSE s[j + 1]
  BY <1>6
<1> HIDE DEF r
<1>9. r = [j \in 1..Len(s) - 1 |-> r[j]]
  BY <1>7
<1>10. QED
  BY <1>3, <1>7, <1>8, <1>9 DEF r

-----------------------------------------------------------------------------
(* The cases of an assignment.                                             *)

LEMMA RemoveElement ==
  ASSUME NEW t \in GoodTables, NEW k \in LuaKeys, InArray(t, k)
  PROVE  /\ Rawremove(t, k) \in GoodTables
         /\ Rawremove(t, k) =
              [t EXCEPT !.array = [j \in 1..Length(t) - 1 |->
                                     IF j < k[2] THEN t.array[j] ELSE t.array[j + 1]],
                        !.entries = @ - 1]
<1> DEFINE a == RemoveAt(t.array, k[2])
           u == [t EXCEPT !.array = a, !.entries = @ - 1]
<1>1. /\ t \in Rows /\ Longest(t) /\ Counted(t) /\ Covered(t)
      /\ t.array \in Seq(Values) /\ Len(t.array) \in Nat
      /\ Length(t) = Len(t.array)
      /\ t.entries \in Nat /\ Cardinality(DOMAIN t.hash) \in Nat
  BY GoodTableIs
<1>2. k[2] \in 1..Len(t.array)
  BY <1>1 DEF InArray
<1>3. /\ a \in Seq(Values)
      /\ a = [j \in 1..Len(t.array) - 1 |-> IF j < k[2] THEN t.array[j] ELSE t.array[j + 1]]
  BY <1>1, <1>2, RemoveAtIs
<1>4. Len(a) = Len(t.array) - 1
  <2>1. Len(t.array) - 1 \in Nat
    BY <1>1, <1>2
  <2> HIDE DEF a
  <2>2. QED
    BY <1>3, <2>1
<1>5. Rawremove(t, k) = u
  BY DEF Rawremove
<1> HIDE DEF a
<1>6. u.array = a /\ u.hash = t.hash /\ u.entries = t.entries - 1 /\ u.capacity = t.capacity
  BY <1>1 DEF Rows
<1>7. t.entries - 1 \in Nat
  BY <1>1, <1>2 DEF Counted
<1>8. u \in Rows
  BY <1>1, <1>3, <1>7 DEF Rows
<1> HIDE DEF u
<1>9. Longest(u)
  BY <1>1, <1>2, <1>4, <1>6 DEF Longest
<1>10. Counted(u) /\ Covered(u)
  BY <1>1, <1>4, <1>6 DEF Counted, Covered
<1>11. u \in GoodTables
  BY <1>8, <1>9, <1>10 DEF GoodTables
<1>12. QED
  BY <1>1, <1>3, <1>5, <1>11 DEF u

LEMMA RemovePosition ==
  ASSUME NEW t \in GoodTables, NEW i \in 1..Length(t)
  PROVE  /\ Rawremove(t, IntKey(i)) \in GoodTables
         /\ Rawremove(t, IntKey(i)) =
              [t EXCEPT !.array = [j \in 1..Length(t) - 1 |->
                                     IF j < i THEN t.array[j] ELSE t.array[j + 1]],
                        !.entries = @ - 1]
<1> DEFINE k == IntKey(i)
<1>1. k \in LuaKeys /\ k[2] = i /\ InArray(t, k)
  <2>1. i \in Int
    BY GoodTableIs
  <2>2. QED
    BY <2>1, KeyShapes DEF InArray
<1> HIDE DEF k
<1>2. /\ Rawremove(t, k) \in GoodTables
      /\ Rawremove(t, k) =
           [t EXCEPT !.array = [j \in 1..Length(t) - 1 |->
                                  IF j < k[2] THEN t.array[j] ELSE t.array[j + 1]],
                     !.entries = @ - 1]
  BY <1>1, RemoveElement
<1>3. QED
  BY <1>1, <1>2 DEF k

LEMMA RemoveHashKey ==
  ASSUME NEW t \in GoodTables, NEW k \in DOMAIN t.hash, ~InArray(t, k)
  PROVE  /\ Rawremove(t, k) \in GoodTables
         /\ Rawremove(t, k) = [t EXCEPT !.hash = Without(t.hash, k), !.entries = @ - 1]
<1> DEFINE h == Without(t.hash, k)
           u == [t EXCEPT !.hash = h, !.entries = @ - 1]
<1>1. /\ t \in Rows /\ Longest(t) /\ Counted(t) /\ Covered(t)
      /\ Len(t.array) \in Nat
      /\ t.entries \in Nat /\ t.capacity \in Nat /\ Cardinality(DOMAIN t.hash) \in Nat
      /\ IsFiniteSet(DOMAIN t.hash) /\ DOMAIN t.hash \subseteq LuaKeys
      /\ t.hash \in [DOMAIN t.hash -> Values]
  BY GoodTableIs
<1>2. DOMAIN h = DOMAIN t.hash \ {k} /\ h \in [DOMAIN h -> Values]
  BY <1>1 DEF Without
<1>3. IsFiniteSet(DOMAIN h) /\ Cardinality(DOMAIN h) = Cardinality(DOMAIN t.hash) - 1
  BY <1>1, <1>2, FS_RemoveElement
<1>4. h \in HashParts
  BY <1>1, <1>2, <1>3, HashPartIs
<1>5. Rawremove(t, k) = u
  BY DEF Rawremove
<1> HIDE DEF h
<1>6. u.array = t.array /\ u.hash = h /\ u.entries = t.entries - 1 /\ u.capacity = t.capacity
  BY <1>1 DEF Rows
<1>7. Cardinality(DOMAIN h) \in Nat
  BY <1>3, FS_CardinalityType
<1>8. t.entries - 1 \in Nat
  BY <1>1, <1>3, <1>7 DEF Counted
<1>9. u \in Rows
  BY <1>1, <1>4, <1>8 DEF Rows
<1> HIDE DEF u
<1>10. Longest(u) /\ Counted(u) /\ Covered(u)
  BY <1>1, <1>2, <1>3, <1>6, <1>7 DEF Longest, Counted, Covered
<1>11. u \in GoodTables
  BY <1>9, <1>10 DEF GoodTables
<1>12. QED
  BY <1>5, <1>11 DEF u, h

(* A key that is there gets another value. *)
LEMMA ReplaceElement ==
  ASSUME NEW t \in GoodTables, NEW i \in 1..Length(t), NEW v \in Values
  PROVE  [t EXCEPT !.array[i] = v] \in GoodTables
<1> DEFINE a == [t.array EXCEPT ![i] = v]
           u == [t EXCEPT !.array = a]
<1>1. /\ t \in Rows /\ Longest(t) /\ Counted(t) /\ Covered(t)
      /\ t.array \in Seq(Values) /\ Length(t) = Len(t.array)
  BY GoodTableIs
<1>2. a \in Seq(Values) /\ Len(a) = Len(t.array)
  BY <1>1
<1> HIDE DEF a
<1>3. /\ u.array = a /\ u.hash = t.hash /\ u.entries = t.entries
      /\ u.capacity = t.capacity /\ u \in Rows
  BY <1>1, <1>2 DEF Rows
<1> HIDE DEF u
<1>4. u \in GoodTables
  BY <1>1, <1>2, <1>3 DEF GoodTables, Longest, Counted, Covered
<1>5. [t EXCEPT !.array[i] = v] = u
  BY <1>1 DEF u, a, Rows
<1>6. QED
  BY <1>4, <1>5

LEMMA ReplaceInHash ==
  ASSUME NEW t \in GoodTables, NEW k \in DOMAIN t.hash, NEW v \in Values
  PROVE  [t EXCEPT !.hash[k] = v] \in GoodTables
<1> DEFINE h == [t.hash EXCEPT ![k] = v]
           u == [t EXCEPT !.hash = h]
<1>1. /\ t \in Rows /\ Longest(t) /\ Counted(t) /\ Covered(t)
      /\ IsFiniteSet(DOMAIN t.hash) /\ DOMAIN t.hash \subseteq LuaKeys
      /\ t.hash \in [DOMAIN t.hash -> Values]
  BY GoodTableIs
<1>2. DOMAIN h = DOMAIN t.hash /\ h \in [DOMAIN h -> Values]
  BY <1>1
<1>3. h \in HashParts
  BY <1>1, <1>2, HashPartIs
<1> HIDE DEF h
<1>4. /\ u.array = t.array /\ u.hash = h /\ u.entries = t.entries
      /\ u.capacity = t.capacity /\ u \in Rows
  BY <1>1, <1>3 DEF Rows
<1> HIDE DEF u
<1>5. u \in GoodTables
  BY <1>1, <1>2, <1>4 DEF GoodTables, Longest, Counted, Covered
<1>6. [t EXCEPT !.hash[k] = v] = u
  BY <1>1 DEF u, h, Rows
<1>7. QED
  BY <1>5, <1>6

(* A new key goes to the hash part. *)
LEMMA InsertNew ==
  ASSUME NEW t \in GoodTables, NEW k \in LuaKeys, NEW v \in Values,
         k \notin DOMAIN t.hash, ~InArray(t, k), k # IntKey(Length(t) + 1)
  PROVE  /\ Insert(t, k, v) \in GoodTables
         /\ Insert(t, k, v).array = t.array
         /\ Insert(t, k, v).hash =
              [j \in DOMAIN t.hash \cup {k} |-> IF j = k THEN v ELSE t.hash[j]]
         /\ Insert(t, k, v).entries = t.entries + 1
         /\ Insert(t, k, v).capacity >= t.capacity
<1> DEFINE h == [j \in DOMAIN t.hash \cup {k} |-> IF j = k THEN v ELSE t.hash[j]]
           needed == CapacityFor(Cardinality(DOMAIN h))
           c == IF needed > t.capacity THEN needed ELSE t.capacity
           u == [t EXCEPT !.hash = h, !.entries = @ + 1, !.capacity = c]
<1>1. /\ t \in Rows /\ Longest(t) /\ Counted(t) /\ Covered(t)
      /\ Len(t.array) \in Nat /\ Length(t) = Len(t.array)
      /\ t.entries \in Nat /\ t.capacity \in Nat /\ Cardinality(DOMAIN t.hash) \in Nat
      /\ IsFiniteSet(DOMAIN t.hash) /\ DOMAIN t.hash \subseteq LuaKeys
      /\ t.hash \in [DOMAIN t.hash -> Values]
  BY GoodTableIs
<1>2. DOMAIN h = DOMAIN t.hash \cup {k} /\ h \in [DOMAIN h -> Values]
  BY <1>1
<1>3. IsFiniteSet(DOMAIN h) /\ Cardinality(DOMAIN h) = Cardinality(DOMAIN t.hash) + 1
  BY <1>1, <1>2, FS_AddElement
<1>4. h \in HashParts
  BY <1>1, <1>2, <1>3, HashPartIs
<1>5. Insert(t, k, v) = u
  BY <1>1 DEF Insert, Rows
<1> HIDE DEF h
<1>6. needed \in Nat /\ 3 * needed >= 4 * Cardinality(DOMAIN h)
  BY <1>1, <1>3, CapacitySuffices
<1> HIDE DEF needed
<1>7. c \in Nat /\ c >= t.capacity /\ c >= needed
  BY <1>1, <1>6
<1> HIDE DEF c
<1>8. /\ u.array = t.array /\ u.hash = h /\ u.entries = t.entries + 1
      /\ u.capacity = c
  BY <1>1 DEF Rows
<1>9. u \in Rows
  <2>1. t.entries + 1 \in Nat
    BY <1>1
  <2>2. QED
    BY <1>1, <1>4, <1>7, <2>1 DEF Rows
<1> HIDE DEF u
<1>10. Longest(u)
  <2>1. \A i \in 1..Len(t.array) + 1 : IntKey(i) # k
    <3> SUFFICES ASSUME NEW i \in 1..Len(t.array) + 1, IntKey(i) = k PROVE FALSE
      OBVIOUS
    <3>1. k[1] = IntegerKind /\ k[2] = i
      BY KeyShapes
    <3>2. i = Len(t.array) + 1
      BY <1>1, <3>1 DEF InArray
    <3>3. QED
      BY <1>1, <3>2
  <2>2. QED
    BY <1>1, <1>2, <1>8, <2>1 DEF Longest
<1>11. Counted(u)
  BY <1>1, <1>3, <1>8 DEF Counted
<1>12. Covered(u)
  <2>1. 4 * Cardinality(DOMAIN h) <= 3 * c
    BY <1>1, <1>3, <1>6, <1>7
  <2>2. QED
    BY <1>8, <2>1 DEF Covered
<1>13. u \in GoodTables
  BY <1>9, <1>10, <1>11, <1>12 DEF GoodTables
<1>14. QED
  BY <1>5, <1>7, <1>8, <1>13 DEF h

(* Some key after the array part is missing from the hash part. *)
LEMMA RunEndsInHash ==
  ASSUME NEW D \in SUBSET LuaKeys, IsFiniteSet(D), NEW n \in Nat
  PROVE  \E m \in n..n + Cardinality(D) :
           (\A i \in n + 1..m : IntKey(i) \in D) /\ IntKey(m + 1) \notin D
<1> DEFINE size == Cardinality(D)
           T == {m \in Nat : m >= n /\ IntKey(m + 1) \notin D}
           f == [i \in n + 1..n + size + 1 |-> IntKey(i)]
<1>1. size \in Nat
  BY FS_CardinalityType
<1> HIDE DEF size
<1>2. PICK x \in n + 1..n + size + 1 : IntKey(x) \notin D
  <2> SUFFICES ASSUME \A i \in n + 1..n + size + 1 : IntKey(i) \in D PROVE FALSE
    OBVIOUS
  <2>1. \A i, j \in n + 1..n + size + 1 : IntKey(i) = IntKey(j) => i = j
    BY <1>1, KeyShapes
  <2>2. f \in Injection(n + 1..n + size + 1, D)
    BY <2>1 DEF Injection, IsInjective
  <2>3. Cardinality(n + 1..n + size + 1) <= size
    BY <2>2, FS_Injection DEF size
  <2>4. Cardinality(n + 1..n + size + 1) =
          IF n + 1 > n + size + 1 THEN 0 ELSE (n + size + 1) - (n + 1) + 1
    <3>1. n + 1 \in Int /\ n + size + 1 \in Int
      BY <1>1
    <3>2. QED
      BY <3>1, FS_Interval
  <2>5. QED
    BY <1>1, <2>3, <2>4
<1>3. x - 1 \in T
  BY <1>1, <1>2
<1>4. PICK m \in T : \A j \in T : m <= j
  <2>1. T \in SUBSET Nat
    OBVIOUS
  <2> HIDE DEF T
  <2>2. QED
    BY <1>3, <2>1, LeastNat
<1>5. m \in n..n + size
  BY <1>1, <1>2, <1>3, <1>4
<1>6. ASSUME NEW i \in n + 1..m PROVE IntKey(i) \in D
  <2>1. i - 1 \in Nat /\ i - 1 >= n /\ ~(m <= i - 1) /\ (i - 1) + 1 = i
    BY <1>5
  <2>2. i - 1 \notin T
    BY <1>4, <2>1
  <2>3. QED
    BY <2>1, <2>2
<1>7. IntKey(m + 1) \notin D
  BY <1>4
<1>8. QED
  BY <1>5, <1>6, <1>7 DEF size

(* Consolidation makes the array part the longest run again. *)
LEMMA ConsolidateAll ==
  ASSUME NEW t \in Rows, Counted(t), Covered(t),
         \A i \in 1..Len(t.array) : IntKey(i) \notin DOMAIN t.hash
  PROVE  /\ Consolidate(t) \in GoodTables
         /\ Consolidate(t).entries = t.entries /\ Consolidate(t).capacity = t.capacity
         /\ Len(Consolidate(t).array) >= Len(t.array)
         /\ \A i \in 1..Len(t.array) : Consolidate(t).array[i] = t.array[i]
         /\ \A i \in Len(t.array) + 1..Len(Consolidate(t).array) :
              IntKey(i) \in DOMAIN t.hash /\ Consolidate(t).array[i] = t.hash[IntKey(i)]
         /\ DOMAIN Consolidate(t).hash =
              DOMAIN t.hash \ KeysBetween(Len(t.array) + 1, Len(Consolidate(t).array))
         /\ \A k \in DOMAIN Consolidate(t).hash : Consolidate(t).hash[k] = t.hash[k]
<1> DEFINE n == Len(t.array)
           D == DOMAIN t.hash
           IsEnd(m) == (\A i \in n + 1..m : IntKey(i) \in D) /\ IntKey(m + 1) \notin D
           end == CHOOSE m \in n..n + Cardinality(D) : IsEnd(m)
           a == [i \in 1..end |-> IF i <= n THEN t.array[i] ELSE t.hash[IntKey(i)]]
           E == {j \in D : ~(j[1] = IntegerKind /\ j[2] \in 1..end)}
           h == [k \in E |-> t.hash[k]]
           u == [t EXCEPT !.array = a, !.hash = h]
<1>1. /\ t.array \in Seq(Values) /\ t.hash \in HashParts
      /\ t.entries \in Nat /\ t.capacity \in Nat /\ n \in Nat
  BY DEF Rows
<1>2. IsFiniteSet(D) /\ D \subseteq LuaKeys /\ t.hash \in [D -> Values]
  BY <1>1, HashPartIs
<1>3. Cardinality(D) \in Nat
  BY <1>2, FS_CardinalityType
<1>4. end \in n..n + Cardinality(D) /\ IsEnd(end)
  <2>1. \E m \in n..n + Cardinality(D) : IsEnd(m)
    BY <1>1, <1>2, RunEndsInHash
  <2> HIDE DEF IsEnd
  <2>2. QED
    BY <2>1
<1>5. Consolidate(t) = u
  BY DEF Consolidate, Length
<1> HIDE DEF end
<1>6. end \in Nat /\ end >= n
  BY <1>1, <1>3, <1>4
<1>7. a \in Seq(Values) /\ Len(a) = end
  <2>1. \A i \in 1..end : a[i] \in Values
    <3>1. \A i \in 1..n : t.array[i] \in Values
      BY <1>1
    <3>2. \A i \in n + 1..end : t.hash[IntKey(i)] \in Values
      BY <1>2, <1>4
    <3>3. \A i \in 1..end : i \in 1..n \/ i \in n + 1..end
      BY <1>1, <1>6
    <3>4. QED
      BY <1>1, <3>1, <3>2, <3>3
  <2> DEFINE b == a
  <2>2. b \in [1..end -> Values]
    BY <2>1
  <2> HIDE DEF b
  <2>3. b \in Seq(Values) /\ Len(b) = end
    BY <1>6, <2>2
  <2>4. QED
    BY <2>3 DEF b
<1>8. E = D \ KeysBetween(n + 1, end)
  <2>1. ASSUME NEW k \in D PROVE k \in E <=> k \notin KeysBetween(n + 1, end)
    <3>1. CASE k[1] = IntegerKind
      <4>1. k[2] \in Int /\ k = IntKey(k[2])
        BY <1>2, <3>1, KeyShapes
      <4>2. ~(k[2] \in 1..n)
        BY <4>1
      <4>3. k \in KeysBetween(n + 1, end) <=> k[2] \in n + 1..end
        BY <1>1, <1>6, <4>1, KeyShapes DEF KeysBetween
      <4>4. k[2] \in 1..end <=> k[2] \in n + 1..end
        BY <1>1, <1>6, <4>1, <4>2
      <4>5. QED
        BY <3>1, <4>3, <4>4
    <3>2. CASE k[1] # IntegerKind
      BY <1>1, <1>6, <3>2, KeyShapes DEF KeysBetween
    <3>3. QED
      BY <3>1, <3>2
  <2>2. QED
    BY <2>1
<1> HIDE DEF E
<1>9. KeysBetween(n + 1, end) \subseteq D
  BY <1>4 DEF KeysBetween
<1>10. DOMAIN h = E /\ E \subseteq D /\ h \in [E -> Values]
  BY <1>2, <1>8
<1>11. IsFiniteSet(E) /\ Cardinality(E) = Cardinality(D) - (end - n)
  <2> DEFINE K == KeysBetween(n + 1, end)
  <2>1. IsFiniteSet(K) /\ Cardinality(K) = end - (n + 1) + 1
    <3>1. n + 1 \in Int /\ end \in Int /\ n + 1 <= end + 1
      BY <1>1, <1>6
    <3>2. QED
      BY <3>1, KeysBetweenCount
  <2>2. IsFiniteSet(E)
    BY <1>2, <1>10, FS_Subset
  <2>3. Cardinality(E \cup K) = Cardinality(E) + Cardinality(K) - Cardinality(E \cap K)
    BY <2>1, <2>2, FS_Union
  <2>4. E \cup K = D /\ E \cap K = {}
    BY <1>8, <1>9
  <2>5. Cardinality(E \cap K) = 0
    BY <2>4, FS_EmptySet
  <2>6. Cardinality(E) \in Nat
    BY <2>2, FS_CardinalityType
  <2> HIDE DEF K
  <2>7. Cardinality(D) = Cardinality(E) + Cardinality(K)
    <3>1. Cardinality(D) = Cardinality(E) + Cardinality(K) - Cardinality(E \cap K)
      BY <2>3, <2>4
    <3>2. Cardinality(K) \in Int
      BY <1>1, <1>6, <2>1
    <3>3. QED
      BY <2>5, <2>6, <3>1, <3>2
  <2>8. Cardinality(K) = end - n
    BY <1>1, <1>6, <2>1
  <2>9. Cardinality(E) = Cardinality(D) - (end - n)
    BY <1>1, <1>6, <2>6, <2>7, <2>8
  <2>10. QED
    BY <2>2, <2>9
<1>12. h \in HashParts
  BY <1>2, <1>10, <1>11, HashPartIs
<1> HIDE DEF a, h
<1>13. u.array = a /\ u.hash = h /\ u.entries = t.entries /\ u.capacity = t.capacity
  BY DEF Rows
<1>14. u \in Rows
  BY <1>1, <1>7, <1>12 DEF Rows
<1> HIDE DEF u
<1>15. Longest(u)
  <2>1. ASSUME NEW i \in 1..end + 1 PROVE IntKey(i) \notin E
    <3>1. CASE i \in 1..n
      BY <1>8, <3>1
    <3>2. CASE i \in n + 1..end
      BY <1>8, <3>2 DEF KeysBetween
    <3>3. CASE i = end + 1
      BY <1>4, <1>8, <3>3
    <3>4. QED
      BY <1>1, <1>6, <3>1, <3>2, <3>3
  <2>2. QED
    BY <1>7, <1>10, <1>13, <2>1 DEF Longest
<1>16. Cardinality(E) \in Nat
  BY <1>11, FS_CardinalityType
<1>17. Counted(u)
  BY <1>1, <1>3, <1>6, <1>7, <1>10, <1>11, <1>13, <1>16 DEF Counted
<1>18. Covered(u)
  BY <1>1, <1>3, <1>6, <1>10, <1>11, <1>13, <1>16 DEF Covered
<1>19. u \in GoodTables
  BY <1>14, <1>15, <1>17, <1>18 DEF GoodTables
<1>20. /\ \A i \in 1..n : a[i] = t.array[i]
       /\ \A i \in n + 1..end : IntKey(i) \in D /\ a[i] = t.hash[IntKey(i)]
  BY <1>1, <1>4, <1>6 DEF a
<1>21. \A k \in E : h[k] = t.hash[k]
  BY DEF h
<1>22. QED
  BY <1>5, <1>6, <1>7, <1>8, <1>10, <1>13, <1>19, <1>20, <1>21

(* A value after the last element, and what follows it in the hash part. *)
LEMMA ExtendByOne ==
  ASSUME NEW t \in GoodTables, NEW v \in Values
  PROVE  /\ Extend(t, v) \in GoodTables
         /\ Extend(t, v).entries = t.entries + 1 /\ Extend(t, v).capacity = t.capacity
         /\ Length(Extend(t, v)) >= Length(t) + 1
         /\ \A i \in 1..Length(t) : Extend(t, v).array[i] = t.array[i]
         /\ Extend(t, v).array[Length(t) + 1] = v
         /\ \A i \in Length(t) + 2..Length(Extend(t, v)) :
              IntKey(i) \in DOMAIN t.hash /\ Extend(t, v).array[i] = t.hash[IntKey(i)]
         /\ DOMAIN Extend(t, v).hash =
              DOMAIN t.hash \ KeysBetween(Length(t) + 2, Length(Extend(t, v)))
         /\ \A k \in DOMAIN Extend(t, v).hash : Extend(t, v).hash[k] = t.hash[k]
<1> DEFINE a == Append(t.array, v)
           u == [t EXCEPT !.array = a, !.entries = @ + 1]
<1>1. /\ t \in Rows /\ Longest(t) /\ Counted(t) /\ Covered(t)
      /\ t.array \in Seq(Values) /\ Len(t.array) \in Nat /\ Length(t) = Len(t.array)
      /\ t.entries \in Nat /\ t.capacity \in Nat /\ Cardinality(DOMAIN t.hash) \in Nat
  BY GoodTableIs
<1>2. /\ a \in Seq(Values) /\ Len(a) = Length(t) + 1 /\ a[Length(t) + 1] = v
      /\ \A i \in 1..Length(t) : a[i] = t.array[i]
  BY <1>1
<1> HIDE DEF a
<1>3. /\ u.array = a /\ u.hash = t.hash /\ u.entries = t.entries + 1
      /\ u.capacity = t.capacity
  BY <1>1 DEF Rows
<1>4. u \in Rows
  <2>1. t.entries + 1 \in Nat
    BY <1>1
  <2>2. QED
    BY <1>1, <1>2, <2>1 DEF Rows
<1>5. Extend(t, v) = Consolidate(u)
  BY <1>1 DEF Extend, a, Rows
<1> HIDE DEF u
<1>6. /\ Counted(u) /\ Covered(u)
      /\ \A i \in 1..Len(u.array) : IntKey(i) \notin DOMAIN u.hash
  <2>1. Counted(u)
    BY <1>1, <1>2, <1>3 DEF Counted
  <2>2. Covered(u)
    BY <1>1, <1>3 DEF Covered
  <2>3. \A i \in 1..Len(u.array) : IntKey(i) \notin DOMAIN u.hash
    BY <1>1, <1>2, <1>3 DEF Longest
  <2>4. QED
    BY <2>1, <2>2, <2>3
<1> DEFINE w == Consolidate(u)
<1>7. /\ w \in GoodTables
      /\ w.entries = u.entries /\ w.capacity = u.capacity
      /\ Len(w.array) >= Len(u.array)
      /\ \A i \in 1..Len(u.array) : w.array[i] = u.array[i]
      /\ \A i \in Len(u.array) + 1..Len(w.array) :
           IntKey(i) \in DOMAIN u.hash /\ w.array[i] = u.hash[IntKey(i)]
      /\ DOMAIN w.hash = DOMAIN u.hash \ KeysBetween(Len(u.array) + 1, Len(w.array))
      /\ \A k \in DOMAIN w.hash : w.hash[k] = u.hash[k]
  BY <1>4, <1>6, ConsolidateAll
<1> HIDE DEF w
<1>8. Length(w) = Len(w.array) /\ Len(u.array) = Length(t) + 1
  BY <1>2, <1>3 DEF Length
<1>9. (Length(t) + 1) + 1 = Length(t) + 2 /\ Length(t) \in Nat
  BY <1>1
<1>10. \A i \in 1..Length(t) : w.array[i] = t.array[i]
  <2>1. \A i \in 1..Length(t) : i \in 1..Length(t) + 1
    BY <1>9
  <2>2. QED
    BY <1>2, <1>3, <1>7, <1>8, <2>1
<1>11. w.array[Length(t) + 1] = v
  <2>1. Length(t) + 1 \in 1..Length(t) + 1
    BY <1>9
  <2>2. QED
    BY <1>2, <1>3, <1>7, <1>8, <2>1
<1>12. w = Extend(t, v)
  BY <1>5 DEF w
<1>13. QED
  BY <1>3, <1>7, <1>8, <1>9, <1>10, <1>11, <1>12

-----------------------------------------------------------------------------
(* An assignment, whatever its case. *)
SetsOne(t, r) ==
  /\ r.table \in GoodTables
  /\ r.error \in {"none", "memory", "runtime"}
  /\ r.inserted <=> r.table.entries > t.entries
  /\ r.inserted => r.table.entries = t.entries + 1
  /\ r.grew <=> r.table.capacity > t.capacity
  /\ r.table.capacity >= t.capacity
  /\ r.grew => r.inserted
  /\ r.error = "runtime" => r.table = t
  /\ t.entries <= MaxEntries /\ r.error # "memory" => r.table.entries <= MaxEntries

LEMMA StoredSets ==
  ASSUME NEW t \in GoodTables, NEW u \in GoodTables,
         \/ u.entries = t.entries /\ u.capacity = t.capacity
         \/ u.entries = t.entries + 1 /\ u.capacity >= t.capacity
  PROVE  SetsOne(t, Stored(t, u)) /\ Stored(t, u).table = u
<1> DEFINE r == Stored(t, u)
<1>1. /\ r.table = u /\ (r.inserted <=> u.entries > t.entries)
      /\ (r.grew <=> u.capacity > t.capacity)
      /\ r.error = IF u.entries > MaxEntries THEN "memory" ELSE "none"
  BY DEF Stored, SetResult
<1>2. t.entries \in Nat /\ t.capacity \in Nat /\ u.entries \in Nat /\ u.capacity \in Nat
  BY GoodTableIs
<1>3. MaxEntries \in Nat
  BY MeteredAssumption
<1> HIDE DEF r
<1>4. SetsOne(t, r)
  BY <1>1, <1>2, <1>3 DEF SetsOne
<1>5. QED
  BY <1>1, <1>4 DEF r

LEMMA RawremoveIs ==
  ASSUME NEW t \in GoodTables, NEW k \in LuaKeys
  PROVE  /\ Rawremove(t, k) \in GoodTables
         /\ Rawremove(t, k).entries <= t.entries /\ Rawremove(t, k).capacity = t.capacity
<1>1. t \in Rows /\ t.entries \in Nat /\ t.capacity \in Nat
  BY GoodTableIs
<1>2. CASE InArray(t, k)
  <2>1. Rawremove(t, k) \in GoodTables
    BY <1>2, RemoveElement
  <2>2. /\ Rawremove(t, k).entries = t.entries - 1
        /\ Rawremove(t, k).capacity = t.capacity
    BY <1>1, <1>2 DEF Rawremove, Rows
  <2>3. QED
    BY <1>1, <2>1, <2>2
<1>3. CASE ~InArray(t, k) /\ k \in DOMAIN t.hash
  <2>1. Rawremove(t, k) \in GoodTables
    BY <1>3, RemoveHashKey
  <2>2. /\ Rawremove(t, k).entries = t.entries - 1
        /\ Rawremove(t, k).capacity = t.capacity
    BY <1>1, <1>3 DEF Rawremove, Rows
  <2>3. QED
    BY <1>1, <2>1, <2>2
<1>4. CASE ~InArray(t, k) /\ k \notin DOMAIN t.hash
  BY <1>1, <1>4 DEF Rawremove
<1>5. QED
  BY <1>2, <1>3, <1>4

(* Where usize holds every positive integer, rawset_tracked goes by the    *)
(* key itself.                                                             *)
LEMMA RawsetWide ==
  ASSUME NEW t \in GoodTables, NEW k \in LuaKeys, NEW v
  PROVE  Rawset(t, k, v) =
           IF k = IntKey(IntMin) THEN SetResult(t, FALSE, FALSE, "runtime")
           ELSE IF v = Nil THEN SetResult(Rawremove(t, k), FALSE, FALSE, "none")
           ELSE IF InArray(t, k) THEN Stored(t, [t EXCEPT !.array[k[2]] = v])
           ELSE IF k = IntKey(Length(t) + 1) THEN Stored(t, Extend(t, v))
           ELSE IF k \in DOMAIN t.hash THEN Stored(t, [t EXCEPT !.hash[k] = v])
           ELSE Stored(t, Insert(t, k, v))
<1> DEFINE n        == Length(t)
           positive == k[1] = IntegerKind /\ k[2] >= 1
           i        == AsUsize(k[2])
<1>1. i = k[2] /\ n \in Nat
  BY GoodTableIs, MeteredAssumption DEF AsUsize
<1>2. k[1] = IntegerKind => k[2] \in Int /\ k = IntKey(k[2])
  BY KeyShapes
<1>3. InArray(t, k) <=> positive /\ i \in 1..n
  BY <1>1, <1>2 DEF InArray
<1>4. k = IntKey(n + 1) <=> positive /\ i = n + 1
  BY <1>1, <1>2, KeyShapes
<1>5. ~(positive /\ i = 0)
  BY <1>1, <1>2
<1>6. Rawset(t, k, v) =
        IF k = IntKey(IntMin) THEN SetResult(t, FALSE, FALSE, "runtime")
        ELSE IF v = Nil THEN SetResult(Rawremove(t, k), FALSE, FALSE, "none")
        ELSE IF positive /\ i = 0 THEN SetResult(t, FALSE, FALSE, "panic")
        ELSE IF positive /\ i \in 1..n THEN Stored(t, [t EXCEPT !.array[i] = v])
        ELSE IF positive /\ i = n + 1 THEN Stored(t, Extend(t, v))
        ELSE IF k \in DOMAIN t.hash THEN Stored(t, [t EXCEPT !.hash[k] = v])
        ELSE Stored(t, Insert(t, k, v))
  BY DEF Rawset
<1> HIDE DEF n, positive, i
<1>7. QED
  BY <1>1, <1>3, <1>4, <1>5, <1>6 DEF n

LEMMA RawsetIs ==
  ASSUME NEW t \in GoodTables, NEW k \in LuaKeys, NEW v \in Values \cup {Nil}
  PROVE  SetsOne(t, Rawset(t, k, v))
<1>1. /\ t \in Rows /\ Length(t) = Len(t.array)
      /\ t.entries \in Nat /\ t.capacity \in Nat
  BY GoodTableIs
<1>2. CASE k = IntKey(IntMin)
  <2>1. Rawset(t, k, v) = SetResult(t, FALSE, FALSE, "runtime")
    BY <1>2, RawsetWide
  <2> DEFINE r == SetResult(t, FALSE, FALSE, "runtime")
  <2>2. r.table = t /\ ~r.inserted /\ ~r.grew /\ r.error = "runtime"
    BY DEF SetResult
  <2> HIDE DEF r
  <2>3. SetsOne(t, r)
    BY <1>1, <2>2 DEF SetsOne
  <2>4. QED
    BY <2>1, <2>3 DEF r
<1>3. CASE k # IntKey(IntMin) /\ v = Nil
  <2>1. Rawset(t, k, v) = SetResult(Rawremove(t, k), FALSE, FALSE, "none")
    BY <1>3, RawsetWide
  <2> DEFINE u == Rawremove(t, k)
  <2>2. u \in GoodTables /\ u.entries <= t.entries /\ u.capacity = t.capacity
    BY RawremoveIs
  <2>3. u.entries \in Nat /\ u.capacity \in Nat /\ MaxEntries \in Nat
    BY <2>2, GoodTableIs, MeteredAssumption
  <2> HIDE DEF u
  <2> DEFINE r == SetResult(u, FALSE, FALSE, "none")
  <2>4. r.table = u /\ ~r.inserted /\ ~r.grew /\ r.error = "none"
    BY DEF SetResult
  <2> HIDE DEF r
  <2>5. SetsOne(t, r)
    BY <1>1, <2>2, <2>3, <2>4 DEF SetsOne
  <2>6. QED
    BY <2>1, <2>5 DEF u, r
<1>4. CASE k # IntKey(IntMin) /\ v # Nil
  <2>0. v \in Values
    BY <1>4
  <2>1. CASE InArray(t, k)
    <3> DEFINE u == [t EXCEPT !.array[k[2]] = v]
    <3>1. u \in GoodTables
      BY <2>0, <2>1, ReplaceElement DEF InArray
    <3>2. u.entries = t.entries /\ u.capacity = t.capacity
      BY <1>1 DEF Rows
    <3>3. Rawset(t, k, v) = Stored(t, u)
      BY <1>4, <2>1, RawsetWide
    <3> HIDE DEF u
    <3>4. QED
      BY <3>1, <3>2, <3>3, StoredSets
  <2>2. CASE ~InArray(t, k) /\ k = IntKey(Length(t) + 1)
    <3> DEFINE u == Extend(t, v)
    <3>1. u \in GoodTables /\ u.entries = t.entries + 1 /\ u.capacity = t.capacity
      BY <2>0, ExtendByOne
    <3>2. u.capacity >= t.capacity
      BY <1>1, <3>1
    <3>3. Rawset(t, k, v) = Stored(t, u)
      BY <1>4, <2>2, RawsetWide
    <3> HIDE DEF u
    <3>4. QED
      BY <3>1, <3>2, <3>3, StoredSets
  <2>3. CASE ~InArray(t, k) /\ k # IntKey(Length(t) + 1) /\ k \in DOMAIN t.hash
    <3> DEFINE u == [t EXCEPT !.hash[k] = v]
    <3>1. u \in GoodTables
      BY <2>0, <2>3, ReplaceInHash
    <3>2. u.entries = t.entries /\ u.capacity = t.capacity
      BY <1>1 DEF Rows
    <3>3. Rawset(t, k, v) = Stored(t, u)
      BY <1>4, <2>3, RawsetWide
    <3> HIDE DEF u
    <3>4. QED
      BY <3>1, <3>2, <3>3, StoredSets
  <2>4. CASE ~InArray(t, k) /\ k # IntKey(Length(t) + 1) /\ k \notin DOMAIN t.hash
    <3> DEFINE u == Insert(t, k, v)
    <3>1. u \in GoodTables /\ u.entries = t.entries + 1 /\ u.capacity >= t.capacity
      BY <2>0, <2>4, InsertNew
    <3>2. Rawset(t, k, v) = Stored(t, u)
      BY <1>4, <2>4, RawsetWide
    <3> HIDE DEF u
    <3>3. QED
      BY <3>1, <3>2, StoredSets
  <2>5. QED
    BY <2>1, <2>2, <2>3, <2>4
<1>5. QED
  BY <1>2, <1>3, <1>4

-----------------------------------------------------------------------------
(* The meters.                                                             *)

Machines ==
  [table : GoodTables, gas : 0..GasLimit, mem : Nat, fault : {"none", "gas", "memory"}]

GoodMachines == {m \in Machines : m.fault = "none" => m.table.entries <= MaxEntries}

(* u comes after m, and unless it failed it has paid for what it stored. *)
Pays(m, u) ==
  /\ u \in GoodMachines
  /\ u.fault = "none" =>
       /\ m.fault = "none"
       /\ u.mem - m.mem >= ArraySlot * (u.table.entries - m.table.entries)
       /\ u.mem - m.mem >= HashSlot * (u.table.capacity - m.table.capacity)

LEMMA GoodMachineIs ==
  ASSUME NEW m \in GoodMachines
  PROVE  /\ m \in Machines /\ m.table \in GoodTables
         /\ m.gas \in 0..GasLimit /\ GasLimit \in Nat /\ MemLimit \in Nat
         /\ m.mem \in Nat /\ m.fault \in {"none", "gas", "memory"}
         /\ m.fault = "none" => m.table.entries <= MaxEntries
         /\ m.table.entries \in Nat /\ m.table.capacity \in Nat
<1>1. m \in Machines /\ (m.fault = "none" => m.table.entries <= MaxEntries)
  BY DEF GoodMachines
<1>2. /\ m.table \in GoodTables /\ m.gas \in 0..GasLimit
      /\ m.mem \in Nat /\ m.fault \in {"none", "gas", "memory"}
  BY <1>1 DEF Machines
<1>3. m.table.entries \in Nat /\ m.table.capacity \in Nat
  BY <1>2, GoodTableIs
<1>4. QED
  BY <1>1, <1>2, <1>3, MeteredAssumption

LEMMA PaysNothing == ASSUME NEW m \in GoodMachines PROVE Pays(m, m)
BY GoodMachineIs DEF Pays, ArraySlot, HashSlot

LEMMA PaysTwice ==
  ASSUME NEW m \in GoodMachines, NEW u, NEW w, Pays(m, u), Pays(u, w)
  PROVE  Pays(m, w)
<1>1. u \in GoodMachines /\ w \in GoodMachines
  BY DEF Pays
<1>2. /\ m.mem \in Nat /\ m.table.entries \in Nat /\ m.table.capacity \in Nat
      /\ u.mem \in Nat /\ u.table.entries \in Nat /\ u.table.capacity \in Nat
      /\ w.mem \in Nat /\ w.table.entries \in Nat /\ w.table.capacity \in Nat
  BY <1>1, GoodMachineIs
<1>3. QED
  BY <1>1, <1>2 DEF Pays, ArraySlot, HashSlot

LEMMA ChargePays ==
  ASSUME NEW m \in GoodMachines, NEW n \in Nat
  PROVE  /\ Pays(m, Charge(m, n)) /\ Charge(m, n).table = m.table
         /\ Charge(m, n).mem = m.mem
<1> DEFINE u == Charge(m, n)
<1>1. /\ m \in Machines /\ m.table \in GoodTables
      /\ m.gas \in 0..GasLimit /\ GasLimit \in Nat /\ m.mem \in Nat
      /\ m.fault \in {"none", "gas", "memory"}
      /\ (m.fault = "none" => m.table.entries <= MaxEntries)
      /\ m.table.entries \in Nat /\ m.table.capacity \in Nat
  BY GoodMachineIs
<1>2. /\ u \in Machines /\ u.table = m.table /\ u.mem = m.mem
      /\ u.fault = "none" => m.fault = "none"
  <2>1. CASE m.fault # "none"
    BY <1>1, <2>1 DEF Charge
  <2>2. CASE m.fault = "none" /\ n > m.gas
    <3>1. u = [m EXCEPT !.gas = 0, !.fault = "gas"]
      BY <2>2 DEF Charge
    <3>2. 0 \in 0..GasLimit
      BY <1>1
    <3> HIDE DEF u
    <3>3. u \in Machines /\ u.table = m.table /\ u.mem = m.mem
      BY <1>1, <3>1, <3>2 DEF Machines
    <3>4. QED
      BY <2>2, <3>3
  <2>3. CASE m.fault = "none" /\ ~(n > m.gas)
    <3>1. u = [m EXCEPT !.gas = m.gas - n]
      BY <1>1, <2>3 DEF Charge, Machines
    <3>2. m.gas - n \in 0..GasLimit
      BY <1>1, <2>3
    <3>3. QED
      BY <1>1, <2>3, <3>1, <3>2 DEF Machines
  <2>4. QED
    BY <2>1, <2>2, <2>3
<1> HIDE DEF u
<1>3. u \in GoodMachines
  BY <1>1, <1>2 DEF GoodMachines
<1>4. Pays(m, u)
  BY <1>1, <1>2, <1>3 DEF Pays, ArraySlot, HashSlot
<1>5. QED
  BY <1>2, <1>4 DEF u

LEMMA AllocIs ==
  ASSUME NEW m \in GoodMachines, NEW n \in Nat
  PROVE  /\ Alloc(m, n) \in GoodMachines /\ Alloc(m, n).table = m.table
         /\ Alloc(m, n).fault = "none" => m.fault = "none" /\ Alloc(m, n).mem = m.mem + n
<1> DEFINE u == Alloc(m, n)
<1>1. /\ m \in Machines /\ m.table \in GoodTables /\ m.mem \in Nat
      /\ m.fault \in {"none", "gas", "memory"}
      /\ (m.fault = "none" => m.table.entries <= MaxEntries)
  BY GoodMachineIs
<1>2. CASE m.fault # "none"
  BY <1>2 DEF Alloc
<1>3. CASE m.fault = "none"
  <2> DEFINE f == IF m.mem + n > MemLimit THEN "memory" ELSE m.fault
  <2>1. m.mem + n \in Nat /\ f \in {"none", "gas", "memory"}
    BY <1>1
  <2>2. u = [m EXCEPT !.mem = m.mem + n, !.fault = f]
    BY <1>1, <1>3 DEF Alloc, Machines
  <2> HIDE DEF f, u
  <2>3. u \in Machines /\ u.table = m.table /\ u.mem = m.mem + n
    BY <1>1, <2>1, <2>2 DEF Machines
  <2>4. u \in GoodMachines
    BY <1>1, <1>3, <2>3 DEF GoodMachines
  <2>5. QED
    BY <1>3, <2>3, <2>4 DEF u
<1>4. QED
  BY <1>2, <1>3

LEMMA SetRawIs ==
  ASSUME NEW m \in GoodMachines, NEW k \in LuaKeys, NEW v \in Values \cup {Nil}
  PROVE  /\ SetRaw(m, k, v) \in GoodMachines
         /\ SetRaw(m, k, v).mem = m.mem
         /\ m.fault # "none" => SetRaw(m, k, v) = m
         /\ m.fault = "none" => SetRaw(m, k, v).table = Rawset(m.table, k, v).table
         /\ SetRaw(m, k, v).fault = "none" =>
              m.fault = "none" /\ Rawset(m.table, k, v).error # "memory"
         /\ m.fault = "none" /\ Rawset(m.table, k, v).error # "memory" =>
              SetRaw(m, k, v).fault = "none"
<1> DEFINE u == SetRaw(m, k, v)
           r == Rawset(m.table, k, v)
<1>1. /\ m \in Machines /\ m.table \in GoodTables /\ m.mem \in Nat
      /\ m.fault \in {"none", "gas", "memory"}
      /\ (m.fault = "none" => m.table.entries <= MaxEntries)
  BY GoodMachineIs
<1>2. /\ r.table \in GoodTables /\ r.error \in {"none", "memory", "runtime"}
      /\ m.table.entries <= MaxEntries /\ r.error # "memory" => r.table.entries <= MaxEntries
  BY <1>1, RawsetIs DEF SetsOne
<1>3. CASE m.fault # "none"
  BY <1>3 DEF SetRaw
<1>4. CASE m.fault = "none"
  <2> DEFINE f == IF r.error = "memory" THEN "memory" ELSE m.fault
  <2>1. f \in {"none", "gas", "memory"}
    BY <1>1
  <2>2. u = [m EXCEPT !.table = r.table, !.fault = f]
    BY <1>1, <1>2, <1>4 DEF SetRaw, Machines
  <2> HIDE DEF u, r
  <2>3. u \in Machines /\ u.table = r.table /\ u.mem = m.mem /\ u.fault = f
    BY <1>1, <1>2, <2>1, <2>2 DEF Machines
  <2>4. u \in GoodMachines
    BY <1>1, <1>2, <1>4, <2>3 DEF GoodMachines
  <2>5. QED
    BY <1>4, <2>3, <2>4 DEF u, r
<1>5. QED
  BY <1>3, <1>4

(* The memory of an entry that is in, on top of whatever else was charged. *)
LEMMA AllocPays ==
  ASSUME NEW m \in GoodMachines, NEW k \in LuaKeys, NEW v \in Values \cup {Nil},
         NEW u \in GoodMachines,
         u.fault = "none" => m.fault = "none",
         m.fault = "none" => u.table = Rawset(m.table, k, v).table,
         u.mem = m.mem,
         Rawset(m.table, k, v).inserted
  PROVE  Pays(m, IF Rawset(m.table, k, v).grew
                 THEN Alloc(u, (Rawset(m.table, k, v).table.capacity - m.table.capacity) * HashSlot)
                 ELSE Alloc(u, ArraySlot))
<1> DEFINE r == Rawset(m.table, k, v)
           n == IF r.grew THEN (r.table.capacity - m.table.capacity) * HashSlot ELSE ArraySlot
           w == Alloc(u, n)
<1>1. m.table \in GoodTables /\ m.mem \in Nat /\ u.mem \in Nat
  BY GoodMachineIs
<1>2. SetsOne(m.table, r)
  BY <1>1, RawsetIs
<1>3. /\ r.table.entries = m.table.entries + 1
      /\ r.table.capacity >= m.table.capacity
      /\ r.grew <=> r.table.capacity > m.table.capacity
      /\ r.table \in GoodTables
  BY <1>2 DEF SetsOne
<1>4. /\ m.table.entries \in Nat /\ m.table.capacity \in Nat
      /\ r.table.entries \in Nat /\ r.table.capacity \in Nat
  BY <1>1, <1>3, GoodTableIs
<1> HIDE DEF r
<1>5. /\ n \in Nat
      /\ n >= ArraySlot * (r.table.entries - m.table.entries)
      /\ n >= HashSlot * (r.table.capacity - m.table.capacity)
  BY <1>3, <1>4 DEF ArraySlot, HashSlot
<1> HIDE DEF n
<1>6. /\ w \in GoodMachines /\ w.table = u.table
      /\ w.fault = "none" => u.fault = "none" /\ w.mem = u.mem + n
  BY <1>5, AllocIs
<1> HIDE DEF w
<1>7. Pays(m, w)
  BY <1>1, <1>4, <1>5, <1>6 DEF Pays, r
<1>8. QED
  BY <1>7 DEF w, n, r

LEMMA SetPaidPays ==
  ASSUME NEW m \in GoodMachines, NEW k \in LuaKeys, NEW v \in Values \cup {Nil}
  PROVE  Pays(m, SetPaid(m, k, v))
<1> DEFINE r == Rawset(m.table, k, v)
           u == SetRaw(m, k, v)
<1>1. /\ u \in GoodMachines /\ u.mem = m.mem
      /\ m.fault # "none" => u = m
      /\ m.fault = "none" => u.table = r.table
      /\ u.fault = "none" => m.fault = "none"
  BY SetRawIs
<1>2. m.table \in GoodTables /\ m.mem \in Nat
  BY GoodMachineIs
<1>3. SetsOne(m.table, r)
  BY <1>2, RawsetIs
<1>4. CASE r.inserted
  <2>1. Pays(m, IF r.grew THEN Alloc(u, (r.table.capacity - m.table.capacity) * HashSlot)
                ELSE Alloc(u, ArraySlot))
    BY <1>1, <1>4, AllocPays
  <2>2. QED
    BY <1>4, <2>1 DEF SetPaid
<1>5. CASE ~r.inserted
  <2>1. SetPaid(m, k, v) = u
    BY <1>5 DEF SetPaid
  <2> HIDE DEF u, r
  <2>2. Pays(m, u)
    <3> SUFFICES ASSUME u.fault = "none"
                 PROVE  /\ 0 >= ArraySlot * (u.table.entries - m.table.entries)
                        /\ 0 >= HashSlot * (u.table.capacity - m.table.capacity)
      BY <1>1, <1>2 DEF Pays
    <3>1. /\ r.table \in GoodTables
          /\ ~(r.table.entries > m.table.entries)
          /\ ~(r.table.capacity > m.table.capacity)
      BY <1>3, <1>5 DEF SetsOne
    <3>2. /\ m.table.entries \in Nat /\ m.table.capacity \in Nat
          /\ r.table.entries \in Nat /\ r.table.capacity \in Nat
      BY <1>2, <3>1, GoodTableIs
    <3>3. u.table = r.table
      BY <1>1
    <3>4. QED
      BY <3>1, <3>2, <3>3 DEF ArraySlot, HashSlot
  <2>3. QED
    BY <2>1, <2>2
<1>6. QED
  BY <1>4, <1>5

LEMMA DoRawsetPays ==
  ASSUME NEW m \in GoodMachines, NEW k \in LuaKeys, NEW v \in Values \cup {Nil}
  PROVE  Pays(m, DoRawset(m, k, v))
<1> DEFINE r == Rawset(m.table, k, v)
           u == SetRaw(m, k, v)
           grown == Charge(Charge(u, TableSetNewKey), r.table.capacity)
           paid == IF ~r.inserted THEN Charge(u, TableSetExisting)
                   ELSE IF r.grew THEN grown
                   ELSE Charge(u, TableSetNewKey)
<1>1. /\ u \in GoodMachines /\ u.mem = m.mem
      /\ m.fault # "none" => u = m
      /\ m.fault = "none" => u.table = r.table
      /\ u.fault = "none" => m.fault = "none" /\ r.error # "memory"
  BY SetRawIs
<1>2. m.table \in GoodTables /\ m.mem \in Nat
  BY GoodMachineIs
<1>3. SetsOne(m.table, r)
  BY <1>2, RawsetIs
<1>4. r.table \in GoodTables /\ r.table.capacity \in Nat
  BY <1>3, GoodTableIs DEF SetsOne
<1>5. TableSetNewKey \in Nat /\ TableSetExisting \in Nat
  BY DEF TableSetNewKey, TableSetExisting
<1> HIDE DEF u, r
<1>6. ASSUME NEW n \in Nat, NEW w \in GoodMachines
      PROVE  /\ Charge(w, n) \in GoodMachines /\ Charge(w, n).table = w.table
             /\ Charge(w, n).mem = w.mem
             /\ Charge(w, n).fault = "none" => w.fault = "none"
  BY ChargePays DEF Pays
<1>7. /\ Charge(u, TableSetNewKey) \in GoodMachines
      /\ Charge(u, TableSetNewKey).table = u.table /\ Charge(u, TableSetNewKey).mem = u.mem
      /\ Charge(u, TableSetNewKey).fault = "none" => u.fault = "none"
  BY <1>1, <1>5, <1>6
<1>8. /\ grown \in GoodMachines /\ grown.table = u.table /\ grown.mem = u.mem
      /\ grown.fault = "none" => u.fault = "none"
  BY <1>4, <1>6, <1>7
<1>9. /\ Charge(u, TableSetExisting) \in GoodMachines
      /\ Charge(u, TableSetExisting).table = u.table
      /\ Charge(u, TableSetExisting).mem = u.mem
      /\ Charge(u, TableSetExisting).fault = "none" => u.fault = "none"
  BY <1>1, <1>5, <1>6
<1> HIDE DEF grown
<1>10. /\ paid \in GoodMachines /\ paid.table = u.table /\ paid.mem = m.mem
       /\ paid.fault = "none" => u.fault = "none"
  BY <1>1, <1>7, <1>8, <1>9
<1>11. DoRawset(m, k, v) =
         IF r.error # "none" THEN u
         ELSE IF ~r.inserted THEN paid
         ELSE IF r.grew THEN Alloc(paid, (r.table.capacity - m.table.capacity) * HashSlot)
         ELSE Alloc(paid, ArraySlot)
  BY DEF DoRawset, r, u, grown
<1> HIDE DEF paid
<1>12. /\ r.table.entries \in Nat /\ m.table.entries \in Nat /\ m.table.capacity \in Nat
  BY <1>2, <1>4, GoodTableIs
<1>13. CASE r.error # "none"
  <2>1. u.fault = "none" => u.table = m.table
    BY <1>1, <1>3, <1>13 DEF SetsOne
  <2>2. Pays(m, u)
    BY <1>1, <1>2, <1>12, <2>1 DEF Pays, ArraySlot, HashSlot
  <2>3. QED
    BY <1>11, <1>13, <2>2
<1>14. CASE r.error = "none" /\ ~r.inserted
  <2>1. /\ ~(r.table.entries > m.table.entries)
        /\ ~(r.table.capacity > m.table.capacity)
    BY <1>3, <1>14 DEF SetsOne
  <2>2. paid.fault = "none" => m.fault = "none" /\ paid.table = r.table
    BY <1>1, <1>10
  <2>3. Pays(m, paid)
    BY <1>2, <1>4, <1>10, <1>12, <2>1, <2>2 DEF Pays, ArraySlot, HashSlot
  <2>4. QED
    BY <1>11, <1>14, <2>3
<1>15. CASE r.error = "none" /\ r.inserted
  <2>1. Pays(m, IF r.grew THEN Alloc(paid, (r.table.capacity - m.table.capacity) * HashSlot)
                ELSE Alloc(paid, ArraySlot))
    BY <1>1, <1>10, <1>15, AllocPays DEF r
  <2>2. QED
    BY <1>11, <1>15, <2>1
<1>16. QED
  BY <1>13, <1>14, <1>15

-----------------------------------------------------------------------------
(* The loops of the table module.                                          *)

(* The machine with other elements in its list. *)
Over(m, a) == [m EXCEPT !.table = [m.table EXCEPT !.array = a]]

LEMMA OverIsGood ==
  ASSUME NEW m \in GoodMachines, NEW a \in Seq(Values), Len(a) = Length(m.table)
  PROVE  /\ Over(m, a) \in GoodMachines /\ Pays(m, Over(m, a))
         /\ Over(m, a).table = [m.table EXCEPT !.array = a]
         /\ Over(m, a).table.array = a /\ Over(m, a).table.hash = m.table.hash
         /\ Over(m, a).fault = m.fault
         /\ \A b : Over(Over(m, a), b) = Over(m, b)
<1> DEFINE t == m.table
           u == [t EXCEPT !.array = a]
           w == Over(m, a)
<1>1. /\ m \in Machines /\ t \in GoodTables /\ m.mem \in Nat
      /\ m.fault = "none" => t.entries <= MaxEntries
      /\ t.entries \in Nat /\ t.capacity \in Nat
  BY GoodMachineIs
<1>2. t \in Rows /\ Longest(t) /\ Counted(t) /\ Covered(t) /\ Length(t) = Len(t.array)
  BY <1>1, GoodTableIs
<1> HIDE DEF t
<1>3. /\ u \in Rows /\ u.array = a /\ u.hash = t.hash /\ u.entries = t.entries
      /\ u.capacity = t.capacity
  BY <1>2 DEF Rows
<1>4. Len(a) = Len(t.array)
  BY <1>2 DEF t
<1> HIDE DEF u
<1>5. u \in GoodTables
  BY <1>2, <1>3, <1>4 DEF GoodTables, Longest, Counted, Covered
<1>6. w = [m EXCEPT !.table = u]
  BY DEF Over, u, t
<1>7. w \in Machines /\ w.table = u /\ w.mem = m.mem /\ w.fault = m.fault
  BY <1>1, <1>5, <1>6 DEF Machines
<1>8. w \in GoodMachines
  BY <1>1, <1>3, <1>7 DEF GoodMachines
<1>9. Pays(m, w)
  <2>1. w.table.entries = m.table.entries /\ w.table.capacity = m.table.capacity
    BY <1>3, <1>7 DEF t
  <2>2. m.table.entries \in Nat /\ m.table.capacity \in Nat
    BY <1>1 DEF t
  <2>3. QED
    BY <1>1, <1>7, <1>8, <2>1, <2>2 DEF Pays, ArraySlot, HashSlot
<1>10. \A b : Over(w, b) = Over(m, b)
  <2>1. \A b : [u EXCEPT !.array = b] = [t EXCEPT !.array = b]
    BY <1>2 DEF u, Rows
  <2>2. \A b : Over(w, b) = [w EXCEPT !.table = [u EXCEPT !.array = b]]
    BY <1>7 DEF Over
  <2>3. \A x : [w EXCEPT !.table = x] = [m EXCEPT !.table = x]
    BY <1>1, <1>6 DEF Machines
  <2>4. QED
    BY <2>1, <2>2, <2>3 DEF Over, t
<1>11. QED
  BY <1>3, <1>6, <1>7, <1>8, <1>9, <1>10 DEF u, t

LEMMA OverItself ==
  ASSUME NEW m \in GoodMachines
  PROVE  Over(m, m.table.array) = m
<1>1. m \in Machines /\ m.table \in Rows
  BY GoodMachineIs, GoodTableIs
<1>2. QED
  BY <1>1 DEF Over, Machines, Rows

(* Storing to an element of a list, whether metered or not. *)
LEMMA SetElement ==
  ASSUME NEW m \in GoodMachines, m.fault = "none",
         NEW i \in 1..Length(m.table), NEW v \in Values
  PROVE  /\ SetRaw(m, IntKey(i), v) = Over(m, [m.table.array EXCEPT ![i] = v])
         /\ SetPaid(m, IntKey(i), v) = Over(m, [m.table.array EXCEPT ![i] = v])
<1> DEFINE t == m.table
           k == IntKey(i)
           u == [t EXCEPT !.array[k[2]] = v]
           r == Rawset(t, k, v)
<1>1. m \in Machines /\ t \in GoodTables /\ t.entries <= MaxEntries /\ t.entries \in Nat
      /\ t.capacity \in Nat
  BY GoodMachineIs
<1>2. t \in Rows /\ Length(t) = Len(t.array) /\ Len(t.array) \in Nat
  BY <1>1, GoodTableIs
<1>3. k[1] = IntegerKind /\ k[2] = i /\ i \in Int
  BY <1>2, KeyShapes
<1>4. k # IntKey(IntMin)
  BY <1>2, <1>3, ValuesAssumption, KeyShapes
<1>5. v # Nil
  BY MeteredAssumption
<1>6. r = Stored(t, u)
  <2>1. InArray(t, k) /\ k \in LuaKeys
    BY <1>1, <1>2, <1>3, MeteredAssumption, KeyShapes DEF InArray
  <2>2. QED
    BY <1>1, <1>4, <1>5, <2>1, RawsetWide
<1>7. u = [t EXCEPT !.array = [t.array EXCEPT ![i] = v]]
  BY <1>2, <1>3 DEF Rows
<1>8. u.entries = t.entries /\ u.capacity = t.capacity
  BY <1>2 DEF Rows
<1> HIDE DEF u
<1>9. /\ r.table = u /\ ~r.inserted /\ r.error = "none"
  <2>1. /\ r.table = u /\ (r.inserted <=> u.entries > t.entries)
        /\ r.error = IF u.entries > MaxEntries THEN "memory" ELSE "none"
    <3> DEFINE w == Stored(t, u)
    <3>1. /\ w.table = u /\ (w.inserted <=> u.entries > t.entries)
          /\ w.error = IF u.entries > MaxEntries THEN "memory" ELSE "none"
      BY DEF Stored, SetResult
    <3> HIDE DEF w, r
    <3>2. r = w
      BY <1>6 DEF w
    <3>3. QED
      BY <3>1, <3>2
  <2> HIDE DEF r
  <2>2. QED
    BY <1>1, <1>8, <2>1, MeteredAssumption
<1> HIDE DEF r
<1>10. SetRaw(m, k, v) = [m EXCEPT !.table = u]
  <2>1. SetRaw(m, k, v) = [m EXCEPT !.table = r.table,
                           !.fault = IF r.error \in {"memory", "panic"} THEN r.error ELSE @]
    BY DEF SetRaw, r
  <2>2. QED
    BY <1>1, <1>9, <2>1 DEF Machines
<1>11. SetPaid(m, k, v) = SetRaw(m, k, v)
  BY <1>9 DEF SetPaid, r
<1>12. QED
  BY <1>7, <1>10, <1>11 DEF Over

-----------------------------------------------------------------------------
(* Sorting.                                                                *)

PlaceIn(s) == [p \in DOMAIN s |-> {q \in DOMAIN s : Precedes(s, q, p)}]

LEMMA PositionsAreOrdered ==
  ASSUME NEW s \in Seq(Values)
  PROVE  IsOrder(DOMAIN s, PlaceIn(s))
<1>1. \A p \in DOMAIN s : /\ p \in Nat /\ s[p][1] = IntegerKind /\ s[p][2] \in Int
                          /\ s[p] = <<s[p][1], s[p][2]>>
  BY MeteredAssumption
<1>2. \A p, q \in DOMAIN s :
        q \in PlaceIn(s)[p] <=> s[q][2] < s[p][2] \/ (s[q][2] = s[p][2] /\ q < p)
  BY <1>1 DEF PlaceIn, Precedes, Before
<1>3. PlaceIn(s) \in [DOMAIN s -> SUBSET DOMAIN s]
  BY DEF PlaceIn
<1> DEFINE D == DOMAIN s
           b == PlaceIn(s)
           x == [p \in D |-> s[p][2]]
<1>4. x \in [D -> Int] /\ D \subseteq Nat
  BY <1>1
<1>5. \A p, q \in D : q \in b[p] <=> x[q] < x[p] \/ (x[q] = x[p] /\ q < p)
  BY <1>2
<1>6. b \in [D -> SUBSET D]
  BY <1>3
<1> HIDE DEF D, b, x
<1>7. IsOrder(D, b)
  BY <1>4, <1>5, <1>6 DEF IsOrder
<1>8. QED
  BY <1>7 DEF D, b

(* The sorted list has the same positions, each filled once.               *)
LEMMA SortedPositions ==
  ASSUME NEW s \in Seq(Values)
  PROVE  \E f \in Bijection(DOMAIN s, DOMAIN s) :
           /\ SortedSeq(s) = [i \in DOMAIN s |-> s[f[i]]]
           /\ \A i, j \in DOMAIN s : i < j => f[i] \in PlaceIn(s)[f[j]]
<1> DEFINE D == DOMAIN s
           n == Len(s)
           place == [p \in D |-> Cardinality(PlaceIn(s)[p])]
           has(i, p) == Cardinality({q \in D : Precedes(s, q, p)}) = i - 1
           f == [i \in D |->
                   CHOOSE p \in D : has(i, p) \/ \A q \in D : ~has(i, q)]
<1>1. D = 1..n /\ n \in Nat
  OBVIOUS
<1>2. IsFiniteSet(D) /\ Cardinality(D) = n
  BY <1>1, FS_Interval
<1>3. IsOrder(D, PlaceIn(s))
  BY PositionsAreOrdered
<1> HIDE DEF D
<1>4. /\ \A k \in D : place[k] \in 0..n - 1
      /\ \A j, k \in D : j \in PlaceIn(s)[k] => place[j] < place[k]
      /\ \A j, k \in D : place[j] = place[k] => j = k
      /\ \A i \in 1..n : \E k \in D : place[k] = i - 1
  BY <1>2, <1>3, Places
<1>5. SortedSeq(s) = [i \in D |-> s[f[i]]]
  BY DEF SortedSeq, D
<1>6. \A i \in D : f[i] \in D /\ place[f[i]] = i - 1
  <2>1. \A p \in D : place[p] = Cardinality({q \in D : Precedes(s, q, p)})
    BY DEF PlaceIn, D
  <2> HIDE DEF place
  <2> SUFFICES ASSUME NEW i \in D PROVE f[i] \in D /\ place[f[i]] = i - 1
    OBVIOUS
  <2>2. \E p \in D : place[p] = i - 1
    BY <1>1, <1>4
  <2>3. \E p \in D : has(i, p)
    BY <2>1, <2>2
  <2> HIDE DEF has
  <2>4. f[i] \in D /\ (has(i, f[i]) \/ \A q \in D : ~has(i, q))
    BY <2>3
  <2>5. f[i] \in D /\ has(i, f[i])
    BY <2>3, <2>4
  <2> HIDE DEF f
  <2>6. QED
    BY <2>1, <2>5 DEF has
<1> HIDE DEF place, has
<1>7. f \in [D -> D]
  BY <1>6
<1> HIDE DEF f
<1>8. \A i, j \in D : f[i] = f[j] => i = j
  <2>1. \A i, j \in D : i - 1 = j - 1 => i = j
    BY <1>1
  <2>2. QED
    BY <1>6, <2>1
<1>9. \A p \in D : \E i \in D : f[i] = p
  <2> SUFFICES ASSUME NEW p \in D PROVE \E i \in D : f[i] = p
    OBVIOUS
  <2>0. place[p] \in 0..n - 1
    BY <1>4
  <2>1. place[p] + 1 \in D /\ (place[p] + 1) - 1 = place[p]
    BY <1>1, <2>0
  <2>2. f[place[p] + 1] = p
    BY <1>4, <1>6, <2>1
  <2>3. QED
    BY <2>1, <2>2
<1>10. f \in Bijection(D, D)
  BY <1>7, <1>8, <1>9 DEF Bijection, Injection, IsInjective, Surjection
<1>11. ASSUME NEW i \in D, NEW j \in D, i < j PROVE f[i] \in PlaceIn(s)[f[j]]
  <2>1. f[i] \in D /\ f[j] \in D /\ place[f[i]] = i - 1 /\ place[f[j]] = j - 1
    BY <1>6
  <2>2. i - 1 < j - 1 /\ i - 1 # j - 1 /\ ~(j - 1 < i - 1)
    BY <1>1, <1>11
  <2>3. f[i] # f[j] /\ ~(f[j] \in PlaceIn(s)[f[i]])
    BY <1>4, <2>1, <2>2
  <2>4. QED
    BY <1>3, <2>1, <2>3 DEF IsOrder
<1>12. QED
  BY <1>5, <1>10, <1>11 DEF D

LEMMA SortedSeqIs ==
  ASSUME NEW s \in Seq(Values)
  PROVE  SortedSeq(s) \in Seq(Values) /\ Len(SortedSeq(s)) = Len(s)
<1>1. PICK f \in Bijection(DOMAIN s, DOMAIN s) : SortedSeq(s) = [i \in DOMAIN s |-> s[f[i]]]
  BY SortedPositions
<1>2. f \in [1..Len(s) -> 1..Len(s)]
  BY DEF Bijection, Injection
<1>3. QED
  BY <1>1, <1>2

LEMMA SortIs ==
  ASSUME NEW m \in GoodMachines
  PROVE  LET c == Charge(m, SortGas(Length(m.table)))
         IN  TableSort(m) = IF Length(m.table) <= 1 THEN m
                            ELSE IF c.fault # "none" THEN c
                            ELSE Over(c, SortedSeq(m.table.array))
<1> DEFINE len == Length(m.table)
           a == m.table.array
           c == Charge(m, SortGas(len))
           sorted == SortedSeq(a)
           F(g) == [i \in 0..len |-> IF i = 0 THEN c ELSE SetRaw(g[i - 1], IntKey(i), sorted[i])]
           after == CHOOSE g : g = F(g)
           mix(i) == [p \in 1..len |-> IF p <= i THEN sorted[p] ELSE a[p]]
           e == [i \in 0..len |-> IF c.fault # "none" THEN c ELSE Over(c, mix(i))]
<1>1. m.table \in GoodTables
  BY GoodMachineIs
<1>2. a \in Seq(Values) /\ len = Len(a) /\ len \in Nat
  BY <1>1, GoodTableIs
<1>3. sorted \in Seq(Values) /\ Len(sorted) = len
  BY <1>2, SortedSeqIs
<1>4. TableSort(m) = IF len <= 1 THEN m ELSE after[len]
  BY DEF TableSort
<1>5. c \in GoodMachines /\ c.table = m.table
  BY <1>2, SortGasIsNat, ChargePays DEF Pays
<1> HIDE DEF len, a, c, sorted
<1>6. ASSUME NEW i \in 0..len
      PROVE  mix(i) \in Seq(Values) /\ Len(mix(i)) = len
  BY <1>2, <1>3
<1>7. mix(0) = a /\ mix(len) = sorted
  BY <1>2, <1>3
<1>8. ASSUME NEW i \in 1..len
      PROVE  mix(i) = [mix(i - 1) EXCEPT ![i] = sorted[i]] /\ sorted[i] \in Values
  <2>1. sorted[i] \in Values
    BY <1>3
  <2>2. \A p \in 1..len : p <= i <=> (p = i \/ p <= i - 1)
    BY <1>2
  <2>3. mix(i) = [p \in 1..len |-> IF p = i THEN sorted[i] ELSE mix(i - 1)[p]]
    BY <2>2
  <2>4. QED
    BY <2>1, <2>3
<1> HIDE DEF mix
<1>9. ASSUME NEW i \in 1..len, c.fault = "none"
      PROVE  SetRaw(Over(c, mix(i - 1)), IntKey(i), sorted[i]) = Over(c, mix(i))
  <2> DEFINE w == Over(c, mix(i - 1))
  <2>1. i - 1 \in 0..len
    BY <1>2
  <2>2. Len(mix(i - 1)) = Length(c.table) /\ mix(i - 1) \in Seq(Values)
    BY <1>2, <1>5, <1>6, <2>1 DEF len
  <2>3. /\ w \in GoodMachines /\ w.table.array = mix(i - 1) /\ w.fault = c.fault
        /\ \A b : Over(w, b) = Over(c, b)
    BY <1>5, <2>2, OverIsGood
  <2> HIDE DEF w
  <2>4. i \in 1..Length(w.table)
    BY <1>2, <1>6, <2>1, <2>3 DEF Length
  <2>5. SetRaw(w, IntKey(i), sorted[i]) = Over(w, [w.table.array EXCEPT ![i] = sorted[i]])
    BY <1>8, <1>9, <2>3, <2>4, SetElement
  <2>6. QED
    BY <1>8, <2>3, <2>5 DEF w
<1>10. e = F(e)
  <2>1. e[0] = c
    BY <1>2, <1>5, <1>7, OverItself DEF a
  <2>2. ASSUME NEW i \in 1..len PROVE e[i] = SetRaw(e[i - 1], IntKey(i), sorted[i])
    <3>1. i - 1 \in 0..len /\ i \in 0..len
      BY <1>2
    <3>2. CASE c.fault = "none"
      BY <1>9, <3>1, <3>2
    <3>3. CASE c.fault # "none"
      BY <3>1, <3>3 DEF SetRaw
    <3>4. QED
      BY <3>2, <3>3
  <2> DEFINE f == e
  <2>3. f = [i \in 0..len |-> f[i]]
    OBVIOUS
  <2> HIDE DEF f
  <2>4. f = F(f)
    <3>1. f[0] = c /\ \A i \in 1..len : f[i] = SetRaw(f[i - 1], IntKey(i), sorted[i])
      BY <2>1, <2>2 DEF f
    <3>2. \A i \in 0..len : i = 0 \/ i \in 1..len
      BY <1>2
    <3>3. QED
      BY <2>3, <3>1, <3>2
  <2>5. QED
    BY <2>4 DEF f
<1>11. after = F(after)
  <2> HIDE DEF F
  <2>1. QED
    BY <1>10
<1> HIDE DEF after
<1>12. \A i \in 0..len : after[i] = e[i]
  <2> DEFINE f == e
  <2>1. f = F(f)
    BY <1>10
  <2> HIDE DEF f
  <2>2. GoAlike(after, f, len)
    BY <1>2, <1>11, <2>1 DEF GoAlike
  <2>3. \A i \in 0..len : after[i] = f[i]
    BY <1>2, <2>2, SameUpTo
  <2>4. QED
    BY <2>3 DEF f
<1>13. after[len] = IF c.fault # "none" THEN c ELSE Over(c, sorted)
  BY <1>2, <1>7, <1>12
<1>14. QED
  BY <1>4, <1>13 DEF len, a, c, sorted

-----------------------------------------------------------------------------
(* Removing and inserting in a list.                                       *)

(* After an element is removed the machine is as if it had been removed at *)
(* once.                                                                   *)
LEMMA RemoveIs ==
  ASSUME NEW m \in GoodMachines, NEW pos \in 1..Length(m.table)
  PROVE  LET c == Charge(m, 5 + Length(m.table) - pos)
         IN  TableRemove(m, pos) = IF c.fault # "none" THEN c
                                   ELSE [c EXCEPT !.table = Rawremove(c.table, IntKey(pos))]
<1> DEFINE len == Length(m.table)
           a == m.table.array
           n == len - pos
           c == Charge(m, 5 + len - pos)
           Down(u, k) == SetRaw(u, IntKey(k), Get(u.table, IntKey(k + 1)))
           F(g) == [i \in 0..n |-> IF i = 0 THEN c ELSE Down(g[i - 1], pos + i - 1)]
           after == CHOOSE g : g = F(g)
           mix(i) == [p \in 1..len |-> IF pos <= p /\ p < pos + i THEN a[p + 1] ELSE a[p]]
           e == [i \in 0..n |-> IF c.fault # "none" THEN c ELSE Over(c, mix(i))]
<1>1. m.table \in GoodTables
  BY GoodMachineIs
<1>2. /\ a \in Seq(Values) /\ len = Len(a) /\ len \in Nat /\ n \in Nat
      /\ pos \in Nat /\ 1 <= pos /\ pos + n = len /\ 5 + len - pos \in Nat
  <2>1. a \in Seq(Values) /\ len = Len(a) /\ len \in Nat
    BY <1>1, GoodTableIs
  <2>2. pos \in 1..len
    OBVIOUS
  <2> HIDE DEF len, a
  <2>3. QED
    BY <2>1, <2>2
<1>3. TableRemove(m, pos) = IF after[n].fault # "none" THEN after[n]
                            ELSE [after[n] EXCEPT !.table = Rawremove(@, IntKey(len))]
  BY DEF TableRemove
<1>4. c \in GoodMachines /\ c.table = m.table
  BY <1>2, ChargePays DEF Pays
<1>5. \A i \in 1..len : a[i] \in Values
  BY <1>2
<1> HIDE DEF len, a, c, n
<1>6. ASSUME NEW i \in 0..n
      PROVE  mix(i) \in Seq(Values) /\ Len(mix(i)) = len
  <2>1. \A p \in 1..len : mix(i)[p] \in Values
    BY <1>2, <1>5
  <2> DEFINE b == mix(i)
  <2>2. b \in [1..len -> Values]
    BY <2>1
  <2> HIDE DEF b
  <2>3. b \in Seq(Values) /\ Len(b) = len
    BY <1>2, <2>2
  <2>4. QED
    BY <2>3 DEF b
<1>7. mix(0) = a
  <2>1. mix(0) = [p \in 1..len |-> a[p]]
    BY <1>2
  <2>2. QED
    BY <1>2, <2>1
<1>8. ASSUME NEW i \in 1..n
      PROVE  /\ mix(i) = [mix(i - 1) EXCEPT ![pos + i - 1] = a[pos + i]]
             /\ mix(i - 1)[pos + i] = a[pos + i]
             /\ a[pos + i] \in Values
             /\ pos + i - 1 \in 1..len /\ pos + i \in 1..len
  <2>1. pos + i - 1 \in 1..len /\ pos + i \in 1..len /\ (pos + i - 1) + 1 = pos + i
    BY <1>2
  <2>2. a[pos + i] \in Values
    BY <1>5, <2>1
  <2>3. \A p \in 1..len : pos <= p /\ p < pos + i <=>
                           (p = pos + i - 1 \/ (pos <= p /\ p < pos + (i - 1)))
    BY <1>2
  <2>4. mix(i) = [p \in 1..len |-> IF p = pos + i - 1 THEN a[pos + i] ELSE mix(i - 1)[p]]
    BY <2>1, <2>3
  <2>5. mix(i - 1)[pos + i] = a[pos + i]
    BY <1>2, <2>1
  <2>6. QED
    BY <2>1, <2>2, <2>4, <2>5
<1>9. mix(n) = [p \in 1..len |-> IF p \in pos..len - 1 THEN a[p + 1] ELSE a[p]]
  <2>1. \A p \in 1..len : pos <= p /\ p < pos + n <=> p \in pos..len - 1
    BY <1>2
  <2>2. QED
    BY <2>1
<1> HIDE DEF mix
<1>10. ASSUME NEW i \in 1..n, c.fault = "none"
       PROVE  Down(Over(c, mix(i - 1)), pos + i - 1) = Over(c, mix(i))
  <2> DEFINE w == Over(c, mix(i - 1))
             k == pos + i - 1
  <2>1. i - 1 \in 0..n /\ k + 1 = pos + i
    BY <1>2
  <2>2. Len(mix(i - 1)) = Length(c.table) /\ mix(i - 1) \in Seq(Values)
    BY <1>2, <1>4, <1>6, <2>1 DEF len
  <2>3. /\ w \in GoodMachines /\ w.table.array = mix(i - 1) /\ w.fault = c.fault
        /\ \A b : Over(w, b) = Over(c, b)
    BY <1>4, <2>2, OverIsGood
  <2> HIDE DEF w
  <2>4. Length(w.table) = len
    BY <1>6, <2>1, <2>3 DEF Length
  <2>5. Get(w.table, IntKey(k + 1)) = a[pos + i]
    <3>1. pos + i \in 1..Length(w.table) /\ pos + i \in Int
      BY <1>8, <2>4
    <3>2. InArray(w.table, IntKey(pos + i)) /\ IntKey(pos + i)[2] = pos + i
      BY <3>1, KeyShapes DEF InArray
    <3>3. QED
      BY <1>8, <2>1, <2>3, <3>2 DEF Get
  <2>6. SetRaw(w, IntKey(k), a[pos + i]) = Over(w, [w.table.array EXCEPT ![k] = a[pos + i]])
    BY <1>8, <1>10, <2>3, <2>4, SetElement
  <2>7. QED
    BY <1>8, <2>3, <2>5, <2>6 DEF w
<1>11. e = F(e)
  <2>1. e[0] = c
    BY <1>2, <1>4, <1>7, OverItself DEF a
  <2>2. ASSUME NEW i \in 1..n PROVE e[i] = Down(e[i - 1], pos + i - 1)
    <3>1. i - 1 \in 0..n /\ i \in 0..n
      BY <1>2
    <3>2. CASE c.fault = "none"
      <4> HIDE DEF Down
      <4>1. QED
        BY <1>10, <3>1, <3>2
    <3>3. CASE c.fault # "none"
      BY <3>1, <3>3 DEF SetRaw
    <3>4. QED
      BY <3>2, <3>3
  <2> DEFINE f == e
  <2>3. f = [i \in 0..n |-> f[i]]
    OBVIOUS
  <2> HIDE DEF f, Down
  <2>4. f = F(f)
    <3>1. f[0] = c /\ \A i \in 1..n : f[i] = Down(f[i - 1], pos + i - 1)
      BY <2>1, <2>2 DEF f
    <3>2. \A i \in 0..n : i = 0 \/ i \in 1..n
      BY <1>2
    <3>3. QED
      BY <2>3, <3>1, <3>2
  <2>5. QED
    BY <2>4 DEF f
<1>12. after = F(after)
  <2> HIDE DEF F
  <2>1. QED
    BY <1>11
<1> HIDE DEF after
<1>13. \A i \in 0..n : after[i] = e[i]
  <2> DEFINE f == e
  <2>1. f = F(f)
    BY <1>11
  <2> HIDE DEF f, Down
  <2>2. GoAlike(after, f, n)
    BY <1>2, <1>12, <2>1 DEF GoAlike
  <2>3. \A i \in 0..n : after[i] = f[i]
    BY <1>2, <2>2, SameUpTo
  <2>4. QED
    BY <2>3 DEF f
<1>14. after[n] = IF c.fault # "none" THEN c ELSE Over(c, mix(n))
  BY <1>2, <1>13
<1>15. CASE c.fault # "none"
  <2>1. TableRemove(m, pos) = c
    BY <1>3, <1>14, <1>15
  <2>2. QED
    BY <1>15, <2>1 DEF c, len
<1>16. CASE c.fault = "none"
  <2> DEFINE w == Over(c, mix(n))
  <2>1. Len(mix(n)) = Length(c.table) /\ mix(n) \in Seq(Values)
    BY <1>2, <1>4, <1>6 DEF len
  <2>2. /\ w \in GoodMachines /\ w.table.array = mix(n) /\ w.fault = c.fault
        /\ w.table = [c.table EXCEPT !.array = mix(n)]
    BY <1>4, <2>1, OverIsGood
  <2>3. Length(w.table) = len /\ w.table \in GoodTables /\ c.table \in GoodTables
        /\ Length(c.table) = len /\ c.table.array = a
    BY <1>4, <2>1, <2>2, GoodMachineIs DEF Length, len, a
  <2>4. c \in Machines /\ c.table \in Rows
    BY <1>4, <2>3, GoodMachineIs, GoodTableIs
  <2>5. TableRemove(m, pos) = [w EXCEPT !.table = Rawremove(w.table, IntKey(len))]
    BY <1>3, <1>14, <1>16, <2>2
  <2>6. Rawremove(w.table, IntKey(len)) =
          [w.table EXCEPT !.array = [j \in 1..len - 1 |->
                                      IF j < len THEN mix(n)[j] ELSE mix(n)[j + 1]],
                          !.entries = @ - 1]
    <3>1. len \in 1..Length(w.table)
      BY <1>2, <2>3
    <3> DEFINE x == [j \in 1..Length(w.table) - 1 |->
                       IF j < len THEN w.table.array[j] ELSE w.table.array[j + 1]]
    <3>2. Rawremove(w.table, IntKey(len)) = [w.table EXCEPT !.array = x, !.entries = @ - 1]
      BY <2>3, <3>1, RemovePosition
    <3>3. x = [j \in 1..len - 1 |-> IF j < len THEN mix(n)[j] ELSE mix(n)[j + 1]]
      BY <2>2, <2>3
    <3> HIDE DEF x
    <3>4. QED
      BY <3>2, <3>3
  <2>7. Rawremove(c.table, IntKey(pos)) =
          [c.table EXCEPT !.array = [j \in 1..len - 1 |-> IF j < pos THEN a[j] ELSE a[j + 1]],
                          !.entries = @ - 1]
    <3>1. pos \in 1..Length(c.table)
      BY <1>4
    <3> DEFINE x == [j \in 1..Length(c.table) - 1 |->
                       IF j < pos THEN c.table.array[j] ELSE c.table.array[j + 1]]
    <3>2. Rawremove(c.table, IntKey(pos)) = [c.table EXCEPT !.array = x, !.entries = @ - 1]
      BY <2>3, <3>1, RemovePosition
    <3>3. x = [j \in 1..len - 1 |-> IF j < pos THEN a[j] ELSE a[j + 1]]
      BY <2>3
    <3> HIDE DEF x
    <3>4. QED
      BY <3>2, <3>3
  <2>8. [j \in 1..len - 1 |-> IF j < len THEN mix(n)[j] ELSE mix(n)[j + 1]] =
        [j \in 1..len - 1 |-> IF j < pos THEN a[j] ELSE a[j + 1]]
    <3>1. \A j \in 1..len - 1 : mix(n)[j] = IF j < pos THEN a[j] ELSE a[j + 1]
      BY <1>2, <1>9
    <3>2. QED
      BY <1>2, <3>1
  <2>9. Rawremove(w.table, IntKey(len)) = Rawremove(c.table, IntKey(pos))
    BY <2>2, <2>4, <2>6, <2>7, <2>8 DEF Rows
  <2>10. \A x : [w EXCEPT !.table = x] = [c EXCEPT !.table = x]
    BY <2>4 DEF Over, Machines
  <2>11. TableRemove(m, pos) = [c EXCEPT !.table = Rawremove(c.table, IntKey(pos))]
    BY <2>5, <2>9, <2>10
  <2>12. QED
    BY <1>16, <2>11 DEF c, len
<1>17. QED
  BY <1>15, <1>16

(* A machine that failed stores nothing. *)
LEMMA SetPaidFault ==
  ASSUME NEW m, NEW k, NEW v, m.fault # "none"
  PROVE  SetPaid(m, k, v) = m
BY DEF SetPaid, SetRaw, Alloc

(* The first store of an insertion makes the list longer. *)
LEMMA SetPaidNext ==
  ASSUME NEW m \in GoodMachines, NEW v \in Values, m.fault = "none"
  PROVE  SetPaid(m, IntKey(Length(m.table) + 1), v).table = Extend(m.table, v)
<1> DEFINE t == m.table
           k == IntKey(Length(t) + 1)
           u == Extend(t, v)
           r == Rawset(t, k, v)
           w == SetRaw(m, k, v)
<1>1. t \in GoodTables
  BY GoodMachineIs
<1>2. Length(t) \in Nat
  BY <1>1, GoodTableIs
<1>3. k \in LuaKeys /\ k[1] = IntegerKind /\ k[2] = Length(t) + 1 /\ k # IntKey(IntMin)
  BY <1>2, KeyShapes, ValuesAssumption
<1>4. ~InArray(t, k) /\ v # Nil
  BY <1>2, <1>3, MeteredAssumption DEF InArray
<1>5. r = Stored(t, u)
  BY <1>1, <1>3, <1>4, RawsetWide
<1>6. /\ u \in GoodTables /\ u.entries = t.entries + 1 /\ u.capacity = t.capacity
      /\ t.entries \in Nat /\ t.capacity \in Nat
  BY <1>1, ExtendByOne, GoodTableIs
<1>7. u.capacity >= t.capacity
  BY <1>6
<1>8. SetsOne(t, r) /\ r.table = u
  <2> HIDE DEF u, r
  <2>1. QED
    BY <1>1, <1>5, <1>6, <1>7, StoredSets
<1>9. w \in GoodMachines /\ w.table = r.table
  BY <1>3, SetRawIs
<1> HIDE DEF u, r
<1>10. r.inserted /\ ~r.grew
  BY <1>6, <1>8 DEF SetsOne
<1>11. SetPaid(m, k, v) = Alloc(w, ArraySlot)
  BY <1>10 DEF SetPaid, r
<1>12. Alloc(w, ArraySlot).table = w.table
  <2>1. ArraySlot \in Nat
    BY DEF ArraySlot
  <2> HIDE DEF w
  <2>2. QED
    BY <1>9, <2>1, AllocIs
<1>13. QED
  BY <1>8, <1>9, <1>11, <1>12 DEF u

(* The list b with the elements of a from pos on moved up by one. *)
Lifted(b, a, pos) == [p \in DOMAIN b |-> IF p \in pos + 1..Len(a) THEN a[p - 1] ELSE b[p]]

LEMMA InsertIs ==
  ASSUME NEW m \in GoodMachines, NEW pos \in 1..Length(m.table) + 1,
         NEW v \in Values \cup {Nil}
  PROVE  LET a == m.table.array
             c == Charge(m, 5 + Length(m.table) - pos + 1)
             s == SetPaid(c, IntKey(Length(m.table) + 1), a[Length(m.table)])
         IN  TableInsert(m, pos, v) =
               IF pos = Length(m.table) + 1 THEN SetPaid(c, IntKey(pos), v)
               ELSE IF s.fault # "none" THEN s
               ELSE SetPaid(Over(s, Lifted(s.table.array, a, pos)), IntKey(pos), v)
<1> DEFINE len == Length(m.table)
           a == m.table.array
           n == len - pos + 1
           c == Charge(m, 5 + len - pos + 1)
           s == SetPaid(c, IntKey(len + 1), a[len])
           b == s.table.array
           Up(u, k) == SetPaid(u, IntKey(k + 1), Get(u.table, IntKey(k)))
           F(g) == [i \in 0..n |-> IF i = 0 THEN c ELSE Up(g[i - 1], len + 1 - i)]
           after == CHOOSE g : g = F(g)
           mix(i) == [p \in DOMAIN b |-> IF p \in len + 2 - i..len THEN a[p - 1] ELSE b[p]]
           e == [i \in 0..n |-> IF i = 0 THEN c
                                 ELSE IF s.fault # "none" THEN s ELSE Over(s, mix(i))]
<1>1. m.table \in GoodTables
  BY GoodMachineIs
<1>2. /\ a \in Seq(Values) /\ len = Len(a) /\ len \in Nat /\ n \in Nat
      /\ pos \in Nat /\ 1 <= pos /\ pos + n = len + 1 /\ 5 + len - pos + 1 \in Nat
  <2>1. a \in Seq(Values) /\ len = Len(a) /\ len \in Nat
    BY <1>1, GoodTableIs
  <2>2. pos \in 1..len + 1
    OBVIOUS
  <2> HIDE DEF len, a
  <2>3. QED
    BY <2>1, <2>2
<1>3. TableInsert(m, pos, v) = SetPaid(after[n], IntKey(pos), v)
  BY DEF TableInsert
<1>4. /\ c \in GoodMachines /\ c.table = m.table
  BY <1>2, ChargePays DEF Pays
<1>5. \A i \in 1..len : a[i] \in Values
  BY <1>2
<1>6. Length(c.table) = len /\ c.table.array = a
  BY <1>4
<1> HIDE DEF len, a, c, n
<1>7. ASSUME n # 0
      PROVE  /\ s \in GoodMachines /\ a[len] \in Values /\ len >= 1
             /\ s.fault = "none" =>
                  /\ c.fault = "none"
                  /\ b \in Seq(Values) /\ Len(b) >= len + 1 /\ Length(s.table) = Len(b)
                  /\ \A i \in 1..len : b[i] = a[i]
                  /\ b[len + 1] = a[len]
  <2>1. len >= 1
    BY <1>2, <1>7
  <2>2. a[len] \in Values
    BY <1>2, <1>5, <2>1
  <2>3. Pays(c, s)
    <3>1. IntKey(len + 1) \in LuaKeys
      BY <1>2, KeyShapes
    <3>2. QED
      BY <1>4, <2>2, <3>1, SetPaidPays
  <2>4. ASSUME s.fault = "none"
        PROVE  /\ b \in Seq(Values) /\ Len(b) >= len + 1 /\ Length(s.table) = Len(b)
               /\ \A i \in 1..len : b[i] = a[i]
               /\ b[len + 1] = a[len]
    <3>1. c.fault = "none"
      BY <2>3, <2>4 DEF Pays
    <3>2. s.table = Extend(c.table, a[len])
      BY <1>4, <1>6, <2>2, <3>1, SetPaidNext
    <3>3. c.table \in GoodTables /\ s.table \in GoodTables
      BY <1>4, <2>3, GoodMachineIs DEF Pays
    <3> HIDE DEF s
    <3>4. /\ Length(s.table) >= Length(c.table) + 1
          /\ \A i \in 1..Length(c.table) : s.table.array[i] = c.table.array[i]
          /\ s.table.array[Length(c.table) + 1] = a[len]
      BY <2>2, <3>2, <3>3, ExtendByOne
    <3>5. b \in Seq(Values) /\ Length(s.table) = Len(b)
      BY <3>3, GoodTableIs
    <3>6. QED
      BY <1>6, <3>4, <3>5
  <2>5. QED
    BY <2>1, <2>2, <2>3, <2>4 DEF Pays
<1> HIDE DEF s
<1>8. ASSUME NEW i \in 1..n, s.fault = "none"
      PROVE  mix(i) \in Seq(Values) /\ Len(mix(i)) = Len(b)
  <2>1. n # 0 /\ i \in Nat
    BY <1>2
  <2>2. b \in Seq(Values) /\ Len(b) \in Nat /\ DOMAIN b = 1..Len(b)
    BY <1>7, <1>8, <2>1
  <2>3. \A p \in len + 2 - i..len : p - 1 \in 1..len
    BY <1>2, <2>1
  <2>4. \A p \in 1..Len(b) : mix(i)[p] \in Values
    BY <1>2, <1>5, <2>2, <2>3
  <2> DEFINE x == mix(i)
  <2>5. x \in [1..Len(b) -> Values]
    BY <2>2, <2>4
  <2> HIDE DEF x
  <2>6. x \in Seq(Values) /\ Len(x) = Len(b)
    BY <2>2, <2>5
  <2>7. QED
    BY <2>6 DEF x
<1>9. ASSUME n # 0, s.fault = "none" PROVE mix(1) = b
  <2>1. b \in Seq(Values)
    BY <1>7, <1>9
  <2>2. ~(\E p \in Int : p \in len + 2 - 1..len)
    BY <1>2
  <2>3. mix(1) = [p \in DOMAIN b |-> b[p]]
    BY <2>1, <2>2
  <2>4. QED
    BY <2>1, <2>3
<1>10. ASSUME NEW i \in 2..n, s.fault = "none"
       PROVE  /\ mix(i) = [mix(i - 1) EXCEPT ![len + 2 - i] = a[len + 1 - i]]
              /\ mix(i - 1)[len + 1 - i] = a[len + 1 - i]
              /\ a[len + 1 - i] \in Values
              /\ len + 2 - i \in 1..len /\ len + 1 - i \in 1..len
  <2>1. n # 0 /\ i \in Nat
    BY <1>2
  <2>2. /\ len + 2 - i \in 1..len /\ len + 1 - i \in 1..len
        /\ (len + 2 - i) - 1 = len + 1 - i
    BY <1>2, <2>1
  <2>3. b \in Seq(Values) /\ Len(b) >= len + 1 /\ DOMAIN b = 1..Len(b) /\ Len(b) \in Nat
    BY <1>7, <1>10, <2>1
  <2>4. \A p \in 1..Len(b) :
          p \in len + 2 - i..len <=> (p = len + 2 - i \/ p \in len + 2 - (i - 1)..len)
    BY <1>2, <2>1, <2>2
  <2>5. mix(i) = [p \in DOMAIN b |-> IF p = len + 2 - i THEN a[len + 1 - i] ELSE mix(i - 1)[p]]
    BY <2>2, <2>3, <2>4
  <2>6. a[len + 1 - i] \in Values /\ b[len + 1 - i] = a[len + 1 - i]
    BY <1>5, <1>7, <1>10, <2>1, <2>2
  <2>7. /\ ~(len + 1 - i \in len + 2 - (i - 1)..len)
        /\ len + 1 - i \in DOMAIN b
    BY <1>2, <2>1, <2>2, <2>3
  <2>8. QED
    BY <2>2, <2>5, <2>6, <2>7
<1>11. n # 0 => mix(n) = Lifted(b, a, pos)
  <2>1. len + 2 - n = pos + 1
    BY <1>2
  <2>2. QED
    BY <1>2, <2>1 DEF Lifted
<1> HIDE DEF mix, b
<1>12. ASSUME NEW i \in 2..n, s.fault = "none"
       PROVE  Up(Over(s, mix(i - 1)), len + 1 - i) = Over(s, mix(i))
  <2> DEFINE w == Over(s, mix(i - 1))
             k == len + 1 - i
  <2>1. i - 1 \in 1..n /\ k + 1 = len + 2 - i /\ n # 0
    BY <1>2
  <2>2. s \in GoodMachines /\ Length(s.table) = Len(b) /\ Len(b) >= len + 1
    BY <1>7, <1>12, <2>1
  <2>3. Len(mix(i - 1)) = Length(s.table) /\ mix(i - 1) \in Seq(Values)
    BY <1>8, <1>12, <2>1, <2>2
  <2>4. /\ w \in GoodMachines /\ w.table.array = mix(i - 1) /\ w.fault = s.fault
        /\ \A x : Over(w, x) = Over(s, x)
    BY <2>2, <2>3, OverIsGood
  <2> HIDE DEF w
  <2>5. Length(w.table) >= len + 1 /\ Length(w.table) \in Nat
    BY <2>2, <2>3, <2>4 DEF Length
  <2>6. Get(w.table, IntKey(k)) = a[k]
    <3>1. k \in 1..Length(w.table) /\ k \in Int
      BY <1>2, <1>10, <1>12, <2>5
    <3>2. InArray(w.table, IntKey(k)) /\ IntKey(k)[2] = k
      BY <3>1, KeyShapes DEF InArray
    <3>3. QED
      BY <1>10, <1>12, <2>4, <3>2 DEF Get
  <2>7. k + 1 \in 1..Length(w.table) /\ a[k] \in Values
    BY <1>2, <1>10, <1>12, <2>1, <2>5
  <2>8. SetPaid(w, IntKey(k + 1), a[k]) = Over(w, [w.table.array EXCEPT ![k + 1] = a[k]])
    BY <1>12, <2>4, <2>7, SetElement
  <2>9. QED
    BY <1>10, <1>12, <2>1, <2>4, <2>6, <2>8 DEF w
<1>13. ASSUME n # 0 PROVE Up(c, len) = s
  <2>1. len \in 1..Length(c.table) /\ len \in Int
    BY <1>2, <1>6, <1>7, <1>13
  <2>2. InArray(c.table, IntKey(len)) /\ IntKey(len)[2] = len
    BY <2>1, KeyShapes DEF InArray
  <2>3. Get(c.table, IntKey(len)) = a[len]
    BY <1>6, <2>2 DEF Get
  <2>4. QED
    BY <2>3 DEF s
<1>14. e = F(e)
  <2>1. e[0] = c
    BY <1>2
  <2>2. ASSUME NEW i \in 1..n PROVE e[i] = Up(e[i - 1], len + 1 - i)
    <3>1. i - 1 \in 0..n /\ i \in 0..n /\ n # 0 /\ i # 0
      BY <1>2
    <3>2. CASE i = 1
      <4>1. len + 1 - i = len /\ e[i - 1] = c
        BY <1>2, <2>1, <3>2
      <4>2. e[i] = s
        <5>1. CASE s.fault # "none"
          BY <3>1, <5>1
        <5>2. CASE s.fault = "none"
          <6>1. Over(s, mix(1)) = s
            BY <1>7, <1>9, <3>1, <5>2, OverItself DEF b
          <6>2. QED
            BY <3>1, <3>2, <5>2, <6>1
        <5>3. QED
          BY <5>1, <5>2
      <4> HIDE DEF Up, e
      <4>3. QED
        BY <1>13, <3>1, <4>1, <4>2
    <3>3. CASE i # 1 /\ s.fault # "none"
      <4>1. e[i] = s /\ e[i - 1] = s
        BY <1>2, <3>1, <3>3
      <4>2. Up(s, len + 1 - i) = s
        BY <3>3, SetPaidFault
      <4> HIDE DEF Up, e
      <4>3. QED
        BY <4>1, <4>2
    <3>4. CASE i # 1 /\ s.fault = "none"
      <4>1. i \in 2..n /\ i - 1 # 0
        BY <1>2, <3>4
      <4>2. e[i] = Over(s, mix(i)) /\ e[i - 1] = Over(s, mix(i - 1))
        BY <3>1, <3>4, <4>1
      <4> HIDE DEF Up, e
      <4>3. QED
        BY <1>12, <3>4, <4>1, <4>2
    <3>5. QED
      BY <3>2, <3>3, <3>4
  <2> DEFINE f == e
  <2>3. f = [i \in 0..n |-> f[i]]
    OBVIOUS
  <2> HIDE DEF f, Up
  <2>4. f = F(f)
    <3>1. f[0] = c /\ \A i \in 1..n : f[i] = Up(f[i - 1], len + 1 - i)
      BY <2>1, <2>2 DEF f
    <3>2. \A i \in 0..n : i = 0 \/ i \in 1..n
      BY <1>2
    <3>3. QED
      BY <2>3, <3>1, <3>2
  <2>5. QED
    BY <2>4 DEF f
<1>15. after = F(after)
  <2> HIDE DEF F
  <2>1. QED
    BY <1>14
<1> HIDE DEF after
<1>16. \A i \in 0..n : after[i] = e[i]
  <2> DEFINE f == e
  <2>1. f = F(f)
    BY <1>14
  <2> HIDE DEF f, Up
  <2>2. GoAlike(after, f, n)
    BY <1>2, <1>15, <2>1 DEF GoAlike
  <2>3. \A i \in 0..n : after[i] = f[i]
    BY <1>2, <2>2, SameUpTo
  <2>4. QED
    BY <2>3 DEF f
<1>17. CASE pos = len + 1
  <2>1. n = 0 /\ after[n] = c
    BY <1>2, <1>16, <1>17
  <2>2. QED
    BY <1>3, <1>17, <2>1 DEF c, len
<1>18. CASE pos # len + 1
  <2>1. n # 0
    BY <1>2, <1>18
  <2>2. after[n] = IF s.fault # "none" THEN s ELSE Over(s, mix(n))
    BY <1>2, <1>16, <2>1
  <2>3. s.fault # "none" => SetPaid(s, IntKey(pos), v) = s
    BY SetPaidFault
  <2>4. TableInsert(m, pos, v) =
          IF s.fault # "none" THEN s
          ELSE SetPaid(Over(s, Lifted(b, a, pos)), IntKey(pos), v)
    BY <1>3, <1>11, <2>1, <2>2, <2>3
  <2>5. QED
    BY <1>18, <2>4 DEF s, c, a, b, len
<1>19. QED
  BY <1>17, <1>18

-----------------------------------------------------------------------------
(* Moving a range.                                                         *)

LEMMA GetIs ==
  ASSUME NEW t \in GoodTables, NEW k \in LuaKeys
  PROVE  Get(t, k) \in Values \cup {Nil}
<1>1. /\ t.array \in Seq(Values) /\ Length(t) = Len(t.array)
      /\ t.hash \in [DOMAIN t.hash -> Values]
  BY GoodTableIs
<1>2. InArray(t, k) => t.array[k[2]] \in Values
  BY <1>1 DEF InArray
<1>3. k \in DOMAIN t.hash => t.hash[k] \in Values
  BY <1>1
<1>4. QED
  BY <1>2, <1>3 DEF Get

MoveStep(t, first, pos) ==
  [i \in Nat |-> [u \in GoodMachines |->
                   SetRaw(u, IntKey(pos + i - 1), Get(t, IntKey(first + i - 1)))]]

LEMMA MoveIs ==
  ASSUME NEW m \in GoodMachines, NEW first \in 1..Length(m.table) + 1,
         NEW last \in 1..Length(m.table) + 1, NEW pos \in 1..Length(m.table) + 1,
         first <= last
  PROVE  \E f : /\ Unrolls(f, GoodMachines, Charge(m, last - first + 1),
                           MoveStep(m.table, first, pos), last - first + 1)
                /\ TableMove(m, first, last, pos) = f[last - first + 1]
<1> DEFINE n == last - first + 1
           c == Charge(m, n)
           values == [i \in 1..n |-> Get(m.table, IntKey(first + i - 1))]
           F(g) == [i \in 0..n |-> IF i = 0 THEN c
                                   ELSE SetRaw(g[i - 1], IntKey(pos + i - 1), values[i])]
           after == CHOOSE g : g = F(g)
           step == MoveStep(m.table, first, pos)
<1>1. m.table \in GoodTables /\ Length(m.table) \in Nat
  BY GoodMachineIs, GoodTableIs
<1>2. n \in Nat /\ first \in Nat /\ pos \in Nat /\ 1 <= pos /\ 1 <= first
  BY <1>1
<1>3. TableMove(m, first, last, pos) = after[n]
  <2>1. ~(first > last)
    BY <1>1
  <2>2. QED
    BY <2>1 DEF TableMove
<1>4. c \in GoodMachines
  BY <1>2, ChargePays DEF Pays
<1> HIDE DEF c, n
<1>5. ASSUME NEW i \in 1..n
      PROVE  IntKey(pos + i - 1) \in LuaKeys /\ values[i] \in Values \cup {Nil}
  <2>1. pos + i - 1 \in Int /\ first + i - 1 \in Int
    BY <1>2
  <2>2. QED
    BY <1>1, <2>1, KeyShapes, GetIs
<1>6. ASSUME NEW i \in 1..n, NEW u \in GoodMachines
      PROVE  /\ step[i][u] = SetRaw(u, IntKey(pos + i - 1), values[i])
             /\ step[i][u] \in GoodMachines
  <2>1. i \in Nat
    BY <1>2
  <2>2. step[i][u] = SetRaw(u, IntKey(pos + i - 1), values[i])
    BY <2>1 DEF MoveStep
  <2> HIDE DEF step, values
  <2>3. QED
    BY <1>5, <2>2, SetRawIs
<1> HIDE DEF step, values
<1>7. IsStep(GoodMachines, step, n)
  BY <1>6 DEF IsStep
<1>8. PICK f : Unrolls(f, GoodMachines, c, step, n)
  BY <1>2, <1>4, <1>7, Recursion
<1>9. f \in [0..n -> GoodMachines] /\ f[0] = c /\ \A i \in 1..n : f[i] = step[i][f[i - 1]]
  BY <1>8 DEF Unrolls
<1>10. \A i \in 1..n : f[i] = SetRaw(f[i - 1], IntKey(pos + i - 1), values[i])
  <2>1. \A i \in 1..n : f[i - 1] \in GoodMachines
    BY <1>2, <1>9
  <2>2. QED
    BY <1>6, <1>9, <2>1
<1>11. f = F(f)
  <2>1. \A i \in 0..n : i = 0 \/ i \in 1..n
    BY <1>2
  <2>2. f = [i \in 0..n |-> f[i]]
    BY <1>9
  <2>3. QED
    BY <1>9, <1>10, <2>1, <2>2
<1>12. after = F(after)
  <2> HIDE DEF F
  <2>1. QED
    BY <1>11
<1> HIDE DEF after
<1>13. GoAlike(after, f, n)
  BY <1>2, <1>9, <1>10, <1>12 DEF GoAlike
<1>14. after[n] = f[n]
  BY <1>2, <1>13, SameUpTo
<1>15. QED
  BY <1>3, <1>8, <1>14 DEF n, c, step

-----------------------------------------------------------------------------
(* The order of keys.                                                      *)

Strings == Seq(Range(Pieces))

LEMMA RankIs ==
  /\ \A p \in Range(Pieces) : Rank(p) \in Nat
  /\ \A p, q \in Range(Pieces) : Rank(p) = Rank(q) => p = q
<1>1. \A p \in Range(Pieces) : Rank(p) \in DOMAIN Pieces /\ Pieces[Rank(p)] = p
  <2> SUFFICES ASSUME NEW p \in Range(Pieces)
               PROVE  Rank(p) \in DOMAIN Pieces /\ Pieces[Rank(p)] = p
    OBVIOUS
  <2>1. \E i \in DOMAIN Pieces : Pieces[i] = p
    BY DEF Range
  <2>2. QED
    BY <2>1 DEF Rank
<1>2. DOMAIN Pieces \subseteq Nat
  BY ValuesAssumption
<1>3. QED
  BY <1>1, <1>2

(* n elements are alike, and then s is shorter or smaller. *)
SplitAt(s, t, n) ==
  /\ n <= Len(s) /\ n <= Len(t) /\ \A i \in 1..n : s[i] = t[i]
  /\ n < Len(t)
  /\ n = Len(s) \/ (n < Len(s) /\ Rank(s[n + 1]) < Rank(t[n + 1]))

LEMMA StringBeforeIs ==
  ASSUME NEW s \in Strings, NEW t \in Strings
  PROVE  StringBefore(s, t) <=> \E n \in Nat : SplitAt(s, t, n)
<1>1. Len(s) \in Nat /\ Len(t) \in Nat /\ s \in Seq(Range(Pieces)) /\ t \in Seq(Range(Pieces))
  BY DEF Strings
<1>2. ASSUME NEW n \in Nat, n <= Len(s), n <= Len(t)
      PROVE  SubSeq(s, 1, n) = SubSeq(t, 1, n) <=> \A i \in 1..n : s[i] = t[i]
  <2>1. SubSeq(s, 1, n) = [i \in 1..n |-> s[i]] /\ SubSeq(t, 1, n) = [i \in 1..n |-> t[i]]
    <3>1. SubSeq(s, 1, n) \in Seq(Range(Pieces)) /\ Len(SubSeq(s, 1, n)) = n
          /\ \A i \in 1..n : SubSeq(s, 1, n)[i] = s[i]
      BY <1>1, <1>2
    <3>2. SubSeq(t, 1, n) \in Seq(Range(Pieces)) /\ Len(SubSeq(t, 1, n)) = n
          /\ \A i \in 1..n : SubSeq(t, 1, n)[i] = t[i]
      BY <1>1, <1>2
    <3>3. QED
      BY <3>1, <3>2
  <2>2. QED
    BY <2>1
<1>3. ASSUME StringBefore(s, t) PROVE \E n \in Nat : SplitAt(s, t, n)
  <2>1. PICK n \in 0..Len(s) :
          /\ n <= Len(t) /\ SubSeq(s, 1, n) = SubSeq(t, 1, n)
          /\ \/ n = Len(s) /\ n < Len(t)
             \/ n < Len(s) /\ n < Len(t) /\ Rank(s[n + 1]) < Rank(t[n + 1])
    BY <1>3 DEF StringBefore
  <2>2. n \in Nat /\ n <= Len(s)
    BY <1>1
  <2>3. SplitAt(s, t, n)
    BY <1>2, <2>1, <2>2 DEF SplitAt
  <2>4. QED
    BY <2>2, <2>3
<1>4. ASSUME NEW n \in Nat, SplitAt(s, t, n) PROVE StringBefore(s, t)
  <2>1. n \in 0..Len(s) /\ n <= Len(s) /\ n <= Len(t)
    BY <1>1, <1>4 DEF SplitAt
  <2>2. SubSeq(s, 1, n) = SubSeq(t, 1, n)
    BY <1>2, <1>4, <2>1 DEF SplitAt
  <2>3. QED
    BY <1>4, <2>1, <2>2 DEF SplitAt, StringBefore
<1>5. QED
  BY <1>3, <1>4

LEMMA StringsAreOrdered ==
  /\ \A s \in Strings : ~StringBefore(s, s)
  /\ \A s, t, u \in Strings :
       StringBefore(s, t) /\ StringBefore(t, u) => StringBefore(s, u)
  /\ \A s, t \in Strings : s = t \/ StringBefore(s, t) \/ StringBefore(t, s)
<1>1. ASSUME NEW s \in Strings
      PROVE  /\ Len(s) \in Nat /\ DOMAIN s = 1..Len(s)
             /\ \A i \in 1..Len(s) : Rank(s[i]) \in Nat /\ s[i] \in Range(Pieces)
             /\ s = [i \in 1..Len(s) |-> s[i]]
  <2>1. s \in Seq(Range(Pieces))
    BY DEF Strings
  <2>2. \A i \in 1..Len(s) : s[i] \in Range(Pieces)
    BY <2>1
  <2>3. QED
    BY <2>1, <2>2, RankIs
<1>2. ASSUME NEW s \in Strings PROVE ~StringBefore(s, s)
  <2> SUFFICES ASSUME NEW n \in Nat, SplitAt(s, s, n) PROVE FALSE
    BY StringBeforeIs
  <2>1. n < Len(s) /\ n + 1 \in 1..Len(s) /\ Rank(s[n + 1]) < Rank(s[n + 1])
    BY <1>1 DEF SplitAt
  <2>2. QED
    BY <1>1, <2>1
<1>3. ASSUME NEW s \in Strings, NEW t \in Strings, NEW u \in Strings,
             StringBefore(s, t), StringBefore(t, u)
      PROVE  StringBefore(s, u)
  <2>1. PICK n1 \in Nat : SplitAt(s, t, n1)
    BY <1>3, StringBeforeIs
  <2>2. PICK n2 \in Nat : SplitAt(t, u, n2)
    BY <1>3, StringBeforeIs
  <2>3. Len(s) \in Nat /\ Len(t) \in Nat /\ Len(u) \in Nat
    BY <1>1
  <2>4. CASE n1 < n2
    <3>1. n1 + 1 \in 1..n2 /\ n1 < Len(u) /\ n1 <= Len(u)
      BY <2>2, <2>3, <2>4 DEF SplitAt
    <3>2. t[n1 + 1] = u[n1 + 1] /\ \A i \in 1..n1 : s[i] = u[i]
      BY <2>1, <2>2, <2>4, <3>1 DEF SplitAt
    <3>3. SplitAt(s, u, n1)
      BY <2>1, <3>1, <3>2 DEF SplitAt
    <3>4. QED
      BY <3>3, StringBeforeIs
  <2>5. CASE n1 = n2
    <3>1. n1 < Len(t) /\ n1 # Len(t) /\ n1 < Len(u) /\ n1 <= Len(u)
      BY <2>1, <2>2, <2>3, <2>5 DEF SplitAt
    <3>2. \A i \in 1..n1 : s[i] = u[i]
      BY <2>1, <2>2, <2>5 DEF SplitAt
    <3>3. Rank(t[n1 + 1]) < Rank(u[n1 + 1])
      BY <2>2, <2>5, <3>1 DEF SplitAt
    <3>4. n1 < Len(s) => Rank(s[n1 + 1]) < Rank(u[n1 + 1])
      <4> SUFFICES ASSUME n1 < Len(s) PROVE Rank(s[n1 + 1]) < Rank(u[n1 + 1])
        OBVIOUS
      <4>1. n1 + 1 \in 1..Len(s) /\ n1 + 1 \in 1..Len(t) /\ n1 + 1 \in 1..Len(u)
        BY <2>3, <3>1
      <4>2. Rank(s[n1 + 1]) \in Nat /\ Rank(t[n1 + 1]) \in Nat /\ Rank(u[n1 + 1]) \in Nat
        BY <1>1, <4>1
      <4>3. Rank(s[n1 + 1]) < Rank(t[n1 + 1])
        BY <2>1, <2>3 DEF SplitAt
      <4>4. QED
        BY <3>3, <4>2, <4>3
    <3>5. SplitAt(s, u, n1)
      BY <2>1, <2>3, <3>1, <3>2, <3>4 DEF SplitAt
    <3>6. QED
      BY <3>5, StringBeforeIs
  <2>6. CASE n2 < n1
    <3>1. n2 + 1 \in 1..n1 /\ n2 < Len(t) /\ n2 # Len(t) /\ n2 < Len(s) /\ n2 <= Len(s)
      BY <2>1, <2>3, <2>6 DEF SplitAt
    <3>2. s[n2 + 1] = t[n2 + 1] /\ \A i \in 1..n2 : s[i] = u[i]
      BY <2>1, <2>2, <2>6, <3>1 DEF SplitAt
    <3>3. SplitAt(s, u, n2)
      BY <2>2, <3>1, <3>2 DEF SplitAt
    <3>4. QED
      BY <3>3, StringBeforeIs
  <2>7. QED
    BY <2>4, <2>5, <2>6
<1>4. ASSUME NEW s \in Strings, NEW t \in Strings, s # t
      PROVE  StringBefore(s, t) \/ StringBefore(t, s)
  <2> DEFINE T == {n \in Nat : n >= Len(s) \/ n >= Len(t) \/ s[n + 1] # t[n + 1]}
  <2>1. Len(s) \in T /\ Len(t) \in T
    BY <1>1
  <2>2. PICK n \in T : \A k \in T : n <= k
    <3>1. T \in SUBSET Nat
      OBVIOUS
    <3> HIDE DEF T
    <3>2. QED
      BY <2>1, <3>1, LeastNat
  <2>3. n \in Nat /\ n <= Len(s) /\ n <= Len(t) /\ Len(s) \in Nat /\ Len(t) \in Nat
    BY <1>1, <2>1, <2>2
  <2>4. ASSUME NEW i \in 1..n PROVE s[i] = t[i]
    <3>1. i - 1 \in Nat /\ ~(n <= i - 1) /\ (i - 1) + 1 = i
      BY <2>3
    <3>2. i - 1 \notin T
      BY <2>2, <3>1
    <3>3. QED
      BY <3>1, <3>2
  <2>5. CASE n = Len(s)
    <3>1. n # Len(t)
      <4> SUFFICES ASSUME n = Len(t) PROVE FALSE
        OBVIOUS
      <4>1. \A i \in 1..Len(s) : s[i] = t[i]
        BY <2>4, <2>5
      <4>2. s = t
        BY <1>1, <2>5, <4>1
      <4>3. QED
        BY <1>4, <4>2
    <3>2. SplitAt(s, t, n)
      BY <2>3, <2>4, <2>5, <3>1 DEF SplitAt
    <3>3. QED
      BY <2>3, <3>2, StringBeforeIs
  <2>6. CASE n # Len(s) /\ n = Len(t)
    <3>1. SplitAt(t, s, n)
      BY <2>3, <2>4, <2>6 DEF SplitAt
    <3>2. QED
      BY <2>3, <3>1, StringBeforeIs
  <2>7. CASE n # Len(s) /\ n # Len(t)
    <3>1. n < Len(s) /\ n < Len(t) /\ s[n + 1] # t[n + 1]
      BY <2>2, <2>3, <2>7
    <3>2. n + 1 \in 1..Len(s) /\ n + 1 \in 1..Len(t)
      BY <2>3, <3>1
    <3>3. /\ Rank(s[n + 1]) \in Nat /\ Rank(t[n + 1]) \in Nat
          /\ s[n + 1] \in Range(Pieces) /\ t[n + 1] \in Range(Pieces)
      BY <1>1, <3>2
    <3>4. Rank(s[n + 1]) # Rank(t[n + 1])
      BY <3>1, <3>3, RankIs
    <3>5. SplitAt(s, t, n) \/ SplitAt(t, s, n)
      BY <2>3, <2>4, <3>1, <3>3, <3>4 DEF SplitAt
    <3>6. QED
      BY <2>3, <3>5, StringBeforeIs
  <2>8. QED
    BY <2>5, <2>6, <2>7
<1>5. QED
  BY <1>2, <1>3, <1>4

LEMMA KeysAreOrdered ==
  /\ \A k \in LuaKeys : ~KeyBefore(k, k)
  /\ \A i, j, k \in LuaKeys : KeyBefore(i, j) /\ KeyBefore(j, k) => KeyBefore(i, k)
  /\ \A j, k \in LuaKeys : j = k \/ KeyBefore(j, k) \/ KeyBefore(k, j)
<1>1. \A k \in LuaKeys :
        /\ k[1] \in {1, 2, 3}
        /\ k[1] # StringKind => k[2] \in Int
        /\ k[1] = StringKind => k[2] \in Strings
        /\ k = <<k[1], k[2]>>
  <2> SUFFICES ASSUME NEW k \in LuaKeys
               PROVE  /\ k[1] \in {1, 2, 3}
                      /\ k[1] # StringKind => k[2] \in Int
                      /\ k[1] = StringKind => k[2] \in Strings
                      /\ k = <<k[1], k[2]>>
    OBVIOUS
  <2>1. CASE k[1] = IntegerKind
    BY <2>1, KeyShapes DEF IntegerKind, StringKind, IntKey, IntVal
  <2>2. CASE k[1] = StringKind
    BY <2>2, KeyShapes DEF StringKind, Strings
  <2>3. CASE k[1] = BooleanKind
    BY <2>3, KeyShapes DEF BooleanKind, StringKind
  <2>4. QED
    BY <2>1, <2>2, <2>3, KeyShapes
<1>2. ASSUME NEW k \in LuaKeys PROVE ~KeyBefore(k, k)
  <2>1. CASE k[1] = StringKind
    BY <1>1, <2>1, StringsAreOrdered DEF KeyBefore, StringKind
  <2>2. CASE k[1] # StringKind
    BY <1>1, <2>2 DEF KeyBefore
  <2>3. QED
    BY <2>1, <2>2
<1>3. ASSUME NEW i \in LuaKeys, NEW j \in LuaKeys, NEW k \in LuaKeys,
             KeyBefore(i, j), KeyBefore(j, k)
      PROVE  KeyBefore(i, k)
  <2>1. i[1] \in Int /\ j[1] \in Int /\ k[1] \in Int
    BY <1>1
  <2>2. CASE i[1] < j[1] \/ j[1] < k[1]
    BY <1>3, <2>1, <2>2 DEF KeyBefore
  <2>3. CASE i[1] = j[1] /\ j[1] = k[1] /\ i[1] = StringKind
    <3>1. i[2] \in Strings /\ j[2] \in Strings /\ k[2] \in Strings
      BY <1>1, <2>3
    <3>2. StringBefore(i[2], j[2]) /\ StringBefore(j[2], k[2])
      BY <1>3, <2>1, <2>3 DEF KeyBefore
    <3>3. StringBefore(i[2], k[2])
      BY <3>1, <3>2, StringsAreOrdered
    <3>4. QED
      BY <2>3, <3>3 DEF KeyBefore
  <2>4. CASE i[1] = j[1] /\ j[1] = k[1] /\ i[1] # StringKind
    <3>1. i[2] \in Int /\ j[2] \in Int /\ k[2] \in Int
      BY <1>1, <2>4
    <3>2. i[2] < j[2] /\ j[2] < k[2]
      BY <1>3, <2>1, <2>4 DEF KeyBefore
    <3>3. QED
      BY <2>4, <3>1, <3>2 DEF KeyBefore
  <2>5. QED
    BY <1>3, <2>1, <2>2, <2>3, <2>4 DEF KeyBefore
<1>4. ASSUME NEW j \in LuaKeys, NEW k \in LuaKeys, j # k
      PROVE  KeyBefore(j, k) \/ KeyBefore(k, j)
  <2>1. j[1] \in Int /\ k[1] \in Int /\ (j[1] = k[1] => j[2] # k[2])
    BY <1>1, <1>4
  <2>2. CASE j[1] # k[1]
    BY <2>1, <2>2 DEF KeyBefore
  <2>3. CASE j[1] = k[1] /\ j[1] = StringKind
    <3>1. StringBefore(j[2], k[2]) \/ StringBefore(k[2], j[2])
      BY <1>1, <2>1, <2>3, StringsAreOrdered
    <3>2. QED
      BY <2>3, <3>1 DEF KeyBefore
  <2>4. CASE j[1] = k[1] /\ j[1] # StringKind
    <3>1. j[2] \in Int /\ k[2] \in Int
      BY <1>1, <2>4
    <3>2. QED
      BY <2>1, <2>4, <3>1 DEF KeyBefore
  <2>5. QED
    BY <2>2, <2>3, <2>4
<1>5. QED
  BY <1>2, <1>3, <1>4

LEMMA InOrderIs ==
  ASSUME NEW S \in SUBSET LuaKeys, IsFiniteSet(S)
  PROVE  /\ InOrder(S) \in Seq(LuaKeys) /\ Len(InOrder(S)) = Cardinality(S)
         /\ \A i \in 1..Cardinality(S) : InOrder(S)[i] \in S
         /\ \A i, j \in 1..Cardinality(S) : InOrder(S)[i] = InOrder(S)[j] => i = j
         /\ \A k \in S : \E i \in 1..Cardinality(S) : InOrder(S)[i] = k
<1> DEFINE n == Cardinality(S)
           below == [k \in S |-> {j \in S : KeyBefore(j, k)}]
           has(i, k) == Cardinality({j \in S : KeyBefore(j, k)}) = i - 1
           f == InOrder(S)
<1>1. n \in Nat
  BY FS_CardinalityType
<1>2. IsOrder(S, below)
  BY KeysAreOrdered DEF IsOrder
<1>3. /\ \A k \in S : Cardinality(below[k]) \in 0..n - 1
      /\ \A j, k \in S : Cardinality(below[j]) = Cardinality(below[k]) => j = k
      /\ \A i \in 1..n : \E k \in S : Cardinality(below[k]) = i - 1
  <2> HIDE DEF below
  <2>1. QED
    BY <1>2, Places
<1>4. \A k \in S : below[k] = {j \in S : KeyBefore(j, k)}
  OBVIOUS
<1>5. f = [i \in 1..n |-> f[i]] /\
      \A i \in 1..n : f[i] = CHOOSE k \in S : has(i, k) \/ \A j \in S : ~has(i, j)
  <2> DEFINE key(i) == CHOOSE k \in S : has(i, k) \/ \A j \in S : ~has(i, j)
  <2>1. f = [i \in 1..n |-> key(i)]
    BY DEF InOrder
  <2> HIDE DEF f, key
  <2>2. f = [i \in 1..n |-> f[i]] /\ \A i \in 1..n : f[i] = key(i)
    BY <2>1
  <2>3. QED
    BY <2>2 DEF key
<1> HIDE DEF n, below, f
<1>6. ASSUME NEW i \in 1..n PROVE f[i] \in S /\ Cardinality(below[f[i]]) = i - 1
  <2>1. \E k \in S : has(i, k)
    BY <1>3, <1>4
  <2> HIDE DEF has
  <2>2. f[i] \in S /\ has(i, f[i])
    BY <1>5, <2>1
  <2>3. QED
    BY <1>4, <2>2 DEF has
<1>7. f \in Seq(LuaKeys) /\ Len(f) = n
  <2>1. f \in [1..n -> LuaKeys]
    BY <1>5, <1>6
  <2>2. QED
    BY <1>1, <2>1
<1>8. \A i, j \in 1..n : f[i] = f[j] => i = j
  <2>1. \A i, j \in 1..n : i - 1 = j - 1 => i = j
    BY <1>1
  <2>2. QED
    BY <1>6, <2>1
<1>9. ASSUME NEW k \in S PROVE \E i \in 1..n : f[i] = k
  <2> DEFINE i == Cardinality(below[k]) + 1
  <2>1. Cardinality(below[k]) \in 0..n - 1
    BY <1>3
  <2>2. i \in 1..n /\ i - 1 = Cardinality(below[k])
    BY <1>1, <2>1
  <2>3. f[i] = k
    BY <1>3, <1>6, <2>2
  <2>4. QED
    BY <2>2, <2>3
<1>10. QED
  BY <1>6, <1>7, <1>8, <1>9 DEF n, f

LEMMA ContentsKeys ==
  ASSUME NEW t \in GoodTables
  PROVE  /\ DOMAIN Contents(t) = KeysBetween(1, Length(t)) \cup DOMAIN t.hash
         /\ KeysBetween(1, Length(t)) \cap DOMAIN t.hash = {}
         /\ IsFiniteSet(DOMAIN Contents(t))
         /\ Cardinality(DOMAIN Contents(t)) = t.entries
<1> DEFINE K == KeysBetween(1, Length(t))
           D == DOMAIN t.hash
<1>1. /\ Longest(t) /\ Counted(t) /\ Length(t) = Len(t.array) /\ Length(t) \in Nat
      /\ IsFiniteSet(D) /\ Cardinality(D) \in Nat
  BY GoodTableIs
<1>2. DOMAIN Contents(t) = K \cup D
  BY DEF Contents, KeysBetween
<1>3. K \cap D = {}
  BY <1>1 DEF KeysBetween, Longest
<1>4. IsFiniteSet(K) /\ Cardinality(K) = Length(t)
  <2>1. 1 \in Int /\ Length(t) \in Int /\ 1 <= Length(t) + 1
    BY <1>1
  <2>2. IsFiniteSet(K) /\ Cardinality(K) = Length(t) - 1 + 1
    BY <2>1, KeysBetweenCount
  <2>3. QED
    BY <1>1, <2>2
<1> HIDE DEF K, D
<1>5. /\ IsFiniteSet(K \cup D)
      /\ Cardinality(K \cup D) = Cardinality(K) + Cardinality(D) - Cardinality(K \cap D)
  BY <1>1, <1>4, FS_Union
<1>6. Cardinality(K \cap D) = 0
  BY <1>3, FS_EmptySet
<1>7. t.entries = Length(t) + Cardinality(D)
  BY <1>1 DEF Counted, D
<1>8. Cardinality(K \cup D) = t.entries
  BY <1>1, <1>4, <1>5, <1>6, <1>7
<1>9. QED
  BY <1>2, <1>3, <1>5, <1>8 DEF K, D

(* Sorted keys are the keys of the table, each once. *)
LEMMA SortedKeysIs ==
  ASSUME NEW t \in GoodTables
  PROVE  /\ SortedKeys(t) \in Seq(LuaKeys) /\ IsInjective(SortedKeys(t))
         /\ \A k \in DOMAIN Contents(t) :
              \E i \in 1..Len(SortedKeys(t)) : SortedKeys(t)[i] = k
<1> DEFINE a == [i \in 1..Length(t) |-> IntKey(i)]
           b == InOrder(DOMAIN t.hash)
           n == Length(t)
           d == Cardinality(DOMAIN t.hash)
           s == SortedKeys(t)
<1>1. /\ n \in Nat /\ IsFiniteSet(DOMAIN t.hash) /\ DOMAIN t.hash \subseteq LuaKeys
      /\ d \in Nat
  BY GoodTableIs
<1>2. /\ b \in Seq(LuaKeys) /\ Len(b) = d
      /\ \A i \in 1..d : b[i] \in DOMAIN t.hash
      /\ \A i, j \in 1..d : b[i] = b[j] => i = j
      /\ \A k \in DOMAIN t.hash : \E i \in 1..d : b[i] = k
  BY <1>1, InOrderIs
<1>3. s = a \o b
  BY DEF SortedKeys
<1>4. /\ DOMAIN Contents(t) = KeysBetween(1, n) \cup DOMAIN t.hash
      /\ KeysBetween(1, n) \cap DOMAIN t.hash = {}
  BY ContentsKeys
<1> HIDE DEF n, d, b, s
<1>5. \A i \in 1..n : IntKey(i) \in LuaKeys /\ IntKey(i)[2] = i /\ IntKey(i) \in KeysBetween(1, n)
  BY <1>1, KeyShapes DEF KeysBetween
<1>6. a \in Seq(LuaKeys) /\ Len(a) = n /\ \A i \in 1..n : a[i] = IntKey(i)
  <2>1. a \in [1..n -> LuaKeys]
    BY <1>5 DEF n
  <2> DEFINE x == a
  <2>2. x \in [1..n -> LuaKeys]
    BY <2>1
  <2> HIDE DEF x
  <2>3. x \in Seq(LuaKeys) /\ Len(x) = n
    BY <1>1, <2>2
  <2>4. QED
    BY <2>3 DEF x, n
<1> HIDE DEF a
<1>7. s \in Seq(LuaKeys) /\ Len(s) = n + d
  <2>1. a \in Seq(LuaKeys) /\ b \in Seq(LuaKeys) /\ Len(a) = n /\ Len(b) = d
    BY <1>2, <1>6
  <2>2. a \o b \in Seq(LuaKeys)
    BY <2>1
  <2>3. Len(a \o b) = Len(a) + Len(b)
    BY <2>1
  <2>4. QED
    BY <1>3, <2>1, <2>2, <2>3
<1>8. ASSUME NEW i \in 1..n PROVE s[i] = IntKey(i)
  <2>1. i \in 1..Len(a)
    BY <1>6
  <2>2. s[i] = a[i]
    BY <1>2, <1>3, <1>6, <2>1
  <2>3. QED
    BY <1>6, <2>2
<1>9. ASSUME NEW i \in 1..d PROVE s[n + i] = b[i]
  <2>1. n + i \in 1..Len(a) + Len(b) /\ n + i > Len(a) /\ (n + i) - Len(a) = i
    BY <1>1, <1>2, <1>6
  <2>2. s[n + i] = b[(n + i) - Len(a)]
    BY <1>2, <1>3, <1>6, <2>1
  <2>3. QED
    BY <2>1, <2>2
<1>10. \A i \in 1..n + d : i \in 1..n \/ (i - n \in 1..d /\ n + (i - n) = i)
  BY <1>1
<1>11. ASSUME NEW i \in 1..n + d, NEW j \in 1..n + d, s[i] = s[j] PROVE i = j
  <2>1. CASE i \in 1..n /\ j \in 1..n
    BY <1>5, <1>8, <1>11, <2>1
  <2>2. CASE i - n \in 1..d /\ j - n \in 1..d
    <3>1. s[i] = b[i - n] /\ s[j] = b[j - n]
      <4>1. n + (i - n) = i /\ n + (j - n) = j
        BY <1>1
      <4>2. QED
        BY <1>9, <2>2, <4>1
    <3>2. i - n = j - n
      BY <1>2, <1>11, <2>2, <3>1
    <3>3. QED
      BY <1>1, <3>2
  <2>3. CASE i \in 1..n /\ j - n \in 1..d
    <3>1. n + (j - n) = j
      BY <1>1
    <3>2. s[i] \in KeysBetween(1, n) /\ s[j] \in DOMAIN t.hash
      BY <1>2, <1>5, <1>8, <1>9, <2>3, <3>1
    <3>3. QED
      BY <1>4, <1>11, <3>2
  <2>4. CASE j \in 1..n /\ i - n \in 1..d
    <3>1. n + (i - n) = i
      BY <1>1
    <3>2. s[j] \in KeysBetween(1, n) /\ s[i] \in DOMAIN t.hash
      BY <1>2, <1>5, <1>8, <1>9, <2>4, <3>1
    <3>3. QED
      BY <1>4, <1>11, <3>2
  <2>5. QED
    BY <1>10, <2>1, <2>2, <2>3, <2>4
<1>12. IsInjective(s)
  BY <1>7, <1>11 DEF IsInjective
<1>13. ASSUME NEW k \in DOMAIN Contents(t) PROVE \E i \in 1..Len(s) : s[i] = k
  <2>1. CASE k \in KeysBetween(1, n)
    <3>1. PICK i \in 1..n : k = IntKey(i)
      BY <2>1 DEF KeysBetween
    <3>2. i \in 1..Len(s)
      BY <1>1, <1>7
    <3>3. QED
      BY <1>8, <3>1, <3>2
  <2>2. CASE k \in DOMAIN t.hash
    <3>1. PICK i \in 1..d : b[i] = k
      BY <1>2, <2>2
    <3>2. n + i \in 1..Len(s)
      BY <1>1, <1>7
    <3>3. QED
      BY <1>9, <3>1, <3>2
  <2>3. QED
    BY <1>4, <2>1, <2>2
<1>14. QED
  BY <1>7, <1>12, <1>13 DEF s

-----------------------------------------------------------------------------
(* The steps of the program.                                               *)

LEMMA LiftedIs ==
  ASSUME NEW a \in Seq(Values), NEW b \in Seq(Values), NEW pos \in Nat, 1 <= pos
  PROVE  Lifted(b, a, pos) \in Seq(Values) /\ Len(Lifted(b, a, pos)) = Len(b)
<1> DEFINE x == Lifted(b, a, pos)
<1>1. Len(a) \in Nat /\ Len(b) \in Nat
  OBVIOUS
<1>2. \A p \in pos + 1..Len(a) : p - 1 \in 1..Len(a)
  BY <1>1
<1>3. x \in [1..Len(b) -> Values]
  BY <1>1, <1>2 DEF Lifted
<1> HIDE DEF x
<1>4. x \in Seq(Values) /\ Len(x) = Len(b)
  BY <1>1, <1>3
<1>5. QED
  BY <1>4 DEF x

LEMMA InsertPays ==
  ASSUME NEW m \in GoodMachines, NEW pos \in 1..Length(m.table) + 1,
         NEW v \in Values \cup {Nil}
  PROVE  Pays(m, TableInsert(m, pos, v))
<1> DEFINE len == Length(m.table)
           a == m.table.array
           c == Charge(m, 5 + len - pos + 1)
           s == SetPaid(c, IntKey(len + 1), a[len])
           w == Over(s, Lifted(s.table.array, a, pos))
<1>1. m.table \in GoodTables
  BY GoodMachineIs
<1>2. a \in Seq(Values) /\ len = Len(a) /\ len \in Nat
  BY <1>1, GoodTableIs
<1>3. pos \in 1..len + 1
  OBVIOUS
<1>4. TableInsert(m, pos, v) =
        IF pos = len + 1 THEN SetPaid(c, IntKey(pos), v)
        ELSE IF s.fault # "none" THEN s
        ELSE SetPaid(w, IntKey(pos), v)
  BY InsertIs
<1>5. Pays(m, c) /\ c \in GoodMachines /\ c.table = m.table
  <2>1. 5 + len - pos + 1 \in Nat
    <3> HIDE DEF len
    <3>1. QED
      BY <1>2, <1>3
  <2>2. QED
    BY <2>1, ChargePays DEF Pays
<1>6. IntKey(pos) \in LuaKeys /\ IntKey(len + 1) \in LuaKeys
  <2> HIDE DEF len
  <2>1. pos \in Int /\ len + 1 \in Int
    BY <1>2, <1>3
  <2>2. QED
    BY <2>1, KeyShapes
<1>7. CASE pos = len + 1
  <2>1. Pays(c, SetPaid(c, IntKey(pos), v))
    BY <1>5, <1>6, SetPaidPays
  <2> HIDE DEF c, len
  <2>2. QED
    BY <1>4, <1>5, <1>7, <2>1, PaysTwice
<1>8. CASE pos # len + 1
  <2>1. a[len] \in Values
    <3> HIDE DEF len, a
    <3>1. QED
      BY <1>2, <1>3, <1>8
  <2>2. Pays(c, s) /\ s \in GoodMachines
    BY <1>5, <1>6, <2>1, SetPaidPays DEF Pays
  <2>3. Pays(m, s)
    <3> HIDE DEF c, s
    <3>1. QED
      BY <1>5, <2>2, PaysTwice
  <2>4. CASE s.fault # "none"
    BY <1>4, <1>8, <2>3, <2>4
  <2>5. CASE s.fault = "none"
    <3> DEFINE b == s.table.array
    <3>0. c.fault = "none"
      BY <2>2, <2>5 DEF Pays
    <3>1. s.table = Extend(c.table, a[len])
      BY <1>5, <2>1, <3>0, SetPaidNext
    <3>2. s.table \in GoodTables
      BY <2>2, GoodMachineIs
    <3> HIDE DEF s
    <3>3. /\ Length(s.table) >= Length(c.table) + 1 /\ Length(s.table) = Len(b)
          /\ b \in Seq(Values)
      BY <1>1, <1>5, <2>1, <3>1, <3>2, ExtendByOne, GoodTableIs
    <3>4. Lifted(b, a, pos) \in Seq(Values) /\ Len(Lifted(b, a, pos)) = Length(s.table)
      <4> HIDE DEF a, b, len, c
      <4>1. pos \in Nat /\ 1 <= pos
        BY <1>2, <1>3
      <4>2. QED
        BY <1>2, <3>3, <4>1, LiftedIs
    <3>5. w \in GoodMachines /\ Pays(s, w)
      BY <2>2, <3>4, OverIsGood
    <3> HIDE DEF w, c, len, a, b
    <3>6. Pays(w, SetPaid(w, IntKey(pos), v))
      BY <1>6, <3>5, SetPaidPays
    <3>7. Pays(m, w)
      BY <2>3, <3>5, PaysTwice
    <3>8. Pays(m, SetPaid(w, IntKey(pos), v))
      BY <3>6, <3>7, PaysTwice
    <3>9. QED
      BY <1>4, <1>8, <2>5, <3>8
  <2>6. QED
    BY <2>4, <2>5
<1>9. QED
  BY <1>7, <1>8

LEMMA RemovePays ==
  ASSUME NEW m \in GoodMachines, NEW pos \in 1..Length(m.table)
  PROVE  Pays(m, TableRemove(m, pos))
<1> DEFINE c == Charge(m, 5 + Length(m.table) - pos)
           t == Rawremove(c.table, IntKey(pos))
           u == [c EXCEPT !.table = t]
<1>1. Length(m.table) \in Nat /\ m.table \in GoodTables
  BY GoodMachineIs, GoodTableIs
<1>2. Pays(m, c) /\ c \in GoodMachines /\ c.table = m.table
  <2>1. 5 + Length(m.table) - pos \in Nat
    BY <1>1
  <2>2. QED
    BY <2>1, ChargePays DEF Pays
<1>3. TableRemove(m, pos) = IF c.fault # "none" THEN c ELSE u
  BY RemoveIs
<1>4. t \in GoodTables /\ t.entries <= c.table.entries /\ t.capacity = c.table.capacity
  <2>1. IntKey(pos) \in LuaKeys
    BY <1>1, KeyShapes
  <2>2. QED
    BY <1>1, <1>2, <2>1, RawremoveIs
<1> HIDE DEF c, t
<1>5. /\ c \in Machines /\ c.mem \in Nat /\ (c.fault = "none" => c.table.entries <= MaxEntries)
      /\ c.table.entries \in Nat /\ c.table.capacity \in Nat
      /\ t.entries \in Nat /\ t.capacity \in Nat /\ MaxEntries \in Nat
  BY <1>2, <1>4, GoodMachineIs, GoodTableIs, MeteredAssumption
<1>6. u \in Machines /\ u.table = t /\ u.mem = c.mem /\ u.fault = c.fault
  BY <1>4, <1>5 DEF Machines
<1> HIDE DEF u
<1>7. u \in GoodMachines
  BY <1>4, <1>5, <1>6 DEF GoodMachines
<1>8. Pays(c, u)
  BY <1>4, <1>5, <1>6, <1>7 DEF Pays, ArraySlot, HashSlot
<1>9. Pays(m, u)
  BY <1>2, <1>8, PaysTwice
<1>10. QED
  BY <1>2, <1>3, <1>9

LEMMA SortPays ==
  ASSUME NEW m \in GoodMachines
  PROVE  Pays(m, TableSort(m))
<1> DEFINE c == Charge(m, SortGas(Length(m.table)))
           s == SortedSeq(m.table.array)
<1>1. /\ Length(m.table) \in Nat /\ m.table.array \in Seq(Values)
      /\ Length(m.table) = Len(m.table.array)
  BY GoodMachineIs, GoodTableIs
<1>2. Pays(m, c) /\ c \in GoodMachines /\ c.table = m.table
  BY <1>1, SortGasIsNat, ChargePays DEF Pays
<1>3. s \in Seq(Values) /\ Len(s) = Length(c.table)
  BY <1>1, <1>2, SortedSeqIs
<1>4. TableSort(m) = IF Length(m.table) <= 1 THEN m ELSE IF c.fault # "none" THEN c
                     ELSE Over(c, s)
  BY SortIs
<1> HIDE DEF c, s
<1>5. Pays(c, Over(c, s))
  BY <1>2, <1>3, OverIsGood
<1>6. Pays(m, Over(c, s))
  BY <1>2, <1>5, PaysTwice
<1>7. QED
  BY <1>2, <1>4, <1>6, PaysNothing

LEMMA MoveIsGood ==
  ASSUME NEW m \in GoodMachines, NEW first \in 1..Length(m.table) + 1,
         NEW last \in 1..Length(m.table) + 1, NEW pos \in 1..Length(m.table) + 1
  PROVE  TableMove(m, first, last, pos) \in GoodMachines
<1>1. Length(m.table) \in Nat
  BY GoodMachineIs, GoodTableIs
<1>2. CASE first > last
  BY <1>2 DEF TableMove
<1>3. CASE ~(first > last)
  <2>1. first <= last /\ last - first + 1 \in Nat
    BY <1>1, <1>3
  <2>2. PICK f : /\ Unrolls(f, GoodMachines, Charge(m, last - first + 1),
                            MoveStep(m.table, first, pos), last - first + 1)
                 /\ TableMove(m, first, last, pos) = f[last - first + 1]
    BY <2>1, MoveIs
  <2>3. f \in [0..last - first + 1 -> GoodMachines]
    BY <2>2 DEF Unrolls
  <2>4. QED
    BY <2>1, <2>2, <2>3
<1>4. QED
  BY <1>2, <1>3

-----------------------------------------------------------------------------
(* The state of the program is one of a good table under its meters. *)
TableInv == Working \in GoodMachines

Moved == \E f, e, p \in 1..Length(table) + 1 : MoveRange(f, e, p)

(* Init makes the table and its meters good (LuaTable::new).               *)
LEMMA InitTable == Init => TableInv
<1> SUFFICES ASSUME Init PROVE Working \in GoodMachines
  BY DEF TableInv
<1>1. /\ Working.table = EmptyTable /\ Working.gas = GasLimit /\ Working.mem = TableBase
      /\ Working.fault = "none"
  BY DEF Init, Working
<1>2. EmptyTable \in GoodTables /\ EmptyTable.entries = 0
  BY EmptyIsGood DEF EmptyTable
<1>3. TableBase \in Nat /\ GasLimit \in 0..GasLimit /\ 0 <= MaxEntries
  BY MeteredAssumption DEF TableBase
<1>4. Working \in Machines
  BY <1>1, <1>2, <1>3 DEF Machines, Working
<1>5. QED
  BY <1>1, <1>2, <1>3, <1>4 DEF GoodMachines

(* Every step leaves the table good, and has paid for what it stored       *)
(* unless it is a move.                                                    *)
LEMMA StepTable ==
  TableInv /\ [Next]_vars => TableInv' /\ (Moved \/ Pays(Working, Working'))
<1> SUFFICES ASSUME TableInv, [Next]_vars
             PROVE  TableInv' /\ (Moved \/ Pays(Working, Working'))
  OBVIOUS
<1>1. Working \in GoodMachines /\ Working.table = table
  BY DEF TableInv, Working
<1>2. ASSUME NEW m, Becomes(m), m \in GoodMachines PROVE Working' = m
  <2>1. m = [table |-> m.table, gas |-> m.gas, mem |-> m.mem, fault |-> m.fault]
    BY <1>2, GoodMachineIs DEF Machines
  <2>2. QED
    BY <1>2, <2>1 DEF Becomes, Working
<1>3. ASSUME NEW m, Becomes(m), Pays(Working, m)
      PROVE  TableInv' /\ Pays(Working, Working')
  <2>1. m \in GoodMachines
    BY <1>3 DEF Pays
  <2>2. Working' = m
    BY <1>2, <1>3, <2>1
  <2>3. QED
    BY <1>3, <2>1, <2>2 DEF TableInv
<1>4. ASSUME UNCHANGED <<table, gas, mem, fault>>
      PROVE  TableInv' /\ Pays(Working, Working')
  <2>1. Working' = Working
    BY <1>4 DEF Working
  <2>2. QED
    BY <1>1, <2>1, PaysNothing DEF TableInv
<1>5. ASSUME NEW k \in Keys, NEW v \in Values \cup {Nil}, SetKey(k, v)
      PROVE  TableInv' /\ Pays(Working, Working')
  <2>1. k \in LuaKeys
    BY MeteredAssumption
  <2>2. Pays(Working, DoRawset(Working, k, v))
    BY <1>1, <2>1, DoRawsetPays
  <2>3. QED
    BY <1>3, <1>5, <2>2 DEF SetKey, Operate
<1>6. ASSUME NEW p \in 1..Length(table) + 1, NEW v \in Values \cup {Nil}, InsertAtPos(p, v)
      PROVE  TableInv' /\ Pays(Working, Working')
  <2>1. Pays(Working, TableInsert(Working, p, v))
    BY <1>1, InsertPays
  <2>2. QED
    BY <1>3, <1>6, <2>1 DEF InsertAtPos, Operate
<1>7. ASSUME NEW p \in 1..Length(table), RemovePos(p)
      PROVE  TableInv' /\ Pays(Working, Working')
  <2>1. Pays(Working, TableRemove(Working, p))
    BY <1>1, RemovePays
  <2>2. QED
    BY <1>3, <1>7, <2>1 DEF RemovePos, Operate
<1>8. ASSUME NEW f \in 1..Length(table) + 1, NEW e \in 1..Length(table) + 1,
             NEW p \in 1..Length(table) + 1, MoveRange(f, e, p)
      PROVE  TableInv' /\ Moved
  <2>1. TableMove(Working, f, e, p) \in GoodMachines
    BY <1>1, MoveIsGood
  <2>2. Becomes(TableMove(Working, f, e, p))
    BY <1>8 DEF MoveRange, Operate
  <2>3. Working' = TableMove(Working, f, e, p)
    BY <1>2, <2>1, <2>2
  <2>4. QED
    BY <1>8, <2>1, <2>3 DEF TableInv, Moved
<1>9. ASSUME Sort PROVE TableInv' /\ Pays(Working, Working')
  <2>1. Pays(Working, TableSort(Working))
    BY <1>1, SortPays
  <2>2. QED
    BY <1>3, <1>9, <2>1 DEF Sort, Operate
<1>10. ASSUME IterInitSorted PROVE TableInv' /\ Pays(Working, Working')
  <2> DEFINE n == SortGas(Len(SortedKeys(table)))
  <2>1. n \in Nat
    <3>1. SortedKeys(table) \in Seq(LuaKeys)
      BY <1>1, GoodMachineIs, SortedKeysIs
    <3>2. Len(SortedKeys(table)) \in Nat
      BY <3>1
    <3>3. QED
      BY <3>2, SortGasIsNat
  <2>2. Becomes(Charge(Working, n))
    BY <1>10 DEF IterInitSorted
  <2> HIDE DEF n
  <2>3. Pays(Working, Charge(Working, n))
    BY <1>1, <2>1, ChargePays
  <2>4. QED
    BY <1>3, <2>2, <2>3
<1>11. ASSUME IterInitArray PROVE TableInv' /\ Pays(Working, Working')
  <2>1. Becomes(Charge(Working, 1))
    BY <1>11 DEF IterInitArray
  <2>2. Pays(Working, Charge(Working, 1))
    BY <1>1, ChargePays
  <2>3. QED
    BY <1>3, <2>1, <2>2
<1>12. ASSUME IterNext PROVE TableInv' /\ Pays(Working, Working')
  <2> DEFINE n == IF handle.kind = "sorted" THEN IterSortedStep ELSE IterArrayStep
  <2>1. n \in Nat
    BY DEF IterSortedStep, IterArrayStep
  <2>2. UNCHANGED <<table, gas, mem, fault>> \/ Becomes(Charge(Working, n))
    BY <1>12 DEF IterNext
  <2> HIDE DEF n
  <2>3. Pays(Working, Charge(Working, n))
    BY <1>1, <2>1, ChargePays
  <2>4. QED
    BY <1>3, <1>4, <2>2, <2>3
<1>13. ASSUME Break PROVE TableInv' /\ Pays(Working, Working')
  BY <1>4, <1>13 DEF Break
<1>14. ASSUME UNCHANGED vars PROVE TableInv' /\ Pays(Working, Working')
  BY <1>4, <1>14 DEF vars
<1>15. QED
  BY <1>5, <1>6, <1>7, <1>8, <1>9, <1>10, <1>11, <1>12, <1>13, <1>14 DEF Next, Body

(* The state of every run is good: the limit, the layout and the           *)
(* accounts never need more than that (LuaTable, GasMeter, MemoryMeter).   *)
THEOREM TablesAreGood == Spec => []TableInv
<1>1. TableInv /\ [Next]_vars => TableInv'
  BY StepTable
<1>2. QED
  BY <1>1, InitTable, PTL DEF Spec

(* The layout of a table follows from its contents, and the entry count    *)
(* is the number of its keys, after any history (rawset_tracked,           *)
(* rawremove).                                                             *)
THEOREM LayoutAlwaysFollows == Spec => []LayoutFollowsContents
<1>1. TableInv => LayoutFollowsContents
  <2> SUFFICES ASSUME TableInv PROVE LayoutFollowsContents
    OBVIOUS
  <2>1. table \in GoodTables
    BY GoodMachineIs DEF TableInv, Working
  <2>2. Longest(table) /\ Length(table) = Len(table.array)
    BY <2>1, GoodTableIs
  <2>3. Cardinality(DOMAIN Contents(table)) = table.entries
    BY <2>1, ContentsKeys
  <2>4. QED
    BY <2>2, <2>3 DEF LayoutFollowsContents, Longest
<1>2. QED
  BY <1>1, TablesAreGood, PTL

(* The hash part is never fuller than three quarters of the capacity       *)
(* charged for (update_hash_capacity).                                     *)
THEOREM HashIsAlwaysCovered == Spec => []HashIsCovered
<1>1. TableInv => HashIsCovered
  <2> SUFFICES ASSUME TableInv PROVE HashIsCovered
    OBVIOUS
  <2>1. table \in GoodTables
    BY GoodMachineIs DEF TableInv, Working
  <2>2. QED
    BY <2>1, GoodTableIs DEF HashIsCovered, Covered
<1>2. QED
  BY <1>1, TablesAreGood, PTL

(* A running program never sees a table over the limit (rawset_tracked).   *)
THEOREM TheLimitAlwaysStops == Spec => []LimitStops
<1>1. TableInv => LimitStops
  BY GoodMachineIs DEF TableInv, Working, LimitStops
<1>2. QED
  BY <1>1, TablesAreGood, PTL

(* Every step but a move has paid for the entries and the capacity it      *)
(* stored (do_rawset, charge_rawset_result).                               *)
THEOREM StoresAreAlwaysPaid == Spec => StoresArePaid
<1> DEFINE spent == mem' - mem
           moved == \E f, e, p \in 1..Length(table) + 1 : MoveRange(f, e, p)
           Paid == fault' = "none" /\ ~moved =>
                     /\ spent >= ArraySlot * (table'.entries - table.entries)
                     /\ spent >= HashSlot * (table'.capacity - table.capacity)
<1>1. TableInv /\ [Next]_vars => Paid
  <2> SUFFICES ASSUME TableInv, [Next]_vars, fault' = "none", ~moved
               PROVE  /\ spent >= ArraySlot * (table'.entries - table.entries)
                      /\ spent >= HashSlot * (table'.capacity - table.capacity)
    OBVIOUS
  <2>1. Pays(Working, Working')
    BY StepTable DEF Moved
  <2>2. /\ Working.mem = mem /\ Working.table = table
        /\ Working'.mem = mem' /\ Working'.table = table' /\ Working'.fault = fault'
    BY DEF Working
  <2>3. QED
    BY <2>1, <2>2 DEF Pays
<1>2. QED
  BY <1>1, TablesAreGood, PTL DEF Spec, StoresArePaid

-----------------------------------------------------------------------------
(* Loops.                                                                  *)

(* A sorted loop has the keys the table began with, each once, and has     *)
(* given the body those before its index.                                  *)
SortedLoop ==
  /\ handle = [kind |-> "sorted", keys |-> handle.keys, index |-> handle.index]
  /\ handle.keys \in Seq(LuaKeys) /\ IsInjective(handle.keys)
  /\ handle.index \in 0..Len(handle.keys)
  /\ Len(seen) = handle.index /\ \A i \in 1..handle.index : seen[i] = handle.keys[i]
  /\ \A k \in kept : \E i \in 1..Len(handle.keys) : handle.keys[i] = k

(* A loop over the array has given the body 1, 2 and so on. *)
ArrayLoop ==
  /\ handle = [kind |-> "array", keys |-> << >>, index |-> handle.index]
  /\ handle.index \in Nat /\ handle.index >= 1
  /\ Len(seen) = handle.index - 1 /\ \A i \in 1..handle.index - 1 : seen[i] = IntKey(i)

LoopInv ==
  /\ kept \subseteq DOMAIN Contents(table)
  /\ seen \in Seq(LuaKeys) /\ IsInjective(seen)
  /\ handle = NoHandle \/ SortedLoop \/ ArrayLoop

(* One more key, new to the list. *)
LEMMA AppendNew ==
  ASSUME NEW V, NEW s \in Seq(V), NEW k \in V, IsInjective(s), \A i \in 1..Len(s) : s[i] # k
  PROVE  /\ Append(s, k) \in Seq(V) /\ IsInjective(Append(s, k))
         /\ Len(Append(s, k)) = Len(s) + 1 /\ Append(s, k)[Len(s) + 1] = k
         /\ \A i \in 1..Len(s) : Append(s, k)[i] = s[i]
<1> DEFINE t == Append(s, k)
<1>1. Len(s) \in Nat /\ DOMAIN s = 1..Len(s)
  OBVIOUS
<1>2. /\ t \in Seq(V) /\ Len(t) = Len(s) + 1 /\ t[Len(s) + 1] = k
      /\ \A i \in 1..Len(s) : t[i] = s[i]
  OBVIOUS
<1>3. DOMAIN t = 1..Len(s) + 1
  BY <1>2
<1> HIDE DEF t
<1>4. ASSUME NEW i \in 1..Len(s) + 1, NEW j \in 1..Len(s) + 1, t[i] = t[j] PROVE i = j
  <2>1. (i \in 1..Len(s) \/ i = Len(s) + 1) /\ (j \in 1..Len(s) \/ j = Len(s) + 1)
    BY <1>1
  <2>2. QED
    BY <1>1, <1>2, <1>4, <2>1 DEF IsInjective
<1>5. IsInjective(t)
  BY <1>3, <1>4 DEF IsInjective
<1>6. QED
  BY <1>2, <1>5 DEF t

(* Init has no loop.                                                       *)
LEMMA InitLoop == Init => LoopInv
<1> SUFFICES ASSUME Init PROVE LoopInv
  OBVIOUS
<1>1. seen \in Seq(LuaKeys) /\ IsInjective(seen)
  BY DEF Init, IsInjective
<1>2. kept = {} /\ handle = NoHandle
  BY DEF Init
<1>3. QED
  BY <1>1, <1>2 DEF LoopInv

(* The body of a loop leaves its handle alone (do_rawset, table_insert,    *)
(* table_remove, table_move, table_sort).                                  *)
LEMMA BodyLoop ==
  ASSUME LoopInv, NEW name, NEW m, Operate(name, m)
  PROVE  LoopInv'
<1>1. kept' = kept \cap DOMAIN Contents(table') /\ handle' = handle /\ seen' = seen
  BY DEF Operate
<1>2. (kept \subseteq DOMAIN Contents(table))' /\ kept' \subseteq kept
  BY <1>1
<1>3. (seen \in Seq(LuaKeys) /\ IsInjective(seen))'
  BY <1>1 DEF LoopInv
<1>4. SortedLoop => SortedLoop'
  BY <1>1, <1>2 DEF SortedLoop
<1>5. ArrayLoop => ArrayLoop'
  BY <1>1 DEF ArrayLoop
<1>6. (handle = NoHandle \/ SortedLoop \/ ArrayLoop)'
  BY <1>1, <1>4, <1>5 DEF LoopInv, NoHandle
<1>7. QED
  BY <1>2, <1>3, <1>6 DEF LoopInv

(* A loop begins with all the keys of the table (IterInitSorted).          *)
LEMMA BeginSorted == ASSUME TableInv, IterInitSorted PROVE LoopInv'
<1> DEFINE s == SortedKeys(table)
<1>1. table \in GoodTables /\ Working.table = table
  BY GoodMachineIs DEF TableInv, Working
<1>2. /\ s \in Seq(LuaKeys) /\ IsInjective(s)
      /\ \A k \in DOMAIN Contents(table) : \E i \in 1..Len(s) : s[i] = k
  BY <1>1, SortedKeysIs
<1>3. Len(s) \in Nat
  BY <1>2
<1>4. table' = Charge(Working, SortGas(Len(s))).table
  BY DEF IterInitSorted, Becomes
<1>5. table' = table
  <2>1. SortGas(Len(s)) \in Nat
    BY <1>3, SortGasIsNat
  <2>2. QED
    BY <1>1, <1>4, <2>1, ChargePays DEF TableInv
<1>6. /\ seen' = << >> /\ kept' = DOMAIN Contents(table)
      /\ handle' = NoHandle \/ handle' = [kind |-> "sorted", keys |-> s, index |-> 0]
  BY DEF IterInitSorted
<1> HIDE DEF s
<1>7. (kept \subseteq DOMAIN Contents(table))'
  BY <1>5, <1>6
<1>8. (seen \in Seq(LuaKeys) /\ IsInjective(seen))'
  BY <1>6 DEF IsInjective
<1>9. ASSUME handle' = [kind |-> "sorted", keys |-> s, index |-> 0] PROVE SortedLoop'
  <2>1. handle'.keys = s /\ handle'.index = 0
    BY <1>9
  <2>2. Len(seen') = 0 /\ 0 \in 0..Len(s)
    BY <1>3, <1>6
  <2>3. \A i \in 1..0 : seen'[i] = s[i]
    OBVIOUS
  <2>4. QED
    BY <1>2, <1>6, <1>9, <2>1, <2>2, <2>3 DEF SortedLoop
<1>10. (handle = NoHandle \/ SortedLoop \/ ArrayLoop)'
  BY <1>6, <1>9 DEF NoHandle
<1>11. QED
  BY <1>7, <1>8, <1>10 DEF LoopInv

(* A loop over the array begins at 1 (IterInitArray).                      *)
LEMMA BeginArray == ASSUME TableInv, IterInitArray PROVE LoopInv'
<1>1. Working.table = table
  BY DEF Working
<1>2. table' = table
  BY <1>1, ChargePays DEF TableInv, IterInitArray, Becomes
<1>3. /\ seen' = << >> /\ kept' = DOMAIN Contents(table)
      /\ handle' = NoHandle \/ handle' = [kind |-> "array", keys |-> << >>, index |-> 1]
  BY DEF IterInitArray
<1>4. (kept \subseteq DOMAIN Contents(table))'
  BY <1>2, <1>3
<1>5. (seen \in Seq(LuaKeys) /\ IsInjective(seen))'
  BY <1>3 DEF IsInjective
<1>6. ASSUME handle' = [kind |-> "array", keys |-> << >>, index |-> 1] PROVE ArrayLoop'
  BY <1>3, <1>6 DEF ArrayLoop
<1>7. (handle = NoHandle \/ SortedLoop \/ ArrayLoop)'
  BY <1>3, <1>6 DEF NoHandle
<1>8. QED
  BY <1>4, <1>5, <1>7 DEF LoopInv

(* A turn of a loop gives the body a key it has not seen (IterNext).       *)
LEMMA TurnLoop == ASSUME TableInv, LoopInv, IterNext PROVE LoopInv'
<1>1. UNCHANGED <<table, kept>>
  <2> DEFINE n == IF handle.kind = "sorted" THEN IterSortedStep ELSE IterArrayStep
  <2>1. n \in Nat
    BY DEF IterSortedStep, IterArrayStep
  <2>2. UNCHANGED table \/ table' = Charge(Working, n).table
    BY DEF IterNext, Becomes
  <2> HIDE DEF n
  <2>3. Charge(Working, n).table = Working.table
    BY <2>1, ChargePays DEF TableInv
  <2>4. Working.table = table
    BY DEF Working
  <2>5. UNCHANGED kept
    BY DEF IterNext
  <2>6. QED
    BY <2>2, <2>3, <2>4, <2>5
<1>2. (kept \subseteq DOMAIN Contents(table))'
  BY <1>1 DEF LoopInv
<1>3. CASE Exhausted(handle)
  <2>1. handle' = NoHandle /\ seen' = seen
    BY <1>3 DEF IterNext
  <2>2. QED
    BY <1>2, <2>1 DEF LoopInv, NoHandle
<1>4. CASE ~Exhausted(handle)
  <2>1. /\ seen' = Append(seen, NextKey(handle))
        /\ handle' = NoHandle \/ handle' = [handle EXCEPT !.index = @ + 1]
        /\ handle # NoHandle
    BY <1>4 DEF IterNext
  <2>2. seen \in Seq(LuaKeys) /\ IsInjective(seen)
    BY DEF LoopInv
  <2>3. CASE SortedLoop
    <3> DEFINE i == handle.index
               s == handle.keys
    <3>1. /\ handle = [kind |-> "sorted", keys |-> s, index |-> i]
          /\ s \in Seq(LuaKeys) /\ IsInjective(s) /\ i \in 0..Len(s)
          /\ Len(seen) = i /\ \A j \in 1..i : seen[j] = s[j]
          /\ \A k \in kept : \E j \in 1..Len(s) : s[j] = k
      BY <2>3 DEF SortedLoop
    <3>2. handle.kind = "sorted"
      BY <3>1
    <3>3. Len(s) \in Nat /\ DOMAIN s = 1..Len(s)
      BY <3>1
    <3>4. i < Len(s) /\ NextKey(handle) = s[i + 1]
      BY <1>4, <3>1, <3>2, <3>3 DEF Exhausted, NextKey
    <3>5. ASSUME handle' = [handle EXCEPT !.index = @ + 1]
          PROVE  handle' = [kind |-> "sorted", keys |-> s, index |-> i + 1]
      BY <3>1, <3>5
    <3> HIDE DEF i, s
    <3>6. i \in Nat /\ i + 1 \in 1..Len(s) /\ i + 1 \in 0..Len(s)
      BY <3>1, <3>3, <3>4
    <3>7. s[i + 1] \in LuaKeys /\ \A j \in 1..Len(seen) : seen[j] # s[i + 1]
      <4>1. s[i + 1] \in LuaKeys
        BY <3>1, <3>6
      <4>2. ASSUME NEW j \in 1..i, s[j] = s[i + 1] PROVE FALSE
        <5>1. j \in 1..Len(s) /\ j # i + 1
          BY <3>3, <3>6
        <5>2. QED
          BY <3>1, <3>3, <3>6, <4>2, <5>1 DEF IsInjective
      <4>3. QED
        BY <3>1, <4>1, <4>2
    <3>8. /\ seen' \in Seq(LuaKeys) /\ IsInjective(seen') /\ Len(seen') = i + 1
          /\ seen'[i + 1] = s[i + 1] /\ \A j \in 1..i : seen'[j] = seen[j]
      BY <2>1, <2>2, <3>1, <3>4, <3>7, AppendNew
    <3>9. \A j \in 1..i + 1 : seen'[j] = s[j]
      <4>1. \A j \in 1..i + 1 : j \in 1..i \/ j = i + 1
        BY <3>6
      <4>2. QED
        BY <3>1, <3>8, <4>1
    <3>10. ASSUME handle' = [handle EXCEPT !.index = @ + 1] PROVE SortedLoop'
      <4>1. handle' = [kind |-> "sorted", keys |-> s, index |-> i + 1]
        BY <3>5, <3>10
      <4>2. handle'.keys = s /\ handle'.index = i + 1
        BY <4>1
      <4>3. \A k \in kept' : \E j \in 1..Len(s) : s[j] = k
        BY <1>1, <3>1
      <4>4. QED
        BY <3>1, <3>6, <3>8, <3>9, <4>1, <4>2, <4>3 DEF SortedLoop
    <3>11. (handle = NoHandle \/ SortedLoop \/ ArrayLoop)'
      BY <2>1, <3>10 DEF NoHandle
    <3>12. QED
      BY <1>2, <3>8, <3>11 DEF LoopInv
  <2>4. CASE ArrayLoop
    <3> DEFINE i == handle.index
    <3>1. /\ handle = [kind |-> "array", keys |-> << >>, index |-> i]
          /\ i \in Nat /\ i >= 1
          /\ Len(seen) = i - 1 /\ \A j \in 1..i - 1 : seen[j] = IntKey(j)
      BY <2>4 DEF ArrayLoop
    <3>2. handle.kind = "array"
      BY <3>1
    <3>3. NextKey(handle) = IntKey(i)
      BY <3>2 DEF NextKey
    <3>4. ASSUME handle' = [handle EXCEPT !.index = @ + 1]
          PROVE  handle' = [kind |-> "array", keys |-> << >>, index |-> i + 1]
      BY <3>1, <3>4
    <3> HIDE DEF i
    <3>5. IntKey(i) \in LuaKeys /\ \A j \in 1..i - 1 : IntKey(j) # IntKey(i)
      BY <3>1, KeyShapes
    <3>6. \A j \in 1..Len(seen) : seen[j] # IntKey(i)
      BY <3>1, <3>5
    <3>7. /\ seen' \in Seq(LuaKeys) /\ IsInjective(seen') /\ Len(seen') = Len(seen) + 1
          /\ seen'[Len(seen) + 1] = IntKey(i) /\ \A j \in 1..Len(seen) : seen'[j] = seen[j]
      BY <2>1, <2>2, <3>3, <3>5, <3>6, AppendNew
    <3>8. Len(seen') = (i + 1) - 1 /\ Len(seen) + 1 = i /\ Len(seen) = i - 1
      BY <3>1, <3>7
    <3>9. \A j \in 1..(i + 1) - 1 : seen'[j] = IntKey(j)
      <4>1. \A j \in 1..(i + 1) - 1 : j \in 1..i - 1 \/ j = i
        BY <3>1
      <4>2. QED
        BY <3>1, <3>7, <3>8, <4>1
    <3>10. ASSUME handle' = [handle EXCEPT !.index = @ + 1] PROVE ArrayLoop'
      <4>1. handle' = [kind |-> "array", keys |-> << >>, index |-> i + 1]
        BY <3>4, <3>10
      <4>2. handle'.index = i + 1
        BY <4>1
      <4>3. i + 1 \in Nat /\ i + 1 >= 1
        BY <3>1
      <4>4. QED
        BY <3>8, <3>9, <4>1, <4>2, <4>3 DEF ArrayLoop
    <3>11. (handle = NoHandle \/ SortedLoop \/ ArrayLoop)'
      BY <2>1, <3>10 DEF NoHandle
    <3>12. QED
      BY <1>2, <3>7, <3>11 DEF LoopInv
  <2>5. QED
    BY <2>1, <2>3, <2>4 DEF LoopInv
<1>5. QED
  BY <1>3, <1>4

LEMMA StepLoop == TableInv /\ LoopInv /\ [Next]_vars => LoopInv'
<1> SUFFICES ASSUME TableInv, LoopInv, [Next]_vars PROVE LoopInv'
  OBVIOUS
<1>1. ASSUME Body PROVE LoopInv'
  <2>1. \E name, m : Operate(name, m)
    BY <1>1 DEF Body, SetKey, InsertAtPos, RemovePos, MoveRange, Sort
  <2>2. QED
    BY <2>1, BodyLoop
<1>2. ASSUME Break PROVE LoopInv'
  <2>1. UNCHANGED <<table, seen, kept>> /\ handle' = NoHandle
    BY <1>2 DEF Break
  <2>2. QED
    BY <2>1 DEF LoopInv, NoHandle
<1>3. ASSUME UNCHANGED vars PROVE LoopInv'
  <2>1. UNCHANGED <<table, handle, seen, kept>>
    BY <1>3 DEF vars
  <2>2. (SortedLoop => SortedLoop') /\ (ArrayLoop => ArrayLoop')
    BY <2>1 DEF SortedLoop, ArrayLoop
  <2>3. QED
    BY <2>1, <2>2 DEF LoopInv, NoHandle
<1>4. QED
  BY <1>1, <1>2, <1>3, BeginSorted, BeginArray, TurnLoop DEF Next

LEMMA LoopsAreGood == Spec => []LoopInv
<1>1. Init => LoopInv
  BY InitLoop
<1>2. TableInv /\ LoopInv /\ [Next]_vars => LoopInv'
  BY StepLoop
<1>3. QED
  BY <1>1, <1>2, TablesAreGood, PTL DEF Spec

(* The state of the table, the meters and the loop has its type.           *)
THEOREM TablesAreTyped == Spec => []TypeOK
<1>1. TableInv /\ LoopInv => TypeOK
  <2> SUFFICES ASSUME TableInv, LoopInv PROVE TypeOK
    OBVIOUS
  <2>1. /\ table \in GoodTables /\ gas \in 0..GasLimit /\ mem \in Nat
        /\ fault \in {"none", "gas", "memory"}
    BY GoodMachineIs DEF TableInv, Working
  <2>2. /\ table.array \in Seq(Values) /\ table.hash \in [DOMAIN table.hash -> Values]
        /\ table.entries \in Nat /\ table.capacity \in Nat
    BY <2>1, GoodTableIs
  <2>3. handle.kind \in {"none", "sorted", "array"} /\ kept \subseteq DOMAIN Contents(table)
    <3>1. SortedLoop => handle.kind = "sorted"
      BY DEF SortedLoop
    <3>2. ArrayLoop => handle.kind = "array"
      BY DEF ArrayLoop
    <3>3. QED
      BY <3>1, <3>2 DEF LoopInv, NoHandle
  <2>4. QED
    BY <2>1, <2>2, <2>3 DEF TypeOK
<1>2. QED
  BY <1>1, TablesAreGood, LoopsAreGood, PTL

(* No loop gives its body a key twice, whatever the body does to the table *)
(* (IterNext).                                                             *)
THEOREM EachKeyComesOnce == Spec => []EachKeyOnce
<1>1. LoopInv => EachKeyOnce
  BY DEF LoopInv, EachKeyOnce
<1>2. QED
  BY <1>1, LoopsAreGood, PTL

(* A sorted loop that comes to its end has given its body every key the    *)
(* table had all along (IterInitSorted, IterNext).                         *)
THEOREM SortedLoopsAreComplete == Spec => LoopIsComplete
<1> DEFINE Complete == handle.kind = "sorted" /\ IterNext /\ handle' = NoHandle /\ fault' = "none"
                       => kept \subseteq ToSet(seen)
<1>1. LoopInv => Complete
  <2> SUFFICES ASSUME LoopInv, handle.kind = "sorted", IterNext, handle' = NoHandle,
                      fault' = "none"
               PROVE  kept \subseteq ToSet(seen)
    OBVIOUS
  <2>1. SortedLoop
    BY DEF LoopInv, NoHandle, ArrayLoop
  <2>2. Exhausted(handle)
    <3> SUFFICES ASSUME ~Exhausted(handle) PROVE FALSE
      OBVIOUS
    <3> DEFINE m == Charge(Working, IF handle.kind = "sorted" THEN IterSortedStep
                                    ELSE IterArrayStep)
    <3>1. /\ fault' = m.fault
          /\ handle' = IF m.fault # "none" THEN NoHandle ELSE [handle EXCEPT !.index = @ + 1]
      BY DEF IterNext, Becomes
    <3> HIDE DEF m
    <3>2. handle' = [handle EXCEPT !.index = @ + 1]
      BY <3>1
    <3>3. handle'.kind = "sorted"
      BY <2>1, <3>2 DEF SortedLoop
    <3>4. QED
      BY <3>3 DEF NoHandle
  <2>3. /\ handle.keys \in Seq(LuaKeys) /\ handle.index \in 0..Len(handle.keys)
        /\ Len(seen) = handle.index /\ \A i \in 1..handle.index : seen[i] = handle.keys[i]
        /\ \A k \in kept : \E i \in 1..Len(handle.keys) : handle.keys[i] = k
    BY <2>1 DEF SortedLoop
  <2>4. handle.index = Len(handle.keys)
    <3>1. handle.index >= Len(handle.keys)
      BY <2>2 DEF Exhausted
    <3>2. Len(handle.keys) \in Nat
      BY <2>3
    <3>3. QED
      BY <2>3, <3>1, <3>2
  <2>5. seen \in Seq(LuaKeys)
    BY DEF LoopInv
  <2>6. \A i \in 1..Len(seen) : seen[i] \in ToSet(seen)
    BY <2>5 DEF ToSet
  <2>7. QED
    BY <2>3, <2>4, <2>6
<1>2. QED
  BY <1>1, LoopsAreGood, PTL DEF Spec, LoopIsComplete
=============================================================================
