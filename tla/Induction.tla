----------------------------- MODULE Induction -----------------------------
(***************************************************************************)
(* What the proofs of this project need of induction and recursion, stated *)
(* about sets and functions rather than about predicates and operators:    *)
(* induction over a number and over the subsets of a finite set, functions *)
(* defined by recursion, and sums over finite sets (SumFunctionOnSet).     *)
(***************************************************************************)
EXTENDS Integers, FiniteSets, Functions, FiniteSetTheorems, NaturalsInduction, TLAPS

-----------------------------------------------------------------------------
(* Numbers.                                                                *)

LEMMA LeastNat ==
  ASSUME NEW T \in SUBSET Nat, T # {}
  PROVE  \E n \in T : \A m \in T : n <= m
<1> DEFINE R == OpToRel(<, Nat)
<1>1. IsWellFoundedOn(R, Nat)
  BY NatLessThanWellFounded
<1>2. \A i, j \in Nat : <<i, j>> \in R <=> i < j
  BY DEF OpToRel
<1> HIDE DEF R
<1>3. PICK n \in T : \A m \in T : ~(<<m, n>> \in R)
  BY <1>1, WFMin
<1>4. ASSUME NEW m \in T PROVE n <= m
  <2>1. n \in Nat /\ m \in Nat
    OBVIOUS
  <2>2. ~(m < n)
    BY <1>2, <1>3, <2>1
  <2>3. QED
    BY <2>1, <2>2
<1>5. QED
  BY <1>4

LEMMA NatInd ==
  ASSUME NEW T \in SUBSET Nat, 0 \in T, \A n \in T : n + 1 \in T
  PROVE  T = Nat
<1> SUFFICES ASSUME Nat \ T # {} PROVE FALSE
  OBVIOUS
<1>1. PICK n \in Nat \ T : \A m \in Nat \ T : n <= m
  BY LeastNat
<1>2. n # 0 /\ n - 1 \in Nat
  BY <1>1
<1>3. n - 1 \in T
  BY <1>1, <1>2
<1>4. (n - 1) + 1 \in T
  BY <1>3
<1>5. QED
  BY <1>2, <1>4

(* A function on 0..n defined from its value one below. *)
IsStep(S, step, n) == \A i \in 1..n, s \in S : step[i][s] \in S

Unrolls(f, S, c, step, n) ==
  /\ f \in [0..n -> S] /\ f[0] = c
  /\ \A i \in 1..n : f[i] = step[i][f[i-1]]

LEMMA Recursion ==
  ASSUME NEW S, NEW c \in S, NEW step, NEW n \in Nat, IsStep(S, step, n)
  PROVE  \E f : Unrolls(f, S, c, step, n)
<1> USE DEF IsStep, Unrolls
<1> DEFINE Good(k, f) == /\ f \in [0..k -> S] /\ f[0] = c
                         /\ \A i \in 1..k : f[i] = step[i][f[i-1]]
           T == {k \in Nat : k <= n => \E f : Good(k, f)}
<1>1. 0 \in T
  <2>1. Good(0, [i \in 0..0 |-> c])
    OBVIOUS
  <2>2. QED
    BY <2>1
<1>2. ASSUME NEW k \in T PROVE k + 1 \in T
  <2> HIDE DEF Good
  <2> SUFFICES ASSUME k + 1 <= n PROVE \E f : Good(k + 1, f)
    OBVIOUS
  <2>1. PICK g : Good(k, g)
    OBVIOUS
  <2> USE DEF Good
  <2> DEFINE f == [i \in 0..k+1 |-> IF i = k + 1 THEN step[k+1][g[k]] ELSE g[i]]
  <2>2. step[k+1][g[k]] \in S
    BY <2>1
  <2>3. f \in [0..k+1 -> S]
    BY <2>1, <2>2
  <2>4. f[0] = c /\ \A i \in 1..k+1 : f[i] = step[i][f[i-1]]
    BY <2>1
  <2>5. QED
    BY <2>3, <2>4
<1>3. T = Nat
  <2> HIDE DEF Good
  <2>1. T \in SUBSET Nat
    OBVIOUS
  <2> HIDE DEF T
  <2>2. QED
    BY <1>1, <1>2, <2>1, NatInd
<1>4. n \in T
  BY <1>3
<1>5. QED
  BY <1>4

(* Two functions that start alike and go on alike are alike. *)
GoAlike(f, g, n) == f[0] = g[0] /\ \A i \in 1..n : f[i - 1] = g[i - 1] => f[i] = g[i]

LEMMA SameUpTo ==
  ASSUME NEW n \in Nat, NEW f, NEW g, GoAlike(f, g, n)
  PROVE  \A i \in 0..n : f[i] = g[i]
<1> USE DEF GoAlike
<1> DEFINE T == {i \in Nat : i <= n => f[i] = g[i]}
<1>1. 0 \in T
  OBVIOUS
<1>2. ASSUME NEW i \in T PROVE i + 1 \in T
  <2> SUFFICES ASSUME i + 1 <= n PROVE f[i + 1] = g[i + 1]
    OBVIOUS
  <2>1. i + 1 \in 1..n /\ (i + 1) - 1 = i /\ f[i] = g[i]
    OBVIOUS
  <2>2. QED
    BY <2>1
<1>3. T \in SUBSET Nat
  OBVIOUS
<1>4. T = Nat
  <2> HIDE DEF T
  <2>1. QED
    BY <1>1, <1>2, <1>3, NatInd
<1>5. QED
  BY <1>4

(* A function on all numbers defined from its value one below. *)
UnrollsOnNat(f, S, c, step) ==
  /\ f \in [Nat -> S] /\ f[0] = c
  /\ \A i \in Nat \ {0} : f[i] = step[i][f[i-1]]

LEMMA RecursionOnNat ==
  ASSUME NEW S, NEW c \in S, NEW step, \A n \in Nat : IsStep(S, step, n)
  PROVE  \E f : UnrollsOnNat(f, S, c, step)
<1> DEFINE g(n) == CHOOSE f : Unrolls(f, S, c, step, n)
           h == [n \in Nat |-> g(n)[n]]
<1>1. ASSUME NEW n \in Nat PROVE Unrolls(g(n), S, c, step, n)
  BY Recursion
<1> HIDE DEF g
<1>2. ASSUME NEW n \in Nat \ {0} PROVE g(n)[n - 1] = g(n - 1)[n - 1]
  <2> DEFINE f1 == g(n)
             f2 == g(n - 1)
  <2>1. n - 1 \in Nat /\ Unrolls(f1, S, c, step, n) /\ Unrolls(f2, S, c, step, n - 1)
    BY <1>1
  <2> HIDE DEF f1, f2
  <2>2. GoAlike(f1, f2, n - 1)
    BY <2>1 DEF Unrolls, GoAlike
  <2>3. \A i \in 0..n - 1 : f1[i] = f2[i]
    BY <2>1, <2>2, SameUpTo
  <2>4. QED
    BY <2>1, <2>3 DEF f1, f2
<1>3. h \in [Nat -> S]
  BY <1>1 DEF Unrolls
<1>4. h[0] = c
  BY <1>1 DEF Unrolls
<1>5. ASSUME NEW n \in Nat \ {0} PROVE h[n] = step[n][h[n - 1]]
  <2>1. g(n)[n] = step[n][g(n)[n - 1]]
    BY <1>1 DEF Unrolls
  <2>2. QED
    BY <1>2, <2>1
<1>6. QED
  <2> HIDE DEF h
  <2>1. QED
    BY <1>3, <1>4, <1>5 DEF UnrollsOnNat

-----------------------------------------------------------------------------
(* Places in an order.                                                     *)

(* below gives, for each element of S, those before it: a strict total     *)
(* order.                                                                  *)
IsOrder(S, below) ==
  /\ below \in [S -> SUBSET S]
  /\ \A k \in S : k \notin below[k]
  /\ \A i, j, k \in S : i \in below[j] /\ j \in below[k] => i \in below[k]
  /\ \A j, k \in S : j = k \/ j \in below[k] \/ k \in below[j]

(* The number of elements before one is its place: each place from 0 to    *)
(* the last is taken, by one element.                                      *)
LEMMA Places ==
  ASSUME NEW S, IsFiniteSet(S), NEW below, IsOrder(S, below)
  PROVE  /\ \A k \in S : Cardinality(below[k]) \in 0..Cardinality(S) - 1
         /\ \A j, k \in S : j \in below[k] => Cardinality(below[j]) < Cardinality(below[k])
         /\ \A j, k \in S : Cardinality(below[j]) = Cardinality(below[k]) => j = k
         /\ \A i \in 1..Cardinality(S) : \E k \in S : Cardinality(below[k]) = i - 1
<1> DEFINE place == [k \in S |-> Cardinality(below[k])]
           n == Cardinality(S)
<1> USE DEF IsOrder
<1>1. n \in Nat
  BY FS_CardinalityType
<1>2. ASSUME NEW T \in SUBSET S PROVE IsFiniteSet(T) /\ Cardinality(T) \in Nat
  BY FS_Subset, FS_CardinalityType
<1>3. ASSUME NEW A \in SUBSET S, NEW B \in SUBSET S, A \subseteq B, NEW x \in B \ A
      PROVE  Cardinality(A) < Cardinality(B)
  <2>1. Cardinality(A) <= Cardinality(B) /\ (Cardinality(A) = Cardinality(B) => A = B)
    BY <1>2, <1>3, FS_Subset
  <2>2. QED
    BY <1>2, <1>3, <2>1
<1>4. ASSUME NEW k \in S PROVE place[k] \in 0..n - 1
  <2>1. place[k] < n
    BY <1>3
  <2>2. QED
    BY <1>1, <1>2, <2>1
<1>5. ASSUME NEW j \in S, NEW k \in S, j \in below[k] PROVE place[j] < place[k]
  <2>1. below[j] \in SUBSET S /\ below[k] \in SUBSET S /\ below[j] \subseteq below[k]
    BY <1>5
  <2>2. j \in below[k] \ below[j]
    BY <1>5
  <2>3. QED
    BY <1>3, <2>1, <2>2
<1>6. ASSUME NEW j \in S, NEW k \in S, place[j] = place[k] PROVE j = k
  <2>1. place[j] \in Nat /\ place[k] \in Nat
    BY <1>4
  <2> HIDE DEF place
  <2>2. ~(j \in below[k]) /\ ~(k \in below[j])
    BY <1>5, <1>6, <2>1
  <2>3. QED
    BY <2>2
<1>7. place \in Injection(S, 0..n - 1)
  <2> HIDE DEF place
  <2>1. place \in [S -> 0..n - 1]
    <3>1. place = [k \in S |-> place[k]]
      BY DEF place
    <3>2. QED
      BY <1>4, <3>1
  <2>2. QED
    BY <1>6, <2>1 DEF Injection, IsInjective
<1>8. IsFiniteSet(0..n - 1) /\ Cardinality(0..n - 1) = n
  <2>1. 0 \in Int /\ n - 1 \in Int
    BY <1>1
  <2>2. /\ IsFiniteSet(0..n - 1)
        /\ Cardinality(0..n - 1) = IF 0 > n - 1 THEN 0 ELSE (n - 1) - 0 + 1
    BY <2>1, FS_Interval
  <2>3. QED
    BY <1>1, <2>2
<1>9. place \in Surjection(S, 0..n - 1)
  <2> HIDE DEF place
  <2>1. Cardinality(S) = Cardinality(0..n - 1)
    BY <1>8
  <2>2. QED
    BY <1>7, <1>8, <2>1, FS_Injection
<1>10. \A i \in 1..n : \E k \in S : place[k] = i - 1
  <2>1. \A i \in 1..n : i - 1 \in 0..n - 1
    BY <1>1
  <2>2. QED
    BY <1>9, <2>1 DEF Surjection
<1>11. QED
  BY <1>4, <1>5, <1>6, <1>10

-----------------------------------------------------------------------------
(* Subsets of a finite set.                                                *)

LEMMA SubsetInd ==
  ASSUME NEW S, IsFiniteSet(S), NEW P \in SUBSET (SUBSET S), {} \in P,
         \A T \in SUBSET S : T # {} /\ (\A x \in T : T \ {x} \in P) => T \in P
  PROVE  \A T \in SUBSET S : T \in P
<1> DEFINE N == {n \in Nat : \A T \in SUBSET S : Cardinality(T) = n => T \in P}
<1>1. \A T \in SUBSET S : IsFiniteSet(T) /\ Cardinality(T) \in Nat
  BY FS_Subset, FS_CardinalityType
<1>2. 0 \in N
  <2>1. \A T \in SUBSET S : Cardinality(T) = 0 => T = {}
    BY <1>1, FS_EmptySet
  <2>2. QED
    BY <2>1
<1>3. ASSUME NEW n \in N PROVE n + 1 \in N
  <2>1. ASSUME NEW T \in SUBSET S, Cardinality(T) = n + 1 PROVE T \in P
    <3>1. T # {}
      BY <2>1, FS_EmptySet
    <3>2. ASSUME NEW x \in T PROVE T \ {x} \in P
      <4>1. Cardinality(T \ {x}) = n
        BY <1>1, <2>1, FS_RemoveElement
      <4>2. QED
        BY <4>1
    <3>3. QED
      BY <3>1, <3>2
  <2>2. QED
    BY <2>1
<1>4. N \in SUBSET Nat
  OBVIOUS
<1>5. N = Nat
  <2> HIDE DEF N
  <2>1. QED
    BY <1>2, <1>3, <1>4, NatInd
<1>6. QED
  BY <1>1, <1>5

(* A function on the subsets of S defined by taking the elements out one   *)
(* by one, in the order pick gives.                                        *)
IsRecursion(S, V, c, pick, step) ==
  /\ c \in V
  /\ \A T \in SUBSET S : T # {} => pick[T] \in T
  /\ \A x \in S, v \in V : step[x][v] \in V

Solves(S, V, c, pick, step, it) ==
  /\ it \in [SUBSET S -> V] /\ it[{}] = c
  /\ \A T \in SUBSET S : T # {} => it[T] = step[pick[T]][it[T \ {pick[T]}]]

LEMMA SetRecursion ==
  ASSUME NEW S, IsFiniteSet(S), NEW V, NEW c, NEW pick, NEW step,
         IsRecursion(S, V, c, pick, step)
  PROVE  \E it : Solves(S, V, c, pick, step, it)
<1>0. /\ c \in V
      /\ \A T \in SUBSET S : T # {} => pick[T] \in T
      /\ \A x \in S, v \in V : step[x][v] \in V
  BY DEF IsRecursion
<1> DEFINE Upto(n) == {T \in SUBSET S : Cardinality(T) <= n}
           Good(n, it) ==
             /\ it \in [Upto(n) -> V] /\ it[{}] = c
             /\ \A T \in Upto(n) : T # {} => it[T] = step[pick[T]][it[T \ {pick[T]}]]
           N == {n \in Nat : \E it : Good(n, it)}
<1>1. \A T \in SUBSET S : IsFiniteSet(T) /\ Cardinality(T) \in Nat
  BY FS_Subset, FS_CardinalityType
<1>2. ASSUME NEW T \in SUBSET S, T # {}
      PROVE  Cardinality(T \ {pick[T]}) = Cardinality(T) - 1
  BY <1>0, <1>1, <1>2, FS_RemoveElement
<1>3. Cardinality({}) = 0 /\ \A T \in SUBSET S : Cardinality(T) = 0 <=> T = {}
  BY <1>1, FS_EmptySet
<1>4. 0 \in N
  <2>1. \A T : T \in Upto(0) <=> T = {}
    BY <1>1, <1>3
  <2> HIDE DEF Upto
  <2>2. Good(0, [T \in Upto(0) |-> c])
    BY <1>0, <2>1
  <2>3. QED
    BY <2>2
<1>5. ASSUME NEW n \in N PROVE n + 1 \in N
  <2>1. PICK g : Good(n, g)
    OBVIOUS
  <2> DEFINE f == [T \in Upto(n + 1) |->
                     IF T \in Upto(n) THEN g[T] ELSE step[pick[T]][g[T \ {pick[T]}]]]
  <2>2. {} \in Upto(n) /\ {} \in Upto(n + 1) /\ Upto(n) \subseteq Upto(n + 1)
    BY <1>1, <1>3
  <2>3. ASSUME NEW T \in Upto(n + 1), T # {}
        PROVE  T \in SUBSET S /\ pick[T] \in S /\ T \ {pick[T]} \in Upto(n)
    BY <1>0, <1>1, <1>2, <2>3
  <2> HIDE DEF Upto
  <2>4. f \in [Upto(n + 1) -> V]
    <3>1. ASSUME NEW T \in Upto(n + 1) PROVE f[T] \in V
      <4>1. CASE T \in Upto(n)
        BY <2>1, <4>1
      <4>2. CASE T \notin Upto(n)
        <5>1. T # {} /\ pick[T] \in S /\ g[T \ {pick[T]}] \in V
          BY <1>0, <2>1, <2>2, <2>3, <4>2
        <5>2. QED
          BY <1>0, <4>2, <5>1
      <4>3. QED
        BY <4>1, <4>2
    <3>2. QED
      BY <3>1
  <2>5. f[{}] = c
    BY <1>0, <2>1, <2>2
  <2>6. ASSUME NEW T \in Upto(n + 1), T # {}
        PROVE  f[T] = step[pick[T]][f[T \ {pick[T]}]]
    <3>1. f[T \ {pick[T]}] = g[T \ {pick[T]}]
      BY <2>2, <2>3, <2>6
    <3>2. CASE T \in Upto(n)
      BY <2>1, <2>6, <3>1, <3>2
    <3>3. CASE T \notin Upto(n)
      BY <3>1, <3>3
    <3>4. QED
      BY <3>2, <3>3
  <2>7. Good(n + 1, f)
    BY <2>4, <2>5, <2>6
  <2> HIDE DEF Good, f
  <2>8. QED
    BY <2>7
<1>6. N \in SUBSET Nat
  OBVIOUS
<1>7. N = Nat
  <2> HIDE DEF N
  <2>1. QED
    BY <1>4, <1>5, <1>6, NatInd
<1>8. Upto(Cardinality(S)) = SUBSET S
  <2>1. \A T \in SUBSET S : Cardinality(T) <= Cardinality(S)
    BY FS_Subset
  <2>2. QED
    BY <2>1
<1>9. PICK it : Good(Cardinality(S), it)
  BY <1>1, <1>7
<1>10. QED
  <2> HIDE DEF Upto
  <2>1. QED
    BY <1>8, <1>9 DEF Solves

-----------------------------------------------------------------------------
(* Sums over finite sets.                                                  *)

(* The values a sum goes through as its elements are taken out in the      *)
(* order CHOOSE gives.                                                     *)
Sums(f, S, it) ==
  /\ it \in [SUBSET S -> Int] /\ it[{}] = 0
  /\ \A T \in SUBSET S : T # {} =>
       LET x == CHOOSE x \in T : TRUE IN it[T] = f[x] + it[T \ {x}]

LEMMA SumsExist ==
  ASSUME NEW S, IsFiniteSet(S), NEW f, \A x \in S : f[x] \in Int
  PROVE  \E it : Sums(f, S, it) /\ SumFunctionOnSet(f, S) = it[S]
<1> DEFINE pick == [T \in SUBSET S |-> CHOOSE x \in T : TRUE]
           step == [x \in S |-> [v \in Int |-> f[x] + v]]
           F(g) == [T \in SUBSET S |->
                      IF T = {} THEN 0
                      ELSE LET x == CHOOSE x \in T : TRUE IN f[x] + g[T \ {x}]]
           iter == CHOOSE g : g = F(g)
<1>1. IsRecursion(S, Int, 0, pick, step)
  BY DEF IsRecursion
<1>2. \E it : Solves(S, Int, 0, pick, step, it)
  <2> HIDE DEF pick, step
  <2>1. QED
    BY <1>1, SetRecursion
<1>3. PICK it : Solves(S, Int, 0, pick, step, it)
  BY <1>2
<1>4. /\ it \in [SUBSET S -> Int] /\ it[{}] = 0
      /\ \A T \in SUBSET S : T # {} => it[T] = step[pick[T]][it[T \ {pick[T]}]]
  BY <1>3 DEF Solves
<1>5. \A T \in SUBSET S : T # {} =>
        it[T] = f[CHOOSE x \in T : TRUE] + it[T \ {CHOOSE x \in T : TRUE}]
  BY <1>4
<1>6. it = F(it)
  BY <1>4, <1>5
<1>7. iter = F(iter)
  <2> HIDE DEF F
  <2>1. QED
    BY <1>6
<1>8. SumFunctionOnSet(f, S) = iter[S]
  BY DEF SumFunctionOnSet, FoldFunctionOnSet, MapThenFoldSet
<1>9. iter = it
  <2> DEFINE P == {T \in SUBSET S : iter[T] = it[T]}
  <2>1. {} \in P
    <3> HIDE DEF iter
    <3>1. QED
      BY <1>4, <1>7
  <2>2. ASSUME NEW T \in SUBSET S, T # {}, \A x \in T : T \ {x} \in P PROVE T \in P
    <3> DEFINE x == CHOOSE x \in T : TRUE
    <3>1. x \in T
      BY <2>2
    <3>2. iter[T] = f[x] + iter[T \ {x}]
      <4> HIDE DEF iter
      <4>1. QED
        BY <1>7, <2>2
    <3>3. it[T] = f[x] + it[T \ {x}]
      BY <1>5, <2>2
    <3> HIDE DEF x, iter
    <3>4. QED
      BY <2>2, <3>1, <3>2, <3>3
  <2>3. P \in SUBSET (SUBSET S)
    OBVIOUS
  <2>4. \A T \in SUBSET S : T \in P
    <3> HIDE DEF P
    <3>1. QED
      BY <2>1, <2>2, <2>3, SubsetInd
  <2>5. \A T \in SUBSET S : iter[T] = it[T]
    BY <2>4
  <2>6. iter \in [SUBSET S -> Int]
    <3> HIDE DEF iter
    <3>1. iter = [T \in SUBSET S |-> iter[T]]
      BY <1>7
    <3>2. QED
      BY <1>4, <2>5, <3>1
  <2> HIDE DEF iter
  <2>7. QED
    BY <1>4, <2>5, <2>6
<1>10. Sums(f, S, it)
  BY <1>4, <1>5 DEF Sums
<1>11. QED
  BY <1>8, <1>9, <1>10

(* Any element can be taken out first, and any function that agrees on the *)
(* elements gives the same sum.                                            *)
Splits(f, S, it) == \A T \in SUBSET S : \A y \in T : it[T] = f[y] + it[T \ {y}]

LEMMA SumsAnyOrder ==
  ASSUME NEW S, IsFiniteSet(S), NEW f, \A x \in S : f[x] \in Int,
         NEW it, Sums(f, S, it)
  PROVE  Splits(f, S, it)
<1> DEFINE P == {T \in SUBSET S : \A y \in T : it[T] = f[y] + it[T \ {y}]}
<1>1. {} \in P
  OBVIOUS
<1>2. ASSUME NEW T \in SUBSET S, T # {}, \A x \in T : T \ {x} \in P PROVE T \in P
  <2>1. ASSUME NEW y \in T PROVE it[T] = f[y] + it[T \ {y}]
    <3> DEFINE x == CHOOSE x \in T : TRUE
               U == T \ {x, y}
    <3>1. x \in T /\ it[T] = f[x] + it[T \ {x}]
      BY <1>2 DEF Sums
    <3> HIDE DEF x
    <3>2. CASE x = y
      BY <3>1, <3>2
    <3>3. CASE x # y
      <4>1. (T \ {x}) \ {y} = U /\ (T \ {y}) \ {x} = U
        OBVIOUS
      <4>2. it[T \ {x}] = f[y] + it[U]
        BY <1>2, <3>1, <3>3, <4>1
      <4>3. it[T \ {y}] = f[x] + it[U]
        BY <1>2, <3>1, <3>3, <4>1
      <4>4. f[x] \in Int /\ f[y] \in Int /\ it[U] \in Int
        BY <3>1 DEF Sums
      <4>5. QED
        BY <3>1, <4>2, <4>3, <4>4
    <3>4. QED
      BY <3>2, <3>3
  <2>2. QED
    BY <2>1
<1>3. P \in SUBSET (SUBSET S)
  OBVIOUS
<1>4. \A T \in SUBSET S : T \in P
  <2> HIDE DEF P
  <2>1. QED
    BY <1>1, <1>2, <1>3, SubsetInd
<1>5. QED
  BY <1>4 DEF Splits

LEMMA SumsAgree ==
  ASSUME NEW S, IsFiniteSet(S), NEW T \in SUBSET S, NEW f, NEW g, NEW it, NEW jt,
         \A x \in S : g[x] \in Int, \A x \in T : f[x] = g[x],
         Sums(f, T, it), Sums(g, S, jt)
  PROVE  \A U \in SUBSET T : it[U] = jt[U]
<1> DEFINE P == {U \in SUBSET T : it[U] = jt[U]}
<1>1. {} \in P
  BY DEF Sums
<1>2. ASSUME NEW U \in SUBSET T, U # {}, \A x \in U : U \ {x} \in P PROVE U \in P
  <2> DEFINE x == CHOOSE x \in U : TRUE
  <2>1. x \in U
    BY <1>2
  <2>2. it[U] = f[x] + it[U \ {x}] /\ jt[U] = g[x] + jt[U \ {x}]
    BY <1>2 DEF Sums
  <2> HIDE DEF x
  <2>3. QED
    BY <1>2, <2>1, <2>2
<1>3. P \in SUBSET (SUBSET T) /\ IsFiniteSet(T)
  BY FS_Subset
<1>4. \A U \in SUBSET T : U \in P
  <2> HIDE DEF P
  <2>1. QED
    BY <1>1, <1>2, <1>3, SubsetInd
<1>5. QED
  BY <1>4

(* What the invariants of this project use.                                *)
LEMMA SumEmpty ==
  ASSUME NEW f
  PROVE  SumFunctionOnSet(f, {}) = 0
<1>1. IsFiniteSet({})
  BY FS_EmptySet
<1>2. PICK it : Sums(f, {}, it) /\ SumFunctionOnSet(f, {}) = it[{}]
  BY <1>1, SumsExist
<1>3. QED
  BY <1>2 DEF Sums

LEMMA SumSame ==
  ASSUME NEW S, IsFiniteSet(S), NEW f, NEW g, \A x \in S : g[x] \in Int /\ f[x] = g[x]
  PROVE  SumFunctionOnSet(f, S) = SumFunctionOnSet(g, S)
<1>1. PICK it : Sums(f, S, it) /\ SumFunctionOnSet(f, S) = it[S]
  BY SumsExist
<1>2. PICK jt : Sums(g, S, jt) /\ SumFunctionOnSet(g, S) = jt[S]
  BY SumsExist
<1>3. \A U \in SUBSET S : it[U] = jt[U]
  <2>1. S \in SUBSET S
    OBVIOUS
  <2>2. QED
    BY <1>1, <1>2, <2>1, SumsAgree
<1>4. QED
  BY <1>1, <1>2, <1>3

LEMMA SumAdd ==
  ASSUME NEW S, IsFiniteSet(S), NEW x, x \notin S, NEW f, NEW g,
         \A y \in S : g[y] \in Int /\ f[y] = g[y], g[x] \in Int
  PROVE  SumFunctionOnSet(g, S \cup {x}) = SumFunctionOnSet(f, S) + g[x]
<1> DEFINE X == S \cup {x}
<1>1. IsFiniteSet(X)
  BY FS_AddElement
<1>2. \A y \in X : g[y] \in Int
  OBVIOUS
<1>3. PICK it : Sums(f, S, it) /\ SumFunctionOnSet(f, S) = it[S]
  BY SumsExist
<1> HIDE DEF X
<1>4. PICK jt : Sums(g, X, jt) /\ SumFunctionOnSet(g, X) = jt[X]
  BY <1>1, <1>2, SumsExist
<1>5. S \in SUBSET X /\ X \ {x} = S /\ x \in X
  BY DEF X
<1>6. jt[S] \in Int
  BY <1>4, <1>5 DEF Sums
<1>7. \A U \in SUBSET S : it[U] = jt[U]
  BY <1>1, <1>2, <1>3, <1>4, <1>5, SumsAgree
<1>8. Splits(g, X, jt)
  BY <1>1, <1>2, <1>4, SumsAnyOrder
<1>9. jt[X] = g[x] + jt[S]
  BY <1>5, <1>8 DEF Splits
<1>10. SumFunctionOnSet(g, X) = SumFunctionOnSet(f, S) + g[x]
  BY <1>3, <1>4, <1>6, <1>7, <1>9
<1>11. QED
  BY <1>10 DEF X

LEMMA SumInt ==
  ASSUME NEW S, IsFiniteSet(S), NEW f, \A x \in S : f[x] \in Int
  PROVE  SumFunctionOnSet(f, S) \in Int
<1>1. PICK it : Sums(f, S, it) /\ SumFunctionOnSet(f, S) = it[S]
  BY SumsExist
<1>2. QED
  BY <1>1 DEF Sums
=============================================================================
