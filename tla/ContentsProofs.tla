---------------------------- MODULE ContentsProofs ----------------------------
(***************************************************************************)
(* MeteredTable implements TableContents: whatever the layout, the meters  *)
(* and the errors, each operation does to the contents of the table one    *)
(* step of the abstract specification, or none.                            *)
(***************************************************************************)
EXTENDS TableProofs

-----------------------------------------------------------------------------
(* The abstract specification counts with the same operator.               *)
LEMMA SameCardinality == \A S : Abstract!Cardinality(S) = Cardinality(S)
BY DEF Abstract!Cardinality, Cardinality

(* What a table contains, read from its two parts.                         *)

LEMMA ContentsParts ==
  ASSUME NEW t \in GoodTables
  PROVE  /\ \A i \in 1..Length(t) : /\ IntKey(i) \in DOMAIN Contents(t)
                                    /\ Contents(t)[IntKey(i)] = t.array[i]
                                    /\ IntKey(i) \notin DOMAIN t.hash
         /\ \A k \in DOMAIN t.hash : /\ k \in DOMAIN Contents(t) /\ ~InArray(t, k)
                                     /\ Contents(t)[k] = t.hash[k]
         /\ DOMAIN Contents(t) \subseteq LuaKeys
         /\ \A k \in DOMAIN Contents(t) : Contents(t)[k] \in Values
<1>1. /\ Length(t) \in Nat /\ Length(t) = Len(t.array) /\ t.array \in Seq(Values)
      /\ DOMAIN t.hash \subseteq LuaKeys /\ t.hash \in [DOMAIN t.hash -> Values] /\ Longest(t)
  BY GoodTableIs
<1>2. /\ DOMAIN Contents(t) = KeysBetween(1, Length(t)) \cup DOMAIN t.hash
      /\ KeysBetween(1, Length(t)) \cap DOMAIN t.hash = {}
  BY ContentsKeys
<1>3. \A k \in DOMAIN Contents(t) : Contents(t)[k] = Get(t, k)
  BY DEF Contents
<1>4. ASSUME NEW i \in 1..Length(t)
      PROVE  /\ IntKey(i) \in DOMAIN Contents(t) /\ Contents(t)[IntKey(i)] = t.array[i]
             /\ IntKey(i) \notin DOMAIN t.hash /\ IntKey(i) \in LuaKeys
             /\ t.array[i] \in Values
  <2>1. IntKey(i) \in KeysBetween(1, Length(t))
    BY DEF KeysBetween
  <2>2. InArray(t, IntKey(i)) /\ IntKey(i)[2] = i /\ IntKey(i) \in LuaKeys
    BY <1>1, KeyShapes DEF InArray
  <2>3. t.array[i] \in Values
    BY <1>1
  <2>4. QED
    BY <1>2, <1>3, <2>1, <2>2, <2>3 DEF Get
<1>5. ASSUME NEW k \in DOMAIN t.hash
      PROVE  /\ k \in DOMAIN Contents(t) /\ ~InArray(t, k) /\ Contents(t)[k] = t.hash[k]
             /\ t.hash[k] \in Values
  <2>1. ~InArray(t, k)
    <3> SUFFICES ASSUME InArray(t, k) PROVE FALSE
      OBVIOUS
    <3>1. k = IntKey(k[2]) /\ k[2] \in 1..Length(t)
      BY <1>1, KeyShapes DEF InArray
    <3>2. QED
      BY <1>4, <3>1
  <2>2. QED
    BY <1>1, <1>2, <1>3, <2>1 DEF Get
<1>6. ASSUME NEW k \in DOMAIN Contents(t) PROVE k \in LuaKeys /\ Contents(t)[k] \in Values
  <2>1. CASE k \in DOMAIN t.hash
    BY <1>1, <1>5, <2>1
  <2>2. CASE k \in KeysBetween(1, Length(t))
    <3>1. PICK i \in 1..Length(t) : k = IntKey(i)
      BY <2>2 DEF KeysBetween
    <3>2. QED
      BY <1>4, <3>1
  <2>3. QED
    BY <1>2, <2>1, <2>2
<1>7. QED
  BY <1>4, <1>5, <1>6

(* c says what the two parts of u say. *)
Says(u, c) ==
  /\ c = [k \in DOMAIN c |-> c[k]]
  /\ DOMAIN c = KeysBetween(1, Length(u)) \cup DOMAIN u.hash
  /\ \A i \in 1..Length(u) : c[IntKey(i)] = u.array[i]
  /\ \A k \in DOMAIN u.hash : c[k] = u.hash[k]

LEMMA ContentsAre ==
  ASSUME NEW u \in GoodTables, NEW c, Says(u, c)
  PROVE  Contents(u) = c
<1> DEFINE d == Contents(u)
<1>1. d = [k \in DOMAIN d |-> d[k]]
  BY DEF Contents
<1>2. DOMAIN d = KeysBetween(1, Length(u)) \cup DOMAIN u.hash
  BY ContentsKeys
<1>3. /\ \A i \in 1..Length(u) : d[IntKey(i)] = u.array[i]
      /\ \A k \in DOMAIN u.hash : d[k] = u.hash[k]
  BY ContentsParts
<1> HIDE DEF d
<1>4. \A k \in DOMAIN d : d[k] = c[k]
  <2> SUFFICES ASSUME NEW k \in DOMAIN d PROVE d[k] = c[k]
    OBVIOUS
  <2>1. CASE k \in DOMAIN u.hash
    BY <1>3, <2>1 DEF Says
  <2>2. CASE k \in KeysBetween(1, Length(u))
    <3>1. PICK i \in 1..Length(u) : k = IntKey(i)
      BY <2>2 DEF KeysBetween
    <3>2. QED
      BY <1>3, <3>1 DEF Says
  <2>3. QED
    BY <1>2, <2>1, <2>2
<1>5. d = c
  BY <1>1, <1>2, <1>4 DEF Says
<1>6. QED
  BY <1>5 DEF d

(* The border of the contents is where the array part ends. *)
LEMMA BorderIs ==
  ASSUME NEW t \in GoodTables
  PROVE  Abstract!Border(Contents(t)) = Length(t)
<1> DEFINE c == Contents(t)
           n == Length(t)
           P(m) == /\ \A i \in 1..m : Abstract!At(i) \in DOMAIN c
                   /\ Abstract!At(m + 1) \notin DOMAIN c
           M == 0..Cardinality(DOMAIN c)
<1>1. /\ n \in Nat /\ Longest(t) /\ n = Len(t.array) /\ Counted(t)
      /\ Cardinality(DOMAIN t.hash) \in Nat
  BY GoodTableIs
<1>2. /\ DOMAIN c = KeysBetween(1, n) \cup DOMAIN t.hash /\ Cardinality(DOMAIN c) = t.entries
  BY ContentsKeys
<1>3. \A i \in Int : Abstract!At(i) = IntKey(i)
  BY DEF Abstract!At, IntKey, IntVal, IntegerKind
<1>4. n \in M
  BY <1>1, <1>2 DEF Counted
<1>5. \A i \in 1..n : IntKey(i) \in DOMAIN c
  BY <1>2 DEF KeysBetween
<1>6. IntKey(n + 1) \notin DOMAIN c
  <2>1. IntKey(n + 1) \notin DOMAIN t.hash
    BY <1>1 DEF Longest
  <2>2. IntKey(n + 1) \notin KeysBetween(1, n)
    <3> SUFFICES ASSUME NEW i \in 1..n, IntKey(n + 1) = IntKey(i) PROVE FALSE
      BY DEF KeysBetween
    <3>1. n + 1 = i
      BY <1>1, KeyShapes
    <3>2. QED
      BY <1>1, <3>1
  <2>3. QED
    BY <1>2, <2>1, <2>2
<1>7. P(n)
  BY <1>1, <1>3, <1>5, <1>6
<1> HIDE DEF c, n
<1>8. ASSUME NEW m \in M, P(m) PROVE m = n
  <2>1. m \in Nat
    <3>1. Cardinality(DOMAIN c) \in Nat
      BY <1>1, <1>2 DEF Counted
    <3>2. QED
      BY <3>1
  <2>2. ~(m < n)
    <3> SUFFICES ASSUME m < n PROVE FALSE
      OBVIOUS
    <3>1. m + 1 \in 1..n /\ m + 1 \in Int
      BY <1>1, <2>1
    <3>2. QED
      BY <1>3, <1>5, <1>8, <3>1
  <2>3. ~(n < m)
    <3> SUFFICES ASSUME n < m PROVE FALSE
      OBVIOUS
    <3>1. n + 1 \in 1..m /\ n + 1 \in Int
      BY <1>1, <2>1
    <3>2. QED
      BY <1>3, <1>6, <1>8, <3>1
  <2>4. QED
    BY <1>1, <2>1, <2>2, <2>3
<1>9. Abstract!Border(c) = CHOOSE m \in M : P(m)
  BY SameCardinality DEF Abstract!Border
<1> HIDE DEF M, P
<1>10. (CHOOSE m \in M : P(m)) = n
  BY <1>4, <1>7, <1>8
<1>11. QED
  BY <1>9, <1>10 DEF c, n

LEMMA InnerIs ==
  ASSUME NEW t \in GoodTables, NEW k \in LuaKeys
  PROVE  Abstract!Inner(Contents(t), k) <=> InArray(t, k)
BY BorderIs DEF Abstract!Inner, InArray, IntegerKind

LEMMA AtIs == \A i \in Int : Abstract!At(i) = IntKey(i)
BY DEF Abstract!At, IntKey, IntVal, IntegerKind

(* Taking a key out: rawremove.                                            *)
LEMMA UnsetIs ==
  ASSUME NEW t \in GoodTables, NEW k \in LuaKeys
  PROVE  Contents(Rawremove(t, k)) = Abstract!Unset(Contents(t), k)
<1> DEFINE c == Contents(t)
           e == Abstract!Unset(c, k)
           u == Rawremove(t, k)
           n == Length(t)
           H == DOMAIN t.hash
<1>1. /\ n \in Nat /\ n = Len(t.array) /\ t \in Rows /\ t.array \in Seq(Values)
      /\ H \subseteq LuaKeys
  BY GoodTableIs
<1>2. /\ DOMAIN c = KeysBetween(1, n) \cup H /\ DOMAIN c \subseteq LuaKeys
      /\ \A i \in 1..n : /\ IntKey(i) \in DOMAIN c /\ c[IntKey(i)] = t.array[i]
                         /\ IntKey(i) \notin H
      /\ \A j \in H : c[j] = t.hash[j] /\ ~InArray(t, j)
  BY ContentsKeys, ContentsParts
<1>3. Abstract!Border(c) = n /\ \A j \in LuaKeys : Abstract!Inner(c, j) <=> InArray(t, j)
  BY BorderIs, InnerIs
<1>4. \A j \in LuaKeys : j[1] = IntegerKind => j[2] \in Int /\ j = IntKey(j[2])
  BY KeyShapes
<1>5. \A i \in Int : /\ IntKey(i) \in LuaKeys /\ IntKey(i)[1] = IntegerKind /\ IntKey(i)[2] = i
                    /\ Abstract!At(i) = IntKey(i)
  BY KeyShapes, AtIs
<1>6. u \in GoodTables
  BY RawremoveIs
<1>7. e = [j \in DOMAIN e |-> e[j]]
  BY DEF Abstract!Unset
<1>8. CASE InArray(t, k)
  <2> DEFINE i0 == k[2]
  <2>1. i0 \in 1..n /\ k = IntKey(i0)
    BY <1>4, <1>8 DEF InArray
  <2>2. DOMAIN e = DOMAIN c \ {IntKey(n)}
    BY <1>1, <1>3, <1>5, <1>8 DEF Abstract!Unset
  <2>3. /\ u.array = [j \in 1..n - 1 |-> IF j < i0 THEN t.array[j] ELSE t.array[j + 1]]
        /\ u.hash = t.hash
    BY <1>1, <1>8, RemoveElement DEF Rows
  <2>4. Length(u) = n - 1
    <3> DEFINE a == u.array
    <3>1. DOMAIN a = 1..n - 1 /\ a \in Seq(Values)
      BY <1>6, <2>3, GoodTableIs
    <3> HIDE DEF a
    <3>2. Len(a) = n - 1
      BY <1>1, <2>1, <3>1
    <3>3. QED
      BY <3>2 DEF Length, a
  <2>5. \A j \in DOMAIN e :
          e[j] = IF InArray(t, j) /\ j[2] >= i0 THEN c[Abstract!At(j[2] + 1)] ELSE c[j]
    <3>1. \A j \in DOMAIN e : j \in LuaKeys
      BY <1>2, <2>2
    <3>2. QED
      BY <1>3, <1>8, <3>1 DEF Abstract!Unset
  <2> HIDE DEF e, u, c, n, H, i0
  <2>6. DOMAIN e = KeysBetween(1, Length(u)) \cup DOMAIN u.hash
    <3>1. KeysBetween(1, n) \ {IntKey(n)} = KeysBetween(1, n - 1)
      <4>1. \A i \in 1..n - 1 : i \in 1..n /\ i # n
        BY <1>1
      <4>2. \A i \in 1..n : i # n => i \in 1..n - 1
        BY <1>1
      <4>3. \A i \in 1..n : IntKey(i) = IntKey(n) => i = n
        BY <1>1, <1>5
      <4>4. QED
        BY <4>1, <4>2, <4>3 DEF KeysBetween
    <3>2. IntKey(n) \notin H
      BY <1>1, <1>2, <2>1
    <3>3. QED
      BY <1>2, <2>2, <2>3, <2>4, <3>1, <3>2 DEF H
  <2>7. \A i \in 1..Length(u) : e[IntKey(i)] = u.array[i]
    <3> SUFFICES ASSUME NEW i \in 1..n - 1 PROVE e[IntKey(i)] = u.array[i]
      BY <2>4
    <3>1. /\ i \in 1..n /\ i + 1 \in 1..n /\ i \in Int /\ i + 1 \in Int
          /\ i0 \in Int /\ (i < i0 <=> ~(i >= i0))
      BY <1>1, <2>1
    <3>2. IntKey(i) \in DOMAIN e
      BY <2>4, <2>6 DEF KeysBetween
    <3>3. InArray(t, IntKey(i)) /\ IntKey(i)[2] = i
      BY <1>5, <3>1 DEF InArray, n
    <3>4. e[IntKey(i)] = IF i >= i0 THEN c[IntKey(i + 1)] ELSE c[IntKey(i)]
      BY <1>5, <2>5, <3>1, <3>2, <3>3
    <3>5. u.array[i] = IF i < i0 THEN t.array[i] ELSE t.array[i + 1]
      BY <2>3
    <3>6. c[IntKey(i)] = t.array[i] /\ c[IntKey(i + 1)] = t.array[i + 1]
      BY <1>2, <3>1
    <3>7. QED
      BY <3>1, <3>4, <3>5, <3>6
  <2>8. \A j \in DOMAIN u.hash : e[j] = u.hash[j]
    <3> SUFFICES ASSUME NEW j \in H PROVE e[j] = t.hash[j]
      BY <2>3 DEF H
    <3>1. j \in DOMAIN e
      BY <2>3, <2>6 DEF H
    <3>2. QED
      BY <1>2, <2>5, <3>1
  <2>9. Says(u, e)
    BY <1>7, <2>6, <2>7, <2>8 DEF Says, e
  <2>10. Contents(u) = e
    BY <1>6, <2>9, ContentsAre DEF u
  <2>11. QED
    BY <2>10 DEF u, e, c
<1>9. CASE ~InArray(t, k)
  <2>1. DOMAIN e = DOMAIN c \ {k} /\ \A j \in DOMAIN e : e[j] = c[j]
    BY <1>3, <1>9 DEF Abstract!Unset
  <2>2. u.array = t.array /\ Length(u) = n /\ DOMAIN u.hash = H \ {k}
        /\ \A j \in DOMAIN u.hash : u.hash[j] = t.hash[j]
    <3>1. CASE k \in H
      <4>1. u.array = t.array /\ u.hash = Without(t.hash, k)
        BY <1>1, <1>9, <3>1, RemoveHashKey DEF Rows
      <4>2. QED
        BY <4>1 DEF Without, Length
    <3>2. CASE k \notin H
      BY <1>9, <3>2 DEF Rawremove
    <3>3. QED
      BY <3>1, <3>2
  <2>3. k \notin KeysBetween(1, n)
    BY <1>1, <1>5, <1>9 DEF KeysBetween, InArray
  <2> HIDE DEF e, u, c, n, H
  <2>4. DOMAIN e = KeysBetween(1, n) \cup DOMAIN u.hash
    BY <1>2, <2>1, <2>2, <2>3
  <2>5. \A i \in 1..n : IntKey(i) \in DOMAIN e
    BY <2>4 DEF KeysBetween
  <2>6. Says(u, e)
    BY <1>2, <1>7, <2>1, <2>2, <2>4, <2>5 DEF Says, e
  <2>7. Contents(u) = e
    BY <1>6, <2>6, ContentsAre DEF u
  <2>8. QED
    BY <2>7 DEF u, e, c
<1>10. QED
  BY <1>8, <1>9

(* Giving a key a value: the cases of rawset_tracked that store.           *)
LEMMA WithIs ==
  ASSUME NEW t \in GoodTables, NEW k \in LuaKeys, NEW v \in Values, k # IntKey(IntMin)
  PROVE  Contents(Rawset(t, k, v).table) = Abstract!With(Contents(t), k, v)
<1> DEFINE c == Contents(t)
           e == Abstract!With(c, k, v)
           u == Rawset(t, k, v).table
           n == Length(t)
           H == DOMAIN t.hash
<1>1. /\ n \in Nat /\ n = Len(t.array) /\ t \in Rows /\ t.array \in Seq(Values)
      /\ H \subseteq LuaKeys /\ t.hash \in [H -> Values]
  BY GoodTableIs
<1>2. /\ DOMAIN c = KeysBetween(1, n) \cup H
      /\ \A i \in 1..n : /\ IntKey(i) \in DOMAIN c /\ c[IntKey(i)] = t.array[i]
                         /\ IntKey(i) \notin H
      /\ \A j \in H : j \in DOMAIN c /\ c[j] = t.hash[j]
  BY ContentsKeys, ContentsParts
<1>3. InArray(t, k) => k[2] \in 1..n /\ k = IntKey(k[2])
  BY KeyShapes DEF InArray
<1>4. \A i \in Int : /\ IntKey(i) \in LuaKeys /\ IntKey(i)[2] = i
                    /\ InArray(t, IntKey(i)) <=> i \in 1..n
  BY KeyShapes DEF InArray
<1>5. v # Nil
  BY MeteredAssumption
<1>6. u \in GoodTables
  BY RawsetIs DEF SetsOne
<1>7. e = [j \in DOMAIN e |-> e[j]] /\ DOMAIN e = DOMAIN c \cup {k}
      /\ e[k] = v /\ \A j \in DOMAIN c : j # k => e[j] = c[j]
  BY DEF Abstract!With
<1>8. CASE InArray(t, k)
  <2> DEFINE i0 == k[2]
  <2>1. u = [t EXCEPT !.array[i0] = v]
    BY <1>5, <1>8, RawsetWide DEF Stored, SetResult
  <2>2. u.array = [t.array EXCEPT ![i0] = v] /\ u.hash = t.hash
    BY <1>1, <2>1 DEF Rows
  <2>3. Length(u) = n /\ \A i \in 1..n : u.array[i] = IF i = i0 THEN v ELSE t.array[i]
    BY <1>1, <2>2 DEF Length
  <2> HIDE DEF e, u, c, n, H
  <2>4. k \in KeysBetween(1, n) /\ k \notin H
    BY <1>2, <1>3, <1>8 DEF KeysBetween
  <2>5. DOMAIN e = KeysBetween(1, n) \cup DOMAIN u.hash
    BY <1>2, <1>7, <2>2, <2>4 DEF H
  <2>6. \A i \in 1..n : e[IntKey(i)] = u.array[i]
    BY <1>2, <1>3, <1>4, <1>7, <1>8, <2>3
  <2>7. \A j \in DOMAIN u.hash : e[j] = u.hash[j]
    BY <1>2, <1>7, <2>2, <2>4 DEF H
  <2>8. Contents(u) = e
    BY <1>6, <1>7, <2>3, <2>5, <2>6, <2>7, ContentsAre DEF Says
  <2>9. QED
    BY <2>8 DEF u, e, c
<1>9. CASE ~InArray(t, k) /\ k = IntKey(n + 1)
  <2>1. u = Extend(t, v)
    BY <1>5, <1>9, RawsetWide DEF Stored, SetResult
  <2>2. /\ Length(u) >= n + 1 /\ \A i \in 1..n : u.array[i] = t.array[i]
        /\ u.array[n + 1] = v
        /\ \A i \in n + 2..Length(u) : IntKey(i) \in H /\ u.array[i] = t.hash[IntKey(i)]
        /\ DOMAIN u.hash = H \ KeysBetween(n + 2, Length(u))
        /\ \A j \in DOMAIN u.hash : u.hash[j] = t.hash[j]
    BY <2>1, ExtendByOne
  <2>3. Length(u) \in Nat
    BY <1>6, GoodTableIs
  <2> HIDE DEF e, u, c, n, H
  <2>4. \A i \in 1..Length(u) : i \in 1..n \/ i = n + 1 \/ i \in n + 2..Length(u)
    BY <1>1, <2>2, <2>3
  <2>5. \A i \in Int : IntKey(i) = k => i = n + 1
    <3>1. n + 1 \in Int
      BY <1>1
    <3>2. IntKey(n + 1)[2] = n + 1
      BY <3>1, KeyShapes
    <3>3. QED
      BY <1>9, <3>2, KeyShapes
  <2>6. DOMAIN e = KeysBetween(1, Length(u)) \cup DOMAIN u.hash
    <3>1. \A i \in 1..n : i \in 1..Length(u)
      BY <1>1, <2>2, <2>3
    <3>2. n + 1 \in 1..Length(u)
      BY <1>1, <2>2, <2>3
    <3>3. \A i \in n + 2..Length(u) : i \in 1..Length(u)
      BY <1>1
    <3>4. DOMAIN e = KeysBetween(1, n) \cup H \cup {k}
      BY <1>2, <1>7
    <3>5. KeysBetween(1, n) \subseteq KeysBetween(1, Length(u)) /\ k \in KeysBetween(1, Length(u))
          /\ KeysBetween(n + 2, Length(u)) \subseteq KeysBetween(1, Length(u))
      BY <1>9, <3>1, <3>2, <3>3 DEF KeysBetween
    <3>6. KeysBetween(1, Length(u)) \subseteq KeysBetween(1, n) \cup {k} \cup H
      BY <1>9, <2>2, <2>4 DEF KeysBetween
    <3>7. QED
      BY <2>2, <3>4, <3>5, <3>6
  <2>7. \A i \in 1..Length(u) : e[IntKey(i)] = u.array[i]
    <3> SUFFICES ASSUME NEW i \in 1..Length(u) PROVE e[IntKey(i)] = u.array[i]
      OBVIOUS
    <3>1. CASE i \in 1..n
      <4>1. i \in Int /\ i # n + 1
        BY <1>1, <3>1
      <4>2. IntKey(i) # k
        BY <2>5, <4>1
      <4>3. QED
        BY <1>2, <1>7, <2>2, <3>1, <4>2
    <3>2. CASE i = n + 1
      BY <1>7, <1>9, <2>2, <3>2
    <3>3. CASE i \in n + 2..Length(u)
      <4>1. i \in Int /\ i # n + 1
        BY <1>1, <3>3
      <4>2. IntKey(i) # k
        BY <2>5, <4>1
      <4>3. QED
        BY <1>2, <1>7, <2>2, <3>3, <4>2
    <3>4. QED
      BY <2>4, <3>1, <3>2, <3>3
  <2>8. \A j \in DOMAIN u.hash : e[j] = u.hash[j]
    <3> SUFFICES ASSUME NEW j \in DOMAIN u.hash PROVE e[j] = u.hash[j]
      OBVIOUS
    <3>1. j # k
      <4>1. n + 1 \in 1..Length(u)
        BY <1>1, <2>2, <2>3
      <4>2. IntKey(n + 1) \notin DOMAIN u.hash
        BY <1>6, <4>1, ContentsParts DEF u
      <4>3. QED
        BY <1>9, <4>2
    <3>2. QED
      BY <1>2, <1>7, <2>2, <3>1
  <2>9. Contents(u) = e
    BY <1>6, <1>7, <2>6, <2>7, <2>8, ContentsAre DEF Says
  <2>10. QED
    BY <2>9 DEF u, e, c
<1>10. CASE ~InArray(t, k) /\ k # IntKey(n + 1)
  <2>1. u.array = t.array /\ DOMAIN u.hash = H \cup {k}
        /\ u.hash[k] = v /\ \A j \in H : j # k => u.hash[j] = t.hash[j]
    <3>1. CASE k \in H
      <4>1. u = [t EXCEPT !.hash[k] = v]
        BY <1>5, <1>10, <3>1, RawsetWide DEF Stored, SetResult
      <4>2. u.array = t.array /\ u.hash = [t.hash EXCEPT ![k] = v]
        BY <1>1, <4>1 DEF Rows
      <4>3. QED
        BY <1>1, <3>1, <4>2
    <3>2. CASE k \notin H
      <4>1. u = Insert(t, k, v)
        BY <1>5, <1>10, <3>2, RawsetWide DEF Stored, SetResult
      <4>2. u.array = t.array /\ u.hash = [j \in H \cup {k} |-> IF j = k THEN v ELSE t.hash[j]]
        BY <1>10, <3>2, <4>1, InsertNew
      <4>3. QED
        BY <4>2
    <3>3. QED
      BY <3>1, <3>2
  <2>2. Length(u) = n
    BY <2>1 DEF Length
  <2>3. \A i \in 1..n : IntKey(i) # k
    BY <1>1, <1>4, <1>10
  <2> HIDE DEF e, u, c, n, H
  <2>4. DOMAIN e = KeysBetween(1, n) \cup DOMAIN u.hash
    BY <1>2, <1>7, <2>1
  <2>5. \A i \in 1..n : e[IntKey(i)] = u.array[i]
    BY <1>2, <1>7, <2>1, <2>3
  <2>6. \A j \in DOMAIN u.hash : e[j] = u.hash[j]
    BY <1>2, <1>7, <2>1
  <2>7. Contents(u) = e
    BY <1>6, <1>7, <2>2, <2>4, <2>5, <2>6, ContentsAre DEF Says
  <2>8. QED
    BY <2>7 DEF u, e, c
<1>11. QED
  BY <1>8, <1>9, <1>10

(* An assignment to a key that is not refused.                             *)
LEMMA SetIs ==
  ASSUME NEW t \in GoodTables, NEW k \in LuaKeys, NEW v \in Values \cup {Nil},
         k # IntKey(IntMin)
  PROVE  Contents(Rawset(t, k, v).table) = Abstract!Set(Contents(t), k, v)
<1>1. CASE v = Nil
  <2>1. Rawset(t, k, v) = SetResult(Rawremove(t, k), FALSE, FALSE, "none")
    BY <1>1, RawsetWide
  <2>2. Rawset(t, k, v).table = Rawremove(t, k)
    BY <2>1 DEF SetResult
  <2>3. QED
    BY <1>1, <2>2, UnsetIs DEF Abstract!Set
<1>2. CASE v # Nil
  BY <1>2, WithIs DEF Abstract!Set
<1>3. QED
  BY <1>1, <1>2

-----------------------------------------------------------------------------
(* The meters do not show in the contents.                                 *)

LEMMA RawsetGrows ==
  ASSUME NEW t \in GoodTables, NEW k \in LuaKeys, NEW v \in Values \cup {Nil}
  PROVE  /\ Rawset(t, k, v).table \in GoodTables
         /\ Rawset(t, k, v).table.capacity \in Nat
         /\ (Rawset(t, k, v).table.capacity - t.capacity) * HashSlot \in Nat
<1>1. /\ Rawset(t, k, v).table \in GoodTables
      /\ Rawset(t, k, v).table.capacity >= t.capacity
  BY RawsetIs DEF SetsOne
<1>2. Rawset(t, k, v).table.capacity \in Nat /\ t.capacity \in Nat
  BY <1>1, GoodTableIs
<1>3. QED
  BY <1>1, <1>2 DEF HashSlot

LEMMA PaidStores ==
  ASSUME NEW m \in GoodMachines, NEW k \in LuaKeys, NEW v \in Values \cup {Nil},
         m.fault = "none"
  PROVE  /\ SetPaid(m, k, v).table = Rawset(m.table, k, v).table
         /\ DoRawset(m, k, v).table = Rawset(m.table, k, v).table
<1> DEFINE r == Rawset(m.table, k, v)
           u == SetRaw(m, k, v)
           n == (r.table.capacity - m.table.capacity) * HashSlot
           p == IF ~r.inserted THEN Charge(u, TableSetExisting)
                ELSE IF r.grew THEN Charge(Charge(u, TableSetNewKey), r.table.capacity)
                ELSE Charge(u, TableSetNewKey)
<1>1. r.table.capacity \in Nat /\ n \in Nat
  BY GoodMachineIs, RawsetGrows
<1>2. u \in GoodMachines /\ u.table = r.table
  BY SetRawIs
<1>3. /\ TableSetExisting \in Nat /\ TableSetNewKey \in Nat /\ ArraySlot \in Nat
  BY DEF TableSetExisting, TableSetNewKey, ArraySlot
<1>4. SetPaid(m, k, v) = IF ~r.inserted THEN u
                         ELSE IF r.grew THEN Alloc(u, n) ELSE Alloc(u, ArraySlot)
  BY DEF SetPaid
<1>5. DoRawset(m, k, v) = IF r.error # "none" THEN u
                          ELSE IF ~r.inserted THEN p
                          ELSE IF r.grew THEN Alloc(p, n) ELSE Alloc(p, ArraySlot)
  BY DEF DoRawset
<1> HIDE DEF r, u, n
<1>6. \A i \in Nat : Charge(u, i) \in GoodMachines /\ Charge(u, i).table = r.table
  BY <1>2, ChargePays DEF Pays
<1>7. /\ Charge(Charge(u, TableSetNewKey), r.table.capacity) \in GoodMachines
      /\ Charge(Charge(u, TableSetNewKey), r.table.capacity).table = r.table
  BY <1>1, <1>3, <1>6, ChargePays DEF Pays
<1>8. p \in GoodMachines /\ p.table = r.table
  BY <1>3, <1>6, <1>7
<1> HIDE DEF p
<1>9. SetPaid(m, k, v).table = r.table
  BY <1>1, <1>2, <1>3, <1>4, AllocIs
<1>10. DoRawset(m, k, v).table = r.table
  BY <1>1, <1>2, <1>3, <1>5, <1>8, AllocIs
<1>11. QED
  BY <1>9, <1>10 DEF r

(* The keys of a list are never the one that is refused. *)
LEMMA ListKeys ==
  ASSUME NEW i \in Nat, i >= 1
  PROVE  IntKey(i) \in LuaKeys /\ IntKey(i) # IntKey(IntMin) /\ Abstract!At(i) = IntKey(i)
<1>1. IntMin \in Int /\ IntMin < 0
  BY ValuesAssumption
<1>2. IntKey(i) \in LuaKeys /\ IntKey(i)[2] = i /\ IntKey(IntMin)[2] = IntMin
  BY <1>1, KeyShapes
<1>3. QED
  BY <1>1, <1>2, AtIs

(* table_insert: room is made before the element is stored.                *)
LEMMA OpenedIs ==
  ASSUME NEW t \in GoodTables, NEW pos \in 1..Length(t), NEW u \in GoodTables,
         u.array = Lifted(Extend(t, t.array[Length(t)]).array, t.array, pos),
         u.hash = Extend(t, t.array[Length(t)]).hash
  PROVE  Contents(u) = Abstract!Opened(Contents(t), pos)
<1> DEFINE n == Length(t)
           x == t.array[n]
           b == Extend(t, x)
           c == Contents(t)
           d == Contents(b)
           e == Abstract!Opened(c, pos)
<1>1. /\ n \in Nat /\ n = Len(t.array) /\ pos \in 1..n /\ n >= 1 /\ t.array \in Seq(Values)
  <2>1. n \in Nat /\ n = Len(t.array) /\ t.array \in Seq(Values)
    BY GoodTableIs
  <2>2. pos \in 1..n
    OBVIOUS
  <2> HIDE DEF n
  <2>3. n >= 1
    BY <2>1, <2>2
  <2>4. QED
    BY <2>1, <2>2, <2>3
<1>2. x \in Values
  BY <1>1
<1>3. /\ b \in GoodTables /\ Length(b) >= n + 1
      /\ \A i \in 1..n : b.array[i] = t.array[i]
      /\ b.array[n + 1] = x
  BY <1>2, ExtendByOne
<1>4. /\ Length(b) = Len(b.array) /\ Length(b) \in Nat /\ DOMAIN b.array = 1..Length(b)
      /\ Length(u) = Len(u.array) /\ DOMAIN u.array = 1..Length(u) /\ Length(u) \in Nat
  <2>1. /\ Length(b) = Len(b.array) /\ Length(b) \in Nat /\ b.array \in Seq(Values)
        /\ Length(u) = Len(u.array) /\ Length(u) \in Nat /\ u.array \in Seq(Values)
    BY <1>3, GoodTableIs
  <2>2. QED
    BY <2>1
<1>5. DOMAIN u.array = DOMAIN b.array
  BY DEF Lifted
<1>6. Length(u) = Length(b)
  BY <1>4, <1>5
<1>7. d = Abstract!With(c, IntKey(n + 1), x)
  <2>1. IntKey(n + 1) \in LuaKeys /\ IntKey(n + 1) # IntKey(IntMin) /\ IntKey(n + 1)[2] = n + 1
    <3>1. n + 1 \in Nat /\ n + 1 >= 1
      BY <1>1
    <3>2. QED
      BY <3>1, ListKeys, KeyShapes
  <2>2. ~InArray(t, IntKey(n + 1))
    BY <1>1, <2>1 DEF InArray
  <2>3. x # Nil
    BY <1>2, MeteredAssumption
  <2>4. Rawset(t, IntKey(n + 1), x).table = b
    BY <2>1, <2>2, <2>3, RawsetWide DEF Stored, SetResult
  <2>5. QED
    BY <1>2, <2>1, <2>4, WithIs
<1>8. Abstract!Border(c) = n
  BY BorderIs
<1>9. /\ DOMAIN d = KeysBetween(1, Length(b)) \cup DOMAIN b.hash /\ DOMAIN d \subseteq LuaKeys
      /\ \A i \in 1..Length(b) : IntKey(i) \in DOMAIN d /\ d[IntKey(i)] = b.array[i]
      /\ \A j \in DOMAIN b.hash : j \in DOMAIN d /\ d[j] = b.hash[j] /\ ~InArray(b, j)
  BY <1>3, ContentsKeys, ContentsParts
<1>10. \A i \in 1..n : c[IntKey(i)] = t.array[i]
  BY ContentsParts
<1>11. /\ DOMAIN d = DOMAIN c \cup {IntKey(n + 1)} /\ d[IntKey(n + 1)] = x
       /\ \A j \in DOMAIN c : j # IntKey(n + 1) => d[j] = c[j]
  BY <1>7 DEF Abstract!With
<1>12. /\ e = [j \in DOMAIN e |-> e[j]] /\ DOMAIN e = DOMAIN c \cup {Abstract!At(n + 1)}
       /\ \A j \in DOMAIN e : e[j] = IF j[1] = 1 /\ j[2] \in pos + 1..n + 1
                                    THEN c[Abstract!At(j[2] - 1)] ELSE c[j]
  <2>1. ~(pos > n)
    BY <1>1
  <2>2. e = [j \in DOMAIN c \cup {Abstract!At(n + 1)} |->
               IF j[1] = 1 /\ j[2] \in pos + 1..n + 1 THEN c[Abstract!At(j[2] - 1)] ELSE c[j]]
    BY <1>8, <2>1 DEF Abstract!Opened
  <2> HIDE DEF e, c
  <2>3. QED
    BY <2>2
<1>13. \A i \in Int : /\ Abstract!At(i) = IntKey(i) /\ IntKey(i)[1] = 1 /\ IntKey(i)[2] = i
  BY AtIs, KeyShapes DEF IntegerKind
<1> HIDE DEF n, x, b, c, d, e
<1>14. n + 1 \in Int /\ n \in Int
  BY <1>1
<1>15. DOMAIN e = KeysBetween(1, Length(u)) \cup DOMAIN u.hash
  BY <1>6, <1>9, <1>11, <1>12, <1>13, <1>14 DEF b, x, n
<1>16. \A i \in 1..Length(u) : e[IntKey(i)] = u.array[i]
  <2> SUFFICES ASSUME NEW i \in 1..Length(b) PROVE e[IntKey(i)] = u.array[i]
    BY <1>6
  <2>1. i \in Int /\ IntKey(i) \in DOMAIN e
    <3>1. i \in Int /\ IntKey(i) \in DOMAIN d
      BY <1>4, <1>9
    <3>2. DOMAIN d = DOMAIN e
      BY <1>11, <1>12, <1>13, <1>14
    <3>3. QED
      BY <3>1, <3>2
  <2>2. e[IntKey(i)] = IF i \in pos + 1..n + 1 THEN c[IntKey(i - 1)] ELSE c[IntKey(i)]
    <3>1. i - 1 \in Int
      BY <2>1
    <3>2. QED
      BY <1>12, <1>13, <2>1, <3>1
  <2>3. u.array[i] = IF i \in pos + 1..n THEN t.array[i - 1] ELSE b.array[i]
    BY <1>1, <1>4 DEF Lifted, b, x, n
  <2>4. CASE i \in pos + 1..n
    <3>1. i \in pos + 1..n + 1 /\ i - 1 \in 1..n
      BY <1>1, <2>4
    <3>2. QED
      BY <1>10, <2>2, <2>3, <2>4, <3>1
  <2>5. CASE i = n + 1
    <3>1. i \in pos + 1..n + 1 /\ i - 1 = n /\ n \in 1..n /\ i \notin pos + 1..n
      BY <1>1, <2>5
    <3>2. QED
      BY <1>3, <1>10, <2>2, <2>3, <2>5, <3>1 DEF x
  <2>6. CASE i \notin pos + 1..n /\ i # n + 1
    <3>1. i \notin pos + 1..n + 1
      BY <1>1, <2>1, <2>6
    <3>2. IntKey(i) # IntKey(n + 1)
      BY <1>13, <1>14, <2>1, <2>6
    <3>3. IntKey(i) \in DOMAIN c
      BY <1>9, <1>11, <3>2
    <3>4. d[IntKey(i)] = c[IntKey(i)]
      BY <1>11, <3>2, <3>3
    <3>5. QED
      BY <1>9, <2>2, <2>3, <2>6, <3>1, <3>4
  <2>7. QED
    BY <2>4, <2>5, <2>6
<1>17. \A j \in DOMAIN u.hash : e[j] = u.hash[j]
  <2> SUFFICES ASSUME NEW j \in DOMAIN b.hash PROVE e[j] = b.hash[j]
    BY DEF b, x, n
  <2>1. j \in DOMAIN d /\ d[j] = b.hash[j] /\ ~InArray(b, j) /\ j \in DOMAIN e
    BY <1>9, <1>11, <1>12, <1>13, <1>14
  <2>2. ~(j[1] = 1 /\ j[2] \in pos + 1..n + 1)
    <3>1. \A i \in pos + 1..n + 1 : i \in 1..Length(b)
      BY <1>1, <1>3, <1>4
    <3>2. QED
      BY <2>1, <3>1 DEF InArray, IntegerKind
  <2>3. j # IntKey(n + 1)
    <3>1. n + 1 \in pos + 1..n + 1
      BY <1>1
    <3>2. QED
      BY <1>13, <1>14, <2>2, <3>1
  <2>4. j \in DOMAIN c /\ d[j] = c[j]
    BY <1>11, <2>1, <2>3
  <2>5. e[j] = c[j]
    BY <1>12, <2>1, <2>2
  <2>6. QED
    BY <2>1, <2>4, <2>5
<1>18. Contents(u) = e
  BY <1>12, <1>15, <1>16, <1>17, ContentsAre DEF Says
<1>19. QED
  BY <1>18 DEF e, c

-----------------------------------------------------------------------------
(* table_move.                                                             *)

ContentAt(c, i) == IF Abstract!At(i) \in DOMAIN c THEN c[Abstract!At(i)] ELSE Nil

(* The contents g goes through are those of the abstract move. *)
LEMMA MovedIs ==
  ASSUME NEW c, NEW first \in Int, NEW last \in Int, NEW pos, first <= last, NEW g,
         g[0] = c,
         \A i \in 1..last - first + 1 :
           g[i] = Abstract!Set(g[i - 1], Abstract!At(pos + i - 1), ContentAt(c, first + i - 1))
  PROVE  Abstract!Moved(c, first, last, pos) = g[last - first + 1]
<1> DEFINE n == last - first + 1
           set(d, i) == Abstract!Set(d, Abstract!At(pos + i - 1), ContentAt(c, first + i - 1))
           F(h) == [i \in 0..n |-> IF i = 0 THEN c ELSE set(h[i - 1], i)]
           after == CHOOSE h : h = F(h)
           e == [i \in 0..n |-> g[i]]
<1>1. n \in Nat
  OBVIOUS
<1>2. Abstract!Moved(c, first, last, pos) = after[n]
  <2>1. ~(first > last)
    OBVIOUS
  <2>2. QED
    BY <2>1 DEF Abstract!Moved, ContentAt
<1>3. g[0] = c /\ \A i \in 1..n : g[i] = set(g[i - 1], i)
  OBVIOUS
<1> HIDE DEF n, set
<1>4. e = F(e)
  <2>1. \A i \in 0..n : i = 0 \/ (i \in 1..n /\ i - 1 \in 0..n)
    BY <1>1
  <2>2. \A i \in 0..n : e[i] = IF i = 0 THEN c ELSE set(e[i - 1], i)
    BY <1>3, <2>1
  <2>3. QED
    BY <2>2
<1>5. after = F(after)
  <2> HIDE DEF F
  <2>1. QED
    BY <1>4
<1> HIDE DEF after, e
<1>6. 0 \in 0..n /\ n \in 0..n
  BY <1>1
<1>7. GoAlike(after, e, n)
  <2>1. \A i \in 1..n : i \in 0..n /\ i # 0
    BY <1>1
  <2>2. after[0] = c /\ e[0] = c
    BY <1>4, <1>5, <1>6
  <2>3. \A i \in 1..n : after[i] = set(after[i - 1], i) /\ e[i] = set(e[i - 1], i)
    BY <1>4, <1>5, <2>1
  <2>4. QED
    BY <2>2, <2>3 DEF GoAlike
<1>8. after[n] = e[n] /\ e[n] = g[n]
  BY <1>1, <1>6, <1>7, SameUpTo DEF e
<1>9. QED
  BY <1>2, <1>8 DEF n

(* What a table holds is what its contents say. *)
LEMMA GetContents ==
  ASSUME NEW t \in GoodTables, NEW i \in Nat, i >= 1
  PROVE  Get(t, IntKey(i)) = ContentAt(Contents(t), i)
<1>1. Abstract!At(i) = IntKey(i) /\ IntKey(i)[1] = IntegerKind /\ IntKey(i)[2] = i
  BY AtIs, KeyShapes
<1>2. CASE i \in 1..Length(t)
  <2>1. InArray(t, IntKey(i))
    BY <1>1, <1>2 DEF InArray
  <2>2. QED
    BY <1>1, <1>2, <2>1, ContentsParts DEF Get, ContentAt
<1>3. CASE i \notin 1..Length(t)
  <2>1. ~InArray(t, IntKey(i))
    BY <1>1, <1>3 DEF InArray
  <2>2. IntKey(i) \notin KeysBetween(1, Length(t))
    <3> SUFFICES ASSUME NEW j \in 1..Length(t), IntKey(i) = IntKey(j) PROVE FALSE
      BY DEF KeysBetween
    <3>1. j \in Int /\ i \in Int
      OBVIOUS
    <3>2. i = j
      BY <3>1, KeyShapes
    <3>3. QED
      BY <1>3, <3>2
  <2>3. IntKey(i) \in DOMAIN Contents(t) <=> IntKey(i) \in DOMAIN t.hash
    BY <2>2, ContentsKeys
  <2>4. QED
    BY <1>1, <2>1, <2>3, ContentsParts DEF Get, ContentAt
<1>4. QED
  BY <1>2, <1>3

(* A move stores all the elements, or those before the one too many.       *)
LEMMA MoveContents ==
  ASSUME NEW m \in GoodMachines, m.fault = "none", NEW first \in 1..Length(m.table) + 1,
         NEW last \in 1..Length(m.table) + 1, NEW pos \in 1..Length(m.table) + 1
  PROVE  LET d == Contents(TableMove(m, first, last, pos).table)
         IN  \/ d = Contents(m.table)
             \/ \E e \in first..last : d = Abstract!Moved(Contents(m.table), first, e, pos)
<1> DEFINE t == m.table
           n == last - first + 1
           c == Contents(t)
           value(i) == Get(t, IntKey(first + i - 1))
           step == [i \in Nat |-> [u \in GoodTables |->
                                    Rawset(u, IntKey(pos + i - 1), value(i)).table]]
           d == Contents(TableMove(m, first, last, pos).table)
<1>1. t \in GoodTables /\ Length(t) \in Nat
  BY GoodMachineIs, GoodTableIs
<1>2. CASE first > last
  <2>1. TableMove(m, first, last, pos) = m
    BY <1>2 DEF TableMove
  <2>2. QED
    BY <2>1
<1>3. CASE ~(first > last)
  <2>1. /\ n \in Nat /\ n >= 1 /\ first \in Nat /\ pos \in Nat /\ 1 <= pos /\ 1 <= first
        /\ first <= last /\ last \in Nat
    BY <1>1, <1>3
  <2>2. PICK f : /\ Unrolls(f, GoodMachines, Charge(m, n), MoveStep(t, first, pos), n)
                 /\ TableMove(m, first, last, pos) = f[n]
    BY <2>1, MoveIs
  <2>3. ASSUME NEW i \in 1..n
        PROVE  /\ IntKey(pos + i - 1) \in LuaKeys /\ IntKey(pos + i - 1) # IntKey(IntMin)
               /\ Abstract!At(pos + i - 1) = IntKey(pos + i - 1)
               /\ value(i) \in Values \cup {Nil} /\ value(i) = ContentAt(c, first + i - 1)
               /\ i \in Nat
    <3> HIDE DEF n
    <3>1. /\ pos + i - 1 \in Nat /\ pos + i - 1 >= 1 /\ i \in Nat
          /\ first + i - 1 \in Nat /\ first + i - 1 >= 1
      BY <2>1
    <3>2. IntKey(first + i - 1) \in LuaKeys
      BY <3>1, ListKeys
    <3>3. QED
      BY <1>1, <3>1, <3>2, ListKeys, GetIs, GetContents
  <2> HIDE DEF n, value
  <2>4. ASSUME NEW i \in 1..n, NEW u \in GoodTables
        PROVE  /\ step[i][u] = Rawset(u, IntKey(pos + i - 1), value(i)).table
               /\ step[i][u] \in GoodTables
               /\ Contents(step[i][u]) =
                    Abstract!Set(Contents(u), Abstract!At(pos + i - 1), ContentAt(c, first + i - 1))
    <3>1. step[i][u] = Rawset(u, IntKey(pos + i - 1), value(i)).table
      BY <2>3
    <3> HIDE DEF step
    <3>2. Rawset(u, IntKey(pos + i - 1), value(i)).table \in GoodTables
      BY <2>3, RawsetGrows
    <3>3. Contents(Rawset(u, IntKey(pos + i - 1), value(i)).table) =
            Abstract!Set(Contents(u), IntKey(pos + i - 1), value(i))
      BY <2>3, SetIs
    <3>4. QED
      BY <2>3, <3>1, <3>2, <3>3
  <2> HIDE DEF step
  <2>5. IsStep(GoodTables, step, n)
    BY <2>4 DEF IsStep
  <2>6. PICK h : Unrolls(h, GoodTables, t, step, n)
    BY <1>1, <2>1, <2>5, Recursion
  <2>7. h \in [0..n -> GoodTables] /\ h[0] = t /\ \A i \in 1..n : h[i] = step[i][h[i - 1]]
    BY <2>6 DEF Unrolls
  <2>8. /\ f \in [0..n -> GoodMachines] /\ f[0] = Charge(m, n)
        /\ \A i \in 1..n : f[i] = MoveStep(t, first, pos)[i][f[i - 1]]
    BY <2>2 DEF Unrolls
  <2>9. \A i \in 1..n : /\ f[i] = SetRaw(f[i - 1], IntKey(pos + i - 1), value(i))
                        /\ f[i - 1] \in GoodMachines /\ h[i - 1] \in GoodTables
                        /\ i - 1 \in 0..n
    <3> SUFFICES ASSUME NEW i \in 1..n
                 PROVE  /\ f[i] = SetRaw(f[i - 1], IntKey(pos + i - 1), value(i))
                        /\ f[i - 1] \in GoodMachines /\ h[i - 1] \in GoodTables
                        /\ i - 1 \in 0..n
      OBVIOUS
    <3>1. i \in Nat /\ i - 1 \in 0..n
      BY <2>1
    <3>2. f[i - 1] \in GoodMachines /\ h[i - 1] \in GoodTables
      BY <2>7, <2>8, <3>1
    <3>3. MoveStep(t, first, pos)[i][f[i - 1]] = SetRaw(f[i - 1], IntKey(pos + i - 1), value(i))
      BY <3>1, <3>2 DEF MoveStep, value
    <3>4. QED
      BY <2>8, <3>1, <3>2, <3>3
  <2> DEFINE At(i, j) == j \in 0..i /\ f[i].table = h[j] /\ (f[i].fault = "none" => j = i)
             Held(i) == \E j \in Nat : At(i, j)
             T == {i \in Nat : i <= n => Held(i)}
  <2>10. 0 \in T
    <3>1. f[0].table = t
      BY <2>1, <2>8, ChargePays
    <3>2. At(0, 0)
      BY <2>7, <3>1
    <3>3. QED
      BY <3>2
  <2>11. ASSUME NEW i \in T PROVE i + 1 \in T
    <3> SUFFICES ASSUME i + 1 <= n PROVE Held(i + 1)
      BY DEF T
    <3>0. i \in Nat
      BY <2>11
    <3>1. i + 1 \in 1..n /\ (i + 1) - 1 = i /\ i <= n /\ i + 1 \in Nat
      BY <2>1, <3>0
    <3>2. PICK j \in Nat : At(i, j)
      BY <2>11, <3>1
    <3> DEFINE k == IntKey(pos + (i + 1) - 1)
               v == value(i + 1)
    <3>3. f[i + 1] = SetRaw(f[i], k, v) /\ f[i] \in GoodMachines /\ h[i] \in GoodTables
      BY <2>9, <3>1
    <3>4. k \in LuaKeys /\ v \in Values \cup {Nil}
      BY <2>3, <3>1
    <3> HIDE DEF T
    <3>5. CASE f[i].fault = "none"
      <4>1. f[i].table = h[i]
        BY <3>2, <3>5
      <4>2. f[i + 1].table = Rawset(h[i], k, v).table
        BY <3>3, <3>4, <3>5, <4>1, SetRawIs
      <4>3. h[i + 1] = step[i + 1][h[i]]
        BY <2>7, <3>1
      <4>4. h[i + 1] = Rawset(h[i], k, v).table
        BY <2>4, <3>1, <3>3, <4>3
      <4>5. At(i + 1, i + 1)
        BY <3>0, <4>2, <4>4
      <4>6. QED
        BY <3>1, <4>5
    <3>6. CASE f[i].fault # "none"
      <4>1. f[i + 1] = f[i]
        BY <3>3, <3>4, <3>6, SetRawIs
      <4>2. j \in 0..i + 1
        BY <3>0, <3>2
      <4>3. At(i + 1, j)
        BY <3>2, <3>6, <4>1, <4>2
      <4>4. QED
        BY <4>3
    <3>7. QED
      BY <3>5, <3>6
  <2>12. T = Nat
    <3> DEFINE S == T
    <3>1. S \in SUBSET Nat /\ 0 \in S /\ \A i \in S : i + 1 \in S
      BY <2>10, <2>11
    <3> HIDE DEF S
    <3>2. S = Nat
      BY <3>1, NatInd
    <3>3. QED
      BY <3>2 DEF S
  <2>13. PICK j \in Nat : At(n, j)
    BY <2>1, <2>12
  <2>14. j \in 0..n /\ d = Contents(h[j])
    BY <2>2, <2>13
  <2> HIDE DEF At, T, Held
  <2>15. CASE j = 0
    BY <2>7, <2>14, <2>15
  <2>16. CASE j # 0
    <3> DEFINE e == first + j - 1
               g == [i \in 0..n |-> Contents(h[i])]
    <3>1. e \in first..last /\ e - first + 1 = j /\ e \in Int
      BY <2>1, <2>14, <2>16 DEF n
    <3>2. \A i \in 1..j : i \in 1..n /\ i \in 0..n
      BY <2>1, <2>14
    <3>3. \A i \in 1..j : g[i] = Abstract!Set(g[i - 1], Abstract!At(pos + i - 1),
                                              ContentAt(c, first + i - 1))
      <4> SUFFICES ASSUME NEW i \in 1..j
                   PROVE  g[i] = Abstract!Set(g[i - 1], Abstract!At(pos + i - 1),
                                              ContentAt(c, first + i - 1))
        OBVIOUS
      <4>1. h[i] = step[i][h[i - 1]] /\ h[i - 1] \in GoodTables /\ i - 1 \in 0..n
        BY <2>7, <2>9, <3>2
      <4>2. Contents(h[i]) = Abstract!Set(Contents(h[i - 1]), Abstract!At(pos + i - 1),
                                          ContentAt(c, first + i - 1))
        BY <2>4, <3>2, <4>1
      <4>3. QED
        BY <3>2, <4>1, <4>2
    <3>4. g[0] = c /\ g[j] = d
      BY <2>1, <2>7, <2>14
    <3> HIDE DEF g, e, c, d
    <3>5. first <= e
      BY <2>1, <3>1
    <3>6. \A i \in 1..e - first + 1 :
            g[i] = Abstract!Set(g[i - 1], Abstract!At(pos + i - 1), ContentAt(c, first + i - 1))
      BY <3>1, <3>3
    <3>7. Abstract!Moved(c, first, e, pos) = g[e - first + 1]
      BY <2>1, <3>1, <3>4, <3>5, <3>6, MovedIs
    <3>8. QED
      BY <3>1, <3>4, <3>7 DEF c, d
  <2>17. QED
    BY <2>15, <2>16
<1>4. QED
  BY <1>2, <1>3

-----------------------------------------------------------------------------
(* table_insert: room is made and the element stored, or nothing, or only  *)
(* the last element copied past the list before the memory ran out.        *)
LEMMA InsertContents ==
  ASSUME NEW m \in GoodMachines, m.fault = "none", NEW pos \in 1..Length(m.table) + 1,
         NEW v \in Values \cup {Nil}
  PROVE  LET c == Contents(m.table)
             d == Contents(TableInsert(m, pos, v).table)
             n == Length(m.table)
         IN  \/ d = c
             \/ d = Abstract!Set(Abstract!Opened(c, pos), Abstract!At(pos), v)
             \/ n >= 1 /\ d = Abstract!Moved(c, n, n, n + 1)
<1> DEFINE t == m.table
           n == Length(t)
           a == t.array
           c == Contents(t)
           p == Charge(m, 5 + n - pos + 1)
           s == SetPaid(p, IntKey(n + 1), a[n])
           w == Over(s, Lifted(s.table.array, a, pos))
           d == Contents(TableInsert(m, pos, v).table)
<1>1. t \in GoodTables
  BY GoodMachineIs
<1>2. /\ n \in Nat /\ n = Len(a) /\ a \in Seq(Values)
      /\ a = [i \in 1..n |-> a[i]]
  BY <1>1, GoodTableIs
<1>3. pos \in 1..n + 1
  OBVIOUS
<1>4. TableInsert(m, pos, v) = IF pos = n + 1 THEN SetPaid(p, IntKey(pos), v)
                               ELSE IF s.fault # "none" THEN s
                               ELSE SetPaid(w, IntKey(pos), v)
  BY InsertIs
<1>5. p \in GoodMachines /\ p.table = t
  <2>1. 5 + n - pos + 1 \in Nat
    <3> HIDE DEF n
    <3>1. QED
      BY <1>2, <1>3
  <2>2. QED
    BY <2>1, ChargePays DEF Pays
<1>6. /\ IntKey(pos) \in LuaKeys /\ IntKey(pos) # IntKey(IntMin)
      /\ Abstract!At(pos) = IntKey(pos)
      /\ IntKey(n + 1) \in LuaKeys /\ IntKey(n + 1) # IntKey(IntMin)
      /\ Abstract!At(n + 1) = IntKey(n + 1) /\ IntKey(n + 1)[2] = n + 1
  <2>1. pos \in Nat /\ pos >= 1 /\ n + 1 \in Nat /\ n + 1 >= 1
    <3> HIDE DEF n
    <3>1. QED
      BY <1>2, <1>3
  <2>2. QED
    BY <2>1, ListKeys, KeyShapes
<1>7. CASE p.fault # "none"
  <2>1. s = p /\ SetPaid(p, IntKey(pos), v) = p
    BY <1>7, SetPaidFault
  <2>2. TableInsert(m, pos, v) = p
    BY <1>4, <1>7, <2>1
  <2>3. QED
    BY <1>5, <2>2
<1>8. CASE p.fault = "none" /\ pos = n + 1
  <2>1. TableInsert(m, pos, v).table = Rawset(t, IntKey(pos), v).table
    BY <1>4, <1>5, <1>6, <1>8, PaidStores
  <2>2. d = Abstract!Set(c, Abstract!At(pos), v)
    BY <1>1, <1>6, <2>1, SetIs
  <2>3. Abstract!Opened(c, pos) = c
    <3>1. Abstract!Border(c) = n
      BY <1>1, BorderIs
    <3> HIDE DEF n, c
    <3>2. pos > n
      BY <1>2, <1>8
    <3>3. QED
      BY <3>1, <3>2 DEF Abstract!Opened
  <2>4. QED
    BY <2>2, <2>3
<1>9. CASE p.fault = "none" /\ pos # n + 1
  <2>1. n >= 1 /\ pos \in 1..n /\ n \in 1..n
    <3> HIDE DEF n
    <3>1. QED
      BY <1>2, <1>3, <1>9
  <2>2. a[n] \in Values
    BY <1>2, <2>1
  <2>3. s.table = Extend(t, a[n]) /\ s \in GoodMachines
    BY <1>5, <1>6, <1>9, <2>2, SetPaidNext, SetPaidPays DEF Pays
  <2>4. Contents(s.table) = Abstract!Set(c, Abstract!At(n + 1), a[n])
    <3>1. s.table = Rawset(t, IntKey(n + 1), a[n]).table
      BY <1>5, <1>6, <1>9, <2>2, PaidStores
    <3>2. QED
      BY <1>1, <1>6, <2>2, <3>1, SetIs
  <2>5. CASE s.fault # "none"
    <3> DEFINE g == [i \in 0..1 |-> IF i = 0 THEN c ELSE Contents(s.table)]
    <3>1. d = Contents(s.table)
      BY <1>4, <1>9, <2>5
    <3>2. ContentAt(c, n) = a[n]
      <4>1. Abstract!At(n) = IntKey(n)
        BY <1>2, AtIs
      <4>2. QED
        BY <1>1, <2>1, <4>1, ContentsParts DEF ContentAt
    <3> HIDE DEF s, c, n, a, d
    <3>3. n \in Int /\ n <= n /\ n - n + 1 = 1
      BY <1>2
    <3>4. \A i \in 1..n - n + 1 :
            g[i] = Abstract!Set(g[i - 1], Abstract!At((n + 1) + i - 1), ContentAt(c, n + i - 1))
      <4> SUFFICES ASSUME NEW i \in 1..1
                   PROVE  g[i] = Abstract!Set(g[i - 1], Abstract!At((n + 1) + i - 1),
                                              ContentAt(c, n + i - 1))
        BY <3>3
      <4>1. i = 1 /\ i - 1 = 0 /\ (n + 1) + i - 1 = n + 1 /\ n + i - 1 = n
        BY <3>3
      <4>2. QED
        BY <2>4, <3>2, <4>1
    <3>5. g[0] = c /\ g[1] = d
      BY <3>1
    <3> HIDE DEF g
    <3>6. Abstract!Moved(c, n, n, n + 1) = g[n - n + 1]
      BY <3>3, <3>4, <3>5, MovedIs
    <3>7. d = Abstract!Moved(c, n, n, n + 1)
      BY <3>3, <3>5, <3>6
    <3>8. QED
      BY <2>1, <3>7 DEF c, d, n
  <2>6. CASE s.fault = "none"
    <3> DEFINE b == s.table.array
    <3>1. /\ b \in Seq(Values) /\ Len(b) = Length(s.table)
      BY <2>3, GoodMachineIs, GoodTableIs
    <3>2. Lifted(b, a, pos) \in Seq(Values) /\ Len(Lifted(b, a, pos)) = Length(s.table)
      <4>1. pos \in Nat /\ 1 <= pos
        BY <2>1
      <4> HIDE DEF a, b
      <4>2. QED
        BY <1>2, <3>1, <4>1, LiftedIs
    <3>3. /\ w \in GoodMachines /\ w.fault = "none"
          /\ w.table.array = Lifted(b, a, pos) /\ w.table.hash = s.table.hash
      BY <2>3, <2>6, <3>2, OverIsGood
    <3>4. w.table \in GoodTables
      BY <3>3, GoodMachineIs
    <3>5. Contents(w.table) = Abstract!Opened(c, pos)
      <4> HIDE DEF w
      <4>1. pos \in 1..Length(t)
        BY <2>1
      <4>2. /\ w.table.array = Lifted(Extend(t, a[n]).array, a, pos)
            /\ w.table.hash = Extend(t, a[n]).hash
        BY <2>3, <3>3
      <4>3. QED
        BY <1>1, <3>4, <4>1, <4>2, OpenedIs
    <3> HIDE DEF w
    <3>6. TableInsert(m, pos, v).table = Rawset(w.table, IntKey(pos), v).table
      BY <1>4, <1>6, <1>9, <2>6, <3>3, PaidStores
    <3>7. QED
      BY <1>6, <3>4, <3>5, <3>6, SetIs
  <2>7. QED
    BY <2>5, <2>6
<1>10. QED
  BY <1>7, <1>8, <1>9

(* table_remove: the element goes, or the gas ran out first.               *)
LEMMA RemoveContents ==
  ASSUME NEW m \in GoodMachines, m.fault = "none", NEW pos \in 1..Length(m.table)
  PROVE  LET c == Contents(m.table)
             d == Contents(TableRemove(m, pos).table)
         IN  d = c \/ d = Abstract!Unset(c, Abstract!At(pos))
<1> DEFINE p == Charge(m, 5 + Length(m.table) - pos)
<1>1. Length(m.table) \in Nat /\ m.table \in GoodTables
  BY GoodMachineIs, GoodTableIs
<1>2. p \in GoodMachines /\ p.table = m.table
  <2>1. 5 + Length(m.table) - pos \in Nat
    BY <1>1
  <2>2. QED
    BY <2>1, ChargePays DEF Pays
<1>3. TableRemove(m, pos) = IF p.fault # "none" THEN p
                            ELSE [p EXCEPT !.table = Rawremove(p.table, IntKey(pos))]
  BY RemoveIs
<1> HIDE DEF p
<1>4. CASE p.fault # "none"
  BY <1>2, <1>3, <1>4
<1>5. CASE p.fault = "none"
  <2>1. TableRemove(m, pos).table = Rawremove(m.table, IntKey(pos))
    <3>1. p \in Machines
      BY <1>2, GoodMachineIs
    <3>2. QED
      BY <1>2, <1>3, <1>5, <3>1 DEF Machines
  <2>2. IntKey(pos) \in LuaKeys /\ Abstract!At(pos) = IntKey(pos)
    <3>1. pos \in Nat /\ pos >= 1
      BY <1>1
    <3>2. QED
      BY <3>1, ListKeys
  <2>3. QED
    BY <1>1, <2>1, <2>2, UnsetIs
<1>6. QED
  BY <1>4, <1>5

-----------------------------------------------------------------------------
(* The keys of D change places. *)
Rearranges(D, c, d, G) == G \in Bijection(D, D) /\ \A k \in D : d[k] = c[G[k]]

Times(D, c, v) == Cardinality({k \in D : c[k] = v})

(* Each value stays as often as it was. *)
LEMMA SameValues ==
  ASSUME NEW D, IsFiniteSet(D), NEW c, NEW d, NEW G, Rearranges(D, c, d, G), NEW v
  PROVE  Times(D, c, v) = Times(D, d, v)
<1> DEFINE A == {k \in D : d[k] = v}
           B == {k \in D : c[k] = v}
           g == [k \in A |-> G[k]]
<1>1. /\ G \in [D -> D] /\ \A j, k \in D : G[j] = G[k] => j = k
      /\ \A k \in D : \E j \in D : G[j] = k
  BY DEF Rearranges, Bijection, Injection, IsInjective, Surjection
<1>2. g \in [A -> B]
  BY <1>1 DEF Rearranges
<1>3. \A j, k \in A : g[j] = g[k] => j = k
  BY <1>1
<1>4. \A k \in B : \E j \in A : g[j] = k
  BY <1>1 DEF Rearranges
<1>5. IsFiniteSet(A) /\ IsFiniteSet(B)
  BY FS_Subset
<1> HIDE DEF A, B, g
<1>6. g \in Bijection(A, B)
  BY <1>2, <1>3, <1>4 DEF Bijection, Injection, IsInjective, Surjection
<1>7. Cardinality(A) = Cardinality(B)
  BY <1>5, <1>6, FS_Bijection DEF ExistsBijection
<1>8. QED
  BY <1>7 DEF A, B, Times

(* The list in a sorted order. *)
LEMMA SortedIs ==
  ASSUME NEW t \in GoodTables, NEW u \in GoodTables,
         u.array = SortedSeq(t.array), u.hash = t.hash
  PROVE  Abstract!Sorted(Contents(t), Contents(u))
<1> DEFINE n == Length(t)
           a == t.array
           H == DOMAIN t.hash
           c == Contents(t)
           d == Contents(u)
           K == KeysBetween(1, n)
           D == DOMAIN c
<1>1. n \in Nat /\ n = Len(a) /\ a \in Seq(Values) /\ DOMAIN a = 1..n
  <2>1. n \in Nat /\ n = Len(a) /\ a \in Seq(Values)
    BY GoodTableIs
  <2>2. QED
    BY <2>1
<1>2. PICK f \in Bijection(DOMAIN a, DOMAIN a) :
        /\ SortedSeq(a) = [i \in DOMAIN a |-> a[f[i]]]
        /\ \A i, j \in DOMAIN a : i < j => f[i] \in PlaceIn(a)[f[j]]
  BY <1>1, SortedPositions
<1>3. /\ f \in [1..n -> 1..n] /\ \A i, j \in 1..n : f[i] = f[j] => i = j
      /\ \A j \in 1..n : \E i \in 1..n : f[i] = j
  BY <1>1, <1>2 DEF Bijection, Injection, IsInjective, Surjection
<1>4. \A i \in 1..n : u.array[i] = a[f[i]]
  BY <1>1, <1>2
<1>5. Length(u) = n
  <2>1. Length(u) = Len(u.array) /\ Len(SortedSeq(a)) = Len(a)
    BY <1>1, GoodTableIs, SortedSeqIs
  <2>2. QED
    BY <1>1, <2>1
<1>6. /\ D = K \cup H /\ K \cap H = {} /\ IsFiniteSet(D) /\ D \subseteq LuaKeys
      /\ \A i \in 1..n : IntKey(i) \in D /\ c[IntKey(i)] = a[i]
      /\ \A k \in H : c[k] = t.hash[k] /\ ~InArray(t, k)
  BY ContentsKeys, ContentsParts
<1>7. /\ DOMAIN d = D
      /\ \A i \in 1..n : d[IntKey(i)] = a[f[i]]
      /\ \A k \in H : d[k] = c[k]
  <2>1. DOMAIN d = D
    BY <1>5, ContentsKeys
  <2>2. \A i \in 1..n : d[IntKey(i)] = a[f[i]]
    BY <1>4, <1>5, ContentsParts
  <2>3. \A k \in H : d[k] = c[k]
    BY <1>6, ContentsParts
  <2>4. QED
    BY <2>1, <2>2, <2>3
<1>8. Abstract!Border(c) = n /\ \A k \in LuaKeys : Abstract!Inner(c, k) <=> InArray(t, k)
  BY BorderIs, InnerIs
<1>9. \A i \in Int : /\ Abstract!At(i) = IntKey(i) /\ IntKey(i)[1] = IntegerKind
                    /\ IntKey(i)[2] = i /\ IntKey(i) \in LuaKeys
  BY AtIs, KeyShapes
<1>10. \A k \in K : /\ k[2] \in 1..n /\ k = IntKey(k[2]) /\ InArray(t, k)
  <2> SUFFICES ASSUME NEW i \in 1..n
               PROVE  /\ IntKey(i)[2] \in 1..n /\ IntKey(i) = IntKey(IntKey(i)[2])
                      /\ InArray(t, IntKey(i))
    BY DEF KeysBetween
  <2>1. i \in Int
    BY <1>1
  <2>2. QED
    BY <1>9, <2>1 DEF InArray
<1> HIDE DEF n, a, c, d, H, K, D
<1>11. \A k \in DOMAIN c : ~Abstract!Inner(c, k) => d[k] = c[k]
  BY <1>6, <1>7, <1>8, <1>10 DEF D
<1>12. \A i \in 1..n - 1 : d[Abstract!At(i)][2] <= d[Abstract!At(i + 1)][2]
  <2> SUFFICES ASSUME NEW i \in 1..n - 1
               PROVE  d[Abstract!At(i)][2] <= d[Abstract!At(i + 1)][2]
    OBVIOUS
  <2>1. i \in 1..n /\ i + 1 \in 1..n /\ i < i + 1 /\ i \in Int /\ i + 1 \in Int
    BY <1>1
  <2>2. f[i] \in PlaceIn(a)[f[i + 1]] /\ f[i] \in 1..n /\ f[i + 1] \in 1..n
    BY <1>1, <1>2, <1>3, <2>1
  <2>3. Precedes(a, f[i], f[i + 1])
    BY <1>1, <2>2 DEF PlaceIn
  <2>4. /\ a[f[i]] \in Values /\ a[f[i + 1]] \in Values
    BY <1>1, <2>2
  <2>5. /\ a[f[i]][1] = IntegerKind /\ a[f[i]][2] \in Int /\ a[f[i + 1]][2] \in Int
    BY <2>4, MeteredAssumption
  <2>6. a[f[i]][2] <= a[f[i + 1]][2]
    BY <2>3, <2>5 DEF Precedes, Before
  <2>7. QED
    BY <1>7, <1>9, <2>1, <2>6
<1> DEFINE G == [k \in D |-> IF k \in K THEN IntKey(f[k[2]]) ELSE k]
<1>13. \A k \in K : /\ f[k[2]] \in 1..n /\ f[k[2]] \in Int
                   /\ IntKey(f[k[2]]) \in K /\ IntKey(f[k[2]])[2] = f[k[2]]
  <2> SUFFICES ASSUME NEW k \in K
               PROVE  /\ f[k[2]] \in 1..n /\ f[k[2]] \in Int
                      /\ IntKey(f[k[2]]) \in K /\ IntKey(f[k[2]])[2] = f[k[2]]
    OBVIOUS
  <2>1. f[k[2]] \in 1..n
    BY <1>3, <1>10
  <2>2. f[k[2]] \in Int
    BY <2>1
  <2>3. QED
    BY <1>9, <2>1, <2>2 DEF K, KeysBetween
<1>14. G \in Bijection(D, D)
  <2>1. G \in [D -> D]
    BY <1>6, <1>13
  <2>2. \A j, k \in D : G[j] = G[k] => j = k
    <3> SUFFICES ASSUME NEW j \in D, NEW k \in D, G[j] = G[k] PROVE j = k
      OBVIOUS
    <3>1. CASE j \in K /\ k \in K
      <4>1. IntKey(f[j[2]]) = IntKey(f[k[2]])
        BY <3>1
      <4>2. f[j[2]] = f[k[2]]
        BY <1>13, <3>1, <4>1
      <4>3. j[2] = k[2]
        BY <1>3, <1>10, <3>1, <4>2
      <4>4. QED
        BY <1>10, <3>1, <4>3
    <3>2. CASE j \notin K /\ k \notin K
      BY <3>2
    <3>3. CASE j \in K /\ k \notin K
      BY <1>13, <3>3
    <3>4. CASE j \notin K /\ k \in K
      BY <1>13, <3>4
    <3>5. QED
      BY <3>1, <3>2, <3>3, <3>4
  <2>3. \A k \in D : \E j \in D : G[j] = k
    <3> SUFFICES ASSUME NEW k \in D PROVE \E j \in D : G[j] = k
      OBVIOUS
    <3>1. CASE k \in K
      <4>1. PICK i \in 1..n : f[i] = k[2]
        BY <1>3, <1>10, <3>1
      <4>2. i \in Int /\ IntKey(i) \in K /\ IntKey(i)[2] = i
        BY <1>1, <1>9 DEF K, KeysBetween
      <4>3. G[IntKey(i)] = k
        BY <1>6, <1>10, <3>1, <4>1, <4>2
      <4>4. QED
        BY <1>6, <4>2, <4>3
    <3>2. CASE k \notin K
      BY <3>2
    <3>3. QED
      BY <3>1, <3>2
  <2> HIDE DEF G
  <2>4. QED
    BY <2>1, <2>2, <2>3 DEF Bijection, Injection, IsInjective, Surjection
<1>15. \A k \in D : d[k] = c[G[k]]
  <2> SUFFICES ASSUME NEW k \in D PROVE d[k] = c[G[k]]
    OBVIOUS
  <2>1. CASE k \in K
    <3>1. k[2] \in 1..n /\ k = IntKey(k[2]) /\ G[k] = IntKey(f[k[2]]) /\ f[k[2]] \in 1..n
      BY <1>10, <1>13, <2>1
    <3>2. d[IntKey(k[2])] = a[f[k[2]]] /\ c[IntKey(f[k[2]])] = a[f[k[2]]]
      BY <1>6, <1>7, <3>1
    <3>3. QED
      BY <3>1, <3>2
  <2>2. CASE k \notin K
    BY <1>6, <1>7, <2>2
  <2>3. QED
    BY <2>1, <2>2
<1> HIDE DEF G
<1>16. \A v : Times(D, c, v) = Times(D, d, v)
  <2>1. Rearranges(D, c, d, G)
    BY <1>14, <1>15 DEF Rearranges
  <2>2. QED
    BY <1>6, <2>1, SameValues
<1>17. \A v : Abstract!Cardinality({k \in DOMAIN c : c[k] = v}) =
             Abstract!Cardinality({k \in DOMAIN c : d[k] = v})
  BY <1>16, SameCardinality DEF D, Times
<1>18. DOMAIN d = DOMAIN c
  BY <1>7 DEF D
<1>19. Abstract!Sorted(c, d)
  BY <1>8, <1>11, <1>12, <1>17, <1>18 DEF Abstract!Sorted
<1>20. QED
  BY <1>19 DEF c, d

(* do_table_sort: the list is sorted, or nothing is stored.                *)
LEMMA SortContents ==
  ASSUME NEW m \in GoodMachines
  PROVE  LET c == Contents(m.table)
             d == Contents(TableSort(m).table)
         IN  d = c \/ Abstract!Sorted(c, d)
<1> DEFINE p == Charge(m, SortGas(Length(m.table)))
           s == SortedSeq(m.table.array)
<1>1. /\ Length(m.table) \in Nat /\ m.table.array \in Seq(Values)
      /\ Length(m.table) = Len(m.table.array) /\ m.table \in GoodTables
  BY GoodMachineIs, GoodTableIs
<1>2. p \in GoodMachines /\ p.table = m.table
  BY <1>1, SortGasIsNat, ChargePays DEF Pays
<1>3. s \in Seq(Values) /\ Len(s) = Length(p.table)
  BY <1>1, <1>2, SortedSeqIs
<1>4. TableSort(m) = IF Length(m.table) <= 1 THEN m ELSE IF p.fault # "none" THEN p
                     ELSE Over(p, s)
  BY SortIs
<1> HIDE DEF p, s
<1>5. /\ Over(p, s) \in GoodMachines
      /\ Over(p, s).table.array = s /\ Over(p, s).table.hash = m.table.hash
  <2>1. Over(p, s) \in GoodMachines
    BY <1>2, <1>3, OverIsGood
  <2>2. Over(p, s).table.array = s
    BY <1>2, <1>3, OverIsGood
  <2>3. Over(p, s).table.hash = p.table.hash
    BY <1>2, <1>3, OverIsGood
  <2>4. QED
    BY <1>2, <2>1, <2>2, <2>3
<1>6. Over(p, s).table \in GoodTables
  BY <1>5, GoodMachineIs
<1>7. Abstract!Sorted(Contents(m.table), Contents(Over(p, s).table))
  BY <1>1, <1>5, <1>6, SortedIs DEF s
<1>8. QED
  BY <1>2, <1>4, <1>7

-----------------------------------------------------------------------------
(* The refinement.                                                         *)

LEMMA InitContents == Init => Abstract!Init
<1> SUFFICES ASSUME Init PROVE Contents(table) = << >>
  BY DEF Abstract!Init
<1>1. table = EmptyTable /\ table \in GoodTables
  BY EmptyIsGood DEF Init
<1>2. Length(table) = 0 /\ DOMAIN table.hash = {}
  BY <1>1 DEF EmptyTable, Length
<1>3. KeysBetween(1, 0) = {}
  BY DEF KeysBetween
<1>4. << >> = [k \in DOMAIN << >> |-> << >>[k]] /\ DOMAIN << >> = {}
  OBVIOUS
<1>5. Says(table, << >>)
  BY <1>2, <1>3, <1>4 DEF Says
<1>6. QED
  BY <1>1, <1>5, ContentsAre

(* Every operation is a step of the abstract specification or none.        *)
LEMMA StepContents ==
  TableInv /\ [Next]_vars => [Abstract!Next]_(Contents(table))
<1> DEFINE c == Contents(table)
           d == Contents(table')
           n == Length(table)
<1> SUFFICES ASSUME TableInv, [Next]_vars
             PROVE  d = c \/ Abstract!Next
  OBVIOUS
<1>1. /\ Working \in GoodMachines /\ Working.table = table /\ Working.fault = fault
      /\ table \in GoodTables
  <2>1. Working \in GoodMachines /\ Working.table = table /\ Working.fault = fault
    BY DEF TableInv, Working
  <2>2. QED
    BY <2>1, GoodMachineIs
<1>2. n \in Nat /\ n <= Abstract!Cardinality(DOMAIN c) /\ Abstract!Cardinality(DOMAIN c) \in Nat
  <2>1. /\ n \in Nat /\ n = Len(table.array) /\ Counted(table)
        /\ Cardinality(DOMAIN table.hash) \in Nat
    BY <1>1, GoodTableIs
  <2>2. Cardinality(DOMAIN c) = table.entries
    BY <1>1, ContentsKeys
  <2>3. QED
    BY <2>1, <2>2, SameCardinality DEF Counted
<1>3. Abstract!Border(c) = n
  BY <1>1, BorderIs
<1>4. ASSUME NEW k \in Keys, NEW v \in Values \cup {Nil}, SetKey(k, v)
      PROVE  d = c \/ Abstract!Next
  <2>1. fault = "none" /\ table' = DoRawset(Working, k, v).table
    BY <1>4 DEF SetKey, Operate, Becomes, Running
  <2>2. k \in LuaKeys
    BY MeteredAssumption
  <2>3. table' = Rawset(table, k, v).table
    BY <1>1, <2>1, <2>2, PaidStores
  <2>4. CASE k = IntKey(IntMin)
    <3>1. Rawset(table, k, v) = SetResult(table, FALSE, FALSE, "runtime")
      BY <1>1, <2>2, <2>4, RawsetWide
    <3>2. QED
      BY <2>3, <3>1 DEF SetResult
  <2>5. CASE k # IntKey(IntMin)
    <3>1. d = Abstract!Set(c, k, v)
      BY <1>1, <2>2, <2>3, <2>5, SetIs
    <3>2. QED
      BY <3>1 DEF Abstract!Next
  <2>6. QED
    BY <2>4, <2>5
<1>5. ASSUME NEW p \in 1..n + 1, NEW v \in Values \cup {Nil}, InsertAtPos(p, v)
      PROVE  d = c \/ Abstract!Next
  <2>1. fault = "none" /\ table' = TableInsert(Working, p, v).table
    BY <1>5 DEF InsertAtPos, Operate, Becomes, Running
  <2>2. \/ d = c
        \/ d = Abstract!Set(Abstract!Opened(c, p), Abstract!At(p), v)
        \/ n >= 1 /\ d = Abstract!Moved(c, n, n, n + 1)
    BY <1>1, <2>1, InsertContents
  <2>3. CASE n >= 1 /\ d = Abstract!Moved(c, n, n, n + 1)
    <3> HIDE DEF c, d, n
    <3>1. /\ n \in 1..Abstract!Cardinality(DOMAIN c) + 1
          /\ n + 1 \in 1..Abstract!Cardinality(DOMAIN c) + 1
      BY <1>2, <2>3
    <3>2. \E first, last, pos \in 1..Abstract!Cardinality(DOMAIN c) + 1 :
            d = Abstract!Moved(c, first, last, pos)
      BY <2>3, <3>1
    <3>3. QED
      BY <3>2 DEF Abstract!Next, c, d
  <2>4. CASE d = Abstract!Set(Abstract!Opened(c, p), Abstract!At(p), v)
    <3>1. \E pos \in 1..Abstract!Border(c) + 1, x \in Values \cup {Nil} :
            d = Abstract!Set(Abstract!Opened(c, pos), Abstract!At(pos), x)
      BY <1>3, <2>4
    <3>2. QED
      BY <3>1 DEF Abstract!Next
  <2>5. QED
    BY <2>2, <2>3, <2>4
<1>6. ASSUME NEW p \in 1..n, RemovePos(p) PROVE d = c \/ Abstract!Next
  <2>1. fault = "none" /\ table' = TableRemove(Working, p).table
    BY <1>6 DEF RemovePos, Operate, Becomes, Running
  <2>2. d = c \/ d = Abstract!Unset(c, Abstract!At(p))
    BY <1>1, <2>1, RemoveContents
  <2>3. CASE d = Abstract!Unset(c, Abstract!At(p))
    <3>1. \E pos \in 1..Abstract!Border(c) : d = Abstract!Unset(c, Abstract!At(pos))
      BY <1>3, <2>3
    <3>2. QED
      BY <3>1 DEF Abstract!Next
  <2>4. QED
    BY <2>2, <2>3
<1>7. ASSUME NEW f \in 1..n + 1, NEW e \in 1..n + 1, NEW p \in 1..n + 1, MoveRange(f, e, p)
      PROVE  d = c \/ Abstract!Next
  <2>1. fault = "none" /\ table' = TableMove(Working, f, e, p).table
    BY <1>7 DEF MoveRange, Operate, Becomes, Running
  <2>2. d = c \/ \E x \in f..e : d = Abstract!Moved(c, f, x, p)
    BY <1>1, <2>1, MoveContents
  <2>3. ASSUME NEW x \in f..e, d = Abstract!Moved(c, f, x, p) PROVE Abstract!Next
    <3> HIDE DEF c, d, n
    <3>1. /\ f \in 1..Abstract!Cardinality(DOMAIN c) + 1
          /\ x \in 1..Abstract!Cardinality(DOMAIN c) + 1
          /\ p \in 1..Abstract!Cardinality(DOMAIN c) + 1
      BY <1>2
    <3>2. \E first, last, pos \in 1..Abstract!Cardinality(DOMAIN c) + 1 :
            d = Abstract!Moved(c, first, last, pos)
      BY <2>3, <3>1
    <3>3. QED
      BY <3>2 DEF Abstract!Next, c, d
  <2>4. QED
    BY <2>2, <2>3
<1>8. ASSUME Sort PROVE d = c \/ Abstract!Next
  <2>1. table' = TableSort(Working).table
    BY <1>8 DEF Sort, Operate, Becomes
  <2>2. d = c \/ Abstract!Sorted(c, d)
    BY <1>1, <2>1, SortContents
  <2>3. QED
    BY <2>2 DEF Abstract!Next
<1>9. ASSUME NEW i \in Nat, Becomes(Charge(Working, i)) PROVE d = c
  BY <1>1, <1>9, ChargePays DEF Becomes
<1>10. ASSUME IterInitSorted PROVE d = c
  <2> DEFINE i == SortGas(Len(SortedKeys(table)))
  <2>1. i \in Nat
    <3>1. SortedKeys(table) \in Seq(LuaKeys)
      BY <1>1, SortedKeysIs
    <3>2. Len(SortedKeys(table)) \in Nat
      BY <3>1
    <3>3. QED
      BY <3>2, SortGasIsNat
  <2>2. Becomes(Charge(Working, i))
    BY <1>10 DEF IterInitSorted
  <2> HIDE DEF i, c, d
  <2>3. QED
    BY <1>9, <2>1, <2>2
<1>11. ASSUME IterInitArray PROVE d = c
  BY <1>9, <1>11 DEF IterInitArray
<1>12. ASSUME IterNext PROVE d = c
  <2> DEFINE i == IF handle.kind = "sorted" THEN IterSortedStep ELSE IterArrayStep
  <2>1. i \in Nat
    BY DEF IterSortedStep, IterArrayStep
  <2>2. UNCHANGED table \/ Becomes(Charge(Working, i))
    BY <1>12 DEF IterNext
  <2> HIDE DEF i
  <2>3. QED
    BY <1>9, <2>1, <2>2
<1>13. ASSUME Break \/ UNCHANGED vars PROVE d = c
  BY <1>13 DEF Break, vars
<1>14. QED
  BY <1>4, <1>5, <1>6, <1>7, <1>8, <1>10, <1>11, <1>12, <1>13 DEF Next, Body

(* To its program the table is the function and list of TableContents,     *)
(* whatever its layout, its history and the limits (LuaTable).             *)
THEOREM TablesImplementContents == Spec => ImplementsContents
<1>1. Init => Abstract!Init
  BY InitContents
<1>2. TableInv /\ [Next]_vars => [Abstract!Next]_(Contents(table))
  BY StepContents
<1>3. QED
  BY <1>1, <1>2, TablesAreGood, PTL DEF Spec, ImplementsContents, Abstract!Spec
=============================================================================
