------------------------------- MODULE Tables -------------------------------
(***************************************************************************)
(* A table of the language (types/table.rs, LuaTable): an array part for   *)
(* the integer keys 1..n, a hash part for every other key, the number of   *)
(* entries and the capacity its hash part has been charged for.            *)
(*                                                                         *)
(* A key is an integer, a string or a boolean value.                       *)
(***************************************************************************)
EXTENDS LuaValues

CONSTANTS
  MaxEntries,      \* MAX_TABLE_ENTRIES
  UsizeModulus     \* 2^w where usize has w bits; 0 where it holds every positive integer

ASSUME UsizeAssumption == UsizeModulus \in Nat

IntKey(i) == IntVal(i)

(* The cast of a positive integer to usize. *)
AsUsize(i) == IF UsizeModulus = 0 THEN i ELSE i % UsizeModulus

(* LuaKey: an integer, a string, a boolean. *)
LuaKeys ==
  ({IntegerKind} \X Int) \cup ({StringKind} \X Seq(Range(Pieces))) \cup ({BooleanKind} \X {0, 1})

(* The derived order of LuaKey. *)
KeyBefore(a, b) ==
  \/ a[1] < b[1]
  \/ a[1] = b[1] /\ a[1] = StringKind /\ StringBefore(a[2], b[2])
  \/ a[1] = b[1] /\ a[1] # StringKind /\ a[2] < b[2]

EmptyTable == [array |-> << >>, hash |-> << >>, entries |-> 0, capacity |-> 0]

Length(t)     == Len(t.array)
InArray(t, k) == k[1] = IntegerKind /\ k[2] \in 1..Length(t)

Get(t, k) ==
  IF InArray(t, k) THEN t.array[k[2]]
  ELSE IF k \in DOMAIN t.hash THEN t.hash[k] ELSE Nil

-----------------------------------------------------------------------------
Pow2[k \in Nat] == IF k = 0 THEN 1 ELSE 2 * Pow2[k - 1]

(* next_power_of_two_capacity: the power of two, 4 at least, that n        *)
(* entries fill to three quarters at most.                                 *)
CapacityFor(n) ==
  LET threshold == (4 * n + 2) \div 3
  IN  IF n = 0 THEN 0
      ELSE CHOOSE p \in {Pow2[k] : k \in 2..(threshold + 2)} :
             p >= threshold /\ (p = 4 \/ p < 2 * threshold)

Without(f, k) == [j \in DOMAIN f \ {k} |-> f[j]]

(* Mutant: the element after a removed one is not moved down with it. *)
RawremoveLast(t, k) ==
  IF InArray(t, k)
    THEN [t EXCEPT !.array = Front(@), !.entries = @ - 1]
  ELSE IF k \in DOMAIN t.hash
    THEN [t EXCEPT !.hash = Without(@, k), !.entries = @ - 1]
  ELSE t

(* Mutant: an entry is counted off for a key the table does not have. *)
RawremoveAlways(t, k) ==
  IF InArray(t, k)
    THEN [t EXCEPT !.array = RemoveAt(@, k[2]), !.entries = @ - 1]
  ELSE [t EXCEPT !.hash = Without(@, k), !.entries = @ - 1]

(* rawremove: an element of the array part goes and those after it move    *)
(* down.  The capacity stays.                                              *)
Rawremove(t, k) ==
  IF InArray(t, k)
    THEN [t EXCEPT !.array = RemoveAt(@, k[2]), !.entries = @ - 1]
  ELSE IF k \in DOMAIN t.hash
    THEN [t EXCEPT !.hash = Without(@, k), !.entries = @ - 1]
  ELSE t

(* The consolidation loop of rawset_tracked: the hash keys that follow the *)
(* array part move into it.                                                *)
Consolidate(t) ==
  LET end == CHOOSE m \in Length(t)..Length(t) + Cardinality(DOMAIN t.hash) :
               /\ \A i \in Length(t) + 1..m : IntKey(i) \in DOMAIN t.hash
               /\ IntKey(m + 1) \notin DOMAIN t.hash
  IN  [t EXCEPT
         !.array = [i \in 1..end |-> IF i <= Length(t) THEN t.array[i] ELSE t.hash[IntKey(i)]],
         !.hash  = [k \in {j \in DOMAIN t.hash : ~(j[1] = IntegerKind /\ j[2] \in 1..end)}
                      |-> t.hash[k]]]

(* What rawset_tracked answers: the table, whether an entry was inserted,  *)
(* whether the hash capacity grew, and the error if any.                   *)
SetResult(t, inserted, grew, error) ==
  [table |-> t, inserted |-> inserted, grew |-> grew, error |-> error]

Extend(t, v) == Consolidate([t EXCEPT !.array = Append(@, v), !.entries = @ + 1])

(* Mutant: the capacity is that of the table before the insertion. *)
InsertLate(t, k, v) ==
  LET needed == CapacityFor(Cardinality(DOMAIN t.hash))
  IN  [t EXCEPT !.hash = [j \in DOMAIN t.hash \cup {k} |-> IF j = k THEN v ELSE t.hash[j]],
                !.entries = @ + 1, !.capacity = IF needed > @ THEN needed ELSE @]

(* update_hash_capacity is part of an insertion into the hash part. *)
Insert(t, k, v) ==
  LET hash     == [j \in DOMAIN t.hash \cup {k} |-> IF j = k THEN v ELSE t.hash[j]]
      needed   == CapacityFor(Cardinality(DOMAIN hash))
  IN  [t EXCEPT !.hash = hash, !.entries = @ + 1,
                !.capacity = IF needed > @ THEN needed ELSE @]

(* Mutant: the number of entries is checked before the entry is in. *)
StoredEarly(t, u) ==
  SetResult(u, u.entries > t.entries, u.capacity > t.capacity,
            IF t.entries > MaxEntries THEN "memory" ELSE "none")

(* The number of entries is checked once the entry is in. *)
Stored(t, u) ==
  SetResult(u, u.entries > t.entries, u.capacity > t.capacity,
            IF u.entries > MaxEntries THEN "memory" ELSE "none")

(* Mutant: a key just past the array part goes to the hash part. *)
RawsetSparse(t, k, v) ==
  IF k = IntKey(IntMin) THEN SetResult(t, FALSE, FALSE, "runtime")
  ELSE IF v = Nil THEN SetResult(Rawremove(t, k), FALSE, FALSE, "none")
  ELSE IF InArray(t, k) THEN Stored(t, [t EXCEPT !.array[k[2]] = v])
  ELSE IF k \in DOMAIN t.hash THEN Stored(t, [t EXCEPT !.hash[k] = v])
  ELSE Stored(t, Insert(t, k, v))

(* rawset_tracked.  Whether a positive key is one of the array part, or    *)
(* the next, is decided by its cast; nothing is at the index before 1.     *)
Rawset(t, k, v) ==
  LET positive == k[1] = IntegerKind /\ k[2] >= 1
      i        == AsUsize(k[2])
  IN  IF k = IntKey(IntMin) THEN SetResult(t, FALSE, FALSE, "runtime")
      ELSE IF v = Nil THEN SetResult(Rawremove(t, k), FALSE, FALSE, "none")
      ELSE IF positive /\ i = 0 THEN SetResult(t, FALSE, FALSE, "panic")
      ELSE IF positive /\ i \in 1..Length(t) THEN Stored(t, [t EXCEPT !.array[i] = v])
      ELSE IF positive /\ i = Length(t) + 1 THEN Stored(t, Extend(t, v))
      ELSE IF k \in DOMAIN t.hash THEN Stored(t, [t EXCEPT !.hash[k] = v])
      ELSE Stored(t, Insert(t, k, v))

-----------------------------------------------------------------------------
(* The keys of a BTreeMap in their order: the i-th has i - 1 before it     *)
(* (strings with a piece that is not among Pieces are in no order).        *)
InOrder(S) ==
  LET place(k) == Cardinality({j \in S : KeyBefore(j, k)})
  IN  [i \in 1..Cardinality(S) |->
         CHOOSE k \in S : place(k) = i - 1 \/ \A j \in S : place(j) # i - 1]

(* sorted_keys: 1..n, then the hash keys in their order. *)
SortedKeys(t) == [i \in 1..Length(t) |-> IntKey(i)] \o InOrder(DOMAIN t.hash)

(* A table of plain values. *)
IsData(t) ==
  /\ DOMAIN t = DOMAIN EmptyTable
  /\ t.array \in Seq(Range(t.array)) /\ \A i \in DOMAIN t.array : IsPlain(t.array[i])
  /\ IsFiniteSet(DOMAIN t.hash)
  /\ \A k \in DOMAIN t.hash : IsKey(k) /\ IsPlain(t.hash[k])

(* What a table says, whatever its layout: a function from its keys. *)
Contents(t) ==
  [k \in {IntKey(i) : i \in 1..Length(t)} \cup DOMAIN t.hash |-> Get(t, k)]

=============================================================================
