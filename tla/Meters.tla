------------------------------- MODULE Meters -------------------------------
(***************************************************************************)
(* The gas meter (vm/gas.rs), the memory meter (vm/memory.rs) and what an  *)
(* assignment to a table charges (vm/engine.rs, do_rawset; vm/builtins.rs, *)
(* charge_rawset_result).                                                  *)
(*                                                                         *)
(* The operators work on a record with the fields gas, mem and fault, and  *)
(* table where they need one.  After a fault they do nothing more.         *)
(***************************************************************************)
EXTENDS Tables

CONSTANT MemLimit    \* MemoryMeter::limit

TableSetExisting == 2
TableSetNewKey   == 5
IterSortedStep   == 2
IterArrayStep    == 1
TableBase        == 64
HashSlot         == 40
ArraySlot        == 16

Charge(m, n) ==
  IF m.fault # "none" THEN m
  ELSE IF n > m.gas THEN [m EXCEPT !.gas = 0, !.fault = "gas"]
  ELSE [m EXCEPT !.gas = @ - n]

(* track_alloc *)
Alloc(m, n) ==
  IF m.fault # "none" THEN m
  ELSE [m EXCEPT !.mem = @ + n, !.fault = IF m.mem + n > MemLimit THEN "memory" ELSE @]

(* A set that is not metered.  A key that is refused is an error a pcall   *)
(* catches, too many entries is not, nor a panic.                          *)
SetRaw(m, k, v) ==
  LET r == Rawset(m.table, k, v)
  IN  IF m.fault # "none" THEN m
      ELSE [m EXCEPT !.table = r.table, !.fault = IF r.error \in {"memory", "panic"} THEN r.error ELSE @]

(* charge_rawset_result: the memory of an entry, or of the capacity it     *)
(* made the hash part grow by.                                             *)
SetPaid(m, k, v) ==
  LET r == Rawset(m.table, k, v)
      u == SetRaw(m, k, v)
  IN  IF ~r.inserted THEN u
      ELSE IF r.grew THEN Alloc(u, (r.table.capacity - m.table.capacity) * HashSlot)
      ELSE Alloc(u, ArraySlot)

(* Mutant: an entry that makes the hash part grow pays for itself only. *)
DoRawsetFlat(m, k, v) ==
  LET r    == Rawset(m.table, k, v)
      paid == Charge(SetRaw(m, k, v), IF r.inserted THEN TableSetNewKey ELSE TableSetExisting)
  IN  IF r.inserted THEN Alloc(paid, ArraySlot) ELSE paid

(* do_rawset: the entry is in before it is charged. *)
DoRawset(m, k, v) ==
  LET r    == Rawset(m.table, k, v)
      u    == SetRaw(m, k, v)
      paid == IF ~r.inserted THEN Charge(u, TableSetExisting)
              ELSE IF r.grew THEN Charge(Charge(u, TableSetNewKey), r.table.capacity)
              ELSE Charge(u, TableSetNewKey)
  IN  IF r.error # "none" THEN u
      ELSE IF ~r.inserted THEN paid
      ELSE IF r.grew THEN Alloc(paid, (r.table.capacity - m.table.capacity) * HashSlot)
      ELSE Alloc(paid, ArraySlot)

CeilLog2(n) == IF n <= 1 THEN 0 ELSE CHOOSE k \in 1..n : Pow2[k] >= n /\ Pow2[k - 1] < n

SortGas(n) == n * CeilLog2(n + 1)

(* table_insert: the elements from the last to pos move up one by one. *)
TableInsert(m, pos, v) ==
  LET len == Length(m.table)
      MoveUp(u, k) == SetPaid(u, IntKey(k + 1), Get(u.table, IntKey(k)))
      after[i \in 0..len - pos + 1] ==
        IF i = 0 THEN Charge(m, 5 + len - pos + 1) ELSE MoveUp(after[i - 1], len + 1 - i)
  IN  SetPaid(after[len - pos + 1], IntKey(pos), v)

(* table_remove: the elements after pos move down, then the last one goes. *)
TableRemove(m, pos) ==
  LET len == Length(m.table)
      MoveDown(u, k) == SetRaw(u, IntKey(k), Get(u.table, IntKey(k + 1)))
      after[i \in 0..len - pos] ==
        IF i = 0 THEN Charge(m, 5 + len - pos) ELSE MoveDown(after[i - 1], pos + i - 1)
      shifted == after[len - pos]
  IN  IF shifted.fault # "none" THEN shifted
      ELSE [shifted EXCEPT !.table = Rawremove(@, IntKey(len))]
=============================================================================
