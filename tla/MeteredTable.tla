---------------------------- MODULE MeteredTable ----------------------------
(***************************************************************************)
(* One table of a program under the gas and memory meters: assignments     *)
(* (vm/engine.rs, do_rawset), the table module's insert, remove, move and  *)
(* sort (vm/builtins.rs), and a loop over the table whose body does any of *)
(* them.  The gas of the instructions around an operation is left out.     *)
(*                                                                         *)
(* An error a pcall catches leaves the program running; running out of gas *)
(* or memory stops it.  What is claimed here is claimed of a build whose   *)
(* usize holds every positive integer of the language (64 bits).           *)
(***************************************************************************)
EXTENDS Meters

CONSTANTS
  Keys, Values,   \* what the program uses
  Operations,     \* the operations it uses
  GasLimit

ASSUME MeteredAssumption ==
  /\ Keys \subseteq LuaKeys
  /\ Nil \notin Values /\ Values \subseteq {IntegerKind} \X Int
  /\ GasLimit \in Nat /\ MemLimit \in Nat /\ MaxEntries \in Nat
  /\ UsizeModulus = 0

VARIABLES
  table,
  gas,      \* GasMeter::remaining
  mem,      \* MemoryMeter::allocated
  fault,    \* what stopped the program: "none", "gas" or "memory"
  handle,   \* the iterator handle of the loop, if one runs
  seen,     \* the keys the loop has given its body
  kept      \* the keys the table has had since the loop began

vars == <<table, gas, mem, fault, handle, seen, kept>>

NoHandle == [kind |-> "none", keys |-> << >>, index |-> 0]

Init ==
  /\ table = EmptyTable /\ gas = GasLimit /\ mem = TableBase /\ fault = "none"
  /\ handle = NoHandle /\ seen = << >> /\ kept = {}

-----------------------------------------------------------------------------
(* The state an operation works on. *)

Working == [table |-> table, gas |-> gas, mem |-> mem, fault |-> fault]

(* table_move within a table: the values are read before any is stored,    *)
(* and stored without the memory meter.                                    *)
TableMove(m, first, last, pos) ==
  LET values == [i \in 1..last - first + 1 |-> Get(m.table, IntKey(first + i - 1))]
      after[i \in 0..last - first + 1] ==
        IF i = 0 THEN Charge(m, last - first + 1)
        ELSE SetRaw(after[i - 1], IntKey(pos + i - 1), values[i])
  IN  IF first > last THEN m ELSE after[last - first + 1]

(* do_table_sort with no comparator: 1..n is read, sorted and stored back. *)
TableSort(m) ==
  LET len == Length(m.table)
      sorted == SortedSeq(m.table.array)
      after[i \in 0..len] ==
        IF i = 0 THEN Charge(m, SortGas(len)) ELSE SetRaw(after[i - 1], IntKey(i), sorted[i])
  IN  IF len <= 1 THEN m ELSE after[len]

-----------------------------------------------------------------------------
Running == fault = "none"

Becomes(m) == table' = m.table /\ gas' = m.gas /\ mem' = m.mem /\ fault' = m.fault

Operate(name, m) ==
  /\ Running /\ name \in Operations
  /\ Becomes(m)
  /\ kept' = kept \cap DOMAIN Contents(table')
  /\ UNCHANGED <<handle, seen>>

SetKey(k, v)      == Operate("set", DoRawset(Working, k, v))
InsertAtPos(p, v) == p \in 1..Length(table) + 1 /\ Operate("insert", TableInsert(Working, p, v))
RemovePos(p)      == p \in 1..Length(table) /\ Operate("remove", TableRemove(Working, p))
MoveRange(f, e, p) == Operate("move", TableMove(Working, f, e, p))
Sort              == Operate("sort", TableSort(Working))

(* IterInitSorted and IterInitArray: an empty table is not looped over. *)
IterInitSorted ==
  /\ Running /\ handle = NoHandle
  /\ LET keys == SortedKeys(table)
         m    == Charge(Working, SortGas(Len(keys)))
     IN  /\ Becomes(m)
         /\ handle' = IF keys = << >> \/ m.fault # "none" THEN NoHandle
                      ELSE [kind |-> "sorted", keys |-> keys, index |-> 0]
  /\ seen' = << >> /\ kept' = DOMAIN Contents(table)

IterInitArray ==
  /\ Running /\ handle = NoHandle
  /\ LET m == Charge(Working, 1)
     IN  /\ Becomes(m)
         /\ handle' = IF Get(table, IntKey(1)) = Nil \/ m.fault # "none" THEN NoHandle
                      ELSE [kind |-> "array", keys |-> << >>, index |-> 1]
  /\ seen' = << >> /\ kept' = DOMAIN Contents(table)

(* Mutant: a sorted loop ends before its last key. *)
ExhaustedEarly(h) ==
  \/ h.kind = "sorted" /\ h.index + 1 >= Len(h.keys)
  \/ h.kind = "array" /\ Get(table, IntKey(h.index)) = Nil

(* IterNext: the keys of a sorted loop were taken when it began, the       *)
(* values and the end of an array loop are those of the table now.         *)
Exhausted(h) ==
  \/ h.kind = "sorted" /\ h.index >= Len(h.keys)
  \/ h.kind = "array" /\ Get(table, IntKey(h.index)) = Nil

(* Mutant: a sorted loop reads the keys of the table again. *)
NextKeyLive(h) ==
  IF h.kind = "array" THEN IntKey(h.index)
  ELSE IF h.index < Len(SortedKeys(table)) THEN SortedKeys(table)[h.index + 1]
  ELSE h.keys[h.index + 1]

NextKey(h) == IF h.kind = "sorted" THEN h.keys[h.index + 1] ELSE IntKey(h.index)

(* Mutant: an exhausted handle is put back on the stack. *)
IterNextStuck ==
  /\ Running /\ handle # NoHandle
  /\ IF Exhausted(handle)
       THEN UNCHANGED <<table, gas, mem, fault, seen, handle>>
       ELSE LET m == Charge(Working, IF handle.kind = "sorted" THEN IterSortedStep
                                     ELSE IterArrayStep)
            IN  /\ Becomes(m)
                /\ handle' = IF m.fault # "none" THEN NoHandle
                             ELSE [handle EXCEPT !.index = @ + 1]
                /\ seen' = Append(seen, NextKey(handle))
  /\ UNCHANGED kept

IterNext ==
  /\ Running /\ handle # NoHandle
  /\ IF Exhausted(handle)
       THEN handle' = NoHandle /\ UNCHANGED <<table, gas, mem, fault, seen>>
       ELSE LET m == Charge(Working, IF handle.kind = "sorted" THEN IterSortedStep
                                     ELSE IterArrayStep)
            IN  /\ Becomes(m)
                /\ handle' = IF m.fault # "none" THEN NoHandle
                             ELSE [handle EXCEPT !.index = @ + 1]
                /\ seen' = Append(seen, NextKey(handle))
  /\ UNCHANGED kept

(* break pops the handle. *)
Break ==
  /\ Running /\ handle # NoHandle /\ handle' = NoHandle
  /\ UNCHANGED <<table, gas, mem, fault, seen, kept>>

Body ==
  \/ \E k \in Keys, v \in Values \cup {Nil} : SetKey(k, v)
  \/ \E p \in 1..Length(table) + 1, v \in Values \cup {Nil} : InsertAtPos(p, v)
  \/ \E p \in 1..Length(table) : RemovePos(p)
  \/ \E f, e, p \in 1..Length(table) + 1 : MoveRange(f, e, p)
  \/ Sort

Next == Body \/ IterInitSorted \/ IterInitArray \/ IterNext \/ Break

Spec == Init /\ [][Next]_vars

(* The body of a loop ends, or runs out of gas: the loop goes on. *)
FairSpec == Spec /\ WF_vars(IterNext)

-----------------------------------------------------------------------------
TypeOK ==
  /\ table.array \in Seq(Values) /\ table.hash \in [DOMAIN table.hash -> Values]
  /\ table.entries \in Nat /\ table.capacity \in Nat
  /\ gas \in 0..GasLimit /\ mem \in Nat
  /\ fault \in {"none", "gas", "memory"}
  /\ handle.kind \in {"none", "sorted", "array"}
  /\ kept \subseteq DOMAIN Contents(table)

(* The layout follows from the contents alone, whatever the history: the   *)
(* array part is the longest run of keys from 1, so that length and the    *)
(* order of iteration are the same for equal tables, and the entry count   *)
(* that the limit reads is the number of keys (rawset_tracked, rawremove). *)
LayoutFollowsContents ==
  /\ \A i \in 1..Length(table) + 1 : IntKey(i) \notin DOMAIN table.hash
  /\ table.entries = Cardinality(DOMAIN Contents(table))

(* The hash part is never fuller than three quarters of the capacity that  *)
(* was charged for (update_hash_capacity).                                 *)
HashIsCovered == 4 * Cardinality(DOMAIN table.hash) <= 3 * table.capacity

(* Whatever a step stores it has paid for, though the charge comes after   *)
(* the store: each new entry, and the capacity the hash part grew by       *)
(* (do_rawset, charge_rawset_result).  table.move pays no memory.          *)
StoresArePaid ==
  [][LET spent == mem' - mem
         moved == \E f, e, p \in 1..Length(table) + 1 : MoveRange(f, e, p)
     IN  fault' = "none" /\ ~moved =>
           /\ spent >= ArraySlot * (table'.entries - table.entries)
           /\ spent >= HashSlot * (table'.capacity - table.capacity)]_vars

(* A table over the limit is never seen by a running program, though the   *)
(* limit is checked after the entry is stored (rawset_tracked).            *)
LimitStops == fault = "none" => table.entries <= MaxEntries

(* A loop never gives its body the same key twice, whatever the body does  *)
(* to the table (IterNext).                                                *)
EachKeyOnce == IsInjective(seen)

(* A loop over sorted keys that comes to its end has given its body every  *)
(* key the table had from the start to the end of the loop, whatever else  *)
(* the body inserted or removed (IterInitSorted, IterNext).                *)
LoopIsComplete ==
  [][handle.kind = "sorted" /\ IterNext /\ handle' = NoHandle /\ fault' = "none"
       => kept \subseteq ToSet(seen)]_vars

(* A loop ends, or the program stops, even if the body adds to the table   *)
(* at every turn (IterNext).                                               *)
LoopEnds == handle # NoHandle ~> handle = NoHandle \/ ~Running

(* To its program the table is the function and list of TableContents:     *)
(* parts, consolidation and capacity do not show (rawset_tracked,          *)
(* rawremove, table_insert, table_remove, do_table_sort).                  *)
Abstract == INSTANCE TableContents WITH contents <- Contents(table)
ImplementsContents == Abstract!Spec
=============================================================================
