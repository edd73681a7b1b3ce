----------------------------- MODULE LuaValues -----------------------------
(***************************************************************************)
(* The values of the language (types/value.rs).  A value is a pair of its  *)
(* kind and its datum: an integer, a string, 0 or 1 for false and true,    *)
(* the address of a table, a closure, the name of a builtin.               *)
(*                                                                         *)
(* A string is a sequence of pieces, each a stretch of bytes that nothing  *)
(* looks into; it is as long as it has pieces.                             *)
(***************************************************************************)
EXTENDS Integers, Sequences, FiniteSets, SequencesExt, TLC

CONSTANTS
  Pieces,         \* the pieces of strings, in the order of their bytes
  IntMin,         \* i64::MIN
  MaxStringLen    \* the longest string a concatenation may make

ASSUME ValuesAssumption ==
  /\ IntMin \in Int /\ IntMin < 0 /\ MaxStringLen \in Nat
  /\ Pieces \in Seq(Range(Pieces)) /\ IsInjective(Pieces)

NilKind      == 0
IntegerKind  == 1
StringKind   == 2
BooleanKind  == 3
TableKind    == 4
FunctionKind == 5
BuiltinKind  == 6

Nil        == <<NilKind, 0>>
IntVal(n)  == <<IntegerKind, n>>
StrVal(s)  == <<StringKind, s>>
Text(p)    == StrVal(<<p>>)
TrueVal    == <<BooleanKind, 1>>
FalseVal   == <<BooleanKind, 0>>
BoolVal(b) == IF b THEN TrueVal ELSE FalseVal
TableVal(a) == <<TableKind, a>>

IsKind(v, kind) == v[1] = kind

(* is_truthy *)
Truthy(v) == v # Nil /\ v # FalseVal

(* type_name *)
TypeName(v) ==
  <<"nil", "integer", "string", "boolean", "table", "function", "function">>[v[1] + 1]

(* A value without an address or a closure in it. *)
IsPlain(v) == v[1] \in {NilKind, IntegerKind, StringKind, BooleanKind}

(* into_key: nil is refused in another way than tables and functions.      *)
IsKey(v) == v[1] \in {IntegerKind, StringKind, BooleanKind}

-----------------------------------------------------------------------------
(* The result of an operation, or the LuaError it returns.                 *)
Ok(v)      == [error |-> "none", value |-> v]
Failure(e) == [error |-> e, value |-> Nil]

Rank(p) == CHOOSE i \in DOMAIN Pieces : Pieces[i] = p

(* The derived order of byte strings. *)
StringBefore(s, t) ==
  \E n \in 0..Len(s) :
    /\ n <= Len(t) /\ SubSeq(s, 1, n) = SubSeq(t, 1, n)
    /\ \/ n = Len(s) /\ n < Len(t)
       \/ n < Len(s) /\ n < Len(t) /\ Rank(s[n + 1]) < Rank(t[n + 1])

Comparable(a, b) == a[1] = b[1] /\ a[1] \in {IntegerKind, StringKind}

(* The order lua_cmp gives two comparable values. *)
Before(a, b) ==
  IF a[1] = IntegerKind THEN a[2] < b[2] ELSE StringBefore(a[2], b[2])

(* What the merge sort makes of comparable values; equal ones cannot be    *)
(* told apart.  Pieces that are not among Pieces are in no order.          *)
Precedes(s, q, p) == Before(s[q], s[p]) \/ (s[q] = s[p] /\ q < p)

SortedSeq(s) ==
  LET place(p) == Cardinality({q \in DOMAIN s : Precedes(s, q, p)})
  IN  [i \in DOMAIN s |->
         s[CHOOSE p \in DOMAIN s :
             place(p) = i - 1 \/ \A q \in DOMAIN s : place(q) # i - 1]]

(* Lt, Le, Gt and Ge of the interpreter, by lua_cmp. *)
Compare(op, a, b) ==
  IF ~Comparable(a, b) THEN Failure("type")
  ELSE Ok(BoolVal(CASE op = "Lt" -> Before(a, b)
                    [] op = "Le" -> ~Before(b, a)
                    [] op = "Gt" -> Before(b, a)
                    [] op = "Ge" -> ~Before(a, b)))

(* Two's complement arithmetic of the width IntMin gives. *)
Wrap(n) == ((n - IntMin) % (2 * (0 - IntMin))) + IntMin

Magnitude(n) == IF n < 0 THEN -n ELSE n
Sign(n)      == IF n < 0 THEN -1 ELSE 1

(* wrapping_div and wrapping_rem: towards zero. *)
DivTrunc(a, b) == Wrap(Sign(a) * Sign(b) * (Magnitude(a) \div Magnitude(b)))
RemTrunc(a, b) == Sign(a) * (Magnitude(a) % Magnitude(b))

(* lua_idiv and lua_mod turn them into floor division by hand. *)
Adjusts(a, b)  == RemTrunc(a, b) # 0 /\ Sign(RemTrunc(a, b)) # Sign(b)

FloorDiv(a, b) == IF Adjusts(a, b) THEN Wrap(DivTrunc(a, b) - 1) ELSE DivTrunc(a, b)
FloorMod(a, b) == IF Adjusts(a, b) THEN Wrap(RemTrunc(a, b) + b) ELSE RemTrunc(a, b)

(* lua_add, lua_sub, lua_mul, lua_idiv, lua_mod *)
Arith(op, a, b) ==
  IF ~(IsKind(a, IntegerKind) /\ IsKind(b, IntegerKind)) THEN Failure("type")
  ELSE IF op \in {"IDiv", "Mod"} /\ b[2] = 0 THEN Failure("runtime")
  ELSE Ok(IntVal(CASE op = "Add"  -> Wrap(a[2] + b[2])
                   [] op = "Sub"  -> Wrap(a[2] - b[2])
                   [] op = "Mul"  -> Wrap(a[2] * b[2])
                   [] op = "IDiv" -> FloorDiv(a[2], b[2])
                   [] op = "Mod"  -> FloorMod(a[2], b[2])))

(* The arms of the interpreter for binary instructions: equality is that   *)
(* of tables by address, of closures by prototype and captured cells.      *)
BinaryResult(op, a, b) ==
  CASE op = "Eq" -> Ok(BoolVal(a = b))
    [] op = "Ne" -> Ok(BoolVal(a # b))
    [] op \in {"Lt", "Le", "Gt", "Ge"} -> Compare(op, a, b)
    [] OTHER -> Arith(op, a, b)

(* to_lua_string *)
ToLuaString(v) ==
  CASE v[1] = NilKind     -> <<"nil">>
    [] v[1] = BooleanKind -> IF v = TrueVal THEN <<"true">> ELSE <<"false">>
    [] v[1] = IntegerKind -> <<ToString(v[2])>>
    [] v[1] = StringKind  -> v[2]
    [] OTHER              -> <<TypeName(v)>>

(* lua_concat; an over-long result is an error of memory. *)
ConcatTwo(a, b) ==
  IF {a[1], b[1]} \subseteq {IntegerKind, StringKind}
    THEN LET s == ToLuaString(a) \o ToLuaString(b)
         IN  IF Len(s) > MaxStringLen THEN Failure("memory") ELSE Ok(StrVal(s))
    ELSE Failure("type")
=============================================================================
