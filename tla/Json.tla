-------------------------------- MODULE Json --------------------------------
(***************************************************************************)
(* JSON texts: the canonical encoding of a value and its decoding          *)
(* (host/canonicalize.rs), and the parser behind json.decode and           *)
(* json.decode_strings (vm/builtins.rs).                                   *)
(*                                                                         *)
(* A text is a sequence of pieces, as a string is: a mark, a literal, a    *)
(* number, an escape, or a stretch of bytes that stands for itself.  The   *)
(* escape of a piece p is "\" and p, or "\u" and p for its number.  The    *)
(* table in a table value is the table itself.                             *)
(***************************************************************************)
EXTENDS Meters

CONSTANTS
  MaxTableDepth,  \* MAX_TABLE_DEPTH
  Numerals,       \* what i64::from_str reads: a function from pieces to integers
  OtherNumbers,   \* numbers of JSON that i64 does not hold
  HighBytes,      \* pieces beyond ASCII
  WideLow,        \* code points above 0xFF: a function to the piece of the low byte
  Surrogates      \* those of them that are no character

ASSUME WideAssumption ==
  Surrogates \subseteq DOMAIN WideLow /\ HighBytes \cap DOMAIN WideLow = {}

Quotation == "\""
Blank     == " "

(* Bytes that an escape of their own stands for, and those that are        *)
(* written by number.                                                      *)
NamedBytes   == {"\"", "\\", "\n", "\r", "\t"}
ControlBytes == {"\f"}

Written(p) == IF p \in NamedBytes THEN "\\" \o p
              ELSE IF p \in ControlBytes \cup HighBytes THEN "\\u" \o p ELSE p

(* serialize_string *)
Quoted(s) == <<Quotation>> \o [i \in DOMAIN s |-> Written(s[i])] \o <<Quotation>>

JoinTexts(ss) == FoldLeft(LAMBDA a, b : IF a = << >> THEN b ELSE a \o <<",">> \o b, << >>, ss)

(* Every key is one of 1..n. *)
IsList(t) == Length(t) > 0 /\ t.entries = Length(t)

(* Values that canonical_serialize refuses: functions, and tables too deep *)
(* (serialize_value is called for the elements of a table too).            *)
RECURSIVE Refused(_, _)
Refused(v, depth) ==
  \/ depth > MaxTableDepth
  \/ v[1] \in {FunctionKind, BuiltinKind}
  \/ IsKind(v, TableKind) /\ \E k \in DOMAIN Contents(v[2]) : Refused(Get(v[2], k), depth + 1)

(* serialize_value, serialize_table *)
RECURSIVE Serialized(_)
Serialized(v) ==
  CASE v[1] = NilKind     -> <<"null">>
    [] v[1] = BooleanKind -> ToLuaString(v)
    [] v[1] = IntegerKind -> ToLuaString(v)
    [] v[1] = StringKind  -> Quoted(v[2])
    [] v[1] = TableKind   ->
         LET t       == v[2]
             Value(k)  == Serialized(Get(t, k))
             Member(k) == Quoted(ToLuaString(k)) \o <<":">> \o Value(k)
             keys    == SortedKeys(t)
         IN  IF IsList(t) THEN <<"[">> \o JoinTexts([i \in DOMAIN keys |-> Value(keys[i])]) \o <<"]">>
             ELSE <<"{">> \o JoinTexts([i \in DOMAIN keys |-> Member(keys[i])]) \o <<"}">>

(* canonical_serialize *)
CanonicalSerialize(v) ==
  IF Refused(v, 0) THEN Failure("runtime")
  ELSE IF Len(Serialized(v)) > MaxStringLen THEN Failure("runtime") ELSE Ok(Serialized(v))

-----------------------------------------------------------------------------
(* The decoders: "canonical" is canonical_deserialize, which meters        *)
(* nothing and has no limit of depth; "integer" and "verbatim" are the two *)
(* number modes of JsonParser.  A function of theirs returns the position  *)
(* after what it read, the value and the meter, or an error.               *)
Read(at, v, m) == [error |-> "none", at |-> at, value |-> v, meter |-> m]
Reject(e, m)   == [error |-> e, at |-> 0, value |-> Nil, meter |-> m]
AndThen(r, F(_)) == IF r.error = "none" THEN F(r) ELSE r

(* Mutant: strings are not paid. *)
PayTables(mode, m, n) == IF mode = "canonical" \/ n # TableBase THEN m ELSE Alloc(m, n)

(* track_alloc in a decoder that meters. *)
Pay(mode, m, n) == IF mode = "canonical" THEN m ELSE Alloc(m, n)
Metered(r) == IF r.meter.fault = "none" THEN r ELSE Reject(r.meter.fault, r.meter)

(* alloc_size::string *)
StringSize(s) == 24 + Len(s)

Escapable(mode) == NamedBytes \cup {"/"} \cup (IF mode = "canonical" THEN {} ELSE {"\f"})
IsEscape(q)     == Len(q) > 1 /\ SubSeq(q, 1, 1) = "\\"
ByName(mode, q) == \E p \in Escapable(mode) : q = "\\" \o p
ByNumber(q)     == Len(q) > 2 /\ SubSeq(q, 1, 2) = "\\u"

(* char::encode_utf8: more than a byte for what is beyond ASCII, and       *)
(* REPLACEMENT_CHARACTER for a surrogate.                                  *)
Utf8(p) == CASE p \in Surrogates -> <<"utf8", "fffd">>
             [] p \in (HighBytes \cup DOMAIN WideLow) \ Surrogates -> <<"utf8", p>>
             [] OTHER -> <<p>>

(* The cast of a code point to a byte. *)
AsByte(p) == IF p \in DOMAIN WideLow THEN WideLow[p] ELSE p

Unwritten(mode, q) ==
  IF ~IsEscape(q) THEN <<q>>
  ELSE IF ByName(mode, q) THEN <<SubSeq(q, 2, Len(q))>>
  ELSE IF mode = "canonical" THEN <<AsByte(SubSeq(q, 3, Len(q)))>> ELSE Utf8(SubSeq(q, 3, Len(q)))

Known(mode, q) == IsEscape(q) => ByName(mode, q) \/ ByNumber(q)

IsNumeral(s) == Len(s) = 1 /\ s[1] \in DOMAIN Numerals

(* Mutant: the keys of a canonical text are strings. *)
KeyOfText(mode, s) == StrVal(s)

(* deser_object turns text that reads as an integer or a boolean into one. *)
KeyOf(mode, s) ==
  CASE mode = "canonical" /\ IsNumeral(s)     -> IntKey(Numerals[s[1]])
    [] mode = "canonical" /\ s = <<"true">>   -> TrueVal
    [] mode = "canonical" /\ s = <<"false">>  -> FalseVal
    [] OTHER                                  -> StrVal(s)

(* Mutant: one level less. *)
TooDeepEarly(mode, depth) == mode # "canonical" /\ depth >= MaxTableDepth

TooDeep(mode, depth) == mode # "canonical" /\ depth > MaxTableDepth

(* An entry in the table that is being decoded. *)
Enter(mode, m, t, k, v) ==
  LET r == Rawset(t, k, v)
      u == IF mode = "canonical" THEN [m EXCEPT !.table = r.table]
           ELSE SetPaid([m EXCEPT !.table = t], k, v)
  IN  IF r.error # "none" THEN Reject(IF mode = "canonical" THEN "runtime" ELSE r.error, m)
      ELSE Metered(Read(0, TableVal(u.table), u))

-----------------------------------------------------------------------------
(* Piece i of a text, if there is one; skip_ws, trim_leading_whitespace.   *)
PieceAt(text, i) == IF i <= Len(text) THEN text[i] ELSE ""
Skip(text, i)    == CHOOSE j \in i..(Len(text) + 1) :
                      PieceAt(text, j) # Blank /\ \A k \in i..(j - 1) : text[k] = Blank

Closing(text, i) == {j \in i..Len(text) : text[j] = Quotation /\ \A k \in i..(j - 1) : text[k] # Quotation}

(* parse_string, deser_string; i is after the quotation mark. *)
StringAt(mode, text, i, m) ==
  IF Closing(text, i) = {} THEN Reject("runtime", m)
  ELSE LET end   == CHOOSE j \in Closing(text, i) : TRUE
           inner == SubSeq(text, i, end - 1)
           s     == FlattenSeq([k \in DOMAIN inner |-> Unwritten(mode, inner[k])])
       IN  IF \E k \in DOMAIN inner : ~Known(mode, inner[k]) THEN Reject("runtime", m)
           ELSE Metered(Read(end + 1, StrVal(s), Pay(mode, m, StringSize(s))))

(* parse_number, deser_integer *)
IsNumber(p) == p \in DOMAIN Numerals \cup OtherNumbers /\ SubSeq(p, 1, 1) # "+"
NumberAt(mode, text, i, m) ==
  CASE mode = "verbatim" -> Metered(Read(i + 1, StrVal(<<text[i]>>), Pay(mode, m, StringSize(<<text[i]>>))))
    [] mode # "verbatim" /\ text[i] \in OtherNumbers -> Reject("runtime", m)
    [] OTHER -> Read(i + 1, IntVal(Numerals[text[i]]), m)

RECURSIVE ValueAt(_, _, _, _, _), Elements(_, _, _, _, _, _, _), Members(_, _, _, _, _, _)

(* parse_value, deser_value *)
ValueAt(mode, text, at, depth, m) ==
  LET i == Skip(text, at)
      p == PieceAt(text, i)
      paid == Metered(Read(i + 1, TableVal(EmptyTable), Pay(mode, m, TableBase)))
      first == Skip(text, i + 1)
  IN  CASE TooDeep(mode, depth) -> Reject("runtime", m)
        [] ~TooDeep(mode, depth) /\ p \in {"[", "{"} ->
             AndThen(paid, LAMBDA r :
               IF PieceAt(text, first) = (IF p = "[" THEN "]" ELSE "}")
                 THEN Read(first + 1, r.value, r.meter)
               ELSE IF p = "[" THEN Elements(mode, text, first, depth + 1, r.meter, EmptyTable, 1)
               ELSE Members(mode, text, first, depth + 1, r.meter, EmptyTable))
        [] ~TooDeep(mode, depth) /\ p \notin {"[", "{"} ->
             CASE p = "null"    -> Read(i + 1, Nil, m)
               [] p = "true"    -> Read(i + 1, TrueVal, m)
               [] p = "false"   -> Read(i + 1, FalseVal, m)
               [] p = Quotation -> StringAt(mode, text, i + 1, m)
               [] p # "" /\ IsNumber(p) -> NumberAt(mode, text, i, m)
               [] OTHER         -> Reject("runtime", m)

(* parse_array, deser_array, from element n on. *)
Elements(mode, text, at, depth, m, t, n) ==
  AndThen(ValueAt(mode, text, at, depth, m), LAMBDA e :
    AndThen(Enter(mode, e.meter, t, IntKey(n), e.value), LAMBDA r :
      LET i == Skip(text, e.at)
      IN  CASE PieceAt(text, i) = "," -> Elements(mode, text, i + 1, depth, r.meter, r.value[2], n + 1)
            [] PieceAt(text, i) = "]" -> Read(i + 1, r.value, r.meter)
            [] OTHER                  -> Reject("runtime", m)))

(* parse_object, deser_object *)
Members(mode, text, at, depth, m, t) ==
  LET q == Skip(text, at)
  IN  IF PieceAt(text, q) # Quotation THEN Reject("runtime", m)
      ELSE AndThen(StringAt(mode, text, q + 1, m), LAMBDA k :
             LET colon == Skip(text, k.at)
             IN  IF PieceAt(text, colon) # ":" THEN Reject("runtime", m)
                 ELSE AndThen(ValueAt(mode, text, colon + 1, depth, k.meter), LAMBDA e :
                   AndThen(Enter(mode, e.meter, t, KeyOf(mode, k.value[2]), e.value), LAMBDA r :
                     LET i == Skip(text, e.at)
                     IN  CASE PieceAt(text, i) = "," -> Members(mode, text, i + 1, depth, r.meter, r.value[2])
                           [] PieceAt(text, i) = "}" -> Read(i + 1, r.value, r.meter)
                           [] OTHER                  -> Reject("runtime", m))))

(* A whole text: blanks only may follow the value. *)
Decode(mode, text, m) ==
  AndThen(ValueAt(mode, text, 1, 0, m), LAMBDA r :
    IF Skip(text, r.at) <= Len(text) THEN Reject("runtime", r.meter) ELSE r)

-----------------------------------------------------------------------------
(* json_encode *)
JsonEncode(v, m) ==
  LET r    == CanonicalSerialize(v)
      paid == Alloc(Charge(m, Len(r.value)), StringSize(r.value))
  IN  IF r.error # "none" THEN Reject(r.error, m) ELSE Metered(Read(0, StrVal(r.value), paid))

(* json_decode, json_decode_strings *)
JsonDecode(mode, text, m) ==
  AndThen(Metered(Read(0, Nil, Charge(m, Len(text)))), LAMBDA r : Decode(mode, text, r.meter))
=============================================================================
