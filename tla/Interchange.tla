---------------------------- MODULE Interchange ----------------------------
(***************************************************************************)
(* A value on its way: it is encoded (for the tape, for a hash, or by      *)
(* json.encode) and the text is decoded, by the tape's decoder and by the  *)
(* two of the library.  Or a text from elsewhere is decoded.               *)
(***************************************************************************)
EXTENDS Json

CONSTANTS
  SentValues,    \* values to encode
  WireTexts,     \* texts to decode
  WireGas,       \* gas that is left
  WireMemory     \* memory that is used

VARIABLES
  phase,         \* "send", "wire", "received"; "idle": another part of a model runs
  sent,          \* the value that was encoded, if one was
  wire,          \* the text
  meter,         \* as in Meters
  received       \* the result of each decoder

wireVars == <<phase, sent, wire, meter, received>>

Decoders == {"canonical", "integer", "verbatim"}
Nothing  == <<-1, 0>>

WireInit ==
  /\ received = << >>
  /\ \E gas \in WireGas, mem \in WireMemory :
       meter = [gas |-> gas, mem |-> mem, fault |-> "none", table |-> EmptyTable]
  /\ \/ phase = "send" /\ sent \in SentValues /\ wire = << >>
     \/ phase = "wire" /\ sent = Nothing /\ wire \in WireTexts

(* json.encode; canonical_serialize is the same text without the meters.   *)
Send ==
  LET r == JsonEncode(sent, meter)
  IN  /\ phase = "send"
      /\ meter' = r.meter
      /\ IF r.error = "none" THEN phase' = "wire" /\ wire' = r.value[2]
         ELSE phase' = "refused" /\ UNCHANGED wire
      /\ UNCHANGED <<sent, received>>

(* Each decoder, with the meters as they are. *)
Receive ==
  /\ phase = "wire"
  /\ received' = [mode \in Decoders |->
                    IF mode = "canonical" THEN Decode(mode, wire, meter)
                    ELSE JsonDecode(mode, wire, meter)]
  /\ phase' = "received"
  /\ UNCHANGED <<sent, wire, meter>>

WireNext  == Send \/ Receive
WireEnded == phase \in {"received", "refused", "idle"}

-----------------------------------------------------------------------------
(* A value whatever the layout of its tables. *)
RECURSIVE Content(_), Stands(_, _), PlainKeys(_), TextNumbers(_), Held(_)
Content(v) ==
  IF ~IsKind(v, TableKind) THEN v
  ELSE <<TableKind, [k \in DOMAIN Contents(v[2]) |-> Content(Get(v[2], k))]>>

(* w is v as far as the text of a key tells. *)
Stands(v, w) ==
  IF ~IsKind(v, TableKind) \/ ~IsKind(w, TableKind) THEN v = w
  ELSE LET KeyRead(k) == KeyOf("canonical", ToLuaString(k))
           vs == DOMAIN Contents(v[2])
           ws == DOMAIN Contents(w[2])
       IN  /\ ws = {KeyRead(k) : k \in vs}
           /\ \A l \in ws : \E k \in vs : KeyRead(k) = l /\ Stands(Get(v[2], k), Get(w[2], l))

(* No string among the keys reads as an integer or a boolean.              *)
PlainKeys(v) ==
  IsKind(v, TableKind) =>
    \A k \in DOMAIN Contents(v[2]) :
      /\ IsKind(k, StringKind) => ~IsNumeral(k[2]) /\ k[2] \notin {<<"true">>, <<"false">>}
      /\ PlainKeys(Get(v[2], k))

(* Numbers as decode_strings returns them. *)
TextNumbers(v) ==
  IF IsKind(v, IntegerKind) THEN StrVal(ToLuaString(v))
  ELSE IF ~IsKind(v, TableKind) THEN v
  ELSE <<TableKind, [k \in DOMAIN Contents(v[2]) |-> TextNumbers(Get(v[2], k))]>>

(* What a value takes up. *)
Held(v) ==
  CASE v[1] = StringKind -> StringSize(v[2])
    [] v[1] = TableKind  ->
         LET t == v[2]
         IN  FoldFunctionOnSet(LAMBDA a, b : a + b, TableBase + HashSlot * t.capacity + ArraySlot * Length(t),
               [k \in DOMAIN Contents(t) |->
                  Held(Get(t, k)) + (IF IsKind(k, StringKind) THEN StringSize(k[2]) ELSE 0)],
               DOMAIN Contents(t))
    [] OTHER -> 0

Mentions(p)  == \E i \in DOMAIN wire : wire[i] = p
Opened1      == Cardinality({i \in DOMAIN wire : wire[i] \in {"[", "{"}})
AsciiOnly    == ~\E p \in HighBytes \cup DOMAIN WideLow : Mentions("\\u" \o p)
NoSurrogates == ~\E p \in Surrogates : Mentions("\\u" \o p)
PlainText    == \A i \in DOMAIN wire : wire[i] \in DOMAIN Numerals => wire[i] = ToString(Numerals[wire[i]])
InBudget(r)  == r.error \notin {"gas", "memory"}

(* A string of characters as the low bytes of their code points.           *)
LowBytes(s) ==
  LET kept == SelectSeq(s, LAMBDA p : p # "utf8") IN  [i \in DOMAIN kept |-> AsByte(kept[i])]

(* What canonical_serialize writes, canonical_deserialize reads, and but   *)
(* for what the text of a key cannot tell (canonicalize.rs:72: "inverse")  *)
(* it is the same value: the same keys, of the same types, and written     *)
(* again the same bytes.                                                   *)
RoundTrip ==
  phase = "received" /\ sent # Nothing =>
    LET d == received["canonical"]
    IN  /\ d.error = "none" /\ Stands(sent, d.value)
        /\ PlainKeys(sent) => Content(d.value) = Content(sent) /\ Serialized(d.value) = wire

(* The tape's decoder and those of the library are written apart from each *)
(* other and accept the same texts, but for the depth one of them does not *)
(* limit, an escape the others know and the key that no table takes; the   *)
(* values differ in the types of keys, in numbers, and where a character   *)
(* beyond ASCII is written by number: the tape keeps the low byte of what  *)
(* the library spells out (a surrogate it replaces).                       *)
DecodersAgree ==
  phase = "received" =>
    LET c == received["canonical"]
        n == received["integer"]
        s == received["verbatim"]
    IN  /\ InBudget(n) /\ c.error = "none" /\ Opened1 <= MaxTableDepth => n.error = "none"
        /\ n.error = "none" /\ ~Mentions("\\\f") /\ ~Mentions(ToString(IntMin)) => c.error = "none"
        /\ n.error = "none" /\ InBudget(s) => s.error = "none"
        /\ n.error = "none" /\ c.error = "none" /\ AsciiOnly => Stands(n.value, c.value)
        /\ n.error = "none" /\ c.error = "none" /\ NoSurrogates /\ IsKind(n.value, StringKind) =>
             IsKind(c.value, StringKind) /\ c.value[2] = LowBytes(n.value[2])
        /\ n.error = "none" /\ s.error = "none" /\ PlainText =>
             Content(s.value) = TextNumbers(n.value)

(* Whatever a program decodes is paid for, string by string and table by   *)
(* table (JsonParser::mem), and a text that costs more than is left is     *)
(* refused before the value is handed out.                                 *)
DecodeIsPaid ==
  phase = "received" =>
    \A mode \in Decoders \ {"canonical"} :
      LET r == received[mode]
      IN  /\ r.error = "none" => /\ r.meter.mem <= MemLimit
                                 /\ r.meter.mem - meter.mem >= Held(r.value)
                                 /\ r.meter.gas = meter.gas - Len(wire)
          /\ r.error = "memory" => r.meter.mem > MemLimit
=============================================================================
