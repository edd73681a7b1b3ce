----------------------------- MODULE MCText -----------------------------
(***************************************************************************)
(* Where text comes in: source texts, token sequences and trees for        *)
(* SourceText, and values and JSON texts for Interchange.  A behaviour is  *)
(* one of either; the other part is idle.                                  *)
(***************************************************************************)
EXTENDS SourceText, Interchange

P == INSTANCE Programs

Lowest == -8
SomePieces == <<"-1", "1", "5", "a", "true", "\n", "\f", "e9">>

(* The strings of at most n characters of a set. *)
RECURSIVE Strings(_, _)
Strings(C, n) == IF n = 0 THEN {""} ELSE {""} \cup {c \o s : c \in C, s \in Strings(C, n - 1)}

Framed(before, ss, after) == {before \o s \o after : s \in ss}

(* Long brackets and comments, short strings and escapes, numbers and      *)
(* operators, words.                                                       *)
MCSourceTexts ==
  LET brackets == Strings({"[", "]", "=", "\n", "-"}, 4)
      quoted   == Strings({"\"", "'", "\\", "n", "9", "\n"}, 4)
  IN  brackets
      \cup Framed("[[", Strings({"]", "=", "\n", "a"}, 4), "]]")
      \cup Framed("--[=[", Strings({"]", "=", "\n"}, 4), "]=] a")
      \cup Framed("--", Strings({"[", "=", "\r", "\n", "a"}, 3), "")
      \cup Framed("\"", quoted, "\"")
      \cup Framed("'\\", Strings({"x", "2", "5", "f"}, 4), "'")
      \cup Strings({"0", "x", "7", "f", ".", "e"}, 4)
      \cup Strings({".", "=", "<", "~", "/", "1"}, 4)
      \cup Strings({"d", "o", "_", "7", " ", "@"}, 4)

MCSeparators == {" ", "\n", " --[=[\n]]]=] ", "\r\n\t--[a\n"}

Tok(s) == IF s \in 1..9 THEN [kind |-> "Integer", datum |-> s] ELSE [kind |-> s, datum |-> NoDatum]
Toks(ss) == {[kind |-> s, datum |-> NoDatum] : s \in ss}
Id(x)  == [kind |-> "Name", datum |-> x]
One    == [kind |-> "Integer", datum |-> 1]
Keys(ss) == [i \in DOMAIN ss |-> [kind |-> ss[i], datum |-> NoDatum]]

From(before, T, n) == {before \o ts : ts \in SeqOf(T, n)}

MCTokenTexts ==
  SeqOf(Toks({"=", "(", ")", "do", "end", "return", ";"}) \cup {Id("x")}, 4)
  \cup From(Keys(<<"function">>) \o <<Id("f")>>, Toks({"(", ")", ",", ".", ":", "end"}) \cup {Id("x")}, 5)
  \cup From(<<Id("x")>> \o Keys(<<"=", "{">>), Toks({"=", "[", "]", ",", "}"}) \cup {Id("x"), One}, 4)
  \cup From(<<Id("x")>> \o Keys(<<"=">>), Toks({"-", "..", "and", "not", "("}) \cup {One}, 4)
  \cup From(Keys(<<"for">>) \o <<Id("x")>>, Toks({",", "in", "do", "end"}) \cup {Id("x")}, 5)
  \cup From(Keys(<<"for">>) \o <<Id("x")>> \o Keys(<<"=">>), Toks({",", "do", "end", "break"}) \cup {One}, 6)
  \cup From(Keys(<<"if">>) \o <<One>> \o Keys(<<"then">>),
            Toks({"elseif", "else", "end", "then", "break"}) \cup {One}, 5)
  \cup From(<<Id("tool")>>, Toks({".", "(", ")", "="}) \cup {Id("call"), Id("debug"), Id("x")}, 5)

(* Every expression of two operators on each side, and the programs.       *)
Atoms == {Name("x"), Call(Name("x"), <<IntLit(1)>>)}
Ops   == {"Or", "And", "Lt", "Concat", "Sub", "Mul"}
Over(E) == E \cup {BinOp(op, l, r) : op \in Ops, l \in E, r \in E}
             \cup {UnOp(op, e) : op \in {"Not", "Neg"}, e \in E}
             \cup {Index(e, Name("k")) : e \in E}
Around(e) == {Block(<<AssignName("x", e)>>), Block(<<AssignIndex(e, Name("k"), e)>>)}

MCTrees ==
  {Returning(<< >>, e) : e \in Over(Over({Name("x"), IntLit(1)}))}
  \cup {P!Whole(P!Bodies[b], P!Contexts[c]) : b \in DOMAIN P!Bodies, c \in DOMAIN P!Contexts}
  \cup {P!Growing, P!Forever}

-----------------------------------------------------------------------------
(* Texts and keys with integers and literals in them. *)
MCNumerals ==
  [p \in {ToString(n) : n \in Lowest..(-(Lowest + 1))} \cup {"05", "+5"} |->
     IF p \in {"05", "+5"} THEN 5 ELSE CHOOSE n \in Lowest..(-(Lowest + 1)) : ToString(n) = p]
Beyond == {"9", "1.5"}
High   == {"e9"}
Wide   == ("161" :> "a") @@ ("1e9" :> "e9") @@ ("d861" :> "a")

Put(t, e)   == Rawset(t, e[1], e[2]).table
TableOf1(es) == TableVal(FoldLeft(Put, EmptyTable, es))

Scalars == {Nil, TrueVal, IntVal(5), IntVal(Lowest), StrVal(<<"a", "\n">>), StrVal(<<"e9">>), Text("1")}
SomeKeys == {IntVal(1), IntVal(2), IntVal(5), IntVal(-1), Text("5"), Text("a"), Text("true"), Text("e9"), TrueVal}
Entries(vs) == SomeKeys \X vs
Flat    == {TableOf1(es) : es \in SeqOf(Entries({IntVal(5), Text("a")}), 2)}
Nested  == {TableOf1(<<e>>) : e \in Entries(Flat)}
Deeper  == {TableOf1(<<<<IntVal(1), v>>, e>>) : v \in Nested, e \in {<<Text("a"), TrueVal>>}}

MCSent == Scalars \cup Flat \cup Nested \cup Deeper \cup {<<FunctionKind, 0>>}
            \cup {TableOf1(es) : es \in {<<e, d, f>> : e \in Entries({IntVal(5)}), d \in Entries({Text("e9")}),
                                                     f \in Entries({<<BuiltinKind, 0>>, TrueVal})}}

AsString(ss) == {<<Quotation>> \o s \o <<Quotation>> : s \in ss}
MCWire ==
  SeqOf({"[", "]", "{", "}", ",", ":", Quotation, "5", Blank}, 4)
  \cup {<<"[">> \o s \o <<"]">> : s \in SeqOf({"[", "]", ",", "null", "-8", "9", "+5", "1.5", "05"}, 4)}
  \cup {<<"[", "[">> \o s \o <<"]", "]">> : s \in SeqOf({"[", "]", ",", "5"}, 4)}
  \cup {<<"{", Quotation>> \o k \o <<Quotation, ":">> \o s \o <<"}">> :
          k \in SeqOf({"-8", "+5", "a", "\\ua", "true"}, 1),
          s \in SeqOf({"5", ",", Quotation, ":", "{", "}"}, 4)}
  \cup AsString(SeqOf({"a", "\\\n", "\\\f", "\\/", "\\?", "\\ue9", "\\u161", "\\u1e9", "\\ud861", Quotation}, 3))

-----------------------------------------------------------------------------
vars == <<sourceVars, wireVars>>

Init ==
  \/ /\ SourceInit
     /\ phase = "idle" /\ sent = Nothing /\ wire = << >> /\ received = << >>
     /\ meter = [gas |-> 0, mem |-> 0, fault |-> "none", table |-> EmptyTable]
  \/ Start("idle", "", << >>, NoTree) /\ WireInit

Terminating == SourceEnded /\ WireEnded /\ UNCHANGED vars

Next ==
  \/ SourceNext /\ UNCHANGED wireVars
  \/ WireNext /\ UNCHANGED sourceVars
  \/ Terminating

(* A call of parse, of the encoder or of a decoder runs to its end.  For   *)
(* the steps that are a whole call this says that they happen: they are    *)
(* enabled until both parts have ended, as no other state is a deadlock.   *)
Ended    == SourceEnded /\ WireEnded
InLexer  == stage = "read" \/ (stage = "reread" /\ ~IsRead)
FairSpec ==
  /\ Init /\ [][Next]_vars
  /\ WF_vars((Lex \/ Respace) /\ UNCHANGED wireVars)
  /\ []<>(Ended \/ InLexer) \/ []<><<TRUE>>_vars

(* Reading a text, whatever it is, ends: each turn of each loop moves on   *)
(* (Lexer::tokenize, and the loops that skip and read in it).              *)
TextEnds == <>Ended
=============================================================================
