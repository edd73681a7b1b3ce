------------------------------- MODULE Lexer -------------------------------
(***************************************************************************)
(* The lexer (parser/lexer.rs), one step for each turn of a loop of        *)
(* tokenize, of the skipping of blanks and of the reading of a string or   *)
(* of a long comment.                                                      *)
(*                                                                         *)
(* The text is a string, read one character at a time.                     *)
(***************************************************************************)
EXTENDS LuaValues

VARIABLES
  text,      \* Lexer::src
  pos,       \* the next character, from 1
  line,      \* the line pos is in
  tokens,    \* what was read, with Eof at the end
  open,      \* the string or long comment that is being read, or NoString
  fault      \* ParseError

lexVars == <<text, pos, line, tokens, open, fault>>

Characters(s) == [i \in 1..Len(s) |-> SubSeq(s, i, i)]
CharSet(s)    == Range(Characters(s))

Digits    == CharSet("0123456789")
HexDigits == CharSet("0123456789abcdefABCDEF")
WordChars == CharSet("abcdefghijklmnopqrstuvwxyzABCDEFGHIJKLMNOPQRSTUVWXYZ_0123456789")
Blanks    == {" ", "\t", "\r", "\n"}
Keywords  == {"and", "break", "do", "else", "elseif", "end", "false", "for", "function", "if",
              "in", "local", "nil", "not", "or", "return", "then", "true", "while"}
Single    == CharSet("+-*%#(){}];:,")

(* Token, with its span and the line it starts in. *)
Token(kind, datum) == [kind |-> kind, datum |-> datum]
Spanned(t, from, to, l) == [kind |-> t.kind, datum |-> t.datum, start |-> from, end |-> to, line |-> l]
NoDatum  == ""
NoString == [quote |-> ""]

(* cur: nothing after the end. *)
At(i)        == IF i \in 1..Len(text) THEN SubSeq(text, i, i) ELSE ""
Slice(i, j)  == SubSeq(text, i, j - 1)
AtEnd(i)     == i > Len(text)

(* The end of the longest run of characters of C at i. *)
RunEnd(i, C) ==
  CHOOSE j \in i..(Len(text) + 1) : At(j) \notin C /\ \A k \in i..(j - 1) : At(k) \in C

LineEnd(i) ==
  CHOOSE j \in i..(Len(text) + 1) : At(j) \in {"\n", ""} /\ \A k \in i..(j - 1) : At(k) # "\n"

Newlines(i, j) == Cardinality({k \in i..(j - 1) : At(k) = "\n"})

LexInit(t) ==
  /\ text = t /\ pos = 1 /\ line = 1 /\ tokens = << >> /\ open = NoString /\ fault = "none"

-----------------------------------------------------------------------------
Going     == fault = "none" /\ (tokens # << >> => Last(tokens).kind # "Eof")
Reading   == Going /\ open = NoString
AtComment == At(pos) = "-" /\ At(pos + 1) = "-"
Starts    == Reading /\ ~AtEnd(pos) /\ At(pos) \notin Blanks /\ ~AtComment

(* pos moves to j, by calls of advance over the characters from "from" up  *)
(* to "to" and by additions to pos otherwise: only advance counts lines.   *)
MoveTo(j, from, to) == pos' = j /\ line' = line + Newlines(from, to)
Advance == MoveTo(pos + 1, pos, pos + 1)
Jump(j) == MoveTo(j, pos, pos)

Raise(e) == fault' = e /\ UNCHANGED <<text, pos, line, tokens, open>>

Take(t, to) ==
  /\ tokens' = Append(tokens, Spanned(t, pos, to, line))
  /\ Jump(to)
  /\ UNCHANGED <<text, open, fault>>

(* A string that was read, with the span from where it began.              *)
Close(to) ==
  /\ IF Len(open.bytes) > MaxStringLen THEN Raise("StringTooLong")
     ELSE /\ tokens' = Append(tokens, Spanned(Token("String", open.bytes), open.start, to, open.line))
          /\ Jump(to) /\ open' = NoString
          /\ UNCHANGED <<text, fault>>

(* skip_whitespace_and_comments *)
SkipBlank ==
  /\ Reading /\ At(pos) \in Blanks
  /\ Advance
  /\ UNCHANGED <<text, tokens, open, fault>>

-----------------------------------------------------------------------------
(* Long brackets: "[", level times "=", "[", and the same to close.        *)

LevelAt(i) == RunEnd(i + 1, {"="}) - i - 1

(* count_long_bracket_open *)
OpensLong(i) == At(i) = "[" /\ At(RunEnd(i + 1, {"="})) = "["

(* Mutant: a closing bracket of any level closes. *)
ClosesAny(i, level) == At(i) = "]" /\ At(RunEnd(i + 1, {"="})) = "]"

Closes(i, level) == At(i) = "]" /\ At(RunEnd(i + 1, {"="})) = "]" /\ LevelAt(i) = level

(* The newline right after the opening bracket, which is left out.         *)
FirstNewline(i) == IF At(i) = "\n" THEN 1 ELSE IF At(i) = "\r" /\ At(i + 1) = "\n" THEN 2 ELSE 0

(* Mutant: the newline after the opening bracket is passed, not advanced   *)
(* over.                                                                   *)
OpenLongUncounted(quote, i) ==
  LET body == i + LevelAt(i) + 2
      to   == body + FirstNewline(body)
  IN  /\ open' = [quote |-> quote, level |-> LevelAt(i), start |-> pos, line |-> line, bytes |-> << >>]
      /\ Jump(to)
      /\ UNCHANGED <<text, tokens, fault>>

(* consume_long_bracket_open and what follows it; the bracket is at i.     *)
OpenLong(quote, i) ==
  LET body == i + LevelAt(i) + 2
      to   == body + FirstNewline(body)
  IN  /\ open' = [quote |-> quote, level |-> LevelAt(i), start |-> pos, line |-> line, bytes |-> << >>]
      /\ MoveTo(to, body, to)
      /\ UNCHANGED <<text, tokens, fault>>

OpenLongComment == Reading /\ AtComment /\ OpensLong(pos + 2) /\ OpenLong("--", pos + 2)
OpenLongString  == Starts /\ OpensLong(pos) /\ OpenLong("[[", pos)

InLong == Going /\ open.quote \in {"--", "[["}

(* skip_long_string and read_long_string_collect: a comment keeps nothing. *)
Collect(s) == open' = IF open.quote = "--" THEN open ELSE [open EXCEPT !.bytes = @ \o s]

UnterminatedLong ==
  /\ InLong /\ AtEnd(pos)
  /\ Raise(IF open.quote = "--" THEN "UnterminatedComment" ELSE "UnterminatedString")

LongChar ==
  /\ InLong /\ ~AtEnd(pos) /\ At(pos) # "]"
  /\ Advance /\ Collect(<<At(pos)>>)
  /\ UNCHANGED <<text, tokens, fault>>

(* A bracket and the "=" after it, which close nothing.                    *)
LongBracket ==
  /\ InLong /\ At(pos) = "]" /\ ~Closes(pos, open.level)
  /\ LET to == pos + 1 + LevelAt(pos)
     IN  MoveTo(to, pos, pos + 1) /\ Collect(Characters(Slice(pos, to)))
  /\ UNCHANGED <<text, tokens, fault>>

CloseLong ==
  /\ InLong /\ Closes(pos, open.level)
  /\ LET to == pos + open.level + 2
     IN  IF open.quote = "[[" THEN Close(to)
         ELSE Jump(to) /\ open' = NoString /\ UNCHANGED <<text, tokens, fault>>

-----------------------------------------------------------------------------
(* Mutant: an empty comment is not passed. *)
SkipShortCommentStuck ==
  /\ Reading /\ AtComment /\ ~OpensLong(pos + 2)
  /\ Jump(IF LineEnd(pos) = pos + 2 THEN pos ELSE LineEnd(pos))
  /\ UNCHANGED <<text, tokens, open, fault>>

SkipShortComment ==
  /\ Reading /\ AtComment /\ ~OpensLong(pos + 2)
  /\ Jump(LineEnd(pos))
  /\ UNCHANGED <<text, tokens, open, fault>>

ReadEof ==
  /\ Reading /\ AtEnd(pos)
  /\ Take(Token("Eof", NoDatum), pos)

-----------------------------------------------------------------------------
(* next_token: the operators, longest first. *)
Longest ==
  CASE At(pos) = "." /\ At(pos + 1) = "." /\ At(pos + 2) = "." -> "..."
    [] At(pos) = "." /\ At(pos + 1) = "." /\ At(pos + 2) # "." -> ".."
    [] At(pos) \in {"=", "~", "<", ">"} /\ At(pos + 1) = "="   -> At(pos) \o "="
    [] At(pos) = "/" /\ At(pos + 1) = "/"                      -> "//"
    [] OTHER                                                   -> At(pos)

IsOperator == At(pos) \in Single \cup {".", "=", "~", "<", ">", "/"}

ReadOperator ==
  /\ Starts /\ IsOperator
  /\ CASE Longest = "/"                           -> Raise("SingleSlash")
       [] Longest = "~"                           -> Raise("UnexpectedChar")
       [] Longest = "." /\ At(pos + 1) \in Digits -> Raise("FloatLiteral")
       [] OTHER -> Take(Token(Longest, NoDatum), pos + Len(Longest))

ReadBracket ==
  /\ Starts /\ At(pos) = "[" /\ ~OpensLong(pos)
  /\ Take(Token("[", NoDatum), pos + 1)

ReadWord ==
  /\ Starts /\ At(pos) \in WordChars \ Digits
  /\ LET word == Slice(pos, RunEnd(pos, WordChars))
     IN  Take(IF word \in Keywords THEN Token(word, NoDatum) ELSE Token("Name", word),
              pos + Len(word))

ReadOther ==
  /\ Starts /\ ~IsOperator /\ At(pos) \notin WordChars \cup {"[", "\"", "'"}
  /\ Raise("UnexpectedChar")

-----------------------------------------------------------------------------
(* A byte by its number: its character where it has one.  (The backquote   *)
(* has no place in a string of TLA+.)                                      *)
Upper == " !\"#$%&'()*+,-./0123456789:;<=>?@ABCDEFGHIJKLMNOPQRSTUVWXYZ[\\]^_"
Lower == "abcdefghijklmnopqrstuvwxyz{|}~"
ByteOf(n) ==
  CASE n \in 32..95  -> SubSeq(Upper, n - 31, n - 31)
    [] n \in 97..126 -> SubSeq(Lower, n - 96, n - 96)
    [] n = 9 -> "\t" [] n = 10 -> "\n" [] n = 13 -> "\r"
    [] OTHER -> "\\" \o ToString(n)

(* read_number *)
DigitValue(c) ==
  (CHOOSE i \in 1..22 : SubSeq("0123456789abcdefABCDEF", i, i) = c) - 1
    - (IF c \in CharSet("ABCDEF") THEN 6 ELSE 0)

ValueOf(s, base) == FoldLeft(LAMBDA v, c : v * base + DigitValue(c), 0, Characters(s))

IntMax == -(IntMin + 1)

(* A decimal literal is at most i64::MAX. *)
ReadDecimal ==
  /\ Starts /\ At(pos) \in Digits /\ ~(At(pos) = "0" /\ At(pos + 1) \in {"x", "X"})
  /\ LET to == RunEnd(pos, Digits)
         n  == ValueOf(Slice(pos, to), 10)
     IN  IF At(to) \in {".", "e", "E"} THEN Raise("FloatLiteral")
         ELSE IF n > IntMax THEN Raise("IntegerOverflow")
         ELSE Take(Token("Integer", n), to)

(* A hexadecimal one is at most u64::MAX, and read as two's complement.    *)
ReadHex ==
  /\ Starts /\ At(pos) = "0" /\ At(pos + 1) \in {"x", "X"}
  /\ LET to == RunEnd(pos + 2, HexDigits)
         n  == ValueOf(Slice(pos + 2, to), 16)
     IN  IF At(to) \in {".", "p", "P"} THEN Raise("FloatLiteral")
         ELSE IF to = pos + 2 THEN Raise("UnexpectedToken")
         ELSE IF n > IntMax - IntMin THEN Raise("IntegerOverflow")
         ELSE Take(Token("Integer", Wrap(n)), to)

-----------------------------------------------------------------------------
(* read_short_string: the string grows while it is open. *)
Quotes == {"\"", "'"}

OpenString ==
  /\ Starts /\ At(pos) \in Quotes
  /\ open' = [quote |-> At(pos), level |-> 0, start |-> pos, line |-> line, bytes |-> << >>]
  /\ Jump(pos + 1)
  /\ UNCHANGED <<text, tokens, fault>>

InString == Going /\ open.quote \in Quotes

Push(byte) == open' = [open EXCEPT !.bytes = Append(@, byte)] /\ UNCHANGED <<text, tokens, fault>>

Unterminated ==
  /\ InString /\ At(pos) \in {"", "\n"}
  /\ Raise("UnterminatedString")

Plain ==
  /\ InString /\ At(pos) \notin {"", "\n", "\\", open.quote}
  /\ Push(At(pos)) /\ Jump(pos + 1)

CloseString == InString /\ At(pos) = open.quote /\ Close(pos + 1)

(* read_escape *)
Named ==
  [c \in CharSet("\\\"'nrtabfv\n\r") |->
     CASE c \in {"n", "\n", "\r"} -> "\n" [] c = "r" -> "\r" [] c = "t" -> "\t"
       [] c = "a" -> ByteOf(7) [] c = "b" -> ByteOf(8) [] c = "f" -> ByteOf(12)
       [] c = "v" -> ByteOf(11) [] OTHER -> c]

DecimalEnd == Min({RunEnd(pos + 1, Digits), pos + 4})

(* The character after the backslash is advanced over, digits after it are *)
(* passed.                                                                 *)
EscapedTo(j, byte) == Push(byte) /\ MoveTo(j, pos + 1, pos + 2)

Escape ==
  LET c       == At(pos + 1)
      decimal == ValueOf(Slice(pos + 1, DecimalEnd), 10)
  IN  /\ InString /\ At(pos) = "\\"
      /\ CASE c \in DOMAIN Named -> EscapedTo(pos + 2, Named[c])
           [] c = "x" /\ {At(pos + 2), At(pos + 3)} \subseteq HexDigits ->
                EscapedTo(pos + 4, ByteOf(ValueOf(Slice(pos + 2, pos + 4), 16)))
           [] c \in Digits /\ decimal <= 255 -> EscapedTo(DecimalEnd, ByteOf(decimal))
           [] OTHER -> Raise("BadEscape")

-----------------------------------------------------------------------------
LexNext ==
  \/ SkipBlank \/ SkipShortComment \/ ReadEof
  \/ OpenLongComment \/ OpenLongString \/ UnterminatedLong
  \/ LongChar \/ LongBracket \/ CloseLong
  \/ ReadOperator \/ ReadBracket \/ ReadWord \/ ReadOther
  \/ ReadDecimal \/ ReadHex
  \/ OpenString \/ Unterminated \/ Plain \/ CloseString \/ Escape
=============================================================================
