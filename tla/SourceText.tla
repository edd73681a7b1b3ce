----------------------------- MODULE SourceText -----------------------------
(***************************************************************************)
(* From a source text to its syntax tree (parser/mod.rs, parse): the lexer *)
(* runs to its end, then the parser.  To see that blanks mean nothing, a   *)
(* text that was read is written again, with other blanks, and read again. *)
(***************************************************************************)
EXTENDS Parser, Printing

CONSTANTS
  SourceTexts,   \* texts to read
  Separators,    \* what stands between the tokens of a text that is read again
  TokenTexts,    \* sequences of tokens to parse
  Trees          \* trees to print and to parse

VARIABLES
  stage,         \* "read", "reread", "parse", "parsed"; "idle": another part of a model runs
  earlier,       \* the tokens of the first reading
  origin,        \* the tree that was printed, or NoTree
  result         \* of the parser, or NoResult

sourceVars == <<lexVars, stage, earlier, origin, result>>

NoTree   == [tag |-> "NoTree"]
NoResult == Bad("none")

Start(s, t, ts, tree) ==
  /\ stage = s /\ text = t /\ tokens = ts /\ origin = tree
  /\ pos = 1 /\ line = 1 /\ open = NoString /\ fault = "none"
  /\ earlier = << >> /\ result = NoResult

SourceInit ==
  \/ \E t \in SourceTexts : Start("read", t, << >>, NoTree)
  \/ \E ts \in TokenTexts : Start("parse", "", ts \o Word("Eof"), NoTree)
  \/ \E tree \in Trees    : Start("parse", "", ShowProgram(tree), tree)

IsRead == Going = FALSE /\ fault = "none"

Lex ==
  /\ stage \in {"read", "reread"} /\ LexNext
  /\ UNCHANGED <<stage, earlier, origin, result>>

Spelling(t) == Slice(t.start, t.end)

Respace ==
  /\ stage = "read" /\ IsRead
  /\ \E sep \in Separators :
       text' = FoldLeft(LAMBDA s, t : s \o sep \o Spelling(t), "", tokens) \o sep
  /\ earlier' = tokens /\ stage' = "reread"
  /\ pos' = 1 /\ line' = 1 /\ tokens' = << >>
  /\ UNCHANGED <<open, fault, origin, result>>

Parse ==
  /\ stage = "parse" \/ (stage = "reread" /\ IsRead)
  /\ result' = ParseTokens
  /\ stage' = "parsed"
  /\ UNCHANGED <<lexVars, earlier, origin>>

SourceNext  == Lex \/ Respace \/ Parse
SourceEnded == stage \in {"parsed", "idle"} \/ fault # "none"

-----------------------------------------------------------------------------
Meaning(ts) == [i \in DOMAIN ts |-> <<ts[i].kind, ts[i].datum>>]

(* Each token has the line it starts in, whatever strings, escapes and     *)
(* comments of several lines lie before it: only Lexer::advance counts, so *)
(* no other move may take the lexer past a newline (next_token,            *)
(* skip_long_string, read_long_string_collect, read_escape).               *)
LinesAreRight ==
  stage \in {"read", "reread"} =>
    /\ line = 1 + Newlines(1, pos)
    /\ \A i \in DOMAIN tokens :
         /\ tokens[i].line = 1 + Newlines(1, tokens[i].start)
         /\ i > 1 => tokens[i - 1].end <= tokens[i].start

(* Blanks and comments between tokens change nothing: a token does not     *)
(* depend on what follows it, and a comment ends at its own closing        *)
(* bracket or at the end of its line (skip_whitespace_and_comments).       *)
BlanksAreFree ==
  /\ stage = "reread" => /\ fault = "none"
                         /\ IsRead => Meaning(tokens) = Meaning(earlier)
  /\ stage = "reread" => IsPrefix(Meaning(tokens), Meaning(earlier))

(* A tree that is printed with as few parentheses as the precedence of Lua *)
(* needs is the tree that is parsed (parse_binop and its next_min, unary   *)
(* operators, suffixes, blocks that end at a keyword of the one around).   *)
TreesSurvive ==
  stage = "parsed" /\ origin # NoTree => result.ok /\ result.tree = origin

(* A tree accounts for each token that was parsed, in its order: no        *)
(* function of the parser skips or drops one, and what follows a complete  *)
(* block is not ignored.                                                   *)
NothingIsLost ==
  stage = "parsed" /\ result.ok => Skeleton(ShowProgram(result.tree)) = Skeleton(tokens)
=============================================================================
