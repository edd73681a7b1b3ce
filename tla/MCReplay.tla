------------------------------ MODULE MCReplay ------------------------------
(***************************************************************************)
(* Instances of Replay for TLC: two calls, and tables that show each way a *)
(* response can fare on the tape.                                          *)
(***************************************************************************)
EXTENDS Accounting, TLC

CONSTANTS
  c1, c2,        \* two calls
  t1,            \* a table that survives encoding and decoding
  tKey, tInt,    \* {["5"] = v} and {[5] = v}: one encoding, decoded to tInt
  tDeep,         \* nested beyond MAX_TABLE_DEPTH: no encoding
  b1, b5         \* encodings

MCArgBytes == (c1 :> 0) @@ (c2 :> 1)
MCCanon    == (t1 :> b1) @@ (tKey :> b5) @@ (tInt :> b5) @@ (tDeep :> NoBytes)
MCDecode   == (b1 :> t1) @@ (b5 :> tInt)
MCSize     == (b1 :> 0) @@ (b5 :> 1)

AllAnswers      == LiveAnswers
FaithfulAnswers == {a \in LiveAnswers : FaithfulAnswer(a)}
SilentErrors    == {OkAnswer(t1), ErrAnswer("")}
=============================================================================
