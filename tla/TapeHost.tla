------------------------------ MODULE TapeHost ------------------------------
(***************************************************************************)
(* OracleTape and TapeHost (host/tape.rs): a tape built from the records   *)
(* of a run, and the host that answers a replay from it, by position or    *)
(* strictly.                                                               *)
(***************************************************************************)
EXTENDS ToolRegistry

VARIABLES
  tape,        \* [entries, calls]: OracleTape
  cursor,      \* number of entries consumed
  strict,      \* TapeHost::strict rather than TapeHost::new
  divergence   \* NoDivergence, or the first point where a strict replay departed

tapeVars == <<tape, cursor, strict, divergence>>

OkEntry(b)  == [kind |-> "Ok", val |-> b]
ErrEntry(m) == [kind |-> "Err", val |-> m]

NoDivergence == [seq |-> -1]
NoCall       == [kind |-> "nocall"]
KnownCall(c) == [kind |-> "call", call |-> c]

DivergedMsg  == "replay diverged"
ExhaustedMsg == "oracle tape exhausted"
DecodeMsg    == "tape decode error"
TapeMessages == {DivergedMsg, ExhaustedMsg, DecodeMsg}

-----------------------------------------------------------------------------
(* OracleTape::from_records.  An entry is an error when the record carries *)
(* an error message; the record's status is not looked at.                 *)
EntryOf(r) == IF r.error_message = "" THEN OkEntry(r.response_canonical)
                                      ELSE ErrEntry(r.error_message)

FromRecords(rs) ==
  [ entries |-> [i \in 1..Len(rs) |-> EntryOf(rs[i])],
    calls   |-> [i \in 1..Len(rs) |-> rs[i].call] ]

(* A tape stored before calls were kept: serde(default) leaves them empty. *)
WithoutCalls(t) == [t EXCEPT !.calls = << >>]

EmptyTape == FromRecords(<< >>)

(* OracleTape has no entry left, TapeHost::is_exhausted.                   *)
IsExhausted == cursor >= Len(tape.entries)

(* Mutant: an error entry loses its message.                               *)
EntryAnswerMuted(e) ==
  IF e.kind = "Ok" /\ e.val \in Bytes /\ Decode[e.val] \in Tables
  THEN OkAnswer(Decode[e.val]) ELSE ErrAnswer(DecodeMsg)

(* What an entry answers: bytes that do not decode to a table, the empty   *)
(* ones among them, are an error.                                          *)
EntryAnswer(e) ==
  IF e.kind = "Err" THEN ErrAnswer(e.val)
  ELSE IF e.val \in Bytes /\ Decode[e.val] \in Tables THEN OkAnswer(Decode[e.val])
  ELSE ErrAnswer(DecodeMsg)

-----------------------------------------------------------------------------
(* The recorded call at the cursor; past the last entry there is none,     *)
(* whatever calls holds.                                                   *)
Expected ==
  IF ~IsExhausted /\ cursor < Len(tape.calls)
  THEN KnownCall(tape.calls[cursor + 1]) ELSE NoCall

Diverged == divergence # NoDivergence

(* TapeHost::new and TapeHost::strict. *)
Load(t, s) ==
  /\ tape' = t
  /\ cursor' = 0
  /\ strict' = s
  /\ divergence' = NoDivergence

(* check_strict fails, now or since an earlier call: nothing is consumed.  *)
StayDiverged(a) ==
  /\ strict /\ Diverged
  /\ a = ErrAnswer(DivergedMsg)
  /\ UNCHANGED tapeVars

(* Mutants: the last divergence is kept, not the first; a call that is the *)
(* expected one is served although the replay has diverged.                *)
DivergeAgain(c, a) ==
  /\ strict
  /\ Expected # KnownCall(c)
  /\ a = ErrAnswer(DivergedMsg)
  /\ divergence' = [seq |-> cursor, expected |-> Expected, actual |-> c]
  /\ UNCHANGED <<tape, cursor, strict>>

AcceptsAgain(c) == strict => Expected = KnownCall(c)

Diverge(c, a) ==
  /\ strict /\ ~Diverged
  /\ Expected # KnownCall(c)
  /\ a = ErrAnswer(DivergedMsg)
  /\ divergence' = [seq |-> cursor, expected |-> Expected, actual |-> c]
  /\ UNCHANGED <<tape, cursor, strict>>

Accepts(c) == strict => ~Diverged /\ Expected = KnownCall(c)

Exhaust(c, a) ==
  /\ Accepts(c)
  /\ IsExhausted
  /\ a = ErrAnswer(ExhaustedMsg)
  /\ UNCHANGED tapeVars

Serve(c, a) ==
  /\ Accepts(c)
  /\ ~IsExhausted
  /\ a = EntryAnswer(tape.entries[cursor + 1])
  /\ cursor' = cursor + 1
  /\ UNCHANGED <<tape, strict, divergence>>

(* HostInterface::call_tool of TapeHost: call c is answered a.             *)
TapeCall(c, a) ==
  StayDiverged(a) \/ Diverge(c, a) \/ Exhaust(c, a) \/ Serve(c, a)
=============================================================================
