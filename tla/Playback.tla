------------------------------ MODULE Playback ------------------------------
(***************************************************************************)
(* What record and replay promise: a run is recorded step by step, sealed  *)
(* when it ends, and played back.  Each step of the playback is the next   *)
(* step of the recording, and the playback reaches its end.                *)
(***************************************************************************)
EXTENDS Sequences, Naturals

VARIABLES recorded, sealed, played

vars == <<recorded, sealed, played>>

Init == recorded = << >> /\ sealed = FALSE /\ played = << >>

Record ==
  /\ ~sealed
  /\ Len(recorded') = Len(recorded) + 1
  /\ SubSeq(recorded', 1, Len(recorded)) = recorded
  /\ UNCHANGED <<sealed, played>>

Seal == ~sealed /\ sealed' = TRUE /\ UNCHANGED <<recorded, played>>

Play ==
  /\ sealed
  /\ Len(played) < Len(recorded)
  /\ played' = Append(played, recorded[Len(played) + 1])
  /\ UNCHANGED <<recorded, sealed>>

Next == Record \/ Seal \/ Play

Spec == Init /\ [][Next]_vars /\ WF_vars(Play)
=============================================================================
