--------------------------- MODULE VerifierProofs ---------------------------
(***************************************************************************)
(* Soundness of the bytecode verifier for every code: an accepted code     *)
(* keeps to its own operands, whatever path the interpreter takes.  And    *)
(* its precision: what the depth analysis rejects goes wrong on some path. *)
(*                                                                         *)
(* The depth table is a certificate in the making: an entry is either      *)
(* settled, its instruction sound at that depth and its successors in the  *)
(* table with theirs, or still on the worklist.  The worklist being empty  *)
(* when verify accepts, all entries are settled, and the run goes from one *)
(* to the next.  That a fault is real rests on the number of entries: the  *)
(* paths to them are shorter than the entries are many.                    *)
(***************************************************************************)
EXTENDS VerifiedRun, Induction

DepthRange == 0..MaxStackDepth
DepthTables == [Pcs -> DepthRange \cup {Unknown}]
Entries == Pcs \X DepthRange

Analyses == [depths : DepthTables, worklist : Seq(Entries), verdict : Verdicts]

Typed == code \in Seq(Instructions)

-----------------------------------------------------------------------------
(* stack_effect and dispatch agree on the instructions that do not branch. *)

Others == (Plain \cup Indexed \cup {"Concat", "Call", "PCall"}) \ {"Error"}

LEMMA InstructionType ==
  ASSUME NEW i \in Instructions
  PROVE  i.n \in Int /\ (i.op \notin Jumps => i.n \in Nat) /\ (i.op = "Concat" => i.n >= 1)
BY DEF Instructions, Plain, PlainPushes, Binary, Unary, Indexed, ConstLoads, ProtoLoads,
       FieldOps, UpvalueOps, Counted, Jumps, CondJumps, ShortCircuits, IterInits

Agree(e, moves) ==
  /\ e.min \in Nat /\ e.delta \in Int /\ e.min + e.delta \in Nat
  /\ moves = {Move(e.min, e.min + e.delta, FALSE)}

LEMMA AgreeAs ==
  ASSUME NEW min \in Nat, NEW delta \in Int, NEW out \in Nat, min + delta = out
  PROVE  Agree(Effect(min, delta), {Move(min, out, FALSE)})
<1>1. Effect(min, delta).min = min /\ Effect(min, delta).delta = delta
  BY DEF Effect
<1>2. QED
  BY <1>1 DEF Agree

LEMMA EffectsAgree ==
  ASSUME NEW i \in Instructions, i.op \in Others
  PROVE  Agree(StackEffect(i), Moves(i))
<1>0. i.n \in Nat /\ (i.op = "Concat" => i.n >= 1)
  BY InstructionType DEF Others, Plain, PlainPushes, Binary, Unary, Indexed, ConstLoads,
     ProtoLoads, FieldOps, UpvalueOps, Jumps, CondJumps, ShortCircuits, IterInits
<1> USE DEF Pushes, ConstLoads, ProtoLoads, PlainPushes, Stores,
            Binary, Unary, CondJumps, ShortCircuits, IterInits
<1>1. CASE i.op \in Pushes
  <2>1. StackEffect(i) = Effect(0, 1)
    BY <1>1 DEF StackEffect
  <2>2. Moves(i) = {Move(0, 1, FALSE)}
    BY <1>1 DEF Moves
  <2>3. QED
    BY <2>1, <2>2 DEF Effect, Agree
<1>2. CASE i.op \in Stores
  <2>1. StackEffect(i) = Effect(1, 0 - 1)
    BY <1>2 DEF StackEffect
  <2>2. Moves(i) = {Move(1, 0, FALSE)}
    BY <1>2 DEF Moves
  <2>3. QED
    BY <2>1, <2>2 DEF Effect, Agree
<1>3. CASE i.op \in Binary
  <2>1. StackEffect(i) = Effect(2, 0 - 1)
    BY <1>3 DEF StackEffect
  <2>2. Moves(i) = {Move(2, 1, FALSE)}
    BY <1>3 DEF Moves
  <2>3. QED
    BY <2>1, <2>2 DEF Effect, Agree
<1>4. CASE i.op \in Unary
  <2>1. StackEffect(i) = Effect(1, 0)
    BY <1>4 DEF StackEffect
  <2>2. Moves(i) = {Move(1, 1, FALSE)}
    BY <1>4 DEF Moves
  <2>3. QED
    BY <2>1, <2>2 DEF Effect, Agree
<1>5. CASE i.op = "Nop"
  <2>1. StackEffect(i) = Effect(0, 0)
    BY <1>5 DEF StackEffect
  <2>2. Moves(i) = {Move(0, 0, FALSE)}
    BY <1>5 DEF Moves
  <2>3. QED
    BY <2>1, <2>2 DEF Effect, Agree
<1>6. CASE i.op = "Dup"
  <2>1. StackEffect(i) = Effect(1, 1)
    BY <1>6 DEF StackEffect
  <2>2. Moves(i) = {Move(1, 2, FALSE)}
    BY <1>6 DEF Moves
  <2>3. QED
    BY <2>1, <2>2 DEF Effect, Agree
<1>7. CASE i.op = "GetTable"
  <2>1. StackEffect(i) = Effect(2, 0 - 1)
    BY <1>7 DEF StackEffect
  <2>2. Moves(i) = {Move(2, 1, FALSE)}
    BY <1>7 DEF Moves
  <2>3. QED
    BY <2>1, <2>2 DEF Effect, Agree
<1>8. CASE i.op = "SetTable"
  <2>1. StackEffect(i) = Effect(3, 0 - 3)
    BY <1>8 DEF StackEffect
  <2>2. Moves(i) = {Move(3, 0, FALSE)}
    BY <1>8 DEF Moves
  <2>3. QED
    BY <2>1, <2>2 DEF Effect, Agree
<1>9. CASE i.op = "GetField"
  <2>1. StackEffect(i) = Effect(1, 0)
    BY <1>9 DEF StackEffect
  <2>2. Moves(i) = {Move(1, 1, FALSE)}
    BY <1>9 DEF Moves
  <2>3. QED
    BY <2>1, <2>2 DEF Effect, Agree
<1>10. CASE i.op = "SetField"
  <2>1. StackEffect(i) = Effect(2, 0 - 2)
    BY <1>10 DEF StackEffect
  <2>2. Moves(i) = {Move(2, 0, FALSE)}
    BY <1>10 DEF Moves
  <2>3. QED
    BY <2>1, <2>2 DEF Effect, Agree
<1>11. CASE i.op = "ToolCall"
  <2>1. StackEffect(i) = Effect(2, 0 - 1)
    BY <1>11 DEF StackEffect
  <2>2. Moves(i) = {Move(2, 1, FALSE)}
    BY <1>11 DEF Moves
  <2>3. QED
    BY <2>1, <2>2 DEF Effect, Agree
<1>12. CASE i.op = "Concat"
  <2>1. StackEffect(i) = Effect(i.n, 0 - (i.n - 1))
    BY <1>12 DEF StackEffect
  <2>2. Moves(i) = {Move(i.n, 1, FALSE)}
    BY <1>12 DEF Moves
  <2>3. i.n \in Nat /\ 0 - (i.n - 1) \in Int /\ i.n + (0 - (i.n - 1)) = 1
    BY <1>0, <1>12
  <2>4. QED
    BY <2>1, <2>2, <2>3, AgreeAs
<1>13. CASE i.op = "Call"
  <2>1. StackEffect(i) = Effect(i.n + 1, 0 - i.n)
    BY <1>13 DEF StackEffect
  <2>2. Moves(i) = {Move(i.n + 1, 1, FALSE)}
    BY <1>13 DEF Moves
  <2>3. i.n + 1 \in Nat /\ 0 - i.n \in Int /\ i.n + 1 + (0 - i.n) = 1
    BY <1>0, <1>13
  <2>4. QED
    BY <2>1, <2>2, <2>3, AgreeAs
<1>14. CASE i.op = "PCall"
  <2>1. StackEffect(i) = Effect(i.n + 1, 1 - i.n)
    BY <1>14 DEF StackEffect
  <2>2. Moves(i) = {Move(i.n + 1, 2, FALSE)}
    BY <1>14 DEF Moves
  <2>3. i.n + 1 \in Nat /\ 1 - i.n \in Int /\ i.n + 1 + (1 - i.n) = 2
    BY <1>0, <1>14
  <2>4. QED
    BY <2>1, <2>2, <2>3, AgreeAs
<1>15. QED
  BY <1>1, <1>2, <1>3, <1>4, <1>5, <1>6, <1>7, <1>8, <1>9, <1>10, <1>11, <1>12, <1>13, <1>14
  DEF Others, Plain, Indexed, FieldOps, UpvalueOps

-----------------------------------------------------------------------------
(* What schedule does to the state of the analysis.                        *)

(* r has the depths st has, and lists what st lists and what it adds.      *)
Grows(st, r) ==
  /\ \A q \in Pcs : st.depths[q] # Unknown => r.depths[q] = st.depths[q]
  /\ \A q \in Pcs : r.depths[q] # st.depths[q] => <<q, r.depths[q]>> \in Listed(r.worklist)
  /\ Listed(st.worklist) \subseteq Listed(r.worklist)

LEMMA AppendLists ==
  ASSUME NEW S, NEW s \in Seq(S), NEW e \in S
  PROVE  /\ Append(s, e) \in Seq(S)
         /\ Listed(Append(s, e)) = Listed(s) \cup {e}
BY DEF Listed

LEMMA PopLists ==
  ASSUME NEW S, NEW s \in Seq(S), s # << >>
  PROVE  /\ Head(s) \in S /\ Tail(s) \in Seq(S)
         /\ Listed(s) = Listed(Tail(s)) \cup {Head(s)}
<1>1. Head(s) \in S /\ Tail(s) \in Seq(S) /\ Len(s) >= 1 /\ Len(Tail(s)) = Len(s) - 1
  OBVIOUS
<1>2. \A k \in 1..Len(Tail(s)) : Tail(s)[k] = s[k + 1] /\ k + 1 \in 1..Len(s)
  OBVIOUS
<1>3. Head(s) = s[1] /\ 1 \in 1..Len(s)
  OBVIOUS
<1>4. ASSUME NEW k \in 1..Len(s), k # 1
      PROVE  k - 1 \in 1..Len(Tail(s)) /\ Tail(s)[k - 1] = s[k]
  <2>1. k - 1 \in 1..Len(Tail(s)) /\ (k - 1) + 1 = k
    BY <1>1, <1>4
  <2>2. QED
    BY <1>2, <2>1
<1>5. QED
  BY <1>1, <1>2, <1>3, <1>4 DEF Listed

LEMMA ScheduleType ==
  ASSUME Typed, NEW st \in Analyses, NEW p, NEW d \in DepthRange
  PROVE  Schedule(st, p, d) \in Analyses
<1>1. /\ st.depths \in DepthTables /\ DOMAIN st.depths = Pcs
      /\ st.worklist \in Seq(Entries) /\ st.verdict \in Verdicts
  BY DEF Analyses, DepthTables
<1>2. \A f \in Faults \cup {"panic"} : Failed(st, f) \in Analyses
  BY DEF Failed, Analyses, Verdicts
<1>3. ASSUME p \in Pcs
      PROVE  Analysis([st.depths EXCEPT ![p] = d], Append(st.worklist, <<p, d>>), "analysis")
               \in Analyses
  <2>1. [st.depths EXCEPT ![p] = d] \in DepthTables
    BY <1>1, <1>3 DEF DepthTables
  <2>2. Append(st.worklist, <<p, d>>) \in Seq(Entries)
    BY <1>1, <1>3, AppendLists DEF Entries
  <2>3. QED
    BY <2>1, <2>2 DEF Analysis, Analyses, Verdicts
<1>4. QED
  BY <1>1, <1>2, <1>3 DEF Schedule, Faults

LEMMA ScheduleGrows ==
  ASSUME Typed, NEW st \in Analyses, NEW p, NEW d \in DepthRange,
         Schedule(st, p, d).verdict = "analysis"
  PROVE  LET r == Schedule(st, p, d)
         IN  st.verdict = "analysis" /\ p \in Pcs /\ r.depths[p] = d /\ Grows(st, r)
<1> DEFINE grown == Analysis([st.depths EXCEPT ![p] = d], Append(st.worklist, <<p, d>>), "analysis")
<1>1. /\ st.depths \in DepthTables /\ DOMAIN st.depths = Pcs
      /\ st.worklist \in Seq(Entries)
  BY DEF Analyses, DepthTables
<1>2. \A f \in Faults \cup {"panic"} : Failed(st, f).verdict # "analysis"
  BY DEF Failed, Analyses, Faults
<1>3. st.verdict = "analysis" /\ p \in Pcs
  BY <1>1, <1>2 DEF Schedule
<1>4. \/ st.depths[p] = Unknown /\ Schedule(st, p, d) = grown
      \/ st.depths[p] = d /\ Schedule(st, p, d) = st
  BY <1>1, <1>2, <1>3 DEF Schedule, Faults
<1>5. ASSUME st.depths[p] = Unknown
      PROVE  grown.depths[p] = d /\ Grows(st, grown)
  <2>1. grown.depths = [st.depths EXCEPT ![p] = d] /\ grown.worklist = Append(st.worklist, <<p, d>>)
    BY DEF Analysis
  <2>2. Listed(grown.worklist) = Listed(st.worklist) \cup {<<p, d>>}
    <3>1. <<p, d>> \in Entries
      BY <1>3 DEF Entries
    <3>2. Listed(Append(st.worklist, <<p, d>>)) = Listed(st.worklist) \cup {<<p, d>>}
      BY <1>1, <3>1, AppendLists
    <3>3. QED
      BY <2>1, <3>2
  <2>3. grown.depths[p] = d /\ \A q \in Pcs : q # p => grown.depths[q] = st.depths[q]
    BY <1>1, <1>3, <2>1
  <2>4. QED
    BY <1>3, <1>5, <2>2, <2>3 DEF Grows
<1>6. Grows(st, st)
  BY DEF Grows
<1>7. QED
  BY <1>3, <1>4, <1>5, <1>6

LEMMA GrowsTwice ==
  ASSUME NEW st, NEW r, NEW t, Grows(st, r), Grows(r, t)
  PROVE  Grows(st, t)
<1>1. ASSUME NEW q \in Pcs, st.depths[q] # Unknown
      PROVE  t.depths[q] = st.depths[q]
  BY <1>1 DEF Grows
<1>2. ASSUME NEW q \in Pcs, t.depths[q] # st.depths[q]
      PROVE  <<q, t.depths[q]>> \in Listed(t.worklist)
  <2>1. CASE t.depths[q] # r.depths[q]
    BY <2>1 DEF Grows
  <2>2. CASE t.depths[q] = r.depths[q]
    BY <1>2, <2>2 DEF Grows
  <2>3. QED
    BY <2>1, <2>2
<1>3. QED
  BY <1>1, <1>2 DEF Grows

(* A settled entry stays settled as the table grows.                       *)
LEMMA SettledStays ==
  ASSUME NEW ds, NEW es, NEW p, NEW h, Settled(ds, p, h), MaxStackDepth \in Nat,
         \A q \in Pcs : ds[q] # Unknown => es[q] = ds[q]
  PROVE  Settled(es, p, h)
<1>1. \A q, g : Lands(ds, q, g) => Lands(es, q, g)
  BY DEF Lands, Unknown
<1>2. QED
  BY <1>1 DEF Settled

-----------------------------------------------------------------------------
(* A visit preserves the certificate.                                      *)

VerifierTyped ==
  /\ code \in Seq(Instructions)
  /\ depths \in DepthTables
  /\ worklist \in Seq(Entries)
  /\ verdict \in Verdicts

Turn == VerifierTyped /\ Certificate /\ verdict = "analysis" /\ worklist # << >>

LEMMA TurnFacts ==
  ASSUME Turn
  PROVE  /\ Typed /\ At \in Pcs /\ Depth \in DepthRange /\ Here \in Instructions
         /\ <<At, Depth>> = Head(worklist)
         /\ Popped \in Analyses
         /\ Listed(worklist) = Listed(Popped.worklist) \cup {<<At, Depth>>}
         /\ Popped.depths = depths /\ Popped.worklist = Tail(worklist)
         /\ Popped.verdict = "analysis"
<1>1. code \in Seq(Instructions) /\ worklist \in Seq(Entries) /\ worklist # << >>
      /\ depths \in DepthTables
  BY DEF Turn, VerifierTyped
<1>2. /\ Head(worklist) \in Entries /\ Tail(worklist) \in Seq(Entries)
      /\ Listed(worklist) = Listed(Tail(worklist)) \cup {Head(worklist)}
  BY <1>1, PopLists
<1>3. /\ At \in Pcs /\ Depth \in DepthRange /\ <<At, Depth>> = Head(worklist)
  BY <1>2 DEF Entries, At, Depth
<1>4. Popped.depths = depths /\ Popped.worklist = Tail(worklist) /\ Popped.verdict = "analysis"
  BY DEF Popped, Analysis
<1>5. Popped \in Analyses
  BY <1>1, <1>2 DEF Popped, Analysis, Analyses, Verdicts
<1>6. Here \in Instructions
  BY <1>1, <1>3 DEF Here, At, Pcs
<1>7. QED
  BY <1>1, <1>2, <1>3, <1>4, <1>5, <1>6 DEF Typed

(* What an arm of the match owes: a next state of the analysis which, when *)
(* it goes on, has the depths found so far and settles the one visited.    *)
Sound(r) ==
  /\ r \in Analyses /\ r.verdict # "ok" /\ r.verdict # "structure"
  /\ r.verdict = "analysis" => Grows(Popped, r) /\ Settled(r.depths, At, Depth)

LEMMA BecomesKeeps ==
  ASSUME Turn, NEW r, Sound(r), Becomes(r)
  PROVE  VerifierTyped' /\ Certificate'
<1> DEFINE now == IF depths[At] = Depth THEN r ELSE Popped
<1>1. /\ depths' = now.depths /\ worklist' = now.worklist /\ verdict' = now.verdict
      /\ code' = code
  BY DEF Becomes
<1>2. now \in Analyses /\ now.verdict # "ok" /\ now.verdict # "structure"
  BY TurnFacts DEF Sound
<1>3. VerifierTyped'
  <2>1. Pcs' = Pcs /\ DepthTables' = DepthTables /\ Entries' = Entries
    BY <1>1 DEF Pcs, DepthTables, Entries
  <2>2. QED
    BY <1>1, <1>2, <2>1 DEF VerifierTyped, Analyses, Turn
<1>4. CASE now.verdict # "analysis"
  BY <1>1, <1>2, <1>3, <1>4 DEF Certificate
<1>5. CASE now.verdict = "analysis"
  <2>1. Grows(Popped, now)
    BY <1>5 DEF Sound, Grows
  <2>2. \A q \in Pcs : depths[q] # Unknown => depths'[q] = depths[q]
    BY <1>1, <2>1, TurnFacts DEF Grows
  <2>3. ASSUME NEW p \in Pcs, depths'[p] # Unknown
        PROVE  <<p, depths'[p]>> \in Listed(worklist') \/ Settled(depths', p, depths'[p])
    <3>1. CASE depths'[p] # depths[p]
      BY <1>1, <2>1, <3>1, TurnFacts DEF Grows
    <3>2. CASE depths'[p] = depths[p] /\ Settled(depths, p, depths[p])
      BY <2>2, <3>2, SettledStays, VerifierAssumption
    <3>3. CASE depths'[p] = depths[p] /\ <<p, depths[p]>> \in Listed(Popped.worklist)
      BY <1>1, <2>1, <3>3 DEF Grows
    <3>4. CASE depths'[p] = depths[p] /\ <<p, depths[p]>> = <<At, Depth>>
      <4>1. p = At /\ depths[At] = Depth
        BY <3>4
      <4>2. now = r
        BY <4>1
      <4>3. Settled(r.depths, At, Depth)
        BY <1>5, <4>2 DEF Sound
      <4>4. QED
        BY <1>1, <3>4, <4>1, <4>2, <4>3
    <3>5. depths[p] = depths'[p] =>
            <<p, depths[p]>> \in Listed(worklist) \/ Settled(depths, p, depths[p])
      BY <2>3 DEF Turn, Certificate
    <3>6. QED
      BY <3>1, <3>2, <3>3, <3>4, <3>5, TurnFacts
  <2>4. code # << >> => depths[1] = 0 /\ depths'[1] = 0
    <3>1. code # << >> => 1 \in Pcs /\ depths[1] = 0
      BY DEF Turn, VerifierTyped, Certificate, Pcs
    <3>2. QED
      BY <2>2, <3>1 DEF Unknown
  <2>5. Pcs' = Pcs
    BY <1>1 DEF Pcs
  <2>6. \A p : Settled(depths', p, depths'[p]) => Settled(depths, p, depths[p])'
    BY <1>1, <2>5 DEF Settled, Lands
  <2>7. QED
    BY <1>1, <1>3, <1>5, <2>3, <2>4, <2>5, <2>6 DEF Certificate
<1>6. QED
  BY <1>3, <1>4, <1>5

(* Any state that ends the analysis is sound. *)
LEMMA FailureIsSound ==
  ASSUME NEW st \in Analyses, NEW f \in Faults \cup {"panic"}
  PROVE  Sound(Failed(st, f))
BY DEF Sound, Failed, Analyses, Faults, Verdicts

(* schedule never accepts, nor does a step back to the structural checks.  *)
LEMMA ScheduleVerdict ==
  ASSUME NEW st \in Analyses, st.verdict \notin {"ok", "structure"}, NEW p, NEW d
  PROVE  Schedule(st, p, d).verdict \notin {"ok", "structure"}
BY DEF Schedule, Failed, Analysis, Analyses

(* The arms that schedule the target of the jump and then the instruction  *)
(* after it, each with the depth of the outcome.                           *)
LEMMA BranchIsSound ==
  ASSUME Turn, NEW far \in Nat, NEW near \in Nat, Depth >= 1,
         Depth - 1 + far \in DepthRange, Depth - 1 + near \in DepthRange,
         Here.op \notin {"Ret", "Error"},
         Moves(Here) = {Move(1, far, TRUE), Move(1, near, FALSE)}
  PROVE  Sound(Schedule(Schedule(Popped, Target(At, Here), Depth - 1 + far),
                        At + 1, Depth - 1 + near))
<1> DEFINE r == Schedule(Popped, Target(At, Here), Depth - 1 + far)
           t == Schedule(r, At + 1, Depth - 1 + near)
<1>1. r \in Analyses /\ t \in Analyses
  BY TurnFacts, ScheduleType
<1>2. t.verdict \notin {"ok", "structure"}
  <2>1. r.verdict \notin {"ok", "structure"}
    BY TurnFacts, ScheduleVerdict
  <2>2. QED
    BY <1>1, <2>1, ScheduleVerdict
<1>3. ASSUME t.verdict = "analysis"
      PROVE  Grows(Popped, t) /\ Settled(t.depths, At, Depth)
  <2>1. /\ r.verdict = "analysis" /\ At + 1 \in Pcs
        /\ t.depths[At + 1] = Depth - 1 + near /\ Grows(r, t)
    BY <1>1, <1>3, TurnFacts, ScheduleGrows
  <2>2. /\ Target(At, Here) \in Pcs
        /\ r.depths[Target(At, Here)] = Depth - 1 + far /\ Grows(Popped, r)
    BY <2>1, TurnFacts, ScheduleGrows
  <2>3. Depth - 1 + far # Unknown
    BY DEF DepthRange, Unknown
  <2>4. t.depths[Target(At, Here)] = Depth - 1 + far
    BY <2>1, <2>2, <2>3 DEF Grows
  <2>5. Lands(t.depths, Target(At, Here), Depth - 1 + far)
        /\ Lands(t.depths, At + 1, Depth - 1 + near)
    BY <2>1, <2>2, <2>4 DEF Lands, DepthRange
  <2>6. Settled(t.depths, At, Depth)
    BY <2>5, TurnFacts DEF Settled, Starved, Move, Here, At, DepthRange
  <2>7. QED
    BY <2>1, <2>2, <2>6, GrowsTwice
<1>4. QED
  BY <1>1, <1>2, <1>3 DEF Sound

-----------------------------------------------------------------------------
(* Every step of verify preserves the certificate.                         *)

LEMMA ChecksKeep ==
  ASSUME VerifierTyped, Certificate, StructuralChecks
  PROVE  VerifierTyped' /\ Certificate'
<1>1. /\ verdict = "structure" /\ worklist = << >> /\ code' = code /\ Pcs' = Pcs
      /\ \A p \in Pcs : depths[p] = Unknown
  BY DEF StructuralChecks, Certificate, Pcs
<1>2. DepthTables' = DepthTables /\ Entries' = Entries
  BY <1>1 DEF DepthTables, Entries
<1>3. CASE code = << >> /\ verdict' = "ok" /\ UNCHANGED <<depths, worklist>>
  BY <1>1, <1>2, <1>3 DEF VerifierTyped, Certificate, Verdicts
<1>4. CASE /\ code # << >> /\ verdict' = "analysis"
           /\ depths' = [depths EXCEPT ![1] = 0] /\ worklist' = <<<<1, 0>>>>
  <2>1. 1 \in Pcs /\ 0 \in DepthRange
    BY <1>4, VerifierAssumption DEF VerifierTyped, Pcs, DepthRange
  <2>2. depths' \in DepthTables
    BY <1>4, <2>1 DEF VerifierTyped, DepthTables
  <2>3. <<1, 0>> \in Entries /\ worklist' \in Seq(Entries)
    BY <1>4, <2>1 DEF Entries
  <2>4. depths'[1] = 0 /\ \A p \in Pcs : p # 1 => depths'[p] = Unknown
    BY <1>1, <1>4, <2>1 DEF VerifierTyped, DepthTables
  <2>5. <<1, 0>> \in Listed(worklist')
    BY <1>4 DEF Listed
  <2>6. QED
    BY <1>1, <1>2, <1>4, <2>2, <2>3, <2>4, <2>5 DEF VerifierTyped, Certificate, Verdicts
<1>5. CASE verdict' \in Faults /\ UNCHANGED <<depths, worklist>>
  BY <1>1, <1>2, <1>5 DEF VerifierTyped, Certificate, Verdicts, Faults
<1>6. QED
  BY <1>3, <1>4, <1>5 DEF StructuralChecks, Faults

LEMMA RequiresSound ==
  ASSUME Turn, NEW n, NEW r, ~(Depth < n) => Sound(r)
  PROVE  Sound(Requires(n, r))
BY TurnFacts, FailureIsSound DEF Requires, Faults

LEMMA VisitsAreTurns ==
  ASSUME VerifierTyped, Certificate, NEW ops, Visiting(ops)
  PROVE  Turn /\ Here.op \in ops
BY DEF Visiting, Turn

LEMMA VisitRetKeeps ==
  ASSUME VerifierTyped, Certificate, VisitRet
  PROVE  VerifierTyped' /\ Certificate'
<1> DEFINE r == IF Depth # Here.n THEN Failed(Popped, "RetStackMismatch") ELSE Popped
<1>1. Turn /\ Here.op = "Ret" /\ Becomes(r)
  BY VisitsAreTurns DEF VisitRet
<1>2. Moves(Here) = {}
  BY <1>1 DEF Moves, Pushes, ConstLoads, ProtoLoads, PlainPushes, Stores, Binary, Unary,
     CondJumps, ShortCircuits, IterInits
<1>3. Sound(r)
  <2>1. CASE Depth # Here.n
    BY <1>1, <2>1, TurnFacts, FailureIsSound DEF Faults
  <2>2. CASE Depth = Here.n
    <3>1. Settled(depths, At, Depth)
      BY <1>1, <1>2, <2>2, TurnFacts DEF Settled, Starved, Here, At, DepthRange
    <3>2. Grows(Popped, Popped)
      BY DEF Grows
    <3>3. QED
      BY <1>1, <2>2, <3>1, <3>2, TurnFacts DEF Sound
  <2>3. QED
    BY <2>1, <2>2
<1>4. QED
  BY <1>1, <1>3, BecomesKeeps

LEMMA VisitErrorKeeps ==
  ASSUME VerifierTyped, Certificate, VisitError
  PROVE  VerifierTyped' /\ Certificate'
<1>1. Turn /\ Here.op = "Error" /\ Becomes(Requires(1, Popped))
  BY VisitsAreTurns DEF VisitError
<1>2. Moves(Here) = {}
  BY <1>1 DEF Moves, Pushes, ConstLoads, ProtoLoads, PlainPushes, Stores, Binary, Unary,
     CondJumps, ShortCircuits, IterInits
<1>3. ASSUME ~(Depth < 1)
      PROVE  Sound(Popped)
  <2>1. Settled(depths, At, Depth)
    BY <1>1, <1>2, <1>3 DEF Settled, Starved, Here, At
  <2>2. Grows(Popped, Popped)
    BY DEF Grows
  <2>3. QED
    BY <1>1, <2>1, <2>2, TurnFacts DEF Sound
<1>4. QED
  BY <1>1, <1>3, RequiresSound, BecomesKeeps

LEMMA VisitJmpKeeps ==
  ASSUME VerifierTyped, Certificate, VisitJmp
  PROVE  VerifierTyped' /\ Certificate'
<1> DEFINE r == Schedule(Popped, Target(At, Here), Depth)
<1>1. Turn /\ Here.op = "Jmp" /\ Becomes(r)
  BY VisitsAreTurns DEF VisitJmp
<1>2. Moves(Here) = {Move(0, 0, TRUE)}
  BY <1>1 DEF Moves, Pushes, ConstLoads, ProtoLoads, PlainPushes, Stores, Binary, Unary,
     CondJumps, ShortCircuits, IterInits
<1>3. r \in Analyses /\ r.verdict \notin {"ok", "structure"}
  BY <1>1, TurnFacts, ScheduleType, ScheduleVerdict
<1>4. ASSUME r.verdict = "analysis"
      PROVE  Grows(Popped, r) /\ Settled(r.depths, At, Depth)
  <2>1. Target(At, Here) \in Pcs /\ r.depths[Target(At, Here)] = Depth /\ Grows(Popped, r)
    BY <1>1, <1>4, TurnFacts, ScheduleGrows
  <2>2. Lands(r.depths, Target(At, Here), Depth)
    BY <1>1, <2>1, TurnFacts DEF Lands, DepthRange
  <2>3. Depth - 0 + 0 = Depth /\ ~(Depth < 0)
    BY <1>1, TurnFacts DEF DepthRange
  <2>4. QED
    BY <1>1, <1>2, <2>1, <2>2, <2>3 DEF Settled, Starved, Move, Here, At
<1>5. QED
  BY <1>1, <1>3, <1>4, BecomesKeeps DEF Sound

LEMMA VisitCondJumpKeeps ==
  ASSUME VerifierTyped, Certificate, VisitCondJump
  PROVE  VerifierTyped' /\ Certificate'
<1> DEFINE r == Schedule(Schedule(Popped, Target(At, Here), Depth - 1), At + 1, Depth - 1)
<1>1. Turn /\ Here.op \in CondJumps /\ Becomes(Requires(1, r))
  BY VisitsAreTurns DEF VisitCondJump
<1>2. /\ Moves(Here) = {Move(1, 0, TRUE), Move(1, 0, FALSE)}
      /\ Here.op \notin {"Ret", "Error"}
  BY <1>1 DEF Moves, Pushes, ConstLoads, ProtoLoads, PlainPushes, Stores, Binary, Unary,
     CondJumps, ShortCircuits, IterInits
<1>3. ASSUME ~(Depth < 1)
      PROVE  Sound(r)
  <2>1. /\ Depth >= 1 /\ Depth - 1 + 0 \in DepthRange /\ Depth - 1 + 0 \in DepthRange
        /\ Depth - 1 + 0 = Depth - 1 /\ Depth - 1 + 0 = Depth - 1
    BY <1>1, <1>3, TurnFacts, VerifierAssumption DEF DepthRange
  <2>2. Sound(Schedule(Schedule(Popped, Target(At, Here), Depth - 1 + 0),
                       At + 1, Depth - 1 + 0))
    BY <1>1, <1>2, <2>1, BranchIsSound
  <2>3. QED
    BY <2>1, <2>2
<1>4. QED
  BY <1>1, <1>3, RequiresSound, BecomesKeeps

LEMMA VisitShortCircuitKeeps ==
  ASSUME VerifierTyped, Certificate, VisitShortCircuit
  PROVE  VerifierTyped' /\ Certificate'
<1> DEFINE r == Schedule(Schedule(Popped, Target(At, Here), Depth), At + 1, Depth)
<1>1. Turn /\ Here.op \in ShortCircuits /\ Becomes(Requires(1, r))
  BY VisitsAreTurns DEF VisitShortCircuit
<1>2. /\ Moves(Here) = {Move(1, 1, TRUE), Move(1, 1, FALSE)}
      /\ Here.op \notin {"Ret", "Error"}
  BY <1>1 DEF Moves, Pushes, ConstLoads, ProtoLoads, PlainPushes, Stores, Binary, Unary,
     CondJumps, ShortCircuits, IterInits
<1>3. ASSUME ~(Depth < 1)
      PROVE  Sound(r)
  <2>1. /\ Depth >= 1 /\ Depth - 1 + 1 \in DepthRange /\ Depth - 1 + 1 \in DepthRange
        /\ Depth - 1 + 1 = Depth /\ Depth - 1 + 1 = Depth
    BY <1>1, <1>3, TurnFacts, VerifierAssumption DEF DepthRange
  <2>2. Sound(Schedule(Schedule(Popped, Target(At, Here), Depth - 1 + 1),
                       At + 1, Depth - 1 + 1))
    BY <1>1, <1>2, <2>1, BranchIsSound
  <2>3. QED
    BY <2>1, <2>2
<1>4. QED
  BY <1>1, <1>3, RequiresSound, BecomesKeeps

LEMMA VisitIterInitKeeps ==
  ASSUME VerifierTyped, Certificate, VisitIterInit
  PROVE  VerifierTyped' /\ Certificate'
<1> DEFINE r == Schedule(Schedule(Popped, Target(At, Here), Depth - 1), At + 1, Depth)
<1>1. Turn /\ Here.op \in IterInits /\ Becomes(Requires(1, r))
  BY VisitsAreTurns DEF VisitIterInit
<1>2. /\ Moves(Here) = {Move(1, 0, TRUE), Move(1, 1, FALSE)}
      /\ Here.op \notin {"Ret", "Error"}
  BY <1>1 DEF Moves, Pushes, ConstLoads, ProtoLoads, PlainPushes, Stores, Binary, Unary,
     CondJumps, ShortCircuits, IterInits
<1>3. ASSUME ~(Depth < 1)
      PROVE  Sound(r)
  <2>1. /\ Depth >= 1 /\ Depth - 1 + 0 \in DepthRange /\ Depth - 1 + 1 \in DepthRange
        /\ Depth - 1 + 0 = Depth - 1 /\ Depth - 1 + 1 = Depth
    BY <1>1, <1>3, TurnFacts, VerifierAssumption DEF DepthRange
  <2>2. Sound(Schedule(Schedule(Popped, Target(At, Here), Depth - 1 + 0),
                       At + 1, Depth - 1 + 1))
    BY <1>1, <1>2, <2>1, BranchIsSound
  <2>3. QED
    BY <2>1, <2>2
<1>4. QED
  BY <1>1, <1>3, RequiresSound, BecomesKeeps

LEMMA VisitIterNextKeeps ==
  ASSUME VerifierTyped, Certificate, VisitIterNext
  PROVE  VerifierTyped' /\ Certificate'
<1> DEFINE done == Schedule(Popped, Target(At, Here), Depth - 1)
           r == IF done.verdict # "analysis" THEN done
                ELSE IF Depth + 2 > MaxStackDepth THEN Failed(done, "StackOverflow")
                ELSE Schedule(done, At + 1, Depth + 2)
<1>1. Turn /\ Here.op = "IterNext" /\ Becomes(Requires(1, r))
  BY VisitsAreTurns DEF VisitIterNext
<1>2. /\ Moves(Here) = {Move(1, 0, TRUE), Move(1, 3, FALSE)}
      /\ Here.op \notin {"Ret", "Error"}
  BY <1>1 DEF Moves, Pushes, ConstLoads, ProtoLoads, PlainPushes, Stores, Binary, Unary,
     CondJumps, ShortCircuits, IterInits
<1>3. ASSUME ~(Depth < 1)
      PROVE  Sound(r)
  <2>1. Depth >= 1 /\ Depth - 1 \in DepthRange
    BY <1>1, <1>3, TurnFacts, VerifierAssumption DEF DepthRange
  <2>2. done \in Analyses /\ done.verdict \notin {"ok", "structure"}
    BY <1>1, <2>1, TurnFacts, ScheduleType, ScheduleVerdict
  <2>3. CASE done.verdict # "analysis"
    BY <2>2, <2>3 DEF Sound
  <2>4. CASE done.verdict = "analysis" /\ Depth + 2 > MaxStackDepth
    BY <2>2, <2>4, FailureIsSound DEF Faults
  <2>5. CASE done.verdict = "analysis" /\ ~(Depth + 2 > MaxStackDepth)
    <3>1. /\ Depth - 1 + 0 \in DepthRange /\ Depth - 1 + 3 \in DepthRange
          /\ Depth - 1 + 0 = Depth - 1 /\ Depth - 1 + 3 = Depth + 2
      BY <1>1, <2>1, <2>5, TurnFacts, VerifierAssumption DEF DepthRange
    <3>2. Sound(Schedule(Schedule(Popped, Target(At, Here), Depth - 1 + 0),
                         At + 1, Depth - 1 + 3))
      BY <1>1, <1>2, <2>1, <3>1, BranchIsSound
    <3>3. QED
      BY <2>5, <3>1, <3>2
  <2>6. QED
    BY <2>3, <2>4, <2>5
<1>4. QED
  BY <1>1, <1>3, RequiresSound, BecomesKeeps

LEMMA VisitOtherKeeps ==
  ASSUME VerifierTyped, Certificate, VisitOther
  PROVE  VerifierTyped' /\ Certificate'
<1> DEFINE e   == StackEffect(Here)
           out == Depth + e.delta
           r   == IF out < 0 THEN Failed(Popped, "StackUnderflow")
                  ELSE IF out > MaxStackDepth THEN Failed(Popped, "StackOverflow")
                  ELSE IF At + 1 <= Len(code) THEN Schedule(Popped, At + 1, out)
                  ELSE Popped
<1>1. Turn /\ Here.op \in Others /\ Becomes(Requires(e.min, r))
  BY VisitsAreTurns DEF VisitOther, Others
<1>2. /\ e.min \in Nat /\ e.delta \in Int /\ e.min + e.delta \in Nat
      /\ Moves(Here) = {Move(e.min, e.min + e.delta, FALSE)}
  BY <1>1, TurnFacts, EffectsAgree DEF Agree
<1>3. ASSUME ~(Depth < e.min)
      PROVE  Sound(r)
  <2>1. CASE out < 0
    BY <1>1, <2>1, TurnFacts, FailureIsSound DEF Faults
  <2>2. CASE ~(out < 0) /\ out > MaxStackDepth
    BY <1>1, <2>2, TurnFacts, FailureIsSound DEF Faults
  <2>3. CASE ~(out < 0) /\ ~(out > MaxStackDepth)
    <3>1. out \in DepthRange /\ Depth - e.min + (e.min + e.delta) = out
      BY <1>1, <1>2, <2>3, TurnFacts, VerifierAssumption DEF DepthRange
    <3>2. ASSUME NEW es, Lands(es, At + 1, out)
          PROVE  Settled(es, At, Depth)
      <4>1. Here.op \notin {"Ret", "Error"}
        BY <1>1 DEF Others, Plain, PlainPushes, Binary, Unary, Indexed, ConstLoads,
           ProtoLoads, FieldOps, UpvalueOps
      <4>2. ~Starved(Here, Depth)
        BY <1>2, <1>3, <4>1 DEF Starved, Move
      <4>3. \A m \in Moves(Here) :
              ~m.jumps /\ Depth - m.takes + m.gives = out
        BY <1>2, <3>1 DEF Move
      <4>4. QED
        BY <3>2, <4>1, <4>2, <4>3 DEF Settled, Here, At
    <3>3. CASE At + 1 <= Len(code)
      <4>1. r = Schedule(Popped, At + 1, out)
        BY <2>3, <3>3
      <4>2. r \in Analyses /\ r.verdict \notin {"ok", "structure"}
        BY <1>1, <3>1, <4>1, TurnFacts, ScheduleType, ScheduleVerdict
      <4>3. ASSUME r.verdict = "analysis"
            PROVE  Grows(Popped, r) /\ Lands(r.depths, At + 1, out)
        BY <1>1, <3>1, <4>1, <4>3, TurnFacts, ScheduleGrows DEF Lands, DepthRange
      <4>4. QED
        BY <3>2, <4>2, <4>3 DEF Sound
    <3>4. CASE ~(At + 1 <= Len(code))
      <4>1. r = Popped
        BY <2>3, <3>4
      <4>2. At + 1 = Len(code) + 1
        BY <1>1, <3>4, TurnFacts DEF Pcs, Turn, VerifierTyped
      <4>3. Lands(Popped.depths, At + 1, out)
        BY <3>1, <4>2 DEF Lands, DepthRange
      <4>4. Grows(Popped, Popped)
        BY DEF Grows
      <4>5. QED
        BY <1>1, <3>2, <4>1, <4>3, <4>4, TurnFacts DEF Sound
    <3>5. QED
      BY <3>3, <3>4
  <2>4. QED
    BY <2>1, <2>2, <2>3
<1>4. QED
  BY <1>1, <1>3, RequiresSound, BecomesKeeps

LEMMA AnalysisDoneKeeps ==
  ASSUME VerifierTyped, Certificate, AnalysisDone
  PROVE  VerifierTyped' /\ Certificate'
<1>1. /\ verdict = "analysis" /\ verdict' = "ok" /\ worklist = << >>
      /\ UNCHANGED <<code, depths, worklist>> /\ Pcs' = Pcs
  BY DEF AnalysisDone, Pcs
<1>2. VerifierTyped'
  BY <1>1 DEF VerifierTyped, DepthTables, Entries, Verdicts
<1>3. \A p : Settled(depths, p, depths[p])' <=> Settled(depths, p, depths[p])
  BY <1>1 DEF Settled, Lands
<1>4. QED
  BY <1>1, <1>2, <1>3 DEF Certificate

LEMMA VerifierKeeps ==
  ASSUME VerifierTyped, Certificate, VerifierNext
  PROVE  VerifierTyped' /\ Certificate'
BY ChecksKeep, VisitRetKeeps, VisitErrorKeeps, VisitJmpKeeps, VisitCondJumpKeeps,
   VisitShortCircuitKeeps, VisitIterInitKeeps, VisitIterNextKeeps, VisitOtherKeeps,
   AnalysisDoneKeeps DEF VerifierNext

-----------------------------------------------------------------------------
(* The run.                                                                *)

LEMMA TypesAgree == TypeOK <=> /\ VerifierTyped
                               /\ frame \in {"none", "running", "returned", "raised"}
                               /\ pc \in Nat \ {0} /\ height \in Int
BY DEF TypeOK, VerifierTyped, DepthTables, DepthRange, Entries

(* Where the certificate stands, the frame's next instruction is settled.  *)
LEMMA RunIsSettled ==
  ASSUME SafetyInv, frame = "running", pc \in Pcs
  PROVE  Settled(depths, pc, height) /\ height \in DepthRange
<1>1. verdict = "ok" /\ Lands(depths, pc, height) /\ worklist = << >>
  BY DEF SafetyInv, FollowsDepths, Certificate
<1>2. depths[pc] = height /\ height \in DepthRange
  <2>1. pc # Len(code) + 1
    BY DEF Pcs, SafetyInv, TypeOK
  <2>2. QED
    BY <1>1, <2>1 DEF Lands, DepthRange
<1>3. Listed(worklist) = {}
  BY <1>1 DEF Listed
<1>4. depths[pc] # Unknown
  BY <1>2 DEF DepthRange, Unknown
<1>5. QED
  BY <1>1, <1>2, <1>3, <1>4 DEF SafetyInv, Certificate

LEMMA CertificateFrame ==
  ASSUME UNCHANGED verifierVars, Certificate
  PROVE  Certificate'
<1>1. UNCHANGED <<code, depths, worklist, verdict>> /\ Pcs' = Pcs
  BY DEF verifierVars, Pcs
<1>2. \A p : Settled(depths, p, depths[p])' <=> Settled(depths, p, depths[p])
  BY <1>1 DEF Settled, Lands
<1>3. QED
  BY <1>1, <1>2 DEF Certificate

LEMMA SafetyInit == Init => SafetyInv
<1> SUFFICES ASSUME Init PROVE SafetyInv
  OBVIOUS
<1>1. TypeOK
  BY VerifierAssumption DEF Init, VerifierInit, TypeOK, Pcs, Verdicts
<1>2. Certificate
  BY DEF Init, VerifierInit, Certificate, Pcs
<1>3. FollowsDepths
  BY DEF Init, FollowsDepths
<1>4. QED
  BY <1>1, <1>2, <1>3 DEF SafetyInv

LEMMA SafetyNext ==
  ASSUME SafetyInv, [Next]_vars
  PROVE  SafetyInv'
<1>0. /\ VerifierTyped /\ Certificate /\ FollowsDepths
      /\ frame \in {"none", "running", "returned", "raised"}
      /\ pc \in Nat \ {0} /\ height \in Int
  BY TypesAgree DEF SafetyInv
<1>1. CASE Verify
  <2>1. VerifierTyped' /\ Certificate' /\ UNCHANGED <<frame, pc, height>>
    BY <1>0, <1>1, VerifierKeeps DEF Verify
  <2>2. verdict \in {"structure", "analysis"}
    BY <1>1 DEF Verify, VerifierNext, StructuralChecks, VisitRet, VisitError, VisitJmp,
       VisitCondJump, VisitShortCircuit, VisitIterInit, VisitIterNext, VisitOther,
       AnalysisDone, Visiting
  <2>3. frame = "none"
    BY <1>0, <2>2 DEF FollowsDepths
  <2>4. FollowsDepths'
    BY <2>1, <2>3 DEF FollowsDepths
  <2>5. TypeOK'
    BY <1>0, <2>1 DEF TypeOK, VerifierTyped, DepthTables, DepthRange, Entries
  <2>6. QED
    BY <2>1, <2>4, <2>5 DEF SafetyInv
<1>2. ASSUME UNCHANGED verifierVars,
             frame' \in {"none", "running", "returned", "raised"},
             pc' \in Nat \ {0}, height' \in Int, FollowsDepths'
      PROVE  SafetyInv'
  <2>1. Certificate'
    BY <1>0, <1>2, CertificateFrame
  <2>2. TypeOK'
    BY <1>2 DEF SafetyInv, TypeOK, verifierVars, Pcs
  <2>3. QED
    BY <1>2, <2>1, <2>2 DEF SafetyInv
<1>3. CASE Enter
  <2>1. Lands(depths, 1, 0)
    <3>1. CASE code = << >>
      BY <3>1, VerifierAssumption DEF Lands
    <3>2. CASE code # << >>
      BY <1>0, <1>3, <3>2, VerifierAssumption DEF Lands, Enter, Certificate, VerifierTyped, Pcs
    <3>3. QED
      BY <3>1, <3>2
  <2>2. FollowsDepths'
    BY <1>3, <2>1 DEF FollowsDepths, Enter, verifierVars, Lands, Pcs
  <2>3. QED
    BY <1>2, <1>3, <2>2 DEF Enter
<1>4. ASSUME Executing, NEW m \in Moves(code[pc]), Execute(m)
      PROVE  SafetyInv'
  <2>1. pc \in Pcs /\ frame = "running" /\ Settled(depths, pc, height)
    BY <1>4, RunIsSettled DEF Executing
  <2>2. Lands(depths, pc', height')
    BY <1>4, <2>1 DEF Settled, Execute
  <2>3. pc' \in Nat \ {0} /\ height' \in Int
    BY <1>0, <2>2, VerifierAssumption DEF Lands, Pcs, VerifierTyped
  <2>4. FollowsDepths'
    BY <1>0, <1>4, <2>2 DEF FollowsDepths, Execute, verifierVars, Lands, Pcs
  <2>5. QED
    BY <1>0, <1>2, <1>4, <2>3, <2>4 DEF Execute
<1>5. ASSUME frame' \in {"returned", "raised"}, verdict = "ok", UNCHANGED <<verifierVars, pc>>,
             height' \in Int
      PROVE  SafetyInv'
  <2>1. FollowsDepths'
    BY <1>5 DEF FollowsDepths, verifierVars
  <2>2. QED
    BY <1>0, <1>2, <1>5, <2>1
<1>6. CASE Return
  <2>1. code[pc].n \in Int
    BY <1>0, <1>6, InstructionType DEF Return, Executing, VerifierTyped, Pcs
  <2>2. QED
    BY <1>0, <1>5, <1>6, <2>1 DEF Return, Executing, FollowsDepths
<1>7. CASE ReturnAtEnd
  BY <1>0, <1>5, <1>7 DEF ReturnAtEnd, FollowsDepths
<1>8. CASE RaiseError
  BY <1>0, <1>5, <1>8 DEF RaiseError, Executing, FollowsDepths
<1>9. CASE UNCHANGED vars
  <2>1. UNCHANGED verifierVars /\ UNCHANGED <<frame, pc, height>>
    BY <1>9 DEF vars, verifierVars
  <2>2. FollowsDepths'
    BY <1>0, <2>1 DEF FollowsDepths, verifierVars, Lands, Pcs
  <2>3. QED
    BY <1>0, <1>2, <2>1, <2>2
<1>10. QED
  BY <1>1, <1>3, <1>4, <1>6, <1>7, <1>8, <1>9 DEF Next

LEMMA SafetyHolds == Spec => []SafetyInv
BY SafetyInit, SafetyNext, PTL DEF Spec

(* Every depth verify records or waits to visit is one the stack may have, *)
(* at an instruction of the prototype: neither the depth table nor         *)
(* MAX_STACK_DEPTH is overrun (stack_analysis, schedule).                  *)
THEOREM DepthsAreBounded == Spec => []TypeOK
<1>1. SafetyInv => TypeOK
  BY DEF SafetyInv
<1>2. QED
  BY <1>1, SafetyHolds, PTL

(* Whatever the code and whatever path it takes, accepted code finds every *)
(* operand its instructions take, returns with exactly its results left,   *)
(* and never leaves its code (verify_proto against the dispatch loop).     *)
THEOREM AcceptedCodeIsSafe == Spec => []AcceptedIsSafe
<1>1. ASSUME SafetyInv, frame = "running"
      PROVE  /\ pc \in 1..Len(code) + 1
             /\ height \in 0..MaxStackDepth
             /\ pc \in Pcs => ~Starved(code[pc], height)
             /\ pc \in Pcs /\ code[pc].op = "Ret" => height = code[pc].n
  <2>1. Lands(depths, pc, height) /\ Len(code) \in Nat
    BY <1>1 DEF SafetyInv, FollowsDepths, TypeOK
  <2>2. pc \in 1..Len(code) + 1 /\ height \in 0..MaxStackDepth
    BY <2>1 DEF Lands, Pcs
  <2>3. pc \in Pcs => Settled(depths, pc, height)
    BY <1>1, RunIsSettled
  <2>4. QED
    BY <2>2, <2>3 DEF Settled
<1>2. SafetyInv => AcceptedIsSafe
  BY <1>1 DEF AcceptedIsSafe
<1>3. QED
  BY <1>2, SafetyHolds, PTL
-----------------------------------------------------------------------------
(* The states a frame can reach.                                           *)

States == Int \X Int

LEMMA MovesType ==
  ASSUME NEW i \in Instructions, NEW m \in Moves(i)
  PROVE  m.takes \in Int /\ m.gives \in Int
<1>1. i.n \in Int
  BY InstructionType
<1>2. i.op \in Others \cup Jumps \cup {"Ret", "Error"}
  BY DEF Instructions, Others, Plain, Indexed, Counted
<1>3. ASSUME NEW takes \in Int, NEW gives \in Int, NEW jumps, m = Move(takes, gives, jumps)
      PROVE  m.takes \in Int /\ m.gives \in Int
  BY <1>3 DEF Move
<1>4. CASE i.op \in Others
  <2> DEFINE e == StackEffect(i)
  <2>1. /\ e.min \in Int /\ e.min + e.delta \in Int
        /\ m = Move(e.min, e.min + e.delta, FALSE)
    <3>1. Agree(e, Moves(i))
      BY <1>4, EffectsAgree
    <3> HIDE DEF e
    <3>2. QED
      BY <3>1 DEF Agree
  <2> HIDE DEF e
  <2>2. QED
    BY <1>3, <2>1
<1>5. CASE i.op \in Jumps
  <2>1. \/ Moves(i) = {Move(0, 0, TRUE)}
        \/ Moves(i) = {Move(1, 0, TRUE), Move(1, 0, FALSE)}
        \/ Moves(i) = {Move(1, 1, TRUE), Move(1, 1, FALSE)}
        \/ Moves(i) = {Move(1, 0, TRUE), Move(1, 1, FALSE)}
        \/ Moves(i) = {Move(1, 0, TRUE), Move(1, 3, FALSE)}
    BY <1>5 DEF Moves, Jumps, Pushes, ConstLoads, ProtoLoads, PlainPushes, Stores,
       Binary, Unary, CondJumps, ShortCircuits, IterInits
  <2>2. \/ m = Move(0, 0, TRUE) \/ m = Move(1, 0, TRUE) \/ m = Move(1, 0, FALSE)
        \/ m = Move(1, 1, TRUE) \/ m = Move(1, 1, FALSE) \/ m = Move(1, 3, FALSE)
    BY <2>1
  <2>3. QED
    BY <2>2 DEF Move
<1>6. CASE i.op \in {"Ret", "Error"}
  <2>1. Moves(i) = {}
    BY <1>6 DEF Moves, Pushes, ConstLoads, ProtoLoads, PlainPushes, Stores,
       Binary, Unary, CondJumps, ShortCircuits, IterInits
  <2>2. QED
    BY <2>1
<1>7. QED
  BY <1>2, <1>4, <1>5, <1>6

LEMMA SuccessorsType ==
  ASSUME NEW c \in Seq(Instructions), NEW s \in States, s[1] \in 1..Len(c)
  PROVE  Successors(c, s) \subseteq States
<1>1. c[s[1]] \in Instructions /\ s[1] \in Int /\ s[2] \in Int
  BY DEF States
<1>2. Target(s[1], c[s[1]]) \in Int
  BY <1>1, InstructionType DEF Target
<1>3. QED
  BY <1>1, <1>2, MovesType DEF Successors, States

(* One instruction more from a set of states. *)
OneMore(c, before) ==
  before \cup UNION {Successors(c, s) : s \in {r \in before : r[1] \in 1..Len(c)}}

LEMMA ReachedSteps ==
  ASSUME NEW c \in Seq(Instructions)
  PROVE  /\ ReachedIn(c, 0) = {<<1, 0>>}
         /\ \A k \in Nat : ReachedIn(c, k + 1) = OneMore(c, ReachedIn(c, k))
<1> DEFINE Unroll(g) == [j \in Nat |->
                           IF j = 0 THEN {<<1, 0>>}
                           ELSE LET before == g[j - 1]
                                IN  before \cup UNION {Successors(c, s) :
                                      s \in {r \in before : r[1] \in 1..Len(c)}}]
           R == CHOOSE g : g = Unroll(g)
           step == [j \in Nat |-> [before \in SUBSET States |-> OneMore(c, before)]]
<1>1. \A n \in Nat : IsStep(SUBSET States, step, n)
  <2>1. \A before \in SUBSET States : OneMore(c, before) \in SUBSET States
    BY SuccessorsType DEF OneMore
  <2>2. QED
    BY <2>1 DEF IsStep
<1>2. {<<1, 0>>} \in SUBSET States
  BY DEF States
<1>3. PICK f : UnrollsOnNat(f, SUBSET States, {<<1, 0>>}, step)
  <2> HIDE DEF step
  <2>1. QED
    BY <1>1, <1>2, RecursionOnNat
<1>4. f = Unroll(f)
  <2>1. f = [j \in Nat |-> f[j]] /\ f[0] = {<<1, 0>>}
    BY <1>3 DEF UnrollsOnNat
  <2>2. ASSUME NEW j \in Nat, j # 0 PROVE f[j] = OneMore(c, f[j - 1])
    <3>1. j \in Nat \ {0} /\ j - 1 \in Nat
      BY <2>2
    <3>2. f[j] = step[j][f[j - 1]] /\ f[j - 1] \in SUBSET States
      <4> HIDE DEF step
      <4>1. QED
        BY <1>3, <3>1 DEF UnrollsOnNat
    <3>3. QED
      BY <3>2
  <2>3. QED
    BY <2>1, <2>2 DEF OneMore
<1>5. R = Unroll(R)
  <2> HIDE DEF Unroll
  <2>1. QED
    BY <1>4
<1>6. \A k \in Nat : ReachedIn(c, k) = R[k]
  BY DEF ReachedIn
<1> HIDE DEF R
<1>7. R[0] = {<<1, 0>>}
  BY <1>5
<1>8. ASSUME NEW k \in Nat PROVE R[k + 1] = OneMore(c, R[k])
  <2>1. k + 1 \in Nat /\ k + 1 # 0 /\ (k + 1) - 1 = k
    OBVIOUS
  <2>2. QED
    BY <1>5, <2>1 DEF OneMore
<1>9. ReachedIn(c, 0) = {<<1, 0>>}
  BY <1>6, <1>7
<1>10. ASSUME NEW k \in Nat PROVE ReachedIn(c, k + 1) = OneMore(c, ReachedIn(c, k))
  <2>1. ReachedIn(c, k + 1) = R[k + 1] /\ ReachedIn(c, k) = R[k]
    BY <1>6
  <2>2. QED
    BY <1>8, <2>1
<1>11. QED
  BY <1>9, <1>10

LEMMA ReachedGrows ==
  ASSUME NEW c \in Seq(Instructions), NEW k \in Nat, NEW j \in 0..k
  PROVE  ReachedIn(c, j) \subseteq ReachedIn(c, k)
<1> DEFINE T == {n \in Nat : \A i \in 0..n : ReachedIn(c, i) \subseteq ReachedIn(c, n)}
<1>1. 0 \in T
  OBVIOUS
<1>2. ASSUME NEW n \in T PROVE n + 1 \in T
  <2>1. ReachedIn(c, n) \subseteq ReachedIn(c, n + 1)
    BY ReachedSteps DEF OneMore
  <2>2. ASSUME NEW i \in 0..n + 1 PROVE ReachedIn(c, i) \subseteq ReachedIn(c, n + 1)
    <3>1. CASE i = n + 1
      BY <3>1
    <3>2. CASE i \in 0..n
      BY <2>1, <3>2
    <3>3. QED
      BY <3>1, <3>2
  <2>3. QED
    BY <2>2
<1>3. T = Nat
  <2>1. T \in SUBSET Nat
    OBVIOUS
  <2> HIDE DEF T
  <2>2. QED
    BY <1>1, <1>2, <2>1, NatInd
<1>4. QED
  BY <1>3

LEMMA ReachedNext ==
  ASSUME NEW c \in Seq(Instructions), NEW k \in Nat, NEW s \in ReachedIn(c, k),
         s[1] \in 1..Len(c), NEW t \in Successors(c, s)
  PROVE  t \in ReachedIn(c, k + 1)
<1>1. t \in OneMore(c, ReachedIn(c, k))
  BY DEF OneMore
<1>2. QED
  BY <1>1, ReachedSteps

(* No more depths are found than there are instructions. *)
LEMMA FoundCount ==
  ASSUME Typed, NEW ds \in DepthTables
  PROVE  /\ Found(ds) \subseteq Pcs /\ IsFiniteSet(Found(ds))
         /\ Cardinality(Found(ds)) \in 0..Len(code)
<1>1. Len(code) \in Nat
  BY DEF Typed
<1>2. IsFiniteSet(Pcs) /\ Cardinality(Pcs) = Len(code)
  <2>1. /\ IsFiniteSet(1..Len(code))
        /\ Cardinality(1..Len(code)) = IF 1 > Len(code) THEN 0 ELSE Len(code) - 1 + 1
    BY <1>1, FS_Interval
  <2>2. QED
    BY <1>1, <2>1 DEF Pcs
<1>3. Found(ds) \subseteq Pcs
  BY DEF Found, DepthTables
<1>4. IsFiniteSet(Found(ds)) /\ Cardinality(Found(ds)) <= Cardinality(Pcs)
  BY <1>2, <1>3, FS_Subset
<1>5. QED
  BY <1>1, <1>2, <1>3, <1>4, FS_CardinalityType

-----------------------------------------------------------------------------
(* What a visit finds, and what it finds wrong, a frame reaches.           *)

(* The depths ds, that of the instruction visited among them, are reached. *)
Tracks(ds) == ds \in DepthTables /\ ds[At] = Depth /\ Shown(code, ds)

Visited == Turn /\ Tracks(depths)

LEMMA HereIsReached ==
  ASSUME Turn, NEW ds, Tracks(ds)
  PROVE  LET n == Cardinality(Found(ds))
         IN  /\ n \in 1..Len(code)
             /\ <<At, Depth>> \in ReachedIn(code, n - 1)
             /\ \A t \in Successors(code, <<At, Depth>>) : t \in ReachedIn(code, n)
<1> DEFINE n == Cardinality(Found(ds))
<1>1. At \in Pcs /\ Depth \in DepthRange /\ Typed
  BY TurnFacts
<1>2. ds \in DepthTables /\ ds[At] = Depth /\ Shown(code, ds)
  BY DEF Tracks
<1>3. At \in Found(ds)
  BY <1>1, <1>2 DEF Found, DepthTables, DepthRange, Unknown
<1>4. n \in 0..Len(code) /\ IsFiniteSet(Found(ds))
  BY <1>1, <1>2, FoundCount
<1>5. n # 0
  BY <1>3, <1>4, FS_EmptySet
<1>6. Len(code) \in Nat
  BY <1>1 DEF Typed
<1>7. n \in 1..Len(code) /\ n - 1 \in Nat /\ (n - 1) + 1 = n
  <2> HIDE DEF n
  <2>1. QED
    BY <1>4, <1>5, <1>6
<1>8. <<At, Depth>> \in ReachedIn(code, n - 1)
  BY <1>2, <1>3 DEF Shown
<1>9. \A t \in Successors(code, <<At, Depth>>) : t \in ReachedIn(code, n)
  <2>1. code \in Seq(Instructions) /\ <<At, Depth>>[1] \in 1..Len(code)
    BY <1>1 DEF Typed, Pcs
  <2> HIDE DEF n
  <2>2. ASSUME NEW t \in Successors(code, <<At, Depth>>) PROVE t \in ReachedIn(code, (n - 1) + 1)
    BY <1>7, <1>8, <2>1, ReachedNext
  <2>3. QED
    BY <1>7, <2>2
<1>10. QED
  BY <1>7, <1>8, <1>9

(* No path to a depth found, or to one next to it, is too long to count.   *)
LEMMA ReachedAtAll ==
  ASSUME Typed, NEW k \in 0..Len(code) + 1, NEW s \in ReachedIn(code, k)
  PROVE  s \in ReachedIn(code, Len(code) + 1)
<1>1. code \in Seq(Instructions) /\ Len(code) + 1 \in Nat
  BY DEF Typed
<1>2. QED
  BY <1>1, ReachedGrows

LEMMA NearIsReached ==
  ASSUME Visited
  PROVE  /\ <<At, Depth>> \in ReachedIn(code, Len(code) + 1)
         /\ \A t \in Successors(code, <<At, Depth>>) : t \in ReachedIn(code, Len(code) + 1)
<1> DEFINE n == Cardinality(Found(depths))
<1>1. /\ n \in 1..Len(code)
      /\ <<At, Depth>> \in ReachedIn(code, n - 1)
      /\ \A t \in Successors(code, <<At, Depth>>) : t \in ReachedIn(code, n)
  BY HereIsReached DEF Visited
<1>2. Typed /\ Len(code) \in Nat
  BY TurnFacts DEF Visited, Typed
<1> HIDE DEF n
<1>3. n \in 0..Len(code) + 1 /\ n - 1 \in 0..Len(code) + 1
  BY <1>1, <1>2
<1>4. QED
  BY <1>1, <1>2, <1>3, ReachedAtAll

(* What an arm of the match owes here: depths that are reached when the    *)
(* analysis goes on, and a fault that happens when it ends in one.         *)
Owed(r) ==
  /\ r \in Analyses
  /\ r.verdict = "analysis" => Tracks(r.depths)
  /\ r.verdict \in DepthFaults => Happens(code, r.verdict)

LEMMA PoppedIsOwed ==
  ASSUME Visited
  PROVE  Owed(Popped)
BY TurnFacts DEF Visited, Owed, DepthFaults, Faults

LEMMA ScheduleIsOwed ==
  ASSUME Turn, NEW st, Owed(st), NEW p, NEW d \in DepthRange,
         <<p, d>> \in Successors(code, <<At, Depth>>)
  PROVE  Owed(Schedule(st, p, d))
<1> DEFINE r == Schedule(st, p, d)
           n == Cardinality(Found(st.depths))
<1>1. /\ Typed /\ st \in Analyses /\ r \in Analyses
      /\ st.depths \in DepthTables /\ DOMAIN st.depths = Pcs
      /\ code \in Seq(Instructions) /\ Len(code) \in Nat
  BY TurnFacts, ScheduleType DEF Owed, Analyses, DepthTables, Typed
<1>2. CASE st.verdict # "analysis"
  BY <1>2 DEF Schedule
<1>3. CASE st.verdict = "analysis" /\ p \notin Pcs
  <2>1. r = Failed(st, "panic")
    BY <1>1, <1>3 DEF Schedule
  <2>2. r.verdict = "panic"
    BY <1>1, <2>1 DEF Failed, Analyses
  <2>3. QED
    BY <1>1, <2>2 DEF Owed, DepthFaults, Faults
<1>4. ASSUME st.verdict = "analysis", p \in Pcs
      PROVE  /\ n \in 1..Len(code) /\ Tracks(st.depths)
             /\ \A q \in Found(st.depths) : <<q, st.depths[q]>> \in ReachedIn(code, n - 1)
             /\ <<p, d>> \in ReachedIn(code, n)
  <2>1. Tracks(st.depths)
    BY <1>4 DEF Owed
  <2>2. QED
    BY <2>1, HereIsReached DEF Tracks, Shown
<1>5. CASE st.verdict = "analysis" /\ p \in Pcs /\ st.depths[p] = Unknown
  <2> DEFINE ds == [st.depths EXCEPT ![p] = d]
  <2>1. r = Analysis(ds, Append(st.worklist, <<p, d>>), "analysis")
    BY <1>1, <1>5 DEF Schedule
  <2>2. r.depths = ds /\ r.verdict = "analysis"
    BY <2>1 DEF Analysis
  <2>3. ds \in DepthTables /\ ds[p] = d /\ \A q \in Pcs : q # p => ds[q] = st.depths[q]
    BY <1>1, <1>5 DEF DepthTables
  <2>4. d # Unknown
    BY DEF DepthRange, Unknown
  <2>5. Found(ds) = Found(st.depths) \cup {p} /\ p \notin Found(st.depths)
    BY <1>1, <1>5, <2>3, <2>4 DEF Found, DepthTables
  <2>6. Cardinality(Found(ds)) = n + 1
    BY <1>1, <2>5, FoundCount, FS_AddElement
  <2>7. ds[At] = Depth
    <3>1. st.depths[At] = Depth /\ Depth # Unknown /\ At \in Pcs
      BY <1>4, <1>5, TurnFacts DEF Tracks, DepthRange, Unknown
    <3>2. QED
      BY <1>5, <2>3, <3>1
  <2>8. ASSUME NEW q \in Found(ds)
        PROVE  <<q, ds[q]>> \in ReachedIn(code, n)
    <3>1. CASE q = p
      BY <1>4, <1>5, <2>3, <3>1
    <3>2. CASE q # p
      <4>1. q \in Found(st.depths) /\ ds[q] = st.depths[q]
        BY <2>3, <2>5, <2>8, <3>2 DEF Found, DepthTables
      <4>2. n \in Nat /\ n - 1 \in 0..n /\ <<q, st.depths[q]>> \in ReachedIn(code, n - 1)
        BY <1>1, <1>4, <1>5, <4>1
      <4>3. ReachedIn(code, n - 1) \subseteq ReachedIn(code, n)
        BY <1>1, <4>2, ReachedGrows
      <4>4. QED
        BY <4>1, <4>2, <4>3
    <3>3. QED
      BY <3>1, <3>2
  <2>9. (n + 1) - 1 = n
    BY <1>4, <1>5
  <2>10. Shown(code, ds)
    BY <2>6, <2>8, <2>9 DEF Shown
  <2>11. Tracks(r.depths)
    BY <2>2, <2>3, <2>7, <2>10 DEF Tracks
  <2>12. QED
    BY <1>1, <2>2, <2>11 DEF Owed, DepthFaults, Faults
<1>6. CASE st.verdict = "analysis" /\ p \in Pcs /\ st.depths[p] # Unknown /\ st.depths[p] # d
  <2>1. r = Failed(st, "StackDepthMismatch")
    BY <1>1, <1>6 DEF Schedule
  <2>2. r.verdict = "StackDepthMismatch"
    BY <1>1, <2>1 DEF Failed, Analyses
  <2>3. <<p, st.depths[p]>> \in ReachedIn(code, n - 1) /\ <<p, d>> \in ReachedIn(code, n)
    BY <1>1, <1>4, <1>6 DEF Found, DepthTables
  <2>4. n \in 0..Len(code) + 1 /\ n - 1 \in 0..Len(code) + 1
    BY <1>1, <1>4, <1>6
  <2>5. /\ <<p, st.depths[p]>> \in ReachedIn(code, Len(code) + 1)
        /\ <<p, d>> \in ReachedIn(code, Len(code) + 1)
    BY <1>1, <2>3, <2>4, ReachedAtAll
  <2>6. \E s, t \in ReachedIn(code, Len(code) + 1) : s[1] = t[1] /\ s[2] # t[2]
    <3>1. /\ <<p, st.depths[p]>>[1] = <<p, d>>[1]
          /\ <<p, st.depths[p]>>[2] # <<p, d>>[2]
      BY <1>6
    <3>2. QED
      BY <2>5, <3>1
  <2>7. Happens(code, "StackDepthMismatch")
    BY <2>6 DEF Happens
  <2>8. QED
    BY <1>1, <2>2, <2>7 DEF Owed
<1>7. CASE st.verdict = "analysis" /\ p \in Pcs /\ st.depths[p] # Unknown /\ st.depths[p] = d
  BY <1>1, <1>7 DEF Schedule
<1>8. QED
  BY <1>2, <1>3, <1>5, <1>6, <1>7

(* The three faults found in one place.                                    *)
LEMMA UnderflowIsOwed ==
  ASSUME Visited, Starved(Here, Depth)
  PROVE  Owed(Failed(Popped, "StackUnderflow"))
<1> DEFINE s == <<At, Depth>>
<1>1. s \in ReachedIn(code, Len(code) + 1) /\ s[1] \in 1..Len(code)
  BY NearIsReached, TurnFacts DEF Visited, Pcs
<1>2. Starved(code[s[1]], s[2])
  BY DEF Here, At
<1>3. Happens(code, "StackUnderflow")
  <2> HIDE DEF s
  <2>1. QED
    BY <1>1, <1>2 DEF Happens
<1>4. QED
  BY <1>3, TurnFacts DEF Visited, Owed, Failed, Analyses, Verdicts, Faults

LEMMA RetMismatchIsOwed ==
  ASSUME Visited, Here.op = "Ret", Depth # Here.n
  PROVE  Owed(Failed(Popped, "RetStackMismatch"))
<1> DEFINE s == <<At, Depth>>
<1>1. s \in ReachedIn(code, Len(code) + 1) /\ s[1] \in 1..Len(code)
  BY NearIsReached, TurnFacts DEF Visited, Pcs
<1>2. code[s[1]].op = "Ret" /\ s[2] # code[s[1]].n
  BY DEF Here, At
<1>3. Happens(code, "RetStackMismatch")
  <2> HIDE DEF s
  <2>1. QED
    BY <1>1, <1>2 DEF Happens
<1>4. QED
  BY <1>3, TurnFacts DEF Visited, Owed, Failed, Analyses, Verdicts, Faults

LEMMA OverflowIsOwed ==
  ASSUME Visited, NEW st \in Analyses, NEW q, NEW h, h > MaxStackDepth,
         <<q, h>> \in Successors(code, <<At, Depth>>)
  PROVE  Owed(Failed(st, "StackOverflow"))
<1>1. <<q, h>> \in ReachedIn(code, Len(code) + 1) /\ <<q, h>>[2] > MaxStackDepth
  BY NearIsReached
<1>2. Happens(code, "StackOverflow")
  BY <1>1 DEF Happens
<1>3. QED
  BY <1>2 DEF Owed, Failed, Analyses, Verdicts, Faults

(* The outcomes of the instruction visited. *)
LEMMA OutcomesFollow ==
  ASSUME NEW takes, NEW gives
  PROVE  /\ Move(takes, gives, TRUE) \in Moves(Here) =>
              <<Target(At, Here), Depth - takes + gives>> \in Successors(code, <<At, Depth>>)
         /\ Move(takes, gives, FALSE) \in Moves(Here) =>
              <<At + 1, Depth - takes + gives>> \in Successors(code, <<At, Depth>>)
<1> DEFINE s == <<At, Depth>>
<1>1. s[1] = At /\ s[2] = Depth /\ code[s[1]] = Here
  BY DEF Here, At
<1>2. ASSUME Move(takes, gives, TRUE) \in Moves(Here)
      PROVE  <<Target(At, Here), Depth - takes + gives>> \in Successors(code, s)
  <2> DEFINE m == Move(takes, gives, TRUE)
  <2>1. m \in Moves(code[s[1]]) /\ m.takes = takes /\ m.gives = gives /\ m.jumps
    BY <1>1, <1>2 DEF Move
  <2> HIDE DEF m, s
  <2>2. QED
    BY <1>1, <2>1 DEF Successors
<1>3. ASSUME Move(takes, gives, FALSE) \in Moves(Here)
      PROVE  <<At + 1, Depth - takes + gives>> \in Successors(code, s)
  <2> DEFINE m == Move(takes, gives, FALSE)
  <2>1. m \in Moves(code[s[1]]) /\ m.takes = takes /\ m.gives = gives /\ ~m.jumps
    BY <1>1, <1>3 DEF Move
  <2> HIDE DEF m, s
  <2>2. QED
    BY <1>1, <2>1 DEF Successors
<1>4. QED
  BY <1>2, <1>3

LEMMA RequiresIsOwed ==
  ASSUME Visited, NEW n, NEW r, Depth < n => Starved(Here, Depth), ~(Depth < n) => Owed(r)
  PROVE  Owed(Requires(n, r))
BY UnderflowIsOwed DEF Requires

(* The arms that schedule the target of the jump and then the instruction  *)
(* after it.                                                               *)
LEMMA BranchIsOwed ==
  ASSUME Visited, NEW far \in Nat, NEW near \in Nat,
         Depth - 1 + far \in DepthRange, Depth - 1 + near \in DepthRange,
         Moves(Here) = {Move(1, far, TRUE), Move(1, near, FALSE)}
  PROVE  Owed(Schedule(Schedule(Popped, Target(At, Here), Depth - 1 + far),
                       At + 1, Depth - 1 + near))
<1>1. Turn /\ Owed(Popped)
  BY PoppedIsOwed DEF Visited
<1>2. /\ <<Target(At, Here), Depth - 1 + far>> \in Successors(code, <<At, Depth>>)
      /\ <<At + 1, Depth - 1 + near>> \in Successors(code, <<At, Depth>>)
  BY OutcomesFollow
<1>3. Owed(Schedule(Popped, Target(At, Here), Depth - 1 + far))
  BY <1>1, <1>2, ScheduleIsOwed
<1>4. QED
  BY <1>1, <1>2, <1>3, ScheduleIsOwed

-----------------------------------------------------------------------------
(* Every step of verify keeps to what is reached.                          *)

Rejected == verdict = "analysis" => Shown(code, depths)

LEMMA BecomesReal ==
  ASSUME Turn, Rejected, NEW r, Visited => Owed(r), Becomes(r)
  PROVE  Rejected' /\ RejectionIsReal'
<1>1. Shown(code, depths) /\ depths \in DepthTables /\ code' = code
  BY DEF Rejected, Turn, VerifierTyped, Becomes
<1>2. CASE depths[At] = Depth
  <2>1. Owed(r)
    BY <1>1, <1>2 DEF Visited, Tracks
  <2>2. depths' = r.depths /\ verdict' = r.verdict
    BY <1>2 DEF Becomes
  <2>3. QED
    BY <1>1, <2>1, <2>2 DEF Owed, Tracks, Rejected, RejectionIsReal
<1>3. CASE depths[At] # Depth
  <2>1. depths' = depths /\ verdict' = "analysis"
    BY <1>3, TurnFacts DEF Becomes
  <2>2. QED
    BY <1>1, <2>1 DEF Rejected, RejectionIsReal, DepthFaults, Faults
<1>4. QED
  BY <1>2, <1>3

Certified == VerifierTyped /\ Certificate /\ Rejected

LEMMA ChecksAreReal ==
  ASSUME Certified, StructuralChecks
  PROVE  Rejected' /\ RejectionIsReal'
<1>1. /\ VerifierTyped /\ Typed /\ code' = code /\ verdict = "structure"
      /\ \A p \in Pcs : depths[p] = Unknown
  BY DEF Certified, Certificate, StructuralChecks, VerifierTyped, Typed
<1>2. CASE verdict' \in {"ok", "JumpOutOfRange", "OperandOob"}
  BY <1>2 DEF Rejected, RejectionIsReal, DepthFaults, Faults
<1>3. CASE code # << >> /\ verdict' = "analysis" /\ depths' = [depths EXCEPT ![1] = 0]
  <2> DEFINE ds == [depths EXCEPT ![1] = 0]
  <2>1. 1 \in Pcs /\ code \in Seq(Instructions) /\ DOMAIN depths = Pcs
    BY <1>1, <1>3 DEF VerifierTyped, Pcs, DepthTables
  <2>2. DOMAIN ds = Pcs /\ ds[1] = 0 /\ \A p \in Pcs : p # 1 => ds[p] = Unknown
    BY <1>1, <2>1
  <2> HIDE DEF ds
  <2>3. Found(ds) = {1}
    BY <2>1, <2>2 DEF Found, Unknown
  <2>4. Cardinality(Found(ds)) - 1 = 0
    BY <2>3, FS_Singleton
  <2>5. <<1, 0>> \in ReachedIn(code, 0)
    BY <2>1, ReachedSteps
  <2>6. Shown(code, ds)
    BY <2>2, <2>3, <2>4, <2>5 DEF Shown
  <2>7. depths' = ds
    BY <1>3 DEF ds
  <2>8. QED
    BY <1>1, <1>3, <2>6, <2>7 DEF Rejected, RejectionIsReal, DepthFaults, Faults
<1>4. QED
  BY <1>2, <1>3 DEF StructuralChecks

LEMMA VisitRetIsReal ==
  ASSUME Certified, VisitRet
  PROVE  Rejected' /\ RejectionIsReal'
<1> DEFINE r == IF Depth # Here.n THEN Failed(Popped, "RetStackMismatch") ELSE Popped
<1>1. Turn /\ Rejected /\ Here.op = "Ret" /\ Becomes(r)
  BY VisitsAreTurns DEF VisitRet, Certified
<1>2. Visited => Owed(r)
  BY <1>1, RetMismatchIsOwed, PoppedIsOwed
<1>3. QED
  BY <1>1, <1>2, BecomesReal

LEMMA VisitErrorIsReal ==
  ASSUME Certified, VisitError
  PROVE  Rejected' /\ RejectionIsReal'
<1>1. Turn /\ Rejected /\ Here.op = "Error" /\ Becomes(Requires(1, Popped))
  BY VisitsAreTurns DEF VisitError, Certified
<1>2. Depth < 1 => Starved(Here, Depth)
  BY <1>1 DEF Starved
<1>3. Visited => Owed(Requires(1, Popped))
  BY <1>2, RequiresIsOwed, PoppedIsOwed
<1>4. QED
  BY <1>1, <1>3, BecomesReal

LEMMA VisitJmpIsReal ==
  ASSUME Certified, VisitJmp
  PROVE  Rejected' /\ RejectionIsReal'
<1> DEFINE r == Schedule(Popped, Target(At, Here), Depth)
<1>1. Turn /\ Rejected /\ Here.op = "Jmp" /\ Becomes(r)
  BY VisitsAreTurns DEF VisitJmp, Certified
<1>2. Moves(Here) = {Move(0, 0, TRUE)}
  BY <1>1 DEF Moves, Pushes, ConstLoads, ProtoLoads, PlainPushes, Stores, Binary, Unary,
     CondJumps, ShortCircuits, IterInits
<1>3. Depth \in DepthRange /\ Depth - 0 + 0 = Depth
  BY <1>1, TurnFacts DEF DepthRange
<1>4. <<Target(At, Here), Depth>> \in Successors(code, <<At, Depth>>)
  BY <1>2, <1>3, OutcomesFollow
<1>5. Visited => Owed(r)
  BY <1>1, <1>3, <1>4, ScheduleIsOwed, PoppedIsOwed
<1>6. QED
  BY <1>1, <1>5, BecomesReal

LEMMA VisitCondJumpIsReal ==
  ASSUME Certified, VisitCondJump
  PROVE  Rejected' /\ RejectionIsReal'
<1> DEFINE r == Schedule(Schedule(Popped, Target(At, Here), Depth - 1), At + 1, Depth - 1)
<1>1. Turn /\ Rejected /\ Here.op \in CondJumps /\ Becomes(Requires(1, r))
  BY VisitsAreTurns DEF VisitCondJump, Certified
<1>2. Moves(Here) = {Move(1, 0, TRUE), Move(1, 0, FALSE)}
  BY <1>1 DEF Moves, Pushes, ConstLoads, ProtoLoads, PlainPushes, Stores, Binary, Unary,
     CondJumps, ShortCircuits, IterInits
<1>3. Depth < 1 => Starved(Here, Depth)
  BY <1>2 DEF Starved, Move
<1>4. ASSUME Visited, ~(Depth < 1)
      PROVE  Owed(r)
  <2>1. /\ Depth - 1 + 0 \in DepthRange /\ Depth - 1 + 0 \in DepthRange
        /\ Depth - 1 + 0 = Depth - 1 /\ Depth - 1 + 0 = Depth - 1
    BY <1>1, <1>4, TurnFacts, VerifierAssumption DEF DepthRange
  <2>2. Owed(Schedule(Schedule(Popped, Target(At, Here), Depth - 1 + 0),
                      At + 1, Depth - 1 + 0))
    BY <1>2, <1>4, <2>1, BranchIsOwed
  <2>3. QED
    BY <2>1, <2>2
<1>5. Visited => Owed(Requires(1, r))
  BY <1>3, <1>4, RequiresIsOwed
<1>6. QED
  BY <1>1, <1>5, BecomesReal

LEMMA VisitShortCircuitIsReal ==
  ASSUME Certified, VisitShortCircuit
  PROVE  Rejected' /\ RejectionIsReal'
<1> DEFINE r == Schedule(Schedule(Popped, Target(At, Here), Depth), At + 1, Depth)
<1>1. Turn /\ Rejected /\ Here.op \in ShortCircuits /\ Becomes(Requires(1, r))
  BY VisitsAreTurns DEF VisitShortCircuit, Certified
<1>2. Moves(Here) = {Move(1, 1, TRUE), Move(1, 1, FALSE)}
  BY <1>1 DEF Moves, Pushes, ConstLoads, ProtoLoads, PlainPushes, Stores, Binary, Unary,
     CondJumps, ShortCircuits, IterInits
<1>3. Depth < 1 => Starved(Here, Depth)
  BY <1>2 DEF Starved, Move
<1>4. ASSUME Visited, ~(Depth < 1)
      PROVE  Owed(r)
  <2>1. /\ Depth - 1 + 1 \in DepthRange /\ Depth - 1 + 1 \in DepthRange
        /\ Depth - 1 + 1 = Depth /\ Depth - 1 + 1 = Depth
    BY <1>1, <1>4, TurnFacts, VerifierAssumption DEF DepthRange
  <2>2. Owed(Schedule(Schedule(Popped, Target(At, Here), Depth - 1 + 1),
                      At + 1, Depth - 1 + 1))
    BY <1>2, <1>4, <2>1, BranchIsOwed
  <2>3. QED
    BY <2>1, <2>2
<1>5. Visited => Owed(Requires(1, r))
  BY <1>3, <1>4, RequiresIsOwed
<1>6. QED
  BY <1>1, <1>5, BecomesReal

LEMMA VisitIterInitIsReal ==
  ASSUME Certified, VisitIterInit
  PROVE  Rejected' /\ RejectionIsReal'
<1> DEFINE r == Schedule(Schedule(Popped, Target(At, Here), Depth - 1), At + 1, Depth)
<1>1. Turn /\ Rejected /\ Here.op \in IterInits /\ Becomes(Requires(1, r))
  BY VisitsAreTurns DEF VisitIterInit, Certified
<1>2. Moves(Here) = {Move(1, 0, TRUE), Move(1, 1, FALSE)}
  BY <1>1 DEF Moves, Pushes, ConstLoads, ProtoLoads, PlainPushes, Stores, Binary, Unary,
     CondJumps, ShortCircuits, IterInits
<1>3. Depth < 1 => Starved(Here, Depth)
  BY <1>2 DEF Starved, Move
<1>4. ASSUME Visited, ~(Depth < 1)
      PROVE  Owed(r)
  <2>1. /\ Depth - 1 + 0 \in DepthRange /\ Depth - 1 + 1 \in DepthRange
        /\ Depth - 1 + 0 = Depth - 1 /\ Depth - 1 + 1 = Depth
    BY <1>1, <1>4, TurnFacts, VerifierAssumption DEF DepthRange
  <2>2. Owed(Schedule(Schedule(Popped, Target(At, Here), Depth - 1 + 0),
                      At + 1, Depth - 1 + 1))
    BY <1>2, <1>4, <2>1, BranchIsOwed
  <2>3. QED
    BY <2>1, <2>2
<1>5. Visited => Owed(Requires(1, r))
  BY <1>3, <1>4, RequiresIsOwed
<1>6. QED
  BY <1>1, <1>5, BecomesReal

LEMMA VisitIterNextIsReal ==
  ASSUME Certified, VisitIterNext
  PROVE  Rejected' /\ RejectionIsReal'
<1> DEFINE done == Schedule(Popped, Target(At, Here), Depth - 1)
           r == IF done.verdict # "analysis" THEN done
                ELSE IF Depth + 2 > MaxStackDepth THEN Failed(done, "StackOverflow")
                ELSE Schedule(done, At + 1, Depth + 2)
<1>1. Turn /\ Rejected /\ Here.op = "IterNext" /\ Becomes(Requires(1, r))
  BY VisitsAreTurns DEF VisitIterNext, Certified
<1>2. Moves(Here) = {Move(1, 0, TRUE), Move(1, 3, FALSE)}
  BY <1>1 DEF Moves, Pushes, ConstLoads, ProtoLoads, PlainPushes, Stores, Binary, Unary,
     CondJumps, ShortCircuits, IterInits
<1>3. Depth < 1 => Starved(Here, Depth)
  BY <1>2 DEF Starved, Move
<1>4. ASSUME Visited, ~(Depth < 1)
      PROVE  Owed(r)
  <2>1. /\ Depth \in 1..MaxStackDepth /\ Depth - 1 \in DepthRange
        /\ Depth - 1 + 0 = Depth - 1 /\ Depth - 1 + 3 = Depth + 2
    BY <1>1, <1>4, TurnFacts, VerifierAssumption DEF DepthRange
  <2>2. /\ <<Target(At, Here), Depth - 1>> \in Successors(code, <<At, Depth>>)
        /\ <<At + 1, Depth + 2>> \in Successors(code, <<At, Depth>>)
    <3>1. Move(1, 0, TRUE) \in Moves(Here) /\ Move(1, 3, FALSE) \in Moves(Here)
      BY <1>2
    <3>2. /\ <<Target(At, Here), Depth - 1 + 0>> \in Successors(code, <<At, Depth>>)
          /\ <<At + 1, Depth - 1 + 3>> \in Successors(code, <<At, Depth>>)
      BY <3>1, OutcomesFollow
    <3>3. QED
      BY <2>1, <3>2
  <2>3. Owed(done)
    BY <1>1, <1>4, <2>1, <2>2, ScheduleIsOwed, PoppedIsOwed
  <2>4. CASE done.verdict # "analysis"
    BY <2>3, <2>4
  <2>5. CASE done.verdict = "analysis" /\ Depth + 2 > MaxStackDepth
    <3>1. done \in Analyses
      BY <2>3 DEF Owed
    <3>2. Owed(Failed(done, "StackOverflow"))
      BY <1>4, <2>2, <2>5, <3>1, OverflowIsOwed
    <3>3. QED
      BY <2>5, <3>2
  <2>6. CASE done.verdict = "analysis" /\ ~(Depth + 2 > MaxStackDepth)
    <3>1. Depth + 2 \in DepthRange
      BY <2>1, <2>6, VerifierAssumption DEF DepthRange
    <3>2. Owed(Schedule(done, At + 1, Depth + 2))
      BY <1>1, <2>2, <2>3, <3>1, ScheduleIsOwed
    <3>3. QED
      BY <2>6, <3>2
  <2>7. QED
    BY <2>4, <2>5, <2>6
<1>5. Visited => Owed(Requires(1, r))
  BY <1>3, <1>4, RequiresIsOwed
<1>6. QED
  BY <1>1, <1>5, BecomesReal

(* The operands an instruction requires are those it takes, so a net       *)
(* change alone never takes the depth below nothing.                       *)
LEMMA VisitOtherIsReal ==
  ASSUME Certified, VisitOther
  PROVE  Rejected' /\ RejectionIsReal'
<1> DEFINE e   == StackEffect(Here)
           out == Depth + e.delta
           r   == IF out < 0 THEN Failed(Popped, "StackUnderflow")
                  ELSE IF out > MaxStackDepth THEN Failed(Popped, "StackOverflow")
                  ELSE IF At + 1 <= Len(code) THEN Schedule(Popped, At + 1, out)
                  ELSE Popped
<1>1. Turn /\ Rejected /\ Here.op \in Others /\ Becomes(Requires(e.min, r))
  BY VisitsAreTurns DEF VisitOther, Others, Certified
<1>2. /\ e.min \in Nat /\ e.delta \in Int /\ e.min + e.delta \in Nat
      /\ Moves(Here) = {Move(e.min, e.min + e.delta, FALSE)}
  BY <1>1, TurnFacts, EffectsAgree DEF Agree
<1>3. Depth \in DepthRange /\ Depth \in Int
  BY <1>1, TurnFacts DEF DepthRange
<1>4. Depth < e.min => Starved(Here, Depth)
  BY <1>2 DEF Starved, Move
<1>5. <<At + 1, out>> \in Successors(code, <<At, Depth>>)
  <2>1. Depth - e.min + (e.min + e.delta) = out
    BY <1>2, <1>3
  <2>2. Move(e.min, e.min + e.delta, FALSE) \in Moves(Here)
    BY <1>2
  <2>3. QED
    BY <2>1, <2>2, OutcomesFollow
<1>6. ASSUME Visited, ~(Depth < e.min)
      PROVE  Owed(r)
  <2>1. ~(out < 0) /\ out \in Int
    BY <1>2, <1>3, <1>6
  <2>2. CASE out > MaxStackDepth
    <3>1. Popped \in Analyses
      BY <1>1, TurnFacts
    <3>2. Owed(Failed(Popped, "StackOverflow"))
      BY <1>5, <1>6, <2>2, <3>1, OverflowIsOwed
    <3>3. QED
      BY <2>1, <2>2, <3>2
  <2>3. CASE ~(out > MaxStackDepth)
    <3>1. out \in DepthRange
      BY <2>1, <2>3, VerifierAssumption DEF DepthRange
    <3>2. Owed(Schedule(Popped, At + 1, out)) /\ Owed(Popped)
      BY <1>1, <1>5, <1>6, <3>1, ScheduleIsOwed, PoppedIsOwed
    <3>3. QED
      BY <2>1, <2>3, <3>2
  <2>4. QED
    BY <2>2, <2>3
<1>7. Visited => Owed(Requires(e.min, r))
  BY <1>4, <1>6, RequiresIsOwed
<1>8. QED
  BY <1>1, <1>7, BecomesReal

LEMMA VerifierIsReal ==
  ASSUME Certified, VerifierNext
  PROVE  Rejected' /\ RejectionIsReal'
<1>1. CASE AnalysisDone
  BY <1>1 DEF AnalysisDone, Rejected, RejectionIsReal, DepthFaults, Faults
<1>2. QED
  BY <1>1, ChecksAreReal, VisitRetIsReal, VisitErrorIsReal, VisitJmpIsReal,
     VisitCondJumpIsReal, VisitShortCircuitIsReal, VisitIterInitIsReal,
     VisitIterNextIsReal, VisitOtherIsReal DEF VerifierNext

LEMMA RejectionInit == Init => RejectionInv
<1> SUFFICES ASSUME Init PROVE RejectionInv
  OBVIOUS
<1>1. SafetyInv /\ verdict = "structure"
  BY SafetyInit DEF Init, VerifierInit
<1>2. QED
  BY <1>1 DEF RejectionInv, RejectionIsReal, DepthFaults, Faults

LEMMA RejectionNext ==
  ASSUME RejectionInv, [Next]_vars
  PROVE  RejectionInv'
<1>1. SafetyInv'
  BY SafetyNext DEF RejectionInv
<1>2. CASE Verify
  <2>1. Certified /\ VerifierNext
    BY <1>2, TypesAgree DEF RejectionInv, SafetyInv, Certified, Rejected, Verify
  <2>2. QED
    BY <1>1, <2>1, VerifierIsReal DEF RejectionInv, Rejected
<1>3. CASE UNCHANGED verifierVars
  <2>1. code' = code /\ depths' = depths /\ verdict' = verdict
    BY <1>3 DEF verifierVars
  <2>2. QED
    BY <1>1, <2>1 DEF RejectionInv, RejectionIsReal
<1>4. Verify \/ UNCHANGED verifierVars
  BY DEF Next, Enter, Return, ReturnAtEnd, RaiseError, Execute, vars, verifierVars
<1>5. QED
  BY <1>2, <1>3, <1>4

(* verify rejects nothing that is sound.  When the depth analysis refuses  *)
(* a prototype, an underflow, an overflow or a wrong Ret is on a path of   *)
(* the code, and two paths do meet at two depths when it says that they    *)
(* disagree: whatever the code and however long its loops (stack_analysis, *)
(* against the dispatch loop).                                             *)
THEOREM RejectionsAreReal == Spec => []RejectionIsReal
<1>1. RejectionInv => RejectionIsReal
  BY DEF RejectionInv
<1>2. QED
  BY <1>1, RejectionInit, RejectionNext, PTL DEF Spec
=============================================================================
