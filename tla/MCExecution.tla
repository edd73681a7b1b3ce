---------------------------- MODULE MCExecution ----------------------------
(***************************************************************************)
(* The programs, the compiler and the semantics for Execution.             *)
(***************************************************************************)
EXTENDS Execution, Programs, Codegen, Language

Lowest   == -8
SomePieces == <<"a", "b">>
Tools    == {[ok |-> FALSE, table |-> EmptyTable],
             [ok |-> TRUE, table |-> [EmptyTable EXCEPT !.array = <<IntVal(4)>>, !.entries = 1]]}

EndlessNames == {<<"forever", "">>, <<"growing", "">>}

MCSources ==
  [s \in ((DOMAIN Bodies) \X (DOMAIN Contexts)) \cup (Comparing \X {"comparator"}) \cup EndlessNames |->
     CASE s[1] = "forever"    -> Forever
       [] s[1] = "growing"    -> Growing
       [] s[2] = "comparator" -> AsComparator(Bodies[s[1]])
       [] OTHER               -> Whole(Bodies[s[1]], Contexts[s[2]])]

-----------------------------------------------------------------------------
(* A comparator that sorts with itself, under pcall. *)
SortingSources ==
  [s \in {"sorting"} |->
     Block(<<LocalFunction("f", <<"p", "q">>, Returning(
               <<Try("ok", "e", <<Field(Name("table"), "sort"),
                                  TableOf(<<Positional(N(2)), Positional(N(1))>>), f>>)>>,
               BinOp("Lt", Name("p"), Name("q")))),
             Do1(Call(f, <<N(1), N(2)>>))>>)]

(* "local f do local x = 1 f = function() return x end end local y = 2     *)
(* return f()": y gets the slot of x.                                      *)
ReusedSlot ==
  [s \in {"reused"} |->
     Returning(<<Local("f", NilExpr),
                 Do(Block(<<Local("x", N(1)),
                            AssignName("f", Fn(<< >>, Returning(<< >>, x)))>>)),
                 Local("y", N(2))>>, Call(f, << >>))]

NoEndless == {}
=============================================================================
