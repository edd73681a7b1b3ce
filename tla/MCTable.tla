------------------------------ MODULE MCTable ------------------------------
(***************************************************************************)
(* Instances of MeteredTable for TLC: a string key, integer keys inside,   *)
(* next to and beyond the array part, and one that is refused.             *)
(***************************************************************************)
EXTENDS MeteredTable

Lowest == -9

SomeKeys == {IntKey(1), IntKey(3), IntKey(IntMin), Text("a")}

OneTwo  == {IntVal(1), IntVal(2)}
Letters == <<"a">>

Everything == {"set", "insert", "remove", "sort", "move"}
=============================================================================
