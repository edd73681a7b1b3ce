------------------------------ MODULE Globals ------------------------------
(***************************************************************************)
(* The global names of a program and what they stand for (vm/builtins.rs,  *)
(* build_globals), as far as the models of execution use them.             *)
(***************************************************************************)
EXTENDS Meters

(* build_globals: the values sentinel strings stand for, those of modules  *)
(* at fixed addresses.                                                     *)
Builtin(b) == <<BuiltinKind, b>>
StringModule == 1
TableModule  == 2
StringNames == {"len", "sub", "find", "find_literal", "upper", "lower", "rep", "byte", "char",
                "format", "match", "gmatch", "gsub"}
TableNames  == {"insert", "remove", "concat", "sort", "move"}

(* StringUnsupported: three names of the string module share one builtin.  *)
Unsupported == {"match", "gmatch", "gsub"}

(* build_string_module, build_table_module: as many insertions as names,   *)
(* each of which may have made the hash part grow.                         *)
ModuleOf(names) ==
  [EmptyTable EXCEPT
     !.hash     = [k \in {Text(b) : b \in names} |->
                     IF k[2][1] \in Unsupported THEN Builtin("unsupported")
                     ELSE Builtin(k[2][1])],
     !.entries  = Cardinality(names),
     !.capacity = CapacityFor(Cardinality(names))]

Modules == <<ModuleOf(StringNames), ModuleOf(TableNames)>>
Globals ==
  [g \in {Text(b) : b \in {"__type", "__tostring", "__string", "__table"}} |->
     CASE g = Text("__type")     -> Builtin("type")
       [] g = Text("__tostring") -> Builtin("tostring")
       [] g = Text("__string")   -> TableVal(StringModule)
       [] g = Text("__table")    -> TableVal(TableModule)]
=============================================================================
