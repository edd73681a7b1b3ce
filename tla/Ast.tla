-------------------------------- MODULE Ast --------------------------------
(***************************************************************************)
(* The syntax tree (parser/ast.rs), one constructor per node.  Source      *)
(* positions are left out; names are TLA+ strings.                         *)
(***************************************************************************)
EXTENDS Sequences

(* Expr *)
NilExpr          == [tag |-> "Nil"]
TrueExpr         == [tag |-> "True"]
FalseExpr        == [tag |-> "False"]
VarargExpr       == [tag |-> "Vararg"]
IntLit(n)        == [tag |-> "Integer", n |-> n]
Str(s)           == [tag |-> "StringLit", s |-> s]
Name(x)          == [tag |-> "Name", name |-> x]
Field(e, x)      == [tag |-> "Field", table |-> e, name |-> x]
Index(e, k)      == [tag |-> "Index", table |-> e, key |-> k]
TableOf(fields)  == [tag |-> "TableConstructor", fields |-> fields]
Call(f, args)    == [tag |-> "Call", func |-> f, args |-> args]
MethodCall(o, m, args) == [tag |-> "MethodCall", object |-> o, method |-> m, args |-> args]
BinOp(op, l, r)  == [tag |-> "BinOp", op |-> op, left |-> l, right |-> r]
UnOp(op, e)      == [tag |-> "UnOp", op |-> op, operand |-> e]
FuncDef(ps, b)   == [tag |-> "FuncDef", params |-> ps, block |-> b]

(* TableField *)
NamedKey(x, v)    == [tag |-> "NamedKey", name |-> x, value |-> v]
ExplicitKey(k, v) == [tag |-> "ExplicitKey", key |-> k, value |-> v]
Positional(v)     == [tag |-> "Positional", value |-> v]

(* Stmt *)
LocalDecl(xs, es)      == [tag |-> "LocalDecl", names |-> xs, values |-> es]
AssignName(x, e)       == [tag |-> "AssignName", name |-> x, value |-> e]
AssignIndex(t, k, e)   == [tag |-> "AssignIndex", table |-> t, key |-> k, value |-> e]
While(e, b)            == [tag |-> "While", condition |-> e, block |-> b]
NumericFor(x, s, l, p, b) ==
  [tag |-> "NumericFor", var |-> x, start |-> s, limit |-> l, step |-> p, block |-> b]
GenericFor(xs, es, b)  == [tag |-> "GenericFor", vars |-> xs, iterators |-> es, block |-> b]
LocalFunction(x, ps, b) ==
  [tag |-> "LocalFunctionDecl", name |-> x, params |-> ps, block |-> b]
(* function a.b:m(ps): parts and, for a method, its name at the end.       *)
FunctionDecl(parts, isMethod, ps, b) ==
  [tag |-> "FunctionDecl", parts |-> parts, isMethod |-> isMethod, params |-> ps, block |-> b]
ExprStmt(e)            == [tag |-> "ExprStmt", expr |-> e]
Break                  == [tag |-> "Break"]
Do(b)                  == [tag |-> "Do", block |-> b]

(* IfStmt: its clauses, an elseif clause each but the first, and the else  *)
(* block if there is one.                                                  *)
Clause(e, b)           == [condition |-> e, block |-> b]
NoBlock                == [stmts |-> << >>, ret |-> "absent"]
If(clauses, otherwise) == [tag |-> "If", clauses |-> clauses, otherwise |-> otherwise]

(* Block, with its ReturnStmt: at most one value, NoValue if none.         *)
NoValue            == [tag |-> "NoValue"]
Block(ss)          == [stmts |-> ss, ret |-> "none"]
Returning(ss, e)   == [stmts |-> ss, ret |-> "return", value |-> e]
=============================================================================
