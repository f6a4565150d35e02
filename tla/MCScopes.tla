------------------------------ MODULE MCScopes ------------------------------
(* Two names and two types, bodies of a few statements.                    *)
EXTENDS Scopes

CONSTANTS x, y, int, str, null

Const(type) == [kind |-> "const", type |-> type]
Id(name) == [kind |-> "id", name |-> name]

MCStmts ==
  {Stmt("var", x, null, Const(int)), Stmt("var", x, str, Id(y)), Stmt("var", y, int, NoExp),
   Stmt("var", y, null, Id(x)),
   Stmt("assign", x, null, Const(str)), Stmt("assign", x, null, Id(y)),
   Stmt("expr", null, null, Id(x)),
   Stmt("return", null, null, NoExp), Stmt("return", null, null, Id(y))}

MCHeaders ==
  {[result |-> null, locals |-> <<>>],
   [result |-> int, locals |-> <<[name |-> y, type |-> int], [name |-> x, type |-> str]>>],
   [result |-> str, locals |-> <<[name |-> x, type |-> str], [name |-> x, type |-> int]>>]}

MCModules == {{}, {Stmt("var", x, null, Const(int)), Stmt("var", y, null, Id(x))},
              {Stmt("var", y, int, Const(str))}}
=============================================================================
