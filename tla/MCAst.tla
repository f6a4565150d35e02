------------------------------- MODULE MCAst -------------------------------
(* Declarations with every kind of expression and of local statement.      *)
EXTENDS Ast

T(kind, what, parts) == [kind |-> kind, what |-> what, parts |-> parts]
Null == [kind |-> "null", what |-> "plain", parts |-> <<>>]
Leaf(kind) == T(kind, "plain", <<>>)
Id(name) == T("id", name, <<>>)
Vec(items) == T("vector", "plain", items)
Const == Leaf("const")
Call(name, args) == T("call", "plain", [left |-> Id(name), args |-> Vec(args)])
Member(what) == T("attribute", what, [left |-> Id("pkg")])
Idents(n) == Vec([i \in 1..n |-> Leaf("ident")])
Types(n) == Vec([i \in 1..n |-> Leaf("idtype")])

\* Statements.
Vars(kind, konst, n, exps) == T(kind, konst, [ids |-> Idents(n), exps |-> exps])
Typeless(left, right) == T("typeless", "plain", [ids |-> Vec(left), exps |-> Vec(right)])
Assigns(left, right) == T("assigns", "plain", [left |-> Vec(left), right |-> Vec(right)])
CompoundStmt(left) == T("compound", "plain", [left |-> left, right |-> Const])
Return(exps) == T("return", "plain", [exps |-> exps])
ExprStmt(exp) == T("expr", "plain", [exp |-> exp])
Block(stmts) == T("block", "plain", [vec |-> stmts])
BodyOf(items) == T("body", "plain", items)
Func(rets, body) == T("func", "plain", [args |-> Types(1), rets |-> rets, body |-> body])

ListOf(items) == T("arraylist", "plain", [vec |-> Vec(items)])
Expressions ==
  {Leaf("nil"), Leaf("self"), Const, Id("var"), Id("pkg"), Id("unknown"),
   T("unary", "plain", [exp |-> Const]),
   T("binary", "plain", [lexp |-> Const, rexp |-> Const]),
   T("binary", "plain", [lexp |-> Id("var"), rexp |-> Call("func", <<Const>>)]),
   T("binary", "plain", [lexp |-> Id("var"), rexp |-> Id("unknown")]),
   Member("found"), Member("missing"),
   T("attribute", "found", [left |-> Call("func", <<Const>>)]),
   T("attribute", "found", [left |-> Call("pair", <<Const>>)]),
   T("subscript", "plain", [index |-> Const, left |-> Id("var")]),
   T("call", "plain", [left |-> Leaf("super"), args |-> Null]),
   T("call", "plain", [left |-> Member("found"), args |-> Null]),
   Call("func", <<Const>>), Call("func", <<Member("found")>>), Call("func", <<Id("unknown")>>),
   Call("func", <<Const, Const>>), Call("unknown", <<Const>>), Call("var", <<>>),
   T("slice", "plain", [start |-> Null, end |-> Const, left |-> Id("var")]),
   ListOf(<<Const, Id("var")>>),
   T("array", "plain", [dims |-> Vec(<<Null>>), listExp |-> ListOf(<<Const>>)]),
   T("array", "nested", [dims |-> Vec(<<Const, Null>>), listExp |-> Null]),
   T("map", "plain", [listExp |->
       T("maplist", "plain", [vec |-> Vec(<<T("entry", "plain", [key |-> Const, val |-> Id("var")])>>)])]),
   T("set", "plain", [listExp |-> Null]),
   T("anony", "plain", [args |-> Types(1), rets |-> Null, body |-> BodyOf(<<Return(Vec(<<Const>>))>>)])}

Lefts == {<<Id("var")>>, <<Const>>, <<Id("var"), Id("var")>>,
          <<Id("var"), Const>>, <<Const, Id("var")>>, <<Id("var"), Member("found")>>}
Rights == {<<Const>>, <<Const, Id("var")>>, <<Call("pair", <<Const>>)>>}
Local ==
  {Typeless(l, r) : l \in Lefts, r \in Rights} \cup {Assigns(l, r) : l \in Lefts, r \in Rights}
    \cup {CompoundStmt(Id("var")), CompoundStmt(Const), ExprStmt(Call("func", <<Const>>)),
          Return(Null), Return(Vec(<<Const>>)), Return(Vec(<<Const, Const>>)), ExprStmt(Id("unknown")),
          Vars("vars", "var", 2, Vec(<<Const, Id("var")>>)), Block(Null),
          Block(BodyOf(<<Typeless(<<Id("var"), Id("var")>>, <<Const, Const>>),
                         Return(Vec(<<Id("var")>>))>>))}

MCDeclarations ==
  {Vars("vars", "var", 1, Vec(<<e>>)) : e \in Expressions}
    \cup {Vars(k, "var", n, x) : k \in {"vars", "typedvars"}, n \in 1..2,
            x \in {Vec(<<Call("pair", <<Const>>)>>), Vec(<<Const, Const>>), Vec(<<Const>>)}}
    \cup {Vars("typedvars", "var", n, Null) : n \in {1, 2}}
    \cup {Vars("vars", "const", n, Vec(<<e>>)) : n \in {1, 2},
            e \in {Const, Id("var"), T("binary", "plain", [lexp |-> Const, rexp |-> Const])}}
    \cup {Func(Types(1), BodyOf(<<s>>)) : s \in Local}
    \cup {Func(Null, Null), Func(Null, BodyOf(<<Return(Null), ExprStmt(Call("func", <<Const>>))>>))}
=============================================================================
