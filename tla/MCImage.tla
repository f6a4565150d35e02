------------------------------ MODULE MCImage ------------------------------
(* A small instance of Image.                                              *)
EXTENDS Image

Integer == <<"base", "int">>
Text == <<"base", "string">>
Plain == <<"klass", None, "P">>
Imported == <<"klass", "lang", "P">>
FuncType(args, rets) == <<"proto", args, rets>>
Action == FuncType(<<>>, <<>>)

Var(name, type) == [kind |-> "var", name |-> name, type |-> type]
Const(name, type) == [kind |-> "const", name |-> name, type |-> type]
Native(name, type) == [kind |-> "native", name |-> name, type |-> type]
Func(name, type, code, locvars) ==
  [kind |-> "func", name |-> name, type |-> type, code |-> code, locvars |-> locvars]
Load(kind, value) == [op |-> "LOAD_CONST", arg |-> <<kind, value>>]
Slot(op, i) == [op |-> op, arg |-> i]
Return == [op |-> "RETURN", arg |-> 0]
LocVar(name, type, pos) == [name |-> name, type |-> type, pos |-> pos]

(* Names begin with a capital, or not, and are also used as strings.       *)
MCPublic == {"A", "F", "P", "G", "B"}
MCDecls ==
  { Func("__init__", Action, <<>>, <<>>),
    Func("__init__", Action, <<Load("int", 1), Slot("STORE", 1), Load("string", "A"), Return>>,
         <<LocVar("x", Integer, 1)>>),
    Func("F", FuncType(<<Integer, FuncType(<<Integer>>, <<Text>>)>>, <<Text>>),
         <<Load("int", 1), Load("float", 5), Load("float", 5), Return>>,
         <<LocVar("x", Text, 1), LocVar("y", FuncType(<<Text>>, <<>>), 2)>>),
    Func("f", FuncType(<<<<"varg", Integer>>>>, <<>>),
         <<Load("bool", 0), Load("string", "lang"), Load("float", 5), Return>>, <<>>),
    Func("G", FuncType(<<>>, <<Imported>>), <<Load("uchar", 3), Return>>, <<>>),
    Func("g", Action, <<[op |-> "LOAD_0", arg |-> 0], Return>>, <<>>),
    Native("P", FuncType(<<Plain>>, <<Integer, Integer>>)),
    Var("A", Action), Var("A", <<"map", Text, Integer>>), Var("A", FuncType(<<>>, <<Action>>)),
    Var("a", FuncType(<<>>, <<Text>>)), Var("a", FuncType(<<Integer>>, <<Text>>)),
    Var("a", FuncType(<<Text, <<"map", Text, Integer>>>>, <<>>)), Var("a", Imported),
    Var("b", <<"array", 1, Plain>>), Var("B", FuncType(<<Plain>>, <<>>)), Const("lang", Imported),
    Const("c", Text), Const("c", <<"array", 2, FuncType(<<>>, <<Text>>)>>) }
=============================================================================
