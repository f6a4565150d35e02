----------------------------- MODULE MCTypeDesc -----------------------------
(***************************************************************************)
(* Types with shared parts, a part of a part, and the same part twice in   *)
(* a prototype; and the types whose texts are checked.                     *)
(***************************************************************************)
EXTENDS TypeDesc

Int0 == <<"base", "int">>
AnyType == <<"base", "any">>
IntArray == <<"array", Int0>>
Table == <<"map", Int0, IntArray>>
Func == <<"proto", IntArray, IntArray>>

(* Users only hold descriptors.                                            *)
UserSymmetry == Permutations(Users)

MCBaseTypes == {Int0, AnyType}
MCTypes == {Int0, AnyType, IntArray, Table, Func}
MCStacks == {<<t>> : t \in MCTypes \cup {None}}
            \cup {<<t, u>> : t, u \in {Int0, IntArray, None}}

-----------------------------------------------------------------------------
(* All types up to depth two over a base type, any and a class, and        *)
(* prototypes with up to two arguments.                                    *)
Letter == <<"base", "i">>
Atoms == {Letter, <<"base", "A">>, <<"klass", "lang", "Tuple">>}

ListsOf(S, n) == UNION {[1 .. k -> S] : k \in 0 .. n}

Protos == {<<"proto", args, rets>> : args \in ListsOf(Atoms, 2), rets \in ListsOf(Atoms, 1)}

Simple == Atoms \cup {<<"set", t>> : t \in Atoms} \cup {<<"proto", <<t>>, <<t>>>> : t \in Atoms}

Arrays == {<<"array", n, t>> : n \in 1 .. 3, t \in Simple}

Nested == Protos \cup {<<"set", t>> : t \in Arrays} \cup {<<"varg", t>> : t \in Simple}
          \cup {<<"proto", <<t>>, <<u>>>> : t \in Arrays, u \in Simple}

Maps == {<<"map", t, u>> : t \in Atoms, u \in Atoms \cup {<<"array", 2, Letter>>}}

TextTypes == Simple \cup Arrays \cup Nested \cup Maps

Text == INSTANCE TypeText WITH Types <- TextTypes

NothingNamedYet ==
  /\ phase = "run" /\ \A u \in Users : Free(u)
  /\ \A c \in Cells : stolen[c] = 0 /\ heap.type[c] \in BaseTypes \cup {None}

(* What TypeDesc_Get_* write, String_To_TypeDesc reads, and the table of   *)
(* descriptors can take the text for the type.  It depends on no state, so *)
(* it is looked at before a program names a type.                          *)
TextFaithful == NothingNamedYet => Text!RoundTrip /\ Text!TextIsKey
=============================================================================
