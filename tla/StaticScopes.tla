---------------------------- MODULE StaticScopes ----------------------------
(* The scoping rules of the language: a program is legal as long as every  *)
(* statement is.  A function may use what it, the blocks around the use,   *)
(* and the module declare; within a function no visible name is declared   *)
(* twice; both sides of a declaration or an assignment have one type.      *)
EXTENDS Integers, Sequences

CONSTANTS Names, Types, None

VARIABLES env,    \* the names each open scope declares; the module's first
          stmt,   \* the statement handled last
          legal,
          written \* the compiler gave its output

scopeVars == <<env, stmt, legal, written>>

Visible(name) == {i \in DOMAIN env : name \in DOMAIN env[i]}
Innermost(name) == CHOOSE i \in Visible(name) : \A j \in Visible(name) : j <= i

(* The type of an expression, or None if it has none.                      *)
TypeOf(e) ==
  IF e.kind = "const" THEN e.type
  ELSE IF Visible(e.name) = {} THEN None ELSE env[Innermost(e.name)][e.name]

Typed(e) == TypeOf(e) # None

(* The type a declaration gives to its name, None if it is not legal.      *)
Given(s) ==
  IF s.exp.kind = "none" THEN s.type
  ELSE IF s.type \in {None, TypeOf(s.exp)} THEN TypeOf(s.exp) ELSE None

Fresh(name) == Visible(name) \subseteq {1}

LegalDeclaration(s) ==
  /\ Given(s) # None
  /\ Len(env) > 1 => Fresh(s.name)

Extended(i, name, type) ==
  [env EXCEPT ![i] = [n \in DOMAIN env[i] \cup {name} |-> IF n = name THEN type ELSE env[i][n]]]

(* A function opens a scope that declares its named results and parameters.*)
LegalFunction(s) == \A i, j \in DOMAIN s.locals : i # j => s.locals[i].name # s.locals[j].name
Locals(s) == [n \in {s.locals[i].name : i \in DOMAIN s.locals} |->
                (CHOOSE l \in {s.locals[i] : i \in DOMAIN s.locals} : l.name = n).type]

Legal(s) ==
  CASE s.op = "var" -> LegalDeclaration(s)
    [] s.op = "assign" -> Typed(s.exp) /\ TypeOf(s.exp) = TypeOf([kind |-> "id", name |-> s.name])
    [] s.op = "expr" -> Typed(s.exp)
    [] s.op = "return" -> IF s.exp.kind = "none" THEN s.type = None
                          ELSE Typed(s.exp) /\ TypeOf(s.exp) = s.type
    [] s.op = "func" -> LegalFunction(s)
    [] OTHER -> TRUE

After(s) ==
  CASE s.op = "var" -> Extended(Len(env), s.name, Given(s))
    [] s.op = "func" -> Append(env, Locals(s))
    [] s.op = "open" -> Append(env, <<>>)
    [] s.op \in {"close", "end"} -> SubSeq(env, 1, Len(env) - 1)
    [] OTHER -> env

Init == /\ Len(env) = 1 /\ DOMAIN env[1] \subseteq Names
        /\ stmt.op = "start" /\ legal = TRUE /\ written = FALSE

(* Only a legal program that has ended is compiled.                        *)
Output == written' = (legal' /\ env' = <<>>)

Next == /\ Output
        /\ \/ legal /\ Legal(stmt') /\ legal' = TRUE /\ env' = After(stmt')
           \/ legal /\ ~ Legal(stmt') /\ legal' = FALSE
           \/ ~ legal /\ legal' = FALSE

Spec == Init /\ [][Next]_scopeVars
=============================================================================
