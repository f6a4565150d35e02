------------------------------- MODULE Scopes -------------------------------
(***************************************************************************)
(* Semantic analysis and code generation of one source file (parser.c,     *)
(* parser_ident.c): the stack of scopes, the symbols each declares, the    *)
(* slots of local variables, and the code blocks that are merged when a    *)
(* scope is left.  Every statement is handled in one step, as the parser   *)
(* does; which statements a program consists of is chosen step by step.    *)
(*                                                                         *)
(* Expressions are constants and identifiers.  A module's variables are in *)
(* its table before the analysis starts (Build_AST).  An assertion that    *)
(* fails stops the compiler (fault).                                       *)
(***************************************************************************)
EXTENDS Integers, Sequences, SequencesExt

CONSTANTS Names, Types, None,
          Stmts,          \* the statements a body may contain
          Headers,        \* the functions a module may declare
          Modules,        \* the declarations of variables a module may have
          MaxErrors,      \* MAX_ERRORS
          MaxStmts,       \* bound: statements of a program
          MaxDepth        \* bound: open scopes

NoExp == [kind |-> "none"]
Exps == [kind : {"const"}, type : Types] \cup [kind : {"id"}, name : Names]
Forms(op, names, types, exps) == [op : {op}, name : names, type : types, exp : exps]

(* The grammar has no declaration with neither a type nor a right side.    *)
Declarations == Forms("var", Names, Types, {NoExp} \cup Exps)
                  \cup Forms("var", Names, {None}, Exps)
Statements == Declarations \cup Forms("assign", Names, {None}, Exps)
                \cup Forms("expr", {None}, {None}, Exps)
                \cup Forms("return", {None}, {None}, {NoExp} \cup Exps)

(* What is analysed are modules in which Build_AST found no error: none    *)
(* declares a name twice.                                                  *)
ASSUME ScopesAssumption ==
  /\ None \notin Types
  /\ Stmts \subseteq Statements
  /\ \A h \in Headers : /\ h.result \in Types \cup {None}
                        /\ h.locals \in Seq([name : Names, type : Types])
  /\ \A M \in Modules : /\ M \subseteq Declarations
                        /\ \A s, t \in M : s.name = t.name => s = t
  /\ MaxErrors \in Nat /\ MaxStmts \in Nat /\ MaxDepth \in Nat \ {0, 1}

VARIABLES units,   \* the open ParserUnits, the current one last
          errnum, fault,
          pending, \* the module's declarations that are not parsed yet
          funcs,   \* the finished functions
          written, \* the image of the package was written
          stmt,    \* the statement handled last
          emitted, \* history: the code of the open function as it was emitted
          count    \* statements so far

vars == <<units, errnum, fault, pending, funcs, written, stmt, emitted, count>>

Stmt(op, name, type, exp) == [op |-> op, name |-> name, type |-> type, exp |-> exp]
Mark(op) == Stmt(op, None, None, NoExp)

(* The parser's state is threaded through the steps of a statement.        *)
State == [units |-> units, errnum |-> errnum, fault |-> fault, emitted |-> emitted]
Enough(S) == S.errnum > MaxErrors
Stop(S, why) == [S EXCEPT !.fault = why]
SyntaxError(S) == [S EXCEPT !.errnum = @ + 1]
Stopped(S) == S.fault # "none"

Depth(S) == Len(S.units)
Current(S) == S.units[Depth(S)]

(* Inst_Append                                                             *)
Emit(S, inst) == [S EXCEPT !.units[Depth(S)].code = Append(@, inst),
                           !.emitted = Append(@, inst)]
Inst(op, index, name) == [op |-> op, index |-> index, name |-> name]
Return == Inst("RETURN", 0, None)

-----------------------------------------------------------------------------
(* Scopes and symbols *)

(* new_parser_unit and STable_New: slot 0 is self.                         *)
Unit(scope, syms, result) ==
  [scope |-> scope, syms |-> syms, result |-> result, varindex |-> 1, locvec |-> <<>>,
   code |-> <<>>, ret |-> FALSE]
EnterScope(S, scope, result) == [S EXCEPT !.units = Append(@, Unit(scope, <<>>, result))]

(* The scope that declares name: the current one, then ustack upwards.     *)
Declaring(S, name) == {i \in 1 .. Depth(S) : name \in DOMAIN S.units[i].syms}
Resolve(S, name) == CHOOSE i \in Declaring(S, name) : \A j \in Declaring(S, name) : j <= i

(* The unit whose slots a local variable takes.                            *)
FunctionUnit(S) == CHOOSE i \in 1 .. Depth(S) : S.units[i].scope = "function"

(* STable_Add_Var, with the slot of the function, and its locvec.          *)
OwnIndex(S) == Current(S).varindex
LocalIndex(S) == S.units[FunctionUnit(S)].varindex
Entered(syms, name, type, index) ==
  [n \in DOMAIN syms \cup {name} |-> IF n \in DOMAIN syms THEN syms[n]
                                      ELSE [type |-> type, index |-> index]]
TakeSlot(u, name, index) ==
  [u EXCEPT !.varindex = index + 1, !.locvec = Append(@, [name |-> name, index |-> index])]
AddLocal(S, name, type) ==
  LET index == LocalIndex(S)
      entered == [S.units EXCEPT ![Depth(S)].syms = Entered(@, name, type, index)]
  IN  [S EXCEPT !.units = [entered EXCEPT ![FunctionUnit(S)] = TakeSlot(@, name, index)]]

(* parse_block_variable: the scopes in which a local name must be new.     *)
DeclaredInBlock(S, name) == name \in DOMAIN Current(S).syms
DeclaredInFunction(S, name) ==
  \E i \in FunctionUnit(S) .. Depth(S) : name \in DOMAIN S.units[i].syms

(* update_add_variable: a variable of the module only gets its type.       *)
AddVariable(S, name, type) ==
  IF Current(S).scope = "module"
  THEN [s |-> [S EXCEPT !.units[1].syms[name].type = IF @ = None THEN type ELSE @], ok |-> TRUE]
  ELSE IF DeclaredInFunction(S, name) THEN [s |-> SyntaxError(S), ok |-> FALSE]
  ELSE [s |-> AddLocal(S, name, type), ok |-> TRUE]

-----------------------------------------------------------------------------
(* Expressions *)

(* Code_Ident_Expr: nothing is generated for a name of an outer scope.     *)
CodeIdent(S, name, ctx) ==
  LET i == Resolve(S, name) IN
  IF i # Depth(S) THEN S
  ELSE IF Current(S).scope = "module" THEN Emit(S, Inst("LOAD_FIELD", 0, name))
  ELSE Emit(S, Inst(ctx, Current(S).syms[name].index, name))

(* parser_visit_expr: parse, then generate code unless there were too many *)
(* errors; Code_Ident_Expr asserts that the name was found and has a type. *)
Visit(S, e, ctx) ==
  LET type == S.units[Resolve(S, e.name)].syms[e.name].type IN
  IF Enough(S) \/ Stopped(S) THEN [s |-> S, type |-> None]
  ELSE IF e.kind = "const"
  THEN [s |-> Emit(S, Inst("LOAD_CONST", 0, None)), type |-> e.type]
  ELSE IF Declaring(S, e.name) = {}
  THEN LET E == SyntaxError(S)
       IN  [s |-> IF Enough(E) THEN E ELSE Stop(E, "no_symbol"), type |-> None]
  ELSE [s |-> IF type = None THEN Stop(S, "no_type") ELSE CodeIdent(S, e.name, ctx),
        type |-> type]

-----------------------------------------------------------------------------
(* Statements *)

(* The end of parse_variable.                                              *)
StoreVariable(S, name) ==
  IF Current(S).scope = "module" THEN Emit(S, Inst("STORE_FIELD", 0, name))
  ELSE Emit(S, Inst("STORE", Current(S).syms[name].index, name))

ParseVariable(S, name, type, exp) ==
  IF exp.kind = "none" THEN AddVariable(S, name, type).s
  ELSE LET V == Visit(S, exp, "LOAD")
           A == AddVariable(V.s, name, V.type)
       IN  IF Stopped(V.s) THEN V.s
           ELSE IF V.type = None \/ type \notin {None, V.type} THEN SyntaxError(V.s)
           ELSE IF A.ok THEN StoreVariable(A.s, name) ELSE A.s

(* parse_assign_stmt: right before left.                                   *)
ParseAssign(S, name, exp) ==
  LET R == Visit(S, exp, "LOAD")
      L == Visit(R.s, [kind |-> "id", name |-> name], "STORE")
  IN  IF Stopped(L.s) THEN L.s
      ELSE IF R.type = None \/ R.type # L.type THEN SyntaxError(L.s)
      ELSE L.s

(* parse_return_stmt: fewer values than the function returns are an error, *)
(* but the type of one too many is read through a null pointer.            *)
MarkReturn(S) == [Emit(S, Return) EXCEPT !.units[Depth(S)].ret = TRUE]
ParseReturn(S, result, exp) ==
  LET V == IF exp.kind = "none" THEN [s |-> S, type |-> None] ELSE Visit(S, exp, "LOAD") IN
  IF Stopped(V.s) THEN V.s
  ELSE IF exp.kind = "none"
  THEN IF result = None THEN MarkReturn(V.s) ELSE SyntaxError(V.s)
  ELSE IF result = None THEN Stop(V.s, "extra_value")
  ELSE IF V.type = result THEN MarkReturn(V.s) ELSE SyntaxError(V.s)

(* parse_funcdecl_stmt up to the body: named results come first.           *)
ParseHeader(S, header) ==
  LET entered[i \in 0 .. Len(header.locals)] ==
        IF i = 0 THEN [EnterScope(S, "function", header.result) EXCEPT !.emitted = <<>>]
        ELSE AddVariable(entered[i - 1], header.locals[i].name, header.locals[i].type).s
  IN  entered[Len(header.locals)]

(* Parser_Exit_Scope of a block: its code goes to the end of the one       *)
(* around it, and its names are gone.                                      *)
MergeInFront(from, to) == from \o to
Merge(from, to) == to \o from
ExitBlock(S) ==
  LET d == Depth(S) IN
  [S EXCEPT !.units = [Front(S.units) EXCEPT ![d - 1].code = Merge(S.units[d].code, @)]]

(* Parser_Exit_Scope of a function: a return is added unless it has one.   *)
NeedsReturn(u) == ~ u.ret
ExitFunction(S) == [S EXCEPT !.units = Front(@), !.emitted = <<>>]
Finished(S) ==
  LET u == Current(S)
  IN  [locvec |-> u.locvec,
       code   |-> IF NeedsReturn(u) THEN Append(u.code, Return) ELSE u.code]

-----------------------------------------------------------------------------
(* The program, a statement at a time *)

(* Build_AST put the module's variables in its table, with the types that  *)
(* are declared.                                                           *)
Init ==
  /\ pending \in Modules
  /\ units = <<Unit("module", [n \in {s.name : s \in pending} |->
                 [type |-> (CHOOSE s \in pending : s.name = n).type, index |-> 0]], None)>>
  /\ errnum = 0 /\ fault = "none" /\ funcs = <<>> /\ written = FALSE
  /\ stmt = Mark("start") /\ emitted = <<>> /\ count = 0

Scope == units[Len(units)].scope
Running == fault = "none" /\ units # <<>>

(* parse_statement: nothing is parsed after too many errors.               *)
Statement(s, S) ==
  LET T == IF Enough(State) THEN State ELSE S
  IN  /\ units' = T.units /\ errnum' = T.errnum /\ fault' = T.fault /\ emitted' = T.emitted
      /\ stmt' = s
NextStatement == count < MaxStmts /\ count' = count + 1

DeclareGlobal(s) ==
  /\ Running /\ Scope = "module"
  /\ Statement(s, ParseVariable(State, s.name, s.type, s.exp))
  /\ pending' = pending \ {s}
  /\ UNCHANGED <<funcs, written, count>>

OpenFunction(header) ==
  /\ Running /\ Scope = "module" /\ NextStatement
  /\ Statement([op |-> "func", locals |-> header.locals], ParseHeader(State, header))
  /\ UNCHANGED <<pending, funcs, written>>

Variable(s) ==
  /\ Statement(s, ParseVariable(State, s.name, s.type, s.exp))
Assign(s) ==
  /\ Statement(s, ParseAssign(State, s.name, s.exp))
Expression(s) ==
  /\ Statement(s, Visit(State, s.exp, "LOAD").s)
ReturnStatement(s) ==
  LET result == units[FunctionUnit(State)].result
  IN  Statement([s EXCEPT !.type = result], ParseReturn(State, result, s.exp))

Local ==
  /\ Running /\ Scope # "module" /\ NextStatement
  /\ \E s \in Stmts : \/ s.op = "var" /\ Variable(s)
                      \/ s.op = "assign" /\ Assign(s)
                      \/ s.op = "expr" /\ Expression(s)
                      \/ s.op = "return" /\ ReturnStatement(s)
  /\ UNCHANGED <<pending, funcs, written>>

OpenBlock ==
  /\ Running /\ Scope # "module" /\ Len(units) < MaxDepth /\ NextStatement
  /\ Statement(Mark("open"), EnterScope(State, "block", None))
  /\ UNCHANGED <<pending, funcs, written>>

CloseBlock ==
  /\ Running /\ Scope = "block"
  /\ units' = ExitBlock(State).units /\ stmt' = Mark("close")
  /\ UNCHANGED <<errnum, fault, pending, funcs, written, emitted, count>>

EndFunction ==
  /\ Running /\ Scope = "function"
  /\ funcs' = Append(funcs, Finished(State))
  /\ units' = ExitFunction(State).units /\ emitted' = <<>> /\ stmt' = Mark("end")
  /\ UNCHANGED <<errnum, fault, pending, written, count>>

(* The code of the module's declarations is freed: Build_AST has made      *)
(* __init__ already.  main writes the image of a package without errors.   *)
EndModule ==
  /\ Running /\ Scope = "module" /\ pending = {}
  /\ units' = <<>> /\ stmt' = Mark("end")
  /\ written' = (errnum = 0)
  /\ UNCHANGED <<errnum, fault, pending, funcs, emitted, count>>

Next == \/ \E s \in pending : DeclareGlobal(s)
        \/ \E header \in Headers : OpenFunction(header)
        \/ Local \/ OpenBlock \/ CloseBlock \/ EndFunction \/ EndModule

Spec == Init /\ [][Next]_vars

-----------------------------------------------------------------------------
(* Properties *)

TypeOK ==
  /\ Len(units) <= MaxDepth /\ errnum \in Nat /\ count \in 0 .. MaxStmts
  /\ fault \in {"none", "no_symbol", "no_type", "extra_value"}
  /\ \A i \in DOMAIN units :
       units[i].scope = (IF i = 1 THEN "module" ELSE IF i = 2 THEN "function" ELSE "block")

InFunction == Len(units) > 1
Locvec == units[2].locvec

(* Every local variable of a function has a slot of its own, and slot i    *)
(* is the i-th it declared (update_add_variable, parse_block_variable).    *)
SlotsInOrder == InFunction => \A i \in DOMAIN Locvec : Locvec[i].index = i

(* What an open scope declares is in that slot, and no name is visible     *)
(* twice within the function.                                              *)
VisibleOnce ==
  \A i, j \in 2 .. Len(units) : \A n \in DOMAIN units[i].syms :
     /\ i # j => n \notin DOMAIN units[j].syms
     /\ \E k \in DOMAIN Locvec : Locvec[k] = [name |-> n, index |-> units[i].syms[n].index]

(* The tables of the compiler agree with each other in every state.        *)
Consistent == TypeOK /\ SlotsInOrder /\ VisibleOnce

RightSlots(code, locvec) ==
  \A i \in DOMAIN code : code[i].op \in {"LOAD", "STORE"} =>
     code[i].index \in DOMAIN locvec /\ locvec[code[i].index].name = code[i].name

(* CodeBlock_Merge: the code of the open blocks, from the function's on,   *)
(* is what was emitted, in that order; its slots are those of the          *)
(* variables it names; and a finished function returns.                    *)
CodeFaithful ==
  /\ InFunction => /\ FlattenSeq([i \in 1 .. Len(units) - 1 |-> units[i + 1].code]) = emitted
                   /\ RightSlots(emitted, Locvec)
  /\ \A k \in DOMAIN funcs : /\ RightSlots(funcs[k].code, funcs[k].locvec)
                              /\ \E i \in DOMAIN funcs[k].code : funcs[k].code[i] = Return

(* The compiler accepts the programs that the rules of scope and type      *)
(* accept, with the meaning they give to every name; an image is written   *)
(* only for such a program.                                                *)
Rules == INSTANCE StaticScopes WITH
  env   <- [i \in DOMAIN units |-> [n \in DOMAIN units[i].syms |-> units[i].syms[n].type]],
  legal <- errnum = 0 /\ fault = "none"
ImplementsScoping == Rules!Spec
=============================================================================
