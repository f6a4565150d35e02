-------------------------------- MODULE Ast --------------------------------
(***************************************************************************)
(* Who owns the nodes of the syntax tree of one source file: ast.c builds  *)
(* them for the grammar and frees them, parser.c frees every statement as  *)
(* soon as it is analysed.                                                 *)
(*                                                                         *)
(* A node is its kind, its parts (the nodes it will free, 0 for NULL) and  *)
(* the type descriptors it holds a count of; a vector is a node whose      *)
(* parts are its items.  A source text is a term of the same shape.        *)
(* Left out: operators, values, positions and the code that is generated.  *)
(* Two types that are present are compatible.  A class is not built: its   *)
(* declaration fails an assertion before it can be analysed (Build).       *)
(***************************************************************************)
EXTENDS Integers, Sequences, FiniteSets, SequencesExt, TLC

CONSTANTS Declarations, \* the declarations a file may have
          MaxErrors,    \* MAX_ERRORS
          ImportErrors, \* how many errors the imports may have
          MaxDecls      \* bound: declarations of a file

VARIABLES program,  \* the declarations read so far
          phase,    \* "build", "analysis", "destroyed"
          heap,     \* the nodes, the counts of types they took, errors, fault
          work      \* the vectors of statements being analysed, innermost last

vars == <<program, phase, heap, work>>

Gone == [kind |-> "gone"]
Stop(H, why) == [H EXCEPT !.fault = IF @ = "none" THEN why ELSE @]
Stopped(H) == H.fault # "none"
SyntaxError(H) == [H EXCEPT !.errnum = @ + 1]
TooMany(H) == H.errnum > MaxErrors

-----------------------------------------------------------------------------
(* Constructors *)

(* The fields a constructor stores; the other expressions have none.       *)
ExprParts ==
  [unary |-> {"exp"}, binary |-> {"lexp", "rexp"}, attribute |-> {"left"},
   subscript |-> {"index", "left"}, call |-> {"args", "left"},
   slice |-> {"start", "end", "left"}]
ListParts ==
  [arraylist |-> {"vec"}, maplist |-> {"vec"}, entry |-> {"key", "val"},
   array |-> {"dims", "listExp"}, map |-> {"listExp"}, set |-> {"listExp"},
   anony |-> {"args", "rets", "body"}]
StmtParts ==
  [var |-> {"exp"}, varlist |-> {"ids", "exp"}, assign |-> {"left", "right"},
   assignlist |-> {"left", "right"}, func |-> {"args", "rets", "body"},
   proto |-> {"args", "rets"}, expr |-> {"exp"}, return |-> {"exps"}, list |-> {"vec"}]
Leaves == {"nil", "self", "super", "const", "id", "ident", "idtype"}

Stored == ExprParts @@ ListParts @@ StmtParts
Kept(kind, parts) ==
  IF kind = "vector" THEN parts
  ELSE IF kind \in Leaves THEN <<>>
  ELSE [f \in Stored[kind] |-> parts[f]]

(* desc is the type of an expression, type the other descriptor of a node. *)
New(H, kind, what, parts, desc, type) ==
  [h |-> [H EXCEPT !.nodes = Append(@, [kind |-> kind, what |-> what, desc |-> desc,
                                        type |-> type, sym |-> "none",
                                        parts |-> Kept(kind, parts)]),
                   !.refs = @ + type + (IF desc = "none" THEN 0 ELSE 1)],
   id |-> Len(H.nodes) + 1]
Nothing(H) == [h |-> H, id |-> 0]

(* Unary and binary expressions share the type their operand already has.  *)
DescOf(H, id) == IF id = 0 THEN "none" ELSE H.nodes[id].desc
MadeDesc(H, kind, parts) ==
  IF kind = "const" THEN "plain"
  ELSE IF kind = "unary" THEN DescOf(H, parts["exp"])
  ELSE IF kind = "binary" THEN DescOf(H, parts["lexp"])
  ELSE "none"
MadeType(kind) == IF kind \in {"idtype", "array", "map", "set"} THEN 1 ELSE 0

(* Parser_New_Array with the type of an array counts its base and drops    *)
(* the array type itself.                                                  *)
DropArrayType(H, kind, what) ==
  IF kind = "array" /\ what = "nested" THEN [H EXCEPT !.refs = @ - 1] ELSE H
Construct(H, kind, what, parts) ==
  New(DropArrayType(H, kind, what), kind, what, parts, MadeDesc(H, kind, parts), MadeType(kind))

-----------------------------------------------------------------------------
(* Release *)

ExprReleases ==
  [unary |-> <<"exp">>, binary |-> <<"lexp", "rexp">>, attribute |-> <<"left">>,
   subscript |-> <<"index", "left">>, call |-> <<"args", "left">>,
   slice |-> <<"start", "end", "left">>,
   arraylist |-> <<"vec">>, maplist |-> <<"vec">>, entry |-> <<"key", "val">>,
   array |-> <<"dims", "listExp">>, map |-> <<"listExp">>, set |-> <<"listExp">>,
   anony |-> <<"args", "rets", "body">>]
StmtReleases ==
  [var |-> <<"exp">>, varlist |-> <<"ids", "exp">>, assign |-> <<"left", "right">>,
   assignlist |-> <<"left", "right">>, func |-> <<"args", "rets", "body">>,
   proto |-> <<"args", "rets">>, expr |-> <<"exp">>, return |-> <<"exps">>, list |-> <<"vec">>]
Releases == ExprReleases @@ StmtReleases
Released(n) ==
  IF n.kind = "vector" THEN n.parts
  ELSE IF n.kind \in Leaves THEN <<>>
  ELSE LET fields == Releases[n.kind]
       IN  [i \in DOMAIN fields |-> n.parts[fields[i]]]

(* Mfree and Vector_Free_Self: the node alone, with the counts it holds.   *)
FreeSelf(H, id) ==
  IF id = 0 \/ Stopped(H) THEN H
  ELSE IF H.nodes[id] = Gone THEN Stop(H, "freed_twice")
  ELSE [H EXCEPT !.nodes[id] = Gone,
                 !.refs = @ - H.nodes[id].type - (IF H.nodes[id].desc = "none" THEN 0 ELSE 1)]

(* Free_Expr, Free_Stmt_Func, Vector_Free: what the node holds, then it.   *)
RECURSIVE Free(_, _)
Free(H, id) ==
  IF id = 0 \/ Stopped(H) THEN H
  ELSE IF H.nodes[id] = Gone THEN Stop(H, "freed_twice")
  ELSE FreeSelf(FoldLeft(LAMBDA K, part : Free(K, part), H, Released(H.nodes[id])), id)

Items(H, vec) == IF vec = 0 THEN <<>> ELSE H.nodes[vec].parts
(* Vector_Fini_Self: the vector becomes empty, its items are not touched.  *)
EmptyNothing(H, vec) == H
Empty(H, vec) == IF vec = 0 THEN H ELSE [H EXCEPT !.nodes[vec].parts = <<>>]
KindOf(H, id) == H.nodes[id].kind

-----------------------------------------------------------------------------
(* Statements that one declaration or assignment becomes *)

ValidCount(lsz, rsz) == lsz >= rsz /\ (lsz > rsz => rsz <= 1)

RefuseLeft(H, left, right) == Nothing(Free(SyntaxError(H), left))
Refuse(H, left, right) == Nothing(Free(Free(SyntaxError(H), left), right))

(* ListStmt with its vector                                                *)
NewList(H, stmts, block) ==
  LET V == New(H, "vector", "plain", stmts, "none", 0)
  IN  New(V.h, "list", block, [vec |-> V.id], "none", 0)

(* One statement, or a list of them, for the items a step is applied to.   *)
OneOrList(B) == IF Len(B.made) = 1 THEN [h |-> B.h, id |-> B.made[1]]
                ELSE NewList(B.h, B.made, "plain")
Collect(H, items, Step(_, _)) ==
  FoldLeft(LAMBDA B, i : LET N == Step(B.h, i) IN [h |-> N.h, made |-> Append(B.made, N.id)],
           [h |-> H, made |-> <<>>], [i \in DOMAIN items |-> i])

NewVar(H, konst, exp, typed) == New(H, "var", konst, [exp |-> exp], "none", typed)
NewVarList(H, konst, ids, exp, typed) ==
  New(H, "varlist", konst, [ids |-> ids, exp |-> exp], "none", typed)

(* __Parser_Do_Variables and Parser_Do_Constants                           *)
DoVariables(H, konst, typed, ids, exps) ==
  LET left == Items(H, ids)
      right == Items(H, exps)
      Each(K, i) == LET V == NewVar(K, konst, IF right = <<>> THEN 0 ELSE right[i], typed)
                    IN  [V EXCEPT !.h = FreeSelf(@, left[i])]
      B == OneOrList(Collect(H, left, Each))
  IN  IF ~ ValidCount(Len(left), Len(right)) THEN Refuse(H, ids, exps)
      ELSE IF Len(right) \in {0, Len(left)}
      THEN [B EXCEPT !.h = FreeSelf(FreeSelf(@, ids), exps)]
      ELSE NewVarList(FreeSelf(H, exps), konst, ids, right[1], typed)

FirstBad(H, items, kinds) ==
  LET bad == {i \in DOMAIN items : KindOf(H, items[i]) \notin kinds}
  IN  IF bad = {} THEN 0 ELSE CHOOSE i \in bad : \A j \in bad : i <= j

(* Parser_Do_Typeless_Variables: the list of the statements made before a  *)
(* left side that is no identifier is freed with the right sides in it.    *)
TypelessOrdinary(H, ids, exps) ==
  LET right == Items(H, exps)
      B == OneOrList(Collect(H, right, LAMBDA K, i : NewVar(K, "var", right[i], 0)))
  IN  [B EXCEPT !.h = FreeSelf(Free(@, ids), exps)]
TypelessSeveral(H, ids, exps) ==
  LET left == Items(H, ids)
      C == Collect(H, left, LAMBDA K, i : New(K, "ident", "plain", <<>>, "none", 0))
      V == New(C.h, "vector", "plain", C.made, "none", 0)
  IN  NewVarList(FreeSelf(Free(V.h, ids), exps), "var", V.id, Items(H, exps)[1], 0)
TypelessRefused(H, ids, exps, bad) ==
  LET right == SubSeq(Items(H, exps), 1, bad - 1)
      C == Collect(H, right, LAMBDA K, i : NewVar(K, "var", right[i], 0))
      B == NewList(C.h, C.made, "plain")
  IN  Refuse(Free(B.h, B.id), ids, exps)
DoTypelessVariables(H, ids, exps) ==
  LET left == Items(H, ids)
      right == Items(H, exps)
      bad == FirstBad(H, left, {"id"})
  IN  IF ~ ValidCount(Len(left), Len(right)) THEN Refuse(H, ids, exps)
      ELSE IF bad = 0
      THEN IF Len(left) = Len(right) THEN TypelessOrdinary(H, ids, exps)
           ELSE TypelessSeveral(H, ids, exps)
      ELSE IF Len(left) = Len(right) /\ Len(left) > 1 THEN TypelessRefused(H, ids, exps, bad)
      ELSE Refuse(H, ids, exps)

(* Parser_Do_Assignments: the statements made before a left side that      *)
(* cannot be stored, and their list, are forgotten.                        *)
Storable == {"id", "attribute", "subscript"}
NewAssign(H, op, left, right) == New(H, "assign", op, [left |-> left, right |-> right], "none", 0)
DoAssignments(H, left, right) ==
  LET lefts == Items(H, left)
      rights == Items(H, right)
      bad == FirstBad(H, lefts, Storable)
      Each(K, i) == NewAssign(K, "assign", lefts[i], rights[i])
      Made(n) == Collect(H, SubSeq(lefts, 1, n), Each)
      Forgotten == IF Len(lefts) = 1 \/ Len(lefts) # Len(rights) THEN H
                   ELSE NewList(Made(bad - 1).h, Made(bad - 1).made, "plain").h
      B == OneOrList(Made(Len(lefts)))
  IN  IF ~ ValidCount(Len(lefts), Len(rights)) THEN Refuse(H, left, right)
      ELSE IF bad # 0 THEN Refuse(Forgotten, left, right)
      ELSE IF Len(lefts) = Len(rights)
      THEN [B EXCEPT !.h = FreeSelf(FreeSelf(@, left), right)]
      ELSE New(FreeSelf(H, right), "assignlist", "plain", [left |-> left, right |-> rights[1]], "none", 0)

(* An assignment with an operator                                          *)
Compound(H, left, right) ==
  IF KindOf(H, left) \in Storable THEN NewAssign(H, "compound", left, right)
  ELSE Refuse(H, left, right)

-----------------------------------------------------------------------------
(* Building the tree of a text *)

(* What the grammar does once the parts of a text are built.  A statement  *)
(* that is refused is left out of the body it stands in.                   *)
Reduce(H, text, parts) ==
  CASE text.kind \in {"vars", "typedvars"} ->
         DoVariables(H, text.what, IF text.kind = "typedvars" THEN 1 ELSE 0, parts["ids"], parts["exps"])
    [] text.kind = "typeless" -> DoTypelessVariables(H, parts["ids"], parts["exps"])
    [] text.kind = "assigns" -> DoAssignments(H, parts["left"], parts["right"])
    [] text.kind = "compound" -> Compound(H, parts["left"], parts["right"])
    [] text.kind = "block" -> New(H, "list", "block", [vec |-> parts["vec"]], "none", 0)
    [] text.kind = "body" ->
         New(H, "vector", "plain", SelectSeq(parts, LAMBDA id : id # 0), "none", 0)
    [] OTHER -> Construct(H, text.kind, text.what, parts)

RECURSIVE BuildText(_, _), BuildParts(_, _, _)
BuildText(H, text) ==
  IF text.kind = "null" THEN Nothing(H)
  ELSE LET B == BuildParts([h |-> H, ids |-> <<>>], text, DOMAIN text.parts)
           parts == [f \in DOMAIN text.parts |-> B.ids[f]]
       IN  IF Stopped(B.h) THEN Nothing(B.h) ELSE Reduce(B.h, text, parts)
BuildParts(B, text, fields) ==
  IF fields = {} THEN B
  ELSE LET f == CHOOSE f \in fields : TRUE
           N == BuildText(B.h, text.parts[f])
       IN  BuildParts([h |-> N.h, ids |-> (f :> N.id) @@ B.ids], text, fields \ {f})

(* ps->stmts is the first node.                                            *)
Stmts == 1
(* Parser_New_Variables splits a list, Parser_New_Function keeps the       *)
(* statement.                                                              *)
AddStmt(H, ids) == [H EXCEPT !.nodes[Stmts].parts = @ \o ids]
AddDeclaration(B) ==
  IF B.id = 0 \/ Stopped(B.h) THEN B.h
  ELSE LET n == B.h.nodes[B.id]
       IN  IF n.kind = "list"
           THEN FreeSelf(FreeSelf(AddStmt(B.h, Items(B.h, n.parts["vec"])), n.parts["vec"]), B.id)
           ELSE AddStmt(B.h, <<B.id>>)

-----------------------------------------------------------------------------
(* Analysis of expressions *)

(* The expression takes a descriptor, with a count (counted = 1) or as     *)
(* parse_attribute_expr does, without one.                                 *)
Describe(H, id, sym, desc, counted) ==
  [H EXCEPT !.nodes[id].sym = sym, !.nodes[id].desc = desc,
            !.refs = IF desc = "none" THEN @ ELSE @ + counted]

(* The symbol of a name: a variable, a function of one argument and one    *)
(* result, one of two results, an imported package (it has no type).       *)
SymDesc(sym) == IF sym = "pkg" THEN "none" ELSE IF sym = "var" THEN "plain" ELSE "proto"
Results(sym) == IF sym = "pair" THEN 2 ELSE 1

(* __check_expr_types                                                      *)
Matches(H, wanted, exps) ==
  /\ Len(exps) >= wanted
  /\ \A i \in 1..wanted : DescOf(H, exps[i]) = "plain"
CheckTypes(H, wanted, exps) ==
  IF ~ Matches(H, wanted, exps) THEN SyntaxError(H)
  ELSE IF Len(exps) > wanted THEN Stop(H, "null")
  ELSE H

RECURSIVE Parse(_, _)

ParseIdent(H, id) ==
  LET sym == H.nodes[id].what
  IN  IF sym = "unknown" THEN SyntaxError(H) ELSE Describe(H, id, sym, SymDesc(sym), 1)

ParseBinary(H, id) ==
  LET n == H.nodes[id]
      L == Parse(H, n.parts["lexp"])
      R == Parse(L, n.parts["rexp"])
  IN  IF Stopped(L) THEN L
      ELSE IF DescOf(L, n.parts["lexp"]) = "none" THEN Stop(L, "no_desc")
      ELSE IF Stopped(R) THEN R
      ELSE IF DescOf(R, n.parts["rexp"]) = "none" THEN Stop(R, "no_desc")
      ELSE IF DescOf(R, id) = "none" THEN Describe(R, id, "none", DescOf(R, n.parts["lexp"]), 1)
      ELSE R

ParseAttribute(H, id) ==
  LET n == H.nodes[id]
      L == Parse(H, n.parts["left"])
      sym == L.nodes[n.parts["left"]].sym
  IN  IF Stopped(L) \/ sym \in {"none", "var"} THEN L
      ELSE IF sym = "pkg"
      THEN IF n.what = "missing" THEN SyntaxError(L) ELSE Describe(L, id, "var", "plain", 0)
      ELSE IF KindOf(L, n.parts["left"]) = "call" /\ Results(sym) # 1 THEN SyntaxError(L)
      ELSE L

ParseCall(H, id) ==
  LET n == H.nodes[id]
      args == Items(H, n.parts["args"])
      left == n.parts["left"]
      L == Parse(FoldLeft(LAMBDA K, arg : Parse(K, arg), H, Reverse(args)), left)
      sym == L.nodes[left].sym
      Called == Describe(L, id, sym, DescOf(L, left), 1)
  IN  IF KindOf(H, left) = "super" THEN SyntaxError(H)
      ELSE IF Stopped(L) \/ sym = "none" THEN L
      ELSE IF DescOf(L, left) # "proto" THEN Stop(Called, "not_proto")
      ELSE CheckTypes(Called, 1, args)

(* Parse_Expression: several kinds are still assert(0).                    *)
Parse(H, id) ==
  IF Stopped(H) \/ TooMany(H) THEN H
  ELSE CASE H.nodes[id] = Gone -> Stop(H, "used_freed")
         [] KindOf(H, id) \in {"nil", "const", "unary"} -> H
         [] KindOf(H, id) = "id" -> ParseIdent(H, id)
         [] KindOf(H, id) = "binary" -> ParseBinary(H, id)
         [] KindOf(H, id) = "attribute" -> ParseAttribute(H, id)
         [] KindOf(H, id) = "call" -> ParseCall(H, id)
         [] OTHER -> Stop(H, "not_supported")

(* parser_visit_expr: the code of an identifier needs its descriptor.      *)
Visit(H, id) ==
  LET K == Parse(H, id)
  IN  IF ~ Stopped(K) /\ ~ TooMany(K) /\ KindOf(K, id) = "id" /\ DescOf(K, id) = "none"
      THEN Stop(K, "no_desc") ELSE K
VisitAll(H, ids) == FoldLeft(LAMBDA K, id : Visit(K, id), H, ids)

-----------------------------------------------------------------------------
(* Analysis of statements *)

IsConst(H, id) ==
  \/ KindOf(H, id) = "const"
  \/ /\ KindOf(H, id) = "binary"
     /\ \A f \in {"lexp", "rexp"} : KindOf(H, H.nodes[id].parts[f]) = "const"
OneResult(H, id) == KindOf(H, id) = "call" => Results(H.nodes[id].sym) = 1

(* parse_variable: a variable without a type takes that of its value.      *)
TakeUncounted(H, id) == [H EXCEPT !.nodes[id].type = 1]
TakeType(H, id) ==
  IF H.nodes[id].type = 1 THEN H ELSE [H EXCEPT !.nodes[id].type = 1, !.refs = @ + 1]
ParseVar(H, id) ==
  LET n == H.nodes[id]
      exp == n.parts["exp"]
      V == Visit(H, exp)
  IN  IF exp = 0 \/ Stopped(V) THEN IF exp = 0 THEN H ELSE V
      ELSE IF DescOf(V, exp) = "none" THEN SyntaxError(V)
      ELSE IF n.what = "const" /\ ~ IsConst(V, exp) THEN SyntaxError(V)
      ELSE IF ~ OneResult(V, exp) THEN SyntaxError(V)
      ELSE IF n.what = "const" /\ KindOf(V, exp) = "binary" THEN Stop(TakeType(V, id), "not_supported")
      ELSE TakeType(V, id)

ParseVarList(H, id) ==
  LET n == H.nodes[id]
      exp == n.parts["exp"]
      V == Visit(H, exp)
  IN  IF n.what = "const" THEN Stop(H, "not_supported")
      ELSE IF KindOf(H, exp) # "call" THEN SyntaxError(H)
      ELSE IF Stopped(V) \/ DescOf(V, exp) = "none" THEN V
      ELSE IF Len(Items(V, n.parts["ids"])) # Results(V.nodes[exp].sym) THEN SyntaxError(V)
      ELSE V

ParseAssign(H, id) ==
  LET n == H.nodes[id]
      right == n.parts["right"]
      V == VisitAll(H, <<right, n.parts["left"]>>)
  IN  IF n.what = "compound" THEN Stop(H, "not_supported")
      ELSE IF Stopped(V) THEN V
      ELSE IF DescOf(V, right) = "none" THEN SyntaxError(V)
      ELSE IF ~ OneResult(V, right) THEN SyntaxError(V)
      ELSE IF DescOf(V, n.parts["left"]) = "none" THEN SyntaxError(V)
      ELSE V

(* Left sides are visited up to the first whose type does not fit.         *)
VisitLefts(H, lefts) ==
  FoldLeft(LAMBDA B, id :
             IF B.done THEN B
             ELSE LET V == Visit(B.h, id)
                  IN  IF Stopped(V) THEN [h |-> V, done |-> TRUE]
                      ELSE IF DescOf(V, id) = "none" THEN [h |-> SyntaxError(V), done |-> TRUE]
                      ELSE [h |-> V, done |-> FALSE],
           [h |-> H, done |-> FALSE], lefts).h
ParseAssignList(H, id) ==
  LET n == H.nodes[id]
      right == n.parts["right"]
      lefts == Items(H, n.parts["left"])
      V == Visit(H, right)
  IN  IF KindOf(H, right) # "call" THEN SyntaxError(H)
      ELSE IF Stopped(V) THEN V
      ELSE IF DescOf(V, right) = "none" THEN Stop(V, "no_desc")
      ELSE IF Len(lefts) # Results(V.nodes[right].sym) THEN SyntaxError(V)
      ELSE VisitLefts(V, lefts)

(* The results of the innermost function around a return.                  *)
Wanted(H) ==
  LET funcs == SelectSeq([d \in 1..(Len(work) - 1) |-> work[d + 1].owner], LAMBDA o : KindOf(H, o) = "func")
  IN  Len(Items(H, H.nodes[Last(funcs)].parts["rets"]))
ParseReturn(H, id) ==
  LET exps == Items(H, H.nodes[id].parts["exps"])
      V == VisitAll(H, exps)
  IN  IF Stopped(V) THEN V ELSE CheckTypes(V, Wanted(H), exps)

ParseStmt(H, id) ==
  CASE KindOf(H, id) = "var" -> ParseVar(H, id)
    [] KindOf(H, id) = "varlist" -> ParseVarList(H, id)
    [] KindOf(H, id) = "assign" -> ParseAssign(H, id)
    [] KindOf(H, id) = "assignlist" -> ParseAssignList(H, id)
    [] KindOf(H, id) = "return" -> ParseReturn(H, id)
    [] KindOf(H, id) = "expr" -> Visit(H, H.nodes[id].parts["exp"])
    [] KindOf(H, id) = "proto" -> H

-----------------------------------------------------------------------------
Init ==
  /\ program = <<>>
  /\ phase = "build"
  /\ heap = [nodes |-> <<[kind |-> "vector", what |-> "plain", desc |-> "none", type |-> 0,
                          sym |-> "none", parts |-> <<>>]>>,
             refs |-> 0, errnum |-> 0, fault |-> "none"]
  /\ work = <<>>

Running == ~ Stopped(heap)

(* A declaration is read: its tree is built and kept in ps->stmts.         *)
Declare ==
  /\ Running /\ phase = "build"
  /\ Len(program) < MaxDecls
  /\ \E text \in Declarations :
       /\ program' = Append(program, text)
       /\ heap' = AddDeclaration(BuildText(heap, text))
  /\ UNCHANGED <<phase, work>>

(* Parse_AST: imports may have errors, then the statements are analysed.   *)
Body(vec, owner) == [vec |-> vec, next |-> 1, owner |-> owner]
StartAnalysis ==
  /\ Running /\ phase = "build"
  /\ phase' = "analysis"
  /\ \E n \in ImportErrors : heap' = [heap EXCEPT !.errnum = @ + n]
  /\ work' = <<Body(Stmts, 0)>>
  /\ UNCHANGED program

Top == Last(work)
Pending == Top.next <= Len(Items(heap, Top.vec))
Current == Items(heap, Top.vec)[Top.next]
Advance(w) == [w EXCEPT ![Len(w)].next = @ + 1]
BodyField == [func |-> "body", list |-> "vec"]

(* parse_statements: a statement is analysed, unless there are too many    *)
(* errors, and freed.                                                      *)
Analysing == Running /\ phase = "analysis" /\ work # <<>>
ParseSimple ==
  /\ Analysing /\ Pending
  /\ KindOf(heap, Current) \notin DOMAIN BodyField \/ TooMany(heap)
  /\ heap' = Free(IF TooMany(heap) THEN heap ELSE ParseStmt(heap, Current), Current)
  /\ work' = Advance(work)
  /\ UNCHANGED <<program, phase>>

(* A function or a list of statements: its body first.                     *)
EnterBody ==
  /\ Analysing /\ Pending /\ ~ TooMany(heap)
  /\ LET kind == KindOf(heap, Current)
     IN  /\ kind \in DOMAIN BodyField
         /\ work' = Append(work, Body(heap.nodes[Current].parts[BodyField[kind]], Current))
  /\ UNCHANGED <<program, phase, heap>>

(* The end of a body: its vector is emptied, the statement it belongs to   *)
(* is freed.                                                               *)
LeaveBody ==
  /\ Analysing /\ ~ Pending
  /\ heap' = Free(Empty(heap, Top.vec), Top.owner)
  /\ work' = IF Len(work) = 1 THEN <<>> ELSE Advance(Front(work))
  /\ UNCHANGED <<program, phase>>

(* Destroy_Parser                                                          *)
DestroyParser(H) == Free(H, Stmts)
Destroy ==
  /\ Running /\ phase = "analysis" /\ work = <<>>
  /\ heap' = DestroyParser(heap)
  /\ phase' = "destroyed"
  /\ UNCHANGED <<program, work>>

Next == Declare \/ StartAnalysis \/ ParseSimple \/ EnterBody \/ LeaveBody \/ Destroy
Spec == Init /\ [][Next]_vars

-----------------------------------------------------------------------------
(* What a program contains, whatever the code makes of it *)

Sides(text, l, r) == <<text.parts[l].parts, text.parts[r].parts>>

(* a, f() := 1, 2: the second left side is no identifier.                  *)
MixedTypeless(text) ==
  /\ text.kind = "typeless"
  /\ LET s == Sides(text, "ids", "exps")
     IN  /\ Len(s[1]) = Len(s[2]) /\ Len(s[1]) > 1
         /\ s[1][1].kind = "id"
         /\ \E i \in DOMAIN s[1] : s[1][i].kind # "id"

(* a, f() = 1, 2 loses a statement for each side before the bad one, their *)
(* list and its vector.                                                    *)
LostBy(text) ==
  IF text.kind # "assigns" THEN 0
  ELSE LET s == Sides(text, "left", "right")
           bad == {i \in DOMAIN s[1] : s[1][i].kind \notin {"id", "attribute", "subscript"}}
       IN  IF bad = {} \/ Len(s[1]) # Len(s[2]) \/ Len(s[1]) = 1 THEN 0
           ELSE 1 + CHOOSE i \in bad : \A j \in bad : i <= j

(* A member of a package, an array whose elements are arrays.              *)
Uncounted(text) ==
  \/ text.kind = "attribute" /\ text.what # "missing" /\ text.parts["left"].what = "pkg"
  \/ text.kind = "array" /\ text.what = "nested"

(* How often each of them occurs in a declaration, and in the program.     *)
Occurs(P) == IF P THEN 1 ELSE 0
Own(text) == [mixed |-> Occurs(MixedTypeless(text)), lost |-> LostBy(text),
              uncounted |-> Occurs(Uncounted(text))]
Add(m, n) == [f \in DOMAIN m |-> m[f] + n[f]]
RECURSIVE Marks(_), MarksOf(_, _)
Marks(text) == IF text.kind = "null" THEN Own(text) ELSE MarksOf(text, DOMAIN text.parts)
MarksOf(text, fields) ==
  IF fields = {} THEN Own(text)
  ELSE LET f == CHOOSE f \in fields : TRUE
       IN  Add(Marks(text.parts[f]), MarksOf(text, fields \ {f}))
MarksIn == [d \in Declarations |-> Marks(d)]

SumOf(seq) == FoldLeft(LAMBDA a, b : a + b, 0, seq)
Occurring(mark) == SumOf([i \in DOMAIN program |-> MarksIn[program[i]][mark]])

-----------------------------------------------------------------------------
Faults == {"none", "freed_twice", "used_freed", "no_desc", "null", "not_proto", "not_supported"}

TypeOK ==
  /\ program \in Seq(Declarations) /\ Len(program) <= MaxDecls
  /\ phase \in {"build", "analysis", "destroyed"}
  /\ heap.fault \in Faults /\ heap.refs \in Int /\ heap.errnum \in Nat
  /\ \A i \in DOMAIN heap.nodes :
       heap.nodes[i] = Gone \/ heap.nodes[i].type \in {0, 1}
  /\ \A d \in DOMAIN work : work[d].vec \in 0..Len(heap.nodes)

(* No node is freed twice or used after it was freed, but for one list of  *)
(* declarations in a function (ast.c, Parser_Do_Typeless_Variables): the   *)
(* statements made from it already own the right sides that are freed      *)
(* again with their vector.                                                *)
FreedOnce ==
  /\ heap.fault # "used_freed"
  /\ heap.fault = "freed_twice" => Occurring("mixed") > 0

Consistent == TypeOK /\ FreedOnce

(* What would be left if everything the parser still holds were freed now: *)
(* the bodies at work from the innermost, and ps->stmts.                   *)
RECURSIVE Drain(_, _)
Drain(H, w) ==
  IF w = <<>> THEN DestroyParser(H)
  ELSE LET rest == SubSeq(Items(H, Last(w).vec), Last(w).next, Len(Items(H, Last(w).vec)))
           K == FoldLeft(LAMBDA F, id : Free(F, id), H, rest)
       IN  Drain(Free(Empty(K, Last(w).vec), Last(w).owner),
                 IF Len(w) = 1 THEN <<>> ELSE Advance(Front(w)))
Left(H) == {i \in DOMAIN H.nodes : H.nodes[i] # Gone}

(* At every moment the parser holds each node that is left exactly once,   *)
(* so that freeing what it holds leaves nothing: but for the lists of      *)
(* assignments that are refused in the middle (Parser_Do_Assignments).     *)
NothingLost ==
  (Running /\ phase # "destroyed") =>
    LET D == Drain(heap, work)
    IN  /\ D.fault = "none"
        /\ Cardinality(Left(D)) = Occurring("lost")
TypesHeld(H) ==
  SumOf([i \in DOMAIN H.nodes |->
           IF H.nodes[i] = Gone THEN 0
           ELSE H.nodes[i].type + (IF H.nodes[i].desc = "none" THEN 0 ELSE 1)])

(* The tree holds exactly the counts of types it took, so that none is     *)
(* freed under the symbols that share it: but for a member of a package,   *)
(* whose type is released without having been counted                      *)
(* (parse_attribute_expr), and for an array of arrays (Parser_New_Array).  *)
TypesCounted ==
  (Running /\ Occurring("uncounted") = 0) =>
    heap.refs = TypesHeld(heap)
=============================================================================
