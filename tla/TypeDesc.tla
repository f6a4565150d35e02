------------------------------- MODULE TypeDesc -------------------------------
(***************************************************************************)
(* Type descriptors (src/typedesc.c): interned in a table by their text,   *)
(* shared, and reference counted.  The table owns one reference to each    *)
(* descriptor until Fini_TypeDesc; a Get returns a borrowed pointer, and   *)
(* whoever keeps it (the declarations, symbols and expressions of the      *)
(* compiler) counts it.                                                    *)
(*                                                                         *)
(* A descriptor's text stands for its structure, so it is modelled by the  *)
(* structure: a tuple of a kind and of what it is built from.              *)
(*                                                                         *)
(* A type of the source is read bottom up: each rule of the grammar takes  *)
(* the descriptors of the parts from the stack of the parser and leaves    *)
(* there the one it gets.  These pointers are borrowed, but for those of a *)
(* list of types, which are kept by its IdTypes.  When bison recovers from *)
(* a syntax error it pops what was half read; no %destructor releases it.  *)
(***************************************************************************)
EXTENDS Integers, FiniteSets, SequencesExt

CONSTANTS BaseTypes,   \* the primitive types: <<"base", name>>
          Types,       \* the types programs name, closed under their parts
          Users,       \* what can keep a descriptor: declarations, symbols, ...
          MaxCells,    \* bounds the descriptors ever allocated
          Stacks,      \* bounds the stack of the parser: sequences of types and None
          MaxStolen,   \* bounds the borrowed references ever released
          MaxLeaked,   \* bounds the references ever lost
          None

Kind(t) == t[1]
PartsOf(t) == IF Kind(t) \in {"base", "klass"} THEN <<>> ELSE Tail(t)

ASSUME TypeDescAssumption ==
  /\ IsFiniteSet(BaseTypes) /\ IsFiniteSet(Users)
  /\ MaxCells \in Nat /\ Cardinality(BaseTypes) <= MaxCells
  /\ None \notin Types /\ None \notin 1 .. MaxCells
  /\ BaseTypes \subseteq Types /\ \A t \in Types : Kind(t) = "base" <=> t \in BaseTypes
  /\ \A t \in Types : PartsOf(t) \in Seq(Types) /\ (Kind(t) = "array" => PartsOf(t) # <<>>)

VARIABLES heap,    \* [type, refcnt, parts, live, table] of the descriptors
          kept,    \* the descriptor a user keeps, or None
          stack,   \* the types and lists of types on the stack of the parser
          phase,   \* "run", "fini" inside Fini_TypeDesc, "end" after it, or
                   \* "failed" when check_basic_refcnt stopped the program
          nxt,     \* the successor HashTable_Fini saved
          stolen,  \* a history: the borrowed references released as if owned
          leaked   \* a history: the references nobody is left to release

vars == <<heap, kept, stack, phase, nxt, stolen, leaked>>

(* Descriptors are numbered as they are allocated, which is their order in *)
(* the list of the table.                                                  *)
Cells == 1 .. MaxCells
IsBase(h, c) == h.type[c] \in BaseTypes

-----------------------------------------------------------------------------
(* References *)

(* How often c is in a sequence of descriptors.                            *)
Times(cs, c) == Cardinality({i \in DOMAIN cs : cs[i] = c})

Incref(h, c) == [h EXCEPT !.refcnt[c] = @ + 1]

IncrefAll(h, cs) == [h EXCEPT !.refcnt = [c \in Cells |-> @[c] + Times(cs, c)]]

(* TYPE_DECREF and TypeDesc_Free: the last reference takes the descriptor  *)
(* out of the table and drops those to its parts, and a NULL pointer is    *)
(* skipped.  The last reference to a base type stops the program           *)
(* (BaseFreed).  The memory of a freed descriptor keeps its count until it *)
(* is used again.  todo is what is still to be dropped, in the order of    *)
(* the recursion.                                                          *)
Stays(h, c) == h.refcnt[c] > 1 \/ c \notin h.live \/ IsBase(h, c)

DropKeepsParts(D) ==
  LET h == D.heap
      c == Head(D.todo)
      less == [h EXCEPT !.refcnt[c] = @ - 1]
  IN  IF c = None THEN [heap |-> h, todo |-> Tail(D.todo)]
      ELSE IF Stays(h, c) THEN [heap |-> less, todo |-> Tail(D.todo)]
      ELSE [heap |-> [less EXCEPT !.live = @ \ {c}, !.table = @ \ {c}], todo |-> Tail(D.todo)]
Drop(D) ==
  LET h == D.heap
      c == Head(D.todo)
      less == [h EXCEPT !.refcnt[c] = @ - 1]
  IN  IF c = None THEN [heap |-> h, todo |-> Tail(D.todo)]
      ELSE IF Stays(h, c) THEN [heap |-> less, todo |-> Tail(D.todo)]
      ELSE [heap |-> [less EXCEPT !.live = @ \ {c}, !.table = @ \ {c}],
            todo |-> h.parts[c] \o Tail(D.todo)]

(* TypeDesc_Free asserts that no base type comes to it.                    *)
BaseFreed == \E c \in heap.live : IsBase(heap, c) /\ heap.refcnt[c] <= 0

(* Every reference that is dropped was in cs or that of a descriptor to a  *)
(* part.                                                                   *)
Links(h) == UNION {{p} \X DOMAIN h.parts[p] : p \in h.live}
MostDrops(h, cs) == Len(cs) + Cardinality(Links(h))
DecrefAll(h, cs) ==
  LET after[n \in 0 .. MostDrops(h, cs)] ==
        IF n = 0 THEN [heap |-> h, todo |-> cs]
        ELSE IF after[n - 1].todo = <<>> THEN after[n - 1] ELSE Drop(after[n - 1])
  IN  after[MostDrops(h, cs)].heap

Decref(h, c) == DecrefAll(h, <<c>>)

-----------------------------------------------------------------------------
(* Interning *)

(* TypeDesc_Get_Base *)
GetBase(h, t) == CHOOSE c \in h.live : h.type[c] = t

FindNewest(h, t) == IF h.type[Max(h.table)] = t THEN Max(h.table) ELSE None

(* FindTypeDesc *)
Find(h, t) ==
  LET found == {c \in h.table : h.type[c] = t}
  IN  IF found = {} THEN None ELSE CHOOSE c \in found : TRUE

Unused(h) == {c \in Cells : h.type[c] = None}

(* new_typedesc: the one reference it starts with is the table's.          *)
Allocate(h, t, parts) ==
  LET c == Min(Unused(h))
  IN  [heap |-> [h EXCEPT !.type[c] = t, !.refcnt[c] = 1, !.parts[c] = parts,
                          !.live = @ \cup {c}, !.table = @ \cup {c}],
       cell |-> c]

(* TypeDesc_Get_Klass, _Array, _Map, _Set and _Varg: a new descriptor      *)
(* counts its parts.                                                       *)
Get(h, t, parts) ==
  IF Find(h, t) # None THEN [heap |-> h, cell |-> Find(h, t)]
  ELSE Allocate(IncrefAll(h, parts), t, parts)

GetProtoKeepsArgs(h, t, parts) ==
  IF Find(h, t) # None THEN [heap |-> h, cell |-> Find(h, t)]
  ELSE Allocate(h, t, parts)

(* TypeDesc_Get_Proto: the lists come with a reference to each element, and *)
(* are freed when an equal descriptor exists.                              *)
GetProto(h, t, parts) ==
  IF Find(h, t) # None THEN [heap |-> DecrefAll(h, parts), cell |-> Find(h, t)]
  ELSE Allocate(h, t, parts)

-----------------------------------------------------------------------------
(* init_basictypes: base descriptors start with two references.            *)
Init ==
  LET bases == SetToSeq(BaseTypes)
      first == 1 .. Len(bases)
  IN  /\ heap = [type   |-> [c \in Cells |-> IF c \in first THEN bases[c] ELSE None],
                 refcnt |-> [c \in Cells |-> IF c \in first THEN 2 ELSE 0],
                 parts  |-> [c \in Cells |-> <<>>],
                 live   |-> first,
                 table  |-> first]
      /\ kept = [u \in Users |-> None]
      /\ stack = <<>>
      /\ phase = "run"
      /\ nxt = None
      /\ stolen = [c \in Cells |-> 0]
      /\ leaked = [c \in Cells |-> 0]

Running == phase = "run" /\ Unused(heap) # {}

-----------------------------------------------------------------------------
(* The grammar's rules for types *)

(* On the stack of the parser are types, IdTypes of a list that is read,   *)
(* and lists that are NULL after an error: one of types, which may still   *)
(* be read on ("list"), or one that was given up ("error").  A type can be *)
(* NULL too: no descriptor is built on it, for TypeDesc_Get_Array, _Map,   *)
(* _Set and _Proto dereference it and the compiler crashes.                *)
Type(c) == [as |-> "type", cell |-> c]
IdType(c) == [as |-> "idtype", cell |-> c]
NoType == Type(None)
Null(list) == [as |-> list, cell |-> None]
NullLists == {"list", "error"}

Top(n) == SubSeq(stack, Len(stack) - n + 1, Len(stack))
Below(n) == SubSeq(stack, 1, Len(stack) - n)
CellsOf(items) == [i \in DOMAIN items |-> items[i].cell]

(* The descriptors whose references belong to items of the stack.          *)
Owned(items) == [i \in DOMAIN items |-> IF items[i].as = "idtype" THEN items[i].cell ELSE None]

TypeAt(c) == IF c = None THEN None ELSE heap.type[c]

(* An item for t, or for no type, replaces the top n.                      *)
Leave(n, t, item) ==
  /\ Append([i \in DOMAIN Below(n) |-> TypeAt(stack[i].cell)], t) \in Stacks
  /\ stack' = Append(Below(n), item)

(* The parts of t are on top of the stack, as types or as IdTypes.         *)
PartsRead(t, as) ==
  LET n == Len(PartsOf(t)) IN
  /\ n <= Len(stack)
  /\ \A i \in 1 .. n : Top(n)[i].as = as /\ TypeAt(Top(n)[i].cell) = PartsOf(t)[i]

PrimitiveType(t) ==
  /\ Running /\ Kind(t) = "base"
  /\ Leave(0, t, Type(GetBase(heap, t)))
  /\ UNCHANGED <<heap, kept, phase, nxt, stolen, leaked>>

(* KlassType, ArrayType, MapType, SetType and VArgType.                    *)
CompoundType(t) ==
  /\ Running /\ Kind(t) \notin {"base", "proto"} /\ PartsRead(t, "type")
  /\ LET n == Len(PartsOf(t))
         got == Get(heap, t, CellsOf(Top(n)))
     IN  /\ heap' = got.heap
         /\ Leave(n, t, Type(got.cell))
  /\ UNCHANGED <<kept, phase, nxt, stolen, leaked>>

(* A class of a package that is not imported, and FUNC error.              *)
NullType ==
  /\ phase = "run"
  /\ Leave(0, None, NoType)
  /\ UNCHANGED <<heap, kept, phase, nxt, stolen, leaked>>

(* TypeList, ParameterList, ReturnList: New_IdType keeps the type.         *)
ListType ==
  /\ phase = "run" /\ stack # <<>> /\ Last(stack).as = "type" /\ Last(stack) # NoType
  /\ heap' = Incref(heap, Last(stack).cell)
  /\ stack' = Append(Below(1), IdType(Last(stack).cell))
  /\ UNCHANGED <<kept, phase, nxt, stolen, leaked>>

(* FunctionType: the lists of types are counted once more for the          *)
(* prototype, then the IdTypes are freed.                                  *)
FunctionType(t) ==
  /\ Running /\ Kind(t) = "proto" /\ PartsRead(t, "idtype")
  /\ LET n == Len(PartsOf(t))
         parts == CellsOf(Top(n))
         got == GetProto(IncrefAll(heap, parts), t, parts)
     IN  /\ heap' = DecrefAll(got.heap, parts)
         /\ Leave(n, t, Type(got.cell))
  /\ UNCHANGED <<kept, phase, nxt, stolen, leaked>>

(* FunctionType with a list that is NULL: there is no type, and the other  *)
(* list is freed.                                                          *)
NullFunctionType ==
  /\ phase = "run"
  /\ \E n \in 1 .. Len(stack) :
       /\ LET nulls == {i \in 1 .. n : Top(n)[i].as \in NullLists}
          IN  /\ nulls \in {{1}, {n}} \/ (n = 2 /\ nulls = {1, 2})
              /\ \A i \in (1 .. n) \ nulls : Top(n)[i].as = "idtype"
       /\ heap' = DecrefAll(heap, Owned(Top(n)))
       /\ Leave(n, None, NoType)
  /\ UNCHANGED <<kept, phase, nxt, stolen, leaked>>

-----------------------------------------------------------------------------
(* Syntax errors *)

FewLeaks == FoldFunction(+, 0, leaked') <= MaxLeaked
MaySteal == FoldFunction(+, 0, stolen) < MaxStolen

(* Items of the given kinds and the types read after them.                 *)
HalfRead(items, kinds) ==
  \E m \in 0 .. Len(items) :
    \A i \in DOMAIN items : items[i].as \in (IF i <= m THEN kinds ELSE {"type"})

(* The error is found after a comma: the list before it is freed.          *)
ListError ==
  /\ phase = "run"
  /\ \E n \in 1 .. Len(stack) :
       /\ HalfRead(Top(n), {"idtype"}) /\ Top(n)[1].as = "idtype"
       /\ heap' = DecrefAll(heap, Owned(Top(n)))
       /\ Leave(n, None, Null("list"))
  /\ UNCHANGED <<kept, phase, nxt, stolen, leaked>>

(* Anywhere else bison pops the list up to its parenthesis, and the rules  *)
(* ParameterList: error and ReturnList: '(' error ')' go on without it.    *)
ListLost ==
  /\ phase = "run"
  /\ \E n \in 0 .. Len(stack) :
       /\ HalfRead(Top(n), {"idtype"} \cup NullLists)
       /\ leaked' = [c \in Cells |-> leaked[c] + Times(Owned(Top(n)), c)]
       /\ Leave(n, None, Null("error"))
  /\ FewLeaks
  /\ UNCHANGED <<heap, kept, phase, nxt, stolen>>

(* TypeList: TypeList ',' Type after such an error drops a reference to    *)
(* the type, which it does not have.                                       *)
TypeListError ==
  /\ phase = "run" /\ Len(stack) > 1 /\ MaySteal
  /\ LET c == Last(stack).cell
     IN  /\ stack[Len(stack) - 1].as = "list" /\ Last(stack) = Type(c) /\ c # None
         /\ heap' = Decref(heap, c)
         /\ stolen' = [stolen EXCEPT ![c] = @ + 1]
  /\ stack' = Below(1)
  /\ UNCHANGED <<kept, phase, nxt, leaked>>

(* The statement is given up, or the file is at its end: everything is     *)
(* popped.                                                                 *)
StatementError ==
  /\ phase = "run" /\ stack # <<>>
  /\ leaked' = [c \in Cells |-> leaked[c] + Times(Owned(stack), c)]
  /\ FewLeaks
  /\ stack' = <<>>
  /\ UNCHANGED <<heap, kept, phase, nxt, stolen>>

(* So is an expression or a statement, with the type it keeps.             *)
UserLost(u) ==
  /\ phase = "run" /\ kept[u] # None
  /\ leaked' = [leaked EXCEPT ![kept[u]] = @ + 1]
  /\ FewLeaks
  /\ kept' = [kept EXCEPT ![u] = None]
  /\ UNCHANGED <<heap, stack, phase, nxt, stolen>>

-----------------------------------------------------------------------------
(* Users of types *)

Free(u) == kept[u] = None
TypeRead == Len(stack) = 1 /\ stack[1].as = "type" /\ stack[1] # NoType

(* New_IdType, STable_Add_Var, Expr_From_Map, ...: keep the type of the    *)
(* source text.                                                            *)
Declare(u) ==
  /\ phase = "run" /\ Free(u) /\ TypeRead
  /\ heap' = Incref(heap, stack[1].cell)
  /\ kept' = [kept EXCEPT ![u] = stack[1].cell]
  /\ stack' = <<>>
  /\ UNCHANGED <<phase, nxt, stolen, leaked>>

(* A symbol or an expression takes over the type another user keeps.       *)
Share(u, v) ==
  /\ phase = "run" /\ stack = <<>> /\ Free(u) /\ ~ Free(v)
  /\ heap' = Incref(heap, kept[v])
  /\ kept' = [kept EXCEPT ![u] = kept[v]]
  /\ UNCHANGED <<stack, phase, nxt, stolen, leaked>>

Discard(u) ==
  /\ phase = "run" /\ stack = <<>> /\ ~ Free(u)
  /\ heap' = Decref(heap, kept[u])
  /\ kept' = [kept EXCEPT ![u] = None]
  /\ UNCHANGED <<stack, phase, nxt, stolen, leaked>>

(* Parser_New_Array on an expression [n][]T: the expression keeps T, and   *)
(* the borrowed descriptor of []T is released.                             *)
ArrayExpr(u) ==
  /\ phase = "run" /\ Free(u) /\ TypeRead /\ MaySteal
  /\ Kind(heap.type[stack[1].cell]) = "array"
  /\ LET c == stack[1].cell
         base == heap.parts[c][1]
     IN  /\ heap' = Decref(Incref(heap, base), c)
         /\ kept' = [kept EXCEPT ![u] = base]
         /\ stolen' = [stolen EXCEPT ![c] = @ + 1]
  /\ stack' = <<>>
  /\ UNCHANGED <<phase, nxt, leaked>>

-----------------------------------------------------------------------------
(* Fini_TypeDesc, once nobody keeps a descriptor: HashTable_Fini unlinks   *)
(* each one and desc_free_func drops the table's reference.                *)
NextInTable(c) ==
  LET later == {d \in heap.table : d > c} IN IF later = {} THEN None ELSE Min(later)

FiniBegin ==
  /\ phase = "run" /\ stack = <<>> /\ \A u \in Users : Free(u)
  /\ phase' = "fini"
  /\ nxt' = NextInTable(0)
  /\ UNCHANGED <<heap, kept, stack, stolen, leaked>>

FiniVisit ==
  /\ phase = "fini" /\ nxt # None
  /\ nxt' = NextInTable(nxt)
  /\ heap' = Decref([heap EXCEPT !.table = @ \ {nxt}], nxt)
  /\ UNCHANGED <<kept, stack, phase, stolen, leaked>>

(* check_basic_refcnt *)
BasesCounted == \A c \in heap.live : IsBase(heap, c) => heap.refcnt[c] = 1
FiniEnd ==
  /\ phase = "fini" /\ nxt = None
  /\ phase' = IF BasesCounted THEN "end" ELSE "failed"
  /\ UNCHANGED <<heap, kept, stack, nxt, stolen, leaked>>

Finished == phase \in {"end", "failed"}
Ended == (Finished \/ BaseFreed) /\ UNCHANGED vars

ReadType ==
  \/ \E t \in Types : PrimitiveType(t) \/ CompoundType(t) \/ FunctionType(t)
  \/ NullType \/ ListType \/ NullFunctionType
SyntaxError ==
  \/ ListError \/ ListLost \/ TypeListError \/ StatementError
  \/ \E u \in Users : UserLost(u)
UseType ==
  \E u \in Users : Declare(u) \/ ArrayExpr(u) \/ Discard(u) \/ \E v \in Users : Share(u, v)
Next == \/ ~ BaseFreed /\ (ReadType \/ SyntaxError \/ UseType)
        \/ ~ BaseFreed /\ (FiniBegin \/ FiniVisit \/ FiniEnd)
        \/ Ended

Spec == Init /\ [][Next]_vars

-----------------------------------------------------------------------------
(* Properties *)

TypeOK ==
  /\ heap \in [type   : [Cells -> Types \cup {None}],
               refcnt : [Cells -> Int],
               parts  : [Cells -> Seq(Cells)],
               live   : SUBSET Cells,
               table  : SUBSET Cells]
  /\ \A c \in heap.live : heap.type[c] # None /\ (IsBase(heap, c) \/ heap.refcnt[c] > 0)
  /\ kept \in [Users -> Cells \cup {None}]
  /\ stack \in Seq([as : {"type", "idtype", "list", "error"}, cell : Cells \cup {None}])
  /\ phase \in {"run", "fini", "end", "failed"} /\ nxt \in Cells \cup {None}
  /\ stolen \in [Cells -> Nat] /\ leaked \in [Cells -> Nat]

(* The references to c: its users', those of lists of types, its parents', *)
(* the table's, and the extra one of a base type.                          *)
Held(c) == Cardinality({u \in Users : kept[u] = c})
Listed(c) == Times(Owned(stack), c)
Inside(h, c) ==
  Cardinality({l \in Links(h) : h.parts[l[1]][l[2]] = c})
  + (IF c \in h.table THEN 1 ELSE 0) + (IF IsBase(h, c) THEN 1 ELSE 0)
References(c) == Held(c) + Listed(c) + Inside(heap, c)

(* Counting is exact on every path through Get, whether an equal           *)
(* descriptor existed or not: a count is short of just the borrowed        *)
(* references that were released, and beyond by just what bison popped.    *)
RefcntExact == \A c \in heap.live : heap.refcnt[c] + stolen[c] = References(c) + leaked[c]

(* Whatever a user keeps, the parser reads or a live descriptor is built   *)
(* from is live, and a type keeps its descriptor until Fini_TypeDesc,      *)
(* unless borrowed references to that very descriptor were released.       *)
NoDangling ==
  LET Sound(c) == c \in heap.live \/ stolen[c] > 0 IN
  /\ \A u \in Users : kept[u] # None => Sound(kept[u])
  /\ \A i \in DOMAIN stack : stack[i].cell # None => Sound(stack[i].cell)
  /\ phase = "run" => \A c \in Cells : heap.type[c] # None => Sound(c)
  /\ \A c \in heap.live : \A d \in Range(heap.parts[c]) : Sound(d)
  /\ nxt # None => nxt \in heap.table

(* Counts and references of every descriptor and of every holder of one    *)
(* (TYPE_INCREF and TYPE_DECREF in TypeDesc_Get_* and Fini_TypeDesc).      *)
Counted == TypeOK /\ RefcntExact /\ NoDangling

(* FindTypeDesc never returns a freed descriptor, and two types are equal  *)
(* exactly when their descriptors are the same pointer.                    *)
InternedOnce ==
  /\ heap.table \subseteq heap.live
  /\ \A c, d \in heap.live : heap.type[c] = heap.type[d] => c = d

(* The assertions on base types: that of TypeDesc_Free fails only when a   *)
(* borrowed reference to a base type was released, that of                 *)
(* check_basic_refcnt only when references were lost.  If none was, then   *)
(* nothing but the base types is left after Fini_TypeDesc, whatever        *)
(* borrowed references were released before.                               *)
FiniClean ==
  /\ BaseFreed => \E c \in heap.live : IsBase(heap, c) /\ stolen[c] > 0
  /\ Finished /\ (\A c \in Cells : leaked[c] = 0) =>
       phase = "end" /\ \A c \in heap.live : IsBase(heap, c) /\ heap.refcnt[c] = 1

=============================================================================
