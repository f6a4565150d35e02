------------------------------- MODULE Image -------------------------------
(***************************************************************************)
(* The .klc image (image.c, atomtable.c) between the compiler that writes  *)
(* it (Gen_Image in symbol.c, inst_gen in codegen.c) and the two programs  *)
(* that read it: the compiler again, when it imports the package           *)
(* (STable_From_Image), and the virtual machine (Pkg_From_Image).          *)
(*                                                                         *)
(* An image is a table of items for each kind; items refer to each other   *)
(* by index, and the ones that are interned are looked up by value before  *)
(* they are appended.  An index of the code is one less than here: its -1  *)
(* is Absent.  A type is <<"base", letter>>, <<"klass", path, name>>,      *)
(* <<"proto", args, rets>>, <<"array", dims, type>>, <<"varg", type>>,     *)
(* <<"map", key, value>> or <<"set", type>>.  Classes and traits are left  *)
(* out: the compiler does not get past analysing one.                      *)
(***************************************************************************)
EXTENDS Integers, Sequences, FiniteSets, SequencesExt, TLC

CONSTANTS Decls,          \* the symbols a package may have
          Public,         \* the names that begin with a capital (IsAccess)
          None,
          OperandLimit,   \* how many constants a 2-byte operand tells apart
          MaxDecls        \* bound: symbols of a package

VARIABLES phase,    \* "generating", "finished", "written", "loaded", "rejected"
          symbols,  \* history: the symbols generated so far
          table,    \* the compiler's AtomTable
          fault,    \* the assertion or the access that failed
          file,     \* the file on disk
          mode,     \* who reads it: "run" or "import"
          loaded,   \* the reader's AtomTable
          package   \* what the reader makes of it

vars == <<phase, symbols, table, fault, file, mode, loaded, package>>

(* ITEM_XXX, in the order in which they are written.                       *)
Order == <<"string", "type", "typelist", "proto", "const", "locvar", "var", "func", "code",
           "nfunc">>
Kinds == ToSet(Order)
Absent == 0
Asserted == -1

(* The compiler's table and its failed assertion go through every helper,  *)
(* which also returns the index of the item.                               *)
At(S, index) == [s |-> S, index |-> index]
Fail(S, why) == At([S EXCEPT !.fault = IF @ = "none" THEN why ELSE @], 1)

(* AtomTable_Append without and with the check that the item is new.       *)
Added(S, kind, item) ==
  At([S EXCEPT !.table[kind] = Append(@, item)], Len(S.table[kind]) + 1)
Index(S, kind, item) == SelectInSeq(S.table[kind], LAMBDA x : x = item)
AddedNew(S, kind, item) ==
  IF Index(S, kind, item) = Absent THEN Added(S, kind, item) ELSE Fail(S, "duplicate")
Interned(S, kind, item) ==
  IF Index(S, kind, item) = Absent THEN Added(S, kind, item)
  ELSE At(S, Index(S, kind, item))

-----------------------------------------------------------------------------
(* Types *)

(* TypeItem_Get: a function type whose list of arguments or results is not *)
(* in the table is looked up as if that list were empty.                   *)
TypeItem(kind, a, b) == <<kind, None, a, b>>
BaseItem(letter) == <<"base", letter, Absent, Absent>>

IndexOfList(S, found) ==
  LET missing == SelectInSeq(found, LAMBDA i : i <= Absent)
  IN  CASE found = <<>> -> Absent
        [] missing # 0  -> found[missing]
        [] OTHER        -> Index(S, "typelist", found)
IndexOfProto(S, r, a) ==
  IF Asserted \in {r, a} THEN Asserted ELSE Index(S, "proto", <<r, a>>)
IndexOfType(S, type, item) ==
  CASE Asserted \in {item[3], item[4]} -> Asserted
    [] type[1] = "klass" /\ item[3] = Absent /\ type[2] # None -> Absent
    [] OTHER -> Index(S, "type", item)

RECURSIVE TypeGet(_, _)
ListGet(S, list) == IndexOfList(S, [i \in DOMAIN list |-> TypeGet(S, list[i])])
TypeGet(S, type) ==
  LET kind == type[1]
  IN  IndexOfType(S, type,
        CASE kind = "base"  -> BaseItem(type[2])
          [] kind = "klass" -> TypeItem(kind, Index(S, "string", type[2]),
                                        Index(S, "string", type[3]))
          [] kind = "proto" -> TypeItem(kind, IndexOfProto(S, ListGet(S, type[3]),
                                                           ListGet(S, type[2])), Absent)
          [] kind = "array" -> TypeItem(kind, type[2], TypeGet(S, type[3]))
          [] kind = "varg"  -> TypeItem(kind, TypeGet(S, type[2]), Absent)
          [] OTHER          -> TypeItem(kind, Asserted, Absent))

StringSetAgain(S, name) == Added(S, "string", name)
StringSet(S, name) == Interned(S, "string", name)

(* TypeItem_Set, TypeListItem_Set and ProtoItem_Set: the parts first, one  *)
(* after the other, and then the item made of their indices.               *)
RECURSIVE Part(_, _)
Push(P, R) == [s |-> R.s, list |-> Append(P.list, R.index)]
Parts(S, parts) ==
  FoldLeft(LAMBDA P, part : Push(P, Part(P.s, part)), [s |-> S, list |-> <<>>], parts)

ListFrom(P) == AddedNew(P.s, "typelist", P.list)
ProtoFrom(P) == Interned(P.s, "proto", P.list)
TypeFrom(P, kind, a, b) == AddedNew(P.s, "type", TypeItem(kind, a, b))
OnePart(P, kind) == TypeFrom(P, kind, P.list[1], Absent)
TwoParts(P, kind) == TypeFrom(P, kind, P.list[1], P.list[2])
ArrayFrom(P, dims) == TypeFrom(P, "array", dims, P.list[1])

ListNew(S, list) == ListFrom(Parts(S, [i \in DOMAIN list |-> <<"type", list[i]>>]))
ProtoSet(S, type) == ProtoFrom(Parts(S, <<<<"list", type[3]>>, <<"list", type[2]>>>>))
TypeNew(S, type) ==
  LET kind == type[1]
  IN  CASE kind = "base"  -> AddedNew(S, "type", BaseItem(type[2]))
        [] kind = "klass" -> TwoParts(Parts(S, <<<<"string", type[2]>>, <<"string", type[3]>>>>),
                                      kind)
        [] kind = "proto" -> OnePart(Parts(S, <<type>>), kind)
        [] kind = "array" -> ArrayFrom(Parts(S, <<<<"type", type[3]>>>>), type[2])
        [] kind = "varg"  -> OnePart(Parts(S, <<<<"type", type[2]>>>>), kind)

ListSet(S, list, found) ==
  CASE list = <<>>      -> At(S, Absent)
    [] found = Asserted -> Fail(S, "type")
    [] found # Absent   -> At(S, found)
    [] OTHER            -> ListNew(S, list)
TypeSet(S, type, found) ==
  CASE found = Asserted -> Fail(S, "type")
    [] found # Absent   -> At(S, found)
    [] OTHER            -> TypeNew(S, type)

Part(S, part) ==
  CASE part[1] = "string" -> IF part[2] = None THEN At(S, Absent) ELSE StringSet(S, part[2])
    [] part[1] = "list"   -> ListSet(S, part[2], ListGet(S, part[2]))
    [] part[1] = "type"   -> TypeSet(S, part[2], TypeGet(S, part[2]))
    [] part[1] = "proto"  -> ProtoSet(S, part)

-----------------------------------------------------------------------------
(* Constants and code *)

(* ConstItem_Get and the KImage_Add_XXX of constants.  Floats and booleans *)
(* are hashed by the address of the item and booleans compared by it: a    *)
(* boolean is never found, and an equal float only when the two addresses  *)
(* fall in one bucket, where an append that meets it fails its assertion;  *)
(* luck says which, for all the floats of one function.                    *)
Luck == {"found", "missed", "clash"}
ConstSet(S, const, luck) ==
  LET old == Index(S, "const", const)
      lucky == IF const[1] = "float" /\ old # Absent THEN luck ELSE "none"
  IN  CASE const[1] = "bool" \/ lucky = "missed" -> Added(S, "const", const)
        [] lucky = "clash" -> Fail(S, "duplicate")
        [] OTHER -> Interned(S, "const", const)
ConstFrom(N) == Interned(N.s, "const", <<"string", N.index>>)
ConstOf(S, const, luck) ==
  IF const[1] = "string" THEN ConstFrom(StringSet(S, const[2])) ELSE ConstSet(S, const, luck)

(* inst_gen: the operand of an instruction and its bytes.  The compiler    *)
(* emits LOAD_0, which pushes self, before every call and every use of a   *)
(* field, and that is an instruction inst_gen does not know.               *)
Operand(S, inst, luck) ==
  CASE inst.op = "LOAD_CONST" -> ConstOf(S, inst.arg, luck)
    [] inst.op \in {"LOAD", "STORE"} -> At(S, inst.arg % 256)
    [] inst.op = "RETURN" -> At(S, 0)
    [] inst.op = "LOAD_0" -> Fail(S, "opcode")
Emit(C, op, O) ==
  LET arg == IF op = "LOAD_CONST" THEN (O.index - 1) % OperandLimit ELSE O.index
  IN  [s |-> O.s, code |-> Append(C.code, [op |-> op, arg |-> arg])]
Bytes(op) == CASE op = "LOAD_CONST" -> 3 [] op \in {"LOAD", "STORE"} -> 2 [] OTHER -> 1

(* CodeBlock_To_RawCode                                                    *)
RawCode(S, code, luck) ==
  FoldLeft(LAMBDA C, inst : Emit(C, inst.op, Operand(C.s, inst, luck)),
           [s |-> S, code |-> <<>>], code)

-----------------------------------------------------------------------------
(* Symbols: the __symbol_gen of a variable or constant, a native function  *)
(* and a function, and KImage_Add_Var, _NFunc, _Func and _LocVar.          *)

AddVar(P, konst) ==
  Added(P.s, "var", [name |-> P.list[2], type |-> P.list[1], konst |-> konst]).s
GenVar(S, d) == AddVar(Parts(S, <<<<"type", d.type>>, <<"string", d.name>>>>), d.kind = "const")

AddNFunc(P) == Added(P.s, "nfunc", [name |-> P.list[1], proto |-> P.list[2]]).s
GenNative(S, d) == AddNFunc(Parts(S, <<<<"string", d.name>>, d.type>>))

AddLocVar(P, pos, func) ==
  Added(P.s, "locvar", [name |-> P.list[2], type |-> P.list[1], pos |-> pos, func |-> func]).s
AddLocVars(S, locvars, func) ==
  FoldLeft(LAMBDA T, l : AddLocVar(Parts(T, <<<<"type", l.type>>, <<"string", l.name>>>>),
                                   l.pos, func),
           S, locvars)
AddFunc(P, C) ==
  Added(C.s, "func", [name |-> P.list[1], proto |-> P.list[2], code |-> C.index])
AddCodeFunc(P, code) == AddFunc(P, Added(P.s, "code", code))
FuncParts(C, d) == AddCodeFunc(Parts(C.s, <<<<"string", d.name>>, d.type>>), C.code)
AddFuncLocVars(F, locvars) == AddLocVars(F.s, locvars, F.index)
GenFunc(S, d, luck) == AddFuncLocVars(FuncParts(RawCode(S, d.code, luck), d), d.locvars)

GenSymbol(S, d, luck) ==
  CASE d.kind \in {"var", "const"} -> GenVar(S, d)
    [] d.kind = "native"           -> GenNative(S, d)
    [] d.kind = "func"             -> GenFunc(S, d, luck)

-----------------------------------------------------------------------------
(* The file *)

Total(numbers) == FoldLeft(LAMBDA a, b : a + b, 0, numbers)
HeaderBytes == 96
MapBytes == 12

(* The xxxitem_length functions.                                           *)
ItemBytes(kind, item) ==
  CASE kind = "map" -> MapBytes
    [] kind = "string" -> 4 + Len(item) + 1
    [] kind = "typelist" -> 4 + 4 * Len(item)
    [] kind = "code" -> 4 + Total([i \in DOMAIN item |-> Bytes(item[i].op)])
    [] kind = "proto" -> 8
    [] kind \in {"const", "locvar"} -> 16
    [] kind \in {"type", "var", "func", "nfunc"} -> 12
KindBytes(t, kind) == Total([i \in DOMAIN t[kind] |-> ItemBytes(kind, t[kind][i])])

(* KImage_Finish: a map item for each kind there is, with the offset of    *)
(* its first item, and the size of the file.                               *)
Present(t) == SelectSeq(Order, LAMBDA k : t[k] # <<>>)
FirstOffsetNoMap(t) == HeaderBytes
FirstOffset(t) == HeaderBytes + MapBytes * Len(Present(t))
MapOf(t) ==
  FoldLeft(LAMBDA M, k :
             [offset |-> M.offset + KindBytes(t, k),
              items  |-> Append(M.items, [kind |-> k, offset |-> M.offset, size |-> Len(t[k])])],
           [offset |-> FirstOffset(t), items |-> <<>>], Present(t))

(* __image_write_items: the items one after the other, behind the header.  *)
Cell(kind, item) == [kind |-> kind, item |-> item]
CellsOf(t) ==
  FlattenSeq(<<[i \in DOMAIN MapOf(t).items |-> Cell("map", MapOf(t).items[i])]>>
             \o [k \in DOMAIN Order |->
                  [i \in DOMAIN t[Order[k]] |-> Cell(Order[k], t[Order[k]][i])]])
Starts(cells) ==
  FoldLeft(LAMBDA P, c : Append(P, P[Len(P)] + ItemBytes(c.kind, c.item)),
           <<HeaderBytes>>, cells)
FileOf(t, cells, length) ==
  [map_size |-> Len(Present(t)), file_size |-> MapOf(t).offset, cells |-> cells,
   starts |-> Starts(cells), length |-> length]
NoFile == [map_size |-> 0, file_size |-> 0, cells |-> <<>>, starts |-> <<>>, length |-> 0]

(* The first fread calls of KImage_Read_File: what they cannot read is not *)
(* a valid .klc file.                                                      *)
Rejected(f) == f.length < HeaderBytes + MapBytes * f.map_size

(* The items of one kind are read from the map's offset on, each to its    *)
(* end.  fread of the code of an empty function reads nothing, which an    *)
(* assertion takes for a failure.                                          *)
LastItem(first, size) == first + size - 1
ReadKind(f, m) ==
  LET first == SelectInSeq(f.starts, LAMBDA p : p = m.offset)
      last  == LastItem(first, m.size)
      block == SubSeq(f.cells, first, last)
  IN  CASE first = 0 \/ last > Len(f.cells) \/ \E i \in DOMAIN block : block[i].kind # m.kind ->
             [items |-> <<>>, fault |-> "garbage"]
        [] f.starts[last + 1] > f.length -> [items |-> <<>>, fault |-> "truncated"]
        [] m.kind = "code" /\ \E i \in DOMAIN block : block[i].item = <<>> ->
             [items |-> <<>>, fault |-> "empty_code"]
        [] OTHER -> [items |-> [i \in DOMAIN block |-> block[i].item], fault |-> "none"]

(* NOT_LOAD_ITEMS                                                          *)
Unload(m) == IF m = "import" THEN {"code", "locvar", "const"} ELSE {}
Loadable(f, m) ==
  SelectSeq([i \in 1 .. f.map_size |-> f.cells[i].item], LAMBDA e : e.kind \notin Unload(m))

Repeats(seq) == \E i, j \in DOMAIN seq : i # j /\ seq[i] = seq[j]
Floats(consts) == SelectSeq(consts, LAMBDA c : c[1] = "float")

(* The rest of KImage_Read_File, which appends what it reads to a new      *)
(* table; equal floats may meet in a bucket again.                         *)
EmptyTable == [k \in Kinds |-> <<>>]
ReadFile(f, m, clash) ==
  LET R == FoldLeft(LAMBDA S, e :
                      LET K == ReadKind(f, e)
                      IN  IF S.fault # "none" THEN S
                          ELSE [table |-> [S.table EXCEPT ![e.kind] = K.items],
                                fault |-> K.fault],
                    [table |-> EmptyTable, fault |-> "none"], Loadable(f, m))
  IN  IF R.fault = "none" /\ clash /\ Repeats(Floats(R.table["const"]))
      THEN [R EXCEPT !.fault = "duplicate"] ELSE R

-----------------------------------------------------------------------------
(* What the readers make of the items *)

(* TypeItem_To_TypeDesc, ProtoItem_To_TypeDesc and TypeListItem_To_Vector. *)
RECURSIVE TypeOf(_, _)
ListOf(t, i) ==
  IF i = Absent THEN <<>>
  ELSE [j \in DOMAIN t["typelist"][i] |-> TypeOf(t, t["typelist"][i][j])]
ProtoOf(t, i) == <<"proto", ListOf(t, t["proto"][i][2]), ListOf(t, t["proto"][i][1])>>
TypeOf(t, i) ==
  LET item == t["type"][i]  kind == item[1] IN
  CASE kind = "base"  -> <<kind, item[2]>>
    [] kind = "klass" -> <<kind, IF item[3] = Absent THEN None ELSE t["string"][item[3]],
                           t["string"][item[4]]>>
    [] kind = "proto" -> ProtoOf(t, item[3])
    [] kind = "array" -> <<kind, item[3], TypeOf(t, item[4])>>
    [] kind = "varg"  -> <<kind, TypeOf(t, item[3])>>

(* KImage_Get_Vars, _Funcs, _NFuncs and, for one function, _LocVars.       *)
Vars(t) ==
  [i \in DOMAIN t["var"] |->
     LET v == t["var"][i]
     IN  [kind |-> IF v.konst THEN "const" ELSE "var",
          name |-> t["string"][v.name], type |-> TypeOf(t, v.type)]]
EveryLocVar(t, func) == t["locvar"]
OwnLocVars(t, func) == SelectSeq(t["locvar"], LAMBDA l : l.func = func)
LocVars(t, func) ==
  LET mine == OwnLocVars(t, func)
  IN  [i \in DOMAIN mine |-> [name |-> t["string"][mine[i].name],
                              type |-> TypeOf(t, mine[i].type), pos |-> mine[i].pos]]
Funcs(t) ==
  [i \in DOMAIN t["func"] |->
     LET f == t["func"][i]
     IN  [kind |-> "func", name |-> t["string"][f.name], type |-> ProtoOf(t, f.proto),
          code |-> IF f.code \in DOMAIN t["code"] THEN t["code"][f.code] ELSE <<>>,
          locvars |-> LocVars(t, i)]]
Natives(t) ==
  [i \in DOMAIN t["nfunc"] |->
     LET n == t["nfunc"][i]
     IN  [kind |-> "native", name |-> t["string"][n.name], type |-> ProtoOf(t, n.proto)]]

(* STable_From_Image keeps the public symbols.                             *)
SymbolTable(t) ==
  [consts |-> <<>>,
   symbols |-> SelectSeq(Vars(t) \o Funcs(t) \o Natives(t), LAMBDA s : s.name \in Public)]

(* Pkg_From_Image: the constants, variables and functions; native          *)
(* functions are not loaded.  __getconstfunc makes no object for a float   *)
(* or a boolean and puts what its uninitialized variable holds into the    *)
(* tuple: the object made last, which stayed in the same place, or other   *)
(* storage (Stray), whose first word Tuple_Set takes for a reference count *)
(* and increments, if it can be written at all.                            *)
Unmade(t) == {i \in DOMAIN t["const"] : t["const"][i][1] \in {"float", "bool"}}
Stray == <<"stray", None>>
ConstObject(t, const) ==
  IF const[1] = "string" THEN <<"string", t["string"][const[2]]>> ELSE const
LastMade(t, i) ==
  LET made == {j \in 1 .. i - 1 : j \notin Unmade(t)}
  IN  IF made = {} THEN Stray ELSE ConstObject(t, t["const"][Max(made)])
ConstTuples(t) ==
  { [i \in DOMAIN t["const"] |->
       CASE i \notin Unmade(t) -> ConstObject(t, t["const"][i])
         [] i \in stray        -> Stray
         [] OTHER              -> LastMade(t, i)] : stray \in SUBSET Unmade(t) }
RunPackages(t) == {[consts |-> c, symbols |-> Vars(t) \o Funcs(t)] : c \in ConstTuples(t)}

(* Storage that cannot be written ends the program there; no object is     *)
(* made for a uchar; and Pkg_Add_Const counts the reference of a constant  *)
(* symbol's value, which is NULL.                                          *)
RunFaults(t) ==
  LET uchar == SelectInSeq(t["const"], LAMBDA c : c[1] = "uchar")
  IN  (IF \E i \in Unmade(t) : uchar = 0 \/ i < uchar THEN {"const_object"} ELSE {})
      \cup { CASE uchar # 0 -> "uchar"
              [] \E i \in DOMAIN t["var"] : t["var"][i].konst -> "const_value"
              [] OTHER -> "none" }

-----------------------------------------------------------------------------
(* A package is compiled, written and read *)

NoPackage == [consts |-> <<>>, symbols |-> <<>>]

Init ==
  /\ phase = "generating" /\ symbols = <<>> /\ table = EmptyTable /\ fault = "none"
  /\ file = NoFile /\ mode = "none" /\ loaded = EmptyTable /\ package = NoPackage

Names == {symbols[i].name : i \in DOMAIN symbols}
UsesFloats(d) ==
  d.kind = "func" /\ \E i \in DOMAIN d.code :
                       d.code[i].op = "LOAD_CONST" /\ d.code[i].arg[1] = "float"

(* Gen_Image visits the symbols in the order of its hash table: any order. *)
Generate ==
  /\ phase = "generating" /\ fault = "none" /\ Len(symbols) < MaxDecls
  /\ \E d \in {e \in Decls : e.name \notin Names} :
       \E luck \in IF UsesFloats(d) THEN Luck ELSE {"missed"} :
         LET S == GenSymbol([table |-> table, fault |-> "none"], d, luck)
         IN  /\ symbols' = Append(symbols, d)
             /\ fault' = S.fault
             /\ table' = IF S.fault = "none" THEN S.table ELSE table
  /\ UNCHANGED <<phase, file, mode, loaded, package>>

(* Every package has the function __init__: Build_AST makes an empty one   *)
(* if the source has none.  The compiler may be killed before the file is  *)
(* complete; where it is cut within the items of a kind makes no           *)
(* difference to the reader.                                               *)
Cuts(t) == {0, HeaderBytes, MapOf(t).offset} \cup {m.offset : m \in ToSet(MapOf(t).items)}
Write ==
  /\ phase = "generating" /\ fault = "none" /\ "__init__" \in Names
  /\ LET cells == CellsOf(table)
     IN  \E length \in Cuts(table) : file' = FileOf(table, cells, length)
  /\ phase' = "written"
  /\ UNCHANGED <<symbols, table, fault, mode, loaded, package>>

Reject ==
  /\ phase = "written" /\ Rejected(file)
  /\ phase' = "rejected"
  /\ UNCHANGED <<symbols, table, fault, file, mode, loaded, package>>

Finished(R, m) ==
  /\ mode' = m /\ loaded' = R.table
  /\ fault' \in IF m = "run" /\ R.fault = "none" THEN RunFaults(R.table) ELSE {R.fault}
  /\ phase' = IF fault' = "none" THEN "loaded" ELSE phase
  /\ package' \in CASE fault' # "none" -> {NoPackage}
                    [] m = "import"    -> {SymbolTable(R.table)}
                    [] m = "run"       -> RunPackages(R.table)

Read(m) ==
  /\ phase = "written" /\ fault = "none" /\ ~ Rejected(file)
  /\ \E clash \in IF Repeats(Floats(table["const"])) THEN BOOLEAN ELSE {FALSE} :
       Finished(ReadFile(file, m, clash), m)
  /\ UNCHANGED <<symbols, table, file>>
Import == Read("import")
Run == Read("run")

Ended ==
  /\ phase \in {"loaded", "rejected"} \/ fault # "none" \/ Len(symbols) = MaxDecls
  /\ UNCHANGED vars

Next == Generate \/ Write \/ Reject \/ Import \/ Run \/ Ended

Spec == Init /\ [][Next]_vars

-----------------------------------------------------------------------------
(* Properties *)

(* The interned kinds hold every value once: neither the lookup that       *)
(* treats a missing list as an empty one nor parts that are added while a  *)
(* type is added lead to a second item, on which AtomTable_Append and      *)
(* KImage_Read_File would stop.  Only floats and booleans repeat.          *)
Exact(consts) == SelectSeq(consts, LAMBDA c : c[1] \notin {"float", "bool"})
NoDuplicates ==
  /\ \A kind \in {"string", "type", "typelist", "proto"} : ~ Repeats(table[kind])
  /\ ~ Repeats(Exact(table["const"]))

(* Every index that an item holds names an item, and a type's parts come   *)
(* before it, so that decoding a type ends.                                *)
Has(kind, i) == i \in DOMAIN table[kind]
TypesInside(list, i) == list = Absent \/ \A j \in ToSet(table["typelist"][list]) : j < i
ReferencesValid ==
  /\ \A i \in DOMAIN table["type"] :
       LET item == table["type"][i] IN
       CASE item[1] = "base"  -> TRUE
         [] item[1] = "klass" -> /\ Has("string", item[4])
                                 /\ item[3] \in {Absent} \cup DOMAIN table["string"]
         [] item[1] = "proto" -> /\ Has("proto", item[3])
                                 /\ \A list \in ToSet(table["proto"][item[3]]) :
                                      TypesInside(list, i)
         [] item[1] = "array" -> item[4] \in 1 .. i - 1
         [] item[1] = "varg"  -> item[3] \in 1 .. i - 1
  /\ \A l \in ToSet(table["typelist"]) : \A i \in ToSet(l) : Has("type", i)
  /\ \A p \in ToSet(table["proto"]) :
       \A list \in ToSet(p) : list \in {Absent} \cup DOMAIN table["typelist"]
  /\ \A c \in ToSet(table["const"]) : c[1] = "string" => Has("string", c[2])
  /\ \A v \in ToSet(table["var"]) \cup ToSet(table["locvar"]) :
       Has("string", v.name) /\ Has("type", v.type)
  /\ \A l \in ToSet(table["locvar"]) : Has("func", l.func)
  /\ \A f \in ToSet(table["func"]) : Has("code", f.code)

Consistent == NoDuplicates /\ ReferencesValid

(* A complete image is read back as it was written: the offsets that       *)
(* KImage_Finish computes are where the items are, and a file that was cut *)
(* off is only accepted where nothing that is needed is missing.           *)
ReadBack ==
  phase = "loaded" =>
    \A kind \in Kinds :
      loaded[kind] = IF kind \in Unload(mode) THEN <<>> ELSE table[kind]

(* The worst that happens to a type: a function type inside it lost the    *)
(* list of its arguments or of its results.                                *)
RECURSIVE Weakens(_, _)
ListWeakens(x, y) ==
  x = <<>> \/ (Len(x) = Len(y) /\ \A i \in DOMAIN x : Weakens(x[i], y[i]))
Weakens(x, y) ==
  /\ x[1] = y[1]
  /\ CASE x[1] \in {"base", "klass"} -> x = y
       [] x[1] = "proto" -> ListWeakens(x[2], y[2]) /\ ListWeakens(x[3], y[3])
       [] x[1] = "array" -> x[2] = y[2] /\ Weakens(x[3], y[3])
       [] x[1] = "varg"  -> Weakens(x[2], y[2])
(* The lists of a function that is declared are never lost.                *)
SameLists(x, y) == Len(x) = Len(y) /\ \A i \in DOMAIN x : Weakens(x[i], y[i])
SameType(x, d) ==
  IF d.kind \in {"var", "const"} THEN Weakens(x, d.type)
  ELSE SameLists(x[2], d.type[2]) /\ SameLists(x[3], d.type[3])

(* The constant that an instruction's operand leads to is its own, but for *)
(* a float or a boolean, in whose place there is any object or none.  Past *)
(* OperandLimit constants the operand has only the low part of the index:  *)
(* its constant is one of those that it may mean.                          *)
SameConst(x, const) == const[1] \in {"float", "bool"} \/ x = const
SameCode(x, code, consts) ==
  /\ Len(x) = Len(code)
  /\ \A i \in DOMAIN x :
       /\ x[i].op = code[i].op
       /\ CASE x[i].op = "LOAD_CONST" ->
                 \E j \in DOMAIN consts : /\ (j - 1) % OperandLimit = x[i].arg
                                          /\ SameConst(consts[j], code[i].arg)
            [] x[i].op \in {"LOAD", "STORE"} -> x[i].arg = code[i].arg
            [] OTHER -> TRUE
SameLocals(x, locvars) ==
  /\ Len(x) = Len(locvars)
  /\ \A i \in DOMAIN x : /\ x[i].name = locvars[i].name /\ x[i].pos = locvars[i].pos
                         /\ Weakens(x[i].type, locvars[i].type)

(* What a reader gets is what was declared, symbol by symbol, with its own *)
(* local variables and the constants its code loads: the public symbols    *)
(* when the package is imported, all but native functions when it is run.  *)
Of(kinds) == SelectSeq(symbols, LAMBDA d : d.kind \in kinds)
Declared ==
  IF mode = "run" THEN Of({"var"}) \o Of({"func"})
  ELSE SelectSeq(Of({"var", "const"}) \o Of({"func"}) \o Of({"native"}),
                 LAMBDA d : d.name \in Public)
Faithful ==
  phase = "loaded" =>
    /\ Len(package.symbols) = Len(Declared)
    /\ \A i \in DOMAIN Declared :
         LET x == package.symbols[i]  d == Declared[i]
         IN  /\ x.kind = d.kind /\ x.name = d.name /\ SameType(x.type, d)
             /\ mode = "run" /\ d.kind = "func" =>
                  SameCode(x.code, d.code, package.consts) /\ SameLocals(x.locvars, d.locvars)

(* What the compiler declared comes back from the file, through the tables *)
(* item by item and through the packages symbol by symbol.                 *)
RoundTrips == ReadBack /\ Faithful

(* The compiler and the readers stop only for these reasons.  A package    *)
(* with an empty function, a uchar or a constant symbol is never run; one  *)
(* with a float or a boolean may be, if the storage that is taken for its  *)
(* object can be written.                                                  *)
RECURSIVE HasMap(_)
HasMap(type) ==
  CASE type[1] \in {"map", "set"} -> TRUE
    [] type[1] \in {"base", "klass"} -> FALSE
    [] type[1] = "proto" -> \E t \in ToSet(type[2]) \cup ToSet(type[3]) : HasMap(t)
    [] type[1] = "array" -> HasMap(type[3])
    [] type[1] = "varg"  -> HasMap(type[2])
TypesIn(d) == {d.type} \cup (IF d.kind = "func" THEN {l.type : l \in ToSet(d.locvars)} ELSE {})
Functions == ToSet(Of({"func"}))
Loads(kind) ==
  {<<d, i>> \in Functions \X (1 .. 9) :
     i \in DOMAIN d.code /\ d.code[i].op = "LOAD_CONST" /\ d.code[i].arg[1] = kind}
EmptyFunction == \E d \in Functions : d.code = <<>>
FaultsExplained ==
  /\ CASE fault = "none"       -> TRUE
       [] fault = "type"       -> \E d \in ToSet(symbols) : \E t \in TypesIn(d) : HasMap(t)
       [] fault = "opcode"     -> \E d \in Functions : \E i \in DOMAIN d.code :
                                    d.code[i].op = "LOAD_0"
       [] fault = "duplicate"  -> Cardinality(Loads("float")) > 1
       [] fault = "truncated"  -> file.length < file.file_size
       [] fault = "empty_code" -> mode = "run" /\ EmptyFunction
       [] fault = "uchar"      -> mode = "run" /\ Loads("uchar") # {}
       [] fault = "const_object" -> mode = "run" /\ Loads("float") \cup Loads("bool") # {}
       [] fault = "const_value" -> mode = "run" /\ Of({"const"}) # <<>>
       [] OTHER                -> FALSE
  /\ phase = "rejected" => file.length < file.file_size
  /\ phase = "loaded" /\ mode = "run" =>
       ~ EmptyFunction /\ Loads("uchar") = {} /\ Of({"const"}) = <<>>
=============================================================================
