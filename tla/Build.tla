------------------------------- MODULE Build -------------------------------
(***************************************************************************)
(* koalac from its arguments to the images it writes: koalac.c, the        *)
(* imports and declarations of ast.c, and the tables of symbol.c.          *)
(*                                                                         *)
(* The source files and the images stay on disk from one run to the next,  *)
(* and a user saves and removes files whenever he likes.  A run first      *)
(* builds the AST of every file of every group, which can add groups for   *)
(* imported packages, and then analyses the groups in order and writes an  *)
(* image for each that has no errors.  It may be killed at any step.       *)
(*                                                                         *)
(* A type is only present or missing (Scopes has the types).  A failed     *)
(* assertion and a null pointer stop the compiler (fault).                 *)
(***************************************************************************)
EXTENDS Integers, Sequences, FiniteSets, SequencesExt

CONSTANTS None,
          Names,        \* the identifiers of source files
          Public,       \* the names that begin with a capital letter
          InitName,     \* __init__
          Roots, Paths, \* a package lies at a path below a root
          Files,        \* the names of source files
          Disks,        \* what may be on disk at the beginning
          Saves,        \* the [dir, file, text] a user may save
          Setups,       \* the [src, out, pathes, args] of a command line
          MaxErrors,    \* MAX_ERRORS
          MaxClock, MaxEdits, MaxRuns   \* bounds

(* Source files: the package clause, unless it is missing, the imports and *)
(* the declarations.  Only a variable can do without a type.               *)
Exps == [kind : {"none", "const"}] \cup [kind : {"id"}, name : Names]
          \cup [kind : {"attr"}, via : Names, name : Names]
SourceDecls == [name : Names, kind : {"var", "class"}, typed : BOOLEAN, exp : Exps]
                 \cup [name : Names, kind : {"func"}, typed : {TRUE}, exp : Exps]
SourceImps == [id : Names \cup {None, "."}, path : Paths]
SourceTexts == [pkg : Names \cup {None}, imports : Seq(SourceImps), decls : Seq(SourceDecls)]

(* Directories of source files, tables and images.                        *)
Map(f, D, R) == DOMAIN f \subseteq D /\ f \in [DOMAIN f -> R]
Dirs == Roots \X Paths
Listed(l) == Map(l, Files, [text : SourceTexts, at : Nat])
Symbols == [kind : {"var", "func", "class"}, typed : BOOLEAN, file : Files]
Table(t) == Map(t, Names, Symbols)
Image(i) ==
  /\ i \in [name : Names \cup {""}, table : {i.table}, code : {i.code}, at : Nat,
            cut : {"no", "rejected", "stops"}, dir : Dirs, opened : Nat, made : {i.made}]
  /\ Table(i.table) /\ Map(i.made, Files, SourceTexts)

(* The files of a directory that an image lacks: it was made before they   *)
(* were saved.                                                             *)
MissedSaves(i, present) ==
  {f \in DOMAIN present : ~ (f \in DOMAIN i.made /\ i.made[f] = present[f].text)}

Rules == INSTANCE ImportRules
Complete(i) == \A n \in Rules!Declared(i.made) : n \in DOMAIN i.table /\ i.table[n].typed

(* The images at the beginning were written by earlier runs: those that    *)
(* were finished lack nothing their files declare, and what they missed    *)
(* was saved after the compiler had opened the directory, before now.      *)
DiskGood(d, now) ==
  /\ d.files = [dir \in DOMAIN d.files |-> d.files[dir]] /\ DOMAIN d.files \subseteq Dirs
  /\ \A dir \in DOMAIN d.files : Listed(d.files[dir])
  /\ \A s \in Saves : s.dir \in DOMAIN d.files
  /\ d.image = [l \in DOMAIN d.image |-> d.image[l]] /\ DOMAIN d.image \subseteq Dirs
  /\ \A l \in DOMAIN d.image :
       LET i == d.image[l] IN
       /\ Image(i) /\ i.opened <= now
       /\ i.cut = "no" => Complete(i)
       /\ i.dir \in DOMAIN d.files =>
            \A f \in MissedSaves(i, d.files[i.dir]) : d.files[i.dir][f].at >= i.opened

ASSUME BuildAssumption ==
  /\ IsFiniteSet(Names) /\ IsFiniteSet(Files) /\ InitName \in Names
  /\ \A d \in Disks : DiskGood(d, 1)
  /\ Saves \subseteq [dir : Dirs, file : Files, text : SourceTexts]
  /\ Setups \subseteq [src : Roots, out : Roots, pathes : Seq(Roots), args : Seq(Paths) \ {<<>>}]
  /\ MaxErrors \in Nat /\ MaxClock \in Nat \ {0}

VARIABLES files,    \* by directory and file: the text and when it was saved
          image,    \* the images, by <<root, path>>
          clock, edits, runs,
          opts,     \* the options of this run
          phase,    \* "off", "build" or "parse"
          groups,   \* the paths to compile
          packages, \* the package of every path met
          modules,  \* by path: the parser states of its files
          group, left, member, \* the group at work, its files to read, its file analysed
          opened,   \* when the directory of each group was opened
          fault     \* why the last run stopped early

disk == <<files, image>>
world == <<clock, edits, runs>>
run == <<opts, phase, groups, packages, modules, group, left, member, opened, fault>>
vars == <<disk, world, run>>

Path == groups[group]
SourceDir(o, path) == <<o.src, path>>
DirExists(dir) == dir \in DOMAIN files
FileExists(klc) == klc \in DOMAIN image

(* dir_later_file: the last time anything of the directory was saved.      *)
SavedFirst(dir) == Min({0} \cup {files[dir][f].at : f \in DOMAIN files[dir]})
LastSaved(dir) == Max({0} \cup {files[dir][f].at : f \in DOMAIN files[dir]})
DirLater(dir, klc) == LastSaved(dir) > image[klc].at

(* A table in which some names are given a value.                          *)
With(f, names, v) == [n \in DOMAIN f \cup names |-> IF n \in names THEN v ELSE f[n]]

-----------------------------------------------------------------------------
(* Packages and groups *)

(* What a file of group p does is threaded through its handlers: the       *)
(* groups, the packages, the parser state m of the file, the fault.        *)
Stop(B, why) == [B EXCEPT !.fault = IF @ = "none" THEN why ELSE @]
SyntaxErrors(B, n) == [B EXCEPT !.m.errnum = @ + n]
SyntaxError(B) == SyntaxErrors(B, 1)

(* New_Package asserts that the path is new.                               *)
NewPackage(B, path, pkg) ==
  IF path \in DOMAIN B.packages THEN Stop(B, "package_twice")
  ELSE [B EXCEPT !.packages = With(@, {path}, pkg)]

Source == [from |-> "source", name |-> None, table |-> <<>>, code |-> None]
AddGroup(B, path) ==
  IF path \in ToSet(B.groups) THEN B
  ELSE NewPackage([B EXCEPT !.groups = Append(@, path)], path, Source)

(* STable_From_Image: only public variables, constants and functions.      *)
EverySymbol(table) == DOMAIN table
Visible(table) == {n \in DOMAIN table : n \in Public}
FromImage(i) ==
  IF i.cut = "rejected"
  THEN [from |-> "nothing", name |-> None, table |-> <<>>, image |-> i, disk |-> <<>>]
  ELSE [from |-> "image", name |-> i.name, image |-> i, disk |-> <<>>,
        table |-> [n \in Visible(i.table) |-> i.table[n]]]
Load(B, path, klc, present) ==
  IF image[klc].cut = "stops" THEN Stop(B, "truncated")
  ELSE NewPackage(B, path, [FromImage(image[klc]) EXCEPT !.disk = present])

-----------------------------------------------------------------------------
(* Building the AST of a file *)

Symbol(kind, typed, file) == [kind |-> kind, typed |-> typed, file |-> file]

(* Parser_Set_PkgName                                                      *)
SetPkgName(B, p, name) ==
  IF B.packages[p].name = None THEN [B EXCEPT !.packages[p].name = name]
  ELSE IF B.packages[p].name # name THEN SyntaxError(B)
  ELSE B

(* Parser_New_Import: an image that is not older than its directory is     *)
(* loaded, otherwise the package becomes a group of its own.               *)
SearchPathes(o, path) == {i \in DOMAIN o.pathes : FileExists(<<o.pathes[i], path>>)}
Repeated(imports, imp) ==
  \E old \in ToSet(imports) :
     old.path = imp.path \/ (imp.id \notin {None, "."} /\ old.id = imp.id)
LoadFirst(B, o, path, found) ==
  IF found = {} THEN SyntaxError(B) ELSE Load(B, path, <<o.pathes[Min(found)], path>>, <<>>)
FindUnlessGroup(B, o, dir, path) ==
  IF ~ DirExists(dir) THEN LoadFirst(B, o, path, SearchPathes(o, path))
  ELSE IF ~ FileExists(dir) \/ DirLater(dir, dir) THEN AddGroup(B, path)
  ELSE Load(B, path, dir, files[dir])
FindPackage(B, o, dir, path) ==
  IF path \in DOMAIN B.packages THEN B
  ELSE IF ~ DirExists(dir) THEN LoadFirst(B, o, path, SearchPathes(o, path))
  ELSE IF ~ FileExists(dir) \/ DirLater(dir, dir) THEN AddGroup(B, path)
  ELSE Load(B, path, dir, files[dir])
KeepImport(B, errnum, imp) ==
  IF B.m.errnum > errnum THEN B ELSE [B EXCEPT !.m.imports = Append(@, imp)]
NewImport(B, p, o, imp) ==
  IF imp.path = p \/ Repeated(B.m.imports, imp) THEN SyntaxError(B)
  ELSE KeepImport(FindPackage(B, o, SourceDir(o, imp.path), imp.path), B.m.errnum, imp)

(* Parser_New_Variables, Parser_New_Function: the statement is kept even   *)
(* when its name is taken.  Leaving the scope of a class fails on an       *)
(* assertion.                                                              *)
KeepStmt(B, d) == [B EXCEPT !.m.stmts = Append(@, d)]
Declare(B, p, d) ==
  IF d.kind = "class" THEN Stop(KeepStmt(B, d), "class")
  ELSE IF d.name \in DOMAIN B.packages[p].table THEN SyntaxError(KeepStmt(B, d))
  ELSE [KeepStmt(B, d) EXCEPT
          !.packages[p].table = With(@, {d.name}, Symbol(d.kind, d.typed, B.m.file)),
          !.m.symbols = @ \cup {d.name}]

(* merge_parser_unit of a module: the first unit that ends makes __init__  *)
(* of its code, the code of the others is freed.                           *)
ExitModule(B, p, code) ==
  IF InitName \in DOMAIN B.packages[p].table THEN B
  ELSE [B EXCEPT !.packages[p].table = With(@, {InitName}, Symbol("func", TRUE, B.m.file)),
                 !.packages[p].code = code]

NewParser(file) ==
  [file |-> file, text |-> None, imports |-> <<>>, stmts |-> <<>>, symbols |-> {}, errnum |-> 0,
   ext |-> <<>>, dots |-> <<>>, code |-> <<>>]

(* Build_AST: the package clause, the imports, the declarations.  A clause  *)
(* that is missing ends it (YYACCEPT).                                     *)
Every(Do(_, _), B, seq) ==
  LET after[i \in 0 .. Len(seq)] ==
        IF i = 0 THEN B
        ELSE LET C == after[i - 1] IN IF C.fault = "none" THEN Do(C, seq[i]) ELSE C
  IN  after[Len(seq)]
BuildImports(B, p, o, text) ==
  IF text.pkg = None THEN SyntaxError(B)
  ELSE Every(LAMBDA C, imp : NewImport(C, p, o, imp), SetPkgName(B, p, text.pkg), text.imports)
BuildDecls(B, p, text) ==
  IF text.pkg = None THEN B ELSE Every(LAMBDA C, d : Declare(C, p, d), B, text.decls)

-----------------------------------------------------------------------------
(* Analysing a file *)

(* Parse_Imports: the name of a package may be missing by now, and so may  *)
(* the table that a dot import visits (load_dotsym_func), in the order in  *)
(* which the package got its symbols: any order.                           *)
Enough(B) == B.m.errnum > MaxErrors
Taken(B) == DOMAIN B.m.ext \cup DOMAIN B.m.dots
DotSymbol(B, path, name) ==
  IF Enough(B) THEN B
  ELSE IF name \in Taken(B) THEN SyntaxError(B)
  ELSE [B EXCEPT !.m.dots = With(@, {name}, path)]
DotImport(B, path, names) == Every(LAMBDA C, name : DotSymbol(C, path, name), B, SetToSeq(names))
NameImport(B, name, path) ==
  IF name \in Taken(B) THEN SyntaxError(B)
  ELSE [B EXCEPT !.m.ext = With(@, {name}, path)]
ParseImport(B, imp, pkg) ==
  IF imp.id = "." THEN IF pkg.from = "nothing" THEN Stop(B, "no_table")
                       ELSE DotImport(B, imp.path, DOMAIN pkg.table)
  ELSE IF imp.id # None THEN NameImport(B, imp.id, imp.path)
  ELSE IF pkg.name = None THEN Stop(B, "no_name")
  ELSE NameImport(B, pkg.name, imp.path)

(* CheckConflictWithExternal looks at the names of packages only.          *)
CheckConflict(B) == SyntaxErrors(B, Cardinality(B.m.symbols \cap DOMAIN B.m.ext))

(* Parse_Ident_Expr: the package's own names, imported packages, names     *)
(* imported with a dot.                                                    *)
Nowhere == [place |-> "none"]
Resolve(B, p, name) ==
  IF name \in DOMAIN B.packages[p].table
  THEN [place |-> "own", sym |-> B.packages[p].table[name]]
  ELSE IF name \in DOMAIN B.m.ext THEN [place |-> "package", path |-> B.m.ext[name]]
  ELSE IF name \in DOMAIN B.m.dots
  THEN [place |-> "dot", sym |-> B.packages[B.m.dots[name]].table[name]]
  ELSE Nowhere

Typed(B) == [b |-> B, typed |-> TRUE]
Untyped(B) == [b |-> B, typed |-> FALSE]

(* Code_Ident_Expr asserts that there is a type, and, in a function, that  *)
(* what is not of an outer scope is a variable.                            *)
VisitIdent(B, r, inside) ==
  CASE r.place = "none" -> Untyped(IF Enough(SyntaxError(B)) THEN SyntaxError(B)
                                   ELSE Stop(SyntaxError(B), "unresolved"))
    [] r.place = "package" -> Untyped(Stop(B, "unresolved"))
    [] OTHER ->
         IF ~ r.sym.typed THEN Untyped(Stop(B, "unresolved"))
         ELSE IF r.place = "dot" /\ inside = "func" /\ r.sym.kind # "var"
         THEN Untyped(Stop(B, "not_var"))
         ELSE Typed(B)

(* parse_attribute_expr; the member of a variable has no type yet.         *)
VisitMember(B, table, name) ==
  IF name \notin DOMAIN table THEN Untyped(SyntaxError(B))
  ELSE [b |-> B, typed |-> table[name].typed]
VisitAttribute(B, r, name) ==
  CASE r.place = "none" -> Untyped(SyntaxError(B))
    [] r.place = "package" -> VisitMember(B, B.packages[r.path].table, name)
    [] OTHER -> Untyped(IF r.sym.kind # "func" /\ ~ r.sym.typed
                        THEN Stop(B, "unresolved") ELSE B)

(* parser_visit_expr                                                       *)
Visit(B, p, exp, inside) ==
  CASE exp.kind = "id"    -> VisitIdent(B, Resolve(B, p, exp.name), inside)
    [] exp.kind = "attr"  -> VisitAttribute(B, Resolve(B, p, exp.via), exp.name)
    [] OTHER -> Typed(B)

(* parse_variable of a module, and a function whose body is an expression. *)
IsFunc(B, p, name) == B.packages[p].table[name].kind = "func"
SetType(B, p, name) ==
  IF IsFunc(B, p, name) THEN Stop(B, "other_kind")
  ELSE [B EXCEPT !.packages[p].table[name].typed = TRUE]
Store(B, name) == [B EXCEPT !.m.code = Append(@, name)]
Initialise(V, p, name) ==
  IF V.typed THEN Store(SetType(V.b, p, name), name) ELSE SyntaxError(V.b)
ExitFunction(B, p, name) == IF IsFunc(B, p, name) THEN B ELSE Stop(B, "other_kind")
ParseStatement(B, p, d) ==
  IF Enough(B) THEN B
  ELSE IF d.kind = "func" THEN ExitFunction(Visit(B, p, d.exp, "func").b, p, d.name)
  ELSE IF d.exp.kind = "none" THEN SetType(B, p, d.name)
  ELSE Initialise(Visit(B, p, d.exp, "module"), p, d.name)

ParseImports(B) ==
  Every(LAMBDA C, imp : ParseImport(C, imp, C.packages[imp.path]), B, B.m.imports)
ParseStatements(B, p) ==
  Every(LAMBDA C, d : ParseStatement(C, p, d), B, B.m.stmts)

-----------------------------------------------------------------------------
(* The runs of the compiler *)

Idle ==
  /\ opts = None /\ phase = "off" /\ groups = <<>> /\ packages = <<>> /\ modules = <<>>
  /\ group = 0 /\ left = {} /\ member = 0 /\ opened = <<>>
BecomeIdle ==
  /\ opts' = None /\ phase' = "off" /\ groups' = <<>> /\ packages' = <<>> /\ modules' = <<>>
  /\ group' = 0 /\ left' = {} /\ member' = 0 /\ opened' = <<>> /\ fault' = "none"

Init ==
  /\ \E d \in Disks : files = d.files /\ image = d.image
  /\ clock = 1 /\ edits = 0 /\ runs = 0
  /\ Idle /\ fault = "none"

Listing(dir) == IF DirExists(dir) THEN DOMAIN files[dir] ELSE {}
Working(B) == groups' = B.groups /\ packages' = B.packages /\ fault' = B.fault
AddModule(B) == Working(B) /\ modules' = [modules EXCEPT ![Path] = Append(@, B.m)]
SetModule(B) == Working(B) /\ modules' = [modules EXCEPT ![Path][member] = B.m]
Record(m) == [groups |-> groups, packages |-> packages, m |-> m, fault |-> fault]

(* build_symbols opens the directory of a group.                           *)
OpenGroup(g, o, path) ==
  /\ group' = g
  /\ left' = Listing(SourceDir(o, path))
  /\ modules' = With(modules, {path}, <<>>)
  /\ opened' = With(opened, {path}, clock)

(* main: the arguments are the first groups.                               *)
Arguments(o) ==
  LET added[i \in 0 .. Len(o.args)] ==
        IF i = 0 THEN [Record(NewParser("none")) EXCEPT !.fault = "none"]
        ELSE AddGroup(added[i - 1], o.args[i])
  IN  added[Len(o.args)]
Launch ==
  /\ phase = "off" /\ runs < MaxRuns
  /\ \E o \in Setups :
       /\ opts' = o
       /\ Working(Arguments(o))
       /\ OpenGroup(1, o, o.args[1])
  /\ phase' = "build" /\ member' = 0 /\ runs' = runs + 1
  /\ UNCHANGED <<disk, clock, edits>>

Running(ph) == phase = ph /\ fault = "none"

(* A file that is gone by now is skipped.                                  *)
BuildText(f, text) ==
  \E B \in {BuildImports(Record([NewParser(f) EXCEPT !.text = text]), Path, opts, text)} :
    \E C \in {BuildDecls(B, Path, text)} : AddModule(ExitModule(C, Path, <<>>))
BuildFile(f) ==
  LET dir == SourceDir(opts, Path) IN
  /\ Running("build") /\ f \in left
  /\ left' = left \ {f}
  /\ IF f \in DOMAIN files[dir] THEN BuildText(f, files[dir][f].text)
     ELSE UNCHANGED <<groups, packages, modules, fault>>
  /\ UNCHANGED <<disk, world, opts, phase, group, member, opened>>

NextGroup ==
  /\ Running("build") /\ left = {} /\ group < Len(groups)
  /\ OpenGroup(group + 1, opts, groups[group + 1])
  /\ UNCHANGED <<disk, world, opts, phase, groups, packages, member, fault>>

AllBuilt ==
  /\ Running("build") /\ left = {} /\ group = Len(groups)
  /\ phase' = "parse" /\ group' = 1 /\ member' = 1
  /\ UNCHANGED <<disk, world, opts, groups, packages, modules, left, opened, fault>>

(* parse_package and Parse_AST, a file at a time.                          *)
ParseFile ==
  /\ Running("parse") /\ member <= Len(modules[Path])
  /\ \E B \in {ParseImports(Record(modules[Path][member]))} :
       \E C \in {ParseStatements(CheckConflict(B), Path)} :
         SetModule(ExitModule(C, Path, C.m.code))
  /\ member' = member + 1
  /\ UNCHANGED <<disk, world, opts, phase, group, left, opened>>

AnalysedOneMore == phase = "parse" /\ member > Len(modules[Path]) + 1
Analysed == phase = "parse" /\ member > Len(modules[Path])
Errors(path) ==
  LET upto[i \in 0 .. Len(modules[path])] ==
        IF i = 0 THEN 0 ELSE upto[i - 1] + modules[path][i].errnum
  IN  upto[Len(modules[path])]
NextPackage ==
  IF group < Len(groups)
  THEN group' = group + 1 /\ member' = 1
       /\ UNCHANGED <<opts, phase, groups, packages, modules, left, opened, fault>>
  ELSE BecomeIdle

(* A package without a name (an empty directory) is written with an empty  *)
(* name.                                                                   *)
WrittenName(name) == IF name = None THEN "" ELSE name

(* write_image; the file may be cut off when the compiler is killed.       *)
Texts(path) == [f \in {m.file : m \in ToSet(modules[path])} |->
                 (CHOOSE m \in ToSet(modules[path]) : m.file = f).text]
ImageOf(path, cut) ==
  [name |-> WrittenName(packages[path].name), table |-> packages[path].table, code |-> packages[path].code,
   at |-> clock, cut |-> cut, dir |-> SourceDir(opts, path), opened |-> opened[path],
   made |-> Texts(path)]
Put(cut) == image' = With(image, {<<opts.out, Path>>}, ImageOf(Path, cut))
NoErrors(path) == Errors(path) <= 0
WriteImage ==
  /\ Running("parse") /\ Analysed /\ NoErrors(Path)
  /\ Put("no")
  /\ NextPackage /\ UNCHANGED <<files, world>>
SkipImage ==
  /\ Running("parse") /\ Analysed /\ ~ NoErrors(Path)
  /\ NextPackage /\ UNCHANGED <<disk, world>>

Abort == fault # "none" /\ BecomeIdle /\ UNCHANGED <<disk, world>>

Kill == Running(phase) /\ phase # "off" /\ BecomeIdle /\ UNCHANGED <<disk, world>>
KillWriting ==
  /\ Running("parse") /\ Analysed /\ NoErrors(Path)
  /\ \E cut \in {"rejected", "stops"} : Put(cut)
  /\ BecomeIdle /\ UNCHANGED <<files, world>>

(* The user and the time.                                                  *)
SaveFile ==
  /\ edits < MaxEdits /\ edits' = edits + 1
  /\ \E s \in Saves :
       /\ s.file \in DOMAIN files[s.dir] => files[s.dir][s.file].text # s.text
       /\ files' = [files EXCEPT ![s.dir] = With(@, {s.file}, [text |-> s.text, at |-> clock])]
  /\ UNCHANGED <<image, clock, runs, run>>
RemoveFile ==
  /\ edits < MaxEdits /\ edits' = edits + 1
  /\ \E dir \in DOMAIN files : \E f \in DOMAIN files[dir] :
       files' = [files EXCEPT ![dir] = [g \in DOMAIN @ \ {f} |-> @[g]]]
  /\ UNCHANGED <<image, clock, runs, run>>
Tick == clock < MaxClock /\ clock' = clock + 1 /\ UNCHANGED <<disk, edits, runs, run>>

Compile ==
  \/ \E f \in left : BuildFile(f)
  \/ NextGroup \/ AllBuilt \/ ParseFile \/ WriteImage \/ SkipImage \/ Abort
Next == Launch \/ Compile \/ Kill \/ KillWriting \/ SaveFile \/ RemoveFile \/ Tick

Spec == Init /\ [][Next]_vars /\ WF_vars(Compile)

-----------------------------------------------------------------------------
(* Properties *)

TypeOK ==
  /\ phase \in {"off", "build", "parse"} /\ clock \in 1 .. MaxClock
  /\ group \in 0 .. Len(groups) /\ DOMAIN modules \subseteq ToSet(groups)
  /\ fault \in {"none", "truncated", "no_table", "no_name", "class", "unresolved", "not_var",
                "other_kind"}

(* Every path has one package: a group for one that is compiled, an image  *)
(* for another, and a file is analysed when its imports are all there      *)
(* (Add_ParserGroup, New_Package, the assertions on Find_Package).         *)
OnePackage ==
  /\ \A i, j \in DOMAIN groups : groups[i] = groups[j] => i = j
  /\ {p \in DOMAIN packages : packages[p].from = "source"} = ToSet(groups)
  /\ fault = "none" => \A p \in DOMAIN modules : \A m \in ToSet(modules[p]) :
       /\ \A imp \in ToSet(m.imports) : imp.path \in DOMAIN packages
       /\ DOMAIN m.ext \cap DOMAIN m.dots = {}
       /\ \A n \in DOMAIN m.dots : n \in DOMAIN packages[m.dots[n]].table

Consistent == TypeOK /\ OnePackage

(* An image that is loaded instead of compiling its directory is what the  *)
(* directory holds, except for files that were removed since, and for      *)
(* those saved between the moment the compiler that wrote it opened the    *)
(* directory and the second in which it was done (dir_later_file).         *)
Loaded == {p \in DOMAIN packages : packages[p].from = "image"}
LoadedIsCurrent ==
  \A p \in Loaded :
    LET i == packages[p].image  present == packages[p].disk IN
    i.dir = SourceDir(opts, p) =>
      \A f \in MissedSaves(i, present) : present[f].at \in i.opened .. i.at

(* An image that was written completely holds everything that the files it *)
(* was made from declare, with a type, although the analysis filled in the *)
(* types file by file and errors were counted apart.                       *)
ImagesComplete == \A l \in DOMAIN image : image[l].cut = "no" => Complete(image[l])

(* An importer that uses an image instead of the source sees what it would *)
(* see from the source: the image is current, and nothing is missing in it.*)
ImagesTrue == LoadedIsCurrent /\ ImagesComplete

(* What an import stands for in this run.                                  *)
NamesOf(path) ==
  CASE packages[path].from = "source" -> Rules!Declared(Texts(path))
    [] packages[path].from = "image"  -> Rules!Declared(packages[path].image.made)
    [] OTHER -> {}
NameOf(path) == packages[path].name
Position(path) == CHOOSE i \in DOMAIN groups : groups[i] = path
FromSource(path) == packages[path].from = "source"
Imports(path) == UNION {ToSet(Texts(path)[f].imports) : f \in DOMAIN Texts(path)}
Decls(path) == UNION {ToSet(Texts(path)[f].decls) : f \in DOMAIN Texts(path)}
Legal(path) ==
  /\ \A imp \in Imports(path) : imp.path \in DOMAIN packages
  /\ Rules!LegalPackage(path, Texts(path), NamesOf, NameOf)

(* A legal package can be rejected because a variable without a declared   *)
(* type is used before its own package was analysed, because importing all *)
(* of a package that is compiled in the same run brings its private names, *)
(* __init__ among them, or because another file of the package declares    *)
(* the name of an imported package.                                        *)
UsedTooEarly(path) ==
  \E d \in Decls(path) : \E imp \in Imports(path) :
    /\ d.exp.kind = "attr" /\ FromSource(imp.path) /\ Position(imp.path) > group
    /\ \E e \in Decls(imp.path) : e.name = d.exp.name /\ ~ e.typed
BringsPrivate(path) ==
  \E imp \in Imports(path) : imp.id = "." /\ FromSource(imp.path)
HidesPackage(path) ==
  \E d, e \in Decls(path) : d.exp.kind = "attr" /\ d.exp.via = e.name
AcceptsLegal ==
  Analysed /\ Errors(Path) > 0 /\ Legal(Path) =>
    UsedTooEarly(Path) \/ BringsPrivate(Path) \/ HidesPackage(Path)

(* An illegal package can be accepted because a private name of a package  *)
(* that is compiled in the same run can be used, because a name that comes *)
(* with a dot import is also declared, or because the name of the package  *)
(* is hidden.                                                              *)
UsesPrivate(path) ==
  \E d \in Decls(path) : \E imp \in Imports(path) :
    d.exp.kind \in {"id", "attr"} /\ FromSource(imp.path) /\ d.exp.name \notin Public
HidesDot(path) == \E m \in ToSet(modules[path]) : m.symbols \cap DOMAIN m.dots # {}
RejectsIllegal ==
  Analysed /\ Errors(Path) = 0 /\ ~ Legal(Path) =>
    UsesPrivate(Path) \/ HidesDot(Path) \/ HidesPackage(Path)

(* The compiler stops early only for an image that was cut off, a package  *)
(* without a name, a class, a name of two kinds, or a value that has no    *)
(* type or cannot be loaded.                                               *)
AtWork == modules[Path][member - 1]
StopExplained ==
  CASE fault = "truncated" -> \E l \in DOMAIN image : image[l].cut = "stops"
    [] fault = "no_table"  -> \E p \in DOMAIN packages : packages[p].from = "nothing"
    [] fault = "no_name"   ->
         \E p \in DOMAIN packages :
           \/ packages[p].from = "nothing"
           \/ FromSource(p) /\ \A m \in ToSet(modules[p]) : m.text.pkg = None
    [] fault = "class"     -> \E d \in Decls(Path) : d.kind = "class"
    [] fault = "other_kind" -> \E d, e \in Decls(Path) : d.name = e.name /\ d.kind # e.kind
    [] fault = "not_var"   -> \E n \in DOMAIN AtWork.dots :
         packages[AtWork.dots[n]].table[n].kind # "var"
    [] fault = "unresolved" -> \E d \in ToSet(AtWork.stmts) :
         \/ d.exp.kind \in {"id", "attr"} /\ ~ Legal(Path)
         \/ d.exp.kind = "id" /\ \E e \in Decls(Path) : e.name = d.exp.name /\ ~ e.typed
         \/ d.exp.kind = "id" /\ \E imp \in Imports(Path) :
              imp.id = "." /\ FromSource(imp.path) /\ Position(imp.path) > group
    [] OTHER -> FALSE

(* The compiler decides by the rules of imports, with these exceptions     *)
(* (Parser_New_Import, Parse_Imports, Parse_Ident_Expr), and where it      *)
(* stops instead (free_parser_unit, Code_Ident_Expr), it is for a reason.  *)
FollowsRules ==
  IF fault = "none" THEN AcceptsLegal /\ RejectsIllegal ELSE StopExplained

(* A run ends, also when packages import each other and whatever the user  *)
(* saves meanwhile (Add_ParserGroup adds a path once).                     *)
RunEnds == phase # "off" ~> phase = "off"
=============================================================================
