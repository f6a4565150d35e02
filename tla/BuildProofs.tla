---------------------------- MODULE BuildProofs ----------------------------
(***************************************************************************)
(* Proofs about runs of the compiler, for any names, paths, source files,  *)
(* options, limit of errors and contents of the disk that BuildAssumption  *)
(* allows, and any number of runs and edits:                               *)
(*                                                                         *)
(*   InvariantHolds       Spec => []Inductive                              *)
(*   PackagesConsistent   every path has one package, and every import of  *)
(*                        a file has one                                   *)
(*   ImagesAreTrue        what is loaded is current, what is written is    *)
(*                        complete                                         *)
(*                                                                         *)
(* Inductive says of a file that was built that its imports have their     *)
(* packages and that its declarations are in the table of its package; of  *)
(* one that was analysed without an error that they have a type there; and *)
(* of a directory that each of its files was read, is to be read or was    *)
(* saved after the directory was opened.  The handlers of a file pass on a *)
(* record B, and each is described by a lemma <handler>Is: Handler(C, o)   *)
(* for what it returns and Later(B, C), that nothing was taken back.  The  *)
(* lemmas <...>InTurn unfold the recursion over imports, declarations,     *)
(* statements, arguments and files.  The lemmas <action>Keeps are the      *)
(* steps.                                                                  *)
(***************************************************************************)
EXTENDS Build, InductionFacts, FiniteSetTheorems, SequenceTheorems, TLAPS

-----------------------------------------------------------------------------
(* What holds in every state of a run *)

Faults == {"none", "truncated", "no_table", "no_name", "class", "unresolved", "not_var",
           "other_kind"}
Partial(D, R) == UNION {[S -> R] : S \in SUBSET D}
Parsers ==
  [file : Files, text : SourceTexts, imports : Seq(SourceImps), stmts : Seq(SourceDecls),
   symbols : SUBSET Names, errnum : Nat, ext : Partial(Names \cup {""}, Paths),
   dots : Partial(Names, Paths), code : Seq(Names)]

(* The package of a group, and one that was loaded from an image.          *)
OwnPackage(k) ==
  /\ k = [from |-> "source", name |-> k.name, table |-> k.table, code |-> k.code]
  /\ k.name \in Names \cup {None} /\ Table(k.table)
  /\ \A n \in DOMAIN k.table : k.table[n].kind = "func" => k.table[n].typed
UpToDate(i, present) == \A f \in MissedSaves(i, present) : present[f].at \in i.opened .. i.at
LoadedPackage(k, dir) ==
  /\ k.from \in {"image", "nothing"} /\ k.name \in Names \cup {"", None} /\ Table(k.table)
  /\ k.from = "image" /\ k.image.dir = dir => UpToDate(k.image, k.disk)

PackagesGood(gs, pk, o) ==
  /\ gs \in Seq(Paths) /\ \A i, j \in DOMAIN gs : gs[i] = gs[j] => i = j
  /\ pk = [p \in DOMAIN pk |-> pk[p]] /\ DOMAIN pk \subseteq Paths
  /\ ToSet(gs) \subseteq DOMAIN pk
  /\ \A p \in ToSet(gs) : OwnPackage(pk[p])
  /\ \A p \in DOMAIN pk \ ToSet(gs) : LoadedPackage(pk[p], SourceDir(o, p))

(* A file whose imports have their packages, whose names are where they    *)
(* should be; one whose declarations are in the table of its package p;    *)
(* and one all of whose declarations have a type.                          *)
ImportsMet(m, pk) ==
  /\ \A i \in DOMAIN m.imports : m.imports[i].path \in DOMAIN pk
  /\ DOMAIN m.ext \cap DOMAIN m.dots = {}
  /\ \A n \in DOMAIN m.dots : m.dots[n] \in DOMAIN pk /\ n \in DOMAIN pk[m.dots[n]].table
DeclsKept(m, table) ==
  /\ \A i \in DOMAIN m.stmts : m.stmts[i].kind # "class" /\ m.stmts[i].name \in DOMAIN table
  /\ m.errnum = 0 => m.stmts = m.text.decls
DeclsTyped(m, table) ==
  m.errnum = 0 => \A i \in DOMAIN m.stmts : table[m.stmts[i].name].typed

(* The directories that were opened, the files read so far, and those left.*)
Begun == {groups[i] : i \in 1 .. (IF phase = "build" THEN group ELSE Len(groups))}
FilesRead ==
  /\ modules \in [Begun -> Seq(Parsers)]
  /\ opened \in [Begun -> 0 .. clock]
  /\ \A p \in Begun : \A i, j \in DOMAIN modules[p] :
       modules[p][i].file = modules[p][j].file => i = j
FilesLeft ==
  /\ left \subseteq Files
  /\ left # {} => phase = "build" /\ DirExists(SourceDir(opts, Path))
  /\ \A f \in left : \A i \in DOMAIN modules[Path] : modules[Path][i].file # f
  /\ phase = "parse" => member \in 1 .. Len(modules[Path]) + 1

(* What is on disk in the directory of a group is in a file that was read, *)
(* still to be read, or was saved after the directory was opened.          *)
Seen(p, f, text) ==
  \E i \in DOMAIN modules[p] : modules[p][i].file = f /\ modules[p][i].text = text
AllSeen ==
  \A p \in Begun :
    LET dir == SourceDir(opts, p) IN
    DirExists(dir) => \A f \in DOMAIN files[dir] :
      \/ files[dir][f].at >= opened[p]
      \/ p = Path /\ f \in left
      \/ Seen(p, f, files[dir][f].text)

ModulesGood ==
  /\ \A p \in Begun : \A i \in DOMAIN modules[p] :
       ImportsMet(modules[p][i], packages) /\ DeclsKept(modules[p][i], packages[p].table)
  /\ phase = "parse" => \A i \in 1 .. member - 1 :
       DeclsTyped(modules[Path][i], packages[Path].table)

RunGood ==
  /\ phase \in {"build", "parse"} /\ opts \in Setups /\ group \in 1 .. Len(groups)
  /\ fault \in Faults /\ PackagesGood(groups, packages, opts)
  /\ FilesRead /\ FilesLeft /\ AllSeen
  /\ fault = "none" => ModulesGood

Inductive ==
  /\ clock \in 1 .. MaxClock
  /\ DiskGood([files |-> files, image |-> image], clock)
  /\ IF phase = "off" THEN Idle /\ fault = "none" ELSE RunGood

-----------------------------------------------------------------------------
(* Tables and sets *)

LEMMA PartialIs ==
  ASSUME NEW D, NEW R, NEW f
  PROVE  f \in Partial(D, R) <=> f \in [DOMAIN f -> R] /\ DOMAIN f \subseteq D
BY DEF Partial

LEMMA WithTyped ==
  ASSUME NEW f, NEW S, NEW v, NEW R, v \in R, \A n \in DOMAIN f : f[n] \in R
  PROVE  With(f, S, v) \in [DOMAIN f \cup S -> R]
BY DEF With

LEMMA PartialWith ==
  ASSUME NEW D, NEW R, NEW f \in Partial(D, R), NEW S \in SUBSET D, NEW v \in R
  PROVE  With(f, S, v) \in Partial(D, R)
<1>1. f \in [DOMAIN f -> R] /\ DOMAIN f \subseteq D
  BY PartialIs
<1>2. With(f, S, v) \in [DOMAIN f \cup S -> R]
  BY <1>1, WithTyped
<1> QED BY <1>1, <1>2, PartialIs

LEMMA TableWith ==
  ASSUME NEW t, Table(t), NEW S \in SUBSET Names, NEW v \in Symbols
  PROVE  Table(With(t, S, v))
<1>1. DOMAIN t \subseteq Names /\ t \in [DOMAIN t -> Symbols]
  BY DEF Table, Map
<1>2. With(t, S, v) \in [DOMAIN t \cup S -> Symbols]
  BY <1>1, WithTyped
<1> QED BY <1>1, <1>2 DEF Table, Map

LEMMA NoTable == Table(<<>>) /\ DOMAIN <<>> = {}
BY DEF Table, Map

(* A finite set of natural numbers has a greatest element.                 *)
LEMMA Greatest ==
  ASSUME NEW S \in SUBSET Nat, IsFiniteSet(S), S # {}
  PROVE  Max(S) \in S /\ \A x \in S : x <= Max(S)
<1> DEFINE Has(U) == \E x \in U : \A y \in U : y <= x
           T == {k \in Nat : \A U \in SUBSET Nat :
                   IsFiniteSet(U) /\ Cardinality(U) = k /\ U # {} => Has(U)}
<1>1. 0 \in T
  BY FS_EmptySet
<1>2. ASSUME NEW k \in Nat, k \in T PROVE k + 1 \in T
  <2>1. SUFFICES ASSUME NEW U \in SUBSET Nat, IsFiniteSet(U), Cardinality(U) = k + 1, U # {}
                 PROVE  Has(U)
    OBVIOUS
  <2>2. PICK x \in U : TRUE
    BY <2>1
  <2>3. IsFiniteSet(U \ {x}) /\ Cardinality(U \ {x}) = k
    <3>1. IsFiniteSet(U \ {x}) /\ Cardinality(U \ {x}) = Cardinality(U) - 1
      BY <2>1, <2>2, FS_RemoveElement, Zenon
    <3> QED BY <2>1, <3>1
  <2>4. CASE U \ {x} = {}
    BY <2>2, <2>4
  <2>5. CASE U \ {x} # {}
    <3>1. PICK z \in U \ {x} : \A y \in U \ {x} : y <= z
      BY <1>2, <2>3, <2>5
    <3>2. CASE x <= z
      BY <3>1, <3>2
    <3>3. CASE ~ x <= z
      <4>1. \A y \in U : y <= x
        BY <3>1, <3>3
      <4> QED BY <2>2, <4>1
    <3> QED BY <3>2, <3>3
  <2> QED BY <2>4, <2>5
<1>3. Cardinality(S) \in Nat
  BY FS_CardinalityType
<1>4. Cardinality(S) \in T
  <2> HIDE DEF T
  <2> QED BY <1>1, <1>2, <1>3, Induction
<1>5. Has(S)
  BY <1>4
<1> QED BY <1>5 DEF Max

(* dir_later_file is not before any file of the directory.                 *)
LEMMA LastSavedBounds ==
  ASSUME NEW dir \in DOMAIN files, Listed(files[dir])
  PROVE  LastSaved(dir) \in Nat /\ \A f \in DOMAIN files[dir] : files[dir][f].at <= LastSaved(dir)
<1> DEFINE D == DOMAIN files[dir]
           A == {files[dir][f].at : f \in D}
<1>1. \A f \in D : files[dir][f].at \in Nat
  BY DEF Listed, Map
<1>2. IsFiniteSet(D)
  <2>1. IsFiniteSet(Files) /\ D \in SUBSET Files
    BY BuildAssumption DEF Listed, Map
  <2> QED BY <2>1, FS_Subset
<1>3. IsFiniteSet(A)
  <2>1. [f \in D |-> files[dir][f].at] \in Surjection(D, A)
    BY DEF Surjection
  <2> HIDE DEF A, D
  <2> QED BY <1>2, <2>1, FS_Surjection
<1>4. IsFiniteSet({0} \cup A)
  BY <1>3, FS_AddElement
<1>5. {0} \cup A \in SUBSET Nat
  BY <1>1
<1>6. Max({0} \cup A) \in {0} \cup A /\ \A x \in {0} \cup A : x <= Max({0} \cup A)
  <2> HIDE DEF A
  <2> QED BY <1>4, <1>5, Greatest
<1> QED BY <1>1, <1>6 DEF LastSaved

-----------------------------------------------------------------------------
(* Handlers of a file *)

(* What a handler is given and returns, the parser state m aside.          *)
Shape(B, o) ==
  /\ B = [groups |-> B.groups, packages |-> B.packages, m |-> B.m, fault |-> B.fault]
  /\ B.fault \in Faults /\ PackagesGood(B.groups, B.packages, o)
Handler(B, o) == Shape(B, o) /\ B.m \in Parsers

(* No handler removes a group, a package or a name, takes back a type or   *)
(* forgets an error or a failure.                                          *)
Extends(gs, gs2) == Len(gs) <= Len(gs2) /\ \A i \in 1 .. Len(gs) : gs2[i] = gs[i]
TableGrown(t, t2) == \A n \in DOMAIN t : n \in DOMAIN t2 /\ (t[n].typed => t2[n].typed)
Grown(pk, pk2) ==
  \A p \in DOMAIN pk : p \in DOMAIN pk2 /\ TableGrown(pk[p].table, pk2[p].table)
Later(B, C) ==
  /\ Extends(B.groups, C.groups) /\ Grown(B.packages, C.packages)
  /\ C.m.file = B.m.file /\ C.m.text = B.m.text /\ C.m.errnum >= B.m.errnum
  /\ C.fault = "none" => B.fault = "none"

(* Some do nothing but report an error or stop.                            *)
Reports(B, C) ==
  /\ C.groups = B.groups /\ C.packages = B.packages
  /\ C.m = [B.m EXCEPT !.errnum = C.m.errnum] /\ C.m.errnum >= B.m.errnum
  /\ C.fault = "none" => B.fault = "none"

LEMMA ErrorsCounted ==
  ASSUME NEW m \in Parsers
  PROVE  /\ m.errnum \in Nat
         /\ \A n \in Nat : /\ [m EXCEPT !.errnum = n] \in Parsers
                           /\ [m EXCEPT !.errnum = n].errnum = n
BY DEF Parsers

LEMMA GrownTransitive ==
  ASSUME NEW pk, NEW pk2, NEW pk3, Grown(pk, pk2), Grown(pk2, pk3)
  PROVE  Grown(pk, pk3)
BY DEF Grown, TableGrown

LEMMA LaterTransitive ==
  ASSUME NEW o, NEW B, NEW C, NEW D, Handler(B, o), Handler(C, o), Handler(D, o),
         Later(B, C), Later(C, D)
  PROVE  Later(B, D)
<1>1. Grown(B.packages, D.packages)
  BY GrownTransitive DEF Later
<1>2. Extends(B.groups, D.groups)
  <2>1. Len(B.groups) \in Nat /\ Len(C.groups) \in Nat /\ Len(D.groups) \in Nat
    BY DEF Handler, Shape, PackagesGood
  <2> QED BY <2>1 DEF Later, Extends
<1>3. B.m.errnum \in Nat /\ C.m.errnum \in Nat /\ D.m.errnum \in Nat
  BY ErrorsCounted DEF Handler
<1> QED BY <1>1, <1>2, <1>3 DEF Later

LEMMA ReportsLater ==
  ASSUME NEW o, NEW B, NEW C, Handler(B, o), Reports(B, C)
  PROVE  Later(B, C)
<1>1. C.m.file = B.m.file /\ C.m.text = B.m.text
  <2>1. B.m \in Parsers /\ C.m = [B.m EXCEPT !.errnum = C.m.errnum]
    BY DEF Handler, Reports
  <2> QED BY <2>1 DEF Parsers
<1>2. Len(B.groups) \in Nat
  BY DEF Handler, Shape, PackagesGood
<1> QED BY <1>1, <1>2 DEF Later, Reports, Extends, Grown, TableGrown

LEMMA ReportsTransitive ==
  ASSUME NEW o, NEW B, NEW C, NEW D, Handler(B, o), Handler(C, o), Handler(D, o),
         Reports(B, C), Reports(C, D)
  PROVE  Reports(B, D)
<1>1. B.m.errnum \in Nat /\ C.m.errnum \in Nat /\ D.m.errnum \in Nat
  BY ErrorsCounted DEF Handler
<1>2. D.m = [B.m EXCEPT !.errnum = D.m.errnum]
  <2>1. B.m \in Parsers /\ C.m = [B.m EXCEPT !.errnum = C.m.errnum]
        /\ D.m = [C.m EXCEPT !.errnum = D.m.errnum]
    BY DEF Handler, Reports
  <2> QED BY <2>1 DEF Parsers
<1> QED BY <1>1, <1>2 DEF Reports

LEMMA ReportsSelf ==
  ASSUME NEW o, NEW B, Handler(B, o)
  PROVE  Reports(B, B)
<1>1. B.m = [B.m EXCEPT !.errnum = B.m.errnum]
  BY DEF Handler, Parsers
<1>2. B.m.errnum \in Nat
  BY ErrorsCounted DEF Handler
<1> QED BY <1>1, <1>2 DEF Reports

LEMMA StopIs ==
  ASSUME NEW o, NEW B, Handler(B, o), NEW why \in Faults \ {"none"}
  PROVE  /\ Handler(Stop(B, why), o) /\ Reports(B, Stop(B, why))
         /\ Stop(B, why).fault # "none" /\ Stop(B, why).m = B.m
<1> DEFINE C == Stop(B, why)
<1>1. C.groups = B.groups /\ C.packages = B.packages /\ C.m = B.m
      /\ C = [groups |-> C.groups, packages |-> C.packages, m |-> C.m, fault |-> C.fault]
      /\ C.fault = IF B.fault = "none" THEN why ELSE B.fault
  BY DEF Handler, Shape, Stop
<1>2. C.fault # "none" /\ C.fault \in Faults
  BY <1>1 DEF Handler, Shape
<1> HIDE DEF C
<1>3. Handler(C, o)
  BY <1>1, <1>2 DEF Handler, Shape
<1>4. Reports(B, C)
  <2>1. Reports(B, B)
    BY ReportsSelf
  <2> QED BY <1>1, <1>2, <2>1 DEF Reports
<1> QED BY <1>1, <1>2, <1>3, <1>4 DEF C

LEMMA SyntaxErrorsIs ==
  ASSUME NEW o, NEW B, Handler(B, o), NEW n \in Nat
  PROVE  /\ Handler(SyntaxErrors(B, n), o) /\ Reports(B, SyntaxErrors(B, n))
         /\ SyntaxErrors(B, n).m.errnum = B.m.errnum + n /\ SyntaxErrors(B, n).fault = B.fault
<1> DEFINE C == SyntaxErrors(B, n)
<1>1. /\ C.groups = B.groups /\ C.packages = B.packages /\ C.fault = B.fault
      /\ C.m = [B.m EXCEPT !.errnum = B.m.errnum + n]
      /\ C = [groups |-> C.groups, packages |-> C.packages, m |-> C.m, fault |-> C.fault]
  BY DEF Handler, Shape, SyntaxErrors
<1>2. B.m \in Parsers /\ B.m.errnum \in Nat
  BY ErrorsCounted DEF Handler
<1> HIDE DEF C
<1>3. C.m \in Parsers /\ C.m.errnum = B.m.errnum + n
  <2>1. B.m.errnum + n \in Nat
    BY <1>2
  <2> QED BY <1>1, <1>2, <2>1, ErrorsCounted
<1>4. Handler(C, o)
  BY <1>1, <1>3 DEF Handler, Shape
<1>5. Reports(B, C)
  BY <1>1, <1>2, <1>3 DEF Reports
<1> QED BY <1>1, <1>3, <1>4, <1>5 DEF C

LEMMA SyntaxErrorIs ==
  ASSUME NEW o, NEW B, Handler(B, o)
  PROVE  /\ Handler(SyntaxError(B), o) /\ Reports(B, SyntaxError(B))
         /\ SyntaxError(B).m.errnum = B.m.errnum + 1 /\ SyntaxError(B).fault = B.fault
BY SyntaxErrorsIs DEF SyntaxError

-----------------------------------------------------------------------------
(* Packages and groups *)

LEMMA NewIsGrown ==
  ASSUME NEW pk, NEW path, path \notin DOMAIN pk, NEW k
  PROVE  Grown(pk, With(pk, {path}, k))
BY DEF Grown, TableGrown, With

LEMMA PackageLoaded ==
  ASSUME NEW gs, NEW pk, NEW o, PackagesGood(gs, pk, o), NEW path \in Paths,
         path \notin DOMAIN pk, NEW k, LoadedPackage(k, SourceDir(o, path))
  PROVE  PackagesGood(gs, With(pk, {path}, k), o)
<1> DEFINE new == With(pk, {path}, k)
<1>1. /\ new = [n \in DOMAIN new |-> new[n]] /\ DOMAIN new = DOMAIN pk \cup {path}
      /\ new[path] = k /\ \A n \in DOMAIN pk : new[n] = pk[n]
  BY DEF With
<1> HIDE DEF new
<1>2. ToSet(gs) \subseteq DOMAIN pk /\ path \notin ToSet(gs)
  BY DEF PackagesGood
<1>3. \A p \in ToSet(gs) : OwnPackage(new[p])
  BY <1>1, <1>2 DEF PackagesGood
<1>4. \A p \in DOMAIN new \ ToSet(gs) : LoadedPackage(new[p], SourceDir(o, p))
  BY <1>1, <1>2 DEF PackagesGood
<1>5. PackagesGood(gs, new, o)
  BY <1>1, <1>2, <1>3, <1>4 DEF PackagesGood
<1> QED BY <1>5 DEF new

LEMMA AppendIs ==
  ASSUME NEW S, NEW s \in Seq(S), NEW x \in S
  PROVE  /\ Append(s, x) \in Seq(S) /\ Len(Append(s, x)) = Len(s) + 1 /\ Len(s) \in Nat
         /\ Append(s, x)[Len(s) + 1] = x /\ \A i \in 1 .. Len(s) : Append(s, x)[i] = s[i]
         /\ ToSet(Append(s, x)) = ToSet(s) \cup {x}
<1>1. /\ Append(s, x) \in Seq(S) /\ Len(Append(s, x)) = Len(s) + 1 /\ Len(s) \in Nat
      /\ Append(s, x)[Len(s) + 1] = x /\ \A i \in 1 .. Len(s) : Append(s, x)[i] = s[i]
  BY AppendProperties
<1>2. DOMAIN s = 1 .. Len(s) /\ DOMAIN Append(s, x) = 1 .. (Len(s) + 1)
  BY <1>1
<1>3. ToSet(Append(s, x)) = ToSet(s) \cup {x}
  <2> DEFINE t == Append(s, x)
  <2> HIDE DEF t
  <2>1. \A i \in DOMAIN t : i \in DOMAIN s \/ i = Len(s) + 1
    BY <1>1, <1>2 DEF t
  <2>2. \A i \in DOMAIN s : i \in DOMAIN t /\ t[i] = s[i]
    BY <1>1, <1>2 DEF t
  <2>3. Len(s) + 1 \in DOMAIN t /\ t[Len(s) + 1] = x
    BY <1>1, <1>2 DEF t
  <2>4. ToSet(t) = ToSet(s) \cup {x}
    BY <2>1, <2>2, <2>3, Zenon DEF ToSet
  <2> QED BY <2>4 DEF t
<1> QED BY <1>1, <1>3

LEMMA GroupAdded ==
  ASSUME NEW gs, NEW pk, NEW o, PackagesGood(gs, pk, o), NEW path \in Paths, path \notin DOMAIN pk
  PROVE  PackagesGood(Append(gs, path), With(pk, {path}, Source), o)
<1> DEFINE new == With(pk, {path}, Source)
           more == Append(gs, path)
<1>1. /\ new = [n \in DOMAIN new |-> new[n]] /\ DOMAIN new = DOMAIN pk \cup {path}
      /\ new[path] = Source /\ \A n \in DOMAIN pk : new[n] = pk[n]
  BY DEF With
<1>2. gs \in Seq(Paths) /\ ToSet(gs) \subseteq DOMAIN pk /\ path \notin ToSet(gs)
      /\ \A i, j \in DOMAIN gs : gs[i] = gs[j] => i = j
  BY DEF PackagesGood
<1>3. /\ more \in Seq(Paths) /\ Len(more) = Len(gs) + 1 /\ Len(gs) \in Nat
      /\ more[Len(gs) + 1] = path /\ \A i \in 1 .. Len(gs) : more[i] = gs[i]
      /\ ToSet(more) = ToSet(gs) \cup {path}
  BY <1>2, AppendIs
<1> HIDE DEF new, more
<1>4. \A i, j \in DOMAIN more : more[i] = more[j] => i = j
  <2>1. DOMAIN more = 1 .. (Len(gs) + 1) /\ DOMAIN gs = 1 .. Len(gs)
    BY <1>2, <1>3
  <2>2. \A i \in 1 .. Len(gs) : gs[i] # path
    BY <1>2, <2>1 DEF ToSet
  <2> QED BY <1>2, <1>3, <2>1, <2>2
<1>5. OwnPackage(Source)
  <2>1. Source.table = <<>>
    BY DEF Source
  <2> QED BY <2>1, NoTable DEF OwnPackage, Source
<1>6. \A p \in ToSet(more) : OwnPackage(new[p])
  BY <1>1, <1>2, <1>3, <1>5 DEF PackagesGood
<1>7. \A p \in DOMAIN new \ ToSet(more) : LoadedPackage(new[p], SourceDir(o, p))
  BY <1>1, <1>2, <1>3 DEF PackagesGood
<1>8. PackagesGood(more, new, o)
  BY <1>1, <1>2, <1>3, <1>4, <1>6, <1>7 DEF PackagesGood
<1> QED BY <1>8 DEF new, more

LEMMA AddGroupIs ==
  ASSUME NEW o, NEW B, Shape(B, o), NEW path \in Paths,
         path \in DOMAIN B.packages => path \in ToSet(B.groups)
  PROVE  LET C == AddGroup(B, path) IN
         /\ Shape(C, o) /\ C.m = B.m /\ C.fault = B.fault
         /\ Extends(B.groups, C.groups) /\ Grown(B.packages, C.packages)
         /\ DOMAIN C.packages = DOMAIN B.packages \cup {path}
         /\ ToSet(C.groups) = ToSet(B.groups) \cup {path}
<1> DEFINE C == AddGroup(B, path)
<1>1. /\ B.groups \in Seq(Paths) /\ Len(B.groups) \in Nat
      /\ ToSet(B.groups) \subseteq DOMAIN B.packages
  BY DEF Shape, PackagesGood
<1>2. CASE path \in ToSet(B.groups)
  <2>1. C = B
    BY <1>2 DEF AddGroup
  <2>2. Extends(B.groups, B.groups) /\ Grown(B.packages, B.packages)
    BY <1>1 DEF Extends, Grown, TableGrown
  <2> QED BY <1>1, <1>2, <2>1, <2>2
<1>3. CASE path \notin ToSet(B.groups)
  <2>1. path \notin DOMAIN B.packages
    BY <1>3
  <2>2. /\ C.groups = Append(B.groups, path) /\ C.packages = With(B.packages, {path}, Source)
        /\ C.m = B.m /\ C.fault = B.fault
        /\ C = [groups |-> C.groups, packages |-> C.packages, m |-> C.m, fault |-> C.fault]
    BY <1>3, <2>1 DEF AddGroup, NewPackage, Shape
  <2> HIDE DEF C
  <2>3. PackagesGood(C.groups, C.packages, o)
    BY <2>1, <2>2, GroupAdded DEF Shape
  <2>4. Extends(B.groups, C.groups) /\ ToSet(C.groups) = ToSet(B.groups) \cup {path}
    BY <1>1, <2>2, AppendIs DEF Extends
  <2>5. Grown(B.packages, C.packages)
    BY <2>1, <2>2, NewIsGrown
  <2>6. DOMAIN C.packages = DOMAIN B.packages \cup {path}
    BY <2>2 DEF With
  <2>7. Shape(C, o)
    BY <2>2, <2>3 DEF Shape
  <2> QED BY <2>2, <2>4, <2>5, <2>6, <2>7 DEF C
<1> QED BY <1>2, <1>3

LEMMA LoadIs ==
  ASSUME NEW o, NEW B, Handler(B, o), NEW path \in Paths, path \notin DOMAIN B.packages,
         NEW klc \in DOMAIN image, Image(image[klc]), NEW present,
         image[klc].dir = SourceDir(o, path) => UpToDate(image[klc], present)
  PROVE  LET C == Load(B, path, klc, present) IN
         /\ Handler(C, o) /\ Later(B, C) /\ C.m = B.m
         /\ C.fault = "none" => path \in DOMAIN C.packages
<1> DEFINE C == Load(B, path, klc, present)
           i == image[klc]
           k == [FromImage(i) EXCEPT !.disk = present]
<1>1. CASE i.cut = "stops"
  <2>1. C = Stop(B, "truncated")
    BY <1>1 DEF Load
  <2>2. Handler(C, o) /\ Reports(B, C) /\ C.fault # "none" /\ C.m = B.m
    BY <2>1, StopIs DEF Faults
  <2> HIDE DEF C
  <2>3. Later(B, C)
    BY <2>2, ReportsLater
  <2> QED BY <2>2, <2>3 DEF C
<1>2. CASE i.cut # "stops"
  <2>1. /\ C.groups = B.groups /\ C.packages = With(B.packages, {path}, k)
        /\ C.m = B.m /\ C.fault = B.fault
        /\ C = [groups |-> C.groups, packages |-> C.packages, m |-> C.m, fault |-> C.fault]
    BY <1>2 DEF Load, NewPackage, Handler, Shape
  <2>2. LoadedPackage(k, SourceDir(o, path))
    <3>1. CASE i.cut = "rejected"
      <4>1. k.from = "nothing" /\ k.name = None /\ k.table = <<>>
        BY <3>1 DEF FromImage
      <4> HIDE DEF k, i
      <4> QED BY <4>1, NoTable DEF LoadedPackage
    <3>2. CASE i.cut # "rejected"
      <4>1. /\ k.from = "image" /\ k.name = i.name /\ k.image = i /\ k.disk = present
            /\ k.table = [n \in Visible(i.table) |-> i.table[n]]
        BY <3>2 DEF FromImage
      <4>2. i.name \in Names \cup {""} /\ Table(i.table)
        BY DEF Image
      <4> HIDE DEF k, i
      <4>3. Table(k.table)
        <5>1. DOMAIN i.table \subseteq Names /\ \A n \in DOMAIN i.table : i.table[n] \in Symbols
          BY <4>2 DEF Table, Map
        <5>2. Visible(i.table) \subseteq DOMAIN i.table
          BY DEF Visible
        <5>3. DOMAIN k.table = Visible(i.table) /\ k.table = [n \in DOMAIN k.table |-> k.table[n]]
              /\ \A n \in DOMAIN k.table : k.table[n] = i.table[n]
          BY <4>1
        <5> QED BY <5>1, <5>2, <5>3 DEF Table, Map
      <4> QED BY <4>1, <4>2, <4>3 DEF LoadedPackage, i
    <3> QED BY <3>1, <3>2
  <2> HIDE DEF C, k, i
  <2>3. PackagesGood(C.groups, C.packages, o)
    BY <2>1, <2>2, PackageLoaded DEF Handler, Shape
  <2>4. Grown(B.packages, C.packages) /\ path \in DOMAIN C.packages
    <3>1. Grown(B.packages, With(B.packages, {path}, k))
      BY NewIsGrown
    <3> QED BY <2>1, <3>1 DEF With
  <2>5. Extends(B.groups, C.groups) /\ B.m.errnum \in Nat
    BY <2>1, ErrorsCounted DEF Extends, Handler, Shape, PackagesGood
  <2>6. Handler(C, o)
    BY <2>1, <2>3 DEF Handler, Shape
  <2>7. Later(B, C)
    BY <2>1, <2>4, <2>5 DEF Later
  <2> QED BY <2>1, <2>4, <2>6, <2>7 DEF C
<1> QED BY <1>1, <1>2

(* The disk, in every state.                                               *)
OnDisk == DiskGood([files |-> files, image |-> image], clock)

LEMMA DiskFacts ==
  ASSUME OnDisk
  PROVE  /\ files = [dir \in DOMAIN files |-> files[dir]] /\ DOMAIN files \subseteq Dirs
         /\ \A dir \in DOMAIN files : Listed(files[dir])
         /\ \A s \in Saves : s.dir \in DOMAIN files
         /\ image = [l \in DOMAIN image |-> image[l]] /\ DOMAIN image \subseteq Dirs
         /\ \A l \in DOMAIN image :
              /\ Image(image[l]) /\ image[l].opened <= clock
              /\ image[l].cut = "no" => Complete(image[l])
              /\ image[l].dir \in DOMAIN files =>
                   \A f \in MissedSaves(image[l], files[image[l].dir]) :
                     files[image[l].dir][f].at >= image[l].opened
BY DEF OnDisk, DiskGood

(* An image that is not older than its directory misses nothing but what   *)
(* was saved while it was made (Parser_New_Import).                        *)
LEMMA NotLaterIsUpToDate ==
  ASSUME OnDisk, NEW dir \in DOMAIN files, dir \in DOMAIN image, ~ DirLater(dir, dir),
         image[dir].dir = dir
  PROVE  UpToDate(image[dir], files[dir])
<1>1. Listed(files[dir]) /\ Image(image[dir])
      /\ \A f \in MissedSaves(image[dir], files[dir]) : files[dir][f].at >= image[dir].opened
  BY DiskFacts
<1>2. LastSaved(dir) \in Nat /\ \A f \in DOMAIN files[dir] : files[dir][f].at <= LastSaved(dir)
  BY <1>1, LastSavedBounds
<1>3. image[dir].at \in Nat /\ image[dir].opened \in Nat /\ LastSaved(dir) <= image[dir].at
  <2>1. image[dir].at \in Nat /\ image[dir].opened \in Nat
    BY <1>1 DEF Image
  <2> QED BY <1>2, <2>1 DEF DirLater
<1>4. ASSUME NEW f \in MissedSaves(image[dir], files[dir])
      PROVE  files[dir][f].at \in image[dir].opened .. image[dir].at
  <2>1. f \in DOMAIN files[dir]
    BY <1>4 DEF MissedSaves
  <2>2. files[dir][f].at \in Nat
    BY <1>1, <2>1 DEF Listed, Map
  <2>3. files[dir][f].at >= image[dir].opened /\ files[dir][f].at <= LastSaved(dir)
    BY <1>1, <1>2, <1>4, <2>1
  <2> QED BY <1>2, <1>3, <2>2, <2>3
<1> QED BY <1>4 DEF UpToDate

LEMMA LoadFirstIs ==
  ASSUME OnDisk, NEW o, o.pathes \in Seq(Roots), NEW B, Handler(B, o), NEW path \in Paths,
         path \notin DOMAIN B.packages
  PROVE  LET C == LoadFirst(B, o, path, SearchPathes(o, path)) IN
         /\ Handler(C, o) /\ Later(B, C) /\ C.m = [B.m EXCEPT !.errnum = C.m.errnum]
         /\ C.fault = "none" /\ C.m.errnum = B.m.errnum => path \in DOMAIN C.packages
<1> DEFINE found == SearchPathes(o, path)
           C == LoadFirst(B, o, path, found)
<1>1. CASE found = {}
  <2>1. C = SyntaxError(B)
    BY <1>1 DEF LoadFirst
  <2>2. Handler(C, o) /\ Reports(B, C) /\ C.m.errnum = B.m.errnum + 1
    BY <2>1, SyntaxErrorIs
  <2> HIDE DEF C
  <2>3. Later(B, C) /\ B.m.errnum \in Nat
    BY <2>2, ReportsLater, ErrorsCounted DEF Handler
  <2> QED BY <2>2, <2>3 DEF C, Reports
<1>2. CASE found # {}
  <2>1. found \in SUBSET Nat
    BY DEF SearchPathes
  <2>2. Min(found) \in found
    <3>1. \E x \in found : \A y \in found : x <= y
      BY <1>2, <2>1, Least
    <3> QED BY <3>1 DEF Min
  <2> DEFINE klc == <<o.pathes[Min(found)], path>>
  <2>3. klc \in DOMAIN image
    BY <2>2 DEF SearchPathes, FileExists
  <2>4. C = Load(B, path, klc, <<>>)
    BY <1>2 DEF LoadFirst
  <2>5. Image(image[klc])
    BY <2>3, DiskFacts
  <2>6. UpToDate(image[klc], <<>>)
    <3>1. MissedSaves(image[klc], <<>>) = {}
      BY NoTable DEF MissedSaves
    <3> QED BY <3>1 DEF UpToDate
  <2> HIDE DEF klc, found
  <2>7. Handler(C, o) /\ Later(B, C) /\ C.m = B.m
        /\ (C.fault = "none" => path \in DOMAIN C.packages)
    BY <2>3, <2>4, <2>5, <2>6, LoadIs
  <2>8. B.m = [B.m EXCEPT !.errnum = B.m.errnum]
    BY DEF Handler, Parsers
  <2> HIDE DEF C
  <2> QED BY <2>7, <2>8 DEF C, found
<1> QED BY <1>1, <1>2

LEMMA FindPackageIs ==
  ASSUME OnDisk, NEW o, o.pathes \in Seq(Roots), NEW B, Handler(B, o), NEW path \in Paths
  PROVE  LET C == FindPackage(B, o, SourceDir(o, path), path) IN
         /\ Handler(C, o) /\ Later(B, C) /\ C.m = [B.m EXCEPT !.errnum = C.m.errnum]
         /\ C.fault = "none" /\ C.m.errnum = B.m.errnum => path \in DOMAIN C.packages
<1> DEFINE dir == SourceDir(o, path)
           C == FindPackage(B, o, dir, path)
           Goal == /\ Handler(C, o) /\ Later(B, C) /\ C.m = [B.m EXCEPT !.errnum = C.m.errnum]
                   /\ C.fault = "none" /\ C.m.errnum = B.m.errnum => path \in DOMAIN C.packages
<1>0. B.m = [B.m EXCEPT !.errnum = B.m.errnum]
  BY DEF Handler, Parsers
<1>1. CASE path \in DOMAIN B.packages
  <2>1. C = B
    BY <1>1 DEF FindPackage
  <2>2. Later(B, B)
    BY ReportsSelf, ReportsLater
  <2> QED BY <1>0, <1>1, <2>1, <2>2
<1>2. CASE path \notin DOMAIN B.packages /\ ~ DirExists(dir)
  <2>1. C = LoadFirst(B, o, path, SearchPathes(o, path))
    BY <1>2 DEF FindPackage
  <2> HIDE DEF C
  <2>2. Goal
    BY <1>2, <2>1, LoadFirstIs
  <2> QED BY <2>2 DEF C
<1>3. CASE path \notin DOMAIN B.packages /\ DirExists(dir)
           /\ (~ FileExists(dir) \/ DirLater(dir, dir))
  <2>1. C = AddGroup(B, path)
    BY <1>3 DEF FindPackage
  <2> HIDE DEF C
  <2>2. /\ Shape(C, o) /\ C.m = B.m /\ C.fault = B.fault
        /\ Extends(B.groups, C.groups) /\ Grown(B.packages, C.packages)
        /\ DOMAIN C.packages = DOMAIN B.packages \cup {path}
    BY <1>3, <2>1, AddGroupIs DEF Handler
  <2>3. B.m.errnum \in Nat
    BY ErrorsCounted DEF Handler
  <2>4. Handler(C, o) /\ Later(B, C)
    BY <2>2, <2>3 DEF Handler, Later
  <2> QED BY <1>0, <2>2, <2>4 DEF C
<1>4. CASE path \notin DOMAIN B.packages /\ DirExists(dir) /\ FileExists(dir)
           /\ ~ DirLater(dir, dir)
  <2>1. C = Load(B, path, dir, files[dir])
    BY <1>4 DEF FindPackage
  <2>2. dir \in DOMAIN files /\ dir \in DOMAIN image
    BY <1>4 DEF DirExists, FileExists
  <2>3. image[dir].dir = dir => UpToDate(image[dir], files[dir])
    <3> HIDE DEF dir
    <3> QED BY <1>4, <2>2, NotLaterIsUpToDate
  <2>4. Image(image[dir])
    BY <2>2, DiskFacts
  <2> HIDE DEF C
  <2>5. Handler(C, o) /\ Later(B, C) /\ C.m = B.m
        /\ (C.fault = "none" => path \in DOMAIN C.packages)
    BY <1>4, <2>1, <2>2, <2>3, <2>4, LoadIs
  <2> QED BY <1>0, <2>5 DEF C
<1> QED BY <1>1, <1>2, <1>3, <1>4

-----------------------------------------------------------------------------
(* Imports *)

LEMMA ElementIs == ASSUME NEW S, NEW s \in Seq(S), NEW i \in 1 .. Len(s) PROVE s[i] \in S
OBVIOUS

(* A package that takes another name or table.                             *)
Replaced(pk, p, k) == [pk EXCEPT ![p] = k]

LEMMA PackageChanged ==
  ASSUME NEW gs, NEW pk, NEW o, PackagesGood(gs, pk, o), NEW p \in ToSet(gs), NEW k, OwnPackage(k),
         TableGrown(pk[p].table, k.table), NEW pk2, pk2 = Replaced(pk, p, k)
  PROVE  PackagesGood(gs, pk2, o) /\ Grown(pk, pk2) /\ pk2[p] = k
<1>1. p \in DOMAIN pk /\ pk = [q \in DOMAIN pk |-> pk[q]]
  BY DEF PackagesGood
<1>2. /\ pk2 = [q \in DOMAIN pk2 |-> pk2[q]] /\ DOMAIN pk2 = DOMAIN pk /\ pk2[p] = k
      /\ \A q \in DOMAIN pk \ {p} : pk2[q] = pk[q]
  BY <1>1 DEF Replaced
<1>3. PackagesGood(gs, pk2, o)
  BY <1>2 DEF PackagesGood
<1>4. Grown(pk, pk2)
  BY <1>2 DEF Grown, TableGrown
<1> QED BY <1>2, <1>3, <1>4

LEMMA OwnPackageIs ==
  ASSUME NEW gs, NEW pk, NEW o, PackagesGood(gs, pk, o), NEW p \in ToSet(gs)
  PROVE  /\ p \in DOMAIN pk /\ OwnPackage(pk[p]) /\ pk = [q \in DOMAIN pk |-> pk[q]]
         /\ pk[p] = [from |-> "source", name |-> pk[p].name, table |-> pk[p].table,
                     code |-> pk[p].code]
BY DEF PackagesGood, OwnPackage

LEMMA SetPkgNameIs ==
  ASSUME NEW o, NEW B, Handler(B, o), NEW p \in ToSet(B.groups), NEW name \in Names
  PROVE  LET C == SetPkgName(B, p, name) IN
         /\ Handler(C, o) /\ Later(B, C) /\ C.m = [B.m EXCEPT !.errnum = C.m.errnum]
         /\ C.groups = B.groups
<1> DEFINE C == SetPkgName(B, p, name)
           own == B.packages[p]
           k == [own EXCEPT !.name = name]
<1>0. PackagesGood(B.groups, B.packages, o) /\ B.m \in Parsers /\ B.m.errnum \in Nat
  BY ErrorsCounted DEF Handler, Shape
<1>1. /\ p \in DOMAIN B.packages /\ OwnPackage(own)
      /\ B.packages = [q \in DOMAIN B.packages |-> B.packages[q]]
      /\ own = [from |-> "source", name |-> own.name, table |-> own.table, code |-> own.code]
  BY <1>0, OwnPackageIs
<1>2. CASE own.name = None
  <2>1. /\ C.packages = Replaced(B.packages, p, k) /\ C.groups = B.groups /\ C.m = B.m
        /\ C.fault = B.fault
        /\ C = [groups |-> C.groups, packages |-> C.packages, m |-> C.m, fault |-> C.fault]
    BY <1>1, <1>2 DEF SetPkgName, Handler, Shape, Replaced
  <2>2. k = [from |-> "source", name |-> name, table |-> own.table, code |-> own.code]
    BY <1>1
  <2> HIDE DEF C, k
  <2>3. OwnPackage(k)
    BY <1>1, <2>2 DEF OwnPackage
  <2>4. PackagesGood(B.groups, C.packages, o) /\ Grown(B.packages, C.packages)
    <3>1. TableGrown(own.table, k.table)
      BY <2>2 DEF TableGrown
    <3> QED BY <1>0, <2>1, <2>3, <3>1, PackageChanged
  <2>5. Handler(C, o)
    BY <2>1, <2>4 DEF Handler, Shape
  <2>6. Later(B, C)
    BY <1>0, <2>1, <2>4 DEF Later, Extends, PackagesGood
  <2>7. B.m = [B.m EXCEPT !.errnum = B.m.errnum]
    BY <1>0 DEF Parsers
  <2> QED BY <2>1, <2>5, <2>6, <2>7 DEF C
<1>3. CASE own.name # None /\ own.name # name
  <2>1. C = SyntaxError(B)
    BY <1>3 DEF SetPkgName
  <2> HIDE DEF C
  <2> QED BY <2>1, SyntaxErrorIs, ReportsLater DEF C, Reports
<1>4. CASE own.name # None /\ own.name = name
  <2>1. C = B
    BY <1>4 DEF SetPkgName
  <2> HIDE DEF C
  <2> QED BY <2>1, ReportsSelf, ReportsLater DEF C, Reports
<1> QED BY <1>2, <1>3, <1>4

(* The facts about the imports of a file survive what else is done.        *)
LEMMA ImportsStayMet ==
  ASSUME NEW m, NEW pk, NEW pk2, ImportsMet(m, pk), Grown(pk, pk2)
  PROVE  ImportsMet(m, pk2)
BY DEF ImportsMet, Grown, TableGrown

LEMMA ParserFields ==
  ASSUME NEW m \in Parsers
  PROVE  /\ m.file \in Files /\ m.text \in SourceTexts /\ m.imports \in Seq(SourceImps)
         /\ m.stmts \in Seq(SourceDecls) /\ m.symbols \subseteq Names /\ m.errnum \in Nat
         /\ m.ext \in Partial(Names \cup {""}, Paths) /\ m.dots \in Partial(Names, Paths)
         /\ m.code \in Seq(Names)
BY DEF Parsers

LEMMA WithImport ==
  ASSUME NEW m \in Parsers, NEW imp \in SourceImps
  PROVE  LET m2 == [m EXCEPT !.imports = Append(m.imports, imp)] IN
         /\ m2 \in Parsers /\ m2.imports = Append(m.imports, imp)
         /\ m2.file = m.file /\ m2.text = m.text /\ m2.stmts = m.stmts /\ m2.errnum = m.errnum
         /\ m2.ext = m.ext /\ m2.dots = m.dots
<1>1. Append(m.imports, imp) \in Seq(SourceImps)
  BY ParserFields, AppendIs
<1> QED BY <1>1 DEF Parsers

LEMMA SameButErrors ==
  ASSUME NEW m \in Parsers, NEW m2, m2 = [m EXCEPT !.errnum = m2.errnum]
  PROVE  /\ m2.file = m.file /\ m2.text = m.text /\ m2.stmts = m.stmts /\ m2.imports = m.imports
         /\ m2.ext = m.ext /\ m2.dots = m.dots /\ m2.symbols = m.symbols
BY DEF Parsers

(* Parser_New_Import                                                       *)
LEMMA NewImportIs ==
  ASSUME OnDisk, NEW o, o.pathes \in Seq(Roots), NEW B, Handler(B, o),
         NEW p, NEW imp \in SourceImps,
         ImportsMet(B.m, B.packages)
  PROVE  LET C == NewImport(B, p, o, imp) IN
         /\ Handler(C, o) /\ Later(B, C) /\ C.m.stmts = B.m.stmts
         /\ C.fault = "none" => ImportsMet(C.m, C.packages)
<1> DEFINE C == NewImport(B, p, o, imp)
           F == FindPackage(B, o, SourceDir(o, imp.path), imp.path)
<1>0. B.m \in Parsers /\ B.m.errnum \in Nat /\ imp.path \in Paths
  BY ErrorsCounted DEF Handler, SourceImps
<1>1. CASE imp.path = p \/ Repeated(B.m.imports, imp)
  <2>1. C = SyntaxError(B)
    BY <1>1 DEF NewImport
  <2> HIDE DEF C
  <2>2. Handler(C, o) /\ Reports(B, C)
    BY <2>1, SyntaxErrorIs
  <2>3. Later(B, C)
    BY <2>2, ReportsLater
  <2>4. C.packages = B.packages /\ C.m.stmts = B.m.stmts /\ C.m.imports = B.m.imports
        /\ C.m.ext = B.m.ext /\ C.m.dots = B.m.dots
    BY <1>0, <2>2, SameButErrors DEF Reports
  <2>5. ImportsMet(C.m, C.packages)
    BY <2>4 DEF ImportsMet
  <2> QED BY <2>2, <2>3, <2>4, <2>5 DEF C
<1>2. CASE ~ (imp.path = p \/ Repeated(B.m.imports, imp))
  <2>1. C = KeepImport(F, B.m.errnum, imp)
    BY <1>2 DEF NewImport
  <2>2. /\ Handler(F, o) /\ Later(B, F) /\ F.m = [B.m EXCEPT !.errnum = F.m.errnum]
        /\ F.fault = "none" /\ F.m.errnum = B.m.errnum => imp.path \in DOMAIN F.packages
    BY <1>0, FindPackageIs
  <2> HIDE DEF C, F
  <2>3. /\ F.m.stmts = B.m.stmts /\ F.m.imports = B.m.imports
        /\ F.m.ext = B.m.ext /\ F.m.dots = B.m.dots
    BY <1>0, <2>2, SameButErrors
  <2>4. F.m \in Parsers /\ F.m.errnum \in Nat /\ F.m.errnum >= B.m.errnum
    BY <2>2, ErrorsCounted DEF Later, Handler
  <2>5. ImportsMet(F.m, F.packages)
    <3>1. ImportsMet(B.m, F.packages)
      BY <2>2, ImportsStayMet DEF Later
    <3> QED BY <2>3, <3>1 DEF ImportsMet
  <2>6. CASE F.m.errnum > B.m.errnum
    <3>1. C = F
      BY <2>1, <2>6 DEF KeepImport
    <3> QED BY <2>2, <2>3, <2>5, <3>1 DEF C
  <2>7. CASE ~ F.m.errnum > B.m.errnum
    <3>1. /\ C.m = [F.m EXCEPT !.imports = Append(F.m.imports, imp)] /\ C.groups = F.groups
          /\ C.packages = F.packages /\ C.fault = F.fault
          /\ C = [groups |-> C.groups, packages |-> C.packages, m |-> C.m, fault |-> C.fault]
      BY <2>1, <2>2, <2>7 DEF KeepImport, Handler, Shape
    <3>2. /\ C.m \in Parsers /\ C.m.imports = Append(F.m.imports, imp)
          /\ C.m.file = F.m.file /\ C.m.text = F.m.text /\ C.m.stmts = F.m.stmts
          /\ C.m.errnum = F.m.errnum /\ C.m.ext = F.m.ext /\ C.m.dots = F.m.dots
      BY <2>4, <3>1, WithImport
    <3>3. Handler(C, o)
      BY <2>2, <3>1, <3>2 DEF Handler, Shape
    <3>4. Later(B, C)
      BY <2>2, <3>1, <3>2 DEF Later
    <3>5. ASSUME C.fault = "none" PROVE ImportsMet(C.m, C.packages)
      <4>1. imp.path \in DOMAIN F.packages
        BY <1>0, <2>2, <2>4, <2>7, <3>1, <3>5
      <4>2. F.m.imports \in Seq(SourceImps)
        BY <2>4, ParserFields
      <4>3. /\ DOMAIN F.m.imports = 1 .. Len(F.m.imports)
            /\ DOMAIN C.m.imports = 1 .. Len(F.m.imports) + 1 /\ Len(F.m.imports) \in Nat
            /\ C.m.imports[Len(F.m.imports) + 1] = imp
            /\ \A i \in 1 .. Len(F.m.imports) : C.m.imports[i] = F.m.imports[i]
        BY <3>2, <4>2, AppendIs
      <4>4. ASSUME NEW i \in DOMAIN C.m.imports PROVE C.m.imports[i].path \in DOMAIN C.packages
        <5>1. CASE i = Len(F.m.imports) + 1
          BY <3>1, <4>1, <4>3, <5>1
        <5>2. CASE i \in 1 .. Len(F.m.imports)
          BY <2>5, <3>1, <4>3, <5>2 DEF ImportsMet
        <5> QED BY <4>3, <5>1, <5>2
      <4> QED BY <2>5, <3>1, <3>2, <4>4 DEF ImportsMet
    <3> QED BY <2>3, <3>2, <3>3, <3>4, <3>5 DEF C
  <2> QED BY <2>6, <2>7
<1> QED BY <1>1, <1>2

-----------------------------------------------------------------------------
(* One handler after the other *)

(* The imports and the declarations of a file that is built.               *)
EveryImport(B, p, o, s) == Every(LAMBDA C, imp : NewImport(C, p, o, imp), B, s)
EveryDecl(B, p, s) == Every(LAMBDA C, d : Declare(C, p, d), B, s)

(* What is done with an element x of a sequence: an import or a declaration*)
(* is built, one of them is analysed, a symbol is imported, an argument    *)
(* becomes a group, the errors of a file are added.                        *)
Turn(kind, C, p, o, x) ==
  CASE kind = "import"    -> IF C.fault = "none" THEN NewImport(C, p, o, x) ELSE C
    [] kind = "decl"      -> IF C.fault = "none" THEN Declare(C, p, x) ELSE C
    [] kind = "imported"  -> IF C.fault = "none" THEN ParseImport(C, x, C.packages[x.path]) ELSE C
    [] kind = "statement" -> IF C.fault = "none" THEN ParseStatement(C, p, x) ELSE C
    [] kind = "symbol"    -> IF C.fault = "none" THEN DotSymbol(C, p, x) ELSE C
    [] kind = "argument"  -> AddGroup(C, x)
    [] kind = "file"      -> C + x.errnum

Steps(h, kind, B, p, o, s) ==
  h = [i \in 0 .. Len(s) |-> IF i = 0 THEN B ELSE Turn(kind, h[i - 1], p, o, s[i])]

LEMMA TurnsTaken ==
  ASSUME NEW kind, NEW B, NEW p, NEW o, NEW s, Len(s) \in Nat
  PROVE  \E h : Steps(h, kind, B, p, o, s)
<1> DEFINE n == Len(s)
           Step(C, k) == Turn(kind, C, p, o, s[k])
           Upto(m, h) == h[0] = B /\ \A k \in 1 .. m : h[k] = Step(h[k - 1], k)
           T == {m \in 0 .. n : \E h : h = [i \in 0 .. m |-> h[i]] /\ Upto(m, h)}
<1>0. n \in Nat
  OBVIOUS
<1> HIDE DEF Step, n
<1>2. 0 \in T
  <2> DEFINE h == [i \in 0 .. 0 |-> B]
  <2>1. h = [i \in 0 .. 0 |-> h[i]] /\ Upto(0, h)
    OBVIOUS
  <2> HIDE DEF h
  <2> QED BY <1>0, <2>1
<1>3. ASSUME NEW m \in 0 .. n - 1, m \in T PROVE m + 1 \in T
  <2>1. PICK f : f = [i \in 0 .. m |-> f[i]] /\ Upto(m, f)
    BY <1>3
  <2> DEFINE h == [i \in 0 .. m + 1 |-> IF i = m + 1 THEN Step(f[m], m + 1) ELSE f[i]]
  <2>2. h = [i \in 0 .. m + 1 |-> h[i]]
    OBVIOUS
  <2>3. h[0] = B /\ h[m + 1] = Step(f[m], m + 1) /\ \A i \in 0 .. m : h[i] = f[i]
    BY <2>1
  <2> HIDE DEF h
  <2>4. ASSUME NEW k \in 1 .. m + 1 PROVE h[k] = Step(h[k - 1], k)
    <3>1. CASE k = m + 1
      BY <2>3, <3>1
    <3>2. CASE k \in 1 .. m
      <4>1. h[k] = f[k] /\ h[k - 1] = f[k - 1]
        BY <2>3, <3>2
      <4>2. f[k] = Step(f[k - 1], k)
        BY <2>1, <3>2
      <4> QED BY <4>1, <4>2
    <3> QED BY <3>1, <3>2
  <2>5. Upto(m + 1, h)
    BY <2>3, <2>4
  <2> QED BY <2>2, <2>5
<1>4. n \in T
  <2> HIDE DEF T
  <2>1. \A k \in 0 .. n : k \in T
    BY <1>0, <1>2, <1>3, Induction
  <2> QED BY <1>0, <2>1
<1>5. PICK h : h = [i \in 0 .. n |-> h[i]] /\ Upto(n, h)
  BY <1>4
<1>6. ASSUME NEW i \in 0 .. n PROVE h[i] = IF i = 0 THEN B ELSE Step(h[i - 1], i)
  <2>1. CASE i = 0
    BY <1>5, <2>1
  <2>2. CASE i # 0
    <3>1. i \in 1 .. n
      BY <1>0, <2>2
    <3> QED BY <1>5, <2>2, <3>1
  <2> QED BY <2>1, <2>2
<1>7. h = [i \in 0 .. n |-> IF i = 0 THEN B ELSE Step(h[i - 1], i)]
  BY <1>5, <1>6
<1> QED BY <1>7 DEF Step, n, Steps

(* What Every does with the imports of a file.                             *)
LEMMA ImportsInTurn ==
  ASSUME NEW B, NEW p, NEW o, NEW s, Len(s) \in Nat
  PROVE  \E g : /\ g[0] = B
                /\ \A k \in 1 .. Len(s) :
                     g[k] = IF g[k - 1].fault = "none" THEN NewImport(g[k - 1], p, o, s[k])
                            ELSE g[k - 1]
                /\ EveryImport(B, p, o, s) = g[Len(s)]
<1> DEFINE n == Len(s)
           Step(C, x) == IF C.fault = "none" THEN NewImport(C, p, o, x) ELSE C
           Turns(h) == [i \in 0 .. n |-> IF i = 0 THEN B ELSE Step(h[i - 1], s[i])]
           after == CHOOSE h : h = Turns(h)
<1>1. EveryImport(B, p, o, s) = after[n]
  BY DEF Every, EveryImport
<1>2. PICK h : Steps(h, "import", B, p, o, s)
  BY TurnsTaken
<1>3. \A C, x : Turn("import", C, p, o, x) = Step(C, x)
  BY DEF Turn
<1>4. n \in Nat
  OBVIOUS
<1> HIDE DEF Step, n
<1>5. h = Turns(h)
  BY <1>2, <1>3 DEF Steps, n
<1>6. after = Turns(after)
  <2> HIDE DEF Turns
  <2> QED BY <1>5
<1> HIDE DEF after
<1>7. after[0] = B
  BY <1>4, <1>6
<1>8. ASSUME NEW k \in 1 .. n PROVE after[k] = Step(after[k - 1], s[k])
  <2>1. k \in 0 .. n /\ k # 0
    BY <1>4
  <2>2. Turns(after)[k] = Step(after[k - 1], s[k])
    BY <2>1
  <2> HIDE DEF Turns
  <2> QED BY <1>6, <2>2
<1> QED BY <1>1, <1>7, <1>8 DEF Step, n

(* And with its declarations.                                              *)
LEMMA DeclsInTurn ==
  ASSUME NEW B, NEW p, NEW s, Len(s) \in Nat
  PROVE  \E g : /\ g[0] = B
                /\ \A k \in 1 .. Len(s) :
                     g[k] = IF g[k - 1].fault = "none" THEN Declare(g[k - 1], p, s[k])
                            ELSE g[k - 1]
                /\ EveryDecl(B, p, s) = g[Len(s)]
<1> DEFINE n == Len(s)
           Step(C, x) == IF C.fault = "none" THEN Declare(C, p, x) ELSE C
           Turns(h) == [i \in 0 .. n |-> IF i = 0 THEN B ELSE Step(h[i - 1], s[i])]
           after == CHOOSE h : h = Turns(h)
<1>1. EveryDecl(B, p, s) = after[n]
  BY DEF Every, EveryDecl
<1>2. PICK h : Steps(h, "decl", B, p, p, s)
  BY TurnsTaken
<1>3. \A C, x : Turn("decl", C, p, p, x) = Step(C, x)
  BY DEF Turn
<1>4. n \in Nat
  OBVIOUS
<1> HIDE DEF Step, n
<1>5. h = Turns(h)
  BY <1>2, <1>3 DEF Steps, n
<1>6. after = Turns(after)
  <2> HIDE DEF Turns
  <2> QED BY <1>5
<1> HIDE DEF after
<1>7. after[0] = B
  BY <1>4, <1>6
<1>8. ASSUME NEW k \in 1 .. n PROVE after[k] = Step(after[k - 1], s[k])
  <2>1. k \in 0 .. n /\ k # 0
    BY <1>4
  <2>2. Turns(after)[k] = Step(after[k - 1], s[k])
    BY <2>1
  <2> HIDE DEF Turns
  <2> QED BY <1>6, <2>2
<1> QED BY <1>1, <1>7, <1>8 DEF Step, n

(* What ParseImports does.                                                 *)
LEMMA ImportedInTurn ==
  ASSUME NEW B, Len(B.m.imports) \in Nat
  PROVE  \E g : /\ g[0] = B
                /\ \A k \in 1 .. Len(B.m.imports) :
                     g[k] = IF g[k - 1].fault = "none"
                            THEN ParseImport(g[k - 1], B.m.imports[k],
                                             g[k - 1].packages[B.m.imports[k].path])
                            ELSE g[k - 1]
                /\ ParseImports(B) = g[Len(B.m.imports)]
<1> DEFINE n == Len(B.m.imports)
           Step(C, x) == IF C.fault = "none" THEN ParseImport(C, x, C.packages[x.path]) ELSE C
           Turns(h) == [i \in 0 .. n |-> IF i = 0 THEN B ELSE Step(h[i - 1], B.m.imports[i])]
           after == CHOOSE h : h = Turns(h)
<1>1. ParseImports(B) = after[n]
  BY DEF Every, ParseImports
<1>2. PICK h : Steps(h, "imported", B, B, B, B.m.imports)
  BY TurnsTaken
<1>3. \A C, x : Turn("imported", C, B, B, x) = Step(C, x)
  BY DEF Turn
<1>4. n \in Nat
  OBVIOUS
<1> HIDE DEF Step, n
<1>5. h = Turns(h)
  BY <1>2, <1>3 DEF Steps, n
<1>6. after = Turns(after)
  <2> HIDE DEF Turns
  <2> QED BY <1>5
<1> HIDE DEF after
<1>7. after[0] = B
  BY <1>4, <1>6
<1>8. ASSUME NEW k \in 1 .. n PROVE after[k] = Step(after[k - 1], B.m.imports[k])
  <2>1. k \in 0 .. n /\ k # 0
    BY <1>4
  <2>2. Turns(after)[k] = Step(after[k - 1], B.m.imports[k])
    BY <2>1
  <2> HIDE DEF Turns
  <2> QED BY <1>6, <2>2
<1> QED BY <1>1, <1>7, <1>8 DEF Step, n

(* What a dot import does with the symbols of a package.                   *)
LEMMA SymbolsInTurn ==
  ASSUME NEW B, NEW path, NEW names, NEW s, s = SetToSeq(names), Len(s) \in Nat
  PROVE  \E g : /\ g[0] = B
                /\ \A k \in 1 .. Len(s) :
                     g[k] = IF g[k - 1].fault = "none" THEN DotSymbol(g[k - 1], path, s[k])
                            ELSE g[k - 1]
                /\ DotImport(B, path, names) = g[Len(s)]
<1> DEFINE n == Len(s)
           Step(C, x) == IF C.fault = "none" THEN DotSymbol(C, path, x) ELSE C
           Turns(h) == [i \in 0 .. n |-> IF i = 0 THEN B ELSE Step(h[i - 1], s[i])]
           after == CHOOSE h : h = Turns(h)
<1>1. DotImport(B, path, names) = after[n]
  BY DEF Every, DotImport
<1>2. PICK h : Steps(h, "symbol", B, path, path, s)
  BY TurnsTaken
<1>3. \A C, x : Turn("symbol", C, path, path, x) = Step(C, x)
  BY DEF Turn
<1>4. n \in Nat
  OBVIOUS
<1> HIDE DEF Step, n
<1>5. h = Turns(h)
  BY <1>2, <1>3 DEF Steps, n
<1>6. after = Turns(after)
  <2> HIDE DEF Turns
  <2> QED BY <1>5
<1> HIDE DEF after
<1>7. after[0] = B
  BY <1>4, <1>6
<1>8. ASSUME NEW k \in 1 .. n PROVE after[k] = Step(after[k - 1], s[k])
  <2>1. k \in 0 .. n /\ k # 0
    BY <1>4
  <2>2. Turns(after)[k] = Step(after[k - 1], s[k])
    BY <2>1
  <2> HIDE DEF Turns
  <2> QED BY <1>6, <2>2
<1> QED BY <1>1, <1>7, <1>8 DEF Step, n

(* What ParseStatements does.                                              *)
LEMMA StatementsInTurn ==
  ASSUME NEW B, NEW p, Len(B.m.stmts) \in Nat
  PROVE  \E g : /\ g[0] = B
                /\ \A k \in 1 .. Len(B.m.stmts) :
                     g[k] = IF g[k - 1].fault = "none"
                            THEN ParseStatement(g[k - 1], p, B.m.stmts[k])
                            ELSE g[k - 1]
                /\ ParseStatements(B, p) = g[Len(B.m.stmts)]
<1> DEFINE n == Len(B.m.stmts)
           Step(C, x) == IF C.fault = "none" THEN ParseStatement(C, p, x) ELSE C
           Turns(h) == [i \in 0 .. n |-> IF i = 0 THEN B ELSE Step(h[i - 1], B.m.stmts[i])]
           after == CHOOSE h : h = Turns(h)
<1>1. ParseStatements(B, p) = after[n]
  BY DEF Every, ParseStatements
<1>2. PICK h : Steps(h, "statement", B, p, p, B.m.stmts)
  BY TurnsTaken
<1>3. \A C, x : Turn("statement", C, p, p, x) = Step(C, x)
  BY DEF Turn
<1>4. n \in Nat
  OBVIOUS
<1> HIDE DEF Step, n
<1>5. h = Turns(h)
  BY <1>2, <1>3 DEF Steps, n
<1>6. after = Turns(after)
  <2> HIDE DEF Turns
  <2> QED BY <1>5
<1> HIDE DEF after
<1>7. after[0] = B
  BY <1>4, <1>6
<1>8. ASSUME NEW k \in 1 .. n PROVE after[k] = Step(after[k - 1], B.m.stmts[k])
  <2>1. k \in 0 .. n /\ k # 0
    BY <1>4
  <2>2. Turns(after)[k] = Step(after[k - 1], B.m.stmts[k])
    BY <2>1
  <2> HIDE DEF Turns
  <2> QED BY <1>6, <2>2
<1> QED BY <1>1, <1>7, <1>8 DEF Step, n

Beginning == [Record(NewParser("none")) EXCEPT !.fault = "none"]

(* What the arguments of the compiler do.                                  *)
LEMMA ArgumentsInTurn ==
  ASSUME NEW o, Len(o.args) \in Nat
  PROVE  \E g : /\ g[0] = Beginning
                /\ \A k \in 1 .. Len(o.args) :
                     g[k] = AddGroup(g[k - 1], o.args[k])
                /\ Arguments(o) = g[Len(o.args)]
<1> DEFINE n == Len(o.args)
           Step(C, x) == AddGroup(C, x)
           Turns(h) == [i \in 0 .. n |-> IF i = 0 THEN Beginning ELSE Step(h[i - 1], o.args[i])]
           after == CHOOSE h : h = Turns(h)
<1>1. Arguments(o) = after[n]
  BY DEF Arguments, Beginning
<1>2. PICK h : Steps(h, "argument", Beginning, o, o, o.args)
  BY TurnsTaken
<1>3. \A C, x : Turn("argument", C, o, o, x) = Step(C, x)
  BY DEF Turn
<1>4. n \in Nat
  OBVIOUS
<1> HIDE DEF Step, n
<1>5. h = Turns(h)
  BY <1>2, <1>3 DEF Steps, n
<1>6. after = Turns(after)
  <2> HIDE DEF Turns
  <2> QED BY <1>5
<1> HIDE DEF after
<1>7. after[0] = Beginning
  BY <1>4, <1>6
<1>8. ASSUME NEW k \in 1 .. n PROVE after[k] = Step(after[k - 1], o.args[k])
  <2>1. k \in 0 .. n /\ k # 0
    BY <1>4
  <2>2. Turns(after)[k] = Step(after[k - 1], o.args[k])
    BY <2>1
  <2> HIDE DEF Turns
  <2> QED BY <1>6, <2>2
<1> QED BY <1>1, <1>7, <1>8 DEF Step, n

(* What the errors of a package add up to.                                 *)
LEMMA ErrorsInTurn ==
  ASSUME NEW path, Len(modules[path]) \in Nat
  PROVE  \E g : /\ g[0] = 0
                /\ \A k \in 1 .. Len(modules[path]) :
                     g[k] = g[k - 1] + modules[path][k].errnum
                /\ Errors(path) = g[Len(modules[path])]
<1> DEFINE n == Len(modules[path])
           Step(C, x) == C + x.errnum
           Turns(h) == [i \in 0 .. n |-> IF i = 0 THEN 0 ELSE Step(h[i - 1], modules[path][i])]
           after == CHOOSE h : h = Turns(h)
<1>1. Errors(path) = after[n]
  BY DEF Errors
<1>2. PICK h : Steps(h, "file", 0, path, path, modules[path])
  BY TurnsTaken
<1>3. \A C, x : Turn("file", C, path, path, x) = Step(C, x)
  BY DEF Turn
<1>4. n \in Nat
  OBVIOUS
<1> HIDE DEF Step, n
<1>5. h = Turns(h)
  BY <1>2, <1>3 DEF Steps, n
<1>6. after = Turns(after)
  <2> HIDE DEF Turns
  <2> QED BY <1>5
<1> HIDE DEF after
<1>7. after[0] = 0
  BY <1>4, <1>6
<1>8. ASSUME NEW k \in 1 .. n PROVE after[k] = Step(after[k - 1], modules[path][k])
  <2>1. k \in 0 .. n /\ k # 0
    BY <1>4
  <2>2. Turns(after)[k] = Step(after[k - 1], modules[path][k])
    BY <2>1
  <2> HIDE DEF Turns
  <2> QED BY <1>6, <2>2
<1> QED BY <1>1, <1>7, <1>8 DEF Step, n

-----------------------------------------------------------------------------
(* The AST of a file *)

LEMMA LaterSelf == ASSUME NEW o, NEW B, Handler(B, o) PROVE Later(B, B)
BY ReportsSelf, ReportsLater

LEMMA TextFields ==
  ASSUME NEW text \in SourceTexts
  PROVE  /\ text.pkg \in Names \cup {None}
         /\ text.imports \in Seq(SourceImps) /\ text.decls \in Seq(SourceDecls)
BY DEF SourceTexts

(* Build_AST up to the imports                                             *)
LEMMA BuildImportsIs ==
  ASSUME OnDisk, NEW o, o.pathes \in Seq(Roots), NEW B, Handler(B, o), NEW p \in ToSet(B.groups),
         NEW text \in SourceTexts, ImportsMet(B.m, B.packages)
  PROVE  LET C == BuildImports(B, p, o, text) IN
         /\ Handler(C, o) /\ Later(B, C) /\ C.m.stmts = B.m.stmts
         /\ C.fault = "none" => ImportsMet(C.m, C.packages)
         /\ text.pkg = None => C.m.errnum # 0
<1> DEFINE C == BuildImports(B, p, o, text)
<1>0. B.m \in Parsers /\ B.m.errnum \in Nat
  BY ErrorsCounted DEF Handler
<1>1. CASE text.pkg = None
  <2>1. C = SyntaxError(B)
    BY <1>1 DEF BuildImports
  <2> HIDE DEF C
  <2>2. Handler(C, o) /\ Reports(B, C) /\ C.m.errnum = B.m.errnum + 1
    BY <2>1, SyntaxErrorIs
  <2>3. Later(B, C)
    BY <2>2, ReportsLater
  <2>4. C.packages = B.packages /\ C.m.stmts = B.m.stmts /\ C.m.imports = B.m.imports
        /\ C.m.ext = B.m.ext /\ C.m.dots = B.m.dots
    BY <1>0, <2>2, SameButErrors DEF Reports
  <2>5. ImportsMet(C.m, C.packages)
    BY <2>4 DEF ImportsMet
  <2> QED BY <1>0, <2>2, <2>3, <2>4, <2>5 DEF C
<1>2. CASE text.pkg # None
  <2> DEFINE D == SetPkgName(B, p, text.pkg)
             s == text.imports
             n == Len(s)
  <2>1. s \in Seq(SourceImps) /\ n \in Nat /\ text.pkg \in Names
    BY <1>2, TextFields
  <2>2. C = EveryImport(D, p, o, s)
    BY <1>2 DEF BuildImports, EveryImport
  <2>3. /\ Handler(D, o) /\ Later(B, D) /\ D.m = [B.m EXCEPT !.errnum = D.m.errnum]
    BY <2>1, SetPkgNameIs
  <2>4. PICK g : /\ g[0] = D
                 /\ \A k \in 1 .. n :
                      g[k] = IF g[k - 1].fault = "none" THEN NewImport(g[k - 1], p, o, s[k])
                             ELSE g[k - 1]
                 /\ EveryImport(D, p, o, s) = g[n]
    <3> HIDE DEF D, s
    <3> QED BY <2>1, ImportsInTurn, SMTT(30)
  <2> DEFINE Good(k) == /\ Handler(g[k], o) /\ Later(D, g[k]) /\ g[k].m.stmts = B.m.stmts
                        /\ g[k].fault = "none" => ImportsMet(g[k].m, g[k].packages)
             T == {k \in Nat : Good(k)}
  <2> HIDE DEF C, D, n, s
  <2>5. 0 \in T
    <3>1. Later(D, D)
      BY <2>3, LaterSelf
    <3>2. /\ D.m.stmts = B.m.stmts /\ D.m.imports = B.m.imports
          /\ D.m.ext = B.m.ext /\ D.m.dots = B.m.dots
      BY <1>0, <2>3, SameButErrors
    <3>3. ImportsMet(B.m, D.packages)
      BY <2>3, ImportsStayMet DEF Later
    <3>4. ImportsMet(D.m, D.packages)
      BY <3>2, <3>3 DEF ImportsMet
    <3> QED BY <2>3, <2>4, <3>1, <3>2, <3>4
  <2>6. ASSUME NEW k \in 0 .. n - 1, k \in T PROVE k + 1 \in T
    <3>1. Good(k) /\ k \in Nat /\ k + 1 \in 1 .. n /\ (k + 1) - 1 = k
      BY <2>1, <2>6
    <3>2. g[k + 1] = IF g[k].fault = "none" THEN NewImport(g[k], p, o, s[k + 1]) ELSE g[k]
      BY <2>4, <3>1
    <3>3. CASE g[k].fault # "none"
      BY <3>1, <3>2, <3>3
    <3>4. CASE g[k].fault = "none"
      <4>1. s[k + 1] \in SourceImps
        BY <2>1, <3>1, ElementIs DEF n
      <4>2. /\ Handler(g[k + 1], o) /\ Later(g[k], g[k + 1]) /\ g[k + 1].m.stmts = g[k].m.stmts
            /\ g[k + 1].fault = "none" => ImportsMet(g[k + 1].m, g[k + 1].packages)
        BY <3>1, <3>2, <3>4, <4>1, NewImportIs
      <4>3. Later(D, g[k + 1])
        BY <2>3, <3>1, <4>2, LaterTransitive
      <4> QED BY <3>1, <4>2, <4>3
    <3> QED BY <3>3, <3>4
  <2>7. n \in T
    <3> HIDE DEF T
    <3>1. \A k \in 0 .. n : k \in T
      BY <2>1, <2>5, <2>6, Induction
    <3> QED BY <2>1, <3>1
  <2>8. Good(n) /\ C = g[n]
    BY <2>2, <2>4, <2>7
  <2>9. Later(B, C)
    BY <2>3, <2>8, LaterTransitive
  <2> QED BY <1>2, <2>8, <2>9 DEF C
<1> QED BY <1>1, <1>2

LEMMA WithStmt ==
  ASSUME NEW m \in Parsers, NEW d \in SourceDecls
  PROVE  LET m2 == [m EXCEPT !.stmts = Append(m.stmts, d)] IN
         /\ m2 \in Parsers /\ m2.stmts = Append(m.stmts, d)
         /\ m2.file = m.file /\ m2.text = m.text /\ m2.imports = m.imports /\ m2.errnum = m.errnum
         /\ m2.ext = m.ext /\ m2.dots = m.dots /\ m2.symbols = m.symbols
<1>1. Append(m.stmts, d) \in Seq(SourceDecls)
  BY ParserFields, AppendIs
<1> QED BY <1>1 DEF Parsers

LEMMA WithSymbol ==
  ASSUME NEW m \in Parsers, NEW name \in Names
  PROVE  LET m2 == [m EXCEPT !.symbols = m.symbols \cup {name}] IN
         /\ m2 \in Parsers /\ m2.stmts = m.stmts
         /\ m2.file = m.file /\ m2.text = m.text /\ m2.imports = m.imports /\ m2.errnum = m.errnum
         /\ m2.ext = m.ext /\ m2.dots = m.dots
BY DEF Parsers

(* A name is added to the table of a package.                              *)
LEMMA NameAdded ==
  ASSUME NEW o, NEW B, Handler(B, o), NEW p \in ToSet(B.groups), NEW own, own = B.packages[p],
         NEW name \in Names, name \notin DOMAIN own.table,
         NEW sym \in Symbols, sym.kind = "func" => sym.typed,
         NEW code, NEW pk2,
         pk2 = Replaced(B.packages, p, [from |-> "source", name |-> own.name, code |-> code,
                                        table |-> With(own.table, {name}, sym)])
  PROVE  /\ PackagesGood(B.groups, pk2, o) /\ Grown(B.packages, pk2)
         /\ name \in DOMAIN pk2[p].table
<1> DEFINE new == With(own.table, {name}, sym)
           k == [from |-> "source", name |-> own.name, table |-> new, code |-> code]
<1>0. PackagesGood(B.groups, B.packages, o)
  BY DEF Handler, Shape
<1>1. /\ p \in DOMAIN B.packages /\ OwnPackage(own)
      /\ own = [from |-> "source", name |-> own.name, table |-> own.table, code |-> own.code]
  BY <1>0, OwnPackageIs
<1>4. /\ DOMAIN new = DOMAIN own.table \cup {name} /\ new[name] = sym
      /\ \A n \in DOMAIN own.table : new[n] = own.table[n]
  BY DEF With
<1>5. Table(new)
  <2>1. Table(own.table)
    BY <1>1 DEF OwnPackage
  <2> QED BY <2>1, TableWith
<1>2. pk2 = Replaced(B.packages, p, k)
  OBVIOUS
<1>3. k.table = new
  OBVIOUS
<1> HIDE DEF new
<1>6. OwnPackage(k)
  <2>1. \A n \in DOMAIN new : new[n].kind = "func" => new[n].typed
    BY <1>1, <1>4 DEF OwnPackage
  <2>2. own.name \in Names \cup {None}
    BY <1>1 DEF OwnPackage
  <2> QED BY <1>5, <2>1, <2>2 DEF OwnPackage
<1>7. TableGrown(B.packages[p].table, k.table)
  BY <1>3, <1>4 DEF TableGrown
<1> HIDE DEF k
<1>8. PackagesGood(B.groups, pk2, o) /\ Grown(B.packages, pk2) /\ pk2[p] = k
  BY <1>0, <1>2, <1>6, <1>7, PackageChanged
<1> QED BY <1>3, <1>4, <1>8

LEMMA NewTable ==
  ASSUME NEW own, NEW t,
         own = [from |-> "source", name |-> own.name, table |-> own.table, code |-> own.code]
  PROVE  [own EXCEPT !.table = t]
           = [from |-> "source", name |-> own.name, code |-> own.code, table |-> t]
OBVIOUS

Recoded(own, t, c) == [own EXCEPT !.table = t, !.code = c]

LEMMA NewCode ==
  ASSUME NEW own, NEW t, NEW c,
         own = [from |-> "source", name |-> own.name, table |-> own.table, code |-> own.code]
  PROVE  Recoded(own, t, c) = [from |-> "source", name |-> own.name, code |-> c, table |-> t]
<1>1. PICK k : k = Recoded(own, t, c)
  OBVIOUS
<1>2. k = [from |-> "source", name |-> own.name, code |-> c, table |-> t]
  <2>1. PICK n, u, d : own = [from |-> "source", name |-> n, table |-> u, code |-> d]
    OBVIOUS
  <2>2. k = [from |-> "source", name |-> n, code |-> c, table |-> t] /\ own.name = n
    BY <1>1, <2>1 DEF Recoded
  <2> QED BY <2>2
<1> QED BY <1>1, <1>2

(* Parser_New_Variables, Parser_New_Function                               *)
LEMMA DeclareIs ==
  ASSUME NEW o, NEW B, Handler(B, o), NEW p \in ToSet(B.groups), NEW d \in SourceDecls
  PROVE  LET C == Declare(B, p, d) IN
         /\ Handler(C, o) /\ Later(B, C) /\ C.groups = B.groups
         /\ C.m.imports = B.m.imports /\ C.m.ext = B.m.ext /\ C.m.dots = B.m.dots
         /\ C.m.stmts = Append(B.m.stmts, d)
         /\ C.fault = "none" => d.kind # "class" /\ d.name \in DOMAIN C.packages[p].table
<1> DEFINE C == Declare(B, p, d)
           K == KeepStmt(B, d)
           own == B.packages[p]
           sym == Symbol(d.kind, d.typed, B.m.file)
<1>0. B.m \in Parsers /\ B.m.errnum \in Nat /\ d.name \in Names
  BY ErrorsCounted DEF Handler, SourceDecls
<1>1. /\ K.m = [B.m EXCEPT !.stmts = Append(B.m.stmts, d)] /\ K.groups = B.groups
      /\ K.packages = B.packages /\ K.fault = B.fault
      /\ K = [groups |-> K.groups, packages |-> K.packages, m |-> K.m, fault |-> K.fault]
  BY DEF KeepStmt, Handler, Shape
<1>2. /\ K.m \in Parsers /\ K.m.stmts = Append(B.m.stmts, d)
      /\ K.m.file = B.m.file /\ K.m.text = B.m.text /\ K.m.imports = B.m.imports
      /\ K.m.errnum = B.m.errnum /\ K.m.ext = B.m.ext /\ K.m.dots = B.m.dots
  <2> HIDE DEF K
  <2> QED BY <1>0, <1>1, WithStmt
<1>3. C = IF d.kind = "class" THEN Stop(K, "class")
          ELSE IF d.name \in DOMAIN own.table THEN SyntaxError(K)
          ELSE [K EXCEPT !.packages[p].table = With(@, {d.name}, sym),
                   !.m.symbols = @ \cup {d.name}]
  BY DEF Declare
<1> HIDE DEF K, C
<1>4. Handler(K, o)
  BY <1>1, <1>2 DEF Handler, Shape
<1>5. Later(B, K)
  <2>1. Later(B, B)
    BY LaterSelf
  <2> QED BY <1>1, <1>2, <2>1 DEF Later
<1>6. CASE d.kind = "class"
  <2>1. C = Stop(K, "class")
    BY <1>3, <1>6
  <2>2. Handler(C, o) /\ Reports(K, C) /\ C.fault # "none" /\ C.m = K.m
    BY <1>4, <2>1, StopIs DEF Faults
  <2>3. Later(B, C)
    BY <1>4, <1>5, <2>2, ReportsLater, LaterTransitive
  <2> QED BY <1>1, <1>2, <2>2, <2>3 DEF C, Reports
<1>7. CASE d.kind # "class" /\ d.name \in DOMAIN own.table
  <2>1. C = SyntaxError(K)
    BY <1>3, <1>7
  <2>2. Handler(C, o) /\ Reports(K, C)
    BY <1>4, <2>1, SyntaxErrorIs
  <2>3. Later(B, C)
    BY <1>4, <1>5, <2>2, ReportsLater, LaterTransitive
  <2>4. C.m.stmts = K.m.stmts /\ C.m.imports = K.m.imports
        /\ C.m.ext = K.m.ext /\ C.m.dots = K.m.dots
    BY <1>2, <2>2, SameButErrors DEF Reports
  <2> QED BY <1>1, <1>2, <1>7, <2>2, <2>3, <2>4 DEF C, Reports
<1>8. CASE d.kind # "class" /\ d.name \notin DOMAIN own.table
  <2> DEFINE k == [own EXCEPT !.table = With(own.table, {d.name}, sym)]
  <2>0. /\ p \in DOMAIN B.packages /\ B.packages = [q \in DOMAIN B.packages |-> B.packages[q]]
        /\ own = [from |-> "source", name |-> own.name, table |-> own.table, code |-> own.code]
    BY OwnPackageIs DEF Handler, Shape
  <2>1. C = [K EXCEPT !.packages[p].table = With(@, {d.name}, sym), !.m.symbols = @ \cup {d.name}]
    BY <1>3, <1>8
  <2>2. /\ C.m = [K.m EXCEPT !.symbols = K.m.symbols \cup {d.name}] /\ C.groups = K.groups
        /\ C.fault = K.fault
        /\ C = [groups |-> C.groups, packages |-> C.packages, m |-> C.m, fault |-> C.fault]
    BY <1>1, <2>1
  <2>3. C.packages = Replaced(B.packages, p, k)
    BY <1>1, <2>0, <2>1 DEF Replaced
  <2>4. sym \in Symbols /\ (sym.kind = "func" => sym.typed)
    <3>1. d.kind \in {"var", "func"} /\ d.typed \in BOOLEAN /\ (d.kind = "func" => d.typed = TRUE)
      BY <1>8 DEF SourceDecls
    <3>2. B.m.file \in Files
      BY <1>0, ParserFields
    <3> QED BY <3>1, <3>2 DEF Symbol, Symbols
  <2>5. k = [from |-> "source", name |-> own.name, code |-> own.code,
             table |-> With(own.table, {d.name}, sym)]
    <3> HIDE DEF own, sym
    <3> QED BY <2>0, NewTable
  <2> HIDE DEF k, sym
  <2>6. /\ PackagesGood(B.groups, C.packages, o) /\ Grown(B.packages, C.packages)
        /\ d.name \in DOMAIN C.packages[p].table
    BY <1>0, <1>8, <2>3, <2>4, <2>5, NameAdded
  <2>7. /\ C.m \in Parsers /\ C.m.stmts = K.m.stmts
        /\ C.m.file = K.m.file /\ C.m.text = K.m.text /\ C.m.imports = K.m.imports
        /\ C.m.errnum = K.m.errnum /\ C.m.ext = K.m.ext /\ C.m.dots = K.m.dots
    BY <1>0, <1>2, <2>2, WithSymbol
  <2>8. Handler(C, o)
    BY <1>1, <1>4, <2>2, <2>6, <2>7 DEF Handler, Shape
  <2>9. Later(B, C)
    BY <1>1, <1>2, <1>5, <2>2, <2>6, <2>7 DEF Later
  <2> QED BY <1>1, <1>2, <1>8, <2>2, <2>6, <2>7, <2>8, <2>9 DEF C
<1> QED BY <1>6, <1>7, <1>8

(* merge_parser_unit                                                       *)
LEMMA ExitModuleIs ==
  ASSUME NEW o, NEW B, Handler(B, o), NEW p \in ToSet(B.groups), NEW code
  PROVE  LET C == ExitModule(B, p, code) IN
         /\ Handler(C, o) /\ Later(B, C) /\ C.groups = B.groups /\ C.m = B.m /\ C.fault = B.fault
<1> DEFINE C == ExitModule(B, p, code)
           own == B.packages[p]
           sym == Symbol("func", TRUE, B.m.file)
<1>0. B.m \in Parsers /\ B.m.errnum \in Nat /\ InitName \in Names
  BY ErrorsCounted, BuildAssumption DEF Handler
<1>1. CASE InitName \in DOMAIN own.table
  <2>1. C = B
    BY <1>1 DEF ExitModule
  <2> QED BY <2>1, LaterSelf
<1>2. CASE InitName \notin DOMAIN own.table
  <2> DEFINE k == Recoded(own, With(own.table, {InitName}, sym), code)
  <2>0. /\ p \in DOMAIN B.packages /\ B.packages = [q \in DOMAIN B.packages |-> B.packages[q]]
        /\ own = [from |-> "source", name |-> own.name, table |-> own.table, code |-> own.code]
    BY OwnPackageIs DEF Handler, Shape
  <2>1. C = [B EXCEPT !.packages[p].table = With(@, {InitName}, sym), !.packages[p].code = code]
    BY <1>2 DEF ExitModule
  <2> HIDE DEF C, sym
  <2>2. /\ C.m = B.m /\ C.groups = B.groups /\ C.fault = B.fault
        /\ C = [groups |-> C.groups, packages |-> C.packages, m |-> C.m, fault |-> C.fault]
    BY <2>1 DEF Handler, Shape
  <2>3. C.packages = Replaced(B.packages, p, k)
    BY <2>0, <2>1 DEF Recoded, Replaced, Handler, Shape
  <2>4. sym \in Symbols /\ (sym.kind = "func" => sym.typed)
    <3>1. B.m.file \in Files
      BY <1>0, ParserFields
    <3> QED BY <3>1 DEF Symbol, Symbols, sym
  <2>5. k = [from |-> "source", name |-> own.name, code |-> code,
             table |-> With(own.table, {InitName}, sym)]
    <3> HIDE DEF own
    <3> QED BY <2>0, NewCode
  <2> HIDE DEF k
  <2>6. PackagesGood(B.groups, C.packages, o) /\ Grown(B.packages, C.packages)
    BY <1>0, <1>2, <2>3, <2>4, <2>5, NameAdded
  <2>7. Handler(C, o)
    BY <2>2, <2>6 DEF Handler, Shape
  <2>8. Later(B, C)
    <3>1. Later(B, B)
      BY LaterSelf
    <3> QED BY <2>2, <2>6, <3>1 DEF Later
  <2> QED BY <2>2, <2>7, <2>8 DEF C
<1> QED BY <1>1, <1>2

(* What is known when k declarations of the text have been added to file m *)
(* of package p.                                                           *)
DeclsAdded(B, C, p, s, k) ==
  /\ C.groups = B.groups /\ C.m.imports = B.m.imports
  /\ C.m.ext = B.m.ext /\ C.m.dots = B.m.dots
  /\ C.fault = "none" =>
       /\ Len(C.m.stmts) = k
       /\ \A i \in 1 .. k : /\ C.m.stmts[i] = s[i] /\ s[i].kind # "class"
                            /\ s[i].name \in DOMAIN C.packages[p].table

LEMMA DeclAdded ==
  ASSUME NEW o, NEW B, NEW C, Handler(C, o), NEW p, p \in ToSet(B.groups),
         NEW s \in Seq(SourceDecls),
         NEW k \in Nat, k + 1 \in 1 .. Len(s), DeclsAdded(B, C, p, s, k), C.fault = "none"
  PROVE  LET D == Declare(C, p, s[k + 1]) IN
         Handler(D, o) /\ Later(C, D) /\ DeclsAdded(B, D, p, s, k + 1)
<1> DEFINE d == s[k + 1]
           D == Declare(C, p, d)
<1>1. d \in SourceDecls /\ p \in ToSet(C.groups)
  BY ElementIs DEF DeclsAdded
<1> HIDE DEF d, D
<1>2. /\ Handler(D, o) /\ Later(C, D) /\ D.groups = C.groups
      /\ D.m.imports = C.m.imports /\ D.m.ext = C.m.ext /\ D.m.dots = C.m.dots
      /\ D.m.stmts = Append(C.m.stmts, d)
      /\ D.fault = "none" => d.kind # "class" /\ d.name \in DOMAIN D.packages[p].table
  BY <1>1, DeclareIs DEF D
<1>3. ASSUME D.fault = "none"
      PROVE  /\ Len(D.m.stmts) = k + 1
             /\ \A i \in 1 .. k + 1 : /\ D.m.stmts[i] = s[i] /\ s[i].kind # "class"
                                      /\ s[i].name \in DOMAIN D.packages[p].table
  <2>1. /\ Len(C.m.stmts) = k
        /\ \A i \in 1 .. k : /\ C.m.stmts[i] = s[i] /\ s[i].kind # "class"
                             /\ s[i].name \in DOMAIN C.packages[p].table
    BY DEF DeclsAdded
  <2>2. C.m.stmts \in Seq(SourceDecls)
    BY ParserFields DEF Handler
  <2>3. /\ Len(D.m.stmts) = k + 1 /\ D.m.stmts[k + 1] = d
        /\ \A i \in 1 .. k : D.m.stmts[i] = C.m.stmts[i]
    BY <1>1, <1>2, <2>1, <2>2, AppendIs
  <2>4. \A i \in 1 .. k : s[i].name \in DOMAIN D.packages[p].table
    <3>1. p \in DOMAIN C.packages
      BY <1>1 DEF Handler, Shape, PackagesGood
    <3> QED BY <1>2, <2>1, <3>1 DEF Later, Grown, TableGrown
  <2>5. d.kind # "class" /\ d.name \in DOMAIN D.packages[p].table
    BY <1>2, <1>3
  <2>6. ASSUME NEW i \in 1 .. k + 1
        PROVE  /\ D.m.stmts[i] = s[i] /\ s[i].kind # "class"
               /\ s[i].name \in DOMAIN D.packages[p].table
    <3>1. CASE i = k + 1
      BY <2>3, <2>5, <3>1 DEF d
    <3>2. CASE i \in 1 .. k
      BY <2>1, <2>3, <2>4, <3>2
    <3> QED BY <3>1, <3>2
  <2> QED BY <2>3, <2>6
<1>4. DeclsAdded(B, D, p, s, k + 1)
  BY <1>2, <1>3 DEF DeclsAdded
<1> QED BY <1>2, <1>4 DEF D, d

(* Build_AST after the imports                                             *)
LEMMA BuildDeclsIs ==
  ASSUME NEW o, NEW B, Handler(B, o), NEW p \in ToSet(B.groups),
         NEW text \in SourceTexts, B.m.text = text, B.m.stmts = <<>>,
         text.pkg = None => B.m.errnum # 0,
         B.fault = "none" => ImportsMet(B.m, B.packages)
  PROVE  LET C == BuildDecls(B, p, text) IN
         /\ Handler(C, o) /\ Later(B, C) /\ C.groups = B.groups
         /\ C.fault = "none" => ImportsMet(C.m, C.packages) /\ DeclsKept(C.m, C.packages[p].table)
<1> DEFINE C == BuildDecls(B, p, text)
<1>0. B.m \in Parsers /\ B.m.errnum \in Nat
  BY ErrorsCounted DEF Handler
<1>1. CASE text.pkg = None
  <2>1. C = B
    BY <1>1 DEF BuildDecls
  <2>2. DeclsKept(B.m, B.packages[p].table)
    BY <1>1, NoTable DEF DeclsKept
  <2> QED BY <2>1, <2>2, LaterSelf
<1>2. CASE text.pkg # None
  <2> DEFINE s == text.decls
             n == Len(s)
  <2>1. s \in Seq(SourceDecls) /\ n \in Nat
    BY TextFields
  <2>2. C = EveryDecl(B, p, s)
    BY <1>2 DEF BuildDecls, EveryDecl
  <2>3. PICK g : /\ g[0] = B
                 /\ \A k \in 1 .. n :
                      g[k] = IF g[k - 1].fault = "none" THEN Declare(g[k - 1], p, s[k])
                             ELSE g[k - 1]
                 /\ EveryDecl(B, p, s) = g[n]
    BY <2>1, DeclsInTurn
  <2> DEFINE Good(k) == Handler(g[k], o) /\ Later(B, g[k]) /\ DeclsAdded(B, g[k], p, s, k)
             T == {k \in Nat : Good(k)}
  <2> HIDE DEF C, n, s
  <2>4. 0 \in T
    <3>1. Later(B, B)
      BY LaterSelf
    <3>2. DeclsAdded(B, B, p, s, 0)
      BY DEF DeclsAdded
    <3> QED BY <2>3, <3>1, <3>2
  <2>5. ASSUME NEW k \in 0 .. n - 1, k \in T PROVE k + 1 \in T
    <3>1. Good(k) /\ k \in Nat /\ k + 1 \in 1 .. n /\ (k + 1) - 1 = k
      BY <2>1, <2>5
    <3>2. g[k + 1] = IF g[k].fault = "none" THEN Declare(g[k], p, s[k + 1]) ELSE g[k]
      BY <2>3, <3>1
    <3>3. CASE g[k].fault # "none"
      <4>1. g[k + 1] = g[k]
        BY <3>2, <3>3
      <4>2. DeclsAdded(B, g[k + 1], p, s, k + 1)
        BY <3>1, <3>3, <4>1 DEF DeclsAdded
      <4> QED BY <3>1, <4>1, <4>2
    <3>4. CASE g[k].fault = "none"
      <4>1. k + 1 \in 1 .. Len(s)
        BY <3>1 DEF n
      <4>2. /\ Handler(g[k + 1], o) /\ Later(g[k], g[k + 1])
            /\ DeclsAdded(B, g[k + 1], p, s, k + 1)
        BY <2>1, <3>1, <3>2, <3>4, <4>1, DeclAdded
      <4>3. Later(B, g[k + 1])
        BY <3>1, <4>2, LaterTransitive
      <4> QED BY <3>1, <4>2, <4>3
    <3> QED BY <3>3, <3>4
  <2>6. n \in T
    <3> HIDE DEF T
    <3>1. \A k \in 0 .. n : k \in T
      BY <2>1, <2>4, <2>5, Induction
    <3> QED BY <2>1, <3>1
  <2>7. Good(n) /\ C = g[n]
    BY <2>2, <2>3, <2>6
  <2>8. ASSUME C.fault = "none"
        PROVE  ImportsMet(C.m, C.packages) /\ DeclsKept(C.m, C.packages[p].table)
    <3>1. /\ C.m.imports = B.m.imports /\ C.m.ext = B.m.ext /\ C.m.dots = B.m.dots
          /\ Len(C.m.stmts) = n
          /\ \A i \in 1 .. n : /\ C.m.stmts[i] = s[i] /\ s[i].kind # "class"
                               /\ s[i].name \in DOMAIN C.packages[p].table
      BY <2>7, <2>8 DEF DeclsAdded
    <3>2. ImportsMet(C.m, C.packages)
      <4>1. ImportsMet(B.m, C.packages)
        BY <2>7, <2>8, ImportsStayMet DEF Later
      <4> QED BY <3>1, <4>1 DEF ImportsMet
    <3>3. C.m.stmts = s
      <4>1. C.m.stmts \in Seq(SourceDecls)
        BY <2>7, ParserFields DEF Handler
      <4> QED BY <2>1, <3>1, <4>1 DEF n
    <3>4. C.m.text.decls = s
      BY <2>7 DEF Later, s
    <3>5. \A i \in DOMAIN C.m.stmts :
            C.m.stmts[i].kind # "class" /\ C.m.stmts[i].name \in DOMAIN C.packages[p].table
      <4>1. DOMAIN C.m.stmts = 1 .. n
        BY <2>1, <3>3 DEF n
      <4> QED BY <3>1, <4>1
    <3> QED BY <3>2, <3>3, <3>4, <3>5 DEF DeclsKept
  <2> QED BY <2>7, <2>8 DEF C, DeclsAdded
<1> QED BY <1>1, <1>2

LEMMA DeclsStayKept ==
  ASSUME NEW m, NEW t, NEW t2, DeclsKept(m, t), TableGrown(t, t2)
  PROVE  DeclsKept(m, t2)
BY DEF DeclsKept, TableGrown

LEMMA DeclsStayTyped ==
  ASSUME NEW m, NEW t, NEW t2, DeclsKept(m, t), DeclsTyped(m, t), TableGrown(t, t2)
  PROVE  DeclsTyped(m, t2)
BY DEF DeclsKept, DeclsTyped, TableGrown

(* What a file has become when it was built.                               *)
LEMMA BuiltIs ==
  ASSUME OnDisk, NEW o, o.pathes \in Seq(Roots), NEW B, Handler(B, o), NEW p \in ToSet(B.groups),
         NEW text \in SourceTexts, B.m.text = text, B.m.stmts = <<>>, ImportsMet(B.m, B.packages),
         NEW C, C = BuildImports(B, p, o, text), NEW D, D = BuildDecls(C, p, text),
         NEW E, E = ExitModule(D, p, <<>>)
  PROVE  /\ Handler(E, o) /\ Later(B, E)
         /\ E.fault = "none" => ImportsMet(E.m, E.packages) /\ DeclsKept(E.m, E.packages[p].table)
<1>1. /\ Handler(C, o) /\ Later(B, C) /\ C.m.stmts = B.m.stmts
      /\ C.fault = "none" => ImportsMet(C.m, C.packages)
      /\ text.pkg = None => C.m.errnum # 0
  BY BuildImportsIs
<1>2. C.m.text = text /\ C.m.stmts = <<>>
  BY <1>1 DEF Later
<1>3. p \in ToSet(C.groups)
  <2>1. /\ \A i \in 1 .. Len(B.groups) : C.groups[i] = B.groups[i]
        /\ Len(B.groups) <= Len(C.groups) /\ B.groups \in Seq(Paths) /\ C.groups \in Seq(Paths)
    BY <1>1 DEF Later, Extends, Handler, Shape, PackagesGood
  <2> QED BY <2>1 DEF ToSet
<1>4. /\ Handler(D, o) /\ Later(C, D) /\ D.groups = C.groups
      /\ D.fault = "none" => ImportsMet(D.m, D.packages) /\ DeclsKept(D.m, D.packages[p].table)
  <2>1. Handler(C, o) /\ (text.pkg = None => C.m.errnum # 0)
        /\ (C.fault = "none" => ImportsMet(C.m, C.packages))
    BY <1>1
  <2>2. Handler(D, o) /\ Later(C, D)
    BY <1>2, <1>3, <2>1, BuildDeclsIs
  <2>5. D.groups = C.groups
    BY <1>2, <1>3, <2>1, BuildDeclsIs, SMTT(30)
  <2>3. D.fault = "none" => ImportsMet(D.m, D.packages)
    BY <1>2, <1>3, <2>1, BuildDeclsIs
  <2>4. D.fault = "none" => DeclsKept(D.m, D.packages[p].table)
    BY <1>2, <1>3, <2>1, BuildDeclsIs
  <2> QED BY <2>2, <2>3, <2>4, <2>5
<1>5. /\ Handler(E, o) /\ Later(D, E) /\ E.groups = D.groups /\ E.m = D.m /\ E.fault = D.fault
  BY <1>3, <1>4, ExitModuleIs
<1>6. Later(B, E)
  BY <1>1, <1>4, <1>5, LaterTransitive
<1>7. ASSUME E.fault = "none"
      PROVE  ImportsMet(E.m, E.packages) /\ DeclsKept(E.m, E.packages[p].table)
  <2>1. ImportsMet(E.m, E.packages)
    BY <1>4, <1>5, <1>7, ImportsStayMet DEF Later
  <2>2. p \in DOMAIN D.packages
    BY <1>3, <1>4 DEF Handler, Shape, PackagesGood
  <2>3. TableGrown(D.packages[p].table, E.packages[p].table)
    BY <1>5, <2>2 DEF Later, Grown
  <2>4. DeclsKept(E.m, E.packages[p].table)
    BY <1>4, <1>5, <1>7, <2>3, DeclsStayKept
  <2> QED BY <2>1, <2>4
<1> QED BY <1>5, <1>6, <1>7

-----------------------------------------------------------------------------
(* The analysis of a file *)

LEMMA HowMany ==
  ASSUME NEW S \in SUBSET Names
  PROVE  Cardinality(S) \in Nat
<1>1. IsFiniteSet(S)
  BY BuildAssumption, FS_Subset
<1> QED BY <1>1, FS_CardinalityType

LEMMA TableOf ==
  ASSUME NEW gs, NEW pk, NEW o, PackagesGood(gs, pk, o), NEW p \in DOMAIN pk
  PROVE  Table(pk[p].table) /\ DOMAIN pk[p].table \subseteq Names
         /\ pk[p].name \in Names \cup {"", None}
<1>1. CASE p \in ToSet(gs)
  BY <1>1 DEF PackagesGood, OwnPackage, Table, Map
<1>2. CASE p \notin ToSet(gs)
  BY <1>2 DEF PackagesGood, LoadedPackage, Table, Map
<1> QED BY <1>1, <1>2

LEMMA WithDots ==
  ASSUME NEW m \in Parsers, NEW d \in Partial(Names, Paths)
  PROVE  LET m2 == [m EXCEPT !.dots = d] IN
         /\ m2 \in Parsers /\ m2.file = m.file /\ m2.text = m.text /\ m2.imports = m.imports
         /\ m2.stmts = m.stmts /\ m2.ext = m.ext /\ m2.dots = d /\ m2.errnum = m.errnum
BY DEF Parsers

LEMMA WithExt ==
  ASSUME NEW m \in Parsers, NEW e \in Partial(Names \cup {""}, Paths)
  PROVE  LET m2 == [m EXCEPT !.ext = e] IN
         /\ m2 \in Parsers /\ m2.file = m.file /\ m2.text = m.text /\ m2.imports = m.imports
         /\ m2.stmts = m.stmts /\ m2.ext = e /\ m2.dots = m.dots /\ m2.errnum = m.errnum
BY DEF Parsers

(* What an import leaves alone, and what it keeps.                         *)
Imported(o, B, C) ==
  /\ Handler(C, o) /\ Later(B, C) /\ C.groups = B.groups /\ C.packages = B.packages
  /\ C.m.imports = B.m.imports /\ C.m.stmts = B.m.stmts /\ ImportsMet(C.m, C.packages)

LEMMA ReportsImported ==
  ASSUME NEW o, NEW B, Handler(B, o), ImportsMet(B.m, B.packages),
         NEW C, Handler(C, o), Reports(B, C)
  PROVE  Imported(o, B, C)
<1>1. Later(B, C)
  BY ReportsLater
<1>2. /\ C.groups = B.groups /\ C.packages = B.packages /\ C.m.imports = B.m.imports
      /\ C.m.stmts = B.m.stmts /\ C.m.ext = B.m.ext /\ C.m.dots = B.m.dots
  BY SameButErrors DEF Handler, Reports
<1>3. ImportsMet(C.m, C.packages)
  BY <1>2 DEF ImportsMet
<1> QED BY <1>1, <1>2, <1>3 DEF Imported

LEMMA ImportedTransitive ==
  ASSUME NEW o, NEW B, Handler(B, o), NEW C, NEW D, Imported(o, B, C), Imported(o, C, D)
  PROVE  Imported(o, B, D)
<1>1. Later(B, D)
  BY LaterTransitive DEF Imported
<1> QED BY <1>1 DEF Imported

LEMMA DotSymbolIs ==
  ASSUME NEW o, NEW B, Handler(B, o), ImportsMet(B.m, B.packages),
         NEW path \in DOMAIN B.packages, path \in Paths,
         NEW name \in DOMAIN B.packages[path].table
  PROVE  Imported(o, B, DotSymbol(B, path, name))
<1> DEFINE C == DotSymbol(B, path, name)
           d == With(B.m.dots, {name}, path)
<1>1. B.m \in Parsers /\ name \in Names
  BY TableOf DEF Handler, Shape
<1>2. Imported(o, B, B)
  BY ReportsSelf, ReportsImported
<1>3. CASE Enough(B)
  BY <1>2, <1>3 DEF DotSymbol
<1>4. CASE ~ Enough(B) /\ name \in Taken(B)
  <2>1. C = SyntaxError(B)
    BY <1>4 DEF DotSymbol
  <2> HIDE DEF C
  <2> QED BY <2>1, SyntaxErrorIs, ReportsImported DEF C
<1>5. CASE ~ Enough(B) /\ name \notin Taken(B)
  <2>1. d \in Partial(Names, Paths)
    <3>1. B.m.dots \in Partial(Names, Paths) /\ {name} \in SUBSET Names
      BY <1>1, ParserFields
    <3> QED BY <3>1, PartialWith
  <2>2. /\ DOMAIN d = DOMAIN B.m.dots \cup {name} /\ d[name] = path
        /\ \A n \in DOMAIN B.m.dots \ {name} : d[n] = B.m.dots[n]
    BY DEF With
  <2>3. /\ C.m = [B.m EXCEPT !.dots = d] /\ C.groups = B.groups
        /\ C.packages = B.packages /\ C.fault = B.fault
        /\ C = [groups |-> C.groups, packages |-> C.packages, m |-> C.m, fault |-> C.fault]
    BY <1>5 DEF DotSymbol, Handler, Shape
  <2> HIDE DEF C, d
  <2>4. /\ C.m \in Parsers /\ C.m.file = B.m.file /\ C.m.text = B.m.text
        /\ C.m.imports = B.m.imports /\ C.m.stmts = B.m.stmts /\ C.m.ext = B.m.ext
        /\ C.m.dots = d /\ C.m.errnum = B.m.errnum
    BY <1>1, <2>1, <2>3, WithDots
  <2>5. Handler(C, o)
    BY <2>3, <2>4 DEF Handler, Shape
  <2>6. Later(B, C)
    BY <1>2, <2>3, <2>4 DEF Later, Imported
  <2>7. ImportsMet(C.m, C.packages)
    <3>1. DOMAIN C.m.ext \cap DOMAIN C.m.dots = {}
      BY <1>5, <2>2, <2>4 DEF ImportsMet, Taken
    <3>2. ASSUME NEW n \in DOMAIN C.m.dots
          PROVE  C.m.dots[n] \in DOMAIN C.packages /\ n \in DOMAIN C.packages[C.m.dots[n]].table
      <4>1. CASE n = name
        BY <2>2, <2>3, <2>4, <4>1
      <4>2. CASE n \in DOMAIN B.m.dots /\ n # name
        BY <2>2, <2>3, <2>4, <4>2 DEF ImportsMet
      <4> QED BY <2>2, <2>4, <4>1, <4>2
    <3> QED BY <2>3, <2>4, <3>1, <3>2 DEF ImportsMet
  <2> QED BY <2>3, <2>4, <2>5, <2>6, <2>7 DEF Imported, C
<1> QED BY <1>3, <1>4, <1>5

(* The symbols of a table come one after the other.                        *)
LEMMA InSomeOrder ==
  ASSUME NEW S \in SUBSET Names
  PROVE  SetToSeq(S) \in Seq(S)
<1> DEFINE n == Cardinality(S)
<1>1. IsFiniteSet(S)
  BY BuildAssumption, FS_Subset
<1>2. n \in Nat /\ ExistsBijection(1 .. n, S)
  BY <1>1, FS_CardinalityType
<1>3. PICK f \in Bijection(1 .. n, S) : TRUE
  BY <1>2 DEF ExistsBijection
<1>4. f \in [1 .. n -> S] /\ IsInjective(f)
  BY <1>3 DEF Bijection, Injection
<1>5. SetToSeq(S) \in [1 .. n -> S]
  BY <1>4 DEF SetToSeq
<1> QED BY <1>2, <1>5

LEMMA DotImportIs ==
  ASSUME NEW o, NEW B, Handler(B, o), ImportsMet(B.m, B.packages),
         NEW path \in DOMAIN B.packages, path \in Paths
  PROVE  Imported(o, B, DotImport(B, path, DOMAIN B.packages[path].table))
<1> DEFINE names == DOMAIN B.packages[path].table
           s == SetToSeq(names)
           n == Len(s)
<1>1. s \in Seq(names) /\ n \in Nat
  <2>1. names \in SUBSET Names
    BY TableOf DEF Handler, Shape
  <2>2. s \in Seq(names)
    BY <2>1, InSomeOrder
  <2> QED BY <2>2
<1>2. PICK g : /\ g[0] = B
               /\ \A k \in 1 .. n :
                    g[k] = IF g[k - 1].fault = "none" THEN DotSymbol(g[k - 1], path, s[k])
                           ELSE g[k - 1]
               /\ DotImport(B, path, names) = g[n]
  <2>1. s = SetToSeq(names) /\ Len(s) \in Nat
    BY <1>1
  <2> HIDE DEF names, s
  <2>2. \E g : /\ g[0] = B
               /\ \A k \in 1 .. Len(s) :
                    g[k] = IF g[k - 1].fault = "none" THEN DotSymbol(g[k - 1], path, s[k])
                           ELSE g[k - 1]
               /\ DotImport(B, path, names) = g[Len(s)]
    BY <2>1, SymbolsInTurn
  <2> QED BY <2>2
<1> DEFINE T == {k \in Nat : Imported(o, B, g[k])}
<1> HIDE DEF n, s
<1>3. 0 \in T
  <2>1. Imported(o, B, B)
    BY ReportsSelf, ReportsImported
  <2> QED BY <1>2, <2>1
<1>4. ASSUME NEW k \in 0 .. n - 1, k \in T PROVE k + 1 \in T
  <2>1. Imported(o, B, g[k]) /\ k \in Nat /\ k + 1 \in 1 .. n /\ (k + 1) - 1 = k
    BY <1>1, <1>4
  <2>2. g[k + 1] = IF g[k].fault = "none" THEN DotSymbol(g[k], path, s[k + 1]) ELSE g[k]
    BY <1>2, <2>1
  <2>3. Handler(g[k], o) /\ ImportsMet(g[k].m, g[k].packages) /\ g[k].packages = B.packages
    BY <2>1 DEF Imported
  <2>4. s[k + 1] \in names
    BY <1>1, <2>1, ElementIs DEF n
  <2>5. Imported(o, g[k], DotSymbol(g[k], path, s[k + 1]))
    BY <2>3, <2>4, DotSymbolIs
  <2>6. Imported(o, B, DotSymbol(g[k], path, s[k + 1]))
    BY <2>1, <2>5, ImportedTransitive
  <2> QED BY <2>1, <2>2, <2>6
<1>5. n \in T
  <2> HIDE DEF T
  <2>1. \A k \in 0 .. n : k \in T
    BY <1>1, <1>3, <1>4, Induction
  <2> QED BY <1>1, <2>1
<1> QED BY <1>2, <1>5

LEMMA NameImportIs ==
  ASSUME NEW o, NEW B, Handler(B, o), ImportsMet(B.m, B.packages), NEW path \in Paths,
         NEW name \in Names \cup {""}
  PROVE  Imported(o, B, NameImport(B, name, path))
<1> DEFINE C == NameImport(B, name, path)
           e == With(B.m.ext, {name}, path)
<1>0. B.m \in Parsers
  BY DEF Handler
<1>1. CASE name \in Taken(B)
  <2>1. C = SyntaxError(B)
    BY <1>1 DEF NameImport
  <2> HIDE DEF C
  <2> QED BY <2>1, SyntaxErrorIs, ReportsImported DEF C
<1>2. CASE name \notin Taken(B)
  <2>1. e \in Partial(Names \cup {""}, Paths)
    <3>1. B.m.ext \in Partial(Names \cup {""}, Paths) /\ {name} \in SUBSET (Names \cup {""})
      BY <1>0, ParserFields
    <3> QED BY <3>1, PartialWith
  <2>2. DOMAIN e = DOMAIN B.m.ext \cup {name}
    BY DEF With
  <2>3. /\ C.m = [B.m EXCEPT !.ext = e] /\ C.groups = B.groups
        /\ C.packages = B.packages /\ C.fault = B.fault
        /\ C = [groups |-> C.groups, packages |-> C.packages, m |-> C.m, fault |-> C.fault]
    BY <1>2 DEF NameImport, Handler, Shape
  <2> HIDE DEF C, e
  <2>4. /\ C.m \in Parsers /\ C.m.file = B.m.file /\ C.m.text = B.m.text
        /\ C.m.imports = B.m.imports /\ C.m.stmts = B.m.stmts /\ C.m.ext = e
        /\ C.m.dots = B.m.dots /\ C.m.errnum = B.m.errnum
    <3> DEFINE m2 == [B.m EXCEPT !.ext = e]
    <3>1. /\ m2 \in Parsers /\ m2.file = B.m.file /\ m2.text = B.m.text
          /\ m2.imports = B.m.imports /\ m2.stmts = B.m.stmts /\ m2.ext = e
          /\ m2.dots = B.m.dots /\ m2.errnum = B.m.errnum
      BY <1>0, <2>1, WithExt
    <3> HIDE DEF m2
    <3>2. C.m = m2
      BY <2>3 DEF m2
    <3> QED BY <3>1, <3>2
  <2>5. Handler(C, o)
    BY <2>3, <2>4 DEF Handler, Shape
  <2>6. Later(B, C)
    <3>1. Later(B, B)
      BY LaterSelf
    <3> QED BY <2>3, <2>4, <3>1 DEF Later
  <2>7. ImportsMet(C.m, C.packages)
    <3>1. DOMAIN C.m.ext \cap DOMAIN C.m.dots = {}
      BY <1>2, <2>2, <2>4 DEF ImportsMet, Taken
    <3> QED BY <2>3, <2>4, <3>1 DEF ImportsMet
  <2> QED BY <2>3, <2>4, <2>5, <2>6, <2>7 DEF Imported, C
<1> QED BY <1>1, <1>2

LEMMA ParseImportIs ==
  ASSUME NEW o, NEW B, Handler(B, o), ImportsMet(B.m, B.packages), NEW imp \in SourceImps,
         imp.path \in DOMAIN B.packages
  PROVE  Imported(o, B, ParseImport(B, imp, B.packages[imp.path]))
<1> DEFINE pkg == B.packages[imp.path]
           C == ParseImport(B, imp, pkg)
<1>0. imp.path \in Paths /\ imp.id \in Names \cup {None, "."} /\ pkg.name \in Names \cup {"", None}
  BY TableOf DEF SourceImps, Handler, Shape
<1>1. ASSUME NEW why \in {"no_table", "no_name"} PROVE Imported(o, B, Stop(B, why))
  BY StopIs, ReportsImported DEF Faults
<1>2. CASE imp.id = "." /\ pkg.from = "nothing"
  BY <1>1, <1>2 DEF ParseImport
<1>3. CASE imp.id = "." /\ pkg.from # "nothing"
  <2>1. C = DotImport(B, imp.path, DOMAIN pkg.table)
    BY <1>3 DEF ParseImport
  <2>2. Imported(o, B, DotImport(B, imp.path, DOMAIN pkg.table))
    BY <1>0, DotImportIs
  <2> HIDE DEF C
  <2>3. Imported(o, B, C)
    BY <2>1, <2>2
  <2> QED BY <2>3 DEF C
<1>4. CASE imp.id # "." /\ imp.id # None
  <2>1. C = NameImport(B, imp.id, imp.path)
    BY <1>4 DEF ParseImport
  <2> QED BY <1>0, <1>4, <2>1, NameImportIs
<1>5. CASE imp.id # "." /\ imp.id = None /\ pkg.name = None
  BY <1>1, <1>5 DEF ParseImport
<1>6. CASE imp.id # "." /\ imp.id = None /\ pkg.name # None
  <2>1. C = NameImport(B, pkg.name, imp.path)
    BY <1>6 DEF ParseImport
  <2> QED BY <1>0, <1>6, <2>1, NameImportIs
<1> QED BY <1>2, <1>3, <1>4, <1>5, <1>6

(* Parse_Imports                                                           *)
LEMMA ParseImportsIs ==
  ASSUME NEW o, NEW B, Handler(B, o), ImportsMet(B.m, B.packages)
  PROVE  Imported(o, B, ParseImports(B))
<1> DEFINE s == B.m.imports
           n == Len(s)
<1>1. s \in Seq(SourceImps) /\ n \in Nat
  <2>1. s \in Seq(SourceImps)
    BY ParserFields DEF Handler
  <2> QED BY <2>1
<1>2. PICK g : /\ g[0] = B
               /\ \A k \in 1 .. n :
                    g[k] = IF g[k - 1].fault = "none"
                           THEN ParseImport(g[k - 1], s[k], g[k - 1].packages[s[k].path])
                           ELSE g[k - 1]
               /\ ParseImports(B) = g[n]
  BY <1>1, ImportedInTurn
<1> DEFINE T == {k \in Nat : Imported(o, B, g[k])}
<1>3. s = B.m.imports
  OBVIOUS
<1> HIDE DEF n, s
<1>4. 0 \in T
  <2>1. Imported(o, B, B)
    BY ReportsSelf, ReportsImported
  <2> QED BY <1>2, <2>1
<1>5. ASSUME NEW k \in 0 .. n - 1, k \in T PROVE k + 1 \in T
  <2>1. Imported(o, B, g[k]) /\ k \in Nat /\ k + 1 \in 1 .. n /\ (k + 1) - 1 = k
    BY <1>1, <1>5
  <2>2. g[k + 1] = IF g[k].fault = "none"
                   THEN ParseImport(g[k], s[k + 1], g[k].packages[s[k + 1].path]) ELSE g[k]
    BY <1>2, <2>1
  <2>3. CASE g[k].fault # "none"
    BY <2>1, <2>2, <2>3
  <2>4. CASE g[k].fault = "none"
    <3>1. s[k + 1] \in SourceImps
      BY <1>1, <2>1, ElementIs DEF n
    <3>2. s[k + 1].path \in DOMAIN g[k].packages
      <4>1. k + 1 \in DOMAIN s
        BY <1>1, <2>1 DEF n
      <4> QED BY <1>3, <2>1, <4>1 DEF Imported, ImportsMet
    <3>3. Handler(g[k], o) /\ ImportsMet(g[k].m, g[k].packages)
      BY <2>1 DEF Imported
    <3>4. Imported(o, g[k], g[k + 1])
      BY <2>2, <2>4, <3>1, <3>2, <3>3, ParseImportIs
    <3>5. Imported(o, B, g[k + 1])
      BY <2>1, <3>4, ImportedTransitive
    <3> QED BY <2>1, <3>5
  <2> QED BY <2>3, <2>4
<1>6. n \in T
  <2> HIDE DEF T
  <2>1. \A k \in 0 .. n : k \in T
    BY <1>1, <1>4, <1>5, Induction
  <2> QED BY <1>1, <2>1
<1> QED BY <1>2, <1>6

(* What the analysis of a statement leaves alone.                          *)
Continues(o, B, C) ==
  /\ Handler(C, o) /\ Later(B, C) /\ C.groups = B.groups
  /\ C.m.imports = B.m.imports /\ C.m.stmts = B.m.stmts
  /\ C.m.ext = B.m.ext /\ C.m.dots = B.m.dots

LEMMA ReportsContinues ==
  ASSUME NEW o, NEW B, Handler(B, o), NEW C, Handler(C, o), Reports(B, C)
  PROVE  Continues(o, B, C) /\ C.packages = B.packages
<1>1. Later(B, C)
  BY ReportsLater
<1>2. /\ C.m.imports = B.m.imports /\ C.m.stmts = B.m.stmts
      /\ C.m.ext = B.m.ext /\ C.m.dots = B.m.dots
  BY SameButErrors DEF Handler, Reports
<1> QED BY <1>1, <1>2 DEF Continues, Reports

LEMMA ContinuesTransitive ==
  ASSUME NEW o, NEW B, Handler(B, o), NEW C, NEW D, Continues(o, B, C), Continues(o, C, D)
  PROVE  Continues(o, B, D)
<1>1. Later(B, D)
  BY LaterTransitive DEF Continues
<1> QED BY <1>1 DEF Continues

(* CheckConflictWithExternal                                               *)
LEMMA CheckConflictIs ==
  ASSUME NEW o, NEW B, Handler(B, o)
  PROVE  Handler(CheckConflict(B), o) /\ Reports(B, CheckConflict(B))
<1>1. B.m.symbols \cap DOMAIN B.m.ext \in SUBSET Names
  BY ParserFields DEF Handler
<1>2. Cardinality(B.m.symbols \cap DOMAIN B.m.ext) \in Nat
  BY <1>1, HowMany
<1> QED BY <1>2, SyntaxErrorsIs DEF CheckConflict

(* Parse_Ident_Expr, Code_Ident_Expr                                       *)
LEMMA VisitIdentIs ==
  ASSUME NEW o, NEW B, Handler(B, o), NEW r, NEW inside
  PROVE  Handler(VisitIdent(B, r, inside).b, o) /\ Reports(B, VisitIdent(B, r, inside).b)
<1> DEFINE C == VisitIdent(B, r, inside).b
<1>1. Handler(SyntaxError(B), o) /\ Reports(B, SyntaxError(B))
  BY SyntaxErrorIs
<1>2. ASSUME NEW why \in {"unresolved", "not_var"}
      PROVE  Handler(Stop(B, why), o) /\ Reports(B, Stop(B, why))
  BY StopIs DEF Faults
<1>3. CASE r.place = "none"
  <2> DEFINE D == SyntaxError(B)
  <2>1. C = D \/ C = Stop(D, "unresolved")
    BY <1>3 DEF VisitIdent, Untyped
  <2> HIDE DEF C, D
  <2>2. Handler(D, o) /\ Reports(B, D)
    BY <1>1 DEF D
  <2>3. ASSUME C = Stop(D, "unresolved") PROVE Handler(C, o) /\ Reports(B, C)
    <3>1. Handler(C, o) /\ Reports(D, C)
      BY <2>2, <2>3, StopIs DEF Faults
    <3> QED BY <2>2, <3>1, ReportsTransitive
  <2>4. Handler(C, o) /\ Reports(B, C)
    BY <2>1, <2>2, <2>3
  <2> QED BY <2>4 DEF C
<1>4. CASE r.place = "package"
  <2>1. C = Stop(B, "unresolved")
    BY <1>4 DEF VisitIdent, Untyped
  <2> QED BY <1>2, <2>1
<1>5. CASE r.place # "none" /\ r.place # "package"
  <2>1. C = Stop(B, "unresolved") \/ C = Stop(B, "not_var") \/ C = B
    BY <1>5 DEF VisitIdent, Untyped, Typed
  <2>2. Reports(B, B)
    BY ReportsSelf
  <2> HIDE DEF C
  <2>3. Handler(C, o) /\ Reports(B, C)
    BY <1>2, <2>1, <2>2
  <2> QED BY <2>3 DEF C
<1> QED BY <1>3, <1>4, <1>5

(* parse_attribute_expr                                                    *)
LEMMA VisitAttributeIs ==
  ASSUME NEW o, NEW B, Handler(B, o), NEW r, NEW name
  PROVE  Handler(VisitAttribute(B, r, name).b, o) /\ Reports(B, VisitAttribute(B, r, name).b)
<1> DEFINE C == VisitAttribute(B, r, name).b
<1>1. Handler(SyntaxError(B), o) /\ Reports(B, SyntaxError(B))
  BY SyntaxErrorIs
<1>2. Handler(Stop(B, "unresolved"), o) /\ Reports(B, Stop(B, "unresolved"))
  BY StopIs DEF Faults
<1>3. Reports(B, B)
  BY ReportsSelf
<1>4. C = SyntaxError(B) \/ C = Stop(B, "unresolved") \/ C = B
  <2>1. CASE r.place = "none"
    BY <2>1 DEF VisitAttribute, Untyped
  <2>2. CASE r.place = "package"
    BY <2>2 DEF VisitAttribute, VisitMember, Untyped
  <2>3. CASE r.place # "none" /\ r.place # "package"
    BY <2>3 DEF VisitAttribute, Untyped
  <2> QED BY <2>1, <2>2, <2>3
<1> HIDE DEF C
<1>5. Handler(C, o) /\ Reports(B, C)
  BY <1>1, <1>2, <1>3, <1>4
<1> QED BY <1>5 DEF C

(* parser_visit_expr                                                       *)
LEMMA VisitIs ==
  ASSUME NEW o, NEW B, Handler(B, o), NEW p, NEW exp, NEW inside
  PROVE  Handler(Visit(B, p, exp, inside).b, o) /\ Reports(B, Visit(B, p, exp, inside).b)
<1>1. CASE exp.kind = "id"
  <2>1. Visit(B, p, exp, inside) = VisitIdent(B, Resolve(B, p, exp.name), inside)
    BY <1>1 DEF Visit
  <2> QED BY <2>1, VisitIdentIs
<1>2. CASE exp.kind = "attr"
  <2>1. Visit(B, p, exp, inside) = VisitAttribute(B, Resolve(B, p, exp.via), exp.name)
    BY <1>2 DEF Visit
  <2> QED BY <2>1, VisitAttributeIs
<1>3. CASE exp.kind # "id" /\ exp.kind # "attr"
  <2>1. Visit(B, p, exp, inside).b = B
    BY <1>3 DEF Visit, Typed
  <2> QED BY <2>1, ReportsSelf
<1> QED BY <1>1, <1>2, <1>3

(* A variable has a type now.                                              *)
Named(t, name) == [t EXCEPT ![name].typed = TRUE]

LEMMA NamedIs ==
  ASSUME NEW t, Table(t), NEW name \in DOMAIN t, t[name].kind # "func"
  PROVE  /\ Table(Named(t, name)) /\ TableGrown(t, Named(t, name))
         /\ Named(t, name)[name].typed
         /\ \A n \in DOMAIN Named(t, name) :
              n \in DOMAIN t /\ Named(t, name)[n].kind = t[n].kind
<1> DEFINE u == Named(t, name)
           sym == [t[name] EXCEPT !.typed = TRUE]
<1>1. t = [n \in DOMAIN t |-> t[n]] /\ DOMAIN t \subseteq Names
      /\ \A n \in DOMAIN t : t[n] \in Symbols
  BY DEF Table, Map
<1>2. /\ u = [n \in DOMAIN u |-> u[n]] /\ DOMAIN u = DOMAIN t /\ u[name] = sym
      /\ \A n \in DOMAIN t \ {name} : u[n] = t[n]
  BY <1>1 DEF Named
<1>3. sym \in Symbols /\ sym.typed = TRUE /\ sym.kind = t[name].kind
  BY <1>1 DEF Symbols
<1> HIDE DEF u, sym
<1>4. Table(u)
  <2>1. \A n \in DOMAIN u : u[n] \in Symbols
    BY <1>1, <1>2, <1>3
  <2> QED BY <1>1, <1>2, <2>1 DEF Table, Map
<1>5. TableGrown(t, u)
  BY <1>2, <1>3 DEF TableGrown
<1>6. \A n \in DOMAIN u : n \in DOMAIN t /\ u[n].kind = t[n].kind
  BY <1>2, <1>3
<1> QED BY <1>2, <1>3, <1>4, <1>5, <1>6 DEF u

(* parse_variable: the type                                                *)
LEMMA SetTypeIs ==
  ASSUME NEW o, NEW B, Handler(B, o), NEW p \in ToSet(B.groups), NEW name,
         name \in DOMAIN B.packages[p].table
  PROVE  LET C == SetType(B, p, name) IN
         /\ Continues(o, B, C)
         /\ C.fault = "none" => C.packages[p].table[name].typed
<1> DEFINE C == SetType(B, p, name)
           own == B.packages[p]
<1>1. CASE IsFunc(B, p, name)
  <2>1. C = Stop(B, "other_kind")
    BY <1>1 DEF SetType
  <2> HIDE DEF C
  <2>2. Handler(C, o) /\ Reports(B, C) /\ C.fault # "none"
    BY <2>1, StopIs DEF Faults
  <2> QED BY <2>2, ReportsContinues DEF C
<1>2. CASE ~ IsFunc(B, p, name)
  <2> DEFINE k == [own EXCEPT !.table = Named(own.table, name)]
  <2>0. /\ p \in DOMAIN B.packages /\ B.packages = [q \in DOMAIN B.packages |-> B.packages[q]]
        /\ own = [from |-> "source", name |-> own.name, table |-> own.table, code |-> own.code]
        /\ OwnPackage(own)
    BY OwnPackageIs DEF Handler, Shape
  <2>1. C = [B EXCEPT !.packages[p].table[name].typed = TRUE]
    BY <1>2 DEF SetType
  <2>2. /\ C.m = B.m /\ C.groups = B.groups /\ C.fault = B.fault
        /\ C = [groups |-> C.groups, packages |-> C.packages, m |-> C.m, fault |-> C.fault]
    BY <2>1 DEF Handler, Shape
  <2>3. C.packages = Replaced(B.packages, p, k)
    BY <2>0, <2>1 DEF Named, Replaced, Handler, Shape
  <2>4. k = [from |-> "source", name |-> own.name, code |-> own.code,
             table |-> Named(own.table, name)]
    <3> HIDE DEF own
    <3> QED BY <2>0, NewTable
  <2>5. /\ Table(Named(own.table, name)) /\ TableGrown(own.table, Named(own.table, name))
        /\ Named(own.table, name)[name].typed
        /\ \A n \in DOMAIN Named(own.table, name) :
             n \in DOMAIN own.table /\ Named(own.table, name)[n].kind = own.table[n].kind
    <3>1. Table(own.table) /\ own.table[name].kind # "func"
      BY <1>2, <2>0 DEF IsFunc, OwnPackage
    <3> QED BY <3>1, NamedIs
  <2> HIDE DEF C, k
  <2>6. OwnPackage(k)
    <3>1. k.table = Named(own.table, name) /\ k.name = own.name
      BY <2>4
    <3>2. own.name \in Names \cup {None}
      BY <2>0 DEF OwnPackage
    <3>3. \A n \in DOMAIN k.table : k.table[n].kind = "func" => k.table[n].typed
      BY <2>0, <2>5, <3>1 DEF OwnPackage, TableGrown
    <3> QED BY <2>4, <2>5, <3>1, <3>2, <3>3 DEF OwnPackage
  <2>7. PackagesGood(B.groups, C.packages, o) /\ Grown(B.packages, C.packages) /\ C.packages[p] = k
    <3>1. PackagesGood(B.groups, B.packages, o)
      BY DEF Handler, Shape
    <3>2. TableGrown(own.table, k.table)
      BY <2>4, <2>5
    <3> QED BY <2>3, <2>6, <3>1, <3>2, PackageChanged
  <2>8. Handler(C, o)
    BY <2>2, <2>7 DEF Handler, Shape
  <2>9. Later(B, C)
    <3>1. Later(B, B)
      BY LaterSelf
    <3> QED BY <2>2, <2>7, <3>1 DEF Later
  <2> QED BY <2>2, <2>4, <2>5, <2>7, <2>8, <2>9 DEF C, Continues
<1> QED BY <1>1, <1>2

LEMMA WithStored ==
  ASSUME NEW m \in Parsers, NEW name \in Names
  PROVE  LET m2 == [m EXCEPT !.code = Append(m.code, name)] IN
         /\ m2 \in Parsers /\ m2.file = m.file /\ m2.text = m.text /\ m2.imports = m.imports
         /\ m2.stmts = m.stmts /\ m2.errnum = m.errnum /\ m2.ext = m.ext /\ m2.dots = m.dots
<1>1. Append(m.code, name) \in Seq(Names)
  BY ParserFields, AppendIs
<1> QED BY <1>1 DEF Parsers

(* The code that stores a value.                                           *)
LEMMA StoreIs ==
  ASSUME NEW o, NEW B, Handler(B, o), NEW name \in Names
  PROVE  LET C == Store(B, name) IN
         Continues(o, B, C) /\ C.packages = B.packages /\ C.fault = B.fault
<1> DEFINE C == Store(B, name)
           m2 == [B.m EXCEPT !.code = Append(B.m.code, name)]
<1>1. /\ C.m = m2 /\ C.groups = B.groups /\ C.packages = B.packages /\ C.fault = B.fault
      /\ C = [groups |-> C.groups, packages |-> C.packages, m |-> C.m, fault |-> C.fault]
  BY DEF Store, Handler, Shape
<1>2. /\ m2 \in Parsers /\ m2.file = B.m.file /\ m2.text = B.m.text /\ m2.imports = B.m.imports
      /\ m2.stmts = B.m.stmts /\ m2.errnum = B.m.errnum /\ m2.ext = B.m.ext /\ m2.dots = B.m.dots
  BY WithStored DEF Handler
<1> HIDE DEF C, m2
<1>3. Handler(C, o)
  BY <1>1, <1>2 DEF Handler, Shape
<1>4. Later(B, C)
  <2>1. Later(B, B)
    BY LaterSelf
  <2> QED BY <1>1, <1>2, <2>1 DEF Later
<1> QED BY <1>1, <1>2, <1>3, <1>4 DEF Continues, C

(* A statement that reports no error gives its name a type.                *)
LEMMA InitialiseIs ==
  ASSUME NEW o, NEW B, Handler(B, o), NEW p \in ToSet(B.groups), NEW name \in Names,
         name \in DOMAIN B.packages[p].table, NEW V, Handler(V.b, o), Reports(B, V.b)
  PROVE  LET C == Initialise(V, p, name) IN
         /\ Continues(o, B, C)
         /\ C.fault = "none" /\ C.m.errnum = 0 => C.packages[p].table[name].typed
<1> DEFINE C == Initialise(V, p, name)
           D == V.b
           E == SetType(D, p, name)
<1>1. Continues(o, B, D) /\ D.packages = B.packages /\ D.groups = B.groups
  BY ReportsContinues DEF Reports
<1>2. CASE V.typed
  <2>1. C = Store(E, name)
    BY <1>2 DEF Initialise
  <2> HIDE DEF C, D
  <2>2. Handler(D, o) /\ p \in ToSet(D.groups) /\ name \in DOMAIN D.packages[p].table
    BY <1>1 DEF Continues
  <2>3. /\ Continues(o, D, E)
        /\ E.fault = "none" => E.packages[p].table[name].typed
    BY <2>2, SetTypeIs
  <2> HIDE DEF E
  <2>4. Continues(o, E, C) /\ C.packages = E.packages /\ C.fault = E.fault
    BY <2>1, <2>3, StoreIs DEF Continues
  <2>5. Continues(o, B, C)
    BY <1>1, <2>2, <2>3, <2>4, ContinuesTransitive
  <2> QED BY <2>3, <2>4, <2>5 DEF C
<1>3. CASE ~ V.typed
  <2>1. C = SyntaxError(D)
    BY <1>3 DEF Initialise
  <2> HIDE DEF C, D
  <2>2. Handler(C, o) /\ Reports(D, C) /\ C.m.errnum = D.m.errnum + 1 /\ D.m.errnum \in Nat
    BY <1>1, <2>1, SyntaxErrorIs, ErrorsCounted DEF Continues, Handler
  <2>3. Continues(o, D, C)
    BY <1>1, <2>2, ReportsContinues DEF Continues
  <2>4. Continues(o, B, C)
    BY <1>1, <2>3, ContinuesTransitive
  <2> QED BY <2>2, <2>4 DEF C
<1> QED BY <1>2, <1>3

(* The end of a function; a function has a type from the start.            *)
LEMMA ExitFunctionIs ==
  ASSUME NEW o, NEW B, Handler(B, o), NEW p \in ToSet(B.groups), NEW name,
         name \in DOMAIN B.packages[p].table
  PROVE  LET C == ExitFunction(B, p, name) IN
         /\ Continues(o, B, C)
         /\ C.fault = "none" => C.packages[p].table[name].typed
<1> DEFINE C == ExitFunction(B, p, name)
<1>1. CASE IsFunc(B, p, name)
  <2>1. C = B
    BY <1>1 DEF ExitFunction
  <2>2. OwnPackage(B.packages[p])
    BY OwnPackageIs DEF Handler, Shape
  <2>3. B.packages[p].table[name].typed
    BY <1>1, <2>2 DEF IsFunc, OwnPackage
  <2>4. Continues(o, B, B)
    BY LaterSelf DEF Continues
  <2> QED BY <2>1, <2>3, <2>4
<1>2. CASE ~ IsFunc(B, p, name)
  <2>1. C = Stop(B, "other_kind")
    BY <1>2 DEF ExitFunction
  <2> HIDE DEF C
  <2>2. Handler(C, o) /\ Reports(B, C) /\ C.fault # "none"
    BY <2>1, StopIs DEF Faults
  <2> QED BY <2>2, ReportsContinues DEF C
<1> QED BY <1>1, <1>2

(* Parse_AST: a statement                                                  *)
LEMMA ParseStatementIs ==
  ASSUME NEW o, NEW B, Handler(B, o), NEW p \in ToSet(B.groups), NEW d \in SourceDecls,
         d.name \in DOMAIN B.packages[p].table
  PROVE  LET C == ParseStatement(B, p, d) IN
         /\ Continues(o, B, C)
         /\ C.fault = "none" /\ C.m.errnum = 0 => C.packages[p].table[d.name].typed
<1> DEFINE C == ParseStatement(B, p, d)
<1>0. d.name \in Names /\ B.m.errnum \in Nat
  BY ErrorsCounted DEF SourceDecls, Handler
<1>1. CASE Enough(B)
  <2>1. C = B
    BY <1>1 DEF ParseStatement
  <2>2. B.m.errnum # 0
    <3>1. MaxErrors \in Nat
      BY BuildAssumption
    <3> QED BY <1>0, <1>1, <3>1 DEF Enough
  <2>3. Continues(o, B, B)
    BY LaterSelf DEF Continues
  <2> QED BY <2>1, <2>2, <2>3
<1>2. CASE ~ Enough(B) /\ d.kind = "func"
  <2> DEFINE D == Visit(B, p, d.exp, "func").b
  <2>1. C = ExitFunction(D, p, d.name)
    BY <1>2 DEF ParseStatement
  <2>2. Handler(D, o) /\ Reports(B, D)
    BY VisitIs
  <2> HIDE DEF C, D
  <2>3. Continues(o, B, D) /\ D.packages = B.packages /\ D.groups = B.groups
    BY <2>2, ReportsContinues DEF Reports
  <2>4. /\ Continues(o, D, C)
        /\ C.fault = "none" => C.packages[p].table[d.name].typed
    BY <2>1, <2>2, <2>3, ExitFunctionIs
  <2>5. Continues(o, B, C)
    BY <2>3, <2>4, ContinuesTransitive
  <2> QED BY <2>4, <2>5 DEF C
<1>3. CASE ~ Enough(B) /\ d.kind # "func" /\ d.exp.kind = "none"
  <2>1. C = SetType(B, p, d.name)
    BY <1>3 DEF ParseStatement
  <2> HIDE DEF C
  <2> QED BY <2>1, SetTypeIs DEF C
<1>4. CASE ~ Enough(B) /\ d.kind # "func" /\ d.exp.kind # "none"
  <2> DEFINE V == Visit(B, p, d.exp, "module")
  <2>1. C = Initialise(V, p, d.name)
    BY <1>4 DEF ParseStatement
  <2>2. Handler(V.b, o) /\ Reports(B, V.b)
    BY VisitIs
  <2> HIDE DEF C, V
  <2> QED BY <1>0, <2>1, <2>2, InitialiseIs DEF C
<1> QED BY <1>1, <1>2, <1>3, <1>4

(* What is known when k statements of file m of package p were analysed.   *)
TypedSoFar(C, p, k) ==
  C.fault = "none" /\ C.m.errnum = 0 =>
    \A i \in 1 .. k : C.packages[p].table[C.m.stmts[i].name].typed

LEMMA StatementAdded ==
  ASSUME NEW o, NEW B, NEW p, p \in ToSet(B.groups), NEW C, Handler(B, o), Continues(o, B, C),
         DeclsKept(B.m, B.packages[p].table), NEW k \in Nat, k + 1 \in 1 .. Len(B.m.stmts),
         TypedSoFar(C, p, k), C.fault = "none"
  PROVE  LET D == ParseStatement(C, p, B.m.stmts[k + 1]) IN
         Continues(o, B, D) /\ TypedSoFar(D, p, k + 1)
<1> DEFINE d == B.m.stmts[k + 1]
           D == ParseStatement(C, p, d)
<1>0. B.m.stmts \in Seq(SourceDecls) /\ p \in DOMAIN B.packages
  BY ParserFields DEF Handler, Shape, PackagesGood
<1>1. d \in SourceDecls /\ k + 1 \in DOMAIN B.m.stmts
  BY <1>0, ElementIs
<1>2. /\ Handler(C, o) /\ p \in ToSet(C.groups) /\ p \in DOMAIN C.packages
      /\ TableGrown(B.packages[p].table, C.packages[p].table)
      /\ C.m.stmts = B.m.stmts
  BY <1>0 DEF Continues, Later, Grown
<1>3. \A i \in DOMAIN B.m.stmts : B.m.stmts[i].name \in DOMAIN C.packages[p].table
  BY <1>2 DEF DeclsKept, TableGrown
<1>4. /\ Continues(o, C, D)
      /\ D.fault = "none" /\ D.m.errnum = 0 => D.packages[p].table[d.name].typed
  <2>1. d.name \in DOMAIN C.packages[p].table
    BY <1>1, <1>3
  <2> HIDE DEF d
  <2> QED BY <1>1, <1>2, <2>1, ParseStatementIs
<1> HIDE DEF D
<1>5. Continues(o, B, D)
  BY <1>4, ContinuesTransitive
<1>6. ASSUME D.fault = "none", D.m.errnum = 0, NEW i \in 1 .. k + 1
      PROVE  D.packages[p].table[D.m.stmts[i].name].typed
  <2>1. D.m.stmts = B.m.stmts
    BY <1>5 DEF Continues
  <2>2. CASE i = k + 1
    BY <1>4, <1>6, <2>1, <2>2
  <2>3. CASE i \in 1 .. k
    <3>1. C.m.errnum = 0
      <4>1. C.m.errnum \in Nat /\ D.m.errnum >= C.m.errnum
        BY <1>2, <1>4, ErrorsCounted DEF Continues, Later, Handler
      <4> QED BY <1>6, <4>1
    <3>2. C.packages[p].table[B.m.stmts[i].name].typed
      BY <1>2, <2>3, <3>1 DEF TypedSoFar
    <3>3. TableGrown(C.packages[p].table, D.packages[p].table)
      BY <1>2, <1>4 DEF Continues, Later, Grown
    <3>4. i \in DOMAIN B.m.stmts
      BY <1>0, <2>3
    <3> QED BY <1>3, <2>1, <3>2, <3>3, <3>4 DEF TableGrown
  <2>4. i = k + 1 \/ i \in 1 .. k
    OBVIOUS
  <2> QED BY <2>2, <2>3, <2>4, Zenon
<1> QED BY <1>5, <1>6 DEF TypedSoFar, D

LEMMA ParseStatementsIs ==
  ASSUME NEW o, NEW B, Handler(B, o), NEW p, p \in ToSet(B.groups),
         DeclsKept(B.m, B.packages[p].table)
  PROVE  LET C == ParseStatements(B, p) IN
         Continues(o, B, C) /\ TypedSoFar(C, p, Len(B.m.stmts))
<1> DEFINE s == B.m.stmts
           n == Len(s)
<1>1. n \in Nat
  <2>1. s \in Seq(SourceDecls)
    BY ParserFields DEF Handler
  <2> QED BY <2>1
<1>2. PICK g : /\ g[0] = B
               /\ \A k \in 1 .. n :
                    g[k] = IF g[k - 1].fault = "none" THEN ParseStatement(g[k - 1], p, s[k])
                           ELSE g[k - 1]
               /\ ParseStatements(B, p) = g[n]
  BY <1>1, StatementsInTurn
<1> DEFINE Good(k) == Continues(o, B, g[k]) /\ TypedSoFar(g[k], p, k)
           T == {k \in Nat : Good(k)}
<1> HIDE DEF n
<1>3. 0 \in T
  <2>1. Continues(o, B, B)
    BY LaterSelf DEF Continues
  <2>2. TypedSoFar(B, p, 0)
    <3>1. 1 .. 0 = {}
      OBVIOUS
    <3> QED BY <3>1, Zenon DEF TypedSoFar
  <2> QED BY <1>2, <2>1, <2>2
<1>4. ASSUME NEW k \in 0 .. n - 1, k \in T PROVE k + 1 \in T
  <2>1. Good(k) /\ k \in Nat /\ k + 1 \in 1 .. n /\ (k + 1) - 1 = k
    BY <1>1, <1>4
  <2>2. g[k + 1] = IF g[k].fault = "none" THEN ParseStatement(g[k], p, s[k + 1]) ELSE g[k]
    BY <1>2, <2>1
  <2>3. CASE g[k].fault # "none"
    <3>1. g[k + 1] = g[k]
      BY <2>2, <2>3
    <3>2. TypedSoFar(g[k + 1], p, k + 1)
      BY <2>3, <3>1 DEF TypedSoFar
    <3> QED BY <2>1, <3>1, <3>2
  <2>4. CASE g[k].fault = "none"
    <3>1. k + 1 \in 1 .. Len(B.m.stmts)
      BY <2>1 DEF n
    <3>2. Continues(o, B, g[k + 1]) /\ TypedSoFar(g[k + 1], p, k + 1)
      BY <2>1, <2>2, <2>4, <3>1, StatementAdded
    <3> QED BY <2>1, <3>2
  <2> QED BY <2>3, <2>4
<1>5. n \in T
  <2> HIDE DEF T
  <2>1. \A k \in 0 .. n : k \in T
    BY <1>1, <1>3, <1>4, Induction
  <2> QED BY <1>1, <2>1
<1>6. Good(n)
  BY <1>5
<1> QED BY <1>2, <1>6 DEF n

LEMMA SameDeclsKept ==
  ASSUME NEW m, NEW m2, NEW t, DeclsKept(m, t), m2.stmts = m.stmts, m2.text = m.text,
         m.errnum \in Nat, m2.errnum \in Nat, m2.errnum >= m.errnum
  PROVE  DeclsKept(m2, t)
<1>1. m2.errnum = 0 => m.errnum = 0
  OBVIOUS
<1> QED BY <1>1 DEF DeclsKept

(* What a file has become when it was analysed (Parse_AST).                *)
LEMMA ParsedIs ==
  ASSUME NEW o, NEW B, Handler(B, o), NEW p, p \in ToSet(B.groups),
         ImportsMet(B.m, B.packages), DeclsKept(B.m, B.packages[p].table),
         NEW C, C = ParseImports(B), NEW D, D = ParseStatements(CheckConflict(C), p),
         NEW E, E = ExitModule(D, p, D.m.code)
  PROVE  /\ Handler(E, o) /\ Later(B, E) /\ E.groups = B.groups
         /\ E.fault = "none" =>
              /\ ImportsMet(E.m, E.packages) /\ DeclsKept(E.m, E.packages[p].table)
              /\ DeclsTyped(E.m, E.packages[p].table)
<1> DEFINE K == CheckConflict(C)
<1>1. Imported(o, B, C)
  BY ParseImportsIs
<1>2. Handler(K, o) /\ Reports(C, K)
  BY <1>1, CheckConflictIs DEF Imported
<1> HIDE DEF K
<1>3. Continues(o, C, K) /\ K.packages = C.packages
  BY <1>1, <1>2, ReportsContinues DEF Imported
<1>4. Later(B, K) /\ K.groups = B.groups /\ K.packages = B.packages /\ K.m.stmts = B.m.stmts
  BY <1>1, <1>2, <1>3, LaterTransitive DEF Imported, Continues
<1>5. ImportsMet(K.m, K.packages)
  BY <1>1, <1>3 DEF Imported, Continues, ImportsMet
<1>6. DeclsKept(K.m, K.packages[p].table)
  <2>1. /\ K.m.text = B.m.text /\ B.m.errnum \in Nat /\ K.m.errnum \in Nat
        /\ K.m.errnum >= B.m.errnum
    BY <1>2, <1>4, ErrorsCounted DEF Handler, Later
  <2> QED BY <1>4, <2>1, SameDeclsKept
<1>7. Continues(o, K, D) /\ TypedSoFar(D, p, Len(K.m.stmts))
  BY <1>2, <1>4, <1>6, ParseStatementsIs DEF K
<1>8. p \in ToSet(D.groups) /\ D.groups = B.groups /\ Handler(D, o)
  BY <1>4, <1>7 DEF Continues
<1>9. /\ Handler(E, o) /\ Later(D, E) /\ E.groups = D.groups /\ E.m = D.m /\ E.fault = D.fault
  BY <1>8, ExitModuleIs
<1>10. Later(B, E)
  <2>1. Later(K, E)
    BY <1>2, <1>7, <1>8, <1>9, LaterTransitive DEF Continues
  <2> QED BY <1>2, <1>4, <1>9, <2>1, LaterTransitive
<1>11. p \in DOMAIN K.packages /\ p \in DOMAIN D.packages
  BY <1>2, <1>4, <1>8 DEF Handler, Shape, PackagesGood
<1>12. TableGrown(D.packages[p].table, E.packages[p].table)
  BY <1>9, <1>11 DEF Later, Grown
<1>13. ImportsMet(E.m, E.packages)
  <2>1. ImportsMet(K.m, D.packages)
    BY <1>5, <1>7, ImportsStayMet DEF Continues, Later
  <2>2. ImportsMet(D.m, D.packages)
    BY <1>7, <2>1 DEF Continues, ImportsMet
  <2> QED BY <1>9, <2>2, ImportsStayMet DEF Later
<1>14. DeclsKept(D.m, D.packages[p].table)
  <2>1. DeclsKept(K.m, D.packages[p].table)
    BY <1>6, <1>7, <1>11, DeclsStayKept DEF Continues, Later, Grown
  <2>2. /\ D.m.stmts = K.m.stmts /\ D.m.text = K.m.text /\ K.m.errnum \in Nat
        /\ D.m.errnum \in Nat /\ D.m.errnum >= K.m.errnum
    BY <1>2, <1>7, <1>8, ErrorsCounted DEF Handler, Later, Continues
  <2> QED BY <2>1, <2>2, SameDeclsKept
<1>15. DeclsKept(E.m, E.packages[p].table)
  BY <1>9, <1>12, <1>14, DeclsStayKept
<1>16. ASSUME E.fault = "none" PROVE DeclsTyped(E.m, E.packages[p].table)
  <2>1. D.m.stmts = K.m.stmts /\ D.m.stmts \in Seq(SourceDecls)
    BY <1>7, <1>8, ParserFields DEF Continues, Handler
  <2>2. DOMAIN D.m.stmts = 1 .. Len(K.m.stmts)
    BY <2>1
  <2>3. DeclsTyped(D.m, D.packages[p].table)
    BY <1>7, <1>9, <1>16, <2>2 DEF DeclsTyped, TypedSoFar
  <2> QED BY <1>9, <1>12, <1>14, <2>3, DeclsStayTyped
<1> QED BY <1>8, <1>9, <1>10, <1>13, <1>15, <1>16

-----------------------------------------------------------------------------
(* The start and the end of a run *)

LEMMA NothingIn == ToSet(<<>>) = {}
BY DEF ToSet

(* main: the groups of the arguments                                       *)
LEMMA ArgumentsAre ==
  ASSUME NEW o \in Setups, groups = <<>>, packages = <<>>
  PROVE  LET C == Arguments(o) IN
         /\ C.fault = "none" /\ PackagesGood(C.groups, C.packages, o)
         /\ DOMAIN C.packages = ToSet(C.groups)
         /\ Len(C.groups) \in Nat \ {0} /\ C.groups[1] = o.args[1]
<1> DEFINE s == o.args
           n == Len(s)
<1>1. s \in Seq(Paths) /\ n \in Nat \ {0}
  <2>1. s \in Seq(Paths) \ {<<>>}
    BY BuildAssumption
  <2> QED BY <2>1
<1>2. PICK g : /\ g[0] = Beginning
               /\ \A k \in 1 .. n : g[k] = AddGroup(g[k - 1], s[k])
               /\ Arguments(o) = g[n]
  BY <1>1, ArgumentsInTurn
<1> DEFINE Good(k) == /\ Shape(g[k], o) /\ g[k].fault = "none"
                      /\ DOMAIN g[k].packages = ToSet(g[k].groups)
                      /\ IF k = 0 THEN g[k].groups = <<>>
                         ELSE Len(g[k].groups) >= 1 /\ g[k].groups[1] = s[1]
           T == {k \in Nat : Good(k)}
<1> HIDE DEF n, s
<1>3. 0 \in T
  <2>1. /\ g[0].groups = <<>> /\ g[0].packages = <<>> /\ g[0].fault = "none"
        /\ g[0] = [groups |-> g[0].groups, packages |-> g[0].packages, m |-> g[0].m,
                   fault |-> g[0].fault]
    BY <1>2 DEF Beginning, Record
  <2>2. /\ <<>> \in Seq(Paths) /\ ToSet(<<>>) = {} /\ DOMAIN <<>> = {}
        /\ <<>> = [p \in DOMAIN <<>> |-> <<>>[p]]
    BY DEF ToSet
  <2>3. PackagesGood(<<>>, <<>>, o)
    BY <2>2 DEF PackagesGood
  <2>4. Shape(g[0], o)
    BY <2>1, <2>3 DEF Shape, Faults
  <2> QED BY <2>1, <2>2, <2>4
<1>4. ASSUME NEW k \in 0 .. n - 1, k \in T PROVE k + 1 \in T
  <2>1. Good(k) /\ k \in Nat /\ k + 1 \in 1 .. n /\ (k + 1) - 1 = k
    BY <1>1, <1>4
  <2>2. g[k + 1] = AddGroup(g[k], s[k + 1]) /\ s[k + 1] \in Paths
    BY <1>1, <1>2, <2>1, ElementIs DEF n
  <2>3. /\ Shape(g[k + 1], o) /\ g[k + 1].fault = g[k].fault
        /\ Extends(g[k].groups, g[k + 1].groups)
        /\ DOMAIN g[k + 1].packages = DOMAIN g[k].packages \cup {s[k + 1]}
        /\ ToSet(g[k + 1].groups) = ToSet(g[k].groups) \cup {s[k + 1]}
    BY <2>1, <2>2, AddGroupIs
  <2>4. Len(g[k + 1].groups) >= 1 /\ g[k + 1].groups[1] = s[1]
    <3>1. g[k + 1].groups \in Seq(Paths) /\ Len(g[k].groups) \in Nat
      BY <2>1, <2>3 DEF Shape, PackagesGood
    <3>2. CASE k = 0
      <4> DEFINE gs == g[k + 1].groups
      <4>0. gs \in Seq(Paths) /\ Len(gs) \in Nat /\ DOMAIN gs = 1 .. Len(gs) /\ s[k + 1] = s[1]
        BY <3>1, <3>2
      <4>1. ToSet(gs) = {s[1]}
        BY <2>1, <2>3, <3>2, <4>0, NothingIn
      <4> HIDE DEF gs
      <4>2. PICK i \in DOMAIN gs : gs[i] = s[1]
        BY <4>1 DEF ToSet
      <4>3. 1 \in DOMAIN gs /\ Len(gs) >= 1
        BY <4>0, <4>2
      <4>4. gs[1] \in ToSet(gs)
        BY <4>3 DEF ToSet
      <4> QED BY <4>1, <4>3, <4>4 DEF gs
    <3>3. CASE k # 0
      <4>1. Len(g[k].groups) >= 1 /\ g[k].groups[1] = s[1]
        BY <2>1, <3>3
      <4>2. /\ Len(g[k].groups) <= Len(g[k + 1].groups)
            /\ \A i \in 1 .. Len(g[k].groups) : g[k + 1].groups[i] = g[k].groups[i]
        BY <2>3 DEF Extends
      <4>3. Len(g[k + 1].groups) \in Nat
        BY <3>1
      <4>4. 1 \in 1 .. Len(g[k].groups)
        BY <3>1, <4>1
      <4> QED BY <3>1, <4>1, <4>2, <4>3, <4>4
    <3> QED BY <3>2, <3>3
  <2>5. g[k + 1].fault = "none" /\ DOMAIN g[k + 1].packages = ToSet(g[k + 1].groups)
    BY <2>1, <2>3
  <2>6. k + 1 # 0
    BY <2>1
  <2>7. Good(k + 1)
    BY <2>3, <2>4, <2>5, <2>6
  <2> QED BY <2>1, <2>7
<1>5. n \in T
  <2> HIDE DEF T
  <2>1. \A k \in 0 .. n : k \in T
    BY <1>1, <1>3, <1>4, Induction
  <2> QED BY <1>1, <2>1
<1>6. Good(n) /\ n # 0
  BY <1>1, <1>5
<1>7. Len(g[n].groups) \in Nat
  BY <1>6 DEF Shape, PackagesGood
<1> QED BY <1>2, <1>6, <1>7 DEF Shape, s

(* A package without errors has no file with errors.                       *)
LEMMA NoErrorsIs ==
  ASSUME NEW path, modules[path] \in Seq(Parsers), NoErrors(path)
  PROVE  \A i \in 1 .. Len(modules[path]) : modules[path][i].errnum = 0
<1> DEFINE s == modules[path]
           n == Len(s)
<1>1. s \in Seq(Parsers) /\ n \in Nat
  OBVIOUS
<1>2. PICK g : /\ g[0] = 0
               /\ \A k \in 1 .. n : g[k] = g[k - 1] + s[k].errnum
               /\ Errors(path) = g[n]
  BY <1>1, ErrorsInTurn
<1> DEFINE Good(k) == /\ g[k] \in Nat
                      /\ g[k] <= 0 => \A i \in 1 .. k : s[i].errnum = 0
           T == {k \in Nat : Good(k)}
<1>0. g[n] <= 0
  BY <1>2 DEF NoErrors
<1> HIDE DEF n, s
<1>3. 0 \in T
  BY <1>2
<1>4. ASSUME NEW k \in 0 .. n - 1, k \in T PROVE k + 1 \in T
  <2>1. Good(k) /\ k \in Nat /\ k + 1 \in 1 .. n /\ (k + 1) - 1 = k
    BY <1>1, <1>4
  <2>2. s[k + 1].errnum \in Nat
    BY <1>1, <2>1, ElementIs, ErrorsCounted DEF n
  <2>3. g[k + 1] = g[k] + s[k + 1].errnum
    BY <1>2, <2>1
  <2> QED BY <2>1, <2>2, <2>3
<1>5. n \in T
  <2> HIDE DEF T
  <2>1. \A k \in 0 .. n : k \in T
    BY <1>1, <1>3, <1>4, Induction
  <2> QED BY <1>1, <2>1
<1>6. Good(n)
  BY <1>5
<1> QED BY <1>0, <1>6 DEF n, s

-----------------------------------------------------------------------------
(* The disk *)

(* An image that is made now.                                              *)
ImageMet(i, fs, now) ==
  /\ Image(i) /\ i.opened <= now
  /\ i.cut = "no" => Complete(i)
  /\ i.dir \in DOMAIN fs => \A f \in MissedSaves(i, fs[i.dir]) : fs[i.dir][f].at >= i.opened

LEMMA DiskIs ==
  ASSUME NEW fs, NEW im, NEW now
  PROVE  DiskGood([files |-> fs, image |-> im], now) <=>
           /\ fs = [dir \in DOMAIN fs |-> fs[dir]] /\ DOMAIN fs \subseteq Dirs
           /\ \A dir \in DOMAIN fs : Listed(fs[dir])
           /\ \A s \in Saves : s.dir \in DOMAIN fs
           /\ im = [l \in DOMAIN im |-> im[l]] /\ DOMAIN im \subseteq Dirs
           /\ \A l \in DOMAIN im : ImageMet(im[l], fs, now)
BY DEF DiskGood, ImageMet

LEMMA ImageStays ==
  ASSUME NEW i, NEW fs, NEW now \in Nat, NEW later \in Nat, now <= later, ImageMet(i, fs, now)
  PROVE  ImageMet(i, fs, later)
<1>1. i.opened \in Nat
  BY DEF ImageMet, Image
<1> QED BY <1>1 DEF ImageMet

(* A file that is saved now.                                               *)
Saved(fs, s, now) == [fs EXCEPT ![s.dir] = With(@, {s.file}, [text |-> s.text, at |-> now])]

LEMMA SavedIs ==
  ASSUME NEW fs, NEW im, NEW now \in Nat, DiskGood([files |-> fs, image |-> im], now),
         NEW s \in Saves
  PROVE  /\ DiskGood([files |-> Saved(fs, s, now), image |-> im], now)
         /\ DOMAIN Saved(fs, s, now) = DOMAIN fs
         /\ \A dir \in DOMAIN fs : \A f \in DOMAIN Saved(fs, s, now)[dir] :
              \/ Saved(fs, s, now)[dir][f].at = now
              \/ f \in DOMAIN fs[dir] /\ Saved(fs, s, now)[dir][f] = fs[dir][f]
<1> DEFINE gs == Saved(fs, s, now)
           e == [text |-> s.text, at |-> now]
<1>1. /\ fs = [dir \in DOMAIN fs |-> fs[dir]] /\ DOMAIN fs \subseteq Dirs
      /\ \A dir \in DOMAIN fs : Listed(fs[dir])
      /\ s.dir \in DOMAIN fs
      /\ im = [l \in DOMAIN im |-> im[l]] /\ DOMAIN im \subseteq Dirs
      /\ \A l \in DOMAIN im : ImageMet(im[l], fs, now)
  BY DiskIs
<1>2. s.dir \in Dirs /\ s.file \in Files /\ s.text \in SourceTexts
  BY BuildAssumption
<1>3. /\ gs = [dir \in DOMAIN gs |-> gs[dir]] /\ DOMAIN gs = DOMAIN fs
      /\ gs[s.dir] = With(fs[s.dir], {s.file}, e)
      /\ \A dir \in DOMAIN fs \ {s.dir} : gs[dir] = fs[dir]
  BY <1>1 DEF Saved
<1>4. e \in [text : SourceTexts, at : Nat] /\ e.at = now
  BY <1>2
<1> HIDE DEF gs, e
<1>5. /\ DOMAIN gs[s.dir] = DOMAIN fs[s.dir] \cup {s.file} /\ gs[s.dir][s.file] = e
      /\ \A f \in DOMAIN fs[s.dir] \ {s.file} : gs[s.dir][f] = fs[s.dir][f]
  BY <1>3 DEF With
<1>6. Listed(gs[s.dir])
  <2>1. DOMAIN fs[s.dir] \subseteq Files
        /\ fs[s.dir] \in [DOMAIN fs[s.dir] -> [text : SourceTexts, at : Nat]]
    BY <1>1 DEF Listed, Map
  <2>2. gs[s.dir] \in [DOMAIN fs[s.dir] \cup {s.file} -> [text : SourceTexts, at : Nat]]
    <3> DEFINE old == fs[s.dir]
               R == [text : SourceTexts, at : Nat]
    <3>1. e \in R /\ \A f \in DOMAIN old : old[f] \in R
      BY <1>4, <2>1
    <3> HIDE DEF old, R
    <3>2. With(old, {s.file}, e) \in [DOMAIN old \cup {s.file} -> R]
      BY <3>1, WithTyped
    <3> QED BY <1>3, <3>2 DEF old, R
  <2> QED BY <1>2, <1>5, <2>1, <2>2 DEF Listed, Map
<1>7. \A dir \in DOMAIN fs : Listed(gs[dir])
  BY <1>1, <1>3, <1>6
<1>8. \A dir \in DOMAIN fs : \A f \in DOMAIN gs[dir] :
        gs[dir][f].at = now \/ (f \in DOMAIN fs[dir] /\ gs[dir][f] = fs[dir][f])
  <2> SUFFICES ASSUME NEW dir \in DOMAIN fs, NEW f \in DOMAIN gs[dir]
               PROVE  gs[dir][f].at = now \/ (f \in DOMAIN fs[dir] /\ gs[dir][f] = fs[dir][f])
    OBVIOUS
  <2>1. CASE dir # s.dir
    BY <1>3, <2>1
  <2>2. CASE dir = s.dir /\ f = s.file
    <3>1. gs[dir][f] = e
      BY <1>5, <2>2
    <3> QED BY <1>4, <3>1, Zenon
  <2>3. CASE dir = s.dir /\ f # s.file
    BY <1>5, <2>3
  <2> QED BY <2>1, <2>2, <2>3
<1>9. ASSUME NEW l \in DOMAIN im PROVE ImageMet(im[l], gs, now)
  <2> DEFINE i == im[l]
  <2>1. ImageMet(i, fs, now)
    BY <1>1
  <2> HIDE DEF i
  <2>2. ASSUME i.dir \in DOMAIN gs, NEW f \in MissedSaves(i, gs[i.dir])
        PROVE  gs[i.dir][f].at >= i.opened
    <3>1. i.dir \in DOMAIN fs /\ f \in DOMAIN gs[i.dir]
      BY <1>3, <2>2 DEF MissedSaves
    <3>2. CASE gs[i.dir][f].at = now
      BY <2>1, <3>2 DEF ImageMet, Image
    <3>3. CASE f \in DOMAIN fs[i.dir] /\ gs[i.dir][f] = fs[i.dir][f]
      <4>1. f \in MissedSaves(i, fs[i.dir])
        BY <2>2, <3>3 DEF MissedSaves
      <4> QED BY <2>1, <3>1, <3>3, <4>1 DEF ImageMet
    <3> QED BY <1>8, <3>1, <3>2, <3>3
  <2> QED BY <2>1, <2>2 DEF ImageMet, i
<1>10. \A t \in Saves : t.dir \in DOMAIN gs
  BY <1>3, DiskIs
<1>11. DiskGood([files |-> gs, image |-> im], now)
  BY <1>1, <1>3, <1>7, <1>9, <1>10, DiskIs
<1> QED BY <1>3, <1>8, <1>11 DEF gs

(* A file that is removed.                                                 *)
Removed(fs, dir, f) == [fs EXCEPT ![dir] = [g \in DOMAIN @ \ {f} |-> @[g]]]

LEMMA RemovedIs ==
  ASSUME NEW fs, NEW im, NEW now \in Nat, DiskGood([files |-> fs, image |-> im], now),
         NEW d \in DOMAIN fs, NEW g
  PROVE  /\ DiskGood([files |-> Removed(fs, d, g), image |-> im], now)
         /\ DOMAIN Removed(fs, d, g) = DOMAIN fs
         /\ \A dir \in DOMAIN fs : \A f \in DOMAIN Removed(fs, d, g)[dir] :
              f \in DOMAIN fs[dir] /\ Removed(fs, d, g)[dir][f] = fs[dir][f]
<1> DEFINE gs == Removed(fs, d, g)
<1>1. /\ fs = [dir \in DOMAIN fs |-> fs[dir]] /\ DOMAIN fs \subseteq Dirs
      /\ \A dir \in DOMAIN fs : Listed(fs[dir])
      /\ im = [l \in DOMAIN im |-> im[l]] /\ DOMAIN im \subseteq Dirs
      /\ \A l \in DOMAIN im : ImageMet(im[l], fs, now)
  BY DiskIs
<1>2. /\ gs = [dir \in DOMAIN gs |-> gs[dir]] /\ DOMAIN gs = DOMAIN fs
      /\ gs[d] = [f \in DOMAIN fs[d] \ {g} |-> fs[d][f]]
      /\ \A dir \in DOMAIN fs \ {d} : gs[dir] = fs[dir]
  BY <1>1 DEF Removed
<1> HIDE DEF gs
<1>3. \A dir \in DOMAIN fs : \A f \in DOMAIN gs[dir] :
        f \in DOMAIN fs[dir] /\ gs[dir][f] = fs[dir][f]
  BY <1>2
<1>4. Listed(gs[d])
  <2>1. Listed(fs[d])
    BY <1>1
  <2> QED BY <1>2, <2>1 DEF Listed, Map
<1>5. \A dir \in DOMAIN fs : Listed(gs[dir])
  BY <1>1, <1>2, <1>4
<1>6. ASSUME NEW l \in DOMAIN im PROVE ImageMet(im[l], gs, now)
  <2> DEFINE i == im[l]
  <2>1. ImageMet(i, fs, now)
    BY <1>1
  <2> HIDE DEF i
  <2>2. ASSUME i.dir \in DOMAIN gs, NEW f \in MissedSaves(i, gs[i.dir])
        PROVE  gs[i.dir][f].at >= i.opened
    <3>1. i.dir \in DOMAIN fs /\ f \in DOMAIN gs[i.dir]
      BY <1>2, <2>2 DEF MissedSaves
    <3>2. f \in DOMAIN fs[i.dir] /\ gs[i.dir][f] = fs[i.dir][f]
      BY <1>3, <3>1
    <3>3. f \in MissedSaves(i, fs[i.dir])
      BY <2>2, <3>2 DEF MissedSaves
    <3> QED BY <2>1, <3>1, <3>2, <3>3 DEF ImageMet
  <2> QED BY <2>1, <2>2 DEF ImageMet, i
<1>7. \A t \in Saves : t.dir \in DOMAIN gs
  BY <1>2, DiskIs
<1>8. DiskGood([files |-> gs, image |-> im], now)
  BY <1>1, <1>2, <1>5, <1>6, <1>7, DiskIs
<1> QED BY <1>2, <1>3, <1>8 DEF gs

-----------------------------------------------------------------------------
(* The user and the time *)

(* What AllSeen and FilesLeft say about the disk.                          *)
LEMMA UserSteps ==
  ASSUME RunGood, UNCHANGED run, clock \in Nat, clock' \in Nat, clock <= clock',
         DOMAIN files' = DOMAIN files,
         \A dir \in DOMAIN files : \A f \in DOMAIN files'[dir] :
           \/ files'[dir][f].at = clock
           \/ f \in DOMAIN files[dir] /\ files'[dir][f] = files[dir][f]
  PROVE  RunGood'
<1>1. /\ phase' = phase /\ opts' = opts /\ group' = group /\ groups' = groups /\ fault' = fault
      /\ packages' = packages /\ modules' = modules /\ left' = left /\ opened' = opened
      /\ member' = member
  BY DEF run
<1>2. FilesRead /\ FilesLeft /\ AllSeen /\ (fault = "none" => ModulesGood)
  BY DEF RunGood
<1>3. Begun' = Begun
  BY <1>1 DEF Begun
<1>4. FilesRead'
  <2>1. opened \in [Begun -> 0 .. clock']
    <3>1. opened \in [Begun -> 0 .. clock]
      BY <1>2 DEF FilesRead
    <3>2. 0 .. clock \subseteq 0 .. clock'
      OBVIOUS
    <3> QED BY <3>1, <3>2
  <2> QED BY <1>1, <1>2, <1>3, <2>1 DEF FilesRead
<1>5. FilesLeft'
  BY <1>1, <1>2 DEF FilesLeft, DirExists, SourceDir, Path
<1>6. AllSeen'
  <2> SUFFICES ASSUME NEW p \in Begun, NEW dir, dir = SourceDir(opts, p), dir \in DOMAIN files,
                      NEW f \in DOMAIN files'[dir]
               PROVE  \/ files'[dir][f].at >= opened[p]
                      \/ p = Path /\ f \in left
                      \/ Seen(p, f, files'[dir][f].text)
    BY <1>1, <1>3 DEF AllSeen, DirExists, Path, SourceDir, Seen
  <2>1. CASE files'[dir][f].at = clock
    <3>1. opened[p] \in 0 .. clock
      BY <1>2 DEF FilesRead
    <3> QED BY <2>1, <3>1
  <2>2. CASE f \in DOMAIN files[dir] /\ files'[dir][f] = files[dir][f]
    BY <1>2, <2>2 DEF AllSeen, DirExists
  <2> QED BY <2>1, <2>2
<1>7. fault' = "none" => ModulesGood'
  BY <1>1, <1>2, <1>3 DEF ModulesGood, Path
<1>8. PackagesGood(groups', packages', opts')
  BY <1>1 DEF RunGood
<1> QED BY <1>1, <1>4, <1>5, <1>6, <1>7, <1>8 DEF RunGood

LEMMA IdleStays == ASSUME Idle, fault = "none", UNCHANGED run PROVE Idle' /\ fault' = "none"
BY DEF Idle, run

LEMMA SaveFileKeeps == ASSUME Inductive, SaveFile PROVE Inductive'
<1>1. clock \in Nat /\ DiskGood([files |-> files, image |-> image], clock)
  BY DEF Inductive
<1>2. UNCHANGED <<image, clock, runs>> /\ UNCHANGED run
  BY DEF SaveFile
<1>3. PICK s \in Saves : files' = Saved(files, s, clock)
  BY DEF SaveFile, Saved
<1>4. /\ DiskGood([files |-> files', image |-> image], clock)
      /\ DOMAIN files' = DOMAIN files
      /\ \A dir \in DOMAIN files : \A f \in DOMAIN files'[dir] :
           \/ files'[dir][f].at = clock
           \/ f \in DOMAIN files[dir] /\ files'[dir][f] = files[dir][f]
  BY <1>1, <1>3, SavedIs
<1>5. IF phase' = "off" THEN Idle' /\ fault' = "none" ELSE RunGood'
  <2>1. CASE phase = "off"
    BY <1>2, <2>1, IdleStays DEF Inductive, run
  <2>2. CASE phase # "off"
    <3>1. RunGood /\ phase' # "off"
      BY <1>2, <2>2 DEF Inductive, run
    <3> QED BY <1>1, <1>2, <1>4, <3>1, UserSteps
  <2> QED BY <2>1, <2>2
<1> QED BY <1>2, <1>4, <1>5 DEF Inductive

LEMMA RemoveFileKeeps == ASSUME Inductive, RemoveFile PROVE Inductive'
<1>1. clock \in Nat /\ DiskGood([files |-> files, image |-> image], clock)
  BY DEF Inductive
<1>2. UNCHANGED <<image, clock, runs>> /\ UNCHANGED run
  BY DEF RemoveFile
<1>3. PICK d \in DOMAIN files : \E g \in DOMAIN files[d] : files' = Removed(files, d, g)
  BY DEF RemoveFile, Removed
<1>4. /\ DiskGood([files |-> files', image |-> image], clock)
      /\ DOMAIN files' = DOMAIN files
      /\ \A dir \in DOMAIN files : \A f \in DOMAIN files'[dir] :
           f \in DOMAIN files[dir] /\ files'[dir][f] = files[dir][f]
  <2>1. PICK g \in DOMAIN files[d] : files' = Removed(files, d, g)
    BY <1>3
  <2> QED BY <1>1, <2>1, RemovedIs
<1>5. IF phase' = "off" THEN Idle' /\ fault' = "none" ELSE RunGood'
  <2>1. CASE phase = "off"
    BY <1>2, <2>1, IdleStays DEF Inductive, run
  <2>2. CASE phase # "off"
    <3>1. RunGood /\ phase' # "off"
      BY <1>2, <2>2 DEF Inductive, run
    <3> QED BY <1>1, <1>2, <1>4, <3>1, UserSteps
  <2> QED BY <2>1, <2>2
<1> QED BY <1>2, <1>4, <1>5 DEF Inductive

LEMMA TickKeeps == ASSUME Inductive, Tick PROVE Inductive'
<1>1. clock \in 1 .. MaxClock /\ DiskGood([files |-> files, image |-> image], clock)
      /\ MaxClock \in Nat
  BY BuildAssumption DEF Inductive
<1>2. UNCHANGED <<files, image>> /\ UNCHANGED run /\ clock' = clock + 1 /\ clock < MaxClock
  BY DEF Tick, disk
<1>3. clock' \in 1 .. MaxClock /\ clock \in Nat /\ clock' \in Nat /\ clock <= clock'
  BY <1>1, <1>2
<1>4. DiskGood([files |-> files', image |-> image'], clock')
  <2>1. \A l \in DOMAIN image : ImageMet(image[l], files, clock')
    BY <1>1, <1>3, DiskIs, ImageStays
  <2>2. DiskGood([files |-> files, image |-> image], clock')
    BY <1>1, <2>1, DiskIs
  <2> QED BY <1>2, <2>2
<1>5. IF phase' = "off" THEN Idle' /\ fault' = "none" ELSE RunGood'
  <2>1. CASE phase = "off"
    BY <1>2, <2>1, IdleStays DEF Inductive, run
  <2>2. CASE phase # "off"
    <3>1. RunGood /\ phase' # "off"
      BY <1>2, <2>2 DEF Inductive, run
    <3> QED BY <1>2, <1>3, <3>1, UserSteps
  <2> QED BY <2>1, <2>2
<1> QED BY <1>3, <1>4, <1>5 DEF Inductive

-----------------------------------------------------------------------------
(* The steps of the compiler *)

LEMMA InitHolds == ASSUME Init PROVE Inductive
<1>1. PICK d \in Disks : files = d.files /\ image = d.image
  BY DEF Init
<1>2. clock = 1 /\ Idle /\ fault = "none" /\ phase = "off"
  BY DEF Init, Idle
<1>3. DiskGood(d, 1) /\ MaxClock \in Nat \ {0}
  BY BuildAssumption
<1>4. DiskGood([files |-> files, image |-> image], 1)
  BY <1>1, <1>3 DEF DiskGood
<1> QED BY <1>2, <1>3, <1>4 DEF Inductive

LEMMA SetupIs ==
  ASSUME NEW o \in Setups
  PROVE  o.src \in Roots /\ o.out \in Roots /\ o.pathes \in Seq(Roots)
BY BuildAssumption

LEMMA ListingIs ==
  ASSUME OnDisk, NEW dir
  PROVE  Listing(dir) \subseteq Files /\ (DirExists(dir) => Listing(dir) = DOMAIN files[dir])
         /\ (Listing(dir) # {} => DirExists(dir))
<1>1. DirExists(dir) => Listed(files[dir])
  BY DiskFacts DEF DirExists
<1> QED BY <1>1 DEF Listing, Listed, Map

LEMMA LaunchKeeps == ASSUME Inductive, Launch PROVE Inductive'
<1>1. OnDisk /\ phase = "off" /\ clock \in Nat /\ Idle
  BY DEF Inductive, Launch, OnDisk
<1>2. PICK o \in Setups :
        opts' = o /\ Working(Arguments(o)) /\ OpenGroup(1, o, o.args[1])
  BY DEF Launch
<1>3. UNCHANGED <<files, image, clock>> /\ phase' = "build" /\ member' = 0
  BY DEF Launch, disk
<1>4. /\ fault' = "none" /\ PackagesGood(groups', packages', o)
      /\ Len(groups') \in Nat \ {0} /\ groups'[1] = o.args[1]
  BY <1>1, <1>2, ArgumentsAre DEF Idle, Working
<1> DEFINE path == o.args[1]
           dir == SourceDir(o, path)
<1>5. /\ group' = 1 /\ left' = Listing(dir) /\ modules' = With(<<>>, {path}, <<>>)
      /\ opened' = With(<<>>, {path}, clock)
  BY <1>1, <1>2 DEF OpenGroup, Idle
<1>6. /\ DOMAIN modules' = {path} /\ modules' = [p \in {path} |-> <<>>]
      /\ opened' = [p \in {path} |-> clock]
  BY <1>5 DEF With
<1> HIDE DEF dir
<1>7. Begun' = {path} /\ Path' = path
  <2>1. group' = 1 /\ phase' = "build" /\ groups'[1] = path
    BY <1>3, <1>4, <1>5
  <2> HIDE DEF path
  <2> QED BY <2>1 DEF Begun, Path
<1>8. FilesRead'
  <2>1. modules' \in [{path} -> Seq(Parsers)] /\ opened' \in [{path} -> 0 .. clock]
    BY <1>1, <1>6
  <2>2. \A p \in {path} : \A i, j \in DOMAIN modules'[p] :
          modules'[p][i].file = modules'[p][j].file => i = j
    BY <1>6
  <2> QED BY <1>3, <1>7, <2>1, <2>2 DEF FilesRead
<1>9. FilesLeft'
  <2>1. left' \subseteq Files /\ (left' # {} => DirExists(dir))
    BY <1>1, <1>5, ListingIs
  <2>2. DirExists(dir)' <=> DirExists(dir)
    BY <1>3 DEF DirExists
  <2>3. SourceDir(opts, Path)' = dir
    BY <1>2, <1>7 DEF dir, SourceDir
  <2>4. DirExists(SourceDir(opts, Path))' <=> dir \in DOMAIN files
    BY <1>3, <2>3 DEF DirExists
  <2>5. modules'[path] = <<>>
    BY <1>6
  <2> QED BY <1>3, <1>7, <2>1, <2>4, <2>5 DEF FilesLeft, DirExists
<1>10. AllSeen'
  <2>1. \A f \in DOMAIN files[dir] : dir \in DOMAIN files => f \in left'
    BY <1>1, <1>5, ListingIs DEF DirExists
  <2>2. SourceDir(opts, path)' = dir
    BY <1>2 DEF dir, SourceDir
  <2> QED BY <1>2, <1>3, <1>7, <2>1 DEF AllSeen, DirExists, dir, SourceDir
<1>11. ModulesGood'
  <2>1. \A p \in {path} : modules'[p] = <<>>
    BY <1>6
  <2> QED BY <1>3, <1>7, <2>1 DEF ModulesGood
<1>12. RunGood'
  BY <1>2, <1>3, <1>4, <1>5, <1>8, <1>9, <1>10, <1>11 DEF RunGood, Faults
<1> QED BY <1>3, <1>12 DEF Inductive

LEMMA RunFacts ==
  ASSUME Inductive, phase # "off"
  PROVE  /\ RunGood /\ OnDisk /\ clock \in Nat
         /\ groups \in Seq(Paths) /\ Len(groups) \in Nat /\ group \in 1 .. Len(groups)
         /\ \A i, j \in DOMAIN groups : groups[i] = groups[j] => i = j
         /\ DOMAIN groups = 1 .. Len(groups)
         /\ opts.src \in Roots /\ opts.out \in Roots /\ opts.pathes \in Seq(Roots)
         /\ Path \in Paths /\ Path \in ToSet(groups) /\ Path \in Begun
         /\ modules[Path] \in Seq(Parsers) /\ DOMAIN modules = Begun
         /\ modules = [p \in Begun |-> modules[p]]
<1>1. RunGood /\ OnDisk /\ clock \in Nat
  BY DEF Inductive, OnDisk
<1>2. /\ groups \in Seq(Paths) /\ Len(groups) \in Nat /\ group \in 1 .. Len(groups)
      /\ \A i, j \in DOMAIN groups : groups[i] = groups[j] => i = j
      /\ DOMAIN groups = 1 .. Len(groups)
  BY <1>1 DEF RunGood, PackagesGood
<1>3. Path \in Paths /\ Path \in ToSet(groups)
  BY <1>2 DEF Path, ToSet
<1>4. Path \in Begun
  BY <1>1, <1>2 DEF Path, Begun, RunGood
<1>5. modules \in [Begun -> Seq(Parsers)]
  BY <1>1 DEF RunGood, FilesRead
<1> QED BY <1>1, <1>2, <1>3, <1>4, <1>5, SetupIs DEF RunGood

(* A handler is given what the compiler keeps, and a parser state.         *)
LEMMA RecordIs ==
  ASSUME RunGood, NEW m \in Parsers
  PROVE  /\ Handler(Record(m), opts) /\ Record(m).m = m /\ Record(m).groups = groups
         /\ Record(m).packages = packages /\ Record(m).fault = fault
<1>1. /\ Record(m).m = m /\ Record(m).groups = groups /\ Record(m).packages = packages
      /\ Record(m).fault = fault
      /\ Record(m) = [groups |-> Record(m).groups, packages |-> Record(m).packages,
                      m |-> Record(m).m, fault |-> Record(m).fault]
  BY DEF Record
<1> QED BY <1>1 DEF RunGood, Handler, Shape

LEMMA NewParserIs ==
  ASSUME NEW f \in Files, NEW text \in SourceTexts, NEW pk
  PROVE  LET m == [NewParser(f) EXCEPT !.text = text] IN
         /\ m \in Parsers /\ m.file = f /\ m.text = text /\ m.stmts = <<>>
         /\ ImportsMet(m, pk)
<1>1. <<>> \in Partial(Names \cup {""}, Paths) /\ <<>> \in Partial(Names, Paths)
  <2>1. <<>> \in [DOMAIN <<>> -> Paths] /\ DOMAIN <<>> = {}
    OBVIOUS
  <2>2. DOMAIN <<>> \subseteq Names \cup {""} /\ DOMAIN <<>> \subseteq Names
    BY <2>1
  <2> QED BY <2>1, <2>2, PartialIs
<1>2. NewParser(f) = [file |-> f, text |-> None, imports |-> <<>>, stmts |-> <<>>, symbols |-> {},
                      errnum |-> 0, ext |-> <<>>, dots |-> <<>>, code |-> <<>>]
  BY DEF NewParser
<1> DEFINE m == [NewParser(f) EXCEPT !.text = text]
<1>3. m = [file |-> f, text |-> text, imports |-> <<>>, stmts |-> <<>>, symbols |-> {},
           errnum |-> 0, ext |-> <<>>, dots |-> <<>>, code |-> <<>>]
  BY <1>2, SMTT(40)
<1> HIDE DEF m
<1>4. m \in Parsers
  <2>1. /\ <<>> \in Seq(SourceImps) /\ <<>> \in Seq(SourceDecls) /\ <<>> \in Seq(Names)
        /\ {} \in SUBSET Names /\ 0 \in Nat
    OBVIOUS
  <2> DEFINE E == Partial(Names \cup {""}, Paths)
             D == Partial(Names, Paths)
  <2>2. <<>> \in E /\ <<>> \in D
    BY <1>1
  <2>3. Parsers = [file : Files, text : SourceTexts, imports : Seq(SourceImps),
                   stmts : Seq(SourceDecls), symbols : SUBSET Names, errnum : Nat, ext : E,
                   dots : D, code : Seq(Names)]
    BY DEF Parsers
  <2> HIDE DEF E, D
  <2> QED BY <1>3, <2>1, <2>2, <2>3
<1>5. ImportsMet(m, pk)
  BY <1>3, NoTable DEF ImportsMet
<1> QED BY <1>3, <1>4, <1>5 DEF m

LEMMA NextGroupKeeps == ASSUME Inductive, NextGroup PROVE Inductive'
<1>1. phase = "build" /\ fault = "none" /\ left = {} /\ group < Len(groups)
  BY DEF NextGroup, Running
<1>2. /\ RunGood /\ OnDisk /\ clock \in Nat
      /\ groups \in Seq(Paths) /\ Len(groups) \in Nat /\ group \in 1 .. Len(groups)
      /\ \A i, j \in DOMAIN groups : groups[i] = groups[j] => i = j
      /\ DOMAIN groups = 1 .. Len(groups) /\ DOMAIN modules = Begun
  BY <1>1, RunFacts
<1>3. /\ UNCHANGED <<files, image, clock, opts, phase, groups, packages, member, fault>>
      /\ OpenGroup(group + 1, opts, groups[group + 1])
  BY DEF NextGroup, disk, world
<1>4. FilesRead /\ AllSeen /\ ModulesGood
  BY <1>1, <1>2 DEF RunGood
<1> DEFINE path == groups[group + 1]
           dir == SourceDir(opts, path)
<1>5. /\ group' = group + 1 /\ left' = Listing(dir)
      /\ modules' = With(modules, {path}, <<>>) /\ opened' = With(opened, {path}, clock)
  BY <1>3 DEF OpenGroup
<1>6. Begun = {groups[i] : i \in 1 .. group}
  BY <1>1 DEF Begun
<1>7. path \notin Begun
  BY <1>1, <1>2, <1>6
<1>8. Path' = path /\ Begun' = Begun \cup {path}
  <2>1. Path' = path
    BY <1>3, <1>5 DEF Path
  <2>2. Begun' = {groups[i] : i \in 1 .. (group + 1)}
    BY <1>1, <1>3, <1>5 DEF Begun
  <2>3. 1 .. (group + 1) = (1 .. group) \cup {group + 1}
    BY <1>2
  <2> QED BY <1>6, <2>1, <2>2, <2>3
<1>9. /\ DOMAIN modules' = Begun \cup {path} /\ modules'[path] = <<>>
      /\ \A p \in Begun : modules'[p] = modules[p]
      /\ DOMAIN opened' = Begun \cup {path} /\ opened'[path] = clock
      /\ \A p \in Begun : opened'[p] = opened[p]
  BY <1>4, <1>5, <1>7 DEF With, FilesRead
<1> HIDE DEF path, dir
<1>10. FilesRead'
  <2>1. \A p \in Begun : modules[p] \in Seq(Parsers) /\ opened[p] \in 0 .. clock
    BY <1>4 DEF FilesRead
  <2>2. modules' \in [Begun \cup {path} -> Seq(Parsers)]
    <3>1. \A p \in Begun : modules[p] \in Seq(Parsers)
      BY <2>1
    <3> DEFINE R == Seq(Parsers)
    <3>2. <<>> \in R /\ \A p \in DOMAIN modules : modules[p] \in R
      BY <1>2, <3>1
    <3> HIDE DEF R
    <3>3. With(modules, {path}, <<>>) \in [DOMAIN modules \cup {path} -> R]
      BY <3>2, WithTyped
    <3> QED BY <1>2, <1>5, <3>3 DEF R
  <2>3. opened' \in [Begun \cup {path} -> 0 .. clock]
    <3>1. DOMAIN opened = Begun /\ clock \in 0 .. clock
      BY <1>2, <1>4 DEF FilesRead
    <3>2. With(opened, {path}, clock) \in [DOMAIN opened \cup {path} -> 0 .. clock]
      BY <2>1, <3>1, WithTyped
    <3> QED BY <1>5, <3>1, <3>2
  <2>4. \A p \in Begun \cup {path} : \A i, j \in DOMAIN modules'[p] :
          modules'[p][i].file = modules'[p][j].file => i = j
    BY <1>4, <1>9 DEF FilesRead
  <2> QED BY <1>3, <1>8, <2>2, <2>3, <2>4 DEF FilesRead
<1>11. left' \subseteq Files /\ (DirExists(dir) => left' = DOMAIN files[dir])
       /\ (left' # {} => DirExists(dir))
  BY <1>2, <1>5, ListingIs
<1>12. SourceDir(opts', path) = dir
  BY <1>3 DEF dir
<1>13. FilesLeft'
  BY <1>1, <1>3, <1>8, <1>9, <1>11, <1>12 DEF FilesLeft, DirExists
<1>14. AllSeen'
  <2> SUFFICES ASSUME NEW p \in Begun \cup {path}, NEW d,
                      d = SourceDir(opts, p), d \in DOMAIN files,
                      NEW f \in DOMAIN files[d]
               PROVE  \/ files[d][f].at >= opened'[p]
                      \/ p = path /\ f \in left'
                      \/ Seen(p, f, files[d][f].text)'
    BY <1>3, <1>8 DEF AllSeen, DirExists, SourceDir, Seen
  <2>1. CASE p = path
    BY <1>11, <2>1 DEF DirExists, dir
  <2>2. CASE p # path
    <3>1. files[d][f].at >= opened[p] \/ Seen(p, f, files[d][f].text)
      BY <1>1, <1>4, <2>2 DEF AllSeen, DirExists
    <3>2. opened'[p] = opened[p] /\ modules'[p] = modules[p]
      BY <1>9, <2>2
    <3> QED BY <1>3, <3>1, <3>2 DEF Seen
  <2> QED BY <2>1, <2>2
<1>15. ModulesGood'
  BY <1>1, <1>3, <1>4, <1>8, <1>9 DEF ModulesGood
<1>16. RunGood'
  <2>1. group' \in 1 .. Len(groups')
    BY <1>1, <1>2, <1>3, <1>5
  <2> QED BY <1>1, <1>2, <1>3, <1>10, <1>13, <1>14, <1>15, <2>1 DEF RunGood
<1> QED BY <1>1, <1>3, <1>16 DEF Inductive

LEMMA AllBuiltKeeps == ASSUME Inductive, AllBuilt PROVE Inductive'
<1>1. phase = "build" /\ fault = "none" /\ left = {} /\ group = Len(groups)
  BY DEF AllBuilt, Running
<1>2. /\ RunGood /\ Len(groups) \in Nat /\ group \in 1 .. Len(groups)
      /\ groups \in Seq(Paths) /\ modules \in [Begun -> Seq(Parsers)]
  BY <1>1, RunFacts DEF RunGood, FilesRead
<1>3. /\ UNCHANGED <<files, image, clock, opts, groups, packages, modules, left, opened, fault>>
      /\ phase' = "parse" /\ group' = 1 /\ member' = 1
  BY DEF AllBuilt, disk, world
<1>4. Begun' = Begun
  BY <1>1, <1>3 DEF Begun
<1>5. FilesRead' /\ AllSeen'
  BY <1>1, <1>2, <1>3, <1>4 DEF RunGood, FilesRead, AllSeen, Seen, DirExists
<1>6. Path' \in Begun
  <2>1. Path' = groups[1] /\ 1 \in 1 .. group
    BY <1>2, <1>3 DEF Path
  <2> QED BY <1>1, <2>1 DEF Begun
<1>7. FilesLeft'
  <2>1. modules[Path'] \in Seq(Parsers)
    BY <1>2, <1>6
  <2>2. 1 \in 1 .. Len(modules[Path']) + 1
    BY <2>1
  <2> QED BY <1>1, <1>3, <2>2 DEF FilesLeft
<1>8. ModulesGood'
  <2>1. 1 .. (member' - 1) = {}
    BY <1>3
  <2>2. \A p \in Begun : \A i \in DOMAIN modules[p] :
          ImportsMet(modules[p][i], packages) /\ DeclsKept(modules[p][i], packages[p].table)
    BY <1>1, <1>2 DEF RunGood, ModulesGood
  <2> QED BY <1>3, <1>4, <2>1, <2>2 DEF ModulesGood
<1>9. RunGood'
  BY <1>2, <1>3, <1>5, <1>7, <1>8 DEF RunGood
<1> QED BY <1>3, <1>9 DEF Inductive

(* A file that was built is added to those of its group.                   *)
LEMMA BuildTextKeeps ==
  ASSUME Inductive, Running("build"), NEW f \in left, left' = left \ {f},
         f \in DOMAIN files[SourceDir(opts, Path)],
         BuildText(f, files[SourceDir(opts, Path)][f].text),
         UNCHANGED <<files, image, clock, opts, phase, group, member, opened>>
  PROVE  RunGood'
<1> DEFINE dir == SourceDir(opts, Path)
           text == files[dir][f].text
           m == [NewParser(f) EXCEPT !.text = text]
           B == Record(m)
           C == BuildImports(B, Path, opts, text)
           D == BuildDecls(C, Path, text)
           E == ExitModule(D, Path, <<>>)
<1>1. phase = "build" /\ fault = "none"
  BY DEF Running
<1>2. /\ RunGood /\ OnDisk /\ clock \in Nat
      /\ Len(groups) \in Nat /\ group \in 1 .. Len(groups)
      /\ opts.pathes \in Seq(Roots) /\ groups \in Seq(Paths)
      /\ Path \in Paths /\ Path \in ToSet(groups) /\ Path \in Begun
      /\ modules[Path] \in Seq(Parsers) /\ DOMAIN modules = Begun
      /\ modules = [p \in Begun |-> modules[p]]
  BY <1>1, RunFacts
<1>3. FilesRead /\ FilesLeft /\ AllSeen /\ ModulesGood
  BY <1>1, <1>2 DEF RunGood
<1>4. dir \in DOMAIN files /\ f \in Files /\ text \in SourceTexts
  <2>1. dir \in DOMAIN files /\ f \in Files
    BY <1>3 DEF FilesLeft, DirExists
  <2>2. Listed(files[dir])
    BY <1>2, <2>1, DiskFacts
  <2>3. files[dir][f] \in [text : SourceTexts, at : Nat]
    BY <2>2 DEF Listed, Map
  <2> QED BY <2>1, <2>3
<1>5. AddModule(E)
  BY DEF BuildText
<1> HIDE DEF text
<1>6. /\ m \in Parsers /\ m.file = f /\ m.text = text /\ m.stmts = <<>>
      /\ ImportsMet(m, packages)
  BY <1>4, NewParserIs
<1> HIDE DEF m
<1>7. /\ Handler(B, opts) /\ B.m = m /\ B.groups = groups
      /\ B.packages = packages /\ B.fault = fault
  BY <1>2, <1>6, RecordIs
<1> HIDE DEF B
<1>8. Handler(E, opts) /\ Later(B, E)
  BY <1>2, <1>4, <1>6, <1>7, BuiltIs
<1>9. E.fault = "none" => ImportsMet(E.m, E.packages) /\ DeclsKept(E.m, E.packages[Path].table)
  BY <1>2, <1>4, <1>6, <1>7, BuiltIs
<1> HIDE DEF C, D, E
<1>10. /\ Extends(groups, E.groups) /\ Grown(packages, E.packages)
       /\ E.m.file = f /\ E.m.text = text /\ E.m \in Parsers
       /\ PackagesGood(E.groups, E.packages, opts) /\ E.fault \in Faults
  BY <1>6, <1>7, <1>8 DEF Later, Handler, Shape
<1>11. /\ groups' = E.groups /\ packages' = E.packages /\ fault' = E.fault
       /\ modules' = [modules EXCEPT ![Path] = Append(@, E.m)]
  BY <1>5 DEF AddModule, Working
<1> DEFINE q == modules[Path]
           n == Len(q)
<1>12. /\ DOMAIN modules' = Begun /\ modules'[Path] = Append(q, E.m)
       /\ \A p \in Begun \ {Path} : modules'[p] = modules[p]
       /\ modules' = [p \in Begun |-> modules'[p]]
  BY <1>2, <1>11
<1>13. /\ Append(q, E.m) \in Seq(Parsers) /\ n \in Nat /\ DOMAIN q = 1 .. n
       /\ DOMAIN modules'[Path] = 1 .. n + 1 /\ modules'[Path][n + 1] = E.m
       /\ \A i \in 1 .. n : modules'[Path][i] = q[i]
  <2>1. q \in Seq(Parsers) /\ E.m \in Parsers
    BY <1>2, <1>10
  <2> HIDE DEF q
  <2> QED BY <1>12, <2>1, AppendIs DEF n
<1>14. Path' = Path /\ Begun' = Begun
  <2>1. \A i \in 1 .. group : groups'[i] = groups[i]
    BY <1>2, <1>10, <1>11 DEF Extends
  <2>2. Path' = Path
    BY <1>2, <2>1 DEF Path
  <2>3. Begun' = {groups[i] : i \in 1 .. group}
    BY <1>1, <2>1 DEF Begun
  <2> QED BY <1>1, <2>2, <2>3 DEF Begun
<1> HIDE DEF q, n
<1>15. FilesRead'
  <2>1. modules' \in [Begun -> Seq(Parsers)]
    <3>1. \A p \in Begun : modules'[p] \in Seq(Parsers)
      BY <1>3, <1>12, <1>13 DEF FilesRead
    <3> QED BY <1>12, <3>1
  <2>2. \A i, j \in DOMAIN modules'[Path] :
          modules'[Path][i].file = modules'[Path][j].file => i = j
    <3>1. \A i, j \in 1 .. n : q[i].file = q[j].file => i = j
      BY <1>2, <1>3, <1>13 DEF FilesRead, q
    <3>2. \A i \in 1 .. n : q[i].file # f
      BY <1>3, <1>13 DEF FilesLeft, q
    <3>3. \A i \in DOMAIN modules'[Path] : i = n + 1 \/ i \in 1 .. n
      BY <1>13
    <3>4. modules'[Path][n + 1].file = f /\ \A i \in 1 .. n : modules'[Path][i].file = q[i].file
      BY <1>10, <1>13
    <3> QED BY <3>1, <3>2, <3>3, <3>4
  <2>3. \A p \in Begun \ {Path} : \A i, j \in DOMAIN modules'[p] :
          modules'[p][i].file = modules'[p][j].file => i = j
    BY <1>3, <1>12 DEF FilesRead
  <2>4. \A p \in Begun : \A i, j \in DOMAIN modules'[p] :
          modules'[p][i].file = modules'[p][j].file => i = j
    BY <2>2, <2>3
  <2>5. opened \in [Begun -> 0 .. clock]
    BY <1>3 DEF FilesRead
  <2> QED BY <1>14, <2>1, <2>4, <2>5 DEF FilesRead
<1>16. FilesLeft'
  <2>1. left' \subseteq Files
    BY <1>3 DEF FilesLeft
  <2>2. DirExists(SourceDir(opts, Path))'
    BY <1>4, <1>14 DEF DirExists, SourceDir
  <2>3. \A g \in left' : \A i \in DOMAIN modules'[Path] : modules'[Path][i].file # g
    <3>1. \A g \in left : \A i \in 1 .. n : q[i].file # g
      BY <1>3, <1>13 DEF FilesLeft, q
    <3>2. \A i \in DOMAIN modules'[Path] : i = n + 1 \/ i \in 1 .. n
      BY <1>13
    <3>3. modules'[Path][n + 1].file = f
      BY <1>10, <1>13
    <3> QED BY <1>13, <3>1, <3>2, <3>3
  <2> QED BY <1>1, <1>14, <2>1, <2>2, <2>3 DEF FilesLeft
<1>17. AllSeen'
  <2> SUFFICES ASSUME NEW p \in Begun, NEW d, d = SourceDir(opts, p), d \in DOMAIN files,
                      NEW g \in DOMAIN files[d]
               PROVE  \/ files[d][g].at >= opened[p]
                      \/ p = Path /\ g \in left'
                      \/ \E i \in DOMAIN modules'[p] :
                           modules'[p][i].file = g /\ modules'[p][i].text = files[d][g].text
    BY <1>14 DEF AllSeen, DirExists, SourceDir, Seen
  <2>1. CASE p = Path /\ g = f
    <3>1. n + 1 \in DOMAIN modules'[p] /\ modules'[p][n + 1] = E.m
      BY <1>13, <2>1
    <3>2. E.m.text = files[d][g].text /\ E.m.file = g
      BY <1>10, <2>1 DEF text, dir
    <3> QED BY <3>1, <3>2
  <2>2. CASE ~ (p = Path /\ g = f)
    <3>1. files[d][g].at >= opened[p] \/ (p = Path /\ g \in left) \/ Seen(p, g, files[d][g].text)
      BY <1>3 DEF AllSeen, DirExists
    <3>2. CASE Seen(p, g, files[d][g].text)
      <4>1. PICK i \in DOMAIN modules[p] :
              modules[p][i].file = g /\ modules[p][i].text = files[d][g].text
        BY <3>2 DEF Seen
      <4>2. i \in DOMAIN modules'[p] /\ modules'[p][i] = modules[p][i]
        <5>1. CASE p = Path
          BY <1>13, <5>1 DEF q
        <5>2. CASE p # Path
          BY <1>12, <5>2
        <5> QED BY <5>1, <5>2
      <4> QED BY <4>1, <4>2
    <3> QED BY <2>2, <3>1, <3>2
  <2> QED BY <2>1, <2>2
<1>18. ASSUME fault' = "none" PROVE ModulesGood'
  <2>1. ASSUME NEW p \in Begun, NEW i \in DOMAIN modules[p]
        PROVE  ImportsMet(modules[p][i], packages') /\ DeclsKept(modules[p][i], packages'[p].table)
    <3>1. ImportsMet(modules[p][i], packages) /\ DeclsKept(modules[p][i], packages[p].table)
      BY <1>3 DEF ModulesGood
    <3>2. p \in DOMAIN packages
      BY <1>1, <1>2 DEF Begun, RunGood, PackagesGood, ToSet
    <3>3. TableGrown(packages[p].table, packages'[p].table)
      BY <1>10, <1>11, <3>2 DEF Grown
    <3> QED BY <1>10, <1>11, <3>1, <3>3, ImportsStayMet, DeclsStayKept
  <2>2. ASSUME NEW p \in Begun, NEW i \in DOMAIN modules'[p]
        PROVE  ImportsMet(modules'[p][i], packages')
               /\ DeclsKept(modules'[p][i], packages'[p].table)
    <3>1. CASE p # Path
      BY <1>12, <2>1, <3>1
    <3>2. CASE p = Path /\ i \in 1 .. n
      <4>1. i \in DOMAIN modules[p] /\ modules'[p][i] = modules[p][i]
        BY <1>13, <3>2 DEF q
      <4> QED BY <2>1, <4>1
    <3>3. CASE p = Path /\ i = n + 1
      BY <1>9, <1>11, <1>13, <1>18, <3>3
    <3> QED BY <1>13, <3>1, <3>2, <3>3
  <2> QED BY <1>1, <1>14, <2>2 DEF ModulesGood
<1>19. group' \in 1 .. Len(groups')
  <2>1. Len(groups') \in Nat /\ Len(groups) <= Len(groups')
    BY <1>10, <1>11 DEF Extends, PackagesGood
  <2> QED BY <1>2, <2>1
<1> QED BY <1>1, <1>2, <1>10, <1>11, <1>15, <1>16, <1>17, <1>18, <1>19 DEF RunGood

LEMMA BuildFileKeeps == ASSUME Inductive, NEW f, BuildFile(f) PROVE Inductive'
<1> DEFINE dir == SourceDir(opts, Path)
<1>1. /\ Running("build") /\ phase = "build" /\ fault = "none" /\ f \in left /\ left' = left \ {f}
      /\ UNCHANGED <<files, image, clock, opts, phase, group, member, opened>>
  BY DEF BuildFile, Running, disk, world
<1>2. CASE f \in DOMAIN files[dir]
  <2>1. BuildText(f, files[dir][f].text)
    BY <1>2 DEF BuildFile
  <2>2. RunGood'
    BY <1>1, <1>2, <2>1, BuildTextKeeps
  <2> QED BY <1>1, <2>2 DEF Inductive
<1>3. CASE f \notin DOMAIN files[dir]
  <2>1. UNCHANGED <<groups, packages, modules, fault>>
    BY <1>3 DEF BuildFile
  <2>2. RunGood /\ FilesRead /\ FilesLeft /\ AllSeen /\ ModulesGood
    BY <1>1 DEF Inductive, RunGood
  <2>3. Begun' = Begun /\ Path' = Path
    BY <1>1, <2>1 DEF Begun, Path
  <2>4. FilesRead' /\ ModulesGood'
    BY <1>1, <2>1, <2>2, <2>3 DEF FilesRead, ModulesGood
  <2>5. FilesLeft'
    BY <1>1, <2>1, <2>2, <2>3 DEF FilesLeft, DirExists, SourceDir
  <2>6. AllSeen'
    <3> SUFFICES ASSUME NEW p \in Begun, NEW d, d = SourceDir(opts, p), d \in DOMAIN files,
                        NEW g \in DOMAIN files[d]
                 PROVE  \/ files[d][g].at >= opened[p]
                        \/ p = Path /\ g \in left'
                        \/ Seen(p, g, files[d][g].text)
      BY <1>1, <2>1, <2>3 DEF AllSeen, DirExists, SourceDir, Seen
    <3> QED BY <1>1, <1>3, <2>2 DEF AllSeen, DirExists
  <2>7. RunGood'
    BY <1>1, <2>1, <2>2, <2>4, <2>5, <2>6 DEF RunGood
  <2> QED BY <1>1, <2>7 DEF Inductive
<1> QED BY <1>2, <1>3

LEMMA ParseFileKeeps == ASSUME Inductive, ParseFile PROVE Inductive'
<1> DEFINE q == modules[Path]
           m == q[member]
           B == Record(m)
           C == ParseImports(B)
           D == ParseStatements(CheckConflict(C), Path)
           E == ExitModule(D, Path, D.m.code)
<1>1. /\ phase = "parse" /\ fault = "none" /\ member <= Len(q) /\ member' = member + 1
      /\ UNCHANGED <<files, image, clock, opts, phase, group, left, opened>>
  BY DEF ParseFile, Running, disk, world
<1>2. /\ RunGood /\ Len(groups) \in Nat /\ group \in 1 .. Len(groups)
      /\ Path \in ToSet(groups) /\ Path \in Begun
      /\ q \in Seq(Parsers) /\ modules = [p \in Begun |-> modules[p]]
  BY <1>1, RunFacts
<1>3. FilesRead /\ FilesLeft /\ AllSeen /\ ModulesGood /\ left = {}
  BY <1>1, <1>2 DEF RunGood, FilesLeft
<1>4. /\ member \in 1 .. Len(q) /\ DOMAIN q = 1 .. Len(q) /\ Len(q) \in Nat
  BY <1>1, <1>2, <1>3 DEF FilesLeft
<1>5. SetModule(E)
  BY DEF ParseFile
<1>6. m \in Parsers /\ ImportsMet(m, packages) /\ DeclsKept(m, packages[Path].table)
  BY <1>2, <1>3, <1>4 DEF ModulesGood
<1> HIDE DEF q, m
<1>7. /\ Handler(B, opts) /\ B.m = m /\ B.groups = groups
      /\ B.packages = packages /\ B.fault = fault
  BY <1>2, <1>6, RecordIs
<1> HIDE DEF B
<1>8. Handler(E, opts) /\ Later(B, E) /\ E.groups = groups
  BY <1>2, <1>6, <1>7, ParsedIs
<1>9. E.fault = "none" =>
        /\ ImportsMet(E.m, E.packages) /\ DeclsKept(E.m, E.packages[Path].table)
        /\ DeclsTyped(E.m, E.packages[Path].table)
  BY <1>2, <1>6, <1>7, ParsedIs
<1> HIDE DEF C, D, E
<1>10. /\ Grown(packages, E.packages) /\ E.m.file = m.file /\ E.m.text = m.text /\ E.m \in Parsers
       /\ PackagesGood(groups, E.packages, opts) /\ E.fault \in Faults
  BY <1>7, <1>8 DEF Later, Handler, Shape
<1>11. /\ groups' = groups /\ packages' = E.packages /\ fault' = E.fault
       /\ modules' = [modules EXCEPT ![Path][member] = E.m]
  BY <1>5, <1>8 DEF SetModule, Working
<1>12. /\ DOMAIN modules' = Begun /\ modules'[Path] = [q EXCEPT ![member] = E.m]
       /\ \A p \in Begun \ {Path} : modules'[p] = modules[p]
       /\ modules' = [p \in Begun |-> modules'[p]]
  BY <1>2, <1>11 DEF q
<1>13. /\ modules'[Path] \in Seq(Parsers) /\ DOMAIN modules'[Path] = 1 .. Len(q)
       /\ Len(modules'[Path]) = Len(q)
       /\ modules'[Path][member] = E.m
       /\ \A i \in 1 .. Len(q) : i # member => modules'[Path][i] = q[i]
  BY <1>2, <1>4, <1>10, <1>12
<1>14. Path' = Path /\ Begun' = Begun
  BY <1>1, <1>11 DEF Path, Begun
<1>15. \A i \in 1 .. Len(q) : /\ modules'[Path][i].file = q[i].file
                              /\ modules'[Path][i].text = q[i].text
  BY <1>10, <1>13 DEF m
<1>16. FilesRead'
  <2>1. modules' \in [Begun -> Seq(Parsers)]
    <3>1. \A p \in Begun : modules'[p] \in Seq(Parsers)
      BY <1>3, <1>12, <1>13 DEF FilesRead
    <3> QED BY <1>12, <3>1
  <2>2. \A i, j \in DOMAIN modules'[Path] :
          modules'[Path][i].file = modules'[Path][j].file => i = j
    <3>1. \A i, j \in 1 .. Len(q) : q[i].file = q[j].file => i = j
      BY <1>2, <1>3, <1>4 DEF FilesRead, q
    <3> QED BY <1>13, <1>15, <3>1
  <2>3. \A p \in Begun \ {Path} : \A i, j \in DOMAIN modules'[p] :
          modules'[p][i].file = modules'[p][j].file => i = j
    BY <1>3, <1>12 DEF FilesRead
  <2>4. \A p \in Begun : \A i, j \in DOMAIN modules'[p] :
          modules'[p][i].file = modules'[p][j].file => i = j
    BY <2>2, <2>3
  <2>5. opened \in [Begun -> 0 .. clock]
    BY <1>3 DEF FilesRead
  <2> QED BY <1>1, <1>14, <2>1, <2>4, <2>5 DEF FilesRead
<1>17. FilesLeft'
  <2>1. member' \in 1 .. Len(modules'[Path]) + 1
    BY <1>1, <1>4, <1>13
  <2> QED BY <1>1, <1>3, <1>14, <2>1 DEF FilesLeft
<1>18. AllSeen'
  <2> SUFFICES ASSUME NEW p \in Begun, NEW d, d = SourceDir(opts, p), d \in DOMAIN files,
                      NEW g \in DOMAIN files[d]
               PROVE  \/ files[d][g].at >= opened[p]
                      \/ \E i \in DOMAIN modules'[p] :
                           modules'[p][i].file = g /\ modules'[p][i].text = files[d][g].text
    BY <1>1, <1>14 DEF AllSeen, DirExists, SourceDir, Seen
  <2>1. files[d][g].at >= opened[p] \/ Seen(p, g, files[d][g].text)
    BY <1>3 DEF AllSeen, DirExists
  <2>2. CASE Seen(p, g, files[d][g].text)
    <3>1. PICK i \in DOMAIN modules[p] :
            modules[p][i].file = g /\ modules[p][i].text = files[d][g].text
      BY <2>2 DEF Seen
    <3>2. CASE p = Path
      BY <1>4, <1>13, <1>15, <3>1, <3>2 DEF q
    <3>3. CASE p # Path
      BY <1>12, <3>1, <3>3
    <3> QED BY <3>2, <3>3
  <2> QED BY <2>1, <2>2
<1>19. ASSUME fault' = "none" PROVE ModulesGood'
  <2>0. \A p \in Begun : p \in DOMAIN packages
    BY <1>1, <1>2 DEF Begun, RunGood, PackagesGood, ToSet
  <2>1. ASSUME NEW p \in Begun, NEW i \in DOMAIN modules[p]
        PROVE  ImportsMet(modules[p][i], packages') /\ DeclsKept(modules[p][i], packages'[p].table)
    <3>1. ImportsMet(modules[p][i], packages) /\ DeclsKept(modules[p][i], packages[p].table)
      BY <1>3 DEF ModulesGood
    <3>2. TableGrown(packages[p].table, packages'[p].table)
      BY <1>10, <1>11, <2>0 DEF Grown
    <3> QED BY <1>10, <1>11, <3>1, <3>2, ImportsStayMet, DeclsStayKept
  <2>2. ASSUME NEW p \in Begun, NEW i \in DOMAIN modules'[p]
        PROVE  ImportsMet(modules'[p][i], packages')
               /\ DeclsKept(modules'[p][i], packages'[p].table)
    <3>1. CASE p # Path
      BY <1>12, <2>1, <3>1
    <3>2. CASE p = Path /\ i # member
      <4>1. i \in DOMAIN modules[p] /\ modules'[p][i] = modules[p][i]
        BY <1>4, <1>13, <3>2 DEF q
      <4> QED BY <2>1, <4>1
    <3>3. CASE p = Path /\ i = member
      BY <1>9, <1>11, <1>13, <1>19, <3>3
    <3> QED BY <3>1, <3>2, <3>3
  <2>3. ASSUME NEW i \in 1 .. member' - 1
        PROVE  DeclsTyped(modules'[Path][i], packages'[Path].table)
    <3>1. CASE i = member
      BY <1>9, <1>11, <1>13, <1>19, <3>1
    <3>2. CASE i # member
      <4>1. i \in 1 .. member - 1 /\ i \in 1 .. Len(q)
        BY <1>1, <1>4, <3>2
      <4>2. DeclsTyped(q[i], packages[Path].table) /\ DeclsKept(q[i], packages[Path].table)
        BY <1>1, <1>2, <1>3, <1>4, <4>1 DEF ModulesGood, q
      <4>3. TableGrown(packages[Path].table, packages'[Path].table)
        BY <1>2, <1>10, <1>11, <2>0 DEF Grown
      <4> QED BY <1>13, <3>2, <4>1, <4>2, <4>3, DeclsStayTyped
    <3> QED BY <3>1, <3>2
  <2> QED BY <1>14, <2>2, <2>3 DEF ModulesGood
<1>20. RunGood'
  BY <1>1, <1>2, <1>10, <1>11, <1>16, <1>17, <1>18, <1>19 DEF RunGood
<1> QED BY <1>1, <1>20 DEF Inductive

-----------------------------------------------------------------------------
(* Images *)

(* The texts an image was made from are those of the files that were read. *)
LEMMA TextsAre ==
  ASSUME NEW path, modules[path] \in Seq(Parsers),
         \A i, j \in DOMAIN modules[path] :
           modules[path][i].file = modules[path][j].file => i = j
  PROVE  /\ Map(Texts(path), Files, SourceTexts)
         /\ \A i \in DOMAIN modules[path] :
              /\ modules[path][i].file \in DOMAIN Texts(path)
              /\ Texts(path)[modules[path][i].file] = modules[path][i].text
         /\ \A f \in DOMAIN Texts(path) : \E i \in DOMAIN modules[path] : modules[path][i].file = f
<1> DEFINE q == modules[path]
           T == Texts(path)
<1>1. q \in Seq(Parsers) /\ \A i, j \in DOMAIN q : q[i].file = q[j].file => i = j
  OBVIOUS
<1>2. T = [f \in {m.file : m \in ToSet(q)} |-> (CHOOSE m \in ToSet(q) : m.file = f).text]
  BY DEF Texts
<1> HIDE DEF q, T
<1>3. ToSet(q) = {q[i] : i \in DOMAIN q}
  BY DEF ToSet
<1>4. \A f \in DOMAIN T : \E i \in DOMAIN q : q[i].file = f
  BY <1>2, <1>3
<1>5. ASSUME NEW i \in DOMAIN q PROVE q[i].file \in DOMAIN T /\ T[q[i].file] = q[i].text
  <2>1. q[i].file \in DOMAIN T
    BY <1>2, <1>3
  <2>2. \A m \in ToSet(q) : m.file = q[i].file => m = q[i]
    BY <1>1, <1>3
  <2>3. q[i] \in ToSet(q)
    BY <1>3
  <2>4. (CHOOSE m \in ToSet(q) : m.file = q[i].file) = q[i]
    BY <2>2, <2>3
  <2> QED BY <1>2, <2>1, <2>4
<1>6. ASSUME NEW f \in DOMAIN T PROVE f \in Files /\ T[f] \in SourceTexts
  <2>1. PICK i \in DOMAIN q : q[i].file = f
    BY <1>4
  <2>2. q[i] \in Parsers
    BY <1>1
  <2>3. q[i].file \in Files /\ q[i].text \in SourceTexts
    BY <2>2, ParserFields
  <2> QED BY <1>5, <2>1, <2>3
<1>7. T = [f \in DOMAIN T |-> T[f]]
  BY <1>2
<1>8. Map(T, Files, SourceTexts)
  BY <1>6, <1>7 DEF Map
<1> QED BY <1>4, <1>5, <1>8 DEF q, T

(* The image of a group that was analysed without an error.                *)
LEMMA ImageOfIs ==
  ASSUME Inductive, Running("parse"), Analysed, NoErrors(Path),
         NEW cut \in {"no", "rejected", "stops"}
  PROVE  ImageMet(ImageOf(Path, cut), files, clock)
<1> DEFINE i == ImageOf(Path, cut)
           q == modules[Path]
           own == packages[Path]
<1>1. phase = "parse" /\ fault = "none" /\ member > Len(q)
  BY DEF Running, Analysed
<1>2. /\ RunGood /\ OnDisk /\ clock \in Nat
      /\ opts.src \in Roots /\ Path \in Paths /\ Path \in ToSet(groups) /\ Path \in Begun
      /\ q \in Seq(Parsers)
  BY <1>1, RunFacts
<1>3. FilesRead /\ FilesLeft /\ AllSeen /\ ModulesGood /\ left = {}
  BY <1>1, <1>2 DEF RunGood, FilesLeft
<1>4. member - 1 = Len(q) /\ DOMAIN q = 1 .. Len(q) /\ Len(q) \in Nat
  BY <1>1, <1>2, <1>3 DEF FilesLeft
<1>5. OwnPackage(own)
  BY <1>2 DEF RunGood, PackagesGood
<1>6. opened[Path] \in 0 .. clock
  BY <1>2, <1>3 DEF FilesRead
<1> DEFINE made == Texts(Path)
<1>7. /\ Map(made, Files, SourceTexts)
      /\ \A k \in DOMAIN q : q[k].file \in DOMAIN made /\ made[q[k].file] = q[k].text
      /\ \A f \in DOMAIN made : \E k \in DOMAIN q : q[k].file = f
  <2>1. \A j, k \in DOMAIN q : q[j].file = q[k].file => j = k
    BY <1>2, <1>3 DEF FilesRead
  <2> QED BY <1>2, <2>1, TextsAre
<1> DEFINE name == WrittenName(own.name)
<1>8. name \in Names \cup {""}
  BY <1>5 DEF WrittenName, OwnPackage
<1>9. SourceDir(opts, Path) \in Dirs
  BY <1>2 DEF SourceDir, Dirs
<1>10. i = [name |-> name, table |-> own.table, code |-> own.code, at |-> clock, cut |-> cut,
            dir |-> SourceDir(opts, Path), opened |-> opened[Path], made |-> made]
  BY DEF ImageOf
<1> HIDE DEF i, q, own, made, name
<1>11. Image(i) /\ i.opened <= clock
  <2>1. /\ i.table = own.table /\ i.code = own.code /\ i.made = made /\ i.opened = opened[Path]
    BY <1>10
  <2>2. Table(own.table)
    BY <1>5 DEF OwnPackage
  <2>3. opened[Path] \in Nat /\ opened[Path] <= clock
    BY <1>2, <1>6
  <2>4. i \in [name : Names \cup {""}, table : {i.table}, code : {i.code}, at : Nat,
               cut : {"no", "rejected", "stops"}, dir : Dirs, opened : Nat, made : {i.made}]
    BY <1>2, <1>8, <1>9, <1>10, <2>1, <2>3
  <2> QED BY <1>7, <2>1, <2>2, <2>3, <2>4 DEF Image
<1>12. Complete(i)
  <2>0. i.table = own.table /\ i.made = made
    BY <1>10
  <2> SUFFICES ASSUME NEW n \in Rules!Declared(made)
               PROVE  n \in DOMAIN own.table /\ own.table[n].typed
    BY <2>0 DEF Complete
  <2>1. PICK f \in DOMAIN made : n \in Rules!DeclaredIn(made[f])
    BY DEF Rules!Declared
  <2>2. PICK k \in DOMAIN q : q[k].file = f
    BY <1>7, <2>1
  <2>3. made[f] = q[k].text
    BY <1>7, <2>2
  <2>4. q[k].errnum = 0
    BY <1>2, <1>4, <2>2, NoErrorsIs DEF q
  <2>5. DeclsKept(q[k], own.table) /\ DeclsTyped(q[k], own.table)
    BY <1>1, <1>2, <1>3, <1>4, <2>2 DEF ModulesGood, q, own
  <2>6. q[k].stmts = made[f].decls
    BY <2>3, <2>4, <2>5 DEF DeclsKept
  <2>7. PICK d \in ToSet(q[k].stmts) : n = d.name
    BY <2>1, <2>6 DEF Rules!DeclaredIn, Rules!ToSet, ToSet
  <2>8. PICK j \in DOMAIN q[k].stmts : d = q[k].stmts[j]
    BY <2>7 DEF ToSet
  <2>9. q[k].stmts[j].name = n
    BY <2>7, <2>8
  <2>10. n \in DOMAIN own.table
    BY <2>5, <2>8, <2>9 DEF DeclsKept
  <2>11. own.table[n].typed
    BY <2>4, <2>5, <2>8, <2>9, Zenon DEF DeclsTyped
  <2> QED BY <2>10, <2>11
<1>13. ASSUME i.dir \in DOMAIN files, NEW f \in MissedSaves(i, files[i.dir])
       PROVE  files[i.dir][f].at >= i.opened
  <2>1. i.dir = SourceDir(opts, Path) /\ i.opened = opened[Path] /\ i.made = made
    BY <1>10
  <2>2. f \in DOMAIN files[i.dir] /\ ~ (f \in DOMAIN made /\ made[f] = files[i.dir][f].text)
    BY <1>13, <2>1 DEF MissedSaves
  <2>3. files[i.dir][f].at >= opened[Path] \/ Seen(Path, f, files[i.dir][f].text)
    BY <1>2, <1>3, <1>13, <2>1, <2>2 DEF AllSeen, DirExists
  <2>4. ~ Seen(Path, f, files[i.dir][f].text)
    BY <1>7, <2>2 DEF Seen, q
  <2> QED BY <2>1, <2>3, <2>4
<1> QED BY <1>11, <1>12, <1>13 DEF ImageMet, i

LEMMA PutKeeps ==
  ASSUME Inductive, Running("parse"), Analysed, NoErrors(Path),
         NEW cut \in {"no", "rejected", "stops"}, Put(cut), UNCHANGED <<files, clock>>
  PROVE  DiskGood([files |-> files', image |-> image'], clock')
<1> DEFINE i == ImageOf(Path, cut)
           l == <<opts.out, Path>>
<1>1. ImageMet(i, files, clock)
  BY ImageOfIs
<1>2. image' = With(image, {l}, i)
  BY DEF Put
<1>3. l \in Dirs
  <2>1. phase # "off"
    BY DEF Running
  <2> QED BY <2>1, RunFacts DEF Dirs
<1>4. DiskGood([files |-> files, image |-> image], clock)
  BY DEF Inductive
<1> HIDE DEF i, l
<1>5. /\ image' = [k \in DOMAIN image' |-> image'[k]] /\ DOMAIN image' = DOMAIN image \cup {l}
      /\ image'[l] = i /\ \A k \in DOMAIN image \ {l} : image'[k] = image[k]
  BY <1>2 DEF With
<1>6. /\ files = [dir \in DOMAIN files |-> files[dir]] /\ DOMAIN files \subseteq Dirs
      /\ \A dir \in DOMAIN files : Listed(files[dir])
      /\ \A s \in Saves : s.dir \in DOMAIN files
      /\ DOMAIN image \subseteq Dirs
      /\ \A k \in DOMAIN image : ImageMet(image[k], files, clock)
  BY <1>4, DiskIs
<1>7. \A k \in DOMAIN image' : ImageMet(image'[k], files, clock)
  BY <1>1, <1>5, <1>6
<1>8. DiskGood([files |-> files, image |-> image'], clock)
  BY <1>3, <1>5, <1>6, <1>7, DiskIs
<1> QED BY <1>8

LEMMA IdleHolds == ASSUME BecomeIdle PROVE Idle' /\ fault' = "none" /\ phase' = "off"
BY DEF BecomeIdle, Idle

(* The next group is analysed, or the run is over.                         *)
LEMMA NextPackageKeeps ==
  ASSUME Inductive, Running("parse"), Analysed, NextPackage, UNCHANGED <<files, clock>>
  PROVE  IF phase' = "off" THEN Idle' /\ fault' = "none" ELSE RunGood'
<1>1. phase = "parse" /\ fault = "none"
  BY DEF Running
<1>2. CASE ~ group < Len(groups)
  BY <1>2, IdleHolds DEF NextPackage
<1>3. CASE group < Len(groups)
  <2>1. /\ RunGood /\ Len(groups) \in Nat /\ group \in 1 .. Len(groups)
        /\ groups \in Seq(Paths) /\ modules \in [Begun -> Seq(Parsers)]
    BY <1>1, RunFacts DEF RunGood, FilesRead
  <2>2. /\ group' = group + 1 /\ member' = 1
        /\ UNCHANGED <<opts, phase, groups, packages, modules, left, opened, fault>>
    BY <1>3 DEF NextPackage
  <2>3. Begun' = Begun /\ left = {}
    BY <1>1, <2>1, <2>2 DEF Begun, RunGood, FilesLeft
  <2>4. FilesRead' /\ AllSeen'
    BY <1>1, <2>1, <2>2, <2>3 DEF RunGood, FilesRead, AllSeen, Seen, DirExists
  <2>5. Path' \in Begun
    <3>1. Path' = groups[group + 1] /\ group + 1 \in 1 .. Len(groups)
      BY <1>3, <2>1, <2>2 DEF Path
    <3> QED BY <1>1, <3>1 DEF Begun
  <2>6. FilesLeft'
    <3>1. modules[Path'] \in Seq(Parsers)
      BY <2>1, <2>5
    <3>2. 1 \in 1 .. Len(modules[Path']) + 1
      BY <3>1
    <3> QED BY <2>2, <2>3, <3>2 DEF FilesLeft
  <2>7. ModulesGood'
    <3>1. 1 .. (member' - 1) = {}
      BY <2>2
    <3>2. \A p \in Begun : \A i \in DOMAIN modules[p] :
            ImportsMet(modules[p][i], packages) /\ DeclsKept(modules[p][i], packages[p].table)
      BY <1>1, <2>1 DEF RunGood, ModulesGood
    <3> QED BY <2>2, <2>3, <3>1, <3>2 DEF ModulesGood
  <2>8. RunGood'
    <3>1. group' \in 1 .. Len(groups')
      BY <1>3, <2>1, <2>2
    <3> QED BY <2>1, <2>2, <2>4, <2>6, <2>7, <3>1 DEF RunGood
  <2> QED BY <1>1, <2>2, <2>8
<1> QED BY <1>2, <1>3

LEMMA EndKeeps ==
  ASSUME Inductive, WriteImage \/ SkipImage \/ KillWriting \/ Abort \/ Kill
  PROVE  Inductive'
<1>1. clock \in 1 .. MaxClock /\ DiskGood([files |-> files, image |-> image], clock)
  BY DEF Inductive
<1>2. CASE WriteImage
  <2>1. UNCHANGED <<files, clock>> /\ Running("parse") /\ Analysed
    BY <1>2 DEF WriteImage, world
  <2>2. DiskGood([files |-> files', image |-> image'], clock')
    BY <1>2, <2>1, PutKeeps DEF WriteImage
  <2>3. IF phase' = "off" THEN Idle' /\ fault' = "none" ELSE RunGood'
    BY <1>2, <2>1, NextPackageKeeps DEF WriteImage
  <2> QED BY <1>1, <2>1, <2>2, <2>3 DEF Inductive
<1>3. CASE SkipImage
  <2>1. UNCHANGED <<files, image, clock>> /\ Running("parse") /\ Analysed
    BY <1>3 DEF SkipImage, disk, world
  <2>2. IF phase' = "off" THEN Idle' /\ fault' = "none" ELSE RunGood'
    BY <1>3, <2>1, NextPackageKeeps DEF SkipImage
  <2> QED BY <1>1, <2>1, <2>2 DEF Inductive
<1>4. CASE KillWriting
  <2>1. UNCHANGED <<files, clock>> /\ Running("parse") /\ Analysed /\ BecomeIdle
    BY <1>4 DEF KillWriting, world
  <2>2. PICK cut \in {"rejected", "stops"} : Put(cut)
    BY <1>4 DEF KillWriting
  <2>3. DiskGood([files |-> files', image |-> image'], clock')
    BY <1>4, <2>1, <2>2, PutKeeps DEF KillWriting
  <2> QED BY <1>1, <2>1, <2>3, IdleHolds DEF Inductive
<1>5. CASE Abort \/ Kill
  <2>1. UNCHANGED <<files, image, clock>> /\ BecomeIdle
    BY <1>5 DEF Abort, Kill, disk, world
  <2> QED BY <1>1, <2>1, IdleHolds DEF Inductive
<1> QED BY <1>2, <1>3, <1>4, <1>5

-----------------------------------------------------------------------------
(* The theorems *)

LEMMA NextKeeps == ASSUME Inductive, [Next]_vars PROVE Inductive'
<1>1. CASE Launch
  BY <1>1, LaunchKeeps
<1>2. CASE \E f \in left : BuildFile(f)
  BY <1>2, BuildFileKeeps
<1>3. CASE NextGroup \/ AllBuilt \/ ParseFile
  BY <1>3, NextGroupKeeps, AllBuiltKeeps, ParseFileKeeps
<1>4. CASE WriteImage \/ SkipImage \/ KillWriting \/ Abort \/ Kill
  BY <1>4, EndKeeps
<1>5. CASE SaveFile \/ RemoveFile \/ Tick
  BY <1>5, SaveFileKeeps, RemoveFileKeeps, TickKeeps
<1>6. CASE UNCHANGED vars
  <2>1. UNCHANGED <<files, image, clock>> /\ UNCHANGED run
    BY <1>6 DEF vars, disk, world
  <2>2. IF phase' = "off" THEN Idle' /\ fault' = "none" ELSE RunGood'
    <3>1. CASE phase = "off"
      BY <2>1, <3>1, IdleStays DEF Inductive, run
    <3>2. CASE phase # "off"
      <4>1. RunGood /\ clock \in Nat /\ phase' # "off"
        BY <2>1, <3>2, RunFacts DEF run
      <4> QED BY <2>1, <4>1, UserSteps
    <3> QED BY <3>1, <3>2
  <2> QED BY <2>1, <2>2 DEF Inductive
<1> QED BY <1>1, <1>2, <1>3, <1>4, <1>5, <1>6 DEF Next, Compile

(* What holds in every state of src/koalac.c and src/ast.c at work: a file *)
(* that was built has its imports and its declarations, one that was       *)
(* analysed has their types, and no file of a directory is forgotten.      *)
THEOREM InvariantHolds == Spec => []Inductive
<1>1. Init => Inductive
  BY InitHolds
<1>2. Inductive /\ [Next]_vars => Inductive'
  BY NextKeeps
<1> QED BY <1>1, <1>2, PTL DEF Spec

LEMMA OwnIsSource == ASSUME NEW k, OwnPackage(k) PROVE k.from = "source"
<1>1. PICK n, t, c : k = [from |-> "source", name |-> n, table |-> t, code |-> c]
  BY DEF OwnPackage
<1> QED BY <1>1

LEMMA ConsistentIs == ASSUME Inductive PROVE Consistent
<1>1. CASE phase = "off"
  <2>1. Idle /\ fault = "none" /\ clock \in 1 .. MaxClock
    BY <1>1 DEF Inductive
  <2>2. ToSet(<<>>) = {} /\ DOMAIN <<>> = {} /\ Len(<<>>) = 0
    BY NothingIn
  <2> QED BY <1>1, <2>1, <2>2 DEF Consistent, TypeOK, OnePackage, Idle
<1>2. CASE phase # "off"
  <2>1. /\ RunGood /\ Len(groups) \in Nat /\ group \in 1 .. Len(groups)
        /\ DOMAIN groups = 1 .. Len(groups) /\ DOMAIN modules = Begun
        /\ \A i, j \in DOMAIN groups : groups[i] = groups[j] => i = j
    BY <1>2, RunFacts
  <2>2. phase \in {"build", "parse"} /\ fault \in Faults /\ PackagesGood(groups, packages, opts)
    BY <2>1 DEF RunGood
  <2>3. TypeOK
    <3>1. Begun \subseteq ToSet(groups)
      BY <2>1 DEF Begun, ToSet
    <3>2. clock \in 1 .. MaxClock
      BY DEF Inductive
    <3> QED BY <2>1, <2>2, <3>1, <3>2 DEF TypeOK, Faults
  <2>4. {p \in DOMAIN packages : packages[p].from = "source"} = ToSet(groups)
    <3>1. \A p \in ToSet(groups) : p \in DOMAIN packages /\ packages[p].from = "source"
      BY <2>2, OwnIsSource DEF PackagesGood
    <3>2. \A p \in DOMAIN packages \ ToSet(groups) : packages[p].from # "source"
      BY <2>2 DEF PackagesGood, LoadedPackage
    <3> QED BY <3>1, <3>2
  <2>5. ASSUME fault = "none", NEW p \in DOMAIN modules, NEW m \in ToSet(modules[p])
        PROVE  /\ \A imp \in ToSet(m.imports) : imp.path \in DOMAIN packages
               /\ DOMAIN m.ext \cap DOMAIN m.dots = {}
               /\ \A n \in DOMAIN m.dots : n \in DOMAIN packages[m.dots[n]].table
    <3>1. PICK i \in DOMAIN modules[p] : m = modules[p][i]
      BY DEF ToSet
    <3>2. ImportsMet(m, packages)
      BY <2>1, <2>5, <3>1 DEF RunGood, ModulesGood
    <3> QED BY <3>2 DEF ImportsMet, ToSet
  <2>6. OnePackage
    BY <2>1, <2>4, <2>5 DEF OnePackage
  <2> QED BY <2>3, <2>6 DEF Consistent
<1> QED BY <1>1, <1>2

LEMMA ImagesTrueIs == ASSUME Inductive PROVE ImagesTrue
<1>1. OnDisk
  BY DEF Inductive, OnDisk
<1>2. ImagesComplete
  BY <1>1, DiskFacts DEF ImagesComplete
<1>3. ASSUME NEW p \in Loaded, packages[p].image.dir = SourceDir(opts, p)
      PROVE  UpToDate(packages[p].image, packages[p].disk)
  <2>1. p \in DOMAIN packages /\ packages[p].from = "image"
    BY DEF Loaded
  <2>2. CASE phase = "off"
    <3>1. packages = <<>>
      BY <2>2 DEF Inductive, Idle
    <3> QED BY <2>1, <3>1
  <2>3. CASE phase # "off"
    <3>1. PackagesGood(groups, packages, opts)
      BY <2>3 DEF Inductive, RunGood
    <3>2. p \notin ToSet(groups)
      BY <2>1, <3>1, OwnIsSource DEF PackagesGood
    <3>3. LoadedPackage(packages[p], SourceDir(opts, p))
      BY <2>1, <3>1, <3>2 DEF PackagesGood
    <3> QED BY <1>3, <2>1, <3>3 DEF LoadedPackage
  <2> QED BY <2>2, <2>3
<1>4. LoadedIsCurrent
  BY <1>3 DEF LoadedIsCurrent, UpToDate
<1> QED BY <1>2, <1>4 DEF ImagesTrue

(* Every path has one package, a group for what is compiled and an image   *)
(* for the rest, and a file is analysed when what it imports is there      *)
(* (Add_ParserGroup, New_Package, Parser_New_Import): in every run of the  *)
(* compiler, whatever is on disk and whatever the user saves meanwhile.    *)
THEOREM PackagesConsistent == Spec => []Consistent
<1>1. Inductive => Consistent
  BY ConsistentIs
<1> QED BY <1>1, InvariantHolds, PTL

(* A program that uses an image sees what the source says: an image that   *)
(* is loaded instead of compiling its directory misses no save but one     *)
(* made while it was written (dir_later_file), and an image that was       *)
(* written to its end holds all that its files declare, with a type        *)
(* (write_image after parse_package), also when compilers were killed.     *)
THEOREM ImagesAreTrue == Spec => []ImagesTrue
<1>1. Inductive => ImagesTrue
  BY ImagesTrueIs
<1> QED BY <1>1, InvariantHolds, PTL
=====
