------------------------------ MODULE MCBuild ------------------------------
(* A program and two packages, one of them also in a directory of images.  *)
EXTENDS Build, TLC

CONSTANTS null, cwd, lib, main, util, ext, X, Y, y, init, f1, f2

NoExp == [kind |-> "none"]
Const == [kind |-> "const"]
Id(name) == [kind |-> "id", name |-> name]
Attr(via, name) == [kind |-> "attr", via |-> via, name |-> name]
Decl(name, kind, typed, exp) == [name |-> name, kind |-> kind, typed |-> typed, exp |-> exp]
Text(pkg, imports, decls) == [pkg |-> pkg, imports |-> imports, decls |-> decls]
Imp(id, path) == [id |-> id, path |-> path]

\* The texts of the program and of the package.
Plain  == Text(main, <<Imp(null, util)>>, <<Decl(X, "var", FALSE, Attr(util, X))>>)
Second == Text(main, <<Imp(null, ext)>>, <<Decl(util, "var", TRUE, Attr(ext, Y)), Decl(lib, "var", TRUE, Const)>>)
Dotted == Text(main, <<Imp(".", util)>>, <<Decl(f1, "func", TRUE, Id(Y))>>)
Twice  == Text(main, <<Imp(".", util), Imp(y, ext)>>, <<Decl(Y, "var", TRUE, Attr(y, Y))>>)
Hidden == Text(main, <<Imp(lib, util)>>, <<Decl(f1, "func", TRUE, Attr(lib, y))>>)

Inferred == Text(util, <<>>, <<Decl(X, "var", FALSE, Const), Decl(y, "var", TRUE, NoExp)>>)
Typical  == Text(util, <<Imp(null, main)>>, <<Decl(Y, "var", TRUE, Const)>>)
Function == Text(util, <<>>, <<Decl(Y, "func", TRUE, NoExp), Decl(Y, "var", FALSE, Const)>>)
Broken   == Text(null, <<>>, <<>>)
Klass    == Text(util, <<>>, <<Decl(X, "class", TRUE, NoExp)>>)

MainDir == <<cwd, main>>
UtilDir == <<cwd, util>>
ExtText == Text(ext, <<>>, <<Decl(Y, "var", TRUE, Const)>>)
ExtImage ==
  [name |-> ext, code |-> <<>>, at |-> 0, cut |-> "no", dir |-> <<lib, ext>>, opened |-> 0,
   made |-> (f1 :> ExtText),
   table |-> (Y :> Symbol("var", TRUE, f1) @@ init :> Symbol("func", TRUE, f1))]

File(text) == [text |-> text, at |-> 0]
Disk(m, u) ==
  [files |-> (MainDir :> m @@ UtilDir :> (f1 :> File(u))), image |-> (<<lib, ext>> :> ExtImage)]
MCDisks ==
  {Disk(f1 :> File(t), u) : t \in {Plain, Dotted, Twice, Hidden}, u \in {Inferred, Typical, Function}}
    \cup {Disk(f1 :> File(t) @@ f2 :> File(Second), Inferred) : t \in {Plain, Hidden}}
MCSaves == {[dir |-> UtilDir, file |-> f, text |-> t] :
             f \in {f1, f2}, t \in {Inferred, Typical, Broken, Klass}}
MCSetups == {[src |-> cwd, out |-> cwd, pathes |-> <<lib>>, args |-> a] :
              a \in {<<main>>, <<util, main>>}}
=============================================================================
