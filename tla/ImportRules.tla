---------------------------- MODULE ImportRules ----------------------------
(***************************************************************************)
(* What the language promises about packages and imports (manual.org): a   *)
(* package is the union of its source files, an import brings names into   *)
(* one file, and only public names can be used from outside.  `texts' are  *)
(* the files of one package by their names, `Names(path)' the names that   *)
(* package path declares and `NameOf(path)' its name.                      *)
(***************************************************************************)
EXTENDS Sequences, SequencesExt

CONSTANTS None, Public

DeclaredIn(text) == {d.name : d \in ToSet(text.decls)}
Declared(texts) == UNION {DeclaredIn(texts[f]) : f \in DOMAIN texts}
Exported(names) == names \cap Public

(* The names that an import adds to its file.                              *)
Brings(imp, Names(_), NameOf(_)) ==
  CASE imp.id = None -> {NameOf(imp.path)}
    [] imp.id = "."  -> Exported(Names(imp.path))
    [] imp.id \notin {None, "."} -> {imp.id}

(* An import whose package has that name in the file.                      *)
Means(imp, name, NameOf(_)) ==
  imp.id # "." /\ name = (IF imp.id = None THEN NameOf(imp.path) ELSE imp.id)

Found(text, texts, use, Names(_), NameOf(_)) ==
  CASE use.kind = "id" ->
         \/ use.name \in Declared(texts)
         \/ \E imp \in ToSet(text.imports) :
              imp.id = "." /\ use.name \in Exported(Names(imp.path))
    [] use.kind = "attr" ->
         \E imp \in ToSet(text.imports) :
           Means(imp, use.via, NameOf) /\ use.name \in Exported(Names(imp.path))
    [] OTHER -> TRUE

(* A file: what its imports bring and what it declares are different       *)
(* names, and what it uses is there.                                       *)
LegalFile(self, text, texts, Names(_), NameOf(_)) ==
  /\ \A i, j \in DOMAIN text.imports :
       i # j => /\ text.imports[i].path # text.imports[j].path
                /\ Brings(text.imports[i], Names, NameOf)
                     \cap Brings(text.imports[j], Names, NameOf) = {}
  /\ \A imp \in ToSet(text.imports) :
       imp.path # self /\ Brings(imp, Names, NameOf) \cap DeclaredIn(text) = {}
  /\ \A d \in ToSet(text.decls) : Found(text, texts, d.exp, Names, NameOf)

(* A package: its files agree on its name and declare different names.     *)
LegalPackage(self, texts, Names(_), NameOf(_)) ==
  /\ \A f \in DOMAIN texts :
       texts[f].pkg # None /\ LegalFile(self, texts[f], texts, Names, NameOf)
  /\ \A f, g \in DOMAIN texts :
       /\ texts[f].pkg = texts[g].pkg
       /\ \A i \in DOMAIN texts[f].decls, j \in DOMAIN texts[g].decls :
            texts[f].decls[i].name = texts[g].decls[j].name => f = g /\ i = j
=============================================================================
