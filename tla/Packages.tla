------------------------------ MODULE Packages ------------------------------
(***************************************************************************)
(* The packages of a running program: the tree of paths (pkgnode.c), the   *)
(* packages and their members (package.c), and the pool of the variables   *)
(* of all packages (state.c).                                              *)
(*                                                                         *)
(* A path is a sequence of names: Add_PkgNode and Find_PkgNode split it at *)
(* slashes and skip repeated and trailing ones.  A node is identified by   *)
(* its name and its parent, hence by its path; the root is <<>>.  A program*)
(* stops at the first failed assertion or invalid access (fault).          *)
(***************************************************************************)
EXTENDS Integers, Sequences, FiniteSetsExt, SequencesExt

CONSTANTS Names,      \* the names paths consist of
          Paths,      \* the paths the program uses
          Images,     \* [path -> the members of the image found there, or None]
          Pkgs,       \* package objects
          Members,    \* names of members
          Values,     \* objects stored in variables
          MaxMembers, \* bound: calls of Pkg_Add_* for one package
          None

(* A package without the reference to its path: members, the number of     *)
(* slots for variables, the index into the pool, the calls of Pkg_Add_*.   *)
Kinds == {"var", "const", "func", "class"}
Tables == UNION {[M -> [kind : Kinds, at : Nat]] : M \in SUBSET Members}
Package == [mtbl : Tables, nrvars : Nat, index : Int, added : Nat]

ASSUME PackagesAssumption ==
  /\ Paths \subseteq Seq(Names) \ {<<>>}
  /\ MaxMembers \in Nat
  /\ \A path \in Paths : \/ Images[path] = None
                         \/ /\ Images[path] \in Seq(Members \X Kinds)
                            /\ Len(Images[path]) <= MaxMembers
  /\ None \notin Pkgs /\ None \notin Package

VARIABLES nodes,     \* [path of a node -> [leaf, data]]
          pkg,       \* [p -> [mtbl, nrvars, index, added] or None]
          variables, \* the tuples of the variables of each package
          ret,       \* the last call that answers: <<call, argument, answer>>
          fault,     \* why the program stopped, or "none"
          misuse     \* a package changed, or was used, out of order

vars == <<nodes, pkg, variables, ret, fault, misuse>>

Running == fault = "none"
Made == {p \in Pkgs : pkg[p] # None}
Leaves == {path \in DOMAIN nodes : nodes[path].leaf}
Registered == {nodes[path].data : path \in Leaves}
IsLeaf(path) == path \in Leaves

Fail(why) == fault' = why /\ UNCHANGED <<nodes, pkg, variables, ret, misuse>>
Answer(call, arg, x) == ret' = <<call, arg, x>> /\ UNCHANGED <<nodes, pkg, variables, fault>>

-----------------------------------------------------------------------------
(* Tree of paths *)

(* The nodes on the way to path that are still to be made.                 *)
Missing(path) == {i \in 1 .. Len(path) : SubSeq(path, 1, i) \notin DOMAIN nodes}
Below(path) == SubSeq(path, 1, Min(Missing(path)) - 1)

(* assert(!parent->leaf)                                                   *)
BelowAnything(path) == FALSE
BelowLeaf(path) == IsLeaf(Below(path))

(* The inner nodes that are missing, and the leaf.                         *)
Added(path, p) ==
  [node \in DOMAIN nodes \cup {SubSeq(path, 1, i) : i \in Missing(path)} |->
     IF node \in DOMAIN nodes THEN nodes[node]
     ELSE IF node = path THEN [leaf |-> TRUE, data |-> p]
     ELSE [leaf |-> FALSE, data |-> None]]

(* Find_PkgNode stops at the first name without a node.                    *)
Found(path) == Missing(path) = {}

-----------------------------------------------------------------------------
(* Packages *)

NewPkg == [mtbl |-> <<>>, nrvars |-> 0, index |-> 0, added |-> 0]

(* HashTable_Insert keeps the member that is there already.                *)
Inserted(mtbl, name, member) ==
  [n \in DOMAIN mtbl \cup {name} |-> IF n \in DOMAIN mtbl THEN mtbl[n] ELSE member]

(* Pkg_Add_Var takes a slot even if the name was taken.                    *)
WithVarPreIncrement(k, name) ==
  [k EXCEPT !.mtbl = Inserted(@, name, [kind |-> "var", at |-> k.nrvars + 1]),
            !.nrvars = @ + 1, !.added = @ + 1]
WithVar(k, name) ==
  [k EXCEPT !.mtbl = Inserted(@, name, [kind |-> "var", at |-> k.nrvars]),
            !.nrvars = @ + 1, !.added = @ + 1]

(* Constants, functions and classes live in the member itself.             *)
WithOther(k, name, kind) ==
  [k EXCEPT !.mtbl = Inserted(@, name, [kind |-> kind, at |-> 0]), !.added = @ + 1]

(* The pool gets a tuple for the variables a package has now.              *)
IndexAfterAppend(k) == Len(variables) + 1
IndexOf(k) == IF k.nrvars = 0 THEN -1 ELSE Len(variables)
Pool(k) == IF k.nrvars = 0 THEN variables
           ELSE Append(variables, [i \in 1 .. k.nrvars |-> None])

Init ==
  /\ nodes = [root \in {<<>>} |-> [leaf |-> FALSE, data |-> None]]
  /\ pkg = [p \in Pkgs |-> None]
  /\ variables = <<>>
  /\ ret = <<"other", None, 0>> /\ fault = "none" /\ misuse = FALSE

(* Pkg_New; pkg->index is zero in fresh memory.                            *)
New(p) ==
  /\ pkg[p] = None
  /\ pkg' = [pkg EXCEPT ![p] = NewPkg]
  /\ ret' = <<"other", None, 0>>
  /\ UNCHANGED <<nodes, variables, fault, misuse>>

AddMember(p, k) ==
  /\ pkg' = [pkg EXCEPT ![p] = k]
  /\ ret' = <<"other", None, 0>>
  /\ UNCHANGED <<nodes, variables, fault>>

AddVar(p, name) ==
  /\ p \in Made /\ pkg[p].added < MaxMembers
  /\ AddMember(p, WithVar(pkg[p], name))
  /\ misuse' = (misuse \/ p \in Registered)

(* Pkg_Add_Const, Pkg_Add_Func and Pkg_Add_Klass.                          *)
AddOther(p, name, kind) ==
  /\ p \in Made /\ pkg[p].added < MaxMembers
  /\ AddMember(p, WithOther(pkg[p], name, kind))
  /\ UNCHANGED misuse

(* Enters p into the tree and its variables, as k has them, into the pool. *)
Enter(path, p, k, answer) ==
  IF BelowLeaf(path) THEN Fail("below_leaf")
  ELSE /\ nodes' = Added(path, p)
       /\ variables' = Pool(k)
       /\ pkg' = [pkg EXCEPT ![p] = [k EXCEPT !.index = IndexOf(k)]]
       /\ ret' = answer
       /\ misuse' = (misuse \/ p \in Registered)
       /\ UNCHANGED fault

(* Koala_Add_Package                                                       *)
AddPackage(path, p) ==
  /\ p \in Made
  /\ IF Found(path) THEN Answer("add", path, -1) /\ UNCHANGED misuse
     ELSE Enter(path, p, pkg[p], <<"add", path, 0>>)

(* Pkg_From_Image: variables are members with slots, a constant has no     *)
(* value whose count could be raised.                                      *)
FromImage(image) ==
  LET upTo[n \in 0 .. Len(image)] ==
        IF n = 0 THEN NewPkg
        ELSE IF image[n][2] = "var" THEN WithVar(upTo[n - 1], image[n][1])
        ELSE WithOther(upTo[n - 1], image[n][1], image[n][2])
  IN  upTo[Len(image)]
HasConst(image) == \E i \in DOMAIN image : image[i][2] = "const"

(* Koala_Get_Package: a package that is found must be a leaf; one that is  *)
(* not is loaded, and entered under the path.                              *)
GetKnown(path) ==
  /\ Found(path)
  /\ IF IsLeaf(path) THEN Answer("path", path, nodes[path].data) /\ UNCHANGED misuse
     ELSE Fail("inner_node")

GetUnknown(path) ==
  /\ ~ Found(path)
  /\ IF Images[path] = None THEN Answer("path", path, None) /\ UNCHANGED misuse
     ELSE IF HasConst(Images[path]) THEN Fail("const_without_value")
     ELSE \E p \in Pkgs \ Made : Enter(path, p, FromImage(Images[path]), <<"path", path, p>>)

(* Vector_Get of the pool; the tuple of a package without variables is     *)
(* NULL.                                                                   *)
HasTuple(p) == pkg[p].index \in 0 .. Len(variables) - 1
Holds(p, name) == pkg[p].mtbl[name].at + 1 \in DOMAIN variables[pkg[p].index + 1]
Has(p, name, kind) == name \in DOMAIN pkg[p].mtbl /\ pkg[p].mtbl[name].kind = kind
Used(p) == misuse' = (misuse \/ p \notin Registered)

Slot(v) == <<pkg[v[1]].index + 1, pkg[v[1]].mtbl[v[2]].at + 1>>

(* Koala_Set_Value.  A slot outside the tuple is refused by Tuple_Set.     *)
SetValue(p, name, x) ==
  /\ p \in Made
  /\ IF ~ Has(p, name, "var") THEN Fail("no_variable")
     ELSE IF ~ HasTuple(p) THEN Fail("no_tuple")
     ELSE /\ Used(p)
          /\ IF Holds(p, name)
             THEN /\ variables' = [variables EXCEPT ![Slot(<<p, name>>)[1]][Slot(<<p, name>>)[2]] = x]
                  /\ ret' = <<"set", <<p, name>>, 0>> /\ UNCHANGED <<nodes, pkg, fault>>
             ELSE Answer("set", <<p, name>>, -1)

(* Koala_Get_Value of a variable.                                          *)
GetValue(p, name) ==
  /\ p \in Made
  /\ Has(p, name, "var")
  /\ IF ~ HasTuple(p) THEN Fail("no_tuple")
     ELSE /\ Used(p)
          /\ Answer("get", <<p, name>>,
                    IF Holds(p, name)
                    THEN variables[Slot(<<p, name>>)[1]][Slot(<<p, name>>)[2]] ELSE None)

(* Koala_Get_Function, and Koala_Get_Value of another kind of member.      *)
GetMember(p, name, kind) ==
  /\ p \in Made
  /\ ~ Has(p, name, kind)
  /\ Fail("no_member")

(* Fini_PkgState frees the package of every leaf (Koala_Finalize).         *)
Finalize ==
  /\ fault' = IF \E a, b \in Leaves : a # b /\ nodes[a].data = nodes[b].data
              THEN "double_free" ELSE "finalized"
  /\ UNCHANGED <<nodes, pkg, variables, ret, misuse>>

Stopped == ~ Running /\ UNCHANGED vars

Load == Running /\ \E path \in Paths : GetKnown(path) \/ GetUnknown(path)
Declare ==
  Running /\ \E p \in Pkgs : \/ New(p)
                             \/ \E path \in Paths : AddPackage(path, p)
                             \/ \E name \in Members : \/ AddVar(p, name)
                                                      \/ AddOther(p, name, "func")
Access ==
  Running /\ \E p \in Pkgs, name \in Members : \/ GetValue(p, name)
                                               \/ \E x \in Values : SetValue(p, name, x)
                                               \/ GetMember(p, name, "func")

Next == Load \/ Declare \/ Access \/ (Running /\ Finalize) \/ Stopped

Spec == Init /\ [][Next]_vars

-----------------------------------------------------------------------------
(* Properties *)

TypeOK ==
  /\ \A path \in DOMAIN nodes : nodes[path] \in [leaf : BOOLEAN, data : Pkgs \cup {None}]
  /\ \A p \in Made : /\ DOMAIN pkg[p].mtbl \subseteq Members
                     /\ pkg[p].nrvars \in 0 .. MaxMembers /\ pkg[p].index \in -1 .. Len(variables)
  /\ variables \in Seq(Seq(Values \cup {None}))
  /\ misuse \in BOOLEAN

(* The tree is closed: every node hangs on inner nodes down to the root,   *)
(* and what carries no other node is a package.                            *)
Closed ==
  \A path \in DOMAIN nodes \ {<<>>} :
    /\ Front(path) \in DOMAIN nodes /\ ~ nodes[Front(path)].leaf
    /\ nodes[path].leaf <=> nodes[path].data \in Made
    /\ ~ nodes[path].leaf => \E other \in DOMAIN nodes : Len(other) = Len(path) + 1
                                                         /\ IsPrefix(path, other)

(* No two variables share a slot: each package in the tree has a tuple of  *)
(* its own, as long as its variables, and each of them a place in it.      *)
OwnSlots ==
  ~ misuse =>
    LET V == {v \in Registered \X Members : Has(v[1], v[2], "var")} IN
    /\ \A v \in V : HasTuple(v[1]) /\ Holds(v[1], v[2])
    /\ \A v, w \in V : Slot(v) = Slot(w) => v = w

(* The tree and the pool agree (Add_PkgNode, Koala_Add_Package).           *)
Consistent == TypeOK /\ Closed /\ OwnSlots

(* Which calls stop a program: a package above or below another one, an    *)
(* image with a constant, a name of another kind, and, out of order, a     *)
(* variable of a package without a tuple or a package with two paths.      *)
Overlap == \E a \in Leaves, b \in Paths : a # b /\ (IsPrefix(a, b) \/ IsPrefix(b, a))
FaultsExplained ==
  /\ fault \in {"below_leaf", "inner_node"} => Overlap
  /\ fault = "const_without_value" => \E path \in Paths : Images[path] # None /\ HasConst(Images[path])
  /\ fault = "no_tuple" => misuse \/ (variables = <<>> /\ ~ Made \subseteq Registered)
  /\ fault = "double_free" => misuse

(* A path keeps its package and a variable its value.                      *)
Store0 == INSTANCE PackageStore WITH
  kept  <- Running /\ ~ misuse,
  bound <- [path \in Leaves |-> nodes[path].data],
  store <- [v \in {v \in Registered \X Members : Has(v[1], v[2], "var") /\ HasTuple(v[1]) /\ Holds(v[1], v[2])} |->
              variables[Slot(v)[1]][Slot(v)[2]]]
ImplementsStore == Store0!Spec
=============================================================================
