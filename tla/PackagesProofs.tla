--------------------------- MODULE PackagesProofs ---------------------------
(***************************************************************************)
(* What the package tree and the pool of variables guarantee, for every    *)
(* set of names, paths, images, packages and values.                       *)
(*                                                                         *)
(* Inductive says of the tree that every inner node leads to a leaf and    *)
(* that nothing hangs on a leaf; of a package that its variables have      *)
(* different slots; and of the pool that, while the calls come in order,   *)
(* a package in the tree has a tuple of its own, as long as its variables. *)
(* Add_PkgNode is the step that needs the tree: the prefixes of a path that*)
(* have no node are those from some length on, so that the new nodes are   *)
(* one chain from the deepest node that exists down to the leaf.           *)
(***************************************************************************)
EXTENDS Packages, InductionFacts, SequenceTheorems, TLAPS

-----------------------------------------------------------------------------
(* The inductive invariant *)

(* Every variable of a package has a slot of its own.                      *)
GoodPackage(k) ==
  /\ k \in Package
  /\ k.nrvars <= k.added /\ k.added <= MaxMembers
  /\ \A m \in DOMAIN k.mtbl : k.mtbl[m].kind = "var" => k.mtbl[m].at < k.nrvars
  /\ \A m, n \in DOMAIN k.mtbl : /\ k.mtbl[m].kind = "var" /\ k.mtbl[n].kind = "var"
                                 /\ k.mtbl[m].at = k.mtbl[n].at
                                 => m = n

PackagesGood == /\ pkg \in [Pkgs -> Package \cup {None}]
                /\ \A p \in Made : GoodPackage(pkg[p])

(* A node other than the root has its parent in the tree, which is no      *)
(* leaf; a leaf carries a package, and any other node leads to a leaf.     *)
NodeGood(path) ==
  /\ Front(path) \in DOMAIN nodes /\ ~ nodes[Front(path)].leaf
  /\ nodes[path].leaf => nodes[path].data \in Made
  /\ ~ nodes[path].leaf => /\ nodes[path].data = None
                           /\ \E a \in Leaves : IsPrefix(path, a) /\ a # path

TreeGood == /\ <<>> \in DOMAIN nodes /\ nodes[<<>>] = [leaf |-> FALSE, data |-> None]
            /\ DOMAIN nodes \subseteq Seq(Names)
            /\ \A path \in DOMAIN nodes : nodes[path] \in [leaf : BOOLEAN, data : Pkgs \cup {None}]
            /\ \A path \in DOMAIN nodes \ {<<>>} : NodeGood(path)

(* As long as the calls come in order, a package is under one path, and    *)
(* has a tuple as long as its variables, which is its own.                 *)
OneLeafEach == \A a, b \in Leaves : nodes[a].data = nodes[b].data => a = b
HasOwnTuple(p) ==
  pkg[p].nrvars > 0 =>
    /\ pkg[p].index \in 0 .. Len(variables) - 1
    /\ Len(variables[pkg[p].index + 1]) = pkg[p].nrvars
    /\ \A q \in Registered : pkg[q].nrvars > 0 /\ pkg[q].index = pkg[p].index => q = p

PoolGood == /\ variables \in Seq(Seq(Values \cup {None}))
            /\ \A p \in Made : pkg[p].index \in -1 .. Len(variables)
            /\ \A p \in Made \ Registered : pkg[p].index = 0
            /\ misuse \in BOOLEAN
            /\ ~ misuse => OneLeafEach /\ \A p \in Registered : HasOwnTuple(p)

Inductive == PackagesGood /\ TreeGood /\ PoolGood /\ FaultsExplained

-----------------------------------------------------------------------------
(* Prefixes of sequences *)

LEMMA PrefixFacts ==
  ASSUME NEW X, NEW s \in Seq(X), NEW i \in 0 .. Len(s)
  PROVE  /\ SubSeq(s, 1, i) \in Seq(X) /\ Len(SubSeq(s, 1, i)) = i
         /\ \A j \in 1 .. i : SubSeq(s, 1, i)[j] = s[j]
         /\ \A j \in 0 .. i : SubSeq(SubSeq(s, 1, i), 1, j) = SubSeq(s, 1, j)
         /\ i > 0 => Front(SubSeq(s, 1, i)) = SubSeq(s, 1, i - 1)
         /\ SubSeq(s, 1, 0) = <<>> /\ SubSeq(s, 1, Len(s)) = s
         /\ IsPrefix(SubSeq(s, 1, i), s)
<1>1. SubSeq(s, 1, i) \in Seq(X) /\ Len(SubSeq(s, 1, i)) = i
  <2>1. SubSeq(s, 1, i) = [j \in 1 .. i |-> s[j]]
    OBVIOUS
  <2>2. [j \in 1 .. i |-> s[j]] \in [1 .. i -> X] /\ i \in Nat
    OBVIOUS
  <2> QED BY <2>1, <2>2
<1>2. \A j \in 1 .. i : SubSeq(s, 1, i)[j] = s[j]
  OBVIOUS
<1>3. \A j \in 0 .. i : SubSeq(SubSeq(s, 1, i), 1, j) = SubSeq(s, 1, j)
  OBVIOUS
<1>4. i > 0 => Front(SubSeq(s, 1, i)) = SubSeq(s, 1, i - 1)
  BY <1>1, <1>3 DEF Front
<1>5. SubSeq(s, 1, 0) = <<>> /\ SubSeq(s, 1, Len(s)) = s
  OBVIOUS
<1>6. IsPrefix(SubSeq(s, 1, i), s)
  BY <1>1, <1>3 DEF IsPrefix
<1> QED BY <1>1, <1>2, <1>3, <1>4, <1>5, <1>6

(* A prefix is given by its length.                                        *)
LEMMA PrefixIs ==
  ASSUME NEW X, NEW s \in Seq(X), NEW t \in Seq(X), IsPrefix(s, t)
  PROVE  Len(s) \in 0 .. Len(t) /\ s = SubSeq(t, 1, Len(s))
BY DEF IsPrefix

-----------------------------------------------------------------------------
(* Tables of members, and packages *)

LEMMA TableIs ==
  ASSUME NEW t
  PROVE  t \in Tables <=> /\ DOMAIN t \subseteq Members /\ t = [m \in DOMAIN t |-> t[m]]
                          /\ \A m \in DOMAIN t : t[m] \in [kind : Kinds, at : Nat]
<1>1. ASSUME t \in Tables
      PROVE  /\ DOMAIN t \subseteq Members /\ t = [m \in DOMAIN t |-> t[m]]
             /\ \A m \in DOMAIN t : t[m] \in [kind : Kinds, at : Nat]
  <2>1. PICK M \in SUBSET Members : t \in [M -> [kind : Kinds, at : Nat]]
    BY <1>1 DEF Tables
  <2> QED BY <2>1
<1>2. ASSUME DOMAIN t \subseteq Members, t = [m \in DOMAIN t |-> t[m]],
             \A m \in DOMAIN t : t[m] \in [kind : Kinds, at : Nat]
      PROVE  t \in Tables
  <2>1. t \in [DOMAIN t -> [kind : Kinds, at : Nat]]
    BY <1>2
  <2> QED BY <1>2, <2>1 DEF Tables
<1> QED BY <1>1, <1>2

LEMMA InsertedIs ==
  ASSUME NEW t \in Tables, NEW name \in Members, NEW x \in [kind : Kinds, at : Nat]
  PROVE  /\ Inserted(t, name, x) \in Tables
         /\ DOMAIN Inserted(t, name, x) = DOMAIN t \cup {name}
         /\ \A m \in DOMAIN t : Inserted(t, name, x)[m] = t[m]
         /\ name \notin DOMAIN t => Inserted(t, name, x)[name] = x
<1> DEFINE u == Inserted(t, name, x)
<1>1. /\ DOMAIN u = DOMAIN t \cup {name}
      /\ \A m \in DOMAIN t : u[m] = t[m]
      /\ name \notin DOMAIN t => u[name] = x
      /\ u = [m \in DOMAIN u |-> u[m]]
  BY DEF Inserted
<1>2. u \in Tables
  <2> HIDE DEF u
  <2> QED BY <1>1, TableIs
<1> QED BY <1>1, <1>2

(* Pkg_New                                                                 *)
LEMMA NewGood == GoodPackage(NewPkg) /\ NewPkg.index = 0 /\ NewPkg.nrvars = 0 /\ NewPkg.added = 0
<1>1. <<>> = [m \in {} |-> m] /\ DOMAIN <<>> = {}
  OBVIOUS
<1>2. NewPkg.mtbl \in Tables
  BY <1>1, TableIs DEF NewPkg
<1>3. NewPkg \in Package
  BY <1>2 DEF NewPkg, Package
<1>4. GoodPackage(NewPkg)
  BY <1>1, <1>3, PackagesAssumption DEF NewPkg, GoodPackage
<1> QED BY <1>4 DEF NewPkg

(* Pkg_Add_Var                                                             *)
LEMMA VarGood ==
  ASSUME NEW k, GoodPackage(k), k.added < MaxMembers, NEW name \in Members
  PROVE  /\ GoodPackage(WithVar(k, name))
         /\ WithVar(k, name).added = k.added + 1 /\ WithVar(k, name).index = k.index
<1> DEFINE x == [kind |-> "var", at |-> k.nrvars]
           u == Inserted(k.mtbl, name, x)
           w == WithVar(k, name)
<1>1. k \in Package /\ k.mtbl \in Tables /\ k.nrvars \in Nat /\ k.added \in Nat /\ k.index \in Int
  BY DEF GoodPackage, Package
<1>2. x \in [kind : Kinds, at : Nat] /\ x.kind = "var" /\ x.at = k.nrvars
  BY <1>1 DEF Kinds
<1>3. w = [mtbl |-> u, nrvars |-> k.nrvars + 1, index |-> k.index, added |-> k.added + 1]
  <2>1. k = [mtbl |-> k.mtbl, nrvars |-> k.nrvars, index |-> k.index, added |-> k.added]
    BY <1>1 DEF Package
  <2>2. /\ DOMAIN w = {"mtbl", "nrvars", "index", "added"} /\ w = [f \in DOMAIN w |-> w[f]]
        /\ w.mtbl = u /\ w.nrvars = k.nrvars + 1 /\ w.index = k.index /\ w.added = k.added + 1
    BY <2>1 DEF WithVar
  <2> QED BY <2>2
<1> HIDE DEF x, w
<1>4. /\ u \in Tables /\ DOMAIN u = DOMAIN k.mtbl \cup {name}
      /\ \A m \in DOMAIN k.mtbl : u[m] = k.mtbl[m]
      /\ name \notin DOMAIN k.mtbl => u[name] = x
  BY <1>1, <1>2, InsertedIs
<1> HIDE DEF u
<1>5. w \in Package
  BY <1>1, <1>3, <1>4 DEF Package
<1>6. \A m \in DOMAIN u : u[m].kind = "var" => u[m].at <= k.nrvars /\ (u[m].at = k.nrvars => m = name)
  <2> TAKE m \in DOMAIN u
  <2>1. CASE m \in DOMAIN k.mtbl
    <3>1. k.mtbl[m].at \in Nat
      BY <1>1, <2>1, TableIs
    <3> QED BY <1>1, <1>4, <2>1, <3>1 DEF GoodPackage
  <2>2. CASE m \notin DOMAIN k.mtbl
    BY <1>1, <1>2, <1>4, <2>2
  <2> QED BY <2>1, <2>2
<1>7. ASSUME NEW m \in DOMAIN u, NEW n \in DOMAIN u, u[m].kind = "var", u[n].kind = "var", u[m].at = u[n].at
      PROVE  m = n
  <2>1. CASE m \in DOMAIN k.mtbl /\ n \in DOMAIN k.mtbl
    BY <1>4, <1>7, <2>1 DEF GoodPackage
  <2>2. CASE m \notin DOMAIN k.mtbl
    BY <1>2, <1>4, <1>6, <1>7, <2>2
  <2>3. CASE n \notin DOMAIN k.mtbl
    BY <1>2, <1>4, <1>6, <1>7, <2>3
  <2> QED BY <2>1, <2>2, <2>3
<1>8. \A m \in DOMAIN u : u[m].at \in Nat
  BY <1>4, TableIs
<1>9. GoodPackage(w)
  BY <1>1, <1>3, <1>5, <1>6, <1>7, <1>8, PackagesAssumption DEF GoodPackage
<1> QED BY <1>3, <1>9 DEF w

(* Pkg_Add_Const, Pkg_Add_Func and Pkg_Add_Klass.                          *)
LEMMA OtherGood ==
  ASSUME NEW k, GoodPackage(k), k.added < MaxMembers, NEW name \in Members,
         NEW kind \in Kinds, kind # "var"
  PROVE  /\ GoodPackage(WithOther(k, name, kind))
         /\ WithOther(k, name, kind).added = k.added + 1 /\ WithOther(k, name, kind).index = k.index
         /\ WithOther(k, name, kind).nrvars = k.nrvars
<1> DEFINE x == [kind |-> kind, at |-> 0]
           u == Inserted(k.mtbl, name, x)
           w == WithOther(k, name, kind)
<1>1. k \in Package /\ k.mtbl \in Tables /\ k.nrvars \in Nat /\ k.added \in Nat /\ k.index \in Int
  BY DEF GoodPackage, Package
<1>2. x \in [kind : Kinds, at : Nat] /\ x.kind # "var"
  OBVIOUS
<1>3. w = [mtbl |-> u, nrvars |-> k.nrvars, index |-> k.index, added |-> k.added + 1]
  <2>1. k = [mtbl |-> k.mtbl, nrvars |-> k.nrvars, index |-> k.index, added |-> k.added]
    BY <1>1 DEF Package
  <2>2. /\ DOMAIN w = {"mtbl", "nrvars", "index", "added"} /\ w = [f \in DOMAIN w |-> w[f]]
        /\ w.mtbl = u /\ w.nrvars = k.nrvars /\ w.index = k.index /\ w.added = k.added + 1
    BY <2>1 DEF WithOther
  <2> QED BY <2>2
<1> HIDE DEF x, w
<1>4. /\ u \in Tables /\ DOMAIN u = DOMAIN k.mtbl \cup {name}
      /\ \A m \in DOMAIN k.mtbl : u[m] = k.mtbl[m]
      /\ name \notin DOMAIN k.mtbl => u[name] = x
  BY <1>1, <1>2, InsertedIs
<1> HIDE DEF u
<1>5. w \in Package
  BY <1>1, <1>3, <1>4 DEF Package
<1>6. \A m \in DOMAIN u : u[m].kind = "var" => m \in DOMAIN k.mtbl /\ u[m] = k.mtbl[m]
  BY <1>2, <1>4
<1>7. GoodPackage(w)
  BY <1>1, <1>3, <1>5, <1>6, PackagesAssumption DEF GoodPackage
<1> QED BY <1>3, <1>7 DEF w

(* Pkg_From_Image, a member at a time.                                     *)
LoadMember(image, n, k) ==
  IF image[n][2] = "var" THEN WithVar(k, image[n][1]) ELSE WithOther(k, image[n][1], image[n][2])

LEMMA MemberGood ==
  ASSUME NEW image \in Seq(Members \X Kinds), NEW n \in 1 .. Len(image),
         NEW k, GoodPackage(k), k.added < MaxMembers
  PROVE  GoodPackage(LoadMember(image, n, k)) /\ LoadMember(image, n, k).added = k.added + 1
<1>1. image[n] \in Members \X Kinds
  OBVIOUS
<1>2. image[n][1] \in Members /\ image[n][2] \in Kinds
  BY <1>1
<1>3. CASE image[n][2] = "var"
  BY <1>2, <1>3, VarGood DEF LoadMember
<1>4. CASE image[n][2] # "var"
  BY <1>2, <1>4, OtherGood DEF LoadMember
<1> QED BY <1>3, <1>4

LEMMA ImageGood ==
  ASSUME NEW image \in Seq(Members \X Kinds), Len(image) <= MaxMembers
  PROVE  GoodPackage(FromImage(image))
<1> DEFINE L == Len(image)
           X == {k \in Package : GoodPackage(k)}
           step == [z \in (1 .. L) \X X |->
                      IF z[2].added < MaxMembers THEN LoadMember(image, z[1], z[2]) ELSE z[2]]
           Sequel(f) == [n \in 0 .. L |-> IF n = 0 THEN NewPkg ELSE LoadMember(image, n, f[n - 1])]
<1>1. L \in Nat /\ NewPkg \in X
  BY NewGood DEF GoodPackage
<1>2. step \in [(1 .. L) \X X -> X]
  <2>1. ASSUME NEW n \in 1 .. L, NEW k \in X, k.added < MaxMembers PROVE LoadMember(image, n, k) \in X
    BY <2>1, MemberGood DEF GoodPackage
  <2> QED BY <2>1
<1>3. PICK f \in [0 .. L -> X] : f[0] = NewPkg /\ \A n \in 1 .. L : f[n] = step[<<n, f[n - 1]>>]
  <2>1. NewPkg \in X /\ L \in Nat
    BY <1>1
  <2>2. step \in [(1 .. L) \X X -> X]
    BY <1>2
  <2> HIDE DEF X, step, L, Sequel
  <2>3. \E f : Unfolds(f, X, NewPkg, L, step)
    BY <2>1, <2>2, Recursion
  <2> QED BY <2>3 DEF Unfolds
<1>4. \A n \in 1 .. L : f[n - 1].added < MaxMembers => f[n] = LoadMember(image, n, f[n - 1])
  <2> TAKE n \in 1 .. L
  <2> HIDE DEF X, step
  <2>1. n - 1 \in 0 .. L
    BY <1>1
  <2>2. f[n - 1] \in X
    BY <2>1
  <2>3. <<n, f[n - 1]>> \in (1 .. L) \X X
    BY <2>2
  <2>4. f[n] = step[<<n, f[n - 1]>>]
    BY <1>3
  <2> QED BY <2>3, <2>4 DEF step
<1> HIDE DEF step
<1>5. \A n \in 0 .. L : f[n].added = n
  <2> DEFINE T == {n \in 0 .. L : f[n].added = n}
  <2>1. 0 \in T
    BY <1>3, NewGood
  <2>2. ASSUME NEW n \in 0 .. L - 1, n \in T PROVE n + 1 \in T
    <3>1. n + 1 \in 1 .. L /\ (n + 1) - 1 = n /\ f[n].added < MaxMembers /\ GoodPackage(f[n])
      BY <2>2, PackagesAssumption
    <3>2. f[n + 1] = LoadMember(image, n + 1, f[n])
      BY <1>4, <3>1
    <3>3. f[n + 1].added = f[n].added + 1
      BY <3>1, <3>2, MemberGood
    <3> QED BY <2>2, <3>1, <3>3
  <2>3. \A n \in 0 .. L : n \in T
    <3> HIDE DEF T
    <3> QED BY <1>1, <2>1, <2>2, Induction
  <2> QED BY <2>3
<1>6. f = Sequel(f)
  <2>1. ASSUME NEW n \in 1 .. L PROVE f[n] = LoadMember(image, n, f[n - 1])
    <3>1. f[n - 1].added = n - 1
      BY <1>5
    <3> QED BY <1>4, <3>1, PackagesAssumption
  <2> QED BY <1>3, <2>1
<1> DEFINE g == CHOOSE h : h = Sequel(h)
<1>7. g = Sequel(g)
  BY <1>6
<1>8. g[0] = NewPkg /\ \A n \in 1 .. L : g[n] = LoadMember(image, n, g[n - 1])
  <2>1. ASSUME NEW n \in 0 .. L PROVE g[n] = IF n = 0 THEN NewPkg ELSE LoadMember(image, n, g[n - 1])
    <3>1. Sequel(g)[n] = IF n = 0 THEN NewPkg ELSE LoadMember(image, n, g[n - 1])
      OBVIOUS
    <3> HIDE DEF g, Sequel
    <3> QED BY <1>7, <3>1
  <2> HIDE DEF g, Sequel
  <2> QED BY <1>1, <2>1
<1>9. FromImage(image) = g[L]
  BY DEF FromImage, LoadMember
<1> HIDE DEF g
<1>10. \A n \in 0 .. L : g[n] = f[n]
  <2> DEFINE T == {n \in 0 .. L : g[n] = f[n]}
  <2>1. 0 \in T
    BY <1>3, <1>8
  <2>2. ASSUME NEW n \in 0 .. L - 1, n \in T PROVE n + 1 \in T
    <3>1. n + 1 \in 1 .. L /\ (n + 1) - 1 = n /\ f[n].added < MaxMembers
      BY <1>5, PackagesAssumption
    <3> QED BY <1>4, <1>8, <2>2, <3>1
  <2>3. \A n \in 0 .. L : n \in T
    <3> HIDE DEF T
    <3> QED BY <1>1, <2>1, <2>2, Induction
  <2> QED BY <2>3
<1> QED BY <1>1, <1>9, <1>10

-----------------------------------------------------------------------------
(* The tree *)

(* A node has a node for each of its prefixes, and only the node itself    *)
(* may be a leaf.                                                          *)
LEMMA PrefixClosed ==
  ASSUME TreeGood, NEW path \in DOMAIN nodes
  PROVE  /\ path \in Seq(Names)
         /\ \A i \in 0 .. Len(path) : /\ SubSeq(path, 1, i) \in DOMAIN nodes
                                      /\ i < Len(path) => ~ nodes[SubSeq(path, 1, i)].leaf
<1> DEFINE L == Len(path)
           T == {k \in 0 .. L : /\ SubSeq(path, 1, L - k) \in DOMAIN nodes
                                /\ k > 0 => ~ nodes[SubSeq(path, 1, L - k)].leaf}
<1>1. path \in Seq(Names) /\ L \in Nat
  BY DEF TreeGood
<1>2. 0 \in T
  <2>1. SubSeq(path, 1, L) = path /\ 0 \in 0 .. L /\ L - 0 = L
    BY <1>1, PrefixFacts
  <2>2. SubSeq(path, 1, L - 0) \in DOMAIN nodes
    BY <2>1
  <2> HIDE DEF L
  <2> QED BY <2>1, <2>2
<1>3. ASSUME NEW k \in 0 .. L - 1, k \in T PROVE k + 1 \in T
  <2> DEFINE s == SubSeq(path, 1, L - k)
  <2>1. L - k \in 0 .. L /\ L - k > 0 /\ k + 1 \in 0 .. L /\ (L - k) - 1 = L - (k + 1)
    BY <1>1
  <2>2. s \in DOMAIN nodes
    BY <1>3
  <2>3. Len(s) = L - k /\ Front(s) = SubSeq(path, 1, (L - k) - 1)
    BY <1>1, <2>1, PrefixFacts
  <2> HIDE DEF s
  <2>4. s # <<>>
    BY <2>1, <2>3
  <2>5. NodeGood(s)
    BY <2>2, <2>4 DEF TreeGood
  <2>6. Front(s) = SubSeq(path, 1, L - (k + 1))
    BY <2>1, <2>3
  <2> QED BY <2>1, <2>5, <2>6 DEF NodeGood
<1>4. \A k \in 0 .. L : k \in T
  <2> HIDE DEF T
  <2> QED BY <1>1, <1>2, <1>3, Induction
<1>5. ASSUME NEW i \in 0 .. L
      PROVE  SubSeq(path, 1, i) \in DOMAIN nodes /\ (i < L => ~ nodes[SubSeq(path, 1, i)].leaf)
  <2>1. L - i \in 0 .. L /\ L - (L - i) = i
    BY <1>1
  <2>2. L - i \in T
    BY <1>4, <2>1
  <2> QED BY <2>1, <2>2
<1> QED BY <1>1, <1>5

(* The prefixes of a path that have no node are those from some length on. *)
LEMMA MissingIs ==
  ASSUME TreeGood, NEW path \in Seq(Names), ~ Found(path)
  PROVE  \E m \in 1 .. Len(path) :
           /\ Missing(path) = m .. Len(path) /\ Below(path) = SubSeq(path, 1, m - 1)
           /\ Below(path) \in DOMAIN nodes
<1> DEFINE M == Missing(path)  L == Len(path)
<1>1. L \in Nat /\ M \in SUBSET Nat /\ M # {} /\ M \subseteq 1 .. L
  BY DEF Found, Missing
<1>2. PICK m \in M : \A k \in M : m <= k
  <2> HIDE DEF M
  <2> QED BY <1>1, Least
<1>3. m \in 1 .. L /\ SubSeq(path, 1, m) \notin DOMAIN nodes
  BY DEF Missing
<1>4. Min(M) = m
  <2> HIDE DEF M
  <2>1. \A k \in M : (\A j \in M : k <= j) => k = m
    BY <1>1, <1>2
  <2> QED BY <1>2, <2>1 DEF Min
<1>5. ASSUME NEW j \in m .. L PROVE j \in M
  <2>1. j \in 1 .. L /\ j \in 0 .. L /\ m \in 0 .. j
    BY <1>1, <1>3
  <2> DEFINE s == SubSeq(path, 1, j)
  <2>2. Len(s) = j /\ SubSeq(s, 1, m) = SubSeq(path, 1, m)
    BY <2>1, PrefixFacts
  <2>3. ASSUME s \in DOMAIN nodes PROVE FALSE
    <3> HIDE DEF s
    <3>1. SubSeq(s, 1, m) \in DOMAIN nodes
      BY <2>1, <2>2, <2>3, PrefixClosed
    <3> QED BY <1>3, <2>2, <3>1
  <2> QED BY <2>1, <2>3 DEF Missing
<1>6. M = m .. L
  <2>1. \A j \in M : j \in m .. L
    BY <1>1, <1>2
  <2> HIDE DEF M
  <2> QED BY <1>5, <2>1
<1>7. Below(path) = SubSeq(path, 1, m - 1)
  BY <1>4 DEF Below
<1>8. SubSeq(path, 1, m - 1) \in DOMAIN nodes
  <2>1. CASE m = 1
    <3>1. SubSeq(path, 1, m - 1) = <<>>
      BY <2>1, PrefixFacts, <1>1
    <3> QED BY <3>1 DEF TreeGood
  <2>2. CASE m > 1
    <3>1. m - 1 \in 1 .. L /\ m - 1 \notin m .. L
      BY <1>1, <1>3, <2>2
    <3>2. m - 1 \notin M
      BY <1>6, <3>1
    <3> QED BY <3>1, <3>2 DEF Missing
  <2> QED BY <1>3, <2>1, <2>2
<1> QED BY <1>3, <1>6, <1>7, <1>8

LEMMA PathsAre == ASSUME NEW path \in Paths PROVE path \in Seq(Names) /\ path # <<>> /\ Len(path) \in Nat \ {0}
<1>1. path \in Seq(Names) /\ path # <<>>
  BY PackagesAssumption
<1> QED BY <1>1

(* A path has a node if and only if it is found.                           *)
LEMMA FoundIs ==
  ASSUME TreeGood, NEW path \in Paths
  PROVE  Found(path) <=> path \in DOMAIN nodes
<1>1. path \in Seq(Names) /\ Len(path) \in Nat \ {0}
  BY PathsAre
<1>2. SubSeq(path, 1, Len(path)) = path
  BY <1>1, PrefixFacts
<1>3. ASSUME Found(path) PROVE path \in DOMAIN nodes
  <2>1. Len(path) \in 1 .. Len(path) /\ Len(path) \notin Missing(path)
    BY <1>1, <1>3 DEF Found
  <2> QED BY <1>2, <2>1 DEF Missing
<1>4. ASSUME path \in DOMAIN nodes PROVE Found(path)
  BY <1>4, PrefixClosed DEF Found, Missing
<1> QED BY <1>3, <1>4

(* Add_PkgNode keeps the nodes there are, and makes a leaf for the path    *)
(* and inner nodes for the prefixes of it that have none.                  *)
Grown(T, path, p, m) ==
  /\ DOMAIN T = DOMAIN nodes \cup {SubSeq(path, 1, i) : i \in m .. Len(path)}
  /\ \A i \in m .. Len(path) : SubSeq(path, 1, i) \notin DOMAIN nodes
  /\ Below(path) = SubSeq(path, 1, m - 1) /\ Below(path) \in DOMAIN nodes
  /\ \A node \in DOMAIN nodes : T[node] = nodes[node]
  /\ path \in DOMAIN T \ DOMAIN nodes /\ T[path] = [leaf |-> TRUE, data |-> p]
  /\ \A i \in m .. Len(path) - 1 : T[SubSeq(path, 1, i)] = [leaf |-> FALSE, data |-> None]

LEMMA AddedIs ==
  ASSUME TreeGood, NEW path \in Paths, NEW p, ~ Found(path)
  PROVE  \E m \in 1 .. Len(path) : Grown(Added(path, p), path, p, m)
<1> DEFINE L == Len(path)
           T == Added(path, p)
<1>1. path \in Seq(Names) /\ L \in Nat \ {0} /\ SubSeq(path, 1, L) = path
  BY PathsAre, PrefixFacts
<1>2. PICK m \in 1 .. L : /\ Missing(path) = m .. L /\ Below(path) = SubSeq(path, 1, m - 1)
                          /\ Below(path) \in DOMAIN nodes
  BY <1>1, MissingIs
<1>3. DOMAIN T = DOMAIN nodes \cup {SubSeq(path, 1, i) : i \in m .. L}
  BY <1>2 DEF Added
<1>4. ASSUME NEW i \in m .. L PROVE SubSeq(path, 1, i) \notin DOMAIN nodes
  <2>1. i \in Missing(path)
    BY <1>2
  <2> QED BY <2>1 DEF Missing
<1>5. ASSUME NEW node \in DOMAIN nodes PROVE T[node] = nodes[node]
  BY <1>3, <1>5 DEF Added
<1>6. path \in DOMAIN T \ DOMAIN nodes
  <2>1. L \in m .. L
    BY <1>1
  <2>2. path \in {SubSeq(path, 1, i) : i \in m .. L}
    BY <1>1, <2>1
  <2>3. path \notin DOMAIN nodes
    BY <1>1, <1>4, <2>1
  <2> HIDE DEF T
  <2> QED BY <1>3, <2>2, <2>3
<1>7. T[path] = [leaf |-> TRUE, data |-> p]
  BY <1>6 DEF Added
<1>8. ASSUME NEW i \in m .. L - 1 PROVE T[SubSeq(path, 1, i)] = [leaf |-> FALSE, data |-> None]
  <2> DEFINE s == SubSeq(path, 1, i)
  <2>1. i \in 0 .. L /\ i \in m .. L /\ i < L
    BY <1>1
  <2>2. Len(s) = i
    BY <1>1, <2>1, PrefixFacts
  <2>3. s # path
    <3> HIDE DEF s
    <3> QED BY <1>1, <2>1, <2>2
  <2>4. s \in DOMAIN T /\ s \notin DOMAIN nodes
    <3> HIDE DEF T
    <3> QED BY <1>3, <1>4, <2>1
  <2> HIDE DEF s
  <2>5. T[s] = [leaf |-> FALSE, data |-> None]
    BY <2>3, <2>4 DEF Added
  <2> QED BY <2>5 DEF s
<1>9. Grown(T, path, p, m)
  <2> HIDE DEF T
  <2> QED BY <1>2, <1>3, <1>4, <1>5, <1>6, <1>7, <1>8 DEF Grown
<1> QED BY <1>9

(* The nodes of the leaves a step leaves alone.                            *)
LEMMA LeavesAre ==
  ASSUME TreeGood
  PROVE  /\ <<>> \notin Leaves /\ Leaves \subseteq DOMAIN nodes /\ Registered \subseteq Made
         /\ \A a \in Leaves : nodes[a].leaf /\ nodes[a].data \in Registered /\ NodeGood(a)
<1>1. <<>> \notin Leaves /\ Leaves \subseteq DOMAIN nodes
  BY DEF TreeGood, Leaves
<1>2. ASSUME NEW a \in Leaves PROVE nodes[a].leaf /\ nodes[a].data \in Registered /\ NodeGood(a)
  BY <1>1 DEF TreeGood, Leaves, Registered
<1>3. Registered \subseteq Made
  BY <1>1, <1>2 DEF Registered, NodeGood
<1> QED BY <1>1, <1>2, <1>3

(* The tree after Add_PkgNode.                                             *)
LEMMA TreeAdded ==
  ASSUME TreeGood, NEW path \in Paths, NEW p \in Pkgs, ~ Found(path), ~ BelowLeaf(path),
         nodes' = Added(path, p), Made \subseteq Made', p \in Made'
  PROVE  /\ TreeGood' /\ Leaves' = Leaves \cup {path} /\ path \notin Leaves
         /\ Registered' = Registered \cup {p} /\ nodes'[path].data = p
         /\ \A a \in Leaves : nodes'[a] = nodes[a]
<1> DEFINE L == Len(path)
<1>0. PICK m \in 1 .. L : Grown(nodes', path, p, m)
  <2>1. \E m \in 1 .. L : Grown(Added(path, p), path, p, m)
    BY AddedIs
  <2> QED BY <2>1
<1>1. /\ DOMAIN nodes' = DOMAIN nodes \cup {SubSeq(path, 1, i) : i \in m .. L}
      /\ \A i \in m .. L : SubSeq(path, 1, i) \notin DOMAIN nodes
      /\ Below(path) = SubSeq(path, 1, m - 1) /\ Below(path) \in DOMAIN nodes
      /\ \A node \in DOMAIN nodes : nodes'[node] = nodes[node]
      /\ path \in DOMAIN nodes' \ DOMAIN nodes /\ nodes'[path] = [leaf |-> TRUE, data |-> p]
      /\ \A i \in m .. L - 1 : nodes'[SubSeq(path, 1, i)] = [leaf |-> FALSE, data |-> None]
  BY <1>0 DEF Grown
<1>2. path \in Seq(Names) /\ L \in Nat \ {0} /\ SubSeq(path, 1, L) = path
  BY PathsAre, PrefixFacts
<1>3. m \in Nat /\ \A i \in m .. L : i < L \/ i = L
  <2>1. L \in Nat
    BY <1>2
  <2> HIDE DEF L
  <2> QED BY <2>1
<1>4. ~ nodes[Below(path)].leaf
  BY <1>1 DEF BelowLeaf, IsLeaf, Leaves
<1>5. ASSUME NEW a \in DOMAIN nodes' PROVE a \in DOMAIN nodes \/ \E i \in m .. L : a = SubSeq(path, 1, i)
  BY <1>1
<1>6. Leaves' = Leaves \cup {path} /\ path \notin Leaves
  <2>1. ASSUME NEW a \in Leaves' PROVE a \in Leaves \cup {path}
    <3>1. a \in DOMAIN nodes' /\ nodes'[a].leaf
      BY DEF Leaves
    <3>2. ASSUME a \notin DOMAIN nodes PROVE a = path
      <4>1. PICK i \in m .. L : a = SubSeq(path, 1, i)
        BY <1>5, <3>1, <3>2
      <4>2. CASE i < L
        <5>1. i \in m .. L - 1
          BY <1>2, <4>2
        <5>2. ~ nodes'[SubSeq(path, 1, i)].leaf
          BY <1>1, <5>1
        <5> QED BY <3>1, <4>1, <5>2
      <4>3. CASE i = L
        BY <1>2, <4>1, <4>3
      <4> QED BY <1>3, <4>2, <4>3
    <3> QED BY <1>1, <3>1, <3>2 DEF Leaves
  <2>2. ASSUME NEW a \in Leaves PROVE a \in Leaves'
    BY <1>1 DEF Leaves
  <2>3. path \in Leaves' /\ path \notin Leaves
    BY <1>1 DEF Leaves
  <2> QED BY <2>1, <2>2, <2>3
<1>7. /\ \A a \in Leaves : nodes'[a] = nodes[a]
      /\ nodes'[path].data = p
  BY <1>1 DEF Leaves
<1>8. Registered' = Registered \cup {p}
  BY <1>6, <1>7 DEF Registered
<1>9. <<>> \in DOMAIN nodes' /\ nodes'[<<>>] = [leaf |-> FALSE, data |-> None]
  BY <1>1 DEF TreeGood
<1>10. DOMAIN nodes' \subseteq Seq(Names)
  <2>1. ASSUME NEW i \in m .. L PROVE SubSeq(path, 1, i) \in Seq(Names)
    BY <1>2, PrefixFacts
  <2> QED BY <1>1, <2>1 DEF TreeGood
<1>11. ASSUME NEW a \in DOMAIN nodes' PROVE nodes'[a] \in [leaf : BOOLEAN, data : Pkgs \cup {None}]
  <2>1. CASE a \in DOMAIN nodes
    BY <1>1, <2>1 DEF TreeGood
  <2>2. CASE a \notin DOMAIN nodes
    <3>1. PICK i \in m .. L : a = SubSeq(path, 1, i)
      BY <1>5, <2>2
    <3>2. CASE i < L
      <4>1. i \in m .. L - 1
        BY <1>2, <3>2
      <4>2. nodes'[SubSeq(path, 1, i)] = [leaf |-> FALSE, data |-> None]
        BY <1>1, <4>1
      <4> QED BY <3>1, <4>2
    <3>3. CASE i = L
      <4>1. nodes'[path] = [leaf |-> TRUE, data |-> p]
        BY <1>1
      <4>2. a = path
        BY <1>2, <3>1, <3>3
      <4>3. [leaf |-> TRUE, data |-> p] \in [leaf : BOOLEAN, data : Pkgs \cup {None}]
        OBVIOUS
      <4>4. nodes'[a] = [leaf |-> TRUE, data |-> p]
        BY <4>1, <4>2
      <4> QED BY <4>3, <4>4
    <3> QED BY <1>3, <3>2, <3>3
  <2> QED BY <2>1, <2>2
<1>12. ASSUME NEW a \in DOMAIN nodes' \ {<<>>} PROVE NodeGood(a)'
  <2>1. CASE a \in DOMAIN nodes
    <3>1. NodeGood(a) /\ nodes'[a] = nodes[a]
      BY <1>1, <2>1 DEF TreeGood
    <3>2. Front(a) \in DOMAIN nodes' /\ ~ nodes'[Front(a)].leaf
      BY <1>1, <3>1 DEF NodeGood
    <3>3. nodes'[a].leaf => nodes'[a].data \in Made'
      BY <3>1 DEF NodeGood
    <3>4. ~ nodes'[a].leaf => nodes'[a].data = None /\ \E l \in Leaves' : IsPrefix(a, l) /\ l # a
      BY <1>6, <3>1 DEF NodeGood
    <3> QED BY <3>2, <3>3, <3>4 DEF NodeGood
  <2>2. CASE a \notin DOMAIN nodes
    <3>1. PICK i \in m .. L : a = SubSeq(path, 1, i)
      BY <1>5, <2>2
    <3>2. i \in 0 .. L /\ i > 0 /\ i \in Nat
      BY <1>2
    <3>3. Front(a) = SubSeq(path, 1, i - 1) /\ IsPrefix(a, path) /\ Len(a) = i
      BY <1>2, <3>1, <3>2, PrefixFacts
    <3>4. Front(a) \in DOMAIN nodes' /\ ~ nodes'[Front(a)].leaf
      <4>1. CASE i = m
        BY <1>1, <1>4, <3>3, <4>1
      <4>2. CASE i > m
        <5>1. i - 1 \in m .. L - 1 /\ i - 1 \in m .. L
          BY <1>2, <4>2
        <5>2. SubSeq(path, 1, i - 1) \in DOMAIN nodes'
          BY <1>1, <5>1
        <5>3. nodes'[SubSeq(path, 1, i - 1)] = [leaf |-> FALSE, data |-> None]
          BY <1>1, <5>1
        <5> QED BY <3>3, <5>2, <5>3
      <4> QED BY <4>1, <4>2, <1>2
    <3>5. CASE i < L
      <4>1. i \in m .. L - 1 /\ a # path
        BY <1>2, <3>3, <3>5
      <4>2. nodes'[a] = [leaf |-> FALSE, data |-> None]
        BY <1>1, <3>1, <4>1
      <4>3. path \in Leaves'
        BY <1>6
      <4> QED BY <3>3, <3>4, <4>1, <4>2, <4>3 DEF NodeGood
    <3>6. CASE i = L
      <4>1. a = path
        BY <1>2, <3>1, <3>6
      <4>2. nodes'[a] = [leaf |-> TRUE, data |-> p]
        BY <1>1, <4>1
      <4> QED BY <3>4, <4>2 DEF NodeGood
    <3> QED BY <1>3, <3>5, <3>6
  <2> QED BY <2>1, <2>2
<1>13. TreeGood'
  BY <1>9, <1>10, <1>11, <1>12 DEF TreeGood
<1> QED BY <1>6, <1>7, <1>8, <1>13

-----------------------------------------------------------------------------
(* The packages and the pool *)

(* A step that makes or changes one package.                               *)
LEMMA PackageSet ==
  ASSUME PackagesGood, NEW p \in Pkgs, NEW k, GoodPackage(k), pkg' = [pkg EXCEPT ![p] = k]
  PROVE  /\ PackagesGood' /\ Made' = Made \cup {p} /\ pkg'[p] = k
         /\ \A q \in Pkgs \ {p} : pkg'[q] = pkg[q]
<1>1. k \in Package /\ k # None
  BY PackagesAssumption DEF GoodPackage
<1>2. pkg \in [Pkgs -> Package \cup {None}]
  BY DEF PackagesGood
<1>3. pkg'[p] = k /\ \A q \in Pkgs \ {p} : pkg'[q] = pkg[q]
  BY <1>2
<1>4. pkg' \in [Pkgs -> Package \cup {None}]
  BY <1>1, <1>2
<1>5. Made' = Made \cup {p}
  BY <1>1, <1>3 DEF Made
<1>6. ASSUME NEW q \in Made' PROVE GoodPackage(pkg[q])'
  <2>1. CASE q = p
    BY <1>3, <2>1 DEF GoodPackage
  <2>2. CASE q # p
    <3>1. q \in Made /\ pkg'[q] = pkg[q]
      BY <1>3, <1>5, <2>2 DEF Made
    <3>2. GoodPackage(pkg[q])
      BY <3>1 DEF PackagesGood
    <3> QED BY <3>1, <3>2 DEF GoodPackage
  <2> QED BY <2>1, <2>2
<1> QED BY <1>3, <1>4, <1>5, <1>6 DEF PackagesGood

(* A package, and what it is made of.                                      *)
LEMMA PackageIs ==
  ASSUME PackagesGood, NEW p \in Made
  PROVE  /\ p \in Pkgs /\ GoodPackage(pkg[p]) /\ pkg[p] \in Package
         /\ pkg[p].mtbl \in Tables /\ pkg[p].nrvars \in Nat /\ pkg[p].index \in Int /\ pkg[p].added \in Nat
         /\ DOMAIN pkg[p].mtbl \subseteq Members
         /\ \A m \in DOMAIN pkg[p].mtbl : pkg[p].mtbl[m].at \in Nat
         /\ \A m \in DOMAIN pkg[p].mtbl : pkg[p].mtbl[m].kind = "var" =>
              pkg[p].mtbl[m].at < pkg[p].nrvars /\ pkg[p].nrvars > 0
<1>1. p \in Pkgs /\ GoodPackage(pkg[p]) /\ pkg[p] \in Package
  BY DEF PackagesGood, Made, GoodPackage
<1>2. pkg[p].mtbl \in Tables /\ pkg[p].nrvars \in Nat /\ pkg[p].index \in Int /\ pkg[p].added \in Nat
  BY <1>1 DEF Package
<1>3. DOMAIN pkg[p].mtbl \subseteq Members /\ \A m \in DOMAIN pkg[p].mtbl : pkg[p].mtbl[m].at \in Nat
  BY <1>2, TableIs
<1>4. ASSUME NEW m \in DOMAIN pkg[p].mtbl, pkg[p].mtbl[m].kind = "var"
      PROVE  pkg[p].mtbl[m].at < pkg[p].nrvars /\ pkg[p].nrvars > 0
  BY <1>1, <1>2, <1>3, <1>4 DEF GoodPackage
<1> QED BY <1>1, <1>2, <1>3, <1>4

(* The tree does not change, and no package disappears.                    *)
LEMMA TreeKept ==
  ASSUME TreeGood, UNCHANGED nodes, Made \subseteq Made'
  PROVE  TreeGood' /\ Leaves' = Leaves /\ Registered' = Registered
<1>1. Leaves' = Leaves /\ Registered' = Registered
  BY DEF Leaves, Registered
<1>2. ASSUME NEW a \in DOMAIN nodes' \ {<<>>} PROVE NodeGood(a)'
  <2>1. NodeGood(a)
    BY DEF TreeGood
  <2> QED BY <1>1, <2>1 DEF NodeGood
<1> QED BY <1>1, <1>2 DEF TreeGood

(* The packages do not change.                                             *)
LEMMA PackagesKept ==
  ASSUME PackagesGood, UNCHANGED pkg
  PROVE  PackagesGood' /\ Made' = Made
BY DEF PackagesGood, Made, GoodPackage

(* The pool, when neither it nor the packages change.                      *)
LEMMA PoolKept ==
  ASSUME PoolGood, UNCHANGED <<nodes, pkg, variables>>, misuse' \in BOOLEAN, misuse => misuse'
  PROVE  PoolGood'
<1>1. Leaves' = Leaves /\ Registered' = Registered /\ Made' = Made
  BY DEF Leaves, Registered, Made
<1> QED BY <1>1 DEF PoolGood, OneLeafEach, HasOwnTuple

-----------------------------------------------------------------------------
(* The steps *)

LEMMA InitInductive == Init => Inductive
<1> SUFFICES ASSUME Init PROVE Inductive
  OBVIOUS
<1> USE DEF Init
<1>1. Made = {} /\ Leaves = {} /\ Registered = {}
  BY DEF Made, Leaves, Registered
<1>2. PackagesGood
  BY <1>1 DEF PackagesGood
<1>3. TreeGood
  <2>1. nodes[<<>>] = [leaf |-> FALSE, data |-> None] /\ DOMAIN nodes = {<<>>}
    OBVIOUS
  <2> QED BY <2>1 DEF TreeGood
<1>4. PoolGood
  <2>0. misuse \in BOOLEAN
    OBVIOUS
  <2>1. variables \in Seq(Seq(Values \cup {None}))
    <3>1. variables = <<>>
      OBVIOUS
    <3> QED BY <3>1, EmptySeq
  <2>2. OneLeafEach /\ \A p \in Registered : HasOwnTuple(p)
    BY <1>1 DEF OneLeafEach
  <2>3. (\A p \in Made : pkg[p].index \in -1 .. Len(variables)) /\ \A p \in Made \ Registered : pkg[p].index = 0
    BY <1>1
  <2> QED BY <2>0, <2>1, <2>2, <2>3 DEF PoolGood
<1>5. FaultsExplained
  BY DEF FaultsExplained
<1> QED BY <1>2, <1>3, <1>4, <1>5 DEF Inductive

(* The program goes on, with one package made or changed that is not in    *)
(* the tree, or changed in its members but not in its variables.           *)
LEMMA MemberStep ==
  ASSUME Inductive, Running, NEW p \in Pkgs, NEW k, GoodPackage(k), pkg' = [pkg EXCEPT ![p] = k],
         UNCHANGED <<nodes, variables, fault>>, misuse' \in BOOLEAN, misuse => misuse',
         p \in Made => k.index = pkg[p].index, p \notin Made => k.index = 0,
         ~ misuse' => p \notin Registered \/ k.nrvars = pkg[p].nrvars
  PROVE  Inductive' /\ Leaves' = Leaves /\ Registered' = Registered
<1> USE DEF Inductive
<1>1. /\ PackagesGood' /\ Made' = Made \cup {p} /\ pkg'[p] = k
      /\ \A q \in Pkgs \ {p} : pkg'[q] = pkg[q]
  BY PackageSet
<1>2. TreeGood' /\ Leaves' = Leaves /\ Registered' = Registered
  BY <1>1, TreeKept
<1>3. FaultsExplained'
  BY DEF FaultsExplained, Running
<1>4. Registered \subseteq Made /\ Made \subseteq Pkgs
  BY LeavesAre DEF Made
<1>5. \A q \in Made' : IF q \in Made THEN pkg'[q].index = pkg[q].index ELSE pkg'[q].index = 0
  BY <1>1 DEF Made
<1>6. \A q \in Made' : pkg'[q].index \in -1 .. Len(variables')
  <2>1. Len(variables') \in Nat
    BY DEF PoolGood
  <2> QED BY <1>5, <2>1 DEF PoolGood
<1>7. \A q \in Made' \ Registered' : pkg'[q].index = 0
  BY <1>2, <1>5 DEF PoolGood
<1>8. ASSUME ~ misuse' PROVE OneLeafEach' /\ \A q \in Registered' : HasOwnTuple(q)'
  <2>1. OneLeafEach'
    BY <1>2, <1>8 DEF PoolGood, OneLeafEach
  <2>2. \A q \in Registered : pkg'[q].nrvars = pkg[q].nrvars /\ pkg'[q].index = pkg[q].index
    BY <1>1, <1>4, <1>5, <1>8
  <2>3. ASSUME NEW q \in Registered PROVE HasOwnTuple(q)'
    <3>1. HasOwnTuple(q)
      BY <1>8 DEF PoolGood
    <3> QED BY <1>2, <2>2, <3>1 DEF HasOwnTuple
  <2> QED BY <1>2, <2>1, <2>3
<1>9. PoolGood'
  BY <1>6, <1>7, <1>8 DEF PoolGood
<1> QED BY <1>1, <1>2, <1>3, <1>9

(* Pkg_New                                                                 *)
LEMMA NewStep ==
  ASSUME Inductive, Running, NEW p \in Pkgs, New(p)
  PROVE  Inductive' /\ Leaves' = Leaves /\ Registered' = Registered
<1>1. p \notin Made
  BY DEF New, Made
<1>2. p \notin Registered
  BY <1>1, LeavesAre DEF Inductive
<1>3. GoodPackage(NewPkg) /\ NewPkg.index = 0
  BY NewGood
<1>4. misuse' = misuse /\ misuse \in BOOLEAN
  BY DEF New, Inductive, PoolGood
<1>5. pkg' = [pkg EXCEPT ![p] = NewPkg] /\ UNCHANGED <<nodes, variables, fault>>
  BY DEF New
<1> QED BY <1>1, <1>2, <1>3, <1>4, <1>5, MemberStep

LEMMA AddVarStep ==
  ASSUME Inductive, Running, NEW p \in Pkgs, NEW name \in Members, AddVar(p, name)
  PROVE  Inductive' /\ Leaves' = Leaves /\ Registered' = Registered
<1> DEFINE k == WithVar(pkg[p], name)
<1>1. p \in Made /\ pkg[p].added < MaxMembers /\ GoodPackage(pkg[p])
  BY PackageIs DEF AddVar, Inductive
<1>2. GoodPackage(k) /\ k.index = pkg[p].index
  BY <1>1, VarGood
<1>3. misuse' = (misuse \/ p \in Registered) /\ misuse \in BOOLEAN
  BY DEF AddVar, Inductive, PoolGood
<1>4. pkg' = [pkg EXCEPT ![p] = k] /\ UNCHANGED <<nodes, variables, fault>>
  BY DEF AddVar, AddMember
<1> HIDE DEF k
<1> QED BY <1>1, <1>2, <1>3, <1>4, MemberStep

LEMMA AddOtherStep ==
  ASSUME Inductive, Running, NEW p \in Pkgs, NEW name \in Members, NEW kind \in Kinds, kind # "var",
         AddOther(p, name, kind)
  PROVE  Inductive' /\ Leaves' = Leaves /\ Registered' = Registered
<1> DEFINE k == WithOther(pkg[p], name, kind)
<1>1. p \in Made /\ pkg[p].added < MaxMembers /\ GoodPackage(pkg[p])
  BY PackageIs DEF AddOther, Inductive
<1>2. GoodPackage(k) /\ k.index = pkg[p].index /\ k.nrvars = pkg[p].nrvars
  BY <1>1, OtherGood
<1>3. misuse' = misuse /\ misuse \in BOOLEAN
  BY DEF AddOther, Inductive, PoolGood
<1>4. pkg' = [pkg EXCEPT ![p] = k] /\ UNCHANGED <<nodes, variables, fault>>
  BY DEF AddOther, AddMember
<1> HIDE DEF k
<1> QED BY <1>1, <1>2, <1>3, <1>4, MemberStep

(* The pool after the variables of k were entered.                         *)
LEMMA PoolIs ==
  ASSUME PoolGood, NEW k, GoodPackage(k)
  PROVE  LET P == Pool(k)  at == IndexOf(k) IN
         /\ P \in Seq(Seq(Values \cup {None})) /\ Len(P) \in Nat /\ Len(variables) \in Nat
         /\ Len(variables) <= Len(P) /\ at \in -1 .. Len(P)
         /\ \A i \in 1 .. Len(variables) : P[i] = variables[i]
         /\ k.nrvars > 0 => /\ at = Len(variables) /\ at \in 0 .. Len(P) - 1
                            /\ Len(P[at + 1]) = k.nrvars /\ P[at + 1] = [i \in 1 .. k.nrvars |-> None]
<1> DEFINE t == [i \in 1 .. k.nrvars |-> None]
<1>1. k.nrvars \in Nat /\ variables \in Seq(Seq(Values \cup {None})) /\ Len(variables) \in Nat
  BY DEF GoodPackage, Package, PoolGood
<1>2. t \in Seq(Values \cup {None}) /\ Len(t) = k.nrvars
  BY <1>1
<1>3. CASE k.nrvars = 0
  BY <1>1, <1>3 DEF Pool, IndexOf
<1>4. CASE k.nrvars # 0
  <2>1. Pool(k) = Append(variables, t) /\ IndexOf(k) = Len(variables)
    BY <1>4 DEF Pool, IndexOf
  <2>2. k.nrvars > 0
    BY <1>1, <1>4
  <2> HIDE DEF t
  <2>3. /\ Append(variables, t) \in Seq(Seq(Values \cup {None}))
        /\ Len(Append(variables, t)) = Len(variables) + 1
        /\ Append(variables, t)[Len(variables) + 1] = t
        /\ \A i \in 1 .. Len(variables) : Append(variables, t)[i] = variables[i]
    BY <1>1, <1>2
  <2>4. Len(variables) \in 0 .. (Len(variables) + 1) - 1 /\ Len(variables) \in -1 .. Len(variables) + 1
    BY <1>1
  <2>5. Append(variables, t)[Len(variables) + 1] = [i \in 1 .. k.nrvars |-> None]
    BY <2>3 DEF t
  <2> QED BY <1>1, <1>2, <2>1, <2>2, <2>3, <2>4, <2>5
<1> QED BY <1>3, <1>4

(* Add_PkgNode and the append to the pool, of a package that was made or   *)
(* is loaded now.                                                          *)
LEMMA EnterStep ==
  ASSUME Inductive, Running, NEW path \in Paths, ~ Found(path), NEW p \in Pkgs, NEW k, GoodPackage(k),
         NEW answer, Enter(path, p, k, answer)
  PROVE  Inductive'
<1> USE DEF Inductive
<1>1. CASE BelowLeaf(path)
  <2>1. fault' = "below_leaf" /\ UNCHANGED <<nodes, pkg, variables, misuse>>
    BY <1>1 DEF Enter, Fail
  <2>2. PackagesGood' /\ Made' = Made
    BY <2>1, PackagesKept
  <2>3. TreeGood' /\ Leaves' = Leaves
    BY <2>1, <2>2, TreeKept
  <2>4. PoolGood'
    BY <2>1, PoolKept DEF PoolGood
  <2>5. Overlap
    <3>1. path \in Seq(Names) /\ Len(path) \in Nat
      BY PathsAre
    <3>2. PICK m \in 1 .. Len(path) : Below(path) = SubSeq(path, 1, m - 1)
      BY <3>1, MissingIs
    <3>3. m - 1 \in 0 .. Len(path) /\ m - 1 # Len(path)
      BY <3>1
    <3>4. Len(Below(path)) = m - 1 /\ IsPrefix(Below(path), path)
      BY <3>1, <3>2, <3>3, PrefixFacts
    <3>5. Below(path) \in Leaves /\ Below(path) # path
      BY <1>1, <3>3, <3>4 DEF BelowLeaf, IsLeaf
    <3> QED BY <3>4, <3>5 DEF Overlap
  <2>6. Overlap'
    BY <2>3, <2>5 DEF Overlap
  <2> QED BY <2>1, <2>2, <2>3, <2>4, <2>6 DEF FaultsExplained
<1>2. CASE ~ BelowLeaf(path)
  <2> DEFINE w == [k EXCEPT !.index = IndexOf(k)]
  <2>1. /\ nodes' = Added(path, p) /\ variables' = Pool(k) /\ pkg' = [pkg EXCEPT ![p] = w]
        /\ misuse' = (misuse \/ p \in Registered) /\ fault' = fault
    BY <1>2 DEF Enter
  <2>2. /\ variables' \in Seq(Seq(Values \cup {None})) /\ Len(variables') \in Nat /\ Len(variables) \in Nat
        /\ Len(variables) <= Len(variables') /\ IndexOf(k) \in -1 .. Len(variables')
        /\ \A i \in 1 .. Len(variables) : variables'[i] = variables[i]
        /\ k.nrvars > 0 => /\ IndexOf(k) = Len(variables) /\ IndexOf(k) \in 0 .. Len(variables') - 1
                           /\ Len(variables'[IndexOf(k) + 1]) = k.nrvars
    BY <2>1, PoolIs
  <2>3. GoodPackage(w) /\ w.index = IndexOf(k) /\ w.nrvars = k.nrvars
    <3>1. k = [mtbl |-> k.mtbl, nrvars |-> k.nrvars, index |-> k.index, added |-> k.added] /\ k \in Package
      BY DEF GoodPackage, Package
    <3>2. w \in Package /\ w.index = IndexOf(k) /\ w.nrvars = k.nrvars /\ w.mtbl = k.mtbl /\ w.added = k.added
      BY <2>2, <3>1 DEF Package
    <3> HIDE DEF w
    <3> QED BY <3>2 DEF GoodPackage
  <2> HIDE DEF w
  <2>4. /\ PackagesGood' /\ Made' = Made \cup {p} /\ pkg'[p] = w
        /\ \A q \in Pkgs \ {p} : pkg'[q] = pkg[q]
    BY <2>1, <2>3, PackageSet
  <2>5. /\ TreeGood' /\ Leaves' = Leaves \cup {path} /\ path \notin Leaves
        /\ Registered' = Registered \cup {p} /\ nodes'[path].data = p
        /\ \A a \in Leaves : nodes'[a] = nodes[a]
    BY <1>2, <2>1, <2>4, TreeAdded
  <2>6. FaultsExplained'
    BY <2>1 DEF FaultsExplained, Running
  <2>7. Registered \subseteq Made /\ Made \subseteq Pkgs
    BY LeavesAre DEF Made
  <2>8. ASSUME NEW q \in Made' PROVE pkg'[q].index \in -1 .. Len(variables')
    <3>1. CASE q = p
      BY <2>2, <2>3, <2>4, <3>1
    <3>2. CASE q # p
      <4>1. q \in Made /\ pkg'[q] = pkg[q]
        BY <2>4, <2>7, <3>2
      <4>2. pkg[q].index \in -1 .. Len(variables)
        BY <4>1 DEF PoolGood
      <4> QED BY <2>2, <4>1, <4>2
    <3> QED BY <3>1, <3>2
  <2>9. ASSUME NEW q \in Made' \ Registered' PROVE pkg'[q].index = 0
    <3>1. q \in Made \ Registered /\ q # p
      BY <2>4, <2>5
    <3> QED BY <2>4, <2>7, <3>1 DEF PoolGood
  <2>10. ASSUME ~ misuse' PROVE OneLeafEach' /\ \A q \in Registered' : HasOwnTuple(q)'
    <3>1. p \notin Registered /\ ~ misuse
      BY <2>1, <2>10
    <3>2. OneLeafEach /\ \A q \in Registered : HasOwnTuple(q)
      BY <3>1 DEF PoolGood
    <3>3. ASSUME NEW a \in Leaves', NEW b \in Leaves', nodes'[a].data = nodes'[b].data PROVE a = b
      <4>1. \A c \in Leaves : nodes'[c].data # p
        BY <2>5, <3>1 DEF Registered
      <4> QED BY <2>5, <3>2, <3>3, <4>1 DEF OneLeafEach
    <3>4. ASSUME NEW q \in Registered PROVE pkg'[q] = pkg[q] /\ pkg[q].nrvars > 0 => pkg[q].index \in 0 .. Len(variables) - 1
      BY <2>4, <2>7, <3>1, <3>2 DEF HasOwnTuple
    <3>5. \A q \in Registered : q # p /\ pkg'[q] = pkg[q]
      BY <2>4, <2>7, <3>1
    <3>6. HasOwnTuple(p)'
      <4>1. \A q \in Registered' : pkg'[q].nrvars > 0 /\ pkg'[q].index = pkg'[p].index /\ pkg'[p].nrvars > 0 => q = p
        <5> SUFFICES ASSUME NEW q \in Registered, pkg[q].nrvars > 0, pkg[q].index = w.index, w.nrvars > 0 PROVE FALSE
          BY <2>4, <2>5, <3>5
        <5>1. pkg[q].index \in 0 .. Len(variables) - 1
          BY <3>4, <3>5
        <5>2. pkg[q].index = Len(variables)
          BY <2>2, <2>3
        <5> QED BY <2>2, <5>1, <5>2
      <4>2. pkg'[p].nrvars > 0 => pkg'[p].index \in 0 .. Len(variables') - 1 /\ Len(variables'[pkg'[p].index + 1]) = pkg'[p].nrvars
        BY <2>2, <2>3, <2>4
      <4> QED BY <4>1, <4>2 DEF HasOwnTuple
    <3>7. ASSUME NEW q \in Registered PROVE HasOwnTuple(q)'
      <4> SUFFICES ASSUME pkg[q].nrvars > 0
                   PROVE  /\ pkg[q].index \in 0 .. Len(variables') - 1
                          /\ Len(variables'[pkg[q].index + 1]) = pkg[q].nrvars
                          /\ \A r \in Registered' : pkg'[r].nrvars > 0 /\ pkg'[r].index = pkg[q].index => r = q
        BY <3>5 DEF HasOwnTuple
      <4>1. /\ pkg[q].index \in 0 .. Len(variables) - 1
            /\ Len(variables[pkg[q].index + 1]) = pkg[q].nrvars
            /\ \A r \in Registered : pkg[r].nrvars > 0 /\ pkg[r].index = pkg[q].index => r = q
        BY <3>2 DEF HasOwnTuple
      <4>2. pkg[q].index + 1 \in 1 .. Len(variables) /\ pkg[q].index \in 0 .. Len(variables') - 1
        BY <2>2, <4>1, SMTT(30)
      <4>3. ASSUME NEW r \in Registered', pkg'[r].nrvars > 0, pkg'[r].index = pkg[q].index PROVE r = q
        <5>1. r # p
          BY <2>2, <2>3, <2>4, <4>1, <4>3, SMTT(30)
        <5>2. r \in Registered /\ pkg'[r] = pkg[r]
          BY <2>5, <3>5, <5>1
        <5> QED BY <4>1, <4>3, <5>2
      <4> QED BY <2>2, <4>1, <4>2, <4>3
    <3> QED BY <2>5, <3>3, <3>6, <3>7 DEF OneLeafEach
  <2>11. misuse' \in BOOLEAN
    BY <2>1 DEF PoolGood
  <2>12. PoolGood'
    BY <2>2, <2>8, <2>9, <2>10, <2>11 DEF PoolGood
  <2> QED BY <2>4, <2>5, <2>6, <2>12
<1> QED BY <1>1, <1>2

(* A step that changes nothing but what the last call answered, why the    *)
(* program stopped and whether a call was out of order.                    *)
LEMMA AnswerStep ==
  ASSUME Inductive, UNCHANGED <<nodes, pkg, variables>>, misuse' \in BOOLEAN, misuse => misuse'
  PROVE  /\ PackagesGood' /\ TreeGood' /\ PoolGood' /\ Made' = Made
         /\ Leaves' = Leaves /\ Registered' = Registered
         /\ fault' = "none" => Inductive'
<1>1. PackagesGood' /\ Made' = Made
  BY PackagesKept DEF Inductive
<1>2. TreeGood' /\ Leaves' = Leaves /\ Registered' = Registered
  BY <1>1, TreeKept DEF Inductive
<1>3. PoolGood'
  BY PoolKept DEF Inductive
<1>4. fault' = "none" => FaultsExplained'
  BY DEF FaultsExplained
<1> QED BY <1>1, <1>2, <1>3, <1>4 DEF Inductive

(* Koala_Add_Package                                                       *)
LEMMA AddPackageStep ==
  ASSUME Inductive, Running, NEW path \in Paths, NEW p \in Pkgs, AddPackage(path, p)
  PROVE  Inductive'
<1>1. CASE Found(path)
  BY <1>1, AnswerStep DEF AddPackage, Answer, Running, Inductive, PoolGood
<1>2. CASE ~ Found(path)
  <2>1. p \in Made /\ GoodPackage(pkg[p])
    BY PackageIs DEF AddPackage, Inductive
  <2> QED BY <1>2, <2>1, EnterStep DEF AddPackage
<1> QED BY <1>1, <1>2

(* Koala_Get_Package                                                       *)
LEMMA GetKnownStep ==
  ASSUME Inductive, Running, NEW path \in Paths, GetKnown(path)
  PROVE  Inductive'
<1>0. misuse \in BOOLEAN
  BY DEF Inductive, PoolGood
<1>1. CASE IsLeaf(path)
  BY <1>0, <1>1, AnswerStep DEF GetKnown, Answer, Running
<1>2. CASE ~ IsLeaf(path)
  <2>1. fault' = "inner_node" /\ UNCHANGED <<nodes, pkg, variables, misuse>>
    BY <1>2 DEF GetKnown, Fail
  <2>2. PackagesGood' /\ TreeGood' /\ PoolGood' /\ Leaves' = Leaves
    BY <1>0, <2>1, AnswerStep
  <2>3. path \in DOMAIN nodes /\ path # <<>> /\ ~ nodes[path].leaf
    BY <1>2, FoundIs, PathsAre DEF GetKnown, IsLeaf, Leaves, Inductive
  <2>4. \E a \in Leaves : IsPrefix(path, a) /\ a # path
    BY <2>3 DEF Inductive, TreeGood, NodeGood
  <2>5. Overlap'
    BY <2>2, <2>4 DEF Overlap
  <2> QED BY <2>1, <2>2, <2>5 DEF Inductive, FaultsExplained
<1> QED BY <1>1, <1>2

LEMMA GetUnknownStep ==
  ASSUME Inductive, Running, NEW path \in Paths, GetUnknown(path)
  PROVE  Inductive'
<1>0. misuse \in BOOLEAN
  BY DEF Inductive, PoolGood
<1>1. CASE Images[path] = None
  BY <1>0, <1>1, AnswerStep DEF GetUnknown, Answer, Running
<1>2. CASE Images[path] # None /\ HasConst(Images[path])
  <2>1. fault' = "const_without_value" /\ UNCHANGED <<nodes, pkg, variables, misuse>>
    BY <1>2 DEF GetUnknown, Fail
  <2>2. PackagesGood' /\ TreeGood' /\ PoolGood'
    BY <1>0, <2>1, AnswerStep
  <2>3. FaultsExplained'
    BY <1>2, <2>1 DEF FaultsExplained
  <2> QED BY <2>2, <2>3 DEF Inductive
<1>3. CASE Images[path] # None /\ ~ HasConst(Images[path])
  <2>1. PICK p \in Pkgs : Enter(path, p, FromImage(Images[path]), <<"path", path, p>>)
    BY <1>3 DEF GetUnknown
  <2>2. GoodPackage(FromImage(Images[path]))
    BY <1>3, PackagesAssumption, ImageGood
  <2>3. ~ Found(path)
    BY DEF GetUnknown
  <2> QED BY <2>1, <2>2, <2>3, EnterStep
<1> QED BY <1>1, <1>2, <1>3

(* A variable of a package has a tuple, unless the calls were out of order *)
(* or no package with variables was entered yet.                           *)
LEMMA TupleIs ==
  ASSUME Inductive, NEW p \in Made, NEW name \in Members, Has(p, name, "var")
  PROVE  /\ ~ misuse /\ p \in Registered => HasTuple(p) /\ Holds(p, name)
         /\ ~ misuse /\ ~ HasTuple(p) => variables = <<>> /\ ~ Made \subseteq Registered
<1> USE DEF Inductive
<1>1. /\ name \in DOMAIN pkg[p].mtbl /\ pkg[p].mtbl[name].at \in Nat /\ pkg[p].nrvars \in Nat
      /\ pkg[p].mtbl[name].at < pkg[p].nrvars /\ pkg[p].nrvars > 0
  BY PackageIs DEF Has
<1>2. variables \in Seq(Seq(Values \cup {None})) /\ Len(variables) \in Nat
  BY DEF PoolGood
<1>3. ASSUME ~ misuse, p \in Registered PROVE HasTuple(p) /\ Holds(p, name)
  <2>1. pkg[p].index \in 0 .. Len(variables) - 1 /\ Len(variables[pkg[p].index + 1]) = pkg[p].nrvars
    BY <1>1, <1>3 DEF PoolGood, HasOwnTuple
  <2>2. pkg[p].index + 1 \in 1 .. Len(variables)
    BY <1>2, <2>1
  <2>3. variables[pkg[p].index + 1] \in Seq(Values \cup {None})
    BY <1>2, <2>2
  <2>4. DOMAIN variables[pkg[p].index + 1] = 1 .. pkg[p].nrvars
    BY <2>1, <2>3
  <2> QED BY <1>1, <2>1, <2>4 DEF HasTuple, Holds
<1>4. ASSUME ~ misuse, ~ HasTuple(p) PROVE variables = <<>> /\ ~ Made \subseteq Registered
  <2>1. p \notin Registered
    BY <1>3, <1>4
  <2>2. pkg[p].index = 0
    BY <2>1 DEF PoolGood
  <2>3. Len(variables) = 0
    BY <1>2, <1>4, <2>2 DEF HasTuple
  <2> QED BY <1>2, <2>1, <2>3
<1> QED BY <1>3, <1>4

(* Access to a package that has no tuple.                                  *)
LEMMA NoTupleStep ==
  ASSUME Inductive, NEW p \in Made, NEW name \in Members, Has(p, name, "var"), ~ HasTuple(p), Fail("no_tuple")
  PROVE  Inductive'
<1>1. fault' = "no_tuple" /\ UNCHANGED <<nodes, pkg, variables, misuse>> /\ misuse \in BOOLEAN
  BY DEF Fail, Inductive, PoolGood
<1>2. PackagesGood' /\ TreeGood' /\ PoolGood' /\ Made' = Made /\ Registered' = Registered
  BY <1>1, AnswerStep
<1>3. misuse \/ (variables = <<>> /\ ~ Made \subseteq Registered)
  BY TupleIs
<1>4. FaultsExplained'
  BY <1>1, <1>2, <1>3 DEF FaultsExplained
<1> QED BY <1>2, <1>4 DEF Inductive

(* A fault that explains itself.                                           *)
LEMMA OtherFaultStep ==
  ASSUME Inductive, NEW why \in {"no_variable", "no_member"}, Fail(why)
  PROVE  Inductive'
<1>1. fault' = why /\ UNCHANGED <<nodes, pkg, variables, misuse>> /\ misuse \in BOOLEAN
  BY DEF Fail, Inductive, PoolGood
<1>2. PackagesGood' /\ TreeGood' /\ PoolGood'
  BY <1>1, AnswerStep
<1>3. FaultsExplained'
  BY <1>1 DEF FaultsExplained
<1> QED BY <1>2, <1>3 DEF Inductive

(* The place of a variable in the pool.                                    *)
LEMMA SlotIs ==
  ASSUME Inductive, NEW p \in Made, NEW name \in Members, Has(p, name, "var"), HasTuple(p), Holds(p, name)
  PROVE  LET i == pkg[p].index + 1  j == pkg[p].mtbl[name].at + 1 IN
         /\ Slot(<<p, name>>) = <<i, j>> /\ i \in 1 .. Len(variables)
         /\ variables[i] \in Seq(Values \cup {None}) /\ j \in 1 .. Len(variables[i])
         /\ Slot(<<p, name>>)[1] = i /\ Slot(<<p, name>>)[2] = j
<1>1. variables \in Seq(Seq(Values \cup {None})) /\ Len(variables) \in Nat
  BY DEF Inductive, PoolGood
<1>2. pkg[p].index + 1 \in 1 .. Len(variables)
  BY <1>1 DEF HasTuple
<1>3. variables[pkg[p].index + 1] \in Seq(Values \cup {None})
  BY <1>1, <1>2
<1>4. pkg[p].mtbl[name].at + 1 \in 1 .. Len(variables[pkg[p].index + 1])
  BY <1>3 DEF Holds
<1> QED BY <1>2, <1>3, <1>4 DEF Slot

(* Koala_Set_Value                                                         *)
LEMMA SetValueStep ==
  ASSUME Inductive, Running, NEW p \in Pkgs, NEW name \in Members, NEW x \in Values, SetValue(p, name, x)
  PROVE  Inductive'
<1> USE DEF Inductive
<1>0. p \in Made /\ misuse \in BOOLEAN
  BY DEF SetValue, PoolGood
<1>1. CASE ~ Has(p, name, "var")
  BY <1>1, OtherFaultStep DEF SetValue
<1>2. CASE Has(p, name, "var") /\ ~ HasTuple(p)
  BY <1>0, <1>2, NoTupleStep DEF SetValue
<1>3. CASE Has(p, name, "var") /\ HasTuple(p) /\ ~ Holds(p, name)
  <2>1. UNCHANGED <<nodes, pkg, variables, fault>> /\ misuse' = (misuse \/ p \notin Registered)
    BY <1>3 DEF SetValue, Answer, Used
  <2> QED BY <1>0, <2>1, AnswerStep DEF Running
<1>4. CASE Has(p, name, "var") /\ HasTuple(p) /\ Holds(p, name)
  <2> DEFINE i == pkg[p].index + 1
             j == pkg[p].mtbl[name].at + 1
  <2>1. /\ i \in 1 .. Len(variables) /\ variables[i] \in Seq(Values \cup {None}) /\ j \in 1 .. Len(variables[i])
        /\ Slot(<<p, name>>)[1] = i /\ Slot(<<p, name>>)[2] = j
    BY <1>0, <1>4, SlotIs
  <2>2. /\ variables' = [variables EXCEPT ![i][j] = x] /\ UNCHANGED <<nodes, pkg, fault>>
        /\ misuse' = (misuse \/ p \notin Registered)
    BY <1>4, <2>1 DEF SetValue, Used
  <2> HIDE DEF i, j
  <2>3. variables \in Seq(Seq(Values \cup {None})) /\ Len(variables) \in Nat
    BY DEF PoolGood
  <2>4. [variables[i] EXCEPT ![j] = x] \in Seq(Values \cup {None}) /\ Len([variables[i] EXCEPT ![j] = x]) = Len(variables[i])
    <3> DEFINE t == variables[i]
    <3> HIDE DEF t
    <3>1. t \in Seq(Values \cup {None}) /\ j \in 1 .. Len(t)
      BY <2>1 DEF t
    <3>2. [t EXCEPT ![j] = x] \in Seq(Values \cup {None}) /\ Len([t EXCEPT ![j] = x]) = Len(t)
      BY <3>1
    <3> QED BY <3>2 DEF t
  <2>5. variables' \in Seq(Seq(Values \cup {None})) /\ Len(variables') = Len(variables)
    BY <2>1, <2>2, <2>3, <2>4
  <2>6. \A n \in 1 .. Len(variables) : Len(variables'[n]) = Len(variables[n])
    BY <2>1, <2>2, <2>3, <2>4
  <2>7. PackagesGood' /\ Made' = Made
    BY <2>2, PackagesKept
  <2>8. TreeGood' /\ Leaves' = Leaves /\ Registered' = Registered
    BY <2>2, <2>7, TreeKept
  <2>9. FaultsExplained'
    BY <2>2 DEF FaultsExplained, Running
  <2>10. ASSUME ~ misuse', NEW q \in Registered PROVE HasOwnTuple(q)'
    <3>1. ~ misuse /\ HasOwnTuple(q)
      BY <2>2, <2>10 DEF PoolGood
    <3>2. pkg[q].index \in 0 .. Len(variables) - 1 => pkg[q].index + 1 \in 1 .. Len(variables)
      BY <2>3
    <3> QED BY <2>2, <2>5, <2>6, <2>8, <3>1, <3>2 DEF HasOwnTuple
  <2>11. ~ misuse' => OneLeafEach'
    BY <2>2, <2>8 DEF PoolGood, OneLeafEach
  <2>12. misuse' \in BOOLEAN
    BY <2>2
  <2>13. /\ \A q \in Made' : pkg'[q].index \in -1 .. Len(variables')
         /\ \A q \in Made' \ Registered' : pkg'[q].index = 0
    BY <2>2, <2>5, <2>7, <2>8 DEF PoolGood
  <2>14. PoolGood'
    BY <2>5, <2>8, <2>10, <2>11, <2>12, <2>13 DEF PoolGood
  <2> QED BY <2>7, <2>8, <2>9, <2>14
<1> QED BY <1>1, <1>2, <1>3, <1>4

(* Koala_Get_Value                                                         *)
LEMMA GetValueStep ==
  ASSUME Inductive, Running, NEW p \in Pkgs, NEW name \in Members, GetValue(p, name)
  PROVE  Inductive'
<1>0. p \in Made /\ Has(p, name, "var") /\ misuse \in BOOLEAN
  BY DEF GetValue, Inductive, PoolGood
<1>1. CASE ~ HasTuple(p)
  BY <1>0, <1>1, NoTupleStep DEF GetValue
<1>2. CASE HasTuple(p)
  <2>1. UNCHANGED <<nodes, pkg, variables, fault>> /\ misuse' = (misuse \/ p \notin Registered)
    BY <1>2 DEF GetValue, Answer, Used
  <2> QED BY <1>0, <2>1, AnswerStep DEF Running
<1> QED BY <1>1, <1>2

(* Fini_PkgState                                                           *)
LEMMA FinalizeStep ==
  ASSUME Inductive, Finalize
  PROVE  Inductive'
<1>1. UNCHANGED <<nodes, pkg, variables, misuse>> /\ misuse \in BOOLEAN
  BY DEF Finalize, Inductive, PoolGood
<1>2. PackagesGood' /\ TreeGood' /\ PoolGood'
  BY <1>1, AnswerStep
<1>3. fault' = "finalized" \/ (fault' = "double_free" /\ ~ OneLeafEach)
  BY DEF Finalize, OneLeafEach
<1>4. fault' = "double_free" => misuse
  BY <1>3 DEF Inductive, PoolGood
<1>5. FaultsExplained'
  BY <1>1, <1>3, <1>4 DEF FaultsExplained
<1> QED BY <1>2, <1>5 DEF Inductive

LEMMA NextInductive == Inductive /\ [Next]_vars => Inductive'
<1> SUFFICES ASSUME Inductive, [Next]_vars PROVE Inductive'
  OBVIOUS
<1>1. ASSUME Running, NEW path \in Paths, GetKnown(path) \/ GetUnknown(path) PROVE Inductive'
  BY <1>1, GetKnownStep, GetUnknownStep
<1>2. ASSUME Running, NEW p \in Pkgs, New(p) PROVE Inductive'
  BY <1>2, NewStep
<1>3. ASSUME Running, NEW p \in Pkgs, NEW path \in Paths, AddPackage(path, p) PROVE Inductive'
  BY <1>3, AddPackageStep
<1>4. ASSUME Running, NEW p \in Pkgs, NEW name \in Members, AddVar(p, name) \/ AddOther(p, name, "func") PROVE Inductive'
  BY <1>4, AddVarStep, AddOtherStep DEF Kinds
<1>5. ASSUME Running, NEW p \in Pkgs, NEW name \in Members, GetValue(p, name) PROVE Inductive'
  BY <1>5, GetValueStep
<1>6. ASSUME Running, NEW p \in Pkgs, NEW name \in Members, NEW x \in Values, SetValue(p, name, x) PROVE Inductive'
  BY <1>6, SetValueStep
<1>7. ASSUME Running, NEW p \in Pkgs, NEW name \in Members, GetMember(p, name, "func") PROVE Inductive'
  BY <1>7, OtherFaultStep DEF GetMember
<1>8. ASSUME Running, Finalize PROVE Inductive'
  BY <1>8, FinalizeStep
<1>9. CASE UNCHANGED vars
  <2>1. UNCHANGED <<nodes, pkg, variables, fault, misuse>> /\ misuse \in BOOLEAN
    BY <1>9 DEF vars, Inductive, PoolGood
  <2>2. PackagesGood' /\ TreeGood' /\ PoolGood' /\ Made' = Made /\ Leaves' = Leaves /\ Registered' = Registered
    BY <2>1, AnswerStep
  <2>3. FaultsExplained'
    BY <2>1, <2>2 DEF Inductive, FaultsExplained, Overlap
  <2> QED BY <2>2, <2>3 DEF Inductive
<1> QED BY <1>1, <1>2, <1>3, <1>4, <1>5, <1>6, <1>7, <1>8, <1>9 DEF Next, Load, Declare, Access, Stopped

(* The invariant of the tree, the packages and the pool.                   *)
THEOREM InvariantHolds == Spec => []Inductive
BY InitInductive, NextInductive, PTL DEF Spec

-----------------------------------------------------------------------------
(* What the invariant says of the system *)

LEMMA InductiveTypes == ASSUME Inductive PROVE TypeOK
<1>1. \A path \in DOMAIN nodes : nodes[path] \in [leaf : BOOLEAN, data : Pkgs \cup {None}]
  BY DEF Inductive, TreeGood
<1>2. ASSUME NEW p \in Made
      PROVE  /\ DOMAIN pkg[p].mtbl \subseteq Members /\ pkg[p].nrvars \in 0 .. MaxMembers
             /\ pkg[p].index \in -1 .. Len(variables)
  <2>1. DOMAIN pkg[p].mtbl \subseteq Members /\ pkg[p].nrvars \in Nat /\ pkg[p].added \in Nat /\ GoodPackage(pkg[p])
    BY PackageIs DEF Inductive
  <2>2. pkg[p].nrvars \in 0 .. MaxMembers
    BY <2>1, PackagesAssumption DEF GoodPackage
  <2> QED BY <2>1, <2>2 DEF Inductive, PoolGood
<1> QED BY <1>1, <1>2 DEF Inductive, PoolGood, TypeOK

(* A node that is no leaf has a node right below it: the next one on the   *)
(* way to a leaf.                                                          *)
LEMMA InductiveClosed == ASSUME Inductive PROVE Closed
<1> USE DEF Inductive
<1>1. SUFFICES ASSUME NEW path \in DOMAIN nodes \ {<<>>}
               PROVE  /\ Front(path) \in DOMAIN nodes /\ ~ nodes[Front(path)].leaf
                      /\ nodes[path].leaf <=> nodes[path].data \in Made
                      /\ ~ nodes[path].leaf => \E other \in DOMAIN nodes : Len(other) = Len(path) + 1
                                                                           /\ IsPrefix(path, other)
  BY DEF Closed
<1>2. NodeGood(path)
  BY DEF TreeGood
<1>3. None \notin Made
  BY PackagesAssumption DEF Made
<1>4. nodes[path].leaf \in BOOLEAN
  BY DEF TreeGood
<1>5. nodes[path].leaf <=> nodes[path].data \in Made
  BY <1>2, <1>3, <1>4 DEF NodeGood
<1>6. ASSUME ~ nodes[path].leaf
      PROVE  \E other \in DOMAIN nodes : Len(other) = Len(path) + 1 /\ IsPrefix(path, other)
  <2>1. PICK a \in Leaves : IsPrefix(path, a) /\ a # path
    BY <1>2, <1>6 DEF NodeGood
  <2>2. path \in Seq(Names) /\ a \in DOMAIN nodes /\ a \in Seq(Names)
    BY LeavesAre DEF TreeGood
  <2> DEFINE n == Len(path) + 1
             s == SubSeq(a, 1, n)
  <2>3. Len(path) \in 0 .. Len(a) /\ path = SubSeq(a, 1, Len(path)) /\ Len(a) \in Nat
    BY <2>1, <2>2, PrefixIs
  <2>4. Len(path) # Len(a)
    BY <2>1, <2>2, <2>3, PrefixFacts
  <2>5. n \in 0 .. Len(a) /\ Len(path) \in 0 .. n
    BY <2>3, <2>4
  <2>6. s \in DOMAIN nodes /\ Len(s) = n /\ SubSeq(s, 1, Len(path)) = SubSeq(a, 1, Len(path))
    BY <2>2, <2>5, PrefixClosed, PrefixFacts
  <2>7. IsPrefix(path, s)
    BY <2>3, <2>5, <2>6 DEF IsPrefix
  <2> QED BY <2>6, <2>7
<1> QED BY <1>2, <1>5, <1>6 DEF NodeGood

(* Two variables with one slot are in one package, and have one place.     *)
LEMMA InductiveSlots == ASSUME Inductive PROVE OwnSlots
<1> USE DEF Inductive
<1> DEFINE V == {v \in Registered \X Members : Has(v[1], v[2], "var")}
<1>1. SUFFICES ASSUME ~ misuse
               PROVE  /\ \A v \in V : HasTuple(v[1]) /\ Holds(v[1], v[2])
                      /\ \A v, w \in V : Slot(v) = Slot(w) => v = w
  BY DEF OwnSlots
<1>2. ASSUME NEW v \in V
      PROVE  /\ v[1] \in Registered /\ v[1] \in Made /\ v[2] \in Members /\ v = <<v[1], v[2]>>
             /\ Has(v[1], v[2], "var") /\ HasTuple(v[1]) /\ Holds(v[1], v[2])
  <2>1. v[1] \in Registered /\ v[2] \in Members /\ v = <<v[1], v[2]>> /\ Has(v[1], v[2], "var")
    OBVIOUS
  <2>2. v[1] \in Made
    BY <2>1, LeavesAre
  <2> HIDE DEF V
  <2> QED BY <1>1, <2>1, <2>2, TupleIs
<1>3. ASSUME NEW v \in V, NEW w \in V, Slot(v) = Slot(w) PROVE v = w
  <2> DEFINE p == v[1]  q == w[1]  m == v[2]  n == w[2]
  <2>1. /\ p \in Registered /\ p \in Made /\ m \in Members /\ v = <<p, m>> /\ Has(p, m, "var")
        /\ q \in Registered /\ q \in Made /\ n \in Members /\ w = <<q, n>> /\ Has(q, n, "var")
    BY <1>2
  <2>2. pkg[p].index + 1 = pkg[q].index + 1 /\ pkg[p].mtbl[m].at + 1 = pkg[q].mtbl[n].at + 1
    BY <1>3 DEF Slot
  <2> HIDE DEF p, q, m, n, V
  <2>3. /\ m \in DOMAIN pkg[p].mtbl /\ pkg[p].mtbl[m].kind = "var" /\ pkg[p].mtbl[m].at \in Nat
        /\ pkg[p].nrvars > 0 /\ pkg[p].index \in Int
    BY <2>1, PackageIs DEF Has
  <2>4. /\ n \in DOMAIN pkg[q].mtbl /\ pkg[q].mtbl[n].kind = "var" /\ pkg[q].mtbl[n].at \in Nat
        /\ pkg[q].nrvars > 0 /\ pkg[q].index \in Int
    BY <2>1, PackageIs DEF Has
  <2>5. pkg[p].index = pkg[q].index /\ pkg[p].mtbl[m].at = pkg[q].mtbl[n].at
    BY <2>2, <2>3, <2>4
  <2>6. p = q
    BY <1>1, <2>1, <2>3, <2>4, <2>5 DEF PoolGood, HasOwnTuple
  <2>7. GoodPackage(pkg[p])
    BY <2>1, PackageIs
  <2>8. m = n
    BY <2>3, <2>4, <2>5, <2>6, <2>7 DEF GoodPackage
  <2> QED BY <2>1, <2>6, <2>8
<1> QED BY <1>2, <1>3

(* The tree and the pool agree in every state: a node hangs on inner nodes *)
(* and leads to a package, and, if the calls come in order, every variable *)
(* of a package in the tree has a slot of its own (Add_PkgNode,            *)
(* Koala_Add_Package).                                                     *)
THEOREM ConsistentHolds == Spec => []Consistent
<1>1. Inductive => Consistent
  BY InductiveTypes, InductiveClosed, InductiveSlots DEF Consistent
<1> QED BY <1>1, InvariantHolds, PTL

(* A program that stops has called for a package above or below another    *)
(* one, or for an image with a constant or a member of another kind, or    *)
(* made its calls out of order (the assertions of Add_PkgNode and          *)
(* Koala_Get_Package, Koala_Set_Value, Fini_PkgState).                     *)
THEOREM FaultsExplainedHolds == Spec => []FaultsExplained
<1>1. Inductive => FaultsExplained
  BY DEF Inductive
<1> QED BY <1>1, InvariantHolds, PTL

-----------------------------------------------------------------------------
(* The store of paths and variables that the packages implement *)

(* As long as the calls come in order, what is stored is the value of each *)
(* variable of each package in the tree.                                   *)
Named == {v \in Registered \X Members : Has(v[1], v[2], "var")}
Stored == {v \in Registered \X Members : Has(v[1], v[2], "var") /\ HasTuple(v[1]) /\ Holds(v[1], v[2])}
Store == [v \in Stored |-> variables[Slot(v)[1]][Slot(v)[2]]]
Bound == [path \in Leaves |-> nodes[path].data]

LEMMA StoredIs == ASSUME Inductive, ~ misuse PROVE Stored = Named
<1>1. ASSUME NEW v \in Named PROVE HasTuple(v[1]) /\ Holds(v[1], v[2])
  BY InductiveSlots DEF OwnSlots, Named
<1> QED BY <1>1 DEF Stored, Named

LEMMA NamedIs ==
  ASSUME Inductive, NEW v \in Named
  PROVE  /\ v[1] \in Registered /\ v[1] \in Made /\ v[1] \in Pkgs /\ v[2] \in Members /\ v = <<v[1], v[2]>>
         /\ Has(v[1], v[2], "var")
<1>1. v[1] \in Registered /\ v[2] \in Members /\ v = <<v[1], v[2]>> /\ Has(v[1], v[2], "var")
  BY DEF Named
<1> QED BY <1>1, LeavesAre DEF Inductive, Made

LEMMA StoreInitHolds == Init => Store0!Init
<1> SUFFICES ASSUME Init PROVE Store0!Init
  OBVIOUS
<1> USE DEF Init
<1>1. Leaves = {} /\ Registered = {}
  BY DEF Leaves, Registered
<1>2. \A S : S = {} => [x \in S |-> nodes[x].data] = <<>>
  OBVIOUS
<1>3. \A S : S = {} => [v \in S |-> variables[Slot(v)[1]][Slot(v)[2]]] = <<>>
  OBVIOUS
<1>4. {v \in Registered \X Members : Has(v[1], v[2], "var") /\ HasTuple(v[1]) /\ Holds(v[1], v[2])} = {}
  BY <1>1
<1>5. Running /\ ~ misuse
  BY DEF Running
<1> QED BY <1>1, <1>2, <1>3, <1>4, <1>5 DEF Store0!Init

AllStored == ~ misuse => Stored = Named

LEMMA StoredIsNext == Inductive' => AllStored'
<1>1. Inductive => AllStored
  BY StoredIs DEF AllStored
<1> QED BY <1>1, PTL

(* A program that stops, or breaks the order of calls, promises nothing.   *)
LEMMA NothingKept ==
  ASSUME misuse' \/ ~ Running'
  PROVE  [Store0!Next]_Store0!storeVars
<1>1. (Running /\ ~ misuse)' = FALSE
  OBVIOUS
<1> QED BY <1>1 DEF Store0!Next

(* Bound and Store are what the store is of.                               *)
LEMMA AsksStore ==
  ASSUME Running, ~ misuse, Running', ~ misuse', Bound' = Bound, Store' = Store,
         \/ \E path \in Leaves : ret' \in {<<"path", path, nodes[path].data>>, <<"add", path, -1>>}
         \/ \E path \in Paths \ Leaves : ret' \in {<<"path", path, None>>, <<"add", path, -1>>}
         \/ \E v \in Stored : ret' = <<"get", v, Store[v]>>
         \/ ret' = <<"other", None, 0>>
  PROVE  [Store0!Next]_Store0!storeVars
<1>1. /\ DOMAIN Bound = Leaves /\ \A path \in Leaves : Bound[path] = nodes[path].data
      /\ DOMAIN Store = Stored
  BY DEF Bound, Store
<1>2. (Running /\ ~ misuse) /\ (Running /\ ~ misuse)' = TRUE
  OBVIOUS
<1>3. \/ \E path \in DOMAIN Bound : ret' \in {<<"path", path, Bound[path]>>, <<"add", path, -1>>}
      \/ \E path \in Paths \ DOMAIN Bound : ret' \in {<<"path", path, None>>, <<"add", path, -1>>}
      \/ \E v \in DOMAIN Store : ret' = <<"get", v, Store[v]>>
      \/ ret' = <<"other", None, 0>>
  BY <1>1
<1>4. Store0!Ask
  BY <1>3 DEF Store0!Ask, Bound, Store, Stored
<1> QED BY <1>2, <1>4 DEF Store0!Next

(* Nothing is bound or stored when the packages in the tree keep their     *)
(* variables and these their slots.                                        *)
LEMMA StoreKept ==
  ASSUME Inductive, Inductive', ~ misuse, ~ misuse', UNCHANGED <<nodes, variables>>, Registered' = Registered,
         \A q \in Registered :
           /\ pkg'[q].index = pkg[q].index
           /\ \A n : /\ (n \in DOMAIN pkg'[q].mtbl /\ pkg'[q].mtbl[n].kind = "var")
                          <=> (n \in DOMAIN pkg[q].mtbl /\ pkg[q].mtbl[n].kind = "var")
                     /\ (n \in DOMAIN pkg[q].mtbl /\ pkg[q].mtbl[n].kind = "var")
                          => pkg'[q].mtbl[n].at = pkg[q].mtbl[n].at
  PROVE  Bound' = Bound /\ Store' = Store /\ Stored' = Stored
<1>1. Bound' = Bound
  BY DEF Bound, Leaves
<1>2. Named' = Named
  BY DEF Named, Has
<1>3. Stored = Named /\ Stored' = Stored
  BY <1>2, StoredIs, StoredIsNext DEF AllStored
<1>4. ASSUME NEW v \in Stored PROVE variables'[Slot(v)[1]'][Slot(v)[2]'] = variables[Slot(v)[1]][Slot(v)[2]]
  <2>1. v[1] \in Registered /\ Has(v[1], v[2], "var")
    BY <1>3, NamedIs
  <2>2. pkg'[v[1]].index = pkg[v[1]].index /\ pkg'[v[1]].mtbl[v[2]].at = pkg[v[1]].mtbl[v[2]].at
    BY <2>1 DEF Has
  <2>3. Slot(v)' = Slot(v)
    BY <2>2 DEF Slot
  <2> QED BY <2>3
<1>5. Store' = Store
  <2>1. Store' = [v \in Stored' |-> variables'[Slot(v)[1]'][Slot(v)[2]']]
    BY DEF Store
  <2>2. Store = [v \in Stored |-> variables[Slot(v)[1]][Slot(v)[2]]]
    BY DEF Store
  <2>3. [v \in Stored' |-> variables'[Slot(v)[1]'][Slot(v)[2]']] = [v \in Stored |-> variables[Slot(v)[1]][Slot(v)[2]]]
    BY <1>3, <1>4
  <2> QED BY <2>1, <2>2, <2>3
<1> QED BY <1>1, <1>3, <1>5

(* The packages and the tree stay, and a call answers.                     *)
LEMMA StoreAnswers ==
  ASSUME Inductive, Inductive', Running, UNCHANGED <<nodes, pkg, variables>>, ~ misuse,
         \/ \E path \in Leaves : ret' \in {<<"path", path, nodes[path].data>>, <<"add", path, -1>>}
         \/ \E path \in Paths \ Leaves : ret' \in {<<"path", path, None>>, <<"add", path, -1>>}
         \/ \E v \in Stored : ret' = <<"get", v, Store[v]>>
         \/ ret' = <<"other", None, 0>>
  PROVE  [Store0!Next]_Store0!storeVars
<1>1. CASE misuse' \/ ~ Running'
  BY <1>1, NothingKept
<1>2. CASE ~ misuse' /\ Running'
  <2>1. Registered' = Registered
    BY DEF Registered, Leaves
  <2>2. Bound' = Bound /\ Store' = Store
    BY <1>2, <2>1, StoreKept
  <2> QED BY <1>2, <2>2, AsksStore
<1> QED BY <1>1, <1>2

(* Pkg_New, Pkg_Add_Var and the other Pkg_Add_*.                           *)
LEMMA StoreMembers ==
  ASSUME Inductive, Inductive', Running, ~ misuse, NEW p \in Pkgs, Registered' = Registered,
         \/ New(p)
         \/ \E name \in Members : AddVar(p, name) \/ AddOther(p, name, "func")
  PROVE  [Store0!Next]_Store0!storeVars
<1>1. CASE misuse' \/ ~ Running'
  BY <1>1, NothingKept
<1>2. CASE ~ misuse' /\ Running'
  <2>0. Registered \subseteq Made /\ pkg \in [Pkgs -> Package \cup {None}]
    BY LeavesAre DEF Inductive, PackagesGood
  <2>1. UNCHANGED <<nodes, variables>> /\ ret' = <<"other", None, 0>> /\ \A q \in Pkgs \ {p} : pkg'[q] = pkg[q]
    BY <2>0 DEF New, AddVar, AddOther, AddMember
  <2>2. p \notin Registered \/ \E name \in Members : p \in Made /\ pkg'[p] = WithOther(pkg[p], name, "func")
    BY <1>2, <2>0 DEF New, AddVar, AddOther, AddMember, Made
  <2>3. ASSUME NEW q \in Registered
        PROVE  /\ pkg'[q].index = pkg[q].index
               /\ \A n : /\ (n \in DOMAIN pkg'[q].mtbl /\ pkg'[q].mtbl[n].kind = "var")
                              <=> (n \in DOMAIN pkg[q].mtbl /\ pkg[q].mtbl[n].kind = "var")
                         /\ (n \in DOMAIN pkg[q].mtbl /\ pkg[q].mtbl[n].kind = "var")
                              => pkg'[q].mtbl[n].at = pkg[q].mtbl[n].at
    <3>1. CASE q # p
      <4>1. pkg'[q] = pkg[q]
        BY <2>0, <2>1, <3>1 DEF Made
      <4> QED BY <4>1
    <3>2. CASE q = p
      <4>1. PICK name \in Members : p \in Made /\ pkg'[p] = WithOther(pkg[p], name, "func")
        BY <2>2, <3>2
      <4> DEFINE x == [kind |-> "func", at |-> 0]
                 u == Inserted(pkg[p].mtbl, name, x)
      <4>2. pkg[p] \in Package /\ pkg[p].mtbl \in Tables
        BY <4>1, PackageIs DEF Inductive
      <4>3. x \in [kind : Kinds, at : Nat] /\ x.kind # "var"
        BY DEF Kinds
      <4>4. pkg'[p].mtbl = u /\ pkg'[p].index = pkg[p].index
        <5>1. pkg[p] = [mtbl |-> pkg[p].mtbl, nrvars |-> pkg[p].nrvars, index |-> pkg[p].index, added |-> pkg[p].added]
          BY <4>2 DEF Package
        <5>2. /\ WithOther(pkg[p], name, "func").mtbl = u
              /\ WithOther(pkg[p], name, "func").index = pkg[p].index
          BY <5>1 DEF WithOther
        <5> QED BY <4>1, <5>2
      <4> HIDE DEF x
      <4>5. /\ DOMAIN u = DOMAIN pkg[p].mtbl \cup {name}
            /\ \A m \in DOMAIN pkg[p].mtbl : u[m] = pkg[p].mtbl[m]
            /\ name \notin DOMAIN pkg[p].mtbl => u[name] = x
        BY <4>2, <4>3, InsertedIs
      <4> HIDE DEF u
      <4> QED BY <3>2, <4>3, <4>4, <4>5
    <3> QED BY <3>1, <3>2
  <2>4. Bound' = Bound /\ Store' = Store
    BY <1>2, <2>1, <2>3, StoreKept
  <2> QED BY <1>2, <2>1, <2>4, AsksStore
<1> QED BY <1>1, <1>2

(* Add_PkgNode binds the path, and the pool has the new variables, all of  *)
(* them without a value, besides those it had.                             *)
LEMMA StoreEnter ==
  ASSUME Inductive, Inductive', Running, ~ misuse, NEW path \in Paths, ~ Found(path), NEW p \in Pkgs,
         NEW k, GoodPackage(k), NEW answer \in {<<"add", path, 0>>, <<"path", path, p>>},
         Enter(path, p, k, answer)
  PROVE  [Store0!Next]_Store0!storeVars
<1>1. CASE misuse' \/ ~ Running'
  BY <1>1, NothingKept
<1>2. CASE ~ misuse' /\ Running'
  <2> DEFINE w == [k EXCEPT !.index = IndexOf(k)]
  <2>1. ~ BelowLeaf(path)
    BY <1>2 DEF Enter, Fail, Running
  <2>2. /\ nodes' = Added(path, p) /\ variables' = Pool(k) /\ pkg' = [pkg EXCEPT ![p] = w]
        /\ p \notin Registered /\ ret' = answer
    BY <1>2, <2>1 DEF Enter
  <2>3. /\ Len(variables) \in Nat
        /\ \A i \in 1 .. Len(variables) : variables'[i] = variables[i]
        /\ k.nrvars > 0 => IndexOf(k) = Len(variables) /\ variables'[IndexOf(k) + 1] = [i \in 1 .. k.nrvars |-> None]
    BY <2>2, PoolIs DEF Inductive
  <2>4. k \in Package /\ w.index = IndexOf(k) /\ w.mtbl = k.mtbl
    <3>1. k = [mtbl |-> k.mtbl, nrvars |-> k.nrvars, index |-> k.index, added |-> k.added] /\ k \in Package
      BY DEF GoodPackage, Package
    <3> QED BY <3>1
  <2>5. pkg \in [Pkgs -> Package \cup {None}] /\ Registered \subseteq Made /\ Made \subseteq Pkgs
    BY LeavesAre DEF Inductive, PackagesGood, Made
  <2>6. pkg'[p] = w /\ \A q \in Pkgs \ {p} : pkg'[q] = pkg[q]
    BY <2>2, <2>5
  <2> HIDE DEF w
  <2>7. Made \subseteq Made' /\ p \in Made'
    <3>1. p \in Made'
      <4>1. w # None
        <5>1. w \in Package
          <6>1. IndexOf(k) \in Int
            BY <2>3 DEF IndexOf
          <6>2. k = [mtbl |-> k.mtbl, nrvars |-> k.nrvars, index |-> k.index, added |-> k.added]
            BY <2>4 DEF Package
          <6> QED BY <2>4, <6>1, <6>2 DEF Package, w
        <5> QED BY <5>1, PackagesAssumption
      <4> QED BY <2>6, <4>1 DEF Made
    <3>2. ASSUME NEW q \in Made, q # p PROVE q \in Made'
      BY <2>6, <3>2 DEF Made
    <3> QED BY <3>1, <3>2
  <2>8. /\ Leaves' = Leaves \cup {path} /\ path \notin Leaves
        /\ Registered' = Registered \cup {p} /\ nodes'[path].data = p
        /\ \A a \in Leaves : nodes'[a] = nodes[a]
    BY <2>1, <2>2, <2>7, TreeAdded DEF Inductive
  <2>9. /\ DOMAIN Bound' = DOMAIN Bound \cup {path} /\ path \notin DOMAIN Bound /\ Bound'[path] = p
        /\ Store0!Agree(Bound, Bound')
    BY <2>8 DEF Bound, Store0!Agree
  <2>10. Stored = Named /\ Stored' = Named'
    BY <1>2, StoredIs, StoredIsNext DEF AllStored
  <2>11. ASSUME NEW v \in Stored PROVE v \in Stored' /\ Store'[v] = Store[v]
    <3>1. v[1] \in Registered /\ v[1] \in Made /\ v[2] \in Members /\ v = <<v[1], v[2]>> /\ Has(v[1], v[2], "var")
      BY <2>10, NamedIs
    <3>2. pkg'[v[1]] = pkg[v[1]]
      BY <2>2, <2>5, <2>6, <3>1
    <3>3. v \in Named'
      BY <2>8, <3>1, <3>2 DEF Named, Has
    <3>4. HasTuple(v[1]) /\ Holds(v[1], v[2])
      BY <3>1, TupleIs
    <3>5. Slot(<<v[1], v[2]>>)[1] \in 1 .. Len(variables)
      BY <3>1, <3>4, SlotIs
    <3>6. Slot(v)' = Slot(v)
      BY <3>2 DEF Slot
    <3>7. variables'[Slot(v)[1]] = variables[Slot(v)[1]]
      BY <2>3, <3>1, <3>5
    <3>8. Store'[v] = variables'[Slot(v)'[1]][Slot(v)'[2]]
      BY <2>10, <3>3 DEF Store
    <3>9. Store[v] = variables[Slot(v)[1]][Slot(v)[2]]
      BY DEF Store
    <3> QED BY <2>10, <3>3, <3>6, <3>7, <3>8, <3>9
  <2>12. ASSUME NEW v \in Stored', v \notin Stored PROVE v[1] = p /\ Store'[v] = None
    <3>1. /\ v[1] \in Registered' /\ v[2] \in Members /\ v = <<v[1], v[2]>>
          /\ v[2] \in DOMAIN pkg'[v[1]].mtbl /\ pkg'[v[1]].mtbl[v[2]].kind = "var"
      BY <2>10 DEF Named, Has
    <3>2. v[1] = p
      <4>1. SUFFICES ASSUME v[1] # p PROVE FALSE
        OBVIOUS
      <4>2. v[1] \in Registered /\ pkg'[v[1]] = pkg[v[1]]
        BY <2>5, <2>6, <2>8, <3>1, <4>1
      <4>3. v \in Named
        BY <3>1, <4>2 DEF Named, Has
      <4> QED BY <2>10, <2>12, <4>3
    <3>3. v[2] \in DOMAIN k.mtbl /\ k.mtbl[v[2]].kind = "var"
      BY <2>4, <2>6, <3>1, <3>2
    <3>4. k.nrvars \in Nat /\ k.mtbl[v[2]].at \in Nat /\ k.mtbl[v[2]].at < k.nrvars
      <4>1. k.mtbl \in Tables /\ k.nrvars \in Nat
        BY <2>4 DEF Package
      <4> QED BY <3>3, <4>1, TableIs DEF GoodPackage
    <3>5. /\ Slot(v)'[1] = IndexOf(k) + 1 /\ Slot(v)'[2] = k.mtbl[v[2]].at + 1
      BY <2>4, <2>6, <3>2 DEF Slot
    <3>6. k.mtbl[v[2]].at + 1 \in 1 .. k.nrvars /\ k.nrvars > 0
      BY <3>4
    <3>7. variables'[IndexOf(k) + 1][k.mtbl[v[2]].at + 1] = None
      BY <2>3, <3>6
    <3>8. Store'[v] = variables'[Slot(v)'[1]][Slot(v)'[2]]
      BY DEF Store
    <3> QED BY <3>2, <3>5, <3>7, <3>8
  <2>13. /\ Store0!Agree(Store, Store')
         /\ \A v \in DOMAIN Store' \ DOMAIN Store : v[1] = p /\ Store'[v] = None
    <3>1. DOMAIN Store = Stored /\ DOMAIN Store' = Stored'
      BY DEF Store
    <3> QED BY <2>11, <2>12, <3>1 DEF Store0!Agree
  <2>14. ret' \in {<<"add", path, 0>>, <<"path", path, p>>}
    BY <2>2
  <2>15. Store0!Bind(path, p)
    BY <2>9, <2>13, <2>14 DEF Store0!Bind, Bound, Store, Stored
  <2>16. (Running /\ ~ misuse) /\ (Running /\ ~ misuse)' = TRUE
    BY <1>2
  <2> QED BY <2>15, <2>16 DEF Store0!Next
<1> QED BY <1>1, <1>2

(* Koala_Set_Value puts a value into the slot of one variable, and no      *)
(* other variable has that slot.                                           *)
LEMMA StoreSet ==
  ASSUME Inductive, Inductive', Running, ~ misuse, NEW p \in Pkgs, NEW name \in Members, NEW x \in Values,
         SetValue(p, name, x)
  PROVE  [Store0!Next]_Store0!storeVars
<1>1. CASE misuse' \/ ~ Running'
  BY <1>1, NothingKept
<1>2. CASE ~ misuse' /\ Running'
  <2>1. /\ p \in Made /\ Has(p, name, "var") /\ HasTuple(p) /\ p \in Registered
    BY <1>2 DEF SetValue, Fail, Running, Used
  <2>2. Holds(p, name)
    BY <2>1, TupleIs
  <2> DEFINE v == <<p, name>>
  <2>3. /\ variables' = [variables EXCEPT ![Slot(v)[1]][Slot(v)[2]] = x]
        /\ ret' = <<"set", v, 0>> /\ UNCHANGED <<nodes, pkg>>
    BY <2>1, <2>2 DEF SetValue
  <2>4. /\ Slot(v)[1] \in 1 .. Len(variables) /\ variables[Slot(v)[1]] \in Seq(Values \cup {None})
        /\ Slot(v)[2] \in 1 .. Len(variables[Slot(v)[1]])
        /\ Slot(v) = <<Slot(v)[1], Slot(v)[2]>>
    BY <2>1, <2>2, SlotIs
  <2>5. variables \in Seq(Seq(Values \cup {None}))
    BY DEF Inductive, PoolGood
  <2>6. Leaves' = Leaves /\ Registered' = Registered /\ Named' = Named /\ Bound' = Bound
    BY <2>3 DEF Leaves, Registered, Named, Has, Bound
  <2>7. Stored = Named /\ Stored' = Stored /\ v \in Stored
    <3>1. Stored = Named /\ Stored' = Stored
      BY <1>2, <2>6, StoredIs, StoredIsNext DEF AllStored
    <3> QED BY <2>1, <3>1 DEF Named
  <2>8. ASSUME NEW u \in Stored
        PROVE  variables'[Slot(u)'[1]][Slot(u)'[2]] = IF u = v THEN x ELSE variables[Slot(u)[1]][Slot(u)[2]]
    <3>1. Slot(u)' = Slot(u)
      BY <2>3 DEF Slot
    <3>2. CASE u = v
      <4> DEFINE i == Slot(v)[1]  j == Slot(v)[2]
      <4>1. i \in 1 .. Len(variables) /\ variables[i] \in Seq(Values \cup {None}) /\ j \in 1 .. Len(variables[i])
        BY <2>4
      <4>2. variables' = [variables EXCEPT ![i][j] = x]
        BY <2>3
      <4> HIDE DEF i, j
      <4>3. variables'[i][j] = x
        BY <2>5, <4>1, <4>2
      <4> QED BY <3>1, <3>2, <4>3 DEF i, j
    <3>3. CASE u # v
      <4>0. u[1] \in Made /\ u[2] \in Members /\ u = <<u[1], u[2]>> /\ u[1] \in Registered /\ Has(u[1], u[2], "var")
        BY <2>7, NamedIs
      <4>1. Slot(u) # Slot(v)
        BY <2>1, <2>7, <3>3, InductiveSlots DEF OwnSlots, Named
      <4>2. HasTuple(u[1]) /\ Holds(u[1], u[2])
        BY <4>0, TupleIs
      <4>3. /\ Slot(u) = <<Slot(u)[1], Slot(u)[2]>> /\ Slot(u)[1] \in 1 .. Len(variables)
            /\ variables[Slot(u)[1]] \in Seq(Values \cup {None})
            /\ Slot(u)[2] \in 1 .. Len(variables[Slot(u)[1]])
        BY <4>0, <4>2, SlotIs
      <4> DEFINE i == Slot(v)[1]  j == Slot(v)[2]  k == Slot(u)[1]  l == Slot(u)[2]
      <4>4. /\ i # k \/ j # l
            /\ i \in 1 .. Len(variables) /\ variables[i] \in Seq(Values \cup {None}) /\ j \in 1 .. Len(variables[i])
            /\ k \in 1 .. Len(variables) /\ variables[k] \in Seq(Values \cup {None}) /\ l \in 1 .. Len(variables[k])
            /\ variables' = [variables EXCEPT ![i][j] = x]
        BY <2>3, <2>4, <4>1, <4>3
      <4> HIDE DEF i, j, k, l
      <4>5. variables'[k][l] = variables[k][l]
        BY <2>5, <4>4
      <4> QED BY <3>1, <3>3, <4>5 DEF k, l
    <3> QED BY <3>2, <3>3
  <2>9. Store' = [Store EXCEPT ![v] = x] /\ v \in DOMAIN Store
    <3>1. Store' = [u \in Stored' |-> variables'[Slot(u)'[1]][Slot(u)'[2]]]
      BY DEF Store
    <3>2. Store = [u \in Stored |-> variables[Slot(u)[1]][Slot(u)[2]]]
      BY DEF Store
    <3>3. [Store EXCEPT ![v] = x] = [u \in Stored |-> IF u = v THEN x ELSE variables[Slot(u)[1]][Slot(u)[2]]]
      BY <3>2
    <3>4. [u \in Stored' |-> variables'[Slot(u)'[1]][Slot(u)'[2]]] =
          [u \in Stored |-> IF u = v THEN x ELSE variables[Slot(u)[1]][Slot(u)[2]]]
      BY <2>7, <2>8
    <3> QED BY <2>7, <3>1, <3>2, <3>3, <3>4
  <2>10. Store0!Put(v, x)
    BY <2>3, <2>6, <2>9 DEF Store0!Put, Bound, Store, Stored
  <2>11. (Running /\ ~ misuse) /\ (Running /\ ~ misuse)' = TRUE
    BY <1>2
  <2>12. v \in Pkgs \X Members
    OBVIOUS
  <2> HIDE DEF v
  <2> QED BY <2>10, <2>11, <2>12 DEF Store0!Next
<1> QED BY <1>1, <1>2

(* A step of the packages is a step of the store.                          *)
LEMMA StoreStep ==
  ASSUME Inductive, Inductive', Next
  PROVE  [Store0!Next]_Store0!storeVars
<1>0. CASE ~ Running \/ misuse
  <2>1. (misuse => misuse') /\ (~ Running => ~ Running')
    <3>1. ASSUME Running PROVE misuse => misuse'
      <4>1. ASSUME Load PROVE misuse => misuse'
        BY <4>1 DEF Load, GetKnown, GetUnknown, Enter, Answer, Fail
      <4>2. ASSUME Declare PROVE misuse => misuse'
        BY <4>2 DEF Declare, New, AddPackage, AddVar, AddOther, Enter, Answer, Fail
      <4>3. ASSUME Access PROVE misuse => misuse'
        BY <4>3 DEF Access, GetValue, SetValue, GetMember, Fail, Used
      <4>4. ASSUME Finalize PROVE misuse => misuse'
        BY <4>4 DEF Finalize
      <4> QED BY <3>1, <4>1, <4>2, <4>3, <4>4 DEF Next, Stopped
    <3>2. ASSUME ~ Running PROVE UNCHANGED vars
      BY <3>2 DEF Next, Load, Declare, Access, Stopped
    <3> QED BY <3>1, <3>2 DEF Running, vars
  <2> QED BY <1>0, <2>1, NothingKept
<1> SUFFICES ASSUME Running, ~ misuse PROVE [Store0!Next]_Store0!storeVars
  BY <1>0
<1>1. ASSUME NEW path \in Paths, GetKnown(path) PROVE [Store0!Next]_Store0!storeVars
  <2>1. CASE IsLeaf(path)
    <3>1. UNCHANGED <<nodes, pkg, variables>> /\ ret' = <<"path", path, nodes[path].data>> /\ path \in Leaves
      BY <1>1, <2>1 DEF GetKnown, Answer, IsLeaf
    <3> QED BY <3>1, StoreAnswers
  <2>2. CASE ~ IsLeaf(path)
    BY <1>1, <2>2, NothingKept DEF GetKnown, Fail, Running
  <2> QED BY <2>1, <2>2
<1>2. ASSUME NEW path \in Paths, GetUnknown(path) PROVE [Store0!Next]_Store0!storeVars
  <2>1. CASE Images[path] = None
    <3>1. UNCHANGED <<nodes, pkg, variables>> /\ ret' = <<"path", path, None>> /\ path \notin Leaves
      BY <1>2, <2>1, FoundIs DEF GetUnknown, Answer, Leaves, Inductive
    <3> QED BY <3>1, StoreAnswers
  <2>2. CASE Images[path] # None /\ HasConst(Images[path])
    BY <1>2, <2>2, NothingKept DEF GetUnknown, Fail, Running
  <2>3. CASE Images[path] # None /\ ~ HasConst(Images[path])
    <3>1. PICK p \in Pkgs : Enter(path, p, FromImage(Images[path]), <<"path", path, p>>)
      BY <1>2, <2>3 DEF GetUnknown
    <3>2. GoodPackage(FromImage(Images[path]))
      BY <2>3, PackagesAssumption, ImageGood
    <3>3. ~ Found(path)
      BY <1>2 DEF GetUnknown
    <3> QED BY <3>1, <3>2, <3>3, StoreEnter
  <2> QED BY <2>1, <2>2, <2>3
<1>3. ASSUME NEW p \in Pkgs,
             New(p) \/ \E name \in Members : AddVar(p, name) \/ AddOther(p, name, "func")
      PROVE [Store0!Next]_Store0!storeVars
  <2>1. Registered' = Registered
    BY <1>3 DEF New, AddVar, AddOther, AddMember, Registered, Leaves
  <2> QED BY <1>3, <2>1, StoreMembers
<1>4. ASSUME NEW p \in Pkgs, NEW path \in Paths, AddPackage(path, p) PROVE [Store0!Next]_Store0!storeVars
  <2>1. CASE Found(path)
    <3>1. UNCHANGED <<nodes, pkg, variables>> /\ ret' = <<"add", path, -1>>
      BY <1>4, <2>1 DEF AddPackage, Answer
    <3> QED BY <3>1, StoreAnswers
  <2>2. CASE ~ Found(path)
    <3>1. p \in Made /\ GoodPackage(pkg[p]) /\ Enter(path, p, pkg[p], <<"add", path, 0>>)
      BY <1>4, <2>2, PackageIs DEF AddPackage, Inductive
    <3> QED BY <2>2, <3>1, StoreEnter
  <2> QED BY <2>1, <2>2
<1>5. ASSUME NEW p \in Pkgs, NEW name \in Members, GetValue(p, name) PROVE [Store0!Next]_Store0!storeVars
  <2>1. CASE misuse' \/ ~ Running'
    BY <2>1, NothingKept
  <2>2. CASE ~ misuse' /\ Running'
    <3>1. p \in Made /\ Has(p, name, "var") /\ HasTuple(p) /\ p \in Registered
      BY <1>5, <2>2 DEF GetValue, Fail, Running, Used
    <3>2. Holds(p, name)
      BY <3>1, TupleIs
    <3>3. <<p, name>> \in Stored
      BY <3>1, <3>2 DEF Stored
    <3>4. Store[<<p, name>>] = variables[Slot(<<p, name>>)[1]][Slot(<<p, name>>)[2]]
      BY <3>3 DEF Store
    <3>5. UNCHANGED <<nodes, pkg, variables>> /\ ret' = <<"get", <<p, name>>, Store[<<p, name>>]>>
      BY <1>5, <3>1, <3>2, <3>4 DEF GetValue, Answer
    <3> QED BY <3>3, <3>5, StoreAnswers
  <2> QED BY <2>1, <2>2
<1>6. ASSUME NEW p \in Pkgs, NEW name \in Members, NEW x \in Values, SetValue(p, name, x)
      PROVE  [Store0!Next]_Store0!storeVars
  BY <1>6, StoreSet
<1>7. ASSUME NEW p \in Pkgs, NEW name \in Members, GetMember(p, name, "func")
      PROVE  [Store0!Next]_Store0!storeVars
  BY <1>7, NothingKept DEF GetMember, Fail, Running
<1>8. ASSUME Finalize PROVE [Store0!Next]_Store0!storeVars
  BY <1>8, NothingKept DEF Finalize, Running
<1> QED BY <1>1, <1>2, <1>3, <1>4, <1>5, <1>6, <1>7, <1>8 DEF Next, Load, Declare, Access, Stopped

(* A path names one package for good, and a variable keeps the value it    *)
(* was last set to: the promise of state.h, for every set of paths, images *)
(* and packages, as long as the calls come in order.                       *)
THEOREM StoreImplemented == Spec => ImplementsStore
<1>1. Init => Store0!Init
  BY StoreInitHolds
<1>2. Inductive /\ Inductive' /\ [Next]_vars => [Store0!Next]_Store0!storeVars
  <2> SUFFICES ASSUME Inductive, Inductive', [Next]_vars PROVE [Store0!Next]_Store0!storeVars
    OBVIOUS
  <2>1. CASE Next
    BY <2>1, StoreStep
  <2>2. CASE UNCHANGED vars
    BY <2>2 DEF vars, Store0!storeVars, Running, Leaves, Registered, Has, HasTuple, Holds, Slot
  <2> QED BY <2>1, <2>2
<1> QED BY <1>1, <1>2, InvariantHolds, PTL DEF Spec, ImplementsStore, Store0!Spec
=============================================================================
