--------------------------- MODULE TypeDescProofs ----------------------------
(***************************************************************************)
(* Proofs about the ownership of type descriptors, for any set of types    *)
(* closed under their parts, any users, and any number of descriptors.     *)
(*                                                                         *)
(* The argument is that the heap stays balanced: each descriptor counts    *)
(* what refers to it from outside the heap and from inside.  Taking and    *)
(* dropping one reference, and the whole recursion of TypeDesc_Free, move  *)
(* a reference from one side of the balance to the other; an action is a   *)
(* few such moves.                                                         *)
(***************************************************************************)
EXTENDS TypeDesc, InductionFacts, FiniteSetTheorems, SequenceTheorems, TLAPS
-----------------------------------------------------------------------------
(* What holds in every state *)

Heaps ==
  [type : [Cells -> Types \cup {None}], refcnt : [Cells -> Int], parts : [Cells -> Seq(Cells)],
   live : SUBSET Cells, table : SUBSET Cells]
Named(h, c) == h.type[c] # None
Pointers == Cells \cup {None}

(* The parts of a descriptor were allocated before it, numbers are given   *)
(* in order, and a type has one descriptor, a primitive one for ever.      *)
PartsGood(h, c) ==
  /\ Len(h.parts[c]) = IF Named(h, c) THEN Len(PartsOf(h.type[c])) ELSE 0
  /\ \A i \in DOMAIN h.parts[c] : h.parts[c][i] < c /\ Named(h, h.parts[c][i])
HeapGood(h) ==
  /\ h \in Heaps
  /\ \A c \in h.live : Named(h, c) /\ (IsBase(h, c) \/ h.refcnt[c] > 0)
  /\ h.table \subseteq h.live
  /\ \A c, d \in h.live : h.type[c] = h.type[d] => c = d
  /\ \A c, d \in Cells : Named(h, c) /\ ~ Named(h, d) => c < d
  /\ \A c \in Cells : PartsGood(h, c)
  /\ \A t \in BaseTypes : \E c \in h.live : h.type[c] = t

(* A heap whose descriptors have out references from outside: with those   *)
(* that were lost, and less those that were stolen.  Only of the cells in  *)
(* gone has the table given up its reference.                              *)
Counts(h, out) == \A c \in h.live : h.refcnt[c] = out[c] + Inside(h, c)
Safe(h, thefts, gone, c) == c \in h.live \/ thefts[c] > 0 \/ c \in gone
Balanced(h, out, thefts, gone) ==
  /\ HeapGood(h) /\ Counts(h, out)
  /\ h.live \subseteq h.table \cup gone
  /\ \A c \in Cells : Named(h, c) => Safe(h, thefts, gone, c)
  /\ \A c \in h.live : \A i \in DOMAIN h.parts[c] : Safe(h, thefts, {}, h.parts[c][i])

(* The descriptors HashTable_Fini has visited.                             *)
Gone == IF phase = "run" THEN {} ELSE {c \in Cells : nxt = None \/ c < nxt}

Outside == [c \in Cells |-> Held(c) + Listed(c) + leaked[c] - stolen[c]]
Tally(h, f) == f \in [Cells -> Nat] /\ \A c \in Cells : ~ Named(h, c) => f[c] = 0
Kept ==
  /\ kept \in [Users -> Pointers]
  /\ stack \in Seq([as : {"type", "idtype", "list", "error"}, cell : Pointers])
  /\ \A u \in Users : kept[u] # None => Named(heap, kept[u]) /\ Safe(heap, stolen, {}, kept[u])
  /\ \A i \in DOMAIN stack : stack[i].cell # None =>
       Named(heap, stack[i].cell) /\ Safe(heap, stolen, {}, stack[i].cell)
Finishing ==
  /\ phase \in {"run", "fini", "end", "failed"} /\ nxt \in heap.table \cup {None}
  /\ phase # "fini" => nxt = None
  /\ phase # "run" => /\ stack = <<>> /\ \A u \in Users : Free(u)
                      /\ \A c \in heap.table : nxt # None /\ nxt <= c
  /\ Finished => ~ BaseFreed /\ (phase = "failed" => ~ BasesCounted)

Inductive ==
  /\ Balanced(heap, Outside, stolen, Gone) /\ Tally(heap, stolen) /\ Tally(heap, leaked)
  /\ Kept /\ Finishing

-----------------------------------------------------------------------------
(* Counting *)

LEMMA SameSize ==
  ASSUME NEW S, NEW T, IsFiniteSet(S), NEW f \in [S -> T],
         \A x, y \in S : f[x] = f[y] => x = y,
         \A y \in T : \E x \in S : f[x] = y
  PROVE  IsFiniteSet(T) /\ Cardinality(T) = Cardinality(S)
<1>1. f \in Bijection(S, T)
  BY DEF Bijection, Injection, Surjection, IsInjective
<1>2. ExistsBijection(S, T)
  BY <1>1 DEF ExistsBijection
<1> QED BY <1>2, FS_Bijection

LEMMA DisjointSum ==
  ASSUME NEW S, NEW T, IsFiniteSet(S), IsFiniteSet(T), S \cap T = {}
  PROVE  IsFiniteSet(S \cup T) /\ Cardinality(S \cup T) = Cardinality(S) + Cardinality(T)
<1>1. /\ IsFiniteSet(S \cup T)
      /\ Cardinality(S \cup T) = Cardinality(S) + Cardinality(T) - Cardinality(S \cap T)
  BY FS_Union
<1>2. Cardinality(S \cap T) = 0
  BY FS_EmptySet
<1>3. Cardinality(S) \in Nat /\ Cardinality(T) \in Nat
  BY FS_CardinalityType
<1> QED BY <1>1, <1>2, <1>3

LEMMA CellFacts == IsFiniteSet(Cells) /\ Cells \subseteq Nat \ {0} /\ None \notin Cells
BY TypeDescAssumption, FS_Interval DEF Cells

(* The places of a sequence at which something holds.                      *)
LEMMA PlacesFinite ==
  ASSUME NEW R, NEW s \in Seq(R), NEW P \in SUBSET DOMAIN s
  PROVE  IsFiniteSet(P) /\ Cardinality(P) \in Nat
<1>1. DOMAIN s = 1 .. Len(s) /\ Len(s) \in Nat
  OBVIOUS
<1>2. IsFiniteSet(DOMAIN s)
  BY <1>1, FS_Interval
<1> QED BY <1>2, FS_Subset, FS_CardinalityType

Moved(n, Q) == {n + i : i \in Q}
LEMMA PlacesOfConcat ==
  ASSUME NEW R, NEW s \in Seq(R), NEW t \in Seq(R),
         NEW P \in SUBSET DOMAIN s, NEW Q \in SUBSET DOMAIN t
  PROVE  Cardinality(P \cup Moved(Len(s), Q)) = Cardinality(P) + Cardinality(Q)
<1> DEFINE Shifted == Moved(Len(s), Q)
           f == [i \in Q |-> Len(s) + i]
<1>1. /\ DOMAIN s = 1 .. Len(s) /\ Len(s) \in Nat
      /\ DOMAIN t = 1 .. Len(t) /\ Len(t) \in Nat
  OBVIOUS
<1>2. IsFiniteSet(P) /\ IsFiniteSet(Q)
  BY PlacesFinite
<1>3. f \in [Q -> Shifted]
  BY DEF Moved
<1>4. \A x, y \in Q : f[x] = f[y] => x = y
  BY <1>1
<1>5. \A y \in Shifted : \E x \in Q : f[x] = y
  BY DEF Moved
<1>6. IsFiniteSet(Shifted) /\ Cardinality(Shifted) = Cardinality(Q)
  <2> HIDE DEF f, Shifted
  <2> QED BY <1>2, <1>3, <1>4, <1>5, SameSize
<1>7. P \cap Shifted = {}
  BY <1>1 DEF Moved
<1> QED BY <1>2, <1>6, <1>7, DisjointSum

LEMMA TimesIsNat ==
  ASSUME NEW R, NEW s \in Seq(R), NEW c
  PROVE  Times(s, c) \in Nat
BY PlacesFinite DEF Times

LEMMA TimesConcat ==
  ASSUME NEW R, NEW s \in Seq(R), NEW t \in Seq(R), NEW c
  PROVE  Times(s \o t, c) = Times(s, c) + Times(t, c)
<1> DEFINE P == {i \in DOMAIN s : s[i] = c}
           Q == {i \in DOMAIN t : t[i] = c}
<1>1. /\ DOMAIN s = 1 .. Len(s) /\ Len(s) \in Nat
      /\ DOMAIN t = 1 .. Len(t) /\ Len(t) \in Nat
      /\ DOMAIN (s \o t) = 1 .. Len(s) + Len(t)
      /\ \A i \in DOMAIN (s \o t) : (s \o t)[i] = IF i <= Len(s) THEN s[i] ELSE t[i - Len(s)]
  OBVIOUS
<1>2. {i \in DOMAIN (s \o t) : (s \o t)[i] = c} = P \cup Moved(Len(s), Q)
  <2>1. ASSUME NEW i \in DOMAIN (s \o t), i > Len(s), (s \o t)[i] = c
        PROVE  i \in Moved(Len(s), Q)
    <3>1. i - Len(s) \in Q /\ i = Len(s) + (i - Len(s))
      BY <1>1, <2>1
    <3> QED BY <3>1 DEF Moved
  <2>2. ASSUME NEW i \in DOMAIN (s \o t), i <= Len(s), (s \o t)[i] = c PROVE i \in P
    BY <1>1, <2>2
  <2>3. ASSUME NEW i \in P PROVE i \in DOMAIN (s \o t) /\ (s \o t)[i] = c
    BY <1>1
  <2>4. ASSUME NEW j \in Q PROVE Len(s) + j \in DOMAIN (s \o t) /\ (s \o t)[Len(s) + j] = c
    BY <1>1
  <2>5. \A i \in DOMAIN (s \o t) : i <= Len(s) \/ i > Len(s)
    BY <1>1
  <2> QED BY <2>1, <2>2, <2>3, <2>4, <2>5 DEF Moved
<1>3. P \in SUBSET DOMAIN s /\ Q \in SUBSET DOMAIN t
  OBVIOUS
<1>4. Cardinality(P \cup Moved(Len(s), Q)) = Cardinality(P) + Cardinality(Q)
  <2> HIDE DEF P, Q
  <2> QED BY <1>3, PlacesOfConcat
<1> QED BY <1>2, <1>4 DEF Times

LEMMA TimesOne ==
  ASSUME NEW b, NEW c
  PROVE  Times(<<b>>, c) = IF b = c THEN 1 ELSE 0
<1>1. {i \in DOMAIN <<b>> : <<b>>[i] = c} = IF b = c THEN {1} ELSE {}
  OBVIOUS
<1> QED BY <1>1, FS_Singleton, FS_EmptySet DEF Times

LEMMA TimesNone == ASSUME NEW c PROVE Times(<<>>, c) = 0
<1>1. {i \in DOMAIN <<>> : <<>>[i] = c} = {}
  OBVIOUS
<1> QED BY <1>1, FS_EmptySet DEF Times

LEMMA HeadAndTail ==
  ASSUME NEW R, NEW s \in Seq(R), s # <<>>
  PROVE  /\ Head(s) \in R /\ Tail(s) \in Seq(R) /\ Len(Tail(s)) = Len(s) - 1 /\ Len(s) \in Nat \ {0}
         /\ s = <<Head(s)>> \o Tail(s)
<1>1. /\ Head(s) \in R /\ Tail(s) \in Seq(R) /\ Len(Tail(s)) = Len(s) - 1 /\ Len(s) \in Nat \ {0}
  OBVIOUS
<1>2. \A i \in 1 .. Len(s) : s[i] = (<<Head(s)>> \o Tail(s))[i]
  OBVIOUS
<1>3. Len(<<Head(s)>> \o Tail(s)) = Len(s)
  BY <1>1
<1> QED BY <1>1, <1>2, <1>3, SeqEqual

LEMMA TimesHead ==
  ASSUME NEW R, NEW s \in Seq(R), s # <<>>, NEW c
  PROVE  Times(s, c) = Times(Tail(s), c) + (IF Head(s) = c THEN 1 ELSE 0)
<1>1. Head(s) \in R /\ Tail(s) \in Seq(R) /\ s = <<Head(s)>> \o Tail(s)
  BY HeadAndTail
<1>2. <<Head(s)>> \in Seq(R)
  BY <1>1
<1>3. Times(s, c) = Times(<<Head(s)>>, c) + Times(Tail(s), c)
  <2> DEFINE a == <<Head(s)>>
             b == Tail(s)
  <2>1. a \in Seq(R) /\ b \in Seq(R) /\ s = a \o b
    BY <1>1, <1>2
  <2>2. Times(a \o b, c) = Times(a, c) + Times(b, c)
    <3> HIDE DEF a, b
    <3> QED BY <2>1, TimesConcat
  <2>3. Times(s, c) = Times(a \o b, c)
    BY <2>1
  <2> QED BY <2>2, <2>3
<1>4. Times(Tail(s), c) \in Nat
  BY <1>1, TimesIsNat
<1> QED BY <1>3, <1>4, TimesOne


-----------------------------------------------------------------------------
(* References from descriptors to their parts *)

LinksTo(h, d) == {l \in Links(h) : h.parts[l[1]][l[2]] = d}
From(c, P) == {<<c, i>> : i \in P}

LEMMA InsideIs ==
  ASSUME NEW h, NEW c
  PROVE  Inside(h, c) = Cardinality(LinksTo(h, c)) + (IF c \in h.table THEN 1 ELSE 0)
                        + (IF IsBase(h, c) THEN 1 ELSE 0)
BY DEF Inside, LinksTo

LEMMA LinkIs ==
  ASSUME NEW h, NEW l
  PROVE  l \in Links(h) <=> \E p \in h.live : \E i \in DOMAIN h.parts[p] : l = <<p, i>>
BY DEF Links

LEMMA LinksFinite ==
  ASSUME NEW h, h.live \subseteq Cells, h.parts \in [Cells -> Seq(Cells)]
  PROVE  /\ IsFiniteSet(Links(h)) /\ Cardinality(Links(h)) \in Nat
         /\ \A d : IsFiniteSet(LinksTo(h, d)) /\ Cardinality(LinksTo(h, d)) \in Nat
<1> DEFINE f == [p \in h.live |-> {p} \X DOMAIN h.parts[p]]
           T == {{p} \X DOMAIN h.parts[p] : p \in h.live}
<1>1. IsFiniteSet(h.live)
  BY CellFacts, FS_Subset
<1>2. f \in Surjection(h.live, T)
  BY DEF Surjection
<1>3. IsFiniteSet(T)
  <2> HIDE DEF f, T
  <2> QED BY <1>1, <1>2, FS_Surjection
<1>4. ASSUME NEW p \in h.live PROVE IsFiniteSet({p} \X DOMAIN h.parts[p])
  <2>1. h.parts[p] \in Seq(Cells)
    OBVIOUS
  <2>2. DOMAIN h.parts[p] = 1 .. Len(h.parts[p]) /\ Len(h.parts[p]) \in Nat
    BY <2>1
  <2>3. IsFiniteSet(DOMAIN h.parts[p])
    BY <2>2, FS_Interval
  <2> QED BY <2>3, FS_Singleton, FS_Product
<1>5. IsFiniteSet(UNION T)
  <2>1. \A S \in T : IsFiniteSet(S)
    BY <1>4
  <2> HIDE DEF T
  <2> QED BY <1>3, <2>1, FS_UNION
<1>6. IsFiniteSet(Links(h))
  BY <1>5 DEF Links
<1>7. ASSUME NEW d PROVE IsFiniteSet(LinksTo(h, d))
  <2>1. LinksTo(h, d) \in SUBSET Links(h)
    BY DEF LinksTo
  <2> QED BY <1>6, <2>1, FS_Subset
<1> QED BY <1>6, <1>7, FS_CardinalityType

LEMMA FromSize ==
  ASSUME NEW c, NEW P, IsFiniteSet(P)
  PROVE  IsFiniteSet(From(c, P)) /\ Cardinality(From(c, P)) = Cardinality(P)
<1> DEFINE f == [i \in P |-> <<c, i>>]
<1>1. f \in [P -> From(c, P)]
  BY DEF From
<1>2. \A x, y \in P : f[x] = f[y] => x = y
  OBVIOUS
<1>3. \A y \in From(c, P) : \E x \in P : f[x] = y
  BY DEF From
<1> HIDE DEF f
<1> QED BY <1>1, <1>2, <1>3, SameSize

(* A heap h that has one descriptor more than g.                           *)
OneMore(g, h, c) ==
  /\ g.live \subseteq Cells /\ c \in Cells \ g.live /\ h.live = g.live \cup {c}
  /\ g.parts \in [Cells -> Seq(Cells)] /\ h.parts \in [Cells -> Seq(Cells)]
  /\ \A p \in g.live : h.parts[p] = g.parts[p]

LEMMA LinksMore ==
  ASSUME NEW g, NEW h, NEW c, NEW d, OneMore(g, h, c)
  PROVE  /\ Cardinality(Links(h)) = Cardinality(Links(g)) + Len(h.parts[c])
         /\ Cardinality(LinksTo(h, d)) = Cardinality(LinksTo(g, d)) + Times(h.parts[c], d)
<1> DEFINE D == DOMAIN h.parts[c]
           P == {i \in DOMAIN h.parts[c] : h.parts[c][i] = d}
<1> USE DEF OneMore
<1>1. h.parts[c] \in Seq(Cells)
  OBVIOUS
<1>2. /\ D = 1 .. Len(h.parts[c]) /\ Len(h.parts[c]) \in Nat
      /\ IsFiniteSet(D) /\ Cardinality(D) = Len(h.parts[c])
  <2>1. D = 1 .. Len(h.parts[c]) /\ Len(h.parts[c]) \in Nat
    BY <1>1
  <2> QED BY <2>1, FS_Interval
<1>3. IsFiniteSet(P)
  BY <1>2, FS_Subset
<1>4. Links(h) = Links(g) \cup From(c, D) /\ Links(g) \cap From(c, D) = {}
  <2>1. ASSUME NEW l PROVE l \in From(c, D) <=> \E i \in DOMAIN h.parts[c] : l = <<c, i>>
    BY DEF From
  <2>2. ASSUME NEW l PROVE l \in Links(h) <=> l \in Links(g) \/ l \in From(c, D)
    BY <2>1, LinkIs
  <2>3. ASSUME NEW l \in Links(g) PROVE l \notin From(c, D)
    BY <2>1, LinkIs
  <2> HIDE DEF D
  <2> QED BY <2>2, <2>3
<1>5. LinksTo(h, d) = LinksTo(g, d) \cup From(c, P) /\ LinksTo(g, d) \cap From(c, P) = {}
  <2>1. ASSUME NEW l PROVE l \in From(c, P) <=> \E i \in P : l = <<c, i>>
    BY DEF From
  <2>2. ASSUME NEW l \in From(c, P) PROVE l \in From(c, D) /\ h.parts[l[1]][l[2]] = d
    BY <2>1 DEF From
  <2>3. ASSUME NEW l \in From(c, D), h.parts[l[1]][l[2]] = d PROVE l \in From(c, P)
    BY <2>3 DEF From
  <2>4. ASSUME NEW l \in Links(g) PROVE h.parts[l[1]][l[2]] = g.parts[l[1]][l[2]]
    BY LinkIs
  <2> HIDE DEF D, P
  <2> QED BY <1>4, <2>2, <2>3, <2>4 DEF LinksTo
<1>6. /\ IsFiniteSet(From(c, D)) /\ Cardinality(From(c, D)) = Len(h.parts[c])
      /\ IsFiniteSet(From(c, P)) /\ Cardinality(From(c, P)) = Times(h.parts[c], d)
  <2>1. Times(h.parts[c], d) = Cardinality(P)
    BY DEF Times
  <2> HIDE DEF D, P
  <2> QED BY <1>2, <1>3, <2>1, FromSize
<1>7. IsFiniteSet(Links(g)) /\ IsFiniteSet(LinksTo(g, d))
  BY LinksFinite
<1> HIDE DEF D, P
<1> QED BY <1>4, <1>5, <1>6, <1>7, DisjointSum

LEMMA SameLinks ==
  ASSUME NEW g, NEW h, g.live = h.live, g.parts = h.parts
  PROVE  Links(g) = Links(h) /\ \A d : LinksTo(g, d) = LinksTo(h, d)
BY DEF Links, LinksTo

LEMMA LinkToPart ==
  ASSUME NEW h, NEW p \in h.live, NEW i \in DOMAIN h.parts[p],
         h.live \subseteq Cells, h.parts \in [Cells -> Seq(Cells)]
  PROVE  Cardinality(LinksTo(h, h.parts[p][i])) > 0
<1>1. <<p, i>> \in LinksTo(h, h.parts[p][i])
  BY LinkIs DEF LinksTo
<1>2. IsFiniteSet(LinksTo(h, h.parts[p][i])) /\ Cardinality(LinksTo(h, h.parts[p][i])) \in Nat
  BY LinksFinite
<1> QED BY <1>1, <1>2, FS_EmptySet

-----------------------------------------------------------------------------
(* Releasing references *)

Plus(out, cs) == [c \in Cells |-> out[c] + Times(cs, c)]
Ledger(out, thefts) ==
  /\ out \in [Cells -> Int] /\ thefts \in [Cells -> Nat]
  /\ \A c \in Cells : out[c] + thefts[c] >= 0
Released(h, g, thefts, gone, most) ==
  /\ g.type = h.type /\ g.parts = h.parts /\ g.live \subseteq h.live
  /\ g.table = h.table \cap g.live
  /\ \A c \in h.live \ g.live : c <= most /\ (thefts[c] > 0 \/ c \in gone)

(* The loop of DecrefAll: what is still to be dropped counts as references *)
(* from outside.                                                           *)
Dropping(D, h, out, thefts, gone, most) ==
  /\ D = [heap |-> D.heap, todo |-> D.todo] /\ D.todo \in Seq(Pointers)
  /\ Balanced(D.heap, Plus(out, D.todo), thefts, gone)
  /\ Released(h, D.heap, thefts, gone, most)
  /\ \A i \in DOMAIN D.todo : D.todo[i] # None => D.todo[i] <= most
DropsLeft(D) == Len(D.todo) + Cardinality(Links(D.heap))

LEMMA HeapFields ==
  ASSUME NEW h \in Heaps
  PROVE  /\ h = [type |-> h.type, refcnt |-> h.refcnt, parts |-> h.parts, live |-> h.live,
                 table |-> h.table]
         /\ h.type \in [Cells -> Types \cup {None}] /\ h.refcnt \in [Cells -> Int]
         /\ h.parts \in [Cells -> Seq(Cells)] /\ h.live \subseteq Cells /\ h.table \subseteq Cells
BY DEF Heaps

LEMMA InsideIsNat ==
  ASSUME NEW h \in Heaps, NEW c
  PROVE  Inside(h, c) \in Nat
<1>1. Cardinality(LinksTo(h, c)) \in Nat
  BY HeapFields, LinksFinite
<1> QED BY <1>1, InsideIs

Lessened(k, c) == [k EXCEPT !.refcnt[c] = @ - 1]
Freed(k, c) == [k EXCEPT !.refcnt[c] = @ - 1, !.live = @ \ {c}, !.table = @ \ {c}]

LEMMA LessenedIs ==
  ASSUME NEW k \in Heaps, NEW c \in Cells, NEW g, g = Lessened(k, c)
  PROVE  /\ g \in Heaps /\ g.type = k.type /\ g.parts = k.parts /\ g.live = k.live
         /\ g.table = k.table
         /\ \A d \in Cells : g.refcnt[d] = IF d = c THEN k.refcnt[d] - 1 ELSE k.refcnt[d]
<1>1. g = [type |-> k.type, refcnt |-> [k.refcnt EXCEPT ![c] = @ - 1], parts |-> k.parts,
           live |-> k.live, table |-> k.table]
  BY DEF Heaps, Lessened
<1>2. [k.refcnt EXCEPT ![c] = @ - 1] \in [Cells -> Int]
  BY HeapFields
<1>3. g \in Heaps
  BY <1>1, <1>2, HeapFields DEF Heaps
<1> QED BY <1>1, <1>3, HeapFields

LEMMA FreedIs ==
  ASSUME NEW k \in Heaps, NEW c \in Cells, NEW g, g = Freed(k, c)
  PROVE  /\ g \in Heaps /\ g.type = k.type /\ g.parts = k.parts /\ g.live = k.live \ {c}
         /\ g.table = k.table \ {c}
         /\ \A d \in Cells : g.refcnt[d] = IF d = c THEN k.refcnt[d] - 1 ELSE k.refcnt[d]
<1>1. g = [type |-> k.type, refcnt |-> [k.refcnt EXCEPT ![c] = @ - 1], parts |-> k.parts,
           live |-> k.live \ {c}, table |-> k.table \ {c}]
  BY DEF Heaps, Freed
<1>2. [k.refcnt EXCEPT ![c] = @ - 1] \in [Cells -> Int]
  BY HeapFields
<1>3. k.live \ {c} \in SUBSET Cells /\ k.table \ {c} \in SUBSET Cells
  BY HeapFields
<1>4. g \in Heaps
  BY <1>1, <1>2, <1>3, HeapFields DEF Heaps
<1> QED BY <1>1, <1>4, HeapFields



LEMMA CellsArePointers ==
  ASSUME NEW cs \in Seq(Cells)
  PROVE  cs \in Seq(Pointers) /\ \A i \in DOMAIN cs : cs[i] \in Cells /\ cs[i] # None
<1>1. cs \in [1 .. Len(cs) -> Cells] /\ Len(cs) \in Nat /\ DOMAIN cs = 1 .. Len(cs)
  OBVIOUS
<1>2. \A i \in 1 .. Len(cs) : cs[i] \in Cells /\ cs[i] \in Pointers /\ cs[i] # None
  BY <1>1, CellFacts DEF Pointers
<1>3. cs = [i \in 1 .. Len(cs) |-> cs[i]]
  BY <1>1
<1>4. cs \in [1 .. Len(cs) -> Pointers]
  BY <1>2, <1>3
<1> QED BY <1>1, <1>2, <1>4

LEMMA NullStep ==
  ASSUME NEW D, NEW h, NEW out, NEW thefts, NEW gone, NEW most, Ledger(out, thefts),
         Dropping(D, h, out, thefts, gone, most), D.todo # <<>>, Head(D.todo) = None
  PROVE  /\ Dropping(Drop(D), h, out, thefts, gone, most)
         /\ DropsLeft(Drop(D)) = DropsLeft(D) - 1
<1> DEFINE k == D.heap
           rest == Tail(D.todo)
           E == Drop(D)
<1>1. HeapGood(k) /\ k \in Heaps
  BY DEF Dropping, Balanced, HeapGood
<1>2. /\ rest \in Seq(Pointers) /\ Len(rest) = Len(D.todo) - 1
      /\ Len(D.todo) \in Nat \ {0} /\ D.todo \in Seq(Pointers)
  BY HeadAndTail DEF Dropping
<1>3. E = [heap |-> k, todo |-> rest] /\ E.heap = k /\ E.todo = rest
  BY DEF Drop
<1>4. \A d \in Cells : Plus(out, rest)[d] = Plus(out, D.todo)[d]
  <2> TAKE d \in Cells
  <2>1. Times(D.todo, d) = Times(rest, d) + (IF Head(D.todo) = d THEN 1 ELSE 0)
    BY <1>2, TimesHead
  <2>2. Times(rest, d) \in Nat /\ d # None
    BY <1>2, TimesIsNat, CellFacts
  <2> QED BY <2>1, <2>2 DEF Plus
<1>5. Balanced(k, Plus(out, rest), thefts, gone)
  <2>1. k.live \subseteq Cells
    BY <1>1, HeapFields
  <2> QED BY <1>4, <2>1 DEF Dropping, Balanced, Counts
<1>6. \A i \in DOMAIN rest : rest[i] # None => rest[i] <= most
  <2> TAKE i \in DOMAIN rest
  <2>1. i + 1 \in DOMAIN D.todo /\ rest[i] = D.todo[i + 1]
    BY <1>2
  <2> QED BY <2>1 DEF Dropping
<1>7. DropsLeft(E) = DropsLeft(D) - 1
  <2>1. Cardinality(Links(k)) \in Nat
    BY <1>1, HeapFields, LinksFinite
  <2>2. DropsLeft(E) = Len(D.todo) - 1 + Cardinality(Links(k))
    BY <1>2, <1>3 DEF DropsLeft
  <2>3. DropsLeft(D) = Len(D.todo) + Cardinality(Links(k))
    BY DEF DropsLeft
  <2> HIDE DEF k, E
  <2> QED BY <1>2, <2>1, <2>2, <2>3
<1>8. Dropping(E, h, out, thefts, gone, most)
  <2>1. Released(h, k, thefts, gone, most)
    BY DEF Dropping
  <2> HIDE DEF k, rest, E
  <2> QED BY <1>2, <1>3, <1>5, <1>6, <2>1 DEF Dropping
<1> QED BY <1>7, <1>8

LEMMA KeepStep ==
  ASSUME NEW D, NEW h, NEW out, NEW thefts, NEW gone, NEW most,
         Ledger(out, thefts), Dropping(D, h, out, thefts, gone, most), D.todo # <<>>,
         Head(D.todo) # None, Stays(D.heap, Head(D.todo))
  PROVE  /\ Dropping(Drop(D), h, out, thefts, gone, most)
         /\ DropsLeft(Drop(D)) = DropsLeft(D) - 1
<1> DEFINE k == D.heap
           c == Head(D.todo)
           E == Drop(D)
           g == E.heap
<1>1. HeapGood(k) /\ k \in Heaps
  BY DEF Dropping, Balanced, HeapGood
<1>2. /\ c \in Cells /\ Tail(D.todo) \in Seq(Pointers) /\ Len(Tail(D.todo)) = Len(D.todo) - 1
      /\ Len(D.todo) \in Nat \ {0} /\ D.todo \in Seq(Pointers)
  BY HeadAndTail DEF Dropping, Pointers
<1>3. /\ E = [heap |-> Lessened(k, c), todo |-> Tail(D.todo)]
      /\ g = Lessened(k, c) /\ E.todo = Tail(D.todo)
  BY DEF Drop, Lessened
<1>4. /\ g \in Heaps /\ g.type = k.type /\ g.parts = k.parts /\ g.live = k.live
      /\ g.table = k.table
      /\ \A d \in Cells : g.refcnt[d] = IF d = c THEN k.refcnt[d] - 1 ELSE k.refcnt[d]
  <2>1. k \in Heaps /\ c \in Cells /\ g = Lessened(k, c)
    BY <1>1, <1>2, <1>3
  <2> HIDE DEF g, E, c, k
  <2> QED BY <2>1, LessenedIs
<1> HIDE DEF g, E, c, k
<1>5. HeapGood(g)
  <2>1. \A d \in g.live : Named(g, d) /\ (IsBase(g, d) \/ g.refcnt[d] > 0)
    <3>1. k.refcnt \in [Cells -> Int] /\ k.live \subseteq Cells
      BY <1>1, HeapFields
    <3>2. c \in k.live => k.refcnt[c] > 1 \/ IsBase(k, c)
      BY DEF k, c, Stays
    <3> QED BY <1>1, <1>2, <1>4, <3>1, <3>2 DEF HeapGood, Named, IsBase
  <2>2. \A d \in Cells : PartsGood(g, d)
    BY <1>1, <1>4 DEF HeapGood, PartsGood, Named
  <2> QED BY <1>1, <1>4, <2>1, <2>2 DEF HeapGood, Named
<1>6. Links(g) = Links(k) /\ \A d : Inside(g, d) = Inside(k, d)
  BY <1>4, SameLinks, InsideIs DEF IsBase
<1>7. Counts(g, Plus(out, E.todo))
  <2>1. SUFFICES ASSUME NEW d \in k.live
                 PROVE  g.refcnt[d] = Plus(out, E.todo)[d] + Inside(g, d)
    BY <1>4 DEF Counts
  <2>2. d \in Cells /\ k.refcnt \in [Cells -> Int]
    BY <1>1, HeapFields
  <2>3. k.refcnt[d] = out[d] + Times(D.todo, d) + Inside(k, d)
    BY <2>2 DEF Dropping, Balanced, Counts, Plus, k
  <2>4. Times(D.todo, d) = Times(E.todo, d) + (IF c = d THEN 1 ELSE 0)
    BY <1>2, <1>3, TimesHead DEF c
  <2>5. Times(E.todo, d) \in Nat /\ Inside(k, d) \in Nat /\ out[d] \in Int
    BY <1>1, <1>2, <1>3, <2>2, TimesIsNat, InsideIsNat DEF Ledger
  <2>6. Plus(out, E.todo)[d] = out[d] + Times(E.todo, d)
    BY <2>2 DEF Plus
  <2> QED BY <1>2, <1>4, <1>6, <2>2, <2>3, <2>4, <2>5, <2>6
<1>8. Balanced(g, Plus(out, E.todo), thefts, gone)
  BY <1>4, <1>5, <1>7 DEF Balanced, Dropping, Named, Safe, k
<1>9. Released(h, g, thefts, gone, most)
  BY <1>4 DEF Released, Dropping, k
<1>10. \A i \in DOMAIN E.todo : E.todo[i] # None => E.todo[i] <= most
  <2>1. SUFFICES ASSUME NEW i \in DOMAIN E.todo PROVE E.todo[i] # None => E.todo[i] <= most
    OBVIOUS
  <2>2. i + 1 \in DOMAIN D.todo /\ E.todo[i] = D.todo[i + 1]
    BY <1>2, <1>3
  <2> QED BY <2>2 DEF Dropping
<1>11. Dropping(E, h, out, thefts, gone, most)
  <2>1. E = [heap |-> E.heap, todo |-> E.todo] /\ E.todo \in Seq(Pointers)
    BY <1>2, <1>3
  <2> QED BY <1>8, <1>9, <1>10, <2>1 DEF Dropping, g
<1>12. DropsLeft(E) = DropsLeft(D) - 1
  <2>1. Cardinality(Links(k)) \in Nat
    BY <1>1, HeapFields, LinksFinite
  <2>2. DropsLeft(E) = Len(D.todo) - 1 + Cardinality(Links(g))
    BY <1>2, <1>3 DEF DropsLeft, g
  <2>3. DropsLeft(D) = Len(D.todo) + Cardinality(Links(k))
    BY DEF DropsLeft, k
  <2> QED BY <1>2, <1>6, <2>1, <2>2, <2>3
<1> QED BY <1>11, <1>12 DEF E

LEMMA FreeStep ==
  ASSUME NEW D, NEW h, NEW out, NEW thefts, NEW gone, NEW most \in Nat,
         Ledger(out, thefts), Dropping(D, h, out, thefts, gone, most), D.todo # <<>>,
         Head(D.todo) # None, ~ Stays(D.heap, Head(D.todo))
  PROVE  /\ Dropping(Drop(D), h, out, thefts, gone, most)
         /\ DropsLeft(Drop(D)) = DropsLeft(D) - 1
<1> DEFINE k == D.heap
           c == Head(D.todo)
           E == Drop(D)
           g == E.heap
<1>1. HeapGood(k) /\ k \in Heaps
  BY DEF Dropping, Balanced, HeapGood
<1>2. /\ c \in Cells /\ Tail(D.todo) \in Seq(Pointers) /\ Len(Tail(D.todo)) = Len(D.todo) - 1
      /\ Len(D.todo) \in Nat \ {0} /\ D.todo \in Seq(Pointers)
      /\ k.parts[c] \in Seq(Cells) /\ k.parts[c] \in Seq(Pointers)
  BY <1>1, HeadAndTail, HeapFields, CellsArePointers DEF Dropping, Pointers
<1>3. /\ E = [heap |-> Freed(k, c), todo |-> k.parts[c] \o Tail(D.todo)]
      /\ g = Freed(k, c) /\ E.todo = k.parts[c] \o Tail(D.todo)
  BY DEF Drop, Freed
<1>22. E.todo \in Seq(Pointers)
  <2> DEFINE a == k.parts[c]
             b == Tail(D.todo)
  <2>1. a \in Seq(Pointers) /\ b \in Seq(Pointers) /\ E.todo = a \o b
    BY <1>2, <1>3
  <2> HIDE DEF a, b
  <2> QED BY <2>1
<1>4. /\ g \in Heaps /\ g.type = k.type /\ g.parts = k.parts /\ g.live = k.live \ {c}
      /\ g.table = k.table \ {c}
      /\ \A d \in Cells : g.refcnt[d] = IF d = c THEN k.refcnt[d] - 1 ELSE k.refcnt[d]
  <2>1. k \in Heaps /\ c \in Cells /\ g = Freed(k, c)
    BY <1>1, <1>2, <1>3
  <2> HIDE DEF g, E, c, k
  <2> QED BY <2>1, FreedIs
<1>5. /\ c \in k.live /\ k.live \subseteq Cells /\ k.refcnt \in [Cells -> Int] /\ k.refcnt[c] = 1
      /\ ~ IsBase(k, c)
  <2>1. /\ c \in k.live /\ k.refcnt \in [Cells -> Int] /\ ~ k.refcnt[c] > 1 /\ k.live \subseteq Cells
        /\ ~ IsBase(k, c)
    BY <1>1, HeapFields DEF Stays
  <2> QED BY <1>1, <1>2, <2>1 DEF HeapGood
<1>6. \A d \in k.live : k.refcnt[d] = out[d] + Times(D.todo, d) + Inside(k, d)
  BY <1>5 DEF Dropping, Balanced, Counts, Plus
<1> HIDE DEF g, E, c, k
<1>7. \A d \in Cells : Times(D.todo, d) = Times(Tail(D.todo), d) + (IF c = d THEN 1 ELSE 0)
  BY <1>2, TimesHead DEF c
<1>8. \A d \in Cells : /\ Times(Tail(D.todo), d) \in Nat /\ Inside(k, d) \in Nat
                       /\ Cardinality(LinksTo(k, d)) \in Nat
                       /\ out[d] \in Int /\ thefts[d] \in Nat /\ out[d] + thefts[d] >= 0
  <2>1. \A d : Times(Tail(D.todo), d) \in Nat
    BY <1>2, TimesIsNat
  <2>2. \A d : Inside(k, d) \in Nat /\ Cardinality(LinksTo(k, d)) \in Nat
    BY <1>1, InsideIsNat, HeapFields, LinksFinite
  <2> QED BY <2>1, <2>2 DEF Ledger
<1>9. thefts[c] = 0 => Inside(k, c) = 0
  <2>1. 1 = out[c] + Times(D.todo, c) + Inside(k, c)
    BY <1>5, <1>6
  <2>2. Times(D.todo, c) = Times(Tail(D.todo), c) + 1
    BY <1>2, <1>7
  <2>3. /\ out[c] \in Int /\ thefts[c] \in Nat /\ out[c] + thefts[c] >= 0
        /\ Times(Tail(D.todo), c) \in Nat /\ Inside(k, c) \in Nat
    BY <1>2, <1>8
  <2> QED BY <2>1, <2>2, <2>3
<1>11. thefts[c] > 0 \/ (c \notin k.table /\ Cardinality(LinksTo(k, c)) = 0)
  <2>1. /\ Inside(k, c) = Cardinality(LinksTo(k, c)) + (IF c \in k.table THEN 1 ELSE 0)
                           + (IF IsBase(k, c) THEN 1 ELSE 0)
        /\ Cardinality(LinksTo(k, c)) \in Nat /\ thefts[c] \in Nat
    BY <1>2, <1>8, InsideIs
  <2> QED BY <1>9, <2>1
<1>12. /\ Cardinality(Links(k)) = Cardinality(Links(g)) + Len(k.parts[c])
       /\ \A d : Cardinality(LinksTo(k, d)) = Cardinality(LinksTo(g, d)) + Times(k.parts[c], d)
  <2>1. g.live \subseteq Cells /\ c \notin g.live /\ k.live = g.live \cup {c}
    BY <1>4, <1>5
  <2>2. g.parts \in [Cells -> Seq(Cells)] /\ k.parts \in [Cells -> Seq(Cells)]
    BY <1>1, <1>4, HeapFields
  <2>3. \A p \in g.live : k.parts[p] = g.parts[p]
    BY <1>4
  <2>4. ASSUME NEW d
        PROVE  /\ Cardinality(Links(k)) = Cardinality(Links(g)) + Len(k.parts[c])
               /\ Cardinality(LinksTo(k, d)) = Cardinality(LinksTo(g, d)) + Times(k.parts[c], d)
    <3>1. c \in Cells /\ c \notin g.live
      BY <1>2, <2>1
    <3>2. OneMore(g, k, c)
      BY <2>1, <2>2, <2>3, <3>1 DEF OneMore
    <3> QED BY <3>2, LinksMore
  <2> QED BY <2>4
<1>13. HeapGood(g)
  <2>1. \A d \in g.live : Named(g, d) /\ (IsBase(g, d) \/ g.refcnt[d] > 0)
    BY <1>1, <1>4, <1>5 DEF HeapGood, Named, IsBase
  <2>2. \A d \in Cells : PartsGood(g, d)
    BY <1>1, <1>4 DEF HeapGood, PartsGood, Named
  <2>3. \A t \in BaseTypes : \E d \in g.live : g.type[d] = t
    BY <1>1, <1>4, <1>5 DEF HeapGood, IsBase
  <2> QED BY <1>1, <1>4, <2>1, <2>2, <2>3 DEF HeapGood, Named
<1>14. \A d \in g.live : Inside(k, d) = Inside(g, d) + Times(k.parts[c], d)
  <2>1. SUFFICES ASSUME NEW d \in g.live PROVE Inside(k, d) = Inside(g, d) + Times(k.parts[c], d)
    OBVIOUS
  <2>2. Cardinality(LinksTo(g, d)) \in Nat /\ Times(k.parts[c], d) \in Nat
    BY <1>2, <1>4, HeapFields, LinksFinite, TimesIsNat
  <2> QED BY <1>4, <1>12, <2>2, InsideIs DEF IsBase
<1>15. Counts(g, Plus(out, E.todo))
  <2>1. SUFFICES ASSUME NEW d \in g.live
                 PROVE  g.refcnt[d] = Plus(out, E.todo)[d] + Inside(g, d)
    BY DEF Counts
  <2>2. d \in k.live /\ d \in Cells /\ d # c
    BY <1>4, <1>5
  <2>3. Times(E.todo, d) = Times(k.parts[c], d) + Times(Tail(D.todo), d)
    <3> DEFINE a == k.parts[c]
               b == Tail(D.todo)
    <3>1. a \in Seq(Pointers) /\ b \in Seq(Pointers) /\ E.todo = a \o b
      BY <1>2, <1>3
    <3>2. Times(a \o b, d) = Times(a, d) + Times(b, d)
      <4> HIDE DEF a, b
      <4> QED BY <3>1, TimesConcat
    <3> QED BY <3>1, <3>2
  <2>4. Plus(out, E.todo)[d] = out[d] + Times(E.todo, d)
    BY <2>2 DEF Plus
  <2>5. Times(k.parts[c], d) \in Nat /\ Inside(g, d) \in Nat
    BY <1>2, <1>4, TimesIsNat, InsideIsNat
  <2>6. g.refcnt[d] = k.refcnt[d]
    BY <1>4, <1>5, <2>2
  <2>7. k.refcnt[d] = out[d] + Times(Tail(D.todo), d) + Inside(k, d)
    BY <1>6, <1>7, <1>8, <2>2
  <2> QED BY <1>8, <1>14, <2>2, <2>3, <2>4, <2>5, <2>6, <2>7
<1>16. thefts[c] > 0 \/ c \in gone
  BY <1>5, <1>11 DEF Dropping, Balanced, k
<1>17. Balanced(g, Plus(out, E.todo), thefts, gone)
  <2>1. g.live \subseteq g.table \cup gone
    BY <1>4 DEF Dropping, Balanced, k
  <2>2. \A d \in Cells : Named(g, d) => Safe(g, thefts, gone, d)
    BY <1>4, <1>16 DEF Dropping, Balanced, k, Named, Safe
  <2>3. ASSUME NEW d \in g.live, NEW i \in DOMAIN g.parts[d]
        PROVE  Safe(g, thefts, {}, g.parts[d][i])
    <3>1. d \in k.live /\ i \in DOMAIN k.parts[d] /\ g.parts[d][i] = k.parts[d][i]
      BY <1>4, <2>3
    <3>2. Safe(k, thefts, {}, k.parts[d][i])
      BY <3>1 DEF Dropping, Balanced, k
    <3>3. k.parts[d][i] = c => thefts[c] > 0
      <4>1. Cardinality(LinksTo(k, k.parts[d][i])) > 0
        BY <1>1, <3>1, HeapFields, LinkToPart
      <4> QED BY <1>11, <4>1
    <3> QED BY <1>4, <3>1, <3>2, <3>3 DEF Safe
  <2> QED BY <1>13, <1>15, <2>1, <2>2, <2>3 DEF Balanced
<1>18. \A i \in DOMAIN E.todo : E.todo[i] # None => E.todo[i] <= most
  <2>1. c <= most
    <3>1. 1 \in DOMAIN D.todo /\ c = D.todo[1]
      BY <1>2 DEF c
    <3> QED BY <3>1 DEF Dropping
  <2>2. ASSUME NEW i \in DOMAIN k.parts[c] PROVE k.parts[c][i] <= most
    <3>1. k.parts[c][i] < c /\ k.parts[c][i] \in Cells
      BY <1>1, <1>2 DEF HeapGood, PartsGood
    <3>2. c \in Nat /\ k.parts[c][i] \in Nat
      BY <1>2, <3>1, CellFacts
    <3> QED BY <2>1, <3>1, <3>2
  <2>3. ASSUME NEW i \in DOMAIN Tail(D.todo), Tail(D.todo)[i] # None PROVE Tail(D.todo)[i] <= most
    <3>1. i + 1 \in DOMAIN D.todo /\ Tail(D.todo)[i] = D.todo[i + 1]
      BY <1>2
    <3> QED BY <2>3, <3>1 DEF Dropping
  <2>4. ASSUME NEW i \in DOMAIN E.todo, E.todo[i] # None PROVE E.todo[i] <= most
    <3> DEFINE a == k.parts[c]
               b == Tail(D.todo)
    <3>1. a \in Seq(Pointers) /\ b \in Seq(Pointers) /\ E.todo = a \o b
      BY <1>2, <1>3
    <3>2. (i \in DOMAIN a /\ E.todo[i] = a[i]) \/ (i - Len(a) \in DOMAIN b /\ E.todo[i] = b[i - Len(a)])
      <4> HIDE DEF a, b
      <4> QED BY <2>4, <3>1
    <3> QED BY <2>2, <2>3, <2>4, <3>2
  <2> QED BY <2>4
<1>19. Released(h, g, thefts, gone, most)
  <2>1. c <= most
    <3>1. 1 \in DOMAIN D.todo /\ c = D.todo[1]
      BY <1>2 DEF c
    <3> QED BY <3>1 DEF Dropping
  <2>2. Released(h, k, thefts, gone, most)
    BY DEF Dropping, k
  <2>3. g.table = h.table \cap g.live
    BY <1>4, <2>2 DEF Released
  <2> QED BY <1>4, <1>16, <2>1, <2>2, <2>3 DEF Released
<1>20. Dropping(E, h, out, thefts, gone, most)
  <2>1. E = [heap |-> E.heap, todo |-> E.todo] /\ E.todo \in Seq(Pointers)
    BY <1>3, <1>22
  <2> QED BY <1>17, <1>18, <1>19, <2>1 DEF Dropping, g
<1>21. DropsLeft(E) = DropsLeft(D) - 1
  <2>1. Cardinality(Links(g)) \in Nat /\ Len(k.parts[c]) \in Nat
    <3>1. g.live \subseteq Cells /\ g.parts \in [Cells -> Seq(Cells)]
      BY <1>4, HeapFields
    <3>2. Cardinality(Links(g)) \in Nat
      BY <3>1, LinksFinite
    <3> QED BY <1>2, <3>2
  <2>2. Len(E.todo) = Len(k.parts[c]) + Len(Tail(D.todo))
    <3> DEFINE a == k.parts[c]
               b == Tail(D.todo)
    <3>1. a \in Seq(Pointers) /\ b \in Seq(Pointers) /\ E.todo = a \o b
      BY <1>2, <1>3
    <3> HIDE DEF a, b
    <3>2. Len(a \o b) = Len(a) + Len(b)
      BY <3>1
    <3> QED BY <3>1, <3>2 DEF a, b
  <2>3. DropsLeft(E) = Len(E.todo) + Cardinality(Links(g))
    BY DEF DropsLeft, g
  <2>4. DropsLeft(D) = Len(D.todo) + Cardinality(Links(k))
    BY DEF DropsLeft, k
  <2>5. Cardinality(Links(k)) = Cardinality(Links(g)) + Len(k.parts[c])
    BY <1>12
  <2>6. Len(Tail(D.todo)) = Len(D.todo) - 1 /\ Len(D.todo) \in Nat
    BY <1>2
  <2> DEFINE a == Len(D.todo)
             b == Len(Tail(D.todo))
             m == Len(k.parts[c])
             n == Cardinality(Links(g))
  <2>7. /\ a \in Nat /\ b = a - 1 /\ m \in Nat /\ n \in Nat
        /\ DropsLeft(E) = (m + b) + n /\ DropsLeft(D) = a + (n + m)
    BY <2>1, <2>2, <2>3, <2>4, <2>5, <2>6
  <2> HIDE DEF a, b, m, n
  <2> QED BY <2>7
<1> QED BY <1>20, <1>21 DEF E

(* The steps of DecrefAll.                                                 *)
Drops == [heap : Heaps, todo : Seq(Pointers)]
Advance(D) == IF D.todo = <<>> THEN D ELSE Drop(D)

LEMMA AdvanceTyped ==
  ASSUME NEW D \in Drops
  PROVE  Advance(D) \in Drops
<1>1. SUFFICES ASSUME D.todo # <<>> PROVE Drop(D) \in Drops
  BY DEF Advance
<1> DEFINE k == D.heap
           c == Head(D.todo)
           b == Tail(D.todo)
           a == k.parts[c]
<1>2. k \in Heaps /\ D.todo \in Seq(Pointers)
  BY DEF Drops
<1>3. c \in Pointers /\ b \in Seq(Pointers)
  BY <1>1, <1>2, HeadAndTail
<1>4. c # None => c \in Cells /\ a \in Seq(Pointers)
  BY <1>2, <1>3, HeapFields, CellsArePointers DEF Pointers
<1>5. Drop(D) = IF c = None THEN [heap |-> k, todo |-> b]
                ELSE IF Stays(k, c) THEN [heap |-> Lessened(k, c), todo |-> b]
                ELSE [heap |-> Freed(k, c), todo |-> a \o b]
  BY DEF Drop, Lessened, Freed
<1> HIDE DEF k, c, b, a
<1>6. c # None => Lessened(k, c) \in Heaps /\ Freed(k, c) \in Heaps
  BY <1>2, <1>4, LessenedIs, FreedIs
<1>7. c # None => a \o b \in Seq(Pointers)
  BY <1>3, <1>4
<1> QED BY <1>2, <1>3, <1>5, <1>6, <1>7 DEF Drops

LEMMA DecrefAllSteps ==
  ASSUME NEW h \in Heaps, NEW cs \in Seq(Pointers)
  PROVE  /\ MostDrops(h, cs) \in Nat
         /\ \E after \in [0 .. MostDrops(h, cs) -> Drops] :
              /\ after[0] = [heap |-> h, todo |-> cs]
              /\ \A n \in 1 .. MostDrops(h, cs) : after[n] = Advance(after[n - 1])
              /\ DecrefAll(h, cs) = after[MostDrops(h, cs)].heap
<1> DEFINE L == MostDrops(h, cs)
           base == [heap |-> h, todo |-> cs]
           Sequel(at) == [n \in 0 .. L |-> IF n = 0 THEN base
                                           ELSE IF at[n - 1].todo = <<>> THEN at[n - 1]
                                           ELSE Drop(at[n - 1])]
           after == CHOOSE at : at = Sequel(at)
           step == [p \in (1 .. L) \X Drops |-> Advance(p[2])]
<1>1. L \in Nat
  <2>1. Cardinality(Links(h)) \in Nat /\ Len(cs) \in Nat
    BY HeapFields, LinksFinite
  <2> QED BY <2>1 DEF MostDrops
<1>2. base \in Drops
  BY DEF Drops
<1>3. step \in [(1 .. L) \X Drops -> Drops]
  <2>1. ASSUME NEW p \in (1 .. L) \X Drops PROVE Advance(p[2]) \in Drops
    <3>1. p[2] \in Drops
      OBVIOUS
    <3> QED BY <3>1, AdvanceTyped
  <2> HIDE DEF L
  <2> QED BY <2>1
<1>4. \E g : Unfolds(g, Drops, base, L, step)
  <2> HIDE DEF base, L, step
  <2> QED BY <1>1, <1>2, <1>3, Recursion
<1>5. PICK g : Unfolds(g, Drops, base, L, step)
  BY <1>4
<1> HIDE DEF L
<1>6. g = Sequel(g)
  <2>1. g \in [0 .. L -> Drops] /\ g[0] = base /\ \A k \in 1 .. L : g[k] = step[<<k, g[k - 1]>>]
    BY <1>5 DEF Unfolds
  <2>2. ASSUME NEW k \in 1 .. L PROVE g[k] = Advance(g[k - 1])
    <3>1. g[k - 1] \in Drops
      <4>1. k - 1 \in 0 .. L
        BY <1>1
      <4> QED BY <2>1, <4>1
    <3>2. step[<<k, g[k - 1]>>] = Advance(g[k - 1])
      BY <3>1
    <3> QED BY <2>1, <3>2
  <2>3. \A k \in 0 .. L : k = 0 \/ k \in 1 .. L
    BY <1>1
  <2>4. \A k \in 0 .. L : g[k] = IF k = 0 THEN base
                                 ELSE IF g[k - 1].todo = <<>> THEN g[k - 1] ELSE Drop(g[k - 1])
    <3> HIDE DEF step, base
    <3> QED BY <2>1, <2>2, <2>3 DEF Advance
  <2>5. g = [k \in 0 .. L |-> g[k]]
    BY <2>1
  <2> HIDE DEF step, base
  <2> QED BY <2>4, <2>5
<1>7. after = Sequel(after)
  <2> HIDE DEF Sequel
  <2> QED BY <1>6
<1>8. \A n \in 0 .. L : after[n] = IF n = 0 THEN base ELSE Advance(after[n - 1])
  <2> TAKE n \in 0 .. L
  <2>1. Sequel(after)[n] = IF n = 0 THEN base ELSE Advance(after[n - 1])
    BY DEF Advance
  <2> HIDE DEF after, Sequel
  <2> QED BY <1>7, <2>1
<1>9. after \in [0 .. L -> Drops]
  <2> HIDE DEF after
  <2> DEFINE T == {n \in 0 .. L : after[n] \in Drops}
  <2>1. 0 \in T
    BY <1>1, <1>2, <1>8
  <2>2. ASSUME NEW n \in 0 .. L - 1, n \in T PROVE n + 1 \in T
    <3>1. n + 1 \in 0 .. L /\ n + 1 # 0 /\ (n + 1) - 1 = n
      BY <1>1
    <3>2. after[n + 1] = Advance(after[n])
      BY <1>8, <3>1
    <3>3. after[n] \in Drops
      BY <2>2
    <3> QED BY <3>1, <3>2, <3>3, AdvanceTyped
  <2>3. \A n \in 0 .. L : n \in T
    <3> HIDE DEF T
    <3> QED BY <1>1, <2>1, <2>2, Induction
  <2>4. after = [n \in 0 .. L |-> after[n]]
    <3>1. Sequel(after) = [n \in 0 .. L |-> Sequel(after)[n]]
      OBVIOUS
    <3> HIDE DEF Sequel
    <3> QED BY <1>7, <3>1
  <2> QED BY <2>3, <2>4
<1>10. DecrefAll(h, cs) = after[L].heap
  BY DEF DecrefAll, L
<1>11. after[0] = base /\ \A n \in 1 .. L : after[n] = Advance(after[n - 1])
  <2> HIDE DEF after, base
  <2>1. 0 \in 0 .. L /\ \A n \in 1 .. L : n \in 0 .. L /\ n # 0
    BY <1>1
  <2> QED BY <1>8, <2>1
<1> HIDE DEF after
<1> QED BY <1>1, <1>9, <1>10, <1>11 DEF L

LEMMA PlusNone ==
  ASSUME NEW out \in [Cells -> Int]
  PROVE  Plus(out, <<>>) = out
<1>1. \A c \in Cells : out[c] + Times(<<>>, c) = out[c]
  BY TimesNone
<1> QED BY <1>1 DEF Plus

(* Released references are taken off those from outside, and nothing is    *)
(* freed that is still referred to.                                        *)
LEMMA DecrefAllIs ==
  ASSUME NEW h, NEW out, NEW thefts, NEW gone, NEW most \in Nat, NEW cs \in Seq(Pointers),
         Ledger(out, thefts), Balanced(h, Plus(out, cs), thefts, gone),
         \A i \in DOMAIN cs : cs[i] # None => cs[i] <= most
  PROVE  /\ Balanced(DecrefAll(h, cs), out, thefts, gone)
         /\ Released(h, DecrefAll(h, cs), thefts, gone, most)
<1> DEFINE L == MostDrops(h, cs)
<1>1. h \in Heaps
  BY DEF Balanced, HeapGood
<1>2. L \in Nat
  BY <1>1, DecrefAllSteps
<1>3. PICK after \in [0 .. L -> Drops] :
        /\ after[0] = [heap |-> h, todo |-> cs]
        /\ \A n \in 1 .. L : after[n] = Advance(after[n - 1])
        /\ DecrefAll(h, cs) = after[L].heap
  BY <1>1, DecrefAllSteps
<1> DEFINE Holds(n) == /\ Dropping(after[n], h, out, thefts, gone, most)
                       /\ after[n].todo = <<>> \/ DropsLeft(after[n]) = L - n
           T == {n \in 0 .. L : Holds(n)}
<1>4. 0 \in T
  <2>1. Dropping(after[0], h, out, thefts, gone, most)
    <3>1. after[0].heap = h /\ after[0].todo = cs
      BY <1>3
    <3>2. Released(h, h, thefts, gone, most)
      BY DEF Released, Balanced, HeapGood
    <3> QED BY <1>3, <3>1, <3>2 DEF Dropping
  <2>2. DropsLeft(after[0]) = L
    BY <1>3 DEF DropsLeft, MostDrops
  <2> HIDE DEF L
  <2> QED BY <1>2, <2>1, <2>2
<1>5. ASSUME NEW n \in 0 .. L - 1, n \in T PROVE n + 1 \in T
  <2>1. n + 1 \in 1 .. L /\ n + 1 \in 0 .. L /\ (n + 1) - 1 = n /\ n \in Nat
    BY <1>2
  <2>2. after[n + 1] = Advance(after[n])
    BY <1>3, <2>1
  <2>3. Holds(n)
    BY <1>5
  <2>4. CASE after[n].todo = <<>>
    BY <2>1, <2>2, <2>3, <2>4 DEF Advance
  <2>5. CASE after[n].todo # <<>>
    <3>1. after[n + 1] = Drop(after[n])
      BY <2>2, <2>5 DEF Advance
    <3>2. Dropping(Drop(after[n]), h, out, thefts, gone, most) /\ DropsLeft(Drop(after[n])) = DropsLeft(after[n]) - 1
      <4> DEFINE D == after[n]
      <4>1. Dropping(D, h, out, thefts, gone, most) /\ D.todo # <<>>
        BY <2>3, <2>5
      <4> HIDE DEF D
      <4>2. Dropping(Drop(D), h, out, thefts, gone, most) /\ DropsLeft(Drop(D)) = DropsLeft(D) - 1
        BY <4>1, NullStep, KeepStep, FreeStep
      <4> QED BY <4>2 DEF D
    <3>3. DropsLeft(after[n + 1]) = L - (n + 1)
      <4> HIDE DEF L
      <4> QED BY <1>2, <2>1, <2>3, <2>5, <3>1, <3>2
    <3> QED BY <2>1, <3>1, <3>2, <3>3
  <2> QED BY <2>4, <2>5
<1>6. Holds(L)
  <2> HIDE DEF L, Holds
  <2>1. \A n \in 0 .. L : n \in T
    <3> HIDE DEF T
    <3> QED BY <1>2, <1>4, <1>5, Induction
  <2> QED BY <1>2, <2>1
<1> HIDE DEF L
<1>7. after[L].todo = <<>>
  <2>1. after[L] \in Drops
    BY <1>2, <1>3
  <2> DEFINE D == after[L]
  <2>2. D.heap \in Heaps /\ D.todo \in Seq(Pointers) /\ D \in Drops
    BY <2>1 DEF Drops
  <2> HIDE DEF D
  <2>3. Cardinality(Links(D.heap)) \in Nat /\ Len(D.todo) \in Nat
    <3>1. D.heap.live \subseteq Cells /\ D.heap.parts \in [Cells -> Seq(Cells)]
      BY <2>2, HeapFields
    <3>2. Cardinality(Links(D.heap)) \in Nat
      BY <3>1, LinksFinite
    <3> QED BY <2>2, <3>2
  <2>4. DropsLeft(D) = 0 => Len(D.todo) = 0
    BY <2>3 DEF DropsLeft
  <2>5. DropsLeft(D) = 0 => D.todo = <<>>
    BY <2>2, <2>4
  <2>6. D.todo = <<>> \/ DropsLeft(D) = 0
    BY <1>2, <1>6 DEF D
  <2> QED BY <2>5, <2>6 DEF D
<1>8. Plus(out, <<>>) = out
  BY PlusNone DEF Ledger
<1> QED BY <1>3, <1>6, <1>7, <1>8 DEF Dropping

-----------------------------------------------------------------------------
(* Taking references *)

(* g has the descriptors and the table of h.                               *)
SameShape(h, g) == g.type = h.type /\ g.parts = h.parts /\ g.live = h.live /\ g.table = h.table

LEMMA IncrefAllFields ==
  ASSUME NEW h \in Heaps, NEW cs \in Seq(Cells), NEW g, g = IncrefAll(h, cs)
  PROVE  /\ g \in Heaps /\ SameShape(h, g)
         /\ \A c \in Cells : g.refcnt[c] = h.refcnt[c] + Times(cs, c)
<1> DEFINE counts == [c \in Cells |-> h.refcnt[c] + Times(cs, c)]
<1>1. g = [type |-> h.type, refcnt |-> counts, parts |-> h.parts, live |-> h.live, table |-> h.table]
  BY DEF Heaps, IncrefAll
<1>2. counts \in [Cells -> Int]
  <2>1. ASSUME NEW c \in Cells PROVE h.refcnt[c] + Times(cs, c) \in Int
    BY HeapFields, TimesIsNat
  <2> QED BY <2>1
<1>3. g.refcnt = counts
  BY <1>1
<1>4. g \in Heaps
  <2> HIDE DEF counts
  <2> QED BY <1>1, <1>2, HeapFields DEF Heaps
<1> QED BY <1>1, <1>3, <1>4 DEF SameShape

LEMMA IncrefIs ==
  ASSUME NEW h \in Heaps, NEW c \in Cells
  PROVE  Incref(h, c) = IncrefAll(h, <<c>>)
<1>1. \A d \in Cells : [h.refcnt EXCEPT ![c] = @ + 1][d] = h.refcnt[d] + Times(<<c>>, d)
  <2> TAKE d \in Cells
  <2>1. h.refcnt \in [Cells -> Int]
    BY HeapFields
  <2>2. Times(<<c>>, d) = IF c = d THEN 1 ELSE 0
    BY TimesOne
  <2> QED BY <2>1, <2>2
<1>2. [h.refcnt EXCEPT ![c] = @ + 1] = [d \in Cells |-> h.refcnt[d] + Times(<<c>>, d)]
  BY <1>1, HeapFields
<1> QED BY <1>2 DEF Incref, IncrefAll, Heaps

LEMMA ShapeInside ==
  ASSUME NEW h, NEW g, SameShape(h, g), NEW c
  PROVE  Inside(g, c) = Inside(h, c)
<1>1. LinksTo(g, c) = LinksTo(h, c)
  BY SameLinks DEF SameShape
<1> QED BY <1>1, InsideIs DEF SameShape, IsBase

LEMMA IncrefAllIs ==
  ASSUME NEW h, NEW out \in [Cells -> Int], NEW thefts, NEW gone, NEW cs \in Seq(Cells), NEW g,
         Balanced(h, out, thefts, gone), g = IncrefAll(h, cs)
  PROVE  Balanced(g, Plus(out, cs), thefts, gone) /\ SameShape(h, g)
<1>1. HeapGood(h) /\ h \in Heaps
  BY DEF Balanced, HeapGood
<1>2. /\ g \in Heaps /\ SameShape(h, g)
      /\ \A c \in Cells : g.refcnt[c] = h.refcnt[c] + Times(cs, c)
  BY <1>1, IncrefAllFields
<1>3. HeapGood(g)
  <2>1. \A c \in g.live : Named(g, c) /\ (IsBase(g, c) \/ g.refcnt[c] > 0)
    <3>1. SUFFICES ASSUME NEW c \in h.live PROVE Named(g, c) /\ (IsBase(g, c) \/ g.refcnt[c] > 0)
      BY <1>2 DEF SameShape
    <3>2. c \in Cells /\ h.refcnt[c] \in Int
      BY <1>1, HeapFields
    <3>3. Times(cs, c) \in Nat
      BY TimesIsNat
    <3>4. Named(h, c) /\ (IsBase(h, c) \/ h.refcnt[c] > 0)
      BY <1>1 DEF HeapGood
    <3> QED BY <1>2, <3>2, <3>3, <3>4 DEF Named, SameShape, IsBase
  <2>2. \A c \in Cells : PartsGood(g, c)
    BY <1>1, <1>2 DEF HeapGood, PartsGood, Named, SameShape
  <2> QED BY <1>1, <1>2, <2>1, <2>2 DEF HeapGood, Named, SameShape
<1>4. Counts(g, Plus(out, cs))
  <2>1. SUFFICES ASSUME NEW c \in h.live PROVE g.refcnt[c] = Plus(out, cs)[c] + Inside(g, c)
    BY <1>2 DEF Counts, SameShape
  <2>2. c \in Cells
    BY <1>1, HeapFields
  <2>3. h.refcnt[c] = out[c] + Inside(h, c)
    BY DEF Balanced, Counts
  <2>4. Inside(h, c) \in Nat /\ Times(cs, c) \in Nat
    BY <1>1, InsideIsNat, TimesIsNat
  <2>5. Inside(g, c) = Inside(h, c)
    BY <1>2, ShapeInside
  <2>6. Plus(out, cs)[c] = out[c] + Times(cs, c)
    BY <2>2 DEF Plus
  <2> QED BY <1>2, <2>2, <2>3, <2>4, <2>5, <2>6
<1> QED BY <1>2, <1>3, <1>4 DEF Balanced, SameShape, Named, Safe

(* Only the numbers of references matter.                                  *)
LEMMA BalancedSame ==
  ASSUME NEW h, NEW out, NEW other, NEW thefts, NEW gone,
         Balanced(h, out, thefts, gone), \A c \in Cells : other[c] = out[c]
  PROVE  Balanced(h, other, thefts, gone)
<1>1. h.live \subseteq Cells
  BY HeapFields DEF Balanced, HeapGood
<1> QED BY <1>1 DEF Balanced, Counts

OneRefMore(out, more, c) == \A d \in Cells : more[d] = out[d] + (IF d = c THEN 1 ELSE 0)

LEMMA IncrefStep ==
  ASSUME NEW h, NEW out \in [Cells -> Int], NEW th, NEW gone, NEW c \in Cells, NEW k, k = Incref(h, c),
         Balanced(h, out, th, gone), NEW more, OneRefMore(out, more, c)
  PROVE  Balanced(k, more, th, gone) /\ SameShape(h, k)
<1> DEFINE cs == <<c>>
<1>1. h \in Heaps
  BY DEF Balanced, HeapGood
<1>2. cs \in Seq(Cells) /\ k = IncrefAll(h, cs)
  BY <1>1, IncrefIs
<1>3. \A d \in Cells : more[d] = Plus(out, cs)[d]
  BY TimesOne DEF Plus, OneRefMore
<1> HIDE DEF cs
<1>4. Balanced(k, Plus(out, cs), th, gone) /\ SameShape(h, k)
  BY <1>2, IncrefAllIs
<1> QED BY <1>3, <1>4, BalancedSame

-----------------------------------------------------------------------------
(* Interning *)

LEMMA FindIs ==
  ASSUME NEW h \in Heaps, NEW t
  PROVE  /\ Find(h, t) # None => Find(h, t) \in h.table /\ h.type[Find(h, t)] = t
         /\ Find(h, t) = None => \A c \in h.table : h.type[c] # t
<1> DEFINE found == {c \in h.table : h.type[c] = t}
<1>1. None \notin h.table
  BY CellFacts, HeapFields
<1>2. found # {} => (CHOOSE c \in found : TRUE) \in found
  OBVIOUS
<1>3. Find(h, t) = IF found = {} THEN None ELSE CHOOSE c \in found : TRUE
  BY DEF Find
<1>4. CASE found = {}
  BY <1>3, <1>4
<1>5. CASE found # {}
  <2>1. Find(h, t) \in found
    BY <1>2, <1>3, <1>5
  <2> QED BY <1>1, <2>1
<1> QED BY <1>4, <1>5

LEMMA LeastUnused ==
  ASSUME NEW h, Unused(h) # {}
  PROVE  /\ Min(Unused(h)) \in Cells /\ ~ Named(h, Min(Unused(h)))
         /\ \A d \in Cells : ~ Named(h, d) => Min(Unused(h)) <= d
<1>1. Unused(h) \in SUBSET Nat /\ \A d : d \in Unused(h) <=> d \in Cells /\ ~ Named(h, d)
  BY CellFacts DEF Unused, Named
<1> HIDE DEF Unused
<1>2. \E m \in Unused(h) : \A k \in Unused(h) : m <= k
  BY <1>1, Least
<1>3. Min(Unused(h)) \in Unused(h) /\ \A k \in Unused(h) : Min(Unused(h)) <= k
  BY <1>2, Zenon DEF Min
<1> QED BY <1>1, <1>3

(* A new descriptor for t.                                                 *)
Fresh(h, t, parts, c) ==
  [h EXCEPT !.type[c] = t, !.refcnt[c] = 1, !.parts[c] = parts,
            !.live = @ \cup {c}, !.table = @ \cup {c}]

LEMMA FreshFields ==
  ASSUME NEW h \in Heaps, NEW t \in Types, NEW parts \in Seq(Cells), NEW c \in Cells,
         NEW g, g = Fresh(h, t, parts, c)
  PROVE  /\ g \in Heaps /\ g.live = h.live \cup {c} /\ g.table = h.table \cup {c}
         /\ \A d \in Cells : /\ g.type[d] = IF d = c THEN t ELSE h.type[d]
                             /\ g.refcnt[d] = IF d = c THEN 1 ELSE h.refcnt[d]
                             /\ g.parts[d] = IF d = c THEN parts ELSE h.parts[d]
<1>1. g = [type |-> [h.type EXCEPT ![c] = t], refcnt |-> [h.refcnt EXCEPT ![c] = 1],
           parts |-> [h.parts EXCEPT ![c] = parts], live |-> h.live \cup {c},
           table |-> h.table \cup {c}]
  BY DEF Heaps, Fresh
<1>2. /\ [h.type EXCEPT ![c] = t] \in [Cells -> Types \cup {None}]
      /\ [h.refcnt EXCEPT ![c] = 1] \in [Cells -> Int]
      /\ [h.parts EXCEPT ![c] = parts] \in [Cells -> Seq(Cells)]
      /\ h.live \cup {c} \in SUBSET Cells /\ h.table \cup {c} \in SUBSET Cells
  BY HeapFields
<1>3. g \in Heaps
  BY <1>1, <1>2 DEF Heaps
<1>4. \A d \in Cells : /\ g.type[d] = IF d = c THEN t ELSE h.type[d]
                       /\ g.refcnt[d] = IF d = c THEN 1 ELSE h.refcnt[d]
                       /\ g.parts[d] = IF d = c THEN parts ELSE h.parts[d]
  BY <1>1, HeapFields
<1> QED BY <1>1, <1>3, <1>4

LEMMA NoLinks ==
  ASSUME NEW h, HeapGood(h), NEW c, ~ Named(h, c)
  PROVE  Cardinality(LinksTo(h, c)) = 0
<1>1. ASSUME NEW l \in LinksTo(h, c) PROVE FALSE
  <2>1. l \in Links(h) /\ h.parts[l[1]][l[2]] = c
    BY DEF LinksTo
  <2>2. PICK p \in h.live : \E i \in DOMAIN h.parts[p] : l = <<p, i>>
    BY <2>1, LinkIs
  <2>3. PICK i \in DOMAIN h.parts[p] : l = <<p, i>>
    BY <2>2
  <2>4. h.parts[p][i] = c
    BY <2>1, <2>3
  <2>5. PartsGood(h, p)
    BY HeapFields DEF HeapGood
  <2> QED BY <2>4, <2>5 DEF PartsGood
<1>2. LinksTo(h, c) = {}
  BY <1>1
<1> QED BY <1>2, FS_EmptySet

LEMMA NotAPart ==
  ASSUME NEW cs, NEW c, \A i \in DOMAIN cs : cs[i] # c
  PROVE  Times(cs, c) = 0
<1>1. {i \in DOMAIN cs : cs[i] = c} = {}
  OBVIOUS
<1> QED BY <1>1, FS_EmptySet DEF Times

(* What is true of a descriptor stays true.                                *)
Later(h, g, thefts, gone) ==
  \A c \in Cells : Named(h, c) => /\ g.type[c] = h.type[c] /\ g.parts[c] = h.parts[c]
                                  /\ Safe(h, thefts, gone, c) => Safe(g, thefts, gone, c)

LEMMA LaterTwice ==
  ASSUME NEW h, NEW k, NEW g, NEW thefts, NEW gone,
         Later(h, k, thefts, gone), Later(k, g, thefts, gone)
  PROVE  Later(h, g, thefts, gone)
BY DEF Later, Named

LEMMA ShapeLater ==
  ASSUME NEW h, NEW g, NEW thefts, NEW gone, SameShape(h, g)
  PROVE  Later(h, g, thefts, gone)
BY DEF SameShape, Later, Safe

LEMMA ReleasedLater ==
  ASSUME NEW h, NEW g, NEW thefts, NEW gone, NEW most, Released(h, g, thefts, gone, most)
  PROVE  Later(h, g, thefts, gone)
BY DEF Released, Later, Safe

(* What a descriptor for t can be built from.                              *)
CanBuild(h, thefts, t, parts) ==
  /\ t \in Types /\ parts \in Seq(Cells) /\ Len(parts) = Len(PartsOf(t))
  /\ \A i \in DOMAIN parts : Named(h, parts[i]) /\ Safe(h, thefts, {}, parts[i])

LEMMA FreshIs ==
  ASSUME NEW h, NEW out \in [Cells -> Int], NEW thefts \in [Cells -> Nat], NEW t, NEW parts, NEW c, NEW g,
         Balanced(h, Plus(out, parts), thefts, {}), CanBuild(h, thefts, t, parts),
         Unused(h) # {}, c = Min(Unused(h)), Find(h, t) = None, g = Fresh(h, t, parts, c),
         \A d \in Cells : ~ Named(h, d) => out[d] = 0
  PROVE  /\ Balanced(g, out, thefts, {}) /\ Later(h, g, thefts, {})
         /\ c \in g.live /\ g.type[c] = t
<1>1. HeapGood(h) /\ h \in Heaps /\ t \in Types /\ parts \in Seq(Cells)
  BY DEF Balanced, HeapGood, CanBuild
<1>2. c \in Cells /\ ~ Named(h, c) /\ \A d \in Cells : ~ Named(h, d) => c <= d
  BY LeastUnused
<1>3. /\ g \in Heaps /\ g.live = h.live \cup {c} /\ g.table = h.table \cup {c}
      /\ \A d \in Cells : /\ g.type[d] = IF d = c THEN t ELSE h.type[d]
                          /\ g.refcnt[d] = IF d = c THEN 1 ELSE h.refcnt[d]
                          /\ g.parts[d] = IF d = c THEN parts ELSE h.parts[d]
  BY <1>1, <1>2, FreshFields
<1>4. h.live \subseteq Cells /\ c \notin h.live /\ t # None /\ h.live = h.table
  <2>1. h.live \subseteq h.table \cup {} /\ h.table \subseteq h.live
    BY DEF Balanced, HeapGood
  <2> QED BY <1>1, <1>2, <2>1, HeapFields, TypeDescAssumption DEF HeapGood
<1>5. \A d \in h.live : h.type[d] # t
  BY <1>1, <1>4, FindIs
<1>6. t \notin BaseTypes
  BY <1>1, <1>5 DEF HeapGood
<1>7. \A d \in Cells : Named(g, d) <=> Named(h, d) \/ d = c
  BY <1>3, <1>4 DEF Named
<1>8. HeapGood(g)
  <2>1. \A d \in g.live : Named(g, d) /\ (IsBase(g, d) \/ g.refcnt[d] > 0)
    <3>1. SUFFICES ASSUME NEW d \in g.live PROVE Named(g, d) /\ (IsBase(g, d) \/ g.refcnt[d] > 0)
      OBVIOUS
    <3>2. d = c \/ (d # c /\ d \in h.live)
      BY <1>3
    <3>3. d \in h.live => Named(h, d) /\ (IsBase(h, d) \/ h.refcnt[d] > 0) /\ d \in Cells
      BY <1>1, <1>4 DEF HeapGood
    <3> QED BY <1>2, <1>3, <1>7, <3>2, <3>3 DEF IsBase
  <2>2. ASSUME NEW d \in g.live, NEW e \in g.live, g.type[d] = g.type[e] PROVE d = e
    BY <1>1, <1>2, <1>3, <1>4, <1>5, <2>2 DEF HeapGood
  <2>3. ASSUME NEW d \in Cells, NEW e \in Cells, Named(g, d), ~ Named(g, e) PROVE d < e
    <3>1. ~ Named(h, e) /\ e # c /\ c <= e
      BY <1>2, <1>7, <2>3
    <3>2. c < e
      BY <1>2, <3>1, CellFacts
    <3>3. Named(h, d) => d < e
      BY <1>1, <3>1 DEF HeapGood
    <3> QED BY <1>7, <2>3, <3>2, <3>3
  <2>4. ASSUME NEW d \in Cells PROVE PartsGood(g, d)
    <3>1. CASE d = c
      <4>1. Len(parts) = Len(PartsOf(t))
        BY DEF CanBuild
      <4>2. ASSUME NEW i \in DOMAIN parts PROVE parts[i] < c /\ Named(g, parts[i])
        <5>1. Named(h, parts[i]) /\ parts[i] \in Cells
          BY <1>1 DEF CanBuild
        <5> QED BY <1>1, <1>2, <1>7, <5>1 DEF HeapGood
      <4> QED BY <1>2, <1>3, <1>7, <3>1, <4>1, <4>2 DEF PartsGood
    <3>2. CASE d # c
      <4>1. PartsGood(h, d) /\ h.parts[d] \in Seq(Cells)
        BY <1>1, HeapFields DEF HeapGood
      <4>2. \A i \in DOMAIN h.parts[d] : h.parts[d][i] \in Cells
        BY <4>1
      <4>3. g.parts[d] = h.parts[d] /\ g.type[d] = h.type[d] /\ (Named(g, d) <=> Named(h, d))
        BY <1>3, <1>7, <3>2
      <4> QED BY <1>7, <4>1, <4>2, <4>3 DEF PartsGood
    <3> QED BY <3>1, <3>2
  <2>5. \A u \in BaseTypes : \E d \in g.live : g.type[d] = u
    <3>1. \A u \in BaseTypes : \E d \in h.live : h.type[d] = u
      BY <1>1 DEF HeapGood
    <3>2. \A d \in h.live : d \in g.live /\ g.type[d] = h.type[d]
      BY <1>3, <1>4
    <3> QED BY <3>1, <3>2
  <2>6. g.table \subseteq g.live
    BY <1>3, <1>4
  <2> QED BY <1>3, <2>1, <2>2, <2>3, <2>4, <2>5, <2>6 DEF HeapGood
<1>9. /\ h.parts \in [Cells -> Seq(Cells)] /\ OneMore(h, g, c)
  BY <1>1, <1>2, <1>3, <1>4, HeapFields DEF OneMore
<1>10. \A d : Cardinality(LinksTo(g, d)) = Cardinality(LinksTo(h, d)) + Times(parts, d)
  BY <1>2, <1>3, <1>9, LinksMore
<1>11. Counts(g, out)
  <2>1. SUFFICES ASSUME NEW d \in g.live PROVE g.refcnt[d] = out[d] + Inside(g, d)
    BY DEF Counts
  <2>2. /\ Inside(g, d) = Cardinality(LinksTo(g, d)) + (IF d \in g.table THEN 1 ELSE 0)
                          + (IF IsBase(g, d) THEN 1 ELSE 0)
        /\ Inside(h, d) = Cardinality(LinksTo(h, d)) + (IF d \in h.table THEN 1 ELSE 0)
                          + (IF IsBase(h, d) THEN 1 ELSE 0)
        /\ Cardinality(LinksTo(g, d)) = Cardinality(LinksTo(h, d)) + Times(parts, d)
    BY <1>10, InsideIs
  <2>3. CASE d = c
    <3>1. Cardinality(LinksTo(h, c)) = 0
      BY <1>1, <1>2, NoLinks
    <3>2. Times(parts, c) = 0
      BY <1>2, NotAPart DEF CanBuild
    <3>3. ~ IsBase(g, c) /\ c \in g.table /\ out[c] = 0 /\ g.refcnt[c] = 1
      BY <1>2, <1>3, <1>6 DEF IsBase
    <3> QED BY <2>2, <2>3, <3>1, <3>2, <3>3
  <2>4. CASE d # c
    <3>1. d \in h.live /\ d \in Cells
      BY <1>3, <1>4, <2>4
    <3>2. (d \in g.table <=> d \in h.table) /\ (IsBase(g, d) <=> IsBase(h, d))
      BY <1>3, <2>4, <3>1 DEF IsBase
    <3>3. h.refcnt[d] = Plus(out, parts)[d] + Inside(h, d)
      BY <3>1 DEF Balanced, Counts
    <3>4. Plus(out, parts)[d] = out[d] + Times(parts, d)
      BY <3>1 DEF Plus
    <3>5. Cardinality(LinksTo(h, d)) \in Nat /\ Times(parts, d) \in Nat /\ out[d] \in Int
      BY <1>1, <3>1, HeapFields, LinksFinite, TimesIsNat
    <3>6. g.refcnt[d] = h.refcnt[d]
      BY <1>3, <2>4, <3>1
    <3> QED BY <2>2, <3>2, <3>3, <3>4, <3>5, <3>6
  <2> QED BY <2>3, <2>4
<1>12. ASSUME NEW d \in g.live, NEW i \in DOMAIN g.parts[d] PROVE Safe(g, thefts, {}, g.parts[d][i])
  <2>1. CASE d = c
    <3>1. i \in DOMAIN parts /\ g.parts[d][i] = parts[i]
      BY <1>2, <1>3, <2>1
    <3> QED BY <1>3, <3>1 DEF CanBuild, Safe
  <2>2. CASE d # c
    <3>1. d \in h.live /\ i \in DOMAIN h.parts[d] /\ g.parts[d][i] = h.parts[d][i]
      BY <1>3, <1>4, <2>2
    <3> QED BY <1>3, <3>1 DEF Balanced, Safe
  <2> QED BY <2>1, <2>2
<1>13. \A d \in Cells : Named(g, d) => Safe(g, thefts, {}, d)
  BY <1>3, <1>7 DEF Balanced, Safe
<1>14. Balanced(g, out, thefts, {})
  BY <1>3, <1>4, <1>8, <1>11, <1>12, <1>13 DEF Balanced
<1>15. Later(h, g, thefts, {})
  BY <1>2, <1>3 DEF Later, Safe
<1> QED BY <1>2, <1>3, <1>14, <1>15

LEMMA AllocateIs ==
  ASSUME NEW h, NEW t, NEW parts
  PROVE  Allocate(h, t, parts) = [heap |-> Fresh(h, t, parts, Min(Unused(h))), cell |-> Min(Unused(h))]
BY DEF Allocate, Fresh

(* What a descriptor got is.                                               *)
Got(got, t, out, thefts) ==
  /\ Balanced(got.heap, out, thefts, {})
  /\ got.cell \in got.heap.live /\ got.heap.type[got.cell] = t

LEMMA GetIs ==
  ASSUME NEW h, NEW out \in [Cells -> Int], NEW thefts \in [Cells -> Nat], NEW t, NEW parts,
         Balanced(h, out, thefts, {}), CanBuild(h, thefts, t, parts), Unused(h) # {},
         \A d \in Cells : ~ Named(h, d) => out[d] = 0
  PROVE  Got(Get(h, t, parts), t, out, thefts) /\ Later(h, Get(h, t, parts).heap, thefts, {})
<1>1. h \in Heaps /\ parts \in Seq(Cells)
  BY DEF Balanced, HeapGood, CanBuild
<1>2. CASE Find(h, t) # None
  <2>1. Get(h, t, parts) = [heap |-> h, cell |-> Find(h, t)]
    BY <1>2 DEF Get
  <2>2. Find(h, t) \in h.live /\ h.type[Find(h, t)] = t
    BY <1>1, <1>2, FindIs DEF Balanced, HeapGood
  <2> QED BY <2>1, <2>2 DEF Got, Later
<1>3. CASE Find(h, t) = None
  <2> DEFINE k == IncrefAll(h, parts)
             c == Min(Unused(k))
             g == Fresh(k, t, parts, c)
  <2>1. Get(h, t, parts) = [heap |-> g, cell |-> c]
    BY <1>3, AllocateIs DEF Get
  <2> HIDE DEF k, c, g
  <2>2. Balanced(k, Plus(out, parts), thefts, {}) /\ SameShape(h, k)
    BY <1>1, IncrefAllIs DEF k
  <2>3. Unused(k) # {} /\ Find(k, t) = None /\ CanBuild(k, thefts, t, parts)
    BY <1>3, <2>2 DEF SameShape, Unused, Find, CanBuild, Named, Safe
  <2>4. \A d \in Cells : ~ Named(k, d) => out[d] = 0
    BY <2>2 DEF SameShape, Named
  <2>5. /\ Balanced(g, out, thefts, {}) /\ Later(k, g, thefts, {})
        /\ c \in g.live /\ g.type[c] = t
    BY <2>2, <2>3, <2>4, FreshIs DEF c, g
  <2>6. Later(h, g, thefts, {})
    BY <2>2, <2>5, ShapeLater, LaterTwice
  <2> QED BY <2>1, <2>5, <2>6 DEF Got
<1> QED BY <1>2, <1>3

LEMMA GetProtoIs ==
  ASSUME NEW h, NEW out, NEW thefts, NEW t, NEW parts, Ledger(out, thefts),
         Balanced(h, Plus(out, parts), thefts, {}), CanBuild(h, thefts, t, parts), Unused(h) # {},
         \A d \in Cells : ~ Named(h, d) => out[d] = 0
  PROVE  /\ Balanced(GetProto(h, t, parts).heap, out, thefts, {})
         /\ Later(h, GetProto(h, t, parts).heap, thefts, {})
         /\ LET got == GetProto(h, t, parts)
            IN  got.cell \in Cells /\ got.heap.type[got.cell] = t /\ Safe(got.heap, thefts, {}, got.cell)
<1>1. /\ h \in Heaps /\ parts \in Seq(Cells) /\ out \in [Cells -> Int] /\ thefts \in [Cells -> Nat]
      /\ t \in Types /\ t # None
  BY TypeDescAssumption DEF Balanced, HeapGood, CanBuild, Ledger
<1>2. CASE Find(h, t) # None
  <2> DEFINE g == DecrefAll(h, parts)
             c == Find(h, t)
  <2>1. GetProto(h, t, parts) = [heap |-> g, cell |-> c]
    BY <1>2 DEF GetProto
  <2>2. c \in h.live /\ h.type[c] = t /\ c \in Cells
    BY <1>1, <1>2, FindIs, HeapFields DEF Balanced, HeapGood
  <2>3. parts \in Seq(Pointers) /\ MaxCells \in Nat /\ \A i \in DOMAIN parts : parts[i] <= MaxCells
    BY <1>1, CellsArePointers, TypeDescAssumption DEF Cells
  <2>4. Balanced(g, out, thefts, {}) /\ Released(h, g, thefts, {}, MaxCells)
    BY <1>1, <2>3, DecrefAllIs
  <2> HIDE DEF g, c
  <2>5. Later(h, g, thefts, {})
    BY <2>4, ReleasedLater
  <2>6. g.type[c] = t /\ Safe(g, thefts, {}, c)
    BY <1>1, <2>2, <2>5 DEF Later, Named, Safe
  <2> QED BY <2>1, <2>2, <2>4, <2>5, <2>6
<1>3. CASE Find(h, t) = None
  <2> DEFINE c == Min(Unused(h))
             g == Fresh(h, t, parts, c)
  <2>1. GetProto(h, t, parts) = [heap |-> g, cell |-> c]
    BY <1>3, AllocateIs DEF GetProto
  <2>4. c = Min(Unused(h)) /\ g = Fresh(h, t, parts, c)
    OBVIOUS
  <2> HIDE DEF c, g
  <2>2. /\ Balanced(g, out, thefts, {}) /\ Later(h, g, thefts, {})
        /\ c \in g.live /\ g.type[c] = t
    <3>1. out \in [Cells -> Int] /\ thefts \in [Cells -> Nat] /\ Find(h, t) = None
      BY <1>1, <1>3
    <3>2. Balanced(h, Plus(out, parts), thefts, {}) /\ CanBuild(h, thefts, t, parts)
      OBVIOUS
    <3> QED BY <2>4, <3>1, <3>2, FreshIs
  <2>3. c \in Cells /\ Safe(g, thefts, {}, c)
    BY <2>2, LeastUnused DEF c, Safe
  <2> QED BY <2>1, <2>2, <2>3
<1> QED BY <1>2, <1>3

-----------------------------------------------------------------------------
(* Users and the stack *)

KeptBy(kp, c) == Cardinality({u \in Users : kp[u] = c})
ListedIn(st, c) == Times(Owned(st), c)
OutsideOf(kp, st, lk, th) == [c \in Cells |-> KeptBy(kp, c) + ListedIn(st, c) + lk[c] - th[c]]
Items == [as : {"type", "idtype", "list", "error"}, cell : Pointers]

LEMMA OutsideIs ==
  /\ Outside = OutsideOf(kept, stack, leaked, stolen)
  /\ Outside' = OutsideOf(kept', stack', leaked', stolen')
<1>1. Outside = OutsideOf(kept, stack, leaked, stolen)
  BY DEF Outside, OutsideOf, Held, Listed, KeptBy, ListedIn
<1>2. Outside' = OutsideOf(kept', stack', leaked', stolen')
  BY DEF Outside, OutsideOf, Held, Listed, KeptBy, ListedIn, Times, Owned
<1> QED BY <1>1, <1>2

LEMMA KeptIsNat ==
  ASSUME NEW kp, NEW c
  PROVE  IsFiniteSet({u \in Users : kp[u] = c}) /\ KeptBy(kp, c) \in Nat
<1>1. {u \in Users : kp[u] = c} \in SUBSET Users
  OBVIOUS
<1>2. IsFiniteSet({u \in Users : kp[u] = c})
  BY <1>1, TypeDescAssumption, FS_Subset
<1> QED BY <1>2, FS_CardinalityType DEF KeptBy

(* u keeps d and nothing before.                                           *)
LEMMA KeptMore ==
  ASSUME NEW kp \in [Users -> Pointers], NEW u \in Users, kp[u] = None,
         NEW d \in Cells, NEW kq \in [Users -> Pointers], kq[u] = d,
         \A v \in Users \ {u} : kq[v] = kp[v]
  PROVE  \A c \in Cells : KeptBy(kq, c) = KeptBy(kp, c) + (IF c = d THEN 1 ELSE 0)
<1> TAKE c \in Cells
<1> DEFINE P == {v \in Users : kp[v] = c}
           Q == {v \in Users : kq[v] = c}
<1>1. c # None /\ d # None
  BY CellFacts
<1>2. u \notin P /\ Q = P \cup (IF c = d THEN {u} ELSE {})
  BY <1>1
<1>3. IsFiniteSet(P) /\ Cardinality(P) \in Nat
  BY KeptIsNat DEF KeptBy
<1>4. CASE c = d
  <2>1. Q = P \cup {u}
    BY <1>2, <1>4
  <2> HIDE DEF P, Q
  <2>2. Cardinality(Q) = Cardinality(P) + 1
    BY <1>2, <1>3, <2>1, FS_AddElement
  <2> QED BY <1>4, <2>2 DEF KeptBy, P, Q
<1>5. CASE c # d
  <2>1. Q = P
    BY <1>2, <1>5
  <2> HIDE DEF P, Q
  <2> QED BY <1>3, <1>5, <2>1 DEF KeptBy, P, Q
<1> QED BY <1>4, <1>5

LEMMA OwnedIs ==
  ASSUME NEW st \in Seq(Items)
  PROVE  /\ Owned(st) \in Seq(Pointers) /\ Len(Owned(st)) = Len(st) /\ DOMAIN Owned(st) = DOMAIN st
         /\ \A i \in DOMAIN st : Owned(st)[i] = IF st[i].as = "idtype" THEN st[i].cell ELSE None
<1>1. DOMAIN st = 1 .. Len(st) /\ Len(st) \in Nat /\ \A i \in DOMAIN st : st[i] \in Items
  OBVIOUS
<1>2. Owned(st) = [i \in 1 .. Len(st) |-> IF st[i].as = "idtype" THEN st[i].cell ELSE None]
  BY <1>1 DEF Owned
<1>3. \A i \in 1 .. Len(st) : (IF st[i].as = "idtype" THEN st[i].cell ELSE None) \in Pointers
  BY <1>1 DEF Items, Pointers
<1> QED BY <1>1, <1>2, <1>3

LEMMA ListedIsNat ==
  ASSUME NEW st \in Seq(Items), NEW c
  PROVE  ListedIn(st, c) \in Nat
BY OwnedIs, TimesIsNat DEF ListedIn

LEMMA ListedConcat ==
  ASSUME NEW s \in Seq(Items), NEW t \in Seq(Items), NEW c
  PROVE  ListedIn(s \o t, c) = ListedIn(s, c) + ListedIn(t, c)
<1> DEFINE st == s \o t
           a == Owned(s)
           b == Owned(t)
<1>1. /\ st \in Seq(Items) /\ Len(st) = Len(s) + Len(t) /\ Len(s) \in Nat /\ Len(t) \in Nat
      /\ DOMAIN s = 1 .. Len(s) /\ DOMAIN t = 1 .. Len(t) /\ DOMAIN st = 1 .. Len(s) + Len(t)
      /\ \A i \in DOMAIN st : st[i] = IF i <= Len(s) THEN s[i] ELSE t[i - Len(s)]
  OBVIOUS
<1> HIDE DEF st
<1>2. /\ Owned(st) \in Seq(Pointers) /\ Len(Owned(st)) = Len(st)
      /\ \A i \in DOMAIN st : Owned(st)[i] = IF st[i].as = "idtype" THEN st[i].cell ELSE None
  BY <1>1, OwnedIs
<1>3. /\ a \in Seq(Pointers) /\ Len(a) = Len(s)
      /\ \A i \in DOMAIN s : a[i] = IF s[i].as = "idtype" THEN s[i].cell ELSE None
  BY OwnedIs
<1>4. /\ b \in Seq(Pointers) /\ Len(b) = Len(t)
      /\ \A i \in DOMAIN t : b[i] = IF t[i].as = "idtype" THEN t[i].cell ELSE None
  BY OwnedIs
<1> HIDE DEF a, b
<1>5. /\ a \o b \in Seq(Pointers) /\ Len(a \o b) = Len(st)
      /\ \A i \in 1 .. Len(st) : (a \o b)[i] = IF i <= Len(s) THEN a[i] ELSE b[i - Len(s)]
  <2>1. a \in Seq(Pointers) /\ b \in Seq(Pointers)
    BY <1>3, <1>4
  <2>2. /\ a \o b \in Seq(Pointers) /\ Len(a \o b) = Len(a) + Len(b)
        /\ DOMAIN (a \o b) = 1 .. Len(a) + Len(b)
        /\ \A i \in DOMAIN (a \o b) : (a \o b)[i] = IF i <= Len(a) THEN a[i] ELSE b[i - Len(a)]
    BY <2>1
  <2> QED BY <1>1, <1>3, <1>4, <2>2
<1>6. ASSUME NEW i \in 1 .. Len(st) PROVE Owned(st)[i] = (a \o b)[i]
  <2>1. CASE i <= Len(s)
    <3>1. i \in DOMAIN s
      BY <1>1, <1>6, <2>1
    <3> QED BY <1>1, <1>2, <1>3, <1>5, <2>1, <3>1
  <2>2. CASE ~ i <= Len(s)
    <3>1. i - Len(s) \in DOMAIN t
      BY <1>1, <1>6, <2>2
    <3> QED BY <1>1, <1>2, <1>4, <1>5, <2>2, <3>1
  <2> QED BY <2>1, <2>2
<1>7. Owned(st) = a \o b
  BY <1>2, <1>5, <1>6, SeqEqual
<1>8. Times(a \o b, c) = Times(a, c) + Times(b, c)
  BY <1>3, <1>4, TimesConcat
<1> QED BY <1>7, <1>8 DEF ListedIn, st, a, b


(* The reference an item of the stack owns.                                *)
Owns(x, c) == IF x.as = "idtype" /\ x.cell = c THEN 1 ELSE 0

LEMMA ListedOne ==
  ASSUME NEW x \in Items, NEW c \in Cells
  PROVE  ListedIn(<<x>>, c) = Owns(x, c)
<1> DEFINE b == IF x.as = "idtype" THEN x.cell ELSE None
<1>1. Owned(<<x>>) = <<b>>
  BY DEF Owned
<1>2. b = c <=> x.as = "idtype" /\ x.cell = c
  BY CellFacts
<1>3. Times(<<b>>, c) = IF b = c THEN 1 ELSE 0
  <2> HIDE DEF b
  <2> QED BY TimesOne
<1> QED BY <1>1, <1>2, <1>3 DEF ListedIn, Owns

LEMMA ListedNone ==
  ASSUME NEW st \in Seq(Items), NEW c \in Cells,
         \A i \in DOMAIN st : ~ (st[i].as = "idtype" /\ st[i].cell = c)
  PROVE  ListedIn(st, c) = 0
<1>1. {i \in DOMAIN Owned(st) : Owned(st)[i] = c} = {}
  BY OwnedIs, CellFacts
<1> QED BY <1>1, FS_EmptySet DEF ListedIn, Times

LEMMA CellsOfIs ==
  ASSUME NEW st \in Seq(Items), \A i \in DOMAIN st : st[i].cell # None
  PROVE  /\ CellsOf(st) \in Seq(Cells) /\ Len(CellsOf(st)) = Len(st)
         /\ \A i \in DOMAIN st : i \in DOMAIN CellsOf(st) /\ CellsOf(st)[i] = st[i].cell
<1>1. DOMAIN st = 1 .. Len(st) /\ Len(st) \in Nat /\ \A i \in DOMAIN st : st[i] \in Items
  OBVIOUS
<1>2. CellsOf(st) = [i \in 1 .. Len(st) |-> st[i].cell]
  BY <1>1 DEF CellsOf
<1>3. \A i \in 1 .. Len(st) : st[i].cell \in Cells
  BY <1>1 DEF Items, Pointers
<1> QED BY <1>1, <1>2, <1>3

(* The references of a list are those of its IdTypes.                      *)
LEMMA ListedAll ==
  ASSUME NEW st \in Seq(Items), \A i \in DOMAIN st : st[i].as = "idtype" /\ st[i].cell # None
  PROVE  CellsOf(st) \in Seq(Cells) /\ \A c : ListedIn(st, c) = Times(CellsOf(st), c)
<1>1. CellsOf(st) \in Seq(Cells)
  BY CellsOfIs
<1>2. CellsOf(st) = Owned(st)
  BY DEF CellsOf, Owned
<1> QED BY <1>1, <1>2 DEF ListedIn

(* The stack is what is below the top n items and these.                   *)
LEMMA Halves ==
  ASSUME stack \in Seq(Items), NEW n \in 0 .. Len(stack)
  PROVE  /\ Below(n) \in Seq(Items) /\ Len(Below(n)) = Len(stack) - n /\ Top(n) \in Seq(Items) /\ Len(Top(n)) = n
         /\ stack = Below(n) \o Top(n)
         /\ \A i \in DOMAIN Below(n) : i \in DOMAIN stack /\ Below(n)[i] = stack[i]
         /\ \A i \in 1 .. n : Len(stack) - n + i \in DOMAIN stack /\ Top(n)[i] = stack[Len(stack) - n + i]
<1>1. Len(stack) \in Nat /\ n \in Nat /\ n <= Len(stack)
  OBVIOUS
<1>2. /\ Below(n) \in Seq(Items) /\ Len(Below(n)) = Len(stack) - n
      /\ \A i \in 1 .. Len(stack) - n : Below(n)[i] = stack[i]
  BY <1>1 DEF Below
<1>3. /\ Top(n) \in Seq(Items) /\ Len(Top(n)) = n
      /\ \A i \in 1 .. n : Top(n)[i] = stack[Len(stack) - n + i]
  BY <1>1 DEF Top
<1>4. stack = Below(n) \o Top(n)
  <2> DEFINE a == Below(n)
             b == Top(n)
  <2>3. /\ a \in Seq(Items) /\ Len(a) = Len(stack) - n
        /\ b \in Seq(Items) /\ Len(b) = n
    BY <1>2, <1>3
  <2>1. Len(a \o b) = Len(stack) /\ a \o b \in Seq(Items)
    <3> HIDE DEF a, b
    <3> QED BY <1>1, <2>3
  <2>2. ASSUME NEW i \in 1 .. Len(stack) PROVE stack[i] = (Below(n) \o Top(n))[i]
    <3>3. (a \o b)[i] = IF i <= Len(stack) - n THEN a[i] ELSE b[i - (Len(stack) - n)]
      <4> HIDE DEF a, b
      <4> QED BY <1>1, <2>3
    <3>1. CASE i <= Len(stack) - n
      BY <1>1, <1>2, <3>1, <3>3
    <3>2. CASE i > Len(stack) - n
      <4>1. (Below(n) \o Top(n))[i] = Top(n)[i - (Len(stack) - n)]
        BY <1>1, <3>2, <3>3
      <4>2. i - (Len(stack) - n) \in 1 .. n
        BY <1>1, <3>2
      <4>3. Len(stack) - n + (i - (Len(stack) - n)) = i
        BY <1>1
      <4> QED BY <1>3, <4>1, <4>2, <4>3
    <3>4. i <= Len(stack) - n \/ i > Len(stack) - n
      BY <1>1
    <3> HIDE DEF a, b
    <3> QED BY <3>1, <3>2, <3>4
  <2> QED BY <2>1, <2>2, SeqEqual
<1> QED BY <1>1, <1>2, <1>3, <1>4

-----------------------------------------------------------------------------
(* States *)

KeptGood(h, kp, th) ==
  /\ kp \in [Users -> Pointers]
  /\ \A u \in Users : kp[u] # None => Named(h, kp[u]) /\ Safe(h, th, {}, kp[u])
ItemGood(h, x, th) == x.cell # None => Named(h, x.cell) /\ Safe(h, th, {}, x.cell)
ItemsGood(h, st, th) == st \in Seq(Items) /\ \A i \in DOMAIN st : ItemGood(h, st[i], th)

LEMMA KeptLater ==
  ASSUME NEW h, NEW g, NEW kp, NEW th, KeptGood(h, kp, th), Later(h, g, th, {})
  PROVE  KeptGood(g, kp, th)
<1>1. ASSUME NEW u \in Users, kp[u] # None PROVE Named(g, kp[u]) /\ Safe(g, th, {}, kp[u])
  <2>1. kp[u] \in Cells /\ Named(h, kp[u]) /\ Safe(h, th, {}, kp[u])
    BY <1>1 DEF KeptGood, Pointers
  <2> QED BY <2>1 DEF Later, Named
<1> QED BY <1>1 DEF KeptGood

LEMMA ItemLater ==
  ASSUME NEW h, NEW g, NEW x \in Items, NEW th, ItemGood(h, x, th), Later(h, g, th, {})
  PROVE  ItemGood(g, x, th)
<1>1. x.cell # None => x.cell \in Cells
  BY DEF Items, Pointers
<1> QED BY <1>1 DEF ItemGood, Later, Named

LEMMA ItemsLater ==
  ASSUME NEW h, NEW g, NEW st, NEW th, ItemsGood(h, st, th), Later(h, g, th, {})
  PROVE  ItemsGood(g, st, th)
<1>1. ASSUME NEW i \in DOMAIN st PROVE ItemGood(g, st[i], th)
  <2>1. st[i] \in Items /\ ItemGood(h, st[i], th)
    BY <1>1 DEF ItemsGood
  <2> QED BY <2>1, ItemLater
<1> QED BY <1>1 DEF ItemsGood

LEMMA TallyLater ==
  ASSUME NEW h, NEW g, NEW f, NEW th, NEW gone, Tally(h, f), Later(h, g, th, gone)
  PROVE  Tally(g, f)
BY DEF Tally, Later, Named

LEMMA OutsideInt ==
  ASSUME NEW kp, NEW st \in Seq(Items), NEW lk \in [Cells -> Nat], NEW th \in [Cells -> Nat]
  PROVE  /\ OutsideOf(kp, st, lk, th) \in [Cells -> Int]
         /\ \A c \in Cells :
              /\ OutsideOf(kp, st, lk, th)[c] = KeptBy(kp, c) + ListedIn(st, c) + lk[c] - th[c]
              /\ KeptBy(kp, c) \in Nat /\ ListedIn(st, c) \in Nat /\ lk[c] \in Nat /\ th[c] \in Nat
<1>1. \A c \in Cells : KeptBy(kp, c) \in Nat /\ ListedIn(st, c) \in Nat /\ lk[c] \in Nat /\ th[c] \in Nat
  BY KeptIsNat, ListedIsNat
<1>2. \A c \in Cells : KeptBy(kp, c) + ListedIn(st, c) + lk[c] - th[c] \in Int
  BY <1>1
<1> QED BY <1>1, <1>2 DEF OutsideOf

LEMMA LedgerOf ==
  ASSUME NEW kp, NEW st \in Seq(Items), NEW lk \in [Cells -> Nat], NEW th \in [Cells -> Nat]
  PROVE  Ledger(OutsideOf(kp, st, lk, th), th)
<1>1. /\ OutsideOf(kp, st, lk, th) \in [Cells -> Int]
      /\ \A c \in Cells :
           /\ OutsideOf(kp, st, lk, th)[c] = KeptBy(kp, c) + ListedIn(st, c) + lk[c] - th[c]
           /\ KeptBy(kp, c) \in Nat /\ ListedIn(st, c) \in Nat /\ lk[c] \in Nat /\ th[c] \in Nat
  BY OutsideInt
<1> QED BY <1>1 DEF Ledger

LEMMA UnnamedUnlisted ==
  ASSUME NEW h, NEW st, NEW th, ItemsGood(h, st, th), NEW c \in Cells, ~ Named(h, c)
  PROVE  ListedIn(st, c) = 0
<1>1. st \in Seq(Items) /\ \A i \in DOMAIN st : ~ (st[i].as = "idtype" /\ st[i].cell = c)
  BY CellFacts DEF ItemsGood, ItemGood
<1> QED BY <1>1, ListedNone

LEMMA OutsideUnnamed ==
  ASSUME NEW h, NEW kp, NEW st, NEW lk, NEW th, Tally(h, lk), Tally(h, th), KeptGood(h, kp, th),
         ItemsGood(h, st, th), NEW c \in Cells, ~ Named(h, c)
  PROVE  OutsideOf(kp, st, lk, th)[c] = 0
<1>1. {u \in Users : kp[u] = c} = {}
  BY CellFacts DEF KeptGood
<1>2. KeptBy(kp, c) = 0 /\ lk[c] = 0 /\ th[c] = 0
  BY <1>1, FS_EmptySet DEF KeptBy, Tally
<1>3. ListedIn(st, c) = 0
  BY UnnamedUnlisted
<1> QED BY <1>2, <1>3 DEF OutsideOf

LEMMA Facts ==
  ASSUME Inductive
  PROVE  /\ Balanced(heap, Outside, stolen, Gone) /\ HeapGood(heap) /\ heap \in Heaps
         /\ Tally(heap, stolen) /\ Tally(heap, leaked)
         /\ KeptGood(heap, kept, stolen) /\ ItemsGood(heap, stack, stolen)
         /\ Ledger(Outside, stolen) /\ Outside \in [Cells -> Int]
         /\ stolen \in [Cells -> Nat] /\ leaked \in [Cells -> Nat]
         /\ kept \in [Users -> Pointers] /\ stack \in Seq(Items)
         /\ \A c \in Cells : ~ Named(heap, c) => Outside[c] = 0
         /\ phase = "run" => Balanced(heap, Outside, stolen, {}) /\ nxt = None
<1>1. KeptGood(heap, kept, stolen) /\ ItemsGood(heap, stack, stolen)
  BY DEF Inductive, Kept, KeptGood, ItemsGood, ItemGood, Items
<1>2. /\ Tally(heap, stolen) /\ Tally(heap, leaked)
      /\ stolen \in [Cells -> Nat] /\ leaked \in [Cells -> Nat]
  BY DEF Inductive, Tally
<1>3. kept \in [Users -> Pointers] /\ stack \in Seq(Items)
  BY <1>1 DEF KeptGood, ItemsGood
<1>4. Outside = OutsideOf(kept, stack, leaked, stolen)
  BY OutsideIs
<1>5. Ledger(Outside, stolen)
  BY <1>2, <1>3, <1>4, LedgerOf
<1>6. \A c \in Cells : ~ Named(heap, c) => Outside[c] = 0
  BY <1>1, <1>2, <1>4, OutsideUnnamed
<1>7. Balanced(heap, Outside, stolen, Gone) /\ HeapGood(heap) /\ heap \in Heaps
  BY DEF Inductive, Balanced, HeapGood
<1>8. phase = "run" => Gone = {} /\ nxt = None
  BY DEF Gone, Inductive, Finishing
<1>9. Outside \in [Cells -> Int]
  BY <1>5 DEF Ledger
<1> QED BY <1>1, <1>2, <1>3, <1>5, <1>6, <1>7, <1>8, <1>9

(* What is counted from outside, before and after a step.                  *)
LEMMA OutsideAt ==
  ASSUME Inductive, NEW d \in Cells
  PROVE  /\ Outside[d] = KeptBy(kept, d) + ListedIn(stack, d) + leaked[d] - stolen[d]
         /\ Outside'[d] = KeptBy(kept', d) + ListedIn(stack', d) + leaked'[d] - stolen'[d]
         /\ KeptBy(kept, d) \in Nat /\ ListedIn(stack, d) \in Nat /\ leaked[d] \in Nat
         /\ stolen[d] \in Nat
<1>1. stack \in Seq(Items) /\ leaked \in [Cells -> Nat] /\ stolen \in [Cells -> Nat]
  BY Facts
<1>2. Outside[d] = KeptBy(kept, d) + ListedIn(stack, d) + leaked[d] - stolen[d]
  BY OutsideIs DEF OutsideOf
<1>3. Outside'[d] = KeptBy(kept', d) + ListedIn(stack', d) + leaked'[d] - stolen'[d]
  BY OutsideIs DEF OutsideOf
<1> QED BY <1>1, <1>2, <1>3, KeptIsNat, ListedIsNat

LEMMA RunStep ==
  ASSUME Inductive, phase = "run", phase' = phase, nxt' = nxt,
         Tally(heap', stolen'), Tally(heap', leaked'), Balanced(heap', Outside', stolen', {}),
         KeptGood(heap', kept', stolen'), ItemsGood(heap', stack', stolen')
  PROVE  Inductive'
<1>1. Gone' = {} /\ phase' = "run" /\ nxt' = None
  BY DEF Gone, Inductive, Finishing
<1>2. Balanced(heap, Outside, stolen, Gone)'
  BY <1>1 DEF Balanced, HeapGood, Heaps, Counts, Safe, Named, PartsGood, Inside, Links, IsBase
<1>3. Tally(heap, stolen)' /\ Tally(heap, leaked)'
  BY DEF Tally, Named
<1>4. Kept'
  BY DEF Kept, KeptGood, ItemsGood, ItemGood, Items, Named, Safe
<1>5. Finishing'
  BY <1>1 DEF Finishing, Finished
<1> QED BY <1>2, <1>3, <1>4, <1>5 DEF Inductive

(* A step that releases nothing borrowed and loses nothing.                *)
LEMMA RunKeeps ==
  ASSUME Inductive, phase = "run", phase' = phase, nxt' = nxt, stolen' = stolen, leaked' = leaked,
         Later(heap, heap', stolen, {}), Balanced(heap', Outside', stolen, {}),
         KeptGood(heap', kept', stolen), ItemsGood(heap', stack', stolen)
  PROVE  Inductive'
<1>1. Tally(heap', stolen') /\ Tally(heap', leaked')
  BY Facts, TallyLater
<1> QED BY <1>1, RunStep

(* References are lost.                                                    *)
LEMMA LossKeeps ==
  ASSUME Inductive, phase = "run", phase' = phase, nxt' = nxt, heap' = heap, stolen' = stolen,
         Tally(heap, leaked'), \A d \in Cells : Outside'[d] = Outside[d],
         KeptGood(heap, kept', stolen), ItemsGood(heap, stack', stolen)
  PROVE  Inductive'
<1>1. Balanced(heap', Outside', stolen, {})
  BY Facts, BalancedSame
<1>2. Tally(heap', stolen')
  BY Facts
<1> QED BY <1>1, <1>2, RunStep

-----------------------------------------------------------------------------
(* The grammar's rules *)

LEMMA SplitIs ==
  ASSUME NEW h, NEW th, NEW n \in 0 .. Len(stack), ItemsGood(h, stack, th)
  PROVE  /\ ItemsGood(h, Below(n), th) /\ Below(n) \in Seq(Items) /\ Top(n) \in Seq(Items)
         /\ \A d : /\ ListedIn(stack, d) = ListedIn(Below(n), d) + ListedIn(Top(n), d)
                   /\ ListedIn(Below(n), d) \in Nat /\ ListedIn(Top(n), d) \in Nat
<1> DEFINE a == Below(n)
           b == Top(n)
<1>1. stack \in Seq(Items)
  BY DEF ItemsGood
<1>2. /\ a \in Seq(Items) /\ b \in Seq(Items) /\ stack = a \o b
      /\ \A i \in DOMAIN a : i \in DOMAIN stack /\ a[i] = stack[i]
  BY <1>1, Halves
<1> HIDE DEF a, b
<1>3. ItemsGood(h, a, th)
  BY <1>2 DEF ItemsGood
<1>4. ASSUME NEW d PROVE ListedIn(a \o b, d) = ListedIn(a, d) + ListedIn(b, d)
  BY <1>2, ListedConcat
<1>5. \A d : ListedIn(a, d) \in Nat /\ ListedIn(b, d) \in Nat
  BY <1>2, ListedIsNat
<1> QED BY <1>2, <1>3, <1>4, <1>5 DEF a, b

LEMMA ListedPush ==
  ASSUME NEW a \in Seq(Items), NEW x \in Items, NEW d \in Cells
  PROVE  ListedIn(Append(a, x), d) = ListedIn(a, d) + Owns(x, d)
<1> DEFINE b == <<x>>
<1>1. b \in Seq(Items) /\ Append(a, x) = a \o b
  OBVIOUS
<1>2. ListedIn(b, d) = Owns(x, d)
  BY ListedOne
<1> HIDE DEF b
<1>3. ListedIn(a \o b, d) = ListedIn(a, d) + ListedIn(b, d)
  BY <1>1, ListedConcat
<1> QED BY <1>1, <1>2, <1>3

LEMMA PushIs ==
  ASSUME NEW h, NEW th, NEW a, NEW x \in Items, ItemsGood(h, a, th), ItemGood(h, x, th)
  PROVE  ItemsGood(h, Append(a, x), th)
<1>1. /\ a \in Seq(Items) /\ Append(a, x) \in Seq(Items)
      /\ \A i \in DOMAIN Append(a, x) : Append(a, x)[i] = x \/ (i \in DOMAIN a /\ Append(a, x)[i] = a[i])
  BY DEF ItemsGood
<1> QED BY <1>1 DEF ItemsGood

(* An item that owns nothing replaces the top n.                           *)
LEMMA LeaveIs ==
  ASSUME NEW h, NEW th, NEW n \in 0 .. Len(stack), NEW x \in Items, x.as # "idtype",
         ItemsGood(h, stack, th), ItemGood(h, x, th), stack' = Append(Below(n), x)
  PROVE  /\ ItemsGood(h, stack', th) /\ Top(n) \in Seq(Items)
         /\ \A d \in Cells : /\ ListedIn(stack, d) = ListedIn(stack', d) + ListedIn(Top(n), d)
                             /\ ListedIn(stack', d) \in Nat /\ ListedIn(Top(n), d) \in Nat
<1> DEFINE a == Below(n)
           st == Append(a, x)
<1>1. /\ ItemsGood(h, a, th) /\ Top(n) \in Seq(Items)
      /\ \A d : /\ ListedIn(stack, d) = ListedIn(a, d) + ListedIn(Top(n), d)
                /\ ListedIn(a, d) \in Nat /\ ListedIn(Top(n), d) \in Nat
  BY SplitIs
<1> HIDE DEF a
<1>2. ItemsGood(h, st, th) /\ \A d \in Cells : ListedIn(st, d) = ListedIn(a, d) + Owns(x, d)
  <2>1. a \in Seq(Items)
    BY <1>1 DEF ItemsGood
  <2> QED BY <1>1, <2>1, PushIs, ListedPush
<1>3. stack' = st
  BY DEF a
<1> HIDE DEF st
<1>4. \A d \in Cells : ListedIn(st, d) = ListedIn(a, d)
  BY <1>1, <1>2 DEF Owns
<1> QED BY <1>1, <1>2, <1>3, <1>4

LEMMA NothingOnTop ==
  ASSUME stack \in Seq(Items)
  PROVE  0 \in 0 .. Len(stack) /\ \A d \in Cells : ListedIn(Top(0), d) = 0
<1>1. 0 \in 0 .. Len(stack)
  OBVIOUS
<1>2. Top(0) \in Seq(Items) /\ Len(Top(0)) = 0
  BY <1>1, Halves
<1> QED BY <1>1, <1>2, ListedNone

(* A pointer to a descriptor of the heap.                                  *)
LEMMA TypeItem ==
  ASSUME NEW h, NEW th, NEW c \in Cells, Named(h, c), Safe(h, th, {}, c), NEW x, x = Type(c)
  PROVE  x \in Items /\ x.as # "idtype" /\ ItemGood(h, x, th)
BY DEF Type, Items, Pointers, ItemGood

(* The parts a rule finds on the stack are what it can build t from.       *)
LEMMA PartsReadIs ==
  ASSUME Inductive, NEW t \in Types, NEW as, PartsRead(t, as), NEW n, n = Len(PartsOf(t))
  PROVE  /\ n \in 0 .. Len(stack) /\ CanBuild(heap, stolen, t, CellsOf(Top(n)))
         /\ Top(n) \in Seq(Items)
         /\ \A i \in DOMAIN Top(n) : Top(n)[i].as = as /\ Top(n)[i].cell # None
<1>1. ItemsGood(heap, stack, stolen) /\ stack \in Seq(Items)
  BY Facts
<1>2. n \in Nat /\ \A i \in 1 .. n : PartsOf(t)[i] # None
  <2>1. PartsOf(t) \in Seq(Types) /\ None \notin Types
    BY TypeDescAssumption
  <2> QED BY <2>1
<1>3. /\ n <= Len(stack)
      /\ \A i \in 1 .. n : Top(n)[i].as = as /\ TypeAt(Top(n)[i].cell) = PartsOf(t)[i]
  BY DEF PartsRead
<1>4. n \in 0 .. Len(stack)
  BY <1>1, <1>2, <1>3
<1>5. /\ Top(n) \in Seq(Items) /\ Len(Top(n)) = n
      /\ \A i \in 1 .. n : Len(stack) - n + i \in DOMAIN stack /\ Top(n)[i] = stack[Len(stack) - n + i]
  BY <1>1, <1>4, Halves
<1>6. DOMAIN Top(n) = 1 .. n /\ \A i \in 1 .. n : Top(n)[i].cell # None
  <2>1. DOMAIN Top(n) = 1 .. n
    BY <1>5
  <2>2. \A i \in 1 .. n : TypeAt(Top(n)[i].cell) # None
    BY <1>2, <1>3
  <2> QED BY <2>1, <2>2 DEF TypeAt
<1>7. /\ CellsOf(Top(n)) \in Seq(Cells) /\ Len(CellsOf(Top(n))) = n
      /\ \A i \in DOMAIN Top(n) : CellsOf(Top(n))[i] = Top(n)[i].cell
  BY <1>5, <1>6, CellsOfIs
<1>8. DOMAIN CellsOf(Top(n)) = 1 .. n
  BY <1>7
<1>9. \A i \in DOMAIN CellsOf(Top(n)) :
        /\ Named(heap, CellsOf(Top(n))[i]) /\ Safe(heap, stolen, {}, CellsOf(Top(n))[i])
  <2> TAKE i \in DOMAIN CellsOf(Top(n))
  <2> DEFINE x == stack[Len(stack) - n + i]
  <2>1. i \in 1 .. n /\ i \in DOMAIN Top(n)
    BY <1>6, <1>8
  <2>2. CellsOf(Top(n))[i] = Top(n)[i].cell /\ Top(n)[i].cell # None /\ Top(n)[i] = x
    BY <1>5, <1>6, <1>7, <2>1
  <2>3. ItemGood(heap, x, stolen)
    BY <1>1, <1>5, <2>1 DEF ItemsGood
  <2> HIDE DEF x
  <2> QED BY <2>2, <2>3 DEF ItemGood
<1>10. CanBuild(heap, stolen, t, CellsOf(Top(n)))
  BY <1>7, <1>9 DEF CanBuild
<1> QED BY <1>3, <1>4, <1>5, <1>6, <1>10

(* The heap and what is counted in it stay as they are.                    *)
LEMMA ReadKeeps ==
  ASSUME Inductive, phase = "run", NEW n \in 0 .. Len(stack), \A d \in Cells : ListedIn(Top(n), d) = 0,
         Balanced(heap', Outside, stolen, {}), Later(heap, heap', stolen, {}),
         NEW x \in Items, x.as # "idtype", ItemGood(heap', x, stolen), stack' = Append(Below(n), x),
         kept' = kept, phase' = phase, nxt' = nxt, stolen' = stolen, leaked' = leaked
  PROVE  Inductive'
<1>1. ItemsGood(heap', stack, stolen) /\ KeptGood(heap', kept', stolen)
  BY Facts, ItemsLater, KeptLater
<1>2. /\ ItemsGood(heap', stack', stolen)
      /\ \A d \in Cells : /\ ListedIn(stack, d) = ListedIn(stack', d) + ListedIn(Top(n), d)
                          /\ ListedIn(stack', d) \in Nat
  BY <1>1, LeaveIs
<1>3. \A d \in Cells : Outside'[d] = Outside[d]
  BY <1>2, OutsideIs DEF OutsideOf
<1>4. Balanced(heap', Outside', stolen, {})
  BY <1>3, BalancedSame
<1> QED BY <1>1, <1>2, <1>4, RunKeeps

LEMMA PrimitiveTypeKeeps ==
  ASSUME Inductive, NEW t \in Types, PrimitiveType(t)
  PROVE  Inductive'
<1> DEFINE c == GetBase(heap, t)
           x == Type(c)
<1>1. /\ phase = "run" /\ Kind(t) = "base" /\ stack' = Append(Below(0), x)
      /\ heap' = heap /\ kept' = kept /\ phase' = phase /\ nxt' = nxt /\ stolen' = stolen
      /\ leaked' = leaked
  BY DEF PrimitiveType, Running, Leave
<1>2. HeapGood(heap) /\ heap \in Heaps
  BY Facts
<1>3. \E d \in heap.live : heap.type[d] = t
  BY <1>1, <1>2, TypeDescAssumption DEF HeapGood
<1>4. c \in heap.live /\ heap.type[c] = t
  BY <1>3 DEF GetBase
<1> HIDE DEF c
<1>5. c \in Cells /\ Named(heap, c) /\ Safe(heap, stolen, {}, c)
  BY <1>2, <1>4, HeapFields DEF HeapGood, Safe
<1>6. x \in Items /\ x.as # "idtype" /\ ItemGood(heap', x, stolen)
  BY <1>1, <1>5, TypeItem
<1>7. 0 \in 0 .. Len(stack) /\ \A d \in Cells : ListedIn(Top(0), d) = 0
  BY Facts, NothingOnTop
<1>8. Balanced(heap', Outside, stolen, {}) /\ Later(heap, heap', stolen, {})
  BY <1>1, Facts DEF Later
<1> HIDE DEF x
<1> QED BY <1>1, <1>6, <1>7, <1>8, ReadKeeps

LEMMA NullTypeKeeps ==
  ASSUME Inductive, NullType
  PROVE  Inductive'
<1> DEFINE x == NoType
<1>1. /\ phase = "run" /\ stack' = Append(Below(0), x)
      /\ heap' = heap /\ kept' = kept /\ phase' = phase /\ nxt' = nxt /\ stolen' = stolen
      /\ leaked' = leaked
  BY DEF NullType, Leave
<1>2. x \in Items /\ x.as # "idtype" /\ ItemGood(heap', x, stolen)
  BY DEF NoType, Type, Items, Pointers, ItemGood
<1>3. 0 \in 0 .. Len(stack) /\ \A d \in Cells : ListedIn(Top(0), d) = 0
  BY Facts, NothingOnTop
<1>4. Balanced(heap', Outside, stolen, {}) /\ Later(heap, heap', stolen, {})
  BY <1>1, Facts DEF Later
<1> HIDE DEF x
<1> QED BY <1>1, <1>2, <1>3, <1>4, ReadKeeps

LEMMA CompoundTypeKeeps ==
  ASSUME Inductive, NEW t \in Types, CompoundType(t)
  PROVE  Inductive'
<1> DEFINE n == Len(PartsOf(t))
           parts == CellsOf(Top(n))
           got == Get(heap, t, parts)
           c == got.cell
           x == Type(c)
<1>1. /\ phase = "run" /\ Unused(heap) # {} /\ PartsRead(t, "type") /\ heap' = got.heap
      /\ stack' = Append(Below(n), x)
      /\ kept' = kept /\ phase' = phase /\ nxt' = nxt /\ stolen' = stolen /\ leaked' = leaked
  BY DEF CompoundType, Running, Leave
<1>2. /\ n \in 0 .. Len(stack) /\ CanBuild(heap, stolen, t, parts)
      /\ Top(n) \in Seq(Items) /\ \A i \in DOMAIN Top(n) : Top(n)[i].as = "type"
  BY <1>1, PartsReadIs
<1>3. Got(got, t, Outside, stolen) /\ Later(heap, got.heap, stolen, {})
  <2> HIDE DEF parts, n
  <2> QED BY <1>1, <1>2, Facts, GetIs
<1> HIDE DEF got, parts, n
<1>4. /\ Balanced(heap', Outside, stolen, {}) /\ Later(heap, heap', stolen, {})
      /\ c \in heap'.live /\ heap'.type[c] = t
  BY <1>1, <1>3 DEF Got
<1> HIDE DEF c
<1>5. c \in Cells /\ Named(heap', c) /\ Safe(heap', stolen, {}, c)
  BY <1>4, HeapFields DEF Balanced, HeapGood, Safe
<1>6. x \in Items /\ x.as # "idtype" /\ ItemGood(heap', x, stolen)
  BY <1>5, TypeItem
<1>7. \A d \in Cells : ListedIn(Top(n), d) = 0
  BY <1>2, ListedNone
<1> HIDE DEF x
<1> QED BY <1>1, <1>2, <1>4, <1>6, <1>7, ReadKeeps

LEMMA LastIs ==
  ASSUME Inductive, stack # <<>>, NEW x, x = Last(stack)
  PROVE  /\ 1 \in 0 .. Len(stack) /\ x \in Items /\ ItemGood(heap, x, stolen)
         /\ \A d \in Cells : ListedIn(stack, d) = ListedIn(Below(1), d) + Owns(x, d)
         /\ ItemsGood(heap, Below(1), stolen) /\ Below(1) \in Seq(Items)
         /\ \A d \in Cells : ListedIn(Below(1), d) \in Nat
<1> DEFINE a == Below(1)
           m == Len(stack)
<1>1. stack \in Seq(Items) /\ ItemsGood(heap, stack, stolen)
  BY Facts
<1>2. m \in Nat \ {0} /\ m \in DOMAIN stack /\ stack[m] = x /\ 1 \in 0 .. m
  BY <1>1 DEF Last
<1>3. x \in Items /\ ItemGood(heap, x, stolen)
  <2> HIDE DEF m
  <2>1. stack[m] \in Items
    BY <1>1, <1>2
  <2> QED BY <1>1, <1>2, <2>1 DEF ItemsGood
<1>4. Top(1) = <<x>>
  <2>1. /\ Top(1) \in Seq(Items) /\ Len(Top(1)) = 1
        /\ \A i \in 1 .. 1 : Top(1)[i] = stack[Len(stack) - 1 + i]
    BY <1>1, <1>2, Halves
  <2>2. Top(1)[1] = x
    BY <1>2, <2>1
  <2> QED BY <2>1, <2>2
<1>5. /\ ItemsGood(heap, a, stolen) /\ a \in Seq(Items)
      /\ \A d : /\ ListedIn(stack, d) = ListedIn(a, d) + ListedIn(Top(1), d)
                /\ ListedIn(a, d) \in Nat
  BY <1>1, <1>2, SplitIs
<1>6. \A d \in Cells : ListedIn(<<x>>, d) = Owns(x, d)
  BY <1>3, ListedOne
<1> QED BY <1>2, <1>3, <1>4, <1>5, <1>6

LEMMA ListTypeKeeps ==
  ASSUME Inductive, ListType
  PROVE  Inductive'
<1> DEFINE x == Last(stack)
           c == x.cell
           y == IdType(c)
           a == Below(1)
<1>1. /\ phase = "run" /\ stack # <<>> /\ heap' = Incref(heap, c) /\ x.as = "type" /\ x # NoType
      /\ stack' = Append(a, y)
      /\ kept' = kept /\ phase' = phase /\ nxt' = nxt /\ stolen' = stolen /\ leaked' = leaked
  BY DEF ListType
<1>2. /\ heap \in Heaps /\ Outside \in [Cells -> Int] /\ Balanced(heap, Outside, stolen, {})
  BY <1>1, Facts
<1>3. /\ x \in Items /\ ItemGood(heap, x, stolen) /\ ItemsGood(heap, a, stolen) /\ a \in Seq(Items)
      /\ \A d \in Cells : ListedIn(stack, d) = ListedIn(a, d) + Owns(x, d)
      /\ \A d \in Cells : ListedIn(a, d) \in Nat
  BY <1>1, LastIs
<1> HIDE DEF x, a
<1>4. c \in Cells
  BY <1>1, <1>3 DEF Items, Pointers, NoType, Type
<1>5. /\ y \in Items /\ ItemGood(heap, y, stolen)
      /\ \A d \in Cells : Owns(x, d) = 0 /\ Owns(y, d) = IF d = c THEN 1 ELSE 0
  BY <1>1, <1>3, <1>4 DEF Items, Pointers, IdType, ItemGood, Owns
<1> HIDE DEF c, y
<1>6. /\ ItemsGood(heap, stack', stolen)
      /\ \A d \in Cells : ListedIn(stack', d) = ListedIn(a, d) + Owns(y, d)
  BY <1>1, <1>3, <1>5, PushIs, ListedPush
<1> DEFINE more == Outside'
<1>7. OneRefMore(Outside, more, c)
  <2>1. ASSUME NEW d \in Cells PROVE more[d] = Outside[d] + (IF d = c THEN 1 ELSE 0)
    BY <1>1, <1>3, <1>5, <1>6, OutsideAt
  <2> HIDE DEF more
  <2> QED BY <2>1 DEF OneRefMore
<1>8. Balanced(heap', more, stolen, {}) /\ SameShape(heap, heap')
  <2> DEFINE k == heap'
  <2>1. k = Incref(heap, c)
    BY <1>1
  <2> HIDE DEF more, k
  <2>2. Balanced(k, more, stolen, {}) /\ SameShape(heap, k)
    BY <1>2, <1>4, <1>7, <2>1, IncrefStep
  <2> QED BY <2>2 DEF k
<1>9. Later(heap, heap', stolen, {})
  BY <1>8, ShapeLater
<1>10. ItemsGood(heap', stack', stolen) /\ KeptGood(heap', kept', stolen)
  BY <1>1, <1>6, <1>9, Facts, ItemsLater, KeptLater
<1> QED BY <1>1, <1>8, <1>9, <1>10, RunKeeps

(* The last part of a step that releases references.                       *)
LEMMA DecrefStep ==
  ASSUME NEW k, NEW cs \in Seq(Pointers), NEW th \in [Cells -> Nat], NEW gone, NEW most \in Nat,
         th = stolen', heap' = DecrefAll(k, cs), stack' \in Seq(Items), leaked' \in [Cells -> Nat],
         Balanced(k, Plus(Outside', cs), th, gone), \A i \in DOMAIN cs : cs[i] # None => cs[i] <= most
  PROVE  /\ Balanced(heap', Outside', th, gone) /\ Released(k, heap', th, gone, most)
         /\ Later(k, heap', th, gone)
<1>1. Ledger(Outside', th)
  BY LedgerOf, OutsideIs
<1>2. Balanced(heap', Outside', th, gone) /\ Released(k, heap', th, gone, most)
  <2> DEFINE out == Outside'
  <2>1. Ledger(out, th) /\ Balanced(k, Plus(out, cs), th, gone)
    BY <1>1
  <2> HIDE DEF out
  <2>2. /\ Balanced(DecrefAll(k, cs), out, th, gone)
        /\ Released(k, DecrefAll(k, cs), th, gone, most)
    BY <2>1, DecrefAllIs
  <2> QED BY <2>2 DEF out
<1> QED BY <1>2, ReleasedLater

LEMMA UpToMaxCells ==
  ASSUME NEW cs \in Seq(Pointers)
  PROVE  MaxCells \in Nat /\ \A i \in DOMAIN cs : cs[i] # None => cs[i] <= MaxCells
<1>1. MaxCells \in Nat /\ \A i \in DOMAIN cs : cs[i] \in Cells \cup {None}
  BY TypeDescAssumption DEF Pointers
<1> QED BY <1>1 DEF Cells

LEMMA FunctionTypeKeeps ==
  ASSUME Inductive, NEW t \in Types, FunctionType(t)
  PROVE  Inductive'
<1> DEFINE n == Len(PartsOf(t))
           parts == CellsOf(Top(n))
           k == IncrefAll(heap, parts)
           got == GetProto(k, t, parts)
           g == got.heap
           c == got.cell
           x == Type(c)
<1>1. /\ phase = "run" /\ Unused(heap) # {} /\ PartsRead(t, "idtype") /\ heap' = DecrefAll(g, parts)
      /\ stack' = Append(Below(n), x)
      /\ kept' = kept /\ phase' = phase /\ nxt' = nxt /\ stolen' = stolen /\ leaked' = leaked
  BY DEF FunctionType, Running, Leave
<1>2. /\ n \in 0 .. Len(stack) /\ CanBuild(heap, stolen, t, parts) /\ Top(n) \in Seq(Items)
      /\ \A i \in DOMAIN Top(n) : Top(n)[i].as = "idtype" /\ Top(n)[i].cell # None
  BY <1>1, PartsReadIs
<1>3. parts \in Seq(Cells) /\ parts \in Seq(Pointers) /\ \A d : ListedIn(Top(n), d) = Times(parts, d)
  <2>1. parts \in Seq(Cells) /\ \A d : ListedIn(Top(n), d) = Times(parts, d)
    <3> HIDE DEF n
    <3> QED BY <1>2, ListedAll
  <2> HIDE DEF parts
  <2> QED BY <2>1, CellsArePointers
<1>4. /\ heap \in Heaps /\ Outside \in [Cells -> Int] /\ Balanced(heap, Outside, stolen, {})
      /\ Ledger(Outside, stolen) /\ stolen \in [Cells -> Nat] /\ leaked \in [Cells -> Nat]
      /\ stack \in Seq(Items) /\ \A d \in Cells : ~ Named(heap, d) => Outside[d] = 0
  BY <1>1, Facts
<1> HIDE DEF n, parts
<1>5. Balanced(k, Plus(Outside, parts), stolen, {}) /\ SameShape(heap, k)
  BY <1>3, <1>4, IncrefAllIs
<1> HIDE DEF k
<1>6. /\ Unused(k) # {} /\ CanBuild(k, stolen, t, parts)
      /\ \A d \in Cells : ~ Named(k, d) => Outside[d] = 0
  BY <1>1, <1>2, <1>4, <1>5 DEF SameShape, Unused, CanBuild, Named, Safe
<1>7. /\ Balanced(g, Outside, stolen, {}) /\ Later(k, g, stolen, {})
      /\ c \in Cells /\ g.type[c] = t /\ Safe(g, stolen, {}, c)
  BY <1>4, <1>5, <1>6, GetProtoIs
<1> HIDE DEF g, c, got
<1>8. Later(heap, g, stolen, {})
  BY <1>5, <1>7, ShapeLater, LaterTwice
<1>9. Named(g, c)
  BY <1>7, TypeDescAssumption DEF Named
<1>10. ItemsGood(g, stack, stolen) /\ KeptGood(g, kept, stolen)
  BY <1>8, Facts, ItemsLater, KeptLater
<1>11. x \in Items /\ x.as # "idtype" /\ ItemGood(g, x, stolen)
  BY <1>7, <1>9, TypeItem
<1> HIDE DEF x
<1>12. /\ ItemsGood(g, stack', stolen) /\ stack' \in Seq(Items)
       /\ \A d \in Cells : /\ ListedIn(stack, d) = ListedIn(stack', d) + ListedIn(Top(n), d)
                           /\ ListedIn(stack', d) \in Nat
  BY <1>1, <1>2, <1>10, <1>11, LeaveIs DEF ItemsGood
<1>13. \A d \in Cells : Plus(Outside', parts)[d] = Outside[d]
  <2> TAKE d \in Cells
  <2>1. Plus(Outside', parts)[d] = Outside'[d] + Times(parts, d) /\ Times(parts, d) \in Nat
    BY <1>3, TimesIsNat DEF Plus
  <2>2. ListedIn(stack, d) = ListedIn(stack', d) + Times(parts, d) /\ ListedIn(stack', d) \in Nat
    BY <1>3, <1>12
  <2> QED BY <1>1, <2>1, <2>2, OutsideAt
<1>14. Balanced(g, Plus(Outside', parts), stolen, {})
  BY <1>7, <1>13, BalancedSame
<1>15. Balanced(heap', Outside', stolen, {}) /\ Later(g, heap', stolen, {})
  BY <1>1, <1>3, <1>4, <1>12, <1>14, UpToMaxCells, DecrefStep
<1>16. Later(heap, heap', stolen, {})
  BY <1>8, <1>15, LaterTwice
<1>17. ItemsGood(heap', stack', stolen) /\ KeptGood(heap', kept', stolen)
  BY <1>1, <1>10, <1>12, <1>15, ItemsLater, KeptLater
<1> QED BY <1>1, <1>15, <1>16, <1>17, RunKeeps

(* A list is freed, and an item that is NULL replaces it.                  *)
LEMMA PopFreed ==
  ASSUME Inductive, phase = "run", NEW n \in 0 .. Len(stack), NEW x \in Items, x.as # "idtype",
         x.cell = None, heap' = DecrefAll(heap, Owned(Top(n))), stack' = Append(Below(n), x),
         kept' = kept, phase' = phase, nxt' = nxt, stolen' = stolen, leaked' = leaked
  PROVE  Inductive'
<1> DEFINE cs == Owned(Top(n))
<1>1. /\ ItemsGood(heap, stack, stolen) /\ KeptGood(heap, kept, stolen)
      /\ Balanced(heap, Outside, stolen, {}) /\ stolen \in [Cells -> Nat] /\ leaked \in [Cells -> Nat]
  BY Facts
<1>2. ItemGood(heap, x, stolen)
  BY DEF ItemGood
<1>3. /\ ItemsGood(heap, stack', stolen) /\ stack' \in Seq(Items) /\ Top(n) \in Seq(Items)
      /\ \A d \in Cells : /\ ListedIn(stack, d) = ListedIn(stack', d) + ListedIn(Top(n), d)
                          /\ ListedIn(stack', d) \in Nat
  BY <1>1, <1>2, LeaveIs DEF ItemsGood
<1>4. cs \in Seq(Pointers) /\ \A d : ListedIn(Top(n), d) = Times(cs, d)
  BY <1>3, OwnedIs DEF ListedIn
<1>5. heap' = DecrefAll(heap, cs)
  OBVIOUS
<1> HIDE DEF cs
<1>6. \A d \in Cells : Plus(Outside', cs)[d] = Outside[d]
  <2> TAKE d \in Cells
  <2>1. Plus(Outside', cs)[d] = Outside'[d] + Times(cs, d) /\ Times(cs, d) \in Nat
    BY <1>4, TimesIsNat DEF Plus
  <2>2. ListedIn(stack, d) = ListedIn(stack', d) + Times(cs, d) /\ ListedIn(stack', d) \in Nat
    BY <1>3, <1>4
  <2> QED BY <2>1, <2>2, OutsideAt
<1>7. Balanced(heap, Plus(Outside', cs), stolen, {})
  BY <1>1, <1>6, BalancedSame
<1>8. Balanced(heap', Outside', stolen, {}) /\ Later(heap, heap', stolen, {})
  BY <1>1, <1>3, <1>4, <1>5, <1>7, UpToMaxCells, DecrefStep
<1>9. ItemsGood(heap', stack', stolen) /\ KeptGood(heap', kept', stolen)
  BY <1>1, <1>3, <1>8, ItemsLater, KeptLater
<1> QED BY <1>8, <1>9, RunKeeps

LEMMA NullFunctionTypeKeeps ==
  ASSUME Inductive, NullFunctionType
  PROVE  Inductive'
<1> DEFINE x == NoType
<1>1. /\ phase = "run" /\ kept' = kept /\ phase' = phase /\ nxt' = nxt /\ stolen' = stolen
      /\ leaked' = leaked
  BY DEF NullFunctionType
<1>2. PICK n \in 1 .. Len(stack) :
        heap' = DecrefAll(heap, Owned(Top(n))) /\ stack' = Append(Below(n), x)
  BY DEF NullFunctionType, Leave
<1>3. n \in 0 .. Len(stack)
  BY Facts
<1>4. x \in Items /\ x.as # "idtype" /\ x.cell = None
  BY DEF NoType, Type, Items, Pointers
<1> HIDE DEF x
<1> QED BY <1>1, <1>2, <1>3, <1>4, PopFreed

-----------------------------------------------------------------------------
(* Syntax errors *)

LEMMA NullItem ==
  ASSUME NEW list \in NullLists, NEW x, x = Null(list), NEW h, NEW th
  PROVE  x \in Items /\ x.as # "idtype" /\ x.cell = None /\ ItemGood(h, x, th)
BY DEF Null, NullLists, Items, Pointers, ItemGood

LEMMA ListErrorKeeps ==
  ASSUME Inductive, ListError
  PROVE  Inductive'
<1> DEFINE x == Null("list")
<1>1. /\ phase = "run" /\ kept' = kept /\ phase' = phase /\ nxt' = nxt /\ stolen' = stolen
      /\ leaked' = leaked
  BY DEF ListError
<1>2. PICK n \in 1 .. Len(stack) :
        heap' = DecrefAll(heap, Owned(Top(n))) /\ stack' = Append(Below(n), x)
  BY DEF ListError, Leave
<1>3. n \in 0 .. Len(stack)
  BY Facts
<1>4. x \in Items /\ x.as # "idtype" /\ x.cell = None
  BY NullItem DEF NullLists
<1> HIDE DEF x
<1> QED BY <1>1, <1>2, <1>3, <1>4, PopFreed

LEMMA EmptyStack ==
  /\ <<>> \in Seq(Items) /\ \A h, th : ItemsGood(h, <<>>, th)
  /\ \A d : ListedIn(<<>>, d) = 0
<1>1. <<>> \in Seq(Items) /\ \A i \in DOMAIN <<>> : FALSE
  OBVIOUS
<1>2. Owned(<<>>) = <<>>
  BY DEF Owned
<1> QED BY <1>1, <1>2, TimesNone DEF ItemsGood, ListedIn

(* The references that items own are lost.                                 *)
LEMMA TallyLost ==
  ASSUME Inductive, NEW st, ItemsGood(heap, st, stolen),
         leaked' = [c \in Cells |-> leaked[c] + Times(Owned(st), c)]
  PROVE  /\ Tally(heap, leaked')
         /\ \A d \in Cells : leaked'[d] = leaked[d] + ListedIn(st, d) /\ ListedIn(st, d) \in Nat
<1> DEFINE more == [c \in Cells |-> leaked[c] + Times(Owned(st), c)]
<1>1. st \in Seq(Items) /\ leaked \in [Cells -> Nat] /\ Tally(heap, leaked)
  BY Facts DEF ItemsGood
<1>2. ASSUME NEW d \in Cells
      PROVE  more[d] = leaked[d] + ListedIn(st, d) /\ ListedIn(st, d) \in Nat /\ more[d] \in Nat
  BY <1>1, ListedIsNat DEF ListedIn
<1>3. \A d \in Cells : ~ Named(heap, d) => more[d] = 0
  <2> TAKE d \in Cells
  <2>1. ~ Named(heap, d) => leaked[d] = 0 /\ ListedIn(st, d) = 0
    BY <1>1, UnnamedUnlisted DEF Tally
  <2> HIDE DEF more
  <2> QED BY <1>2, <2>1
<1>4. more \in [Cells -> Nat]
  BY <1>2
<1>5. leaked' = more
  OBVIOUS
<1> HIDE DEF more
<1> QED BY <1>2, <1>3, <1>4, <1>5 DEF Tally

LEMMA ListLostKeeps ==
  ASSUME Inductive, ListLost
  PROVE  Inductive'
<1> DEFINE x == Null("error")
<1>1. /\ phase = "run" /\ heap' = heap /\ kept' = kept /\ phase' = phase /\ nxt' = nxt
      /\ stolen' = stolen
  BY DEF ListLost
<1>2. PICK n \in 0 .. Len(stack) :
        /\ leaked' = [c \in Cells |-> leaked[c] + Times(Owned(Top(n)), c)]
        /\ stack' = Append(Below(n), x)
  BY DEF ListLost, Leave
<1>3. x \in Items /\ x.as # "idtype" /\ ItemGood(heap, x, stolen)
  BY NullItem DEF NullLists
<1> HIDE DEF x
<1>4. ItemsGood(heap, stack, stolen) /\ KeptGood(heap, kept', stolen)
  BY <1>1, Facts
<1>5. /\ ItemsGood(heap, stack', stolen)
      /\ \A d \in Cells : /\ ListedIn(stack, d) = ListedIn(stack', d) + ListedIn(Top(n), d)
                          /\ ListedIn(stack', d) \in Nat /\ ListedIn(Top(n), d) \in Nat
  BY <1>2, <1>3, <1>4, LeaveIs
<1> DEFINE b == Top(n)
<1>6. ItemsGood(heap, b, stolen)
  <2>1. /\ Top(n) \in Seq(Items) /\ Len(Top(n)) = n
        /\ \A i \in 1 .. n : Len(stack) - n + i \in DOMAIN stack /\ Top(n)[i] = stack[Len(stack) - n + i]
    BY Facts, Halves
  <2>2. DOMAIN b = 1 .. n
    BY <2>1
  <2> QED BY <1>4, <2>1, <2>2 DEF ItemsGood
<1> HIDE DEF b
<1>7. /\ Tally(heap, leaked')
      /\ \A d \in Cells : leaked'[d] = leaked[d] + ListedIn(b, d) /\ ListedIn(b, d) \in Nat
  BY <1>2, <1>6, TallyLost DEF b
<1>8. \A d \in Cells : Outside'[d] = Outside[d]
  <2> TAKE d \in Cells
  <2>1. /\ ListedIn(stack, d) = ListedIn(stack', d) + ListedIn(b, d)
        /\ ListedIn(stack', d) \in Nat
    BY <1>5 DEF b
  <2> QED BY <1>1, <1>7, <2>1, OutsideAt
<1> QED BY <1>1, <1>4, <1>5, <1>7, <1>8, LossKeeps

LEMMA StatementErrorKeeps ==
  ASSUME Inductive, StatementError
  PROVE  Inductive'
<1>1. /\ phase = "run" /\ heap' = heap /\ kept' = kept /\ phase' = phase /\ nxt' = nxt
      /\ stolen' = stolen /\ stack' = <<>>
      /\ leaked' = [c \in Cells |-> leaked[c] + Times(Owned(stack), c)]
  BY DEF StatementError
<1>2. /\ ItemsGood(heap, stack', stolen) /\ KeptGood(heap, kept', stolen)
      /\ ItemsGood(heap, stack, stolen) /\ \A d : ListedIn(stack', d) = 0
  BY <1>1, Facts, EmptyStack
<1>3. /\ Tally(heap, leaked')
      /\ \A d \in Cells : leaked'[d] = leaked[d] + ListedIn(stack, d) /\ ListedIn(stack, d) \in Nat
  BY <1>1, <1>2, TallyLost
<1>4. \A d \in Cells : Outside'[d] = Outside[d]
  <2> TAKE d \in Cells
  <2>1. ListedIn(stack', d) = 0 /\ leaked'[d] = leaked[d] + ListedIn(stack, d)
    BY <1>2, <1>3
  <2> QED BY <1>1, <2>1, OutsideAt
<1> QED BY <1>1, <1>2, <1>3, <1>4, LossKeeps

(* A user keeps nothing any more.                                          *)
LEMMA StillGood ==
  ASSUME NEW u \in Users, NEW h, NEW th, KeptGood(h, kept, th), kept' = [kept EXCEPT ![u] = None]
  PROVE  KeptGood(h, kept', th)
<1> DEFINE kq == kept'
<1>1. kept \in [Users -> Pointers] /\ None \in Pointers
  BY DEF KeptGood, Pointers
<1>2. kq \in [Users -> Pointers] /\ \A v \in Users : kq[v] = IF v = u THEN None ELSE kept[v]
  BY <1>1
<1> HIDE DEF kq
<1>3. KeptGood(h, kq, th)
  BY <1>2 DEF KeptGood
<1> QED BY <1>3 DEF kq

Leaves(u, c) == c = kept[u] /\ c # None /\ kept' = [kept EXCEPT ![u] = None]

LEMMA LeavesKept ==
  ASSUME Inductive, NEW u \in Users, NEW c, Leaves(u, c)
  PROVE  /\ c \in Cells /\ Named(heap, c) /\ Safe(heap, stolen, {}, c)
         /\ \A d \in Cells : /\ KeptBy(kept, d) = KeptBy(kept', d) + (IF d = c THEN 1 ELSE 0)
                             /\ KeptBy(kept', d) \in Nat
<1> DEFINE kq == kept'
<1>1. c = kept[u] /\ c # None /\ kept' = [kept EXCEPT ![u] = None]
  BY DEF Leaves
<1>2. kept \in [Users -> Pointers] /\ KeptGood(heap, kept, stolen)
  BY Facts
<1>3. c \in Cells /\ Named(heap, c) /\ Safe(heap, stolen, {}, c)
  BY <1>1, <1>2 DEF KeptGood, Pointers
<1>4. /\ kq \in [Users -> Pointers] /\ kq[u] = None /\ \A v \in Users \ {u} : kept[v] = kq[v]
  BY <1>1, <1>2 DEF Pointers
<1> HIDE DEF kq
<1>5. \A d \in Cells : KeptBy(kept, d) = KeptBy(kq, d) + (IF d = c THEN 1 ELSE 0)
  BY <1>1, <1>2, <1>3, <1>4, KeptMore
<1>6. \A d \in Cells : KeptBy(kq, d) \in Nat
  BY KeptIsNat
<1> QED BY <1>3, <1>5, <1>6 DEF kq

LEMMA UserLostKeeps ==
  ASSUME Inductive, NEW u \in Users, UserLost(u)
  PROVE  Inductive'
<1> DEFINE c == kept[u]
<1>1. /\ phase = "run" /\ c # None /\ heap' = heap /\ kept' = [kept EXCEPT ![u] = None]
      /\ leaked' = [leaked EXCEPT ![c] = @ + 1] /\ stack' = stack
      /\ phase' = phase /\ nxt' = nxt /\ stolen' = stolen
  BY DEF UserLost
<1>2. /\ KeptGood(heap, kept, stolen) /\ ItemsGood(heap, stack, stolen) /\ Tally(heap, leaked)
      /\ leaked \in [Cells -> Nat]
  BY Facts
<1>3. /\ c \in Cells /\ Named(heap, c) /\ Safe(heap, stolen, {}, c)
      /\ \A d \in Cells : /\ KeptBy(kept, d) = KeptBy(kept', d) + (IF d = c THEN 1 ELSE 0)
                          /\ KeptBy(kept', d) \in Nat
  <2>1. Leaves(u, c)
    BY <1>1 DEF Leaves
  <2> HIDE DEF c
  <2> QED BY <2>1, LeavesKept
<1>4. KeptGood(heap, kept', stolen)
  BY <1>1, <1>2, StillGood
<1> HIDE DEF c
<1>5. /\ Tally(heap, leaked')
      /\ \A d \in Cells : leaked'[d] = leaked[d] + (IF d = c THEN 1 ELSE 0)
  BY <1>1, <1>2, <1>3 DEF Tally
<1>6. \A d \in Cells : Outside'[d] = Outside[d]
  <2> TAKE d \in Cells
  <2>1. /\ KeptBy(kept, d) = KeptBy(kept', d) + (IF d = c THEN 1 ELSE 0)
        /\ KeptBy(kept', d) \in Nat /\ leaked'[d] = leaked[d] + (IF d = c THEN 1 ELSE 0)
    BY <1>3, <1>5
  <2>2. ListedIn(stack', d) = ListedIn(stack, d) /\ stolen'[d] = stolen[d]
    BY <1>1
  <2> HIDE DEF c
  <2> QED BY <2>1, <2>2, OutsideAt
<1>7. ItemsGood(heap, stack', stolen)
  BY <1>1, <1>2
<1> QED BY <1>1, <1>4, <1>5, <1>6, <1>7, LossKeeps

-----------------------------------------------------------------------------
(* Users of types *)

LEMMA TypeReadIs ==
  ASSUME Inductive, TypeRead, NEW c, c = stack[1].cell
  PROVE  /\ c \in Cells /\ Named(heap, c) /\ Safe(heap, stolen, {}, c)
         /\ \A d \in Cells : ListedIn(stack, d) = 0
<1> DEFINE x == stack[1]
<1>1. /\ stack \in Seq(Items) /\ ItemsGood(heap, stack, stolen) /\ Len(stack) = 1
      /\ x.as = "type" /\ x # NoType
  BY Facts DEF TypeRead
<1>2. DOMAIN stack = {1} /\ x \in Items /\ ItemGood(heap, x, stolen) /\ c = x.cell
  BY <1>1 DEF ItemsGood
<1>3. \A i \in DOMAIN stack : stack[i].as = "type"
  BY <1>1, <1>2
<1> HIDE DEF x
<1>4. c # None /\ c \in Cells
  BY <1>1, <1>2 DEF Items, Pointers, NoType, Type
<1>5. Named(heap, c) /\ Safe(heap, stolen, {}, c)
  BY <1>2, <1>4 DEF ItemGood
<1>6. \A d \in Cells : ListedIn(stack, d) = 0
  BY <1>1, <1>3, ListedNone
<1> QED BY <1>4, <1>5, <1>6

(* u keeps c, and nothing before.                                          *)
LEMMA KeepsOne ==
  ASSUME Inductive, NEW u \in Users, kept[u] = None, NEW c \in Cells,
         kept' = [kept EXCEPT ![u] = c]
  PROVE  /\ \A d \in Cells : KeptBy(kept', d) = KeptBy(kept, d) + (IF d = c THEN 1 ELSE 0)
         /\ \A h, th : KeptGood(h, kept, th) /\ Named(h, c) /\ Safe(h, th, {}, c)
              => KeptGood(h, kept', th)
<1> DEFINE kq == kept'
<1>1. kept \in [Users -> Pointers] /\ c \in Pointers
  BY Facts DEF Pointers
<1>2. kq \in [Users -> Pointers] /\ kq[u] = c /\ \A v \in Users \ {u} : kq[v] = kept[v]
  BY <1>1
<1> HIDE DEF kq
<1>3. \A d \in Cells : KeptBy(kq, d) = KeptBy(kept, d) + (IF d = c THEN 1 ELSE 0)
  BY <1>1, <1>2, KeptMore
<1>4. ASSUME NEW h, NEW th, KeptGood(h, kept, th), Named(h, c), Safe(h, th, {}, c)
      PROVE  KeptGood(h, kq, th)
  BY <1>2, <1>4 DEF KeptGood
<1> QED BY <1>3, <1>4 DEF kq

(* u keeps one more reference.                                             *)
Takes(u, c) ==
  /\ phase = "run" /\ kept[u] = None /\ \A d \in Cells : ListedIn(stack, d) = 0
  /\ c \in Cells /\ Named(heap, c) /\ Safe(heap, stolen, {}, c)
  /\ heap' = Incref(heap, c) /\ kept' = [kept EXCEPT ![u] = c] /\ stack' = <<>>
  /\ phase' = phase /\ nxt' = nxt /\ stolen' = stolen /\ leaked' = leaked

LEMMA TakeKeeps ==
  ASSUME Inductive, NEW u \in Users, NEW c \in Cells, Takes(u, c)
  PROVE  Inductive'
<1>1. /\ phase = "run" /\ kept[u] = None /\ stack' = <<>> /\ phase' = phase /\ nxt' = nxt
      /\ stolen' = stolen /\ leaked' = leaked /\ \A d \in Cells : ListedIn(stack, d) = 0
      /\ Named(heap, c) /\ Safe(heap, stolen, {}, c) /\ kept' = [kept EXCEPT ![u] = c]
  BY DEF Takes
<1>2. /\ Outside \in [Cells -> Int] /\ Balanced(heap, Outside, stolen, {})
      /\ KeptGood(heap, kept, stolen)
  BY <1>1, Facts
<1>3. \A d \in Cells : KeptBy(kept', d) = KeptBy(kept, d) + (IF d = c THEN 1 ELSE 0)
  BY <1>1, KeepsOne
<1>4. KeptGood(heap, kept', stolen)
  BY <1>1, <1>2, KeepsOne
<1> DEFINE more == Outside'
<1>5. OneRefMore(Outside, more, c)
  <2>1. ASSUME NEW d \in Cells PROVE more[d] = Outside[d] + (IF d = c THEN 1 ELSE 0)
    <3>1. ListedIn(stack', d) = 0 /\ ListedIn(stack, d) = 0
      BY <1>1, EmptyStack
    <3>2. KeptBy(kept', d) = KeptBy(kept, d) + (IF d = c THEN 1 ELSE 0)
      BY <1>3
    <3>3. leaked'[d] = leaked[d] /\ stolen'[d] = stolen[d]
      BY <1>1
    <3> QED BY <3>1, <3>2, <3>3, OutsideAt
  <2> HIDE DEF more
  <2> QED BY <2>1 DEF OneRefMore
<1>6. Balanced(heap', more, stolen, {}) /\ SameShape(heap, heap')
  <2> DEFINE k == heap'
  <2>1. k = Incref(heap, c)
    BY DEF Takes
  <2> HIDE DEF more, k
  <2>2. Balanced(k, more, stolen, {}) /\ SameShape(heap, k)
    BY <1>2, <1>5, <2>1, IncrefStep
  <2> QED BY <2>2 DEF k
<1>7. Later(heap, heap', stolen, {})
  BY <1>6, ShapeLater
<1>8. KeptGood(heap', kept', stolen) /\ ItemsGood(heap', stack', stolen)
  BY <1>1, <1>4, <1>7, KeptLater, EmptyStack
<1> QED BY <1>1, <1>6, <1>7, <1>8, RunKeeps

LEMMA DeclareKeeps ==
  ASSUME Inductive, NEW u \in Users, Declare(u)
  PROVE  Inductive'
<1> DEFINE c == stack[1].cell
<1>1. /\ phase = "run" /\ kept[u] = None /\ TypeRead /\ heap' = Incref(heap, c)
      /\ kept' = [kept EXCEPT ![u] = c] /\ stack' = <<>>
      /\ phase' = phase /\ nxt' = nxt /\ stolen' = stolen /\ leaked' = leaked
  BY DEF Declare, Free
<1>2. /\ c \in Cells /\ Named(heap, c) /\ Safe(heap, stolen, {}, c)
      /\ \A d \in Cells : ListedIn(stack, d) = 0
  BY <1>1, TypeReadIs
<1> HIDE DEF c
<1> QED BY <1>1, <1>2, TakeKeeps DEF Takes

LEMMA ShareKeeps ==
  ASSUME Inductive, NEW u \in Users, NEW v \in Users, Share(u, v)
  PROVE  Inductive'
<1> DEFINE c == kept[v]
<1>1. /\ phase = "run" /\ stack = <<>> /\ kept[u] = None /\ c # None /\ heap' = Incref(heap, c)
      /\ kept' = [kept EXCEPT ![u] = c] /\ stack' = <<>>
      /\ phase' = phase /\ nxt' = nxt /\ stolen' = stolen /\ leaked' = leaked
  BY DEF Share, Free
<1>2. c \in Cells /\ Named(heap, c) /\ Safe(heap, stolen, {}, c)
  <2>1. kept \in [Users -> Pointers] /\ KeptGood(heap, kept, stolen)
    BY Facts
  <2> QED BY <1>1, <2>1 DEF KeptGood, Pointers
<1> HIDE DEF c
<1>3. \A d \in Cells : ListedIn(stack, d) = 0
  BY <1>1, EmptyStack
<1> QED BY <1>1, <1>2, <1>3, TakeKeeps DEF Takes

LEMMA OneCell ==
  ASSUME NEW c \in Cells, NEW cs, cs = <<c>>
  PROVE  /\ cs \in Seq(Pointers) /\ c \in Nat /\ \A i \in DOMAIN cs : cs[i] # None => cs[i] <= c
         /\ \A d : Times(cs, d) = IF d = c THEN 1 ELSE 0
<1>1. c \in Nat /\ c \in Pointers
  BY CellFacts DEF Pointers
<1>2. \A d : Times(cs, d) = IF d = c THEN 1 ELSE 0
  BY TimesOne
<1> QED BY <1>1, <1>2

LEMMA DiscardKeeps ==
  ASSUME Inductive, NEW u \in Users, Discard(u)
  PROVE  Inductive'
<1> DEFINE c == kept[u]
           cs == <<c>>
<1>1. /\ phase = "run" /\ stack = <<>> /\ c # None /\ heap' = DecrefAll(heap, cs)
      /\ kept' = [kept EXCEPT ![u] = None] /\ stack' = <<>>
      /\ phase' = phase /\ nxt' = nxt /\ stolen' = stolen /\ leaked' = leaked
  BY DEF Discard, Free, Decref
<1>2. /\ Balanced(heap, Outside, stolen, {}) /\ KeptGood(heap, kept, stolen)
      /\ stolen \in [Cells -> Nat] /\ leaked \in [Cells -> Nat]
  BY <1>1, Facts
<1>3. /\ c \in Cells /\ Named(heap, c) /\ Safe(heap, stolen, {}, c)
      /\ \A d \in Cells : /\ KeptBy(kept, d) = KeptBy(kept', d) + (IF d = c THEN 1 ELSE 0)
                          /\ KeptBy(kept', d) \in Nat
  <2>1. Leaves(u, c)
    BY <1>1 DEF Leaves
  <2> HIDE DEF c
  <2> QED BY <2>1, LeavesKept
<1>4. KeptGood(heap, kept', stolen)
  BY <1>1, <1>2, StillGood
<1>5. /\ cs \in Seq(Pointers) /\ c \in Nat /\ \A i \in DOMAIN cs : cs[i] # None => cs[i] <= c
      /\ \A d : Times(cs, d) = IF d = c THEN 1 ELSE 0
  BY <1>3, OneCell
<1> HIDE DEF c, cs
<1>6. \A d \in Cells : Plus(Outside', cs)[d] = Outside[d]
  <2> TAKE d \in Cells
  <2>1. Plus(Outside', cs)[d] = Outside'[d] + (IF d = c THEN 1 ELSE 0)
    BY <1>5 DEF Plus
  <2>2. /\ ListedIn(stack', d) = ListedIn(stack, d) /\ leaked'[d] = leaked[d]
        /\ stolen'[d] = stolen[d]
    BY <1>1
  <2>3. /\ KeptBy(kept, d) = KeptBy(kept', d) + (IF d = c THEN 1 ELSE 0)
        /\ KeptBy(kept', d) \in Nat
    BY <1>3
  <2> QED BY <2>1, <2>2, <2>3, OutsideAt
<1>7. Balanced(heap, Plus(Outside', cs), stolen, {})
  BY <1>2, <1>6, BalancedSame
<1>8. Balanced(heap', Outside', stolen, {}) /\ Later(heap, heap', stolen, {})
  BY <1>1, <1>2, <1>5, <1>7, EmptyStack, DecrefStep
<1>9. KeptGood(heap', kept', stolen) /\ ItemsGood(heap', stack', stolen)
  BY <1>1, <1>4, <1>8, KeptLater, EmptyStack
<1> QED BY <1>1, <1>8, <1>9, RunKeeps

(* A borrowed reference is released.                                       *)
LEMMA MoreThefts ==
  ASSUME NEW h, NEW th, NEW thefts, \A c \in Cells : th[c] > 0 => thefts[c] > 0
  PROVE  /\ \A out : Balanced(h, out, th, {}) => Balanced(h, out, thefts, {})
         /\ \A kp : KeptGood(h, kp, th) => KeptGood(h, kp, thefts)
         /\ \A st : ItemsGood(h, st, th) => ItemsGood(h, st, thefts)
<1>1. ASSUME NEW out, Balanced(h, out, th, {}) PROVE Balanced(h, out, thefts, {})
  <2>1. h.parts \in [Cells -> Seq(Cells)] /\ h.live \subseteq Cells
    BY <1>1, HeapFields DEF Balanced, HeapGood
  <2>2. \A c \in h.live : \A i \in DOMAIN h.parts[c] : h.parts[c][i] \in Cells
    BY <2>1
  <2> QED BY <1>1, <2>2 DEF Balanced, Safe
<1>2. ASSUME NEW kp, KeptGood(h, kp, th) PROVE KeptGood(h, kp, thefts)
  BY <1>2 DEF KeptGood, Safe, Pointers
<1>3. ASSUME NEW st, ItemsGood(h, st, th) PROVE ItemsGood(h, st, thefts)
  <2>1. ASSUME NEW i \in DOMAIN st PROVE ItemGood(h, st[i], thefts)
    <3>1. st[i] \in Items /\ ItemGood(h, st[i], th)
      BY <1>3, <2>1 DEF ItemsGood
    <3>2. st[i].cell \in Pointers
      BY <3>1 DEF Items
    <3> QED BY <3>1, <3>2 DEF ItemGood, Safe, Pointers
  <2> QED BY <1>3, <2>1 DEF ItemsGood
<1> QED BY <1>1, <1>2, <1>3

LEMMA StealIs ==
  ASSUME Inductive, phase = "run", NEW c \in Cells, Named(heap, c), NEW th, th = stolen',
         stolen' = [stolen EXCEPT ![c] = @ + 1]
  PROVE  /\ Tally(heap, th) /\ th \in [Cells -> Nat]
         /\ \A d \in Cells : th[d] = stolen[d] + (IF d = c THEN 1 ELSE 0)
         /\ Balanced(heap, Outside, th, {}) /\ KeptGood(heap, kept, th)
         /\ ItemsGood(heap, stack, th)
<1>1. /\ stolen \in [Cells -> Nat] /\ Tally(heap, stolen) /\ ItemsGood(heap, stack, stolen)
      /\ Balanced(heap, Outside, stolen, {}) /\ KeptGood(heap, kept, stolen)
  BY Facts
<1>2. th \in [Cells -> Nat] /\ \A d \in Cells : th[d] = stolen[d] + (IF d = c THEN 1 ELSE 0)
  BY <1>1
<1>3. Tally(heap, th)
  BY <1>1, <1>2 DEF Tally
<1>4. \A d \in Cells : stolen[d] > 0 => th[d] > 0
  BY <1>1, <1>2
<1>5. Balanced(heap, Outside, th, {})
  BY <1>1, <1>4, MoreThefts
<1>6. KeptGood(heap, kept, th) /\ ItemsGood(heap, stack, th)
  BY <1>1, <1>4, MoreThefts
<1> QED BY <1>2, <1>3, <1>5, <1>6

LEMMA ArrayExprKeeps ==
  ASSUME Inductive, NEW u \in Users, ArrayExpr(u)
  PROVE  Inductive'
<1> DEFINE c == stack[1].cell
           base == heap.parts[c][1]
           k == Incref(heap, base)
           cs == <<c>>
           th == stolen'
           more == Plus(Outside', cs)
<1>1. /\ phase = "run" /\ kept[u] = None /\ TypeRead /\ Kind(heap.type[c]) = "array"
      /\ heap' = DecrefAll(k, cs) /\ kept' = [kept EXCEPT ![u] = base]
      /\ th = [stolen EXCEPT ![c] = @ + 1]
      /\ stack' = <<>> /\ phase' = phase /\ nxt' = nxt /\ leaked' = leaked
  BY DEF ArrayExpr, Free, Decref
<1>2. /\ c \in Cells /\ Named(heap, c) /\ Safe(heap, stolen, {}, c)
      /\ \A d \in Cells : ListedIn(stack, d) = 0
  BY <1>1, TypeReadIs
<1>3. /\ heap \in Heaps /\ HeapGood(heap) /\ Outside \in [Cells -> Int]
      /\ leaked \in [Cells -> Nat] /\ Tally(heap, leaked) /\ Balanced(heap, Outside, stolen, {})
      /\ stolen \in [Cells -> Nat]
  BY <1>1, Facts
<1>4. /\ cs \in Seq(Pointers) /\ c \in Nat /\ \A i \in DOMAIN cs : cs[i] # None => cs[i] <= c
      /\ \A d : Times(cs, d) = IF d = c THEN 1 ELSE 0
  BY <1>2, OneCell
<1> HIDE DEF c, cs
<1>5. base \in Cells /\ Named(heap, base)
  <2>1. PartsGood(heap, c) /\ heap.parts[c] \in Seq(Cells) /\ heap.type[c] \in Types
    BY <1>2, <1>3, HeapFields DEF HeapGood, Named
  <2>2. PartsOf(heap.type[c]) \in Seq(Types) /\ PartsOf(heap.type[c]) # <<>>
    BY <1>1, <2>1, TypeDescAssumption
  <2>3. Len(PartsOf(heap.type[c])) \in Nat \ {0}
    BY <2>2
  <2>4. Len(heap.parts[c]) = Len(PartsOf(heap.type[c]))
    BY <1>2, <2>1 DEF PartsGood
  <2>5. 1 \in DOMAIN heap.parts[c]
    BY <2>1, <2>3, <2>4
  <2> QED BY <2>1, <2>5 DEF PartsGood
<1>6. Safe(heap, stolen, {}, base)
  BY <1>3, <1>5 DEF Balanced
<1> HIDE DEF base
<1>7. /\ Tally(heap, th) /\ th \in [Cells -> Nat]
      /\ \A d \in Cells : th[d] = stolen[d] + (IF d = c THEN 1 ELSE 0)
      /\ Balanced(heap, Outside, th, {}) /\ KeptGood(heap, kept, th)
  BY <1>1, <1>2, StealIs
<1>8. \A d \in Cells : KeptBy(kept', d) = KeptBy(kept, d) + (IF d = base THEN 1 ELSE 0)
  BY <1>1, <1>5, KeepsOne
<1>9. OneRefMore(Outside, more, base)
  <2>1. ASSUME NEW d \in Cells PROVE more[d] = Outside[d] + (IF d = base THEN 1 ELSE 0)
    <3>1. more[d] = Outside'[d] + (IF d = c THEN 1 ELSE 0)
      BY <1>4 DEF Plus
    <3>2. /\ stolen'[d] = stolen[d] + (IF d = c THEN 1 ELSE 0)
          /\ KeptBy(kept', d) = KeptBy(kept, d) + (IF d = base THEN 1 ELSE 0)
      BY <1>7, <1>8
    <3>3. ListedIn(stack', d) = 0 /\ ListedIn(stack, d) = 0 /\ leaked'[d] = leaked[d]
      BY <1>1, <1>2, EmptyStack
    <3> HIDE DEF more
    <3> QED BY <3>1, <3>2, <3>3, OutsideAt
  <2> HIDE DEF more
  <2> QED BY <2>1 DEF OneRefMore
<1>10. Safe(heap, th, {}, base)
  BY <1>3, <1>5, <1>6, <1>7 DEF Safe
<1>11. KeptGood(heap, kept', th)
  BY <1>1, <1>5, <1>7, <1>10, KeepsOne
<1>12. /\ k = Incref(heap, base) /\ heap' = DecrefAll(k, cs) /\ th = stolen'
       /\ more = Plus(Outside', cs)
  BY <1>1
<1> HIDE DEF k, th, more
<1>13. Balanced(k, more, th, {}) /\ SameShape(heap, k)
  BY <1>3, <1>5, <1>7, <1>9, <1>12, IncrefStep
<1>14. Later(heap, k, th, {})
  BY <1>13, ShapeLater
<1>15. Balanced(heap', Outside', th, {}) /\ Later(k, heap', th, {})
  <2>1. /\ Balanced(k, Plus(Outside', cs), th, {}) /\ stack' \in Seq(Items)
        /\ leaked' \in [Cells -> Nat]
    BY <1>1, <1>3, <1>12, <1>13, EmptyStack
  <2> QED BY <1>4, <1>7, <1>12, <2>1, DecrefStep
<1>16. Later(heap, heap', th, {})
  BY <1>14, <1>15, LaterTwice
<1>17. Tally(heap', th) /\ Tally(heap', leaked') /\ KeptGood(heap', kept', th)
  BY <1>1, <1>3, <1>7, <1>11, <1>16, TallyLater, KeptLater
<1> QED BY <1>1, <1>12, <1>15, <1>17, EmptyStack, RunStep

LEMMA TypeListErrorKeeps ==
  ASSUME Inductive, TypeListError
  PROVE  Inductive'
<1> DEFINE x == Last(stack)
           c == x.cell
           cs == <<c>>
           th == stolen'
           a == Below(1)
<1>1. /\ phase = "run" /\ stack # <<>> /\ x = Type(c) /\ c # None
      /\ heap' = DecrefAll(heap, cs) /\ th = [stolen EXCEPT ![c] = @ + 1] /\ stack' = a
      /\ kept' = kept /\ phase' = phase /\ nxt' = nxt /\ leaked' = leaked
  <2>1. Len(stack) > 1 => stack # <<>>
    BY Facts
  <2> QED BY <2>1 DEF TypeListError, Decref
<1>2. /\ x \in Items /\ ItemGood(heap, x, stolen) /\ a \in Seq(Items)
      /\ ItemsGood(heap, a, stolen)
      /\ \A d \in Cells : ListedIn(stack, d) = ListedIn(a, d) + Owns(x, d)
      /\ \A d \in Cells : ListedIn(a, d) \in Nat
  BY <1>1, LastIs
<1>3. /\ leaked \in [Cells -> Nat] /\ Tally(heap, leaked) /\ stolen \in [Cells -> Nat]
      /\ Tally(heap, stolen)
  BY Facts
<1> HIDE DEF x, a
<1>4. c \in Cells /\ Named(heap, c) /\ \A d \in Cells : Owns(x, d) = 0
  BY <1>1, <1>2 DEF Items, Pointers, ItemGood, Type, Owns
<1> HIDE DEF c
<1>5. /\ Tally(heap, th) /\ th \in [Cells -> Nat]
      /\ \A d \in Cells : th[d] = stolen[d] + (IF d = c THEN 1 ELSE 0)
      /\ Balanced(heap, Outside, th, {}) /\ KeptGood(heap, kept, th)
  BY <1>1, <1>4, StealIs
<1>6. ItemsGood(heap, a, th)
  <2>1. \A d \in Cells : stolen[d] > 0 => th[d] > 0
    BY <1>3, <1>5
  <2> HIDE DEF th
  <2> QED BY <1>2, <2>1, MoreThefts
<1>7. /\ cs \in Seq(Pointers) /\ c \in Nat /\ \A i \in DOMAIN cs : cs[i] # None => cs[i] <= c
      /\ \A d : Times(cs, d) = IF d = c THEN 1 ELSE 0
  BY <1>4, OneCell
<1> HIDE DEF cs
<1>8. \A d \in Cells : Plus(Outside', cs)[d] = Outside[d]
  <2> TAKE d \in Cells
  <2>1. Plus(Outside', cs)[d] = Outside'[d] + (IF d = c THEN 1 ELSE 0)
    BY <1>7 DEF Plus
  <2>2. ListedIn(stack', d) = ListedIn(stack, d) /\ leaked'[d] = leaked[d]
        /\ KeptBy(kept', d) = KeptBy(kept, d)
    BY <1>1, <1>2, <1>4
  <2>3. stolen'[d] = stolen[d] + (IF d = c THEN 1 ELSE 0)
    BY <1>5
  <2> QED BY <2>1, <2>2, <2>3, OutsideAt
<1>9. th = stolen'
  OBVIOUS
<1> HIDE DEF th
<1>10. Balanced(heap, Plus(Outside', cs), th, {})
  BY <1>5, <1>8, BalancedSame
<1>11. Balanced(heap', Outside', th, {}) /\ Later(heap, heap', th, {})
  BY <1>1, <1>2, <1>3, <1>5, <1>7, <1>9, <1>10, DecrefStep
<1>12. /\ Tally(heap', th) /\ Tally(heap', leaked') /\ KeptGood(heap', kept', th)
       /\ ItemsGood(heap', stack', th)
  BY <1>1, <1>3, <1>5, <1>6, <1>11, TallyLater, KeptLater, ItemsLater
<1> QED BY <1>1, <1>9, <1>11, <1>12, RunStep

-----------------------------------------------------------------------------
(* The end *)

LEMMA MoreGone ==
  ASSUME NEW h, NEW out, NEW th, NEW gone, NEW more, Balanced(h, out, th, gone), gone \subseteq more
  PROVE  Balanced(h, out, th, more)
BY DEF Balanced, Safe

LEMMA NextInTableIs ==
  ASSUME heap.table \subseteq Cells, NEW c \in Nat
  PROVE  /\ NextInTable(c) = None => \A d \in heap.table : d <= c
         /\ NextInTable(c) # None => /\ NextInTable(c) \in heap.table /\ NextInTable(c) > c
                                     /\ \A d \in heap.table : d > c => NextInTable(c) <= d
<1> DEFINE later == {d \in heap.table : d > c}
<1>1. later \in SUBSET Nat /\ Cells \subseteq Nat /\ None \notin Cells
  BY CellFacts
<1>2. NextInTable(c) = IF later = {} THEN None ELSE Min(later)
  BY DEF NextInTable
<1>3. CASE later = {}
  <2>1. \A d \in heap.table : d \in Nat /\ ~ d > c
    BY <1>1, <1>3
  <2>2. \A d \in heap.table : d <= c
    BY <2>1
  <2>3. NextInTable(c) = None
    BY <1>2, <1>3
  <2> QED BY <2>2, <2>3
<1>4. CASE later # {}
  <2>1. Min(later) \in later /\ \A k \in later : Min(later) <= k
    <3> HIDE DEF later
    <3>1. \E m \in later : \A k \in later : m <= k
      BY <1>1, <1>4, Least
    <3> QED BY <3>1, Zenon DEF Min
  <2> QED BY <1>1, <1>2, <1>4, <2>1
<1> QED BY <1>3, <1>4

LEMMA Nobody ==
  ASSUME NEW h, NEW th, NEW st, st = <<>>, NEW kp \in [Users -> Pointers], \A u \in Users : kp[u] = None
  PROVE  KeptGood(h, kp, th) /\ ItemsGood(h, st, th)
BY EmptyStack DEF KeptGood

LEMMA FiniBeginKeeps ==
  ASSUME Inductive, FiniBegin
  PROVE  Inductive'
<1>1. /\ phase = "run" /\ stack = <<>> /\ (\A u \in Users : Free(u)) /\ phase' = "fini"
      /\ nxt' = NextInTable(0) /\ heap' = heap /\ kept' = kept /\ stack' = stack /\ stolen' = stolen
      /\ leaked' = leaked
  BY DEF FiniBegin
<1>2. heap.table \subseteq Cells /\ Balanced(heap, Outside, stolen, {})
  BY <1>1, Facts, HeapFields
<1>3. /\ NextInTable(0) = None => \A d \in heap.table : d <= 0
      /\ NextInTable(0) # None => /\ NextInTable(0) \in heap.table /\ NextInTable(0) > 0
                                  /\ \A d \in heap.table : d > 0 => NextInTable(0) <= d
  BY <1>2, NextInTableIs
<1>4. Outside' = Outside
  BY <1>1, OutsideIs DEF OutsideOf
<1>5. Balanced(heap, Outside, stolen, Gone)'
  <2>1. Balanced(heap, Outside, stolen, Gone')
    BY <1>2, MoreGone
  <2>2. Balanced(heap', Outside', stolen', Gone')
    BY <1>1, <1>4, <2>1
  <2> QED BY <2>2
            DEF Balanced, HeapGood, Heaps, Counts, Safe, Named, PartsGood, Inside, Links, IsBase
<1>6. Tally(heap, stolen)' /\ Tally(heap, leaked)' /\ Kept'
  BY <1>1 DEF Inductive, Tally, Kept, Named, Safe
<1>7. Finishing'
  <2>1. \A d \in heap.table : d > 0
    <3>1. \A d \in heap.table : d \in Nat \ {0}
      BY <1>2, CellFacts
    <3> QED BY <3>1
  <2>2. nxt' # None => nxt' \in heap'.table
    BY <1>1, <1>3
  <2>3. \A d \in heap'.table : nxt' # None /\ nxt' <= d
    <3> TAKE d \in heap'.table
    <3>1. d \in heap.table /\ d \in Nat /\ d > 0
      BY <1>1, <1>2, <2>1, CellFacts
    <3>2. ~ d <= 0
      BY <3>1
    <3> QED BY <1>1, <1>3, <3>1, <3>2
  <2>4. phase' = "fini" /\ stack' = <<>> /\ \A u \in Users : kept'[u] = None
    BY <1>1 DEF Free
  <2> QED BY <2>2, <2>3, <2>4 DEF Finishing, Finished, Free
<1> QED BY <1>5, <1>6, <1>7 DEF Inductive

Unlisted(h, c) == [h EXCEPT !.table = @ \ {c}]

LEMMA UnlistedIs ==
  ASSUME NEW h \in Heaps, NEW c, NEW g, g = Unlisted(h, c)
  PROVE  /\ g \in Heaps /\ g.type = h.type /\ g.refcnt = h.refcnt /\ g.parts = h.parts
         /\ g.live = h.live /\ g.table = h.table \ {c}
<1>1. g = [type |-> h.type, refcnt |-> h.refcnt, parts |-> h.parts, live |-> h.live,
           table |-> h.table \ {c}]
  BY DEF Heaps, Unlisted
<1>2. h.table \ {c} \in SUBSET Cells
  BY HeapFields
<1>3. g \in Heaps
  BY <1>1, <1>2, HeapFields DEF Heaps
<1> QED BY <1>1, <1>3

LEMMA FiniVisitKeeps ==
  ASSUME Inductive, FiniVisit
  PROVE  Inductive'
<1> DEFINE k == Unlisted(heap, nxt)
           c == nxt
           cs == <<c>>
           th == stolen'
           gone == Gone'
<1>1. /\ phase = "fini" /\ c # None /\ nxt' = NextInTable(c) /\ heap' = DecrefAll(k, cs)
      /\ kept' = kept /\ stack' = stack /\ phase' = phase /\ th = stolen
      /\ leaked' = leaked
  BY DEF FiniVisit, Decref, Unlisted
<1>2. c \in heap.table /\ stack = <<>> /\ (\A u \in Users : kept[u] = None) /\ \A d \in heap.table : c <= d
  BY <1>1 DEF Inductive, Finishing, Free
<1>3. /\ Balanced(heap, Outside, stolen, Gone) /\ heap \in Heaps /\ HeapGood(heap)
      /\ Tally(heap, stolen) /\ Tally(heap, leaked) /\ Outside \in [Cells -> Int]
      /\ stolen \in [Cells -> Nat] /\ leaked \in [Cells -> Nat]
      /\ kept \in [Users -> Pointers] /\ heap.table \subseteq Cells
  BY Facts, HeapFields
<1>4. c \in Cells /\ c \in Nat
  BY <1>2, <1>3, CellFacts
<1>5. /\ nxt' = None => \A d \in heap.table : d <= c
      /\ nxt' # None => /\ nxt' \in heap.table /\ nxt' > c
                        /\ \A d \in heap.table : d > c => nxt' <= d
  BY <1>1, <1>3, <1>4, NextInTableIs
<1>6. c \in gone /\ Gone \subseteq gone
  <2>1. Gone = {d \in Cells : d < c}
    BY <1>1 DEF Gone
  <2>2. gone = {d \in Cells : nxt' = None \/ d < nxt'}
    BY <1>1 DEF Gone
  <2>3. \A d \in Cells : nxt' # None /\ d < c => d < nxt'
    <3> TAKE d \in Cells
    <3>1. d \in Nat
      BY CellFacts
    <3>2. nxt' # None => nxt' \in Nat /\ nxt' > c
      BY <1>3, <1>5, CellFacts
    <3> QED BY <1>4, <3>1, <3>2
  <2> HIDE DEF gone
  <2>4. \A d \in Gone : d \in gone
    BY <1>4, <2>1, <2>2, <2>3
  <2>5. c \in gone
    BY <1>4, <1>5, <2>2
  <2> QED BY <2>4, <2>5
<1> HIDE DEF gone
<1>7. /\ k \in Heaps /\ k.type = heap.type /\ k.refcnt = heap.refcnt /\ k.parts = heap.parts
      /\ k.live = heap.live /\ k.table = heap.table \ {c}
  BY <1>3, UnlistedIs
<1>8. /\ cs \in Seq(Pointers) /\ \A i \in DOMAIN cs : cs[i] # None => cs[i] <= c
      /\ \A d : Times(cs, d) = IF d = c THEN 1 ELSE 0
  BY <1>4, OneCell
<1>9. \A d \in Cells : Plus(Outside', cs)[d] = Outside[d] + (IF c = d THEN 1 ELSE 0)
  <2> TAKE d \in Cells
  <2>1. Outside'[d] = Outside[d]
    BY <1>1, OutsideIs DEF OutsideOf
  <2>2. Plus(Outside', cs)[d] = Outside'[d] + (IF c = d THEN 1 ELSE 0)
    BY <1>8 DEF Plus
  <2> QED BY <2>1, <2>2
<1>10. heap' = DecrefAll(k, cs) /\ th = stolen'
  BY <1>1
<1> HIDE DEF k, cs, th, c
<1>11. HeapGood(k)
  <2>1. \A d \in Cells : PartsGood(k, d)
    BY <1>3, <1>7 DEF HeapGood, PartsGood, Named
  <2> QED BY <1>3, <1>7, <2>1 DEF HeapGood, Named, IsBase
<1>12. Counts(k, Plus(Outside', cs))
  <2>1. SUFFICES ASSUME NEW d \in heap.live PROVE k.refcnt[d] = Plus(Outside', cs)[d] + Inside(k, d)
    BY <1>7 DEF Counts
  <2>2. d \in Cells
    BY <1>3, HeapFields
  <2>3. heap.refcnt[d] = Outside[d] + Inside(heap, d)
    BY <1>3 DEF Balanced, Counts
  <2>4. LinksTo(k, d) = LinksTo(heap, d)
    BY <1>7, SameLinks
  <2>5. /\ Inside(k, d) = Cardinality(LinksTo(k, d)) + (IF d \in k.table THEN 1 ELSE 0)
                          + (IF IsBase(k, d) THEN 1 ELSE 0)
        /\ Inside(heap, d) = Cardinality(LinksTo(heap, d)) + (IF d \in heap.table THEN 1 ELSE 0)
                             + (IF IsBase(heap, d) THEN 1 ELSE 0)
    BY InsideIs
  <2>6. Cardinality(LinksTo(heap, d)) \in Nat /\ Outside[d] \in Int
    BY <1>3, <2>2, HeapFields, LinksFinite
  <2>7. /\ d \in k.table <=> d \in heap.table /\ d # c
        /\ IsBase(k, d) <=> IsBase(heap, d)
    BY <1>7 DEF IsBase
  <2>8. Plus(Outside', cs)[d] = Outside[d] + (IF c = d THEN 1 ELSE 0)
    BY <1>9, <2>2
  <2>9. Inside(heap, d) = Inside(k, d) + (IF c = d THEN 1 ELSE 0)
    BY <1>2, <2>4, <2>5, <2>6, <2>7
  <2>10. Inside(k, d) \in Nat
    BY <1>7, InsideIsNat
  <2> QED BY <1>7, <2>3, <2>6, <2>8, <2>9, <2>10
<1>13. Balanced(k, Plus(Outside', cs), th, gone)
  <2>1. k.live \subseteq k.table \cup gone
    BY <1>3, <1>6, <1>7 DEF Balanced
  <2>2. \A d \in Cells : Named(k, d) => Safe(k, th, gone, d)
    BY <1>1, <1>3, <1>6, <1>7 DEF Balanced, Named, Safe
  <2>3. \A d \in k.live : \A i \in DOMAIN k.parts[d] : Safe(k, th, {}, k.parts[d][i])
    BY <1>1, <1>3, <1>7 DEF Balanced, Safe
  <2> QED BY <1>11, <1>12, <2>1, <2>2, <2>3 DEF Balanced
<1>14. Tally(k, th) /\ Tally(k, leaked') /\ th \in [Cells -> Nat] /\ leaked' \in [Cells -> Nat]
  BY <1>1, <1>3, <1>7 DEF Tally, Named
<1>15. /\ Balanced(heap', Outside', th, gone) /\ Released(k, heap', th, gone, c)
       /\ Later(k, heap', th, gone)
  <2>1. stack' \in Seq(Items)
    BY <1>1, <1>2, EmptyStack
  <2> QED BY <1>4, <1>8, <1>10, <1>13, <1>14, <2>1, DecrefStep
<1>16. Balanced(heap, Outside, stolen, Gone)'
  BY <1>15 DEF gone, th, Balanced, HeapGood, Heaps, Counts, Safe, Named, PartsGood, Inside, Links, IsBase
<1>17. Tally(heap, stolen)' /\ Tally(heap, leaked)'
  <2>1. Tally(heap', th) /\ Tally(heap', leaked')
    BY <1>14, <1>15, TallyLater
  <2> QED BY <2>1 DEF th, Tally, Named
<1>18. Kept'
  <2>1. KeptGood(heap', kept', th) /\ ItemsGood(heap', stack', th)
    BY <1>1, <1>2, <1>3, Nobody
  <2> QED BY <2>1 DEF th, Kept, KeptGood, ItemsGood, ItemGood, Items, Named, Safe
<1>19. Finishing'
  <2>1. heap'.table = k.table \cap heap'.live /\ \A d \in k.live \ heap'.live : d <= c
    BY <1>15 DEF Released
  <2>2. nxt' # None => nxt' \in heap'.table
    <3>1. SUFFICES ASSUME nxt' # None PROVE nxt' \in heap'.table
      OBVIOUS
    <3>2. nxt' \in heap.table /\ nxt' > c /\ nxt' \in Nat
      BY <1>3, <1>5, <3>1, CellFacts
    <3>3. nxt' \in k.table /\ nxt' \in k.live
      BY <1>3, <1>4, <1>7, <3>2 DEF HeapGood
    <3> QED BY <1>4, <2>1, <3>2, <3>3
  <2>3. \A d \in heap'.table : nxt' # None /\ nxt' <= d
    <3> TAKE d \in heap'.table
    <3>1. d \in heap.table /\ d # c /\ d \in Nat
      BY <1>3, <1>7, <2>1, CellFacts
    <3>2. c <= d
      BY <1>2, <3>1
    <3>3. c < d /\ ~ d <= c
      BY <1>4, <3>1, <3>2
    <3> QED BY <1>4, <1>5, <3>1, <3>3
  <2>4. phase' = "fini" /\ stack' = <<>> /\ \A u \in Users : kept'[u] = None
    BY <1>1, <1>2
  <2> QED BY <2>2, <2>3, <2>4 DEF Finishing, Finished, Free
<1> QED BY <1>16, <1>17, <1>18, <1>19 DEF Inductive

LEMMA StillKeeps ==
  ASSUME Inductive, heap' = heap, kept' = kept, stack' = stack, stolen' = stolen, nxt' = nxt,
         leaked' = leaked, phase' = phase \/ (~ BaseFreed /\ FiniEnd)
  PROVE  Inductive'
<1>1. Outside' = Outside
  BY OutsideIs DEF OutsideOf
<1>2. Gone' = Gone
  BY DEF Gone, FiniEnd
<1>3. Balanced(heap, Outside, stolen, Gone)'
  <2>1. Balanced(heap', Outside', stolen', Gone')
    BY <1>1, <1>2 DEF Inductive
  <2> QED BY <2>1
          DEF Balanced, HeapGood, Heaps, Counts, Safe, Named, PartsGood, Inside, Links, IsBase
<1>4. Tally(heap, stolen)' /\ Tally(heap, leaked)' /\ Kept'
  BY DEF Inductive, Tally, Kept, Named, Safe
<1>5. Finishing'
  <2>1. (BaseFreed' <=> BaseFreed) /\ (BasesCounted' <=> BasesCounted)
    BY DEF BaseFreed, BasesCounted, IsBase
  <2>2. CASE phase' = phase
    BY <2>1, <2>2 DEF Inductive, Finishing, Finished, Free
  <2>3. CASE ~ BaseFreed /\ FiniEnd
    BY <2>1, <2>3 DEF Inductive, Finishing, Finished, Free, FiniEnd
  <2> QED BY <2>2, <2>3
<1> QED BY <1>3, <1>4, <1>5 DEF Inductive

-----------------------------------------------------------------------------
(* The beginning *)

LEMMA BasesListed ==
  ASSUME NEW bases, bases = SetToSeq(BaseTypes), NEW n, n = Cardinality(BaseTypes)
  PROVE  /\ n \in Nat /\ Len(bases) = n /\ 1 .. n \subseteq Cells
         /\ \A c \in 1 .. n : bases[c] \in BaseTypes
         /\ \A c, d \in 1 .. n : bases[c] = bases[d] => c = d
         /\ \A t \in BaseTypes : \E c \in 1 .. n : bases[c] = t
<1>1. IsFiniteSet(BaseTypes) /\ n <= MaxCells /\ MaxCells \in Nat
  BY TypeDescAssumption
<1>2. n \in Nat /\ ExistsBijection(1 .. n, BaseTypes)
  BY <1>1, FS_CardinalityType
<1>3. \E f \in [1 .. n -> BaseTypes] : IsInjective(f)
  BY <1>2 DEF ExistsBijection, Bijection, Injection
<1>4. bases \in [1 .. n -> BaseTypes] /\ IsInjective(bases)
  BY <1>3, Zenon DEF SetToSeq
<1>5. bases \in Injection(1 .. n, BaseTypes)
  BY <1>4 DEF Injection
<1>6. Cardinality(1 .. n) = n
  BY <1>2, FS_Interval
<1>7. bases \in Surjection(1 .. n, BaseTypes)
  BY <1>1, <1>5, <1>6, FS_Injection
<1>8. \A t \in BaseTypes : \E c \in 1 .. n : bases[c] = t
  BY <1>7 DEF Surjection
<1>9. Len(bases) = n
  BY <1>2, <1>4
<1>10. 1 .. n \subseteq Cells
  BY <1>1, <1>2 DEF Cells
<1> QED BY <1>2, <1>4, <1>8, <1>9, <1>10 DEF IsInjective

LEMMA InitHolds == Init => Inductive
<1> SUFFICES ASSUME Init PROVE Inductive
  OBVIOUS
<1> DEFINE bases == SetToSeq(BaseTypes)
           n == Cardinality(BaseTypes)
           type == [c \in Cells |-> IF c \in 1 .. n THEN bases[c] ELSE None]
           refcnt == [c \in Cells |-> IF c \in 1 .. n THEN 2 ELSE 0]
           parts == [c \in Cells |-> <<>>]
<1>1. /\ n \in Nat /\ Len(bases) = n /\ 1 .. n \subseteq Cells
      /\ \A c \in 1 .. n : bases[c] \in BaseTypes
      /\ \A c, d \in 1 .. n : bases[c] = bases[d] => c = d
      /\ \A t \in BaseTypes : \E c \in 1 .. n : bases[c] = t
  BY BasesListed
<1>2. /\ heap = [type |-> type, refcnt |-> refcnt, parts |-> parts, live |-> 1 .. n, table |-> 1 .. n]
      /\ kept = [u \in Users |-> None] /\ stack = <<>> /\ phase = "run" /\ nxt = None
      /\ stolen = [c \in Cells |-> 0] /\ leaked = [c \in Cells |-> 0]
  BY <1>1 DEF Init
<1> HIDE DEF bases, n
<1>3. \A c \in Cells : heap.type[c] = IF c \in 1 .. n THEN bases[c] ELSE None
  BY <1>2
<1>4. \A c \in Cells : heap.refcnt[c] = IF c \in 1 .. n THEN 2 ELSE 0
  BY <1>2
<1>5. \A c \in Cells : heap.parts[c] = <<>>
  BY <1>2
<1>6. heap.live = 1 .. n /\ heap.table = 1 .. n
  BY <1>2
<1>7. heap \in Heaps
  <2>1. type \in [Cells -> Types \cup {None}]
    BY <1>1, TypeDescAssumption
  <2>2. refcnt \in [Cells -> Int] /\ parts \in [Cells -> Seq(Cells)]
    OBVIOUS
  <2> HIDE DEF type, refcnt, parts
  <2> QED BY <1>1, <1>2, <2>1, <2>2 DEF Heaps
<1> HIDE DEF type, refcnt, parts
<1>8. \A c \in 1 .. n : c \in Cells /\ heap.type[c] \in BaseTypes /\ heap.type[c] \in Types /\ heap.type[c] # None
  BY <1>1, <1>3, TypeDescAssumption
<1>9. \A c \in Cells : Named(heap, c) <=> c \in 1 .. n
  BY <1>3, <1>8 DEF Named
<1>10. HeapGood(heap)
  <2>1. \A c \in heap.live : Named(heap, c) /\ heap.refcnt[c] > 0
    BY <1>4, <1>6, <1>8, <1>9
  <2>2. \A c, d \in heap.live : heap.type[c] = heap.type[d] => c = d
    BY <1>1, <1>3, <1>6, <1>8
  <2>3. \A c, d \in Cells : Named(heap, c) /\ ~ Named(heap, d) => c < d
    BY <1>1, <1>9, TypeDescAssumption DEF Cells
  <2>4. ASSUME NEW c \in Cells PROVE PartsGood(heap, c)
    <3>1. heap.parts[c] = <<>> /\ Len(heap.parts[c]) = 0 /\ DOMAIN heap.parts[c] = {}
      BY <1>5
    <3>2. Named(heap, c) => Kind(heap.type[c]) = "base"
      BY <1>8, <1>9, TypeDescAssumption
    <3>3. Named(heap, c) => PartsOf(heap.type[c]) = <<>>
      BY <3>2 DEF PartsOf
    <3>4. Named(heap, c) => Len(PartsOf(heap.type[c])) = 0
      BY <3>3
    <3> QED BY <3>1, <3>4 DEF PartsGood
  <2>5. \A t \in BaseTypes : \E c \in heap.live : heap.type[c] = t
    BY <1>1, <1>3, <1>6, <1>8
  <2> QED BY <1>6, <1>7, <2>1, <2>2, <2>3, <2>4, <2>5 DEF HeapGood
<1>11. /\ Tally(heap, stolen) /\ Tally(heap, leaked) /\ KeptGood(heap, kept, stolen)
       /\ ItemsGood(heap, stack, stolen)
       /\ \A c \in Cells : Outside[c] = 0
  <2>1. Tally(heap, stolen) /\ Tally(heap, leaked)
    BY <1>2 DEF Tally
  <2>2. KeptGood(heap, kept, stolen) /\ ItemsGood(heap, stack, stolen)
    BY <1>2, Nobody DEF Pointers
  <2>3. ASSUME NEW c \in Cells PROVE Outside[c] = 0
    <3>1. {u \in Users : kept[u] = c} = {}
      BY <1>2, CellFacts
    <3>2. KeptBy(kept, c) = 0 /\ ListedIn(stack, c) = 0 /\ stolen[c] = 0 /\ leaked[c] = 0
      BY <1>2, <3>1, EmptyStack, FS_EmptySet DEF KeptBy
    <3> QED BY <3>2, OutsideIs DEF OutsideOf
  <2> QED BY <2>1, <2>2, <2>3
<1>12. Counts(heap, Outside)
  <2>1. SUFFICES ASSUME NEW c \in heap.live PROVE heap.refcnt[c] = Outside[c] + Inside(heap, c)
    BY DEF Counts
  <2>2. c \in Cells /\ c \in 1 .. n /\ c \in heap.table /\ IsBase(heap, c)
    BY <1>6, <1>8 DEF IsBase
  <2>3. LinksTo(heap, c) = {}
    <3>1. ASSUME NEW l \in Links(heap) PROVE FALSE
      <4>1. PICK p \in heap.live : \E i \in DOMAIN heap.parts[p] : l = <<p, i>>
        BY <3>1, LinkIs
      <4>2. heap.parts[p] = <<>>
        BY <1>5, <1>6, <1>8
      <4> QED BY <4>1, <4>2
    <3> QED BY <3>1 DEF LinksTo
  <2>4. Cardinality(LinksTo(heap, c)) = 0
    BY <2>3, FS_EmptySet
  <2>5. Inside(heap, c) = 0 + 1 + 1
    BY <2>2, <2>4, InsideIs
  <2> QED BY <1>4, <1>11, <2>2, <2>5
<1>13. Balanced(heap, Outside, stolen, Gone)
  <2>1. \A c \in Cells : Named(heap, c) => Safe(heap, stolen, Gone, c)
    BY <1>6, <1>9 DEF Safe
  <2>2. \A c \in heap.live : \A i \in DOMAIN heap.parts[c] : FALSE
    BY <1>5, <1>6, <1>8
  <2> QED BY <1>6, <1>10, <1>12, <2>1, <2>2 DEF Balanced
<1>14. Kept
  BY <1>11 DEF Kept, KeptGood, ItemsGood, ItemGood, Items
<1>15. Finishing
  BY <1>2 DEF Finishing, Finished
<1> QED BY <1>11, <1>13, <1>14, <1>15 DEF Inductive

-----------------------------------------------------------------------------
(* The invariant *)

LEMMA NextKeeps == Inductive /\ [Next]_vars => Inductive'
<1> SUFFICES ASSUME Inductive, [Next]_vars PROVE Inductive'
  OBVIOUS
<1>1. CASE ReadType
  <2>1. ASSUME NEW t \in Types, PrimitiveType(t) \/ CompoundType(t) \/ FunctionType(t)
        PROVE  Inductive'
    BY <2>1, PrimitiveTypeKeeps, CompoundTypeKeeps, FunctionTypeKeeps
  <2>2. CASE NullType \/ ListType \/ NullFunctionType
    BY <2>2, NullTypeKeeps, ListTypeKeeps, NullFunctionTypeKeeps
  <2> QED BY <1>1, <2>1, <2>2 DEF ReadType
<1>2. CASE SyntaxError
  <2>1. CASE ListError \/ ListLost \/ TypeListError \/ StatementError
    BY <2>1, ListErrorKeeps, ListLostKeeps, TypeListErrorKeeps, StatementErrorKeeps
  <2>2. ASSUME NEW u \in Users, UserLost(u) PROVE Inductive'
    BY <2>2, UserLostKeeps
  <2> QED BY <1>2, <2>1, <2>2 DEF SyntaxError
<1>3. CASE UseType
  <2>1. ASSUME NEW u \in Users, Declare(u) \/ ArrayExpr(u) \/ Discard(u) PROVE Inductive'
    BY <2>1, DeclareKeeps, ArrayExprKeeps, DiscardKeeps
  <2>2. ASSUME NEW u \in Users, NEW v \in Users, Share(u, v) PROVE Inductive'
    BY <2>2, ShareKeeps
  <2> QED BY <1>3, <2>1, <2>2 DEF UseType
<1>4. CASE FiniBegin \/ FiniVisit
  BY <1>4, FiniBeginKeeps, FiniVisitKeeps
<1>5. CASE ~ BaseFreed /\ FiniEnd
  BY <1>5, StillKeeps DEF FiniEnd
<1>6. CASE Ended \/ UNCHANGED vars
  BY <1>6, StillKeeps DEF Ended, vars
<1> QED BY <1>1, <1>2, <1>3, <1>4, <1>5, <1>6 DEF Next

(* Every reachable heap is balanced: each descriptor counts exactly the    *)
(* references there are to it, whatever the sources name, share and drop   *)
(* and wherever a syntax error is found, with those bison popped and less  *)
(* the borrowed ones that were released; and none is freed that is         *)
(* referred to unless a borrowed reference to it was released              *)
(* (TYPE_INCREF, TYPE_DECREF and TypeDesc_Free).                           *)
THEOREM InvariantHolds == Spec => []Inductive
<1>1. Init => Inductive
  BY InitHolds
<1>2. Inductive /\ [Next]_vars => Inductive'
  BY NextKeeps
<1> QED BY <1>1, <1>2, PTL DEF Spec

LEMMA IsCounted == Inductive => Counted
<1> SUFFICES ASSUME Inductive PROVE Counted
  OBVIOUS
<1>1. /\ Balanced(heap, Outside, stolen, Gone) /\ HeapGood(heap) /\ heap \in Heaps
      /\ Outside \in [Cells -> Int] /\ stolen \in [Cells -> Nat] /\ leaked \in [Cells -> Nat]
      /\ kept \in [Users -> Pointers] /\ stack \in Seq(Items)
      /\ heap.live \subseteq Cells /\ heap.table \subseteq Cells
  BY Facts, HeapFields
<1>2. TypeOK
  BY <1>1 DEF TypeOK, HeapGood, Heaps, Named, Items, Pointers, Inductive, Finishing
<1>3. RefcntExact
  <2>1. SUFFICES ASSUME NEW c \in heap.live 
                 PROVE  heap.refcnt[c] + stolen[c] = References(c) + leaked[c]
    BY DEF RefcntExact
  <2>2. c \in Cells
    BY <1>1
  <2>3. heap.refcnt[c] = Outside[c] + Inside(heap, c)
    BY <1>1 DEF Balanced, Counts
  <2>4. Outside[c] = Held(c) + Listed(c) + leaked[c] - stolen[c]
    BY <2>2 DEF Outside
  <2>5. Held(c) \in Nat /\ Listed(c) \in Nat
    <3>1. KeptBy(kept, c) \in Nat /\ ListedIn(stack, c) \in Nat
      BY <1>1, KeptIsNat, ListedIsNat
    <3>2. Held(c) = KeptBy(kept, c) /\ Listed(c) = ListedIn(stack, c)
      BY DEF Held, Listed, KeptBy, ListedIn
    <3> QED BY <3>1, <3>2
  <2>6. Inside(heap, c) \in Nat /\ stolen[c] \in Nat /\ leaked[c] \in Nat
    BY <1>1, <2>2, InsideIsNat
  <2> QED BY <2>3, <2>4, <2>5, <2>6 DEF References
<1>4. NoDangling
  <2>1. \A u \in Users : kept[u] # None => kept[u] \in heap.live \/ stolen[kept[u]] > 0
    BY DEF Inductive, Kept, Safe
  <2>2. \A i \in DOMAIN stack : stack[i].cell # None =>
          stack[i].cell \in heap.live \/ stolen[stack[i].cell] > 0
    BY DEF Inductive, Kept, Safe
  <2>3. phase = "run" => \A c \in Cells : heap.type[c] # None => c \in heap.live \/ stolen[c] > 0
    BY Facts DEF Balanced, Named, Safe
  <2>4. \A c \in heap.live : \A d \in Range(heap.parts[c]) : d \in heap.live \/ stolen[d] > 0
    BY <1>1 DEF Balanced, Safe, Range
  <2>5. nxt # None => nxt \in heap.table
    BY DEF Inductive, Finishing
  <2> QED BY <2>1, <2>2, <2>3, <2>4, <2>5 DEF NoDangling
<1> QED BY <1>2, <1>3, <1>4 DEF Counted

(* Reference counts are exact but for what was lost in a syntax error or   *)
(* released without being owned, and whatever is kept, read or built upon  *)
(* is live unless a borrowed reference to it was released (TypeDesc_Get_*, *)
(* TYPE_INCREF, TYPE_DECREF, Fini_TypeDesc).                               *)
THEOREM CountedHolds == Spec => []Counted
BY InvariantHolds, IsCounted, PTL

LEMMA IsInterned == Inductive => InternedOnce
BY Facts DEF HeapGood, InternedOnce

(* The table never holds a freed descriptor, and there is one descriptor   *)
(* of a type (FindTypeDesc and the TypeDesc_Get_* functions).              *)
THEOREM InternedOnceHolds == Spec => []InternedOnce
BY InvariantHolds, IsInterned, PTL

(* A descriptor's count once nobody keeps one.                             *)
LEMMA CountAtEnd ==
  ASSUME Inductive, stack = <<>>, heap.table = {}, \A u \in Users : kept[u] = None,
         NEW c \in heap.live
  PROVE  /\ heap.refcnt[c] = Cardinality(LinksTo(heap, c)) + (IF IsBase(heap, c) THEN 1 ELSE 0)
                             + leaked[c] - stolen[c]
         /\ Cardinality(LinksTo(heap, c)) \in Nat /\ leaked[c] \in Nat /\ stolen[c] \in Nat
<1>1. /\ Balanced(heap, Outside, stolen, Gone) /\ heap.live \subseteq Cells
      /\ heap.parts \in [Cells -> Seq(Cells)]
  BY Facts, HeapFields
<1>2. c \in Cells /\ heap.refcnt[c] = Outside[c] + Inside(heap, c)
  BY <1>1 DEF Balanced, Counts
<1>3. {u \in Users : kept[u] = c} = {}
  BY <1>2, CellFacts
<1>4. KeptBy(kept, c) = 0 /\ ListedIn(stack, c) = 0
  BY <1>2, <1>3, EmptyStack, FS_EmptySet DEF KeptBy
<1>5. Outside[c] = leaked[c] - stolen[c] /\ leaked[c] \in Nat /\ stolen[c] \in Nat
  <2>1. /\ Outside[c] = KeptBy(kept, c) + ListedIn(stack, c) + leaked[c] - stolen[c]
        /\ leaked[c] \in Nat /\ stolen[c] \in Nat
    BY <1>2, OutsideAt
  <2> QED BY <1>4, <2>1
<1>6. Cardinality(LinksTo(heap, c)) \in Nat
  BY <1>1, LinksFinite
<1>7. Inside(heap, c) = Cardinality(LinksTo(heap, c)) + (IF IsBase(heap, c) THEN 1 ELSE 0)
  BY <1>6, InsideIs
<1> QED BY <1>2, <1>5, <1>6, <1>7

(* A base type has no parts, so a descriptor that is a part is one of a    *)
(* younger descriptor of another type.                                     *)
LEMMA PartOfYounger ==
  ASSUME Inductive, NEW c, Cardinality(LinksTo(heap, c)) # 0
  PROVE  \E p \in heap.live : ~ IsBase(heap, p) /\ c < p
<1>1. HeapGood(heap) /\ heap.live \subseteq Cells
  BY Facts, HeapFields
<1>2. \A p \in heap.live : IsBase(heap, p) => heap.parts[p] = <<>>
  <2> TAKE p \in heap.live
  <2>1. SUFFICES ASSUME IsBase(heap, p) PROVE heap.parts[p] = <<>>
    OBVIOUS
  <2>2. p \in Cells /\ PartsGood(heap, p) /\ Named(heap, p) /\ heap.parts[p] \in Seq(Cells)
    BY <1>1, HeapFields DEF HeapGood
  <2>3. PartsOf(heap.type[p]) = <<>>
    BY <2>1, TypeDescAssumption DEF IsBase, PartsOf
  <2>4. Len(heap.parts[p]) = 0
    BY <2>2, <2>3 DEF PartsGood
  <2> QED BY <2>2, <2>4
<1>3. PICK l \in LinksTo(heap, c) : TRUE
  BY FS_EmptySet
<1>4. l \in Links(heap) /\ heap.parts[l[1]][l[2]] = c
  BY DEF LinksTo
<1>5. PICK p \in heap.live : \E i \in DOMAIN heap.parts[p] : l = <<p, i>>
  BY <1>4, LinkIs
<1>6. PICK i \in DOMAIN heap.parts[p] : l = <<p, i>>
  BY <1>5
<1>7. PartsGood(heap, p)
  BY <1>1 DEF HeapGood
<1>8. heap.parts[p][i] < p /\ heap.parts[p][i] = c
  BY <1>4, <1>6, <1>7 DEF PartsGood
<1>9. heap.parts[p] # <<>>
  BY <1>6
<1> QED BY <1>2, <1>8, <1>9

(* If nothing was lost, the youngest descriptor would be one that nothing  *)
(* refers to, were it not that of a primitive type.                        *)
LEMMA OnlyBases ==
  ASSUME Inductive, stack = <<>>, heap.table = {}, \A u \in Users : kept[u] = None,
         \A c \in Cells : leaked[c] = 0
  PROVE  \A c \in heap.live : IsBase(heap, c)
<1>1. HeapGood(heap) /\ heap.live \subseteq Cells /\ heap.refcnt \in [Cells -> Int]
  BY Facts, HeapFields
<1> DEFINE rest == {m \in Nat : \E c \in heap.live : ~ IsBase(heap, c) /\ m = MaxCells - c}
<1>2. SUFFICES ASSUME NEW b \in heap.live, ~ IsBase(heap, b) PROVE FALSE
  OBVIOUS
<1>3. \A c \in heap.live : MaxCells - c \in Nat /\ c \in Nat /\ MaxCells \in Nat
  BY <1>1, TypeDescAssumption DEF Cells
<1>4. rest \in SUBSET Nat /\ rest # {}
  BY <1>2, <1>3
<1>5. PICK m \in rest : \A k \in rest : m <= k
  <2> HIDE DEF rest
  <2> QED BY <1>4, Least
<1>6. PICK c \in heap.live : ~ IsBase(heap, c) /\ m = MaxCells - c
  OBVIOUS
<1>7. c \in Cells /\ heap.refcnt[c] \in Int /\ heap.refcnt[c] > 0 /\ leaked[c] = 0
  BY <1>1, <1>6 DEF HeapGood
<1>8. /\ heap.refcnt[c] = Cardinality(LinksTo(heap, c)) + 0 + leaked[c] - stolen[c]
      /\ Cardinality(LinksTo(heap, c)) \in Nat /\ stolen[c] \in Nat
  BY <1>6, CountAtEnd
<1>9. Cardinality(LinksTo(heap, c)) # 0
  <2> DEFINE links == Cardinality(LinksTo(heap, c))
             lost == leaked[c]
             taken == stolen[c]
             count == heap.refcnt[c]
  <2>1. count = links + 0 + lost - taken /\ count > 0 /\ lost = 0 /\ links \in Nat /\ taken \in Nat
    BY <1>7, <1>8
  <2> HIDE DEF links, lost, taken, count
  <2>2. links # 0
    BY <2>1
  <2> QED BY <2>2 DEF links
<1>10. PICK p \in heap.live : ~ IsBase(heap, p) /\ c < p
  BY <1>9, PartOfYounger
<1>11. MaxCells - p \in rest
  BY <1>3, <1>10
<1>12. m <= MaxCells - p
  BY <1>5, <1>11
<1> HIDE DEF rest
<1> QED BY <1>3, <1>6, <1>10, <1>12

LEMMA IsClean == Inductive => FiniClean
<1> SUFFICES ASSUME Inductive PROVE FiniClean
  OBVIOUS
<1>1. /\ Balanced(heap, Outside, stolen, Gone) /\ heap \in Heaps
      /\ heap.live \subseteq Cells /\ heap.refcnt \in [Cells -> Int]
  BY Facts, HeapFields
<1>2. BaseFreed => \E c \in heap.live : IsBase(heap, c) /\ stolen[c] > 0
  <2>1. SUFFICES ASSUME NEW c \in heap.live, IsBase(heap, c), heap.refcnt[c] <= 0
                 PROVE  stolen[c] > 0
    BY DEF BaseFreed
  <2>2. c \in Cells /\ heap.refcnt[c] = Outside[c] + Inside(heap, c) /\ Inside(heap, c) \in Nat
    BY <1>1, InsideIsNat DEF Balanced, Counts
  <2>3. Outside[c] = KeptBy(kept, c) + ListedIn(stack, c) + leaked[c] - stolen[c]
    BY <2>2, OutsideAt
  <2>4. /\ KeptBy(kept, c) \in Nat /\ ListedIn(stack, c) \in Nat /\ leaked[c] \in Nat
        /\ stolen[c] \in Nat
    BY <2>2, OutsideAt
  <2>5. Inside(heap, c) > 0
    <3>1. Cardinality(LinksTo(heap, c)) \in Nat
      BY <1>1, HeapFields, LinksFinite
    <3> QED BY <2>1, <3>1, InsideIs
  <2> QED BY <2>1, <2>2, <2>3, <2>4, <2>5
<1>3. ASSUME Finished, \A c \in Cells : leaked[c] = 0
      PROVE  phase = "end" /\ \A c \in heap.live : IsBase(heap, c) /\ heap.refcnt[c] = 1
  <2>1. /\ stack = <<>> /\ heap.table = {} /\ (\A u \in Users : kept[u] = None)
        /\ ~ BaseFreed /\ (phase = "failed" => ~ BasesCounted)
    BY <1>3 DEF Inductive, Finishing, Finished, Free
  <2>2. \A c \in heap.live : IsBase(heap, c)
    BY <1>3, <2>1, OnlyBases
  <2>3. ASSUME NEW c \in heap.live PROVE heap.refcnt[c] = 1
    <3>1. Cardinality(LinksTo(heap, c)) = 0
      BY <2>2, PartOfYounger
    <3>2. heap.refcnt[c] = 0 + 1 + leaked[c] - stolen[c] /\ stolen[c] \in Nat
      BY <2>1, <2>2, <3>1, CountAtEnd
    <3>3. leaked[c] = 0 /\ ~ heap.refcnt[c] <= 0
      BY <1>1, <1>3, <2>1, <2>2 DEF BaseFreed
    <3> QED BY <3>2, <3>3
  <2>4. phase = "end"
    BY <1>3, <2>1, <2>3 DEF Finished, BasesCounted
  <2> QED BY <2>2, <2>3, <2>4
<1> QED BY <1>2, <1>3 DEF FiniClean

(* The assertions of TypeDesc_Free and check_basic_refcnt fail only where  *)
(* a syntax error or Parser_New_Array released or lost a reference: the    *)
(* first only for a primitive type to which a borrowed reference was       *)
(* released, the second only when a reference was lost.  When none was,    *)
(* just the primitive types are left after Fini_TypeDesc, with one         *)
(* reference each.                                                         *)
THEOREM FiniCleanHolds == Spec => []FiniClean
BY InvariantHolds, IsClean, PTL
=============================================================================
