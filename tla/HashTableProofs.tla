--------------------------- MODULE HashTableProofs ---------------------------
(***************************************************************************)
(* Proofs about the hash table, for any nodes, keys, hash values, numbers  *)
(* of buckets and load factor.                                             *)
(*                                                                         *)
(* Following pointers is described once, by sequences: Rings(r, p) says    *)
(* that the ring r links the nodes p in this order and every other node to *)
(* itself, Chained(c, size, F, S) that the chains c are the sequences F,   *)
(* which hold the nodes of S by their hash values.  Each list operation is *)
(* then an operation on these sequences (RingAppend, RingRemove, ChainAdd, *)
(* ChainRemove), growth an induction over the buckets of the old entries   *)
(* and the nodes of a chain (MoveChainIs, RehashIs), and an iteration a    *)
(* position in the sequence of the ring (Shows).  IInv puts them together: *)
(* TLC finds it true of the instance of HashTable_map.cfg, and every step  *)
(* preserves it and is a step of the map, or none (StepImplemented).       *)
(***************************************************************************)
EXTENDS HashTable, InductionFacts, SequenceTheorems, FiniteSetTheorems, TLAPS

-----------------------------------------------------------------------------
(* Sequences *)

Distinct(s) == \A i, j \in 1 .. Len(s) : s[i] = s[j] => i = j

LEMMA RemoveAtIs ==
  ASSUME NEW X, NEW s \in Seq(X), NEW i \in 1 .. Len(s)
  PROVE  /\ RemoveAt(s, i) \in Seq(X) /\ Len(RemoveAt(s, i)) = Len(s) - 1
         /\ \A j \in 1 .. Len(s) - 1 : RemoveAt(s, i)[j] = IF j < i THEN s[j] ELSE s[j + 1]
<1> DEFINE u == SubSeq(s, 1, i - 1)
           w == SubSeq(s, i + 1, Len(s))
<1>1. u \in Seq(X) /\ Len(u) = i - 1 /\ \A j \in 1 .. i - 1 : u[j] = s[j]
  BY SubSeqProperties
<1>2. w \in Seq(X) /\ Len(w) = Len(s) - i /\ \A j \in 1 .. Len(s) - i : w[j] = s[j + i]
  <2>1. CASE i = Len(s)
    BY <2>1
  <2>2. CASE i < Len(s)
    BY <2>2, SubSeqProperties
  <2> QED BY <2>1, <2>2
<1> HIDE DEF u, w
<1>3. /\ u \o w \in Seq(X) /\ Len(u \o w) = Len(s) - 1
      /\ \A j \in 1 .. Len(s) - 1 : (u \o w)[j] = IF j < i THEN s[j] ELSE s[j + 1]
  <2>1. /\ u \o w \in Seq(X) /\ Len(u \o w) = Len(u) + Len(w)
        /\ \A j \in 1 .. Len(u) + Len(w) : (u \o w)[j] = IF j <= Len(u) THEN u[j] ELSE w[j - Len(u)]
    BY <1>1, <1>2, ConcatProperties
  <2>2. Len(s) \in Nat
    OBVIOUS
  <2>3. ASSUME NEW j \in 1 .. Len(s) - 1 PROVE (u \o w)[j] = IF j < i THEN s[j] ELSE s[j + 1]
    <3>1. (u \o w)[j] = IF j <= i - 1 THEN u[j] ELSE w[j - (i - 1)]
      BY <1>1, <1>2, <2>1, <2>2
    <3>2. CASE j < i
      BY <1>1, <3>1, <3>2
    <3>3. CASE j >= i
      <4>0. ~ (j < i)
        BY <2>2, <3>3
      <4>1. j - (i - 1) \in 1 .. Len(s) - i /\ (j - (i - 1)) + i = j + 1
        BY <2>2, <3>3
      <4>2. w[j - (i - 1)] = s[j + 1]
        BY <1>2, <4>1
      <4>3. (u \o w)[j] = w[j - (i - 1)]
        BY <2>2, <3>1, <3>3
      <4> QED BY <4>0, <4>2, <4>3
    <3>4. j < i \/ j >= i
      BY <2>2
    <3> QED BY <3>2, <3>3, <3>4
  <2> QED BY <1>1, <1>2, <2>1, <2>2, <2>3
<1> QED BY <1>3 DEF RemoveAt, u, w

(* One element less, and only that one.                                    *)
LEMMA RemoveAtDistinct ==
  ASSUME NEW X, NEW s \in Seq(X), Distinct(s), NEW i \in 1 .. Len(s)
  PROVE  Distinct(RemoveAt(s, i)) /\ Range(RemoveAt(s, i)) = Range(s) \ {s[i]}
<1> DEFINE t == RemoveAt(s, i)
<1>1. /\ t \in Seq(X) /\ Len(t) = Len(s) - 1 /\ Len(s) \in Nat
      /\ \A j \in 1 .. Len(s) - 1 : t[j] = IF j < i THEN s[j] ELSE s[j + 1]
  <2>1. Len(s) \in Nat
    OBVIOUS
  <2> QED BY <2>1, RemoveAtIs
<1> HIDE DEF t
<1>2. Distinct(t)
  BY <1>1 DEF Distinct
<1>3. DOMAIN t = 1 .. Len(s) - 1 /\ DOMAIN s = 1 .. Len(s)
  BY <1>1
<1>4. ASSUME NEW x \in Range(t) PROVE x \in Range(s) /\ x # s[i]
  <2>1. PICK j \in 1 .. Len(s) - 1 : x = t[j]
    BY <1>3 DEF Range
  <2>2. PICK k \in 1 .. Len(s) : x = s[k] /\ k # i
    BY <1>1, <2>1
  <2> QED BY <1>3, <2>2 DEF Range, Distinct
<1>5. ASSUME NEW x \in Range(s), x # s[i] PROVE x \in Range(t)
  <2>1. PICK k \in 1 .. Len(s) : x = s[k] /\ k # i
    BY <1>3, <1>5 DEF Range
  <2>2. CASE k < i
    <3>1. k \in 1 .. Len(s) - 1 /\ t[k] = s[k]
      BY <1>1, <2>2
    <3> QED BY <1>3, <2>1, <3>1 DEF Range
  <2>3. CASE k > i
    <3>1. k - 1 \in 1 .. Len(s) - 1 /\ t[k - 1] = s[k]
      BY <1>1, <2>3
    <3> QED BY <1>3, <2>1, <3>1 DEF Range
  <2> QED BY <2>1, <2>2, <2>3
<1> QED BY <1>2, <1>4, <1>5 DEF t

LEMMA RangeIs ==
  ASSUME NEW X, NEW s \in Seq(X)
  PROVE  /\ \A x : x \in Range(s) <=> \E i \in 1 .. Len(s) : x = s[i]
         /\ \A i \in 1 .. Len(s) : s[i] \in Range(s) /\ s[i] \in X
         /\ Range(s) \subseteq X /\ Len(s) \in Nat
BY DEF Range

LEMMA AppendDistinct ==
  ASSUME NEW X, NEW s \in Seq(X), Distinct(s), NEW x \in X, x \notin Range(s)
  PROVE  /\ Append(s, x) \in Seq(X) /\ Len(Append(s, x)) = Len(s) + 1 /\ Append(s, x)[Len(s) + 1] = x
         /\ \A i \in 1 .. Len(s) : Append(s, x)[i] = s[i]
         /\ Distinct(Append(s, x)) /\ Range(Append(s, x)) = Range(s) \cup {x}
<1> DEFINE t == Append(s, x)
<1>1. /\ t \in Seq(X) /\ Len(t) = Len(s) + 1 /\ t[Len(s) + 1] = x /\ Len(s) \in Nat
      /\ \A i \in 1 .. Len(s) : t[i] = s[i]
  OBVIOUS
<1> HIDE DEF t
<1>2. \A i \in 1 .. Len(s) : s[i] # x
  BY RangeIs
<1>3. Distinct(t)
  BY <1>1, <1>2 DEF Distinct
<1>4. Range(t) = Range(s) \cup {x}
  <2>1. \A y : y \in Range(t) <=> \E i \in 1 .. Len(s) + 1 : y = t[i]
    BY <1>1, RangeIs
  <2>2. \A y : y \in Range(s) <=> \E i \in 1 .. Len(s) : y = s[i]
    BY RangeIs
  <2>3. \A i \in 1 .. Len(s) + 1 : i \in 1 .. Len(s) \/ i = Len(s) + 1
    BY <1>1
  <2>4. \A i \in 1 .. Len(s) : i \in 1 .. Len(s) + 1
    BY <1>1
  <2>5. Len(s) + 1 \in 1 .. Len(s) + 1
    BY <1>1
  <2> QED BY <1>1, <2>1, <2>2, <2>3, <2>4, <2>5
<1> QED BY <1>1, <1>3, <1>4 DEF t

LEMMA ConsDistinct ==
  ASSUME NEW X, NEW s \in Seq(X), Distinct(s), NEW x \in X, x \notin Range(s)
  PROVE  /\ <<x>> \o s \in Seq(X) /\ Len(<<x>> \o s) = Len(s) + 1 /\ (<<x>> \o s)[1] = x
         /\ \A i \in 1 .. Len(s) : (<<x>> \o s)[i + 1] = s[i]
         /\ Distinct(<<x>> \o s) /\ Range(<<x>> \o s) = Range(s) \cup {x}
<1> DEFINE t == <<x>> \o s
<1>1. /\ t \in Seq(X) /\ Len(t) = Len(s) + 1 /\ Len(s) \in Nat /\ t[1] = x
      /\ \A i \in 1 .. Len(s) : t[i + 1] = s[i]
  OBVIOUS
<1> HIDE DEF t
<1>2. \A i \in 1 .. Len(s) : s[i] # x
  BY RangeIs
<1>3. \A i \in 1 .. Len(t) : i = 1 \/ (i - 1 \in 1 .. Len(s) /\ t[i] = s[i - 1])
  <2>1. ASSUME NEW i \in 1 .. Len(t), i # 1 PROVE i - 1 \in 1 .. Len(s) /\ t[i] = s[i - 1]
    <3>1. i - 1 \in 1 .. Len(s) /\ (i - 1) + 1 = i
      BY <1>1, <2>1
    <3> QED BY <1>1, <3>1
  <2> QED BY <2>1
<1>4. Distinct(t)
  <2> SUFFICES ASSUME NEW i \in 1 .. Len(t), NEW j \in 1 .. Len(t), t[i] = t[j] PROVE i = j
    BY DEF Distinct
  <2>1. CASE i = 1
    BY <1>1, <1>2, <1>3, <2>1
  <2>2. CASE j = 1
    BY <1>1, <1>2, <1>3, <2>2
  <2>3. CASE i # 1 /\ j # 1
    <3>1. i - 1 = j - 1
      BY <1>3, <2>3 DEF Distinct
    <3> QED BY <3>1, <1>1
  <2> QED BY <2>1, <2>2, <2>3
<1>5. Range(t) = Range(s) \cup {x}
  <2>1. \A y : y \in Range(t) <=> \E i \in 1 .. Len(t) : y = t[i]
    BY <1>1, RangeIs
  <2>2. \A y : y \in Range(s) <=> \E i \in 1 .. Len(s) : y = s[i]
    BY RangeIs
  <2>3. 1 \in 1 .. Len(t) /\ \A i \in 1 .. Len(s) : i + 1 \in 1 .. Len(t)
    BY <1>1
  <2> QED BY <1>1, <1>3, <2>1, <2>2, <2>3
<1> QED BY <1>1, <1>4, <1>5 DEF t

(* A sequence of different nodes is no longer than there are nodes.        *)
LEMMA LenBounded ==
  ASSUME NEW s \in Seq(Nodes), Distinct(s)
  PROVE  Len(s) <= Cardinality(Nodes) /\ Cardinality(Nodes) \in Nat
<1>1. IsFiniteSet(Nodes) /\ Cardinality(Nodes) \in Nat
  BY HashTableAssumption, FS_CardinalityType
<1>2. Len(s) \in Nat /\ s \in [1 .. Len(s) -> Nodes]
  OBVIOUS
<1>3. s \in Injection(1 .. Len(s), Nodes)
  BY <1>2 DEF Distinct, Injection, IsInjective
<1>4. Cardinality(1 .. Len(s)) <= Cardinality(Nodes)
  BY <1>1, <1>3, FS_Injection
<1>5. Cardinality(1 .. Len(s)) = Len(s)
  BY <1>2, FS_Interval
<1> QED BY <1>1, <1>4, <1>5

-----------------------------------------------------------------------------
(* Pointers *)

(* Following pointers that link a sequence of nodes gives that sequence.   *)
LEMMA FollowIs ==
  ASSUME NEW s \in Seq(Nodes), Distinct(s), NEW stop, stop \notin Nodes, NEW f, NEW x,
         x = IF Len(s) = 0 THEN stop ELSE s[1],
         \A i \in 1 .. Len(s) : f[s[i]] = IF i = Len(s) THEN stop ELSE s[i + 1]
  PROVE  Follow(f, x, stop) = s
<1> DEFINE C == Cardinality(Nodes)
           Sequel(at) == [k \in 0 .. C |-> IF k = 0 THEN x ELSE IF at[k - 1] = stop THEN stop ELSE f[at[k - 1]]]
           a == CHOOSE at : at = Sequel(at)
           g == [k \in 0 .. C |-> IF k < Len(s) THEN s[k + 1] ELSE stop]
<1>1. Len(s) \in Nat /\ C \in Nat /\ Len(s) <= C
  BY LenBounded
<1>2. ASSUME NEW k \in 1 .. Len(s) PROVE s[k] \in Nodes /\ s[k] # stop
  OBVIOUS
<1>3. g = Sequel(g)
  <2>1. ASSUME NEW k \in 0 .. C
        PROVE  g[k] = IF k = 0 THEN x ELSE IF g[k - 1] = stop THEN stop ELSE f[g[k - 1]]
    <3>1. CASE k = 0
      BY <1>1, <3>1
    <3>2. CASE k # 0 /\ k - 1 < Len(s)
      <4>1. k \in 1 .. Len(s) /\ k - 1 \in 0 .. C /\ (k - 1) + 1 = k
        BY <1>1, <3>2
      <4>2. g[k - 1] = s[k] /\ s[k] # stop
        BY <1>2, <3>2, <4>1
      <4>3. f[s[k]] = g[k]
        BY <1>1, <4>1
      <4> QED BY <3>2, <4>2, <4>3
    <3>3. CASE k # 0 /\ k - 1 >= Len(s)
      BY <1>1, <3>3
    <3> QED BY <1>1, <3>1, <3>2, <3>3
  <2> QED BY <2>1
<1>4. a = Sequel(a)
  <2> HIDE DEF g
  <2> QED BY <1>3
<1>5. \A k \in 0 .. C : a[k] = IF k = 0 THEN x ELSE IF a[k - 1] = stop THEN stop ELSE f[a[k - 1]]
  <2> TAKE k \in 0 .. C
  <2>1. Sequel(a)[k] = IF k = 0 THEN x ELSE IF a[k - 1] = stop THEN stop ELSE f[a[k - 1]]
    OBVIOUS
  <2> HIDE DEF a, Sequel
  <2> QED BY <1>4, <2>1
<1>6. \A k \in 0 .. C : g[k] = IF k = 0 THEN x ELSE IF g[k - 1] = stop THEN stop ELSE f[g[k - 1]]
  <2> TAKE k \in 0 .. C
  <2>1. Sequel(g)[k] = IF k = 0 THEN x ELSE IF g[k - 1] = stop THEN stop ELSE f[g[k - 1]]
    OBVIOUS
  <2> HIDE DEF g, Sequel
  <2> QED BY <1>3, <2>1
<1>7. \A k \in 0 .. C : a[k] = g[k]
  <2> DEFINE T == {k \in 0 .. C : a[k] = g[k]}
  <2> HIDE DEF a, g
  <2>1. 0 \in T
    BY <1>1, <1>5, <1>6
  <2>2. ASSUME NEW k \in 0 .. C - 1, k \in T PROVE k + 1 \in T
    <3>1. k + 1 \in 0 .. C /\ k + 1 # 0 /\ (k + 1) - 1 = k
      BY <1>1
    <3> QED BY <1>5, <1>6, <2>2, <3>1
  <2>3. \A k \in 0 .. C : k \in T
    <3> HIDE DEF T
    <3> QED BY <1>1, <2>1, <2>2, Induction
  <2> QED BY <2>3
<1>8. Follow(f, x, stop) = [k \in {j \in 1 .. C : a[j - 1] # stop} |-> a[k - 1]]
  BY DEF Follow
<1>9. {j \in 1 .. C : a[j - 1] # stop} = 1 .. Len(s)
  <2>1. ASSUME NEW j \in 1 .. C PROVE a[j - 1] # stop <=> j \in 1 .. Len(s)
    <3>1. j - 1 \in 0 .. C /\ a[j - 1] = g[j - 1]
      BY <1>1, <1>7
    <3>2. g[j - 1] = IF j - 1 < Len(s) THEN s[(j - 1) + 1] ELSE stop
      BY <3>1
    <3>3. (j - 1 < Len(s) <=> j \in 1 .. Len(s)) /\ (j - 1) + 1 = j
      BY <1>1
    <3> HIDE DEF a, g
    <3> QED BY <1>2, <3>1, <3>2, <3>3
  <2> HIDE DEF a
  <2> QED BY <1>1, <2>1
<1>10. ASSUME NEW k \in 1 .. Len(s) PROVE a[k - 1] = s[k]
  <2>1. k - 1 \in 0 .. C /\ k - 1 < Len(s) /\ (k - 1) + 1 = k
    BY <1>1
  <2>2. g[k - 1] = s[k]
    BY <2>1
  <2> HIDE DEF a, g
  <2> QED BY <1>7, <2>1, <2>2
<1>11. Follow(f, x, stop) = [k \in 1 .. Len(s) |-> s[k]]
  <2> HIDE DEF a, g, Sequel
  <2>1. [k \in {j \in 1 .. C : a[j - 1] # stop} |-> a[k - 1]] = [k \in 1 .. Len(s) |-> s[k]]
    BY <1>9, <1>10
  <2> QED BY <1>8, <2>1
<1> QED BY <1>11

-----------------------------------------------------------------------------
(* The ring *)

(* The ring r links the nodes of s, in this order, and every other node to *)
(* itself.                                                                 *)
Spot(s, i) == IF i \in 1 .. Len(s) THEN s[i] ELSE ListHead

Rings(r, s) ==
  /\ r \in [next : [Links -> Links], prev : [Links -> Links]]
  /\ s \in Seq(Nodes) /\ Distinct(s)
  /\ \A i \in 0 .. Len(s) : r.next[Spot(s, i)] = Spot(s, i + 1) /\ r.prev[Spot(s, i + 1)] = Spot(s, i)
  /\ \A n \in Nodes \ Range(s) : r.next[n] = n /\ r.prev[n] = n

LEMMA HeadIsNoNode == ListHead \notin Nodes /\ Null \notin Nodes /\ Null # ListHead /\ Null \notin Links
BY HashTableAssumption DEF Links

LEMMA SpotIs ==
  ASSUME NEW s \in Seq(Nodes)
  PROVE  /\ Len(s) \in Nat
         /\ Spot(s, 0) = ListHead /\ Spot(s, Len(s) + 1) = ListHead
         /\ \A i \in 1 .. Len(s) : Spot(s, i) = s[i] /\ s[i] \in Nodes /\ s[i] # ListHead
         /\ \A i \in Int : Spot(s, i) \in Links
BY HeadIsNoNode DEF Spot, Links

OrderOf(r) == Follow(r.next, r.next[ListHead], ListHead)

(* Order is what the ring links.                                           *)
LEMMA RingOrder ==
  ASSUME NEW r, NEW s, Rings(r, s)
  PROVE  OrderOf(r) = s
<1>1. s \in Seq(Nodes) /\ Distinct(s) /\ Len(s) \in Nat
  BY DEF Rings
<1>2. r.next[ListHead] = IF Len(s) = 0 THEN ListHead ELSE s[1]
  <2>1. r.next[Spot(s, 0)] = Spot(s, 1)
    BY <1>1 DEF Rings
  <2> QED BY <1>1, <2>1 DEF Spot
<1>3. ASSUME NEW i \in 1 .. Len(s) PROVE r.next[s[i]] = IF i = Len(s) THEN ListHead ELSE s[i + 1]
  <2>1. r.next[Spot(s, i)] = Spot(s, i + 1) /\ Spot(s, i) = s[i]
    BY <1>1, SpotIs DEF Rings
  <2>2. Spot(s, i + 1) = IF i = Len(s) THEN ListHead ELSE s[i + 1]
    BY <1>1 DEF Spot
  <2> QED BY <2>1, <2>2
<1>4. Follow(r.next, r.next[ListHead], ListHead) = s
  BY <1>1, <1>2, <1>3, HeadIsNoNode, FollowIs
<1> QED BY <1>4 DEF OrderOf

(* Two nodes of the ring that have the same place are the same.            *)
LEMMA SpotInjective ==
  ASSUME NEW s \in Seq(Nodes), Distinct(s), NEW i \in 0 .. Len(s), NEW j \in 0 .. Len(s)
  PROVE  /\ Spot(s, i) = Spot(s, j) => i = j
         /\ Spot(s, i + 1) = Spot(s, j + 1) => i = j
<1>1. Len(s) \in Nat /\ \A k \in 1 .. Len(s) : s[k] # ListHead
  BY SpotIs
<1> QED BY <1>1 DEF Spot, Distinct

LEMMA InitRings == Rings(InitRing, <<>>)
<1>1. <<>> \in Seq(Nodes) /\ Distinct(<<>>) /\ Range(<<>>) = {} /\ Len(<<>>) = 0
  BY DEF Distinct, Range
<1>2. InitRing \in [next : [Links -> Links], prev : [Links -> Links]]
  BY DEF InitRing
<1>3. \A x \in Links : InitRing.next[x] = x /\ InitRing.prev[x] = x
  BY DEF InitRing
<1>4. \A i \in Int : Spot(<<>>, i) = ListHead
  BY DEF Spot
<1> QED BY <1>1, <1>2, <1>3, <1>4 DEF Rings, Links

(* list_add_tail                                                           *)
LEMMA RingAppend ==
  ASSUME NEW r, NEW s, Rings(r, s), NEW n \in Nodes, n \notin Range(s)
  PROVE  Rings(ListAddTail(r, n), Append(s, n))
<1> DEFINE t == Append(s, n)
           L == Len(s)
           last == r.prev[ListHead]
           q == ListAddTail(r, n)
<1>1. s \in Seq(Nodes) /\ Distinct(s) /\ L \in Nat
  BY DEF Rings
<1>2. /\ t \in Seq(Nodes) /\ Len(t) = L + 1 /\ t[L + 1] = n /\ (\A i \in 1 .. L : t[i] = s[i])
      /\ Distinct(t) /\ Range(t) = Range(s) \cup {n}
  BY <1>1, AppendDistinct
<1> HIDE DEF t, L
<1>3. last = Spot(s, L) /\ last \in Links
  BY <1>1, SpotIs DEF Rings, L
<1>4. /\ q.next = [r.next EXCEPT ![n] = ListHead, ![last] = n]
      /\ q.prev = [r.prev EXCEPT ![n] = last, ![ListHead] = n]
      /\ q = [next |-> q.next, prev |-> q.prev]
  BY DEF ListAddTail
<1> HIDE DEF last, q
<1>5. n # ListHead /\ n \in Links /\ ListHead \in Links /\ Nodes \subseteq Links
  BY HeadIsNoNode DEF Links
<1>6. last # n
  BY <1>1, <1>3, <1>5, RangeIs DEF Spot, L
<1>7. /\ r.next \in [Links -> Links] /\ r.prev \in [Links -> Links]
      /\ q \in [next : [Links -> Links], prev : [Links -> Links]]
  <2>1. r.next \in [Links -> Links] /\ r.prev \in [Links -> Links]
    BY DEF Rings
  <2>2. q.next \in [Links -> Links] /\ q.prev \in [Links -> Links]
    BY <1>3, <1>4, <1>5, <2>1
  <2> QED BY <1>4, <2>1, <2>2
<1>8. \A x \in Links : /\ q.next[x] = IF x = last THEN n ELSE IF x = n THEN ListHead ELSE r.next[x]
                       /\ q.prev[x] = IF x = ListHead THEN n ELSE IF x = n THEN last ELSE r.prev[x]
  BY <1>3, <1>4, <1>5, <1>6, <1>7
<1>9. /\ \A i \in 0 .. L : Spot(t, i) = Spot(s, i)
      /\ Spot(t, L + 1) = n /\ Spot(t, L + 2) = ListHead
  BY <1>1, <1>2 DEF Spot, L
<1>10. \A i \in 0 .. L : /\ Spot(s, i) \in Links /\ Spot(s, i) # n
                         /\ r.next[Spot(s, i)] = Spot(s, i + 1) /\ r.prev[Spot(s, i + 1)] = Spot(s, i)
  BY <1>1, <1>5, SpotIs, RangeIs DEF Rings, Spot, L
<1>11. ASSUME NEW i \in 0 .. L + 1
       PROVE  q.next[Spot(t, i)] = Spot(t, i + 1) /\ q.prev[Spot(t, i + 1)] = Spot(t, i)
  <2>1. CASE i = L + 1
    <3>1. Spot(t, i) = n /\ Spot(t, i + 1) = ListHead
      BY <1>1, <1>9, <2>1
    <3> QED BY <1>5, <1>6, <1>8, <3>1
  <2>2. CASE i = L
    <3>1. Spot(t, i) = last /\ Spot(t, i + 1) = n
      BY <1>1, <1>3, <1>9, <2>2
    <3> QED BY <1>3, <1>5, <1>8, <3>1
  <2>3. CASE i < L
    <3>1. i \in 0 .. L - 1 /\ i \in 0 .. L /\ i + 1 \in 1 .. L /\ i + 1 \in 0 .. L /\ L \in 0 .. L /\ i # L
      BY <1>1, <2>3
    <3>2. Spot(t, i) = Spot(s, i) /\ Spot(t, i + 1) = Spot(s, i + 1)
      BY <1>9, <3>1
    <3>3. Spot(s, i) # last /\ Spot(s, i + 1) # ListHead
      BY <1>1, <1>3, <3>1, SpotInjective, SpotIs DEF L
    <3>4. Spot(s, i) \in Links /\ Spot(s, i + 1) \in Links /\ Spot(s, i) # n /\ Spot(s, i + 1) # n
      BY <1>10, <3>1
    <3> QED BY <1>8, <1>10, <3>1, <3>2, <3>3, <3>4
  <2> QED BY <1>1, <2>1, <2>2, <2>3
<1>12. ASSUME NEW m \in Nodes \ Range(t) PROVE q.next[m] = m /\ q.prev[m] = m
  <2>1. m \notin Range(s) /\ m # n /\ m # ListHead /\ m \in Links
    BY <1>2, <1>5, HeadIsNoNode
  <2>2. m # last
    BY <1>1, <1>3, <2>1, RangeIs DEF Spot, L
  <2> QED BY <1>8, <2>1, <2>2 DEF Rings
<1> QED BY <1>2, <1>7, <1>11, <1>12 DEF Rings, t, q

(* list_del                                                                *)
LEMMA RingRemove ==
  ASSUME NEW r, NEW s, Rings(r, s), NEW k \in 1 .. Len(s)
  PROVE  Rings(ListDel(r, s[k]), RemoveAt(s, k))
<1> DEFINE t == RemoveAt(s, k)
           L == Len(s)
           n == s[k]
           q == ListDel(r, n)
           before == Spot(s, k - 1)
           after == Spot(s, k + 1)
<1>1. s \in Seq(Nodes) /\ Distinct(s) /\ L \in Nat /\ n \in Nodes
  BY DEF Rings
<1>2. /\ t \in Seq(Nodes) /\ Len(t) = L - 1 /\ Distinct(t) /\ Range(t) = Range(s) \ {n}
      /\ \A j \in 1 .. L - 1 : t[j] = IF j < k THEN s[j] ELSE s[j + 1]
  <2>1. L \in Nat
    BY <1>1
  <2> QED BY <1>1, <2>1, RemoveAtIs, RemoveAtDistinct
<1> HIDE DEF t
<1>3. k \in Int /\ k - 1 \in 0 .. L /\ k \in 0 .. L /\ k \in 1 .. L
  BY <1>1
<1>4. /\ Spot(s, k) = n /\ r.next[n] = after /\ r.prev[n] = before
      /\ \A i \in 0 .. L : r.next[Spot(s, i)] = Spot(s, i + 1) /\ r.prev[Spot(s, i + 1)] = Spot(s, i)
  <2>1. Spot(s, k) = n
    BY <1>3 DEF Spot
  <2>2. \A i \in 0 .. L : r.next[Spot(s, i)] = Spot(s, i + 1) /\ r.prev[Spot(s, i + 1)] = Spot(s, i)
    BY DEF Rings
  <2>3. r.next[Spot(s, k)] = Spot(s, k + 1)
    BY <1>3, <2>2
  <2>4. r.prev[Spot(s, (k - 1) + 1)] = Spot(s, k - 1) /\ (k - 1) + 1 = k
    BY <1>3, <2>2
  <2> QED BY <2>1, <2>2, <2>3, <2>4
<1>5. /\ q.next = [r.next EXCEPT ![before] = after, ![n] = n]
      /\ q.prev = [r.prev EXCEPT ![after] = before, ![n] = n]
      /\ q = [next |-> q.next, prev |-> q.prev]
  BY <1>4 DEF ListDel
<1> HIDE DEF q
<1>6. before \in Links /\ after \in Links /\ n \in Links /\ n # ListHead
  BY <1>1, <1>3, SpotIs, HeadIsNoNode DEF Links
<1>7. before # n /\ after # n
  <2>1. k - 1 # k /\ k + 1 # k
    BY <1>3
  <2>2. before # n
    BY <1>1, <1>3, <1>4, <2>1, SpotInjective
  <2>3. after # n
    <3>1. after = Spot(s, k + 1) /\ n = Spot(s, (k - 1) + 1)
      BY <1>3, <1>4
    <3> QED BY <1>1, <1>3, <2>1, <3>1, SpotInjective
  <2> QED BY <2>2, <2>3
<1>8. /\ r.next \in [Links -> Links] /\ r.prev \in [Links -> Links]
      /\ q \in [next : [Links -> Links], prev : [Links -> Links]]
  <2>1. r.next \in [Links -> Links] /\ r.prev \in [Links -> Links]
    BY DEF Rings
  <2>2. q.next \in [Links -> Links] /\ q.prev \in [Links -> Links]
    BY <1>5, <1>6, <2>1
  <2> QED BY <1>5, <2>1, <2>2
<1>9. \A x \in Links : /\ q.next[x] = IF x = n THEN n ELSE IF x = before THEN after ELSE r.next[x]
                       /\ q.prev[x] = IF x = n THEN n ELSE IF x = after THEN before ELSE r.prev[x]
  BY <1>5, <1>6, <1>7, <1>8
<1>10. \A i \in 0 .. L : Spot(t, i) = IF i < k THEN Spot(s, i) ELSE Spot(s, i + 1)
  BY <1>1, <1>2, <1>3 DEF Spot
<1>11. ASSUME NEW i \in 0 .. L - 1
       PROVE  q.next[Spot(t, i)] = Spot(t, i + 1) /\ q.prev[Spot(t, i + 1)] = Spot(t, i)
  <2>1. i \in 0 .. L /\ i + 1 \in 0 .. L
    BY <1>1
  <2>2. CASE i = k - 1
    <3>1. Spot(t, i) = before
      BY <1>3, <1>10, <2>1, <2>2
    <3>2. Spot(t, i + 1) = after
      BY <1>3, <1>10, <2>1, <2>2
    <3> QED BY <1>6, <1>7, <1>9, <3>1, <3>2
  <2>3. CASE i # k - 1
    <3> DEFINE j == IF i < k THEN i ELSE i + 1
    <3>1. j \in 0 .. L /\ j # k - 1 /\ j # k /\ j + 1 \in 1 .. L + 1
      BY <1>1, <1>3, <2>1, <2>3
    <3>2. Spot(t, i) = Spot(s, j) /\ Spot(t, i + 1) = Spot(s, j + 1)
      <4>1. CASE i < k
        <5>1. i + 1 < k
          BY <1>3, <2>1, <2>3, <4>1
        <5> QED BY <1>10, <2>1, <4>1, <5>1
      <4>2. CASE ~ (i < k)
        <5>1. ~ (i + 1 < k)
          BY <1>3, <2>1, <4>2
        <5> QED BY <1>10, <2>1, <4>2, <5>1
      <4> QED BY <4>1, <4>2
    <3> HIDE DEF j
    <3>3. Spot(s, j) # before /\ Spot(s, j) # n
      BY <1>1, <1>3, <1>4, <3>1, SpotInjective
    <3>4. Spot(s, j + 1) # after /\ Spot(s, j + 1) # n
      <4>1. n = Spot(s, (k - 1) + 1)
        BY <1>3, <1>4
      <4> QED BY <1>1, <1>3, <3>1, <4>1, SpotInjective
    <3>5. Spot(s, j) \in Links /\ Spot(s, j + 1) \in Links
      BY <1>1, <3>1, SpotIs
    <3> QED BY <1>4, <1>9, <3>1, <3>2, <3>3, <3>4, <3>5
  <2> QED BY <2>2, <2>3
<1>12. ASSUME NEW m \in Nodes \ Range(t) PROVE q.next[m] = m /\ q.prev[m] = m
  <2>1. m \in Links /\ m # ListHead
    BY HeadIsNoNode DEF Links
  <2>2. CASE m = n
    BY <1>9, <2>1, <2>2
  <2>3. CASE m # n
    <3>1. m \notin Range(s)
      BY <1>2, <2>3
    <3>2. m # before /\ m # after
      BY <1>1, <2>1, <3>1, RangeIs DEF Spot
    <3> QED BY <1>9, <2>1, <2>3, <3>1, <3>2 DEF Rings
  <2> QED BY <2>2, <2>3
<1> QED BY <1>1, <1>2, <1>8, <1>11, <1>12 DEF Rings, t, q

-----------------------------------------------------------------------------
(* The chains *)

(* c chains, for each of size buckets b, the nodes F[b], and these are the *)
(* nodes of S whose hash values belong into b; all other nodes are in no   *)
(* chain.                                                                  *)
Home(n, size) == HashOf[KeyOf[n]] % size
Cell(s, b, i) == IF i = 0 THEN b ELSE IF i \in 1 .. Len(s) THEN s[i] ELSE Null

Entries(size) == [cell  : [Nodes \cup Buckets(size) -> Nodes \cup {Null}],
                  pprev : [Nodes -> Nodes \cup Buckets(size) \cup {Null}]]

Placed(F, size, S) ==
  /\ F \in [Buckets(size) -> Seq(Nodes)]
  /\ \A b \in Buckets(size) : Distinct(F[b]) /\ Range(F[b]) = {n \in S : Home(n, size) = b}

Chained(c, size, F, S) ==
  /\ c \in Entries(size) /\ Placed(F, size, S) /\ S \subseteq Nodes
  /\ \A b \in Buckets(size) : \A i \in 0 .. Len(F[b]) : c.cell[Cell(F[b], b, i)] = Cell(F[b], b, i + 1)
  /\ \A b \in Buckets(size) : \A i \in 1 .. Len(F[b]) : c.pprev[F[b][i]] = Cell(F[b], b, i - 1)
  /\ \A n \in Nodes \ S : c.cell[n] = Null /\ c.pprev[n] = Null

LEMMA Remainder == ASSUME NEW h \in Nat, NEW size \in Nat \ {0} PROVE h % size \in Buckets(size)
BY DEF Buckets

LEMMA HomeIs ==
  ASSUME NEW n \in Nodes, NEW size \in Nat \ {0}
  PROVE  HashOf[KeyOf[n]] \in Nat /\ Home(n, size) \in Buckets(size)
<1>1. HashOf[KeyOf[n]] \in Nat
  BY HashTableAssumption DEF Keys
<1> QED BY <1>1, Remainder DEF Home

LEMMA CellNames ==
  ASSUME NEW size \in Nat
  PROVE  /\ Buckets(size) \subseteq Nat
         /\ \A b \in Buckets(size) : b \notin Nodes /\ b # Null
         /\ Null \notin Nodes \cup Buckets(size)
<1>1. Buckets(size) \subseteq Nat
  BY DEF Buckets
<1> QED BY <1>1, HashTableAssumption

LEMMA CellIs ==
  ASSUME NEW size \in Nat, NEW S, NEW F, Placed(F, size, S), NEW b \in Buckets(size)
  PROVE  /\ F[b] \in Seq(Nodes) /\ Len(F[b]) \in Nat /\ Distinct(F[b])
         /\ \A i \in 1 .. Len(F[b]) : F[b][i] \in Nodes /\ F[b][i] \in S /\ Home(F[b][i], size) = b
         /\ \A n \in S : Home(n, size) = b => \E i \in 1 .. Len(F[b]) : n = F[b][i]
         /\ Cell(F[b], b, 0) = b /\ Cell(F[b], b, Len(F[b]) + 1) = Null
         /\ \A i \in 1 .. Len(F[b]) : Cell(F[b], b, i) = F[b][i]
         /\ \A i \in 0 .. Len(F[b]) : Cell(F[b], b, i) \in Nodes \cup {b}
<1>1. F[b] \in Seq(Nodes) /\ Len(F[b]) \in Nat /\ Distinct(F[b]) /\ Range(F[b]) = {n \in S : Home(n, size) = b}
  BY DEF Placed
<1>2. /\ \A i \in 1 .. Len(F[b]) : F[b][i] \in Nodes /\ F[b][i] \in S /\ Home(F[b][i], size) = b
      /\ \A n \in S : Home(n, size) = b => \E i \in 1 .. Len(F[b]) : n = F[b][i]
  BY <1>1, RangeIs
<1>3. /\ Cell(F[b], b, 0) = b /\ Cell(F[b], b, Len(F[b]) + 1) = Null
      /\ \A i \in 1 .. Len(F[b]) : Cell(F[b], b, i) = F[b][i]
  BY <1>1 DEF Cell
<1>4. \A i \in 0 .. Len(F[b]) : Cell(F[b], b, i) \in Nodes \cup {b}
  BY <1>1, <1>2 DEF Cell
<1> QED BY <1>1, <1>2, <1>3, <1>4

(* Cells of different places are different.                                *)
LEMMA CellInjective ==
  ASSUME NEW size \in Nat, NEW S, NEW F, Placed(F, size, S), NEW b \in Buckets(size),
         NEW i \in 0 .. Len(F[b])
  PROVE  /\ Cell(F[b], b, i) # Null
         /\ \A j \in 0 .. Len(F[b]) + 1 : Cell(F[b], b, i) = Cell(F[b], b, j) => i = j
         /\ \A d \in Buckets(size) : \A j \in 0 .. Len(F[d]) + 1 : Cell(F[b], b, i) = Cell(F[d], d, j) => b = d
<1>1. /\ F[b] \in Seq(Nodes) /\ Len(F[b]) \in Nat /\ Distinct(F[b])
      /\ \A k \in 1 .. Len(F[b]) : F[b][k] \in Nodes /\ Home(F[b][k], size) = b
  BY CellIs
<1>2. /\ \A d \in Buckets(size) : d \notin Nodes /\ d # Null
      /\ Null \notin Nodes
  BY CellNames
<1>3. Cell(F[b], b, i) # Null
  BY <1>1, <1>2 DEF Cell
<1>4. ASSUME NEW j \in 0 .. Len(F[b]) + 1, Cell(F[b], b, i) = Cell(F[b], b, j) PROVE i = j
  BY <1>1, <1>2, <1>3, <1>4 DEF Cell, Distinct
<1>5. ASSUME NEW d \in Buckets(size), NEW j \in 0 .. Len(F[d]) + 1, Cell(F[b], b, i) = Cell(F[d], d, j) PROVE b = d
  <2>1. /\ Len(F[d]) \in Nat /\ \A k \in 1 .. Len(F[d]) : F[d][k] \in Nodes /\ Home(F[d][k], size) = d
    BY CellIs
  <2> QED BY <1>1, <1>2, <1>3, <1>5, <2>1 DEF Cell
<1> QED BY <1>3, <1>4, <1>5

(* __HashTable_Find walks the chain of its bucket.                         *)
LEMMA ChainIs ==
  ASSUME NEW size \in Nat, NEW S, NEW F, NEW c, Chained(c, size, F, S), NEW b \in Buckets(size)
  PROVE  ChainOf(c, b) = F[b]
<1> DEFINE s == F[b]
<1>0. Placed(F, size, S)
  BY DEF Chained
<1>1. /\ s \in Seq(Nodes) /\ Len(s) \in Nat /\ Distinct(s)
      /\ \A i \in 1 .. Len(s) : Cell(s, b, i) = s[i]
      /\ Cell(s, b, 0) = b /\ Cell(s, b, Len(s) + 1) = Null
  BY <1>0, CellIs
<1>2. \A i \in 0 .. Len(s) : c.cell[Cell(s, b, i)] = Cell(s, b, i + 1)
  BY DEF Chained
<1> HIDE DEF s
<1>3. c.cell[b] = IF Len(s) = 0 THEN Null ELSE s[1]
  <2>1. c.cell[Cell(s, b, 0)] = Cell(s, b, 1)
    BY <1>1, <1>2
  <2> QED BY <1>1, <2>1
<1>4. ASSUME NEW i \in 1 .. Len(s) PROVE c.cell[s[i]] = IF i = Len(s) THEN Null ELSE s[i + 1]
  <2>1. c.cell[Cell(s, b, i)] = Cell(s, b, i + 1) /\ Cell(s, b, i) = s[i]
    BY <1>1, <1>2
  <2>2. CASE i = Len(s)
    BY <1>1, <2>1, <2>2
  <2>3. CASE i # Len(s)
    <3>1. i + 1 \in 1 .. Len(s)
      BY <1>1, <2>3
    <3> QED BY <1>1, <2>1, <2>3, <3>1
  <2> QED BY <2>2, <2>3
<1>5. Null \notin Nodes
  BY HashTableAssumption
<1>6. Follow(c.cell, c.cell[b], Null) = s
  BY <1>1, <1>3, <1>4, <1>5, FollowIs
<1> QED BY <1>6 DEF ChainOf, s

(* new_entries                                                             *)
LEMMA NewChained ==
  ASSUME NEW size \in Nat
  PROVE  Chained(NewEntries(size), size, [b \in Buckets(size) |-> <<>>], {})
<1> DEFINE F == [b \in Buckets(size) |-> <<>>]
           c == NewEntries(size)
<1>1. <<>> \in Seq(Nodes) /\ Distinct(<<>>) /\ Range(<<>>) = {} /\ Len(<<>>) = 0
  BY DEF Distinct, Range
<1>2. c \in Entries(size) /\ (\A x \in Nodes \cup Buckets(size) : c.cell[x] = Null) /\ \A n \in Nodes : c.pprev[n] = Null
  BY DEF NewEntries, Entries
<1>3. F \in [Buckets(size) -> Seq(Nodes)] /\ \A b \in Buckets(size) : F[b] = <<>>
  BY <1>1
<1> HIDE DEF F, c
<1>4. Placed(F, size, {})
  BY <1>1, <1>3 DEF Placed
<1>5. \A b \in Buckets(size) : Cell(<<>>, b, 0) = b /\ Cell(<<>>, b, 0 + 1) = Null
  BY <1>1 DEF Cell
<1>6. ASSUME NEW b \in Buckets(size), NEW i \in 0 .. Len(F[b])
      PROVE  c.cell[Cell(F[b], b, i)] = Cell(F[b], b, i + 1)
  <2>1. F[b] = <<>> /\ i = 0
    BY <1>1, <1>3
  <2> QED BY <1>2, <1>5, <2>1
<1>7. \A b \in Buckets(size) : 1 .. Len(F[b]) = {}
  BY <1>1, <1>3
<1> QED BY <1>2, <1>4, <1>6, <1>7 DEF Chained, F, c

(* hlist_add_head                                                          *)
LEMMA ChainAdd ==
  ASSUME NEW size \in Nat \ {0}, NEW S, NEW F, NEW c, Chained(c, size, F, S),
         NEW n \in Nodes, n \notin S, NEW b, b = Home(n, size)
  PROVE  Chained(HlistAdd(c, n, b), size, [F EXCEPT ![b] = <<n>> \o @], S \cup {n})
<1> DEFINE s == F[b]
           t == <<n>> \o s
           G == [F EXCEPT ![b] = t]
           first == c.cell[b]
           q == HlistAdd(c, n, b)
<1>0. size \in Nat /\ b \in Buckets(size) /\ Placed(F, size, S) /\ S \subseteq Nodes
  BY HomeIs DEF Chained
<1>1. /\ s \in Seq(Nodes) /\ Len(s) \in Nat /\ Distinct(s)
      /\ \A i \in 1 .. Len(s) : s[i] \in Nodes /\ s[i] \in S /\ Home(s[i], size) = b
      /\ Cell(s, b, 0) = b /\ Cell(s, b, Len(s) + 1) = Null
      /\ \A i \in 1 .. Len(s) : Cell(s, b, i) = s[i]
  BY <1>0, CellIs
<1>2. /\ \A d \in Buckets(size) : d \notin Nodes /\ d # Null
      /\ Null \notin Nodes \cup Buckets(size)
  BY <1>0, CellNames
<1>3. n \notin Range(s)
  BY <1>1, RangeIs
<1>4. /\ t \in Seq(Nodes) /\ Len(t) = Len(s) + 1 /\ t[1] = n /\ (\A i \in 1 .. Len(s) : t[i + 1] = s[i])
      /\ Distinct(t) /\ Range(t) = Range(s) \cup {n}
  BY <1>1, <1>3, ConsDistinct
<1>5. /\ F \in [Buckets(size) -> Seq(Nodes)]
      /\ \A d \in Buckets(size) : Distinct(F[d]) /\ Range(F[d]) = {m \in S : Home(m, size) = d}
  BY <1>0 DEF Placed
<1>6. /\ G \in [Buckets(size) -> Seq(Nodes)] /\ G[b] = t
      /\ \A d \in Buckets(size) : d # b => G[d] = F[d]
  BY <1>0, <1>4, <1>5
<1>7. /\ q.cell = [c.cell EXCEPT ![n] = first, ![b] = n]
      /\ q.pprev = [m \in Nodes |-> CASE m = n -> b [] m = first -> n [] OTHER -> c.pprev[m]]
      /\ q = [cell |-> q.cell, pprev |-> q.pprev]
  BY DEF HlistAdd
<1>8. /\ \A d \in Buckets(size) : \A i \in 0 .. Len(F[d]) : c.cell[Cell(F[d], d, i)] = Cell(F[d], d, i + 1)
      /\ \A d \in Buckets(size) : \A i \in 1 .. Len(F[d]) : c.pprev[F[d][i]] = Cell(F[d], d, i - 1)
      /\ \A m \in Nodes \ S : c.cell[m] = Null /\ c.pprev[m] = Null
      /\ c.cell \in [Nodes \cup Buckets(size) -> Nodes \cup {Null}]
      /\ c.pprev \in [Nodes -> Nodes \cup Buckets(size) \cup {Null}]
  BY DEF Chained, Entries
<1>9. first = Cell(s, b, 1)
  <2>1. c.cell[Cell(s, b, 0)] = Cell(s, b, 0 + 1)
    BY <1>0, <1>1, <1>8
  <2> QED BY <1>1, <2>1
<1>10. first \in Nodes => first \in S /\ Home(first, size) = b /\ 1 \in 1 .. Len(s) /\ first = s[1]
  BY <1>1, <1>2, <1>9 DEF Cell
<1>11. first \in Nodes \cup {Null}
  BY <1>0, <1>8
<1> HIDE DEF s, t, G, first, q
<1>12. /\ \A x \in Nodes \cup Buckets(size) : q.cell[x] = IF x = b THEN n ELSE IF x = n THEN first ELSE c.cell[x]
       /\ \A m \in Nodes : q.pprev[m] = IF m = n THEN b ELSE IF m = first THEN n ELSE c.pprev[m]
  <2>1. n # first
    BY <1>10
  <2>2. \A m \in Nodes : q.pprev[m] = IF m = n THEN b ELSE IF m = first THEN n ELSE c.pprev[m]
    BY <1>7, <2>1
  <2> QED BY <1>0, <1>2, <1>7, <1>8, <2>2
<1>13. q \in Entries(size)
  <2>1. q.cell \in [Nodes \cup Buckets(size) -> Nodes \cup {Null}]
    <3> DEFINE D == Nodes \cup Buckets(size)
               V == Nodes \cup {Null}
    <3>1. c.cell \in [D -> V] /\ first \in V /\ n \in V
      BY <1>8, <1>11
    <3> HIDE DEF D, V
    <3>2. q.cell \in [D -> V]
      BY <1>7, <3>1
    <3> QED BY <3>2 DEF D, V
  <2>2. q.pprev \in [Nodes -> Nodes \cup Buckets(size) \cup {Null}]
    <3>1. q.pprev = [m \in Nodes |-> q.pprev[m]]
      BY <1>7
    <3>2. \A m \in Nodes : q.pprev[m] \in Nodes \cup Buckets(size) \cup {Null}
      BY <1>0, <1>8, <1>12
    <3> QED BY <3>1, <3>2
  <2> QED BY <1>7, <2>1, <2>2 DEF Entries
<1>14. Placed(G, size, S \cup {n})
  <2>1. ASSUME NEW d \in Buckets(size)
        PROVE  Distinct(G[d]) /\ Range(G[d]) = {m \in S \cup {n} : Home(m, size) = d}
    <3>1. CASE d = b
      <4>1. Range(s) = {m \in S : Home(m, size) = b}
        BY <1>0, <1>5 DEF s
      <4> QED BY <1>4, <1>6, <3>1, <4>1
    <3>2. CASE d # b
      BY <1>5, <1>6, <3>2
    <3> QED BY <3>1, <3>2
  <2> QED BY <1>6, <2>1 DEF Placed
<1>15. /\ Cell(t, b, 0) = b /\ Cell(t, b, 1) = n
       /\ \A i \in 1 .. Len(s) + 1 : Cell(t, b, i + 1) = Cell(s, b, i)
  BY <1>1, <1>4 DEF Cell
<1>16. ASSUME NEW d \in Buckets(size), NEW i \in 0 .. Len(G[d])
       PROVE  q.cell[Cell(G[d], d, i)] = Cell(G[d], d, i + 1)
  <2>1. CASE d = b
    <3>0. G[d] = t /\ i \in 0 .. Len(s) + 1
      BY <1>4, <1>6, <2>1
    <3>1. CASE i = 0
      BY <1>12, <1>15, <2>1, <3>0, <3>1
    <3>2. CASE i = 1
      <4>1. Cell(t, b, 2) = Cell(s, b, 1)
        BY <1>1, <1>15
      <4>2. n # b
        BY <1>0, <1>2
      <4> QED BY <1>9, <1>12, <1>15, <2>1, <3>0, <3>2, <4>1, <4>2
    <3>3. CASE i # 0 /\ i # 1
      <4>1. i - 1 \in 1 .. Len(s) /\ i - 1 \in 0 .. Len(s) /\ i \in 1 .. Len(s) + 1 /\ (i - 1) + 1 = i
        BY <1>1, <3>0, <3>3
      <4>2. Cell(t, b, i) = Cell(s, b, i - 1) /\ Cell(t, b, i + 1) = Cell(s, b, i)
        <5>1. Cell(t, b, (i - 1) + 1) = Cell(s, b, i - 1)
          BY <1>1, <1>15, <4>1
        <5> QED BY <1>15, <4>1, <5>1
      <4>3. Cell(s, b, i - 1) \in S
        BY <1>1, <4>1
      <4>4. c.cell[Cell(s, b, i - 1)] = Cell(s, b, i)
        <5>1. c.cell[Cell(s, b, i - 1)] = Cell(s, b, (i - 1) + 1)
          BY <1>0, <1>8, <4>1 DEF s
        <5> QED BY <4>1, <5>1
      <4>5. Cell(s, b, i - 1) \in Nodes /\ Cell(s, b, i - 1) # n /\ Cell(s, b, i - 1) # b
        BY <1>0, <1>2, <4>3
      <4> QED BY <1>12, <2>1, <3>0, <4>2, <4>4, <4>5
    <3> QED BY <3>1, <3>2, <3>3
  <2>2. CASE d # b
    <3>1. G[d] = F[d] /\ i \in 0 .. Len(F[d])
      BY <1>6, <2>2
    <3>2. Cell(F[d], d, i) \in Nodes \cup {d} /\ (Cell(F[d], d, i) = d \/ Cell(F[d], d, i) \in S)
      BY <1>0, <3>1, CellIs DEF Cell
    <3>3. Cell(F[d], d, i) # b /\ Cell(F[d], d, i) # n
      BY <1>0, <1>2, <2>2, <3>2
    <3> QED BY <1>8, <1>12, <3>1, <3>2, <3>3
  <2> QED BY <2>1, <2>2
<1>17. ASSUME NEW d \in Buckets(size), NEW i \in 1 .. Len(G[d])
       PROVE  q.pprev[G[d][i]] = Cell(G[d], d, i - 1)
  <2>1. CASE d = b
    <3>0. G[d] = t /\ i \in 1 .. Len(s) + 1
      BY <1>4, <1>6, <2>1
    <3>1. CASE i = 1
      BY <1>4, <1>12, <1>15, <2>1, <3>0, <3>1
    <3>2. CASE i # 1
      <4>1. i - 1 \in 1 .. Len(s) /\ (i - 1) + 1 = i
        BY <1>1, <3>0, <3>2
      <4>2. t[i] = s[i - 1] /\ s[i - 1] \in Nodes /\ s[i - 1] # n
        BY <1>1, <1>4, <4>1
      <4>3. CASE i = 2
        <5>1. s[1] = first
          BY <1>1, <1>9, <4>1, <4>3
        <5> QED BY <1>12, <1>15, <2>1, <3>0, <4>2, <4>3, <5>1
      <4>4. CASE i # 2
        <5>1. i - 2 \in 1 .. Len(s) + 1 /\ (i - 2) + 1 = i - 1 /\ (i - 1) - 1 = i - 2 /\ 1 \in 1 .. Len(s)
          BY <1>1, <4>1, <4>4
        <5>2. s[i - 1] # first
          BY <1>1, <1>9, <4>1, <4>4, <5>1 DEF Distinct
        <5>3. c.pprev[s[i - 1]] = Cell(s, b, i - 2)
          BY <1>0, <1>8, <4>1, <5>1 DEF s
        <5>4. Cell(t, b, i - 1) = Cell(s, b, i - 2)
          BY <1>15, <5>1
        <5> QED BY <1>12, <2>1, <3>0, <4>2, <5>2, <5>3, <5>4
      <4> QED BY <4>3, <4>4
    <3> QED BY <3>1, <3>2
  <2>2. CASE d # b
    <3>1. G[d] = F[d] /\ i \in 1 .. Len(F[d])
      BY <1>6, <2>2
    <3>2. F[d][i] \in Nodes /\ F[d][i] \in S /\ Home(F[d][i], size) = d
      BY <1>0, <3>1, CellIs
    <3>3. F[d][i] # n /\ F[d][i] # first
      BY <1>10, <2>2, <3>2
    <3> QED BY <1>8, <1>12, <3>1, <3>2, <3>3
  <2> QED BY <2>1, <2>2
<1>18. ASSUME NEW m \in Nodes \ (S \cup {n}) PROVE q.cell[m] = Null /\ q.pprev[m] = Null
  <2>1. m # b /\ m # n /\ m # first
    BY <1>0, <1>2, <1>10
  <2> QED BY <1>8, <1>12, <2>1
<1>19. Chained(q, size, G, S \cup {n})
  BY <1>0, <1>13, <1>14, <1>16, <1>17, <1>18 DEF Chained
<1> QED BY <1>19 DEF q, G, t, s

(* hlist_del                                                               *)
LEMMA ChainRemove ==
  ASSUME NEW size \in Nat \ {0}, NEW S, NEW F, NEW c, Chained(c, size, F, S),
         NEW b \in Buckets(size), NEW k \in 1 .. Len(F[b]), NEW n, n = F[b][k]
  PROVE  /\ n \in S /\ ~ Unhashed(c, n)
         /\ Chained(HlistDel(c, n), size, [F EXCEPT ![b] = RemoveAt(@, k)], S \ {n})
<1> DEFINE s == F[b]
           t == RemoveAt(s, k)
           G == [F EXCEPT ![b] = t]
           before == c.pprev[n]
           after == c.cell[n]
           q == HlistDel(c, n)
<1>0. size \in Nat /\ Placed(F, size, S) /\ S \subseteq Nodes
  BY DEF Chained
<1>1. /\ s \in Seq(Nodes) /\ Len(s) \in Nat /\ Distinct(s)
      /\ \A i \in 1 .. Len(s) : s[i] \in Nodes /\ s[i] \in S /\ Home(s[i], size) = b
      /\ Cell(s, b, 0) = b /\ Cell(s, b, Len(s) + 1) = Null
      /\ \A i \in 1 .. Len(s) : Cell(s, b, i) = s[i]
      /\ \A i \in 0 .. Len(s) : Cell(s, b, i) \in Nodes \cup {b}
  BY <1>0, CellIs
<1>2. /\ \A d \in Buckets(size) : d \notin Nodes /\ d # Null
      /\ Null \notin Nodes \cup Buckets(size)
  BY <1>0, CellNames
<1>3. k \in 1 .. Len(s) /\ k \in 0 .. Len(s) /\ k - 1 \in 0 .. Len(s) /\ (k - 1) + 1 = k /\ k + 1 \in 1 .. Len(s) + 1
  BY <1>1
<1>4. /\ t \in Seq(Nodes) /\ Len(t) = Len(s) - 1 /\ Distinct(t) /\ Range(t) = Range(s) \ {n}
      /\ \A j \in 1 .. Len(s) - 1 : t[j] = IF j < k THEN s[j] ELSE s[j + 1]
  BY <1>1, <1>3, RemoveAtIs, RemoveAtDistinct
<1>5. /\ F \in [Buckets(size) -> Seq(Nodes)]
      /\ \A d \in Buckets(size) : Distinct(F[d]) /\ Range(F[d]) = {m \in S : Home(m, size) = d}
  BY <1>0 DEF Placed
<1>6. /\ G \in [Buckets(size) -> Seq(Nodes)] /\ G[b] = t
      /\ \A d \in Buckets(size) : d # b => G[d] = F[d]
  BY <1>0, <1>4, <1>5
<1>8. /\ \A d \in Buckets(size) : \A i \in 0 .. Len(F[d]) : c.cell[Cell(F[d], d, i)] = Cell(F[d], d, i + 1)
      /\ \A d \in Buckets(size) : \A i \in 1 .. Len(F[d]) : c.pprev[F[d][i]] = Cell(F[d], d, i - 1)
      /\ \A m \in Nodes \ S : c.cell[m] = Null /\ c.pprev[m] = Null
      /\ c.cell \in [Nodes \cup Buckets(size) -> Nodes \cup {Null}]
      /\ c.pprev \in [Nodes -> Nodes \cup Buckets(size) \cup {Null}]
  BY DEF Chained, Entries
<1>9. before = Cell(s, b, k - 1) /\ after = Cell(s, b, k + 1) /\ n = Cell(s, b, k)
  <2>1. c.cell[Cell(s, b, k)] = Cell(s, b, k + 1)
    BY <1>3, <1>8
  <2> QED BY <1>1, <1>3, <1>8, <2>1
<1>10. n \in S /\ n \in Nodes /\ Home(n, size) = b
  BY <1>1, <1>3
<1>11. before \in Nodes \cup {b} /\ before # Null /\ after \in Nodes \cup {Null}
  BY <1>1, <1>2, <1>3, <1>8, <1>9, <1>10
<1>7. /\ q.cell = [c.cell EXCEPT ![before] = after, ![n] = Null]
      /\ q.pprev = [m \in Nodes |-> CASE m = n -> Null [] m = after -> before [] OTHER -> c.pprev[m]]
      /\ q = [cell |-> q.cell, pprev |-> q.pprev]
  <2>1. ~ Unhashed(c, n)
    BY <1>11 DEF Unhashed
  <2> QED BY <2>1 DEF HlistDel
<1> HIDE DEF s, t, G, before, after, q
<1>12. before # n /\ after # n
  <2>1. \A j \in 0 .. Len(s) + 1 : Cell(s, b, k) = Cell(s, b, j) => k = j
    BY <1>0, <1>3, CellInjective DEF s
  <2>2. k - 1 # k /\ k + 1 # k /\ k - 1 \in 0 .. Len(s) + 1 /\ k + 1 \in 0 .. Len(s) + 1
    BY <1>1, <1>3
  <2> QED BY <1>9, <2>1, <2>2
<1>13. /\ \A x \in Nodes \cup Buckets(size) : q.cell[x] = IF x = n THEN Null ELSE IF x = before THEN after ELSE c.cell[x]
       /\ \A m \in Nodes : q.pprev[m] = IF m = n THEN Null ELSE IF m = after THEN before ELSE c.pprev[m]
  <2>1. \A m \in Nodes : q.pprev[m] = IF m = n THEN Null ELSE IF m = after THEN before ELSE c.pprev[m]
    BY <1>7, <1>12
  <2> QED BY <1>7, <1>8, <1>10, <1>11, <1>12, <2>1
<1>14. q \in Entries(size)
  <2>1. q.cell \in [Nodes \cup Buckets(size) -> Nodes \cup {Null}]
    <3> DEFINE D == Nodes \cup Buckets(size)
               V == Nodes \cup {Null}
    <3>1. c.cell \in [D -> V] /\ after \in V /\ Null \in V
      BY <1>8, <1>11
    <3>3. q.cell = [c.cell EXCEPT ![before] = after, ![n] = Null]
      BY <1>7
    <3> HIDE DEF D, V
    <3>2. q.cell \in [D -> V]
      BY <3>1, <3>3
    <3> QED BY <3>2 DEF D, V
  <2>2. q.pprev \in [Nodes -> Nodes \cup Buckets(size) \cup {Null}]
    <3>1. q.pprev = [m \in Nodes |-> q.pprev[m]]
      BY <1>7
    <3>2. \A m \in Nodes : q.pprev[m] \in Nodes \cup Buckets(size) \cup {Null}
      BY <1>8, <1>11, <1>13
    <3> QED BY <3>1, <3>2
  <2> QED BY <1>7, <2>1, <2>2 DEF Entries
<1>15. Placed(G, size, S \ {n})
  <2>1. ASSUME NEW d \in Buckets(size)
        PROVE  Distinct(G[d]) /\ Range(G[d]) = {m \in S \ {n} : Home(m, size) = d}
    <3>1. CASE d = b
      <4>1. Range(s) = {m \in S : Home(m, size) = b}
        BY <1>5 DEF s
      <4> QED BY <1>4, <1>6, <3>1, <4>1
    <3>2. CASE d # b
      BY <1>5, <1>6, <1>10, <3>2
    <3> QED BY <3>1, <3>2
  <2> QED BY <1>6, <2>1 DEF Placed
<1>16. \A i \in 0 .. Len(s) : Cell(t, b, i) = IF i < k THEN Cell(s, b, i) ELSE Cell(s, b, i + 1)
  BY <1>1, <1>3, <1>4 DEF Cell
<1>17. ASSUME NEW d \in Buckets(size), NEW i \in 0 .. Len(G[d])
       PROVE  q.cell[Cell(G[d], d, i)] = Cell(G[d], d, i + 1)
  <2>1. CASE d = b
    <3>0. G[d] = t /\ i \in 0 .. Len(s) - 1 /\ i \in 0 .. Len(s) /\ i + 1 \in 0 .. Len(s)
      BY <1>1, <1>3, <1>4, <1>6, <2>1
    <3>1. CASE i = k - 1
      <4>1. Cell(t, b, i) = before /\ Cell(t, b, i + 1) = after
        BY <1>3, <1>9, <1>16, <3>0, <3>1
      <4> QED BY <1>11, <1>12, <1>13, <2>1, <3>0, <4>1
    <3>2. CASE i # k - 1
      <4> DEFINE j == IF i < k THEN i ELSE i + 1
      <4>1. j \in 0 .. Len(s) /\ j # k - 1 /\ j # k
        BY <1>1, <1>3, <3>0, <3>2
      <4>2. Cell(t, b, i) = Cell(s, b, j) /\ Cell(t, b, i + 1) = Cell(s, b, j + 1)
        <5>1. CASE i < k
          <6>1. i + 1 < k
            BY <1>3, <3>0, <3>2, <5>1
          <6> QED BY <1>16, <3>0, <5>1, <6>1
        <5>2. CASE ~ (i < k)
          <6>1. ~ (i + 1 < k)
            BY <1>3, <3>0, <5>2
          <6> QED BY <1>16, <3>0, <5>2, <6>1
        <5> QED BY <5>1, <5>2
      <4> HIDE DEF j
      <4>3. Cell(s, b, j) # before /\ Cell(s, b, j) # n
        <5>1. \A l \in 0 .. Len(s) + 1 : Cell(s, b, j) = Cell(s, b, l) => j = l
          BY <1>0, <4>1, CellInjective DEF s
        <5>2. k \in 0 .. Len(s) + 1 /\ k - 1 \in 0 .. Len(s) + 1
          BY <1>1, <1>3
        <5> QED BY <1>9, <4>1, <5>1, <5>2
      <4>4. c.cell[Cell(s, b, j)] = Cell(s, b, j + 1) /\ Cell(s, b, j) \in Nodes \cup {b}
        BY <1>1, <1>8, <4>1 DEF s
      <4> QED BY <1>13, <2>1, <3>0, <4>2, <4>3, <4>4
    <3> QED BY <3>1, <3>2
  <2>2. CASE d # b
    <3>1. G[d] = F[d] /\ i \in 0 .. Len(F[d])
      BY <1>6, <2>2
    <3>2. Cell(F[d], d, i) \in Nodes \cup {d}
      BY <1>0, <3>1, CellIs
    <3>3. Cell(F[d], d, i) # n /\ Cell(F[d], d, i) # before
      <4>1. \A l \in 0 .. Len(s) + 1 : Cell(F[d], d, i) = Cell(s, b, l) => d = b
        BY <1>0, <3>1, CellInjective DEF s
      <4>2. k \in 0 .. Len(s) + 1 /\ k - 1 \in 0 .. Len(s) + 1
        BY <1>1, <1>3
      <4> QED BY <1>9, <2>2, <4>1, <4>2
    <3> QED BY <1>8, <1>13, <3>1, <3>2, <3>3
  <2> QED BY <2>1, <2>2
<1>18. ASSUME NEW d \in Buckets(size), NEW i \in 1 .. Len(G[d])
       PROVE  q.pprev[G[d][i]] = Cell(G[d], d, i - 1)
  <2>1. CASE d = b
    <3>0. G[d] = t /\ i \in 1 .. Len(s) - 1 /\ i - 1 \in 0 .. Len(s)
      BY <1>1, <1>3, <1>4, <1>6, <2>1
    <3> DEFINE j == IF i < k THEN i ELSE i + 1
    <3>1. j \in 1 .. Len(s) /\ j # k /\ j \in 0 .. Len(s) + 1
      BY <1>1, <1>3, <3>0
    <3>2. t[i] = s[j] /\ s[j] \in Nodes /\ s[j] # n
      <4>1. t[i] = s[j]
        BY <1>4, <3>0
      <4> HIDE DEF j
      <4>2. s[j] = n => j = k
        BY <1>1, <1>3, <3>1 DEF Distinct, s
      <4> QED BY <1>1, <3>1, <4>1, <4>2
    <3>3. s[j] = after <=> j = k + 1
      <4> HIDE DEF j
      <4>1. Cell(s, b, j) = s[j]
        BY <1>1, <3>1
      <4>2. \A l \in 0 .. Len(s) + 1 : Cell(s, b, j) = Cell(s, b, l) => j = l
        BY <1>0, <1>1, <3>1, CellInjective DEF s
      <4>3. k + 1 \in 0 .. Len(s) + 1
        BY <1>1, <1>3
      <4> QED BY <1>9, <4>1, <4>2, <4>3
    <3>4. c.pprev[s[j]] = Cell(s, b, j - 1)
      <4> HIDE DEF j
      <4> QED BY <1>8, <3>1 DEF s
    <3>5. CASE i = k
      <4>1. j = k + 1 /\ Cell(t, b, i - 1) = before
        BY <1>3, <1>9, <1>16, <3>0, <3>5
      <4> QED BY <1>13, <2>1, <3>0, <3>2, <3>3, <4>1
    <3>6. CASE i # k
      <4>1. j # k + 1
        BY <1>3, <3>0, <3>6
      <4>2. Cell(t, b, i - 1) = Cell(s, b, j - 1)
        <5>1. CASE i < k
          <6>1. i - 1 < k
            BY <1>3, <3>0, <5>1
          <6> QED BY <1>16, <3>0, <5>1, <6>1
        <5>2. CASE ~ (i < k)
          <6>1. ~ (i - 1 < k) /\ (i - 1) + 1 = (i + 1) - 1
            BY <1>3, <3>0, <3>6, <5>2
          <6>2. Cell(t, b, i - 1) = Cell(s, b, (i - 1) + 1)
            BY <1>16, <3>0, <6>1
          <6> QED BY <5>2, <6>1, <6>2
        <5> QED BY <5>1, <5>2
      <4> HIDE DEF j
      <4> QED BY <1>13, <2>1, <3>0, <3>2, <3>3, <3>4, <4>1, <4>2
    <3> QED BY <3>5, <3>6
  <2>2. CASE d # b
    <3>1. G[d] = F[d] /\ i \in 1 .. Len(F[d])
      BY <1>6, <2>2
    <3>2. F[d][i] \in Nodes /\ Home(F[d][i], size) = d
      BY <1>0, <3>1, CellIs
    <3>3. F[d][i] # n /\ F[d][i] # after
      <4>1. after \in Nodes => Home(after, size) = b
        BY <1>1, <1>2, <1>3, <1>9 DEF Cell
      <4> QED BY <1>10, <2>2, <3>2, <4>1
    <3> QED BY <1>8, <1>13, <3>1, <3>2, <3>3, SMTT(30)
  <2> QED BY <2>1, <2>2
<1>19. ASSUME NEW m \in Nodes \ (S \ {n}) PROVE q.cell[m] = Null /\ q.pprev[m] = Null
  <2>1. CASE m = n
    BY <1>13, <2>1
  <2>2. CASE m # n
    <3>1. m # before /\ m # after
      <4>1. before \in Nodes => before \in S
        BY <1>1, <1>2, <1>3, <1>9 DEF Cell
      <4>2. after \in Nodes => after \in S
        BY <1>1, <1>2, <1>3, <1>9 DEF Cell
      <4> QED BY <2>2, <4>1, <4>2
    <3> QED BY <1>8, <1>13, <2>2, <3>1
  <2> QED BY <2>1, <2>2
<1>20. Chained(q, size, G, S \ {n})
  <2>1. S \ {n} \subseteq Nodes
    BY <1>0
  <2> QED BY <1>14, <1>15, <1>17, <1>18, <1>19, <2>1 DEF Chained
<1> QED BY <1>10, <1>11, <1>20 DEF q, G, t, s, before, Unhashed

-----------------------------------------------------------------------------
(* Growth *)

Holds(c, size, S) == \E F : Chained(c, size, F, S)

LEMMA HlistAddTyped ==
  ASSUME NEW size \in Nat \ {0}, NEW c \in Entries(size), NEW n \in Nodes, NEW b \in Buckets(size)
  PROVE  HlistAdd(c, n, b) \in Entries(size)
<1> DEFINE q == HlistAdd(c, n, b)
           first == c.cell[b]
<1>1. /\ c.cell \in [Nodes \cup Buckets(size) -> Nodes \cup {Null}]
      /\ c.pprev \in [Nodes -> Nodes \cup Buckets(size) \cup {Null}]
  BY DEF Entries
<1>2. first \in Nodes \cup {Null}
  BY <1>1
<1>3. /\ q.cell = [c.cell EXCEPT ![n] = first, ![b] = n]
      /\ q.pprev = [m \in Nodes |-> CASE m = n -> b [] m = first -> n [] OTHER -> c.pprev[m]]
      /\ q = [cell |-> q.cell, pprev |-> q.pprev]
  BY DEF HlistAdd
<1> HIDE DEF first, q
<1>4. q.cell \in [Nodes \cup Buckets(size) -> Nodes \cup {Null}]
  <2> DEFINE D == Nodes \cup Buckets(size)
             V == Nodes \cup {Null}
  <2>1. c.cell \in [D -> V] /\ first \in V /\ n \in V
    BY <1>1, <1>2
  <2>2. q.cell = [c.cell EXCEPT ![n] = first, ![b] = n]
    BY <1>3
  <2> HIDE DEF D, V
  <2>3. q.cell \in [D -> V]
    BY <2>1, <2>2
  <2> QED BY <2>3 DEF D, V
<1>5. q.pprev \in [Nodes -> Nodes \cup Buckets(size) \cup {Null}]
  <2>1. \A m \in Nodes : (CASE m = n -> b [] m = first -> n [] OTHER -> c.pprev[m])
                           \in Nodes \cup Buckets(size) \cup {Null}
    BY <1>1
  <2> QED BY <1>3, <2>1
<1> QED BY <1>3, <1>4, <1>5 DEF Entries, q

(* The nodes of an old chain are added to the new chains.                  *)
LEMMA MoveChainIs ==
  ASSUME NEW size \in Nat \ {0}, NEW entries \in Entries(size), NEW nodes \in Seq(Nodes),
         \A i \in 1 .. Len(nodes) : hash[nodes[i]] = HashOf[KeyOf[nodes[i]]]
  PROVE  /\ MoveChain(entries, nodes, size) \in Entries(size)
         /\ \A S : Holds(entries, size, S) /\ Distinct(nodes) /\ (\A i \in 1 .. Len(nodes) : nodes[i] \notin S)
                     => Holds(MoveChain(entries, nodes, size), size, S \cup Range(nodes))
<1> DEFINE L == Len(nodes)
           X == Entries(size)
           Sequel(at) == [i \in 0 .. L |->
                            IF i = 0 THEN entries ELSE HlistAdd(at[i - 1], nodes[i], hash[nodes[i]] % size)]
           moved == CHOOSE at : at = Sequel(at)
           step == [p \in (1 .. L) \X X |-> HlistAdd(p[2], nodes[p[1]], hash[nodes[p[1]]] % size)]
<1>1. L \in Nat
  OBVIOUS
<1>2. \A i \in 1 .. L : /\ nodes[i] \in Nodes /\ hash[nodes[i]] % size = Home(nodes[i], size)
                        /\ hash[nodes[i]] % size \in Buckets(size)
  BY HomeIs DEF Home
<1>3. step \in [(1 .. L) \X X -> X]
  <2>1. ASSUME NEW p \in (1 .. L) \X X
        PROVE  HlistAdd(p[2], nodes[p[1]], hash[nodes[p[1]]] % size) \in X
    <3>1. p[1] \in 1 .. L /\ p[2] \in Entries(size)
      OBVIOUS
    <3> QED BY <1>2, <3>1, HlistAddTyped
  <2> QED BY <2>1
<1>4. \E g : Unfolds(g, X, entries, L, step)
  <2>1. entries \in X
    OBVIOUS
  <2> HIDE DEF X, L, step
  <2> QED BY <1>1, <1>3, <2>1, Recursion
<1>5. PICK g : Unfolds(g, X, entries, L, step)
  BY <1>4
<1>6. g = Sequel(g)
  <2>1. g \in [0 .. L -> X] /\ g[0] = entries /\ \A k \in 1 .. L : g[k] = step[<<k, g[k - 1]>>]
    BY <1>5 DEF Unfolds
  <2>2. ASSUME NEW k \in 1 .. L
        PROVE  g[k] = HlistAdd(g[k - 1], nodes[k], hash[nodes[k]] % size)
    <3>1. g[k - 1] \in X
      <4>1. k - 1 \in 0 .. L
        BY <1>1
      <4> HIDE DEF X, L
      <4> QED BY <2>1, <4>1
    <3>2. step[<<k, g[k - 1]>>] = HlistAdd(g[k - 1], nodes[k], hash[nodes[k]] % size)
      <4> HIDE DEF X, L
      <4> QED BY <3>1
    <3> QED BY <2>1, <3>2
  <2>3. \A k \in 0 .. L : k = 0 \/ k \in 1 .. L
    BY <1>1
  <2>4. \A k \in 0 .. L : g[k] = IF k = 0 THEN entries ELSE HlistAdd(g[k - 1], nodes[k], hash[nodes[k]] % size)
    <3> HIDE DEF X, L, step
    <3> QED BY <2>1, <2>2, <2>3
  <2>5. g = [k \in 0 .. L |-> g[k]]
    BY <2>1
  <2> HIDE DEF X, L, step
  <2> QED BY <2>4, <2>5
<1>7. moved = Sequel(moved)
  <2> HIDE DEF Sequel
  <2> QED BY <1>6
<1>8. \A i \in 0 .. L : moved[i] = IF i = 0 THEN entries ELSE HlistAdd(moved[i - 1], nodes[i], hash[nodes[i]] % size)
  <2> TAKE i \in 0 .. L
  <2>1. Sequel(moved)[i] = IF i = 0 THEN entries ELSE HlistAdd(moved[i - 1], nodes[i], hash[nodes[i]] % size)
    OBVIOUS
  <2> HIDE DEF moved, Sequel
  <2> QED BY <1>7, <2>1
<1>9. MoveChain(entries, nodes, size) = moved[L]
  BY DEF MoveChain
<1> HIDE DEF moved, Sequel, step, X
<1>10. MoveChain(entries, nodes, size) \in Entries(size)
  <2> DEFINE T == {i \in 0 .. L : moved[i] \in Entries(size)}
  <2>1. 0 \in T
    BY <1>1, <1>8
  <2>2. ASSUME NEW i \in 0 .. L - 1, i \in T PROVE i + 1 \in T
    <3>1. i + 1 \in 1 .. L /\ i + 1 \in 0 .. L /\ i + 1 # 0 /\ (i + 1) - 1 = i
      BY <1>1
    <3>2. moved[i + 1] = HlistAdd(moved[i], nodes[i + 1], hash[nodes[i + 1]] % size)
      BY <1>8, <3>1
    <3>3. moved[i + 1] \in Entries(size)
      BY <1>2, <2>2, <3>1, <3>2, HlistAddTyped
    <3> QED BY <3>1, <3>3
  <2>3. L \in T
    <3> HIDE DEF T, L
    <3>1. \A i \in 0 .. L : i \in T
      BY <1>1, <2>1, <2>2, Induction
    <3> QED BY <1>1, <3>1
  <2> QED BY <1>9, <2>3
<1>11. ASSUME NEW S, Holds(entries, size, S), Distinct(nodes), \A i \in 1 .. L : nodes[i] \notin S
       PROVE  Holds(MoveChain(entries, nodes, size), size, S \cup Range(nodes))
  <2> DEFINE Upto(i) == S \cup {nodes[j] : j \in 1 .. i}
             T == {i \in 0 .. L : Holds(moved[i], size, Upto(i))}
  <2>1. 0 \in T
    <3>1. Upto(0) = S /\ moved[0] = entries
      BY <1>1, <1>8
    <3> HIDE DEF Upto
    <3> QED BY <1>1, <1>11, <3>1
  <2>2. ASSUME NEW i \in 0 .. L - 1, i \in T PROVE i + 1 \in T
    <3>1. i + 1 \in 1 .. L /\ i + 1 \in 0 .. L /\ i + 1 # 0 /\ (i + 1) - 1 = i
      BY <1>1
    <3>2. moved[i + 1] = HlistAdd(moved[i], nodes[i + 1], Home(nodes[i + 1], size))
      BY <1>2, <1>8, <3>1
    <3>3. PICK F : Chained(moved[i], size, F, Upto(i))
      BY <2>2 DEF Holds
    <3>4. nodes[i + 1] \notin Upto(i) /\ nodes[i + 1] \in Nodes
      <4>1. \A j \in 1 .. i : j \in 1 .. L /\ j # i + 1
        BY <1>1
      <4> QED BY <1>2, <1>11, <3>1, <4>1 DEF Distinct
    <3>5. Upto(i + 1) = Upto(i) \cup {nodes[i + 1]}
      <4>1. 1 .. i + 1 = (1 .. i) \cup {i + 1}
        OBVIOUS
      <4> QED BY <4>1
    <3> DEFINE n == nodes[i + 1]
               U == Upto(i)
               c == moved[i]
               b == Home(n, size)
    <3>8. n \notin U /\ n \in Nodes /\ Chained(c, size, F, U)
      BY <3>3, <3>4
    <3>9. moved[i + 1] = HlistAdd(c, n, b) /\ Upto(i + 1) = U \cup {n}
      BY <3>2, <3>5
    <3> HIDE DEF Upto, n, U, c
    <3>6. Chained(moved[i + 1], size, [F EXCEPT ![b] = <<n>> \o @], Upto(i + 1))
      BY <3>8, <3>9, ChainAdd
    <3>7. Holds(moved[i + 1], size, Upto(i + 1))
      BY <3>6 DEF Holds
    <3> QED BY <3>1, <3>7
  <2>3. L \in T
    <3> HIDE DEF T, L
    <3>1. \A i \in 0 .. L : i \in T
      BY <1>1, <2>1, <2>2, Induction
    <3> QED BY <1>1, <3>1
  <2>4. Upto(L) = S \cup Range(nodes)
    BY DEF Range
  <2> HIDE DEF Upto
  <2> QED BY <1>9, <2>3, <2>4
<1> QED BY <1>10, <1>11

(* htable_expand: all the nodes, and every one into the chain of its hash. *)
LEMMA RehashIs ==
  ASSUME NEW size \in Nat \ {0}, NEW S, Size \in Nat \ {0}, Holds(chain, Size, S),
         \A n \in S : hash[n] = HashOf[KeyOf[n]]
  PROVE  Holds(RehashInto(NewEntries(size), size), size, S)
<1> DEFINE X == Entries(size)
           base == NewEntries(size)
           Sequel(at) == [b \in 0 .. Size |->
                            IF b = 0 THEN base ELSE MoveChain(at[b - 1], ChainOf(chain, b - 1), size)]
           moved == CHOOSE at : at = Sequel(at)
           step == [p \in (1 .. Size) \X X |-> MoveChain(p[2], ChainOf(chain, p[1] - 1), size)]
<1>1. PICK F : Chained(chain, Size, F, S)
  BY DEF Holds
<1>2. Placed(F, Size, S) /\ S \subseteq Nodes
  BY <1>1 DEF Chained
<1>3. ASSUME NEW b \in Buckets(Size)
      PROVE  /\ ChainOf(chain, b) = F[b] /\ F[b] \in Seq(Nodes) /\ Distinct(F[b])
             /\ Range(F[b]) = {n \in S : Home(n, Size) = b}
             /\ \A i \in 1 .. Len(F[b]) : /\ hash[F[b][i]] = HashOf[KeyOf[F[b][i]]]
                                          /\ F[b][i] \in S /\ Home(F[b][i], Size) = b
  <2>1. ChainOf(chain, b) = F[b]
    BY <1>1, ChainIs
  <2>2. F[b] \in Seq(Nodes) /\ Distinct(F[b]) /\ Range(F[b]) = {n \in S : Home(n, Size) = b}
    BY <1>2 DEF Placed
  <2>3. \A i \in 1 .. Len(F[b]) : F[b][i] \in S /\ Home(F[b][i], Size) = b
    BY <1>2, CellIs
  <2> QED BY <2>1, <2>2, <2>3
<1>4. base \in X /\ Holds(base, size, {})
  <2>1. Chained(base, size, [b \in Buckets(size) |-> <<>>], {})
    BY NewChained
  <2> QED BY <2>1 DEF Chained, Holds
<1>5. step \in [(1 .. Size) \X X -> X]
  <2>1. ASSUME NEW p \in (1 .. Size) \X X
        PROVE  MoveChain(p[2], ChainOf(chain, p[1] - 1), size) \in X
    <3>1. p[1] - 1 \in Buckets(Size) /\ p[2] \in Entries(size)
      BY DEF Buckets
    <3> QED BY <1>3, <3>1, MoveChainIs
  <2> QED BY <2>1
<1> HIDE DEF base
<1>6. \E g : Unfolds(g, X, base, Size, step)
  <2> HIDE DEF X, step
  <2> QED BY <1>4, <1>5, Recursion
<1>7. PICK g : Unfolds(g, X, base, Size, step)
  BY <1>6
<1>8. g = Sequel(g)
  <2>1. g \in [0 .. Size -> X] /\ g[0] = base /\ \A k \in 1 .. Size : g[k] = step[<<k, g[k - 1]>>]
    BY <1>7 DEF Unfolds
  <2>2. ASSUME NEW k \in 1 .. Size
        PROVE  g[k] = MoveChain(g[k - 1], ChainOf(chain, k - 1), size)
    <3>1. g[k - 1] \in X
      <4>1. k - 1 \in 0 .. Size
        OBVIOUS
      <4> HIDE DEF X
      <4> QED BY <2>1, <4>1
    <3>2. step[<<k, g[k - 1]>>] = MoveChain(g[k - 1], ChainOf(chain, k - 1), size)
      <4> HIDE DEF X
      <4> QED BY <3>1
    <3> QED BY <2>1, <3>2
  <2>3. \A k \in 0 .. Size : k = 0 \/ k \in 1 .. Size
    OBVIOUS
  <2>4. \A k \in 0 .. Size : g[k] = IF k = 0 THEN base ELSE MoveChain(g[k - 1], ChainOf(chain, k - 1), size)
    <3> HIDE DEF X, step
    <3> QED BY <2>1, <2>2, <2>3
  <2>5. g = [k \in 0 .. Size |-> g[k]]
    BY <2>1
  <2> HIDE DEF X, step
  <2> QED BY <2>4, <2>5
<1>9. moved = Sequel(moved)
  <2> HIDE DEF Sequel
  <2> QED BY <1>8
<1>10. \A b \in 0 .. Size : moved[b] = IF b = 0 THEN base ELSE MoveChain(moved[b - 1], ChainOf(chain, b - 1), size)
  <2> TAKE b \in 0 .. Size
  <2>1. Sequel(moved)[b] = IF b = 0 THEN base ELSE MoveChain(moved[b - 1], ChainOf(chain, b - 1), size)
    OBVIOUS
  <2> HIDE DEF moved, Sequel
  <2> QED BY <1>9, <2>1
<1>11. RehashInto(NewEntries(size), size) = moved[Size]
  BY DEF RehashInto, base
<1> HIDE DEF moved, Sequel, step, X
<1> DEFINE Upto(b) == {n \in S : Home(n, Size) < b}
           T == {b \in 0 .. Size : Holds(moved[b], size, Upto(b))}
<1>12. \A n \in S : Home(n, Size) \in 0 .. Size - 1
  BY <1>2, HomeIs DEF Buckets
<1>13. 0 \in T
  <2>1. Upto(0) = {}
    BY <1>12
  <2> HIDE DEF Upto
  <2> QED BY <1>4, <1>10, <2>1
<1>14. ASSUME NEW b \in 0 .. Size - 1, b \in T PROVE b + 1 \in T
  <2>1. b + 1 \in 1 .. Size /\ b + 1 \in 0 .. Size /\ b + 1 # 0 /\ (b + 1) - 1 = b
    OBVIOUS
  <2>0. b \in Buckets(Size)
    BY DEF Buckets
  <2>2. moved[b + 1] = MoveChain(moved[b], F[b], size)
    <3>1. moved[b + 1] = MoveChain(moved[(b + 1) - 1], ChainOf(chain, (b + 1) - 1), size)
      BY <1>10, <2>1
    <3>2. moved[b + 1] = MoveChain(moved[b], ChainOf(chain, b), size)
      BY <2>1, <3>1
    <3> QED BY <1>3, <2>0, <3>2
  <2>3. /\ F[b] \in Seq(Nodes) /\ Distinct(F[b]) /\ Range(F[b]) = {n \in S : Home(n, Size) = b}
        /\ \A i \in 1 .. Len(F[b]) : /\ hash[F[b][i]] = HashOf[KeyOf[F[b][i]]]
                                     /\ F[b][i] \in S /\ Home(F[b][i], Size) = b
    BY <1>3, <2>0
  <2>4. Holds(moved[b], size, Upto(b)) /\ moved[b] \in Entries(size)
    BY <1>14 DEF Holds, Chained
  <2>5. \A i \in 1 .. Len(F[b]) : F[b][i] \notin Upto(b)
    BY <2>3
  <2>6. Upto(b + 1) = Upto(b) \cup Range(F[b])
    BY <1>12, <2>3
  <2> HIDE DEF Upto
  <2>7. Holds(moved[b + 1], size, Upto(b + 1))
    BY <2>2, <2>3, <2>4, <2>5, <2>6, MoveChainIs
  <2> QED BY <2>1, <2>7
<1>15. Size \in T
  <2> HIDE DEF T
  <2> QED BY <1>13, <1>14, Induction
<1>16. Upto(Size) = S
  BY <1>12
<1> HIDE DEF Upto
<1> QED BY <1>11, <1>15, <1>16

-----------------------------------------------------------------------------
(* The inductive invariant *)

KeysDiffer(S) == \A m, n \in S : KeyOf[m] = KeyOf[n] => m = n

(* The nodes p: one ring and one set of chains hold them, in the order of  *)
(* p and by the hash values stored in them, and no two have the same key.  *)
Stores(p, r, c, size, h) ==
  /\ Rings(r, p) /\ Holds(c, size, Range(p))
  /\ KeysDiffer(Range(p)) /\ \A n \in Range(p) : h[n] = HashOf[KeyOf[n]]

Sized(i, count, p) ==
  /\ Len(p) <= count
  /\ i < Len(Primes) => (count - 1) * LoadDen < Primes[i] * LoadNum

(* The iteration over s has shown v; the first k of the nodes p, which are *)
(* still in the ring, are behind it, and the rest of s is the rest of p.   *)
Shows(p, k, v, s, x, y) ==
  /\ k \in 0 .. Len(p) /\ v \in Seq(Nodes) /\ s \in Seq(Nodes)
  /\ Len(s) = Len(v) + (Len(p) - k)
  /\ \A i \in 1 .. Len(v) : s[i] = v[i]
  /\ \A i \in 1 .. Len(p) - k : s[Len(v) + i] = p[k + i]
  /\ x = Spot(p, k + 1) /\ y \in Links /\ (x # ListHead => y = Spot(p, k + 2))

Iterates(m, p, v, s, x, y) ==
  /\ m \in {"ready", "visit", "fini", "dead"}
  /\ m = "visit" => \E k \in Nat : Shows(p, k, v, s, x, y)
  /\ m = "fini" => Shows(p, 0, v, s, x, y)
  /\ m \in {"ready", "dead"} => v = <<>> /\ s = <<>> /\ x = Null /\ y = Null
  /\ m = "dead" => p = <<>>

Types ==
  /\ primeIndex \in 1 .. Len(Primes)
  /\ nrNodes \in 0 .. MaxCount
  /\ hash \in [Nodes -> {0} \cup {HashOf[k] : k \in Keys}]

IInv == /\ Types
        /\ Stores(Order, ring, chain, Size, hash)
        /\ Sized(primeIndex, nrNodes, Order)
        /\ Iterates(mode, Order, visited, shown, pos, nxt)

LEMMA OrderIs == Order = OrderOf(ring) /\ Order' = OrderOf(ring')
BY DEF Order, OrderOf

LEMMA SizeIs == primeIndex \in 1 .. Len(Primes) => Size \in Nat \ {0}
BY HashTableAssumption DEF Size

(* __HashTable_Find: the node with the key if the table has one, or Null.  *)
LEMMA FindIs ==
  ASSUME Size \in Nat \ {0}, NEW S, Holds(chain, Size, S), KeysDiffer(S), NEW key \in Keys
  PROVE  LET found == FindNode(HashOf[key], key)
         IN  /\ \/ found \in S /\ KeyOf[found] = key /\ found # Null
                \/ found = Null /\ \A n \in S : KeyOf[n] # key
             /\ \A n \in S : KeyOf[n] = key => found = n
<1> DEFINE b == HashOf[key] % Size
           nodes == ChainOf(chain, b)
           equal == {i \in DOMAIN nodes : KeyOf[nodes[i]] = key}
           found == FindNode(HashOf[key], key)
<1>1. PICK F : Chained(chain, Size, F, S)
  BY DEF Holds
<1>2. Placed(F, Size, S) /\ S \subseteq Nodes
  BY <1>1 DEF Chained
<1>3. b \in Buckets(Size)
  BY HashTableAssumption, Remainder
<1>4. /\ nodes \in Seq(Nodes) /\ Len(nodes) \in Nat /\ DOMAIN nodes = 1 .. Len(nodes)
      /\ \A i \in 1 .. Len(nodes) : nodes[i] \in Nodes /\ nodes[i] \in S
      /\ \A n \in S : Home(n, Size) = b => \E i \in 1 .. Len(nodes) : n = nodes[i]
  <2>1. nodes = F[b]
    BY <1>1, <1>3, ChainIs
  <2> HIDE DEF nodes, b
  <2> QED BY <1>2, <1>3, <2>1, CellIs
<1>5. found = IF equal = {} THEN Null ELSE nodes[Min(equal)]
  BY DEF FindNode
<1>6. ASSUME NEW n \in S, KeyOf[n] = key PROVE \E i \in equal : nodes[i] = n
  <2>1. Home(n, Size) = b
    BY <1>6 DEF Home
  <2> HIDE DEF b, nodes
  <2> QED BY <1>4, <1>6, <2>1
<1>7. equal \in SUBSET Nat
  BY <1>4
<1>8. equal # {} => Min(equal) \in equal
  <2> HIDE DEF equal
  <2>1. ASSUME equal # {} PROVE \E m \in equal : \A k \in equal : m <= k
    BY <1>7, <2>1, Least
  <2> QED BY <2>1 DEF Min
<1>9. \A i \in equal : nodes[i] \in S /\ KeyOf[nodes[i]] = key /\ nodes[i] \in Nodes
  BY <1>4
<1> HIDE DEF found, equal, nodes, b
<1>10. Null \notin Nodes
  BY HashTableAssumption
<1>11. CASE equal = {}
  BY <1>5, <1>6, <1>11 DEF found
<1>12. CASE equal # {}
  <2>1. found \in S /\ KeyOf[found] = key /\ found # Null
    BY <1>5, <1>8, <1>9, <1>10, <1>12
  <2>2. \A n \in S : KeyOf[n] = key => found = n
    BY <2>1 DEF KeysDiffer
  <2> QED BY <2>1, <2>2 DEF found
<1> QED BY <1>11, <1>12

(* What is not in the ring is in no chain.                                 *)
LEMMA UnhashedIs ==
  ASSUME Size \in Nat \ {0}, NEW S, Holds(chain, Size, S), NEW n \in Nodes
  PROVE  Unhashed(chain, n) <=> n \notin S
<1>1. PICK F : Chained(chain, Size, F, S)
  BY DEF Holds
<1>2. Placed(F, Size, S)
  BY <1>1 DEF Chained
<1>3. CASE n \notin S
  BY <1>1, <1>3 DEF Chained, Unhashed
<1>4. CASE n \in S
  <2>1. Home(n, Size) \in Buckets(Size)
    BY HomeIs
  <2>2. PICK i \in 1 .. Len(F[Home(n, Size)]) : n = F[Home(n, Size)][i]
    BY <1>2, <1>4, <2>1, CellIs
  <2>3. ~ Unhashed(chain, n)
    BY <1>1, <2>1, <2>2, ChainRemove
  <2> QED BY <1>4, <2>3
<1> QED BY <1>3, <1>4

(* hlist_del, by the node alone.                                           *)
LEMMA UnchainIs ==
  ASSUME NEW size \in Nat \ {0}, NEW c, NEW S, Holds(c, size, S), NEW n \in S
  PROVE  n \in Nodes /\ Holds(HlistDel(c, n), size, S \ {n})
<1>1. PICK F : Chained(c, size, F, S)
  BY DEF Holds
<1>2. Placed(F, size, S) /\ n \in Nodes
  BY <1>1 DEF Chained
<1> DEFINE b == Home(n, size)
<1>3. b \in Buckets(size)
  BY <1>2, HomeIs
<1>4. PICK i \in 1 .. Len(F[b]) : n = F[b][i]
  BY <1>2, <1>3, CellIs
<1> HIDE DEF b
<1>5. Chained(HlistDel(c, n), size, [F EXCEPT ![b] = RemoveAt(@, i)], S \ {n})
  BY <1>1, <1>3, <1>4, ChainRemove
<1> QED BY <1>2, <1>5 DEF Holds

LEMMA EnchainIs ==
  ASSUME NEW size \in Nat \ {0}, NEW c, NEW S, Holds(c, size, S), NEW n \in Nodes, n \notin S
  PROVE  Holds(HlistAdd(c, n, HashOf[KeyOf[n]] % size), size, S \cup {n})
<1>1. PICK F : Chained(c, size, F, S)
  BY DEF Holds
<1> DEFINE b == Home(n, size)
<1>2. b = HashOf[KeyOf[n]] % size
  BY DEF Home
<1> HIDE DEF b
<1>3. Chained(HlistAdd(c, n, b), size, [F EXCEPT ![b] = <<n>> \o @], S \cup {n})
  BY <1>1, ChainAdd DEF b
<1> QED BY <1>2, <1>3 DEF Holds

-----------------------------------------------------------------------------
(* Iteration *)

LEMMA ShowsIs ==
  ASSUME NEW p \in Seq(Nodes), NEW k, NEW v, NEW s, NEW x, NEW y, Shows(p, k, v, s, x, y)
  PROVE  /\ x \in Links /\ y \in Links
         /\ x # ListHead => k + 1 \in 1 .. Len(p) /\ x = p[k + 1] /\ x \in Nodes
         /\ x = ListHead => k = Len(p) /\ v = s
<1>1. k \in 0 .. Len(p) /\ Len(p) \in Nat /\ k + 1 \in Int
  BY DEF Shows
<1>2. x \in Links /\ y \in Links
  BY <1>1, SpotIs DEF Shows
<1>3. ASSUME x # ListHead PROVE k + 1 \in 1 .. Len(p) /\ x = p[k + 1] /\ x \in Nodes
  BY <1>1, <1>3 DEF Shows, Spot
<1>4. ASSUME x = ListHead PROVE k = Len(p) /\ v = s
  <2>1. k = Len(p)
    <3>1. k + 1 \in 1 .. Len(p) => Spot(p, k + 1) # ListHead
      BY SpotIs
    <3> QED BY <1>1, <1>4, <3>1 DEF Shows
  <2>2. /\ v \in Seq(Nodes) /\ s \in Seq(Nodes) /\ Len(s) = Len(v) + (Len(p) - k)
        /\ \A i \in 1 .. Len(v) : s[i] = v[i]
    BY DEF Shows
  <2>3. Len(s) = Len(v) /\ Len(v) \in Nat
    BY <1>1, <2>1, <2>2
  <2> QED BY <2>1, <2>2, <2>3
<1> QED BY <1>2, <1>3, <1>4

LEMMA ShowsKeep ==
  ASSUME NEW p \in Seq(Nodes), NEW k, NEW v, NEW s, NEW x, NEW y, Shows(p, k, v, s, x, y),
         x # ListHead, NEW z \in Links, y # ListHead => z = Spot(p, (k + 1) + 2)
  PROVE  Shows(p, k + 1, Append(v, x), s, y, z)
<1> DEFINE u == Append(v, x)
<1>0. /\ k \in 0 .. Len(p) /\ Len(p) \in Nat /\ Len(v) \in Nat /\ Len(s) = Len(v) + (Len(p) - k)
      /\ v \in Seq(Nodes) /\ s \in Seq(Nodes)
      /\ \A i \in 1 .. Len(v) : s[i] = v[i]
      /\ \A i \in 1 .. Len(p) - k : s[Len(v) + i] = p[k + i]
      /\ y = Spot(p, k + 2)
  BY DEF Shows
<1>1. k + 1 \in 1 .. Len(p) /\ x = p[k + 1] /\ x \in Nodes
  BY ShowsIs
<1>2. u \in Seq(Nodes) /\ Len(u) = Len(v) + 1 /\ u[Len(v) + 1] = x /\ \A i \in 1 .. Len(v) : u[i] = v[i]
  BY <1>0, <1>1
<1> HIDE DEF u
<1>3. s[Len(v) + 1] = x
  <2>1. 1 \in 1 .. Len(p) - k
    BY <1>0, <1>1
  <2> QED BY <1>0, <1>1, <2>1
<1>4. \A i \in 1 .. Len(u) : s[i] = u[i]
  BY <1>0, <1>1, <1>2, <1>3, SMTT(30)
<1>5. ASSUME NEW i \in 1 .. Len(p) - (k + 1) PROVE s[Len(u) + i] = p[(k + 1) + i]
  <2>1. i + 1 \in 1 .. Len(p) - k /\ Len(u) + i = Len(v) + (i + 1) /\ (k + 1) + i = k + (i + 1)
    BY <1>0, <1>1, <1>2
  <2> QED BY <1>0, <1>1, <2>1
<1>6. Len(s) = Len(u) + (Len(p) - (k + 1)) /\ k + 1 \in 0 .. Len(p) /\ (k + 1) + 1 = k + 2
  <2>1. k \in Int /\ Len(p) \in Int /\ Len(v) \in Int /\ Len(s) = Len(v) + (Len(p) - k) /\ Len(u) = Len(v) + 1
    BY <1>0, <1>2
  <2>2. Len(v) + (Len(p) - k) = (Len(v) + 1) + (Len(p) - (k + 1)) /\ (k + 1) + 1 = k + 2
    BY <2>1
  <2>3. k + 1 \in 0 .. Len(p)
    BY <1>0, <1>1
  <2> QED BY <2>1, <2>2, <2>3
<1>7. y = Spot(p, (k + 1) + 1) /\ y \in Links
  BY <1>0, <1>1, <1>6, ShowsIs
<1> QED BY <1>0, <1>1, <1>2, <1>4, <1>5, <1>6, <1>7 DEF Shows, u

LEMMA ShowsUnlink ==
  ASSUME NEW p \in Seq(Nodes), NEW k, NEW v, NEW s, NEW x, NEW y, Shows(p, k, v, s, x, y),
         x # ListHead, NEW z \in Links, y # ListHead => z = Spot(RemoveAt(p, k + 1), k + 2)
  PROVE  Shows(RemoveAt(p, k + 1), k, Append(v, x), s, y, z)
<1> DEFINE u == Append(v, x)
           q == RemoveAt(p, k + 1)
<1>0. /\ k \in 0 .. Len(p) /\ Len(p) \in Nat /\ Len(v) \in Nat /\ Len(s) = Len(v) + (Len(p) - k)
      /\ v \in Seq(Nodes) /\ s \in Seq(Nodes)
      /\ \A i \in 1 .. Len(v) : s[i] = v[i]
      /\ \A i \in 1 .. Len(p) - k : s[Len(v) + i] = p[k + i]
      /\ y = Spot(p, k + 2)
  BY DEF Shows
<1>1. k + 1 \in 1 .. Len(p) /\ x = p[k + 1] /\ x \in Nodes
  BY ShowsIs
<1>2. u \in Seq(Nodes) /\ Len(u) = Len(v) + 1 /\ u[Len(v) + 1] = x /\ \A i \in 1 .. Len(v) : u[i] = v[i]
  BY <1>0, <1>1
<1>3. /\ q \in Seq(Nodes) /\ Len(q) = Len(p) - 1
      /\ \A j \in 1 .. Len(p) - 1 : q[j] = IF j < k + 1 THEN p[j] ELSE p[j + 1]
  BY <1>0, <1>1, RemoveAtIs
<1> HIDE DEF u, q
<1>4. s[Len(v) + 1] = x
  <2>1. 1 \in 1 .. Len(p) - k
    BY <1>0, <1>1
  <2> QED BY <1>0, <1>1, <2>1
<1>5. \A i \in 1 .. Len(u) : s[i] = u[i]
  BY <1>0, <1>1, <1>2, <1>4
<1>6. ASSUME NEW i \in 1 .. Len(q) - k PROVE s[Len(u) + i] = q[k + i]
  <2>0. /\ k \in Int /\ Len(p) \in Int /\ Len(v) \in Int /\ i \in Int
        /\ Len(u) = Len(v) + 1 /\ Len(q) = Len(p) - 1 /\ i \in 1 .. Len(q) - k
    BY <1>0, <1>2, <1>3
  <2>1. i + 1 \in 1 .. Len(p) - k /\ Len(u) + i = Len(v) + (i + 1) /\ k + (i + 1) = (k + i) + 1
    BY <2>0
  <2>2. k + i \in 1 .. Len(p) - 1 /\ ~ (k + i < k + 1)
    BY <1>0, <1>1, <1>3
  <2> QED BY <1>0, <1>1, <1>3, <2>1, <2>2, ZenonT(40)
<1>7. Len(s) = Len(u) + (Len(q) - k) /\ k \in 0 .. Len(q)
  BY <1>0, <1>1, <1>2, <1>3
<1>8. y = Spot(q, k + 1) /\ y \in Links
  <2>1. Spot(q, k + 1) = Spot(p, k + 2)
    <3>1. k + 1 \in 1 .. Len(q) <=> k + 2 \in 1 .. Len(p)
      BY <1>0, <1>1, <1>3
    <3>2. k + 1 \in 1 .. Len(q) => q[k + 1] = p[k + 2]
      <4>1. ~ (k + 1 < k + 1) /\ (k + 1) + 1 = k + 2
        BY <1>0, <1>1
      <4> QED BY <1>3, <4>1
    <3> QED BY <3>1, <3>2 DEF Spot
  <2> QED BY <1>0, <1>1, <2>1, ShowsIs
<1> QED BY <1>2, <1>3, <1>5, <1>6, <1>7, <1>8 DEF Shows, u, q

LEMMA ShowsPrefix ==
  ASSUME NEW p \in Seq(Nodes), NEW k, NEW v, NEW s, NEW x, NEW y, Shows(p, k, v, s, x, y)
  PROVE  IsPrefix(v, s)
<1>1. /\ k \in 0 .. Len(p) /\ Len(p) \in Nat /\ v \in Seq(Nodes) /\ s \in Seq(Nodes)
      /\ Len(v) \in Nat /\ Len(s) = Len(v) + (Len(p) - k) /\ Len(s) \in Nat
      /\ \A i \in 1 .. Len(v) : s[i] = v[i]
  BY DEF Shows
<1>2. Len(v) <= Len(s)
  BY <1>1
<1>3. SubSeq(v, 1, Len(v)) = SubSeq(s, 1, Len(v))
  <2>1. \A i \in 1 .. Len(v) : i \in 1 .. Len(s)
    BY <1>1
  <2> QED BY <1>1, <1>2, <2>1
<1> QED BY <1>2, <1>3 DEF IsPrefix

-----------------------------------------------------------------------------
(* The invariant implies what the runs check *)

LEMMA StoresIs ==
  ASSUME NEW p, NEW r, NEW c, NEW size, NEW h, Stores(p, r, c, size, h)
  PROVE  p \in Seq(Nodes) /\ Distinct(p) /\ Len(p) \in Nat /\ Range(p) \subseteq Nodes /\ OrderOf(r) = p
<1>1. p \in Seq(Nodes) /\ Distinct(p)
  BY DEF Stores, Rings
<1> QED BY <1>1, RangeIs, RingOrder DEF Stores

LEMMA RingAgrees ==
  ASSUME NEW r, NEW s, Rings(r, s)
  PROVE  \A x \in Links : r.prev[r.next[x]] = x /\ r.next[r.prev[x]] = x
<1>1. s \in Seq(Nodes) /\ Len(s) \in Nat
  BY DEF Rings
<1> TAKE x \in Links
<1>2. CASE x \in Nodes \ Range(s)
  BY <1>2 DEF Rings
<1>3. CASE ~ (x \in Nodes \ Range(s))
  <2>1. \E i \in 0 .. Len(s) : x = Spot(s, i)
    <3>1. CASE x = ListHead
      BY <1>1, <3>1, SpotIs
    <3>2. CASE x # ListHead
      <4>1. PICK i \in 1 .. Len(s) : x = s[i]
        BY <1>1, <1>3, <3>2, RangeIs DEF Links
      <4> QED BY <1>1, <4>1, SpotIs
    <3> QED BY <3>1, <3>2
  <2>2. \E i \in 0 .. Len(s) : x = Spot(s, i + 1)
    <3>1. CASE x = ListHead
      BY <1>1, <3>1, SpotIs
    <3>2. CASE x # ListHead
      <4>1. PICK i \in 1 .. Len(s) : x = s[i]
        BY <1>1, <1>3, <3>2, RangeIs DEF Links
      <4>2. i - 1 \in 0 .. Len(s) /\ (i - 1) + 1 = i
        BY <1>1
      <4> QED BY <1>1, <4>1, <4>2, SpotIs
    <3> QED BY <3>1, <3>2
  <2>3. \A i \in 0 .. Len(s) : r.next[Spot(s, i)] = Spot(s, i + 1) /\ r.prev[Spot(s, i + 1)] = Spot(s, i)
    BY DEF Rings
  <2> QED BY <2>1, <2>2, <2>3
<1> QED BY <1>2, <1>3

LEMMA ChainsAgree ==
  ASSUME NEW size \in Nat \ {0}, NEW c, NEW S, Holds(c, size, S)
  PROVE  /\ \A n \in Nodes : c.pprev[n] # Null => c.cell[c.pprev[n]] = n
         /\ \A x \in DOMAIN c.cell : c.cell[x] # Null => c.pprev[c.cell[x]] = x
<1>1. PICK F : Chained(c, size, F, S)
  BY DEF Holds
<1>2. /\ Placed(F, size, S) /\ S \subseteq Nodes /\ DOMAIN c.cell = Nodes \cup Buckets(size)
      /\ \A b \in Buckets(size) : \A i \in 0 .. Len(F[b]) : c.cell[Cell(F[b], b, i)] = Cell(F[b], b, i + 1)
      /\ \A b \in Buckets(size) : \A i \in 1 .. Len(F[b]) : c.pprev[F[b][i]] = Cell(F[b], b, i - 1)
      /\ \A n \in Nodes \ S : c.cell[n] = Null /\ c.pprev[n] = Null
  BY <1>1 DEF Chained, Entries
<1>3. ASSUME NEW n \in S
      PROVE  \E b \in Buckets(size) : \E i \in 1 .. Len(F[b]) : n = Cell(F[b], b, i) /\ n = F[b][i]
  <2>1. Home(n, size) \in Buckets(size)
    BY <1>2, HomeIs
  <2>2. PICK i \in 1 .. Len(F[Home(n, size)]) : n = F[Home(n, size)][i]
    BY <1>2, <2>1, CellIs
  <2> QED BY <1>2, <2>1, <2>2, CellIs
<1>4. ASSUME NEW n \in Nodes, c.pprev[n] # Null PROVE c.cell[c.pprev[n]] = n
  <2>0. PICK b \in Buckets(size) : \E i \in 1 .. Len(F[b]) : n = Cell(F[b], b, i) /\ n = F[b][i]
    BY <1>2, <1>3, <1>4
  <2>1. PICK i \in 1 .. Len(F[b]) : n = Cell(F[b], b, i) /\ n = F[b][i]
    BY <2>0
  <2>2. i - 1 \in 0 .. Len(F[b]) /\ (i - 1) + 1 = i
    BY <1>2, CellIs
  <2>3. c.pprev[n] = Cell(F[b], b, i - 1)
    BY <1>2, <2>1
  <2>4. c.cell[Cell(F[b], b, i - 1)] = Cell(F[b], b, (i - 1) + 1)
    BY <1>2, <2>2
  <2> QED BY <2>1, <2>2, <2>3, <2>4
<1>5. ASSUME NEW x \in DOMAIN c.cell, c.cell[x] # Null PROVE c.pprev[c.cell[x]] = x
  <2>1. \E b \in Buckets(size) : \E i \in 0 .. Len(F[b]) : x = Cell(F[b], b, i)
    <3>1. CASE x \in Buckets(size)
      BY <1>2, <3>1, CellIs
    <3>2. CASE x \in Nodes
      <4>0. PICK b \in Buckets(size) : \E i \in 1 .. Len(F[b]) : x = Cell(F[b], b, i)
        BY <1>2, <1>3, <1>5, <3>2
      <4>1. PICK i \in 1 .. Len(F[b]) : x = Cell(F[b], b, i)
        BY <4>0
      <4>2. i \in 0 .. Len(F[b])
        OBVIOUS
      <4> QED BY <4>1, <4>2
    <3> QED BY <1>2, <1>5, <3>1, <3>2
  <2>0. PICK b \in Buckets(size) : \E i \in 0 .. Len(F[b]) : x = Cell(F[b], b, i)
    BY <2>1
  <2>2. PICK i \in 0 .. Len(F[b]) : x = Cell(F[b], b, i)
    BY <2>0
  <2>3. c.cell[x] = Cell(F[b], b, i + 1) /\ Len(F[b]) \in Nat
    BY <1>2, <2>2, CellIs
  <2>4. i + 1 \in 1 .. Len(F[b]) /\ (i + 1) - 1 = i
    <3>1. i # Len(F[b])
      BY <1>2, <1>5, <2>3, CellIs
    <3> QED BY <2>3, <3>1
  <2>5. c.cell[x] = F[b][i + 1]
    BY <1>2, <2>3, <2>4, CellIs
  <2>6. c.pprev[F[b][i + 1]] = Cell(F[b], b, (i + 1) - 1)
    BY <1>2, <2>4
  <2> QED BY <2>2, <2>4, <2>5, <2>6
<1> QED BY <1>4, <1>5

LEMMA Monotonic ==
  ASSUME NEW a \in Int, NEW b \in Int, a <= b, NEW d \in Nat
  PROVE  a * d <= b * d /\ a * d \in Int /\ b * d \in Int
OBVIOUS

LEMMA InvariantIsConsistent ==
  ASSUME IInv
  PROVE  Consistent
<1>1. Types /\ Stores(Order, ring, chain, Size, hash) /\ Sized(primeIndex, nrNodes, Order)
      /\ Iterates(mode, Order, visited, shown, pos, nxt)
  BY DEF IInv
<1>2. Size \in Nat \ {0}
  BY <1>1, SizeIs DEF Types
<1>3. /\ Rings(ring, Order) /\ Holds(chain, Size, Range(Order))
      /\ Order \in Seq(Nodes) /\ Distinct(Order) /\ Len(Order) \in Nat
  BY <1>1, StoresIs DEF Stores
<1>4. mode \in {"visit", "fini"} => \E k \in Nat : Shows(Order, k, visited, shown, pos, nxt)
  <2>1. 0 \in Nat
    OBVIOUS
  <2> QED BY <1>1, <2>1 DEF Iterates
<1>5. mode \in {"ready", "dead"} => visited = <<>> /\ shown = <<>> /\ pos = Null /\ nxt = Null
  BY <1>1 DEF Iterates
<1>6. mode \in {"ready", "visit", "fini", "dead"}
  BY <1>1 DEF Iterates
<1>7. TypeOK
  <2>1. {pos, nxt} \subseteq Links \cup {Null}
    <3>1. CASE mode \in {"visit", "fini"}
      BY <1>3, <1>4, <3>1, ShowsIs
    <3>2. CASE mode \in {"ready", "dead"}
      BY <1>5, <3>2
    <3> QED BY <1>6, <3>1, <3>2
  <2>2. ring \in [next : [Links -> Links], prev : [Links -> Links]]
    BY <1>3 DEF Rings
  <2>3. chain \in [cell  : [Nodes \cup Buckets(Size) -> Nodes \cup {Null}],
                   pprev : [Nodes -> Nodes \cup Buckets(Size) \cup {Null}]]
    BY <1>3 DEF Holds, Chained, Entries
  <2> QED BY <1>1, <1>6, <2>1, <2>2, <2>3 DEF TypeOK, Types
<1>8. RingLinked
  BY <1>3, RingAgrees DEF RingLinked
<1>9. ChainsLinked
  BY <1>2, <1>3, ChainsAgree DEF ChainsLinked, Unhashed
<1>10. WellPlaced
  <2>1. PICK F : Chained(chain, Size, F, Range(Order))
    BY <1>3 DEF Holds
  <2>2. Placed(F, Size, Range(Order))
    BY <2>1 DEF Chained
  <2>3. ASSUME NEW b \in Buckets(Size)
        PROVE  Range(ChainOf(chain, b)) = {n \in Range(Order) : HashOf[KeyOf[n]] % Size = b}
    <3>1. ChainOf(chain, b) = F[b]
      BY <1>2, <2>1, ChainIs
    <3>2. Range(F[b]) = {n \in Range(Order) : Home(n, Size) = b}
      BY <2>2 DEF Placed
    <3> QED BY <3>1, <3>2 DEF Home
  <2> QED BY <2>3 DEF WellPlaced
<1>11. LoadKept
  <2>1. Len(Order) <= nrNodes /\ nrNodes \in Nat
    BY <1>1 DEF Sized, Types
  <2>2. ASSUME primeIndex < Len(Primes) PROVE (Len(Order) - 1) * LoadDen < Size * LoadNum
    <3>1. (nrNodes - 1) * LoadDen < Size * LoadNum
      BY <1>1, <2>2 DEF Sized, Size
    <3>2. LoadDen \in Nat /\ LoadNum \in Nat
      BY HashTableAssumption
    <3>3. (Len(Order) - 1) * LoadDen <= (nrNodes - 1) * LoadDen
      <4>1. Len(Order) - 1 \in Int /\ nrNodes - 1 \in Int /\ Len(Order) - 1 <= nrNodes - 1
        BY <1>3, <2>1
      <4> QED BY <3>2, <4>1, Monotonic
    <3>4. /\ (Len(Order) - 1) * LoadDen \in Int /\ (nrNodes - 1) * LoadDen \in Int
          /\ Size * LoadNum \in Int
      BY <1>2, <1>3, <2>1, <3>2
    <3> QED BY <3>1, <3>3, <3>4
  <2>3. nrNodes >= Len(Order)
    BY <1>3, <2>1
  <2> QED BY <2>2, <2>3 DEF LoadKept
<1>12. InOrder
  <2>1. CASE mode \in {"visit", "fini"}
    BY <1>3, <1>4, <2>1, ShowsPrefix DEF InOrder
  <2>2. CASE mode \in {"ready", "dead"}
    <3>1. IsPrefix(<<>>, <<>>)
      BY DEF IsPrefix
    <3> QED BY <1>5, <2>2, <3>1 DEF InOrder
  <2> QED BY <1>6, <2>1, <2>2
<1> QED BY <1>7, <1>8, <1>9, <1>10, <1>11, <1>12 DEF Consistent

-----------------------------------------------------------------------------
(* Every step preserves it *)

LEMMA NothingStored ==
  ASSUME NEW h, NEW size \in Nat
  PROVE  Stores(<<>>, InitRing, NewEntries(size), size, h)
<1>1. Range(<<>>) = {}
  BY DEF Range
<1>2. Holds(NewEntries(size), size, {})
  BY NewChained DEF Holds
<1> QED BY <1>1, <1>2, InitRings DEF Stores, KeysDiffer

LEMMA NothingSized == primeIndex \in 1 .. Len(Primes) => Sized(primeIndex, 0, <<>>)
<1> SUFFICES ASSUME primeIndex \in 1 .. Len(Primes) PROVE Sized(primeIndex, 0, <<>>)
  OBVIOUS
<1>1. Primes[primeIndex] \in Nat /\ LoadDen \in Nat \ {0} /\ LoadNum \in Nat
  BY HashTableAssumption
<1>2. (0 - 1) * LoadDen < 0 /\ 0 <= Primes[primeIndex] * LoadNum
      /\ (0 - 1) * LoadDen \in Int /\ Primes[primeIndex] * LoadNum \in Int
  BY <1>1
<1>3. (0 - 1) * LoadDen < Primes[primeIndex] * LoadNum
  BY <1>2
<1> QED BY <1>3 DEF Sized

LEMMA InitInv == Init => IInv
<1> SUFFICES ASSUME Init PROVE IInv
  OBVIOUS
<1>1. primeIndex = 1 /\ 1 \in 1 .. Len(Primes) /\ Size \in Nat \ {0} /\ Size = Primes[1]
  <2>1. 1 \in 1 .. Len(Primes)
    BY HashTableAssumption
  <2> QED BY <2>1, SizeIs DEF Init, Size
<1>2. Stores(<<>>, ring, chain, Size, hash)
  BY <1>1, NothingStored DEF Init
<1>3. Order = <<>>
  BY <1>2, StoresIs, OrderIs
<1>4. Sized(primeIndex, nrNodes, <<>>)
  BY <1>1, NothingSized DEF Init
<1>5. Types
  BY <1>1, HashTableAssumption DEF Init, Types
<1>6. Iterates(mode, <<>>, visited, shown, pos, nxt)
  BY DEF Init, Iterates
<1> QED BY <1>2, <1>3, <1>4, <1>5, <1>6 DEF IInv

LEMMA TableKept ==
  ASSUME UNCHANGED table
  PROVE  /\ Order' = Order /\ Size' = Size
         /\ Types => Types'
         /\ Stores(Order, ring, chain, Size, hash) => Stores(Order', ring', chain', Size', hash')
         /\ Sized(primeIndex, nrNodes, Order) => Sized(primeIndex', nrNodes', Order')
<1>1. Order' = Order /\ Size' = Size
  BY DEF Order, Size, table
<1>2. Types => Types'
  BY DEF Types, table
<1> QED BY <1>1, <1>2 DEF table

LEMMA WalkKept ==
  ASSUME UNCHANGED walk, mode = "ready", NEW p, Iterates(mode, Order, visited, shown, pos, nxt)
  PROVE  Iterates(mode', p, visited', shown', pos', nxt')
BY DEF Iterates, walk

(* htable_expand chooses a size that is large enough, or the largest.      *)
LEMMA GrowthIs ==
  ASSUME primeIndex \in 1 .. Len(Primes)
  PROVE  LET index == IF GrowNow THEN ProperPrimeIndex ELSE primeIndex
         IN  index \in 1 .. Len(Primes) /\ (index < Len(Primes) => Fits(index))
<1> DEFINE fitting == {i \in primeIndex .. Len(Primes) : Fits(i)}
           P == ProperPrimeIndex
<1>1. P = IF fitting = {} THEN Len(Primes) ELSE Min(fitting)
  BY DEF ProperPrimeIndex
<1>2. Len(Primes) \in Nat /\ primeIndex \in Nat
  BY HashTableAssumption
<1>3. fitting \in SUBSET Nat
  BY <1>2
<1>4. fitting # {} => Min(fitting) \in fitting
  <2> HIDE DEF fitting
  <2>1. ASSUME fitting # {} PROVE \E m \in fitting : \A k \in fitting : m <= k
    BY <1>3, <2>1, Least
  <2> QED BY <2>1 DEF Min
<1>5. P \in primeIndex .. Len(Primes) /\ (P = Len(Primes) \/ Fits(P))
  <2>1. CASE fitting = {}
    BY <1>1, <1>2, <2>1
  <2>2. CASE fitting # {}
    <3>1. P \in fitting
      <4> HIDE DEF fitting, P
      <4> QED BY <1>1, <1>4, <2>2
    <3> HIDE DEF P
    <3> QED BY <3>1
  <2> QED BY <2>1, <2>2
<1> HIDE DEF P, fitting
<1>6. GrowNow <=> ~ Fits(primeIndex) /\ P > primeIndex
  BY DEF GrowNow, P
<1> QED BY <1>2, <1>5, <1>6 DEF P

(* HashTable_Insert of a node with a new key.                              *)
LEMMA InsertNewIs ==
  ASSUME IInv, NEW n \in Nodes, InsertNew(n)
  PROVE  /\ IInv' /\ Order' = Append(Order, n)
         /\ \A m \in Range(Order) : KeyOf[m] # KeyOf[n]
<1> DEFINE S == Range(Order)
           index == IF GrowNow THEN ProperPrimeIndex ELSE primeIndex
           grown == IF GrowNow THEN Rehash(ProperPrimeIndex) ELSE chain
           size == Primes[index]
<1>1. /\ Types /\ Stores(Order, ring, chain, Size, hash) /\ Sized(primeIndex, nrNodes, Order)
      /\ Iterates(mode, Order, visited, shown, pos, nxt)
  BY DEF IInv
<1>2. Size \in Nat \ {0} /\ primeIndex \in 1 .. Len(Primes)
  BY <1>1, SizeIs DEF Types
<1>3. /\ Rings(ring, Order) /\ Holds(chain, Size, S) /\ KeysDiffer(S)
      /\ \A m \in S : hash[m] = HashOf[KeyOf[m]]
      /\ Order \in Seq(Nodes) /\ Distinct(Order) /\ Len(Order) \in Nat
  BY <1>1, StoresIs DEF Stores
<1>4. n \notin S
  BY <1>2, <1>3, UnhashedIs DEF InsertNew
<1>5. \A m \in S : KeyOf[m] # KeyOf[n]
  <2>1. KeyOf[n] \in Keys
    BY DEF Keys
  <2> QED BY <1>2, <1>3, <2>1, FindIs DEF InsertNew
<1>6. index \in 1 .. Len(Primes) /\ (index < Len(Primes) => Fits(index))
  BY <1>2, GrowthIs
<1>7. size \in Nat \ {0}
  <2> HIDE DEF index
  <2> QED BY <1>6, HashTableAssumption
<1>8. primeIndex' = index /\ Size' = size
  BY DEF InsertNew, Size
<1>9. Holds(grown, size, S)
  <2>1. CASE GrowNow
    <3>1. grown = RehashInto(NewEntries(size), size)
      BY <2>1 DEF Rehash
    <3> HIDE DEF size, grown, S
    <3> QED BY <1>2, <1>3, <1>7, <3>1, RehashIs
  <2>2. CASE ~ GrowNow
    BY <1>3, <2>2 DEF Size
  <2> QED BY <2>1, <2>2
<1>10. chain' = HlistAdd(grown, n, HashOf[KeyOf[n]] % size)
  BY <1>8 DEF InsertNew
<1> HIDE DEF grown, size, index
<1>11. Holds(chain', size, S \cup {n})
  BY <1>4, <1>7, <1>9, <1>10, EnchainIs
<1>12. Rings(ring', Append(Order, n))
  BY <1>3, <1>4, RingAppend DEF InsertNew
<1>13. Order' = Append(Order, n)
  BY <1>12, RingOrder, OrderIs
<1>14. Range(Append(Order, n)) = S \cup {n} /\ Len(Append(Order, n)) = Len(Order) + 1
  BY <1>3, <1>4, AppendDistinct
<1>15. hash' = [hash EXCEPT ![n] = HashOf[KeyOf[n]]] /\ hash \in [Nodes -> {0} \cup {HashOf[k] : k \in Keys}]
  BY <1>1 DEF InsertNew, Types
<1>16. Stores(Order', ring', chain', Size', hash')
  <2>1. KeysDiffer(S \cup {n})
    BY <1>3, <1>5 DEF KeysDiffer
  <2>2. \A m \in S \cup {n} : hash'[m] = HashOf[KeyOf[m]]
    <3>1. S \subseteq Nodes
      BY <1>1, StoresIs
    <3> QED BY <1>3, <1>4, <1>15, <3>1
  <2> QED BY <1>8, <1>11, <1>12, <1>13, <1>14, <2>1, <2>2 DEF Stores
<1>17. nrNodes' = nrNodes + 1 /\ nrNodes < MaxCount /\ nrNodes \in 0 .. MaxCount /\ MaxCount \in Nat
  BY <1>1, HashTableAssumption DEF InsertNew, Types
<1>18. Sized(primeIndex', nrNodes', Order')
  <2>1. Len(Order') <= nrNodes'
    BY <1>1, <1>3, <1>13, <1>14, <1>17 DEF Sized
  <2>2. nrNodes' - 1 = nrNodes
    BY <1>17
  <2> QED BY <1>6, <1>8, <2>1, <2>2 DEF Sized, Fits
<1>19. Types'
  <2>1. KeyOf[n] \in Keys
    BY DEF Keys
  <2> QED BY <1>6, <1>8, <1>15, <1>17, <2>1 DEF Types
<1>20. Iterates(mode', Order', visited', shown', pos', nxt')
  BY <1>1, WalkKept DEF InsertNew
<1> QED BY <1>5, <1>13, <1>16, <1>18, <1>19, <1>20 DEF IInv

(* A node is unlinked by its own pointers, whoever asks for it.            *)
LEMMA UnlinkIs ==
  ASSUME IInv, NEW k \in 1 .. Len(Order), NEW n, n = Order[k],
         chain' = HlistDel(chain, n), ring' = ListDel(ring, n), hash' = hash, primeIndex' = primeIndex
  PROVE  /\ n \in Nodes /\ Order' = RemoveAt(Order, k) /\ Len(Order') = Len(Order) - 1
         /\ Stores(Order', ring', chain', Size', hash')
<1>1. Types /\ Stores(Order, ring, chain, Size, hash)
  BY DEF IInv
<1>2. Size \in Nat \ {0} /\ Size' = Size
  BY <1>1, SizeIs DEF Types, Size
<1>3. /\ Rings(ring, Order) /\ Holds(chain, Size, Range(Order)) /\ KeysDiffer(Range(Order))
      /\ \A m \in Range(Order) : hash[m] = HashOf[KeyOf[m]]
      /\ Order \in Seq(Nodes) /\ Distinct(Order) /\ Len(Order) \in Nat
  BY <1>1, StoresIs DEF Stores
<1> DEFINE q == RemoveAt(Order, k)
<1>4. Len(q) = Len(Order) - 1 /\ Range(q) = Range(Order) \ {n}
  BY <1>3, RemoveAtIs, RemoveAtDistinct
<1>5. Rings(ring', q)
  BY <1>3, RingRemove
<1> HIDE DEF q
<1>6. Order' = q
  BY <1>5, RingOrder, OrderIs
<1>7. n \in Range(Order)
  BY <1>3, RangeIs
<1>8. n \in Nodes /\ Holds(chain', Size, Range(Order) \ {n})
  BY <1>2, <1>3, <1>7, UnchainIs
<1>9. Stores(Order', ring', chain', Size', hash')
  BY <1>2, <1>3, <1>4, <1>5, <1>6, <1>8 DEF Stores, KeysDiffer
<1> QED BY <1>4, <1>6, <1>8, <1>9 DEF q

LEMMA RemoveNodeIs ==
  ASSUME IInv, NEW n \in Nodes, RemoveNode(n)
  PROVE  IInv' /\ \E k \in 1 .. Len(Order) : Order[k] = n /\ Order' = RemoveAt(Order, k)
<1>1. /\ Types /\ Stores(Order, ring, chain, Size, hash) /\ Sized(primeIndex, nrNodes, Order)
      /\ Iterates(mode, Order, visited, shown, pos, nxt)
  BY DEF IInv
<1>2. Size \in Nat \ {0} /\ Holds(chain, Size, Range(Order)) /\ Order \in Seq(Nodes) /\ Len(Order) \in Nat
  BY <1>1, SizeIs, StoresIs DEF Types, Stores
<1>3. n \in Range(Order)
  BY <1>2, UnhashedIs DEF RemoveNode
<1>4. PICK k \in 1 .. Len(Order) : n = Order[k]
  BY <1>2, <1>3, RangeIs
<1>5. /\ Order' = RemoveAt(Order, k) /\ Len(Order') = Len(Order) - 1
      /\ Stores(Order', ring', chain', Size', hash')
  BY <1>4, UnlinkIs DEF RemoveNode, walk
<1>6. /\ nrNodes' = nrNodes - 1 /\ nrNodes \in 0 .. MaxCount /\ Len(Order) <= nrNodes /\ MaxCount \in Nat
      /\ primeIndex' = primeIndex /\ primeIndex \in 1 .. Len(Primes) /\ Len(Order) >= 1
  BY <1>1, <1>2, <1>4, HashTableAssumption DEF RemoveNode, Sized, Types
<1>7. Sized(primeIndex', nrNodes', Order')
  <2>1. Len(Order') <= nrNodes'
    BY <1>2, <1>5, <1>6
  <2>2. ASSUME primeIndex < Len(Primes) PROVE (nrNodes' - 1) * LoadDen < Primes[primeIndex] * LoadNum
    <3>1. (nrNodes - 1) * LoadDen < Primes[primeIndex] * LoadNum
      BY <1>1, <2>2 DEF Sized
    <3>2. /\ (nrNodes' - 1) * LoadDen <= (nrNodes - 1) * LoadDen
          /\ (nrNodes' - 1) * LoadDen \in Int /\ (nrNodes - 1) * LoadDen \in Int
      <4>1. nrNodes' - 1 \in Int /\ nrNodes - 1 \in Int /\ nrNodes' - 1 <= nrNodes - 1
        BY <1>6
      <4>2. LoadDen \in Nat
        BY HashTableAssumption
      <4> QED BY <4>1, <4>2, Monotonic
    <3>3. Primes[primeIndex] * LoadNum \in Int
      BY <1>6, HashTableAssumption
    <3> QED BY <3>1, <3>2, <3>3
  <2> QED BY <1>6, <2>1, <2>2 DEF Sized
<1>8. Types'
  BY <1>1, <1>2, <1>6 DEF Types, RemoveNode
<1>9. Iterates(mode', Order', visited', shown', pos', nxt')
  BY <1>1, WalkKept DEF RemoveNode
<1> QED BY <1>4, <1>5, <1>7, <1>8, <1>9 DEF IInv

(* The calls that leave the nodes alone.                                   *)
LEMMA TableOnlyRead ==
  ASSUME IInv, mode = "ready", UNCHANGED <<table, walk>>
  PROVE  IInv' /\ Order' = Order
<1>1. UNCHANGED table /\ UNCHANGED walk
  OBVIOUS
<1>2. Order' = Order
  BY <1>1, TableKept
<1>3. Iterates(mode', Order', visited', shown', pos', nxt')
  BY <1>1, WalkKept DEF IInv
<1> QED BY <1>1, <1>2, <1>3, TableKept DEF IInv

LEMMA InsertDuplicateIs ==
  ASSUME IInv, NEW n \in Nodes, InsertDuplicate(n)
  PROVE  IInv' /\ Order' = Order /\ \E m \in Range(Order) : KeyOf[m] = KeyOf[n]
<1>1. /\ Types /\ Stores(Order, ring, chain, Size, hash) /\ Sized(primeIndex, nrNodes, Order)
      /\ Iterates(mode, Order, visited, shown, pos, nxt)
  BY DEF IInv
<1>2. KeyOf[n] \in Keys
  BY DEF Keys
<1>3. Order' = Order /\ Size' = Size
  BY DEF Order, Size, InsertDuplicate
<1>4. hash' = [hash EXCEPT ![n] = HashOf[KeyOf[n]]] /\ hash \in [Nodes -> {0} \cup {HashOf[k] : k \in Keys}]
  BY <1>1 DEF InsertDuplicate, Types
<1>5. Stores(Order', ring', chain', Size', hash')
  <2>1. Range(Order) \subseteq Nodes
    BY <1>1, StoresIs
  <2>2. \A m \in Range(Order) : hash'[m] = HashOf[KeyOf[m]]
    BY <1>1, <1>4, <2>1 DEF Stores
  <2>3. ring' = ring /\ chain' = chain
    BY DEF InsertDuplicate
  <2> QED BY <1>1, <1>3, <2>2, <2>3 DEF Stores
<1>6. Types'
  BY <1>1, <1>2, <1>4 DEF Types, InsertDuplicate
<1>7. Sized(primeIndex', nrNodes', Order')
  BY <1>1, <1>3 DEF InsertDuplicate
<1>8. Iterates(mode', Order', visited', shown', pos', nxt')
  BY <1>1, WalkKept DEF InsertDuplicate
<1>9. \E m \in Range(Order) : KeyOf[m] = KeyOf[n]
  <2>1. Size \in Nat \ {0} /\ Holds(chain, Size, Range(Order)) /\ KeysDiffer(Range(Order))
    BY <1>1, SizeIs DEF Types, Stores
  <2>2. FindNode(HashOf[KeyOf[n]], KeyOf[n]) # Null
    BY DEF InsertDuplicate
  <2> QED BY <1>2, <2>1, <2>2, FindIs
<1> QED BY <1>3, <1>5, <1>6, <1>7, <1>8, <1>9 DEF IInv

-----------------------------------------------------------------------------
(* Iterations *)

LEMMA BeginIs ==
  ASSUME IInv, NEW how \in {"visit", "fini"}, Begin(how)
  PROVE  IInv' /\ Order' = Order
<1>1. /\ Stores(Order, ring, chain, Size, hash) /\ UNCHANGED table
      /\ mode' = how /\ pos' = ring.next[ListHead] /\ nxt' = ring.next[ring.next[ListHead]]
      /\ visited' = <<>> /\ shown' = Order
  BY DEF IInv, Begin
<1>2. Rings(ring, Order) /\ Order \in Seq(Nodes) /\ Len(Order) \in Nat
  BY <1>1, StoresIs DEF Stores
<1>3. Order' = Order
  BY <1>1, TableKept
<1>4. pos' = Spot(Order, 1) /\ nxt' \in Links /\ (pos' # ListHead => nxt' = Spot(Order, 2))
  <2>1. \A i \in 0 .. Len(Order) : ring.next[Spot(Order, i)] = Spot(Order, i + 1)
    BY <1>2 DEF Rings
  <2>2. pos' = Spot(Order, 1)
    <3>1. ring.next[Spot(Order, 0)] = Spot(Order, 0 + 1) /\ Spot(Order, 0) = ListHead
      BY <1>2, <2>1, SpotIs
    <3> QED BY <1>1, <3>1
  <2>3. nxt' \in Links
    <3>1. ring.next \in [Links -> Links] /\ ListHead \in Links
      BY <1>2 DEF Rings, Links
    <3> QED BY <1>1, <3>1
  <2>4. ASSUME pos' # ListHead PROVE nxt' = Spot(Order, 2)
    <3>1. 1 \in 0 .. Len(Order)
      BY <1>2, <2>2, <2>4 DEF Spot
    <3>2. ring.next[Spot(Order, 1)] = Spot(Order, 1 + 1)
      BY <2>1, <3>1
    <3> QED BY <1>1, <2>2, <3>2
  <2> QED BY <2>2, <2>3, <2>4
<1>5. Shows(Order, 0, visited', shown', pos', nxt')
  <2>1. <<>> \in Seq(Nodes) /\ Len(<<>>) = 0 /\ 0 \in 0 .. Len(Order)
    BY <1>2
  <2>2. Len(Order) = 0 + (Len(Order) - 0) /\ \A i \in 1 .. Len(Order) - 0 : Order[0 + i] = Order[0 + i]
    BY <1>2
  <2>3. \A i \in 1 .. Len(<<>>) : Order[i] = <<>>[i]
    BY <2>1
  <2> QED BY <1>1, <1>2, <1>4, <2>1, <2>2, <2>3 DEF Shows
<1>6. Iterates(mode', Order', visited', shown', pos', nxt')
  <2>1. 0 \in Nat
    OBVIOUS
  <2> QED BY <1>1, <1>3, <1>5, <2>1 DEF Iterates
<1> QED BY <1>1, <1>3, <1>6, TableKept DEF IInv

(* The successor that was saved is still in the ring when it is read.      *)
LEMMA NextIs ==
  ASSUME NEW r, NEW p, Rings(r, p), NEW i \in Int, NEW y \in Links,
         y # ListHead => y = Spot(p, i)
  PROVE  r.next[y] \in Links /\ (y # ListHead => r.next[y] = Spot(p, i + 1))
<1>1. r.next \in [Links -> Links] /\ p \in Seq(Nodes) /\ Len(p) \in Nat
  BY DEF Rings
<1>2. ASSUME y # ListHead PROVE r.next[y] = Spot(p, i + 1)
  <2>1. i \in 0 .. Len(p)
    BY <1>1, <1>2 DEF Spot
  <2> QED BY <1>2, <2>1 DEF Rings
<1> QED BY <1>1, <1>2

LEMMA VisitKeepIs ==
  ASSUME IInv, VisitKeep
  PROVE  IInv' /\ Order' = Order
<1>1. /\ Stores(Order, ring, chain, Size, hash) /\ UNCHANGED table
      /\ Iterates(mode, Order, visited, shown, pos, nxt)
      /\ mode = "visit" /\ mode' = mode /\ pos # ListHead /\ pos' = nxt /\ nxt' = ring'.next[nxt]
      /\ visited' = Append(visited, pos) /\ shown' = shown
  BY DEF IInv, VisitKeep, Advance
<1>2. Rings(ring, Order) /\ Order \in Seq(Nodes) /\ Len(Order) \in Nat
  BY <1>1, StoresIs DEF Stores
<1>3. Order' = Order /\ ring' = ring
  BY <1>1, TableKept DEF table
<1>4. PICK k \in Nat : Shows(Order, k, visited, shown, pos, nxt)
  BY <1>1 DEF Iterates
<1>5. nxt \in Links /\ nxt = Spot(Order, k + 2)
  BY <1>1, <1>4 DEF Shows
<1>6. nxt' \in Links /\ (nxt # ListHead => nxt' = Spot(Order, (k + 2) + 1))
  <2> DEFINE i == k + 2
  <2>1. i \in Int /\ nxt = Spot(Order, i)
    BY <1>5
  <2> HIDE DEF i
  <2>2. ring.next[nxt] \in Links /\ (nxt # ListHead => ring.next[nxt] = Spot(Order, i + 1))
    BY <1>2, <1>5, <2>1, NextIs
  <2> QED BY <1>1, <1>3, <2>2 DEF i
<1>7. (k + 2) + 1 = (k + 1) + 2
  OBVIOUS
<1>8. Shows(Order, k + 1, visited', shown', pos', nxt')
  BY <1>1, <1>2, <1>4, <1>6, <1>7, ShowsKeep
<1>9. Iterates(mode', Order', visited', shown', pos', nxt')
  <2>1. k + 1 \in Nat
    OBVIOUS
  <2> QED BY <1>1, <1>3, <1>8, <2>1 DEF Iterates
<1> QED BY <1>1, <1>3, <1>9, TableKept DEF IInv

(* The visitor unlinks the node it is shown, and so does HashTable_Fini.   *)
LEMMA UnlinkWhileIterating ==
  ASSUME IInv, VisitUnlink \/ FiniNode
  PROVE  IInv' /\ pos \in Nodes /\ \E i \in 1 .. Len(Order) : Order[i] = pos /\ Order' = RemoveAt(Order, i)
<1>1. /\ Types /\ Stores(Order, ring, chain, Size, hash) /\ Sized(primeIndex, nrNodes, Order)
      /\ Iterates(mode, Order, visited, shown, pos, nxt)
      /\ mode \in {"visit", "fini"} /\ mode' = mode /\ pos # ListHead /\ pos' = nxt /\ nxt' = ring'.next[nxt]
      /\ visited' = Append(visited, pos) /\ shown' = shown
      /\ chain' = HlistDel(chain, pos) /\ ring' = ListDel(ring, pos)
      /\ hash' = hash /\ primeIndex' = primeIndex /\ nrNodes' = nrNodes
  BY DEF IInv, VisitUnlink, FiniNode, Advance, Unlink
<1>2. Rings(ring, Order) /\ Order \in Seq(Nodes) /\ Len(Order) \in Nat
  BY <1>1, StoresIs DEF Stores
<1>3. \E k \in Nat : Shows(Order, k, visited, shown, pos, nxt) /\ (mode = "fini" => k = 0)
  <2>1. 0 \in Nat
    OBVIOUS
  <2> QED BY <1>1, <2>1 DEF Iterates
<1>4. PICK k \in Nat : Shows(Order, k, visited, shown, pos, nxt) /\ (mode = "fini" => k = 0)
  BY <1>3
<1>5. k + 1 \in 1 .. Len(Order) /\ pos = Order[k + 1]
  BY <1>1, <1>2, <1>4, ShowsIs
<1>6. /\ pos \in Nodes /\ Order' = RemoveAt(Order, k + 1) /\ Len(Order') = Len(Order) - 1
      /\ Stores(Order', ring', chain', Size', hash')
  BY <1>1, <1>5, UnlinkIs
<1> DEFINE q == RemoveAt(Order, k + 1)
<1>7. Rings(ring', q)
  BY <1>6 DEF Stores
<1>8. nxt \in Links /\ nxt = Spot(Order, k + 2)
  BY <1>1, <1>4 DEF Shows
<1>9. nxt = Spot(q, k + 1)
  <2>1. /\ Len(q) = Len(Order) - 1
        /\ \A j \in 1 .. Len(Order) - 1 : q[j] = IF j < k + 1 THEN Order[j] ELSE Order[j + 1]
    BY <1>2, <1>5, RemoveAtIs
  <2> HIDE DEF q
  <2>2. k + 1 \in 1 .. Len(q) <=> k + 2 \in 1 .. Len(Order)
    BY <1>2, <1>5, <2>1
  <2>3. k + 1 \in 1 .. Len(q) => q[k + 1] = Order[k + 2]
    <3>1. ~ (k + 1 < k + 1) /\ (k + 1) + 1 = k + 2
      OBVIOUS
    <3> QED BY <2>1, <3>1
  <2> QED BY <1>8, <2>2, <2>3 DEF Spot
<1>10. nxt' \in Links /\ (nxt # ListHead => nxt' = Spot(q, (k + 1) + 1))
  <2> DEFINE i == k + 1
             r == ring'
  <2>1. i \in Int /\ nxt = Spot(q, i) /\ Rings(r, q) /\ nxt' = r.next[nxt]
    BY <1>1, <1>7, <1>9
  <2> HIDE DEF i, r, q
  <2>2. r.next[nxt] \in Links /\ (nxt # ListHead => r.next[nxt] = Spot(q, i + 1))
    BY <1>8, <2>1, NextIs
  <2> QED BY <2>1, <2>2 DEF i
<1>11. Shows(q, k, visited', shown', pos', nxt')
  <2>1. (k + 1) + 1 = k + 2
    OBVIOUS
  <2> QED BY <1>1, <1>2, <1>4, <1>10, <2>1, ShowsUnlink
<1>12. Iterates(mode', Order', visited', shown', pos', nxt')
  BY <1>1, <1>4, <1>6, <1>11 DEF Iterates
<1>13. Sized(primeIndex', nrNodes', Order')
  <2>1. nrNodes \in Nat
    BY <1>1 DEF Types
  <2> QED BY <1>1, <1>2, <1>6, <2>1 DEF Sized
<1>14. Types'
  BY <1>1 DEF Types
<1>15. \E i \in 1 .. Len(Order) : Order[i] = pos /\ Order' = RemoveAt(Order, i)
  BY <1>5, <1>6
<1> QED BY <1>6, <1>12, <1>13, <1>14, <1>15 DEF IInv

LEMMA VisitEndIs ==
  ASSUME IInv, VisitEnd
  PROVE  IInv' /\ Order' = Order /\ visited = shown
<1>1. /\ Stores(Order, ring, chain, Size, hash) /\ UNCHANGED table
      /\ Iterates(mode, Order, visited, shown, pos, nxt)
      /\ mode = "visit" /\ pos = ListHead /\ mode' = "ready"
      /\ pos' = Null /\ nxt' = Null /\ visited' = <<>> /\ shown' = <<>>
  BY DEF IInv, VisitEnd
<1>2. Order' = Order /\ Order \in Seq(Nodes)
  BY <1>1, TableKept, StoresIs
<1>3. PICK k \in Nat : Shows(Order, k, visited, shown, pos, nxt)
  BY <1>1 DEF Iterates
<1>4. visited = shown
  BY <1>1, <1>2, <1>3, ShowsIs
<1>5. Iterates(mode', Order', visited', shown', pos', nxt')
  BY <1>1 DEF Iterates
<1> QED BY <1>1, <1>2, <1>4, <1>5, TableKept DEF IInv

LEMMA FiniEndIs ==
  ASSUME IInv, FiniEnd
  PROVE  IInv' /\ Order' = Order /\ visited = shown
<1>1. /\ Types /\ Stores(Order, ring, chain, Size, hash)
      /\ Iterates(mode, Order, visited, shown, pos, nxt)
      /\ mode = "fini" /\ pos = ListHead /\ mode' = "dead"
      /\ pos' = Null /\ nxt' = Null /\ visited' = <<>> /\ shown' = <<>>
      /\ primeIndex' = 1 /\ nrNodes' = 0 /\ chain' = NewEntries(Primes[1]) /\ ring' = ring /\ hash' = hash
  BY DEF IInv, FiniEnd
<1>2. Order' = Order /\ Order \in Seq(Nodes)
  BY <1>1, StoresIs DEF Order
<1>3. Shows(Order, 0, visited, shown, pos, nxt)
  BY <1>1 DEF Iterates
<1>4. visited = shown /\ 0 = Len(Order)
  BY <1>1, <1>2, <1>3, ShowsIs
<1>5. Order = <<>>
  BY <1>2, <1>4
<1>6. Size' = Primes[1] /\ 1 \in 1 .. Len(Primes) /\ Size' \in Nat \ {0}
  BY <1>1, HashTableAssumption DEF Size
<1>7. Stores(Order', ring', chain', Size', hash')
  <2>1. Stores(<<>>, InitRing, chain', Size', hash')
    BY <1>1, <1>6, NothingStored
  <2> QED BY <1>1, <1>2, <1>5, <2>1 DEF Stores
<1>8. Sized(primeIndex', nrNodes', Order')
  <2>1. primeIndex' \in 1 .. Len(Primes)
    BY <1>1, <1>6
  <2>2. Primes[1] \in Nat /\ LoadDen \in Nat \ {0} /\ LoadNum \in Nat
    BY <1>6, HashTableAssumption
  <2>3. (0 - 1) * LoadDen < 0 /\ 0 <= Primes[1] * LoadNum
        /\ (0 - 1) * LoadDen \in Int /\ Primes[1] * LoadNum \in Int
    BY <2>2
  <2>4. (0 - 1) * LoadDen < Primes[1] * LoadNum
    BY <2>3
  <2> QED BY <1>1, <1>2, <1>4, <2>4 DEF Sized
<1>9. Types'
  BY <1>1, <1>6, HashTableAssumption DEF Types
<1>10. Iterates(mode', Order', visited', shown', pos', nxt')
  BY <1>1, <1>2, <1>5 DEF Iterates
<1> QED BY <1>2, <1>4, <1>7, <1>8, <1>9, <1>10 DEF IInv

LEMMA InitAgainIs ==
  ASSUME IInv, InitAgain
  PROVE  IInv' /\ Order' = Order
<1>1. /\ Types /\ Iterates(mode, Order, visited, shown, pos, nxt)
      /\ mode = "dead" /\ mode' = "ready"
      /\ pos' = pos /\ nxt' = nxt /\ visited' = visited /\ shown' = shown
      /\ primeIndex' = 1 /\ nrNodes' = 0 /\ chain' = NewEntries(Primes[1]) /\ ring' = InitRing /\ hash' = hash
  BY DEF IInv, InitAgain
<1>2. Size' = Primes[1] /\ 1 \in 1 .. Len(Primes) /\ Size' \in Nat \ {0}
  BY <1>1, HashTableAssumption DEF Size
<1>3. Stores(<<>>, ring', chain', Size', hash')
  BY <1>1, <1>2, NothingStored
<1>4. Order' = <<>> /\ Order = <<>>
  BY <1>1, <1>3, StoresIs, OrderIs DEF Iterates
<1>5. Sized(primeIndex', nrNodes', <<>>)
  <2>1. Primes[1] \in Nat /\ LoadDen \in Nat \ {0} /\ LoadNum \in Nat
    BY <1>2, HashTableAssumption
  <2>2. (0 - 1) * LoadDen < 0 /\ 0 <= Primes[1] * LoadNum
        /\ (0 - 1) * LoadDen \in Int /\ Primes[1] * LoadNum \in Int
    BY <2>1
  <2>3. (0 - 1) * LoadDen < Primes[1] * LoadNum
    BY <2>2
  <2> QED BY <1>1, <2>3 DEF Sized
<1>6. Types'
  BY <1>1, <1>2, HashTableAssumption DEF Types
<1>7. Iterates(mode', Order', visited', shown', pos', nxt')
  BY <1>1, <1>4 DEF Iterates
<1> QED BY <1>3, <1>4, <1>5, <1>6, <1>7 DEF IInv

-----------------------------------------------------------------------------
(* Every step of the table is a step of the map, or none *)

LEMMA InMap ==
  ASSUME IInv, NEW n \in Nodes
  PROVE  /\ KeyOf[n] \in Map!KeysIn <=> \E m \in Range(Order) : KeyOf[m] = KeyOf[n]
         /\ n \in Map!Range(Order) <=> n \in Range(Order)
         /\ KeyOf[n] \in Keys /\ KeyOf[n] \in Map!Keys
         /\ Unhashed(chain, n) <=> n \notin Range(Order)
<1>1. Size \in Nat \ {0} /\ Holds(chain, Size, Range(Order))
  BY SizeIs DEF IInv, Types, Stores
<1>2. Unhashed(chain, n) <=> n \notin Range(Order)
  BY <1>1, UnhashedIs
<1> QED BY <1>2 DEF Map!KeysIn, Map!Range, Range, Keys, Map!Keys

LEMMA WithoutIs ==
  ASSUME NEW n, \E i \in 1 .. Len(Order) : Order[i] = n /\ Order' = RemoveAt(Order, i), IInv
  PROVE  Map!Without(n)
<1>1. DOMAIN Order = 1 .. Len(Order)
  BY StoresIs DEF IInv
<1> QED BY <1>1 DEF Map!Without, Map!RemoveAt, RemoveAt

(* A call adds or removes what the map would, and returns what the map     *)
(* would return.                                                           *)
LEMMA InsertImplemented ==
  ASSUME IInv, NEW n \in Nodes, InsertHashed(n) \/ InsertDuplicate(n) \/ InsertNew(n)
  PROVE  IInv' /\ Map!Insert(n)
<1>1. CASE InsertHashed(n)
  <2>1. IInv' /\ Order' = Order
    BY <1>1, TableOnlyRead DEF InsertHashed
  <2>2. KeyOf[n] \in Map!KeysIn
    BY <1>1, InMap DEF InsertHashed
  <2> QED BY <1>1, <2>1, <2>2 DEF InsertHashed, Answer, Map!Insert, Map!Answer
<1>2. CASE InsertDuplicate(n)
  <2>1. IInv' /\ Order' = Order /\ KeyOf[n] \in Map!KeysIn
    BY <1>2, InsertDuplicateIs, InMap
  <2> QED BY <1>2, <2>1 DEF InsertDuplicate, Answer, Map!Insert, Map!Answer
<1>3. CASE InsertNew(n)
  <2>1. IInv' /\ Order' = Append(Order, n) /\ KeyOf[n] \notin Map!KeysIn
    BY <1>3, InsertNewIs, InMap
  <2> QED BY <1>3, <2>1 DEF InsertNew, Answer, Map!Insert, Map!Answer
<1> QED BY <1>1, <1>2, <1>3

LEMMA RemoveImplemented ==
  ASSUME IInv, NEW n \in Nodes, RemoveAbsent(n) \/ RemoveNode(n)
  PROVE  IInv' /\ Map!RemoveNode(n)
<1>0. /\ Size \in Nat \ {0} /\ Holds(chain, Size, Range(Order)) /\ KeysDiffer(Range(Order))
      /\ \A m \in Range(Order) : hash[m] = HashOf[KeyOf[m]]
  BY SizeIs DEF IInv, Types, Stores
<1>1. CASE RemoveAbsent(n)
  <2>1. IInv' /\ Order' = Order
    BY <1>1, TableOnlyRead DEF RemoveAbsent
  <2>2. n \notin Range(Order)
    <3>1. SUFFICES ASSUME n \in Range(Order) PROVE FALSE
      OBVIOUS
    <3>2. ~ Unhashed(chain, n) /\ KeyOf[n] \in Keys
      BY <3>1, InMap
    <3>3. FindNode(HashOf[KeyOf[n]], KeyOf[n]) = n
      BY <1>0, <3>1, <3>2, FindIs
    <3> QED BY <1>0, <1>1, <3>1, <3>2, <3>3 DEF RemoveAbsent
  <2>3. n \notin Map!Range(Order)
    BY <2>2, InMap
  <2> QED BY <1>1, <2>1, <2>3 DEF RemoveAbsent, Answer, Map!RemoveNode, Map!Answer
<1>2. CASE RemoveNode(n)
  <2>1. IInv' /\ Map!Without(n)
    BY <1>2, RemoveNodeIs, WithoutIs
  <2>2. n \in Map!Range(Order)
    BY <1>2, InMap DEF RemoveNode
  <2> QED BY <1>2, <2>1, <2>2 DEF RemoveNode, Answer, Map!RemoveNode, Map!Answer
<1> QED BY <1>1, <1>2

LEMMA FindImplemented ==
  ASSUME IInv, NEW k \in Keys, Find(k)
  PROVE  IInv' /\ Map!Find(k)
<1>0. Size \in Nat \ {0} /\ Holds(chain, Size, Range(Order)) /\ KeysDiffer(Range(Order))
  BY SizeIs DEF IInv, Types, Stores
<1>1. IInv' /\ Order' = Order
  BY TableOnlyRead DEF Find
<1> DEFINE found == FindNode(HashOf[k], k)
<1>2. /\ \/ found \in Range(Order) /\ KeyOf[found] = k /\ found # Null
         \/ found = Null /\ \A n \in Range(Order) : KeyOf[n] # k
      /\ \A n \in Range(Order) : KeyOf[n] = k => found = n
  BY <1>0, FindIs
<1>3. ret' = [op |-> "find", arg |-> k, value |-> {found} \ {Null}]
  BY DEF Find, Answer
<1> HIDE DEF found
<1>4. {found} \ {Null} = {n \in Range(Order) : KeyOf[n] = k}
  BY <1>2
<1>5. Map!Range(Order) = Range(Order)
  BY DEF Map!Range, Range
<1> QED BY <1>1, <1>3, <1>4, <1>5 DEF Map!Find, Map!Answer

LEMMA StepImplemented ==
  ASSUME IInv, [Next]_vars
  PROVE  /\ IInv'
         /\ [Map!Next]_(Map!vars)
         /\ (mode \in {"visit", "fini"} /\ mode' # mode) => visited = shown \/ UNCHANGED vars
<1> USE DEF Map!vars
<1>1. ASSUME NEW n \in Nodes, InsertHashed(n) \/ InsertDuplicate(n) \/ InsertNew(n)
      PROVE  IInv' /\ [Map!Next]_(Map!vars) /\ mode = "ready"
  <2>1. IInv' /\ Map!Insert(n)
    BY <1>1, InsertImplemented
  <2>2. mode = "ready"
    BY <1>1 DEF InsertHashed, InsertDuplicate, InsertNew
  <2> QED BY <2>1, <2>2 DEF Map!Next
<1>2. ASSUME NEW n \in Nodes, RemoveAbsent(n) \/ RemoveNode(n)
      PROVE  IInv' /\ [Map!Next]_(Map!vars) /\ mode = "ready"
  <2>1. IInv' /\ Map!RemoveNode(n)
    BY <1>2, RemoveImplemented
  <2>2. mode = "ready"
    BY <1>2 DEF RemoveAbsent, RemoveNode
  <2> QED BY <2>1, <2>2 DEF Map!Next
<1>3. ASSUME NEW k \in Keys, Find(k)
      PROVE  IInv' /\ [Map!Next]_(Map!vars) /\ mode = "ready"
  <2>1. IInv' /\ Map!Find(k) /\ mode = "ready"
    BY <1>3, FindImplemented DEF Find
  <2>2. k \in Map!Keys
    BY DEF Keys, Map!Keys
  <2> QED BY <2>1, <2>2 DEF Map!Next
<1>4. ASSUME NEW how \in {"visit", "fini"}, Begin(how)
      PROVE  IInv' /\ UNCHANGED <<Order, ret>> /\ mode = "ready"
  BY <1>4, BeginIs DEF Begin
<1>5. CASE VisitKeep
  <2>1. IInv' /\ Order' = Order /\ mode' = mode /\ ret' = ret
    BY <1>5, VisitKeepIs DEF VisitKeep
  <2> QED BY <2>1
<1>6. CASE VisitUnlink \/ FiniNode
  <2>1. IInv' /\ pos \in Nodes /\ Map!Without(pos)
    BY <1>6, UnlinkWhileIterating, WithoutIs
  <2>2. mode' = mode /\ ret' = ret
    BY <1>6 DEF VisitUnlink, FiniNode
  <2>3. Map!Drop(pos)
    BY <2>1, <2>2 DEF Map!Drop
  <2> QED BY <2>1, <2>2, <2>3 DEF Map!Next
<1>7. CASE VisitEnd
  BY <1>7, VisitEndIs DEF VisitEnd
<1>8. CASE FiniEnd
  BY <1>8, FiniEndIs DEF FiniEnd
<1>9. CASE InitAgain
  <2>1. IInv' /\ Order' = Order /\ mode = "dead" /\ ret' = ret
    BY <1>9, InitAgainIs DEF InitAgain
  <2> QED BY <2>1
<1>10. CASE UNCHANGED vars
  <2>1. UNCHANGED table /\ UNCHANGED walk /\ UNCHANGED ret
    BY <1>10 DEF vars
  <2>2. Order' = Order
    BY <2>1, TableKept
  <2>3. Iterates(mode', Order', visited', shown', pos', nxt')
    BY <2>1, <2>2 DEF IInv, walk
  <2>4. IInv'
    BY <2>1, <2>3, TableKept DEF IInv
  <2> QED BY <1>10, <2>1, <2>2, <2>4
<1> QED BY <1>1, <1>2, <1>3, <1>4, <1>5, <1>6, <1>7, <1>8, <1>9, <1>10 DEF Next, Step

-----------------------------------------------------------------------------
(* Theorems *)

(* The inductive invariant of src/hashtable.c: one ring and one set of     *)
(* chains hold the same nodes, every node in the chain of its hash value.  *)
THEOREM InvariantHolds == Spec => []IInv
<1>1. Init => IInv
  BY InitInv
<1>2. IInv /\ [Next]_vars => IInv'
  BY StepImplemented
<1> QED BY <1>1, <1>2, PTL DEF Spec

(* Between any two calls, in any table of any nodes: list_del and          *)
(* hlist_del find the pointers to unlink, growth and removal leave every   *)
(* node where __HashTable_Find looks for it, the load factor is kept, and  *)
(* a visitor is shown the nodes in the order they were inserted.           *)
THEOREM ConsistentHolds == Spec => []Consistent
<1>1. IInv => Consistent
  BY InvariantIsConsistent
<1> QED BY <1>1, InvariantHolds, PTL

(* HashTable_Visit and HashTable_Fini end only when every node that was in *)
(* the table has been shown, although the visitor may unlink each of them. *)
THEOREM AllVisitedHolds == Spec => AllVisited
<1>1. IInv /\ [Next]_vars => [(mode \in {"visit", "fini"} /\ mode' # mode) => visited = shown]_vars
  BY StepImplemented
<1> QED BY <1>1, InvariantHolds, PTL DEF Spec, AllVisited

(* HashTable_Insert, HashTable_Find, HashTable_Remove, HashTable_Visit and *)
(* HashTable_Fini do to the nodes, and answer, what a map that remembers   *)
(* the order of insertion would.                                           *)
THEOREM MapImplemented == Spec => ImplementsMap
<1>1. Init => Map!Init
  <2> SUFFICES ASSUME Init PROVE Map!Init
    OBVIOUS
  <2>1. Rings(ring, <<>>)
    BY InitRings DEF Init
  <2>2. Order = <<>>
    BY <2>1, RingOrder, OrderIs
  <2> QED BY <2>2 DEF Init, Map!Init
<1>2. IInv /\ [Next]_vars => [Map!Next]_(Map!vars)
  BY StepImplemented
<1> QED BY <1>1, <1>2, InvariantHolds, PTL DEF Spec, ImplementsMap, Map!Spec
=============================================================================
