--------------------------- MODULE InductionFacts ---------------------------
(***************************************************************************)
(* Induction and recursion over the natural numbers about sets and         *)
(* functions, where the library's theorems are about operators.            *)
(***************************************************************************)
EXTENDS Integers, WellFoundedInduction, TLAPS

NatBelow == {ss \in Nat \X Nat : ss[1] < ss[2]}

(* A set of natural numbers that is not empty has a least element.         *)
LEMMA Least ==
  ASSUME NEW T \in SUBSET Nat, T # {}
  PROVE  \E m \in T : \A k \in T : m <= k
<1>1. NatBelow = OpToRel(<, Nat)
  BY DEF NatBelow, OpToRel
<1>2. IsWellFoundedOn(NatBelow, Nat)
  BY <1>1, NatLessThanWellFounded, Zenon
<1>3. \E x \in T : \A y \in T : ~ (<<y, x>> \in NatBelow)
  BY <1>2, WFMin
<1>4. PICK m \in T : \A y \in T : ~ (<<y, m>> \in NatBelow)
  BY <1>3
<1>5. ASSUME NEW k \in T PROVE m <= k
  <2>1. k \in Nat /\ m \in Nat
    OBVIOUS
  <2>2. k < m => <<k, m>> \in NatBelow
    BY <2>1 DEF NatBelow
  <2> QED BY <1>4, <2>1, <2>2
<1> QED BY <1>5

(* A set that holds 0 and the successor of what it holds holds everything  *)
(* up to n.                                                                *)
LEMMA Induction ==
  ASSUME NEW T, NEW n \in Nat, 0 \in T, \A k \in 0 .. n - 1 : k \in T => k + 1 \in T
  PROVE  \A k \in 0 .. n : k \in T
<1> DEFINE F == {k \in 0 .. n : k \notin T}
<1>1. SUFFICES ASSUME F # {} PROVE FALSE
  OBVIOUS
<1>2. PICK m \in F : \A k \in F : m <= k
  <2>1. F \in SUBSET Nat
    OBVIOUS
  <2> HIDE DEF F
  <2> QED BY <1>1, <2>1, Least
<1>3. m \in 1 .. n /\ m \notin T
  OBVIOUS
<1>4. m - 1 \in 0 .. n - 1 /\ m - 1 \notin F
  BY <1>2, <1>3
<1>5. m - 1 \in T
  BY <1>4
<1> QED BY <1>3, <1>4, <1>5

(* A function can be given by its first value and a step.                  *)
Unfolds(f, X, base, n, step) ==
  /\ f \in [0 .. n -> X] /\ f[0] = base
  /\ \A k \in 1 .. n : f[k] = step[<<k, f[k - 1]>>]

LEMMA Recursion ==
  ASSUME NEW X, NEW base \in X, NEW n \in Nat, NEW step \in [(1 .. n) \X X -> X]
  PROVE  \E f : Unfolds(f, X, base, n, step)
<1> DEFINE Upto(m, f) == f[0] = base /\ \A k \in 1 .. m : f[k] = step[<<k, f[k - 1]>>]
           T == {m \in 0 .. n : \E f \in [0 .. m -> X] : Upto(m, f)}
<1>1. 0 \in T
  <2> DEFINE g == [i \in 0 .. 0 |-> base]
  <2>1. g \in [0 .. 0 -> X] /\ Upto(0, g)
    OBVIOUS
  <2> HIDE DEF g, Upto
  <2> QED BY <2>1
<1>2. ASSUME NEW m \in 0 .. n - 1, m \in T PROVE m + 1 \in T
  <2>1. PICK f \in [0 .. m -> X] : Upto(m, f)
    BY <1>2
  <2> DEFINE g == [i \in 0 .. m + 1 |-> IF i = m + 1 THEN step[<<m + 1, f[m]>>] ELSE f[i]]
  <2>2. f[m] \in X /\ m + 1 \in 1 .. n
    OBVIOUS
  <2>3. g \in [0 .. m + 1 -> X]
    BY <2>2
  <2>4. Upto(m + 1, g)
    <3>1. g[0] = base
      BY <2>1
    <3>2. ASSUME NEW k \in 1 .. m + 1 PROVE g[k] = step[<<k, g[k - 1]>>]
      <4>1. g[k - 1] = f[k - 1]
        OBVIOUS
      <4>2. CASE k = m + 1
        BY <4>1, <4>2, SMTT(30)
      <4>3. CASE k \in 1 .. m
        <5>1. g[k] = f[k]
          BY <4>3
        <5>2. f[k] = step[<<k, f[k - 1]>>]
          BY <2>1, <4>3
        <5> HIDE DEF g
        <5> QED BY <4>1, <5>1, <5>2
      <4> QED BY <4>2, <4>3
    <3> QED BY <3>1, <3>2
  <2> HIDE DEF g, Upto
  <2> QED BY <2>2, <2>3, <2>4
<1>3. n \in T
  <2> HIDE DEF T
  <2> QED BY <1>1, <1>2, Induction
<1> QED BY <1>3 DEF Unfolds
=============================================================================
