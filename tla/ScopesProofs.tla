---------------------------- MODULE ScopesProofs ----------------------------
(***************************************************************************)
(* Proofs about the analysis of a source file, for any names, types,       *)
(* statements, declared functions, limit of errors and depth of blocks     *)
(* that ScopesAssumption allows.                                           *)
(*                                                                         *)
(* A handler of the parser calls others, so the lemmas go from the inside  *)
(* out: what Emit, Visit, AddVariable and each Parse operator make of a    *)
(* Sound state S is Sound, never forgets an error (Later), and either      *)
(* leaves every table as it was (SameTables) or declares one name          *)
(* (Changes).  Sound(S) joins the shape of the scopes (Typed), the slots   *)
(* of the function (SlotsGood), the names of the scopes within it          *)
(* (NamesGood) and their code, block after block, against the code as it   *)
(* was emitted (CodeGood).  Inductive is Sound of the parser's state, with *)
(* what is known of the finished functions and of the declarations still   *)
(* to come.  An action keeps it and is a step of StaticScopes (NextIs):    *)
(* as long as there was no error, the parser reports one if and only if    *)
(* the rules say that the statement is not legal, and otherwise declares   *)
(* what the rules say (Follows).                                           *)
(***************************************************************************)
EXTENDS Scopes, InductionFacts, SequenceTheorems, TLAPS

-----------------------------------------------------------------------------
(* Sequences *)

(* The partial results of FlattenSeq.                                      *)
Joins(f, ss, X) ==
  /\ f \in [0 .. Len(ss) -> Seq(X)] /\ f[0] = <<>>
  /\ \A k \in 1 .. Len(ss) : f[k] = f[k - 1] \o ss[k]

LEMMA JoinsExist == ASSUME NEW X, NEW ss \in Seq(Seq(X)) PROVE \E f : Joins(f, ss, X)
<1> DEFINE n == Len(ss)
           step == [p \in (1 .. n) \X Seq(X) |-> p[2] \o ss[p[1]]]
<1>1. n \in Nat /\ \A k \in 1 .. n : ss[k] \in Seq(X)
  OBVIOUS
<1>2. <<>> \in Seq(X)
  OBVIOUS
<1>3. step \in [(1 .. n) \X Seq(X) -> Seq(X)]
  <2>1. ASSUME NEW p \in (1 .. n) \X Seq(X) PROVE p[2] \o ss[p[1]] \in Seq(X)
    <3>1. p[2] \in Seq(X) /\ ss[p[1]] \in Seq(X)
      BY <1>1
    <3> QED BY <3>1, ConcatProperties
  <2> QED BY <2>1
<1>4. \E f : Unfolds(f, Seq(X), <<>>, n, step)
  <2> HIDE DEF step, n
  <2> QED BY <1>1, <1>2, <1>3, Recursion
<1>5. PICK f : Unfolds(f, Seq(X), <<>>, n, step)
  BY <1>4
<1>6. f \in [0 .. n -> Seq(X)] /\ f[0] = <<>> /\ \A k \in 1 .. n : f[k] = step[<<k, f[k - 1]>>]
  BY <1>5 DEF Unfolds
<1>7. ASSUME NEW k \in 1 .. n PROVE f[k] = f[k - 1] \o ss[k]
  <2>1. f[k - 1] \in Seq(X)
    <3>1. k - 1 \in 0 .. n
      BY <1>1
    <3> QED BY <1>6, <3>1
  <2>2. <<k, f[k - 1]>> \in (1 .. n) \X Seq(X)
    BY <2>1
  <2> QED BY <1>6, <2>2
<1>8. Joins(f, ss, X)
  BY <1>6, <1>7 DEF Joins
<1> QED BY <1>8

LEMMA FlattenIs ==
  ASSUME NEW X, NEW ss \in Seq(Seq(X)), NEW f, Joins(f, ss, X)
  PROVE  FlattenSeq(ss) = f[Len(ss)]
<1> DEFINE n == Len(ss)
           Sequel(g) == [i \in 1 .. n |-> IF i = 1 THEN ss[i] ELSE g[i - 1] \o ss[i]]
           h == CHOOSE g : g = Sequel(g)
           t == [i \in 1 .. n |-> f[i]]
<1>0. n \in Nat
  OBVIOUS
<1>1. /\ f \in [0 .. n -> Seq(X)] /\ f[0] = <<>>
      /\ \A k \in 1 .. n : f[k] = f[k - 1] \o ss[k]
  BY DEF Joins
<1>2. ASSUME NEW i \in 1 .. n PROVE t[i] = IF i = 1 THEN ss[i] ELSE t[i - 1] \o ss[i]
  <2>1. CASE i = 1
    <3>1. f[1] = <<>> \o ss[1] /\ ss[1] \in Seq(X)
      <4>1. 1 \in 1 .. n /\ 1 - 1 = 0
        BY <1>0, <2>1
      <4>2. f[1] = f[1 - 1] \o ss[1]
        BY <1>1, <4>1
      <4>3. f[1 - 1] = <<>>
        BY <1>1, <4>1
      <4>4. ss[1] \in Seq(X)
        BY <4>1
      <4> QED BY <4>2, <4>3, <4>4
    <3>2. <<>> \o ss[1] = ss[1]
      BY <3>1, ConcatEmptySeq
    <3> QED BY <2>1, <3>1, <3>2
  <2>2. CASE i # 1
    <3>1. i - 1 \in 1 .. n /\ t[i - 1] = f[i - 1] /\ t[i] = f[i]
      BY <1>0, <2>2
    <3> HIDE DEF t
    <3> QED BY <1>1, <2>2, <3>1
  <2> QED BY <2>1, <2>2
<1>3. t = Sequel(t)
  BY <1>2
<1>4. h = Sequel(h)
  <2> HIDE DEF t
  <2> QED BY <1>3
<1>5. ASSUME NEW i \in 1 .. n PROVE h[i] = IF i = 1 THEN ss[i] ELSE h[i - 1] \o ss[i]
  <2>1. Sequel(h)[i] = IF i = 1 THEN ss[i] ELSE h[i - 1] \o ss[i]
    OBVIOUS
  <2> HIDE DEF h, Sequel
  <2> QED BY <1>4, <2>1
<1>6. \A i \in 0 .. n : i \in {k \in 0 .. n : k = 0 \/ h[k] = t[k]}
  <2> DEFINE T == {k \in 0 .. n : k = 0 \/ h[k] = t[k]}
  <2> HIDE DEF h, t
  <2>1. 0 \in T
    BY <1>0
  <2>2. ASSUME NEW k \in 0 .. n - 1, k \in T PROVE k + 1 \in T
    <3>1. k + 1 \in 1 .. n /\ k + 1 \in 0 .. n /\ (k + 1) - 1 = k /\ (k + 1 = 1 <=> k = 0)
      BY <1>0
    <3> QED BY <1>2, <1>5, <2>2, <3>1
  <2> HIDE DEF T
  <2>3. \A k \in 0 .. n : k \in T
    BY <1>0, <2>1, <2>2, Induction
  <2> QED BY <2>3 DEF T
<1>7. CASE n = 0
  <2>1. ss = <<>>
    BY <1>7, EmptySeq
  <2>2. FlattenSeq(ss) = ss
    BY <1>7 DEF FlattenSeq
  <2> QED BY <1>1, <1>7, <2>1, <2>2
<1>8. CASE n # 0
  <2>1. FlattenSeq(ss) = h[n]
    BY <1>8 DEF FlattenSeq
  <2>2. n \in 1 .. n /\ n \in 0 .. n /\ t[n] = f[n]
    BY <1>0, <1>8
  <2> HIDE DEF h, t
  <2> QED BY <1>6, <1>8, <2>1, <2>2
<1> QED BY <1>7, <1>8

LEMMA FlattenEmpty == FlattenSeq(<<>>) = <<>>
BY DEF FlattenSeq

LEMMA FlattenAppend ==
  ASSUME NEW X, NEW ss \in Seq(Seq(X)), NEW s \in Seq(X)
  PROVE  FlattenSeq(Append(ss, s)) = FlattenSeq(ss) \o s /\ FlattenSeq(ss) \in Seq(X)
<1> DEFINE n == Len(ss)
           tt == Append(ss, s)
<1>1. /\ n \in Nat /\ tt \in Seq(Seq(X)) /\ Len(tt) = n + 1 /\ tt[n + 1] = s
      /\ \A k \in 1 .. n : tt[k] = ss[k]
  OBVIOUS
<1>2. PICK f : Joins(f, ss, X)
  BY JoinsExist
<1> HIDE DEF tt
<1>3. PICK g : Joins(g, tt, X)
  BY <1>1, JoinsExist
<1>4. \A k \in 0 .. n : g[k] = f[k]
  <2> DEFINE T == {k \in 0 .. n : g[k] = f[k]}
  <2>1. 0 \in T
    BY <1>1, <1>2, <1>3 DEF Joins
  <2>2. ASSUME NEW k \in 0 .. n - 1, k \in T PROVE k + 1 \in T
    <3>1. k + 1 \in 1 .. n /\ k + 1 \in 1 .. n + 1 /\ k + 1 \in 0 .. n /\ (k + 1) - 1 = k
      BY <1>1
    <3>2. g[k + 1] = g[k] \o tt[k + 1] /\ f[k + 1] = f[k] \o ss[k + 1]
      BY <1>1, <1>2, <1>3, <3>1 DEF Joins
    <3> QED BY <1>1, <2>2, <3>1, <3>2
  <2>3. \A k \in 0 .. n : k \in T
    <3> HIDE DEF T
    <3> QED BY <1>1, <2>1, <2>2, Induction
  <2> QED BY <2>3
<1>5. g[n + 1] = g[n] \o s
  <2>1. n + 1 \in 1 .. Len(tt) /\ (n + 1) - 1 = n
    BY <1>1
  <2> QED BY <1>1, <1>3, <2>1 DEF Joins
<1>6. FlattenSeq(ss) = f[n] /\ FlattenSeq(tt) = g[n + 1]
  BY <1>1, <1>2, <1>3, FlattenIs
<1>7. f[n] \in Seq(X) /\ g[n] = f[n]
  BY <1>1, <1>2, <1>4 DEF Joins
<1> QED BY <1>5, <1>6, <1>7 DEF tt

LEMMA FrontIs ==
  ASSUME NEW X, NEW s \in Seq(X), s # <<>>
  PROVE  /\ Front(s) \in Seq(X) /\ Len(Front(s)) = Len(s) - 1
         /\ \A i \in 1 .. Len(s) - 1 : Front(s)[i] = s[i]
         /\ s = Append(Front(s), s[Len(s)])
<1> DEFINE n == Len(s)
<1>1. n \in Nat /\ n >= 1 /\ s[n] \in X
  OBVIOUS
<1>2. /\ Front(s) \in Seq(X) /\ Len(Front(s)) = n - 1
      /\ \A i \in 1 .. n - 1 : Front(s)[i] = s[i]
  <2>1. 1 \in 1 .. n + 1 /\ n - 1 \in 0 .. n /\ (n - 1) - 1 + 1 = n - 1
    BY <1>1
  <2> QED BY <1>1, <2>1, SubSeqProperties DEF Front
<1>3. s = Append(Front(s), s[n])
  <2> DEFINE t == Append(Front(s), s[n])
  <2>1. t \in Seq(X) /\ Len(t) = n /\ \A i \in 1 .. n : t[i] = IF i = n THEN s[n] ELSE Front(s)[i]
    BY <1>1, <1>2
  <2> HIDE DEF t
  <2>2. \A i \in 1 .. n : t[i] = s[i]
    BY <1>1, <1>2, <2>1
  <2>3. t = s
    BY <2>1, <2>2, SeqEqual
  <2> QED BY <2>3 DEF t
<1> QED BY <1>2, <1>3

-----------------------------------------------------------------------------
(* States of the parser *)

Symbol == [type : Types \cup {None}, index : Nat]
Tables == UNION {[M -> Symbol] : M \in SUBSET Names}
Slot == [name : Names, index : Nat]
Instr == [op : {"LOAD", "STORE", "LOAD_FIELD", "STORE_FIELD", "LOAD_CONST", "RETURN"},
          index : Nat, name : Names \cup {None}]
ParserUnit == [scope : {"module", "function", "block"}, syms : Tables,
               result : Types \cup {None}, varindex : Nat, locvec : Seq(Slot),
               code : Seq(Instr), ret : BOOLEAN]
ParserState == [units : Seq(ParserUnit), errnum : Nat,
                fault : {"none", "no_symbol", "no_type", "extra_value"},
                emitted : Seq(Instr)]

ScopeAt(i) == IF i = 1 THEN "module" ELSE IF i = 2 THEN "function" ELSE "block"
Typed(S) == /\ S \in ParserState
            /\ \A i \in 1 .. Len(S.units) : S.units[i].scope = ScopeAt(i)

(* The slots of the function, and what the scopes within it declare.       *)
SlotsGood(us) ==
  Len(us) > 1 => /\ us[2].varindex = Len(us[2].locvec) + 1
                 /\ \A i \in DOMAIN us[2].locvec : us[2].locvec[i].index = i
NamesGood(us) ==
  \A i, j \in 2 .. Len(us) : \A n \in DOMAIN us[i].syms :
     /\ i # j => n \notin DOMAIN us[j].syms
     /\ \E k \in DOMAIN us[2].locvec : us[2].locvec[k] = [name |-> n, index |-> us[i].syms[n].index]

(* The code of the open blocks, in the order of the blocks.                *)
Codes(us) == [i \in 1 .. Len(us) - 1 |-> us[i + 1].code]
Flat(us) == FlattenSeq(Codes(us))
Returns(code) == \E i \in DOMAIN code : code[i] = Return
CodeGood(S) ==
  Len(S.units) > 1 => /\ Flat(S.units) = S.emitted
                      /\ RightSlots(S.emitted, S.units[2].locvec)
                      /\ \A i \in 2 .. Len(S.units) : S.units[i].ret => Returns(S.units[i].code)

Sound(S) == Typed(S) /\ SlotsGood(S.units) /\ NamesGood(S.units) /\ CodeGood(S)

(* T has the scopes and symbols of S; only code may have been added.       *)
SameTables(S, T) ==
  /\ Len(T.units) = Len(S.units)
  /\ \A i \in 1 .. Len(S.units) :
       /\ T.units[i].scope = S.units[i].scope /\ T.units[i].syms = S.units[i].syms
       /\ T.units[i].result = S.units[i].result /\ T.units[i].varindex = S.units[i].varindex
       /\ T.units[i].locvec = S.units[i].locvec

LEMMA CodesIs ==
  ASSUME NEW us \in Seq(ParserUnit), us # <<>>
  PROVE  Codes(us) \in Seq(Seq(Instr)) /\ Len(Codes(us)) = Len(us) - 1 /\ Flat(us) \in Seq(Instr)
<1>1. Len(us) \in Nat \ {0} /\ \A i \in 1 .. Len(us) : us[i] \in ParserUnit
  OBVIOUS
<1>2. \A u \in ParserUnit : u.code \in Seq(Instr)
  BY DEF ParserUnit
<1>3. Len(us) - 1 \in Nat /\ \A i \in 1 .. Len(us) - 1 : i + 1 \in 1 .. Len(us)
  BY <1>1
<1>4. Codes(us) \in Seq(Seq(Instr)) /\ Len(Codes(us)) = Len(us) - 1
  BY <1>1, <1>2, <1>3 DEF Codes
<1>5. <<>> \in Seq(Instr)
  OBVIOUS
<1>6. FlattenSeq(Codes(us)) \in Seq(Instr)
  BY <1>4, <1>5, FlattenAppend
<1> QED BY <1>4, <1>6 DEF Flat

LEMMA FlatOne == ASSUME NEW us \in Seq(ParserUnit), Len(us) = 1 PROVE Flat(us) = <<>>
<1>1. Codes(us) = <<>>
  BY DEF Codes
<1> QED BY <1>1, FlattenEmpty DEF Flat

LEMMA FlatSame ==
  ASSUME NEW us \in Seq(ParserUnit), NEW vs \in Seq(ParserUnit), Len(vs) = Len(us),
         \A i \in 2 .. Len(us) : vs[i].code = us[i].code
  PROVE  Flat(vs) = Flat(us)
<1>1. Codes(vs) = Codes(us)
  BY DEF Codes
<1> QED BY <1>1 DEF Flat

LEMMA FlatAppend ==
  ASSUME NEW us \in Seq(ParserUnit), us # <<>>, NEW u \in ParserUnit
  PROVE  Flat(Append(us, u)) = Flat(us) \o u.code
<1> DEFINE vs == Append(us, u)
           n == Len(us)
<1>1. n \in Nat \ {0} /\ vs \in Seq(ParserUnit) /\ Len(vs) = n + 1 /\ vs[n + 1] = u
      /\ \A i \in 1 .. n : vs[i] = us[i]
  OBVIOUS
<1>2. u.code \in Seq(Instr)
  BY DEF ParserUnit
<1> HIDE DEF vs
<1>3. Codes(us) \in Seq(Seq(Instr)) /\ Len(Codes(us)) = n - 1
  BY CodesIs
<1>4. Codes(vs) = Append(Codes(us), u.code)
  <2>1. vs # <<>>
    BY <1>1
  <2>2. Codes(vs) \in Seq(Seq(Instr)) /\ Len(Codes(vs)) = n
    BY <1>1, <2>1, CodesIs
  <2>3. ASSUME NEW i \in 1 .. n PROVE Codes(vs)[i] = Append(Codes(us), u.code)[i]
    <3>1. CASE i = n
      <4>1. Codes(vs)[i] = u.code
        BY <1>1, <3>1 DEF Codes
      <4> QED BY <1>1, <1>2, <1>3, <3>1, <4>1
    <3>2. CASE i # n
      <4>1. i \in 1 .. n - 1 /\ i + 1 \in 1 .. n
        BY <1>1, <3>2
      <4>2. Codes(vs)[i] = us[i + 1].code /\ Codes(us)[i] = us[i + 1].code
        BY <1>1, <4>1 DEF Codes
      <4> QED BY <1>2, <1>3, <4>1, <4>2
    <3> QED BY <3>1, <3>2
  <2>4. Append(Codes(us), u.code) \in Seq(Seq(Instr)) /\ Len(Append(Codes(us), u.code)) = n
    BY <1>1, <1>2, <1>3
  <2> QED BY <2>2, <2>3, <2>4, SeqEqual, ZenonT(40)
<1>5. FlattenSeq(Append(Codes(us), u.code)) = FlattenSeq(Codes(us)) \o u.code
  BY <1>2, <1>3, FlattenAppend
<1> QED BY <1>4, <1>5 DEF Flat, vs

(* What is added to the code of the current scope is added to the whole.   *)
LEMMA FlatLast ==
  ASSUME NEW us \in Seq(ParserUnit), NEW vs \in Seq(ParserUnit), Len(us) > 1, Len(vs) = Len(us),
         \A i \in 2 .. Len(us) - 1 : vs[i].code = us[i].code,
         NEW c \in Seq(Instr), vs[Len(us)].code = us[Len(us)].code \o c
  PROVE  Flat(vs) = Flat(us) \o c
<1> DEFINE n == Len(us)
           fs == Front(us)
           gs == Front(vs)
<1>1. n \in Nat /\ n > 1 /\ n \in 1 .. Len(us)
  OBVIOUS
<1>2. /\ fs \in Seq(ParserUnit) /\ Len(fs) = n - 1 /\ \A i \in 1 .. n - 1 : fs[i] = us[i]
      /\ gs \in Seq(ParserUnit) /\ Len(gs) = n - 1 /\ \A i \in 1 .. n - 1 : gs[i] = vs[i]
  BY <1>1, FrontIs
<1>3. us = Append(fs, us[n]) /\ vs = Append(gs, vs[n])
  BY <1>1, FrontIs
<1>4. us[n] \in ParserUnit /\ vs[n] \in ParserUnit
  BY <1>1
<1>5. us[n].code \in Seq(Instr)
  BY <1>4 DEF ParserUnit
<1> HIDE DEF fs, gs
<1>6. fs # <<>> /\ gs # <<>>
  BY <1>1, <1>2
<1>7. Flat(us) = Flat(fs) \o us[n].code /\ Flat(vs) = Flat(gs) \o vs[n].code
  BY <1>2, <1>3, <1>4, <1>6, FlatAppend
<1>8. Flat(gs) = Flat(fs)
  <2>1. ASSUME NEW i \in 2 .. Len(fs) PROVE gs[i].code = fs[i].code
    <3>1. i \in 1 .. n - 1 /\ i \in 2 .. Len(us) - 1
      BY <1>1, <1>2
    <3>2. gs[i] = vs[i] /\ fs[i] = us[i]
      BY <1>2, <3>1
    <3> QED BY <3>1, <3>2
  <2> QED BY <1>2, <2>1, FlatSame
<1>9. Flat(fs) \in Seq(Instr)
  BY <1>2, <1>6, CodesIs
<1>10. (Flat(fs) \o us[n].code) \o c = Flat(fs) \o (us[n].code \o c)
  <2> DEFINE a == Flat(fs)
             b == us[n].code
  <2>1. a \in Seq(Instr) /\ b \in Seq(Instr)
    BY <1>5, <1>9
  <2> HIDE DEF a, b
  <2>2. (a \o b) \o c = a \o (b \o c)
    BY <2>1, ConcatAssociative, SMTT(30)
  <2> QED BY <2>2 DEF a, b
<1> QED BY <1>7, <1>8, <1>10

LEMMA StateIs ==
  ASSUME NEW S \in ParserState
  PROVE  /\ S.units \in Seq(ParserUnit) /\ S.errnum \in Nat /\ S.emitted \in Seq(Instr)
         /\ S.fault \in {"none", "no_symbol", "no_type", "extra_value"}
         /\ Depth(S) = Len(S.units) /\ Depth(S) \in Nat
         /\ S.units # <<>> => Depth(S) >= 1 /\ Depth(S) \in 1 .. Len(S.units)
         /\ \A i \in 1 .. Depth(S) : S.units[i] \in ParserUnit
BY DEF ParserState, Depth

LEMMA AppendIs ==
  ASSUME NEW X, NEW s \in Seq(X), NEW x \in X
  PROVE  Append(s, x) \in Seq(X) /\ <<x>> \in Seq(X) /\ Append(s, x) = s \o <<x>>
<1>1. Append(s, x) \in Seq(X) /\ <<x>> \in Seq(X) /\ Len(Append(s, x)) = Len(s) + 1
  OBVIOUS
<1>2. s \o <<x>> \in Seq(X) /\ Len(s \o <<x>>) = Len(s) + 1
  OBVIOUS
<1>3. \A i \in 1 .. Len(s) + 1 : Append(s, x)[i] = (s \o <<x>>)[i]
  OBVIOUS
<1> QED BY <1>1, <1>2, <1>3, SeqEqual

LEMMA CodeReplaced ==
  ASSUME NEW u \in ParserUnit, NEW c \in Seq(Instr)
  PROVE  LET v == [u EXCEPT !.code = c]
         IN  /\ v \in ParserUnit /\ v.scope = u.scope /\ v.syms = u.syms /\ v.result = u.result
             /\ v.varindex = u.varindex /\ v.locvec = u.locvec /\ v.code = c /\ v.ret = u.ret
BY DEF ParserUnit

(* A state that differs in the current scope only.                         *)
LEMMA UnitReplaced ==
  ASSUME NEW us \in Seq(ParserUnit), us # <<>>, NEW v \in ParserUnit
  PROVE  LET vs == [us EXCEPT ![Len(us)] = v]
         IN  /\ vs \in Seq(ParserUnit) /\ Len(vs) = Len(us) /\ vs # <<>> /\ vs[Len(us)] = v
             /\ \A i \in 1 .. Len(us) : vs[i] = IF i = Len(us) THEN v ELSE us[i]
             /\ \A i \in 1 .. Len(us) - 1 : vs[i] = us[i]
<1>1. Len(us) \in 1 .. Len(us) /\ \A i \in 1 .. Len(us) - 1 : i \in 1 .. Len(us) /\ i # Len(us)
  OBVIOUS
<1>2. \A x \in Seq(ParserUnit) : Len(x) = Len(us) => x # <<>>
  BY <1>1
<1> QED BY <1>1, <1>2, ExceptSeq

LEMMA TablesKept ==
  ASSUME NEW S, NEW T, Sound(S), T \in ParserState, SameTables(S, T)
  PROVE  Typed(T) /\ SlotsGood(T.units) /\ NamesGood(T.units)
<1>1. Len(S.units) \in Nat
  BY StateIs DEF Sound, Typed
<1>2. Typed(T)
  BY DEF Sound, Typed, SameTables
<1>3. CASE Len(S.units) > 1
  <2>1. 2 \in 1 .. Len(S.units) /\ \A i \in 2 .. Len(S.units) : i \in 1 .. Len(S.units)
    BY <1>1, <1>3
  <2>2. SlotsGood(T.units)
    BY <1>3, <2>1 DEF Sound, SlotsGood, SameTables
  <2>3. NamesGood(T.units)
    BY <1>3, <2>1 DEF Sound, NamesGood, SameTables
  <2> QED BY <1>2, <2>2, <2>3
<1>4. CASE Len(S.units) <= 1
  BY <1>1, <1>2, <1>4 DEF SlotsGood, NamesGood, SameTables
<1> QED BY <1>1, <1>3, <1>4

(* An instruction may name a local variable only by its slot.              *)
Addresses(us, inst) ==
  Len(us) > 1 /\ inst.op \in {"LOAD", "STORE"} =>
    inst.index \in DOMAIN us[2].locvec /\ us[2].locvec[inst.index].name = inst.name

LEMMA EmitForm ==
  ASSUME NEW S \in ParserState, S.units # <<>>, NEW inst \in Instr
  PROVE  LET n == Len(S.units)
             T == Emit(S, inst)
         IN  /\ T.units = [S.units EXCEPT ![n] = [S.units[n] EXCEPT !.code = Append(@, inst)]]
             /\ T.emitted = Append(S.emitted, inst) /\ T.errnum = S.errnum /\ T.fault = S.fault
             /\ T \in ParserState
<1> DEFINE us == S.units
           n == Len(us)
           v == [us[n] EXCEPT !.code = Append(us[n].code, inst)]
           vs == [us EXCEPT ![n] = v]
           T == Emit(S, inst)
<1>1. Depth(S) = n /\ n \in DOMAIN us /\ us \in Seq(ParserUnit) /\ us[n] \in ParserUnit
      /\ S.emitted \in Seq(Instr) /\ S.errnum \in Nat
      /\ S.fault \in {"none", "no_symbol", "no_type", "extra_value"}
  BY StateIs DEF Depth
<1>2. T = [S EXCEPT !.units = vs, !.emitted = Append(S.emitted, inst)]
  BY <1>1 DEF Emit, ParserState
<1>3. vs \in Seq(ParserUnit)
  <2>1. us[n].code \in Seq(Instr)
    BY <1>1 DEF ParserUnit
  <2>2. Append(us[n].code, inst) \in Seq(Instr)
    BY <2>1, AppendIs
  <2>3. v \in ParserUnit
    BY <1>1, <2>2, CodeReplaced
  <2> HIDE DEF v
  <2> QED BY <1>1, <2>3, ExceptSeq
<1>4. Append(S.emitted, inst) \in Seq(Instr)
  BY <1>1, AppendIs
<1> DEFINE x == Append(S.emitted, inst)
<1>5. \A a \in Seq(ParserUnit), b \in Seq(Instr) :
        LET R == [S EXCEPT !.units = a, !.emitted = b]
        IN  /\ R.units = a /\ R.emitted = b /\ R.errnum = S.errnum /\ R.fault = S.fault
            /\ R \in ParserState
  BY DEF ParserState
<1> HIDE DEF T, vs, x
<1>6. /\ T.units = vs /\ T.emitted = x /\ T.errnum = S.errnum /\ T.fault = S.fault
      /\ T \in ParserState
  BY <1>2, <1>3, <1>4, <1>5 DEF x
<1> QED BY <1>6 DEF T, vs, x

LEMMA EmitIs ==
  ASSUME NEW S, Sound(S), S.units # <<>>, NEW inst \in Instr, Addresses(S.units, inst)
  PROVE  LET T == Emit(S, inst) IN
         /\ Sound(T) /\ SameTables(S, T) /\ T.errnum = S.errnum /\ T.fault = S.fault
         /\ \A i \in 1 .. Depth(S) : T.units[i].ret = S.units[i].ret
         /\ Returns(T.units[Depth(S)].code) <=> Returns(S.units[Depth(S)].code) \/ inst = Return
<1> DEFINE T == Emit(S, inst)
           us == S.units
           n == Len(us)
           v == [us[n] EXCEPT !.code = Append(@, inst)]
<1>1. /\ S \in ParserState /\ us \in Seq(ParserUnit) /\ n \in Nat /\ n >= 1 /\ Depth(S) = n
      /\ n \in 1 .. n /\ us[n] \in ParserUnit /\ S.emitted \in Seq(Instr)
  BY StateIs DEF Sound, Typed, Depth
<1>2. /\ T.units = [us EXCEPT ![n] = v] /\ T.emitted = Append(S.emitted, inst)
      /\ T.errnum = S.errnum /\ T.fault = S.fault
      /\ T \in ParserState
  BY <1>1, EmitForm
<1>3. /\ v \in ParserUnit /\ v.scope = us[n].scope /\ v.syms = us[n].syms
      /\ v.result = us[n].result /\ v.varindex = us[n].varindex /\ v.locvec = us[n].locvec
      /\ v.code = Append(us[n].code, inst) /\ v.ret = us[n].ret /\ us[n].code \in Seq(Instr)
  <2>1. us[n].code \in Seq(Instr)
    BY <1>1 DEF ParserUnit
  <2>2. Append(us[n].code, inst) \in Seq(Instr)
    BY <2>1, AppendIs
  <2> QED BY <1>1, <2>1, <2>2, CodeReplaced
<1> HIDE DEF T, v
<1>4. /\ T.units \in Seq(ParserUnit) /\ Len(T.units) = n /\ T.units[n] = v
      /\ \A i \in 1 .. n : T.units[i] = IF i = n THEN v ELSE us[i]
      /\ \A i \in 1 .. n - 1 : T.units[i] = us[i]
  BY <1>1, <1>2, <1>3, UnitReplaced
<1>6. SameTables(S, T)
  BY <1>3, <1>4 DEF SameTables
<1>7. Typed(T) /\ SlotsGood(T.units) /\ NamesGood(T.units)
  BY <1>2, <1>6, TablesKept
<1>8. \A i \in 1 .. n : T.units[i].ret = us[i].ret
  BY <1>3, <1>4
<1>9. Returns(v.code) <=> Returns(us[n].code) \/ inst = Return
  <2> DEFINE c == us[n].code
  <2>1. c \in Seq(Instr) /\ v.code = Append(c, inst)
    BY <1>3
  <2> HIDE DEF c
  <2>2. /\ Len(c) \in Nat /\ DOMAIN v.code = 1 .. Len(c) + 1 /\ DOMAIN c = 1 .. Len(c)
        /\ \A i \in 1 .. Len(c) : v.code[i] = c[i]
        /\ v.code[Len(c) + 1] = inst
    BY <2>1
  <2>3. Returns(v.code) <=> Returns(c) \/ inst = Return
    BY <2>2 DEF Returns
  <2> QED BY <2>3 DEF c
<1>10. CodeGood(T)
  <2> SUFFICES ASSUME n > 1
               PROVE  /\ Flat(T.units) = T.emitted
                      /\ RightSlots(T.emitted, T.units[2].locvec)
                      /\ \A i \in 2 .. n : T.units[i].ret => Returns(T.units[i].code)
    BY <1>4 DEF CodeGood
  <2>1. /\ Flat(us) = S.emitted /\ RightSlots(S.emitted, us[2].locvec)
        /\ \A i \in 2 .. n : us[i].ret => Returns(us[i].code)
    BY DEF Sound, CodeGood
  <2>2. Flat(T.units) = Flat(us) \o <<inst>>
    <3>1. <<inst>> \in Seq(Instr) /\ v.code = us[n].code \o <<inst>>
      BY <1>3, AppendIs
    <3>2. \A i \in 2 .. Len(us) - 1 : T.units[i].code = us[i].code
      BY <1>4
    <3>3. T.units[Len(us)].code = us[Len(us)].code \o <<inst>>
      BY <1>4, <3>1
    <3> HIDE DEF us
    <3> QED BY <1>1, <1>4, <3>1, <3>2, <3>3, FlatLast
  <2>3. Flat(T.units) = T.emitted
    <3>1. Append(S.emitted, inst) = S.emitted \o <<inst>>
      BY <1>1, AppendIs
    <3> QED BY <1>2, <2>1, <2>2, <3>1
  <2>4. T.units[2].locvec = us[2].locvec
    BY <1>1, <1>6 DEF SameTables
  <2>5. RightSlots(T.emitted, us[2].locvec)
    <3> DEFINE e == S.emitted
    <3>1. /\ Len(e) \in Nat /\ DOMAIN T.emitted = 1 .. Len(e) + 1 /\ DOMAIN e = 1 .. Len(e)
          /\ \A i \in 1 .. Len(e) : T.emitted[i] = e[i]
          /\ T.emitted[Len(e) + 1] = inst
      BY <1>1, <1>2
    <3> HIDE DEF e
    <3>2. RightSlots(e, us[2].locvec)
      BY <2>1 DEF e
    <3> QED BY <3>1, <3>2 DEF RightSlots, Addresses
  <2>6. ASSUME NEW i \in 2 .. n, T.units[i].ret PROVE Returns(T.units[i].code)
    <3>1. us[i].ret /\ i \in 1 .. n
      BY <1>8, <2>6
    <3>2. Returns(us[i].code)
      BY <2>1, <3>1
    <3> QED BY <1>4, <1>9, <3>1, <3>2
  <2> QED BY <2>3, <2>4, <2>5, <2>6
<1>11. Sound(T)
  BY <1>7, <1>10 DEF Sound
<1> QED BY <1>1, <1>2, <1>4, <1>6, <1>8, <1>9, <1>11 DEF T

-----------------------------------------------------------------------------
(* Expressions *)

(* Nothing takes back an error.                                            *)
Later(S, T) == S.errnum <= T.errnum /\ (Stopped(S) => Stopped(T))
Fine(S) == S.errnum = 0 /\ S.fault = "none"

LEMMA FineLater ==
  ASSUME NEW S \in ParserState, NEW T \in ParserState, Later(S, T), Fine(T)
  PROVE  Fine(S)
BY StateIs DEF Later, Fine, Stopped

LEMMA LaterTrans ==
  ASSUME NEW R \in ParserState, NEW S \in ParserState, NEW T \in ParserState, Later(R, S), Later(S, T)
  PROVE  Later(R, T)
<1>1. R.errnum \in Nat /\ S.errnum \in Nat /\ T.errnum \in Nat
  BY StateIs
<1> QED BY <1>1 DEF Later

LEMMA SameTablesTrans ==
  ASSUME NEW R, NEW S, NEW T, SameTables(R, S), SameTables(S, T)
  PROVE  SameTables(R, T)
BY DEF SameTables

LEMMA SoundWith ==
  ASSUME NEW S, Sound(S), NEW T \in ParserState, T.units = S.units, T.emitted = S.emitted
  PROVE  Sound(T) /\ SameTables(S, T)
BY DEF Sound, Typed, CodeGood, SameTables

LEMMA ErrorIs ==
  ASSUME NEW S, Sound(S)
  PROVE  LET T == SyntaxError(S) IN
         /\ Sound(T) /\ SameTables(S, T) /\ T.units = S.units /\ Later(S, T) /\ ~ Fine(T)
         /\ T.errnum = S.errnum + 1 /\ T.fault = S.fault
<1> DEFINE T == SyntaxError(S)
<1>1. S \in ParserState /\ S.errnum \in Nat
  BY StateIs DEF Sound, Typed
<1>2. /\ T \in ParserState /\ T.units = S.units /\ T.emitted = S.emitted
      /\ T.errnum = S.errnum + 1 /\ T.fault = S.fault
  BY <1>1 DEF SyntaxError, ParserState
<1> HIDE DEF T
<1>3. Sound(T) /\ SameTables(S, T)
  BY <1>2, SoundWith
<1> QED BY <1>1, <1>2, <1>3 DEF T, Later, Fine, Stopped

LEMMA StopIs ==
  ASSUME NEW S, Sound(S), NEW why \in {"no_symbol", "no_type", "extra_value"}
  PROVE  LET T == Stop(S, why) IN
         /\ Sound(T) /\ SameTables(S, T) /\ T.units = S.units /\ Later(S, T) /\ ~ Fine(T)
<1> DEFINE T == Stop(S, why)
<1>1. S \in ParserState /\ S.errnum \in Nat
  BY StateIs DEF Sound, Typed
<1>2. /\ T \in ParserState /\ T.units = S.units /\ T.emitted = S.emitted
      /\ T.errnum = S.errnum /\ T.fault = why
  BY <1>1 DEF Stop, ParserState
<1> HIDE DEF T
<1>3. Sound(T) /\ SameTables(S, T)
  BY <1>2, SoundWith
<1> QED BY <1>1, <1>2, <1>3 DEF T, Later, Fine, Stopped

(* Tables are functions of names.                                          *)
LEMMA TableIs ==
  ASSUME NEW t
  PROVE  t \in Tables <=> /\ DOMAIN t \subseteq Names /\ t = [n \in DOMAIN t |-> t[n]]
                          /\ \A n \in DOMAIN t : t[n] \in Symbol
<1>1. ASSUME t \in Tables
      PROVE  /\ DOMAIN t \subseteq Names /\ t = [n \in DOMAIN t |-> t[n]]
             /\ \A n \in DOMAIN t : t[n] \in Symbol
  <2>1. PICK M \in SUBSET Names : t \in [M -> Symbol]
    BY <1>1 DEF Tables
  <2> QED BY <2>1
<1>2. ASSUME DOMAIN t \subseteq Names, t = [n \in DOMAIN t |-> t[n]],
             \A n \in DOMAIN t : t[n] \in Symbol
      PROVE  t \in Tables
  <2>1. t \in [DOMAIN t -> Symbol]
    BY <1>2
  <2> QED BY <1>2, <2>1 DEF Tables
<1> QED BY <1>1, <1>2

LEMMA SymbolIs ==
  ASSUME NEW S, Sound(S), NEW i \in 1 .. Depth(S), NEW n \in DOMAIN S.units[i].syms
  PROVE  /\ n \in Names /\ S.units[i].syms[n] \in Symbol
         /\ S.units[i].syms[n].type \in Types \cup {None} /\ S.units[i].syms[n].index \in Nat
<1>1. S.units[i].syms \in Tables
  BY StateIs DEF Sound, Typed, ParserUnit
<1>2. n \in Names /\ S.units[i].syms[n] \in Symbol
  BY <1>1, TableIs
<1> QED BY <1>2 DEF Symbol

LEMMA ResolveIs ==
  ASSUME NEW S, Sound(S), NEW n, Declaring(S, n) # {}
  PROVE  /\ Resolve(S, n) \in 1 .. Depth(S) /\ n \in DOMAIN S.units[Resolve(S, n)].syms
         /\ Resolve(S, n) \in Declaring(S, n) /\ \A j \in Declaring(S, n) : j <= Resolve(S, n)
<1> DEFINE D == Declaring(S, n)
           F == {k \in 0 .. Depth(S) : Depth(S) - k \in D}
<1>1. Depth(S) \in Nat /\ D \subseteq 1 .. Depth(S)
  BY StateIs DEF Sound, Typed, Declaring
<1>2. F \in SUBSET Nat /\ F # {}
  <2>1. PICK i \in D : TRUE
    OBVIOUS
  <2>2. Depth(S) - i \in 0 .. Depth(S) /\ Depth(S) - (Depth(S) - i) = i
    BY <1>1, <2>1
  <2> QED BY <2>1, <2>2
<1>3. PICK k \in F : \A j \in F : k <= j
  <2> HIDE DEF F
  <2> QED BY <1>2, Least
<1>4. Depth(S) - k \in D /\ \A j \in D : j <= Depth(S) - k
  <2>1. ASSUME NEW j \in D PROVE j <= Depth(S) - k
    <3>1. j \in Nat /\ Depth(S) - j \in 0 .. Depth(S) /\ Depth(S) - (Depth(S) - j) = j
      BY <1>1
    <3>2. Depth(S) - j \in F
      BY <3>1
    <3>3. k <= Depth(S) - j /\ k \in Nat
      BY <1>3, <3>2
    <3> QED BY <1>1, <3>1, <3>3
  <2> QED BY <2>1
<1>5. Resolve(S, n) \in D /\ \A j \in D : j <= Resolve(S, n)
  <2> HIDE DEF D
  <2>1. \E i \in D : \A j \in D : j <= i
    BY <1>4
  <2> QED BY <2>1 DEF Resolve, D
<1> QED BY <1>1, <1>5 DEF Declaring

(* The type of an expression, or None.                                     *)
TypeIn(S, e) ==
  IF e.kind = "const" THEN e.type
  ELSE IF Declaring(S, e.name) = {} THEN None
  ELSE S.units[Resolve(S, e.name)].syms[e.name].type

(* A name that is found in the current scope of a function has a slot.     *)
LEMMA SlotIs ==
  ASSUME NEW S, Sound(S), Depth(S) > 1, NEW n \in DOMAIN Current(S).syms, NEW op \in {"LOAD", "STORE"}
  PROVE  LET inst == Inst(op, Current(S).syms[n].index, n)
         IN  inst \in Instr /\ Addresses(S.units, inst)
<1>1. Depth(S) \in Nat /\ Depth(S) = Len(S.units) /\ Depth(S) \in 2 .. Len(S.units)
      /\ Depth(S) \in 1 .. Depth(S)
  BY StateIs DEF Sound, Typed
<1>2. n \in Names /\ Current(S).syms[n].index \in Nat
  BY <1>1, SymbolIs DEF Current
<1>3. PICK k \in DOMAIN S.units[2].locvec :
        S.units[2].locvec[k] = [name |-> n, index |-> Current(S).syms[n].index]
  BY <1>1 DEF Sound, NamesGood, Current
<1>4. S.units[2].locvec[k].index = k
  BY <1>1 DEF Sound, SlotsGood
<1>5. Current(S).syms[n].index = k
  BY <1>3, <1>4
<1> QED BY <1>2, <1>3, <1>5 DEF Inst, Instr, Addresses

LEMMA CodeIdentIs ==
  ASSUME NEW S, Sound(S), NEW n, Declaring(S, n) # {}, NEW ctx \in {"LOAD", "STORE"}
  PROVE  LET T == CodeIdent(S, n, ctx) IN
         /\ Sound(T) /\ SameTables(S, T) /\ T.errnum = S.errnum /\ T.fault = S.fault
<1> DEFINE i == Resolve(S, n)
<1>1. i \in 1 .. Depth(S) /\ n \in DOMAIN S.units[i].syms /\ n \in Names
  BY ResolveIs, SymbolIs
<1>2. S \in ParserState /\ Depth(S) \in Nat /\ Depth(S) = Len(S.units) /\ S.units # <<>>
      /\ SameTables(S, S)
  <2>1. S \in ParserState
    BY DEF Sound, Typed
  <2> QED BY <1>1, <2>1, StateIs DEF SameTables
<1>3. CASE i # Depth(S)
  BY <1>2, <1>3 DEF CodeIdent
<1>4. CASE i = Depth(S) /\ Current(S).scope = "module"
  <2> DEFINE inst == Inst("LOAD_FIELD", 0, n)
  <2>1. inst \in Instr /\ Addresses(S.units, inst)
    BY <1>1 DEF Inst, Instr, Addresses
  <2>2. CodeIdent(S, n, ctx) = Emit(S, inst)
    BY <1>4 DEF CodeIdent
  <2> HIDE DEF inst
  <2> QED BY <1>2, <2>1, <2>2, EmitIs
<1>5. CASE i = Depth(S) /\ Current(S).scope # "module"
  <2> DEFINE inst == Inst(ctx, Current(S).syms[n].index, n)
  <2>1. Depth(S) > 1
    BY <1>1, <1>2, <1>5 DEF Sound, Typed, ScopeAt, Current
  <2>2. n \in DOMAIN Current(S).syms
    BY <1>1, <1>5 DEF Current
  <2>3. inst \in Instr /\ Addresses(S.units, inst)
    BY <2>1, <2>2, SlotIs
  <2>4. CodeIdent(S, n, ctx) = Emit(S, inst)
    BY <1>5 DEF CodeIdent
  <2> HIDE DEF inst
  <2> QED BY <1>2, <2>3, <2>4, EmitIs
<1> QED BY <1>3, <1>4, <1>5

LEMMA VisitIs ==
  ASSUME NEW S, Sound(S), S.units # <<>>, NEW e \in Exps, NEW ctx \in {"LOAD", "STORE"}
  PROVE  LET V == Visit(S, e, ctx) IN
         /\ Sound(V.s) /\ SameTables(S, V.s) /\ Later(S, V.s) /\ V.type \in Types \cup {None}
         /\ Fine(S) => V.type = TypeIn(S, e) /\ (Fine(V.s) <=> TypeIn(S, e) # None)
         /\ TypeIn(S, e) \in Types \cup {None}
<1> DEFINE V == Visit(S, e, ctx)
           type == S.units[Resolve(S, e.name)].syms[e.name].type
<1>0. /\ S \in ParserState /\ S.errnum \in Nat /\ Depth(S) \in Nat /\ SameTables(S, S) /\ Later(S, S)
      /\ MaxErrors \in Nat /\ None \notin Types
  <2>1. S \in ParserState
    BY DEF Sound, Typed
  <2>2. S.errnum \in Nat /\ Depth(S) \in Nat
    BY <2>1, StateIs
  <2> QED BY <2>1, <2>2, ScopesAssumption DEF SameTables, Later
<1>1. e.kind \in {"const", "id"} /\ (e.kind = "const" => e.type \in Types)
  BY DEF Exps
<1>2. CASE Enough(S) \/ Stopped(S)
  <2>1. V = [s |-> S, type |-> None]
    BY <1>2 DEF Visit
  <2>2. ~ Fine(S)
    BY <1>0, <1>2 DEF Enough, Stopped, Fine
  <2>3. TypeIn(S, e) \in Types \cup {None}
    <3>1. CASE e.kind = "const"
      BY <1>1, <3>1 DEF TypeIn
    <3>2. CASE e.kind # "const" /\ Declaring(S, e.name) = {}
      BY <3>2 DEF TypeIn
    <3>3. CASE e.kind # "const" /\ Declaring(S, e.name) # {}
      BY <3>3, ResolveIs, SymbolIs DEF TypeIn
    <3> QED BY <3>1, <3>2, <3>3
  <2> HIDE DEF V
  <2> QED BY <1>0, <2>1, <2>2, <2>3 DEF V
<1>3. CASE ~ (Enough(S) \/ Stopped(S)) /\ e.kind = "const"
  <2> DEFINE inst == Inst("LOAD_CONST", 0, None)
  <2>1. V = [s |-> Emit(S, inst), type |-> e.type]
    BY <1>3 DEF Visit
  <2>2. inst \in Instr /\ Addresses(S.units, inst)
    BY DEF Inst, Instr, Addresses
  <2>3. TypeIn(S, e) = e.type /\ e.type \in Types
    BY <1>1, <1>3 DEF TypeIn
  <2> HIDE DEF inst
  <2>4. /\ Sound(Emit(S, inst)) /\ SameTables(S, Emit(S, inst))
        /\ Emit(S, inst).errnum = S.errnum /\ Emit(S, inst).fault = S.fault
    BY <2>2, EmitIs
  <2> HIDE DEF V
  <2> QED BY <1>0, <2>1, <2>3, <2>4 DEF V, Later, Fine, Stopped
<1>4. CASE ~ (Enough(S) \/ Stopped(S)) /\ e.kind # "const" /\ Declaring(S, e.name) = {}
  <2> DEFINE E == SyntaxError(S)
             F == Stop(E, "no_symbol")
  <2>1. V = [s |-> IF Enough(E) THEN E ELSE F, type |-> None]
    BY <1>4 DEF Visit
  <2>2. Sound(E) /\ SameTables(S, E) /\ Later(S, E) /\ ~ Fine(E)
    BY ErrorIs
  <2> HIDE DEF E
  <2>3. Sound(F) /\ SameTables(E, F) /\ Later(E, F) /\ ~ Fine(F)
    BY <2>2, StopIs
  <2> HIDE DEF F
  <2>4. SameTables(S, F) /\ Later(S, F)
    BY <1>0, <2>2, <2>3, SameTablesTrans, LaterTrans DEF Sound, Typed
  <2>5. TypeIn(S, e) = None
    BY <1>4 DEF TypeIn
  <2> HIDE DEF V
  <2> QED BY <2>1, <2>2, <2>3, <2>4, <2>5 DEF V
<1>5. CASE ~ (Enough(S) \/ Stopped(S)) /\ e.kind # "const" /\ Declaring(S, e.name) # {}
  <2>1. V = [s |-> IF type = None THEN Stop(S, "no_type") ELSE CodeIdent(S, e.name, ctx),
             type |-> type]
    BY <1>5 DEF Visit
  <2>2. TypeIn(S, e) = type /\ type \in Types \cup {None}
    BY <1>5, ResolveIs, SymbolIs DEF TypeIn
  <2> HIDE DEF type
  <2> HIDE DEF V
  <2>3. CASE type = None
    <3> DEFINE F == Stop(S, "no_type")
    <3>1. Sound(F) /\ SameTables(S, F) /\ Later(S, F) /\ ~ Fine(F)
      BY StopIs
    <3> HIDE DEF F
    <3>2. V.s = F /\ V.type = None
      BY <2>1, <2>3 DEF F
    <3> QED BY <2>2, <2>3, <3>1, <3>2 DEF V
  <2>4. CASE type # None
    <3> DEFINE C == CodeIdent(S, e.name, ctx)
    <3>1. Sound(C) /\ SameTables(S, C) /\ C.errnum = S.errnum /\ C.fault = S.fault
      BY <1>5, CodeIdentIs
    <3> HIDE DEF C
    <3>2. V.s = C /\ V.type = type
      BY <2>1, <2>4 DEF C
    <3> QED BY <1>0, <2>2, <2>4, <3>1, <3>2 DEF V, Later, Fine, Stopped
  <2> QED BY <2>3, <2>4
<1> QED BY <1>2, <1>3, <1>4, <1>5

-----------------------------------------------------------------------------
(* Declarations *)

LEMMA EnteredIs ==
  ASSUME NEW t \in Tables, NEW name \in Names, NEW type \in Types \cup {None}, NEW index \in Nat
  PROVE  LET u == Entered(t, name, type, index) IN
         /\ u \in Tables /\ DOMAIN u = DOMAIN t \cup {name}
         /\ \A n \in DOMAIN t : u[n] = t[n]
         /\ name \notin DOMAIN t => u[name] = [type |-> type, index |-> index]
<1> DEFINE u == Entered(t, name, type, index)
<1>1. /\ DOMAIN u = DOMAIN t \cup {name} /\ u = [n \in DOMAIN u |-> u[n]]
      /\ \A n \in DOMAIN t : u[n] = t[n]
      /\ name \notin DOMAIN t => u[name] = [type |-> type, index |-> index]
  BY DEF Entered
<1>2. [type |-> type, index |-> index] \in Symbol
  BY DEF Symbol
<1>3. u \in Tables
  <2>1. DOMAIN t \subseteq Names /\ \A n \in DOMAIN t : t[n] \in Symbol
    BY TableIs
  <2> HIDE DEF u
  <2>2. \A n \in DOMAIN u : u[n] \in Symbol
    BY <1>1, <1>2, <2>1
  <2> QED BY <1>1, <2>1, <2>2, TableIs
<1> QED BY <1>1, <1>3

LEMMA FunctionIs ==
  ASSUME NEW S, Typed(S), Depth(S) > 1
  PROVE  FunctionUnit(S) = 2
<1>1. Depth(S) \in Nat /\ Depth(S) = Len(S.units)
  BY StateIs DEF Typed
<1>2. \A i \in 1 .. Depth(S) : S.units[i].scope = "function" <=> i = 2
  BY <1>1 DEF Typed, ScopeAt
<1>3. 2 \in 1 .. Depth(S)
  BY <1>1
<1> QED BY <1>2, <1>3 DEF FunctionUnit

(* The effect of AddLocal on the units.                                    *)
LocalAdded(us, vs, name, type) ==
  LET d == Len(us)  index == us[2].varindex IN
  /\ vs \in Seq(ParserUnit) /\ Len(vs) = d
  /\ vs[d].syms = Entered(us[d].syms, name, type, index)
  /\ \A i \in 1 .. d - 1 : vs[i].syms = us[i].syms
  /\ vs[2].varindex = index + 1
  /\ vs[2].locvec = Append(us[2].locvec, [name |-> name, index |-> index])
  /\ \A i \in 1 .. d : /\ vs[i].scope = us[i].scope /\ vs[i].result = us[i].result
                       /\ vs[i].code = us[i].code /\ vs[i].ret = us[i].ret

LEMMA TakeSlotIs ==
  ASSUME NEW u \in ParserUnit, NEW name \in Names, NEW k \in Nat
  PROVE  LET w == TakeSlot(u, name, k)
         IN  /\ w \in ParserUnit /\ w.scope = u.scope /\ w.result = u.result /\ w.syms = u.syms
             /\ w.varindex = k + 1 /\ w.locvec = Append(u.locvec, [name |-> name, index |-> k])
             /\ w.code = u.code /\ w.ret = u.ret
<1> DEFINE l == Append(u.locvec, [name |-> name, index |-> k])
           v == [u EXCEPT !.varindex = k + 1]
           w == TakeSlot(u, name, k)
<1>1. /\ v \in ParserUnit /\ v.scope = u.scope /\ v.result = u.result /\ v.syms = u.syms
      /\ v.varindex = k + 1 /\ v.locvec = u.locvec /\ v.code = u.code /\ v.ret = u.ret
  <2>1. \A m \in Nat :
          LET x == [u EXCEPT !.varindex = m]
          IN  /\ x \in ParserUnit /\ x.scope = u.scope /\ x.result = u.result /\ x.syms = u.syms
              /\ x.varindex = m /\ x.locvec = u.locvec /\ x.code = u.code /\ x.ret = u.ret
    BY DEF ParserUnit
  <2>2. k + 1 \in Nat
    OBVIOUS
  <2> QED BY <2>1, <2>2
<1>2. l \in Seq(Slot)
  <2>1. u.locvec \in Seq(Slot) /\ [name |-> name, index |-> k] \in Slot
    BY DEF ParserUnit, Slot
  <2> QED BY <2>1, AppendIs
<1>3. w = [v EXCEPT !.locvec = Append(v.locvec, [name |-> name, index |-> k])]
  BY DEF TakeSlot
<1>4. w = [v EXCEPT !.locvec = l]
  BY <1>1, <1>3
<1>5. \A x \in ParserUnit : \A y \in Seq(Slot) :
        LET z == [x EXCEPT !.locvec = y]
        IN  /\ z \in ParserUnit /\ z.scope = x.scope /\ z.result = x.result /\ z.syms = x.syms
            /\ z.varindex = x.varindex /\ z.locvec = y /\ z.code = x.code /\ z.ret = x.ret
  BY DEF ParserUnit
<1> HIDE DEF v, l, w
<1>6. /\ w \in ParserUnit /\ w.scope = v.scope /\ w.result = v.result /\ w.syms = v.syms
      /\ w.varindex = v.varindex /\ w.locvec = l /\ w.code = v.code /\ w.ret = v.ret
  BY <1>1, <1>2, <1>4, <1>5
<1>7. /\ w \in ParserUnit /\ w.scope = u.scope /\ w.result = u.result /\ w.syms = u.syms
      /\ w.varindex = k + 1 /\ w.locvec = l /\ w.code = u.code /\ w.ret = u.ret
  BY <1>1, <1>6
<1> QED BY <1>7 DEF l, w

LEMMA SymsReplaced ==
  ASSUME NEW u \in ParserUnit, NEW t \in Tables
  PROVE  LET v == [u EXCEPT !.syms = t]
         IN  /\ v \in ParserUnit /\ v.scope = u.scope /\ v.result = u.result /\ v.syms = t
             /\ v.varindex = u.varindex /\ v.locvec = u.locvec /\ v.code = u.code /\ v.ret = u.ret
BY DEF ParserUnit

LEMMA AddLocalForm ==
  ASSUME NEW S \in ParserState, Typed(S), Depth(S) > 1,
         NEW name \in Names, NEW type \in Types \cup {None}
  PROVE  LET T == AddLocal(S, name, type) IN
         /\ T \in ParserState /\ LocalAdded(S.units, T.units, name, type)
         /\ T.errnum = S.errnum /\ T.fault = S.fault /\ T.emitted = S.emitted
<1> DEFINE us == S.units
           d == Len(us)
           index == us[2].varindex
           t == Entered(us[d].syms, name, type, index)
           v == [us[d] EXCEPT !.syms = t]
           vs == [us EXCEPT ![d] = v]
           w == TakeSlot(vs[2], name, index)
           ws == [vs EXCEPT ![2] = w]
           T == AddLocal(S, name, type)
<1>1. /\ Depth(S) = d /\ d \in Nat /\ d > 1 /\ d \in 1 .. d /\ 2 \in 1 .. d /\ us \in Seq(ParserUnit)
      /\ us[d] \in ParserUnit /\ us[2] \in ParserUnit
      /\ \A i \in 1 .. d - 1 : i \in 1 .. d /\ i # d
  BY StateIs
<1>2. FunctionUnit(S) = 2
  BY FunctionIs
<1>3. T = [S EXCEPT !.units = ws]
  BY <1>1, <1>2 DEF AddLocal, LocalIndex
<1>4. us[d].syms \in Tables /\ index \in Nat
  BY <1>1 DEF ParserUnit
<1>5. t \in Tables
  BY <1>4, EnteredIs
<1>6. t = Entered(us[d].syms, name, type, index)
  OBVIOUS
<1> HIDE DEF t
<1>7. /\ v \in ParserUnit /\ v.scope = us[d].scope /\ v.result = us[d].result
      /\ v.varindex = us[d].varindex /\ v.locvec = us[d].locvec /\ v.code = us[d].code
      /\ v.ret = us[d].ret /\ v.syms = t
  BY <1>1, <1>5, SymsReplaced
<1> HIDE DEF v
<1>8. vs \in Seq(ParserUnit) /\ Len(vs) = d /\ \A i \in 1 .. d : vs[i] = IF i = d THEN v ELSE us[i]
  BY <1>1, <1>7, ExceptSeq
<1> HIDE DEF vs
<1>9. vs[2] \in ParserUnit /\ vs[2].locvec = us[2].locvec
  BY <1>1, <1>7, <1>8
<1>10. /\ w \in ParserUnit /\ w.scope = vs[2].scope /\ w.result = vs[2].result
       /\ w.varindex = index + 1 /\ w.code = vs[2].code /\ w.ret = vs[2].ret /\ w.syms = vs[2].syms
       /\ w.locvec = Append(vs[2].locvec, [name |-> name, index |-> index])
  BY <1>4, <1>9, TakeSlotIs
<1> HIDE DEF w
<1>11. ws \in Seq(ParserUnit) /\ Len(ws) = d /\ \A i \in 1 .. d : ws[i] = IF i = 2 THEN w ELSE vs[i]
  BY <1>1, <1>8, <1>10, ExceptSeq
<1> HIDE DEF ws
<1>12. LocalAdded(us, ws, name, type)
  <2>1. ws[d].syms = t
    BY <1>1, <1>7, <1>8, <1>10, <1>11
  <2>2. \A i \in 1 .. d - 1 : ws[i].syms = us[i].syms
    BY <1>1, <1>8, <1>10, <1>11
  <2>3. ws[2].varindex = index + 1 /\ ws[2].locvec = Append(us[2].locvec, [name |-> name, index |-> index])
    BY <1>1, <1>9, <1>10, <1>11
  <2>4. \A i \in 1 .. d : /\ ws[i].scope = us[i].scope /\ ws[i].result = us[i].result
                         /\ ws[i].code = us[i].code /\ ws[i].ret = us[i].ret
    <3> TAKE i \in 1 .. d
    <3>1. /\ vs[i].scope = us[i].scope /\ vs[i].result = us[i].result
          /\ vs[i].code = us[i].code /\ vs[i].ret = us[i].ret
      BY <1>7, <1>8, Zenon
    <3>2. CASE i = 2
      <4>1. ws[i] = w
        BY <1>11, <3>2, Zenon
      <4> QED BY <1>10, <3>1, <3>2, <4>1, Zenon
    <3>3. CASE i # 2
      <4>1. ws[i] = vs[i]
        BY <1>11, <3>3, Zenon
      <4> QED BY <3>1, <4>1, Zenon
    <3> QED BY <3>2, <3>3
  <2> QED BY <1>6, <1>11, <2>1, <2>2, <2>3, <2>4 DEF LocalAdded
<1>13. \A a \in Seq(ParserUnit) :
         LET R == [S EXCEPT !.units = a]
         IN  R.units = a /\ R.emitted = S.emitted /\ R.errnum = S.errnum /\ R.fault = S.fault
             /\ R \in ParserState
  BY DEF ParserState
<1> QED BY <1>3, <1>11, <1>12, <1>13

LEMMA AddLocalSound ==
  ASSUME NEW S, Sound(S), Depth(S) > 1, NEW name \in Names, NEW type \in Types \cup {None},
         \A i \in 2 .. Depth(S) : name \notin DOMAIN S.units[i].syms
  PROVE  Sound(AddLocal(S, name, type))
<1> DEFINE us == S.units
           T == AddLocal(S, name, type)
           vs == T.units
           d == Len(us)
           index == us[2].varindex
           locvec == us[2].locvec
           slot == [name |-> name, index |-> index]
<1>1. /\ S \in ParserState /\ Typed(S) /\ SlotsGood(us) /\ NamesGood(us) /\ CodeGood(S)
      /\ d \in Nat /\ Depth(S) = d /\ d > 1
  BY StateIs DEF Sound, Typed
<1>2. /\ T \in ParserState /\ LocalAdded(us, vs, name, type) /\ T.emitted = S.emitted
  BY <1>1, AddLocalForm
<1>3. /\ us[2] \in ParserUnit /\ us[d] \in ParserUnit /\ us \in Seq(ParserUnit) /\ 2 \in 1 .. d /\ d \in 2 .. d
      /\ d \in 1 .. d
  BY <1>1, StateIs
<1>4. index \in Nat /\ locvec \in Seq(Slot) /\ us[d].syms \in Tables
  BY <1>3 DEF ParserUnit
<1>5. name \notin DOMAIN us[d].syms /\ \A i \in 2 .. d : name \notin DOMAIN us[i].syms
  BY <1>1, <1>3
<1>6. DOMAIN locvec = 1 .. Len(locvec) /\ Len(locvec) \in Nat /\ index = Len(locvec) + 1
  BY <1>1, <1>4 DEF SlotsGood
<1>7. /\ vs \in Seq(ParserUnit) /\ Len(vs) = d
      /\ vs[d].syms = Entered(us[d].syms, name, type, index)
      /\ \A i \in 1 .. d - 1 : vs[i].syms = us[i].syms
      /\ vs[2].varindex = index + 1 /\ vs[2].locvec = Append(locvec, slot)
      /\ \A i \in 1 .. d : /\ vs[i].scope = us[i].scope /\ vs[i].result = us[i].result
                           /\ vs[i].code = us[i].code /\ vs[i].ret = us[i].ret
  BY <1>2 DEF LocalAdded
<1> HIDE DEF T
<1>8. /\ DOMAIN vs[2].locvec = 1 .. Len(locvec) + 1 /\ vs[2].locvec[Len(locvec) + 1] = slot
      /\ \A k \in 1 .. Len(locvec) : vs[2].locvec[k] = locvec[k]
  <2> HIDE DEF slot, locvec, index
  <2>1. /\ DOMAIN Append(locvec, slot) = 1 .. Len(locvec) + 1 /\ Append(locvec, slot)[Len(locvec) + 1] = slot
        /\ \A k \in 1 .. Len(locvec) : Append(locvec, slot)[k] = locvec[k]
    BY <1>4
  <2> QED BY <1>7, <2>1
<1>9. Typed(T)
  BY <1>1, <1>2, <1>7 DEF Typed
<1>10. SlotsGood(vs)
  <2>1. vs[2].locvec \in Seq(Slot) /\ Len(vs[2].locvec) = Len(locvec) + 1
    <3>1. slot \in Slot
      BY <1>4 DEF Slot
    <3> HIDE DEF slot, locvec
    <3>2. Append(locvec, slot) \in Seq(Slot) /\ Len(Append(locvec, slot)) = Len(locvec) + 1
      BY <1>4, <3>1
    <3> QED BY <1>7, <3>2
  <2>2. ASSUME NEW k \in 1 .. Len(locvec) + 1 PROVE vs[2].locvec[k].index = k
    <3>1. CASE k = Len(locvec) + 1
      BY <1>6, <1>8, <3>1
    <3>2. CASE k # Len(locvec) + 1
      <4>1. k \in DOMAIN locvec
        BY <1>6, <3>2
      <4>2. locvec[k].index = k
        BY <1>1, <4>1 DEF SlotsGood
      <4> QED BY <1>6, <1>8, <4>1, <4>2
    <3> QED BY <3>1, <3>2
  <2> QED BY <1>6, <1>7, <1>8, <2>1, <2>2 DEF SlotsGood
<1>11. NamesGood(vs)
  <2>1. /\ DOMAIN vs[d].syms = DOMAIN us[d].syms \cup {name}
        /\ \A n \in DOMAIN us[d].syms : vs[d].syms[n] = us[d].syms[n]
        /\ vs[d].syms[name] = [type |-> type, index |-> index]
    <3> DEFINE t == us[d].syms
               u == Entered(t, name, type, index)
    <3>1. t \in Tables /\ name \notin DOMAIN t /\ vs[d].syms = u
      BY <1>4, <1>5, <1>7
    <3> HIDE DEF t
    <3>2. /\ DOMAIN u = DOMAIN t \cup {name} /\ \A n \in DOMAIN t : u[n] = t[n]
          /\ u[name] = [type |-> type, index |-> index]
      <4> HIDE DEF index, vs
      <4> QED BY <3>1 DEF Entered
    <3> HIDE DEF u, vs
    <3>3. /\ DOMAIN vs[d].syms = DOMAIN t \cup {name} /\ \A n \in DOMAIN t : vs[d].syms[n] = t[n]
          /\ vs[d].syms[name] = [type |-> type, index |-> index]
      BY <3>1, <3>2
    <3> QED BY <3>3 DEF t, vs
  <2>2. ASSUME NEW i \in 2 .. d, NEW n \in DOMAIN vs[i].syms
        PROVE  IF i = d /\ n = name THEN vs[i].syms[n].index = index
               ELSE n \in DOMAIN us[i].syms /\ vs[i].syms[n] = us[i].syms[n]
    <3>1. CASE i = d
      BY <2>1, <3>1
    <3>2. CASE i # d
      <4>1. i \in 1 .. d - 1
        BY <1>1, <3>2
      <4> QED BY <1>7, <3>2, <4>1
    <3> QED BY <3>1, <3>2
  <2>3. ASSUME NEW i \in 2 .. d, NEW j \in 2 .. d, NEW n \in DOMAIN vs[i].syms, i # j
        PROVE  n \notin DOMAIN vs[j].syms
    <3>1. \A k \in 2 .. d : n \in DOMAIN vs[k].syms => (k = d /\ n = name) \/ n \in DOMAIN us[k].syms
      BY <2>2
    <3>2. CASE n = name
      BY <1>5, <2>3, <3>1, <3>2
    <3>3. CASE n # name
      <4>1. n \in DOMAIN us[i].syms
        BY <3>1, <3>3
      <4>2. n \notin DOMAIN us[j].syms
        BY <1>1, <2>3, <4>1 DEF NamesGood
      <4> QED BY <3>1, <3>3, <4>2
    <3> QED BY <3>2, <3>3
  <2>4. ASSUME NEW i \in 2 .. d, NEW n \in DOMAIN vs[i].syms
        PROVE  \E k \in DOMAIN vs[2].locvec : vs[2].locvec[k] = [name |-> n, index |-> vs[i].syms[n].index]
    <3>1. CASE i = d /\ n = name
      <4>1. vs[2].locvec[Len(locvec) + 1] = [name |-> n, index |-> vs[i].syms[n].index]
        BY <1>8, <2>2, <3>1
      <4>2. Len(locvec) + 1 \in DOMAIN vs[2].locvec
        BY <1>6, <1>8
      <4> QED BY <4>1, <4>2
    <3>2. CASE ~ (i = d /\ n = name)
      <4>1. n \in DOMAIN us[i].syms /\ vs[i].syms[n] = us[i].syms[n]
        BY <2>2, <3>2
      <4>2. PICK k \in DOMAIN locvec : locvec[k] = [name |-> n, index |-> us[i].syms[n].index]
        BY <1>1, <4>1 DEF NamesGood
      <4>3. k \in DOMAIN vs[2].locvec /\ vs[2].locvec[k] = locvec[k]
        BY <1>6, <1>8, <4>2
      <4> QED BY <4>1, <4>2, <4>3
    <3> QED BY <3>1, <3>2
  <2> QED BY <1>7, <2>3, <2>4, SMTT(30) DEF NamesGood
<1>12. CodeGood(T)
  <2>1. /\ Flat(us) = S.emitted /\ RightSlots(S.emitted, locvec)
        /\ \A i \in 2 .. d : us[i].ret => Returns(us[i].code)
    BY <1>1 DEF CodeGood
  <2>2. Flat(vs) = Flat(us)
    <3>1. \A i \in 2 .. Len(us) : vs[i].code = us[i].code
      BY <1>1, <1>7
    <3> HIDE DEF us, vs
    <3> QED BY <1>3, <1>7, <3>1, FlatSame DEF d
  <2>3. RightSlots(S.emitted, vs[2].locvec)
    <3> HIDE DEF locvec, vs
    <3>1. \A k \in DOMAIN locvec : k \in DOMAIN vs[2].locvec /\ vs[2].locvec[k] = locvec[k]
      BY <1>6, <1>8
    <3> QED BY <2>1, <3>1 DEF RightSlots
  <2>4. \A i \in 2 .. d : vs[i].ret => Returns(vs[i].code)
    <3>1. \A i \in 2 .. d : i \in 1 .. d
      BY <1>1
    <3> QED BY <1>7, <2>1, <3>1
  <2> QED BY <1>2, <1>7, <2>1, <2>2, <2>3, <2>4 DEF CodeGood
<1> QED BY <1>9, <1>10, <1>11, <1>12 DEF Sound, T

(* What a table says of the types of its names, and a table u that says    *)
(* what t does except for a name.                                          *)
TypesOf(t) == [n \in DOMAIN t |-> t[n].type]
Gives(t, u, name, type) ==
  TypesOf(u) = [n \in DOMAIN t \cup {name} |-> IF n = name THEN type ELSE TypesOf(t)[n]]

(* T differs from S in the types of the current scope at most, where only  *)
(* name is new or other than it was.                                       *)
Changes(S, T, name) ==
  LET d == Len(S.units)  t == S.units[d].syms  u == T.units[d].syms IN
  /\ Len(T.units) = d
  /\ \A i \in 1 .. d - 1 : T.units[i].syms = S.units[i].syms
  /\ DOMAIN t \subseteq DOMAIN u /\ \A n \in DOMAIN t : n # name => u[n] = t[n]

LEMMA ChangesNothing ==
  ASSUME NEW S, Sound(S), S.units # <<>>, NEW T, SameTables(S, T), NEW name
  PROVE  Changes(S, T, name)
<1>1. Len(S.units) \in 1 .. Len(S.units) /\ \A i \in 1 .. Len(S.units) - 1 : i \in 1 .. Len(S.units)
  BY StateIs DEF Sound, Typed
<1> QED BY <1>1 DEF SameTables, Changes

LEMMA GivesEntered ==
  ASSUME NEW t, NEW name, name \notin DOMAIN t, NEW type, NEW index
  PROVE  Gives(t, Entered(t, name, type, index), name, type)
<1> DEFINE u == Entered(t, name, type, index)
<1>1. /\ DOMAIN u = DOMAIN t \cup {name} /\ \A n \in DOMAIN t : u[n].type = t[n].type /\ n # name
      /\ u[name].type = type
  BY DEF Entered
<1> HIDE DEF u
<1>2. TypesOf(u) = [n \in DOMAIN t \cup {name} |-> IF n = name THEN type ELSE TypesOf(t)[n]]
  BY <1>1 DEF TypesOf
<1> QED BY <1>2 DEF Gives, u

(* update_add_variable within a function.                                  *)
LEMMA AddVariableLocal ==
  ASSUME NEW S, Sound(S), Depth(S) > 1, NEW name \in Names, NEW type \in Types \cup {None}
  PROVE  LET A == AddVariable(S, name, type) IN
         /\ Sound(A.s) /\ Changes(S, A.s, name) /\ Later(S, A.s) /\ A.ok \in BOOLEAN
         /\ A.ok <=> Declaring(S, name) \subseteq {1}
         /\ ~ A.ok => ~ Fine(A.s)
         /\ A.ok => /\ A.s.errnum = S.errnum /\ A.s.fault = S.fault
                    /\ name \in DOMAIN Current(A.s).syms
                    /\ Gives(Current(S).syms, Current(A.s).syms, name, type)
<1> DEFINE A == AddVariable(S, name, type)
           us == S.units
           d == Len(us)
<1>1. /\ S \in ParserState /\ Typed(S) /\ d \in Nat /\ Depth(S) = d /\ d > 1 /\ us # <<>>
      /\ S.errnum \in Nat /\ d \in 2 .. d /\ d \in 1 .. d
      /\ FunctionUnit(S) = 2 /\ us[d] \in ParserUnit /\ us[2] \in ParserUnit
  <2>1. S \in ParserState /\ Typed(S)
    BY DEF Sound, Typed
  <2>2. d \in Nat /\ Depth(S) = d /\ S.errnum \in Nat /\ \A i \in 1 .. d : us[i] \in ParserUnit
    BY <2>1, StateIs
  <2> QED BY <2>1, <2>2, FunctionIs
<1>2. Current(S).scope # "module" /\ Current(S) = us[d]
  BY <1>1 DEF Current, Typed, ScopeAt
<1>3. DeclaredInFunction(S, name) <=> ~ (Declaring(S, name) \subseteq {1})
  BY <1>1 DEF DeclaredInFunction, Declaring
<1>4. CASE DeclaredInFunction(S, name)
  <2>1. A = [s |-> SyntaxError(S), ok |-> FALSE]
    BY <1>2, <1>4 DEF AddVariable
  <2> DEFINE E == SyntaxError(S)
  <2>2. Sound(E) /\ SameTables(S, E) /\ Later(S, E) /\ ~ Fine(E)
    BY ErrorIs
  <2>3. Changes(S, E, name)
    BY <1>1, <2>2, ChangesNothing
  <2> HIDE DEF A, E
  <2>4. A.s = E /\ A.ok = FALSE
    BY <2>1 DEF E
  <2> QED BY <1>3, <1>4, <2>2, <2>3, <2>4 DEF A
<1>5. CASE ~ DeclaredInFunction(S, name)
  <2> DEFINE T == AddLocal(S, name, type)
             vs == T.units
             index == us[2].varindex
  <2>1. A = [s |-> T, ok |-> TRUE]
    BY <1>2, <1>5 DEF AddVariable
  <2>2. \A i \in 2 .. d : name \notin DOMAIN us[i].syms
    BY <1>1, <1>5 DEF DeclaredInFunction
  <2>3. Sound(T)
    BY <1>1, <2>2, AddLocalSound
  <2>4. LocalAdded(us, vs, name, type) /\ T.errnum = S.errnum /\ T.fault = S.fault
    BY <1>1, AddLocalForm
  <2>5. /\ Len(vs) = d /\ \A i \in 1 .. d - 1 : vs[i].syms = us[i].syms
        /\ vs[d].syms = Entered(us[d].syms, name, type, index)
    BY <2>4 DEF LocalAdded
  <2> HIDE DEF T
  <2>6. Gives(us[d].syms, vs[d].syms, name, type)
    BY <1>1, <2>2, <2>5, GivesEntered
  <2>7. /\ DOMAIN vs[d].syms = DOMAIN us[d].syms \cup {name}
        /\ \A n \in DOMAIN us[d].syms : vs[d].syms[n] = us[d].syms[n]
    <3> DEFINE t == us[d].syms
    <3> HIDE DEF t
    <3>1. DOMAIN Entered(t, name, type, index) = DOMAIN t \cup {name}
          /\ \A n \in DOMAIN t : Entered(t, name, type, index)[n] = t[n]
      BY DEF Entered
    <3> QED BY <2>5, <3>1 DEF t
  <2>8. Changes(S, T, name)
    BY <2>5, <2>7 DEF Changes
  <2>9. Current(T) = vs[d]
    BY <2>5 DEF Current, Depth
  <2>10. Later(S, T)
    BY <1>1, <2>4 DEF Later, Stopped
  <2> HIDE DEF A
  <2>11. A.s = T /\ A.ok = TRUE
    BY <2>1
  <2> QED BY <1>2, <1>3, <1>5, <2>3, <2>4, <2>6, <2>7, <2>8, <2>9, <2>10, <2>11 DEF A
<1> QED BY <1>4, <1>5

(* ... and in the module, whose names are all in its table.                *)
LEMMA TypeEntered ==
  ASSUME NEW t \in Tables, NEW name \in DOMAIN t, NEW type \in Types \cup {None}
  PROVE  LET u == [t EXCEPT ![name].type = IF @ = None THEN type ELSE @] IN
         /\ u \in Tables /\ DOMAIN u = DOMAIN t /\ \A n \in DOMAIN t : n # name => u[n] = t[n]
         /\ t[name].type \in {None, type} => Gives(t, u, name, type)
<1> DEFINE x == IF t[name].type = None THEN type ELSE t[name].type
           e == [t[name] EXCEPT !.type = x]
           u == [t EXCEPT ![name] = e]
<1>1. /\ DOMAIN t \subseteq Names /\ t = [n \in DOMAIN t |-> t[n]] /\ \A n \in DOMAIN t : t[n] \in Symbol
      /\ t[name] \in Symbol
  BY TableIs
<1>2. e \in Symbol /\ e.type = x
  BY <1>1 DEF Symbol
<1>3. u = [t EXCEPT ![name].type = IF @ = None THEN type ELSE @]
  OBVIOUS
<1> HIDE DEF e
<1>4. /\ DOMAIN u = DOMAIN t /\ u = [n \in DOMAIN u |-> u[n]] /\ u[name] = e
      /\ \A n \in DOMAIN t : n # name => u[n] = t[n]
  OBVIOUS
<1> HIDE DEF u, x
<1>5. u \in Tables
  <2>1. \A n \in DOMAIN u : u[n] \in Symbol
    BY <1>1, <1>2, <1>4
  <2> QED BY <1>1, <1>4, <2>1, TableIs
<1>6. t[name].type \in {None, type} => Gives(t, u, name, type)
  <2> SUFFICES ASSUME t[name].type \in {None, type} PROVE Gives(t, u, name, type)
    OBVIOUS
  <2>1. x = type
    BY DEF x
  <2>2. \A n \in DOMAIN t : u[n].type = IF n = name THEN type ELSE t[n].type
    BY <1>2, <1>4, <2>1
  <2>3. DOMAIN t \cup {name} = DOMAIN t
    OBVIOUS
  <2>4. TypesOf(u) = [n \in DOMAIN t \cup {name} |-> IF n = name THEN type ELSE TypesOf(t)[n]]
    BY <1>4, <2>2, <2>3 DEF TypesOf
  <2> QED BY <2>4 DEF Gives
<1> QED BY <1>3, <1>4, <1>5, <1>6

LEMMA AddVariableGlobal ==
  ASSUME NEW S, Sound(S), Depth(S) = 1, NEW name \in DOMAIN S.units[1].syms,
         NEW type \in Types \cup {None}
  PROVE  LET A == AddVariable(S, name, type) IN
         /\ Sound(A.s) /\ Changes(S, A.s, name) /\ Later(S, A.s) /\ A.ok = TRUE
         /\ A.s.errnum = S.errnum /\ A.s.fault = S.fault
         /\ name \in DOMAIN Current(A.s).syms
         /\ S.units[1].syms[name].type \in {None, type} =>
              Gives(Current(S).syms, Current(A.s).syms, name, type)
<1> DEFINE A == AddVariable(S, name, type)
           us == S.units
           t == us[1].syms
           u == [t EXCEPT ![name].type = IF @ = None THEN type ELSE @]
           v == [us[1] EXCEPT !.syms = u]
           vs == [us EXCEPT ![1] = v]
           T == A.s
<1>1. /\ S \in ParserState /\ Typed(S) /\ Len(us) = 1 /\ us # <<>> /\ us \in Seq(ParserUnit)
      /\ us[1] \in ParserUnit /\ Current(S) = us[1] /\ Current(S).scope = "module"
      /\ S.errnum \in Nat
  <2>1. S \in ParserState /\ Typed(S)
    BY DEF Sound, Typed
  <2>2. Len(us) = 1 /\ S.errnum \in Nat /\ us \in Seq(ParserUnit) /\ \A i \in 1 .. 1 : us[i] \in ParserUnit
    BY <2>1, StateIs
  <2>3. us[1].scope = "module"
    BY <2>1, <2>2 DEF Typed, ScopeAt
  <2> QED BY <2>1, <2>2, <2>3 DEF Current
<1>2. t \in Tables
  BY <1>1 DEF ParserUnit
<1>3. /\ u \in Tables /\ DOMAIN u = DOMAIN t /\ \A n \in DOMAIN t : n # name => u[n] = t[n]
      /\ t[name].type \in {None, type} => Gives(t, u, name, type)
  BY <1>2, TypeEntered
<1>4. A = [s |-> [S EXCEPT !.units = vs], ok |-> TRUE]
  BY <1>1 DEF AddVariable
<1> HIDE DEF u
<1>5. /\ v \in ParserUnit /\ v.scope = us[1].scope /\ v.result = us[1].result /\ v.syms = u
      /\ v.varindex = us[1].varindex /\ v.locvec = us[1].locvec /\ v.code = us[1].code
  BY <1>1, <1>3, SymsReplaced
<1> HIDE DEF v
<1>6. vs \in Seq(ParserUnit) /\ Len(vs) = 1 /\ vs[1] = v
  BY <1>1, <1>5, ExceptSeq
<1> HIDE DEF vs
<1>7. \A a \in Seq(ParserUnit) :
         LET R == [S EXCEPT !.units = a]
         IN  R.units = a /\ R.emitted = S.emitted /\ R.errnum = S.errnum /\ R.fault = S.fault
             /\ R \in ParserState
  BY <1>1 DEF ParserState
<1>8. A.ok = TRUE /\ T \in ParserState /\ T.units = vs /\ T.errnum = S.errnum /\ T.fault = S.fault
  <2> DEFINE R == [S EXCEPT !.units = vs]
  <2>1. R \in ParserState /\ R.units = vs /\ R.errnum = S.errnum /\ R.fault = S.fault
    BY <1>6, <1>7
  <2>2. A = [s |-> R, ok |-> TRUE]
    BY <1>4
  <2> HIDE DEF R, A
  <2>3. A.s = R /\ A.ok = TRUE
    BY <2>2
  <2> QED BY <2>1, <2>3
<1> HIDE DEF A
<1>9. Sound(T)
  <2>1. Typed(T)
    <3>1. vs[1].scope = ScopeAt(1)
      BY <1>1, <1>5, <1>6 DEF ScopeAt
    <3>2. T \in ParserState /\ Len(T.units) = 1 /\ T.units[1].scope = ScopeAt(1)
      BY <1>6, <1>8, <3>1
    <3>3. \A i \in 1 .. 1 : i = 1
      OBVIOUS
    <3> HIDE DEF T
    <3> QED BY <3>2, <3>3 DEF Typed
  <2>2. SlotsGood(T.units) /\ NamesGood(T.units) /\ CodeGood(T)
    <3>1. Len(T.units) = 1 /\ ~ (1 > 1) /\ 2 .. 1 = {}
      BY <1>6, <1>8
    <3> HIDE DEF T
    <3> QED BY <3>1 DEF SlotsGood, NamesGood, CodeGood
  <2> QED BY <2>1, <2>2 DEF Sound
<1>10. Current(T) = v
  BY <1>6, <1>8 DEF Current, Depth
<1>11. Changes(S, T, name)
  <2>1. Len(T.units) = 1 /\ T.units[1].syms = u
    BY <1>5, <1>6, <1>8
  <2> QED BY <1>1, <1>3, <2>1 DEF Changes
<1>12. Later(S, T)
  BY <1>1, <1>8 DEF Later, Stopped
<1> QED BY <1>1, <1>3, <1>5, <1>8, <1>9, <1>10, <1>11, <1>12 DEF A

LEMMA AddVariableIs ==
  ASSUME NEW S, Sound(S), S.units # <<>>, NEW name \in Names, NEW type \in Types \cup {None},
         Depth(S) = 1 => name \in DOMAIN S.units[1].syms
  PROVE  LET A == AddVariable(S, name, type) IN
         /\ Sound(A.s) /\ Changes(S, A.s, name) /\ Later(S, A.s) /\ A.ok \in BOOLEAN
         /\ A.ok <=> Depth(S) = 1 \/ Declaring(S, name) \subseteq {1}
         /\ ~ A.ok => ~ Fine(A.s)
         /\ A.ok => /\ A.s.errnum = S.errnum /\ A.s.fault = S.fault
                    /\ name \in DOMAIN Current(A.s).syms
                    /\ (Depth(S) = 1 => S.units[1].syms[name].type \in {None, type}) =>
                         Gives(Current(S).syms, Current(A.s).syms, name, type)
<1>1. Depth(S) = 1 \/ Depth(S) > 1
  BY StateIs DEF Sound, Typed
<1>2. CASE Depth(S) = 1
  BY <1>2, AddVariableGlobal
<1>3. CASE Depth(S) > 1
  BY <1>3, AddVariableLocal
<1> QED BY <1>1, <1>2, <1>3

LEMMA StoreVariableIs ==
  ASSUME NEW S, Sound(S), S.units # <<>>, NEW name \in DOMAIN Current(S).syms
  PROVE  LET T == StoreVariable(S, name) IN
         Sound(T) /\ SameTables(S, T) /\ T.errnum = S.errnum /\ T.fault = S.fault
<1>1. /\ S \in ParserState /\ Depth(S) \in Nat /\ Depth(S) = Len(S.units) /\ Depth(S) \in 1 .. Depth(S)
  BY StateIs DEF Sound, Typed
<1>2. name \in Names
  BY <1>1, SymbolIs DEF Current
<1>3. CASE Current(S).scope = "module"
  <2> DEFINE inst == Inst("STORE_FIELD", 0, name)
  <2>1. inst \in Instr /\ Addresses(S.units, inst)
    BY <1>2 DEF Inst, Instr, Addresses
  <2>2. StoreVariable(S, name) = Emit(S, inst)
    BY <1>3 DEF StoreVariable
  <2> HIDE DEF inst
  <2> QED BY <2>1, <2>2, EmitIs
<1>4. CASE Current(S).scope # "module"
  <2> DEFINE inst == Inst("STORE", Current(S).syms[name].index, name)
  <2>1. Depth(S) > 1
    BY <1>1, <1>4 DEF Sound, Typed, ScopeAt, Current
  <2>2. inst \in Instr /\ Addresses(S.units, inst)
    BY <2>1, SlotIs
  <2>3. StoreVariable(S, name) = Emit(S, inst)
    BY <1>4 DEF StoreVariable
  <2> HIDE DEF inst
  <2> QED BY <2>2, <2>3, EmitIs
<1> QED BY <1>3, <1>4

(* The type a declaration gives to its name, None if it is an error.       *)
GivenIn(S, type, exp) ==
  IF exp.kind = "none" THEN type
  ELSE IF type \in {None, TypeIn(S, exp)} THEN TypeIn(S, exp) ELSE None

LEMMA ChangesThen ==
  ASSUME NEW R, NEW S, NEW T, NEW name, SameTables(R, S), Changes(S, T, name), Sound(R), R.units # <<>>
  PROVE  Changes(R, T, name)
<1>1. Len(R.units) \in 1 .. Len(R.units) /\ \A i \in 1 .. Len(R.units) - 1 : i \in 1 .. Len(R.units)
  BY StateIs DEF Sound, Typed
<1> QED BY <1>1, SMTT(30) DEF SameTables, Changes

LEMMA ThenSameTables ==
  ASSUME NEW R, NEW S, NEW T, NEW name, Changes(R, S, name), SameTables(S, T), Sound(R), R.units # <<>>
  PROVE  Changes(R, T, name)
<1>1. Len(R.units) \in 1 .. Len(R.units) /\ \A i \in 1 .. Len(R.units) - 1 : i \in 1 .. Len(R.units)
  BY StateIs DEF Sound, Typed
<1> QED BY <1>1 DEF SameTables, Changes

LEMMA SameDeclaring ==
  ASSUME NEW S, NEW T, SameTables(S, T), NEW name
  PROVE  /\ Depth(T) = Depth(S) /\ Declaring(T, name) = Declaring(S, name)
         /\ Resolve(T, name) = Resolve(S, name)
<1>1. Depth(T) = Depth(S)
  BY DEF SameTables, Depth
<1>2. Declaring(T, name) = Declaring(S, name)
  BY <1>1 DEF SameTables, Declaring, Depth
<1> QED BY <1>1, <1>2 DEF Resolve

LEMMA SameCurrent ==
  ASSUME NEW S, NEW T, SameTables(S, T), Sound(S), S.units # <<>>
  PROVE  /\ T.units # <<>> /\ Current(T).syms = Current(S).syms /\ Current(T).scope = Current(S).scope
         /\ T.units[1].syms = S.units[1].syms /\ Depth(T) = Depth(S)
<1>1. Len(S.units) \in 1 .. Len(S.units) /\ 1 \in 1 .. Len(S.units)
  BY StateIs DEF Sound, Typed
<1>2. T.units # <<>>
  BY <1>1 DEF SameTables
<1> QED BY <1>1, <1>2 DEF SameTables, Current, Depth

(* parse_variable: what is declared, and when it is an error.              *)
LEMMA ParseVariableIs ==
  ASSUME NEW S, Sound(S), S.units # <<>>, NEW name \in Names, NEW type \in Types \cup {None},
         NEW exp \in {NoExp} \cup Exps, exp.kind = "none" => type \in Types,
         Depth(S) = 1 => name \in DOMAIN S.units[1].syms /\ S.units[1].syms[name].type = type
  PROVE  LET T == ParseVariable(S, name, type, exp)
             g == GivenIn(S, type, exp)
         IN  /\ Sound(T) /\ Changes(S, T, name) /\ Later(S, T)
             /\ Fine(S) => (Fine(T) <=> g # None /\ (Depth(S) = 1 \/ Declaring(S, name) \subseteq {1}))
             /\ Fine(S) /\ Fine(T) => Gives(Current(S).syms, Current(T).syms, name, g)
<1> DEFINE T == ParseVariable(S, name, type, exp)
           g == GivenIn(S, type, exp)
           d == Depth(S)
<1>0. None \notin Types /\ S \in ParserState /\ S.errnum \in Nat
  BY ScopesAssumption, StateIs DEF Sound, Typed
<1>1. CASE exp.kind = "none"
  <2> DEFINE A == AddVariable(S, name, type)
  <2>1. T = A.s /\ g = type /\ g # None
    BY <1>0, <1>1 DEF ParseVariable, GivenIn
  <2>2. /\ Sound(A.s) /\ Changes(S, A.s, name) /\ Later(S, A.s) /\ A.ok \in BOOLEAN
        /\ A.ok <=> d = 1 \/ Declaring(S, name) \subseteq {1}
        /\ ~ A.ok => ~ Fine(A.s)
        /\ A.ok => /\ A.s.errnum = S.errnum /\ A.s.fault = S.fault
                   /\ name \in DOMAIN Current(A.s).syms
                   /\ (d = 1 => S.units[1].syms[name].type \in {None, type}) =>
                         Gives(Current(S).syms, Current(A.s).syms, name, type)
    BY AddVariableIs
  <2> HIDE DEF A, T, g
  <2> QED BY <2>1, <2>2 DEF Fine, T, g
<1>2. CASE exp.kind # "none"
  <2> DEFINE V == Visit(S, exp, "LOAD")
             R == V.s
             A == AddVariable(R, name, V.type)
  <2>1. exp \in Exps
    BY <1>2 DEF NoExp
  <2>2. T = IF Stopped(R) THEN R
            ELSE IF V.type = None \/ type \notin {None, V.type} THEN SyntaxError(R)
            ELSE IF A.ok THEN StoreVariable(A.s, name) ELSE A.s
    BY <1>2 DEF ParseVariable
  <2>3. g = IF type \in {None, TypeIn(S, exp)} THEN TypeIn(S, exp) ELSE None
    BY <1>2 DEF GivenIn
  <2>4. /\ Sound(R) /\ SameTables(S, R) /\ Later(S, R) /\ V.type \in Types \cup {None}
        /\ Fine(S) => V.type = TypeIn(S, exp) /\ (Fine(R) <=> TypeIn(S, exp) # None)
    BY <2>1, VisitIs
  <2> HIDE DEF V
  <2>5. /\ R.units # <<>> /\ Current(R).syms = Current(S).syms /\ R.units[1].syms = S.units[1].syms
        /\ Depth(R) = d /\ Declaring(R, name) = Declaring(S, name) /\ R \in ParserState
    BY <2>4, SameCurrent, SameDeclaring DEF Sound, Typed
  <2> HIDE DEF T, g
  <2>6. CASE Stopped(R)
    <3>1. T = R /\ ~ Fine(R) /\ Changes(S, R, name)
      BY <2>2, <2>4, <2>6, ChangesNothing DEF Stopped, Fine
    <3> QED BY <2>3, <2>4, <3>1 DEF T, g
  <2>7. CASE ~ Stopped(R) /\ (V.type = None \/ type \notin {None, V.type})
    <3> DEFINE E == SyntaxError(R)
    <3>1. T = E
      BY <2>2, <2>7
    <3>2. Sound(E) /\ SameTables(R, E) /\ Later(R, E) /\ ~ Fine(E)
      BY <2>4, ErrorIs
    <3> HIDE DEF E
    <3>3. SameTables(S, E) /\ Later(S, E)
      BY <1>0, <2>4, <2>5, <3>2, SameTablesTrans, LaterTrans DEF Sound, Typed
    <3>4. Changes(S, E, name)
      BY <3>3, ChangesNothing
    <3>5. Fine(S) => g = None
      BY <2>3, <2>4, <2>7
    <3> QED BY <3>1, <3>2, <3>3, <3>4, <3>5 DEF T, g
  <2>8. CASE ~ Stopped(R) /\ ~ (V.type = None \/ type \notin {None, V.type})
    <3>1. T = IF A.ok THEN StoreVariable(A.s, name) ELSE A.s
      BY <2>2, <2>8
    <3>2. /\ Sound(A.s) /\ Changes(R, A.s, name) /\ Later(R, A.s) /\ A.ok \in BOOLEAN
          /\ A.ok <=> d = 1 \/ Declaring(S, name) \subseteq {1}
          /\ ~ A.ok => ~ Fine(A.s)
          /\ A.ok => /\ A.s.errnum = R.errnum /\ A.s.fault = R.fault
                     /\ name \in DOMAIN Current(A.s).syms
                     /\ (d = 1 => S.units[1].syms[name].type \in {None, V.type}) =>
                           Gives(Current(S).syms, Current(A.s).syms, name, V.type)
      BY <2>4, <2>5, AddVariableIs, SMTT(30)
    <3> HIDE DEF A
    <3>3. d = 1 => S.units[1].syms[name].type \in {None, V.type}
      BY <2>8
    <3>4. Fine(S) => g = V.type /\ g # None /\ Fine(R)
      BY <2>3, <2>4, <2>8
    <3>5. Later(S, A.s) /\ Changes(S, A.s, name) /\ A.s.units # <<>>
      <4>1. Later(S, A.s)
        BY <1>0, <2>4, <2>5, <3>2, LaterTrans DEF Sound, Typed
      <4>2. Changes(S, A.s, name)
        BY <2>4, <3>2, ChangesThen
      <4>3. Len(S.units) >= 1 /\ Len(A.s.units) = Len(S.units)
        BY <1>0, <4>2, StateIs DEF Changes
      <4>4. A.s.units # <<>>
        BY <4>3
      <4> QED BY <4>1, <4>2, <4>4
    <3>6. CASE A.ok
      <4> DEFINE W == StoreVariable(A.s, name)
      <4>1. Sound(W) /\ SameTables(A.s, W) /\ W.errnum = A.s.errnum /\ W.fault = A.s.fault
        BY <3>2, <3>5, <3>6, StoreVariableIs
      <4> HIDE DEF W
      <4>2. T = W
        BY <3>1, <3>6 DEF W
      <4>3. Changes(S, W, name)
        BY <3>5, <4>1, ThenSameTables
      <4>4. Later(S, W)
        BY <3>5, <4>1 DEF Later, Stopped
      <4>5. Current(W).syms = Current(A.s).syms
        BY <3>2, <3>5, <4>1, SameCurrent
      <4>6. Fine(S) => Fine(W)
        BY <3>2, <3>4, <3>6, <4>1 DEF Fine
      <4>7. Fine(S) => Gives(Current(S).syms, Current(W).syms, name, g)
        BY <3>2, <3>3, <3>4, <3>6, <4>5
      <4> QED BY <3>2, <3>4, <3>6, <4>1, <4>2, <4>3, <4>4, <4>6, <4>7 DEF T, g
    <3>7. CASE ~ A.ok
      <4>1. T = A.s
        BY <3>1, <3>7
      <4> QED BY <3>2, <3>5, <3>7, <4>1 DEF T, g
    <3> QED BY <3>6, <3>7
  <2> QED BY <2>6, <2>7, <2>8
<1> QED BY <1>1, <1>2

-----------------------------------------------------------------------------
(* Statements *)

LEMMA SameTypeIn ==
  ASSUME NEW S, NEW T, SameTables(S, T), Sound(S), NEW e
  PROVE  TypeIn(T, e) = TypeIn(S, e)
<1>1. /\ Declaring(T, e.name) = Declaring(S, e.name) /\ Resolve(T, e.name) = Resolve(S, e.name)
      /\ S.units \in Seq(ParserUnit) /\ Depth(S) = Len(S.units)
  BY SameDeclaring, StateIs DEF Sound, Typed
<1>2. CASE Declaring(S, e.name) = {}
  BY <1>1, <1>2 DEF TypeIn
<1>3. CASE Declaring(S, e.name) # {}
  <2> DEFINE i == Resolve(S, e.name)
  <2>1. i \in 1 .. Depth(S)
    BY <1>3, ResolveIs
  <2> HIDE DEF i
  <2>2. T.units[i].syms = S.units[i].syms
    BY <1>1, <2>1 DEF SameTables
  <2> QED BY <1>1, <1>3, <2>2 DEF TypeIn, i
<1> QED BY <1>2, <1>3

(* parse_assign_stmt accepts two sides of one type.                        *)
LEMMA ParseAssignIs ==
  ASSUME NEW S, Sound(S), S.units # <<>>, NEW name \in Names, NEW exp \in Exps
  PROVE  LET T == ParseAssign(S, name, exp)
             id == [kind |-> "id", name |-> name]
         IN  /\ Sound(T) /\ SameTables(S, T) /\ Later(S, T)
             /\ Fine(S) => (Fine(T) <=> TypeIn(S, exp) # None /\ TypeIn(S, exp) = TypeIn(S, id))
<1> DEFINE id == [kind |-> "id", name |-> name]
           R == Visit(S, exp, "LOAD")
           L == Visit(R.s, id, "STORE")
           E == SyntaxError(L.s)
           T == ParseAssign(S, name, exp)
<1>1. id \in Exps
  BY DEF Exps
<1>2. T = IF Stopped(L.s) THEN L.s ELSE IF R.type = None \/ R.type # L.type THEN E ELSE L.s
  BY DEF ParseAssign
<1> HIDE DEF T, id
<1>3. /\ Sound(R.s) /\ SameTables(S, R.s) /\ Later(S, R.s)
      /\ Fine(S) => R.type = TypeIn(S, exp) /\ (Fine(R.s) <=> TypeIn(S, exp) # None)
  BY VisitIs
<1> HIDE DEF R
<1>4. R.s.units # <<>> /\ TypeIn(R.s, id) = TypeIn(S, id)
  BY <1>3, SameCurrent, SameTypeIn
<1>5. /\ Sound(L.s) /\ SameTables(R.s, L.s) /\ Later(R.s, L.s)
      /\ Fine(R.s) => L.type = TypeIn(S, id) /\ (Fine(L.s) <=> TypeIn(S, id) # None)
  BY <1>1, <1>3, <1>4, VisitIs
<1> HIDE DEF L
<1>6. Sound(E) /\ SameTables(L.s, E) /\ Later(L.s, E) /\ ~ Fine(E)
  BY <1>5, ErrorIs
<1> HIDE DEF E
<1>7. S \in ParserState /\ R.s \in ParserState /\ L.s \in ParserState /\ E \in ParserState
  BY <1>3, <1>5, <1>6 DEF Sound, Typed
<1>8. SameTables(S, L.s) /\ Later(S, L.s) /\ SameTables(S, E) /\ Later(S, E)
  <2>1. SameTables(S, L.s) /\ Later(S, L.s)
    BY <1>3, <1>5, <1>7, SameTablesTrans, LaterTrans
  <2> QED BY <1>6, <1>7, <2>1, SameTablesTrans, LaterTrans
<1>9. Stopped(L.s) => ~ Fine(L.s)
  BY DEF Stopped, Fine
<1>10. Fine(L.s) => Fine(R.s)
  BY <1>5, <1>7, FineLater
<1> QED BY <1>2, <1>3, <1>5, <1>6, <1>8, <1>9, <1>10 DEF T, id

LEMMA MarkReturnIs ==
  ASSUME NEW S, Sound(S), S.units # <<>>
  PROVE  LET T == MarkReturn(S) IN
         Sound(T) /\ SameTables(S, T) /\ T.errnum = S.errnum /\ T.fault = S.fault
<1> DEFINE E == Emit(S, Return)
           us == E.units
           n == Depth(S)
           v == [us[n] EXCEPT !.ret = TRUE]
           vs == [us EXCEPT ![n] = v]
           T == MarkReturn(S)
<1>1. S \in ParserState /\ n \in Nat /\ n = Len(S.units) /\ n \in 1 .. n
  BY StateIs DEF Sound, Typed
<1>2. Return \in Instr /\ Addresses(S.units, Return)
  BY DEF Return, Inst, Instr, Addresses
<1>3. /\ Sound(E) /\ SameTables(S, E) /\ E.errnum = S.errnum /\ E.fault = S.fault
      /\ \A i \in 1 .. n : us[i].ret = S.units[i].ret
      /\ Returns(us[n].code)
  BY <1>2, EmitIs
<1>4. T = [E EXCEPT !.units = vs]
  BY DEF MarkReturn
<1> HIDE DEF E
<1>5. /\ E \in ParserState /\ Len(us) = n /\ us \in Seq(ParserUnit) /\ us # <<>> /\ us[n] \in ParserUnit
      /\ E.emitted \in Seq(Instr)
  <2>1. E \in ParserState /\ Len(us) = n
    BY <1>1, <1>3 DEF Sound, Typed, SameTables
  <2> QED BY <1>1, <2>1, StateIs
<1>6. /\ v \in ParserUnit /\ v.scope = us[n].scope /\ v.syms = us[n].syms /\ v.result = us[n].result
      /\ v.varindex = us[n].varindex /\ v.locvec = us[n].locvec /\ v.code = us[n].code
  BY <1>5 DEF ParserUnit
<1> HIDE DEF v
<1>7. /\ vs \in Seq(ParserUnit) /\ Len(vs) = n /\ vs[n] = v
      /\ \A i \in 1 .. n : vs[i] = IF i = n THEN v ELSE us[i]
  BY <1>5, <1>6, UnitReplaced
<1> HIDE DEF vs
<1>8. \A a \in Seq(ParserUnit) :
        LET R == [E EXCEPT !.units = a]
        IN  R.units = a /\ R.emitted = E.emitted /\ R.errnum = E.errnum /\ R.fault = E.fault
            /\ R \in ParserState
  BY <1>5 DEF ParserState
<1> HIDE DEF T
<1>9. /\ T.units = vs /\ T.emitted = E.emitted /\ T.errnum = E.errnum /\ T.fault = E.fault
      /\ T \in ParserState
  BY <1>4, <1>7, <1>8
<1>10. SameTables(E, T)
  BY <1>5, <1>6, <1>7, <1>9 DEF SameTables
<1>11. Typed(T) /\ SlotsGood(T.units) /\ NamesGood(T.units)
  BY <1>3, <1>9, <1>10, TablesKept
<1>12. CodeGood(T)
  <2> SUFFICES ASSUME n > 1
               PROVE  /\ Flat(vs) = E.emitted /\ RightSlots(E.emitted, vs[2].locvec)
                      /\ \A i \in 2 .. n : vs[i].ret => Returns(vs[i].code)
    BY <1>7, <1>9 DEF CodeGood
  <2>1. /\ Flat(us) = E.emitted /\ RightSlots(E.emitted, us[2].locvec)
        /\ \A i \in 2 .. n : us[i].ret => Returns(us[i].code)
    BY <1>3, <1>5 DEF Sound, CodeGood
  <2>2. \A i \in 1 .. n : vs[i].code = us[i].code /\ vs[i].locvec = us[i].locvec
    BY <1>6, <1>7
  <2>3. 2 \in 1 .. n /\ \A i \in 2 .. n : i \in 1 .. n
    BY <1>1
  <2>4. Flat(vs) = Flat(us)
    <3> HIDE DEF us, n
    <3> QED BY <1>5, <1>7, <2>2, <2>3, FlatSame
  <2>5. ASSUME NEW i \in 2 .. n, vs[i].ret PROVE Returns(vs[i].code)
    <3>1. CASE i = n
      BY <1>3, <2>2, <2>3, <3>1
    <3>2. CASE i # n
      BY <1>7, <2>1, <2>3, <2>5, <3>2
    <3> QED BY <3>1, <3>2
  <2> QED BY <2>1, <2>2, <2>3, <2>4, <2>5
<1>13. Sound(T) /\ SameTables(S, T)
  BY <1>3, <1>10, <1>11, <1>12, SameTablesTrans DEF Sound
<1> QED BY <1>3, <1>9, <1>13 DEF T

(* parse_return_stmt accepts what the function returns.                    *)
LEMMA ParseReturnIs ==
  ASSUME NEW S, Sound(S), S.units # <<>>, NEW result \in Types \cup {None}, NEW exp \in {NoExp} \cup Exps
  PROVE  LET T == ParseReturn(S, result, exp) IN
         /\ Sound(T) /\ SameTables(S, T) /\ Later(S, T)
         /\ Fine(S) => (Fine(T) <=> IF exp.kind = "none" THEN result = None
                                    ELSE TypeIn(S, exp) # None /\ TypeIn(S, exp) = result)
<1> DEFINE T == ParseReturn(S, result, exp)
           V == IF exp.kind = "none" THEN [s |-> S, type |-> None] ELSE Visit(S, exp, "LOAD")
           R == V.s
<1>0. S \in ParserState /\ SameTables(S, S) /\ Later(S, S)
  <2>1. S \in ParserState /\ S.errnum \in Nat
    BY StateIs DEF Sound, Typed
  <2> QED BY <2>1 DEF SameTables, Later
<1>1. /\ Sound(R) /\ SameTables(S, R) /\ Later(S, R)
      /\ exp.kind = "none" => R = S
      /\ exp.kind # "none" /\ Fine(S) =>
           V.type = TypeIn(S, exp) /\ (Fine(R) <=> TypeIn(S, exp) # None)
  <2>1. CASE exp.kind = "none"
    <3>1. R = S
      BY <2>1
    <3> HIDE DEF V
    <3> QED BY <1>0, <2>1, <3>1
  <2>2. CASE exp.kind # "none"
    <3>1. exp \in Exps
      BY <2>2 DEF NoExp
    <3>2. V = Visit(S, exp, "LOAD")
      BY <2>2
    <3> HIDE DEF V
    <3> QED BY <2>2, <3>1, <3>2, VisitIs
  <2> QED BY <2>1, <2>2
<1>2. T = IF Stopped(R) THEN R
          ELSE IF exp.kind = "none" THEN IF result = None THEN MarkReturn(R) ELSE SyntaxError(R)
          ELSE IF result = None THEN Stop(R, "extra_value")
          ELSE IF V.type = result THEN MarkReturn(R) ELSE SyntaxError(R)
  BY DEF ParseReturn
<1> HIDE DEF V, T
<1>3. R.units # <<>> /\ R \in ParserState
  BY <1>1, SameCurrent DEF Sound, Typed
<1>4. ASSUME NEW E, Sound(E), SameTables(R, E), Later(R, E)
      PROVE  SameTables(S, E) /\ Later(S, E)
  BY <1>0, <1>1, <1>3, <1>4, SameTablesTrans, LaterTrans DEF Sound, Typed
<1>5. CASE T = R /\ Stopped(R)
  <2>1. ~ Fine(R)
    BY <1>5 DEF Stopped, Fine
  <2> QED BY <1>1, <1>5, <2>1 DEF T
<1>6. CASE ~ Stopped(R) /\ T = SyntaxError(R)
           /\ (exp.kind = "none" => result # None) /\ (exp.kind # "none" => V.type # result)
  <2> DEFINE E == SyntaxError(R)
  <2>1. Sound(E) /\ SameTables(R, E) /\ Later(R, E) /\ ~ Fine(E)
    BY <1>1, ErrorIs
  <2>2. T = E
    BY <1>6
  <2> HIDE DEF E
  <2> QED BY <1>1, <1>4, <1>6, <2>1, <2>2 DEF T
<1>7. CASE ~ Stopped(R) /\ T = Stop(R, "extra_value") /\ exp.kind # "none" /\ result = None
  <2> DEFINE E == Stop(R, "extra_value")
  <2>1. Sound(E) /\ SameTables(R, E) /\ Later(R, E) /\ ~ Fine(E)
    BY <1>1, StopIs
  <2>2. T = E
    BY <1>7
  <2> HIDE DEF E
  <2> QED BY <1>1, <1>4, <1>7, <2>1, <2>2 DEF T
<1>8. CASE ~ Stopped(R) /\ T = MarkReturn(R)
           /\ (exp.kind = "none" => result = None) /\ (exp.kind # "none" => V.type = result /\ result # None)
  <2> DEFINE E == MarkReturn(R)
  <2>1. Sound(E) /\ SameTables(R, E) /\ E.errnum = R.errnum /\ E.fault = R.fault
    BY <1>1, <1>3, MarkReturnIs
  <2>2. T = E
    BY <1>8
  <2> HIDE DEF E
  <2>3. Later(R, E) /\ (Fine(E) <=> Fine(R))
    BY <1>3, <2>1, StateIs DEF Later, Fine, Stopped
  <2> QED BY <1>1, <1>4, <1>8, <2>1, <2>2, <2>3 DEF T
<1> QED BY <1>2, <1>5, <1>6, <1>7, <1>8

(* Entering a scope; the code of a function starts with it.                *)
LEMMA EnterIs ==
  ASSUME NEW S, Sound(S), S.units # <<>>, NEW result \in Types \cup {None}, NEW T \in ParserState,
         T.units = Append(S.units, Unit(ScopeAt(Len(S.units) + 1), <<>>, result)),
         T.emitted = IF Len(S.units) = 1 THEN <<>> ELSE S.emitted
  PROVE  Sound(T)
<1> DEFINE us == S.units
           vs == T.units
           n == Len(us)
           u == Unit(ScopeAt(n + 1), <<>>, result)
<1>1. S \in ParserState /\ us \in Seq(ParserUnit) /\ n \in Nat /\ n >= 1 /\ n \in 1 .. n
  BY StateIs DEF Sound, Typed
<1>2. <<>> \in Tables
  <2>1. DOMAIN <<>> = {} /\ <<>> = [x \in DOMAIN <<>> |-> <<>>[x]]
    OBVIOUS
  <2> QED BY <2>1, TableIs
<1>3. /\ u \in ParserUnit /\ u.scope = ScopeAt(n + 1) /\ u.syms = <<>> /\ u.code = <<>> /\ u.ret = FALSE
      /\ u.varindex = 1 /\ u.locvec = <<>>
  <2>1. ScopeAt(n + 1) \in {"module", "function", "block"} /\ <<>> \in Seq(Slot) /\ <<>> \in Seq(Instr)
    BY DEF ScopeAt
  <2> QED BY <1>2, <2>1 DEF Unit, ParserUnit
<1> HIDE DEF u
<1>4. vs \in Seq(ParserUnit) /\ Len(vs) = n + 1 /\ vs[n + 1] = u /\ \A i \in 1 .. n : vs[i] = us[i]
  <2>1. vs = Append(us, u)
    BY DEF u
  <2> HIDE DEF vs, us
  <2> QED BY <1>1, <1>3, <2>1
<1>5. \A i \in 1 .. n + 1 : i \in 1 .. n \/ i = n + 1
  BY <1>1
<1>6. Typed(T)
  <2>1. \A i \in 1 .. n : us[i].scope = ScopeAt(i)
    BY DEF Sound, Typed
  <2>2. \A i \in 1 .. n + 1 : vs[i].scope = ScopeAt(i)
    BY <1>3, <1>4, <1>5, <2>1
  <2> QED BY <1>4, <2>2 DEF Typed
<1> HIDE DEF vs
<1>7. SlotsGood(vs)
  <2>1. CASE n = 1
    <3>1. vs[2].varindex = 1 /\ vs[2].locvec = <<>>
      BY <1>3, <1>4, <2>1
    <3> QED BY <3>1 DEF SlotsGood
  <2>2. CASE n # 1
    <3>1. n > 1 /\ 2 \in 1 .. n
      <4> HIDE DEF n
      <4> QED BY <1>1, <2>2
    <3>2. vs[2] = us[2]
      BY <1>4, <3>1
    <3> QED BY <3>1, <3>2 DEF Sound, SlotsGood
  <2> QED BY <2>1, <2>2
<1>8. NamesGood(vs)
  <2>1. \A i \in 2 .. n + 1 : \A x \in DOMAIN vs[i].syms : i \in 2 .. n /\ vs[i] = us[i] /\ vs[2] = us[2]
    <3>1. DOMAIN vs[n + 1].syms = {}
      BY <1>3, <1>4
    <3>2. \A i \in 2 .. n + 1 : i = n + 1 \/ (i \in 2 .. n /\ i \in 1 .. n /\ 2 \in 1 .. n)
      BY <1>1
    <3> QED BY <1>4, <3>1, <3>2
  <2>2. NamesGood(us)
    BY DEF Sound
  <2>3. ASSUME NEW i \in 2 .. n + 1, NEW j \in 2 .. n + 1, NEW x \in DOMAIN vs[i].syms
        PROVE  /\ i # j => x \notin DOMAIN vs[j].syms
               /\ \E k \in DOMAIN vs[2].locvec :
                    vs[2].locvec[k] = [name |-> x, index |-> vs[i].syms[x].index]
    <3>1. i \in 2 .. n /\ vs[i] = us[i] /\ vs[2] = us[2]
      BY <2>1
    <3>2. x \in DOMAIN vs[j].syms => j \in 2 .. n /\ vs[j] = us[j]
      BY <2>1
    <3> QED BY <2>2, <3>1, <3>2 DEF NamesGood
  <2> QED BY <1>4, <2>3 DEF NamesGood
<1>9. CodeGood(T)
  <2>1. Flat(vs) = Flat(us)
    <3>1. us # <<>> /\ vs = Append(us, u)
      BY DEF vs, u
    <3>2. Flat(us) \in Seq(Instr)
      BY <1>1, <3>1, CodesIs
    <3> HIDE DEF us
    <3>3. Flat(vs) = Flat(us) \o <<>>
      BY <1>1, <1>3, <3>1, FlatAppend
    <3> QED BY <3>2, <3>3, ConcatEmptySeq
  <2>2. \A i \in 2 .. n : i \in 1 .. n
    BY <1>1
  <2>3. CASE n = 1
    <3>1. Flat(vs) = <<>> /\ T.emitted = <<>>
      BY <1>1, <2>1, <2>3, FlatOne
    <3>2. RightSlots(<<>>, vs[2].locvec)
      BY DEF RightSlots
    <3>3. \A i \in 2 .. n + 1 : i = n + 1
      BY <2>3
    <3> QED BY <1>3, <1>4, <3>1, <3>2, <3>3 DEF CodeGood, vs
  <2>4. CASE n # 1
    <3>0. n > 1 /\ 2 \in 1 .. n
      <4> HIDE DEF n
      <4> QED BY <1>1, <2>4
    <3>1. n > 1 /\ T.emitted = S.emitted /\ vs[2] = us[2]
      BY <1>4, <2>4, <3>0
    <3>2. /\ Flat(us) = S.emitted /\ RightSlots(S.emitted, us[2].locvec)
          /\ \A i \in 2 .. n : us[i].ret => Returns(us[i].code)
      BY <3>1 DEF Sound, CodeGood
    <3>3. \A i \in 2 .. n + 1 : vs[i].ret => Returns(vs[i].code)
      <4>1. \A i \in 2 .. n + 1 : i = n + 1 \/ i \in 2 .. n
        BY <1>1
      <4> QED BY <1>3, <1>4, <2>2, <3>2, <4>1
    <3> QED BY <1>4, <2>1, <3>1, <3>2, <3>3 DEF CodeGood, vs
  <2> QED BY <2>3, <2>4
<1> QED BY <1>6, <1>7, <1>8, <1>9 DEF Sound, vs

(* The named results and parameters of a function, up to the i-th.         *)
Distinct(locals, i) == \A j, k \in 1 .. i : j # k => locals[j].name # locals[k].name
Declares(locals, i, t) ==
  /\ DOMAIN t = {locals[k].name : k \in 1 .. i}
  /\ \A k \in 1 .. i : t[locals[k].name].type = locals[k].type
HeaderGood(S, locals, i, T) ==
  /\ Sound(T) /\ Len(T.units) = 2 /\ T.units[1].syms = S.units[1].syms /\ Later(S, T)
  /\ Fine(S) => (Fine(T) <=> Distinct(locals, i))
  /\ Fine(S) /\ Fine(T) => Declares(locals, i, T.units[2].syms)

LEMMA HeaderStarts ==
  ASSUME NEW S, Sound(S), Len(S.units) = 1, NEW result \in Types \cup {None}, NEW locals
  PROVE  HeaderGood(S, locals, 0, [EnterScope(S, "function", result) EXCEPT !.emitted = <<>>])
<1> DEFINE u == Unit("function", <<>>, result)
           vs == Append(S.units, u)
           T == [EnterScope(S, "function", result) EXCEPT !.emitted = <<>>]
<1>1. S \in ParserState /\ S.units \in Seq(ParserUnit) /\ S.units # <<>> /\ S.errnum \in Nat
  BY StateIs DEF Sound, Typed
<1>2. u \in ParserUnit /\ u.syms = <<>>
  <2>1. <<>> \in Tables
    <3>1. DOMAIN <<>> = {} /\ <<>> = [x \in DOMAIN <<>> |-> <<>>[x]]
      OBVIOUS
    <3> QED BY <3>1, TableIs
  <2>2. <<>> \in Seq(Slot) /\ <<>> \in Seq(Instr)
    OBVIOUS
  <2> QED BY <2>1, <2>2 DEF Unit, ParserUnit
<1>3. u = Unit(ScopeAt(Len(S.units) + 1), <<>>, result)
  BY DEF ScopeAt
<1> HIDE DEF u
<1>4. vs \in Seq(ParserUnit) /\ Len(vs) = 2 /\ vs[1] = S.units[1] /\ vs[2] = u
  <2> DEFINE us == S.units
  <2>0. us \in Seq(ParserUnit) /\ u \in ParserUnit
    BY <1>1, <1>2
  <2>1. Len(us) = 1
    OBVIOUS
  <2> HIDE DEF us
  <2>2. /\ Append(us, u) \in Seq(ParserUnit) /\ Len(Append(us, u)) = 2
        /\ Append(us, u)[1] = us[1] /\ Append(us, u)[2] = u
    <3>1. Append(us, u) \in Seq(ParserUnit)
      BY <2>0, AppendIs
    <3>2. /\ Len(Append(us, u)) = Len(us) + 1 /\ Append(us, u)[Len(us) + 1] = u
          /\ \A i \in 1 .. Len(us) : Append(us, u)[i] = us[i]
      BY <2>0
    <3>5. 1 \in 1 .. Len(us) /\ Len(us) + 1 = 2
      BY <2>1
    <3> QED BY <3>1, <3>2, <3>5
  <2> QED BY <2>2 DEF us
<1>5. T = [S EXCEPT !.units = vs, !.emitted = <<>>]
  BY <1>1 DEF EnterScope, ParserState, u
<1> HIDE DEF vs, T
<1>6. /\ T \in ParserState /\ T.units = vs /\ T.emitted = <<>> /\ T.errnum = S.errnum /\ T.fault = S.fault
  <2>1. \A a \in Seq(ParserUnit), b \in Seq(Instr) :
        LET R == [S EXCEPT !.units = a, !.emitted = b]
        IN  /\ R.units = a /\ R.emitted = b /\ R.errnum = S.errnum /\ R.fault = S.fault
            /\ R \in ParserState
    BY <1>1 DEF ParserState
  <2>2. <<>> \in Seq(Instr)
    OBVIOUS
  <2> QED BY <1>4, <1>5, <2>1, <2>2
<1>7. Sound(T)
  BY <1>1, <1>3, <1>6, EnterIs DEF vs
<1>8. Later(S, T) /\ (Fine(S) <=> Fine(T))
  BY <1>1, <1>6 DEF Later, Fine, Stopped
<1>9. Distinct(locals, 0) /\ Declares(locals, 0, <<>>)
  <2>1. 1 .. 0 = {} /\ DOMAIN <<>> = {}
    OBVIOUS
  <2> QED BY <2>1 DEF Distinct, Declares
<1> QED BY <1>2, <1>4, <1>6, <1>7, <1>8, <1>9 DEF HeaderGood, T

LEMMA HeaderGrows ==
  ASSUME NEW S, Sound(S), NEW locals \in Seq([name : Names, type : Types]), NEW i \in 1 .. Len(locals),
         NEW P, HeaderGood(S, locals, i - 1, P)
  PROVE  HeaderGood(S, locals, i, AddVariable(P, locals[i].name, locals[i].type).s)
<1> DEFINE name == locals[i].name
           type == locals[i].type
           A == AddVariable(P, name, type)
           T == A.s
           t == P.units[2].syms
           u == T.units[2].syms
<1>1. /\ name \in Names /\ type \in Types \cup {None}
      /\ i \in Nat /\ 1 .. i = (1 .. i - 1) \cup {i} /\ i \notin 1 .. i - 1
  <2>1. locals[i] \in [name : Names, type : Types]
    BY ElementOfSeq
  <2>2. i \in Nat /\ 1 .. i = (1 .. i - 1) \cup {i} /\ i \notin 1 .. i - 1
    OBVIOUS
  <2> QED BY <2>1, <2>2
<1>2. /\ Sound(P) /\ Depth(P) = 2 /\ P.units[1].syms = S.units[1].syms /\ Later(S, P)
      /\ Fine(S) => (Fine(P) <=> Distinct(locals, i - 1))
      /\ Fine(S) /\ Fine(P) => Declares(locals, i - 1, t)
  BY DEF HeaderGood, Depth
<1>3. /\ Sound(T) /\ Changes(P, T, name) /\ Later(P, T) /\ A.ok \in BOOLEAN
      /\ A.ok <=> Declaring(P, name) \subseteq {1}
      /\ ~ A.ok => ~ Fine(T)
      /\ A.ok => /\ T.errnum = P.errnum /\ T.fault = P.fault
                 /\ Gives(Current(P).syms, Current(T).syms, name, type)
  BY <1>1, <1>2, AddVariableLocal
<1>4. Len(T.units) = 2 /\ T.units[1].syms = P.units[1].syms
  <2>1. Len(P.units) = 2 /\ Changes(P, T, name)
    BY <1>2, <1>3 DEF Depth
  <2> HIDE DEF T, A, name, type, t, u
  <2>2. /\ Len(T.units) = Len(P.units)
        /\ \A k \in 1 .. Len(P.units) - 1 : T.units[k].syms = P.units[k].syms
    BY <2>1, Zenon DEF Changes
  <2>3. 1 \in 1 .. Len(P.units) - 1
    BY <2>1
  <2> QED BY <2>1, <2>2, <2>3
<1>5. Current(P).syms = t /\ Current(T).syms = u
  BY <1>2, <1>4 DEF Current, Depth
<1>6. Declaring(P, name) \subseteq {1} <=> name \notin DOMAIN t
  BY <1>2 DEF Declaring, Depth
<1>7. S \in ParserState /\ P \in ParserState /\ T \in ParserState
  BY <1>2, <1>3 DEF Sound, Typed
<1> HIDE DEF A, name, type
<1>8. Later(S, T) /\ (Fine(T) => Fine(P) /\ A.ok) /\ (Fine(P) /\ A.ok => Fine(T))
  <2>1. Later(S, T) /\ (Fine(T) => Fine(P))
    BY <1>2, <1>3, <1>7, LaterTrans, FineLater
  <2> QED BY <1>3, <2>1 DEF Fine
<1>9. Distinct(locals, i) <=> Distinct(locals, i - 1) /\ name \notin {locals[k].name : k \in 1 .. i - 1}
  BY <1>1 DEF Distinct, name
<1>10. Fine(S) => (Fine(T) <=> Distinct(locals, i))
  BY <1>2, <1>3, <1>6, <1>8, <1>9 DEF Declares
<1>11. Fine(S) /\ Fine(T) => Declares(locals, i, u)
  <2> SUFFICES ASSUME Fine(S), Fine(T) PROVE Declares(locals, i, u)
    OBVIOUS
  <2>1. Declares(locals, i - 1, t) /\ name \notin DOMAIN t /\ Gives(t, u, name, type)
    BY <1>2, <1>3, <1>5, <1>6, <1>8
  <2> HIDE DEF t, u
  <2>2. DOMAIN u = DOMAIN t \cup {name}
    <3>1. DOMAIN TypesOf(u) = DOMAIN u
      BY DEF TypesOf
    <3>2. DOMAIN TypesOf(u) = DOMAIN t \cup {name}
      BY <2>1 DEF Gives
    <3> QED BY <3>1, <3>2
  <2>3. \A n \in DOMAIN t \cup {name} : u[n].type = IF n = name THEN type ELSE t[n].type
    <3>1. TypesOf(u) = [n \in DOMAIN t \cup {name} |-> IF n = name THEN type ELSE TypesOf(t)[n]]
      BY <2>1 DEF Gives
    <3>2. ASSUME NEW n \in DOMAIN t \cup {name} PROVE u[n].type = IF n = name THEN type ELSE t[n].type
      <4>1. TypesOf(u)[n] = u[n].type /\ (n \in DOMAIN t => TypesOf(t)[n] = t[n].type)
        BY <2>2 DEF TypesOf
      <4>2. TypesOf(u)[n] = IF n = name THEN type ELSE TypesOf(t)[n]
        BY <3>1
      <4> QED BY <4>1, <4>2
    <3> QED BY <3>2
  <2>4. DOMAIN u = {locals[k].name : k \in 1 .. i}
    BY <1>1, <2>1, <2>2 DEF Declares, name
  <2>5. ASSUME NEW k \in 1 .. i PROVE u[locals[k].name].type = locals[k].type
    <3>1. CASE k = i
      BY <2>3, <3>1 DEF name, type
    <3>2. CASE k # i
      <4>1. k \in 1 .. i - 1
        BY <1>1, <3>2
      <4>2. locals[k].name \in DOMAIN t /\ t[locals[k].name].type = locals[k].type
        BY <2>1, <4>1 DEF Declares
      <4> QED BY <2>1, <2>3, <4>2
    <3> QED BY <3>1, <3>2
  <2> QED BY <2>4, <2>5 DEF Declares
<1>12. T.units[1].syms = S.units[1].syms
  BY <1>2, <1>4
<1> QED BY <1>3, <1>4, <1>8, <1>10, <1>11, <1>12 DEF HeaderGood, A, name, type

(* parse_funcdecl_stmt: the scope of a function, with its names.           *)
LEMMA HeaderIs ==
  ASSUME NEW S, Sound(S), Len(S.units) = 1, NEW header, header.result \in Types \cup {None},
         header.locals \in Seq([name : Names, type : Types])
  PROVE  HeaderGood(S, header.locals, Len(header.locals), ParseHeader(S, header))
<1> DEFINE locals == header.locals
           n == Len(locals)
           base == [EnterScope(S, "function", header.result) EXCEPT !.emitted = <<>>]
           Grown(P, i) == AddVariable(P, locals[i].name, locals[i].type).s
           Sequel(g) == [i \in 0 .. n |-> IF i = 0 THEN base ELSE Grown(g[i - 1], i)]
           h == CHOOSE g : g = Sequel(g)
           X == {T \in ParserState : Sound(T) /\ Len(T.units) = 2}
           step == [p \in (1 .. n) \X X |-> Grown(p[2], p[1])]
<1>0. n \in Nat
  OBVIOUS
<1>1. HeaderGood(S, locals, 0, base)
  BY HeaderStarts
<1>2. base \in X
  BY <1>1 DEF HeaderGood, Sound, Typed
<1>3. step \in [(1 .. n) \X X -> X]
  <2>1. ASSUME NEW P \in X, NEW i \in 1 .. n PROVE Grown(P, i) \in X
    <3>1. locals[i] \in [name : Names, type : Types]
      BY ElementOfSeq
    <3>2. locals[i].name \in Names /\ locals[i].type \in Types \cup {None} /\ Depth(P) = 2 /\ Sound(P)
      BY <3>1 DEF Depth
    <3> DEFINE T == Grown(P, i)
    <3>3. Sound(T) /\ Changes(P, T, locals[i].name)
      BY <3>2, AddVariableLocal
    <3> HIDE DEF T
    <3>4. Len(T.units) = 2 /\ T \in ParserState
      BY <3>2, <3>3 DEF Changes, Depth, Sound, Typed
    <3>5. T \in X
      BY <3>3, <3>4
    <3> QED BY <3>5 DEF T
  <2> HIDE DEF X, Grown, n
  <2>2. ASSUME NEW p \in (1 .. n) \X X PROVE Grown(p[2], p[1]) \in X
    <3>1. p[1] \in 1 .. n /\ p[2] \in X
      OBVIOUS
    <3> QED BY <2>1, <3>1
  <2> QED BY <2>2
<1>4. PICK f : Unfolds(f, X, base, n, step)
  <2> HIDE DEF X, base, step, n
  <2> QED BY <1>0, <1>2, <1>3, Recursion
<1>5. [i \in 0 .. n |-> f[i]] = Sequel([i \in 0 .. n |-> f[i]])
  <2> DEFINE g == [i \in 0 .. n |-> f[i]]
  <2> HIDE DEF X, base, n
  <2>1. f \in [0 .. n -> X] /\ f[0] = base /\ \A k \in 1 .. n : f[k] = step[<<k, f[k - 1]>>]
    BY <1>4 DEF Unfolds
  <2>2. ASSUME NEW i \in 1 .. n PROVE g[i] = Grown(g[i - 1], i)
    <3>1. i - 1 \in 0 .. n /\ i \in 0 .. n
      BY <1>0
    <3>2. f[i - 1] \in X /\ g[i] = f[i] /\ g[i - 1] = f[i - 1]
      BY <2>1, <3>1
    <3>3. step[<<i, f[i - 1]>>] = Grown(f[i - 1], i)
      <4> HIDE DEF Grown
      <4> QED BY <3>2
    <3> HIDE DEF Grown, step, g
    <3> QED BY <2>1, <3>2, <3>3
  <2>3. \A i \in 0 .. n : g[i] = IF i = 0 THEN base ELSE Grown(g[i - 1], i)
    <3>1. g[0] = base
      BY <1>0, <2>1
    <3>2. \A i \in 0 .. n : i = 0 \/ i \in 1 .. n
      BY <1>0
    <3> HIDE DEF g, Grown
    <3> QED BY <2>2, <3>1, <3>2
  <2>4. g = [i \in 0 .. n |-> g[i]]
    OBVIOUS
  <2> HIDE DEF g, Grown
  <2>5. [i \in 0 .. n |-> g[i]] = [i \in 0 .. n |-> IF i = 0 THEN base ELSE Grown(g[i - 1], i)]
    BY <2>3
  <2> QED BY <2>4, <2>5 DEF g
<1>6. h = Sequel(h)
  <2> HIDE DEF Sequel
  <2> QED BY <1>5
<1>7. h[0] = base /\ \A i \in 1 .. n : h[i] = Grown(h[i - 1], i)
  <2> HIDE DEF h, Grown, base, n
  <2>1. \A i \in 0 .. n : Sequel(h)[i] = IF i = 0 THEN base ELSE Grown(h[i - 1], i)
    OBVIOUS
  <2>2. 0 \in 0 .. n /\ \A i \in 1 .. n : i \in 0 .. n /\ i # 0
    BY <1>0
  <2> HIDE DEF Sequel
  <2> QED BY <1>6, <2>1, <2>2
<1>8. HeaderGood(S, locals, n, h[n])
  <2> DEFINE U == {i \in 0 .. n : HeaderGood(S, locals, i, h[i])}
  <2> HIDE DEF h, base
  <2>1. 0 \in U
    BY <1>0, <1>1, <1>7
  <2>2. ASSUME NEW k \in 0 .. n - 1, k \in U PROVE k + 1 \in U
    <3>1. k + 1 \in 1 .. n /\ k + 1 \in 0 .. n /\ (k + 1) - 1 = k
      BY <1>0
    <3>2. HeaderGood(S, locals, k, h[k])
      BY <2>2
    <3>3. HeaderGood(S, locals, k + 1, Grown(h[k], k + 1))
      BY <3>1, <3>2, HeaderGrows
    <3>4. h[k + 1] = Grown(h[k], k + 1)
      <4> HIDE DEF Grown
      <4> QED BY <1>7, <3>1
    <3> HIDE DEF Grown
    <3> QED BY <3>1, <3>3, <3>4
  <2>3. n \in U
    <3> HIDE DEF U, n
    <3>1. \A k \in 0 .. n : k \in U
      BY <1>0, <2>1, <2>2, Induction
    <3> QED BY <1>0, <3>1
  <2> QED BY <2>3
<1>9. ParseHeader(S, header) = h[n]
  BY DEF ParseHeader
<1> QED BY <1>8, <1>9

(* Parser_Exit_Scope of a block: its code follows that of the one around.  *)
LEMMA ExitBlockIs ==
  ASSUME NEW S, Sound(S), Depth(S) > 2
  PROVE  LET T == ExitBlock(S) IN
         /\ Sound(T) /\ Len(T.units) = Len(S.units) - 1
         /\ \A i \in 1 .. Len(S.units) - 1 : T.units[i].syms = S.units[i].syms
         /\ T.errnum = S.errnum /\ T.fault = S.fault /\ T.emitted = S.emitted
<1> DEFINE us == S.units
           d == Len(us)
           fs == Front(us)
           c == us[d].code
           v == [fs[d - 1] EXCEPT !.code = fs[d - 1].code \o c]
           vs == [fs EXCEPT ![d - 1] = v]
           T == ExitBlock(S)
<1>1. /\ S \in ParserState /\ us \in Seq(ParserUnit) /\ d \in Nat /\ d > 2 /\ Depth(S) = d /\ us # <<>>
      /\ d - 1 \in 1 .. d - 1 /\ 2 \in 1 .. d - 1 /\ d \in 1 .. d
      /\ \A i \in 1 .. d - 1 : i \in 1 .. d
  <2>1. S \in ParserState /\ us \in Seq(ParserUnit) /\ d \in Nat /\ Depth(S) = d
    BY StateIs DEF Sound, Typed
  <2> HIDE DEF us
  <2>2. d > 2 /\ us # <<>>
    BY <2>1
  <2> HIDE DEF d
  <2> QED BY <2>1, <2>2 DEF us
<1>2. T = [S EXCEPT !.units = vs]
  <2>1. Depth(S) = d
    BY <1>1
  <2> HIDE DEF d
  <2> QED BY <2>1 DEF ExitBlock, Merge
<1>3. /\ fs \in Seq(ParserUnit) /\ Len(fs) = d - 1 /\ \A i \in 1 .. d - 1 : fs[i] = us[i]
      /\ us = Append(fs, us[d])
  BY <1>1, FrontIs
<1> HIDE DEF fs
<1>4. us[d] \in ParserUnit /\ us[d - 1] \in ParserUnit /\ fs[d - 1] = us[d - 1] /\ fs # <<>>
  <2>1. \A i \in 1 .. d : us[i] \in ParserUnit
    BY <1>1, StateIs
  <2>2. fs # <<>>
    BY <1>1, <1>3
  <2> QED BY <1>1, <1>3, <2>1, <2>2
<1>5. c \in Seq(Instr) /\ fs[d - 1].code \in Seq(Instr) /\ fs[d - 1].code \o c \in Seq(Instr)
  <2>1. c \in Seq(Instr) /\ fs[d - 1].code \in Seq(Instr)
    BY <1>4 DEF ParserUnit
  <2> QED BY <2>1, ConcatProperties
<1>6. /\ v \in ParserUnit /\ v.scope = us[d - 1].scope /\ v.syms = us[d - 1].syms
      /\ v.result = us[d - 1].result /\ v.varindex = us[d - 1].varindex
      /\ v.locvec = us[d - 1].locvec /\ v.code = us[d - 1].code \o c /\ v.ret = us[d - 1].ret
  <2> DEFINE w == fs[d - 1]
             x == w.code \o c
  <2>1. w \in ParserUnit /\ x \in Seq(Instr) /\ w = us[d - 1]
    BY <1>4, <1>5
  <2>2. v = [w EXCEPT !.code = x]
    OBVIOUS
  <2>3. x = us[d - 1].code \o c
    BY <2>1
  <2> HIDE DEF w, x, v, c
  <2>4. /\ v \in ParserUnit /\ v.scope = w.scope /\ v.syms = w.syms /\ v.result = w.result
        /\ v.varindex = w.varindex /\ v.locvec = w.locvec /\ v.code = x /\ v.ret = w.ret
    BY <2>1, <2>2, CodeReplaced
  <2> QED BY <2>1, <2>3, <2>4
<1> HIDE DEF v, c
<1>7. /\ vs \in Seq(ParserUnit) /\ Len(vs) = d - 1 /\ vs[d - 1] = v
      /\ \A i \in 1 .. d - 1 : vs[i] = IF i = d - 1 THEN v ELSE us[i]
  BY <1>1, <1>3, <1>4, <1>6, UnitReplaced
<1> HIDE DEF vs
<1>8. \A a \in Seq(ParserUnit) :
        LET R == [S EXCEPT !.units = a]
        IN  R.units = a /\ R.emitted = S.emitted /\ R.errnum = S.errnum /\ R.fault = S.fault
            /\ R \in ParserState
  BY <1>1 DEF ParserState
<1> HIDE DEF T
<1>9. /\ T.units = vs /\ T.emitted = S.emitted /\ T.errnum = S.errnum /\ T.fault = S.fault
      /\ T \in ParserState
  BY <1>2, <1>7, <1>8
<1>10. \A i \in 1 .. d - 1 : /\ vs[i].scope = us[i].scope /\ vs[i].syms = us[i].syms
                            /\ vs[i].varindex = us[i].varindex /\ vs[i].locvec = us[i].locvec
                            /\ vs[i].ret = us[i].ret
  BY <1>6, <1>7
<1>11. Typed(T)
  <2>1. \A i \in 1 .. d : us[i].scope = ScopeAt(i)
    BY DEF Sound, Typed
  <2> QED BY <1>1, <1>7, <1>9, <1>10, <2>1 DEF Typed
<1>12. SlotsGood(vs)
  <2>1. vs[2].varindex = us[2].varindex /\ vs[2].locvec = us[2].locvec
    BY <1>1, <1>10
  <2>2. Len(us) > 1
    BY <1>1
  <2>3. /\ us[2].varindex = Len(us[2].locvec) + 1
        /\ \A i \in DOMAIN us[2].locvec : us[2].locvec[i].index = i
    BY <2>2 DEF Sound, SlotsGood
  <2> QED BY <2>1, <2>3 DEF SlotsGood
<1>13. NamesGood(vs)
  <2>1. NamesGood(us)
    BY DEF Sound
  <2>2. \A i \in 2 .. d - 1 : i \in 1 .. d - 1 /\ i \in 2 .. d
    BY <1>1
  <2>3. \A i \in 2 .. d - 1 : vs[i].syms = us[i].syms
    BY <1>10, <2>2
  <2>4. vs[2].locvec = us[2].locvec
    BY <1>1, <1>10
  <2> HIDE DEF us, d
  <2>5. ASSUME NEW i \in 2 .. d - 1, NEW j \in 2 .. d - 1, NEW n \in DOMAIN vs[i].syms
        PROVE  /\ i # j => n \notin DOMAIN vs[j].syms
               /\ \E k \in DOMAIN vs[2].locvec :
                    vs[2].locvec[k] = [name |-> n, index |-> vs[i].syms[n].index]
    <3>1. i \in 2 .. Len(us) /\ j \in 2 .. Len(us)
      BY <2>2 DEF d
    <3> QED BY <2>1, <2>3, <2>4, <3>1 DEF NamesGood
  <2> QED BY <1>7, <2>5 DEF NamesGood
<1>14. CodeGood(T)
  <2>1. /\ Flat(us) = S.emitted /\ RightSlots(S.emitted, us[2].locvec)
        /\ \A i \in 2 .. d : us[i].ret => Returns(us[i].code)
    <3>1. d > 1
      BY <1>1
    <3> QED BY <3>1 DEF Sound, CodeGood
  <2>2. Flat(us) = Flat(fs) \o c
    <3> HIDE DEF us, d
    <3> QED BY <1>3, <1>4, FlatAppend DEF c
  <2>3. Flat(vs) = Flat(fs) \o c
    <3>1. Len(fs) > 1 /\ Len(vs) = Len(fs) /\ \A i \in 2 .. Len(fs) - 1 : vs[i].code = fs[i].code
      <4>1. \A i \in 2 .. Len(fs) - 1 : i \in 1 .. d - 1 /\ i # d - 1
        BY <1>1, <1>3
      <4>2. Len(fs) = d - 1 /\ Len(fs) > 1 /\ Len(vs) = Len(fs)
        BY <1>1, <1>3, <1>7
      <4>3. ASSUME NEW i \in 2 .. Len(fs) - 1 PROVE vs[i].code = fs[i].code
        <5>1. i \in 1 .. d - 1 /\ i # d - 1
          BY <4>1
        <5>2. vs[i] = us[i] /\ fs[i] = us[i]
          BY <1>3, <1>7, <5>1, Zenon
        <5> QED BY <5>2
      <4> QED BY <4>2, <4>3
    <3>2. vs[Len(fs)].code = fs[Len(fs)].code \o c
      BY <1>3, <1>4, <1>6, <1>7
    <3> QED BY <1>3, <1>5, <1>7, <3>1, <3>2, FlatLast
  <2>4. ASSUME NEW i \in 2 .. d - 1, vs[i].ret PROVE Returns(vs[i].code)
    <3>1. i \in 1 .. d - 1 /\ i \in 2 .. d
      BY <1>1
    <3>2. Returns(us[i].code)
      BY <1>10, <2>1, <2>4, <3>1
    <3>3. CASE i # d - 1
      BY <1>7, <3>1, <3>2, <3>3
    <3>4. CASE i = d - 1
      <4> DEFINE a == us[d - 1].code
      <4>1. a \in Seq(Instr) /\ Returns(a) /\ vs[i].code = a \o c
        BY <1>4, <1>5, <1>6, <1>7, <3>2, <3>4
      <4> HIDE DEF a
      <4>2. /\ DOMAIN a = 1 .. Len(a) /\ DOMAIN (a \o c) = 1 .. Len(a) + Len(c)
            /\ Len(a) \in Nat /\ Len(c) \in Nat /\ \A k \in 1 .. Len(a) : (a \o c)[k] = a[k]
        BY <1>5, <4>1
      <4> QED BY <4>1, <4>2 DEF Returns
    <3> QED BY <3>3, <3>4
  <2> QED BY <1>1, <1>7, <1>9, <1>10, <2>1, <2>2, <2>3, <2>4 DEF CodeGood
<1> QED BY <1>7, <1>9, <1>10, <1>11, <1>12, <1>13, <1>14 DEF Sound, T

(* Parser_Exit_Scope of a function: its code, with a return.               *)
FunctionGood(f) ==
  /\ RightSlots(f.code, f.locvec) /\ \E i \in DOMAIN f.code : f.code[i] = Return

LEMMA FinishedIs ==
  ASSUME NEW S, Sound(S), Depth(S) = 2
  PROVE  FunctionGood(Finished(S))
<1> DEFINE us == S.units
           u == us[2]
           a == u.code
           f == Finished(S)
<1>1. /\ us \in Seq(ParserUnit) /\ Len(us) = 2 /\ us # <<>> /\ u \in ParserUnit /\ Current(S) = u
  <2>1. us \in Seq(ParserUnit) /\ Len(us) = 2 /\ \A i \in 1 .. 2 : us[i] \in ParserUnit
    BY StateIs DEF Sound, Typed
  <2>2. us # <<>>
    BY <2>1
  <2> QED BY <2>1, <2>2 DEF Current
<1>2. a \in Seq(Instr) /\ u.ret \in BOOLEAN
  BY <1>1 DEF ParserUnit
<1>3. /\ Flat(us) = S.emitted /\ RightSlots(S.emitted, u.locvec) /\ (u.ret => Returns(a))
  BY <1>1 DEF Sound, CodeGood
<1>4. Flat(us) = a
  <2> DEFINE fs == Front(us)
  <2>1. fs \in Seq(ParserUnit) /\ Len(fs) = 1 /\ us = Append(fs, u) /\ fs # <<>>
    <3>1. fs \in Seq(ParserUnit) /\ Len(fs) = 1 /\ us = Append(fs, u)
      <4>1. us \in Seq(ParserUnit) /\ us # <<>>
        BY <1>1
      <4>2. Len(us) = 2
        BY <1>1
      <4> HIDE DEF us
      <4>3. fs \in Seq(ParserUnit) /\ Len(fs) = Len(us) - 1 /\ us = Append(fs, us[Len(us)])
        BY <4>1, FrontIs
      <4> QED BY <4>2, <4>3
    <3> HIDE DEF fs
    <3>2. fs # <<>>
      BY <3>1
    <3> QED BY <3>1, <3>2
  <2> HIDE DEF fs, us
  <2>2. Flat(us) = Flat(fs) \o a
    BY <1>1, <2>1, FlatAppend
  <2>3. Flat(fs) = <<>>
    BY <2>1, FlatOne
  <2> QED BY <1>2, <2>2, <2>3, ConcatEmptySeq
<1>5. f.locvec = u.locvec /\ f.code = IF NeedsReturn(u) THEN Append(a, Return) ELSE a
  BY <1>1 DEF Finished
<1>6. RightSlots(a, u.locvec)
  BY <1>3, <1>4
<1> HIDE DEF f
<1>7. CASE u.ret
  <2>1. f.code = a
    BY <1>5, <1>7 DEF NeedsReturn
  <2> QED BY <1>3, <1>5, <1>6, <1>7, <2>1 DEF FunctionGood, Returns, f
<1>8. CASE ~ u.ret
  <2>1. f.code = Append(a, Return)
    BY <1>5, <1>8 DEF NeedsReturn
  <2> HIDE DEF a
  <2>2. /\ Len(a) \in Nat /\ DOMAIN a = 1 .. Len(a) /\ DOMAIN f.code = 1 .. Len(a) + 1
        /\ \A i \in 1 .. Len(a) : f.code[i] = a[i]
        /\ f.code[Len(a) + 1] = Return
    BY <1>2, <2>1
  <2>3. Return.op \notin {"LOAD", "STORE"}
    BY DEF Return, Inst
  <2>4. RightSlots(f.code, u.locvec)
    BY <1>6, <2>2, <2>3 DEF RightSlots
  <2>5. Len(a) + 1 \in DOMAIN f.code
    BY <2>2
  <2> QED BY <1>5, <2>2, <2>4, <2>5 DEF FunctionGood, f
<1> QED BY <1>2, <1>7, <1>8

-----------------------------------------------------------------------------
(* The inductive invariant *)

Function == {f \in [locvec : Seq(Slot), code : Seq(Instr)] : FunctionGood(f)}

(* The declarations that are not parsed yet are in the module's table.     *)
PendingGood(us, p) ==
  /\ p \subseteq Declarations /\ \A s, t \in p : s.name = t.name => s = t
  /\ us # <<>> => \A s \in p : s.name \in DOMAIN us[1].syms /\ us[1].syms[s.name].type = s.type

Inductive ==
  /\ Sound(State) /\ Len(units) <= MaxDepth /\ count \in 0 .. MaxStmts
  /\ funcs \in Seq(Function)
  /\ PendingGood(units, pending)
  /\ units # <<>> => written = FALSE

LEMMA DeclarationIs ==
  ASSUME NEW s \in Declarations
  PROVE  /\ s.op = "var" /\ s.name \in Names /\ s.type \in Types \cup {None}
         /\ s.exp \in {NoExp} \cup Exps /\ (s.exp.kind = "none" => s.type \in Types)
<1>1. \A e \in Exps : e.kind # "none"
  BY DEF Exps
<1>2. CASE s \in Forms("var", Names, Types, {NoExp} \cup Exps)
  BY <1>2 DEF Forms
<1>3. CASE s \in Forms("var", Names, {None}, Exps)
  BY <1>1, <1>3 DEF Forms
<1> QED BY <1>2, <1>3 DEF Declarations

LEMMA InitInductive == Init => Inductive
<1> SUFFICES ASSUME Init PROVE Inductive
  OBVIOUS
<1> DEFINE N == {s.name : s \in pending}
           t == [n \in N |-> [type |-> (CHOOSE s \in pending : s.name = n).type, index |-> 0]]
           u == Unit("module", t, None)
<1>1. /\ pending \subseteq Declarations /\ (\A r, s \in pending : r.name = s.name => r = s)
      /\ units = <<u>> /\ errnum = 0 /\ fault = "none" /\ funcs = <<>> /\ written = FALSE
      /\ emitted = <<>> /\ count = 0
  BY ScopesAssumption DEF Init
<1>2. \A s \in pending : s.name \in N /\ t[s.name].type = s.type
  <2>1. ASSUME NEW s \in pending PROVE s.name \in N /\ t[s.name].type = s.type
    <3>1. (CHOOSE r \in pending : r.name = s.name) = s
      BY <1>1
    <3> QED BY <3>1
  <2> QED BY <2>1
<1>3. t \in Tables
  <2>1. \A s \in pending : s.name \in Names /\ s.type \in Types \cup {None}
    BY <1>1, DeclarationIs
  <2>2. DOMAIN t \subseteq Names /\ t = [n \in DOMAIN t |-> t[n]]
    BY <2>1
  <2>3. \A n \in DOMAIN t : t[n] \in Symbol
    <3>1. \A n \in N : (CHOOSE s \in pending : s.name = n).type \in Types \cup {None}
      BY <2>1
    <3> QED BY <3>1 DEF Symbol
  <2> HIDE DEF t
  <2> QED BY <2>2, <2>3, TableIs
<1>4. \A s \in pending : s.name \in DOMAIN t
  BY <1>2
<1> HIDE DEF N, t
<1>5. u \in ParserUnit /\ u.scope = "module" /\ u.syms = t
  <2>1. <<>> \in Seq(Slot) /\ <<>> \in Seq(Instr)
    OBVIOUS
  <2> QED BY <1>3, <2>1 DEF Unit, ParserUnit
<1> HIDE DEF u
<1>6. units \in Seq(ParserUnit) /\ Len(units) = 1 /\ units[1] = u
  BY <1>1, <1>5
<1>7. Sound(State)
  <2>1. State \in ParserState /\ State.units = units
    <3>1. <<>> \in Seq(Instr) /\ 0 \in Nat
      OBVIOUS
    <3> QED BY <1>1, <1>6, <3>1 DEF State, ParserState
  <2>2. Typed(State)
    <3>1. \A i \in 1 .. 1 : units[i].scope = ScopeAt(i)
      BY <1>5, <1>6 DEF ScopeAt
    <3> QED BY <1>6, <2>1, <3>1 DEF Typed
  <2>3. SlotsGood(State.units) /\ NamesGood(State.units) /\ CodeGood(State)
    <3>1. Len(State.units) = 1 /\ ~ (1 > 1) /\ 2 .. 1 = {}
      BY <1>6, <2>1
    <3> QED BY <3>1 DEF SlotsGood, NamesGood, CodeGood
  <2> QED BY <2>2, <2>3 DEF Sound
<1>8. funcs \in Seq(Function)
  BY <1>1
<1>9. PendingGood(units, pending)
  BY <1>1, <1>2, <1>4, <1>5, <1>6 DEF PendingGood
<1>10. Len(units) <= MaxDepth /\ count \in 0 .. MaxStmts
  <2>1. 1 <= MaxDepth /\ 0 \in 0 .. MaxStmts
    BY ScopesAssumption
  <2> QED BY <1>1, <1>6, <2>1
<1> QED BY <1>1, <1>7, <1>8, <1>9, <1>10 DEF Inductive

(* The state after a statement.                                            *)
LEMMA StatementIs ==
  ASSUME Sound(State), NEW s, NEW S, Sound(S), Later(State, S), Statement(s, S)
  PROVE  /\ Sound(State') /\ Later(State, State')
         /\ IF Enough(State) THEN State' = State ELSE State' = S
         /\ Fine(State) => State' = S
<1> DEFINE T == IF Enough(State) THEN State ELSE S
<1>1. units' = T.units /\ errnum' = T.errnum /\ fault' = T.fault /\ emitted' = T.emitted
  BY DEF Statement
<1>2. Sound(T) /\ Later(State, T)
  <2>1. State \in ParserState /\ State.errnum \in Nat
    BY StateIs DEF Sound, Typed
  <2> QED BY <2>1 DEF Later
<1>3. State' = T
  <2>1. T = [units |-> T.units, errnum |-> T.errnum, fault |-> T.fault, emitted |-> T.emitted]
    <3>1. T \in ParserState
      BY <1>2 DEF Sound, Typed
    <3> HIDE DEF T
    <3> QED BY <3>1 DEF ParserState
  <2> HIDE DEF T
  <2> QED BY <1>1, <2>1 DEF State
<1>4. Fine(State) => ~ Enough(State)
  BY ScopesAssumption DEF Fine, Enough
<1> HIDE DEF State
<1> QED BY <1>2, <1>3, <1>4

-----------------------------------------------------------------------------
(* The rules of scope and type *)

EnvOf(us) == [i \in DOMAIN us |-> TypesOf(us[i].syms)]

(* S is what the rules say of s in the current state.                      *)
Follows(S, s) ==
  Fine(State) => /\ Fine(S) <=> Rules!Legal(s)
                 /\ Fine(S) => EnvOf(S.units) = Rules!After(s)

LEMMA RulesVisible ==
  ASSUME Sound(State), NEW name
  PROVE  /\ Rules!Visible(name) = Declaring(State, name)
         /\ Rules!Innermost(name) = Resolve(State, name)
<1>1. DOMAIN units = 1 .. Depth(State) /\ State.units = units
  BY StateIs DEF Sound, Typed, State, Depth
<1>2. Rules!Visible(name) = Declaring(State, name)
  BY <1>1 DEF Rules!Visible, Declaring
<1> QED BY <1>2 DEF Rules!Innermost, Resolve

LEMMA RulesTypeOf ==
  ASSUME Sound(State), NEW e
  PROVE  Rules!TypeOf(e) = TypeIn(State, e)
<1>1. /\ Rules!Visible(e.name) = Declaring(State, e.name)
      /\ Rules!Innermost(e.name) = Resolve(State, e.name)
  BY RulesVisible
<1>2. CASE Declaring(State, e.name) = {}
  BY <1>1, <1>2 DEF Rules!TypeOf, TypeIn
<1>3. CASE Declaring(State, e.name) # {}
  <2> DEFINE i == Resolve(State, e.name)
             env == [k \in DOMAIN units |-> [n \in DOMAIN units[k].syms |-> units[k].syms[n].type]]
  <2>1. i \in 1 .. Depth(State) /\ e.name \in DOMAIN State.units[i].syms
    BY <1>3, ResolveIs
  <2>2. DOMAIN units = 1 .. Depth(State) /\ State.units = units
    BY StateIs DEF Sound, Typed, State, Depth
  <2> HIDE DEF i
  <2>3. env[i][e.name] = units[i].syms[e.name].type
    BY <2>1, <2>2
  <2>4. Rules!TypeOf(e) = IF e.kind = "const" THEN e.type ELSE env[i][e.name]
    BY <1>1, <1>3 DEF Rules!TypeOf, i
  <2>5. TypeIn(State, e) = IF e.kind = "const" THEN e.type ELSE units[i].syms[e.name].type
    BY <1>3, <2>2 DEF TypeIn, i
  <2> QED BY <2>3, <2>4, <2>5
<1> QED BY <1>2, <1>3

LEMMA EnvIs ==
  ASSUME Sound(State)
  PROVE  /\ EnvOf(units) = [i \in DOMAIN units |->
                              [n \in DOMAIN units[i].syms |-> units[i].syms[n].type]]
         /\ DOMAIN EnvOf(units) = 1 .. Len(units) /\ Len(EnvOf(units)) = Len(units)
         /\ Depth(State) = Len(units) /\ State.units = units /\ Len(units) \in Nat
         /\ units \in Seq(ParserUnit)
<1>1. units \in Seq(ParserUnit) /\ State.units = units /\ Depth(State) = Len(units)
  BY StateIs DEF Sound, Typed, State
<1>2. DOMAIN units = 1 .. Len(units) /\ Len(units) \in Nat
  BY <1>1
<1>3. EnvOf(units) = [i \in DOMAIN units |-> [n \in DOMAIN units[i].syms |-> units[i].syms[n].type]]
  BY DEF EnvOf, TypesOf
<1>4. DOMAIN EnvOf(units) = 1 .. Len(units)
  BY <1>2 DEF EnvOf
<1>5. Len(EnvOf(units)) = Len(units)
  BY <1>2, <1>4
<1> QED BY <1>1, <1>2, <1>3, <1>4, <1>5

(* A declaration.                                                          *)
LEMMA EnvExtended ==
  ASSUME Sound(State), units # <<>>, NEW S, Sound(S), NEW name, NEW type,
         Changes(State, S, name), Gives(Current(State).syms, Current(S).syms, name, type)
  PROVE  EnvOf(S.units) = Rules!Extended(Len(units), name, type)
<1> DEFINE d == Len(units)
           env == EnvOf(units)
           F == [n \in DOMAIN env[d] \cup {name} |-> IF n = name THEN type ELSE env[d][n]]
           new == EnvOf(S.units)
<1>1. /\ DOMAIN units = 1 .. d /\ d \in Nat /\ d \in 1 .. d /\ Depth(State) = d /\ State.units = units
      /\ DOMAIN env = 1 .. d
  <2>1. d \in Nat /\ Depth(State) = d /\ State.units = units /\ DOMAIN env = 1 .. d /\ units \in Seq(ParserUnit)
    BY EnvIs
  <2> QED BY <2>1
<1>2. Rules!Extended(d, name, type) = [env EXCEPT ![d] = F]
  <2> DEFINE e == [i \in DOMAIN units |-> [n \in DOMAIN units[i].syms |-> units[i].syms[n].type]]
  <2>1. Rules!Extended(d, name, type) =
          [e EXCEPT ![d] = [n \in DOMAIN e[d] \cup {name} |-> IF n = name THEN type ELSE e[d][n]]]
    BY DEF Rules!Extended
  <2>2. env = e
    BY EnvIs
  <2> HIDE DEF e, env
  <2> QED BY <2>1, <2>2
<1>3. /\ Len(S.units) = d /\ S.units \in Seq(ParserUnit) /\ Depth(S) = d
      /\ \A i \in 1 .. d - 1 : S.units[i].syms = units[i].syms
  BY <1>1, StateIs DEF Changes, Sound, Typed
<1>4. DOMAIN new = 1 .. d /\ \A i \in 1 .. d : new[i] = TypesOf(S.units[i].syms)
  BY <1>3 DEF EnvOf
<1>5. \A i \in 1 .. d : env[i] = TypesOf(units[i].syms)
  BY <1>1 DEF EnvOf
<1>6. new[d] = F
  <2>1. TypesOf(S.units[d].syms) =
          [n \in DOMAIN units[d].syms \cup {name} |->
             IF n = name THEN type ELSE TypesOf(units[d].syms)[n]]
    BY <1>1, <1>3 DEF Gives, Current
  <2>2. DOMAIN TypesOf(units[d].syms) = DOMAIN units[d].syms
    BY DEF TypesOf
  <2> HIDE DEF new, env
  <2> QED BY <1>1, <1>4, <1>5, <2>1, <2>2
<1>7. \A i \in 1 .. d : new[i] = IF i = d THEN F ELSE env[i]
  <2>1. \A i \in 1 .. d : i # d => i \in 1 .. d - 1
    <3>1. d \in Nat
      BY <1>1
    <3> HIDE DEF d
    <3> QED BY <3>1
  <2> HIDE DEF new, env, F
  <2> QED BY <1>3, <1>4, <1>5, <1>6, <2>1
<1>8. new = [i \in 1 .. d |-> new[i]]
  <2>1. new = [i \in DOMAIN new |-> new[i]]
    BY DEF EnvOf
  <2> HIDE DEF new
  <2> QED BY <1>4, <2>1
<1>9. [env EXCEPT ![d] = F] = [i \in 1 .. d |-> IF i = d THEN F ELSE env[i]]
  <2> HIDE DEF F, env
  <2> QED BY <1>1
<1> HIDE DEF new, env, F
<1>10. new = [i \in 1 .. d |-> IF i = d THEN F ELSE env[i]]
  BY <1>7, <1>8
<1> QED BY <1>2, <1>9, <1>10 DEF new

(* A statement that declares nothing leaves the environment as it is.      *)
LEMMA EnvKept ==
  ASSUME NEW S, SameTables(State, S), Sound(State), Sound(S)
  PROVE  EnvOf(S.units) = EnvOf(units)
<1>1. units \in Seq(ParserUnit) /\ State.units = units
  BY EnvIs
<1>2. S.units \in Seq(ParserUnit)
  BY StateIs DEF Sound, Typed
<1>3. /\ DOMAIN S.units = 1 .. Len(units) /\ DOMAIN units = 1 .. Len(units)
      /\ \A i \in 1 .. Len(units) : S.units[i].syms = units[i].syms
  BY <1>1, <1>2 DEF SameTables
<1> QED BY <1>3 DEF EnvOf

LEMMA DeclarationFollows ==
  ASSUME Sound(State), units # <<>>, NEW s \in Declarations,
         Depth(State) = 1 => s.name \in DOMAIN units[1].syms /\ units[1].syms[s.name].type = s.type
  PROVE  LET S == ParseVariable(State, s.name, s.type, s.exp) IN
         Sound(S) /\ Later(State, S) /\ Changes(State, S, s.name) /\ Follows(S, s)
<1> DEFINE S == ParseVariable(State, s.name, s.type, s.exp)
           g == GivenIn(State, s.type, s.exp)
           d == Len(units)
<1>1. /\ s.op = "var" /\ s.name \in Names /\ s.type \in Types \cup {None}
      /\ s.exp \in {NoExp} \cup Exps /\ (s.exp.kind = "none" => s.type \in Types)
  BY DeclarationIs
<1>2. State.units = units /\ d \in Nat /\ Depth(State) = d /\ Len(EnvOf(units)) = d
  BY EnvIs
<1>3. /\ Sound(S) /\ Changes(State, S, s.name) /\ Later(State, S)
      /\ Fine(State) => (Fine(S) <=> g # None /\ (d = 1 \/ Declaring(State, s.name) \subseteq {1}))
      /\ Fine(State) /\ Fine(S) => Gives(Current(State).syms, Current(S).syms, s.name, g)
  BY <1>1, <1>2, ParseVariableIs
<1> HIDE DEF S
<1>4. Rules!Given(s) = g
  BY RulesTypeOf DEF Rules!Given, GivenIn
<1>5. Rules!LegalDeclaration(s) <=> g # None /\ (d = 1 \/ Declaring(State, s.name) \subseteq {1})
  <2>1. Rules!Fresh(s.name) <=> Declaring(State, s.name) \subseteq {1}
    BY RulesVisible DEF Rules!Fresh
  <2>2. Rules!LegalDeclaration(s) <=> g # None /\ (d > 1 => Rules!Fresh(s.name))
    BY <1>2, <1>4, EnvIs DEF Rules!LegalDeclaration
  <2>3. d >= 1
    <3>1. units \in Seq(ParserUnit)
      BY EnvIs
    <3> QED BY <3>1
  <2> HIDE DEF d
  <2>4. d > 1 <=> d # 1
    BY <1>2, <2>3
  <2> QED BY <2>1, <2>2, <2>4
<1>6. Rules!Legal(s) <=> Rules!LegalDeclaration(s)
  BY <1>1 DEF Rules!Legal
<1>7. Rules!After(s) = Rules!Extended(d, s.name, g)
  BY <1>1, <1>2, <1>4, EnvIs DEF Rules!After
<1>8. Fine(State) /\ Fine(S) => EnvOf(S.units) = Rules!Extended(d, s.name, g)
  BY <1>3, EnvExtended
<1> QED BY <1>3, <1>5, <1>6, <1>7, <1>8 DEF Follows, S

LEMMA AfterKept ==
  ASSUME Sound(State), NEW s, s.op \in {"assign", "expr", "return"}
  PROVE  Rules!After(s) = EnvOf(units)
<1>1. EnvOf(units) = [i \in DOMAIN units |-> [n \in DOMAIN units[i].syms |-> units[i].syms[n].type]]
  BY EnvIs
<1> QED BY <1>1 DEF Rules!After

LEMMA AssignFollows ==
  ASSUME Sound(State), units # <<>>, NEW s, s.op = "assign", s.name \in Names, s.exp \in Exps
  PROVE  LET S == ParseAssign(State, s.name, s.exp) IN
         Sound(S) /\ Later(State, S) /\ SameTables(State, S) /\ Follows(S, s)
<1> DEFINE S == ParseAssign(State, s.name, s.exp)
           id == [kind |-> "id", name |-> s.name]
<1>1. State.units = units
  BY EnvIs
<1>2. /\ Sound(S) /\ SameTables(State, S) /\ Later(State, S)
      /\ Fine(State) =>
           (Fine(S) <=> TypeIn(State, s.exp) # None /\ TypeIn(State, s.exp) = TypeIn(State, id))
  BY <1>1, ParseAssignIs
<1> HIDE DEF S
<1>3. Rules!Legal(s) <=> TypeIn(State, s.exp) # None /\ TypeIn(State, s.exp) = TypeIn(State, id)
  BY RulesTypeOf DEF Rules!Legal, Rules!Typed
<1>4. EnvOf(S.units) = Rules!After(s)
  BY <1>2, EnvKept, AfterKept
<1> QED BY <1>2, <1>3, <1>4 DEF Follows, S

LEMMA ExpressionFollows ==
  ASSUME Sound(State), units # <<>>, NEW s, s.op = "expr", s.exp \in Exps
  PROVE  LET S == Visit(State, s.exp, "LOAD").s IN
         Sound(S) /\ Later(State, S) /\ SameTables(State, S) /\ Follows(S, s)
<1> DEFINE S == Visit(State, s.exp, "LOAD").s
<1>1. State.units = units
  BY EnvIs
<1>2. /\ Sound(S) /\ SameTables(State, S) /\ Later(State, S)
      /\ Fine(State) => (Fine(S) <=> TypeIn(State, s.exp) # None)
  BY <1>1, VisitIs
<1> HIDE DEF S
<1>3. Rules!Legal(s) <=> TypeIn(State, s.exp) # None
  BY RulesTypeOf DEF Rules!Legal, Rules!Typed
<1>4. EnvOf(S.units) = Rules!After(s)
  BY <1>2, EnvKept, AfterKept
<1> QED BY <1>2, <1>3, <1>4 DEF Follows, S

LEMMA ReturnFollows ==
  ASSUME Sound(State), units # <<>>, NEW s, s.op = "return", s.type \in Types \cup {None},
         s.exp \in {NoExp} \cup Exps
  PROVE  LET S == ParseReturn(State, s.type, s.exp) IN
         Sound(S) /\ Later(State, S) /\ SameTables(State, S) /\ Follows(S, s)
<1> DEFINE S == ParseReturn(State, s.type, s.exp)
<1>1. State.units = units
  BY EnvIs
<1>2. /\ Sound(S) /\ SameTables(State, S) /\ Later(State, S)
      /\ Fine(State) => (Fine(S) <=> IF s.exp.kind = "none" THEN s.type = None
                                     ELSE TypeIn(State, s.exp) # None /\ TypeIn(State, s.exp) = s.type)
  BY <1>1, ParseReturnIs
<1> HIDE DEF S
<1>3. Rules!Legal(s) <=> IF s.exp.kind = "none" THEN s.type = None
                         ELSE TypeIn(State, s.exp) # None /\ TypeIn(State, s.exp) = s.type
  BY RulesTypeOf DEF Rules!Legal, Rules!Typed
<1>4. EnvOf(S.units) = Rules!After(s)
  BY <1>2, EnvKept, AfterKept
<1> QED BY <1>2, <1>3, <1>4 DEF Follows, S

(* A scope is opened, or closed.                                           *)
LEMMA EnvAppended ==
  ASSUME NEW us \in Seq(ParserUnit), NEW vs \in Seq(ParserUnit), Len(vs) = Len(us) + 1,
         \A i \in 1 .. Len(us) : vs[i].syms = us[i].syms
  PROVE  EnvOf(vs) = Append(EnvOf(us), TypesOf(vs[Len(us) + 1].syms))
<1> DEFINE n == Len(us)
           X == {TypesOf(u.syms) : u \in ParserUnit}
           e == EnvOf(us)
           f == EnvOf(vs)
           x == TypesOf(vs[n + 1].syms)
<1>1. /\ n \in Nat /\ DOMAIN us = 1 .. n /\ DOMAIN vs = 1 .. n + 1
      /\ \A i \in 1 .. n : us[i] \in ParserUnit
      /\ \A i \in 1 .. n + 1 : vs[i] \in ParserUnit
  OBVIOUS
<1>2. n + 1 \in 1 .. n + 1 /\ \A i \in 1 .. n + 1 : i \in 1 .. n \/ i = n + 1
  <2>1. n \in Nat
    BY <1>1
  <2> HIDE DEF n
  <2> QED BY <2>1
<1>3. e \in Seq(X) /\ Len(e) = n /\ \A i \in 1 .. n : e[i] = TypesOf(us[i].syms)
  <2> HIDE DEF X
  <2>1. \A i \in 1 .. n : TypesOf(us[i].syms) \in X
    BY <1>1 DEF X
  <2>2. e = [i \in 1 .. n |-> TypesOf(us[i].syms)]
    BY <1>1 DEF EnvOf
  <2> HIDE DEF e, n
  <2> QED BY <1>1, <2>1, <2>2
<1>4. f \in Seq(X) /\ Len(f) = n + 1 /\ \A i \in 1 .. n + 1 : f[i] = TypesOf(vs[i].syms)
  <2> HIDE DEF X
  <2>1. \A i \in 1 .. n + 1 : TypesOf(vs[i].syms) \in X
    BY <1>1 DEF X
  <2>2. f = [i \in 1 .. n + 1 |-> TypesOf(vs[i].syms)]
    BY <1>1 DEF EnvOf
  <2> HIDE DEF f, n
  <2> QED BY <1>1, <2>1, <2>2
<1>5. x \in X
  BY <1>1, <1>2
<1>6. \A i \in 1 .. n : f[i] = e[i]
  <2>1. \A i \in 1 .. n : i \in 1 .. n + 1
    <3>1. n \in Nat
      BY <1>1
    <3> HIDE DEF n
    <3> QED BY <3>1
  <2> HIDE DEF e, f
  <2> QED BY <1>3, <1>4, <2>1
<1>7. f[n + 1] = x
  <2> HIDE DEF e, f
  <2> QED BY <1>2, <1>4
<1> HIDE DEF X, e, f, x, n
<1>8. Append(e, x) \in Seq(X) /\ Len(Append(e, x)) = n + 1
  BY <1>3, <1>5, AppendProperties
<1>9. \A i \in 1 .. n + 1 : Append(e, x)[i] = f[i]
  BY <1>2, <1>3, <1>5, <1>6, <1>7, AppendProperties
<1>10. f = Append(e, x)
  BY <1>4, <1>8, <1>9, SeqEqual
<1> QED BY <1>10 DEF e, f, x, n

LEMMA EnvDropped ==
  ASSUME NEW us \in Seq(ParserUnit), NEW vs \in Seq(ParserUnit), Len(us) = Len(vs) + 1,
         \A i \in 1 .. Len(vs) : vs[i].syms = us[i].syms
  PROVE  EnvOf(vs) = SubSeq(EnvOf(us), 1, Len(us) - 1)
<1> DEFINE n == Len(vs)
           X == {TypesOf(u.syms) : u \in ParserUnit}
           e == EnvOf(us)
           f == EnvOf(vs)
<1>1. /\ n \in Nat /\ DOMAIN us = 1 .. n + 1 /\ DOMAIN vs = 1 .. n
      /\ \A i \in 1 .. n : vs[i] \in ParserUnit
      /\ \A i \in 1 .. n + 1 : us[i] \in ParserUnit
  OBVIOUS
<1>2. Len(us) - 1 = n /\ \A i \in 1 .. n : i \in 1 .. n + 1
  <2>1. n \in Nat /\ Len(us) = n + 1
    BY <1>1
  <2> HIDE DEF n
  <2> QED BY <2>1
<1>3. f \in Seq(X) /\ Len(f) = n /\ \A i \in 1 .. n : f[i] = TypesOf(vs[i].syms)
  <2> HIDE DEF X
  <2>1. \A i \in 1 .. n : TypesOf(vs[i].syms) \in X
    BY <1>1 DEF X
  <2>2. f = [i \in 1 .. n |-> TypesOf(vs[i].syms)]
    BY <1>1 DEF EnvOf
  <2> HIDE DEF f, n
  <2> QED BY <1>1, <2>1, <2>2
<1>4. e \in Seq(X) /\ Len(e) = n + 1 /\ \A i \in 1 .. n + 1 : e[i] = TypesOf(us[i].syms)
  <2> HIDE DEF X
  <2>1. \A i \in 1 .. n + 1 : TypesOf(us[i].syms) \in X
    BY <1>1 DEF X
  <2>2. e = [i \in 1 .. n + 1 |-> TypesOf(us[i].syms)]
    BY <1>1 DEF EnvOf
  <2> HIDE DEF e, n
  <2> QED BY <1>1, <2>1, <2>2
<1>5. \A i \in 1 .. n : f[i] = e[i]
  <2> HIDE DEF e, f
  <2> QED BY <1>2, <1>3, <1>4
<1> HIDE DEF X, e, f, n
<1>6. /\ SubSeq(e, 1, n) \in Seq(X) /\ Len(SubSeq(e, 1, n)) = n
      /\ \A i \in 1 .. n : SubSeq(e, 1, n)[i] = e[i]
  <2>1. 1 \in 1 .. Len(e) + 1 /\ n \in 0 .. Len(e) /\ n - 1 + 1 = n /\ \A i \in 1 .. n : 1 + i - 1 = i
    BY <1>1, <1>4
  <2>2. /\ SubSeq(e, 1, n) \in Seq(X) /\ Len(SubSeq(e, 1, n)) = n
    BY <1>1, <1>4, <2>1, SubSeqProperties
  <2> QED BY <1>1, <1>4, <2>1, <2>2, SubSeqProperties
<1>7. f = SubSeq(e, 1, n)
  BY <1>3, <1>5, <1>6, SeqEqual
<1> QED BY <1>2, <1>7 DEF e, f

LEMMA HeaderFollows ==
  ASSUME Sound(State), Len(units) = 1, NEW header, header.result \in Types \cup {None},
         header.locals \in Seq([name : Names, type : Types])
  PROVE  LET S == ParseHeader(State, header)
             s == [op |-> "func", locals |-> header.locals]
         IN  /\ Sound(S) /\ Later(State, S) /\ Follows(S, s)
             /\ Len(S.units) = 2 /\ S.units[1].syms = units[1].syms
<1> DEFINE S == ParseHeader(State, header)
           locals == header.locals
           s == [op |-> "func", locals |-> locals]
           n == Len(locals)
           t == S.units[2].syms
<1>1. State.units = units /\ units \in Seq(ParserUnit) /\ n \in Nat /\ DOMAIN locals = 1 .. n
  BY EnvIs
<1>2. HeaderGood(State, locals, n, S)
  BY <1>1, HeaderIs
<1> HIDE DEF S
<1>3. /\ Sound(S) /\ Len(S.units) = 2 /\ S.units[1].syms = units[1].syms /\ Later(State, S)
      /\ Fine(State) => (Fine(S) <=> Distinct(locals, n))
      /\ Fine(State) /\ Fine(S) => Declares(locals, n, t)
  BY <1>1, <1>2 DEF HeaderGood
<1>4. Rules!Legal(s) <=> Distinct(locals, n)
  BY <1>1 DEF Rules!Legal, Rules!LegalFunction, Distinct
<1>5. Rules!After(s) = Append(EnvOf(units), Rules!Locals(s))
  BY EnvIs DEF Rules!After
<1>6. EnvOf(S.units) = Append(EnvOf(units), TypesOf(t))
  <2>1. S.units \in Seq(ParserUnit)
    BY <1>3, StateIs DEF Sound, Typed
  <2>2. Len(S.units) = Len(units) + 1
    BY <1>3
  <2>3. \A i \in 1 .. Len(units) : S.units[i].syms = units[i].syms
    BY <1>3
  <2>4. Len(units) + 1 = 2
    OBVIOUS
  <2>5. EnvOf(S.units) = Append(EnvOf(units), TypesOf(S.units[Len(units) + 1].syms))
    BY <1>1, <2>1, <2>2, <2>3, EnvAppended
  <2> QED BY <2>4, <2>5
<1>7. ASSUME Distinct(locals, n), Declares(locals, n, t)
      PROVE  TypesOf(t) = Rules!Locals(s)
  <2> DEFINE L == {s.locals[i] : i \in DOMAIN s.locals}
             N == {s.locals[i].name : i \in DOMAIN s.locals}
  <2>1. Rules!Locals(s) = [x \in N |-> (CHOOSE l \in L : l.name = x).type]
    BY DEF Rules!Locals
  <2>2. DOMAIN t = N /\ \A k \in 1 .. n : t[locals[k].name].type = locals[k].type
    BY <1>1, <1>7 DEF Declares
  <2>3. ASSUME NEW x \in N PROVE t[x].type = (CHOOSE l \in L : l.name = x).type
    <3>1. PICK k \in 1 .. n : x = locals[k].name
      BY <1>1
    <3>2. \A l \in L : l.name = x => l = locals[k]
      BY <1>1, <1>7, <3>1 DEF Distinct
    <3>3. locals[k] \in L
      BY <1>1
    <3> HIDE DEF L
    <3>4. (CHOOSE l \in L : l.name = x) = locals[k]
      BY <3>1, <3>2, <3>3
    <3> QED BY <2>2, <3>1, <3>4
  <2> HIDE DEF L, N, t
  <2> QED BY <2>1, <2>2, <2>3 DEF TypesOf
<1>8. Fine(State) /\ Fine(S) => EnvOf(S.units) = Rules!After(s)
  BY <1>3, <1>5, <1>6, <1>7
<1> QED BY <1>3, <1>4, <1>8 DEF Follows, S

-----------------------------------------------------------------------------
(* The steps of the compiler *)

LEMMA InductiveIs ==
  ASSUME Inductive, units # <<>>
  PROVE  /\ Sound(State) /\ State.units = units /\ units \in Seq(ParserUnit) /\ Len(units) \in Nat
         /\ Depth(State) = Len(units) /\ 1 \in 1 .. Len(units) /\ Len(units) \in 1 .. Len(units)
         /\ Scope = ScopeAt(Len(units)) /\ written = FALSE
         /\ Scope = "module" <=> Len(units) = 1
         /\ Scope = "function" <=> Len(units) = 2
         /\ Scope # "module" <=> Len(units) > 1
         /\ Scope = "block" <=> Len(units) > 2
         /\ PendingGood(units, pending) /\ funcs \in Seq(Function) /\ count \in 0 .. MaxStmts
         /\ Len(units) <= MaxDepth
<1>1. Sound(State)
  BY DEF Inductive
<1>2. /\ State.units = units /\ units \in Seq(ParserUnit) /\ Len(units) \in Nat
      /\ Depth(State) = Len(units)
  BY <1>1, EnvIs
<1>3. 1 \in 1 .. Len(units) /\ Len(units) \in 1 .. Len(units)
  BY <1>2
<1>4. Scope = ScopeAt(Len(units))
  BY <1>1, <1>2, <1>3 DEF Scope, Sound, Typed
<1>5. /\ Scope = "module" <=> Len(units) = 1
      /\ Scope = "function" <=> Len(units) = 2
      /\ Scope # "module" <=> Len(units) > 1
      /\ Scope = "block" <=> Len(units) > 2
  <2> DEFINE n == Len(units)
  <2>1. n \in Nat /\ n >= 1 /\ Scope = ScopeAt(n)
    BY <1>2, <1>3, <1>4
  <2> HIDE DEF n
  <2>2. /\ Scope = "module" <=> n = 1
        /\ Scope = "function" <=> n = 2
        /\ Scope # "module" <=> n > 1
        /\ Scope = "block" <=> n > 2
    BY <2>1 DEF ScopeAt
  <2> QED BY <2>2 DEF n
<1> QED BY <1>1, <1>2, <1>3, <1>4, <1>5 DEF Inductive

(* A statement of a body is one of four.                                   *)
LEMMA LocalIs ==
  ASSUME Inductive, Local
  PROVE  \E s, S, name : /\ Statement(s, S) /\ Sound(S) /\ Later(State, S)
                         /\ Changes(State, S, name) /\ Follows(S, s)
<1>1. units # <<>> /\ Scope # "module"
  BY DEF Local, Running
<1>2. /\ Sound(State) /\ State.units = units /\ Depth(State) = Len(units) /\ Len(units) > 1
      /\ units \in Seq(ParserUnit)
  BY <1>1, InductiveIs
<1>3. PICK s \in Stmts : \/ s.op = "var" /\ Variable(s)
                         \/ s.op = "assign" /\ Assign(s)
                         \/ s.op = "expr" /\ Expression(s)
                         \/ s.op = "return" /\ ReturnStatement(s)
  BY DEF Local
<1>4. s \in Statements
  BY ScopesAssumption
<1>5. ASSUME NEW S, NEW r, Sound(S), Later(State, S), SameTables(State, S), Follows(S, r), Statement(r, S)
      PROVE  Statement(r, S) /\ Sound(S) /\ Later(State, S) /\ Changes(State, S, s.name) /\ Follows(S, r)
  BY <1>1, <1>2, <1>5, ChangesNothing
<1>6. CASE s.op = "var" /\ Variable(s)
  <2> DEFINE S == ParseVariable(State, s.name, s.type, s.exp)
  <2>1. s \in Declarations
    BY <1>4, <1>6 DEF Statements, Forms
  <2>2. Sound(S) /\ Later(State, S) /\ Changes(State, S, s.name) /\ Follows(S, s)
    BY <1>1, <1>2, <2>1, DeclarationFollows
  <2>3. Statement(s, S)
    BY <1>6 DEF Variable
  <2> HIDE DEF S
  <2> QED BY <2>2, <2>3
<1>7. CASE s.op = "assign" /\ Assign(s)
  <2> DEFINE S == ParseAssign(State, s.name, s.exp)
  <2>1. s.name \in Names /\ s.exp \in Exps
    BY <1>4, <1>7 DEF Statements, Declarations, Forms
  <2>2. Sound(S) /\ Later(State, S) /\ SameTables(State, S) /\ Follows(S, s)
    BY <1>1, <1>2, <1>7, <2>1, AssignFollows
  <2>3. Statement(s, S)
    BY <1>7 DEF Assign
  <2> HIDE DEF S
  <2> QED BY <1>5, <2>2, <2>3
<1>8. CASE s.op = "expr" /\ Expression(s)
  <2> DEFINE S == Visit(State, s.exp, "LOAD").s
  <2>1. s.exp \in Exps
    BY <1>4, <1>8 DEF Statements, Declarations, Forms
  <2>2. Sound(S) /\ Later(State, S) /\ SameTables(State, S) /\ Follows(S, s)
    BY <1>1, <1>2, <1>8, <2>1, ExpressionFollows
  <2>3. Statement(s, S)
    BY <1>8 DEF Expression
  <2> HIDE DEF S
  <2> QED BY <1>5, <2>2, <2>3
<1>9. CASE s.op = "return" /\ ReturnStatement(s)
  <2> DEFINE result == units[FunctionUnit(State)].result
             r == [s EXCEPT !.type = result]
             S == ParseReturn(State, result, s.exp)
  <2>1. s \in Forms("return", {None}, {None}, {NoExp} \cup Exps)
    BY <1>4, <1>9 DEF Statements, Declarations, Forms
  <2>2. r.op = "return" /\ r.type = result /\ r.exp = s.exp /\ s.exp \in {NoExp} \cup Exps
    BY <2>1 DEF Forms
  <2>3. result \in Types \cup {None}
    <3>1. FunctionUnit(State) = 2 /\ 2 \in 1 .. Len(units)
      BY <1>2, FunctionIs DEF Sound
    <3>2. units[2] \in ParserUnit
      BY <1>2, <3>1
    <3> QED BY <3>1, <3>2 DEF ParserUnit
  <2>4. Statement(r, S)
    BY <1>9 DEF ReturnStatement
  <2>5. S = ParseReturn(State, r.type, r.exp)
    BY <2>2
  <2> HIDE DEF S, r, result
  <2>6. Sound(S) /\ Later(State, S) /\ SameTables(State, S) /\ Follows(S, r)
    BY <1>1, <1>2, <2>2, <2>3, <2>5, ReturnFollows
  <2> QED BY <1>5, <2>4, <2>6
<1> QED BY <1>3, <1>6, <1>7, <1>8, <1>9

LEMMA PendingKept ==
  ASSUME NEW us, NEW vs, NEW p, NEW q, PendingGood(us, p), us # <<>>, q \subseteq p,
         \A s \in q : s.name \in DOMAIN us[1].syms =>
           s.name \in DOMAIN vs[1].syms /\ vs[1].syms[s.name] = us[1].syms[s.name]
  PROVE  PendingGood(vs, q)
BY DEF PendingGood

(* The module's table is not touched by what happens within a function.    *)
LEMMA InnerChanges ==
  ASSUME Sound(State), units # <<>>, NEW S, Sound(S), NEW name, Changes(State, S, name)
  PROVE  /\ Len(S.units) = Len(units) /\ S.units # <<>>
         /\ Len(units) > 1 => S.units[1].syms = units[1].syms
<1>1. State.units = units /\ Len(units) \in Nat /\ units \in Seq(ParserUnit)
  BY EnvIs
<1>2. Len(S.units) = Len(units) /\ \A i \in 1 .. Len(units) - 1 : S.units[i].syms = units[i].syms
  BY <1>1 DEF Changes
<1>3. S.units # <<>>
  <2>1. Len(units) # 0
    BY <1>1
  <2> QED BY <1>2, <2>1
<1>4. Len(units) > 1 => 1 \in 1 .. Len(units) - 1
  BY <1>1
<1> QED BY <1>2, <1>3, <1>4

LEMMA LocalInductive == ASSUME Inductive, Local PROVE Inductive'
<1>1. units # <<>> /\ Scope # "module" /\ pending' = pending /\ funcs' = funcs /\ written' = written
      /\ count < MaxStmts /\ count' = count + 1
  BY DEF Local, Running, NextStatement
<1>2. /\ Sound(State) /\ written = FALSE /\ PendingGood(units, pending) /\ funcs \in Seq(Function)
      /\ count \in 0 .. MaxStmts /\ Len(units) <= MaxDepth /\ Len(units) \in 1 .. Len(units)
      /\ Len(units) > 1 /\ State.units = units
  BY <1>1, InductiveIs
<1>3. PICK s, S, name : /\ Statement(s, S) /\ Sound(S) /\ Later(State, S)
                        /\ Changes(State, S, name) /\ Follows(S, s)
  BY LocalIs
<1>4. Sound(State') /\ (State' = State \/ State' = S)
  BY <1>2, <1>3, StatementIs
<1>5. Len(S.units) = Len(units) /\ S.units[1].syms = units[1].syms
  BY <1>1, <1>2, <1>3, InnerChanges
<1>6. Len(units') = Len(units) /\ units'[1].syms = units[1].syms
  <2>1. State'.units = units'
    BY DEF State
  <2>2. State'.units = units \/ State'.units = S.units
    BY <1>2, <1>4
  <2> QED BY <1>5, <2>1, <2>2
<1>7. PendingGood(units', pending')
  <2>1. PendingGood(units', pending)
    BY <1>1, <1>2, <1>6, PendingKept
  <2> QED BY <1>1, <2>1
<1>8. count' \in 0 .. MaxStmts
  BY <1>1, <1>2, ScopesAssumption
<1> QED BY <1>1, <1>2, <1>4, <1>6, <1>7, <1>8 DEF Inductive

(* A step that follows the rules, and gives its output as they say.        *)
LEMMA StepFollows ==
  ASSUME Sound(State), Sound(State'), Later(State, State'), NEW s, stmt' = s, NEW S, Follows(S, s),
         Fine(State) => State' = S,
         written' = (Fine(State') /\ EnvOf(units') = <<>>)
  PROVE  Rules!Next
<1>1. State \in ParserState /\ State' \in ParserState /\ (Fine(State') => Fine(State))
  BY FineLater DEF Sound, Typed
<1>2. (Fine(State) <=> errnum = 0 /\ fault = "none") /\ (Fine(State') <=> errnum' = 0 /\ fault' = "none")
  BY DEF Fine, State
<1>3. State'.units = units'
  BY DEF State
<1>4. EnvOf(units') = [i \in DOMAIN units' |-> [n \in DOMAIN units'[i].syms |-> units'[i].syms[n].type]]
  BY DEF EnvOf, TypesOf
<1>5. Rules!Output
  BY <1>2, <1>4 DEF Rules!Output
<1>6. CASE Fine(State)
  <2>1. State' = S /\ (Fine(S) <=> Rules!Legal(stmt')) /\ (Fine(S) => EnvOf(S.units) = Rules!After(stmt'))
    BY <1>6 DEF Follows
  <2>2. CASE Fine(State')
    <3>1. EnvOf(units') = Rules!After(stmt') /\ Rules!Legal(stmt')
      BY <1>3, <2>1, <2>2
    <3> QED BY <1>2, <1>4, <1>5, <1>6, <2>2, <3>1 DEF Rules!Next
  <2>3. CASE ~ Fine(State')
    <3>1. ~ Rules!Legal(stmt')
      BY <2>1, <2>3
    <3> QED BY <1>2, <1>5, <1>6, <2>3, <3>1 DEF Rules!Next
  <2> QED BY <2>2, <2>3
<1>7. CASE ~ Fine(State)
  BY <1>1, <1>2, <1>5, <1>7 DEF Rules!Next
<1> QED BY <1>6, <1>7

LEMMA NoOutput ==
  ASSUME NEW us \in Seq(ParserUnit), us # <<>>
  PROVE  EnvOf(us) # <<>>
<1>1. 1 \in DOMAIN us
  OBVIOUS
<1>2. DOMAIN EnvOf(us) = DOMAIN us
  BY DEF EnvOf
<1> QED BY <1>1, <1>2

(* A statement, in a function or in the module.                            *)
LEMMA StatementFollows ==
  ASSUME Inductive, units # <<>>, NEW s, NEW S, Statement(s, S), Sound(S), Later(State, S),
         S.units # <<>>, Follows(S, s), written' = written
  PROVE  Rules!Next
<1>1. Sound(State) /\ written = FALSE /\ State.units = units
  BY InductiveIs
<1>2. /\ Sound(State') /\ Later(State, State') /\ (Fine(State) => State' = S)
      /\ (State' = State \/ State' = S)
  BY <1>1, StatementIs
<1>3. stmt' = s
  BY DEF Statement
<1>4. State'.units = units' /\ units' # <<>>
  <2>1. State'.units = units'
    BY DEF State
  <2> QED BY <1>1, <1>2, <2>1
<1>5. EnvOf(units') # <<>>
  <2>1. units' \in Seq(ParserUnit)
    BY <1>2, <1>4, StateIs DEF Sound, Typed
  <2> QED BY <1>4, <2>1, NoOutput
<1> QED BY <1>1, <1>2, <1>3, <1>5, StepFollows

LEMMA LocalFollows == ASSUME Inductive, Local PROVE Rules!Next
<1>1. units # <<>> /\ written' = written
  BY DEF Local, Running
<1>2. PICK s, S, name : /\ Statement(s, S) /\ Sound(S) /\ Later(State, S)
                        /\ Changes(State, S, name) /\ Follows(S, s)
  BY LocalIs
<1>3. S.units # <<>>
  BY <1>1, <1>2, InductiveIs, InnerChanges
<1> QED BY <1>1, <1>2, <1>3, StatementFollows

LEMMA GlobalIs ==
  ASSUME Inductive, NEW s \in pending, DeclareGlobal(s)
  PROVE  Inductive' /\ Rules!Next
<1> DEFINE S == ParseVariable(State, s.name, s.type, s.exp)
<1>1. /\ units # <<>> /\ Scope = "module" /\ Statement(s, S) /\ pending' = pending \ {s}
      /\ funcs' = funcs /\ written' = written /\ count' = count
  BY DEF DeclareGlobal, Running
<1>2. /\ Sound(State) /\ written = FALSE /\ PendingGood(units, pending) /\ funcs \in Seq(Function)
      /\ count \in 0 .. MaxStmts /\ Len(units) <= MaxDepth /\ Len(units) = 1 /\ State.units = units
      /\ Depth(State) = 1
  BY <1>1, InductiveIs
<1>3. s \in Declarations /\ s.name \in DOMAIN units[1].syms /\ units[1].syms[s.name].type = s.type
  BY <1>1, <1>2 DEF PendingGood
<1>4. Sound(S) /\ Later(State, S) /\ Changes(State, S, s.name) /\ Follows(S, s)
  BY <1>1, <1>2, <1>3, DeclarationFollows
<1> HIDE DEF S
<1>5. Sound(State') /\ (State' = State \/ State' = S)
  BY <1>1, <1>2, <1>4, StatementIs
<1>6. Len(S.units) = 1 /\ S.units # <<>>
  BY <1>1, <1>2, <1>4, InnerChanges
<1>7. /\ DOMAIN units[1].syms \subseteq DOMAIN S.units[1].syms
      /\ \A n \in DOMAIN units[1].syms : n # s.name => S.units[1].syms[n] = units[1].syms[n]
  BY <1>2, <1>4 DEF Changes
<1>8. State'.units = units'
  BY DEF State
<1>9. Len(units') = 1 /\ (units' = units \/ units' = S.units)
  BY <1>2, <1>5, <1>6, <1>8
<1>10. PendingGood(units', pending')
  <2> DEFINE q == pending \ {s}
  <2>1. \A r \in q : r.name # s.name
    BY <1>2 DEF PendingGood
  <2>2. \A r \in q : r.name \in DOMAIN units[1].syms =>
          r.name \in DOMAIN units'[1].syms /\ units'[1].syms[r.name] = units[1].syms[r.name]
    BY <1>7, <1>9, <2>1
  <2>3. q \subseteq pending
    OBVIOUS
  <2> HIDE DEF q
  <2>4. PendingGood(units', q)
    BY <1>1, <1>2, <2>2, <2>3, PendingKept
  <2> QED BY <1>1, <2>4 DEF q
<1>11. Inductive'
  BY <1>1, <1>2, <1>5, <1>9, <1>10 DEF Inductive
<1>12. Rules!Next
  BY <1>1, <1>4, <1>6, StatementFollows
<1> QED BY <1>11, <1>12

LEMMA OpenFunctionIs ==
  ASSUME Inductive, NEW header \in Headers, OpenFunction(header)
  PROVE  Inductive' /\ Rules!Next
<1> DEFINE S == ParseHeader(State, header)
           s == [op |-> "func", locals |-> header.locals]
<1>1. /\ units # <<>> /\ Scope = "module" /\ Statement(s, S) /\ pending' = pending
      /\ funcs' = funcs /\ written' = written /\ count < MaxStmts /\ count' = count + 1
  BY DEF OpenFunction, Running, NextStatement
<1>2. /\ Sound(State) /\ written = FALSE /\ PendingGood(units, pending) /\ funcs \in Seq(Function)
      /\ count \in 0 .. MaxStmts /\ Len(units) <= MaxDepth /\ Len(units) = 1 /\ State.units = units
  BY <1>1, InductiveIs
<1>3. header.result \in Types \cup {None} /\ header.locals \in Seq([name : Names, type : Types])
  BY ScopesAssumption
<1>4. /\ Sound(S) /\ Later(State, S) /\ Follows(S, s)
      /\ Len(S.units) = 2 /\ S.units[1].syms = units[1].syms
  BY <1>2, <1>3, HeaderFollows
<1> HIDE DEF S, s
<1>5. Sound(State') /\ (State' = State \/ State' = S)
  BY <1>1, <1>2, <1>4, StatementIs
<1>6. S.units # <<>>
  BY <1>4
<1>7. State'.units = units'
  BY DEF State
<1>8. Len(units') <= MaxDepth /\ units'[1].syms = units[1].syms
  <2>1. 2 <= MaxDepth
    BY ScopesAssumption
  <2>2. units' = units \/ units' = S.units
    BY <1>2, <1>5, <1>7
  <2> QED BY <1>2, <1>4, <2>1, <2>2
<1>9. PendingGood(units', pending')
  <2>1. PendingGood(units', pending)
    BY <1>1, <1>2, <1>8, PendingKept
  <2> QED BY <1>1, <2>1
<1>10. count' \in 0 .. MaxStmts
  BY <1>1, <1>2, ScopesAssumption
<1>11. Inductive'
  BY <1>1, <1>2, <1>5, <1>8, <1>9, <1>10 DEF Inductive
<1>12. Rules!Next
  BY <1>1, <1>4, <1>6, StatementFollows
<1> QED BY <1>11, <1>12

LEMMA OpenBlockIs == ASSUME Inductive, OpenBlock PROVE Inductive' /\ Rules!Next
<1> DEFINE n == Len(units)
           S == EnterScope(State, "block", None)
           u == Unit("block", <<>>, None)
           vs == Append(units, u)
           s == Mark("open")
<1>1. /\ units # <<>> /\ Scope # "module" /\ Statement(s, S) /\ pending' = pending /\ n < MaxDepth
      /\ funcs' = funcs /\ written' = written /\ count < MaxStmts /\ count' = count + 1
  BY DEF OpenBlock, Running, NextStatement
<1>2. /\ Sound(State) /\ written = FALSE /\ PendingGood(units, pending) /\ funcs \in Seq(Function)
      /\ count \in 0 .. MaxStmts /\ n <= MaxDepth /\ n > 1 /\ n \in Nat /\ State.units = units
      /\ units \in Seq(ParserUnit)
  BY <1>1, InductiveIs
<1>3. State \in ParserState
  BY <1>2 DEF Sound, Typed
<1>4. u \in ParserUnit /\ TypesOf(u.syms) = <<>>
  <2>1. <<>> \in Tables
    <3>1. DOMAIN <<>> = {} /\ <<>> = [x \in DOMAIN <<>> |-> <<>>[x]]
      OBVIOUS
    <3> QED BY <3>1, TableIs
  <2>2. <<>> \in Seq(Slot) /\ <<>> \in Seq(Instr)
    OBVIOUS
  <2>3. u.syms = <<>>
    BY DEF Unit
  <2>4. TypesOf(<<>>) = <<>>
    BY DEF TypesOf
  <2> QED BY <2>1, <2>2, <2>3, <2>4 DEF Unit, ParserUnit
<1>5. u = Unit(ScopeAt(n + 1), <<>>, None)
  <2>1. n + 1 # 1 /\ n + 1 # 2
    <3>1. n > 1 /\ n \in Nat
      BY <1>2
    <3> HIDE DEF n
    <3> QED BY <3>1
  <2> QED BY <2>1 DEF ScopeAt
<1> HIDE DEF u
<1>6. vs \in Seq(ParserUnit) /\ Len(vs) = n + 1 /\ vs[n + 1] = u /\ \A i \in 1 .. n : vs[i] = units[i]
  BY <1>2, <1>4, AppendProperties
<1>7. S = [State EXCEPT !.units = vs]
  BY <1>2 DEF EnterScope, u
<1> HIDE DEF vs, S
<1>8. /\ S \in ParserState /\ S.units = vs /\ S.errnum = State.errnum /\ S.fault = State.fault
      /\ S.emitted = State.emitted
  <2>1. \A T \in ParserState : \A a \in Seq(ParserUnit) :
          LET R == [T EXCEPT !.units = a]
          IN  R.units = a /\ R.emitted = T.emitted /\ R.errnum = T.errnum /\ R.fault = T.fault
              /\ R \in ParserState
    BY DEF ParserState
  <2> QED BY <1>3, <1>6, <1>7, <2>1
<1>9. Sound(S)
  <2>1. S.units = Append(State.units, Unit(ScopeAt(Len(State.units) + 1), <<>>, None))
    BY <1>2, <1>5, <1>8 DEF vs
  <2>2. S.emitted = IF Len(State.units) = 1 THEN <<>> ELSE State.emitted
    <3>1. Len(State.units) = n /\ n > 1 /\ n \in Nat
      BY <1>2
    <3> HIDE DEF n
    <3>2. n # 1
      BY <3>1
    <3> QED BY <1>8, <3>1, <3>2
  <2> QED BY <1>1, <1>2, <1>8, <2>1, <2>2, EnterIs
<1>10. Later(State, S) /\ (Fine(S) <=> Fine(State))
  BY <1>3, <1>8, StateIs DEF Later, Fine, Stopped
<1>11. Follows(S, s)
  <2>1. s.op = "open"
    BY DEF Mark, Stmt
  <2> HIDE DEF s
  <2>2. Rules!Legal(s) = TRUE
    BY <2>1 DEF Rules!Legal
  <2>3. Rules!After(s) = Append(EnvOf(units), <<>>)
    BY <1>2, <2>1, EnvIs DEF Rules!After
  <2>4. EnvOf(vs) = Append(EnvOf(units), TypesOf(vs[Len(units) + 1].syms))
    BY <1>2, <1>6, EnvAppended
  <2>5. EnvOf(S.units) = Rules!After(s)
    BY <1>4, <1>6, <1>8, <2>3, <2>4
  <2> QED BY <1>10, <2>2, <2>5 DEF Follows
<1>12. S.units # <<>>
  <2>1. Len(vs) # 0
    BY <1>2, <1>6
  <2> QED BY <1>8, <2>1
<1> HIDE DEF s
<1>13. Sound(State') /\ (State' = State \/ State' = S)
  BY <1>1, <1>2, <1>9, <1>10, StatementIs
<1>14. Len(units') <= MaxDepth /\ units'[1].syms = units[1].syms
  <2>1. units' = units \/ units' = vs
    <3>1. State'.units = units'
      BY DEF State
    <3> QED BY <1>2, <1>8, <1>13, <3>1
  <2>2. 1 \in 1 .. n /\ n + 1 <= MaxDepth
    <3>1. n > 1 /\ n \in Nat /\ n < MaxDepth
      BY <1>1, <1>2
    <3> HIDE DEF n
    <3> QED BY <3>1, ScopesAssumption
  <2>3. vs[1] = units[1] /\ Len(vs) <= MaxDepth
    BY <1>6, <2>2
  <2> QED BY <1>2, <2>1, <2>3
<1>15. PendingGood(units', pending')
  <2>1. PendingGood(units', pending)
    BY <1>1, <1>2, <1>14, PendingKept
  <2> QED BY <1>1, <2>1
<1>16. count' \in 0 .. MaxStmts
  BY <1>1, <1>2, ScopesAssumption
<1>17. Inductive'
  BY <1>1, <1>2, <1>13, <1>14, <1>15, <1>16 DEF Inductive
<1>18. Rules!Next
  BY <1>1, <1>9, <1>10, <1>11, <1>12, StatementFollows
<1> QED BY <1>17, <1>18

(* A block, a function or the module is left: a step without a statement.  *)
LEMMA ClosedFollows ==
  ASSUME NEW s, s.op \in {"close", "end"}, Sound(State), NEW S, Sound(S), units # <<>>,
         Len(units) = Len(S.units) + 1, S.errnum = errnum, S.fault = fault,
         \A i \in 1 .. Len(S.units) : S.units[i].syms = units[i].syms
  PROVE  Later(State, S) /\ Follows(S, s)
<1>1. /\ State.units = units /\ State.errnum = errnum /\ State.fault = fault /\ errnum \in Nat
      /\ units \in Seq(ParserUnit) /\ S.units \in Seq(ParserUnit)
  BY StateIs DEF State, Sound, Typed
<1>2. Later(State, S) /\ (Fine(S) <=> Fine(State))
  BY <1>1 DEF Later, Fine, Stopped
<1>3. Rules!Legal(s) = TRUE
  BY DEF Rules!Legal
<1>4. Rules!After(s) = SubSeq(EnvOf(units), 1, Len(units) - 1)
  <2>1. Rules!After(s) = SubSeq(EnvOf(units), 1, Len(EnvOf(units)) - 1)
    BY EnvIs DEF Rules!After
  <2>2. Len(EnvOf(units)) = Len(units)
    BY EnvIs
  <2> QED BY <2>1, <2>2
<1>5. EnvOf(S.units) = SubSeq(EnvOf(units), 1, Len(units) - 1)
  BY <1>1, EnvDropped
<1> QED BY <1>2, <1>3, <1>4, <1>5 DEF Follows

LEMMA CloseBlockIs == ASSUME Inductive, CloseBlock PROVE Inductive' /\ Rules!Next
<1> DEFINE S == ExitBlock(State)
           s == Mark("close")
           n == Len(units)
<1>1. /\ units # <<>> /\ Scope = "block" /\ units' = S.units /\ stmt' = s
      /\ errnum' = errnum /\ fault' = fault /\ pending' = pending /\ funcs' = funcs
      /\ written' = written /\ emitted' = emitted /\ count' = count
  BY DEF CloseBlock, Running
<1>2. /\ Sound(State) /\ written = FALSE /\ PendingGood(units, pending) /\ funcs \in Seq(Function)
      /\ count \in 0 .. MaxStmts /\ n <= MaxDepth /\ n > 2 /\ n \in Nat /\ State.units = units
      /\ Depth(State) = n
  BY <1>1, InductiveIs
<1>3. /\ Sound(S) /\ Len(S.units) = n - 1 /\ \A i \in 1 .. n - 1 : S.units[i].syms = units[i].syms
      /\ S.errnum = errnum /\ S.fault = fault /\ S.emitted = emitted
  <2>1. State.errnum = errnum /\ State.fault = fault /\ State.emitted = emitted
    BY DEF State
  <2> QED BY <1>2, <2>1, ExitBlockIs
<1> HIDE DEF S
<1>4. State' = S
  <2>1. S = [units |-> S.units, errnum |-> S.errnum, fault |-> S.fault, emitted |-> S.emitted]
    BY <1>3 DEF Sound, Typed, ParserState
  <2> QED BY <1>1, <1>3, <2>1 DEF State
<1>5. /\ n = Len(S.units) + 1 /\ 1 \in 1 .. n - 1 /\ Len(S.units) <= MaxDepth /\ Len(S.units) # 0
      /\ 1 .. Len(S.units) = 1 .. n - 1
  <2>1. n > 2 /\ n \in Nat /\ n <= MaxDepth /\ Len(S.units) = n - 1 /\ MaxDepth \in Nat
    BY <1>2, <1>3, ScopesAssumption
  <2> HIDE DEF n
  <2> QED BY <2>1
<1>6. s.op \in {"close", "end"}
  BY DEF Mark, Stmt
<1> HIDE DEF s
<1>7. Later(State, S) /\ Follows(S, s)
  BY <1>1, <1>2, <1>3, <1>5, <1>6, ClosedFollows
<1>8. S.units # <<>> /\ S.units \in Seq(ParserUnit)
  BY <1>3, <1>5, StateIs DEF Sound, Typed
<1>9. PendingGood(units', pending')
  <2>1. PendingGood(S.units, pending)
    BY <1>1, <1>2, <1>3, <1>5, PendingKept
  <2> QED BY <1>1, <2>1
<1>10. Inductive'
  BY <1>1, <1>2, <1>3, <1>4, <1>5, <1>9 DEF Inductive
<1>11. EnvOf(units') # <<>>
  BY <1>1, <1>8, NoOutput
<1>12. Rules!Next
  BY <1>1, <1>2, <1>3, <1>4, <1>7, <1>11, StepFollows
<1> QED BY <1>10, <1>12

LEMMA ExitFunctionIs ==
  ASSUME NEW S, Sound(S), Depth(S) = 2
  PROVE  LET T == ExitFunction(S) IN
         /\ Sound(T) /\ Len(T.units) = 1 /\ T.units[1].syms = S.units[1].syms
         /\ T.errnum = S.errnum /\ T.fault = S.fault /\ T.emitted = <<>>
<1> DEFINE T == ExitFunction(S)
           vs == Front(S.units)
<1>1. /\ S \in ParserState /\ S.units \in Seq(ParserUnit) /\ Len(S.units) = 2 /\ S.units[1].scope = ScopeAt(1)
  <2>1. S \in ParserState /\ S.units \in Seq(ParserUnit) /\ Len(S.units) = 2
    BY StateIs DEF Sound, Typed
  <2>2. 1 \in 1 .. Len(S.units)
    BY <2>1
  <2> QED BY <2>1, <2>2 DEF Sound, Typed
<1>2. vs \in Seq(ParserUnit) /\ Len(vs) = 1 /\ vs[1] = S.units[1]
  <2> DEFINE us == S.units
  <2>1. us \in Seq(ParserUnit) /\ us # <<>>
    BY <1>1
  <2>2. Len(us) = 2
    BY <1>1
  <2> HIDE DEF us
  <2>3. /\ Front(us) \in Seq(ParserUnit) /\ Len(Front(us)) = Len(us) - 1
        /\ \A i \in 1 .. Len(us) - 1 : Front(us)[i] = us[i]
    BY <2>1, FrontIs
  <2>4. Len(us) - 1 = 1 /\ 1 \in 1 .. Len(us) - 1
    BY <2>2
  <2>5. Front(us) \in Seq(ParserUnit) /\ Len(Front(us)) = 1 /\ Front(us)[1] = us[1]
    BY <2>3, <2>4
  <2> QED BY <2>5 DEF us
<1>3. T = [S EXCEPT !.units = vs, !.emitted = <<>>]
  BY DEF ExitFunction
<1> HIDE DEF T, vs
<1>4. /\ T \in ParserState /\ T.units = vs /\ T.emitted = <<>> /\ T.errnum = S.errnum
      /\ T.fault = S.fault
  <2>1. \A a \in Seq(ParserUnit), b \in Seq(Instr) :
        LET R == [S EXCEPT !.units = a, !.emitted = b]
        IN  /\ R.units = a /\ R.emitted = b /\ R.errnum = S.errnum /\ R.fault = S.fault
            /\ R \in ParserState
    BY <1>1 DEF ParserState
  <2>2. <<>> \in Seq(Instr)
    OBVIOUS
  <2> QED BY <1>2, <1>3, <2>1, <2>2
<1>5. Sound(T)
  <2>1. Len(T.units) = 1 /\ ~ (1 > 1) /\ 2 .. 1 = {} /\ \A i \in 1 .. 1 : i = 1
    BY <1>2, <1>4
  <2>2. T \in ParserState /\ T.units[1].scope = ScopeAt(1)
    BY <1>1, <1>2, <1>4
  <2>3. Typed(T)
    BY <2>1, <2>2 DEF Typed
  <2>4. SlotsGood(T.units) /\ NamesGood(T.units) /\ CodeGood(T)
    BY <2>1 DEF SlotsGood, NamesGood, CodeGood
  <2> QED BY <2>3, <2>4 DEF Sound
<1> QED BY <1>2, <1>4, <1>5 DEF T

LEMMA EndFunctionIs == ASSUME Inductive, EndFunction PROVE Inductive' /\ Rules!Next
<1> DEFINE S == ExitFunction(State)
           s == Mark("end")
           f == Finished(State)
<1>1. /\ units # <<>> /\ Scope = "function" /\ units' = S.units /\ stmt' = s /\ funcs' = Append(funcs, f)
      /\ errnum' = errnum /\ fault' = fault /\ pending' = pending
      /\ written' = written /\ emitted' = <<>> /\ count' = count
  BY DEF EndFunction, Running
<1>2. /\ Sound(State) /\ written = FALSE /\ PendingGood(units, pending) /\ funcs \in Seq(Function)
      /\ count \in 0 .. MaxStmts /\ Len(units) = 2 /\ State.units = units
      /\ Depth(State) = 2 /\ units \in Seq(ParserUnit)
  BY <1>1, InductiveIs
<1>3. /\ Sound(S) /\ Len(S.units) = 1 /\ S.units[1].syms = units[1].syms
      /\ S.errnum = errnum /\ S.fault = fault /\ S.emitted = <<>>
  <2>1. State.errnum = errnum /\ State.fault = fault
    BY DEF State
  <2> QED BY <1>2, <2>1, ExitFunctionIs
<1> HIDE DEF S
<1>4. State' = S
  <2>1. S = [units |-> S.units, errnum |-> S.errnum, fault |-> S.fault, emitted |-> S.emitted]
    BY <1>3 DEF Sound, Typed, ParserState
  <2> QED BY <1>1, <1>3, <2>1 DEF State
<1>5. f \in Function
  <2>1. FunctionGood(f)
    BY <1>2, FinishedIs
  <2>2. units[2] \in ParserUnit /\ Current(State) = units[2]
    <3>1. 2 \in 1 .. Len(units) /\ units \in Seq(ParserUnit)
      BY <1>2
    <3>2. units[2] \in ParserUnit
      BY <3>1, ElementOfSeq
    <3>3. Current(State) = units[2]
      <4>1. Depth(State) = 2 /\ State.units = units
        BY <1>2
      <4> QED BY <4>1 DEF Current
    <3> QED BY <3>2, <3>3
  <2>3. units[2].locvec \in Seq(Slot) /\ units[2].code \in Seq(Instr) /\ Return \in Instr
    BY <2>2 DEF ParserUnit, Return, Inst, Instr
  <2>4. Append(units[2].code, Return) \in Seq(Instr)
    BY <2>3, AppendIs
  <2>5. f = [locvec |-> units[2].locvec,
             code |-> IF NeedsReturn(units[2]) THEN Append(units[2].code, Return) ELSE units[2].code]
    BY <2>2 DEF Finished
  <2>6. f \in [locvec : Seq(Slot), code : Seq(Instr)]
    <3> HIDE DEF f
    <3> QED BY <2>3, <2>4, <2>5
  <2> HIDE DEF f
  <2> QED BY <2>1, <2>6 DEF Function
<1> HIDE DEF f
<1>6. funcs' \in Seq(Function)
  BY <1>1, <1>2, <1>5, AppendIs
<1>7. s.op \in {"close", "end"}
  BY DEF Mark, Stmt
<1> HIDE DEF s
<1>8. Later(State, S) /\ Follows(S, s)
  <2>1. Len(units) = Len(S.units) + 1 /\ \A i \in 1 .. Len(S.units) : S.units[i].syms = units[i].syms
    BY <1>2, <1>3
  <2>2. Sound(State) /\ Sound(S) /\ units # <<>> /\ S.errnum = errnum /\ S.fault = fault
    BY <1>1, <1>2, <1>3
  <2> QED BY <1>7, <2>1, <2>2, ClosedFollows
<1>9. S.units # <<>> /\ S.units \in Seq(ParserUnit)
  BY <1>3, StateIs DEF Sound, Typed
<1>10. PendingGood(units', pending')
  <2>1. PendingGood(S.units, pending)
    BY <1>1, <1>2, <1>3, PendingKept
  <2> QED BY <1>1, <2>1
<1>11. Len(units') <= MaxDepth
  BY <1>1, <1>3, ScopesAssumption
<1>12. Inductive'
  BY <1>1, <1>2, <1>3, <1>4, <1>6, <1>10, <1>11 DEF Inductive
<1>13. EnvOf(units') # <<>>
  BY <1>1, <1>9, NoOutput
<1>14. Rules!Next
  BY <1>1, <1>2, <1>3, <1>4, <1>8, <1>13, StepFollows
<1> QED BY <1>12, <1>14

(* The end of the module, with its output.                                 *)
LEMMA EndModuleIs == ASSUME Inductive, EndModule PROVE Inductive' /\ Rules!Next
<1> DEFINE S == [State EXCEPT !.units = <<>>]
           s == Mark("end")
<1>1. /\ units # <<>> /\ Scope = "module" /\ pending = {} /\ units' = <<>> /\ stmt' = s /\ fault = "none"
      /\ written' = (errnum = 0) /\ errnum' = errnum /\ fault' = fault /\ pending' = pending
      /\ funcs' = funcs /\ emitted' = emitted /\ count' = count
  BY DEF EndModule, Running
<1>2. /\ Sound(State) /\ PendingGood(units, pending) /\ funcs \in Seq(Function)
      /\ count \in 0 .. MaxStmts /\ Len(units) = 1 /\ State.units = units
  BY <1>1, InductiveIs
<1>3. S = State' /\ S.units = <<>> /\ S.errnum = errnum /\ S.fault = fault
  BY <1>1 DEF State
<1>4. State \in ParserState
  BY <1>2 DEF Sound, Typed
<1>5. S \in ParserState
  <2>1. \A a \in Seq(ParserUnit) : [State EXCEPT !.units = a] \in ParserState
    BY <1>4 DEF ParserState
  <2>2. <<>> \in Seq(ParserUnit)
    OBVIOUS
  <2> QED BY <2>1, <2>2
<1> HIDE DEF S
<1>6. Sound(S)
  <2>1. Len(S.units) = 0 /\ ~ (0 > 1) /\ 2 .. 0 = {} /\ 1 .. 0 = {}
    BY <1>3
  <2>2. Typed(S)
    BY <1>5, <2>1 DEF Typed
  <2>3. SlotsGood(S.units) /\ NamesGood(S.units) /\ CodeGood(S)
    BY <2>1 DEF SlotsGood, NamesGood, CodeGood
  <2> QED BY <2>2, <2>3 DEF Sound
<1>7. s.op \in {"close", "end"}
  BY DEF Mark, Stmt
<1> HIDE DEF s
<1>8. Later(State, S) /\ Follows(S, s)
  <2>1. Len(units) = Len(S.units) + 1 /\ \A i \in 1 .. Len(S.units) : S.units[i].syms = units[i].syms
    BY <1>2, <1>3
  <2> QED BY <1>1, <1>2, <1>3, <1>6, <1>7, <2>1, ClosedFollows
<1>9. PendingGood(units', pending')
  BY <1>1, <1>2 DEF PendingGood
<1>10. Len(units') <= MaxDepth
  <2>1. Len(<<>>) = 0 /\ 0 <= MaxDepth
    BY ScopesAssumption
  <2> QED BY <1>1, <2>1
<1>11. Inductive'
  BY <1>1, <1>2, <1>3, <1>6, <1>9, <1>10 DEF Inductive
<1>12. EnvOf(units') = <<>>
  BY <1>1 DEF EnvOf
<1>13. Fine(State') <=> errnum = 0
  BY <1>1, <1>3 DEF Fine
<1>14. Rules!Next
  BY <1>1, <1>2, <1>3, <1>6, <1>8, <1>12, <1>13, StepFollows
<1> QED BY <1>11, <1>14

LEMMA NextIs == ASSUME Inductive, Next PROVE Inductive' /\ Rules!Next
<1>1. CASE \E s \in pending : DeclareGlobal(s)
  BY <1>1, GlobalIs
<1>2. CASE \E header \in Headers : OpenFunction(header)
  BY <1>2, OpenFunctionIs
<1>3. CASE Local
  BY <1>3, LocalInductive, LocalFollows
<1>4. CASE OpenBlock
  BY <1>4, OpenBlockIs
<1>5. CASE CloseBlock
  BY <1>5, CloseBlockIs
<1>6. CASE EndFunction
  BY <1>6, EndFunctionIs
<1>7. CASE EndModule
  BY <1>7, EndModuleIs
<1> QED BY <1>1, <1>2, <1>3, <1>4, <1>5, <1>6, <1>7 DEF Next

LEMMA InductiveStutters == ASSUME Inductive, UNCHANGED vars PROVE Inductive'
<1>1. State' = State
  BY DEF vars, State
<1> QED BY <1>1 DEF vars, Inductive

-----------------------------------------------------------------------------
(* Theorems *)

(* The parser keeps its scopes, symbols, slots and code in order whatever  *)
(* the program (parser.c, parser_ident.c).                                 *)
THEOREM InvariantHolds == Spec => []Inductive
<1>1. Init => Inductive
  BY InitInductive
<1>2. Inductive /\ [Next]_vars => Inductive'
  BY NextIs, InductiveStutters
<1> QED BY <1>1, <1>2, PTL DEF Spec

LEMMA ConsistentFollows == Inductive => Consistent
<1> SUFFICES ASSUME Inductive PROVE Consistent
  OBVIOUS
<1> DEFINE n == Len(units)
<1>1. Sound(State) /\ n <= MaxDepth /\ count \in 0 .. MaxStmts
  BY DEF Inductive
<1>2. State.units = units /\ units \in Seq(ParserUnit) /\ n \in Nat
  BY <1>1, EnvIs
<1>3. errnum \in Nat /\ fault \in {"none", "no_symbol", "no_type", "extra_value"}
  BY <1>1, StateIs DEF Sound, Typed, State
<1>4. DOMAIN units = 1 .. n
  BY <1>2
<1>5. TypeOK
  <2>1. \A i \in 1 .. n : units[i].scope = ScopeAt(i)
    BY <1>1, <1>2 DEF Sound, Typed
  <2> QED BY <1>1, <1>3, <1>4, <2>1 DEF TypeOK, ScopeAt
<1>6. SlotsInOrder
  BY <1>1, <1>2 DEF Sound, SlotsGood, SlotsInOrder, InFunction, Locvec
<1>7. VisibleOnce
  BY <1>1, <1>2 DEF Sound, NamesGood, VisibleOnce, Locvec
<1> QED BY <1>5, <1>6, <1>7 DEF Consistent

(* In every state, whatever the program: the open scopes nest as the       *)
(* grammar says, the i-th local variable of a function has slot i, and what*)
(* is visible in a function is declared once, with a slot of its own       *)
(* (update_add_variable, parse_block_variable).                            *)
THEOREM ConsistentHolds == Spec => []Consistent
BY InvariantHolds, ConsistentFollows, PTL

LEMMA CodeFaithfulFollows == Inductive => CodeFaithful
<1> SUFFICES ASSUME Inductive PROVE CodeFaithful
  OBVIOUS
<1>1. Sound(State) /\ funcs \in Seq(Function)
  BY DEF Inductive
<1>2. State.units = units /\ State.emitted = emitted
  BY DEF State
<1>3. InFunction => /\ FlattenSeq([i \in 1 .. Len(units) - 1 |-> units[i + 1].code]) = emitted
                    /\ RightSlots(emitted, Locvec)
  BY <1>1, <1>2 DEF Sound, CodeGood, InFunction, Flat, Codes, Locvec
<1>4. \A k \in DOMAIN funcs : funcs[k] \in Function
  BY <1>1
<1>5. \A k \in DOMAIN funcs : /\ RightSlots(funcs[k].code, funcs[k].locvec)
                              /\ \E i \in DOMAIN funcs[k].code : funcs[k].code[i] = Return
  BY <1>4 DEF Function, FunctionGood
<1> QED BY <1>3, <1>5 DEF CodeFaithful

(* Merging the code of a block into the one around it loses and reorders   *)
(* nothing at any depth, every slot that code addresses is that of the     *)
(* variable it names, and a finished function returns (CodeBlock_Merge,    *)
(* Parser_Exit_Scope).                                                     *)
THEOREM CodeFaithfulHolds == Spec => []CodeFaithful
BY InvariantHolds, CodeFaithfulFollows, PTL

LEMMA ScopingInit == Init => Rules!Init
<1> SUFFICES ASSUME Init PROVE Rules!Init
  OBVIOUS
<1>1. Inductive
  BY InitInductive
<1>2. Sound(State)
  BY <1>1 DEF Inductive
<1>3. Len(EnvOf(units)) = Len(units) /\ DOMAIN EnvOf(units) = 1 .. Len(units)
  BY <1>2, EnvIs
<1>4. Len(units) = 1 /\ units # <<>>
  BY DEF Init
<1>5. Len(EnvOf(units)) = 1 /\ DOMAIN EnvOf(units)[1] = DOMAIN units[1].syms
  <2>1. 1 \in DOMAIN units
    BY <1>4
  <2> QED BY <1>3, <1>4, <2>1 DEF EnvOf, TypesOf
<1>6. DOMAIN units[1].syms \subseteq Names
  <2>1. 1 \in 1 .. Depth(State) /\ State.units = units
    BY <1>2, <1>4, EnvIs
  <2> QED BY <1>2, <2>1, SymbolIs
<1>7. EnvOf(units) = [i \in DOMAIN units |-> [n \in DOMAIN units[i].syms |-> units[i].syms[n].type]]
  BY <1>2, EnvIs
<1>8. stmt.op = "start" /\ errnum = 0 /\ fault = "none" /\ written = FALSE
  BY DEF Init, Mark, Stmt
<1>9. /\ Len([i \in DOMAIN units |-> [n \in DOMAIN units[i].syms |-> units[i].syms[n].type]]) = 1
      /\ DOMAIN [i \in DOMAIN units |-> [n \in DOMAIN units[i].syms |-> units[i].syms[n].type]][1]
           \subseteq Names
  <2>1. Len(EnvOf(units)) = 1 /\ DOMAIN EnvOf(units)[1] \subseteq Names
    BY <1>5, <1>6
  <2> QED BY <1>7, <2>1
<1> QED BY <1>8, <1>9 DEF Rules!Init

LEMMA ScopingStutters == UNCHANGED vars => UNCHANGED Rules!scopeVars
BY DEF vars, Rules!scopeVars

(* The compiler accepts exactly the programs that the rules of scope and   *)
(* type accept, gives every name the type they give it, and writes an image*)
(* for no other program: the parser implements StaticScopes, whatever the  *)
(* names, types, statements and the depth of the blocks.                   *)
THEOREM ScopingImplemented == Spec => ImplementsScoping
<1>1. Init => Rules!Init
  BY ScopingInit
<1>2. Inductive /\ [Next]_vars => [Rules!Next]_Rules!scopeVars
  BY NextIs, ScopingStutters
<1> QED BY <1>1, <1>2, InvariantHolds, PTL DEF Spec, ImplementsScoping, Rules!Spec
=============================================================================
