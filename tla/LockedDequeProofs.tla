------------------------- MODULE LockedDequeProofs --------------------------
(***************************************************************************)
(* TLAPS proofs about LockedDeque, for any number of deques, nodes and     *)
(* threads: the critical sections exclude each other, the pointers agree   *)
(* with the queue at every step, and every deque implements a FIFO queue.  *)
(***************************************************************************)
EXTENDS LockedDeque, TLAPS

-----------------------------------------------------------------------------
(* Sequences *)

LEMMA TailIndex ==
  ASSUME NEW S, NEW s \in Seq(S), s # <<>>
  PROVE  /\ Tail(s) \in Seq(S)
         /\ Len(s) \in Nat \ {0}
         /\ Len(Tail(s)) = Len(s) - 1
         /\ Head(s) = s[1]
         /\ s[1] \in S
         /\ \A i \in 1 .. Len(s) - 1 : Tail(s)[i] = s[i + 1]
OBVIOUS

LEMMA EmptyLen == ASSUME NEW S, NEW s \in Seq(S) PROVE s = <<>> <=> Len(s) = 0
OBVIOUS

LEMMA TailEnds ==
  ASSUME NEW S, NEW s \in Seq(S), s # <<>>
  PROVE  /\ Tail(s) = <<>> <=> Len(s) = 1
         /\ Len(s) # 1 => /\ Tail(s)[1] = s[2]
                          /\ Tail(s)[Len(Tail(s))] = s[Len(s)]
         /\ \A i \in 1 .. Len(s) : i # 1 => /\ i - 1 \in 1 .. Len(Tail(s))
                                          /\ Tail(s)[i - 1] = s[i]
<1>1. Len(s) \in Nat \ {0} /\ Len(Tail(s)) = Len(s) - 1
  BY TailIndex
<1>2. \A i \in 1 .. Len(s) - 1 : Tail(s)[i] = s[i + 1]
  BY TailIndex
<1>3. Tail(s) = <<>> <=> Len(s) = 1
  BY <1>1, TailIndex, EmptyLen, SMTT(30)
<1>4. ASSUME NEW i \in 1 .. Len(s), i # 1
      PROVE  i - 1 \in 1 .. Len(Tail(s)) /\ Tail(s)[i - 1] = s[i]
  <2>1. i - 1 \in 1 .. Len(s) - 1 /\ (i - 1) + 1 = i
    BY <1>1, <1>4
  <2> QED BY <1>1, <1>2, <2>1
<1>5. Len(s) # 1 => 2 \in 1 .. Len(s) /\ Len(s) \in 1 .. Len(s) /\ 2 - 1 = 1
  BY <1>1
<1> QED BY <1>1, <1>3, <1>4, <1>5

LEMMA AppendIndex ==
  ASSUME NEW S, NEW s \in Seq(S), NEW x \in S
  PROVE  /\ Append(s, x) \in Seq(S)
         /\ Append(s, x) # <<>>
         /\ Len(s) \in Nat
         /\ Len(Append(s, x)) = Len(s) + 1
         /\ Append(s, x)[Len(s) + 1] = x
         /\ \A i \in 1 .. Len(s) : Append(s, x)[i] = s[i]
OBVIOUS

-----------------------------------------------------------------------------
(* The inductive invariant, part by part *)

AtRestParts(d) ==
  AtRest(d) => /\ next[d] = FirstOf(d)
               /\ count[d] = Len(content[d])
               /\ freed[d] = Null => tail[d] = LastOf(d)

AllParts == /\ TypeOK
            /\ Exclusion
            /\ SinglePlace
            /\ FiniFreesDummy
            /\ \A d \in Deques : Linked(d)
            /\ \A d \in Deques : AtRestParts(d)
            /\ \A t \in Threads : MidCall(t)
            /\ \A t \in Threads : Open(t)
            /\ \A n \in Nodes : Unlinked(n)

LEMMA Parts == (Inductive <=> AllParts) /\ (Inductive' <=> AllParts')
BY DEF Inductive, Pointers, AtRestParts, AllParts

(* Two threads are never both in the critical section of one deque.        *)
LEMMA OneInside ==
  ASSUME Exclusion, NEW t \in Threads, NEW u \in Threads, TypeOK,
         Critical(t), Critical(u), deque[t] = deque[u]
  PROVE  t = u
BY DEF Exclusion, TypeOK

(* A step that moves one thread outside the writes to the deque.           *)
LEMMA ControlStep ==
  ASSUME Inductive, NEW t \in Threads,
         UNCHANGED <<next, tail, count, freed, first, content>>,
         \A u \in Threads \ {t} : pc'[u] = pc[u] /\ deque'[u] = deque[u] /\ node'[u] = node[u],
         pc[t] \notin {"pop_unlink", "pop_tail", "push_tail"},
         pc'[t] \notin {"pop_unlink", "pop_tail", "push_tail"},
         TypeOK', Exclusion', SinglePlace',
         pc'[t] # "out" => freed[deque'[t]] = Null,
         pc'[t] \in {"push_lock", "push_link"} => node'[t] # Null
  PROVE  Inductive'
<1>1. FiniFreesDummy'
  BY Parts DEF AllParts, FiniFreesDummy
<1>2. ASSUME NEW e \in Deques PROVE Linked(e)' /\ AtRestParts(e)'
  <2>1. AtRest(e)' => AtRest(e)
    BY DEF AtRest
  <2> QED BY <2>1, Parts DEF AllParts, Linked, AtRestParts, FirstOf, LastOf
<1>3. ASSUME NEW u \in Threads PROVE MidCall(u)' /\ Open(u)'
  <2>1. MidCall(u) /\ Open(u)
    BY Parts DEF AllParts
  <2>2. CASE u = t
    BY <2>2 DEF MidCall, Open
  <2>3. CASE u # t
    BY <2>1, <2>3 DEF MidCall, Open, FirstOf, LastOf
  <2> QED BY <2>2, <2>3
<1>4. ASSUME NEW m \in Nodes PROVE Unlinked(m)'
  <2>1. Unlinked(m)
    BY Parts DEF AllParts
  <2>2. InDeque(m) => InDeque(m)'
    BY DEF InDeque
  <2> QED BY <2>1, <2>2 DEF Unlinked
<1>5. TypeOK' /\ Exclusion' /\ SinglePlace'
  OBVIOUS
<1> QED BY <1>1, <1>2, <1>3, <1>4, <1>5, Parts DEF AllParts

LEMMA CallPopStep ==
  ASSUME Inductive, NEW t \in Threads, NEW d \in Deques, CallPop(t, d)
  PROVE  Inductive'
<1>0. TypeOK /\ Exclusion /\ SinglePlace
  BY Parts DEF AllParts
<1>1. TypeOK'
  BY <1>0 DEF TypeOK, CallPop, Goto, PopLabels
<1>2. Exclusion'
  BY <1>0 DEF TypeOK, CallPop, Goto, Exclusion, Critical
<1>3. SinglePlace'
  BY <1>0 DEF TypeOK, CallPop, Goto, SinglePlace, Carried, InDeque
<1> QED BY <1>0, <1>1, <1>2, <1>3, ControlStep DEF CallPop, Goto, TypeOK

LEMMA CallPushStep ==
  ASSUME Inductive, NEW t \in Threads, NEW d \in Deques, NEW n \in Nodes, CallPush(t, d, n)
  PROVE  Inductive'
<1>0. TypeOK /\ Exclusion /\ SinglePlace
  BY Parts DEF AllParts
<1>1. TypeOK'
  BY <1>0 DEF TypeOK, CallPush, Goto, PushLabels
<1>2. Exclusion'
  BY <1>0 DEF TypeOK, CallPush, Goto, Exclusion, Critical
<1>3. SinglePlace'
  BY <1>0, DequeAssumption DEF TypeOK, CallPush, Goto, SinglePlace, Carried, InDeque, Outside
<1> QED BY <1>0, <1>1, <1>2, <1>3, ControlStep, DequeAssumption, ZenonT(40) DEF CallPush, Goto, TypeOK

LEMMA LockStep ==
  ASSUME Inductive, NEW t \in Threads, PopLock(t) \/ PushLock(t)
  PROVE  Inductive'
<1>0. TypeOK /\ Exclusion /\ SinglePlace /\ Open(t) /\ MidCall(t)
  BY Parts DEF AllParts
<1>1. ASSUME PopLock(t) PROVE TypeOK' /\ Exclusion' /\ SinglePlace'
  <2>1. TypeOK'
    BY <1>0, <1>1 DEF TypeOK, PopLock, Goto, Lock, PopLabels
  <2>2. Exclusion'
    BY <1>0, <1>1, DequeAssumption DEF TypeOK, PopLock, Goto, Lock, Exclusion, Critical
  <2>3. SinglePlace'
    BY <1>0, <1>1 DEF TypeOK, PopLock, Goto, SinglePlace, Carried, InDeque
  <2> QED BY <2>1, <2>2, <2>3
<1>2. ASSUME PushLock(t) PROVE TypeOK' /\ Exclusion' /\ SinglePlace'
  <2>1. TypeOK'
    BY <1>0, <1>2 DEF TypeOK, PushLock, Goto, Lock, PushLabels
  <2>2. Exclusion'
    BY <1>0, <1>2, DequeAssumption DEF TypeOK, PushLock, Goto, Lock, Exclusion, Critical
  <2>3. SinglePlace'
    BY <1>0, <1>2 DEF TypeOK, PushLock, Goto, SinglePlace, Carried, InDeque
  <2> QED BY <2>1, <2>2, <2>3
<1>4. pc'[t] # "out" => freed[deque'[t]] = Null
  BY <1>0 DEF PopLock, PushLock, Goto, Open, TypeOK
<1>5. pc'[t] \in {"push_lock", "push_link"} => node'[t] # Null
  BY <1>0 DEF PopLock, PushLock, Goto, MidCall, TypeOK
<1> QED BY <1>0, <1>1, <1>2, <1>4, <1>5, ControlStep DEF PopLock, PushLock, Goto, TypeOK

LEMMA UnlockStep ==
  ASSUME Inductive, NEW t \in Threads, PopUnlock(t) \/ PushUnlock(t)
  PROVE  Inductive'
<1>0. TypeOK /\ Exclusion /\ SinglePlace
  BY Parts DEF AllParts
<1>1. TypeOK'
  BY <1>0 DEF TypeOK, PopUnlock, PushUnlock, Goto, Unlock
<1>2. Exclusion'
  <2>1. locker[deque[t]] = t /\ deque[t] \in Deques
    BY <1>0 DEF TypeOK, PopUnlock, PushUnlock, Goto, Exclusion, Critical
  <2>2. /\ pc' = [pc EXCEPT ![t] = "out"]
        /\ locker' = [locker EXCEPT ![deque[t]] = Null]
        /\ deque' = deque
    BY DEF PopUnlock, PushUnlock, Goto, Unlock
  <2>3. SUFFICES ASSUME NEW u \in Threads, NEW e \in Deques
                 PROVE locker'[e] = u <=> Critical(u)' /\ deque'[u] = e
    BY DEF Exclusion
  <2>4. CASE u = t
    BY <1>0, <2>1, <2>2, <2>4, DequeAssumption DEF TypeOK, Exclusion, Critical
  <2>5. CASE u # t /\ e = deque[t]
    BY <1>0, <2>1, <2>2, <2>5, DequeAssumption DEF TypeOK, Exclusion, Critical
  <2>6. CASE u # t /\ e # deque[t]
    BY <1>0, <2>1, <2>2, <2>6 DEF TypeOK, Exclusion, Critical
  <2> QED BY <2>4, <2>5, <2>6
<1>3. SinglePlace'
  <2>1. CASE PopUnlock(t)
    <3>1. ~ InDeque(Null)'
      BY <1>0, <2>1, DequeAssumption DEF TypeOK, PopUnlock, InDeque
    <3>2. \A n : InDeque(n)' <=> InDeque(n)
      BY <2>1 DEF PopUnlock, InDeque
    <3>3. Carried(t)' = Null /\ \A u \in Threads : u # t => Carried(u)' = Carried(u)
      BY <1>0, <2>1 DEF TypeOK, PopUnlock, Goto, Carried
    <3> QED BY <1>0, <2>1, <3>1, <3>2, <3>3 DEF PopUnlock, SinglePlace
  <2>2. CASE PushUnlock(t)
    BY <1>0, <2>2 DEF TypeOK, PushUnlock, Goto, SinglePlace, Carried, InDeque
  <2> QED BY <2>1, <2>2
<1> QED BY <1>0, <1>1, <1>2, <1>3, ControlStep DEF PopUnlock, PushUnlock, Goto, TypeOK

-----------------------------------------------------------------------------
(* The steps that write the deque *)

LEMMA PopTailStep ==
  ASSUME Inductive, NEW t \in Threads, PopTail(t)
  PROVE  Inductive'
<1> DEFINE d == deque[t]
<1>0. TypeOK /\ Exclusion /\ SinglePlace /\ Open(t) /\ MidCall(t) /\ d \in Deques
  BY Parts DEF AllParts, TypeOK
<1>a. /\ pc[t] = "pop_tail" /\ pc' = [pc EXCEPT ![t] = "pop_unlock"]
      /\ tail' = [tail EXCEPT ![d] = IF first[t] = @ THEN d ELSE @]
      /\ UNCHANGED <<next, count, locker, freed, deque, node, first, content>>
  BY DEF PopTail, Goto, TailAfterPop
<1>b. \A u \in Threads : u # t /\ deque[u] = d => ~ Critical(u)
  BY <1>0, <1>a DEF Critical, Exclusion
<1>1. TypeOK'
  BY <1>0, <1>a DEF TypeOK, PopLabels
<1>2. Exclusion'
  BY <1>0, <1>a DEF TypeOK, Exclusion, Critical
<1>3. SinglePlace'
  BY <1>0, <1>a DEF TypeOK, SinglePlace, Carried, InDeque
<1>4. ASSUME NEW e \in Deques PROVE Linked(e)' /\ AtRestParts(e)'
  <2>1. Linked(e) /\ AtRestParts(e)
    BY Parts DEF AllParts
  <2>2. Linked(e)'
    BY <1>a, <2>1 DEF Linked
  <2>3. CASE e # d
    <3>1. AtRest(e)' => AtRest(e)
      BY <1>0, <1>a, <2>3 DEF AtRest, TypeOK
    <3> QED BY <1>0, <1>a, <2>1, <2>2, <2>3, <3>1 DEF AtRestParts, FirstOf, LastOf, TypeOK
  <2>4. CASE e = d
    <3>1. /\ first[t] # Null /\ next[d] = FirstOf(d) /\ count[d] = Len(content[d])
          /\ tail[d] = IF content[d] = <<>> THEN first[t] ELSE LastOf(d)
      BY <1>0, <1>a DEF MidCall
    <3>2. tail'[d] = LastOf(d)
      <4>1. CASE content[d] = <<>>
        BY <1>0, <1>a, <3>1, <4>1 DEF LastOf, TypeOK
      <4>2. CASE content[d] # <<>>
        <5>1. LastOf(d) # first[t]
          <6>1. Len(content[d]) \in 1 .. Len(content[d])
            BY <1>0, <4>2, EmptyLen DEF TypeOK
          <6> QED BY <1>0, <1>a, <4>2, <6>1 DEF SinglePlace, InDeque, Carried, LastOf
        <5> QED BY <1>0, <1>a, <3>1, <4>2, <5>1 DEF TypeOK
      <4> QED BY <4>1, <4>2
    <3> QED BY <1>0, <1>a, <2>2, <2>4, <3>1, <3>2 DEF AtRestParts, FirstOf, LastOf
  <2> QED BY <2>3, <2>4
<1>5. ASSUME NEW u \in Threads PROVE MidCall(u)' /\ Open(u)'
  <2>1. MidCall(u) /\ Open(u) /\ deque[u] \in Deques
    BY <1>0, Parts DEF AllParts, TypeOK
  <2>2. CASE u = t
    BY <1>0, <1>a, <2>1, <2>2 DEF MidCall, Open, TypeOK
  <2>3. CASE u # t /\ deque[u] = d
    BY <1>0, <1>a, <1>b, <2>1, <2>3 DEF MidCall, Open, TypeOK, Critical
  <2>4. CASE u # t /\ deque[u] # d
    BY <1>0, <1>a, <2>1, <2>4 DEF MidCall, Open, FirstOf, LastOf, TypeOK
  <2> QED BY <2>2, <2>3, <2>4
<1>6. ASSUME NEW m \in Nodes PROVE Unlinked(m)'
  <2>1. Unlinked(m) /\ (InDeque(m) => InDeque(m)')
    BY <1>a, Parts DEF AllParts, InDeque
  <2> QED BY <1>0, <1>a, <2>1 DEF Unlinked, TypeOK
<1>7. FiniFreesDummy'
  BY <1>a, Parts DEF AllParts, FiniFreesDummy
<1> QED BY <1>1, <1>2, <1>3, <1>4, <1>5, <1>6, <1>7, Parts DEF AllParts

LEMMA FiniStep ==
  ASSUME Inductive, NEW d \in Deques, Fini(d)
  PROVE  Inductive'
<1>0. TypeOK /\ Exclusion /\ SinglePlace /\ AtRestParts(d)
  BY Parts DEF AllParts
<1>a. /\ freed[d] = Null
      /\ \A t \in Threads : pc[t] # "out" => deque[t] # d
      /\ freed' = [freed EXCEPT ![d] = tail[d]]
      /\ tail' = [tail EXCEPT ![d] = Null]
      /\ UNCHANGED <<next, count, locker, pc, deque, node, first, content>>
  BY DEF Fini
<1>b. tail[d] = LastOf(d) /\ tail[d] \in Nodes \cup Deques /\ tail[d] # Null
  <2>1. AtRest(d)
    BY <1>a DEF AtRest
  <2>2. tail[d] = LastOf(d)
    BY <1>0, <1>a, <2>1 DEF AtRestParts
  <2>3. LastOf(d) \in Nodes \cup Deques
    <3>1. content[d] # <<>> => Len(content[d]) \in 1 .. Len(content[d])
      BY <1>0, EmptyLen DEF TypeOK
    <3> QED BY <1>0, <3>1 DEF TypeOK, LastOf
  <2> QED BY <2>2, <2>3, DequeAssumption
<1>1. TypeOK'
  BY <1>0, <1>a, <1>b DEF TypeOK
<1>2. Exclusion'
  BY <1>0, <1>a DEF Exclusion, Critical
<1>3. SinglePlace'
  BY <1>0, <1>a DEF SinglePlace, Carried, InDeque
<1>4. ASSUME NEW e \in Deques PROVE Linked(e)' /\ AtRestParts(e)'
  <2>1. Linked(e) /\ AtRestParts(e)
    BY Parts DEF AllParts
  <2>2. Linked(e)'
    BY <1>a, <2>1 DEF Linked
  <2>3. AtRest(e)' => AtRest(e)
    BY <1>a DEF AtRest
  <2> QED BY <1>0, <1>a, <1>b, <2>1, <2>2, <2>3 DEF AtRestParts, FirstOf, LastOf, TypeOK
<1>5. ASSUME NEW u \in Threads PROVE MidCall(u)' /\ Open(u)'
  <2>1. MidCall(u) /\ Open(u) /\ deque[u] \in Deques
    BY <1>0, Parts DEF AllParts, TypeOK
  <2>2. CASE pc[u] = "out"
    BY <1>a, <2>1, <2>2 DEF MidCall, Open
  <2>3. CASE pc[u] # "out"
    <3>1. deque[u] # d
      BY <1>a, <2>3
    <3> QED BY <1>0, <1>a, <2>1, <3>1 DEF MidCall, Open, FirstOf, LastOf, TypeOK
  <2> QED BY <2>2, <2>3
<1>6. ASSUME NEW m \in Nodes PROVE Unlinked(m)'
  <2>1. Unlinked(m) /\ (InDeque(m) => InDeque(m)')
    BY <1>a, Parts DEF AllParts, InDeque
  <2> QED BY <1>a, <2>1 DEF Unlinked
<1>7. FiniFreesDummy'
  BY <1>0, <1>a, <1>b, Parts DEF AllParts, FiniFreesDummy, LastOf, TypeOK
<1> QED BY <1>1, <1>2, <1>3, <1>4, <1>5, <1>6, <1>7, Parts DEF AllParts

LEMMA PushTailStep ==
  ASSUME Inductive, NEW t \in Threads, PushTail(t)
  PROVE  Inductive'
<1> DEFINE d == deque[t]
<1>0. TypeOK /\ Exclusion /\ SinglePlace /\ Open(t) /\ MidCall(t) /\ d \in Deques
  BY Parts DEF AllParts, TypeOK
<1>a. /\ pc[t] = "push_tail" /\ pc' = [pc EXCEPT ![t] = "push_unlock"]
      /\ tail' = [tail EXCEPT ![d] = node[t]]
      /\ count' = [count EXCEPT ![d] = @ + 1]
      /\ UNCHANGED <<next, locker, freed, deque, node, first, content>>
  BY DEF PushTail, Goto, CountAfterPush
<1>b. \A u \in Threads : u # t /\ deque[u] = d => ~ Critical(u)
  BY <1>0, <1>a DEF Critical, Exclusion
<1>c. /\ content[d] # <<>> /\ node[t] = LastOf(d) /\ next[d] = FirstOf(d)
      /\ count[d] = Len(content[d]) - 1 /\ Len(content[d]) \in Nat
  BY <1>0, <1>a DEF MidCall, TypeOK
<1>1. TypeOK'
  BY <1>0, <1>a DEF TypeOK, PushLabels
<1>2. Exclusion'
  BY <1>0, <1>a DEF TypeOK, Exclusion, Critical
<1>3. SinglePlace'
  BY <1>0, <1>a DEF TypeOK, SinglePlace, Carried, InDeque
<1>4. ASSUME NEW e \in Deques PROVE Linked(e)' /\ AtRestParts(e)'
  <2>1. Linked(e) /\ AtRestParts(e)
    BY Parts DEF AllParts
  <2>2. Linked(e)'
    BY <1>a, <2>1 DEF Linked
  <2>3. CASE e # d
    <3>1. AtRest(e)' => AtRest(e)
      BY <1>0, <1>a, <2>3 DEF AtRest, TypeOK
    <3> QED BY <1>0, <1>a, <2>1, <2>2, <2>3, <3>1 DEF AtRestParts, FirstOf, LastOf, TypeOK
  <2>4. CASE e = d
    BY <1>0, <1>a, <1>c, <2>2, <2>4 DEF AtRestParts, FirstOf, LastOf, TypeOK
  <2> QED BY <2>3, <2>4
<1>5. ASSUME NEW u \in Threads PROVE MidCall(u)' /\ Open(u)'
  <2>1. MidCall(u) /\ Open(u) /\ deque[u] \in Deques
    BY <1>0, Parts DEF AllParts, TypeOK
  <2>2. CASE u = t
    BY <1>0, <1>a, <2>1, <2>2 DEF MidCall, Open, TypeOK
  <2>3. CASE u # t /\ deque[u] = d
    BY <1>0, <1>a, <1>b, <2>1, <2>3 DEF MidCall, Open, TypeOK, Critical
  <2>4. CASE u # t /\ deque[u] # d
    BY <1>0, <1>a, <2>1, <2>4 DEF MidCall, Open, FirstOf, LastOf, TypeOK
  <2> QED BY <2>2, <2>3, <2>4
<1>6. ASSUME NEW m \in Nodes PROVE Unlinked(m)'
  <2>1. Unlinked(m) /\ (InDeque(m) => InDeque(m)')
    BY <1>a, Parts DEF AllParts, InDeque
  <2> QED BY <1>0, <1>a, <2>1 DEF Unlinked, TypeOK
<1>7. FiniFreesDummy'
  BY <1>a, Parts DEF AllParts, FiniFreesDummy
<1> QED BY <1>1, <1>2, <1>3, <1>4, <1>5, <1>6, <1>7, Parts DEF AllParts

LEMMA PopUnlinkStep ==
  ASSUME Inductive, NEW t \in Threads, PopUnlink(t)
  PROVE  Inductive'
<1> DEFINE d == deque[t]
<1>0. TypeOK /\ Exclusion /\ SinglePlace /\ Open(t) /\ MidCall(t) /\ d \in Deques
  BY Parts DEF AllParts, TypeOK
<1>a. /\ pc[t] = "pop_unlink" /\ pc' = [pc EXCEPT ![t] = "pop_tail"]
      /\ next' = [next EXCEPT ![d] = next[first[t]], ![first[t]] = Null]
      /\ count' = [count EXCEPT ![d] = @ - 1]
      /\ UNCHANGED <<tail, locker, freed, deque, node, first, content>>
  BY DEF PopUnlink, Goto, Unlink
<1>b. \A u \in Threads : u # t /\ deque[u] = d => ~ Critical(u)
  BY <1>0, <1>a DEF Critical, Exclusion
<1>c. /\ first[t] \in Nodes /\ next[d] = first[t] /\ next[first[t]] = FirstOf(d)
      /\ count[d] = Len(content[d]) + 1 /\ Len(content[d]) \in Nat
      /\ tail[d] = IF content[d] = <<>> THEN first[t] ELSE LastOf(d)
  BY <1>0, <1>a DEF MidCall, TypeOK
<1>d. ~ InDeque(first[t]) /\ first[t] \notin Deques
  BY <1>0, <1>a, <1>c, DequeAssumption DEF SinglePlace, Carried
<1>e. /\ next'[d] = FirstOf(d)
      /\ next'[first[t]] = Null
      /\ \A n \in Nodes \cup Deques : n # d /\ n # first[t] => next'[n] = next[n]
  BY <1>0, <1>a, <1>c, <1>d, DequeAssumption DEF TypeOK
<1>1. TypeOK'
  <2>1. next' \in [Nodes \cup Deques -> Nodes \cup {Null}]
    BY <1>0, <1>a, <1>c DEF TypeOK
  <2>2. count' \in [Deques -> Int] /\ pc' \in [Threads -> {"out"} \cup PopLabels \cup PushLabels]
    BY <1>0, <1>a DEF TypeOK, PopLabels
  <2> QED BY <1>0, <1>a, <2>1, <2>2 DEF TypeOK
<1>2. Exclusion'
  BY <1>0, <1>a DEF TypeOK, Exclusion, Critical
<1>3. SinglePlace'
  BY <1>0, <1>a DEF TypeOK, SinglePlace, Carried, InDeque
<1>4. ASSUME NEW e \in Deques PROVE Linked(e)' /\ AtRestParts(e)'
  <2>1. Linked(e) /\ AtRestParts(e)
    BY Parts DEF AllParts
  <2>2. Linked(e)'
    <3> SUFFICES ASSUME NEW i \in 1 .. Len(content[e])
                 PROVE next'[content[e][i]] = IF i = Len(content[e]) THEN Null ELSE content[e][i + 1]
      BY <1>a DEF Linked
    <3>1. content[e][i] \in Nodes /\ content[e][i] # d /\ content[e][i] # first[t]
      BY <1>0, <1>d, DequeAssumption DEF InDeque, TypeOK
    <3> QED BY <1>e, <2>1, <3>1 DEF Linked
  <2>3. CASE e # d
    <3>1. AtRest(e)' => AtRest(e)
      BY <1>0, <1>a, <2>3 DEF AtRest, TypeOK
    <3>2. next'[e] = next[e]
      BY <1>d, <1>e, <2>3
    <3> QED BY <1>0, <1>a, <2>1, <2>2, <2>3, <3>1, <3>2 DEF AtRestParts, FirstOf, LastOf, TypeOK
  <2>4. CASE e = d
    <3>1. ~ AtRest(e)'
      BY <1>0, <1>a, <2>4 DEF AtRest, TypeOK
    <3> QED BY <2>2, <3>1 DEF AtRestParts
  <2> QED BY <2>3, <2>4
<1>5. ASSUME NEW u \in Threads PROVE MidCall(u)' /\ Open(u)'
  <2>1. MidCall(u) /\ Open(u) /\ deque[u] \in Deques
    BY <1>0, Parts DEF AllParts, TypeOK
  <2>2. CASE u = t
    BY <1>0, <1>a, <1>c, <1>e, <2>1, <2>2, DequeAssumption DEF MidCall, Open, TypeOK, FirstOf, LastOf
  <2>3. CASE u # t /\ deque[u] = d
    BY <1>0, <1>a, <1>b, <2>1, <2>3 DEF MidCall, Open, TypeOK, Critical
  <2>4. CASE u # t /\ deque[u] # d
    <3>1. next'[deque[u]] = next[deque[u]] /\ count'[deque[u]] = count[deque[u]]
      BY <1>0, <1>a, <1>d, <1>e, <2>1, <2>4 DEF TypeOK
    <3>2. pc[u] = "pop_unlink" => first[u] \in Nodes /\ first[u] # first[t] /\ first[u] # d
      BY <1>0, <1>a, <1>c, <2>1, <2>4, DequeAssumption DEF MidCall, SinglePlace, Carried, TypeOK
    <3>3. pc[u] = "pop_unlink" => next'[first[u]] = next[first[u]]
      BY <1>e, <3>2
    <3> QED BY <1>0, <1>a, <2>1, <2>4, <3>1, <3>3 DEF MidCall, Open, FirstOf, LastOf, TypeOK
  <2> QED BY <2>2, <2>3, <2>4
<1>6. ASSUME NEW m \in Nodes PROVE Unlinked(m)'
  <2>1. Unlinked(m) /\ (InDeque(m) => InDeque(m)') /\ m # d
    BY <1>0, <1>a, Parts, DequeAssumption DEF AllParts, InDeque
  <2>2. CASE m = first[t]
    BY <1>e, <2>2 DEF Unlinked
  <2>3. CASE m # first[t]
    BY <1>0, <1>a, <1>e, <2>1, <2>3 DEF Unlinked, TypeOK
  <2> QED BY <2>2, <2>3
<1>7. FiniFreesDummy'
  BY <1>a, Parts DEF AllParts, FiniFreesDummy
<1> QED BY <1>1, <1>2, <1>3, <1>4, <1>5, <1>6, <1>7, Parts DEF AllParts

LEMMA PopReadStep ==
  ASSUME Inductive, NEW t \in Threads, PopRead(t)
  PROVE  Inductive'
<1> DEFINE d == deque[t]
<1>0. TypeOK /\ Exclusion /\ SinglePlace /\ Open(t) /\ AtRestParts(d) /\ d \in Deques
  BY Parts DEF AllParts, TypeOK
<1>a. /\ pc[t] = "pop_read"
      /\ first' = [first EXCEPT ![t] = next[d]]
      /\ pc' = [pc EXCEPT ![t] = IF next[d] = Null THEN "pop_unlock" ELSE "pop_unlink"]
      /\ content' = IF next[d] = Null THEN content ELSE [content EXCEPT ![d] = Rest(@)]
      /\ UNCHANGED <<next, tail, count, locker, freed, deque, node>>
  BY DEF PopRead, Goto, HeadNode, AfterRead
<1>b. \A u \in Threads : u # t /\ deque[u] = d => ~ Critical(u)
  BY <1>0, <1>a DEF Critical, Exclusion
<1>c. /\ next[d] = FirstOf(d) /\ count[d] = Len(content[d]) /\ tail[d] = LastOf(d)
      /\ freed[d] = Null
  <2>1. AtRest(d)
    BY <1>a, <1>b DEF AtRest, Critical
  <2> QED BY <1>0, <1>a, <2>1 DEF AtRestParts, Open
<1>d. next[d] = Null <=> content[d] = <<>>
  BY <1>0, <1>c, TailIndex, DequeAssumption DEF FirstOf, TypeOK
<1>e. ASSUME next[d] # Null
      PROVE  /\ content' = [content EXCEPT ![d] = Tail(@)]
             /\ content[d] \in Seq(Nodes) /\ content[d] # <<>>
             /\ content'[d] = Tail(content[d])
             /\ Tail(content[d]) \in Seq(Nodes)
             /\ Len(content[d]) \in Nat \ {0}
             /\ Len(content'[d]) = Len(content[d]) - 1 /\ Len(content'[d]) \in Nat
             /\ next[d] = content[d][1] /\ next[d] \in Nodes
             /\ \A i \in 1 .. Len(content'[d]) : content'[d][i] = content[d][i + 1]
  <2>1. content[d] \in Seq(Nodes) /\ content[d] # <<>>
    BY <1>0, <1>d, <1>e DEF TypeOK
  <2>2. content' = [content EXCEPT ![d] = Tail(@)] /\ content'[d] = Tail(content[d])
    BY <1>0, <1>a, <1>e, <2>1 DEF Rest, TypeOK
  <2>3. next[d] = content[d][1]
    BY <1>c, <2>1 DEF FirstOf
  <2>4. /\ Tail(content[d]) \in Seq(Nodes)
        /\ Len(content[d]) \in Nat \ {0}
        /\ Len(Tail(content[d])) = Len(content[d]) - 1
        /\ content[d][1] \in Nodes
        /\ \A i \in 1 .. Len(content[d]) - 1 : Tail(content[d])[i] = content[d][i + 1]
    BY <2>1, TailIndex
  <2>5. Len(content[d]) - 1 \in Nat
    BY <2>4
  <2> QED BY <2>1, <2>2, <2>3, <2>4, <2>5
<1>f. \A e \in Deques : e # d => content'[e] = content[e]
  BY <1>0, <1>a DEF TypeOK
<1>g. \A n : InDeque(n)' => InDeque(n)
  <2>1. CASE next[d] = Null
    BY <1>a, <2>1 DEF InDeque
  <2>2. CASE next[d] # Null
    <3> SUFFICES ASSUME NEW n, NEW e \in Deques, NEW i \in 1 .. Len(content'[e]), content'[e][i] = n
                 PROVE  InDeque(n)
      BY DEF InDeque
    <3>1. CASE e = d
      <4>1. i + 1 \in 1 .. Len(content[d]) /\ content[d][i + 1] = n
        BY <1>e, <2>2, <3>1
      <4> QED BY <1>0, <4>1 DEF InDeque
    <3>2. CASE e # d
      BY <1>f, <3>2 DEF InDeque
    <3> QED BY <3>1, <3>2
  <2> QED BY <2>1, <2>2
<1>1. TypeOK'
  <2>1. content' \in [Deques -> Seq(Nodes)]
    BY <1>0, <1>a, <1>e DEF TypeOK
  <2>2. first' \in [Threads -> Nodes \cup {Null}]
    BY <1>0, <1>a DEF TypeOK
  <2> QED BY <1>0, <1>a, <2>1, <2>2 DEF TypeOK, PopLabels
<1>2. Exclusion'
  BY <1>0, <1>a DEF TypeOK, Exclusion, Critical
<1>h. \A u \in Threads : u # t => Carried(u)' = Carried(u)
  BY <1>0, <1>a DEF Carried, TypeOK
<1>i. Carried(t)' = next[d] /\ Carried(t) = Null
  BY <1>0, <1>a DEF Carried, TypeOK
<1>3. SinglePlace'
  <2>1. CASE next[d] = Null
    BY <1>0, <1>a, <1>h, <1>i, <2>1 DEF SinglePlace, InDeque
  <2>2. CASE next[d] # Null
    <3>1. ASSUME NEW e \in Deques, NEW f \in Deques,
                 NEW i \in 1 .. Len(content'[e]), NEW j \in 1 .. Len(content'[f]),
                 content'[e][i] = content'[f][j]
          PROVE  e = f /\ i = j
      <4>1. CASE e = d /\ f = d
        <5>1. i + 1 \in 1 .. Len(content[d]) /\ j + 1 \in 1 .. Len(content[d])
              /\ content[d][i + 1] = content[d][j + 1]
          BY <1>e, <2>2, <3>1, <4>1
        <5>2. i + 1 = j + 1
          BY <1>0, <5>1 DEF SinglePlace
        <5> QED BY <4>1, <5>2
      <4>2. CASE e = d /\ f # d
        <5>1. i + 1 \in 1 .. Len(content[d]) /\ content[d][i + 1] = content[f][j]
              /\ j \in 1 .. Len(content[f])
          BY <1>e, <1>f, <2>2, <3>1, <4>2
        <5> QED BY <1>0, <4>2, <5>1 DEF SinglePlace
      <4>3. CASE e # d /\ f = d
        <5>1. j + 1 \in 1 .. Len(content[d]) /\ content[d][j + 1] = content[e][i]
              /\ i \in 1 .. Len(content[e])
          BY <1>e, <1>f, <2>2, <3>1, <4>3
        <5> QED BY <1>0, <4>3, <5>1 DEF SinglePlace
      <4>4. CASE e # d /\ f # d
        BY <1>0, <1>f, <3>1, <4>4 DEF SinglePlace
      <4> QED BY <4>1, <4>2, <4>3, <4>4
    <3>2. 1 \in 1 .. Len(content[d]) /\ InDeque(next[d])
      BY <1>0, <1>e, <2>2 DEF InDeque
    <3>3. ~ InDeque(next[d])'
      <4> SUFFICES ASSUME NEW e \in Deques, NEW i \in 1 .. Len(content'[e]), content'[e][i] = next[d]
                   PROVE  FALSE
        BY <1>a DEF InDeque
      <4>1. CASE e = d
        <5>1. i + 1 \in 1 .. Len(content[d]) /\ content[d][i + 1] = content[d][1]
          BY <1>e, <2>2, <4>1
        <5>2. i + 1 = 1
          BY <1>0, <3>2, <5>1 DEF SinglePlace
        <5> QED BY <5>2
      <4>2. CASE e # d
        <5>1. i \in 1 .. Len(content[e]) /\ content[e][i] = content[d][1]
          BY <1>e, <1>f, <2>2, <4>2
        <5> QED BY <1>0, <3>2, <4>2, <5>1 DEF SinglePlace
      <4> QED BY <4>1, <4>2
    <3>4. \A u \in Threads : u # t => Carried(u) # next[d] /\ ~ InDeque(Carried(u))'
      <4> SUFFICES ASSUME NEW u \in Threads, u # t
                   PROVE  Carried(u) # next[d] /\ ~ InDeque(Carried(u))'
        OBVIOUS
      <4>1. ~ InDeque(Carried(u))
        BY <1>0 DEF SinglePlace
      <4>2. ~ InDeque(Carried(u))'
        BY <1>0, <1>g, <1>h, <4>1
      <4>3. Carried(u) # next[d]
        BY <3>2, <4>1
      <4> QED BY <4>2, <4>3
    <3> QED BY <1>0, <1>a, <1>h, <1>i, <3>1, <3>3, <3>4 DEF SinglePlace
  <2> QED BY <2>1, <2>2
<1>4. ASSUME NEW e \in Deques PROVE Linked(e)' /\ AtRestParts(e)'
  <2>1. Linked(e) /\ AtRestParts(e)
    BY Parts DEF AllParts
  <2>2. CASE e # d
    <3>1. AtRest(e)' => AtRest(e)
      BY <1>0, <1>a, <2>2 DEF AtRest, TypeOK
    <3> QED BY <1>0, <1>a, <1>f, <2>1, <2>2, <3>1 DEF AtRestParts, Linked, FirstOf, LastOf, TypeOK
  <2>3. CASE e = d /\ next[d] = Null
    BY <1>0, <1>a, <1>c, <2>1, <2>3 DEF AtRestParts, Linked, FirstOf, LastOf
  <2>4. CASE e = d /\ next[d] # Null
    <3>1. ~ AtRest(e)'
      BY <1>0, <1>a, <2>4 DEF AtRest, TypeOK
    <3>2. ASSUME NEW i \in 1 .. Len(content'[d])
          PROVE next[content'[d][i]] = IF i = Len(content'[d]) THEN Null ELSE content'[d][i + 1]
      <4>1. i + 1 \in 1 .. Len(content[d]) /\ content'[d][i] = content[d][i + 1]
        BY <1>e, <2>4
      <4>2. next[content[d][i + 1]] = IF i + 1 = Len(content[d]) THEN Null ELSE content[d][i + 2]
        BY <2>1, <2>4, <4>1 DEF Linked
      <4>3. i # Len(content'[d]) => content'[d][i + 1] = content[d][i + 2]
        <5> SUFFICES ASSUME i # Len(content'[d]) PROVE content'[d][i + 1] = content[d][i + 2]
          OBVIOUS
        <5>1. i + 1 \in 1 .. Len(content'[d]) /\ (i + 1) + 1 = i + 2
          BY <1>e, <2>4
        <5> QED BY <1>e, <2>4, <5>1
      <4> QED BY <1>e, <2>4, <4>1, <4>2, <4>3
    <3> QED BY <1>a, <2>4, <3>1, <3>2 DEF AtRestParts, Linked
  <2> QED BY <2>2, <2>3, <2>4
<1>5. ASSUME NEW u \in Threads PROVE MidCall(u)' /\ Open(u)'
  <2>1. MidCall(u) /\ Open(u) /\ deque[u] \in Deques
    BY <1>0, Parts DEF AllParts, TypeOK
  <2>2. CASE u = t /\ next[d] = Null
    BY <1>0, <1>a, <1>c, <2>2 DEF MidCall, Open, TypeOK
  <2>3. CASE u = t /\ next[d] # Null
    <3>1. pc'[t] = "pop_unlink" /\ first'[t] = next[d] /\ deque'[t] = d
      BY <1>0, <1>a, <2>3 DEF TypeOK
    <3>2. next[content[d][1]] = IF Len(content[d]) = 1 THEN Null ELSE content[d][2]
      <4>1. Linked(d) /\ 1 \in 1 .. Len(content[d])
        BY <1>0, <1>e, <2>3, Parts DEF AllParts
      <4>2. 1 + 1 = 2 /\ (1 = Len(content[d]) <=> Len(content[d]) = 1)
        OBVIOUS
      <4>3. next[content[d][1]] = IF 1 = Len(content[d]) THEN Null ELSE content[d][1 + 1]
        BY <4>1 DEF Linked
      <4> QED BY <4>2, <4>3
    <3>3. content'[d] = <<>> <=> Len(content[d]) = 1
      <4>1. content'[d] \in Seq(Nodes) /\ Len(content'[d]) = Len(content[d]) - 1
            /\ Len(content[d]) \in Nat
        BY <1>e, <2>3
      <4>2. content'[d] = <<>> <=> Len(content'[d]) = 0
        BY <4>1, EmptyLen
      <4> QED BY <4>1, <4>2
    <3>4. next[next[d]] = FirstOf(d)'
      <4>1. Len(content[d]) # 1 => content'[d][1] = content[d][2]
        BY <1>e, <2>3, TailEnds
      <4>2. FirstOf(d)' = IF content'[d] = <<>> THEN Null ELSE content'[d][1]
        BY <1>a DEF FirstOf
      <4>3. next[d] = content[d][1]
        BY <1>e, <2>3
      <4> QED BY <3>2, <3>3, <4>1, <4>2, <4>3
    <3>5. tail[d] = (IF content[d] = <<>> THEN first[t] ELSE LastOf(d))'
      <4>1. CASE Len(content[d]) = 1
        BY <1>a, <1>c, <1>e, <2>3, <3>1, <3>3, <4>1 DEF LastOf
      <4>2. CASE Len(content[d]) # 1
        <5>2. content'[d][Len(content'[d])] = content[d][Len(content[d])]
          BY <1>e, <2>3, <4>2, TailEnds
        <5> QED BY <1>a, <1>c, <1>e, <2>3, <3>3, <4>2, <5>2 DEF LastOf
      <4> QED BY <4>1, <4>2
    <3>6. MidCall(t)'
      <4>1. count'[d] = Len(content'[d]) + 1
        BY <1>a, <1>c, <1>e, <2>3
      <4>2. next'[d] = first'[t] /\ first'[t] # Null /\ tail' = tail /\ next' = next
        BY <1>a, <2>3, <3>1
      <4> QED BY <3>1, <3>4, <3>5, <4>1, <4>2 DEF MidCall
    <3> QED BY <1>a, <1>c, <2>3, <3>1, <3>6 DEF Open
  <2>4. CASE u # t /\ deque[u] = d
    BY <1>0, <1>a, <1>b, <2>1, <2>4 DEF MidCall, Open, TypeOK, Critical
  <2>5. CASE u # t /\ deque[u] # d
    BY <1>0, <1>a, <1>f, <2>1, <2>5 DEF MidCall, Open, FirstOf, LastOf, TypeOK
  <2> QED BY <2>2, <2>3, <2>4, <2>5
<1>6. ASSUME NEW m \in Nodes PROVE Unlinked(m)'
  <2>1. Unlinked(m)
    BY Parts DEF AllParts
  <2>2. CASE next[d] # Null /\ m = next[d]
    BY <1>0, <1>a, <2>2 DEF Unlinked, TypeOK
  <2>3. InDeque(m) /\ ~ (next[d] # Null /\ m = next[d]) => InDeque(m)'
    <3> SUFFICES ASSUME ~ (next[d] # Null /\ m = next[d]), NEW e \in Deques,
                        NEW i \in 1 .. Len(content[e]), content[e][i] = m
                 PROVE  InDeque(m)'
      BY DEF InDeque
    <3>1. CASE next[d] = Null
      BY <1>a, <3>1 DEF InDeque
    <3>2. CASE next[d] # Null /\ e = d
      <4>1. i # 1
        BY <1>e, <3>2
      <4>2. i - 1 \in 1 .. Len(content'[d]) /\ content'[d][i - 1] = m
        BY <1>e, <3>2, <4>1, TailEnds
      <4> QED BY <1>0, <1>a, <4>2 DEF InDeque
    <3>3. CASE next[d] # Null /\ e # d
      BY <1>f, <3>3 DEF InDeque
    <3> QED BY <3>1, <3>2, <3>3
  <2>4. ASSUME NEW u \in Threads, pc[u] = "pop_unlink"
        PROVE  pc'[u] = "pop_unlink" /\ first'[u] = first[u]
    BY <1>0, <1>a, <2>4 DEF TypeOK
  <2> QED BY <1>a, <2>1, <2>2, <2>3, <2>4 DEF Unlinked
<1>7. FiniFreesDummy'
  BY <1>0, <1>a, <1>c, <1>f, Parts DEF AllParts, FiniFreesDummy
<1> QED BY <1>1, <1>2, <1>3, <1>4, <1>5, <1>6, <1>7, Parts DEF AllParts

LEMMA PushLinkStep ==
  ASSUME Inductive, NEW t \in Threads, PushLink(t)
  PROVE  Inductive'
<1> DEFINE d == deque[t]
           n == node[t]
           k == Len(content[d])
<1>0. TypeOK /\ Exclusion /\ SinglePlace /\ Open(t) /\ AtRestParts(d) /\ MidCall(t) /\ d \in Deques
  BY Parts DEF AllParts, TypeOK
<1>a. /\ pc[t] = "push_link" /\ pc' = [pc EXCEPT ![t] = "push_tail"]
      /\ next' = [next EXCEPT ![tail[d]] = n]
      /\ content' = [content EXCEPT ![d] = Append(@, n)]
      /\ UNCHANGED <<tail, count, locker, freed, deque, node, first>>
  BY DEF PushLink, Goto
<1>b. \A u \in Threads : u # t /\ deque[u] = d => ~ Critical(u)
  BY <1>0, <1>a DEF Critical, Exclusion
<1>c. /\ next[d] = FirstOf(d) /\ count[d] = k /\ tail[d] = LastOf(d) /\ freed[d] = Null
  <2>1. AtRest(d)
    BY <1>a, <1>b DEF AtRest, Critical
  <2> QED BY <1>0, <1>a, <2>1 DEF AtRestParts, Open
<1>d. n \in Nodes /\ ~ InDeque(n) /\ Carried(t) = n
  <2>1. n \in Nodes /\ Carried(t) = n
    BY <1>0, <1>a DEF MidCall, TypeOK, Carried
  <2> QED BY <1>0, <2>1 DEF SinglePlace
<1>e. next[n] = Null
  <2>1. ASSUME NEW u \in Threads, pc[u] = "pop_unlink", first[u] = n PROVE FALSE
    <3>1. Carried(u) = n /\ u # t
      BY <1>a, <2>1 DEF Carried
    <3> QED BY <1>0, <1>d, <3>1, DequeAssumption DEF SinglePlace
  <2> QED BY <1>d, <2>1, Parts DEF AllParts, Unlinked
<1>f. /\ content[d] \in Seq(Nodes) /\ k \in Nat
      /\ content'[d] = Append(content[d], n) /\ content'[d] \in Seq(Nodes)
      /\ content'[d] # <<>> /\ Len(content'[d]) = k + 1 /\ content'[d][k + 1] = n
      /\ \A i \in 1 .. k : content'[d][i] = content[d][i]
      /\ \A e \in Deques : e # d => content'[e] = content[e]
  <2>1. content[d] \in Seq(Nodes) /\ content'[d] = Append(content[d], n)
        /\ \A e \in Deques : e # d => content'[e] = content[e]
    BY <1>0, <1>a DEF TypeOK
  <2> QED BY <1>d, <2>1, AppendIndex
<1>g. /\ content[d] = <<>> => tail[d] = d /\ k = 0
      /\ content[d] # <<>> => tail[d] = content[d][k] /\ k \in 1 .. k /\ tail[d] \in Nodes
  BY <1>0, <1>c, <1>f, EmptyLen DEF LastOf, TypeOK
<1>h. tail[d] \in Nodes \cup Deques /\ tail[d] # n /\ (tail[d] \in Deques => tail[d] = d)
  BY <1>0, <1>d, <1>g, DequeAssumption DEF InDeque
<1>i. /\ next'[tail[d]] = n
      /\ \A m \in Nodes \cup Deques : m # tail[d] => next'[m] = next[m]
  BY <1>0, <1>a, <1>h DEF TypeOK
<1>j. \A m : InDeque(m)' <=> InDeque(m) \/ m = n
  <2>1. ASSUME NEW m, NEW e \in Deques, NEW i \in 1 .. Len(content'[e]), content'[e][i] = m
        PROVE  InDeque(m) \/ m = n
    <3>1. CASE e = d /\ i = k + 1
      BY <1>f, <2>1, <3>1
    <3>2. CASE e = d /\ i # k + 1
      <4>1. i \in 1 .. k
        BY <1>f, <2>1, <3>2
      <4> QED BY <1>0, <1>f, <2>1, <3>2, <4>1 DEF InDeque
    <3>3. CASE e # d
      BY <1>f, <2>1, <3>3 DEF InDeque
    <3> QED BY <3>1, <3>2, <3>3
  <2>2. ASSUME NEW m, NEW e \in Deques, NEW i \in 1 .. Len(content[e]), content[e][i] = m
        PROVE  InDeque(m)'
    <3>1. i \in 1 .. Len(content'[e]) /\ content'[e][i] = m
      BY <1>f, <2>2, SMTT(30)
    <3> QED BY <3>1 DEF InDeque
  <2>3. InDeque(n)'
    <3>1. k + 1 \in 1 .. Len(content'[d])
      BY <1>f
    <3> QED BY <1>0, <1>a, <1>f, <3>1 DEF InDeque
  <2>4. \A m : InDeque(m)' => InDeque(m) \/ m = n
    BY <2>1 DEF InDeque
  <2>5. \A m : InDeque(m) => InDeque(m)'
    BY <2>2 DEF InDeque
  <2>6. ASSUME NEW m, m = n PROVE InDeque(m)'
    BY <1>a, <2>3, <2>6 DEF InDeque
  <2> QED BY <2>4, <2>5, <2>6
<1>k. /\ Carried(t)' = Null
      /\ \A u \in Threads : u # t => Carried(u)' = Carried(u)
  BY <1>0, <1>a DEF Carried, TypeOK
<1>1. TypeOK'
  <2>1. next' \in [Nodes \cup Deques -> Nodes \cup {Null}]
    BY <1>0, <1>a, <1>d DEF TypeOK
  <2>2. content' \in [Deques -> Seq(Nodes)]
    BY <1>0, <1>a, <1>f DEF TypeOK
  <2> QED BY <1>0, <1>a, <2>1, <2>2 DEF TypeOK, PushLabels
<1>2. Exclusion'
  BY <1>0, <1>a DEF TypeOK, Exclusion, Critical
<1>3. SinglePlace'
  <2>1. ASSUME NEW e \in Deques, NEW f \in Deques,
               NEW i \in 1 .. Len(content'[e]), NEW j \in 1 .. Len(content'[f]),
               content'[e][i] = content'[f][j]
        PROVE  e = f /\ i = j
    <3>1. ASSUME NEW g \in Deques, NEW l \in 1 .. Len(content'[g]), content'[g][l] = n
          PROVE  g = d /\ l = k + 1
      <4>1. CASE g # d
        BY <1>d, <1>f, <3>1, <4>1 DEF InDeque
      <4>2. CASE g = d /\ l # k + 1
        <5>1. l \in 1 .. k
          BY <1>f, <3>1, <4>2
        <5> QED BY <1>0, <1>d, <1>f, <3>1, <4>2, <5>1, SMTT(30) DEF InDeque
      <4> QED BY <4>1, <4>2
    <3>2. ASSUME NEW g \in Deques, NEW l \in 1 .. Len(content'[g]), content'[g][l] # n
          PROVE  l \in 1 .. Len(content[g]) /\ content'[g][l] = content[g][l]
      <4>1. CASE g # d
        BY <1>f, <3>2, <4>1
      <4>2. CASE g = d
        <5>1. l # k + 1
          BY <1>f, <3>2, <4>2
        <5> QED BY <1>f, <4>2, <5>1
      <4> QED BY <4>1, <4>2
    <3>3. CASE content'[e][i] = n
      BY <2>1, <3>1, <3>3
    <3>4. CASE content'[e][i] # n
      <4>1. /\ i \in 1 .. Len(content[e]) /\ j \in 1 .. Len(content[f])
            /\ content[e][i] = content[f][j]
        BY <2>1, <3>2, <3>4
      <4> QED BY <1>0, <4>1 DEF SinglePlace
    <3> QED BY <3>3, <3>4
  <2>2. ~ InDeque(Null)'
    BY <1>d, <1>f, <1>1, DequeAssumption DEF InDeque, TypeOK
  <2>3. ASSUME NEW u \in Threads PROVE ~ InDeque(Carried(u))'
    <3>1. CASE u = t
      BY <1>k, <2>2, <3>1 DEF InDeque
    <3>2. CASE u # t
      <4>1. ~ InDeque(Carried(u)) /\ Carried(u) # n
        BY <1>0, <1>d, <3>2, DequeAssumption DEF SinglePlace
      <4>2. ~ InDeque(Carried(u)) /\ Carried(u)' = Carried(u)
        BY <1>k, <3>2, <4>1
      <4> QED BY <1>j, <4>1, <4>2 DEF InDeque
    <3> QED BY <3>1, <3>2
  <2>4. \A u, v \in Threads : u # v /\ Carried(u)' # Null => Carried(u)' # Carried(v)'
    BY <1>0, <1>k DEF SinglePlace
  <2> QED BY <2>1, <2>3, <2>4 DEF SinglePlace
<1>4. ASSUME NEW e \in Deques PROVE Linked(e)' /\ AtRestParts(e)'
  <2>1. Linked(e) /\ AtRestParts(e)
    BY Parts DEF AllParts
  <2>2. ASSUME NEW i \in 1 .. Len(content[e]), e = d => i # k
        PROVE  /\ content[e][i] \in Nodes
               /\ next'[content[e][i]] = next[content[e][i]]
    <3>1. content[e][i] \in Nodes
      BY <1>0 DEF TypeOK
    <3>2. content[e][i] # tail[d]
      <4>1. CASE content[d] = <<>>
        BY <1>0, <1>g, <3>1, <4>1, DequeAssumption
      <4>2. CASE content[d] # <<>>
        BY <1>0, <1>g, <2>2, <4>2 DEF SinglePlace
      <4> QED BY <4>1, <4>2
    <3> QED BY <1>i, <3>1, <3>2
  <2>3. CASE e # d
    <3>1. AtRest(e)' => AtRest(e)
      BY <1>0, <1>a, <2>3 DEF AtRest, TypeOK
    <3>2. Linked(e)'
      BY <1>f, <2>1, <2>2, <2>3 DEF Linked
    <3>3. next'[e] = next[e]
      BY <1>h, <1>i, <2>3
    <3> QED BY <1>0, <1>a, <1>f, <2>1, <2>3, <3>1, <3>2, <3>3 DEF AtRestParts, FirstOf, LastOf, TypeOK
  <2>4. CASE e = d
    <3>1. ~ AtRest(e)'
      BY <1>0, <1>a, <2>4 DEF AtRest, TypeOK
    <3>2. ASSUME NEW i \in 1 .. Len(content'[d])
          PROVE  next'[content'[d][i]] = IF i = Len(content'[d]) THEN Null ELSE content'[d][i + 1]
      <4>1. CASE i = k + 1
        BY <1>d, <1>e, <1>f, <1>h, <1>i, <4>1
      <4>2. CASE i # k + 1 /\ i = k
        BY <1>f, <1>g, <1>i, <3>2, <4>2
      <4>3. CASE i # k + 1 /\ i # k
        <5>1. i \in 1 .. k /\ i + 1 \in 1 .. k
          BY <1>f, <3>2, <4>3
        <5> QED BY <1>f, <2>1, <2>2, <2>4, <4>3, <5>1 DEF Linked
      <4> QED BY <4>1, <4>2, <4>3
    <3> QED BY <1>a, <2>4, <3>1, <3>2 DEF Linked, AtRestParts
  <2> QED BY <2>3, <2>4
<1>5. ASSUME NEW u \in Threads PROVE MidCall(u)' /\ Open(u)'
  <2>1. MidCall(u) /\ Open(u) /\ deque[u] \in Deques
    BY <1>0, Parts DEF AllParts, TypeOK
  <2>2. CASE u = t
    <3>1. pc'[t] = "push_tail" /\ deque'[t] = d /\ node'[t] = n
      BY <1>0, <1>a DEF TypeOK
    <3>2. n = LastOf(d)'
      BY <1>a, <1>f DEF LastOf
    <3>3. next'[d] = FirstOf(d)'
      <4>1. FirstOf(d)' = content'[d][1]
        BY <1>a, <1>f DEF FirstOf
      <4>2. CASE content[d] = <<>>
        BY <1>f, <1>g, <1>i, <4>1, <4>2
      <4>3. CASE content[d] # <<>>
        <5>1. d # tail[d] /\ 1 \in 1 .. k
          BY <1>0, <1>f, <1>g, <4>3, DequeAssumption
        <5> QED BY <1>0, <1>c, <1>f, <1>i, <4>1, <4>3, <5>1 DEF FirstOf
      <4> QED BY <4>2, <4>3
    <3>4. count'[d] = Len(content'[d]) - 1
      BY <1>a, <1>c, <1>f
    <3> QED BY <1>a, <1>c, <1>f, <2>2, <3>1, <3>2, <3>3, <3>4 DEF MidCall, Open
  <2>3. CASE u # t /\ deque[u] = d
    BY <1>0, <1>a, <1>b, <2>1, <2>3 DEF MidCall, Open, TypeOK, Critical
  <2>4. CASE u # t /\ deque[u] # d
    <3>1. next'[deque[u]] = next[deque[u]] /\ content'[deque[u]] = content[deque[u]]
      BY <1>f, <1>h, <1>i, <2>1, <2>4
    <3>2. pc[u] = "pop_unlink" => first[u] \in Nodes /\ next'[first[u]] = next[first[u]]
      <4> SUFFICES ASSUME pc[u] = "pop_unlink"
                   PROVE  first[u] \in Nodes /\ next'[first[u]] = next[first[u]]
        OBVIOUS
      <4>1. first[u] \in Nodes /\ ~ InDeque(first[u])
        BY <1>0, <2>1 DEF MidCall, TypeOK, SinglePlace, Carried
      <4>2. first[u] # tail[d]
        BY <1>0, <1>g, <4>1, DequeAssumption DEF InDeque
      <4> QED BY <1>i, <4>1, <4>2
    <3> QED BY <1>0, <1>a, <2>1, <2>4, <3>1, <3>2 DEF MidCall, Open, FirstOf, LastOf, TypeOK
  <2> QED BY <2>2, <2>3, <2>4
<1>6. ASSUME NEW m \in Nodes PROVE Unlinked(m)'
  <2>1. Unlinked(m) /\ (InDeque(m) => InDeque(m)')
    BY <1>j, Parts DEF AllParts
  <2>2. CASE m = tail[d]
    <3>1. InDeque(m)
      BY <1>0, <1>g, <2>2, DequeAssumption DEF InDeque
    <3> QED BY <2>1, <3>1 DEF Unlinked
  <2>3. CASE m # tail[d]
    BY <1>0, <1>a, <1>i, <2>1, <2>3 DEF Unlinked, TypeOK
  <2> QED BY <2>2, <2>3
<1>7. FiniFreesDummy'
  BY <1>0, <1>a, <1>c, <1>f, Parts DEF AllParts, FiniFreesDummy
<1> QED BY <1>1, <1>2, <1>3, <1>4, <1>5, <1>6, <1>7, Parts DEF AllParts

-----------------------------------------------------------------------------
(* The theorems *)

LEMMA InitInductive == Init => Inductive
<1> SUFFICES ASSUME Init PROVE Inductive
  OBVIOUS
<1>0. /\ \A d \in Deques : content[d] = <<>> /\ Len(content[d]) = 0
      /\ \A t \in Threads : pc[t] = "out" /\ Carried(t) = Null
      /\ \A m : ~ InDeque(m)
  BY DEF Init, Carried, InDeque
<1>1. TypeOK
  BY DEF Init, TypeOK
<1>2. Exclusion
  BY DequeAssumption DEF Init, Exclusion, Critical
<1>3. SinglePlace
  BY <1>0 DEF SinglePlace
<1>4. ASSUME NEW d \in Deques PROVE Linked(d) /\ AtRestParts(d)
  BY <1>0 DEF Init, Linked, AtRestParts, FirstOf, LastOf
<1>5. ASSUME NEW t \in Threads PROVE MidCall(t) /\ Open(t)
  BY <1>0 DEF MidCall, Open
<1>6. ASSUME NEW n \in Nodes PROVE Unlinked(n)
  BY DEF Init, Unlinked
<1>7. FiniFreesDummy
  BY DEF Init, FiniFreesDummy
<1> QED BY <1>1, <1>2, <1>3, <1>4, <1>5, <1>6, <1>7, Parts DEF AllParts

LEMMA StepInductive == Inductive /\ [Next]_vars => Inductive'
<1> SUFFICES ASSUME Inductive, [Next]_vars PROVE Inductive'
  OBVIOUS
<1>1. CASE UNCHANGED vars
  BY <1>1 DEF vars, Inductive, TypeOK, Exclusion, Critical, SinglePlace, InDeque, Carried,
              Pointers, Linked, AtRest, FirstOf, LastOf, MidCall, FiniFreesDummy, Open, Unlinked
<1>2. ASSUME NEW t \in Threads, Call(t) PROVE Inductive'
  BY <1>2, CallPopStep, CallPushStep DEF Call
<1>3. ASSUME NEW t \in Threads, PopStep(t) PROVE Inductive'
  BY <1>3, LockStep, PopReadStep, PopUnlinkStep, PopTailStep, UnlockStep DEF PopStep
<1>4. ASSUME NEW t \in Threads, PushStep(t) PROVE Inductive'
  BY <1>4, LockStep, PushLinkStep, PushTailStep, UnlockStep DEF PushStep
<1>5. ASSUME NEW d \in Deques, Fini(d) PROVE Inductive'
  BY <1>5, FiniStep
<1> QED BY <1>1, <1>2, <1>3, <1>4, <1>5 DEF Next

(* Every reachable state satisfies the inductive invariant.                *)
THEOREM Invariance == Spec => []Inductive
BY InitInductive, StepInductive, PTL DEF Spec

(* The variables of locked_linked_deque.c keep their types.                *)
THEOREM TypeCorrect == Spec => []TypeOK
<1>1. Inductive => TypeOK
  BY DEF Inductive
<1> QED BY <1>1, Invariance, PTL

(* deque->lock keeps the critical sections of one deque apart.             *)
THEOREM MutualExclusion == Spec => []Exclusion
<1>1. Inductive => Exclusion
  BY DEF Inductive
<1> QED BY <1>1, Invariance, PTL

(* A task's node is never in two deques, twice in one, or in a deque while *)
(* a caller of lldq_pop_head or lldq_push_tail still holds it.             *)
THEOREM NodesSinglePlace == Spec => []SinglePlace
<1>1. Inductive => SinglePlace
  BY DEF Inductive
<1> QED BY <1>1, Invariance, PTL

(* head, next, tail and count agree with the queue at every step.          *)
THEOREM PointersAgree == Spec => []Pointers
<1>1. Inductive => Pointers
  BY DEF Inductive
<1> QED BY <1>1, Invariance, PTL

(* lldq_fini of a drained deque frees its dummy node and no task's node.   *)
THEOREM FiniSafe == Spec => []FiniFreesDummy
<1>1. Inductive => FiniFreesDummy
  BY DEF Inductive
<1> QED BY <1>1, Invariance, PTL

(* lldq_pop_head leaves the nodes it returns with a NULL next pointer, as  *)
(* lldq_push_tail needs.                                                   *)
THEOREM CallersNodesUnlinked == Spec => []HeldNodeUnlinked
<1>1. Inductive => HeldNodeUnlinked
  <2> SUFFICES ASSUME Inductive, NEW n \in Nodes, Outside(n) PROVE next[n] = Null
    BY DEF HeldNodeUnlinked
  <2>1. Unlinked(n) /\ ~ InDeque(n)
    BY DEF Inductive, Outside
  <2>2. ASSUME NEW t \in Threads, pc[t] = "pop_unlink" PROVE first[t] # n
    <3>1. Carried(t) = first[t]
      BY <2>2 DEF Carried
    <3> QED BY <3>1 DEF Outside
  <2> QED BY <2>1, <2>2 DEF Unlinked
<1> QED BY <1>1, Invariance, PTL

(* The unlocked reads of deque->count by sched_load_balance are at most    *)
(* one off.                                                                *)
THEOREM CountIsNear == Spec => []CountNear
<1>1. Inductive => CountNear
  <2> SUFFICES ASSUME Inductive, NEW d \in Deques
               PROVE  count[d] >= 0 /\ count[d] - Len(content[d]) \in -1 .. 1
    BY DEF CountNear
  <2>0. TypeOK /\ AtRestParts(d) /\ Len(content[d]) \in Nat /\ \A t \in Threads : MidCall(t)
    BY Parts DEF AllParts, TypeOK
  <2>1. CASE AtRest(d)
    BY <2>0, <2>1 DEF AtRestParts
  <2>2. CASE ~ AtRest(d)
    <3> PICK t \in Threads : deque[t] = d /\ pc[t] \in {"pop_unlink", "pop_tail", "push_tail"}
      BY <2>2 DEF AtRest
    <3>1. CASE pc[t] = "push_tail"
      <4>1. content[d] # <<>> /\ count[d] = Len(content[d]) - 1
        BY <2>0, <3>1 DEF MidCall
      <4>2. Len(content[d]) # 0
        BY <2>0, <4>1, EmptyLen DEF TypeOK
      <4> QED BY <2>0, <4>1, <4>2
    <3>2. CASE pc[t] # "push_tail"
      BY <2>0, <3>2 DEF MidCall
    <3> QED BY <3>1, <3>2
  <2> QED BY <2>1, <2>2
<1> QED BY <1>1, Invariance, PTL

LEMMA ReadIsFifoPop ==
  ASSUME Inductive, NEW t \in Threads, PopRead(t)
  PROVE  Fifo!FifoPop(t, deque[t]) \/ Fifo!FifoPopEmpty(t, deque[t])
<1> DEFINE d == deque[t]
<1>0. TypeOK /\ Exclusion /\ AtRestParts(d) /\ d \in Deques
  BY Parts DEF AllParts, TypeOK
<1>1. next[d] = FirstOf(d)
  <2>1. AtRest(d)
    BY <1>0 DEF PopRead, Goto, AtRest, Exclusion, Critical
  <2> QED BY <1>0, <2>1 DEF AtRestParts
<1>2. CASE content[d] = <<>>
  BY <1>1, <1>2 DEF PopRead, Fifo!FifoPopEmpty, HeadNode, FirstOf
<1>3. CASE content[d] # <<>>
  <2>1. next[d] = Head(content[d]) /\ next[d] # Null
    BY <1>0, <1>1, <1>3, TailIndex, DequeAssumption DEF FirstOf, TypeOK
  <2> QED BY <1>3, <2>1 DEF PopRead, Fifo!FifoPop, HeadNode, Rest
<1> QED BY <1>2, <1>3

LEMMA LinkIsFifoPush ==
  ASSUME Inductive, NEW t \in Threads, PushLink(t)
  PROVE  node[t] \in Nodes /\ Fifo!FifoPush(deque[t], node[t])
<1>1. TypeOK /\ SinglePlace /\ MidCall(t)
  BY Parts DEF AllParts
<1>2. node[t] \in Nodes /\ Carried(t) = node[t]
  BY <1>1 DEF PushLink, Goto, MidCall, Carried, TypeOK
<1>3. ~ InDeque(node[t])
  BY <1>1, <1>2 DEF SinglePlace
<1> QED BY <1>2, <1>3 DEF PushLink, Fifo!FifoPush, Fifo!InSome, InDeque

LEMMA StepIsFifo == Inductive /\ [Next]_vars => [Fifo!FifoNext]_(Fifo!fifoVars)
<1> SUFFICES ASSUME Inductive, [Next]_vars PROVE Fifo!FifoNext \/ UNCHANGED <<content, first>>
  BY DEF Fifo!fifoVars
<1>0. \A t \in Threads : deque[t] \in Deques
  BY DEF Inductive, TypeOK
<1>1. CASE UNCHANGED vars
  BY <1>1 DEF vars
<1>2. ASSUME NEW t \in Threads, Call(t) PROVE UNCHANGED <<content, first>>
  BY <1>2 DEF Call, CallPop, CallPush
<1>3. ASSUME NEW t \in Threads, PopStep(t) PROVE Fifo!FifoNext \/ UNCHANGED <<content, first>>
  <2>1. CASE PopRead(t)
    BY <1>0, <2>1, ReadIsFifoPop DEF Fifo!FifoNext
  <2>2. CASE ~ PopRead(t)
    BY <1>3, <2>2 DEF PopStep, PopLock, PopUnlink, PopTail, PopUnlock
  <2> QED BY <2>1, <2>2
<1>4. ASSUME NEW t \in Threads, PushStep(t) PROVE Fifo!FifoNext \/ UNCHANGED <<content, first>>
  <2>1. CASE PushLink(t)
    BY <1>0, <2>1, LinkIsFifoPush DEF Fifo!FifoNext
  <2>2. CASE ~ PushLink(t)
    BY <1>4, <2>2 DEF PushStep, PushLock, PushTail, PushUnlock
  <2> QED BY <2>1, <2>2
<1>5. ASSUME NEW d \in Deques, Fini(d) PROVE UNCHANGED <<content, first>>
  BY <1>5 DEF Fini
<1> QED BY <1>1, <1>2, <1>3, <1>4, <1>5 DEF Next

(* Whatever the interleaving of the callers, each deque behaves as a FIFO  *)
(* queue whose pops and pushes take effect at one instant.                 *)
THEOREM Refinement == Spec => ImplementsFifo
<1>1. Init => Fifo!FifoInit
  BY DEF Init, Fifo!FifoInit
<1> QED BY <1>1, Invariance, StepIsFifo, PTL DEF Spec, ImplementsFifo, Fifo!FifoSpec
=============================================================================
