-------------------------- MODULE TaskSchedProofs ---------------------------
(***************************************************************************)
(* Theorems about TaskSched, for every number of processors, every set of  *)
(* tasks and every assignment of well-formed programs:                     *)
(*                                                                         *)
(*   InvariantHolds        Spec => []Inductive                             *)
(*   ConsistentHolds       a task is in one place at most                  *)
(*   NobodyForgottenHolds  and, when it is ready or waits, in one          *)
(*   FaultsExplainedHolds  which assertions can fail, and when             *)
(*   OneProcessorSound     none, with one processor and single joins       *)
(*   PoolImplemented       programs see what TaskPool promises             *)
(*                                                                         *)
(* The lemmas named ...Step each show that one action preserves Inductive; *)
(* those of the section "What a step leaves alone" do so for the parts of  *)
(* it that an action hardly touches.                                       *)
(***************************************************************************)
EXTENDS TaskSchedInvariant, InductionFacts, SequenceTheorems, TLAPS

-----------------------------------------------------------------------------
(* Contexts and what they are doing *)

(* What the assumption on the constants says of the sets of contexts.      *)
LEMMA Constants ==
  /\ N \in Nat \ {0} /\ Procs \subseteq Int /\ Main \in Procs /\ Main \in Users
  /\ Users \subseteq Contexts /\ Tasks \subseteq Users /\ Procs \subseteq Contexts
  /\ Main \notin Tasks /\ None \notin Contexts
  /\ \A p \in Procs : p \notin Tasks /\ (p \in Users => p = Main)
BY SchedAssumption DEF Procs, Main, Users, Contexts

LEMMA UsersAreContexts == \A s \in Seq(Users) : s \in Seq(Contexts)
BY Constants, SeqMonotonic

(* A context that has started is somewhere in its program, or at its end.  *)
LEMMA DoingOf ==
  ASSUME TypeOK, InPrograms, NEW c \in Users, Started(c)
  PROVE  /\ Doing(c) \in {"create", "join", "yield", "work", "end"}
         /\ Doing(c) = "end" <=> at[c] = Len(prog[c]) + 1
         /\ Doing(c) # "end" => at[c] \in 1 .. Len(prog[c]) /\ prog[c][at[c]] \in Ops
         /\ Doing(c) \in {"create", "join"} =>
              Target(c) \in Tasks /\ prog[c][at[c]] = [do |-> Doing(c), task |-> Target(c)]
<1>1. prog[c] \in Seq(Ops) /\ at[c] \in Nat /\ at[c] >= 1 /\ at[c] <= Len(prog[c]) + 1
  BY DEF TypeOK, InPrograms, Started
<1>2. Len(prog[c]) \in Nat
  BY <1>1
<1>3. CASE at[c] > Len(prog[c])
  <2>1. Doing(c) = "end"
    BY <1>3 DEF Doing
  <2> QED BY <1>1, <1>2, <1>3, <2>1
<1>4. CASE at[c] <= Len(prog[c])
  <2>1. at[c] \in 1 .. Len(prog[c])
    BY <1>1, <1>2, <1>4
  <2>2. prog[c][at[c]] \in Ops
    BY <1>1, <2>1
  <2>3. Doing(c) = prog[c][at[c]].do
    BY <1>1, <1>2, <1>4 DEF Doing
  <2>4. Doing(c) \in {"create", "join", "yield", "work"}
    BY <2>2, <2>3 DEF Ops
  <2>5. Doing(c) \in {"create", "join"} =>
          Target(c) \in Tasks /\ prog[c][at[c]] = [do |-> Doing(c), task |-> Target(c)]
    BY <2>2, <2>3 DEF Ops, Target
  <2> QED BY <1>1, <1>2, <1>4, <2>1, <2>2, <2>4, <2>5
<1> QED BY <1>1, <1>2, <1>3, <1>4

LEMMA DoesIt ==
  ASSUME TypeOK, InPrograms, NEW c \in Users, Started(c), Doing(c) # "end"
  PROVE  Does(c, Doing(c))
<1>1. at[c] \in 1 .. Len(prog[c]) /\ prog[c] \in Seq(Ops)
  BY DoingOf DEF TypeOK
<1>2. at[c] \in DOMAIN prog[c]
  BY <1>1
<1>3. Doing(c) = prog[c][at[c]].do
  BY <1>1 DEF Doing
<1> QED BY <1>2, <1>3 DEF Does

LEMMA DoingLoop ==
  ASSUME TypeOK, InPrograms, NEW c \in Contexts
  PROVE  /\ c \notin Users => Doing(c) = "loop"
         /\ c \in Users /\ Started(c) => Doing(c) # "loop"
<1>1. c \notin Users => Doing(c) = "loop"
  BY DEF Doing
<1> QED BY <1>1, DoingOf

(* What a context does changes with its own step only.                     *)
LEMMA SameDoing ==
  ASSUME NEW c \in Contexts, prog' = prog, c \in Users => at'[c] = at[c]
  PROVE  /\ Doing(c)' = Doing(c)
         /\ c \in Users => Target(c)' = Target(c) /\ Started(c)' = Started(c)
BY DEF Doing, Target, Started

(* Only a main program that joins is rash, next to other processors.       *)
LEMMA RashIsMain ==
  ASSUME NEW c \in Contexts
  PROVE  /\ Rash(c) => c = Main /\ N > 1 /\ MainJoins
         /\ c \in Tasks \/ c \notin Users => ~ Rash(c)
         /\ c \in Procs /\ Homebound(c) => ~ Rash(c)
         /\ c \in Users /\ ~ Rash(c) => c \in Tasks \/ N = 1 \/ (c = Main /\ Homebound(c))
         /\ prog' = prog => (Rash(c)' <=> Rash(c))
<1>1. Rash(c) => c = Main /\ N > 1 /\ MainJoins
  BY DEF Rash, MainJoins
<1>2. c \in Tasks \/ c \notin Users => ~ Rash(c)
  BY Constants DEF Rash
<1>3. c \in Users /\ ~ Rash(c) => c \in Tasks \/ N = 1 \/ (c = Main /\ Homebound(c))
  BY Constants DEF Rash, Users, Homebound
<1>h. c \in Procs /\ Homebound(c) => ~ Rash(c)
  BY DEF Rash, Homebound
<1>4. prog' = prog => (Rash(c)' <=> Rash(c))
  BY DEF Rash, Does
<1> QED BY <1>1, <1>2, <1>3, <1>4, <1>h

LEMMA SameSteady ==
  ASSUME NEW c \in Contexts, prog' = prog, state'[c] = state[c]
  PROVE  \A x : Steady(c, x)' <=> Steady(c, x)
BY RashIsMain DEF Steady

(* Results stay valid while nobody returns or is given one.                *)
LEMMA SameResults ==
  ASSUME Results, result' = result
  PROVE  Results'
BY DEF Results

LEMMA PushedPositions ==
  ASSUME UsersQueued, NEW p \in Procs, NEW x \in Users, Push(p, x)
  PROVE  /\ deque' \in [Procs -> Seq(Users)]
         /\ \A c \in Contexts, q \in Procs, i \in Nat :
              Position(c, q, i)' <=> \/ Position(c, q, i)
                                     \/ c = x /\ q = p /\ i = Len(deque[p]) + 1
         /\ \A c \in Contexts : ~ Position(c, p, Len(deque[p]) + 1)
         /\ Len(deque[p]) + 1 \in Nat
<1>1. deque[p] \in Seq(Users) /\ deque' = [deque EXCEPT ![p] = Append(deque[p], x)]
  BY DEF UsersQueued, Push
<1>2. /\ Append(deque[p], x) \in Seq(Users)
      /\ Len(deque[p]) \in Nat /\ Len(Append(deque[p], x)) = Len(deque[p]) + 1
      /\ Append(deque[p], x)[Len(deque[p]) + 1] = x
      /\ \A i \in 1 .. Len(deque[p]) : Append(deque[p], x)[i] = deque[p][i]
  BY <1>1
<1>3. /\ deque' \in [Procs -> Seq(Users)]
      /\ deque'[p] = Append(deque[p], x)
      /\ \A q \in Procs : q # p => deque'[q] = deque[q]
  BY <1>1, <1>2 DEF UsersQueued
<1>4. ASSUME NEW c \in Contexts, NEW q \in Procs, NEW i \in Nat
      PROVE  Position(c, q, i)' <=> Position(c, q, i) \/ (c = x /\ q = p /\ i = Len(deque[p]) + 1)
  <2>1. CASE q # p
    BY <1>3, <2>1 DEF Position
  <2>2. CASE q = p /\ i \in 1 .. Len(deque[p])
    <3>1. i \in 1 .. Len(deque'[p]) /\ deque'[p][i] = deque[p][i] /\ i # Len(deque[p]) + 1
      BY <1>2, <1>3, <2>2
    <3> QED BY <2>2, <3>1 DEF Position
  <2>3. CASE q = p /\ i = Len(deque[p]) + 1
    <3>1. i \in 1 .. Len(deque'[p]) /\ deque'[p][i] = x /\ i \notin 1 .. Len(deque[p])
      BY <1>2, <1>3, <2>3
    <3> QED BY <2>3, <3>1 DEF Position
  <2>4. CASE q = p /\ i \notin 1 .. Len(deque[p]) + 1
    <3>1. i \notin 1 .. Len(deque'[p]) /\ i \notin 1 .. Len(deque[p]) /\ i # Len(deque[p]) + 1
      BY <1>2, <1>3, <2>4
    <3> QED BY <2>4, <3>1 DEF Position
  <2> QED BY <1>2, <2>1, <2>2, <2>3, <2>4
<1>5. \A c \in Contexts : ~ Position(c, p, Len(deque[p]) + 1)
  BY <1>2 DEF Position
<1> QED BY <1>2, <1>3, <1>4, <1>5

(* Appending x makes x queued, once if it was not queued yet.              *)
LEMMA Pushed ==
  ASSUME UsersQueued, NEW p \in Procs, NEW x \in Users, Push(p, x)
  PROVE  /\ deque' \in [Procs -> Seq(Users)]
         /\ Queued(x)'
         /\ ~ Queued(x) => Single(x)'
         /\ \A c \in Contexts \ {x} : /\ Queued(c)' <=> Queued(c)
                                      /\ Single(c) => Single(c)'
<1> USE PushedPositions
<1>1. Queued(x)'
  BY Constants DEF Queued
<1>2. ~ Queued(x) => Single(x)'
  BY Constants DEF Queued, Single
<1>3. ASSUME NEW c \in Contexts \ {x}
      PROVE  (Queued(c)' <=> Queued(c)) /\ (Single(c) => Single(c)')
  BY <1>3 DEF Queued, Single
<1> QED BY <1>1, <1>2, <1>3

LEMMA PoppedPositions ==
  ASSUME UsersQueued, NEW p \in Procs, deque[p] # <<>>, deque' = Popped(p)
  PROVE  /\ deque' \in [Procs -> Seq(Users)]
         /\ Head(deque[p]) \in Users
         /\ \A c \in Contexts, q \in Procs, i \in Nat :
              Position(c, q, i)' <=> IF q = p THEN i # 0 /\ Position(c, q, i + 1)
                                     ELSE Position(c, q, i)
         /\ \A c \in Contexts : Position(c, p, 1) <=> c = Head(deque[p])
<1>1. deque[p] \in Seq(Users) /\ deque' = [deque EXCEPT ![p] = Tail(deque[p])]
  BY DEF UsersQueued, Popped
<1>2. /\ Tail(deque[p]) \in Seq(Users)
      /\ Len(deque[p]) \in Nat \ {0} /\ Len(Tail(deque[p])) = Len(deque[p]) - 1
      /\ Head(deque[p]) = deque[p][1] /\ deque[p][1] \in Users
      /\ \A i \in 1 .. Len(deque[p]) - 1 : Tail(deque[p])[i] = deque[p][i + 1]
  BY <1>1
<1>3. /\ deque' \in [Procs -> Seq(Users)]
      /\ deque'[p] = Tail(deque[p])
      /\ \A q \in Procs : q # p => deque'[q] = deque[q]
  BY <1>1, <1>2 DEF UsersQueued
<1>4. ASSUME NEW c \in Contexts, NEW q \in Procs, NEW i \in Nat
      PROVE  Position(c, q, i)' <=> IF q = p THEN i # 0 /\ Position(c, q, i + 1)
                                    ELSE Position(c, q, i)
  <2>1. CASE q # p
    BY <1>3, <2>1 DEF Position
  <2>2. CASE q = p /\ i \in 1 .. Len(deque[p]) - 1
    <3>1. /\ i \in 1 .. Len(deque'[p]) /\ deque'[p][i] = deque[p][i + 1]
          /\ i + 1 \in 1 .. Len(deque[p]) /\ i # 0
      BY <1>2, <1>3, <2>2
    <3> QED BY <2>2, <3>1 DEF Position
  <2>3. CASE q = p /\ i \notin 1 .. Len(deque[p]) - 1
    <3>1. i \notin 1 .. Len(deque'[p]) /\ (i = 0 \/ i + 1 \notin 1 .. Len(deque[p]))
      BY <1>2, <1>3, <2>3
    <3> QED BY <2>3, <3>1 DEF Position
  <2> QED BY <2>1, <2>2, <2>3
<1>5. \A c \in Contexts : Position(c, p, 1) <=> c = Head(deque[p])
  BY <1>2 DEF Position
<1> QED BY <1>2, <1>3, <1>4, <1>5

(* The first element of a deque leaves it, and nothing else does.          *)
LEMMA PoppedHead ==
  ASSUME UsersQueued, NEW p \in Procs, deque[p] # <<>>, deque' = Popped(p),
         NEW x, x = Head(deque[p])
  PROVE  /\ deque' \in [Procs -> Seq(Users)]
         /\ x \in Users
         /\ Queued(x)
         /\ Single(x) => ~ Queued(x)' /\ Single(x)'
         /\ \A c \in Contexts \ {x} : Queued(c)' <=> Queued(c)
         /\ \A c \in Contexts : Single(c) => Single(c)'
<1>0. x \in Users /\ x \in Contexts
  BY PoppedPositions, Constants
<1>p. \A c \in Contexts, q \in Procs, i \in Nat :
         Position(c, q, i)' <=> IF q = p THEN i # 0 /\ Position(c, q, i + 1)
                                ELSE Position(c, q, i)
  BY PoppedPositions
<1>h. \A c \in Contexts : Position(c, p, 1) <=> c = x
  BY PoppedPositions
<1>1. Queued(x)
  BY <1>0, <1>h DEF Queued
<1>2. ASSUME Single(x) PROVE ~ Queued(x)'
  <2> SUFFICES ASSUME NEW q \in Procs, NEW i \in Nat, Position(x, q, i)' PROVE FALSE
    BY DEF Queued
  <2>1. CASE q = p
    <3>1. i # 0 /\ Position(x, p, i + 1) /\ Position(x, p, 1)
      BY <1>0, <1>p, <1>h, <2>1
    <3>2. i + 1 \in Nat /\ i + 1 # 1
      BY <3>1
    <3> QED BY <1>2, <3>1, <3>2 DEF Single
  <2>2. CASE q # p
    <3>1. Position(x, q, i) /\ Position(x, p, 1)
      BY <1>0, <1>p, <1>h, <2>2
    <3> QED BY <1>2, <2>2, <3>1 DEF Single
  <2> QED BY <2>1, <2>2
<1>3. ASSUME NEW c \in Contexts \ {x} PROVE Queued(c)' <=> Queued(c)
  <2>1. ASSUME NEW q \in Procs, NEW i \in Nat, Position(c, q, i) PROVE Queued(c)'
    <3>1. CASE q # p
      BY <1>p, <2>1, <3>1 DEF Queued
    <3>2. CASE q = p
      <4>1. i # 0 /\ i # 1
        BY <1>h, <2>1, <3>2 DEF Position
      <4>2. i - 1 \in Nat /\ i - 1 # 0 /\ (i - 1) + 1 = i
        BY <4>1
      <4>3. Position(c, p, i - 1)'
        BY <1>p, <2>1, <3>2, <4>2
      <4> QED BY <4>2, <4>3 DEF Queued
    <3> QED BY <3>1, <3>2
  <2>2. ASSUME NEW q \in Procs, NEW i \in Nat, Position(c, q, i)' PROVE Queued(c)
    <3>1. i + 1 \in Nat
      OBVIOUS
    <3> QED BY <1>p, <2>2, <3>1 DEF Queued
  <2> QED BY <2>1, <2>2 DEF Queued
<1>4. ASSUME NEW c \in Contexts, Single(c) PROVE Single(c)'
  <2> SUFFICES ASSUME NEW q \in Procs, NEW r \in Procs, NEW i \in Nat, NEW j \in Nat,
                      Position(c, q, i)', Position(c, r, j)'
               PROVE  q = r /\ i = j
    BY DEF Single
  <2> DEFINE before(s, k) == IF s = p THEN k + 1 ELSE k
  <2>1. Position(c, q, before(q, i)) /\ Position(c, r, before(r, j))
    BY <1>p
  <2>2. before(q, i) \in Nat /\ before(r, j) \in Nat
    OBVIOUS
  <2>3. q = r /\ before(q, i) = before(r, j)
    BY <1>4, <2>1, <2>2 DEF Single
  <2> QED BY <2>3
<1>5. deque' \in [Procs -> Seq(Users)]
  BY PoppedPositions
<1> QED BY <1>0, <1>1, <1>2, <1>3, <1>4, <1>5

LEMMA SameQueues ==
  ASSUME deque' = deque
  PROVE  \A c \in Contexts : Queued(c)' = Queued(c) /\ Single(c)' = Single(c)
BY DEF Queued, Single, Position

-----------------------------------------------------------------------------
(* Steps that only move a processor within the library                     *)

LEMMA ShuffleStep ==
  ASSUME TypeOK, Control, Creation, Joins, NEW p \in Procs,
         UNCHANGED <<userVars, taskVars, current>>,
         pc[p] \in Leaving, NEW l \in Leaving, Goto(p, l),
         \A q \in Procs \ {p} : hand'[q] = hand[q]
  PROVE  /\ InPrograms' /\ OneProcessorEach' /\ Placed' /\ StatesMean'
         /\ Creation' /\ Joins'
<1>1. /\ \A q \in Procs : q # p => pc'[q] = pc[q]
      /\ pc'[p] = l /\ pc[p] \in Leaving /\ l \in Leaving
  BY DEF Goto, TypeOK
<1>2. \A c \in Contexts : Doing(c)' = Doing(c) /\ (Served(c)' <=> Served(c))
  BY DEF Doing, userVars, taskVars, Served, Target
<1>3. \A c \in Users : Target(c)' = Target(c) /\ Started(c)' = Started(c)
  BY DEF Target, Started, userVars
<1>r. \A c \in Contexts : /\ Rash(c)' <=> Rash(c)
                          /\ \A x : Steady(c, x)' <=> Steady(c, x)
  BY RashIsMain, SameSteady DEF userVars, taskVars
<1>s. \A c \in Users : BeingServed(c) => BeingServed(c)'
  <2>1. \A q \in Procs : pc[q] = "deliver" => q # p
    BY <1>1 DEF Leaving
  <2> QED BY <1>1, <1>3, <2>1 DEF BeingServed
<1>4. InPrograms' /\ OneProcessorEach'
  BY DEF Control, InPrograms, OneProcessorEach, userVars
<1>5. Placed'
  <2> SUFFICES ASSUME NEW q \in Procs, NEW c \in Contexts, current'[q] = c
               PROVE  Place(q, c)'
    BY DEF Placed
  <2>1. Place(q, c)
    BY DEF Control, Placed
  <2>2. CASE q = p
    BY <1>1, <1>2, <1>3, <1>r, <2>1, <2>2
    DEF Place, Leaving, Executing, Joining, Ending, Switching, taskVars
  <2>3. CASE q # p
    BY <1>1, <1>2, <1>3, <1>r, <2>1, <2>3 DEF Place, taskVars
  <2> QED BY <2>2, <2>3
<1>6. StatesMean'
  <2> SUFFICES ASSUME NEW c \in Contexts PROVE StateMeans(c)'
    BY DEF StatesMean
  <2>1. StateMeans(c)
    BY DEF Control, StatesMean
  <2>2. /\ (\E q \in Procs : current[q] = c /\ pc[q] \notin {"publish"} \cup Switching)
             => \E q \in Procs : current'[q] = c /\ pc'[q] \notin {"publish"} \cup Switching
        /\ (\E q \in Procs : current[q] = c /\ pc[q] \in Executing)
             => \E q \in Procs : current'[q] = c /\ pc'[q] \in Executing
    BY <1>1 DEF Leaving, Switching, Executing, Ending
  <2>3. state'[c] = state[c] /\ result'[c] = result[c]
    BY DEF taskVars
  <2> QED BY <1>2, <1>3, <1>r, <1>s, <2>1, <2>2, <2>3, Constants DEF StateMeans
<1>7. Creation'
  <2>1. prog' = prog /\ at' = at /\ state' = state
    BY DEF userVars, taskVars
  <2>2. Existing'
    BY <2>1 DEF Creation, Existing, Created, Creates
  <2>3. ASSUME NEW rank, NEW top PROVE RankedBy(rank, top)' <=> RankedBy(rank, top)
    BY <2>1 DEF RankedBy, Creates
  <2>4. Ranked'
    BY <2>3 DEF Creation, Ranked
  <2> QED BY <2>2, <2>4 DEF Creation
<1>8. Returned' /\ Results'
  BY <1>1, SameResults DEF Joins, Returned, Ending, Leaving, taskVars
<1>9. \A u \in Tasks : (Passed(u)' <=> Passed(u)) /\ (AwaitsJoiner(u)' <=> AwaitsJoiner(u))
  BY <1>1 DEF Passed, AwaitsJoiner, Leaving, taskVars
<1>10. JoinStates'
  BY <1>3, <1>9, <1>r, Constants DEF Joins, JoinStates, taskVars
<1>11. OneJoiner'
  <2>1. \A q \in Procs : pc'[q] \in Joining => pc[q] \in Joining
    BY <1>1 DEF Joining, Leaving
  <2>2. ASSUME NEW q \in Procs, NEW c \in Users, current[q] = c, pc[q] \in Joining
        PROVE  joinTask[Target(c)] = None /\ AwaitsJoiner(Target(c)) /\ Target(c) \in Tasks
    <3>1. Started(c) /\ Doing(c) = "join"
      BY <2>2, Constants DEF Control, Placed, Place
    <3> QED BY <2>2, <3>1, DoingOf DEF Joins, OneJoiner, Control
  <2> QED BY <1>3, <1>9, <2>1, <2>2 DEF Joins, OneJoiner, taskVars
<1>12. Waking'
  BY <1>1, <1>2, <1>3, <1>r, Constants DEF Joins, Waking, taskVars, Leaving
<1>13. JoinedBefore'
  BY <1>1 DEF Joins, JoinedBefore, Exchanged, JoinsAt, userVars, taskVars, Leaving
<1>14. WillBeWoken'
  BY <1>1, <1>3 DEF Joins, WillBeWoken, taskVars, Leaving
<1> QED BY <1>4, <1>5, <1>6, <1>7, <1>8, <1>10, <1>11, <1>12, <1>13, <1>14 DEF Joins

-----------------------------------------------------------------------------
(* What a step leaves alone                                                *)

(* A step of processor p that touches only the contexts of X.              *)
LEMMA LocalStep ==
  ASSUME TypeOK, Control, NEW p \in Procs, NEW X \in SUBSET Contexts,
         current[p] \in X, current' = current, prog' = prog,
         \A q \in Procs \ {p} : pc'[q] = pc[q],
         \A d \in Contexts \ X : /\ state'[d] = state[d] /\ result'[d] = result[d]
                                 /\ d \in Users => at'[d] = at[d],
         \A t \in Tasks : result[t] = t => result'[t] = t,
         \A q \in Procs : pc[q] = "deliver" /\ hand[q] \notin X =>
           pc'[q] = "deliver" /\ hand'[q] = hand[q],
         \A d \in X : d \in Users => at'[d] <= Len(prog[d]) + 1,
         \A d \in X : StateMeans(d)',
         \A d \in X, q \in Procs : current[q] = d => Place(q, d)'
  PROVE  InPrograms' /\ OneProcessorEach' /\ Placed' /\ StatesMean'
<1>1. ASSUME NEW d \in Contexts \ X
      PROVE  /\ Doing(d)' = Doing(d)
             /\ d \in Users => Target(d)' = Target(d) /\ Started(d)' = Started(d)
             /\ d \in Users /\ Started(d) /\ Doing(d) = "join" /\ Served(d) => Served(d)'
             /\ d \in Users /\ BeingServed(d) => BeingServed(d)'
             /\ Rash(d)' <=> Rash(d)
             /\ \A x : Steady(d, x)' <=> Steady(d, x)
  <2>1. /\ Doing(d)' = Doing(d)
        /\ d \in Users => Target(d)' = Target(d) /\ Started(d)' = Started(d)
    BY SameDoing
  <2>2. ASSUME d \in Users, Started(d), Doing(d) = "join", Served(d) PROVE Served(d)'
    <3>1. Target(d) \in Tasks
      BY <2>2, DoingOf DEF Control
    <3> QED BY <2>1, <2>2, <3>1 DEF Served
  <2>3. d \in Users /\ BeingServed(d) => BeingServed(d)'
    BY <2>1 DEF BeingServed
  <2> QED BY <2>1, <2>2, <2>3, RashIsMain, SameSteady
<1>2. InPrograms'
  <2>1. \A d \in Users : at'[d] <= Len(prog[d]) + 1
    BY Constants DEF Control, InPrograms
  <2> QED BY <2>1 DEF Control, InPrograms
<1>3. OneProcessorEach'
  BY DEF Control, OneProcessorEach
<1>4. ASSUME NEW q \in Procs, NEW d \in Contexts, current[q] = d, d \notin X
      PROVE  Place(q, d)'
  <2>1. Place(q, d) /\ pc'[q] = pc[q]
    BY <1>4 DEF Control, Placed
  <2>2. state'[d] = state[d] /\ result'[d] = result[d]
    BY <1>4
  <2>3. Doing(d) = "join" => d \in Users /\ Started(d)
    BY <2>1, DoingLoop DEF Place, Control
  <2> QED BY <1>1, <1>4, <2>1, <2>2, <2>3 DEF Place
<1>5. ASSUME NEW d \in Contexts, d \notin X
      PROVE  StateMeans(d)'
  <2>1. StateMeans(d) /\ state'[d] = state[d] /\ result'[d] = result[d]
    BY <1>5 DEF Control, StatesMean
  <2>2. /\ (\E q \in Procs : current[q] = d /\ pc[q] \notin {"publish"} \cup Switching)
             => \E q \in Procs : current'[q] = d /\ pc'[q] \notin {"publish"} \cup Switching
        /\ (\E q \in Procs : current[q] = d /\ pc[q] \in Executing)
             => \E q \in Procs : current'[q] = d /\ pc'[q] \in Executing
    BY <1>5
  <2> QED BY <1>1, <1>5, <2>1, <2>2, Constants DEF StateMeans
<1>6. Placed' /\ StatesMean'
  BY <1>4, <1>5 DEF Placed, StatesMean
<1> QED BY <1>2, <1>3, <1>6

(* A step of processor p that touches only the context it executes.        *)
LEMMA OwnStep ==
  ASSUME TypeOK, Control, NEW p \in Procs, NEW c \in Contexts,
         c = current[p], current' = current, prog' = prog,
         \A q \in Procs \ {p} : pc'[q] = pc[q],
         \A d \in Contexts \ {c} : /\ state'[d] = state[d] /\ result'[d] = result[d]
                                   /\ d \in Users => at'[d] = at[d],
         \A t \in Tasks : result[t] = t => result'[t] = t,
         \A q \in Procs : pc[q] = "deliver" => pc'[q] = "deliver" /\ hand'[q] = hand[q],
         c \in Users => at'[c] <= Len(prog[c]) + 1,
         StateMeans(c)', Place(p, c)'
  PROVE  InPrograms' /\ OneProcessorEach' /\ Placed' /\ StatesMean'
<1> DEFINE X == {c}
<1>1. /\ X \in SUBSET Contexts /\ current[p] \in X
      /\ \A d \in Contexts \ X : /\ state'[d] = state[d] /\ result'[d] = result[d]
                                /\ d \in Users => at'[d] = at[d]
      /\ \A d \in X : StateMeans(d)'
      /\ \A d \in X : d \in Users => at'[d] <= Len(prog[d]) + 1
  OBVIOUS
<1>2. \A d \in X, q \in Procs : current[q] = d => Place(q, d)'
  BY DEF Control, OneProcessorEach
<1> HIDE DEF X
<1> QED BY <1>1, <1>2, LocalStep

(* A step that is no part of a join or of the end of a task.               *)
LEMMA NoJoinStep ==
  ASSUME TypeOK, Control, Joins, NEW p \in Procs,
         prog' = prog, joinState' = joinState, joinTask' = joinTask,
         \A q \in Procs \ {p} : pc'[q] = pc[q] /\ current'[q] = current[q] /\ hand'[q] = hand[q],
         pc[p] \notin Joining \cup {"finish", "spin", "wake"},
         pc'[p] \notin Joining \cup {"finish", "spin", "wake", "deliver"},
         \A u \in Tasks : result'[u] = u <=> result[u] = u,
         \A d \in Users : state'[d] = "WAITING" => state[d] = "WAITING",
         \A d \in Users : state[d] = "WAITING" => Rash(d) \/ state'[d] = "WAITING",
         \A d \in Users : state[d] = "WAITING" => at'[d] = at[d],
         \A q \in Procs \ {p}, d \in Users : current[q] = d => at'[d] = at[d],
         \A q \in Procs, d \in Users :
           pc[q] = "deliver" /\ hand[q] = d /\ Started(d) /\ Doing(d) = "join" =>
             Rash(d) \/ at'[d] = at[d]
  PROVE  JoinStates' /\ OneJoiner' /\ Waking' /\ WillBeWoken'
<1>1. \A d \in Users : /\ Rash(d)' <=> Rash(d)
                       /\ at'[d] = at[d] => /\ Target(d)' = Target(d) /\ Doing(d)' = Doing(d)
                                            /\ Started(d)' = Started(d)
  BY SameDoing, RashIsMain, Constants
<1>2. ASSUME NEW d \in Users, state[d] = "WAITING" PROVE Target(d) \in Tasks /\ Target(d)' = Target(d)
  <2>1. Started(d) /\ Doing(d) = "join"
    BY <1>2, Constants DEF Control, StatesMean, StateMeans
  <2> QED BY <1>1, <1>2, <2>1, DoingOf DEF Control
<1>3. ASSUME NEW q \in Procs, NEW d \in Users, current[q] = d, pc[q] \in Joining
      PROVE  Target(d) \in Tasks /\ Target(d)' = Target(d)
  <2>1. Started(d) /\ Doing(d) = "join"
    BY <1>3, Constants DEF Control, Placed, Place
  <2>2. q # p
    BY <1>3
  <2> QED BY <1>1, <1>3, <2>1, <2>2, DoingOf DEF Control
<1>4. \A u \in Tasks : Passed(u)' <=> Passed(u)
  BY DEF Passed
<1>5. \A u \in Tasks : AwaitsJoiner(u)' <=> AwaitsJoiner(u)
  BY <1>4 DEF AwaitsJoiner
<1>6. JoinStates'
  <2> SUFFICES ASSUME NEW u \in Tasks
               PROVE  /\ joinState'[u] = "JOINABLE" => ~ Passed(u)' /\ joinTask'[u] = None
                      /\ joinState'[u] = "WAIT_FOR_JOINER" => Passed(u)'
                      /\ \A d \in Users : joinTask'[u] = d =>
                           /\ AwaitsJoiner(u)'
                           /\ Rash(d)' \/ (state'[d] = "WAITING" /\ Target(d)' = u)
    BY DEF JoinStates
  <2> QED BY <1>1, <1>2, <1>4, <1>5 DEF Joins, JoinStates
<1>7. OneJoiner'
  <2>1. \A q \in Procs : pc'[q] \in Joining => pc[q] \in Joining /\ current'[q] = current[q]
    BY DEF Joining
  <2> QED BY <1>3, <1>5, <2>1 DEF Joins, OneJoiner
<1>8. Waking'
  <2> SUFFICES ASSUME NEW q \in Procs, NEW d \in Users, NEW u \in Tasks,
                      hand'[q] = d, current'[q] = u, pc'[q] \in {"wake", "deliver"}
               PROVE  /\ pc'[q] = "wake" => joinTask'[u] = None /\ (Rash(d)' \/ state'[d] = "WAITING")
                      /\ Rash(d)' \/ (Started(d)' /\ Doing(d)' = "join" /\ Target(d)' = u)
    BY DEF Waking
  <2>1. q # p /\ pc'[q] = pc[q] /\ hand[q] = d /\ current[q] = u
    OBVIOUS
  <2>2. /\ pc[q] = "wake" => joinTask[u] = None /\ (Rash(d) \/ state[d] = "WAITING")
        /\ Rash(d) \/ (Started(d) /\ Doing(d) = "join" /\ Target(d) = u)
    BY <2>1 DEF Joins, Waking
  <2>3. Rash(d) \/ at'[d] = at[d]
    BY <2>1, <2>2
  <2> QED BY <1>1, <2>1, <2>2, <2>3
<1>9. WillBeWoken'
  <2> SUFFICES ASSUME NEW d \in Users, state'[d] = "WAITING"
               PROVE  LET u == Target(d)' IN
                      \/ \E q \in Procs : current'[q] = d /\ pc'[q] = "publish" /\ joinState'[u] # "JOINABLE"
                      \/ joinTask'[u] = d /\ joinState'[u] = "WAIT_TO_JOIN"
                      \/ joinTask'[u] = d /\ \E q \in Procs : current'[q] = u /\ pc'[q] = "spin"
                      \/ \E q \in Procs : hand'[q] = d /\ current'[q] = u /\ pc'[q] = "wake"
    BY DEF WillBeWoken
  <2>1. state[d] = "WAITING" /\ Target(d)' = Target(d)
    BY <1>2
  <2>2. \A q \in Procs : pc[q] \in {"publish", "spin", "wake"} =>
          pc'[q] = pc[q] /\ current'[q] = current[q] /\ hand'[q] = hand[q]
    BY DEF Joining
  <2> QED BY <2>1, <2>2 DEF Joins, WillBeWoken
<1> QED BY <1>6, <1>7, <1>8, <1>9

(* Who has passed the exchange of task_join stays past it.                 *)
LEMMA NoExchangeStep ==
  ASSUME TypeOK, prog' = prog, at' \in [Users -> Nat],
         \A d \in Users : at'[d] >= at[d],
         \A q \in Procs, d \in Users : current'[q] = d /\ pc'[q] = "run" =>
           at'[d] > at[d] \/ (at'[d] = at[d] /\ current[q] = d /\ pc[q] = "run")
  PROVE  \A u \in Tasks : Exchanged(u) => Exchanged(u)'
<1> SUFFICES ASSUME NEW u \in Tasks, Exchanged(u)
             PROVE  Exchanged(u)'
  OBVIOUS
<1>1. PICK c \in Users, i \in Nat :
        /\ JoinsAt(c, i, u)
        /\ i < at[c] \/ (i = at[c] /\ \A q \in Procs : current[q] = c => pc[q] # "run")
  BY DEF Exchanged
<1>2. JoinsAt(c, i, u)'
  BY <1>1 DEF JoinsAt
<1>3. at[c] \in Nat /\ at'[c] \in Nat /\ at'[c] >= at[c]
  BY DEF TypeOK
<1>4. CASE at'[c] > at[c] \/ i < at[c]
  <2>1. i < at'[c]
    BY <1>1, <1>3, <1>4
  <2> QED BY <1>2, <2>1 DEF Exchanged
<1>5. CASE at'[c] = at[c] /\ i = at[c]
  <2>1. \A q \in Procs : current'[q] = c => pc'[q] # "run"
    BY <1>1, <1>3, <1>5
  <2> QED BY <1>2, <1>5, <2>1 DEF Exchanged
<1> QED BY <1>1, <1>3, <1>4, <1>5

(* No queue changes, and no task becomes ready or stops being so.          *)
LEMMA NoQueueStep ==
  ASSUME TasksQueued, UNCHANGED <<deque, hand, to>>,
         \A t \in Tasks : state'[t] = "READY" <=> state[t] = "READY",
         \A q \in Procs : pc[q] = "wake" => pc'[q] = "wake" \/ hand[q] \notin Tasks
  PROVE  TasksQueued'
<1>1. \A t \in Tasks : (Queued(t)' <=> Queued(t)) /\ (Single(t)' <=> Single(t))
  BY SameQueues, Constants
<1> QED BY <1>1 DEF TasksQueued, TaskQueued

(* A task that was neither queued nor held, or is handed over, is queued.  *)
LEMMA PushTasks ==
  ASSUME TasksQueued, UsersQueued, NEW p \in Procs, NEW x \in Users, Push(p, x), to' = to,
         x \in Tasks => /\ ~ Queued(x) /\ state'[x] = "READY"
                        /\ \A q \in Procs : hand'[q] # x /\ to[q] # x,
         \A t \in Tasks \ {x} : state'[t] = "READY" <=> state[t] = "READY",
         \A t \in Tasks \ {x}, q \in Procs : hand'[q] = t <=> hand[q] = t,
         \A q \in Procs : pc[q] = "wake" => pc'[q] = "wake"
  PROVE  TasksQueued'
<1> SUFFICES ASSUME NEW t \in Tasks PROVE TaskQueued(t)'
  BY DEF TasksQueued
<1>1. TaskQueued(t) /\ t \in Contexts
  BY Constants DEF TasksQueued
<1>2. CASE t = x
  BY <1>1, <1>2, Pushed DEF TaskQueued
<1>3. CASE t # x
  <2>1. (Queued(t)' <=> Queued(t)) /\ Single(t)'
    BY <1>1, <1>3, Pushed DEF TaskQueued
  <2> QED BY <1>1, <1>3, <2>1 DEF TaskQueued
<1> QED BY <1>2, <1>3

LEMMA StayHomeStep ==
  ASSUME HomeboundAtHome, UNCHANGED <<current, prog>>,
         deque' = deque \/ \A c \in Procs : Homebound(c) /\ Queued(c)' => Queued(c),
         \A c \in Procs : Homebound(c) =>
           /\ \A q \in Procs : /\ hand'[q] = c => hand[q] = c
                               /\ to'[q] = c => to[q] = c
           /\ state[c] = "READY" => state'[c] = "READY" \/ current[c] = c
  PROVE  HomeboundAtHome'
<1>1. \A c \in Procs : Homebound(c) /\ Queued(c)' => Queued(c)
  BY SameQueues, Constants
<1>2. \A c \in Procs : Homebound(c)' <=> Homebound(c)
  BY DEF Homebound, Does
<1> QED BY <1>1, <1>2 DEF HomeboundAtHome, AtHome

(* No task is created: a context moves past operations of other kinds.     *)
LEMMA NoCreateStep ==
  ASSUME TypeOK, Control, Creation, prog' = prog,
         \A u \in Tasks : state'[u] = "none" <=> state[u] = "none",
         \A e \in Users : \/ at'[e] = at[e]
                          \/ at'[e] = at[e] + 1 /\ (~ Started(e) \/ Doing(e) # "create")
  PROVE  Creation'
<1>1. ASSUME NEW e \in Users, NEW i \in Nat, NEW u \in Tasks, Creates(e, i, u)
      PROVE  i < at'[e] <=> i < at[e]
  <2>1. at[e] \in Nat /\ i >= 1 /\ i <= Len(prog[e]) /\ prog[e] \in Seq(Ops)
    BY <1>1 DEF TypeOK, Creates
  <2>2. CASE at'[e] = at[e] + 1 /\ i = at[e]
    <3>1. Doing(e) = "create" /\ Started(e)
      BY <1>1, <2>1, <2>2 DEF Doing, Creates, Started
    <3> QED BY <2>1, <2>2, <3>1
  <2> QED BY <2>1, <2>2
<1>2. \A e, i, u : Creates(e, i, u)' <=> Creates(e, i, u)
  BY DEF Creates
<1>3. Existing'
  BY <1>1, <1>2 DEF Creation, Existing, Created
<1>4. ASSUME NEW rank \in [Users -> Nat], NEW top \in Nat, RankedBy(rank, top) PROVE RankedBy(rank, top)'
  BY <1>1, <1>2, <1>4, Constants DEF RankedBy
<1>5. Ranked'
  BY <1>4 DEF Creation, Ranked
<1> QED BY <1>3, <1>5 DEF Creation

-----------------------------------------------------------------------------
(* A failed assertion stops the program where it is                        *)

LEMMA FaultStep ==
  ASSUME Inductive, TypeOK', FaultsExplained',
         UNCHANGED <<userVars, taskVars, deque, current, pc, lb, hand, to>>
  PROVE  Inductive'
<1>1. /\ prog' = prog /\ at' = at /\ got' = got /\ state' = state /\ joinState' = joinState
      /\ joinTask' = joinTask /\ result' = result /\ deque' = deque /\ current' = current
      /\ pc' = pc /\ hand' = hand /\ to' = to
  BY DEF userVars, taskVars
<1>2. /\ \A c : Doing(c)' = Doing(c) /\ Target(c)' = Target(c) /\ Started(c)' = Started(c)
      /\ \A c : Served(c)' = Served(c) /\ Passed(c)' = Passed(c) /\ AwaitsJoiner(c)' = AwaitsJoiner(c)
      /\ \A c : BeingServed(c)' = BeingServed(c) /\ Rash(c)' = Rash(c)
      /\ \A c, x : Steady(c, x)' = Steady(c, x)
  BY <1>1 DEF Doing, Target, Started, Served, Passed, AwaitsJoiner, BeingServed, Rash, Does, Steady
<1>3. \A c, p, i : Queued(c)' = Queued(c) /\ Single(c)' = Single(c)
  BY <1>1 DEF Queued, Single, Position
<1>4. \A e, i, u : Creates(e, i, u)' = Creates(e, i, u) /\ JoinsAt(e, i, u)' = JoinsAt(e, i, u)
  BY <1>1 DEF Creates, JoinsAt
<1>5. InPrograms' /\ OneProcessorEach' /\ Registers' /\ UsersQueued'
  BY <1>1 DEF Inductive, Control, InPrograms, OneProcessorEach, Registers, UsersQueued
<1>6. ASSUME NEW p \in Procs, NEW c \in Contexts, Place(p, c) PROVE Place(p, c)'
  BY <1>1, <1>2, <1>6 DEF Place
<1>7. ASSUME NEW c \in Contexts, StateMeans(c) PROVE StateMeans(c)'
  BY <1>1, <1>2, <1>7 DEF StateMeans
<1>8. Control'
  BY <1>1, <1>5, <1>6, <1>7 DEF Inductive, Control, Placed, StatesMean
<1>9. Creation'
  <2>1. Existing'
    BY <1>1, <1>4 DEF Inductive, Creation, Existing, Created
  <2>2. ASSUME NEW rank, NEW top PROVE RankedBy(rank, top)' <=> RankedBy(rank, top)
    BY <1>1, <1>4 DEF RankedBy
  <2> QED BY <2>1, <2>2 DEF Inductive, Creation, Ranked
<1>10. Joins'
  BY <1>1, <1>2, <1>4 DEF Inductive, Joins, Returned, Results, JoinStates, OneJoiner, Waking, JoinedBefore, Exchanged,
                      WillBeWoken
<1>11. Queues'
  <2>1. TasksQueued'
    BY <1>1, <1>3 DEF Inductive, Queues, TasksQueued, TaskQueued
  <2>2. HomeboundAtHome'
    BY <1>1, <1>3 DEF Inductive, Queues, HomeboundAtHome, Homebound, AtHome, Does
  <2>3. Alone'
    BY <1>1, <1>2, <1>3 DEF Inductive, Queues, Alone
  <2> QED BY <2>1, <2>2, <2>3 DEF Queues
<1> QED BY <1>8, <1>9, <1>10, <1>11 DEF Inductive

-----------------------------------------------------------------------------
(* Initial states *)

LEMMA InitInductive == Init => Inductive
<1> SUFFICES ASSUME Init PROVE Inductive
  OBVIOUS
<1> USE Constants
<1>1. TypeOK
  <2>1. prog \in [Users -> Seq(Ops)]
    BY SchedAssumption DEF Init
  <2>2. lb \in [Procs -> [own : Nat, victim : Procs, steal : Nat]]
    BY DEF Init, NotBalancing, Main
  <2>3. deque \in [Procs -> Seq(Contexts)]
    BY DEF Init
  <2> QED BY <2>1, <2>2, <2>3 DEF Init, TypeOK, Labels, Faults
<1>2. \A c \in Users : prog[c] \in Seq(Ops) /\ Len(prog[c]) \in Nat
  BY <1>1 DEF TypeOK
<1>3. /\ \A p \in Procs : current[p] = p /\ pc[p] \in {"run", "balance"} /\ (pc[p] = "run" <=> p = Main)
      /\ \A p \in Procs : hand[p] = None /\ to[p] = None /\ deque[p] = <<>>
      /\ \A p \in Procs : state[p] = "RUNNING"
      /\ \A t \in Tasks : state[t] = "none" /\ joinState[t] = "JOINABLE" /\ joinTask[t] = None
      /\ \A t \in Tasks : result[t] = None
      /\ \A c \in Users : at[c] = (IF c = Main THEN 1 ELSE 0)
      /\ fault = "none"
  BY DEF Init
<1>r. \A c \in Users : result[c] = None
  BY DEF Init
<1>4. \A c \in Contexts : ~ Queued(c) /\ Single(c)
  BY <1>3 DEF Queued, Single, Position
<1>5. Control
  <2>1. InPrograms
    BY <1>2, <1>3 DEF Init, InPrograms
  <2>2. OneProcessorEach
    BY <1>3 DEF OneProcessorEach
  <2>3. Registers
    BY <1>3 DEF Registers, Switching
  <2>4. UsersQueued
    BY DEF Init, UsersQueued
  <2>5. ASSUME NEW p \in Procs PROVE Place(p, p)
    <3>1. p # Main => Doing(p) = "loop" /\ p \notin Users
      BY DEF Doing
    <3> QED BY <1>3, <3>1 DEF Place, Executing, Ending, Joining, Leaving, Switching, Started, Steady
  <2>6. Placed
    <3>1. \A p \in Procs, c \in Contexts : current[p] = c => c = p
      BY <1>3
    <3> QED BY <2>5, <3>1 DEF Placed
  <2>7. StatesMean
    BY <1>3 DEF StatesMean, StateMeans, Started, Contexts, Users, Switching
  <2> QED BY <2>1, <2>2, <2>3, <2>4, <2>6, <2>7 DEF Control
<1>6. Creation
  <2>1. \A e \in Users, i \in Nat, u \in Tasks : ~ (Creates(e, i, u) /\ i < at[e])
    BY <1>2, <1>3 DEF Creates
  <2>2. Existing
    BY <1>3, <2>1 DEF Existing, Created
  <2>3. RankedBy([c \in Users |-> 0], 0)
    BY <2>1 DEF RankedBy
  <2>4. [c \in Users |-> 0] \in [Users -> Nat] /\ 0 \in Nat
    OBVIOUS
  <2>5. Ranked
    BY <2>3, <2>4 DEF Ranked
  <2> QED BY <2>2, <2>5 DEF Creation
<1>7. Joins
  BY <1>3, <1>r DEF Joins, Returned, Results, JoinStates, OneJoiner, Waking, JoinedBefore, WillBeWoken,
              Passed, AwaitsJoiner, Joining, Users
<1>8. Queues
  <2>1. TasksQueued
    <3>1. \A p \in Procs, t \in Tasks : hand[p] # t /\ to[p] # t
      <4>1. \A p \in Procs : hand[p] = None /\ to[p] = None
        BY <1>3
      <4>2. None \notin Tasks
        BY Constants
      <4> QED BY <4>1, <4>2
    <3>2. \A t \in Tasks : t \in Contexts /\ state[t] # "READY"
      BY <1>3 DEF Contexts
    <3> QED BY <1>4, <3>1, <3>2 DEF TasksQueued, TaskQueued
  <2>2. HomeboundAtHome
    <3>1. \A p \in Procs, c \in Procs : hand[p] # c /\ to[p] # c
      BY <1>3
    <3>2. \A p \in Procs : p \in Contexts /\ ~ Queued(p) /\ current[p] = p
      BY <1>3, <1>4
    <3> QED BY <3>1, <3>2 DEF HomeboundAtHome, AtHome
  <2>3. Alone
    <3>1. pc[Main] = "run" /\ hand[Main] = None /\ to[Main] = None
      BY <1>3
    <3>2. ~ Queued(Main) /\ Single(Main)
      BY <1>4
    <3> QED BY <3>1, <3>2 DEF Alone, Leaving, Switching
  <2> QED BY <2>1, <2>2, <2>3 DEF Queues
<1>9. FaultsExplained
  BY <1>3 DEF FaultsExplained
<1> QED BY <1>1, <1>5, <1>6, <1>7, <1>8, <1>9 DEF Inductive

-----------------------------------------------------------------------------
(* task_create, task_yield, task_join *)

LEMMA YieldStep ==
  ASSUME Inductive, NEW p \in Procs, Yield(p)
  PROVE  Inductive'
<1>1. PICK c \in Contexts : c = current[p]
  BY DEF Inductive, TypeOK
<1>2. /\ fault = "none" /\ pc[p] = "run" /\ Doing(c) = "yield" /\ pc' = [pc EXCEPT ![p] = "balance"]
      /\ prog' = prog /\ at' = at /\ state' = state /\ joinState' = joinState /\ joinTask' = joinTask
      /\ result' = result /\ deque' = deque /\ current' = current /\ hand' = hand /\ to' = to
      /\ fault' = "none"
  BY <1>1 DEF Yield, At, Goto, userVars, taskVars
<1>3. pc \in [Procs -> Labels] /\ TypeOK /\ Control
  BY DEF Inductive, TypeOK
<1>4. pc'[p] = "balance" /\ \A q \in Procs : q # p => pc'[q] = pc[q]
  BY <1>2, <1>3
<1>5. TypeOK'
  BY <1>3 DEF Yield, Goto, TypeOK, Labels, userVars, taskVars
<1>6. Place(p, c) /\ StateMeans(c)
  BY <1>1, <1>3 DEF Control, Placed, StatesMean
<1>7. Doing(c)' = Doing(c) /\ (Started(c)' <=> Started(c))
  BY <1>2 DEF Doing, Started
<1>8. c \in Users /\ Started(c) /\ Steady(c, "RUNNING") /\ Steady(c, "RUNNING")'
  BY <1>2, <1>6, SameSteady DEF Place, Executing
<1>9. Place(p, c)'
  BY <1>2, <1>4, <1>6, <1>7, <1>8 DEF Place, Executing, Ending, Joining, Leaving, Switching
<1>10. StateMeans(c)'
  BY <1>1, <1>2, <1>4, <1>6, <1>7, <1>8 DEF StateMeans, Steady, Switching
<1>12. Control'
  <2>1. InPrograms' /\ OneProcessorEach' /\ Placed' /\ StatesMean'
    <3>1. at'[c] <= Len(prog[c]) + 1
      BY <1>2, <1>3, <1>8 DEF Control, InPrograms
    <3> QED BY <1>1, <1>2, <1>3, <1>4, <1>9, <1>10, <3>1, OwnStep
  <2>2. Registers' /\ UsersQueued'
    BY <1>2, <1>3, <1>4 DEF Control, Registers, UsersQueued, Switching
  <2> QED BY <2>1, <2>2 DEF Control
<1>13. Creation'
  BY <1>2, <1>3, NoCreateStep DEF Inductive
<1>14. Joins'
  <2>1. Returned' /\ Results'
    BY <1>2, <1>4, SameResults DEF Inductive, Joins, Returned, Ending
  <2>2. JoinStates' /\ OneJoiner' /\ Waking' /\ WillBeWoken'
    BY <1>2, <1>3, <1>4, NoJoinStep DEF Inductive, Joining
  <2>3. JoinedBefore'
    BY <1>2, <1>3, <1>4, <1>5, NoExchangeStep DEF Inductive, TypeOK, Joins, JoinedBefore
  <2> QED BY <2>1, <2>2, <2>3 DEF Joins
<1>15. Queues'
  <2>1. TasksQueued'
    BY <1>2, <1>4, NoQueueStep DEF Inductive, Queues
  <2>2. HomeboundAtHome'
    BY <1>2, <1>4, StayHomeStep, Constants DEF Inductive, Queues
  <2>3. Alone'
    BY <1>1, <1>2, <1>4, <1>7, <1>8, SameQueues, Constants DEF Inductive, Queues, Alone, Procs, Leaving
  <2> QED BY <2>1, <2>2, <2>3 DEF Queues
<1>16. FaultsExplained'
  BY <1>2 DEF FaultsExplained
<1> QED BY <1>5, <1>12, <1>13, <1>14, <1>15, <1>16 DEF Inductive

(* A context on its way to publish itself found somebody to wait for.      *)
LEMMA JoinerAwaited ==
  ASSUME Inductive, NEW p \in Procs, NEW c \in Contexts, c = current[p], pc[p] \in Joining
  PROVE  /\ c \in Users /\ Started(c) /\ Doing(c) = "join" /\ Target(c) \in Tasks
         /\ joinTask[Target(c)] = None /\ AwaitsJoiner(Target(c))
         /\ joinState[Target(c)] # "JOINABLE"
         /\ \A q \in Procs : current[q] = Target(c) => pc[q] # "wake"
<1>1. /\ TypeOK /\ Control /\ JoinStates /\ OneJoiner /\ OneProcessorEach
      /\ \A q \in Procs, d \in Contexts : current[q] = d => Place(q, d)
  BY DEF Inductive, Joins, Control, Placed
<1>2. c \in Users /\ Started(c) /\ Doing(c) = "join"
  BY <1>1, Constants DEF Place, Joining, Executing
<1>3. Target(c) \in Tasks
  BY <1>1, <1>2, DoingOf DEF Control
<1>4. joinTask[Target(c)] = None /\ AwaitsJoiner(Target(c))
  BY <1>1, <1>2, <1>3 DEF OneJoiner
<1>5. ASSUME NEW q \in Procs, current[q] = Target(c), pc[q] \in {"spin", "wake"}
      PROVE  Passed(Target(c)) /\ \A r \in Procs : current[r] = Target(c) => r = q
  <2>1. Place(q, Target(c))
    BY <1>1, <1>3, <1>5, Constants
  <2> QED BY <1>1, <1>5, <2>1 DEF Place, Ending, Passed, OneProcessorEach
<1>6. joinState[Target(c)] # "JOINABLE"
  BY <1>1, <1>3, <1>4, <1>5 DEF AwaitsJoiner, JoinStates
<1>7. \A q \in Procs : current[q] = Target(c) => pc[q] # "wake"
  BY <1>4, <1>5 DEF AwaitsJoiner
<1> QED BY <1>2, <1>3, <1>4, <1>6, <1>7

(* Nobody sets out to publish itself, and those who do still find somebody *)
(* to wait for.                                                            *)
LEMMA SameJoiners ==
  ASSUME Inductive, current' = current, prog' = prog, at' = at,
         \A q \in Procs : pc'[q] \in Joining => pc[q] \in Joining,
         \A q \in Procs, d \in Users, u \in Tasks :
           current[q] = d /\ pc'[q] \in Joining /\ Target(d) = u /\ joinTask[u] = None /\ AwaitsJoiner(u)
             => joinTask'[u] = None /\ AwaitsJoiner(u)'
  PROVE  OneJoiner'
<1>1. \A d \in Users : Target(d)' = Target(d)
  BY DEF Target
<1>2. \A q, r \in Procs, d, e \in Users :
        /\ current'[q] = d /\ pc'[q] \in Joining /\ current'[r] = e /\ pc'[r] \in Joining
        /\ Target(d) = Target(e)
        => q = r
  BY DEF Inductive, Joins, OneJoiner
<1>3. \A q \in Procs, d \in Users : current'[q] = d /\ pc'[q] \in Joining =>
        /\ Target(d) \in Tasks /\ joinTask[Target(d)] = None /\ AwaitsJoiner(Target(d))
  BY JoinerAwaited, Constants
<1>4. \A q \in Procs, d \in Users : current'[q] = d /\ pc'[q] \in Joining =>
        joinTask'[Target(d)'] = None /\ AwaitsJoiner(Target(d))'
  BY <1>1, <1>3
<1> QED BY <1>1, <1>2, <1>4 DEF OneJoiner

LEMMA JoinWaitStep ==
  ASSUME Inductive, NEW p \in Procs, JoinWait(p)
  PROVE  Inductive'
<1>1. PICK c \in Contexts : c = current[p]
  BY DEF Inductive, TypeOK
<1>2. /\ fault = "none" /\ pc[p] = "wait" /\ pc' = [pc EXCEPT ![p] = "publish"]
      /\ state' = [state EXCEPT ![c] = "WAITING"]
      /\ prog' = prog /\ at' = at /\ joinState' = joinState /\ joinTask' = joinTask
      /\ result' = result /\ deque' = deque /\ current' = current /\ hand' = hand /\ to' = to
      /\ fault' = "none"
  BY <1>1 DEF JoinWait, At, Goto, userVars
<1>3. TypeOK /\ Control
  BY DEF Inductive
<1>4. /\ pc'[p] = "publish" /\ \A q \in Procs : q # p => pc'[q] = pc[q]
      /\ state'[c] = "WAITING" /\ \A d \in Contexts : d # c => state'[d] = state[d]
  BY <1>1, <1>2, <1>3 DEF TypeOK
<1>5. TypeOK'
  BY <1>1, <1>2, <1>3 DEF JoinWait, TypeOK, Labels, userVars
<1>6. Place(p, c) /\ StateMeans(c) /\ \A q \in Procs : current[q] = c => q = p
  BY <1>1, <1>3 DEF Control, Placed, StatesMean, OneProcessorEach
<1>7. \A d \in Contexts : /\ Doing(d)' = Doing(d) /\ Target(d)' = Target(d)
                          /\ Started(d)' <=> Started(d)
                          /\ Rash(d)' <=> Rash(d)
  BY <1>2, RashIsMain DEF Doing, Target, Started
<1>8. c \in Users /\ Steady(c, "RUNNING") /\ Started(c) /\ Doing(c) = "join" /\ Target(c) \in Tasks
      /\ joinState[Target(c)] # "JOINABLE"
  BY <1>1, <1>2, <1>6, JoinerAwaited DEF Place, Executing, Joining
<1>9. Place(p, c)'
  BY <1>2, <1>4, <1>7, <1>8 DEF Place, Executing, Ending, Joining, Leaving, Switching, Steady
<1>10. StateMeans(c)'
  BY <1>4, <1>7, <1>8, Constants DEF StateMeans
<1>11. Control'
  <2>1. InPrograms' /\ OneProcessorEach' /\ Placed' /\ StatesMean'
    <3>1. at'[c] <= Len(prog[c]) + 1
      BY <1>2, <1>3, <1>8 DEF Control, InPrograms
    <3> QED BY <1>1, <1>2, <1>3, <1>4, <1>9, <1>10, <3>1, OwnStep
  <2>2. Registers' /\ UsersQueued'
    BY <1>2, <1>3, <1>4 DEF Control, Registers, UsersQueued, Switching
  <2> QED BY <2>1, <2>2 DEF Control
<1>12. Creation'
  <2>1. \A u \in Tasks : state'[u] = "none" <=> state[u] = "none"
    BY <1>4, <1>8, Constants DEF Steady
  <2> QED BY <1>2, <1>3, <2>1, NoCreateStep DEF Inductive
<1>13. Joins'
  <2>1. Returned' /\ Results'
    BY <1>2, <1>4, <1>8, SameResults, Constants DEF Inductive, Joins, Returned, Ending, Steady
  <2>2. \A u \in Tasks : (Passed(u)' <=> Passed(u)) /\ (AwaitsJoiner(u)' <=> AwaitsJoiner(u))
    BY <1>2, <1>4 DEF Passed, AwaitsJoiner
  <2>3. \A d \in Users : state[d] = "WAITING" => state'[d] = "WAITING"
    BY <1>4, Constants
  <2>4. JoinStates'
    BY <1>2, <1>7, <2>2, <2>3, Constants DEF Inductive, Joins, JoinStates
  <2>5. OneJoiner'
    BY <1>2, <1>4, <2>2, SameJoiners DEF Joining
  <2>6. Waking'
    BY <1>2, <1>4, <1>7, <2>3, Constants DEF Inductive, Joins, Waking
  <2>7. JoinedBefore'
    BY <1>2, <1>3, <1>4, <1>5, NoExchangeStep DEF Inductive, TypeOK, Joins, JoinedBefore
  <2>8. WillBeWoken'
    <3> SUFFICES ASSUME NEW d \in Users, state'[d] = "WAITING"
                 PROVE  LET u == Target(d) IN
                        \/ \E q \in Procs : current'[q] = d /\ pc'[q] = "publish" /\ joinState[u] # "JOINABLE"
                        \/ joinTask[u] = d /\ joinState[u] = "WAIT_TO_JOIN"
                        \/ joinTask[u] = d /\ \E q \in Procs : current'[q] = u /\ pc'[q] = "spin"
                        \/ \E q \in Procs : hand'[q] = d /\ current'[q] = u /\ pc'[q] = "wake"
      BY <1>2, <1>7, Constants DEF WillBeWoken
    <3>1. CASE d = c
      BY <1>1, <1>2, <1>4, <1>8, <3>1
    <3>2. CASE d # c
      <4>1. state[d] = "WAITING" /\ \A q \in Procs : pc[q] \in {"publish", "spin", "wake"} => pc'[q] = pc[q]
        BY <1>2, <1>4, <3>2, Constants
      <4> QED BY <1>2, <4>1 DEF Inductive, Joins, WillBeWoken
    <3> QED BY <3>1, <3>2
  <2> QED BY <2>1, <2>4, <2>5, <2>6, <2>7, <2>8 DEF Joins
<1>14. Queues'
  <2>1. \A d \in Contexts : Rash(d) \/ (state'[d] = "READY" <=> state[d] = "READY")
    BY <1>4, <1>8 DEF Steady
  <2>2. TasksQueued'
    BY <1>2, <1>4, <2>1, NoQueueStep, RashIsMain, Constants DEF Inductive, Queues
  <2>3. HomeboundAtHome'
    BY <1>2, <2>1, StayHomeStep, RashIsMain, Constants DEF Inductive, Queues
  <2>4. Alone'
    BY <1>1, <1>2, <1>4, <2>1, SameQueues, RashIsMain, Constants
    DEF Inductive, Queues, Alone, Procs, Leaving, Switching
  <2> QED BY <2>2, <2>3, <2>4 DEF Queues
<1>15. FaultsExplained'
  BY <1>2 DEF FaultsExplained
<1> QED BY <1>5, <1>11, <1>12, <1>13, <1>14, <1>15 DEF Inductive

LEMMA JoinPublishStep ==
  ASSUME Inductive, NEW p \in Procs, JoinPublish(p)
  PROVE  Inductive'
<1>1. PICK c \in Contexts : c = current[p]
  BY DEF Inductive, TypeOK
<1>2. /\ fault = "none" /\ pc[p] = "publish" /\ pc' = [pc EXCEPT ![p] = "balance"]
      /\ joinTask' = [joinTask EXCEPT ![Target(c)] = c]
      /\ prog' = prog /\ at' = at /\ joinState' = joinState /\ state' = state
      /\ result' = result /\ deque' = deque /\ current' = current /\ hand' = hand /\ to' = to
      /\ fault' = "none"
  BY <1>1 DEF JoinPublish, Publish, At, Goto, userVars
<1>3. TypeOK /\ Control
  BY DEF Inductive
<1>4. PICK u \in Tasks : u = Target(c)
  BY <1>1, <1>2, JoinerAwaited DEF Joining
<1>5. /\ c \in Users /\ Started(c) /\ Doing(c) = "join" /\ joinTask[u] = None /\ AwaitsJoiner(u)
      /\ joinState[u] # "JOINABLE" /\ \A q \in Procs : current[q] = u => pc[q] # "wake"
  BY <1>1, <1>2, <1>4, JoinerAwaited DEF Joining
<1>6. /\ pc'[p] = "balance" /\ \A q \in Procs : q # p => pc'[q] = pc[q]
      /\ joinTask'[u] = c /\ \A t \in Tasks : t # u => joinTask'[t] = joinTask[t]
  BY <1>2, <1>3, <1>4 DEF TypeOK
<1>7. TypeOK'
  BY <1>1, <1>2, <1>3, <1>4, <1>5 DEF JoinPublish, TypeOK, Labels, userVars
<1>8. Place(p, c) /\ StateMeans(c) /\ \A q \in Procs : current[q] = c => q = p
  BY <1>1, <1>3 DEF Control, Placed, StatesMean, OneProcessorEach
<1>9. \A d \in Contexts : /\ Doing(d)' = Doing(d) /\ Target(d)' = Target(d)
                          /\ Started(d)' <=> Started(d)
                          /\ Rash(d)' <=> Rash(d)
  BY <1>2, RashIsMain DEF Doing, Target, Started
<1>10. Steady(c, "WAITING")
  BY <1>2, <1>8 DEF Place
<1>11. Place(p, c)'
  BY <1>2, <1>5, <1>6, <1>9, <1>10 DEF Place, Executing, Ending, Joining, Leaving, Switching, Steady
<1>12. StateMeans(c)'
  BY <1>2, <1>5, <1>9, <1>10, Constants DEF StateMeans, Steady
<1>13. Control'
  <2>1. InPrograms' /\ OneProcessorEach' /\ Placed' /\ StatesMean'
    <3>1. at'[c] <= Len(prog[c]) + 1
      BY <1>2, <1>3, <1>5 DEF Control, InPrograms
    <3> QED BY <1>1, <1>2, <1>3, <1>6, <1>11, <1>12, <3>1, OwnStep
  <2>2. Registers' /\ UsersQueued'
    BY <1>2, <1>3, <1>6 DEF Control, Registers, UsersQueued, Switching
  <2> QED BY <2>1, <2>2 DEF Control
<1>14. Creation'
  BY <1>2, <1>3, NoCreateStep DEF Inductive
<1>15. Joins'
  <2>1. Returned' /\ Results'
    BY <1>2, <1>6, SameResults DEF Inductive, Joins, Returned, Ending
  <2>2. \A t \in Tasks : (Passed(t)' <=> Passed(t)) /\ (AwaitsJoiner(t)' <=> AwaitsJoiner(t))
    BY <1>2, <1>6 DEF Passed, AwaitsJoiner
  <2>3. JoinStates'
    BY <1>2, <1>4, <1>5, <1>6, <1>9, <1>10, <2>2, Constants
    DEF Inductive, Joins, JoinStates, Steady
  <2>4. OneJoiner'
    <3>1. \A q \in Procs : pc'[q] \in Joining => pc[q] \in Joining /\ q # p
      BY <1>2, <1>6 DEF Joining
    <3>2. \A q \in Procs, d \in Users : current[q] = d /\ pc'[q] \in Joining => Target(d) # u
      BY <1>1, <1>2, <1>4, <1>5, <3>1 DEF Inductive, Joins, OneJoiner, Joining
    <3> QED BY <1>2, <1>6, <2>2, <3>1, <3>2, SameJoiners
  <2>5. Waking'
    <3>1. \A q \in Procs : pc'[q] = "wake" => pc[q] = "wake" /\ current'[q] # u
      BY <1>2, <1>5, <1>6
    <3> QED BY <1>2, <1>6, <1>9, <3>1, Constants DEF Inductive, Joins, Waking
  <2>6. JoinedBefore'
    BY <1>2, <1>3, <1>6, <1>7, NoExchangeStep DEF Inductive, TypeOK, Joins, JoinedBefore
  <2>7. WillBeWoken'
    <3> SUFFICES ASSUME NEW d \in Users, state[d] = "WAITING"
                 PROVE  LET w == Target(d) IN
                        \/ \E q \in Procs : current[q] = d /\ pc'[q] = "publish" /\ joinState[w] # "JOINABLE"
                        \/ joinTask'[w] = d /\ joinState[w] = "WAIT_TO_JOIN"
                        \/ joinTask'[w] = d /\ \E q \in Procs : current[q] = w /\ pc'[q] = "spin"
                        \/ \E q \in Procs : hand[q] = d /\ current[q] = w /\ pc'[q] = "wake"
      BY <1>2, <1>9, Constants DEF WillBeWoken
    <3>1. \A q \in Procs : pc[q] \in {"publish", "spin", "wake"} /\ q # p => pc'[q] = pc[q]
      BY <1>6
    <3>2. CASE d = c
      BY <1>2, <1>4, <1>5, <1>6, <3>1, <3>2 DEF AwaitsJoiner
    <3>3. CASE d # c
      <4>1. joinTask'[Target(d)] = d \/ joinTask[Target(d)] # d
        <5>1. Target(d) \in Tasks
          BY <1>3, DoingOf, Constants DEF Control, StatesMean, StateMeans
        <5> QED BY <1>5, <1>6, <5>1, Constants
      <4> QED BY <1>1, <1>2, <3>1, <3>3, <4>1 DEF Inductive, Joins, WillBeWoken
    <3> QED BY <3>2, <3>3
  <2> QED BY <2>1, <2>3, <2>4, <2>5, <2>6, <2>7 DEF Joins
<1>16. Queues'
  <2>1. TasksQueued'
    BY <1>2, <1>6, NoQueueStep DEF Inductive, Queues
  <2>2. HomeboundAtHome'
    BY <1>2, StayHomeStep, Constants DEF Inductive, Queues
  <2>3. Alone'
    BY <1>1, <1>2, <1>5, <1>6, <1>9, <1>10, SameQueues, RashIsMain, Constants
    DEF Inductive, Queues, Alone, Procs, Leaving, Switching, Steady
  <2> QED BY <2>1, <2>2, <2>3 DEF Queues
<1>17. FaultsExplained'
  BY <1>2 DEF FaultsExplained
<1> QED BY <1>7, <1>13, <1>14, <1>15, <1>16, <1>17 DEF Inductive

-----------------------------------------------------------------------------
(* The end of a task *)

LEMMA ReturnStep ==
  ASSUME Inductive, NEW p \in Procs, Return(p)
  PROVE  Inductive'
<1>1. PICK c \in Contexts : c = current[p]
  BY DEF Inductive, TypeOK
<1>2. /\ fault = "none" /\ pc[p] = "run" /\ pc' = [pc EXCEPT ![p] = "finish"]
      /\ c \in Tasks /\ Doing(c) = "end" /\ result' = [result EXCEPT ![c] = c]
      /\ prog' = prog /\ at' = at /\ joinState' = joinState /\ state' = state
      /\ joinTask' = joinTask /\ deque' = deque /\ current' = current /\ hand' = hand /\ to' = to
      /\ fault' = "none"
  BY <1>1 DEF Return, At, Goto, userVars
<1>3. TypeOK /\ Control
  BY DEF Inductive
<1>4. /\ pc'[p] = "finish" /\ \A q \in Procs : q # p => pc'[q] = pc[q]
      /\ result'[c] = c /\ \A d \in Contexts : d # c => result'[d] = result[d]
  BY <1>2, <1>3 DEF TypeOK
<1>5. TypeOK'
  BY <1>1, <1>2, <1>3 DEF Return, TypeOK, Labels, userVars
<1>6. Place(p, c) /\ StateMeans(c) /\ \A q \in Procs : current[q] = c => q = p
  BY <1>1, <1>3 DEF Control, Placed, StatesMean, OneProcessorEach
<1>7. \A d \in Contexts : /\ Doing(d)' = Doing(d) /\ Target(d)' = Target(d)
                          /\ Started(d)' <=> Started(d)
                          /\ Rash(d)' <=> Rash(d)
  BY <1>2, RashIsMain DEF Doing, Target, Started
<1>8. c \in Users /\ Started(c) /\ state[c] = "RUNNING"
  BY <1>2, <1>6, RashIsMain, Constants DEF Place, Executing, Steady
<1>9. Place(p, c)'
  BY <1>2, <1>4, <1>7, <1>8 DEF Place, Executing, Ending, Joining, Leaving, Switching, Steady
<1>10. StateMeans(c)'
  BY <1>1, <1>2, <1>4, <1>7, <1>8 DEF StateMeans, Switching
<1>11. Control'
  <2>1. InPrograms' /\ OneProcessorEach' /\ Placed' /\ StatesMean'
    <3>1. at'[c] <= Len(prog[c]) + 1
      BY <1>2, <1>3, <1>8 DEF Control, InPrograms
    <3>2. \A t \in Tasks : result[t] = t => result'[t] = t
      BY <1>4, Constants
    <3> QED BY <1>1, <1>2, <1>3, <1>4, <1>9, <1>10, <3>1, <3>2, OwnStep
  <2>2. Registers' /\ UsersQueued'
    BY <1>2, <1>3, <1>4 DEF Control, Registers, UsersQueued, Switching
  <2> QED BY <2>1, <2>2 DEF Control
<1>12. Creation'
  BY <1>2, <1>3, NoCreateStep DEF Inductive
<1>13. result[c] # c
  BY <1>2, <1>6, <1>8 DEF Inductive, Joins, Returned, Ending
<1>14. Joins'
  <2>1. Returned'
    <3>1. \A t \in Tasks : t # c => result'[t] = result[t]
      BY <1>4, Constants
    <3>2. \A q \in Procs : pc[q] \in Ending => pc'[q] = pc[q]
      BY <1>2, <1>4 DEF Ending
    <3> QED BY <1>1, <1>2, <1>4, <3>1, <3>2 DEF Inductive, Joins, Returned, Ending
  <2>2. ASSUME NEW t \in Tasks
        PROVE  (Passed(t)' <=> Passed(t)) /\ (AwaitsJoiner(t)' <=> AwaitsJoiner(t))
    <3>1. Passed(t)' <=> Passed(t)
      BY <1>1, <1>2, <1>4, <1>13, Constants DEF Passed
    <3> QED BY <1>2, <1>4, <3>1 DEF AwaitsJoiner
  <2>3. JoinStates'
    BY <1>2, <1>7, <2>2, Constants DEF Inductive, Joins, JoinStates
  <2>4. OneJoiner'
    BY <1>2, <1>4, <2>2, SameJoiners DEF Joining
  <2>5. Waking'
    BY <1>2, <1>4, <1>7, Constants DEF Inductive, Joins, Waking
  <2>6. JoinedBefore'
    BY <1>2, <1>3, <1>4, <1>5, NoExchangeStep DEF Inductive, TypeOK, Joins, JoinedBefore
  <2>7. WillBeWoken'
    <3>1. \A q \in Procs : pc[q] \in {"publish", "spin", "wake"} => pc'[q] = pc[q]
      BY <1>2, <1>4
    <3> QED BY <1>2, <1>7, <3>1, Constants DEF Inductive, Joins, WillBeWoken
  <2>8. Results'
    BY <1>2, <1>4, <1>5, Constants DEF Inductive, Joins, Results, TypeOK
  <2> QED BY <2>1, <2>3, <2>4, <2>5, <2>6, <2>7, <2>8 DEF Joins
<1>15. Queues'
  <2>1. TasksQueued'
    BY <1>2, <1>4, NoQueueStep DEF Inductive, Queues
  <2>2. HomeboundAtHome'
    BY <1>2, StayHomeStep, Constants DEF Inductive, Queues
  <2>3. Alone'
    BY <1>1, <1>2, <1>4, <1>7, SameQueues, Constants DEF Inductive, Queues, Alone, Procs, Leaving
  <2> QED BY <2>1, <2>2, <2>3 DEF Queues
<1>16. FaultsExplained'
  BY <1>2 DEF FaultsExplained
<1> QED BY <1>5, <1>11, <1>12, <1>14, <1>15, <1>16 DEF Inductive

LEMMA FinishStepOf ==
  ASSUME Inductive, NEW p \in Procs, Finish(p)
  PROVE  Inductive'
<1>1. PICK c \in Contexts : c = current[p]
  BY DEF Inductive, TypeOK
<1>2. /\ fault = "none" /\ pc[p] = "finish"
      /\ joinState' = [joinState EXCEPT ![c] = "WAIT_FOR_JOINER"]
      /\ prog' = prog /\ at' = at /\ state' = state /\ result' = result
      /\ joinTask' = joinTask /\ deque' = deque /\ current' = current /\ hand' = hand /\ to' = to
  BY <1>1 DEF Finish, At, userVars
<1>3. TypeOK /\ Control
  BY DEF Inductive
<1>4. Place(p, c) /\ StateMeans(c) /\ \A q \in Procs : current[q] = c => q = p
  BY <1>1, <1>3 DEF Control, Placed, StatesMean, OneProcessorEach
<1>5. /\ c \in Tasks /\ c \in Users /\ Started(c) /\ Doing(c) = "end" /\ result[c] = c
      /\ state[c] = "RUNNING"
  BY <1>2, <1>4, RashIsMain, Constants DEF Place, Executing, Ending, Steady
<1>6. ~ Passed(c)
  BY <1>1, <1>2 DEF Passed
<1>7. /\ fault' = "none"
      /\ \/ joinState[c] = "JOINABLE" /\ joinTask[c] = None /\ pc' = [pc EXCEPT ![p] = "done"]
         \/ joinState[c] = "WAIT_TO_JOIN" /\ pc' = [pc EXCEPT ![p] = "spin"]
  BY <1>1, <1>2, <1>5, <1>6 DEF Finish, Goto, Inductive, Joins, JoinStates
<1>8. /\ pc'[p] \in {"done", "spin"} /\ (pc'[p] = "done" <=> joinState[c] = "JOINABLE")
      /\ pc'[p] = "spin" <=> joinState[c] = "WAIT_TO_JOIN"
      /\ \A q \in Procs : q # p => pc'[q] = pc[q]
      /\ joinState'[c] = "WAIT_FOR_JOINER" /\ \A t \in Tasks : t # c => joinState'[t] = joinState[t]
  BY <1>2, <1>3, <1>5, <1>7 DEF TypeOK
<1>9. TypeOK'
  BY <1>1, <1>2, <1>3, <1>5, <1>7, ZenonT(40) DEF Finish, TypeOK, Labels, Faults, userVars
<1>10. \A d \in Contexts : /\ Doing(d)' = Doing(d) /\ Target(d)' = Target(d)
                           /\ Started(d)' <=> Started(d)
                           /\ Rash(d)' <=> Rash(d)
  BY <1>2, RashIsMain DEF Doing, Target, Started
<1>11. Place(p, c)'
  BY <1>2, <1>5, <1>8, <1>10 DEF Place, Executing, Ending, Joining, Leaving, Switching, Steady
<1>12. StateMeans(c)'
  BY <1>1, <1>2, <1>5, <1>8, <1>10 DEF StateMeans, Switching
<1>13. Control'
  <2>1. InPrograms' /\ OneProcessorEach' /\ Placed' /\ StatesMean'
    <3>1. at'[c] <= Len(prog[c]) + 1
      BY <1>2, <1>3, <1>5 DEF Control, InPrograms
    <3> QED BY <1>1, <1>2, <1>3, <1>8, <1>11, <1>12, <3>1, OwnStep
  <2>2. Registers' /\ UsersQueued'
    BY <1>2, <1>3, <1>8 DEF Control, Registers, UsersQueued, Switching
  <2> QED BY <2>1, <2>2 DEF Control
<1>14. Creation'
  BY <1>2, <1>3, NoCreateStep DEF Inductive
<1>15. Joins'
  <2>1. Returned' /\ Results'
    BY <1>2, <1>8, SameResults DEF Inductive, Joins, Returned, Ending
  <2>2. Passed(c)' /\ \A t \in Tasks \ {c} : Passed(t)' <=> Passed(t)
    BY <1>1, <1>2, <1>4, <1>5, <1>8 DEF Passed
  <2>3. AwaitsJoiner(c) => AwaitsJoiner(c)' /\ joinState[c] = "WAIT_TO_JOIN"
    BY <1>1, <1>2, <1>4, <1>8 DEF AwaitsJoiner
  <2>4. \A t \in Tasks \ {c} : AwaitsJoiner(t)' <=> AwaitsJoiner(t)
    BY <1>1, <1>2, <1>8, <2>2 DEF AwaitsJoiner
  <2>5. JoinStates'
    BY <1>2, <1>5, <1>8, <1>10, <2>2, <2>3, <2>4, Constants DEF Inductive, Joins, JoinStates
  <2>6. OneJoiner'
    BY <1>2, <1>8, <2>3, <2>4, SameJoiners DEF Joining
  <2>7. Waking'
    BY <1>2, <1>8, <1>10, Constants DEF Inductive, Joins, Waking
  <2>8. JoinedBefore'
    BY <1>2, <1>3, <1>8, <1>9, NoExchangeStep DEF Inductive, TypeOK, Joins, JoinedBefore
  <2>9. WillBeWoken'
    <3> SUFFICES ASSUME NEW d \in Users, state[d] = "WAITING"
                 PROVE  LET w == Target(d) IN
                        \/ \E q \in Procs : current[q] = d /\ pc'[q] = "publish" /\ joinState'[w] # "JOINABLE"
                        \/ joinTask[w] = d /\ joinState'[w] = "WAIT_TO_JOIN"
                        \/ joinTask[w] = d /\ \E q \in Procs : current[q] = w /\ pc'[q] = "spin"
                        \/ \E q \in Procs : hand[q] = d /\ current[q] = w /\ pc'[q] = "wake"
      BY <1>2, <1>10, Constants DEF WillBeWoken
    <3>1. \A q \in Procs : pc[q] \in {"publish", "spin", "wake"} => pc'[q] = pc[q]
      BY <1>2, <1>8
    <3>2. Target(d) \in Tasks
      BY <1>3, DoingOf, Constants DEF Control, StatesMean, StateMeans
    <3>3. CASE Target(d) = c
      BY <1>1, <1>8, <3>1, <3>3 DEF Inductive, Joins, WillBeWoken
    <3>4. CASE Target(d) # c
      BY <1>8, <3>1, <3>2, <3>4 DEF Inductive, Joins, WillBeWoken
    <3> QED BY <3>3, <3>4
  <2> QED BY <2>1, <2>5, <2>6, <2>7, <2>8, <2>9 DEF Joins
<1>16. Queues'
  <2>1. TasksQueued'
    BY <1>2, <1>8, NoQueueStep DEF Inductive, Queues
  <2>2. HomeboundAtHome'
    BY <1>2, StayHomeStep, Constants DEF Inductive, Queues
  <2>3. Alone'
    BY <1>1, <1>2, <1>8, <1>10, SameQueues, Constants
    DEF Inductive, Queues, Alone, Procs, Leaving, Switching
  <2> QED BY <2>1, <2>2, <2>3 DEF Queues
<1>17. FaultsExplained'
  BY <1>7 DEF FaultsExplained
<1> QED BY <1>9, <1>13, <1>14, <1>15, <1>16, <1>17 DEF Inductive

(* The joiner that is not waiting any more is a rash main program.         *)
LEMMA SpinFails ==
  ASSUME Inductive, NEW p \in Procs, Spin(p), fault' # "none"
  PROVE  Inductive'
<1>1. PICK c \in Contexts : c = current[p]
  BY DEF Inductive, TypeOK
<1>2. Place(p, c) /\ TypeOK
  BY <1>1 DEF Inductive, Control, Placed
<1>3. c \in Tasks /\ fault = "none" /\ pc[p] = "spin"
  BY <1>1, <1>2 DEF Spin, At, Place, Ending
<1>4. PICK j \in Users : j = joinTask[c]
  BY <1>1, <1>2, <1>3 DEF Spin, TypeOK
<1>5. /\ state[j] # "WAITING" /\ fault' = "join_task_not_waiting"
      /\ UNCHANGED <<userVars, taskVars, deque, current, pc, lb, hand, to, exited>>
  BY <1>1, <1>3, <1>4 DEF Spin, taskVars
<1>6. N > 1 /\ MainJoins
  BY <1>3, <1>4, <1>5, RashIsMain, Constants DEF Inductive, Joins, JoinStates
<1>7. TypeOK'
  BY <1>2, <1>5 DEF TypeOK, Faults, userVars, taskVars
<1>8. FaultsExplained'
  <2>1. MainJoins'
    BY <1>5, <1>6 DEF MainJoins, Does, userVars
  <2> QED BY <1>5, <1>6, <2>1 DEF FaultsExplained
<1> QED BY <1>5, <1>7, <1>8, FaultStep

LEMMA SpinGoesOn ==
  ASSUME Inductive, NEW p \in Procs, Spin(p), fault' = "none"
  PROVE  Inductive'
<1>1. PICK c \in Contexts : c = current[p]
  BY DEF Inductive, TypeOK
<1>2. TypeOK /\ Control
  BY DEF Inductive
<1>3. Place(p, c) /\ StateMeans(c) /\ \A q \in Procs : current[q] = c => q = p
  BY <1>1, <1>2 DEF Control, Placed, StatesMean, OneProcessorEach
<1>4. /\ c \in Tasks /\ c \in Users /\ Started(c) /\ Doing(c) = "end" /\ result[c] = c
      /\ state[c] = "RUNNING" /\ pc[p] = "spin"
  BY <1>1, <1>3, RashIsMain, Constants DEF Spin, At, Place, Executing, Ending, Steady
<1>5. PICK j \in Users : j = joinTask[c]
  BY <1>1, <1>2, <1>4 DEF Spin, TypeOK
<1>6. state[j] = "WAITING" /\ (Rash(j) \/ Target(j) = c)
  BY <1>1, <1>4, <1>5 DEF Inductive, Joins, JoinStates, Spin
<1>7. /\ fault = "none" /\ fault' = "none"
      /\ joinTask' = [joinTask EXCEPT ![c] = None] /\ hand' = [hand EXCEPT ![p] = j]
      /\ pc' = [pc EXCEPT ![p] = "wake"]
      /\ prog' = prog /\ at' = at /\ state' = state /\ result' = result
      /\ joinState' = joinState /\ deque' = deque /\ current' = current /\ to' = to
  BY <1>1, <1>5, <1>6 DEF Spin, At, Goto, userVars
<1>8. /\ pc'[p] = "wake" /\ \A q \in Procs : q # p => pc'[q] = pc[q]
      /\ hand'[p] = j /\ \A q \in Procs : q # p => hand'[q] = hand[q]
      /\ joinTask'[c] = None /\ \A t \in Tasks : t # c => joinTask'[t] = joinTask[t]
  BY <1>2, <1>4, <1>7 DEF TypeOK
<1>9. TypeOK'
  BY <1>1, <1>2, <1>4, <1>5, <1>7, Constants DEF Spin, TypeOK, Labels, Faults, userVars
<1>10. \A d \in Contexts : /\ Doing(d)' = Doing(d) /\ Target(d)' = Target(d)
                           /\ Started(d)' <=> Started(d)
                           /\ Rash(d)' <=> Rash(d)
  BY <1>7, RashIsMain DEF Doing, Target, Started
<1>11. Started(j) /\ Doing(j) = "join"
  BY <1>2, <1>5, <1>6, Constants DEF Control, StatesMean, StateMeans
<1>12. Place(p, c)'
  BY <1>4, <1>7, <1>8, <1>10 DEF Place, Executing, Ending, Joining, Leaving, Switching, Steady
<1>13. StateMeans(c)'
  BY <1>1, <1>4, <1>7, <1>8, <1>10 DEF StateMeans, Switching
<1>14. Control'
  <2>1. InPrograms' /\ OneProcessorEach' /\ Placed' /\ StatesMean'
    <3>1. at'[c] <= Len(prog[c]) + 1
      BY <1>2, <1>4, <1>7 DEF Control, InPrograms
    <3> QED BY <1>1, <1>2, <1>4, <1>7, <1>8, <1>12, <1>13, <3>1, OwnStep
  <2>2. Registers'
    BY <1>2, <1>4, <1>7, <1>8, Constants DEF Control, Registers, Switching
  <2>3. UsersQueued'
    BY <1>2, <1>7 DEF Control, UsersQueued
  <2> QED BY <2>1, <2>2, <2>3 DEF Control
<1>15. Creation'
  BY <1>2, <1>7, NoCreateStep DEF Inductive
<1>16. Joins'
  <2>1. Returned' /\ Results'
    BY <1>7, <1>8, SameResults DEF Inductive, Joins, Returned, Ending
  <2>2. \A t \in Tasks : Passed(t)' <=> Passed(t)
    BY <1>4, <1>7, <1>8 DEF Passed
  <2>3. \A t \in Tasks \ {c} : AwaitsJoiner(t)' <=> AwaitsJoiner(t)
    BY <1>1, <1>7, <1>8, <2>2 DEF AwaitsJoiner
  <2>4. JoinStates'
    BY <1>4, <1>7, <1>8, <1>10, <2>2, <2>3, Constants DEF Inductive, Joins, JoinStates
  <2>5. OneJoiner'
    <3>1. \A q \in Procs : pc'[q] \in Joining => pc[q] \in Joining
      BY <1>7, <1>8 DEF Joining
    <3>2. joinTask[c] # None
      BY <1>5, Constants
    <3> QED BY <1>7, <1>8, <2>3, <3>1, <3>2, SameJoiners
  <2>6. Waking'
    <3>1. ASSUME NEW q \in Procs, NEW d \in Users, NEW t \in Tasks,
                 hand'[q] = d, current'[q] = t
          PROVE  /\ pc'[q] = "wake" => joinTask'[t] = None /\ (Rash(d)' \/ state'[d] = "WAITING")
                 /\ pc'[q] \in {"wake", "deliver"} =>
                      Rash(d)' \/ (Started(d)' /\ Doing(d)' = "join" /\ Target(d)' = t)
      <4>1. CASE q = p
        BY <1>1, <1>6, <1>7, <1>8, <1>10, <1>11, <3>1, <4>1, Constants
      <4>2. CASE q # p
        BY <1>3, <1>7, <1>8, <1>10, <3>1, <4>2, Constants DEF Inductive, Joins, Waking
      <4> QED BY <4>1, <4>2
    <3> QED BY <3>1 DEF Waking
  <2>7. JoinedBefore'
    BY <1>2, <1>7, <1>8, <1>9, NoExchangeStep DEF Inductive, TypeOK, Joins, JoinedBefore
  <2>8. WillBeWoken'
    <3> SUFFICES ASSUME NEW d \in Users, state[d] = "WAITING"
                 PROVE  LET w == Target(d) IN
                        \/ \E q \in Procs : current[q] = d /\ pc'[q] = "publish" /\ joinState[w] # "JOINABLE"
                        \/ joinTask'[w] = d /\ joinState[w] = "WAIT_TO_JOIN"
                        \/ joinTask'[w] = d /\ \E q \in Procs : current[q] = w /\ pc'[q] = "spin"
                        \/ \E q \in Procs : hand'[q] = d /\ current[q] = w /\ pc'[q] = "wake"
      BY <1>7, <1>10, Constants DEF WillBeWoken
    <3>1. \A q \in Procs : q # p => pc'[q] = pc[q] /\ hand'[q] = hand[q]
      BY <1>8
    <3>2. Target(d) \in Tasks
      BY <1>2, DoingOf, Constants DEF Control, StatesMean, StateMeans
    <3>3. CASE d = j /\ Target(d) = c
      BY <1>1, <1>8, <3>3
    <3>4. CASE d # j /\ Target(d) = c
      BY <1>1, <1>3, <1>4, <1>5, <3>1, <3>4 DEF Inductive, Joins, WillBeWoken
    <3>5. CASE Target(d) # c
      BY <1>1, <1>4, <1>8, <3>1, <3>2, <3>5 DEF Inductive, Joins, WillBeWoken
    <3> QED BY <3>3, <3>4, <3>5
  <2> QED BY <2>1, <2>4, <2>5, <2>6, <2>7, <2>8 DEF Joins
<1>17. Queues'
  <2>1. TasksQueued'
    <3>1. \A t \in Contexts : (Queued(t)' <=> Queued(t)) /\ (Single(t)' <=> Single(t))
      BY <1>7, SameQueues
    <3>2. \A q \in Procs : hand[q] = j => pc[q] = "wake" \/ j \notin Tasks
      BY <1>6 DEF Inductive, Queues, TasksQueued, TaskQueued
    <3>3. \A q \in Procs : pc[q] = "wake" /\ hand[q] = j => q = p \/ j \notin Tasks
      <4> SUFFICES ASSUME NEW q \in Procs, pc[q] = "wake", hand[q] = j, j \in Tasks PROVE q = p
        OBVIOUS
      <4>1. current[q] \in Tasks
        BY <1>2 DEF Control, Placed, Place, Ending, TypeOK
      <4>2. ~ Rash(j) /\ Target(j) = c
        BY <1>6, RashIsMain, Constants
      <4>3. Target(j) = current[q]
        BY <4>1, <4>2 DEF Inductive, Joins, Waking
      <4> QED BY <1>3, <4>2, <4>3
    <3>4. ASSUME NEW t \in Tasks PROVE TaskQueued(t)'
      <4>1. TaskQueued(t)
        BY DEF Inductive, Queues, TasksQueued
      <4>2. hand[p] = None
        BY <1>2, <1>4 DEF Control, Registers, Switching
      <4>3. CASE t = j
        BY <1>6, <1>7, <1>8, <3>1, <3>2, <3>3, <4>1, <4>3, Constants DEF TaskQueued
      <4>4. CASE t # j
        BY <1>7, <1>8, <3>1, <4>1, <4>2, <4>4, Constants DEF TaskQueued
      <4> QED BY <4>3, <4>4
    <3> QED BY <3>4 DEF TasksQueued
  <2>2. HomeboundAtHome'
    <3>1. ~ (j \in Procs /\ Homebound(j))
      <4>1. Does(j, "join")
        BY <1>2, <1>5, <1>11, DoesIt DEF Control
      <4> QED BY <1>5, <4>1, Constants DEF Homebound
    <3> QED BY <1>7, <1>8, <3>1, StayHomeStep, Constants DEF Inductive, Queues
  <2>3. Alone'
    BY <1>1, <1>6, <1>7, <1>8, <1>10, SameQueues, Constants
    DEF Inductive, Queues, Alone, Procs, Leaving, Switching
  <2> QED BY <2>1, <2>2, <2>3 DEF Queues
<1>18. FaultsExplained'
  BY <1>7 DEF FaultsExplained
<1> QED BY <1>9, <1>14, <1>15, <1>16, <1>17, <1>18 DEF Inductive

LEMMA SpinStep ==
  ASSUME Inductive, NEW p \in Procs, Spin(p)
  PROVE  Inductive'
BY SpinFails, SpinGoesOn

(* Who is about to be woken waits for the task that wakes it, has been     *)
(* left or is being left, and has no result of its own; but for rash main. *)
LEMMA Woken ==
  ASSUME Inductive, NEW p \in Procs, NEW c \in Contexts, c = current[p],
         pc[p] \in {"wake", "deliver"}, NEW j, j = hand[p]
  PROVE  /\ c \in Tasks /\ Doing(c) = "end" /\ result[c] = c /\ state[c] = "RUNNING" /\ Started(c)
         /\ j \in Users /\ j # c /\ result[j] # j /\ state[j] # "none" /\ state[j] # "DONE"
         /\ pc[p] = "wake" => joinTask[c] = None
         /\ ~ Rash(j) =>
              /\ Started(j) /\ Doing(j) = "join" /\ Target(j) = c
              /\ state[j] = IF pc[p] = "wake" THEN "WAITING" ELSE "READY"
              /\ \A q \in Procs : current[q] = j => pc[q] \in Leaving \cup Switching \cup {"resumed"}
              /\ \A q \in Procs : current[q] = j /\ pc[p] = "wake" => pc[q] # "resumed"
              /\ pc[p] = "wake" => \A q \in Procs : hand[q] = j /\ pc[q] = "wake" => q = p
<1>1. /\ TypeOK /\ Control
      /\ \A q \in Procs : current[q] = c => q = p
      /\ \A q \in Procs, d \in Contexts : current[q] = d => Place(q, d)
      /\ \A d \in Contexts : StateMeans(d)
  BY DEF Inductive, Control, Placed, StatesMean, OneProcessorEach
<1>2. c \in Tasks /\ Doing(c) = "end" /\ result[c] = c /\ state[c] = "RUNNING" /\ Started(c)
  BY <1>1, RashIsMain, Constants DEF Place, Executing, Ending, Steady
<1>3. j \in Users /\ j \in Contexts
  BY <1>1, Constants DEF Control, Registers, UsersQueued, Switching
<1>4. /\ pc[p] = "wake" => joinTask[c] = None /\ (Rash(j) \/ state[j] = "WAITING")
      /\ Rash(j) \/ (Started(j) /\ Doing(j) = "join" /\ Target(j) = c)
  BY <1>2, <1>3 DEF Inductive, Joins, Waking
<1>5. ASSUME ~ Rash(j) PROVE state[j] = IF pc[p] = "wake" THEN "WAITING" ELSE "READY"
  <2>1. CASE pc[p] = "wake"
    BY <1>4, <1>5, <2>1
  <2>2. CASE pc[p] # "wake"
    <3>1. CASE j \in Tasks
      BY <2>2, <3>1 DEF Inductive, Queues, TasksQueued, TaskQueued
    <3>2. CASE N = 1 /\ j = Main
      <4>1. p = Main
        BY <3>2, Constants DEF Procs, Main
      <4> QED BY <2>2, <3>2, <4>1 DEF Inductive, Queues, Alone
    <3>3. CASE j = Main /\ Homebound(j)
      <4>1. j \in Procs /\ AtHome(j)
        BY <3>3, Constants DEF Inductive, Queues, HomeboundAtHome
      <4> QED BY <4>1 DEF AtHome
    <3> QED BY <1>3, <1>5, <2>2, <3>1, <3>2, <3>3, RashIsMain, Constants DEF Users
  <2> QED BY <2>1, <2>2
<1>6. state[j] # "none" /\ state[j] # "DONE" /\ j # c
  <2>1. CASE Rash(j)
    <3>1. j \notin Tasks
      BY <1>3, <2>1, RashIsMain, Constants
    <3> QED BY <1>1, <1>2, <1>3, <3>1 DEF StateMeans
  <2>2. CASE ~ Rash(j)
    BY <1>2, <1>4, <1>5, <2>2
  <2> QED BY <2>1, <2>2
<1>7. result[j] # j
  <2>1. CASE Rash(j)
    BY <1>1, <1>3, <2>1, RashIsMain, Constants DEF TypeOK
  <2>2. CASE ~ Rash(j)
    <3>1. \A q \in Procs : current[q] = j => pc[q] \notin Ending
      BY <1>1, <1>3, <1>4, <2>2 DEF Place
    <3>2. result[j] = j => j \in Tasks
      BY <1>1, <1>3, Constants DEF TypeOK
    <3> QED BY <1>6, <3>1, <3>2 DEF Inductive, Joins, Returned
  <2> QED BY <2>1, <2>2
<1>8. ASSUME ~ Rash(j), NEW q \in Procs, current[q] = j
      PROVE  /\ pc[q] \in Leaving \cup Switching \cup {"resumed"}
             /\ pc[p] = "wake" => pc[q] # "resumed"
  <2>1. pc[q] \notin Executing
    BY <1>1, <1>3, <1>5, <1>8 DEF Place, Steady
  <2>2. pc[q] # "publish"
    <3>1. CASE pc[p] = "wake"
      BY <1>3, <1>4, <1>8, <3>1, JoinerAwaited DEF Joining
    <3>2. CASE pc[p] # "wake"
      BY <1>1, <1>3, <1>5, <1>8, <3>2 DEF Place, Steady
    <3> QED BY <3>1, <3>2
  <2>3. pc[p] = "wake" => pc[q] # "resumed"
    BY <1>1, <1>3, <1>4, <1>5, <1>8 DEF Place
  <2>4. pc[q] \in Labels
    BY <1>1 DEF TypeOK
  <2> QED BY <2>1, <2>2, <2>3, <2>4 DEF Labels, Leaving, Switching, Executing, Ending
<1>9. ASSUME ~ Rash(j), pc[p] = "wake", NEW q \in Procs, hand[q] = j, pc[q] = "wake" PROVE q = p
  <2>1. current[q] \in Tasks
    BY <1>1, <1>9 DEF Place, Ending, TypeOK
  <2> QED BY <1>1, <1>3, <1>4, <1>9, <2>1 DEF Inductive, Joins, Waking
<1> QED BY <1>2, <1>3, <1>4, <1>5, <1>6, <1>7, <1>8, <1>9

LEMMA WakeStep ==
  ASSUME Inductive, NEW p \in Procs, Wake(p)
  PROVE  Inductive'
<1>1. PICK c \in Contexts : c = current[p]
  BY DEF Inductive, TypeOK
<1>2. PICK j \in Users : j = hand[p]
  BY DEF Inductive, Control, Registers, UsersQueued, Wake, At
<1>3. TypeOK /\ Control /\ pc[p] = "wake"
  BY DEF Inductive, Wake, At
<1>4. /\ c \in Tasks /\ Doing(c) = "end" /\ result[c] = c /\ state[c] = "RUNNING" /\ Started(c)
      /\ j # c /\ joinTask[c] = None /\ state[j] # "none" /\ state[j] # "DONE"
      /\ ~ Rash(j) =>
           /\ state[j] = "WAITING" /\ Target(j) = c /\ Started(j) /\ Doing(j) = "join"
           /\ \A q \in Procs : current[q] = j => pc[q] \in Leaving \cup Switching
           /\ \A q \in Procs : hand[q] = j /\ pc[q] = "wake" => q = p
  BY <1>1, <1>2, <1>3, Woken
<1>5. c \in Users /\ j \in Contexts
  BY <1>4, Constants
<1>6. /\ fault = "none" /\ fault' = "none"
      /\ state' = [state EXCEPT ![j] = "READY"] /\ result' = result
      /\ pc' = [pc EXCEPT ![p] = "deliver"]
      /\ prog' = prog /\ at' = at /\ joinTask' = joinTask /\ hand' = hand
      /\ joinState' = joinState /\ deque' = deque /\ current' = current /\ to' = to
      /\ got' = got /\ lb' = lb /\ exited' = exited
  BY <1>1, <1>2, <1>4 DEF Wake, At, Goto, userVars
<1>7. /\ pc'[p] = "deliver" /\ \A q \in Procs : q # p => pc'[q] = pc[q]
      /\ state'[j] = "READY" /\ \A d \in Contexts : d # j => state'[d] = state[d]
  BY <1>3, <1>5, <1>6 DEF TypeOK
<1>8. TypeOK'
  BY <1>3, <1>4, <1>5, <1>6 DEF TypeOK, Labels
<1>9. \A d \in Contexts : /\ Doing(d)' = Doing(d) /\ Target(d)' = Target(d)
                          /\ Started(d)' <=> Started(d)
                          /\ Rash(d)' <=> Rash(d)
  BY <1>6, RashIsMain DEF Doing, Target, Started
<1>10. /\ Place(p, c) /\ StateMeans(c) /\ \A q \in Procs : current[q] = c => q = p
       /\ StateMeans(j) /\ \A q \in Procs : current[q] = j => Place(q, j)
  BY <1>1, <1>3, <1>5 DEF Control, Placed, StatesMean, OneProcessorEach
<1>11. ~ Rash(j) => BeingServed(j)'
  BY <1>1, <1>2, <1>4, <1>5, <1>6, <1>7, <1>9 DEF BeingServed
<1>12. Control'
  <2>1. InPrograms' /\ OneProcessorEach' /\ Placed' /\ StatesMean'
    <3> DEFINE X == {c, j}
    <3>1. StateMeans(c)'
      BY <1>1, <1>4, <1>5, <1>6, <1>7, <1>9, <1>10 DEF StateMeans, Switching
    <3>2. StateMeans(j)'
      <4>1. CASE ~ Rash(j)
        BY <1>2, <1>4, <1>5, <1>7, <1>9, <1>11, <4>1 DEF StateMeans
      <4>2. CASE Rash(j)
        <5>1. Started(j) /\ j \notin Tasks
          BY <1>2, <1>5, <1>10, <4>2, RashIsMain, Constants DEF StateMeans
        <5>2. ASSUME NEW q \in Procs, current[q] = j
              PROVE  pc[q] \in Executing \/ Doing(j) \in {"yield", "join"}
          <6>1. Place(q, j) /\ Doing(j) # "loop" /\ pc[q] \in Labels
            BY <1>2, <1>3, <1>5, <1>10, <5>1, <5>2, DoingLoop DEF Control, TypeOK
          <6> QED BY <1>4, <6>1
                  DEF Place, Labels, Leaving, Switching, Joining, Executing, Ending
        <5>3. Doing(j) \in {"yield", "join"} \/ \E q \in Procs : current[q] = j /\ pc[q] \in Executing
          <6>1. state[j] \in {"READY", "RUNNING", "WAITING"}
            BY <1>3, <1>4, <1>5 DEF TypeOK
          <6> QED BY <1>2, <1>10, <5>1, <5>2, <6>1 DEF StateMeans
        <5>4. (\E q \in Procs : current[q] = j /\ pc[q] \in Executing)
                => \E q \in Procs : current'[q] = j /\ pc'[q] \in Executing
          BY <1>1, <1>4, <1>6, <1>7
        <5> QED BY <1>5, <1>7, <1>9, <4>2, <5>1, <5>3, <5>4 DEF StateMeans
      <4> QED BY <4>1, <4>2
    <3>3. ASSUME NEW q \in Procs, current[q] = j PROVE Place(q, j)'
      <4>1. q # p /\ pc'[q] = pc[q] /\ Place(q, j)
        BY <1>1, <1>4, <1>7, <1>10, <3>3
      <4>2. CASE ~ Rash(j)
        <5>1. pc[q] \in Leaving \cup Switching
          BY <1>4, <3>3, <4>2
        <5> QED BY <1>2, <1>4, <1>7, <1>9, <1>5, <4>1, <4>2, <5>1
                DEF Place, Leaving, Executing, Ending, Joining, Switching
      <4>3. CASE Rash(j)
        <5>1. j \notin Tasks
          BY <1>5, <4>3, RashIsMain
        <5>2. state'[j] = "READY" /\ Steady(j, "RUNNING")' /\ Steady(j, "WAITING")'
          BY <1>5, <1>7, <1>9, <4>3 DEF Steady
        <5> QED BY <1>4, <1>5, <1>6, <1>9, <4>1, <5>1, <5>2 DEF Place
      <4> QED BY <4>2, <4>3
    <3>4. Place(p, c)'
      BY <1>4, <1>5, <1>6, <1>7, <1>9 DEF Place, Executing, Ending, Joining, Leaving, Switching, Steady
    <3>5. /\ \A d \in X, q \in Procs : current[q] = d => Place(q, d)'
          /\ \A d \in X : StateMeans(d)'
          /\ X \in SUBSET Contexts /\ current[p] \in X
          /\ \A d \in Contexts \ X : state'[d] = state[d] /\ result'[d] = result[d]
          /\ \A q \in Procs : pc[q] = "deliver" => pc'[q] = "deliver" /\ hand'[q] = hand[q]
      BY <1>1, <1>3, <1>5, <1>6, <1>7, <1>10, <3>1, <3>2, <3>3, <3>4
    <3>6. \A d \in X : d \in Users => at'[d] <= Len(prog[d]) + 1
      BY <1>3, <1>6 DEF Control, InPrograms
    <3> HIDE DEF X
    <3> QED BY <1>3, <1>6, <1>7, <3>5, <3>6, LocalStep
  <2>2. Registers' /\ UsersQueued'
    BY <1>3, <1>6, <1>7 DEF Control, Registers, UsersQueued, Switching
  <2> QED BY <2>1, <2>2 DEF Control
<1>13. Creation'
  <2>1. \A u \in Tasks : state'[u] = "none" <=> state[u] = "none"
    BY <1>4, <1>7, Constants
  <2> QED BY <1>3, <1>6, <2>1, NoCreateStep DEF Inductive
<1>14. Joins'
  <2>1. Returned' /\ Results'
    <3>1. \A q \in Procs : pc[q] \in Ending => pc'[q] \in Ending
      BY <1>7 DEF Ending
    <3> QED BY <1>4, <1>6, <1>7, <3>1, SameResults, Constants DEF Inductive, Joins, Returned
  <2>2. \A t \in Tasks : (Passed(t)' <=> Passed(t)) /\ (AwaitsJoiner(t)' <=> AwaitsJoiner(t))
    <3>1. \A t \in Tasks : Passed(t)' <=> Passed(t)
      BY <1>3, <1>6, <1>7 DEF Passed
    <3> QED BY <1>3, <1>6, <1>7, <3>1 DEF AwaitsJoiner
  <2>3. JoinStates'
    <3>1. \A t \in Tasks : joinTask[t] = j => Rash(j)
      BY <1>2, <1>4, Constants DEF Inductive, Joins, JoinStates
    <3> QED BY <1>6, <1>7, <1>9, <2>2, <3>1, Constants DEF Inductive, Joins, JoinStates
  <2>4. OneJoiner'
    BY <1>3, <1>6, <1>7, <2>2, SameJoiners DEF Joining
  <2>5. Waking'
    <3>1. \A q \in Procs : pc'[q] = "wake" => pc[q] = "wake" /\ (hand[q] # j \/ Rash(j))
      BY <1>3, <1>4, <1>7
    <3>2. \A q \in Procs : pc'[q] = "deliver" => pc[q] \in {"wake", "deliver"}
      BY <1>3, <1>7
    <3> QED BY <1>6, <1>7, <1>9, <3>1, <3>2, Constants DEF Inductive, Joins, Waking
  <2>6. JoinedBefore'
    BY <1>3, <1>6, <1>7, <1>8, NoExchangeStep DEF Inductive, TypeOK, Joins, JoinedBefore
  <2>7. WillBeWoken'
    <3>1. \A d \in Users : state'[d] = "WAITING" => state[d] = "WAITING" /\ d # j
      BY <1>7, Constants
    <3>2. \A q \in Procs : pc[q] \in {"publish", "spin", "wake"} /\ hand[q] # j => pc'[q] = pc[q]
      BY <1>2, <1>7
    <3>3. \A q \in Procs : pc[q] \in {"publish", "spin"} => pc'[q] = pc[q]
      BY <1>3, <1>7
    <3> QED BY <1>6, <1>9, <3>1, <3>2, <3>3, Constants DEF Inductive, Joins, WillBeWoken
  <2> QED BY <2>1, <2>3, <2>4, <2>5, <2>6, <2>7 DEF Joins
<1>15. Queues'
  <2>1. TasksQueued'
    <3>1. \A t \in Contexts : (Queued(t)' <=> Queued(t)) /\ (Single(t)' <=> Single(t))
      BY <1>6, SameQueues
    <3>2. ASSUME NEW t \in Tasks PROVE TaskQueued(t)'
      <4>1. TaskQueued(t) /\ t \in Contexts /\ ~ Rash(t)
        BY RashIsMain, Constants DEF Inductive, Queues, TasksQueued
      <4>2. CASE t = j
        BY <1>2, <1>4, <1>6, <1>7, <3>1, <4>1, <4>2 DEF TaskQueued
      <4>3. CASE t # j
        BY <1>2, <1>6, <1>7, <3>1, <4>1, <4>3 DEF TaskQueued
      <4> QED BY <4>2, <4>3
    <3> QED BY <3>2 DEF TasksQueued
  <2>2. HomeboundAtHome'
    BY <1>5, <1>6, <1>7, StayHomeStep, Constants DEF Inductive, Queues
  <2>3. Alone'
    <3>1. N = 1 => ~ Rash(j)
      BY <1>5, RashIsMain
    <3>2. N = 1 => Procs = {Main}
      BY DEF Procs, Main
    <3> QED BY <1>1, <1>2, <1>4, <1>6, <1>7, <1>9, <3>1, <3>2, SameQueues, Constants
            DEF Inductive, Queues, Alone, Leaving, Switching
  <2> QED BY <2>1, <2>2, <2>3 DEF Queues
<1>16. FaultsExplained'
  BY <1>6 DEF FaultsExplained
<1> QED BY <1>8, <1>12, <1>13, <1>14, <1>15, <1>16 DEF Inductive

LEMMA DeliverResultStep ==
  ASSUME Inductive, NEW p \in Procs, DeliverResult(p)
  PROVE  Inductive'
<1>1. PICK c \in Contexts : c = current[p]
  BY DEF Inductive, TypeOK
<1>2. PICK j \in Users : j = hand[p]
  BY DEF Inductive, Control, Registers, UsersQueued, DeliverResult, At
<1>3. TypeOK /\ Control /\ pc[p] = "deliver"
  BY DEF Inductive, DeliverResult, At
<1>4. /\ c \in Tasks /\ Doing(c) = "end" /\ result[c] = c /\ state[c] = "RUNNING" /\ Started(c)
      /\ j # c /\ result[j] # j /\ state[j] # "none" /\ state[j] # "DONE"
      /\ ~ Rash(j) => /\ state[j] = "READY" /\ Target(j) = c /\ Started(j) /\ Doing(j) = "join"
  BY <1>1, <1>2, <1>3, Woken
<1>5. c \in Users /\ j \in Contexts
  BY <1>4, Constants
<1>6. /\ fault = "none" /\ fault' = "none"
      /\ state' = state /\ result' = [result EXCEPT ![j] = c]
      /\ pc' = [pc EXCEPT ![p] = "woken"]
      /\ prog' = prog /\ at' = at /\ joinTask' = joinTask /\ hand' = hand
      /\ joinState' = joinState /\ deque' = deque /\ current' = current /\ to' = to
      /\ got' = got /\ lb' = lb /\ exited' = exited
  BY <1>1, <1>2, <1>4 DEF DeliverResult, Deliver, At, Goto, userVars
<1>7. /\ pc'[p] = "woken" /\ \A q \in Procs : q # p => pc'[q] = pc[q]
      /\ result'[j] = c /\ \A d \in Contexts : d # j => result'[d] = result[d]
  BY <1>3, <1>5, <1>6 DEF TypeOK
<1>8. TypeOK'
  BY <1>3, <1>4, <1>5, <1>6 DEF TypeOK, Labels
<1>9. \A d \in Contexts : /\ Doing(d)' = Doing(d) /\ Target(d)' = Target(d)
                          /\ Started(d)' <=> Started(d)
                          /\ Rash(d)' <=> Rash(d)
  BY <1>6, RashIsMain DEF Doing, Target, Started
<1>10. /\ Place(p, c) /\ StateMeans(c) /\ \A q \in Procs : current[q] = c => q = p
       /\ StateMeans(j) /\ \A q \in Procs : current[q] = j => Place(q, j)
  BY <1>1, <1>3, <1>5 DEF Control, Placed, StatesMean, OneProcessorEach
<1>11. ~ Rash(j) => Served(j)'
  BY <1>4, <1>5, <1>7, <1>9 DEF Served
<1>12. Control'
  <2>1. InPrograms' /\ OneProcessorEach' /\ Placed' /\ StatesMean'
    <3> DEFINE X == {c, j}
    <3>1. StateMeans(c)'
      BY <1>1, <1>4, <1>5, <1>6, <1>7, <1>9, <1>10 DEF StateMeans, Switching
    <3>2. StateMeans(j)'
      <4>1. CASE ~ Rash(j)
        BY <1>2, <1>4, <1>5, <1>6, <1>9, <1>11, <4>1 DEF StateMeans
      <4>2. CASE Rash(j)
        <5>1. j \notin Tasks
          BY <1>5, <4>2, RashIsMain
        <5>2. \A q \in Procs : current[q] = j => current'[q] = j /\ pc'[q] = pc[q]
          BY <1>1, <1>4, <1>6, <1>7
        <5> QED BY <1>4, <1>6, <1>9, <1>10, <1>5, <4>2, <5>1, <5>2 DEF StateMeans
      <4> QED BY <4>1, <4>2
    <3>3. ASSUME NEW q \in Procs, current[q] = j PROVE Place(q, j)'
      <4>1. q # p /\ pc'[q] = pc[q] /\ Place(q, j)
        BY <1>1, <1>4, <1>7, <1>10, <3>3
      <4>2. pc[q] \notin Ending
        BY <1>4, <1>5, <4>1, RashIsMain DEF Place
      <4>3. \A x : Steady(j, x)' <=> Steady(j, x)
        BY <1>5, <1>6, SameSteady
      <4> QED BY <1>2, <1>4, <1>5, <1>6, <1>9, <4>1, <4>2, <4>3 DEF Place
    <3>4. Place(p, c)'
      BY <1>4, <1>5, <1>6, <1>7, <1>9 DEF Place, Executing, Ending, Joining, Leaving, Switching, Steady
    <3>5. /\ \A d \in X, q \in Procs : current[q] = d => Place(q, d)'
          /\ \A d \in X : StateMeans(d)'
          /\ X \in SUBSET Contexts /\ current[p] \in X
          /\ \A d \in Contexts \ X : state'[d] = state[d] /\ result'[d] = result[d]
          /\ \A q \in Procs : pc[q] = "deliver" /\ hand[q] \notin X =>
               pc'[q] = "deliver" /\ hand'[q] = hand[q]
      BY <1>1, <1>2, <1>5, <1>6, <1>7, <1>10, <3>1, <3>2, <3>3, <3>4
    <3>6. \A d \in X : d \in Users => at'[d] <= Len(prog[d]) + 1
      BY <1>3, <1>6 DEF Control, InPrograms
    <3>7. \A t \in Tasks : result[t] = t => result'[t] = t
      BY <1>4, <1>7, Constants
    <3> HIDE DEF X
    <3> QED BY <1>3, <1>6, <1>7, <3>5, <3>6, <3>7, LocalStep
  <2>2. Registers' /\ UsersQueued'
    BY <1>3, <1>6, <1>7 DEF Control, Registers, UsersQueued, Switching
  <2> QED BY <2>1, <2>2 DEF Control
<1>13. Creation'
  BY <1>3, <1>6, NoCreateStep DEF Inductive
<1>14. Joins'
  <2>0. \A t \in Tasks : result'[t] = t <=> result[t] = t
    BY <1>4, <1>7, Constants
  <2>1. Returned'
    <3>1. \A q \in Procs : pc[q] \in Ending => pc'[q] \in Ending
      BY <1>7 DEF Ending
    <3> QED BY <1>6, <2>0, <3>1 DEF Inductive, Joins, Returned
  <2>2. Results'
    <3>1. ASSUME NEW d \in Users, result'[d] # None PROVE result'[d] \in Tasks /\ result'[result'[d]] = result'[d]
      <4>1. CASE d = j
        BY <1>4, <1>7, <4>1, Constants
      <4>2. CASE d # j
        <5>1. result[d] \in Tasks /\ result[result[d]] = result[d] /\ result'[d] = result[d]
          BY <1>3, <1>7, <3>1, <4>2, Constants DEF Inductive, Joins, Results, TypeOK
        <5> QED BY <2>0, <5>1
      <4> QED BY <4>1, <4>2
    <3> QED BY <3>1 DEF Results
  <2>3. JoinStates' /\ OneJoiner' /\ Waking' /\ WillBeWoken'
    BY <1>3, <1>6, <1>7, <2>0, NoJoinStep DEF Inductive, Joining
  <2>4. JoinedBefore'
    BY <1>3, <1>6, <1>7, <1>8, NoExchangeStep DEF Inductive, TypeOK, Joins, JoinedBefore
  <2> QED BY <2>1, <2>2, <2>3, <2>4 DEF Joins
<1>15. Queues'
  <2>1. TasksQueued'
    BY <1>3, <1>6, <1>7, NoQueueStep DEF Inductive, Queues
  <2>2. HomeboundAtHome'
    BY <1>6, StayHomeStep, Constants DEF Inductive, Queues
  <2>3. Alone'
    BY <1>1, <1>3, <1>4, <1>6, <1>7, <1>9, SameQueues, Constants
    DEF Inductive, Queues, Alone, Procs, Leaving, Switching
  <2> QED BY <2>1, <2>2, <2>3 DEF Queues
<1>16. FaultsExplained'
  BY <1>6 DEF FaultsExplained
<1> QED BY <1>8, <1>12, <1>13, <1>14, <1>15, <1>16 DEF Inductive

(* Who is held or runs is in no deque, but for a rash main program.        *)
LEMMA NotQueued ==
  ASSUME Inductive, NEW c \in Users, state[c] # "READY" \/ \E p \in Procs : hand[p] = c
  PROVE  InDeque(c) => Rash(c)
<1> SUFFICES ASSUME InDeque(c), ~ Rash(c) PROVE FALSE
  OBVIOUS
<1>1. Queued(c)
  BY DEF InDeque, Queued, Position, Inductive, Control, UsersQueued
<1>2. CASE c \in Tasks
  BY <1>1, <1>2 DEF Inductive, Queues, TasksQueued, TaskQueued
<1>3. CASE N = 1 /\ c = Main
  <2>1. Procs = {Main}
    BY <1>3 DEF Procs, Main
  <2> QED BY <1>1, <1>3, <2>1 DEF Inductive, Queues, Alone
<1>4. CASE c = Main /\ Homebound(c)
  BY <1>1, <1>4, Constants DEF Inductive, Queues, HomeboundAtHome, AtHome
<1> QED BY <1>2, <1>3, <1>4, RashIsMain, Constants DEF Users

(* Pushing a context twice is a fault that only a rash main program meets. *)
LEMMA ScheduleFaults ==
  ASSUME NEW p \in Procs, NEW c \in Users, Schedule(p, c), fault = "none", prog' = prog,
         InDeque(c) => Rash(c)
  PROVE  fault' \in Faults /\ FaultsExplained'
<1>1. CASE InDeque(c)
  <2>1. N > 1 /\ MainJoins
    BY <1>1, RashIsMain, Constants
  <2>2. MainJoins'
    BY <2>1 DEF MainJoins, Does
  <2> QED BY <1>1, <2>1, <2>2 DEF Schedule, Faults, FaultsExplained
<1>2. CASE ~ InDeque(c)
  BY <1>2 DEF Schedule, Faults, FaultsExplained
<1> QED BY <1>1, <1>2

LEMMA ScheduleJoinerStep ==
  ASSUME Inductive, NEW p \in Procs, ScheduleJoiner(p)
  PROVE  Inductive'
<1>1. PICK c \in Contexts : c = current[p]
  BY DEF Inductive, TypeOK
<1>2. PICK j \in Users : j = hand[p]
  BY DEF Inductive, Control, Registers, UsersQueued, ScheduleJoiner, At
<1>3. TypeOK /\ Control /\ pc[p] = "woken"
  BY DEF Inductive, ScheduleJoiner, At
<1>4. /\ fault = "none" /\ Schedule(p, j)
      /\ Push(p, j) /\ hand' = [hand EXCEPT ![p] = None] /\ pc' = [pc EXCEPT ![p] = "done"]
      /\ prog' = prog /\ at' = at /\ got' = got /\ state' = state /\ joinTask' = joinTask
      /\ joinState' = joinState /\ result' = result /\ current' = current /\ to' = to
      /\ lb' = lb /\ exited' = exited
  BY <1>1, <1>2 DEF ScheduleJoiner, Schedule, At, Goto, userVars, taskVars
<1>f. fault' \in Faults /\ FaultsExplained'
  BY <1>2, <1>4, NotQueued, ScheduleFaults
<1>5. /\ pc'[p] = "done" /\ \A q \in Procs : q # p => pc'[q] = pc[q]
      /\ hand'[p] = None /\ \A q \in Procs : q # p => hand'[q] = hand[q]
  BY <1>3, <1>4 DEF TypeOK
<1>6. /\ deque' \in [Procs -> Seq(Users)] /\ Queued(j)' /\ (~ Queued(j) => Single(j)')
      /\ \A d \in Contexts \ {j} : (Queued(d)' <=> Queued(d)) /\ (Single(d) => Single(d)')
  BY <1>3, <1>4, Pushed DEF Control
<1>7. TypeOK'
  <2>1. deque' \in [Procs -> Seq(Contexts)]
    BY <1>6, UsersAreContexts
  <2> QED BY <1>3, <1>4, <1>f, <2>1 DEF TypeOK, Labels
<1>8. Place(p, c) /\ StateMeans(c) /\ \A q \in Procs : current[q] = c => q = p
  BY <1>1, <1>3 DEF Control, Placed, StatesMean, OneProcessorEach
<1>9. \A d \in Contexts : /\ Doing(d)' = Doing(d) /\ Target(d)' = Target(d)
                          /\ Started(d)' <=> Started(d)
                          /\ Rash(d)' <=> Rash(d)
  BY <1>4, RashIsMain DEF Doing, Target, Started
<1>10. Place(p, c)' /\ StateMeans(c)'
  BY <1>1, <1>3, <1>4, <1>5, <1>8, <1>9
  DEF Place, StateMeans, Executing, Ending, Joining, Leaving, Switching, Steady
<1>11. Control'
  <2>1. InPrograms' /\ OneProcessorEach' /\ Placed' /\ StatesMean'
    <3>1. c \in Users => at'[c] <= Len(prog[c]) + 1
      BY <1>3, <1>4 DEF Control, InPrograms
    <3> QED BY <1>1, <1>3, <1>4, <1>5, <1>10, <3>1, OwnStep
  <2>2. Registers'
    BY <1>3, <1>4, <1>5, Constants DEF Control, Registers, Switching
  <2>3. UsersQueued'
    BY <1>3, <1>4, <1>6 DEF Control, UsersQueued
  <2> QED BY <2>1, <2>2, <2>3 DEF Control
<1>12. Creation'
  BY <1>3, <1>4, NoCreateStep DEF Inductive
<1>13. Joins'
  <2>1. Returned' /\ Results'
    BY <1>3, <1>4, <1>5, SameResults DEF Inductive, Joins, Returned, Ending
  <2>2. JoinStates' /\ OneJoiner' /\ Waking' /\ WillBeWoken'
    BY <1>3, <1>4, <1>5, NoJoinStep DEF Inductive, Joining
  <2>3. JoinedBefore'
    BY <1>3, <1>4, <1>5, <1>7, NoExchangeStep DEF Inductive, TypeOK, Joins, JoinedBefore
  <2> QED BY <2>1, <2>2, <2>3 DEF Joins
<1>14. Queues'
  <2>1. j \in Tasks => /\ ~ Queued(j) /\ state[j] = "READY"
                       /\ \A q \in Procs : hand'[q] # j /\ to[q] # j
    BY <1>2, <1>3, <1>5, Constants DEF Inductive, Queues, TasksQueued, TaskQueued
  <2>2. \A t \in Tasks \ {j}, q \in Procs : hand'[q] = t <=> hand[q] = t
    BY <1>2, <1>5, Constants
  <2>3. TasksQueued'
    BY <1>3, <1>4, <1>5, <2>1, <2>2, PushTasks DEF Inductive, Queues, Control
  <2>4. \A d \in Procs : Homebound(d) => d # j /\ d \in Contexts
    BY <1>2, Constants DEF Inductive, Queues, HomeboundAtHome, AtHome
  <2>5. HomeboundAtHome'
    BY <1>4, <1>5, <1>6, <2>4, StayHomeStep, Constants DEF Inductive, Queues
  <2>6. Alone'
    <3> SUFFICES ASSUME N = 1 PROVE Alone'
      BY DEF Alone
    <3>1. p = Main /\ to[Main] = None /\ Main \in Contexts
      BY <1>3, Constants DEF Procs, Main, Control, Registers, Switching
    <3>2. CASE j = Main
      BY <1>2, <1>3, <1>4, <1>5, <1>6, <1>9, <3>1, <3>2, Constants
      DEF Inductive, Queues, Alone, Leaving, Switching
    <3>3. CASE j # Main
      BY <1>2, <1>3, <1>4, <1>5, <1>6, <1>9, <3>1, <3>3, Constants
      DEF Inductive, Queues, Alone, Leaving, Switching
    <3> QED BY <3>2, <3>3
  <2> QED BY <2>3, <2>5, <2>6 DEF Queues
<1> QED BY <1>7, <1>11, <1>12, <1>13, <1>14, <1>f DEF Inductive

LEMMA DoneStep ==
  ASSUME Inductive, NEW p \in Procs, Done(p)
  PROVE  Inductive'
<1>1. PICK c \in Contexts : c = current[p]
  BY DEF Inductive, TypeOK
<1>2. TypeOK /\ Control /\ pc[p] = "done"
  BY DEF Inductive, Done, At
<1>3. /\ fault = "none" /\ fault' = "none"
      /\ state' = [state EXCEPT ![c] = "DONE"] /\ pc' = [pc EXCEPT ![p] = "balance"]
      /\ prog' = prog /\ at' = at /\ deque' = deque /\ hand' = hand /\ joinTask' = joinTask
      /\ joinState' = joinState /\ result' = result /\ current' = current /\ to' = to
  BY <1>1 DEF Done, At, Goto, userVars
<1>4. /\ pc'[p] = "balance" /\ \A q \in Procs : q # p => pc'[q] = pc[q]
      /\ state'[c] = "DONE" /\ \A d \in Contexts : d # c => state'[d] = state[d]
  BY <1>1, <1>2, <1>3 DEF TypeOK
<1>5. TypeOK'
  BY <1>1, <1>2, <1>3 DEF Done, TypeOK, Labels, userVars
<1>6. Place(p, c) /\ StateMeans(c) /\ \A q \in Procs : current[q] = c => q = p
  BY <1>1, <1>2 DEF Control, Placed, StatesMean, OneProcessorEach
<1>7. c \in Tasks /\ c \in Users /\ Started(c) /\ Doing(c) = "end" /\ result[c] = c /\ state[c] = "RUNNING"
  BY <1>2, <1>6, RashIsMain, Constants DEF Place, Executing, Ending, Steady
<1>8. \A d \in Contexts : /\ Doing(d)' = Doing(d) /\ Target(d)' = Target(d)
                          /\ Started(d)' <=> Started(d)
                          /\ Rash(d)' <=> Rash(d)
  BY <1>3, RashIsMain DEF Doing, Target, Started
<1>9. Place(p, c)' /\ StateMeans(c)'
  BY <1>3, <1>4, <1>7, <1>8
  DEF Place, StateMeans, Executing, Ending, Joining, Leaving, Switching, Steady
<1>10. Control'
  <2>1. InPrograms' /\ OneProcessorEach' /\ Placed' /\ StatesMean'
    <3>1. at'[c] <= Len(prog[c]) + 1
      BY <1>2, <1>3, <1>7 DEF Control, InPrograms
    <3> QED BY <1>1, <1>2, <1>3, <1>4, <1>9, <3>1, OwnStep
  <2>2. Registers' /\ UsersQueued'
    BY <1>2, <1>3, <1>4 DEF Control, Registers, UsersQueued, Switching
  <2> QED BY <2>1, <2>2 DEF Control
<1>11. Creation'
  <2>1. \A u \in Tasks : state'[u] = "none" <=> state[u] = "none"
    BY <1>4, <1>7, Constants
  <2> QED BY <1>2, <1>3, <2>1, NoCreateStep DEF Inductive
<1>12. Joins'
  <2>1. Returned' /\ Results'
    <3>1. \A q \in Procs : pc[q] \in Ending /\ current[q] # c => pc'[q] = pc[q]
      BY <1>1, <1>4
    <3> QED BY <1>3, <1>4, <3>1, SameResults, Constants DEF Inductive, Joins, Returned
  <2>2. \A d \in Users : state'[d] = "WAITING" <=> state[d] = "WAITING"
    BY <1>4, <1>7, Constants
  <2>3. JoinStates' /\ OneJoiner' /\ Waking' /\ WillBeWoken'
    BY <1>2, <1>3, <1>4, <2>2, NoJoinStep DEF Inductive, Joining
  <2>4. JoinedBefore'
    BY <1>2, <1>3, <1>4, <1>5, NoExchangeStep DEF Inductive, TypeOK, Joins, JoinedBefore
  <2> QED BY <2>1, <2>3, <2>4 DEF Joins
<1>13. Queues'
  <2>1. \A d \in Contexts : state'[d] = "READY" <=> state[d] = "READY"
    BY <1>4, <1>7
  <2>2. TasksQueued'
    BY <1>2, <1>3, <1>4, <2>1, NoQueueStep, Constants DEF Inductive, Queues
  <2>3. HomeboundAtHome'
    BY <1>3, <2>1, StayHomeStep, Constants DEF Inductive, Queues
  <2>4. Alone'
    BY <1>1, <1>3, <1>4, <1>7, <1>8, <2>1, SameQueues, Constants
       DEF Inductive, Queues, Alone, Procs, Leaving, Switching
  <2> QED BY <2>2, <2>3, <2>4 DEF Queues
<1>14. FaultsExplained'
  BY <1>3 DEF FaultsExplained
<1> QED BY <1>5, <1>10, <1>11, <1>12, <1>13, <1>14 DEF Inductive

-----------------------------------------------------------------------------
(* task_join and task_create *)

(* The exchange finds no other joiner: the context goes on to wait.        *)
LEMMA JoinWaits ==
  ASSUME Inductive, NEW p \in Procs, Join(p), joinState[Target(current[p])] = "JOINABLE"
  PROVE  Inductive'
<1>1. PICK c \in Contexts : c = current[p]
  BY DEF Inductive, TypeOK
<1>2. TypeOK /\ Control /\ pc[p] = "run" /\ Doing(c) = "join"
  BY <1>1 DEF Inductive, Join, At
<1>3. Place(p, c) /\ StateMeans(c) /\ \A q \in Procs : current[q] = c => q = p
  BY <1>1, <1>2 DEF Control, Placed, StatesMean, OneProcessorEach
<1>4. c \in Users /\ Started(c) /\ Steady(c, "RUNNING")
  BY <1>2, <1>3 DEF Place, Executing
<1>5. PICK u \in Tasks : u = Target(c)
  BY <1>2, <1>4, DoingOf DEF Control
<1>6. /\ fault = "none" /\ fault' = "none" /\ joinState[u] = "JOINABLE"
      /\ pc' = [pc EXCEPT ![p] = "wait"] /\ joinState' = [joinState EXCEPT ![u] = "WAIT_TO_JOIN"]
      /\ prog' = prog /\ at' = at /\ deque' = deque /\ hand' = hand /\ joinTask' = joinTask
      /\ state' = state /\ result' = result /\ current' = current /\ to' = to
      /\ got' = got /\ lb' = lb /\ exited' = exited
  BY <1>1, <1>5 DEF Join, At, Goto
<1>7. /\ pc'[p] = "wait" /\ \A q \in Procs : q # p => pc'[q] = pc[q]
      /\ joinState'[u] = "WAIT_TO_JOIN" /\ \A t \in Tasks : t # u => joinState'[t] = joinState[t]
  BY <1>2, <1>6 DEF TypeOK
<1>8. TypeOK'
  BY <1>2, <1>6 DEF TypeOK, Labels
<1>9. \A d \in Contexts : /\ Doing(d)' = Doing(d) /\ Target(d)' = Target(d)
                          /\ Started(d)' <=> Started(d)
                          /\ Rash(d)' <=> Rash(d)
  BY <1>6, RashIsMain DEF Doing, Target, Started
<1>10. Place(p, c)' /\ StateMeans(c)'
  BY <1>1, <1>2, <1>3, <1>4, <1>6, <1>7, <1>9
  DEF Place, StateMeans, Executing, Ending, Joining, Leaving, Switching, Steady
<1>11. Control'
  <2>1. InPrograms' /\ OneProcessorEach' /\ Placed' /\ StatesMean'
    <3>1. at'[c] <= Len(prog[c]) + 1
      BY <1>2, <1>4, <1>6 DEF Control, InPrograms
    <3> QED BY <1>1, <1>2, <1>6, <1>7, <1>10, <3>1, OwnStep
  <2>2. Registers' /\ UsersQueued'
    BY <1>2, <1>6, <1>7 DEF Control, Registers, UsersQueued, Switching
  <2> QED BY <2>1, <2>2 DEF Control
<1>12. Creation'
  BY <1>2, <1>6, NoCreateStep DEF Inductive
<1>13. ~ Passed(u) /\ joinTask[u] = None
  BY <1>6 DEF Inductive, Joins, JoinStates
<1>14. ~ AwaitsJoiner(u)
  <2>1. \A q \in Procs : pc[q] = "spin" => Place(q, current[q])
    BY <1>2 DEF Control, Placed, TypeOK
  <2>2. \A q \in Procs : current[q] = u /\ pc[q] = "spin" => Passed(u)
    BY <1>2, <2>1 DEF Control, OneProcessorEach, Place, Ending, Passed
  <2> QED BY <1>6, <1>13, <2>2 DEF AwaitsJoiner
<1>15. Joins'
  <2>1. Returned' /\ Results'
    BY <1>2, <1>6, <1>7, SameResults DEF Inductive, Joins, Returned, Ending
  <2>2. \A t \in Tasks : Passed(t)' <=> Passed(t)
    BY <1>2, <1>6, <1>7 DEF Passed
  <2>3. AwaitsJoiner(u)' /\ \A t \in Tasks \ {u} : AwaitsJoiner(t)' <=> AwaitsJoiner(t)
    BY <1>2, <1>6, <1>7, <1>13, <2>2 DEF AwaitsJoiner
  <2>4. JoinStates'
    BY <1>6, <1>7, <1>9, <1>13, <2>2, <2>3, Constants DEF Inductive, Joins, JoinStates
  <2>5. OneJoiner'
    <3>1. \A q \in Procs : pc'[q] \in Joining => q = p \/ pc[q] \in Joining
      BY <1>7
    <3>2. \A q \in Procs, d \in Users : q # p /\ current[q] = d /\ pc'[q] \in Joining =>
            /\ Target(d) \in Tasks \ {u}
            /\ joinTask[Target(d)] = None /\ AwaitsJoiner(Target(d))
      BY <1>14, <3>1, JoinerAwaited, Constants
    <3>3. \A q \in Procs, d \in Users : current'[q] = d /\ pc'[q] \in Joining =>
            joinTask'[Target(d)'] = None /\ AwaitsJoiner(Target(d))'
      BY <1>1, <1>5, <1>6, <1>9, <1>13, <2>3, <3>2, Constants
    <3>4. \A q, r \in Procs, d, e \in Users :
            /\ current'[q] = d /\ pc'[q] \in Joining /\ current'[r] = e /\ pc'[r] \in Joining
            /\ Target(d) = Target(e)
            => q = r
      BY <1>1, <1>5, <1>6, <3>1, <3>2 DEF Inductive, Joins, OneJoiner
    <3>5. \A d \in Users : Target(d)' = Target(d)
      BY <1>9, Constants
    <3> QED BY <3>3, <3>4, <3>5 DEF OneJoiner
  <2>6. Waking'
    BY <1>6, <1>7, <1>9, Constants DEF Inductive, Joins, Waking
  <2>7. JoinedBefore'
    <3>1. \A t \in Tasks : Exchanged(t) => Exchanged(t)'
      BY <1>2, <1>6, <1>7, <1>8, NoExchangeStep DEF TypeOK
    <3>2. Exchanged(u)'
      <4>1. at[c] \in Nat /\ JoinsAt(c, at[c], u)
        BY <1>2, <1>4, <1>5, DoingOf DEF JoinsAt, Control
      <4> QED BY <1>1, <1>3, <1>4, <1>6, <1>7, <4>1 DEF Exchanged, JoinsAt
    <3> QED BY <1>7, <3>1, <3>2 DEF Inductive, Joins, JoinedBefore
  <2>8. WillBeWoken'
    <3> SUFFICES ASSUME NEW d \in Users, state[d] = "WAITING"
                 PROVE  LET w == Target(d) IN
                        \/ \E q \in Procs : current[q] = d /\ pc'[q] = "publish" /\ joinState'[w] # "JOINABLE"
                        \/ joinTask[w] = d /\ joinState'[w] = "WAIT_TO_JOIN"
                        \/ joinTask[w] = d /\ \E q \in Procs : current[q] = w /\ pc'[q] = "spin"
                        \/ \E q \in Procs : hand[q] = d /\ current[q] = w /\ pc'[q] = "wake"
      BY <1>6, <1>9, Constants DEF WillBeWoken
    <3>1. \A q \in Procs : pc[q] \in {"publish", "spin", "wake"} => pc'[q] = pc[q]
      BY <1>2, <1>7
    <3>2. Target(d) \in Tasks
      BY <1>2, DoingOf, Constants DEF Control, StatesMean, StateMeans
    <3>3. joinState[Target(d)] # "JOINABLE" => joinState'[Target(d)] # "JOINABLE"
      BY <1>7, <3>2
    <3>4. joinState[Target(d)] = "WAIT_TO_JOIN" => joinState'[Target(d)] = "WAIT_TO_JOIN"
      BY <1>7, <3>2
    <3> QED BY <3>1, <3>3, <3>4 DEF Inductive, Joins, WillBeWoken
  <2> QED BY <2>1, <2>4, <2>5, <2>6, <2>7, <2>8 DEF Joins
<1>16. Queues'
  <2>1. TasksQueued'
    BY <1>2, <1>6, <1>7, NoQueueStep DEF Inductive, Queues
  <2>2. HomeboundAtHome'
    BY <1>6, StayHomeStep, Constants DEF Inductive, Queues
  <2>3. Alone'
    BY <1>1, <1>2, <1>6, <1>7, <1>9, SameQueues, Constants
    DEF Inductive, Queues, Alone, Procs, Leaving, Switching
  <2> QED BY <2>1, <2>2, <2>3 DEF Queues
<1>17. FaultsExplained'
  BY <1>6 DEF FaultsExplained
<1> QED BY <1>8, <1>11, <1>12, <1>15, <1>16, <1>17 DEF Inductive

(* The task has finished: its joiner goes on at once.                      *)
LEMMA JoinGoesOn ==
  ASSUME Inductive, NEW p \in Procs, Join(p), joinState[Target(current[p])] = "WAIT_FOR_JOINER"
  PROVE  Inductive'
<1>1. PICK c \in Contexts : c = current[p]
  BY DEF Inductive, TypeOK
<1>2. TypeOK /\ Control /\ pc[p] = "run" /\ Doing(c) = "join"
  BY <1>1 DEF Inductive, Join, At
<1>3. Place(p, c) /\ StateMeans(c) /\ \A q \in Procs : current[q] = c => q = p
  BY <1>1, <1>2 DEF Control, Placed, StatesMean, OneProcessorEach
<1>4. c \in Users /\ Started(c) /\ Steady(c, "RUNNING")
  BY <1>2, <1>3 DEF Place, Executing
<1>5. PICK u \in Tasks : u = Target(c)
  BY <1>2, <1>4, DoingOf DEF Control
<1>6. /\ fault = "none" /\ fault' = "none" /\ joinState[u] = "WAIT_FOR_JOINER"
      /\ at' = [at EXCEPT ![c] = at[c] + 1] /\ got' = [got EXCEPT ![c][u] = result[u]]
      /\ joinState' = [joinState EXCEPT ![u] = "WAIT_TO_JOIN"]
      /\ prog' = prog /\ pc' = pc /\ deque' = deque /\ hand' = hand /\ joinTask' = joinTask
      /\ state' = state /\ result' = result /\ current' = current /\ to' = to
      /\ lb' = lb /\ exited' = exited
  BY <1>1, <1>5 DEF Join, At, Advance, TheirResult
<1>7. /\ at[c] \in Nat /\ at[c] >= 1 /\ at[c] <= Len(prog[c]) /\ Len(prog[c]) \in Nat
      /\ JoinsAt(c, at[c], u)
  BY <1>2, <1>4, <1>5, DoingOf DEF JoinsAt, Control, TypeOK
<1>8. /\ at'[c] = at[c] + 1 /\ at' \in [Users -> Nat]
      /\ \A d \in Users : d # c => at'[d] = at[d]
      /\ joinState'[u] = "WAIT_TO_JOIN" /\ \A t \in Tasks : t # u => joinState'[t] = joinState[t]
  BY <1>2, <1>4, <1>6, <1>7 DEF TypeOK
<1>9. TypeOK'
  <2>1. got' \in [Users -> [Tasks -> Tasks \cup {None}]]
    BY <1>2, <1>4, <1>6, Constants DEF TypeOK
  <2> QED BY <1>2, <1>6, <1>8, <2>1 DEF TypeOK
<1>10. \A d \in Contexts : d # c =>
         /\ Doing(d)' = Doing(d)
         /\ d \in Users => Target(d)' = Target(d) /\ Started(d)' = Started(d)
  BY <1>8, <1>6, SameDoing
<1>r. \A d \in Contexts : Rash(d)' <=> Rash(d)
  BY <1>6, RashIsMain
<1>11. Started(c)'
  BY <1>7, <1>8 DEF Started
<1>12. Place(p, c)' /\ StateMeans(c)'
  BY <1>1, <1>2, <1>4, <1>6, <1>11, <1>r
  DEF Place, StateMeans, Executing, Ending, Joining, Leaving, Switching, Steady
<1>13. Control'
  <2>1. InPrograms' /\ OneProcessorEach' /\ Placed' /\ StatesMean'
    <3>1. at'[c] <= Len(prog[c]) + 1
      BY <1>7, <1>8
    <3> QED BY <1>1, <1>2, <1>6, <1>8, <1>12, <3>1, OwnStep
  <2>2. Registers' /\ UsersQueued'
    BY <1>2, <1>6 DEF Control, Registers, UsersQueued, Switching
  <2> QED BY <2>1, <2>2 DEF Control
<1>14. Creation'
  BY <1>2, <1>6, <1>8, NoCreateStep DEF Inductive
<1>15. Joins'
  <2>1. Returned' /\ Results'
    BY <1>6, SameResults DEF Inductive, Joins, Returned
  <2>2. \A t \in Tasks : Passed(t)' <=> Passed(t)
    BY <1>6 DEF Passed
  <2>3. Passed(u)
    BY <1>6 DEF Inductive, Joins, JoinStates
  <2>4. \A t \in Tasks : AwaitsJoiner(t)' <=> AwaitsJoiner(t)
    BY <1>6, <1>8, <2>2, <2>3 DEF AwaitsJoiner
  <2>5. \A d \in Users : state[d] = "WAITING" => d # c /\ d \in Contexts
    BY <1>4, Constants DEF Steady
  <2>6. JoinStates'
    <3>1. \A t \in Tasks : joinTask[t] = c => Rash(c)
      BY <1>4, <2>5, Constants DEF Inductive, Joins, JoinStates
    <3> QED BY <1>6, <1>8, <1>10, <1>r, <2>2, <2>4, <3>1, Constants
            DEF Inductive, Joins, JoinStates
  <2>7. OneJoiner'
    <3>1. \A q \in Procs, d \in Users : current[q] = d /\ pc[q] \in Joining =>
            /\ Target(d)' = Target(d) /\ Target(d) \in Tasks
            /\ joinTask[Target(d)] = None /\ AwaitsJoiner(Target(d))
      BY <1>2, <1>3, <1>10, JoinerAwaited, Constants DEF Joining
    <3>2. \A q \in Procs, d \in Users : current'[q] = d /\ pc'[q] \in Joining =>
            joinTask'[Target(d)'] = None /\ AwaitsJoiner(Target(d))'
      BY <1>6, <2>4, <3>1
    <3>3. \A q, r \in Procs, d, e \in Users :
            /\ current'[q] = d /\ pc'[q] \in Joining /\ current'[r] = e /\ pc'[r] \in Joining
            /\ Target(d) = Target(e)
            => q = r
      BY <1>6 DEF Inductive, Joins, OneJoiner
    <3> QED BY <1>6, <3>1, <3>2, <3>3 DEF OneJoiner
  <2>8. Waking'
    <3>1. \A q \in Procs : hand[q] = c /\ pc[q] \in {"wake", "deliver"} => Rash(c)
      BY <1>2, <1>4, Woken DEF TypeOK, Steady
    <3> QED BY <1>6, <1>10, <1>r, <3>1, Constants DEF Inductive, Joins, Waking
  <2>9. JoinedBefore'
    <3>1. \A t \in Tasks : Exchanged(t) => Exchanged(t)'
      <4>1. ASSUME NEW d \in Users PROVE at'[d] >= at[d]
        <5>1. at[d] \in Nat /\ (at'[d] = at[d] \/ at'[d] = at[d] + 1)
          BY <1>2, <1>8 DEF TypeOK
        <5> QED BY <5>1
      <4>2. \A d \in Users : at'[d] > at[d] \/ at'[d] = at[d]
        BY <1>7, <1>8
      <4> QED BY <1>2, <1>6, <1>8, <4>1, <4>2, NoExchangeStep
    <3>2. Exchanged(u)'
      BY <1>4, <1>6, <1>7, <1>8 DEF Exchanged, JoinsAt
    <3> QED BY <1>8, <3>1, <3>2 DEF Inductive, Joins, JoinedBefore
  <2>10. WillBeWoken'
    <3> SUFFICES ASSUME NEW d \in Users, state[d] = "WAITING"
                 PROVE  LET w == Target(d) IN
                        \/ \E q \in Procs : current[q] = d /\ pc[q] = "publish" /\ joinState'[w] # "JOINABLE"
                        \/ joinTask[w] = d /\ joinState'[w] = "WAIT_TO_JOIN"
                        \/ joinTask[w] = d /\ \E q \in Procs : current[q] = w /\ pc[q] = "spin"
                        \/ \E q \in Procs : hand[q] = d /\ current[q] = w /\ pc[q] = "wake"
      BY <1>6, <1>10, <2>5, Constants DEF WillBeWoken
    <3>1. Target(d) \in Tasks
      BY <1>2, DoingOf, Constants DEF Control, StatesMean, StateMeans
    <3>2. joinState[Target(d)] # "JOINABLE" => joinState'[Target(d)] # "JOINABLE"
      BY <1>8, <3>1
    <3>3. joinState[Target(d)] = "WAIT_TO_JOIN" => joinState'[Target(d)] = "WAIT_TO_JOIN"
      BY <1>8, <3>1
    <3> QED BY <3>2, <3>3 DEF Inductive, Joins, WillBeWoken
  <2> QED BY <2>1, <2>6, <2>7, <2>8, <2>9, <2>10 DEF Joins
<1>16. Queues'
  <2>1. TasksQueued'
    BY <1>6, NoQueueStep DEF Inductive, Queues
  <2>2. HomeboundAtHome'
    BY <1>6, StayHomeStep, Constants DEF Inductive, Queues
  <2>3. Alone'
    BY <1>1, <1>2, <1>6, <1>10, SameQueues, Constants
    DEF Inductive, Queues, Alone, Procs, Leaving, Switching
  <2> QED BY <2>1, <2>2, <2>3 DEF Queues
<1>17. FaultsExplained'
  BY <1>6 DEF FaultsExplained
<1> QED BY <1>9, <1>13, <1>14, <1>15, <1>16, <1>17 DEF Inductive

(* A second join of the same task: another place of a program joined it.   *)
LEMMA JoinFails ==
  ASSUME Inductive, NEW p \in Procs, Join(p), joinState[Target(current[p])] = "WAIT_TO_JOIN"
  PROVE  Inductive'
<1>1. PICK c \in Contexts : c = current[p]
  BY DEF Inductive, TypeOK
<1>2. TypeOK /\ Control /\ pc[p] = "run" /\ Doing(c) = "join"
  BY <1>1 DEF Inductive, Join, At
<1>3. Place(p, c) /\ \A q \in Procs : current[q] = c => q = p
  BY <1>1, <1>2 DEF Control, Placed, OneProcessorEach
<1>4. c \in Users /\ Started(c)
  BY <1>2, <1>3 DEF Place, Executing
<1>5. PICK u \in Tasks : u = Target(c)
  BY <1>2, <1>4, DoingOf DEF Control
<1>6. /\ fault' = "joined_twice" /\ joinState[u] = "WAIT_TO_JOIN"
      /\ joinState' = [joinState EXCEPT ![u] = "WAIT_TO_JOIN"]
      /\ prog' = prog /\ at' = at /\ got' = got /\ pc' = pc /\ deque' = deque /\ hand' = hand
      /\ joinTask' = joinTask /\ state' = state /\ result' = result /\ current' = current /\ to' = to
      /\ lb' = lb /\ exited' = exited
  BY <1>1, <1>5 DEF Join
<1>7. joinState' = joinState
  BY <1>2, <1>6 DEF TypeOK
<1>8. TypeOK'
  BY <1>2, <1>6, <1>7 DEF TypeOK, Faults
<1>9. JoinsAt(c, at[c], u) /\ at[c] \in Nat
  BY <1>2, <1>4, <1>5, DoingOf DEF JoinsAt, Control
<1>10. PICK d \in Users, i \in Nat :
         /\ JoinsAt(d, i, u)
         /\ i < at[d] \/ (i = at[d] /\ \A q \in Procs : current[q] = d => pc[q] # "run")
  BY <1>6 DEF Inductive, Joins, JoinedBefore, Exchanged
<1>11. d # c \/ i # at[c]
  BY <1>1, <1>2, <1>9, <1>10
<1>12. ~ JoinedOnce
  <2>1. /\ at[c] \in Places(prog, c, "join", u)
        /\ i \in Places(prog, d, "join", u)
    <3>1. prog[c] \in Seq(Ops) /\ prog[d] \in Seq(Ops)
      BY <1>2, <1>4 DEF TypeOK
    <3> QED BY <1>9, <1>10, <3>1 DEF JoinsAt, Places
  <2> QED BY <1>4, <1>11, <2>1 DEF JoinedOnce
<1>13. FaultsExplained'
  BY <1>6, <1>12 DEF FaultsExplained, JoinedOnce
<1> QED BY <1>6, <1>7, <1>8, <1>13, FaultStep DEF userVars, taskVars

LEMMA JoinStep ==
  ASSUME Inductive, NEW p \in Procs, Join(p)
  PROVE  Inductive'
BY JoinWaits, JoinGoesOn, JoinFails DEF Join

(* A task about to be created has not been.                                *)
LEMMA Uncreated ==
  ASSUME Inductive, NEW c \in Users, Started(c), Doing(c) = "create", NEW u \in Tasks, u = Target(c)
  PROVE  /\ Creates(c, at[c], u) /\ at[c] \in Nat /\ at[c] <= Len(prog[c]) /\ Len(prog[c]) \in Nat
         /\ \A e \in Users, i \in Nat : Creates(e, i, u) => e = c /\ i = at[c]
         /\ ~ Created(u) /\ state[u] = "none" /\ at[u] = 0
<1>1. TypeOK /\ Control /\ prog \in Programs
  BY DEF Inductive, Control, InPrograms
<1>2. Creates(c, at[c], u) /\ at[c] \in Nat /\ at[c] <= Len(prog[c]) /\ Len(prog[c]) \in Nat
  BY <1>1, DoingOf DEF Creates, Control, TypeOK
<1>3. ASSUME NEW e \in Users, NEW i \in Nat, Creates(e, i, u) PROVE e = c /\ i = at[c]
  <2>1. prog[c] \in Seq(Ops) /\ prog[e] \in Seq(Ops)
    BY <1>1 DEF TypeOK
  <2>2. at[c] \in Places(prog, c, "create", u) /\ i \in Places(prog, e, "create", u)
    BY <1>2, <1>3, <2>1 DEF Creates, Places
  <2>3. WellFormed(prog)
    BY <1>1, SchedAssumption
  <2>4. \A k \in Places(prog, c, "create", u), j \in Places(prog, e, "create", u) : c = e /\ k = j
    BY <2>3, SMTT(30) DEF WellFormed
  <2> QED BY <2>2, <2>4
<1>4. ~ Created(u)
  BY <1>2, <1>3 DEF Created
<1>5. state[u] = "none"
  BY <1>4 DEF Inductive, Creation, Existing
<1>6. at[u] = 0
  BY <1>1, <1>5, Constants DEF Control, StatesMean, StateMeans, Started, TypeOK
<1> QED BY <1>2, <1>3, <1>4, <1>5, <1>6

LEMMA CreateStep ==
  ASSUME Inductive, NEW p \in Procs, Create(p)
  PROVE  Inductive'
<1>1. PICK c \in Contexts : c = current[p]
  BY DEF Inductive, TypeOK
<1>2. TypeOK /\ Control /\ pc[p] = "run" /\ Doing(c) = "create"
  BY <1>1 DEF Inductive, Create, At
<1>3. Place(p, c) /\ StateMeans(c) /\ \A q \in Procs : current[q] = c => q = p
  BY <1>1, <1>2 DEF Control, Placed, StatesMean, OneProcessorEach
<1>4. c \in Users /\ Started(c) /\ Steady(c, "RUNNING")
  BY <1>2, <1>3 DEF Place, Executing
<1>5. PICK u \in Tasks : u = Target(c)
  BY <1>2, <1>4, DoingOf DEF Control
<1>6. /\ Creates(c, at[c], u) /\ at[c] \in Nat /\ at[c] <= Len(prog[c]) /\ Len(prog[c]) \in Nat
      /\ \A e \in Users, i \in Nat : Creates(e, i, u) => e = c /\ i = at[c]
      /\ ~ Created(u) /\ state[u] = "none" /\ at[u] = 0
  BY <1>2, <1>4, <1>5, Uncreated
<1>7. u # c /\ u \in Users /\ u \in Contexts
  <2>1. at[u] # at[c]
    BY <1>4, <1>6 DEF Started
  <2> QED BY <2>1, Constants
<1>8. /\ fault = "none" /\ fault' = "none"
      /\ state' = [state EXCEPT ![u] = "READY"] /\ Push(p, u)
      /\ at' = [at EXCEPT ![c] = at[c] + 1]
      /\ prog' = prog /\ got' = got /\ pc' = pc /\ hand' = hand /\ joinTask' = joinTask
      /\ joinState' = joinState /\ result' = result /\ current' = current /\ to' = to
      /\ lb' = lb /\ exited' = exited
  BY <1>1, <1>5 DEF Create, At, Advance
<1>9. /\ at'[c] = at[c] + 1 /\ at' \in [Users -> Nat]
      /\ \A d \in Users : d # c => at'[d] = at[d]
      /\ state'[u] = "READY" /\ \A d \in Contexts : d # u => state'[d] = state[d]
  BY <1>2, <1>4, <1>6, <1>7, <1>8 DEF TypeOK
<1>10. /\ deque' \in [Procs -> Seq(Users)] /\ Queued(u)' /\ (~ Queued(u) => Single(u)')
       /\ \A d \in Contexts \ {u} : (Queued(d)' <=> Queued(d)) /\ (Single(d) => Single(d)')
  BY <1>2, <1>7, <1>8, Pushed DEF Control
<1>11. TypeOK'
  <2>1. deque' \in [Procs -> Seq(Contexts)]
    BY <1>10, UsersAreContexts
  <2> QED BY <1>2, <1>7, <1>8, <1>9, <2>1 DEF TypeOK
<1>12. \A d \in Contexts : d # c =>
         /\ Doing(d)' = Doing(d)
         /\ d \in Users => Target(d)' = Target(d) /\ Started(d)' = Started(d)
  BY <1>8, <1>9, SameDoing
<1>r. \A d \in Contexts : Rash(d)' <=> Rash(d)
  BY <1>8, RashIsMain
<1>13. Started(c)' /\ ~ Started(u)
  BY <1>6, <1>9 DEF Started
<1>14. \A q \in Procs : current[q] # u
  BY <1>2, <1>7, <1>13 DEF Control, Placed, Place
<1>15. Control'
  <2>1. InPrograms' /\ OneProcessorEach' /\ Placed' /\ StatesMean'
    <3> DEFINE X == {c, u}
    <3>1. at'[c] <= Len(prog[c]) + 1 /\ at'[u] <= Len(prog[u]) + 1
      BY <1>2, <1>6, <1>7, <1>9 DEF Control, InPrograms
    <3>2. Place(p, c)'
      BY <1>2, <1>4, <1>7, <1>8, <1>9, <1>13, <1>r
      DEF Place, Executing, Ending, Joining, Leaving, Switching, Steady
    <3>3. StateMeans(c)'
      BY <1>1, <1>2, <1>4, <1>7, <1>8, <1>9, <1>13, <1>r
      DEF StateMeans, Executing, Switching, Steady
    <3>4. StateMeans(u)'
      BY <1>7, <1>9, <1>12, <1>13 DEF StateMeans
    <3>5. /\ \A d \in X, q \in Procs : current[q] = d => Place(q, d)'
          /\ \A d \in X : StateMeans(d)' /\ (d \in Users => at'[d] <= Len(prog[d]) + 1)
          /\ X \in SUBSET Contexts /\ current[p] \in X
          /\ \A d \in Contexts \ X : /\ state'[d] = state[d]
                                     /\ d \in Users => at'[d] = at[d]
      BY <1>1, <1>3, <1>7, <1>9, <1>14, <3>1, <3>2, <3>3, <3>4
    <3> HIDE DEF X
    <3> QED BY <1>2, <1>8, <3>5, LocalStep
  <2>2. Registers'
    BY <1>2, <1>8 DEF Control, Registers, Switching
  <2>3. UsersQueued'
    BY <1>2, <1>8, <1>10 DEF Control, UsersQueued
  <2> QED BY <2>1, <2>2, <2>3 DEF Control
<1>16. \A e \in Users, i \in Nat, t \in Tasks :
         Creates(e, i, t) => (i < at'[e] <=> i < at[e] \/ (e = c /\ i = at[c] /\ t = u))
  <2> SUFFICES ASSUME NEW e \in Users, NEW i \in Nat, NEW t \in Tasks, Creates(e, i, t)
               PROVE  i < at'[e] <=> i < at[e] \/ (e = c /\ i = at[c] /\ t = u)
    OBVIOUS
  <2>1. CASE e = c /\ i = at[c]
    <3>1. t = u
      BY <1>6, <2>1 DEF Creates
    <3> QED BY <1>6, <1>9, <2>1, <3>1
  <2>2. CASE e = c /\ i # at[c]
    BY <1>6, <1>9, <2>2
  <2>3. CASE e # c
    BY <1>9, <2>3
  <2> QED BY <2>1, <2>2, <2>3
<1>17. \A e, i, t : Creates(e, i, t)' <=> Creates(e, i, t)
  BY <1>8 DEF Creates
<1>18. Creation'
  <2>1. Existing'
    <3>1. \A t \in Tasks : Created(t)' <=> Created(t) \/ t = u
      BY <1>4, <1>6, <1>16, <1>17 DEF Created
    <3> QED BY <1>6, <1>7, <1>9, <3>1, Constants DEF Inductive, Creation, Existing
  <2>2. Ranked'
    <3>1. PICK rank \in [Users -> Nat], top \in Nat : RankedBy(rank, top)
      BY DEF Inductive, Creation, Ranked
    <3> DEFINE above(x) == IF rank[x] > rank[c] THEN rank[x] + 1 ELSE rank[x]
               new == [x \in Users |-> IF x = u THEN rank[c] + 1 ELSE above(x)]
    <3>2. new \in [Users -> Nat] /\ top + 1 \in Nat /\ \A x \in Users : rank[x] \in Nat
      BY <1>4, <3>1
    <3>3. \A x \in Users : new[x] <= top + 1
      BY <1>4, <3>1, <3>2 DEF RankedBy
    <3>4. \A x, y \in Users : x # u /\ y # u /\ rank[x] < rank[y] => new[x] < new[y]
      BY <1>4, <3>2
    <3>5. new[c] < new[u]
      BY <1>4, <1>7, <3>2
    <3>6. \A x \in Users : x # u /\ rank[c] < rank[x] => new[u] < new[x]
      BY <1>4, <1>7, <3>2
    <3>7. \A e \in Users, i \in Nat, t \in Tasks : Creates(e, i, t) /\ i < at[e] => t # u /\ e # u
      BY <1>6 DEF Created
    <3> HIDE DEF above, new
    <3>8. ASSUME NEW e \in Users, NEW t \in Tasks, NEW i \in Nat, Creates(e, i, t), i < at'[e]
          PROVE  new[e] < new[t]
      <4>1. CASE i < at[e]
        <5>1. rank[e] < rank[t]
          BY <3>1, <3>8, <4>1 DEF RankedBy
        <5> QED BY <3>4, <3>7, <3>8, <4>1, <5>1, Constants
      <4>2. CASE e = c /\ i = at[c] /\ t = u
        BY <3>5, <4>2
      <4> QED BY <1>16, <3>8, <4>1, <4>2
    <3>9. ASSUME NEW e \in Users, NEW t \in Tasks, NEW i \in Nat, Creates(e, i, t), i < at'[e],
                 NEW d \in Tasks, NEW j \in Nat, Creates(e, j, d), i < j, j < at'[e]
          PROVE  new[d] < new[t]
      <4>1. i < at[e] /\ t # u
        <5>1. CASE e = c /\ i = at[c]
          BY <1>6, <1>9, <3>9, <5>1
        <5> QED BY <1>16, <3>7, <3>9, <5>1
      <4>2. CASE j < at[e]
        <5>1. rank[d] < rank[t]
          BY <3>1, <3>9, <4>1, <4>2 DEF RankedBy
        <5> QED BY <3>4, <3>7, <3>9, <4>1, <4>2, <5>1, Constants
      <4>3. CASE e = c /\ d = u
        <5>1. rank[c] < rank[t]
          BY <3>1, <3>9, <4>1, <4>3 DEF RankedBy
        <5> QED BY <3>6, <4>1, <4>3, <5>1, Constants
      <4> QED BY <1>16, <3>9, <4>2, <4>3
    <3>10. RankedBy(new, top + 1)'
      BY <1>17, <3>3, <3>8, <3>9 DEF RankedBy
    <3> QED BY <3>2, <3>10 DEF Ranked
  <2> QED BY <2>1, <2>2 DEF Creation
<1>19. Joins'
  <2>1. Returned' /\ Results'
    BY <1>6, <1>8, <1>9, SameResults, Constants DEF Inductive, Joins, Returned
  <2>2. \A d \in Users : state'[d] = "WAITING" <=> state[d] = "WAITING"
    BY <1>6, <1>9, Constants
  <2>3. \A d \in Users : state[d] = "WAITING" => at'[d] = at[d]
    BY <1>4, <1>9 DEF Steady
  <2>4. \A q \in Procs \ {p}, d \in Users : current[q] = d => at'[d] = at[d]
    BY <1>3, <1>9
  <2>5. JoinStates' /\ OneJoiner' /\ Waking' /\ WillBeWoken'
    <3>1. \A d \in Users : Doing(d) = "join" => at'[d] = at[d]
      BY <1>2, <1>9
    <3> QED BY <1>2, <1>8, <2>2, <2>3, <2>4, <3>1, NoJoinStep DEF Inductive, Joining
  <2>6. JoinedBefore'
    <3>1. ASSUME NEW d \in Users PROVE at'[d] >= at[d]
      <4>1. at[d] \in Nat /\ (at'[d] = at[d] \/ at'[d] = at[d] + 1)
        BY <1>2, <1>9 DEF TypeOK
      <4> QED BY <4>1
    <3>2. \A d \in Users : at'[d] > at[d] \/ at'[d] = at[d]
      BY <1>6, <1>9
    <3> QED BY <1>2, <1>8, <1>9, <3>1, <3>2, NoExchangeStep DEF Inductive, Joins, JoinedBefore
  <2> QED BY <2>1, <2>5, <2>6 DEF Joins
<1>20. Queues'
  <2>1. TaskQueued(u)
    BY DEF Inductive, Queues, TasksQueued
  <2>2. ~ Queued(u) /\ \A q \in Procs : hand[q] # u /\ to[q] # u
    <3>1. \A q \in Procs : pc[q] = "wake" /\ hand[q] = u => state[u] = "WAITING"
      BY <1>2, <1>7, Woken, RashIsMain DEF TypeOK
    <3> QED BY <1>6, <2>1, <3>1 DEF TaskQueued
  <2>3. \A t \in Tasks \ {u} : state'[t] = "READY" <=> state[t] = "READY"
    BY <1>9, Constants
  <2>4. TasksQueued'
    BY <1>2, <1>7, <1>8, <1>9, <2>2, <2>3, PushTasks DEF Inductive, Queues, Control
  <2>5. \A d \in Procs : d # u /\ d \in Contexts
    BY Constants
  <2>6. HomeboundAtHome'
    BY <1>8, <1>9, <1>10, <2>5, StayHomeStep DEF Inductive, Queues
  <2>7. Alone'
    <3>1. Main # u /\ Main \in Contexts
      BY Constants
    <3> QED BY <1>1, <1>2, <1>8, <1>9, <1>10, <1>12, <3>1, Constants
            DEF Inductive, Queues, Alone, Procs, Leaving, Switching
  <2> QED BY <2>4, <2>6, <2>7 DEF Queues
<1>21. FaultsExplained'
  BY <1>8 DEF FaultsExplained
<1> QED BY <1>11, <1>15, <1>18, <1>19, <1>20, <1>21 DEF Inductive

-----------------------------------------------------------------------------
(* sched_load_balance *)

LEMMA Victims == \A q \in Procs : VictimAfter(q) \in Procs
<1> SUFFICES ASSUME NEW q \in Procs PROVE (q + 1) % N \in 0 .. N - 1
  BY DEF VictimAfter, Procs
<1>1. q + 1 \in Int /\ N \in Nat /\ N > 0
  BY Constants
<1> QED BY <1>1

LEMMA Continues ==
  ASSUME TypeOK, NEW p \in Procs, NEW n \in Int, Continue(p, n)
  PROVE  /\ \E l \in {"steal", "compare", "get"} : Goto(p, l)
         /\ lb' \in [Procs -> [own : Nat, victim : Procs, steal : Nat]]
<1>1. \E l \in {"steal", "compare", "get"} : Goto(p, l)
  BY DEF Continue
<1>2. lb \in [Procs -> [own : Nat, victim : Procs, steal : Nat]]
  BY DEF TypeOK
<1>3. CASE n > 0 /\ lb' = [lb EXCEPT ![p].steal = n]
  BY <1>1, <1>2, <1>3
<1>4. CASE lb' = [lb EXCEPT ![p].steal = 0, ![p].victim = VictimAfter(lb[p].victim)]
  <2>1. PICK v \in Procs : v = VictimAfter(lb[p].victim)
    BY <1>2, Victims
  <2>2. lb' = [lb EXCEPT ![p] = [lb[p] EXCEPT !.steal = 0, !.victim = v]]
    BY <1>4, <2>1
  <2>3. [lb[p] EXCEPT !.steal = 0, !.victim = v] \in [own : Nat, victim : Procs, steal : Nat]
    <3>1. lb[p] \in [own : Nat, victim : Procs, steal : Nat]
      BY <1>2
    <3>2. ASSUME NEW r \in [own : Nat, victim : Procs, steal : Nat]
          PROVE  [r EXCEPT !.steal = 0, !.victim = v] \in [own : Nat, victim : Procs, steal : Nat]
      <4>1. [r EXCEPT !.steal = 0] \in [own : Nat, victim : Procs, steal : Nat]
        OBVIOUS
      <4> QED BY <4>1
    <3> QED BY <3>1, <3>2
  <2> QED BY <1>1, <1>2, <2>2, <2>3
<1>5. CASE lb' = [lb EXCEPT ![p] = NotBalancing]
  BY <1>1, <1>2, <1>5, Constants DEF NotBalancing, Main
<1> QED BY <1>1, <1>3, <1>4, <1>5 DEF Continue

(* The queues of tasks and idle tasks, in a step that moves p only.        *)
LEMMA ShuffleQueues ==
  ASSUME Inductive, NEW p \in Procs, UNCHANGED <<userVars, taskVars, deque, current, hand, to>>,
         pc[p] \in Leaving, NEW l \in Leaving, Goto(p, l)
  PROVE  TasksQueued' /\ HomeboundAtHome'
<1>1. /\ state' = state /\ prog' = prog /\ deque' = deque /\ current' = current
      /\ hand' = hand /\ to' = to
  BY DEF userVars, taskVars
<1>2. \A q \in Procs : q # p => pc'[q] = pc[q]
  BY DEF Goto, Inductive, TypeOK
<1>3. \A q \in Procs : pc[q] = "wake" => pc'[q] = "wake"
  BY <1>2 DEF Leaving
<1>4. TasksQueued'
  BY <1>1, <1>3, NoQueueStep DEF Inductive, Queues
<1>5. HomeboundAtHome'
  BY <1>1, StayHomeStep DEF Inductive, Queues
<1> QED BY <1>4, <1>5

(* Nothing but the locals of sched_load_balance, until it steals.          *)
LEMMA LocalBalance ==
  ASSUME Inductive, NEW p \in Procs, UNCHANGED <<userVars, taskVars, deque, current, hand, to, exited>>,
         lb' \in [Procs -> [own : Nat, victim : Procs, steal : Nat]],
         fault = "none", fault' = "none",
         pc[p] \in {"balance", "compare", "steal"},
         NEW l \in {"compare", "steal", "get"}, Goto(p, l), N = 1 => l = "get"
  PROVE  Inductive'
<1>1. /\ pc' = [pc EXCEPT ![p] = l] /\ TypeOK /\ Control
      /\ prog' = prog /\ at' = at /\ got' = got /\ state' = state /\ joinState' = joinState
      /\ joinTask' = joinTask /\ result' = result /\ deque' = deque /\ current' = current
      /\ hand' = hand /\ to' = to /\ exited' = exited
  BY DEF Goto, userVars, taskVars, Inductive
<1>2. pc'[p] = l /\ \A q \in Procs : q # p => pc'[q] = pc[q]
  BY <1>1 DEF TypeOK
<1>3. TypeOK'
  BY <1>1 DEF TypeOK, Labels
<1>4. pc[p] \in Leaving /\ l \in Leaving
  BY DEF Leaving
<1>5. /\ InPrograms' /\ OneProcessorEach' /\ Placed' /\ StatesMean' /\ Creation' /\ Joins'
  BY <1>1, <1>4, ShuffleStep DEF Inductive
<1>6. Registers' /\ UsersQueued'
  BY <1>1, <1>2 DEF Control, Registers, UsersQueued, Switching
<1>7. TasksQueued' /\ HomeboundAtHome'
  BY <1>4, ShuffleQueues
<1>8. Alone'
  <2>1. \A d \in Users : Doing(d)' = Doing(d)
    BY <1>1 DEF Doing
  <2> QED BY <1>1, <1>2, <1>4, <2>1, SameQueues, Constants
          DEF Inductive, Queues, Alone, Procs, Leaving, Switching
<1>9. FaultsExplained'
  BY DEF FaultsExplained
<1> QED BY <1>3, <1>5, <1>6, <1>7, <1>8, <1>9 DEF Inductive, Control, Queues

LEMMA BalanceStepOf ==
  ASSUME Inductive, NEW p \in Procs, Balance(p)
  PROVE  Inductive'
<1>1. fault = "none" /\ fault' = "none" /\ pc[p] = "balance" /\ lb \in [Procs -> [own : Nat, victim : Procs, steal : Nat]]
  BY DEF Balance, At, Inductive, TypeOK
<1>2. CASE N = 1
  BY <1>1, <1>2, LocalBalance DEF Balance
<1>3. CASE N # 1
  <2>1. Len(deque[p]) \in Nat /\ VictimAfter(p) \in Procs
    BY Victims DEF Inductive, TypeOK
  <2>2. lb' \in [Procs -> [own : Nat, victim : Procs, steal : Nat]]
    BY <1>1, <1>3, <2>1 DEF Balance
  <2> QED BY <1>1, <1>3, <2>2, LocalBalance DEF Balance
<1> QED BY <1>2, <1>3

(* Only several processors steal from one another.                         *)
LEMMA Several ==
  ASSUME Inductive, NEW p \in Procs, pc[p] \in {"compare", "steal", "keep"}
  PROVE  N # 1
BY Constants DEF Inductive, Queues, Alone, Procs, Main

LEMMA CompareStep ==
  ASSUME Inductive, NEW p \in Procs, Compare(p)
  PROVE  Inductive'
<1>1. fault = "none" /\ fault' = "none" /\ pc[p] = "compare" /\ TypeOK
  BY DEF Compare, At, Inductive
<1>2. PICK n \in Int : Continue(p, n)
  <2>1. Len(deque[lb[p].victim]) - lb[p].own \in Int
    BY <1>1 DEF TypeOK
  <2>2. Half(Len(deque[lb[p].victim]) - lb[p].own) \in Int
    BY <2>1 DEF Half
  <2> QED BY <2>2 DEF Compare
<1>3. PICK l \in {"steal", "compare", "get"} : Goto(p, l)
  BY <1>1, <1>2, Continues
<1> QED BY <1>1, <1>2, <1>3, Continues, LocalBalance, Several DEF Compare

(* A task taken from a deque is in a processor's hands.                    *)
LEMMA PopTasks ==
  ASSUME TypeOK, TasksQueued, UsersQueued, NEW v \in Procs, deque[v] # <<>>, deque' = Popped(v),
         NEW x, x = Head(deque[v]), NEW p \in Procs, state' = state,
         \/ hand[p] = None /\ hand' = [hand EXCEPT ![p] = x] /\ to' = to
         \/ to[p] = None /\ to' = [to EXCEPT ![p] = x] /\ hand' = hand,
         \A q \in Procs : pc[q] = "wake" => pc'[q] = "wake"
  PROVE  TasksQueued'
<1> SUFFICES ASSUME NEW t \in Tasks PROVE TaskQueued(t)'
  BY DEF TasksQueued
<1>1. TaskQueued(t) /\ t \in Contexts /\ t # None
  BY Constants DEF TasksQueued
<1>2. \A q \in Procs : /\ hand'[q] = hand[q] \/ (q = p /\ hand'[q] = x /\ hand[q] = None)
                       /\ to'[q] = to[q] \/ (q = p /\ to'[q] = x /\ to[q] = None)
  BY DEF TypeOK
<1>3. hand'[p] = x \/ to'[p] = x
  BY DEF TypeOK
<1>4. ~ (hand'[p] = x /\ to'[p] = x) \/ hand[p] = x \/ to[p] = x
  BY <1>2
<1>5. CASE t = x
  <2>1. Queued(t) /\ ~ Queued(t)' /\ Single(t)'
    BY <1>1, <1>5, PoppedHead DEF TaskQueued
  <2> QED BY <1>1, <1>2, <1>3, <1>4, <1>5, <2>1 DEF TaskQueued
<1>6. CASE t # x
  <2>1. (Queued(t)' <=> Queued(t)) /\ Single(t)'
    BY <1>1, <1>6, PoppedHead DEF TaskQueued
  <2>2. \A q \in Procs : (hand'[q] = t <=> hand[q] = t) /\ (to'[q] = t <=> to[q] = t)
    BY <1>1, <1>2, <1>6
  <2> QED BY <1>1, <2>1, <2>2 DEF TaskQueued
<1> QED BY <1>5, <1>6

LEMMA StealStep ==
  ASSUME Inductive, NEW p \in Procs, Steal(p)
  PROVE  Inductive'
<1>1. fault = "none" /\ fault' = "none" /\ pc[p] = "steal" /\ TypeOK /\ Control /\ N # 1
  BY Several DEF Steal, At, Inductive
<1>2. PICK v \in Procs : v = lb[p].victim
  BY <1>1 DEF TypeOK
<1>3. CASE deque[v] = <<>>
  <2>1. PICK n \in Int : Continue(p, n)
    <3>1. lb[p].steal - 1 \in Int
      BY <1>1 DEF TypeOK
    <3> QED BY <1>2, <1>3, <3>1 DEF Steal
  <2>2. PICK l \in {"steal", "compare", "get"} : Goto(p, l)
    BY <1>1, <2>1, Continues
  <2> QED BY <1>1, <1>2, <1>3, <2>1, <2>2, Continues, LocalBalance DEF Steal
<1>4. CASE deque[v] # <<>>
  <2>1. PICK x \in Users : x = Head(deque[v])
    BY <1>1, <1>4 DEF Control, UsersQueued
  <2>2. /\ deque' = Popped(v) /\ hand' = [hand EXCEPT ![p] = x] /\ pc' = [pc EXCEPT ![p] = "keep"]
        /\ prog' = prog /\ at' = at /\ got' = got /\ state' = state /\ joinState' = joinState
        /\ joinTask' = joinTask /\ result' = result /\ current' = current /\ to' = to
        /\ lb' = lb /\ exited' = exited
    BY <1>2, <1>4, <2>1 DEF Steal, Goto, userVars, taskVars
  <2>3. /\ pc'[p] = "keep" /\ \A q \in Procs : q # p => pc'[q] = pc[q]
        /\ hand'[p] = x /\ \A q \in Procs : q # p => hand'[q] = hand[q]
        /\ hand[p] = None
    BY <1>1, <2>2 DEF TypeOK, Control, Registers, Switching
  <2>4. /\ deque' \in [Procs -> Seq(Users)] /\ Queued(x)
        /\ \A c \in Contexts \ {x} : Queued(c)' <=> Queued(c)
    BY <1>1, <1>4, <2>1, <2>2, PoppedHead DEF Control
  <2>5. TypeOK'
    <3>1. deque' \in [Procs -> Seq(Contexts)]
      BY <2>4, UsersAreContexts
    <3> QED BY <1>1, <2>1, <2>2, <3>1, Constants DEF TypeOK, Labels
  <2>6. InPrograms' /\ OneProcessorEach' /\ Placed' /\ StatesMean' /\ Creation' /\ Joins'
    <3>1. pc[p] \in Leaving /\ "keep" \in Leaving
      BY <1>1 DEF Leaving
    <3> QED BY <1>1, <2>2, <2>3, <3>1, ShuffleStep DEF Inductive, Goto, userVars, taskVars
  <2>7. Registers'
    BY <1>1, <2>1, <2>2, <2>3, Constants DEF Control, Registers, Switching
  <2>8. UsersQueued'
    BY <1>1, <2>1, <2>2, <2>4 DEF Control, UsersQueued
  <2>9. TasksQueued'
    BY <1>1, <1>4, <2>1, <2>2, <2>3, PopTasks DEF Inductive, Queues, Control
  <2>10. HomeboundAtHome'
    <3>1. \A c \in Procs : Homebound(c) => c # x /\ c \in Contexts
      BY <2>4, Constants DEF Inductive, Queues, HomeboundAtHome, AtHome
    <3> QED BY <2>2, <2>3, <2>4, <3>1, StayHomeStep DEF Inductive, Queues
  <2>11. Alone' /\ FaultsExplained'
    BY <1>1 DEF Alone, FaultsExplained
  <2> QED BY <2>5, <2>6, <2>7, <2>8, <2>9, <2>10, <2>11 DEF Inductive, Control, Queues
<1> QED BY <1>3, <1>4

LEMMA KeepStep ==
  ASSUME Inductive, NEW p \in Procs, Keep(p)
  PROVE  Inductive'
<1>1. fault = "none" /\ pc[p] = "keep" /\ TypeOK /\ Control /\ N # 1
  BY Several DEF Keep, At, Inductive
<1>2. PICK x \in Users : x = hand[p]
  BY <1>1 DEF Control, Registers, UsersQueued, Switching
<1>3. PICK n \in Int : Continue(p, n)
  <2>1. lb[p].steal - 1 \in Int
    BY <1>1 DEF TypeOK
  <2> QED BY <2>1 DEF Keep
<1>4. PICK l \in {"steal", "compare", "get"} : Goto(p, l)
  BY <1>1, <1>3, Continues
<1>5. /\ Schedule(p, x) /\ Push(p, x) /\ hand' = [hand EXCEPT ![p] = None] /\ pc' = [pc EXCEPT ![p] = l]
      /\ prog' = prog /\ at' = at /\ got' = got /\ state' = state /\ joinState' = joinState
      /\ joinTask' = joinTask /\ result' = result /\ current' = current /\ to' = to
      /\ exited' = exited
      /\ lb' \in [Procs -> [own : Nat, victim : Procs, steal : Nat]]
  BY <1>1, <1>2, <1>3, <1>4, Continues DEF Keep, Schedule, Goto, userVars, taskVars
<1>f. fault' \in Faults /\ FaultsExplained'
  BY <1>1, <1>2, <1>5, NotQueued, ScheduleFaults
<1>6. /\ pc'[p] = l /\ \A q \in Procs : q # p => pc'[q] = pc[q]
      /\ hand'[p] = None /\ \A q \in Procs : q # p => hand'[q] = hand[q]
  BY <1>1, <1>5 DEF TypeOK
<1>7. /\ deque' \in [Procs -> Seq(Users)]
      /\ \A d \in Contexts \ {x} : Queued(d)' <=> Queued(d)
  BY <1>1, <1>2, <1>5, Pushed DEF Control
<1>8. TypeOK'
  <2>1. deque' \in [Procs -> Seq(Contexts)]
    BY <1>7, UsersAreContexts
  <2> QED BY <1>1, <1>5, <1>f, <2>1 DEF TypeOK, Labels
<1>9. InPrograms' /\ OneProcessorEach' /\ Placed' /\ StatesMean' /\ Creation' /\ Joins'
  <2>1. pc[p] \in Leaving /\ l \in Leaving
    BY <1>1 DEF Leaving
  <2> QED BY <1>1, <1>4, <1>5, <1>6, <2>1, ShuffleStep DEF Inductive, userVars, taskVars
<1>10. Registers'
  BY <1>1, <1>5, <1>6, Constants DEF Control, Registers, Switching
<1>11. UsersQueued'
  BY <1>1, <1>5, <1>7 DEF Control, UsersQueued
<1>12. TasksQueued'
  <2>1. x \in Tasks => /\ ~ Queued(x) /\ state[x] = "READY"
                       /\ \A q \in Procs : hand'[q] # x /\ to[q] # x
    BY <1>1, <1>2, <1>6, Constants DEF Inductive, Queues, TasksQueued, TaskQueued
  <2>2. \A t \in Tasks \ {x}, q \in Procs : hand'[q] = t <=> hand[q] = t
    BY <1>2, <1>6, Constants
  <2> QED BY <1>1, <1>5, <1>6, <2>1, <2>2, PushTasks DEF Inductive, Queues, Control
<1>13. HomeboundAtHome'
  <2>1. \A d \in Procs : Homebound(d) => d # x /\ d \in Contexts
    BY <1>2, Constants DEF Inductive, Queues, HomeboundAtHome, AtHome
  <2> QED BY <1>5, <1>6, <1>7, <2>1, StayHomeStep, Constants DEF Inductive, Queues
<1>14. Alone'
  BY <1>1 DEF Alone
<1> QED BY <1>f, <1>8, <1>9, <1>10, <1>11, <1>12, <1>13, <1>14 DEF Inductive, Control, Queues

-----------------------------------------------------------------------------
(* task_yield, pthread_routine, task_switch_to *)

LEMMA GetTaskStep ==
  ASSUME Inductive, NEW p \in Procs, GetTask(p)
  PROVE  Inductive'
<1>1. fault = "none" /\ fault' = "none" /\ pc[p] = "get" /\ TypeOK /\ Control
  BY DEF GetTask, At, Inductive
<1>2. pc[p] \in Leaving /\ "no_task" \in Leaving /\ "switch" \in Leaving
  BY <1>1 DEF Leaving
<1>3. FaultsExplained'
  BY <1>1 DEF FaultsExplained
<1>4. CASE deque[p] = <<>>
  <2>1. /\ pc' = [pc EXCEPT ![p] = "no_task"]
        /\ prog' = prog /\ at' = at /\ got' = got /\ state' = state /\ joinState' = joinState
        /\ joinTask' = joinTask /\ result' = result /\ current' = current /\ to' = to
        /\ deque' = deque /\ hand' = hand /\ lb' = lb /\ exited' = exited
    BY <1>4 DEF GetTask, Goto, userVars, taskVars
  <2>2. pc'[p] = "no_task" /\ \A q \in Procs : q # p => pc'[q] = pc[q]
    BY <1>1, <2>1 DEF TypeOK
  <2>3. TypeOK'
    BY <1>1, <2>1 DEF TypeOK, Labels
  <2>4. InPrograms' /\ OneProcessorEach' /\ Placed' /\ StatesMean' /\ Creation' /\ Joins'
    BY <1>1, <1>2, <2>1, ShuffleStep DEF Inductive, Goto, userVars, taskVars
  <2>5. Registers' /\ UsersQueued'
    BY <1>1, <2>1, <2>2 DEF Control, Registers, UsersQueued, Switching
  <2>6. TasksQueued' /\ HomeboundAtHome'
    BY <1>2, <2>1, ShuffleQueues DEF Goto, userVars, taskVars
  <2>7. Alone'
    <3>1. \A d \in Users : Doing(d)' = Doing(d)
      BY <2>1 DEF Doing
    <3> QED BY <1>2, <1>4, <2>1, <2>2, <3>1, SameQueues, Constants
            DEF Inductive, Queues, Alone, Procs, Leaving, Switching
  <2> QED BY <1>3, <2>3, <2>4, <2>5, <2>6, <2>7 DEF Inductive, Control, Queues
<1>5. CASE deque[p] # <<>>
  <2>1. PICK x \in Users : x = Head(deque[p])
    BY <1>1, <1>5 DEF Control, UsersQueued
  <2>2. /\ deque' = Popped(p) /\ to' = [to EXCEPT ![p] = x] /\ pc' = [pc EXCEPT ![p] = "switch"]
        /\ prog' = prog /\ at' = at /\ got' = got /\ state' = state /\ joinState' = joinState
        /\ joinTask' = joinTask /\ result' = result /\ current' = current /\ hand' = hand
        /\ lb' = lb /\ exited' = exited
    BY <1>5, <2>1 DEF GetTask, Goto, userVars, taskVars
  <2>3. /\ pc'[p] = "switch" /\ \A q \in Procs : q # p => pc'[q] = pc[q]
        /\ to'[p] = x /\ \A q \in Procs : q # p => to'[q] = to[q]
        /\ to[p] = None
    BY <1>1, <2>2 DEF TypeOK, Control, Registers, Switching
  <2>4. /\ deque' \in [Procs -> Seq(Users)] /\ Queued(x) /\ (Single(x) => ~ Queued(x)')
        /\ \A c \in Contexts \ {x} : Queued(c)' <=> Queued(c)
        /\ \A c \in Contexts : Single(c) => Single(c)'
    BY <1>1, <1>5, <2>1, <2>2, PoppedHead DEF Control
  <2>5. TypeOK'
    <3>1. deque' \in [Procs -> Seq(Contexts)]
      BY <2>4, UsersAreContexts
    <3> QED BY <1>1, <2>1, <2>2, <3>1, Constants DEF TypeOK, Labels
  <2>6. InPrograms' /\ OneProcessorEach' /\ Placed' /\ StatesMean' /\ Creation' /\ Joins'
    BY <1>1, <1>2, <2>2, ShuffleStep DEF Inductive, Goto, userVars, taskVars
  <2>7. Registers'
    BY <1>1, <2>1, <2>2, <2>3, Constants DEF Control, Registers, Switching
  <2>8. UsersQueued'
    BY <1>1, <2>2, <2>4 DEF Control, UsersQueued
  <2>9. TasksQueued'
    BY <1>1, <1>5, <2>1, <2>2, <2>3, PopTasks DEF Inductive, Queues, Control
  <2>10. HomeboundAtHome'
    <3>1. \A c \in Procs : Homebound(c) => c # x /\ c \in Contexts
      BY <2>4, Constants DEF Inductive, Queues, HomeboundAtHome, AtHome
    <3> QED BY <2>2, <2>3, <2>4, <3>1, StayHomeStep DEF Inductive, Queues
  <2>11. Alone'
    <3> SUFFICES ASSUME N = 1 PROVE Alone'
      BY DEF Alone
    <3>1. p = Main /\ Main \in Contexts /\ hand[Main] = None /\ Main # None
      BY <1>1, Constants DEF Procs, Main, Control, Registers, Switching
    <3>2. \A d \in Users : Doing(d)' = Doing(d)
      BY <2>2 DEF Doing
    <3>3. CASE x = Main
      BY <1>2, <2>2, <2>3, <2>4, <3>1, <3>2, <3>3
      DEF Inductive, Queues, Alone, Leaving, Switching
    <3>4. CASE x # Main
      BY <1>2, <2>2, <2>3, <2>4, <3>1, <3>2, <3>4
      DEF Inductive, Queues, Alone, Leaving, Switching
    <3> QED BY <3>3, <3>4
  <2> QED BY <1>3, <2>5, <2>6, <2>7, <2>8, <2>9, <2>10, <2>11 DEF Inductive, Control, Queues
<1> QED BY <1>4, <1>5

(* A context that joins u was created before u, or created u, and u was    *)
(* created by the time the join began: rank by rank, waiting leads upwards.*)
LEMMA JoinsUpwards ==
  ASSUME Inductive, NEW rank \in [Users -> Nat], NEW top \in Nat, RankedBy(rank, top),
         NEW x \in Users, Started(x), Doing(x) = "join", NEW u \in Tasks, u = Target(x)
  PROVE  Created(u) /\ rank[x] < rank[u]
<1>1. TypeOK /\ Control /\ prog \in Programs
  BY DEF Inductive, Control, InPrograms
<1>2. JoinsAt(x, at[x], u) /\ at[x] \in Nat
  BY <1>1, DoingOf DEF JoinsAt, Control
<1>3. \A e \in Users, i \in Nat, t \in Tasks : Creates(e, i, t) <=> i \in Places(prog, e, "create", t)
  BY <1>1 DEF Creates, Places, TypeOK
<1>4. at[x] \in Places(prog, x, "join", u)
  BY <1>1, <1>2 DEF JoinsAt, Places, TypeOK
<1>5. WellFormed(prog)
  BY <1>1, SchedAssumption
<1>6. \/ \E j \in Places(prog, x, "create", u) : j < at[x]
      \/ \E e \in Users : \E j \in Places(prog, e, "create", u), k \in Places(prog, e, "create", x) : j < k
  BY <1>4, <1>5, SMTT(30) DEF WellFormed
<1>7. \A e \in Users : \A t : Places(prog, e, "create", t) \subseteq Nat
  BY <1>1 DEF Places, TypeOK
<1>8. CASE \E j \in Places(prog, x, "create", u) : j < at[x]
  BY <1>2, <1>3, <1>7, <1>8 DEF Created, RankedBy
<1>9. CASE \E e \in Users : \E j \in Places(prog, e, "create", u), k \in Places(prog, e, "create", x) : j < k
  <2>1. PICK e \in Users : \E j \in Places(prog, e, "create", u), k \in Places(prog, e, "create", x) : j < k
    BY <1>9
  <2>2. PICK j \in Places(prog, e, "create", u), k \in Places(prog, e, "create", x) : j < k
    BY <2>1
  <2>3. j \in Nat /\ k \in Nat /\ Creates(e, j, u)
    BY <1>3, <1>7, <2>2
  <2>4. x \in Tasks
    <3>1. prog[e] \in Seq(Ops) /\ prog[e][k] = [do |-> "create", task |-> x] /\ k \in 1 .. Len(prog[e])
      BY <1>1, <2>2 DEF Places, TypeOK
    <3>2. prog[e][k] \in Ops
      BY <3>1
    <3> QED BY <3>1, <3>2 DEF Ops
  <2>5. Creates(e, k, x)
    BY <1>3, <2>2, <2>3, <2>4
  <2>6. state[x] # "none"
    BY <1>1, <2>4, Constants DEF Control, StatesMean, StateMeans
  <2>7. PICK f \in Users, i \in Nat : Creates(f, i, x) /\ i < at[f]
    BY <2>4, <2>6 DEF Inductive, Creation, Existing, Created
  <2>8. f = e /\ i = k
    <3>1. i \in Places(prog, f, "create", x)
      BY <1>3, <2>4, <2>7
    <3>2. \A a \in Places(prog, f, "create", x), b \in Places(prog, e, "create", x) : f = e /\ a = b
      BY <1>5, <2>4, SMTT(30) DEF WellFormed
    <3> QED BY <2>2, <3>1, <3>2
  <2>9. k < at[e] /\ j < at[e]
    BY <1>1, <2>2, <2>3, <2>7, <2>8 DEF TypeOK
  <2>10. Created(u)
    BY <2>3, <2>9 DEF Created
  <2>11. rank[x] < rank[u]
    BY <2>2, <2>3, <2>4, <2>5, <2>9 DEF RankedBy
  <2> QED BY <2>10, <2>11
<1> QED BY <1>6, <1>8, <1>9

(* A single processor with nothing queued and a context that cannot go on: *)
(* main can.  Otherwise everybody who waits would wait for somebody else   *)
(* who waits, of higher rank.                                              *)
LEMMA MainReady ==
  ASSUME Inductive, N = 1, NEW c \in Users, current[Main] = c, pc[Main] = "no_task",
         state[c] \in {"DONE", "WAITING"}
  PROVE  state[Main] = "READY"
<1>1. /\ TypeOK /\ Control /\ deque[Main] = <<>> /\ hand[Main] = None /\ to[Main] = None
      /\ \A p \in Procs : p = Main
  BY Constants DEF Inductive, Queues, Alone, Control, Registers, Switching, Procs, Main
<1>2. \A d \in Contexts : ~ Queued(d)
  BY <1>1 DEF Queued, Position
<1>3. \A d \in Users : state[d] \in {"none", "WAITING", "DONE", "READY"}
  <2>1. ASSUME NEW d \in Users, state[d] = "RUNNING" PROVE d = c
    <3>1. StateMeans(d)
      BY <1>1, Constants DEF Control, StatesMean
    <3>2. PICK q \in Procs : current[q] = d
      BY <2>1, <3>1 DEF StateMeans
    <3> QED BY <1>1, <3>2
  <2> QED BY <1>1, <2>1, Constants DEF TypeOK
<1>4. \A t \in Tasks : state[t] # "READY"
  <2>1. \A t \in Tasks : hand[Main] # t /\ to[Main] # t /\ t \in Contexts
    BY <1>1, Constants
  <2>2. \A t \in Tasks : state[t] = "READY" => Queued(t) \/ \E q \in Procs : hand[q] = t \/ to[q] = t
    BY DEF Inductive, Queues, TasksQueued, TaskQueued
  <2> QED BY <1>1, <1>2, <2>1, <2>2
<1>5. state[Main] \in {"READY", "WAITING"}
  BY <1>1, <1>3, Constants DEF Control, StatesMean, StateMeans
<1>6. ASSUME state[Main] = "WAITING" PROVE FALSE
  <2>1. PICK rank \in [Users -> Nat], top \in Nat : RankedBy(rank, top)
    BY DEF Inductive, Creation, Ranked
  <2> DEFINE T == {top - rank[x] : x \in {y \in Users : state[y] = "WAITING"}}
  <2>2. T \in SUBSET Nat /\ T # {}
    BY <1>6, <2>1, Constants DEF RankedBy
  <2>3. PICK x \in Users : state[x] = "WAITING" /\ \A y \in Users : state[y] = "WAITING" => rank[y] <= rank[x]
    <3>1. PICK m \in T : \A k \in T : m <= k
      <4> HIDE DEF T
      <4> QED BY <2>2, Least
    <3>2. PICK x \in Users : state[x] = "WAITING" /\ m = top - rank[x]
      BY <3>1
    <3>3. \A y \in Users : state[y] = "WAITING" => top - rank[x] <= top - rank[y]
      BY <3>1, <3>2
    <3>4. \A y \in Users : state[y] = "WAITING" => rank[y] <= rank[x]
      BY <2>1, <3>3
    <3> QED BY <3>2, <3>4
  <2>4. Started(x) /\ Doing(x) = "join"
    BY <1>1, <2>3, Constants DEF Control, StatesMean, StateMeans
  <2>5. PICK u \in Tasks : u = Target(x)
    BY <1>1, <2>4, DoingOf DEF Control
  <2>6. Created(u) /\ rank[x] < rank[u]
    BY <2>1, <2>4, <2>5, JoinsUpwards
  <2>7. state[u] \in {"WAITING", "DONE"}
    BY <1>3, <1>4, <2>5, <2>6, Constants DEF Inductive, Creation, Existing
  <2>8. joinTask[u] = x
    BY <1>1, <2>3, <2>5 DEF Inductive, Joins, WillBeWoken
  <2>9. AwaitsJoiner(u)
    BY <2>8 DEF Inductive, Joins, JoinStates
  <2>10. ~ Passed(u)
    BY <1>1, <2>9 DEF AwaitsJoiner
  <2>11. state[u] # "DONE"
    BY <1>1, <2>10, Constants DEF Passed, Control, StatesMean, StateMeans
  <2>12. rank[u] <= rank[x]
    BY <2>3, <2>7, <2>11, Constants
  <2> QED BY <2>1, <2>6, <2>12, Constants
<1> QED BY <1>5, <1>6

LEMMA NoTaskStep ==
  ASSUME Inductive, NEW p \in Procs, NoTask(p)
  PROVE  Inductive'
<1>1. PICK c \in Contexts : c = current[p]
  BY DEF Inductive, TypeOK
<1>2. /\ fault = "none" /\ pc[p] = "no_task" /\ TypeOK /\ Control
      /\ prog' = prog /\ at' = at /\ got' = got /\ state' = state /\ joinState' = joinState
      /\ joinTask' = joinTask /\ result' = result /\ current' = current
      /\ deque' = deque /\ hand' = hand /\ lb' = lb /\ exited' = exited
  BY DEF NoTask, At, Inductive, userVars, taskVars
<1>3. Place(p, c) /\ StateMeans(c) /\ \A q \in Procs : current[q] = c => q = p
  BY <1>1, <1>2 DEF Control, Placed, StatesMean, OneProcessorEach
<1>4. pc[p] \in Leaving /\ "balance" \in Leaving /\ "switch" \in Leaving
  BY <1>2 DEF Leaving
<1>5. /\ c \notin Users => Doing(c) = "loop"
      /\ c \in Users => Started(c) /\ Doing(c) # "loop"
  BY <1>2, <1>3, DoingLoop DEF Place, Control
<1>6. \/ Doing(c) = "loop" /\ state[c] = "RUNNING"
      \/ Doing(c) = "yield" /\ Steady(c, "RUNNING")
      \/ Doing(c) = "join" /\ state[c] \in {"WAITING", "READY"}
      \/ Doing(c) = "end" /\ state[c] = "DONE"
  BY <1>3, <1>4, <1>5, RashIsMain DEF Place, Steady
<1>7. \A d \in Contexts : /\ Doing(d)' = Doing(d) /\ Target(d)' = Target(d)
                          /\ Started(d)' <=> Started(d)
                          /\ Rash(d)' <=> Rash(d)
  BY <1>2, RashIsMain DEF Doing, Target, Started
<1>8. to[p] = None
  BY <1>2 DEF Control, Registers, Switching
<1>9. \A d \in Contexts : ~ Queued(d)' <=> ~ Queued(d)
  BY <1>2, SameQueues
<1>10. CASE Doing(c) = "loop"
  <2>1. pc' = [pc EXCEPT ![p] = "balance"] /\ to' = to /\ fault' = "none"
    BY <1>1, <1>2, <1>6, <1>10 DEF NoTask, Goto
  <2>2. pc'[p] = "balance" /\ \A q \in Procs : q # p => pc'[q] = pc[q]
    BY <1>2, <2>1 DEF TypeOK
  <2>3. TypeOK'
    BY <1>2, <2>1 DEF TypeOK, Labels
  <2>4. InPrograms' /\ OneProcessorEach' /\ Placed' /\ StatesMean' /\ Creation' /\ Joins'
    BY <1>2, <1>4, <2>1, ShuffleStep DEF Inductive, Goto, userVars, taskVars
  <2>5. Registers' /\ UsersQueued'
    BY <1>2, <2>1, <2>2 DEF Control, Registers, UsersQueued, Switching
  <2>6. TasksQueued' /\ HomeboundAtHome'
    BY <1>2, <1>4, <2>1, ShuffleQueues DEF Goto, userVars, taskVars
  <2>7. Alone'
    BY <1>2, <1>4, <1>7, <2>1, <2>2, SameQueues, Constants
    DEF Inductive, Queues, Alone, Procs, Leaving, Switching
  <2>8. FaultsExplained'
    BY <2>1 DEF FaultsExplained
  <2> QED BY <2>3, <2>4, <2>5, <2>6, <2>7, <2>8 DEF Inductive, Control, Queues
<1>11. CASE Doing(c) # "loop" /\ state[c] \in {"DONE", "WAITING"}
  <2>1. /\ pc' = [pc EXCEPT ![p] = "switch"] /\ to' = [to EXCEPT ![p] = p] /\ fault' = "none"
        /\ c \in Users
    BY <1>1, <1>2, <1>5, <1>11 DEF NoTask, Goto
  <2>2. /\ pc'[p] = "switch" /\ \A q \in Procs : q # p => pc'[q] = pc[q]
        /\ to'[p] = p /\ \A q \in Procs : q # p => to'[q] = to[q]
        /\ p \notin Tasks /\ p \in Contexts
    BY <1>2, <2>1, Constants DEF TypeOK
  <2>3. TypeOK'
    BY <1>2, <2>1, Constants DEF TypeOK, Labels
  <2>4. InPrograms' /\ OneProcessorEach' /\ Placed' /\ StatesMean' /\ Creation' /\ Joins'
    BY <1>2, <1>4, <2>1, ShuffleStep DEF Inductive, Goto, userVars, taskVars
  <2>5. Registers' /\ UsersQueued'
    BY <1>2, <2>1, <2>2, Constants DEF Control, Registers, UsersQueued, Switching
  <2>6. TasksQueued'
    <3>1. \A t \in Contexts : (Queued(t)' <=> Queued(t)) /\ (Single(t)' <=> Single(t))
      BY <1>2, SameQueues
    <3>2. \A q \in Procs, t \in Tasks : to'[q] = t <=> to[q] = t
      BY <1>8, <2>2, Constants
    <3>3. \A q \in Procs : pc[q] = "wake" => pc'[q] = "wake"
      BY <1>2, <2>2
    <3>4. ASSUME NEW t \in Tasks PROVE TaskQueued(t)'
      <4>1. TaskQueued(t) /\ t \in Contexts
        BY Constants DEF Inductive, Queues, TasksQueued
      <4> QED BY <1>2, <3>1, <3>2, <3>3, <4>1 DEF TaskQueued
    <3> QED BY <3>4 DEF TasksQueued
  <2>7. HomeboundAtHome'
    <3>1. ASSUME NEW d \in Procs, Homebound(d) PROVE AtHome(d)'
      <4>1. AtHome(d) /\ d \in Contexts
        BY <3>1, Constants DEF Inductive, Queues, HomeboundAtHome
      <4>2. d # c
        <5>1. d = c => c = Main /\ ~ Rash(c)
          BY <2>1, <3>1, RashIsMain, Constants
        <5>2. d = c => ~ Does(c, "join")
          BY <3>1, <5>1 DEF Homebound
        <5>3. Doing(c) = "join" => Does(c, "join")
          BY <1>2, <1>5, <2>1, DoesIt DEF Control
        <5>4. c = Main => Doing(c) # "end"
          BY <1>3, <1>6, Constants DEF StateMeans
        <5> QED BY <1>6, <1>11, <5>1, <5>2, <5>3, <5>4 DEF Steady
      <4> QED BY <1>1, <1>2, <1>9, <2>2, <4>1, <4>2 DEF AtHome
    <3>2. \A d \in Procs : Homebound(d)' <=> Homebound(d)
      BY <1>2 DEF Homebound, Does
    <3> QED BY <3>1, <3>2 DEF HomeboundAtHome
  <2>8. Alone'
    <3> SUFFICES ASSUME N = 1 PROVE Alone'
      BY DEF Alone
    <3>1. p = Main /\ Main \in Contexts /\ hand[Main] = None /\ Main # None /\ deque[Main] = <<>>
      BY <1>2, Constants
      DEF Procs, Main, Control, Registers, Switching, Inductive, Queues, Alone
    <3>2. state[Main] = "READY"
      BY <1>1, <1>2, <1>11, <2>1, <3>1, MainReady
    <3>3. ~ Queued(Main)
      BY <3>1, Constants DEF Queued, Position, Procs, Main
    <3> QED BY <1>2, <1>4, <1>7, <1>9, <2>1, <2>2, <3>1, <3>2, <3>3, SameQueues, Constants
            DEF Inductive, Queues, Alone, Leaving, Switching
  <2>9. FaultsExplained'
    BY <2>1 DEF FaultsExplained
  <2> QED BY <2>3, <2>4, <2>5, <2>6, <2>7, <2>8, <2>9 DEF Inductive, Control, Queues
<1>12. CASE Doing(c) # "loop" /\ state[c] \notin {"DONE", "WAITING"}
  <2>1. /\ pc' = [pc EXCEPT ![p] = "resumed"] /\ to' = to /\ fault' = "none"
        /\ c \in Users /\ Started(c)
    BY <1>1, <1>2, <1>5, <1>12 DEF NoTask, Goto
  <2>2. pc'[p] = "resumed" /\ \A q \in Procs : q # p => pc'[q] = pc[q]
    BY <1>2, <2>1 DEF TypeOK
  <2>3. TypeOK'
    BY <1>2, <2>1 DEF TypeOK, Labels
  <2>4. \/ Doing(c) = "yield" /\ Steady(c, "RUNNING")
        \/ Doing(c) = "join" /\ state[c] = "READY"
    BY <1>6, <1>12, <2>1
  <2>5. /\ Served(c) => Served(c)'
        /\ BeingServed(c) => BeingServed(c)'
    BY <1>2, <1>7, <2>1, <2>2 DEF Served, BeingServed
  <2>6. Place(p, c)'
    BY <1>1, <1>2, <1>7, <2>1, <2>2, <2>4, <2>5
    DEF Place, Executing, Ending, Joining, Leaving, Switching, Steady
  <2>s. StateMeans(c)'
    BY <1>1, <1>2, <1>3, <1>7, <2>1, <2>2, <2>4, <2>5
    DEF StateMeans, Executing, Ending, Switching, Steady
  <2>7. InPrograms' /\ OneProcessorEach' /\ Placed' /\ StatesMean'
    <3>1. at'[c] <= Len(prog[c]) + 1
      BY <1>2, <2>1 DEF Control, InPrograms
    <3> QED BY <1>1, <1>2, <2>1, <2>2, <2>6, <2>s, <3>1, OwnStep
  <2>8. Registers' /\ UsersQueued'
    BY <1>2, <2>1, <2>2 DEF Control, Registers, UsersQueued, Switching
  <2>9. Creation'
    BY <1>2, NoCreateStep DEF Inductive
  <2>10. Joins'
    <3>1. Returned' /\ Results'
      BY <1>2, <2>2, SameResults DEF Inductive, Joins, Returned, Ending
    <3>2. JoinStates' /\ OneJoiner' /\ Waking' /\ WillBeWoken'
      BY <1>2, <2>2, NoJoinStep DEF Inductive, Joining
    <3>3. JoinedBefore'
      <4>1. at' \in [Users -> Nat] /\ \A d \in Users : at[d] \in Nat /\ at'[d] = at[d]
        BY <1>2 DEF TypeOK
      <4>2. \A q \in Procs : pc'[q] = "run" => pc[q] = "run"
        BY <2>2
      <4>3. \A u \in Tasks : Exchanged(u) => Exchanged(u)'
        BY <1>2, <4>1, <4>2, NoExchangeStep
      <4> QED BY <1>2, <4>3 DEF Inductive, Joins, JoinedBefore
    <3> QED BY <3>1, <3>2, <3>3 DEF Joins
  <2>11. TasksQueued'
    BY <1>2, <2>1, <2>2, NoQueueStep DEF Inductive, Queues
  <2>12. HomeboundAtHome'
    BY <1>2, <2>1, StayHomeStep DEF Inductive, Queues
  <2>13. Alone'
    BY <1>1, <1>2, <1>4, <1>7, <2>1, <2>2, <2>4, SameQueues, Constants
       DEF Inductive, Queues, Alone, Procs, Leaving, Switching
  <2>14. FaultsExplained'
    BY <2>1 DEF FaultsExplained
  <2> QED BY <2>3, <2>7, <2>8, <2>9, <2>10, <2>11, <2>12, <2>13, <2>14 DEF Inductive, Control, Queues
<1> QED BY <1>10, <1>11, <1>12

(* Who joins makes the program one in which somebody does.                 *)
LEMMA SomebodyJoins ==
  ASSUME TypeOK, InPrograms, NEW c \in Users, Started(c), Doing(c) = "join"
  PROVE  /\ TasksJoin \/ MainJoins
         /\ c = Main => MainJoins
<1>1. Does(c, "join")
  BY DoesIt
<1> QED BY <1>1 DEF TasksJoin, MainJoins, Users

(* The context that is left stays what it is, and only p moves on.         *)
LEMMA SwitchFromWaiting ==
  ASSUME Inductive, NEW p \in Procs, SwitchFrom(p), state[current[p]] \in {"DONE", "WAITING"}
  PROVE  Inductive'
<1>1. PICK c \in Contexts : c = current[p]
  BY DEF Inductive, TypeOK
<1>2. /\ fault = "none" /\ fault' = "none" /\ pc[p] = "switch" /\ TypeOK /\ Control
      /\ pc' = [pc EXCEPT ![p] = "check"]
      /\ prog' = prog /\ at' = at /\ got' = got /\ state' = state /\ joinState' = joinState
      /\ joinTask' = joinTask /\ result' = result /\ current' = current /\ to' = to
      /\ deque' = deque /\ hand' = hand /\ lb' = lb /\ exited' = exited
      /\ state[c] \in {"DONE", "WAITING"}
  BY <1>1 DEF SwitchFrom, At, Goto, Inductive, userVars
<1>3. Place(p, c) /\ StateMeans(c)
  BY <1>1, <1>2 DEF Control, Placed, StatesMean
<1>4. /\ (Doing(c) = "join" /\ state[c] = "WAITING") \/ (Doing(c) = "end" /\ state[c] = "DONE")
      /\ c \in Users /\ Started(c)
  <2>1. (Doing(c) = "join" /\ state[c] = "WAITING") \/ (Doing(c) = "end" /\ state[c] = "DONE")
    <3>1. pc[p] \in Leaving
      BY <1>2 DEF Leaving
    <3>2. \/ Doing(c) \in {"loop", "yield"} /\ state[c] \in {"RUNNING", "READY"}
          \/ Doing(c) = "join" /\ state[c] \in {"WAITING", "READY"}
          \/ Doing(c) = "end" /\ state[c] = "DONE"
      BY <1>3, <3>1 DEF Place, Steady
    <3>3. state[c] = "DONE" \/ state[c] = "WAITING"
      BY <1>2
    <3> QED BY <3>2, <3>3
  <2> QED BY <1>2, <1>3, <2>1, DoingLoop DEF Place, Control
<1>5. pc'[p] = "check" /\ \A q \in Procs : q # p => pc'[q] = pc[q]
  BY <1>2 DEF TypeOK
<1>6. TypeOK'
  BY <1>2 DEF TypeOK, Labels
<1>7. \A d \in Contexts : /\ Doing(d)' = Doing(d) /\ Target(d)' = Target(d)
                          /\ Started(d)' <=> Started(d)
                          /\ Rash(d)' <=> Rash(d)
  BY <1>2, RashIsMain DEF Doing, Target, Started
<1>8. Place(p, c)' /\ StateMeans(c)'
  BY <1>1, <1>2, <1>3, <1>4, <1>5, <1>7
  DEF Place, StateMeans, Executing, Ending, Joining, Leaving, Switching, Steady
<1>9. InPrograms' /\ OneProcessorEach' /\ Placed' /\ StatesMean'
  <2>1. at'[c] <= Len(prog[c]) + 1
    BY <1>2, <1>4 DEF Control, InPrograms
  <2> QED BY <1>1, <1>2, <1>5, <1>8, <2>1, OwnStep
<1>10. Registers' /\ UsersQueued'
  BY <1>2, <1>5 DEF Control, Registers, UsersQueued, Switching
<1>11. Creation'
  BY <1>2, NoCreateStep DEF Inductive
<1>12. Joins'
  <2>1. Returned' /\ Results'
    BY <1>2, <1>5, SameResults DEF Inductive, Joins, Returned, Ending
  <2>2. JoinStates' /\ OneJoiner' /\ Waking' /\ WillBeWoken'
    BY <1>2, <1>5, NoJoinStep DEF Inductive, Joining
  <2>3. JoinedBefore'
    BY <1>2, <1>5, <1>6, NoExchangeStep DEF Inductive, TypeOK, Joins, JoinedBefore
  <2> QED BY <2>1, <2>2, <2>3 DEF Joins
<1>13. TasksQueued'
  BY <1>2, <1>5, NoQueueStep DEF Inductive, Queues
<1>14. HomeboundAtHome'
  BY <1>2, StayHomeStep DEF Inductive, Queues
<1>15. Alone'
  BY <1>1, <1>2, <1>4, <1>5, <1>7, SameQueues, Constants
  DEF Inductive, Queues, Alone, Procs, Leaving, Switching
<1>16. FaultsExplained'
  BY <1>2 DEF FaultsExplained
<1> QED BY <1>6, <1>9, <1>10, <1>11, <1>12, <1>13, <1>14, <1>15, <1>16 DEF Inductive, Control, Queues

(* A context that could go on is queued again, but for the idle task.      *)
LEMMA SwitchFromRunning ==
  ASSUME Inductive, NEW p \in Procs, SwitchFrom(p), state[current[p]] = "RUNNING"
  PROVE  Inductive'
<1>1. PICK c \in Contexts : c = current[p]
  BY DEF Inductive, TypeOK
<1>2. /\ fault = "none" /\ pc[p] = "switch" /\ TypeOK /\ Control
      /\ pc' = [pc EXCEPT ![p] = "check"] /\ state' = [state EXCEPT ![c] = "READY"]
      /\ c # p => Schedule(p, c) /\ Push(p, c)
      /\ c = p => deque' = deque /\ fault' = fault
      /\ prog' = prog /\ at' = at /\ got' = got /\ joinState' = joinState
      /\ joinTask' = joinTask /\ result' = result /\ current' = current /\ to' = to
      /\ hand' = hand /\ lb' = lb /\ exited' = exited
      /\ state[c] = "RUNNING"
  BY <1>1 DEF SwitchFrom, Requeue, Schedule, At, Goto, Inductive, userVars
<1>3. Place(p, c) /\ StateMeans(c)
  BY <1>1, <1>2 DEF Control, Placed, StatesMean
<1>4. Doing(c) \in {"loop", "yield"} /\ (c \in Users => Started(c) /\ Doing(c) = "yield")
  BY <1>2, <1>3, DoingLoop DEF Place, Leaving, Control, Steady
<1>5. /\ pc'[p] = "check" /\ \A q \in Procs : q # p => pc'[q] = pc[q]
      /\ state'[c] = "READY" /\ \A d \in Contexts : d # c => state'[d] = state[d]
  BY <1>1, <1>2 DEF TypeOK
<1>6. c # p => c \in Users
  <2>1. c \notin Users => c \in Procs /\ Homebound(c)
    BY DEF Contexts, Users, Homebound
  <2> QED BY <1>1, <2>1 DEF Inductive, Queues, HomeboundAtHome, AtHome
<1>f. fault' \in Faults /\ FaultsExplained'
  <2>1. CASE c = p
    BY <1>2, <2>1 DEF FaultsExplained, Faults
  <2>2. CASE c # p
    BY <1>2, <1>6, <2>2, NotQueued, ScheduleFaults
  <2> QED BY <2>1, <2>2
<1>7. \A d \in Contexts : d # c \/ c = p => (Queued(d)' <=> Queued(d)) /\ (Single(d) => Single(d)')
  BY <1>2, <1>6, Pushed, SameQueues DEF Control
<1>8. deque' \in [Procs -> Seq(Users)]
  BY <1>2, <1>6, Pushed DEF Control, UsersQueued
<1>9. TypeOK'
  <2>1. deque' \in [Procs -> Seq(Contexts)]
    BY <1>8, UsersAreContexts
  <2> QED BY <1>1, <1>2, <1>f, <2>1 DEF TypeOK, Labels
<1>10. \A d \in Contexts : /\ Doing(d)' = Doing(d) /\ Target(d)' = Target(d)
                           /\ Started(d)' <=> Started(d)
                           /\ Rash(d)' <=> Rash(d)
  BY <1>2, RashIsMain DEF Doing, Target, Started
<1>11. Place(p, c)' /\ StateMeans(c)'
  BY <1>1, <1>2, <1>3, <1>4, <1>5, <1>10
  DEF Place, StateMeans, Executing, Ending, Joining, Leaving, Switching, Steady
<1>12. InPrograms' /\ OneProcessorEach' /\ Placed' /\ StatesMean'
  <2>1. c \in Users => at'[c] <= Len(prog[c]) + 1
    BY <1>2 DEF Control, InPrograms
  <2> QED BY <1>1, <1>2, <1>5, <1>11, <2>1, OwnStep
<1>13. Registers'
  BY <1>2, <1>5 DEF Control, Registers, Switching
<1>14. UsersQueued'
  BY <1>2, <1>8 DEF Control, UsersQueued
<1>15. Creation'
  <2>1. \A u \in Tasks : state'[u] = "none" <=> state[u] = "none"
    BY <1>2, <1>5, Constants
  <2> QED BY <1>2, <2>1, NoCreateStep DEF Inductive
<1>16. Joins'
  <2>1. Returned' /\ Results'
    BY <1>2, <1>5, SameResults, Constants DEF Inductive, Joins, Returned, Ending
  <2>2. \A d \in Users : state'[d] = "WAITING" <=> state[d] = "WAITING"
    BY <1>2, <1>5, Constants
  <2>3. JoinStates' /\ OneJoiner' /\ Waking' /\ WillBeWoken'
    BY <1>2, <1>5, <2>2, NoJoinStep DEF Inductive, Joining
  <2>4. JoinedBefore'
    BY <1>2, <1>5, <1>9, NoExchangeStep DEF Inductive, TypeOK, Joins, JoinedBefore
  <2> QED BY <2>1, <2>3, <2>4 DEF Joins
<1>17. c \in Tasks => ~ Queued(c) /\ \A q \in Procs : hand[q] # c /\ to[q] # c
  <2>1. \A q \in Procs : c \in Tasks /\ pc[q] = "wake" /\ hand[q] = c => state[c] = "WAITING"
    BY <1>2, Woken, RashIsMain DEF TypeOK
  <2> QED BY <1>2, <2>1 DEF Inductive, Queues, TasksQueued, TaskQueued
<1>18. \A t \in Tasks \ {c} : state'[t] = "READY" <=> state[t] = "READY"
  BY <1>5, Constants
<1>19. \A q \in Procs : pc[q] = "wake" => pc'[q] = "wake"
  BY <1>2, <1>5
<1>20. TasksQueued'
  <2>1. CASE c = p
    <3>1. \A t \in Tasks : t # c
      BY <2>1, Constants
    <3> QED BY <1>2, <1>18, <1>19, <2>1, <3>1, NoQueueStep DEF Inductive, Queues
  <2>2. CASE c # p
    BY <1>2, <1>5, <1>6, <1>17, <1>18, <1>19, <2>2, PushTasks DEF Inductive, Queues, Control
  <2> QED BY <2>1, <2>2
<1>21. HomeboundAtHome'
  <2>1. \A d \in Procs : Homebound(d) => (d # c \/ c = p) /\ d \in Contexts
    BY <1>1, Constants DEF Inductive, Queues, HomeboundAtHome, AtHome
  <2> QED BY <1>2, <1>5, <1>7, <2>1, StayHomeStep DEF Inductive, Queues
<1>22. Alone'
  <2> SUFFICES ASSUME N = 1 PROVE Alone'
    BY DEF Alone
  <2>1. p = Main /\ Main \in Contexts
    BY Constants DEF Procs, Main
  <2>2. (Queued(Main)' <=> Queued(Main)) /\ (Single(Main) => Single(Main)')
    BY <1>7, <2>1
  <2> QED BY <1>1, <1>2, <1>4, <1>5, <1>10, <2>1, <2>2
      DEF Inductive, Queues, Alone, Leaving, Switching
<1> QED BY <1>f, <1>9, <1>12, <1>13, <1>14, <1>15, <1>16, <1>20, <1>21, <1>22
        DEF Inductive, Control, Queues

(* A joiner woken before it was left.                                      *)
LEMMA SwitchFromReady ==
  ASSUME Inductive, NEW p \in Procs, SwitchFrom(p), state[current[p]] = "READY"
  PROVE  Inductive'
<1>1. PICK c \in Contexts : c = current[p]
  BY DEF Inductive, TypeOK
<1>2. /\ fault' = "switch_from_ready" /\ pc[p] = "switch" /\ TypeOK /\ Control
      /\ prog' = prog /\ at' = at /\ got' = got /\ state' = state /\ joinState' = joinState
      /\ joinTask' = joinTask /\ result' = result /\ current' = current /\ to' = to
      /\ deque' = deque /\ hand' = hand /\ lb' = lb /\ exited' = exited /\ pc' = pc
      /\ state[c] = "READY"
  BY <1>1 DEF SwitchFrom, At, Inductive, userVars
<1>3. Place(p, c)
  BY <1>1, <1>2 DEF Control, Placed
<1>4. ASSUME Doing(c) = "join" PROVE N > 1 /\ (TasksJoin \/ MainJoins)
  <2>1. c \in Users /\ Started(c)
    BY <1>2, <1>3, <1>4, DoingLoop DEF Place, Control
  <2>2. N # 1
    BY <1>1, <1>2, <1>4, <2>1, Constants DEF Inductive, Queues, Alone, Procs, Main, Leaving
  <2>3. TasksJoin \/ MainJoins
    BY <1>2, <1>4, <2>1, SomebodyJoins DEF Control
  <2> QED BY <2>2, <2>3, Constants
<1>5. ASSUME Doing(c) # "join" PROVE N > 1 /\ (TasksJoin \/ MainJoins)
  <2>1. Rash(c)
    BY <1>2, <1>3, <1>5 DEF Place, Leaving, Steady
  <2> QED BY <2>1, RashIsMain
<1>7. N > 1 /\ (TasksJoin \/ MainJoins)
  BY <1>4, <1>5
<1>9. FaultsExplained'
  BY <1>2, <1>7 DEF FaultsExplained, TasksJoin, MainJoins, Does
<1>10. TypeOK'
  BY <1>2 DEF TypeOK, Faults
<1> QED BY <1>2, <1>9, <1>10, FaultStep DEF userVars, taskVars

LEMMA SwitchFromStep ==
  ASSUME Inductive, NEW p \in Procs, SwitchFrom(p)
  PROVE  Inductive'
BY SwitchFromWaiting, SwitchFromRunning, SwitchFromReady DEF SwitchFrom

(* The assertion holds, and changes nothing.                               *)
LEMMA AssertHolds ==
  ASSUME Inductive, NEW p \in Procs, AssertReady(p), state[to[p]] = "READY"
  PROVE  Inductive'
<1>1. PICK c \in Contexts : c = current[p]
  BY DEF Inductive, TypeOK
<1>2. /\ fault = "none" /\ fault' = "none" /\ pc[p] = "check" /\ TypeOK /\ Control
      /\ pc' = [pc EXCEPT ![p] = "swap"]
      /\ prog' = prog /\ at' = at /\ got' = got /\ state' = state /\ joinState' = joinState
      /\ joinTask' = joinTask /\ result' = result /\ current' = current /\ to' = to
      /\ deque' = deque /\ hand' = hand /\ lb' = lb /\ exited' = exited
  BY <1>1 DEF AssertReady, At, Goto, Inductive, userVars, taskVars
<1>3. Place(p, c) /\ StateMeans(c) /\ \A q \in Procs : current[q] = c => q = p
  BY <1>1, <1>2 DEF Control, Placed, StatesMean, OneProcessorEach
<1>4. pc'[p] = "swap" /\ \A q \in Procs : q # p => pc'[q] = pc[q]
  BY <1>2 DEF TypeOK
<1>5. TypeOK'
  BY <1>2 DEF TypeOK, Labels
<1>6. \A d \in Contexts : /\ Doing(d)' = Doing(d) /\ Target(d)' = Target(d)
                          /\ Started(d)' <=> Started(d)
                          /\ Rash(d)' <=> Rash(d)
  BY <1>2, RashIsMain DEF Doing, Target, Started
<1>7. /\ Served(c) => Served(c)'
      /\ BeingServed(c) => BeingServed(c)'
  BY <1>2, <1>4, <1>6 DEF Served, BeingServed
<1>8. Place(p, c)'
  BY <1>1, <1>2, <1>3, <1>4, <1>6, <1>7
  DEF Place, Executing, Ending, Joining, Leaving, Switching, Steady
<1>9. StateMeans(c)'
  BY <1>1, <1>2, <1>3, <1>4, <1>6, <1>7 DEF StateMeans, Executing, Ending, Switching
<1>10. InPrograms' /\ OneProcessorEach' /\ Placed' /\ StatesMean'
  <2>1. c \in Users => at'[c] <= Len(prog[c]) + 1
    BY <1>2 DEF Control, InPrograms
  <2> QED BY <1>1, <1>2, <1>4, <1>8, <1>9, <2>1, OwnStep
<1>11. Registers' /\ UsersQueued'
  BY <1>2, <1>4 DEF Control, Registers, UsersQueued, Switching
<1>12. Creation'
  BY <1>2, NoCreateStep DEF Inductive
<1>13. Joins'
  <2>1. Returned' /\ Results'
    BY <1>2, <1>4, SameResults DEF Inductive, Joins, Returned, Ending
  <2>2. JoinStates' /\ OneJoiner' /\ Waking' /\ WillBeWoken'
    BY <1>2, <1>4, NoJoinStep DEF Inductive, Joining
  <2>3. JoinedBefore'
    BY <1>2, <1>4, <1>5, NoExchangeStep DEF Inductive, TypeOK, Joins, JoinedBefore
  <2> QED BY <2>1, <2>2, <2>3 DEF Joins
<1>14. TasksQueued'
  BY <1>2, <1>4, NoQueueStep DEF Inductive, Queues
<1>15. HomeboundAtHome'
  BY <1>2, StayHomeStep DEF Inductive, Queues
<1>16. Alone'
  BY <1>1, <1>2, <1>4, <1>6, SameQueues, Constants
  DEF Inductive, Queues, Alone, Procs, Leaving, Switching
<1>17. FaultsExplained'
  BY <1>2 DEF FaultsExplained
<1> QED BY <1>5, <1>10, <1>11, <1>12, <1>13, <1>14, <1>15, <1>16, <1>17
        DEF Inductive, Control, Queues

(* Main is resumed by its idle role while it waits, or runs elsewhere.     *)
LEMMA AssertFails ==
  ASSUME Inductive, NEW p \in Procs, AssertReady(p), state[to[p]] # "READY"
  PROVE  Inductive'
<1>1. PICK x \in Contexts : x = to[p]
  BY DEF Inductive, TypeOK, Control, Registers, Switching, AssertReady, At
<1>2. /\ fault' = "switch_to_not_ready" /\ TypeOK /\ Control /\ pc[p] = "check"
      /\ prog' = prog /\ at' = at /\ got' = got /\ state' = state /\ joinState' = joinState
      /\ joinTask' = joinTask /\ result' = result /\ current' = current /\ to' = to
      /\ deque' = deque /\ hand' = hand /\ lb' = lb /\ exited' = exited /\ pc' = pc
      /\ state[x] # "READY"
  BY <1>1 DEF AssertReady, At, Inductive, userVars, taskVars
<1>3. x \in Procs
  BY <1>1, <1>2 DEF Contexts, Inductive, Queues, TasksQueued, TaskQueued
<1>4. ~ Homebound(x)
  <2>1. ASSUME Homebound(x) PROVE FALSE
    <3>1. x = p /\ current[p] # x
      BY <1>1, <1>3, <2>1 DEF Inductive, Queues, HomeboundAtHome, AtHome
    <3> QED BY <1>2, <1>3, <2>1, <3>1 DEF Inductive, Queues, HomeboundAtHome, AtHome
  <2> QED BY <2>1
<1>5. x = Main /\ MainJoins
  BY <1>3, <1>4 DEF Homebound, MainJoins
<1>6. N > 1
  <2>1. N = 1 => p = Main
    BY DEF Procs, Main
  <2>2. N # 1
    BY <1>1, <1>2, <1>5, <2>1 DEF Inductive, Queues, Alone
  <2> QED BY <2>2, Constants
<1>7. FaultsExplained'
  BY <1>2, <1>5, <1>6 DEF FaultsExplained, MainJoins, Does
<1>8. TypeOK'
  BY <1>2 DEF TypeOK, Faults
<1> QED BY <1>2, <1>7, <1>8, FaultStep DEF userVars, taskVars

LEMMA AssertReadyStep ==
  ASSUME Inductive, NEW p \in Procs, AssertReady(p)
  PROVE  Inductive'
BY AssertHolds, AssertFails

(* The context p is about to execute, and nobody else does: it is ready,   *)
(* or it is rash main, and main still waits.                               *)
LEMMA SwitchedTo ==
  ASSUME Inductive, NEW p \in Procs, pc[p] = "swap", NEW x \in Contexts, x = to[p],
         \A q \in Procs \ {p} : current[q] # x
  PROVE  /\ ~ Rash(x) => state[x] = "READY"
         /\ state[x] \in {"READY", "WAITING"}
         /\ x \in Users /\ ~ Started(x) => x \in Tasks
         /\ x \in Users /\ Started(x) =>
               Doing(x) = "yield" \/ (Doing(x) = "join" /\ (Rash(x) \/ Served(x)))
<1>1. TypeOK /\ StateMeans(x)
  BY DEF Inductive, Control, StatesMean
<1>2. N = 1 => Procs = {Main} /\ p = Main
  BY DEF Procs, Main
<1>3. ASSUME x \in Procs, Homebound(x) PROVE state[x] = "READY" /\ \A q \in Procs : hand[q] # x
  <2>1. AtHome(x)
    BY <1>3 DEF Inductive, Queues, HomeboundAtHome
  <2>2. x = p /\ current[p] # x
    BY <1>3, <2>1 DEF AtHome
  <2> QED BY <1>3, <2>1, <2>2 DEF AtHome
<1>4. x \in Tasks => state[x] = "READY" /\ \A q \in Procs : hand[q] # x
  BY DEF Inductive, Queues, TasksQueued, TaskQueued
<1>5. ASSUME N = 1, x = Main PROVE state[x] = "READY" /\ \A q \in Procs : pc[q] # "deliver"
  <2>1. to[Main] = Main => state[Main] = "READY"
    BY <1>5 DEF Inductive, Queues, Alone
  <2>2. p = Main /\ \A q \in Procs : q = p
    BY <1>2, <1>5
  <2> QED BY <1>5, <2>1, <2>2
<1>6. x \notin Users => x \in Procs /\ Homebound(x)
  BY DEF Contexts, Users, Homebound
<1>7. ~ Rash(x) => state[x] = "READY" /\ ~ BeingServed(x)
  <2>1. ~ Rash(x) => x \in Tasks \/ (N = 1 /\ x = Main) \/ (x \in Procs /\ Homebound(x))
    BY <1>6, RashIsMain, Constants DEF Users
  <2>2. (\A q \in Procs : hand[q] # x) \/ (\A q \in Procs : pc[q] # "deliver") => ~ BeingServed(x)
    BY DEF BeingServed
  <2> QED BY <1>3, <1>4, <1>5, <2>1, <2>2
<1>8. Rash(x) => state[x] \in {"READY", "WAITING"}
  <2>1. state[x] # "RUNNING"
    BY <1>1 DEF StateMeans, Switching
  <2>2. Rash(x) => state[x] # "none" /\ state[x] # "DONE"
    BY <1>1, RashIsMain DEF StateMeans
  <2> QED BY <1>1, <2>1, <2>2 DEF TypeOK
<1>9. x \in Users /\ ~ Started(x) => x \in Tasks
  BY <1>1 DEF StateMeans
<1>10. ASSUME x \in Users, Started(x)
       PROVE  Doing(x) = "yield" \/ (Doing(x) = "join" /\ (Rash(x) \/ Served(x)))
  <2>1. ~ \E q \in Procs : current[q] = x /\ pc[q] \in Executing
    BY DEF Executing, Ending
  <2> QED BY <1>1, <1>7, <1>8, <1>10, <2>1 DEF StateMeans
<1>11. state[x] \in {"READY", "WAITING"}
  BY <1>7, <1>8
<1> QED BY <1>7, <1>9, <1>10, <1>11

(* The other context was ready, and nobody else executes it: it goes on.   *)
LEMMA SwitchToGoesOn ==
  ASSUME Inductive, NEW p \in Procs, SwitchTo(p),
         \A q \in Procs \ {p} : current[q] # to[p]
  PROVE  Inductive'
<1>1. PICK c \in Contexts : c = current[p]
  BY DEF Inductive, TypeOK
<1>2. PICK x \in Contexts : x = to[p]
  BY DEF Inductive, TypeOK, Control, Registers, Switching, SwitchTo, At
<1>3. /\ fault = "none" /\ fault' = "none" /\ pc[p] = "swap" /\ TypeOK /\ Control
      /\ \A q \in Procs : q # p => current[q] # x
      /\ state' = [state EXCEPT ![x] = "RUNNING"] /\ current' = [current EXCEPT ![p] = x]
      /\ to' = [to EXCEPT ![p] = None]
      /\ \/ x \in Tasks /\ at[x] = 0 /\ pc' = [pc EXCEPT ![p] = "run"]
            /\ at' = [at EXCEPT ![x] = at[x] + 1]
         \/ ~ (x \in Tasks /\ at[x] = 0) /\ pc' = [pc EXCEPT ![p] = "resumed"] /\ at' = at
      /\ prog' = prog /\ got' = got /\ joinState' = joinState
      /\ joinTask' = joinTask /\ result' = result /\ deque' = deque
      /\ hand' = hand /\ lb' = lb /\ exited' = exited
  BY <1>2 DEF SwitchTo, At, Goto, Advance, Inductive
<1>4. /\ \A q \in Procs : q # p => pc'[q] = pc[q] /\ current'[q] = current[q] /\ to'[q] = to[q]
      /\ current'[p] = x /\ to'[p] = None /\ pc'[p] \in {"run", "resumed"}
      /\ state'[x] = "RUNNING" /\ \A d \in Contexts : d # x => state'[d] = state[d]
      /\ pc'[p] = "run" => x \in Tasks /\ at[x] = 0 /\ at'[x] = 1
      /\ pc'[p] = "resumed" => at' = at /\ ~ (x \in Tasks /\ at[x] = 0)
  <2>1. /\ \A q \in Procs : q # p => current'[q] = current[q] /\ to'[q] = to[q]
        /\ current'[p] = x /\ to'[p] = None
        /\ state'[x] = "RUNNING" /\ \A d \in Contexts : d # x => state'[d] = state[d]
    BY <1>3 DEF TypeOK
  <2>2. CASE x \in Tasks /\ at[x] = 0 /\ pc' = [pc EXCEPT ![p] = "run"]
    BY <1>3, <2>1, <2>2, Constants DEF TypeOK
  <2>3. CASE ~ (x \in Tasks /\ at[x] = 0) /\ pc' = [pc EXCEPT ![p] = "resumed"] /\ at' = at
    BY <1>3, <2>1, <2>3 DEF TypeOK
  <2> QED BY <1>3, <2>2, <2>3
<1>5. /\ at' \in [Users -> Nat] /\ \A d \in Users : d # x => at'[d] = at[d]
      /\ x \in Users => at'[x] = at[x] \/ (at[x] = 0 /\ at'[x] = 1)
  BY <1>3, Constants DEF TypeOK
<1>6. TypeOK'
  <2>1. pc' \in [Procs -> Labels]
    BY <1>3, ZenonT(40) DEF TypeOK, Labels
  <2>2. /\ state' \in [Contexts -> {"none", "READY", "RUNNING", "WAITING", "DONE"}]
        /\ current' \in [Procs -> Contexts] /\ to' \in [Procs -> Contexts \cup {None}]
    BY <1>3 DEF TypeOK
  <2> QED BY <1>3, <1>5, <2>1, <2>2 DEF TypeOK
<1>7. /\ Place(p, c)
      /\ ~ Rash(x) => state[x] = "READY"
      /\ state[x] \in {"READY", "WAITING"}
      /\ x \in Users /\ ~ Started(x) => x \in Tasks
      /\ x \in Users /\ Started(x) =>
               Doing(x) = "yield" \/ (Doing(x) = "join" /\ (Rash(x) \/ Served(x)))
  BY <1>1, <1>2, <1>3, SwitchedTo DEF Control, Placed
<1>8. \A d \in Contexts : Rash(d)' <=> Rash(d)
  BY <1>3, RashIsMain
<1>9. x \in Users => Started(x)'
  BY <1>3, <1>4, <1>5, <1>7 DEF Started, TypeOK
<1>10. pc'[p] = "resumed" => /\ Doing(x)' = Doing(x) /\ (Served(x) => Served(x)')
                             /\ x \in Users => Started(x)
  BY <1>3, <1>4, <1>9 DEF Doing, Served, Target, Started
<1>11. ASSUME NEW d \in Contexts, d # x
       PROVE  /\ Doing(d)' = Doing(d)
              /\ d \in Users => Started(d)' = Started(d) /\ (Served(d)' <=> Served(d))
                               /\ (BeingServed(d) => BeingServed(d)')
              /\ \A s : Steady(d, s)' <=> Steady(d, s)
  <2>1. /\ Doing(d)' = Doing(d)
        /\ d \in Users => Target(d)' = Target(d) /\ Started(d)' = Started(d)
    BY <1>3, <1>5, <1>11, SameDoing
  <2>2. d \in Users => (Served(d)' <=> Served(d))
    BY <1>3, <2>1 DEF Served
  <2>3. d \in Users => (BeingServed(d) => BeingServed(d)')
    BY <1>3, <1>4, <2>1 DEF BeingServed
  <2>4. \A s : Steady(d, s)' <=> Steady(d, s)
    BY <1>4, <1>8, <1>11 DEF Steady
  <2> QED BY <2>1, <2>2, <2>3, <2>4
<1>12. Place(p, x)'
  <2>1. CASE pc'[p] = "run"
    BY <1>4, <1>9, <2>1, Constants DEF Place, Executing, Ending, Joining, Leaving, Switching, Steady
  <2>2. CASE pc'[p] = "resumed"
    <3>1. \/ Doing(x) \in {"loop", "yield"}
          \/ Doing(x) = "join" /\ (Rash(x) \/ Served(x))
      BY <1>3, <1>7, <1>10, <2>2, DoingLoop DEF Control
    <3> QED BY <1>4, <1>8, <1>9, <1>10, <2>2, <3>1 DEF Place, Executing, Ending, Joining, Leaving, Switching, Steady
  <2> QED BY <1>4, <2>1, <2>2
<1>13. InPrograms'
  <2>1. ASSUME NEW d \in Users PROVE at'[d] <= Len(prog[d]) + 1
    <3>1. at[d] <= Len(prog[d]) + 1 /\ Len(prog[d]) \in Nat /\ at[d] \in Nat
      BY <1>3 DEF Control, InPrograms, TypeOK
    <3> QED BY <1>5, <3>1
  <2> QED BY <1>3, <2>1 DEF Control, InPrograms
<1>14. OneProcessorEach'
  BY <1>3, <1>4 DEF Control, OneProcessorEach
<1>15. Registers' /\ UsersQueued'
  BY <1>3, <1>4 DEF Control, Registers, UsersQueued, Switching
<1>16. Placed'
  <2>1. ASSUME NEW q \in Procs, q # p, NEW d \in Contexts, current'[q] = d PROVE Place(q, d)'
    <3>1. Place(q, d) /\ d # x /\ state'[d] = state[d] /\ pc'[q] = pc[q]
      BY <1>3, <1>4, <2>1 DEF Control, Placed
    <3>2. Doing(d) = "join" => d \in Users
      BY <1>3, DoingLoop DEF Control
    <3> QED BY <1>3, <1>8, <1>11, <3>1, <3>2 DEF Place
  <2> QED BY <1>4, <1>12, <2>1 DEF Placed
<1>17. StatesMean'
  <2>1. ASSUME NEW d \in Contexts, d # x PROVE StateMeans(d)'
    <3>1. StateMeans(d) /\ state'[d] = state[d]
      BY <1>3, <1>4, <2>1 DEF Control, StatesMean
    <3>2. /\ (\E q \in Procs : current[q] = d /\ pc[q] \notin {"publish"} \cup Switching)
               => \E q \in Procs : current'[q] = d /\ pc'[q] \notin {"publish"} \cup Switching
          /\ (\E q \in Procs : current[q] = d /\ pc[q] \in Executing)
               => \E q \in Procs : current'[q] = d /\ pc'[q] \in Executing
      BY <1>3, <1>4 DEF Switching, Executing, Ending
    <3> QED BY <1>3, <1>8, <1>11, <2>1, <3>1, <3>2, Constants DEF StateMeans
  <2>2. StateMeans(x)'
    BY <1>4, <1>9 DEF StateMeans, Switching
  <2> QED BY <2>1, <2>2 DEF StatesMean
<1>18. Control'
  BY <1>13, <1>14, <1>15, <1>16, <1>17 DEF Control
<1>19. Creation'
  <2>1. \A u \in Tasks : state'[u] = "none" <=> state[u] = "none"
    BY <1>3, <1>4, <1>7, Constants
  <2>2. \A e \in Users : at'[e] = at[e] \/ (at'[e] = at[e] + 1 /\ ~ Started(e))
    BY <1>5 DEF Started
  <2> QED BY <1>3, <2>1, <2>2, NoCreateStep DEF Inductive
<1>20. Joins'
  <2>1. Returned' /\ Results'
    <3>1. \A q \in Procs : current[q] = x /\ pc[q] \in Ending => FALSE
      BY <1>2, <1>3 DEF Ending
    <3>2. \A q \in Procs : pc[q] \in Ending => pc'[q] = pc[q] /\ current'[q] = current[q]
      BY <1>3, <1>4 DEF Ending
    <3>3. state[x] # "DONE"
      BY <1>7
    <3>4. Returned'
      BY <1>3, <1>4, <3>1, <3>2, <3>3, Constants DEF Inductive, Joins, Returned
    <3> QED BY <1>3, <3>4, SameResults DEF Inductive, Joins
  <2>2. /\ \A d \in Users : state'[d] = "WAITING" => state[d] = "WAITING"
        /\ \A d \in Users : state[d] = "WAITING" => Rash(d) \/ state'[d] = "WAITING"
    BY <1>3, <1>4, <1>7, Constants
  <2>3. \A d \in Users : state[d] = "WAITING" => at'[d] = at[d]
    BY <1>3, <1>4, <1>5, <1>7, RashIsMain, Constants
  <2>7. \A d \in Users : Started(d) => at'[d] = at[d]
    BY <1>3, <1>5 DEF Started
  <2>4. \A q \in Procs \ {p}, d \in Users : current[q] = d => at'[d] = at[d]
    BY <1>3, <1>5
  <2>5. JoinStates' /\ OneJoiner' /\ Waking' /\ WillBeWoken'
    BY <1>3, <1>4, <2>2, <2>3, <2>4, <2>7, NoJoinStep DEF Inductive, Joining
  <2>6. JoinedBefore'
    <3>1. \A d \in Users : at'[d] >= at[d]
      BY <1>3, <1>5 DEF TypeOK
    <3>2. \A q \in Procs, d \in Users : current'[q] = d /\ pc'[q] = "run" =>
            at'[d] > at[d] \/ (at'[d] = at[d] /\ current[q] = d /\ pc[q] = "run")
      BY <1>3, <1>4, <2>4
    <3> QED BY <1>3, <1>5, <3>1, <3>2, NoExchangeStep DEF Inductive, Joins, JoinedBefore
  <2> QED BY <2>1, <2>5, <2>6 DEF Joins
<1>21. \A d \in Contexts : Queued(d)' = Queued(d) /\ Single(d)' = Single(d)
  BY <1>3, SameQueues
<1>22. TasksQueued'
  <2> SUFFICES ASSUME NEW t \in Tasks PROVE TaskQueued(t)'
    BY DEF TasksQueued
  <2>1. TaskQueued(t) /\ t \in Contexts /\ t # None
    BY Constants DEF Inductive, Queues, TasksQueued
  <2>2. \A q \in Procs : pc[q] = "wake" => pc'[q] = "wake"
    BY <1>3, <1>4
  <2>3. \A q \in Procs : to'[q] = t <=> to[q] = t /\ q # p
    BY <1>4, <2>1
  <2>4. CASE t = x
    <3>0. state[x] = "READY"
      BY <1>7, <2>4, RashIsMain
    <3>1. ~ Queued(t) /\ \A q \in Procs : hand[q] # t /\ to'[q] # t
      BY <1>2, <2>1, <2>3, <2>4 DEF TaskQueued
    <3> QED BY <1>3, <1>4, <1>21, <2>1, <2>4, <3>0, <3>1 DEF TaskQueued
  <2>5. CASE t # x
    <3>1. \A q \in Procs : to'[q] = t <=> to[q] = t
      BY <1>2, <2>3, <2>5
    <3> QED BY <1>3, <1>4, <1>21, <2>1, <2>2, <2>5, <3>1 DEF TaskQueued
  <2> QED BY <2>4, <2>5
<1>23. HomeboundAtHome'
  <2>1. ASSUME NEW d \in Procs, Homebound(d) PROVE AtHome(d)'
    <3>1. AtHome(d) /\ d \in Contexts /\ d # None
      BY <2>1, Constants DEF Inductive, Queues, HomeboundAtHome
    <3>2. CASE d = x
      BY <1>2, <1>3, <1>4, <1>21, <3>1, <3>2 DEF AtHome
    <3>3. CASE d # x
      <4>1. current[d] = d /\ d = p => state[d] = "READY"
        <5> SUFFICES ASSUME d = c PROVE state[d] = "READY"
          BY <1>1
        <5>1. c \in Users => c = Main
          BY Constants
        <5>2. c \in Users => Doing(c) # "join"
          BY <1>3, <1>7, <2>1, <5>1, DoesIt DEF Homebound, Place, Control
        <5>3. Doing(c) \notin {"join", "end"}
          <6>1. Doing(c) = "end" => state[c] # "READY"
            BY <1>3, <1>7 DEF Place, Switching
          <6>2. state[c] # "DONE"
            BY <1>1, <1>3, <5>1, Constants DEF Control, StatesMean, StateMeans
          <6>3. c \notin Users => Doing(c) = "loop"
            BY <1>3, DoingLoop DEF Control
          <6> QED BY <1>3, <1>7, <5>2, <6>1, <6>2, <6>3 DEF Place, Switching
        <5> QED BY <1>3, <1>7, <5>3 DEF Place, Switching
      <4>2. current'[d] # d => state[d] = "READY"
        BY <1>4, <3>1, <4>1 DEF AtHome
      <4> QED BY <1>3, <1>4, <1>21, <3>1, <3>3, <4>2 DEF AtHome
    <3> QED BY <3>2, <3>3
  <2>2. \A d \in Procs : Homebound(d)' <=> Homebound(d)
    BY <1>3 DEF Homebound, Does
  <2> QED BY <2>1, <2>2 DEF HomeboundAtHome
<1>24. Alone'
  <2> SUFFICES ASSUME N = 1 PROVE Alone'
    BY DEF Alone
  <2>1. p = Main /\ Main \in Contexts /\ Main # None
    BY Constants DEF Procs, Main
  <2>2. Queued(Main)' => state'[Main] = "READY" /\ hand'[Main] # Main /\ to'[Main] # Main
    BY <1>2, <1>3, <1>4, <1>21, <2>1 DEF Inductive, Queues, Alone
  <2>3. hand[Main] = None
    BY <1>3, <2>1 DEF Control, Registers, Switching
  <2> QED BY <1>3, <1>4, <1>21, <2>1, <2>2, <2>3, Constants
      DEF Inductive, Queues, Alone, Leaving, Switching
<1>25. FaultsExplained'
  BY <1>3 DEF FaultsExplained
<1> QED BY <1>6, <1>18, <1>19, <1>20, <1>22, <1>23, <1>24, <1>25 DEF Inductive, Queues

(* Somebody still executes the other context: it was queued before it was  *)
(* left.                                                                   *)
LEMMA SwitchToStale ==
  ASSUME Inductive, NEW p \in Procs, SwitchTo(p),
         NEW q \in Procs \ {p}, current[q] = to[p]
  PROVE  Inductive'
<1>1. PICK x \in Contexts : x = to[p]
  BY DEF Inductive, TypeOK, Control, Registers, Switching, SwitchTo, At
<1>2. /\ fault' = "stale_context" /\ TypeOK /\ Control
      /\ prog' = prog /\ at' = at /\ got' = got /\ state' = state /\ joinState' = joinState
      /\ joinTask' = joinTask /\ result' = result /\ current' = current /\ to' = to
      /\ deque' = deque /\ hand' = hand /\ lb' = lb /\ exited' = exited /\ pc' = pc
      /\ current[q] = x
  BY <1>1 DEF SwitchTo, At, Inductive
<1>3. N > 1
  BY Constants DEF Procs
<1>4. TasksYield \/ TasksJoin \/ MainJoins
  <2>1. CASE x \in Procs
    <3>1. ~ Homebound(x)
      BY <1>1, <1>2, <2>1 DEF Inductive, Queues, HomeboundAtHome, AtHome
    <3> QED BY <2>1, <3>1 DEF Homebound, MainJoins
  <2>2. CASE x \in Tasks
    <3>1. x \in Users /\ Started(x)
      BY <1>2, <2>2, Constants DEF Control, Placed, Place
    <3>0. state[x] = "READY"
      BY <1>1, <2>2 DEF Inductive, Queues, TasksQueued, TaskQueued
    <3>2. Doing(x) \in {"yield", "join"}
      BY <1>2, <2>2, <3>0, <3>1, RashIsMain DEF Control, StatesMean, StateMeans
    <3>3. Does(x, Doing(x))
      BY <1>2, <3>1, <3>2, DoesIt DEF Control
    <3> QED BY <2>2, <3>2, <3>3 DEF TasksYield, TasksJoin
  <2> QED BY <2>1, <2>2 DEF Contexts
<1>5. FaultsExplained'
  BY <1>2, <1>3, <1>4 DEF FaultsExplained, TasksYield, TasksJoin, MainJoins, Does
<1>6. TypeOK'
  BY <1>2 DEF TypeOK, Faults
<1> QED BY <1>2, <1>5, <1>6, FaultStep DEF userVars, taskVars

LEMMA SwitchToStep ==
  ASSUME Inductive, NEW p \in Procs, SwitchTo(p)
  PROVE  Inductive'
BY SwitchToGoesOn, SwitchToStale

(* The routine of a processor starts over.                                 *)
LEMMA ResumedInLoop ==
  ASSUME Inductive, NEW p \in Procs, Resumed(p), Doing(current[p]) = "loop"
  PROVE  Inductive'
<1>1. PICK c \in Contexts : c = current[p]
  BY DEF Inductive, TypeOK
<1>2. /\ fault = "none" /\ fault' = "none" /\ pc[p] = "resumed" /\ Doing(c) = "loop"
      /\ pc' = [pc EXCEPT ![p] = "balance"] /\ TypeOK /\ Control
      /\ prog' = prog /\ at' = at /\ got' = got /\ state' = state /\ joinState' = joinState
      /\ joinTask' = joinTask /\ result' = result /\ deque' = deque /\ current' = current
      /\ hand' = hand /\ to' = to /\ lb' = lb /\ exited' = exited
  BY <1>1 DEF Resumed, At, Goto, taskVars, Inductive
<1>3. pc'[p] = "balance" /\ \A q \in Procs : q # p => pc'[q] = pc[q]
  BY <1>2 DEF TypeOK
<1>4. TypeOK'
  BY <1>2 DEF TypeOK, Labels
<1>5. Place(p, c) /\ StateMeans(c)
  BY <1>1, <1>2 DEF Control, Placed, StatesMean
<1>6. Doing(c)' = Doing(c) /\ (Started(c)' <=> Started(c))
  BY <1>2 DEF Doing, Started
<1>7. c \notin Users /\ state[c] = "RUNNING"
  <2>1. c \notin Users
    BY <1>2, <1>5, DoingLoop DEF Place, Control
  <2> QED BY <1>2, <1>5, <2>1, RashIsMain DEF Place, Steady
<1>8. Place(p, c)' /\ StateMeans(c)'
  BY <1>1, <1>2, <1>3, <1>5, <1>6, <1>7
  DEF Place, StateMeans, Executing, Ending, Joining, Leaving, Switching, Steady
<1>9. Control'
  <2>1. InPrograms' /\ OneProcessorEach' /\ Placed' /\ StatesMean'
    BY <1>1, <1>2, <1>3, <1>7, <1>8, OwnStep
  <2>2. Registers' /\ UsersQueued'
    BY <1>2, <1>3 DEF Control, Registers, UsersQueued, Switching
  <2> QED BY <2>1, <2>2 DEF Control
<1>10. Creation'
  BY <1>2, NoCreateStep DEF Inductive
<1>11. Joins'
  <2>1. Returned' /\ Results'
    BY <1>2, <1>3, SameResults DEF Inductive, Joins, Returned, Ending
  <2>2. JoinStates' /\ OneJoiner' /\ Waking' /\ WillBeWoken'
    BY <1>2, <1>3, NoJoinStep DEF Inductive, Joining
  <2>3. JoinedBefore'
    BY <1>2, <1>3, <1>4, NoExchangeStep DEF Inductive, TypeOK, Joins, JoinedBefore
  <2> QED BY <2>1, <2>2, <2>3 DEF Joins
<1>12. Queues'
  <2>1. TasksQueued'
    BY <1>2, <1>3, NoQueueStep DEF Inductive, Queues
  <2>2. HomeboundAtHome'
    BY <1>2, StayHomeStep DEF Inductive, Queues
  <2>3. Alone'
    BY <1>1, <1>2, <1>3, <1>7, SameQueues, Constants
    DEF Inductive, Queues, Alone, Procs, Main
  <2> QED BY <2>1, <2>2, <2>3 DEF Queues
<1>13. FaultsExplained'
  BY <1>2 DEF FaultsExplained
<1> QED BY <1>4, <1>9, <1>10, <1>11, <1>12, <1>13 DEF Inductive

(* task_yield or task_join returns.                                        *)
LEMMA GoesOn ==
  ASSUME Inductive, NEW p \in Procs, NEW c \in Contexts, c = current[p],
         (pc[p] = "resumed" /\ Doing(c) = "yield") \/ pc[p] = "collect",
         fault = "none", UNCHANGED <<prog, taskVars, deque, current, lb, hand, to, fault, exited>>,
         Goto(p, "run"), Advance(c),
         got' = got \/ (Doing(c) = "join" /\ got' = [got EXCEPT ![c][Target(c)] = result[c]])
  PROVE  Inductive'
<1>1. c = current[p]
  OBVIOUS
<1>2. /\ TypeOK /\ Control /\ pc[p] \in {"resumed", "collect"}
      /\ Doing(c) \in {"yield", "join"} /\ Steady(c, "RUNNING")
      /\ Doing(c) = "join" => pc[p] = "collect"
  <2>1. TypeOK /\ Control /\ Place(p, c)
    BY DEF Inductive, Control, Placed
  <2> QED BY <2>1 DEF Place, Executing, Joining
<1>3. Place(p, c) /\ StateMeans(c) /\ \A q \in Procs : current[q] = c => q = p
  BY <1>1, <1>2 DEF Control, Placed, StatesMean, OneProcessorEach
<1>4. c \in Users /\ Started(c)
  BY <1>2, <1>3, DoingLoop DEF Place, Control
<1>5. /\ fault = "none" /\ fault' = "none"
      /\ pc' = [pc EXCEPT ![p] = "run"] /\ at' = [at EXCEPT ![c] = at[c] + 1]
      /\ got' = got \/ (Doing(c) = "join" /\ got' = [got EXCEPT ![c][Target(c)] = result[c]])
      /\ prog' = prog /\ state' = state /\ joinState' = joinState
      /\ joinTask' = joinTask /\ result' = result /\ deque' = deque /\ current' = current
      /\ hand' = hand /\ to' = to /\ lb' = lb /\ exited' = exited
  BY <1>1 DEF Goto, Advance, taskVars
<1>6. /\ at[c] \in Nat /\ at[c] >= 1 /\ at[c] <= Len(prog[c]) /\ Len(prog[c]) \in Nat
      /\ Doing(c) = "join" => Target(c) \in Tasks
  <2>1. at[c] \in Nat /\ at[c] >= 1 /\ Len(prog[c]) \in Nat
    BY <1>2, <1>4 DEF TypeOK, Started
  <2>2. at[c] \in 1 .. Len(prog[c])
    BY <1>2, <1>4, DoingOf DEF Control
  <2>3. Doing(c) = "join" => Target(c) \in Tasks
    BY <1>2, <1>4, DoingOf DEF Control
  <2> QED BY <2>1, <2>2, <2>3
<1>7. /\ at'[c] = at[c] + 1 /\ at' \in [Users -> Nat]
      /\ \A d \in Users : d # c => at'[d] = at[d]
      /\ pc'[p] = "run" /\ \A q \in Procs : q # p => pc'[q] = pc[q]
  BY <1>2, <1>4, <1>5, <1>6 DEF TypeOK
<1>8. TypeOK'
  <2>1. got' \in [Users -> [Tasks -> Tasks \cup {None}]]
    <3>1. CASE got' = got
      BY <1>2, <3>1 DEF TypeOK
    <3>2. CASE Doing(c) = "join" /\ got' = [got EXCEPT ![c][Target(c)] = result[c]]
      <4>1. PICK u \in Tasks : u = Target(c)
        BY <1>6, <3>2
      <4>2. result[c] \in Tasks \cup {None} /\ got \in [Users -> [Tasks -> Tasks \cup {None}]]
        BY <1>2, <1>4, Constants DEF TypeOK
      <4>3. got' = [got EXCEPT ![c][u] = result[c]]
        BY <3>2, <4>1
      <4> HIDE <3>2
      <4> QED BY <1>4, <4>2, <4>3
    <3> QED BY <1>5, <3>1, <3>2
  <2>2. pc' \in [Procs -> Labels]
    BY <1>2, <1>5 DEF TypeOK, Labels
  <2> QED BY <1>2, <1>5, <1>7, <2>1, <2>2 DEF TypeOK
<1>9. Started(c)'
  BY <1>6, <1>7 DEF Started
<1>r. Rash(c)' <=> Rash(c)
  BY <1>5, RashIsMain
<1>10. Place(p, c)' /\ StateMeans(c)'
  BY <1>1, <1>2, <1>4, <1>5, <1>7, <1>9, <1>r
  DEF Place, StateMeans, Executing, Ending, Joining, Leaving, Switching, Steady
<1>11. Control'
  <2>1. InPrograms' /\ OneProcessorEach' /\ Placed' /\ StatesMean'
    <3>1. at'[c] <= Len(prog[c]) + 1
      BY <1>6, <1>7
    <3> QED BY <1>1, <1>2, <1>5, <1>7, <1>10, <3>1, OwnStep
  <2>2. Registers' /\ UsersQueued'
    BY <1>2, <1>5, <1>7 DEF Control, Registers, UsersQueued, Switching
  <2> QED BY <2>1, <2>2 DEF Control
<1>12. Creation'
  BY <1>2, <1>5, <1>7, NoCreateStep DEF Inductive
<1>13. Joins'
  <2>1. Returned' /\ Results'
    BY <1>2, <1>5, <1>7, SameResults DEF Inductive, Joins, Returned, Ending
  <2>2. JoinStates' /\ OneJoiner' /\ Waking' /\ WillBeWoken'
    <3>1. \A d \in Users : state[d] = "WAITING" => at'[d] = at[d]
      BY <1>2, <1>7 DEF Steady
    <3>3. \A q \in Procs, d \in Users :
            pc[q] = "deliver" /\ hand[q] = d /\ Started(d) /\ Doing(d) = "join" =>
              Rash(d) \/ at'[d] = at[d]
      <4> SUFFICES ASSUME NEW q \in Procs, pc[q] = "deliver", hand[q] = c, ~ Rash(c) PROVE FALSE
        BY <1>7
      <4>1. state[c] = "RUNNING"
        BY <1>2 DEF Steady
      <4>2. state[c] = "READY"
        BY <1>2, Woken DEF TypeOK
      <4> QED BY <4>1, <4>2
    <3>2. \A q \in Procs \ {p}, d \in Users : current[q] = d => at'[d] = at[d]
      BY <1>3, <1>7
    <3> QED BY <1>2, <1>5, <1>7, <3>1, <3>2, <3>3, NoJoinStep DEF Inductive, Joining
  <2>3. JoinedBefore'
    <3>1. ASSUME NEW d \in Users PROVE at'[d] >= at[d]
      <4>1. at[d] \in Nat /\ (at'[d] = at[d] \/ at'[d] = at[d] + 1)
        BY <1>2, <1>7 DEF TypeOK
      <4> QED BY <4>1
    <3>2. \A q \in Procs, d \in Users : current'[q] = d /\ pc'[q] = "run" =>
            at'[d] > at[d] \/ (at'[d] = at[d] /\ current[q] = d /\ pc[q] = "run")
      BY <1>1, <1>3, <1>5, <1>6, <1>7
    <3>3. \A t \in Tasks : Exchanged(t) => Exchanged(t)'
      BY <1>2, <1>5, <1>7, <3>1, <3>2, NoExchangeStep
    <3> QED BY <1>5, <3>3 DEF Inductive, Joins, JoinedBefore
  <2> QED BY <2>1, <2>2, <2>3 DEF Joins
<1>14. Queues'
  <2>1. TasksQueued'
    BY <1>2, <1>5, <1>7, NoQueueStep DEF Inductive, Queues
  <2>2. HomeboundAtHome'
    BY <1>5, StayHomeStep DEF Inductive, Queues
  <2>3. Alone'
    BY <1>2, <1>5, <1>7, SameQueues, Constants
    DEF Inductive, Queues, Alone, Procs, Main, Leaving, Switching
  <2> QED BY <2>1, <2>2, <2>3 DEF Queues
<1>15. FaultsExplained'
  BY <1>5 DEF FaultsExplained
<1> QED BY <1>8, <1>11, <1>12, <1>13, <1>14, <1>15 DEF Inductive

(* task_join goes on to fetch the result.                                  *)
LEMMA ResumedInJoin ==
  ASSUME Inductive, NEW p \in Procs, Resumed(p), state[current[p]] = "RUNNING",
         Doing(current[p]) = "join"
  PROVE  Inductive'
<1>1. PICK c \in Contexts : c = current[p]
  BY DEF Inductive, TypeOK
<1>2. /\ fault = "none" /\ fault' = "none" /\ pc[p] = "resumed" /\ Doing(c) = "join"
      /\ pc' = [pc EXCEPT ![p] = "collect"] /\ TypeOK /\ Control /\ state[c] = "RUNNING"
      /\ prog' = prog /\ at' = at /\ got' = got /\ state' = state /\ joinState' = joinState
      /\ joinTask' = joinTask /\ result' = result /\ deque' = deque /\ current' = current
      /\ hand' = hand /\ to' = to /\ lb' = lb /\ exited' = exited
  BY <1>1 DEF Resumed, At, Goto, taskVars, Inductive
<1>3. pc'[p] = "collect" /\ \A q \in Procs : q # p => pc'[q] = pc[q]
  BY <1>2 DEF TypeOK
<1>4. TypeOK'
  BY <1>2 DEF TypeOK, Labels
<1>5. Place(p, c) /\ StateMeans(c)
  BY <1>1, <1>2 DEF Control, Placed, StatesMean
<1>6. c \in Users /\ Started(c)
  BY <1>2, <1>5, DoingLoop DEF Place, Control
<1>7. \A d \in Contexts : /\ Doing(d)' = Doing(d) /\ Target(d)' = Target(d)
                          /\ Started(d)' <=> Started(d)
                          /\ Rash(d)' <=> Rash(d)
                          /\ Served(d)' <=> Served(d)
  BY <1>2, RashIsMain DEF Doing, Target, Started, Served
<1>8. Place(p, c)' /\ StateMeans(c)'
  BY <1>1, <1>2, <1>3, <1>5, <1>6, <1>7
  DEF Place, StateMeans, Executing, Ending, Joining, Leaving, Switching, Steady
<1>9. Control'
  <2>1. InPrograms' /\ OneProcessorEach' /\ Placed' /\ StatesMean'
    <3>1. at'[c] <= Len(prog[c]) + 1
      BY <1>2, <1>6 DEF Control, InPrograms
    <3> QED BY <1>1, <1>2, <1>3, <1>8, <3>1, OwnStep
  <2>2. Registers' /\ UsersQueued'
    BY <1>2, <1>3 DEF Control, Registers, UsersQueued, Switching
  <2> QED BY <2>1, <2>2 DEF Control
<1>10. Creation'
  BY <1>2, NoCreateStep DEF Inductive
<1>11. Joins'
  <2>1. Returned' /\ Results'
    BY <1>2, <1>3, SameResults DEF Inductive, Joins, Returned, Ending
  <2>2. JoinStates' /\ OneJoiner' /\ Waking' /\ WillBeWoken'
    BY <1>2, <1>3, NoJoinStep DEF Inductive, Joining
  <2>3. JoinedBefore'
    BY <1>2, <1>3, <1>4, NoExchangeStep DEF Inductive, TypeOK, Joins, JoinedBefore
  <2> QED BY <2>1, <2>2, <2>3 DEF Joins
<1>12. Queues'
  <2>1. TasksQueued'
    BY <1>2, <1>3, NoQueueStep DEF Inductive, Queues
  <2>2. HomeboundAtHome'
    BY <1>2, StayHomeStep DEF Inductive, Queues
  <2>3. Alone'
    BY <1>1, <1>2, <1>3, <1>7, SameQueues, Constants
    DEF Inductive, Queues, Alone, Procs, Main, Leaving, Switching
  <2> QED BY <2>1, <2>2, <2>3 DEF Queues
<1>13. FaultsExplained'
  BY <1>2 DEF FaultsExplained
<1> QED BY <1>4, <1>9, <1>10, <1>11, <1>12, <1>13 DEF Inductive

LEMMA CollectStep ==
  ASSUME Inductive, NEW p \in Procs, Collect(p)
  PROVE  Inductive'
<1>1. PICK c \in Contexts : c = current[p]
  BY DEF Inductive, TypeOK
<1>2. Place(p, c) /\ pc[p] = "collect" /\ fault = "none"
  BY <1>1 DEF Inductive, Control, Placed, Collect, At
<1>3. Doing(c) = "join"
  BY <1>2 DEF Place
<1> QED BY <1>1, <1>2, <1>3, GoesOn DEF Collect

(* A joiner that was woken, and switched to once more, before it was left. *)
LEMMA ResumedReady ==
  ASSUME Inductive, NEW p \in Procs, Resumed(p), state[current[p]] # "RUNNING",
         Doing(current[p]) \notin {"loop", "yield"}
  PROVE  Inductive'
<1>1. PICK c \in Contexts : c = current[p]
  BY DEF Inductive, TypeOK
<1>2. TypeOK /\ Control /\ pc[p] = "resumed" /\ state[c] # "RUNNING" /\ Doing(c) \notin {"loop", "yield"}
  BY <1>1 DEF Inductive, Resumed, At
<1>3. Place(p, c)
  BY <1>1, <1>2 DEF Control, Placed
<1>4. Doing(c) = "join" /\ c \in Users /\ Started(c)
  BY <1>2, <1>3, DoingLoop DEF Place, Control
<1>5. /\ fault' = "joiner_not_running"
      /\ prog' = prog /\ at' = at /\ got' = got /\ state' = state /\ joinState' = joinState
      /\ joinTask' = joinTask /\ result' = result /\ current' = current /\ to' = to
      /\ deque' = deque /\ hand' = hand /\ lb' = lb /\ exited' = exited /\ pc' = pc
  BY <1>1, <1>2, <1>4 DEF Resumed, taskVars
<1>6. N > 1
  <2>1. N = 1 => p = Main
    BY DEF Procs, Main
  <2>2. N # 1
    BY <1>1, <1>2, <1>4, <2>1 DEF Inductive, Queues, Alone
  <2> QED BY <2>2, Constants
<1>7. TasksJoin \/ MainJoins
  BY <1>2, <1>4, SomebodyJoins DEF Control
<1>8. FaultsExplained'
  BY <1>5, <1>6, <1>7 DEF FaultsExplained, TasksJoin, MainJoins, Does
<1>9. TypeOK'
  BY <1>2, <1>5 DEF TypeOK, Faults
<1> QED BY <1>5, <1>8, <1>9, FaultStep DEF userVars, taskVars

LEMMA ResumedStep ==
  ASSUME Inductive, NEW p \in Procs, Resumed(p)
  PROVE  Inductive'
<1>1. Doing(current[p]) \in {"loop", "yield", "join", "end"}
  BY DEF Resumed
<1>2. PICK c \in Contexts : c = current[p]
  BY DEF Inductive, TypeOK
<1>3. Place(p, c) /\ pc[p] = "resumed" /\ fault = "none"
  BY <1>2 DEF Inductive, Control, Placed, Resumed, At
<1>4. Doing(c) # "end"
  BY <1>3 DEF Place
<1>5. CASE Doing(c) = "yield"
  BY <1>2, <1>3, <1>5, GoesOn DEF Resumed
<1> QED BY <1>1, <1>2, <1>4, <1>5, ResumedInLoop, ResumedInJoin, ResumedReady

-----------------------------------------------------------------------------
(* Every step of the specification                                         *)

LEMMA ExitStep ==
  ASSUME Inductive, NEW p \in Procs, Exit(p)
  PROVE  Inductive'
<1>1. fault' = fault /\ prog' = prog /\ exited' = TRUE
  BY DEF Exit, userVars
<1>2. FaultsExplained'
  BY <1>1 DEF Inductive, FaultsExplained, JoinedOnce, Places, TasksYield, TasksJoin, MainJoins, Does
<1>3. TypeOK'
  BY <1>1 DEF Inductive, TypeOK, Exit, userVars, taskVars
<1> QED BY <1>2, <1>3, FaultStep DEF Exit

LEMMA StutterStep ==
  ASSUME Inductive, UNCHANGED vars
  PROVE  Inductive'
<1>1. FaultsExplained'
  BY DEF Inductive, FaultsExplained, JoinedOnce, Places, TasksYield, TasksJoin, MainJoins, Does,
         vars, userVars
<1>2. TypeOK'
  BY DEF Inductive, TypeOK, vars, userVars, taskVars
<1> QED BY <1>1, <1>2, FaultStep DEF vars

LEMMA NextInductive == Inductive /\ [Next]_vars => Inductive'
<1> SUFFICES ASSUME Inductive, [Next]_vars PROVE Inductive'
  OBVIOUS
<1>1. ASSUME NEW p \in Procs, UserStep(p) PROVE Inductive'
  BY <1>1, CreateStep, YieldStep, JoinStep, JoinWaitStep, JoinPublishStep, ExitStep DEF UserStep
<1>2. ASSUME NEW p \in Procs, FinishStep(p) PROVE Inductive'
  BY <1>2, ReturnStep, FinishStepOf, SpinStep, WakeStep, DeliverResultStep, ScheduleJoinerStep, DoneStep
  DEF FinishStep
<1>3. ASSUME NEW p \in Procs, BalanceStep(p) PROVE Inductive'
  BY <1>3, BalanceStepOf, CompareStep, StealStep, KeepStep DEF BalanceStep
<1>4. ASSUME NEW p \in Procs, SwitchStep(p) PROVE Inductive'
  BY <1>4, GetTaskStep, NoTaskStep, SwitchFromStep, AssertReadyStep, SwitchToStep, ResumedStep, CollectStep
  DEF SwitchStep
<1>5. CASE UNCHANGED vars
  BY <1>5, StutterStep
<1> QED BY <1>1, <1>2, <1>3, <1>4, <1>5 DEF Next, Step, Stopped

-----------------------------------------------------------------------------
(* Theorems *)

(* Whatever the programs and however many processors run them, every state *)
(* of libtask satisfies every part of the invariant.                       *)
THEOREM InvariantHolds == Spec => []Inductive
<1>1. Init => Inductive
  BY InitInductive
<1>2. Inductive /\ [Next]_vars => Inductive'
  BY NextInductive
<1> QED BY <1>1, <1>2, PTL DEF Spec

LEMMA SlotsOf ==
  ASSUME TypeOK, NEW t \in Tasks, NEW x \in Slots(t)
  PROVE  \/ \E p \in Procs, i \in Nat : Position(t, p, i) /\ x = <<"deque", p, i>>
         \/ \E p \in Procs : hand[p] = t /\ x = <<"hand", p, 0>>
         \/ \E p \in Procs : to[p] = t /\ x = <<"to", p, 0>>
<1> DEFINE D == UNION {{<<"deque", p, i>> : i \in {j \in DOMAIN deque[p] : deque[p][j] = t}} : p \in Procs}
           H == {<<"hand", p, 0>> : p \in {q \in Procs : hand[q] = t}}
           T == {<<"to", p, 0>> : p \in {q \in Procs : to[q] = t}}
<1>1. CASE x \in D
  <2>1. PICK p \in Procs : x \in {<<"deque", p, i>> : i \in {j \in DOMAIN deque[p] : deque[p][j] = t}}
    BY <1>1
  <2>2. PICK i \in DOMAIN deque[p] : deque[p][i] = t /\ x = <<"deque", p, i>>
    BY <2>1
  <2>3. DOMAIN deque[p] = 1 .. Len(deque[p]) /\ Len(deque[p]) \in Nat
    BY DEF TypeOK
  <2>4. i \in Nat /\ Position(t, p, i)
    BY <2>2, <2>3 DEF Position
  <2> QED BY <2>2, <2>4
<1>2. CASE x \in H
  BY <1>2
<1>3. CASE x \in T
  BY <1>3
<1>4. x \in D \cup H \cup T
  BY DEF Slots
<1> HIDE DEF D, H, T
<1> QED BY <1>1, <1>2, <1>3, <1>4

(* A task on its way to or from a deque is not running.                    *)
LEMMA SlotsRest ==
  ASSUME Inductive, NEW t \in Tasks, NEW x \in Slots(t)
  PROVE  state[t] # "RUNNING"
<1>1. TypeOK /\ TaskQueued(t) /\ t \in Users
  BY Constants DEF Inductive, Queues, TasksQueued
<1>2. ASSUME NEW p \in Procs, hand[p] = t, pc[p] = "wake" PROVE state[t] = "WAITING"
  <2>1. PICK u \in Contexts : u = current[p]
    BY <1>1 DEF TypeOK
  <2>2. u \in Tasks
    BY <1>2, <2>1 DEF Inductive, Control, Placed, Place, Ending
  <2> QED BY <1>1, <1>2, <2>1, <2>2, RashIsMain, Constants DEF Inductive, Joins, Waking
<1>3. ASSUME NEW p \in Procs, hand[p] = t \/ to[p] = t PROVE state[t] # "RUNNING"
  BY <1>1, <1>2, <1>3 DEF TaskQueued
<1>4. Queued(t) => state[t] # "RUNNING"
  BY <1>1 DEF TaskQueued
<1> QED BY <1>1, <1>3, <1>4, SlotsOf DEF Queued

LEMMA SlotsAgree ==
  ASSUME Inductive, NEW t \in Tasks, NEW x \in Slots(t), NEW y \in Slots(t)
  PROVE  x = y
<1>1. TypeOK /\ TaskQueued(t)
  BY DEF Inductive, Queues, TasksQueued
<1>2. CASE \E p \in Procs, i \in Nat : Position(t, p, i) /\ x = <<"deque", p, i>>
  <2>1. PICK p \in Procs, i \in Nat : Position(t, p, i) /\ x = <<"deque", p, i>>
    BY <1>2
  <2>2. \A q \in Procs : hand[q] # t /\ to[q] # t
    BY <1>1, <2>1 DEF TaskQueued, Queued
  <2>3. PICK q \in Procs, j \in Nat : Position(t, q, j) /\ y = <<"deque", q, j>>
    BY <1>1, <2>2, SlotsOf
  <2>4. p = q /\ i = j
    BY <1>1, <2>1, <2>3 DEF TaskQueued, Single
  <2> QED BY <2>1, <2>3, <2>4
<1>3. CASE \E p \in Procs : hand[p] = t /\ x = <<"hand", p, 0>>
  <2>1. PICK p \in Procs : hand[p] = t /\ x = <<"hand", p, 0>>
    BY <1>3
  <2>2. ~ Queued(t) /\ \A q \in Procs : to[q] # t
    BY <1>1, <2>1 DEF TaskQueued
  <2>3. PICK q \in Procs : hand[q] = t /\ y = <<"hand", q, 0>>
    BY <1>1, <2>2, SlotsOf DEF Queued
  <2> QED BY <1>1, <2>1, <2>3 DEF TaskQueued
<1>4. CASE \E p \in Procs : to[p] = t /\ x = <<"to", p, 0>>
  <2>1. PICK p \in Procs : to[p] = t /\ x = <<"to", p, 0>>
    BY <1>4
  <2>2. ~ Queued(t) /\ \A q \in Procs : hand[q] # t
    BY <1>1, <2>1 DEF TaskQueued
  <2>3. PICK q \in Procs : to[q] = t /\ y = <<"to", q, 0>>
    BY <1>1, <2>2, SlotsOf DEF Queued
  <2> QED BY <1>1, <2>1, <2>3 DEF TaskQueued
<1> QED BY <1>1, <1>2, <1>3, <1>4, SlotsOf

(* No task is in two deques, twice in one, or in one while a processor     *)
(* holds it or is about to switch to it (sched_load_balance, task_yield,   *)
(* task_switch_to): its node is pushed only while it is in no deque; and   *)
(* no task that runs is in any of these places.                            *)
THEOREM ConsistentHolds == Spec => []Consistent
<1>1. Inductive => Consistent
  BY SlotsRest, SlotsAgree DEF Consistent, QueuedOnce, Inductive
<1> QED BY <1>1, InvariantHolds, PTL

(* Stealing, switching and joining lose no task that is ready, and whoever *)
(* waits in task_join is in the join_task of the task it waits for, or     *)
(* about to put itself there, or being woken: no wake-up is lost between   *)
(* the two exchanges of task_join and those of task_go_routine.            *)
THEOREM NobodyForgottenHolds == Spec => []NobodyForgotten
<1>1. ASSUME Inductive, NEW t \in Tasks, state[t] = "READY" PROVE Slots(t) # {}
  <2>1. TypeOK /\ (Queued(t) \/ \E p \in Procs : hand[p] = t \/ to[p] = t)
    BY <1>1 DEF Inductive, Queues, TasksQueued, TaskQueued
  <2>2. CASE Queued(t)
    <3>1. PICK p \in Procs, i \in Nat : Position(t, p, i)
      BY <2>2 DEF Queued
    <3>2. i \in {j \in DOMAIN deque[p] : deque[p][j] = t}
      BY <2>1, <3>1 DEF Position, TypeOK
    <3>3. <<"deque", p, i>> \in {<<"deque", p, k>> : k \in {j \in DOMAIN deque[p] : deque[p][j] = t}}
      BY <3>2
    <3>4. <<"deque", p, i>> \in Slots(t)
      BY <3>3 DEF Slots
    <3> QED BY <3>4
  <2>3. ASSUME NEW p \in Procs, hand[p] = t PROVE Slots(t) # {}
    <3>1. <<"hand", p, 0>> \in {<<"hand", q, 0>> : q \in {r \in Procs : hand[r] = t}}
      BY <2>3
    <3> QED BY <3>1 DEF Slots
  <2>4. ASSUME NEW p \in Procs, to[p] = t PROVE Slots(t) # {}
    <3>1. <<"to", p, 0>> \in {<<"to", q, 0>> : q \in {r \in Procs : to[r] = t}}
      BY <2>4
    <3> QED BY <3>1 DEF Slots
  <2> QED BY <2>1, <2>2, <2>3, <2>4
<1>2. Inductive => NobodyForgotten
  BY <1>1 DEF NobodyForgotten, NotLost, Inductive, Joins
<1> QED BY <1>2, InvariantHolds, PTL

(* Only the assertions FaultsExplained names can fail, in programs with    *)
(* the features and on the number of processors it names.                  *)
THEOREM FaultsExplainedHolds == Spec => []FaultsExplained
<1>1. Inductive => FaultsExplained
  BY DEF Inductive
<1> QED BY <1>1, InvariantHolds, PTL

(* A single processor fails no assertion of task.c in a program that joins *)
(* no task twice, whatever else the program does.                          *)
THEOREM OneProcessorSound == Spec => [](N = 1 /\ JoinedOnce => fault = "none")
<1>1. Inductive => (N = 1 /\ JoinedOnce => fault = "none")
  BY DEF Inductive, FaultsExplained
<1> QED BY <1>1, InvariantHolds, PTL

-----------------------------------------------------------------------------
(* TaskSched implements TaskPool *)

LEMMA PoolInitHolds == Init => Pool!PoolInit
<1> SUFFICES ASSUME Init PROVE Pool!PoolInit
  OBVIOUS
<1>1. prog \in [Users -> Seq(Ops)]
  BY SchedAssumption DEF Init
<1>2. {t \in Tasks : result[t] = t} = {}
  BY Constants DEF Init
<1> QED BY <1>1, <1>2 DEF Init, Pool!PoolInit, Pool!Users, Users

(* The steps the users of the library do not see.                          *)
LEMMA PoolStutters ==
  ASSUME prog' = prog, at' = at, got' = got, \A t \in Tasks : result'[t] = t <=> result[t] = t
  PROVE  UNCHANGED Pool!poolVars
BY DEF Pool!poolVars

LEMMA PoolCreate ==
  ASSUME Inductive, NEW p \in Procs, Create(p)
  PROVE  \E c \in Users : Pool!PoolProceed(c)
<1>1. PICK c \in Contexts : c = current[p]
  BY DEF Inductive, TypeOK
<1>2. /\ TypeOK /\ Control /\ pc[p] = "run" /\ Doing(c) = "create" /\ prog' = prog /\ got' = got
      /\ result' = result /\ at' = [at EXCEPT ![c] = @ + 1]
  BY <1>1 DEF Create, At, Inductive, Advance
<1>3. c \in Users /\ Started(c)
  BY <1>1, <1>2 DEF Control, Placed, Place, Executing
<1>4. at[c] \in 1 .. Len(prog[c]) /\ prog[c][at[c]].do = "create"
  <2>1. at[c] \in 1 .. Len(prog[c]) /\ prog[c][at[c]] = [do |-> "create", task |-> Target(c)]
    BY <1>2, <1>3, DoingOf DEF Control
  <2> QED BY <2>1
<1> QED BY <1>2, <1>3, <1>4 DEF Pool!PoolProceed, Pool!Running, Pool!Op, Pool!Advance

(* task_join returns at once, or after the joiner was woken.               *)
LEMMA PoolJoins ==
  ASSUME TypeOK, Control, NEW c \in Users, Started(c), Doing(c) = "join",
         NEW u \in Tasks, u = Target(c), NEW r,
         \/ r = u /\ result[u] = u
         \/ c \in Hasty /\ (r = None \/ (r \in Tasks /\ result[r] = r)),
         prog' = prog, result' = result, at' = [at EXCEPT ![c] = @ + 1], got' = [got EXCEPT ![c][u] = r]
  PROVE  Pool!PoolJoin(c)
<1> DEFINE F == {t \in Tasks : result[t] = t}
<1>1. at[c] \in 1 .. Len(prog[c]) /\ prog[c][at[c]] = [do |-> "join", task |-> u]
  BY DoingOf DEF Control
<1>2. r \in IF c \in Hasty THEN F \cup {None} ELSE F \cap {u}
  <2>1. r = u /\ result[u] = u => r \in F
    OBVIOUS
  <2>2. r \in Tasks /\ result[r] = r => r \in F
    OBVIOUS
  <2> QED BY <2>1, <2>2
<1>3. F' = F
  OBVIOUS
<1>4. Pool!Running(c) /\ Pool!Op(c).do = "join" /\ Pool!Op(c).task = u /\ Pool!Advance(c)
  BY <1>1 DEF Pool!Running, Pool!Op, Pool!Advance
<1> QED BY <1>2, <1>3, <1>4 DEF Pool!PoolJoin

LEMMA PoolJoinAtOnce ==
  ASSUME Inductive, NEW p \in Procs, Join(p)
  PROVE  (\E c \in Users : Pool!PoolJoin(c)) \/ UNCHANGED Pool!poolVars
<1>1. PICK c \in Contexts : c = current[p]
  BY DEF Inductive, TypeOK
<1>2. TypeOK /\ Control /\ pc[p] = "run" /\ Doing(c) = "join" /\ prog' = prog /\ result' = result
  BY <1>1 DEF Join, At, Inductive
<1>3. c \in Users /\ Started(c)
  BY <1>1, <1>2 DEF Control, Placed, Place, Executing
<1>4. PICK u \in Tasks : u = Target(c)
  BY <1>2, <1>3, DoingOf DEF Control
<1>5. CASE joinState[u] = "WAIT_FOR_JOINER"
  <2>1. result[u] = u
    BY <1>5 DEF Inductive, Joins, JoinStates, Passed
  <2>2. at' = [at EXCEPT ![c] = @ + 1] /\ got' = [got EXCEPT ![c][u] = u]
    BY <1>1, <1>4, <1>5, <2>1 DEF Join, Advance, TheirResult
  <2> QED BY <1>2, <1>3, <1>4, <2>1, <2>2, PoolJoins
<1>6. CASE joinState[u] # "WAIT_FOR_JOINER"
  <2>1. at' = at /\ got' = got
    BY <1>1, <1>4, <1>6 DEF Join
  <2> QED BY <1>2, <2>1, PoolStutters
<1> QED BY <1>5, <1>6

LEMMA PoolReturns ==
  ASSUME Inductive, NEW p \in Procs, Return(p)
  PROVE  \E t \in Tasks : Pool!PoolReturn(t)
<1>1. PICK c \in Contexts : c = current[p]
  BY DEF Inductive, TypeOK
<1>2. /\ TypeOK /\ Control /\ pc[p] = "run" /\ Doing(c) = "end" /\ c \in Tasks /\ prog' = prog /\ got' = got
      /\ at' = at /\ result' = [result EXCEPT ![c] = c]
  BY <1>1 DEF Return, At, Inductive, userVars
<1>3. c \in Users /\ Started(c) /\ state[c] = "RUNNING" /\ \A q \in Procs : current[q] = c => q = p
  <2>1. Place(p, c) /\ \A q \in Procs : current[q] = c => q = p
    BY <1>1, <1>2 DEF Control, Placed, OneProcessorEach
  <2> QED BY <1>2, <2>1, RashIsMain, Constants DEF Place, Executing, Steady
<1>4. at[c] = Len(prog[c]) + 1
  BY <1>2, <1>3, DoingOf DEF Control
<1>5. result[c] # c
  BY <1>2, <1>3 DEF Inductive, Joins, Returned, Ending
<1>6. {t \in Tasks : result'[t] = t} = {t \in Tasks : result[t] = t} \cup {c}
  BY <1>2, Constants DEF TypeOK
<1>7. Pool!PoolReturn(c)
  BY <1>2, <1>4, <1>5, <1>6 DEF Pool!PoolReturn
<1> QED BY <1>2, <1>7

(* A joiner gets the result of another task, not of itself.                *)
LEMMA PoolDelivers ==
  ASSUME Inductive, NEW p \in Procs, DeliverResult(p)
  PROVE  UNCHANGED Pool!poolVars
<1>1. PICK u \in Contexts, j \in Users : u = current[p] /\ j = hand[p]
  BY DEF Inductive, TypeOK, Control, Registers, UsersQueued, DeliverResult, At
<1>2. /\ TypeOK /\ pc[p] = "deliver" /\ prog' = prog /\ at' = at /\ got' = got
      /\ result' = [result EXCEPT ![j] = result[u]]
  BY <1>1 DEF DeliverResult, At, Inductive, userVars, Deliver
<1>3. u \in Tasks /\ result[u] = u /\ j # u /\ result[j] # j
  BY <1>1, <1>2, Woken
<1>4. \A t \in Tasks : result'[t] = t <=> result[t] = t
  BY <1>2, <1>3, Constants DEF TypeOK
<1> QED BY <1>2, <1>4, PoolStutters

LEMMA PoolStarts ==
  ASSUME Inductive, NEW p \in Procs, SwitchTo(p)
  PROVE  (\E t \in Tasks : Pool!PoolStart(t)) \/ UNCHANGED Pool!poolVars
<1>1. PICK x \in Contexts : x = to[p]
  BY DEF Inductive, TypeOK, Control, Registers, Switching, SwitchTo, At
<1>2. /\ TypeOK /\ prog' = prog /\ got' = got /\ result' = result
      /\ \/ x \in Tasks /\ at[x] = 0 /\ at' = [at EXCEPT ![x] = @ + 1]
         \/ at' = at
  BY <1>1 DEF SwitchTo, Advance, Inductive
<1>3. CASE x \in Tasks /\ at[x] = 0 /\ at' = [at EXCEPT ![x] = @ + 1]
  <2>0. state[x] = "READY"
    BY <1>1, <1>3 DEF Inductive, Queues, TasksQueued, TaskQueued
  <2>1. PICK e \in Users, i \in Nat : Creates(e, i, x) /\ i < at[e]
    BY <1>3, <2>0 DEF Inductive, Creation, Existing, Created
  <2>2. Pool!Created(x)
    BY <2>1 DEF Pool!Created, Creates, Pool!Users, Users
  <2>3. Pool!PoolStart(x)
    BY <1>2, <1>3, <2>2 DEF Pool!PoolStart, Pool!Advance
  <2> QED BY <1>3, <2>3
<1>4. CASE at' = at
  BY <1>2, <1>4, PoolStutters
<1> QED BY <1>2, <1>3, <1>4

LEMMA PoolResumes ==
  ASSUME Inductive, NEW p \in Procs, Resumed(p)
  PROVE  (\E c \in Users : Pool!PoolProceed(c)) \/ UNCHANGED Pool!poolVars
<1>1. PICK c \in Contexts : c = current[p]
  BY DEF Inductive, TypeOK
<1>2. /\ TypeOK /\ Control /\ pc[p] = "resumed" /\ prog' = prog /\ result' = result /\ got' = got
      /\ \/ at' = at
         \/ Doing(c) = "yield" /\ at' = [at EXCEPT ![c] = @ + 1]
  BY <1>1 DEF Resumed, At, Advance, Inductive, taskVars
<1>3. Place(p, c)
  BY <1>1, <1>2 DEF Control, Placed
<1>4. CASE at' = at
  BY <1>2, <1>4, PoolStutters
<1>5. CASE Doing(c) = "yield" /\ at' = [at EXCEPT ![c] = @ + 1]
  <2>1. c \in Users /\ Started(c)
    BY <1>2, <1>3, <1>5, DoingLoop DEF Place, Control
  <2>2. at[c] \in 1 .. Len(prog[c]) /\ prog[c][at[c]].do = "yield"
    BY <1>2, <1>5, <2>1, DoingOf DEF Control, Doing
  <2>3. Pool!PoolProceed(c)
    BY <1>2, <1>5, <2>2 DEF Pool!PoolProceed, Pool!Running, Pool!Op, Pool!Advance
  <2> QED BY <2>1, <2>3
<1> QED BY <1>2, <1>4, <1>5

(* A joiner fetches the result of the task it joined; rash main, what its  *)
(* wakers have left there by now.                                          *)
LEMMA PoolCollects ==
  ASSUME Inductive, NEW p \in Procs, Collect(p)
  PROVE  \E c \in Users : Pool!PoolJoin(c)
<1>1. PICK c \in Contexts : c = current[p]
  BY DEF Inductive, TypeOK
<1>2. /\ TypeOK /\ Control /\ pc[p] = "collect" /\ prog' = prog /\ result' = result
      /\ at' = [at EXCEPT ![c] = @ + 1] /\ got' = [got EXCEPT ![c][Target(c)] = result[c]]
  BY <1>1 DEF Collect, At, Advance, Inductive, taskVars
<1>3. Place(p, c)
  BY <1>1, <1>2 DEF Control, Placed
<1>4. c \in Users /\ Started(c) /\ Doing(c) = "join" /\ (Rash(c) \/ Served(c))
  BY <1>2, <1>3 DEF Place, Executing, Steady
<1>5. PICK u \in Tasks : u = Target(c)
  BY <1>2, <1>4, DoingOf DEF Control
<1>6. CASE Served(c)
  <2>1. result[u] = u /\ result[c] = u
    BY <1>5, <1>6 DEF Served
  <2> QED BY <1>2, <1>4, <1>5, <2>1, PoolJoins
<1>7. CASE Rash(c)
  <2>1. c \in Hasty
    BY <1>7, RashIsMain DEF Hasty
  <2>2. result[c] \in Tasks \cup {None}
    BY <1>2, <1>4, Constants DEF TypeOK
  <2>3. result[c] = None \/ (result[c] \in Tasks /\ result[result[c]] = result[c])
    BY <1>4, <2>2 DEF Inductive, Joins, Results
  <2> QED BY <1>2, <1>4, <1>5, <2>1, <2>3, PoolJoins
<1> QED BY <1>4, <1>6, <1>7

(* What programs see of libtask is what TaskPool promises them: a task     *)
(* runs once it was created, one operation after the other, and task_join  *)
(* hands over the result of the task it joined, which has returned, and no *)
(* other - but to main on several processors, which it may leave without a *)
(* result, or with that of an earlier join.                                *)
THEOREM PoolImplemented == Spec => ImplementsPool
<1>1. Init => Pool!PoolInit
  BY PoolInitHolds
<1>2. Inductive /\ [Next]_vars => [Pool!PoolNext]_Pool!poolVars
  <2> SUFFICES ASSUME Inductive, [Next]_vars PROVE [Pool!PoolNext]_Pool!poolVars
    OBVIOUS
  <2> USE DEF Pool!PoolNext
  <2>1. ASSUME NEW p \in Procs, UserStep(p) PROVE [Pool!PoolNext]_Pool!poolVars
    <3>1. CASE Create(p)
      BY <3>1, PoolCreate DEF Pool!Users, Users
    <3>2. CASE Join(p)
      BY <3>2, PoolJoinAtOnce DEF Pool!Users, Users
    <3>3. CASE Yield(p) \/ JoinWait(p) \/ JoinPublish(p) \/ Exit(p)
      BY <3>3, PoolStutters DEF Yield, JoinWait, JoinPublish, Exit, userVars, taskVars
    <3> QED BY <2>1, <3>1, <3>2, <3>3 DEF UserStep
  <2>2. ASSUME NEW p \in Procs, FinishStep(p) PROVE [Pool!PoolNext]_Pool!poolVars
    <3>1. CASE Return(p)
      BY <3>1, PoolReturns
    <3>2. CASE DeliverResult(p)
      BY <3>2, PoolDelivers
    <3>3. CASE Finish(p) \/ Spin(p) \/ Wake(p) \/ ScheduleJoiner(p) \/ Done(p)
      BY <3>3, PoolStutters DEF Finish, Spin, Wake, ScheduleJoiner, Done, userVars, taskVars
    <3> QED BY <2>2, <3>1, <3>2, <3>3 DEF FinishStep
  <2>3. ASSUME NEW p \in Procs, BalanceStep(p) PROVE [Pool!PoolNext]_Pool!poolVars
    BY <2>3, PoolStutters DEF BalanceStep, Balance, Compare, Steal, Keep, userVars, taskVars
  <2>4. ASSUME NEW p \in Procs, SwitchStep(p) PROVE [Pool!PoolNext]_Pool!poolVars
    <3>1. CASE SwitchTo(p)
      BY <3>1, PoolStarts
    <3>2. CASE Resumed(p)
      BY <3>2, PoolResumes DEF Pool!Users, Users
    <3>3. CASE Collect(p)
      BY <3>3, PoolCollects DEF Pool!Users, Users
    <3>4. CASE GetTask(p) \/ NoTask(p) \/ SwitchFrom(p) \/ AssertReady(p)
      BY <3>4, PoolStutters DEF GetTask, NoTask, SwitchFrom, AssertReady, userVars, taskVars
    <3> QED BY <2>4, <3>1, <3>2, <3>3, <3>4 DEF SwitchStep
  <2>5. CASE UNCHANGED vars
    BY <2>5, PoolStutters DEF vars, userVars, taskVars
  <2> QED BY <2>1, <2>2, <2>3, <2>4, <2>5 DEF Next, Step, Stopped
<1> QED BY <1>1, <1>2, InvariantHolds, PTL DEF Spec, ImplementsPool, Pool!PoolSpec
=============================================================================
