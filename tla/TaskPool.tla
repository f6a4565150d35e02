------------------------------ MODULE TaskPool ------------------------------
(***************************************************************************)
(* What libtask promises to its users (libtask/task.h), with no processor, *)
(* queue or context in sight: every task runs its program from the start   *)
(* to the end, one operation at a time, once some running program created  *)
(* it, and task_join waits for the task it joins and returns its result.   *)
(* A hasty user has a weaker promise: its joins may return early, with no  *)
(* result or that of another task that has finished.                       *)
(* TaskSched implements it as long as no assertion of the code fails.      *)
(***************************************************************************)
EXTENDS Naturals, Sequences

CONSTANTS
  Main,      \* the main program
  Tasks,     \* the tasks the programs create
  Ops,       \* the operations of programs
  Hasty,     \* the users whose joins may return too early
  None

VARIABLES
  prog,      \* prog[c]: the operations of c's program
  at,        \* at[c]: the operation c executes, 0 before c starts
  finished,  \* the tasks whose entry function has returned
  got        \* got[c][u]: the result that joining u gave to c

poolVars == <<prog, at, finished, got>>

Users == {Main} \cup Tasks
Op(c) == prog[c][at[c]]
Running(c) == at[c] \in 1 .. Len(prog[c])
Advance(c) == at' = [at EXCEPT ![c] = @ + 1]
Created(u) == \E c \in Users : \E i \in 1 .. Len(prog[c]) :
                prog[c][i] = [do |-> "create", task |-> u] /\ i < at[c]

PoolInit == /\ prog \in [Users -> Seq(Ops)]
            /\ at = [c \in Users |-> IF c = Main THEN 1 ELSE 0]
            /\ finished = {}
            /\ got = [c \in Users |-> [u \in Tasks |-> None]]

PoolStart(t) == /\ at[t] = 0
                /\ Created(t)
                /\ Advance(t)
                /\ UNCHANGED <<prog, finished, got>>

PoolProceed(c) == /\ Running(c)
                  /\ Op(c).do \in {"create", "yield"}
                  /\ Advance(c)
                  /\ UNCHANGED <<prog, finished, got>>

PoolJoin(c) == /\ Running(c)
               /\ Op(c).do = "join"
               /\ \E r \in IF c \in Hasty THEN finished \cup {None}
                                      ELSE finished \cap {Op(c).task} :
                    got' = [got EXCEPT ![c][Op(c).task] = r]
               /\ Advance(c)
               /\ UNCHANGED <<prog, finished>>

PoolReturn(t) == /\ at[t] = Len(prog[t]) + 1
                 /\ t \notin finished
                 /\ finished' = finished \cup {t}
                 /\ UNCHANGED <<prog, at, got>>

PoolNext == \/ \E c \in Users : PoolProceed(c) \/ PoolJoin(c)
            \/ \E t \in Tasks : PoolStart(t) \/ PoolReturn(t)

PoolSpec == PoolInit /\ [][PoolNext]_poolVars
=============================================================================
