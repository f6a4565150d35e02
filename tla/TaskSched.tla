------------------------------ MODULE TaskSched -----------------------------
(***************************************************************************)
(* libtask: coroutines run by N processors, one pthread each, on top of    *)
(* work-stealing deques (task.c, task_scheduler_locked.c).  A context is   *)
(* a task or the idle task of a processor; the idle task of processor 0 is *)
(* the main program, that of another processor runs pthread_routine.       *)
(*                                                                         *)
(* One step is one access to shared state: an atomic exchange, the write   *)
(* of a field another processor may read, an operation on a deque          *)
(* (LockedDeque shows that these take effect at one instant), the unlocked *)
(* read of a count.  The program stops at the first failed assertion.  Two *)
(* more faults stop the model, since what the code does next is undefined: *)
(* a processor takes a context another one is still executing, whose       *)
(* registers are not saved ("stale_context"), and a context is pushed      *)
(* while its one node is in a deque, which breaks the chain                *)
(* ("queued_twice").                                                       *)
(*                                                                         *)
(* Definitions that no action uses, right before the one they vary, are    *)
(* plausible mistakes in that code, kept to show that a property fails     *)
(* with them (README, "Mutations").                                        *)
(***************************************************************************)
EXTENDS Integers, Sequences

CONSTANTS
  N,         \* task_init_procs(N)
  Tasks,     \* the tasks that can be created
  Programs,  \* the assignments of programs to 0 (main) and to the tasks
  None

Procs == 0 .. N - 1
Main == 0
Contexts == Procs \cup Tasks
Users == {Main} \cup Tasks

(* Users' programs: task_create, task_join, task_yield, computing forever. *)
Ops == [do : {"create", "join"}, task : Tasks] \cup [do : {"yield", "work"}, task : {None}]

Places(P, c, op, u) == {i \in DOMAIN P[c] : P[c][i] = [do |-> op, task |-> u]}

(* A task is created once, by one place of one program; who joins it holds *)
(* the task_t that task_create returned: its creator, or a task created    *)
(* after it by the same program, which was handed it as its argument.      *)
WellFormed(P) ==
  \A u \in Tasks, c, d \in Users :
    /\ \A i \in Places(P, c, "create", u), j \in Places(P, d, "create", u) : c = d /\ i = j
    /\ \A i \in Places(P, c, "join", u) :
         \/ \E j \in Places(P, c, "create", u) : j < i
         \/ \E e \in Users : \E j \in Places(P, e, "create", u), k \in Places(P, e, "create", c) : j < k

ASSUME SchedAssumption == /\ N \in Nat \ {0}
                          /\ Tasks \cap Procs = {} /\ None \notin Contexts
                          /\ Programs \subseteq [Users -> Seq(Ops)]
                          /\ \A P \in Programs : WellFormed(P)

VARIABLES
  prog,       \* prog[c]: the program of a user context
  at,         \* at[c]: the operation c executes, 0 in a context not yet run
  got,        \* got[c][u]: what task_join(u, &result) stored for c
  state,      \* state[c]: task->state, "none" before task_create
  joinState,  \* joinState[t]: task->join_state
  joinTask,   \* joinTask[t]: task->join_task
  result,     \* result[c]: task->result, named by the task that returned it
  deque,      \* deque[p]: the deque of processor p's scheduler
  current,    \* current[p]: proc->current, the context p executes
  pc,         \* pc[p]: where in the library processor p is
  lb,         \* lb[p]: the locals of sched_load_balance
  hand,       \* hand[p]: a task popped, or woken, and not yet pushed
  to,         \* to[p]: the task p is about to switch to
  fault,      \* the assertion that failed, "none" if none did
  exited      \* main has returned

userVars == <<prog, at, got>>
taskVars == <<state, joinState, joinTask, result>>
vars == <<userVars, taskVars, deque, current, pc, lb, hand, to, fault, exited>>

NotBalancing == [own |-> 0, victim |-> 0, steal |-> 0]

Init == /\ prog \in Programs
        /\ at = [c \in Users |-> IF c = Main THEN 1 ELSE 0]
        /\ got = [c \in Users |-> [u \in Tasks |-> None]]
        /\ state = [c \in Contexts |-> IF c \in Procs THEN "RUNNING" ELSE "none"]
        /\ joinState = [t \in Tasks |-> "JOINABLE"]
        /\ joinTask = [t \in Tasks |-> None]
        /\ result = [c \in Contexts |-> None]
        /\ deque = [p \in Procs |-> <<>>]
        /\ current = [p \in Procs |-> p]
        /\ pc = [p \in Procs |-> IF p = Main THEN "run" ELSE "balance"]
        /\ lb = [p \in Procs |-> NotBalancing]
        /\ hand = [p \in Procs |-> None]
        /\ to = [p \in Procs |-> None]
        /\ fault = "none"
        /\ exited = FALSE

(* What context c is in the middle of.                                     *)
Doing(c) == CASE c \notin Users -> "loop"
              [] c \in Users /\ at[c] > Len(prog[c]) -> "end"
              [] OTHER -> prog[c][at[c]].do
Target(c) == prog[c][at[c]].task

At(p, label) == fault = "none" /\ ~ exited /\ pc[p] = label
Goto(p, label) == pc' = [pc EXCEPT ![p] = label]
Advance(c) == at' = [at EXCEPT ![c] = @ + 1]
Push(p, c) == deque' = [deque EXCEPT ![p] = Append(@, c)]
InDeque(c) == \E q \in Procs : \E i \in DOMAIN deque[q] : deque[q][i] = c

(* schedule and lldq_push_tail, of a context that has a node already.      *)
Schedule(p, c) == /\ Push(p, c)
                  /\ fault' = IF InDeque(c) THEN "queued_twice" ELSE fault

PoppedPeek(p) == deque
Popped(p) == [deque EXCEPT ![p] = Tail(@)]


-----------------------------------------------------------------------------
(* task_create, task_join, and the end of a program *)

(* The task is visible to others only once it is in the deque.             *)
Create(p) == LET c == current[p]  u == Target(c) IN
             /\ At(p, "run") /\ Doing(c) = "create"
             /\ state' = [state EXCEPT ![u] = "READY"]
             /\ Push(p, u)
             /\ Advance(c)
             /\ UNCHANGED <<prog, got, joinState, joinTask, result, current, pc, lb, hand, to,
                            fault, exited>>

Yield(p) == /\ At(p, "run") /\ Doing(current[p]) = "yield"
            /\ Goto(p, "balance")
            /\ UNCHANGED <<userVars, taskVars, deque, current, lb, hand, to, fault, exited>>

(* task->result of a finished task.                                        *)
TheirResult(c, u) == result[u]

(* The exchange of task->join_state, and what each old value leads to.     *)
Join(p) == LET c == current[p]  u == Target(c) IN
  /\ At(p, "run") /\ Doing(c) = "join"
  /\ \/ /\ joinState[u] = "JOINABLE"
        /\ Goto(p, "wait")
        /\ UNCHANGED <<at, got, fault>>
     \/ /\ joinState[u] = "WAIT_FOR_JOINER"
        /\ got' = [got EXCEPT ![c][u] = TheirResult(c, u)]
        /\ Advance(c)
        /\ UNCHANGED <<pc, fault>>
     \/ /\ joinState[u] = "WAIT_TO_JOIN"
        /\ fault' = "joined_twice"
        /\ UNCHANGED <<at, got, pc>>
  /\ joinState' = [joinState EXCEPT ![u] = "WAIT_TO_JOIN"]
  /\ UNCHANGED <<prog, state, joinTask, result, deque, current, lb, hand, to, exited>>

JoinWaitRunning(p) ==
  /\ At(p, "wait")
  /\ Goto(p, "publish")
  /\ UNCHANGED <<userVars, taskVars, deque, current, lb, hand, to, fault, exited>>

JoinWait(p) == LET c == current[p] IN
  /\ At(p, "wait")
  /\ state' = [state EXCEPT ![c] = "WAITING"]
  /\ Goto(p, "publish")
  /\ UNCHANGED <<userVars, joinState, joinTask, result, deque, current, lb, hand, to, fault, exited>>

PublishReversed(c, u) == [joinTask EXCEPT ![c] = u]
Publish(c, u) == [joinTask EXCEPT ![u] = c]

JoinPublish(p) == LET c == current[p] IN
  /\ At(p, "publish")
  /\ joinTask' = Publish(c, Target(c))
  /\ Goto(p, "balance")
  /\ UNCHANGED <<userVars, state, joinState, result, deque, current, lb, hand, to, fault, exited>>

(* The entry function of a task returns to task_go_routine.                *)
Return(p) == LET c == current[p] IN
  /\ At(p, "run") /\ Doing(c) = "end" /\ c \in Tasks
  /\ result' = [result EXCEPT ![c] = c]
  /\ Goto(p, "finish")
  /\ UNCHANGED <<userVars, state, joinState, joinTask, deque, current, lb, hand, to, fault, exited>>

(* The exchange of task->join_state with WAIT_FOR_JOINER.                  *)
Finish(p) == LET c == current[p] IN
  /\ At(p, "finish")
  /\ \/ /\ joinState[c] = "JOINABLE" /\ joinTask[c] = None
        /\ Goto(p, "done")
        /\ UNCHANGED fault
     \/ /\ joinState[c] = "JOINABLE" /\ joinTask[c] # None
        /\ fault' = "join_task_set"
        /\ UNCHANGED pc
     \/ /\ joinState[c] = "WAIT_TO_JOIN"
        /\ Goto(p, "spin")
        /\ UNCHANGED fault
     \/ /\ joinState[c] = "WAIT_FOR_JOINER"
        /\ fault' = "finished_twice"
        /\ UNCHANGED pc
  /\ joinState' = [joinState EXCEPT ![c] = "WAIT_FOR_JOINER"]
  /\ UNCHANGED <<userVars, state, joinTask, result, deque, current, lb, hand, to, exited>>

(* The loop that exchanges task->join_task until it is not NULL.           *)
Spin(p) == LET c == current[p]  j == joinTask[c] IN
  /\ At(p, "spin") /\ j # None
  /\ \/ /\ state[j] = "WAITING"
        /\ joinTask' = [joinTask EXCEPT ![c] = None]
        /\ hand' = [hand EXCEPT ![p] = j]
        /\ Goto(p, "wake") /\ UNCHANGED fault
     \/ /\ state[j] # "WAITING"
        /\ fault' = "join_task_not_waiting" /\ UNCHANGED <<joinTask, hand, pc>>
  /\ UNCHANGED <<userVars, state, joinState, result, deque, current, lb, to, exited>>

(* The joiner is READY before it has its result.                           *)
Wake(p) ==
  /\ At(p, "wake")
  /\ state' = [state EXCEPT ![hand[p]] = "READY"]
  /\ Goto(p, "deliver")
  /\ UNCHANGED <<userVars, joinState, joinTask, result, deque, current, lb, hand, to, fault, exited>>

DeliverNothing(j, r) == result
Deliver(j, r) == [result EXCEPT ![j] = r]

DeliverResult(p) ==
  /\ At(p, "deliver")
  /\ result' = Deliver(hand[p], result[current[p]])
  /\ Goto(p, "woken")
  /\ UNCHANGED <<userVars, state, joinState, joinTask, deque, current, lb, hand, to, fault, exited>>

ScheduleJoiner(p) ==
  /\ At(p, "woken")
  /\ Schedule(p, hand[p])
  /\ hand' = [hand EXCEPT ![p] = None]
  /\ Goto(p, "done")
  /\ UNCHANGED <<userVars, taskVars, current, lb, to, exited>>

Done(p) ==
  /\ At(p, "done")
  /\ state' = [state EXCEPT ![current[p]] = "DONE"]
  /\ Goto(p, "balance")
  /\ UNCHANGED <<userVars, joinState, joinTask, result, deque, current, lb, hand, to, fault, exited>>

(* main returns, and the process ends whatever the other processors do.    *)
Exit(p) == /\ At(p, "run") /\ current[p] = Main /\ Doing(Main) = "end"
           /\ exited' = TRUE
           /\ UNCHANGED <<userVars, taskVars, deque, current, pc, lb, hand, to, fault>>

-----------------------------------------------------------------------------
(* sched_load_balance *)

Half(n) == IF n > 0 THEN n \div 2 ELSE 0   \* C's / 2, where negative means none

VictimAfter(q) == (q + 1) % N

(* The own count is read once for all the victims.                         *)
Balance(p) ==
  /\ At(p, "balance")
  /\ IF N = 1
     THEN Goto(p, "get") /\ UNCHANGED lb
     ELSE /\ Goto(p, "compare")
          /\ lb' = [lb EXCEPT ![p] = [own |-> Len(deque[p]), victim |-> VictimAfter(p), steal |-> 0]]
  /\ UNCHANGED <<userVars, taskVars, deque, current, hand, to, fault, exited>>

(* Control flow after num_steal became n: again, next victim, or out.      *)
Continue(p, n) ==
  \/ /\ n > 0
     /\ Goto(p, "steal")
     /\ lb' = [lb EXCEPT ![p].steal = n]
  \/ /\ n = 0 /\ VictimAfter(lb[p].victim) # p
     /\ Goto(p, "compare")
     /\ lb' = [lb EXCEPT ![p].steal = 0, ![p].victim = VictimAfter(@)]
  \/ /\ n = 0 /\ VictimAfter(lb[p].victim) = p
     /\ Goto(p, "get")
     /\ lb' = [lb EXCEPT ![p] = NotBalancing]

Compare(p) ==
  /\ At(p, "compare")
  /\ Continue(p, Half(Len(deque[lb[p].victim]) - lb[p].own))
  /\ UNCHANGED <<userVars, taskVars, deque, current, hand, to, fault, exited>>

Steal(p) == LET v == lb[p].victim IN
  /\ At(p, "steal")
  /\ IF deque[v] = <<>>
     THEN Continue(p, lb[p].steal - 1) /\ UNCHANGED <<deque, hand>>
     ELSE /\ deque' = Popped(v)
          /\ hand' = [hand EXCEPT ![p] = Head(deque[v])]
          /\ Goto(p, "keep")
          /\ UNCHANGED lb
  /\ UNCHANGED <<userVars, taskVars, current, to, fault, exited>>

KeepForgets(p) ==
  /\ At(p, "keep")
  /\ hand' = [hand EXCEPT ![p] = None]
  /\ Continue(p, lb[p].steal - 1)
  /\ UNCHANGED <<userVars, taskVars, deque, current, to, fault, exited>>

Keep(p) ==
  /\ At(p, "keep")
  /\ Schedule(p, hand[p])
  /\ hand' = [hand EXCEPT ![p] = None]
  /\ Continue(p, lb[p].steal - 1)
  /\ UNCHANGED <<userVars, taskVars, current, to, exited>>

-----------------------------------------------------------------------------
(* task_yield, pthread_routine, task_switch_to *)

GetTask(p) ==
  /\ At(p, "get")
  /\ IF deque[p] = <<>>
     THEN Goto(p, "no_task") /\ UNCHANGED <<deque, to>>
     ELSE /\ deque' = Popped(p)
          /\ to' = [to EXCEPT ![p] = Head(deque[p])]
          /\ Goto(p, "switch")
  /\ UNCHANGED <<userVars, taskVars, current, lb, hand, fault, exited>>

(* pthread_routine sleeps and tries again; task_yield returns, unless its  *)
(* caller cannot go on: then the idle task takes over.                     *)
NoTask(p) == LET c == current[p] IN
  /\ At(p, "no_task")
  /\ \/ /\ Doing(c) = "loop" /\ state[c] = "RUNNING"
        /\ Goto(p, "balance") /\ UNCHANGED <<to, fault>>
     \/ /\ Doing(c) = "loop" /\ state[c] # "RUNNING"
        /\ fault' = "idle_not_running" /\ UNCHANGED <<pc, to>>
     \/ /\ Doing(c) # "loop" /\ state[c] \in {"DONE", "WAITING"}
        /\ to' = [to EXCEPT ![p] = p] /\ Goto(p, "switch") /\ UNCHANGED fault
     \/ /\ Doing(c) # "loop" /\ state[c] \notin {"DONE", "WAITING"}
        /\ Goto(p, "resumed") /\ UNCHANGED <<to, fault>>
  /\ UNCHANGED <<userVars, taskVars, deque, current, lb, hand, exited>>

(* A running context is queued again, but not the idle task.               *)
RequeueForgets(p, c) == UNCHANGED <<deque, fault>>
Requeue(p, c) == IF c # p THEN Schedule(p, c) ELSE UNCHANGED <<deque, fault>>

(* What becomes of the context that is left.                               *)
SwitchFrom(p) == LET from == current[p] IN
  /\ At(p, "switch")
  /\ \/ /\ state[from] = "RUNNING"
        /\ state' = [state EXCEPT ![from] = "READY"]
        /\ Requeue(p, from)
        /\ Goto(p, "check")
     \/ /\ state[from] \in {"DONE", "WAITING"}
        /\ Goto(p, "check") /\ UNCHANGED <<state, deque, fault>>
     \/ /\ state[from] = "READY"
        /\ fault' = "switch_from_ready" /\ UNCHANGED <<state, deque, pc>>
  /\ UNCHANGED <<userVars, joinState, joinTask, result, current, lb, hand, to, exited>>

(* The assertion that the other context is READY: two processors that are  *)
(* both about to switch to it can both pass.                               *)
AssertReady(p) ==
  /\ At(p, "check")
  /\ \/ /\ state[to[p]] = "READY"
        /\ Goto(p, "swap") /\ UNCHANGED fault
     \/ /\ state[to[p]] # "READY"
        /\ fault' = "switch_to_not_ready" /\ UNCHANGED pc
  /\ UNCHANGED <<userVars, taskVars, deque, current, lb, hand, to, exited>>

(* The state of the other context, proc->current, and swapcontext, which   *)
(* saves the registers of the context that is left: only now may another   *)
(* processor resume it.  No other processor reads proc->current, and one   *)
(* that marks RUNNING what another still executes is bound to resume it:   *)
(* the two have it both from the first of these writes, and the model      *)
(* stops there.                                                            *)
SwitchTo(p) == LET c == to[p] IN
  /\ At(p, "swap")
  /\ \/ /\ \A q \in Procs \ {p} : current[q] # c
        /\ state' = [state EXCEPT ![c] = "RUNNING"]
        /\ current' = [current EXCEPT ![p] = c]
        /\ to' = [to EXCEPT ![p] = None]
        /\ IF c \in Tasks /\ at[c] = 0
           THEN Goto(p, "run") /\ Advance(c)
           ELSE Goto(p, "resumed") /\ UNCHANGED at
        /\ UNCHANGED fault
     \/ /\ \E q \in Procs \ {p} : current[q] = c
        /\ fault' = "stale_context" /\ UNCHANGED <<at, state, current, to, pc>>
  /\ UNCHANGED <<prog, got, joinState, joinTask, result, deque, lb, hand, exited>>

(* Back in the context, after task_yield or task_switch_to returned.       *)
Resumed(p) == LET c == current[p] IN
  /\ At(p, "resumed")
  /\ \/ /\ Doing(c) = "loop"
        /\ Goto(p, "balance") /\ UNCHANGED <<at, fault>>
     \/ /\ Doing(c) = "yield"
        /\ Goto(p, "run") /\ Advance(c) /\ UNCHANGED fault
     \/ /\ Doing(c) = "join" /\ state[c] = "RUNNING"
        /\ Goto(p, "collect") /\ UNCHANGED <<at, fault>>
     \/ /\ Doing(c) = "join" /\ state[c] # "RUNNING"
        /\ fault' = "joiner_not_running" /\ UNCHANGED <<at, pc>>
     \/ /\ Doing(c) = "end"
        /\ fault' = "resumed_when_done" /\ UNCHANGED <<at, pc>>
  /\ UNCHANGED <<prog, got, taskVars, deque, current, lb, hand, to, exited>>

(* task_join returns what its caller's own result holds by now.            *)
Collect(p) == LET c == current[p] IN
  /\ At(p, "collect")
  /\ got' = [got EXCEPT ![c][Target(c)] = result[c]]
  /\ Goto(p, "run") /\ Advance(c)
  /\ UNCHANGED <<prog, taskVars, deque, current, lb, hand, to, fault, exited>>

UserStep(p) == Create(p) \/ Yield(p) \/ Join(p) \/ JoinWait(p) \/ JoinPublish(p) \/ Exit(p)
FinishStep(p) == Return(p) \/ Finish(p) \/ Spin(p) \/ Wake(p) \/ DeliverResult(p)
                 \/ ScheduleJoiner(p) \/ Done(p)
BalanceStep(p) == Balance(p) \/ Compare(p) \/ Steal(p) \/ Keep(p)
SwitchStep(p) == GetTask(p) \/ NoTask(p) \/ SwitchFrom(p) \/ AssertReady(p) \/ SwitchTo(p)
                 \/ Resumed(p) \/ Collect(p)
Step(p) == UserStep(p) \/ FinishStep(p) \/ BalanceStep(p) \/ SwitchStep(p)

(* The process has ended.                                                  *)
Stopped == (exited \/ fault # "none") /\ UNCHANGED vars

Next == (\E p \in Procs : Step(p)) \/ Stopped

Spec == Init /\ [][Next]_vars

(* The kernel runs every pthread that can run.                             *)
FairSpec == Spec /\ \A p \in Procs : WF_vars(Step(p))

-----------------------------------------------------------------------------
(* Properties *)

Labels == {"run", "wait", "publish", "finish", "spin", "wake", "deliver", "woken", "done",
           "balance", "compare", "steal", "keep", "get", "no_task", "switch", "check", "swap",
           "resumed", "collect"}
Faults == {"none", "joined_twice", "join_task_set", "finished_twice", "join_task_not_waiting",
           "idle_not_running", "switch_from_ready", "switch_to_not_ready", "stale_context",
           "queued_twice", "joiner_not_running", "resumed_when_done"}

TypeOK == /\ prog \in [Users -> Seq(Ops)]
          /\ at \in [Users -> Nat]
          /\ got \in [Users -> [Tasks -> Tasks \cup {None}]]
          /\ state \in [Contexts -> {"none", "READY", "RUNNING", "WAITING", "DONE"}]
          /\ joinState \in [Tasks -> {"JOINABLE", "WAIT_TO_JOIN", "WAIT_FOR_JOINER"}]
          /\ joinTask \in [Tasks -> Users \cup {None}]
          /\ result \in [Contexts -> Tasks \cup {None}]
          /\ deque \in [Procs -> Seq(Contexts)]
          /\ current \in [Procs -> Contexts]
          /\ pc \in [Procs -> Labels]
          /\ lb \in [Procs -> [own : Nat, victim : Procs, steal : Nat]]
          /\ hand \in [Procs -> Contexts \cup {None}]
          /\ to \in [Procs -> Contexts \cup {None}]
          /\ fault \in Faults
          /\ exited \in BOOLEAN

(* Where a context is queued, or on its way to or from a deque.            *)
Slots(c) ==
  (UNION {{<<"deque", p, i>> : i \in {j \in DOMAIN deque[p] : deque[p][j] = c}} : p \in Procs})
    \cup {<<"hand", p, 0>> : p \in {q \in Procs : hand[q] = c}}
    \cup {<<"to", p, 0>> : p \in {q \in Procs : to[q] = c}}

(* A task is queued or held at most once, and never while it runs: its     *)
(* node is pushed only while it is in no deque, which is what LockedDeque  *)
(* takes for granted of its callers.                                       *)
QueuedOnce == \A t \in Tasks : \A x, y \in Slots(t) : x = y /\ state[t] # "RUNNING"

Consistent == TypeOK /\ QueuedOnce

(* A READY task is in some deque, or in the hands of a processor: stealing *)
(* and switching lose none.                                                *)
NotLost == \A t \in Tasks : state[t] = "READY" => Slots(t) # {}

(* A context waits only for a task that still has to look at its           *)
(* join_task, or whose processor is about to wake it.                      *)
WillBeWoken ==
  \A c \in Users : state[c] = "WAITING" =>
    LET u == Target(c) IN
    \/ \E p \in Procs : current[p] = c /\ pc[p] = "publish" /\ joinState[u] # "JOINABLE"
    \/ joinTask[u] = c /\ joinState[u] = "WAIT_TO_JOIN"
    \/ joinTask[u] = c /\ \E p \in Procs : current[p] = u /\ pc[p] = "spin"
    \/ \E p \in Procs : hand[p] = c /\ current[p] = u /\ pc[p] = "wake"

(* Stealing, switching and joining forget nobody (sched_load_balance,      *)
(* task_switch_to, task_join).                                             *)
NobodyForgotten == NotLost /\ WillBeWoken

(* The features of a program that decide which assertions it can fail.     *)
Does(c, op) == \E i \in DOMAIN prog[c] : prog[c][i].do = op
JoinedOnce == \A u \in Tasks : \A c, d \in Users :
                \A i \in Places(prog, c, "join", u), j \in Places(prog, d, "join", u) :
                  c = d /\ i = j
TasksYield == \E t \in Tasks : Does(t, "yield")
TasksJoin == \E t \in Tasks : Does(t, "join")
MainJoins == Does(Main, "join")

(* Where a program may fail, given what it does and how many processors    *)
(* run it: a single processor never fails a program that joins each task   *)
(* once; several can, as soon as tasks yield or anything joins.  A main    *)
(* program that joins can be resumed by processor 0 without having been    *)
(* queued, and again by who finds it in a deque.                           *)
FaultsExplained ==
  fault # "none" =>
    \/ fault = "joined_twice" /\ ~ JoinedOnce
    \/ fault = "stale_context" /\ N > 1 /\ (TasksYield \/ TasksJoin \/ MainJoins)
    \/ fault \in {"switch_from_ready", "joiner_not_running"} /\ N > 1 /\ (TasksJoin \/ MainJoins)
    \/ fault \in {"switch_to_not_ready", "join_task_not_waiting", "queued_twice"}
         /\ N > 1 /\ MainJoins

(* What the users of the library see is what TaskPool promises: all of it  *)
(* but that main's joins wait, where a second processor can wake main.     *)
Hasty == IF N > 1 THEN {Main} ELSE {}
Pool == INSTANCE TaskPool WITH finished <- {t \in Tasks : result[t] = t}
ImplementsPool == Pool!PoolSpec

(* A program that joins each task at most once runs to its end.            *)
Completion == JoinedOnce => <> exited

(* Tasks that can run do run, all of them (task.h:83 "create an task and   *)
(* run it"), in programs where none of them yields and nobody joins: there *)
(* comes a time when no created task waits for its turn.                   *)
RunsThrough == ~ TasksYield /\ ~ TasksJoin /\ ~ MainJoins
TasksRun == RunsThrough ~> exited \/ \A t \in Tasks : state[t] # "READY"

(* A processor resumes a context only after the one that executed it saved *)
(* its registers (task.h:95: the processor in which a task is running).    *)
ResumedWhenSaved == fault # "stale_context"
=============================================================================
