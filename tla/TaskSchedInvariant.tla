------------------------- MODULE TaskSchedInvariant -------------------------
(***************************************************************************)
(* The inductive invariant behind the safety properties of TaskSched: what *)
(* holds between any two steps of any processors, part by part.  No part   *)
(* mentions the fault, except the last: the step that fails an assertion   *)
(* changes nothing else.                                                   *)
(***************************************************************************)
EXTENDS TaskSched

(* The labels at which a context executes its own part of the library,     *)
(* those at which a finished task does, and those at which it is left.     *)
Ending == {"finish", "spin", "wake", "deliver", "woken", "done"}
Executing == {"run", "wait", "collect"} \cup Ending
Joining == {"wait", "publish"}
Switching == {"check", "swap"}
Leaving == {"balance", "compare", "steal", "keep", "get", "no_task", "switch"}

Started(c) == at[c] >= 1
(* Place i of e's program creates u, or joins it.                          *)
Creates(e, i, u) == i \in 1 .. Len(prog[e]) /\ prog[e][i] = [do |-> "create", task |-> u]
JoinsAt(e, i, u) == i \in 1 .. Len(prog[e]) /\ prog[e][i] = [do |-> "join", task |-> u]

InPrograms == prog \in Programs /\ \A c \in Users : at[c] <= Len(prog[c]) + 1

OneProcessorEach == \A p, q \in Procs : current[p] = current[q] => p = q

Registers ==
  \A p \in Procs : /\ hand[p] # None <=> pc[p] \in {"wake", "deliver", "woken", "keep"}
                   /\ to[p] # None <=> pc[p] \in {"switch"} \cup Switching

(* Only programs are queued: an idle task is known to its processor alone. *)
UsersQueued == deque \in [Procs -> Seq(Users)] /\ hand \in [Procs -> Users \cup {None}]

(* The task c waited for has returned, and c got its result.               *)
Served(c) == result[c] = Target(c) /\ result[Target(c)] = Target(c)

(* Main, where another processor can wake it while processor 0 still       *)
(* executes it, or is about to resume it as its idle task: then main goes  *)
(* on before its waker has done its part, and may be woken too late.       *)
Rash(c) == c = Main /\ N > 1 /\ Does(Main, "join")
Steady(c, s) == state[c] = s \/ (Rash(c) /\ state[c] = "READY")

(* Context c at processor p: its state, and what it is in the middle of.   *)
Place(p, c) ==
  /\ c \in Users => Started(c)
  /\ pc[p] \in Executing \cup {"publish"} => c \in Users
  /\ pc[p] \in Executing => Steady(c, "RUNNING")
  /\ pc[p] = "publish" => Steady(c, "WAITING")
  /\ pc[p] \in Joining \cup {"collect"} => Doing(c) = "join"
  /\ pc[p] \in Ending => c \in Tasks /\ Doing(c) = "end" /\ result[c] = c
  /\ pc[p] \in Leaving => \/ Doing(c) \in {"loop", "yield"} /\ Steady(c, "RUNNING")
                          \/ Doing(c) = "join" /\ state[c] \in {"WAITING", "READY"}
                          \/ Doing(c) = "end" /\ state[c] = "DONE"
  /\ pc[p] \in Switching => \/ Doing(c) \in {"loop", "yield"} /\ state[c] = "READY"
                            \/ Doing(c) = "join" /\ state[c] \in {"WAITING", "READY"}
                            \/ Doing(c) = "end" /\ state[c] = "DONE"
  /\ pc[p] = "resumed" => \/ Doing(c) \in {"loop", "yield"} /\ Steady(c, "RUNNING")
                          \/ Doing(c) = "join" /\ state[c] \in {"RUNNING", "READY"}
  /\ pc[p] \in {"resumed", "collect"} /\ Doing(c) = "join" /\ state[c] = "RUNNING" =>
       Rash(c) \/ Served(c)
Placed == \A p \in Procs, c \in Contexts : current[p] = c => Place(p, c)

(* Who wakes c has marked it READY, and is about to give it its result.    *)
BeingServed(c) == \E p \in Procs : pc[p] = "deliver" /\ hand[p] = c /\ current[p] = Target(c)

(* What the state of a context says, wherever it is.                       *)
StateMeans(c) ==
  /\ c \in Users /\ ~ Started(c) => c \in Tasks /\ state[c] \in {"none", "READY"}
  /\ state[c] = "none" => c \in Tasks /\ ~ Started(c)
  /\ state[c] = "READY" /\ c \in Users /\ Started(c) =>
       \/ Doing(c) = "yield"
       \/ Doing(c) = "join" /\ (Rash(c) \/ Served(c) \/ BeingServed(c))
       \/ Rash(c) /\ \E p \in Procs : current[p] = c /\ pc[p] \in Executing
  /\ state[c] = "RUNNING" =>
       \E p \in Procs : current[p] = c /\ pc[p] \notin {"publish"} \cup Switching
  /\ state[c] = "WAITING" => c \in Users /\ Started(c) /\ Doing(c) = "join"
  /\ state[c] = "DONE" => c \in Tasks /\ Started(c) /\ Doing(c) = "end" /\ result[c] = c
StatesMean == \A c \in Contexts : StateMeans(c)

(* A task exists once its creator is past the place that creates it.       *)
Created(u) == \E e \in Users, i \in Nat : Creates(e, i, u) /\ i < at[e]
Existing == \A u \in Tasks : Created(u) <=> state[u] # "none"

(* A task that has returned is on its way out, or done.                    *)
Returned == \A t \in Tasks : result[t] = t =>
              state[t] = "DONE" \/ \E p \in Procs : current[p] = t /\ pc[p] \in Ending

(* A result comes from a task that has returned.                           *)
Results == \A c \in Users : result[c] # None => result[result[c]] = result[c]

(* u has exchanged its join_state: no joiner that comes now has to wait.   *)
Passed(u) == result[u] = u /\ \A p \in Procs : current[p] = u => pc[p] # "finish"
AwaitsJoiner(u) == \/ joinState[u] = "WAIT_TO_JOIN" /\ ~ Passed(u)
                   \/ \E p \in Procs : current[p] = u /\ pc[p] = "spin"

JoinStates ==
  \A u \in Tasks :
    /\ joinState[u] = "JOINABLE" => ~ Passed(u) /\ joinTask[u] = None
    /\ joinState[u] = "WAIT_FOR_JOINER" => Passed(u)
    /\ \A c \in Users : joinTask[u] = c =>
         AwaitsJoiner(u) /\ (Rash(c) \/ (state[c] = "WAITING" /\ Target(c) = u))

(* One context at most is on its way to publish itself as u's joiner.      *)
OneJoiner ==
  /\ \A p \in Procs, c \in Users : current[p] = c /\ pc[p] \in Joining =>
       joinTask[Target(c)] = None /\ AwaitsJoiner(Target(c))
  /\ \A p, q \in Procs, c, d \in Users :
       /\ current[p] = c /\ pc[p] \in Joining /\ current[q] = d /\ pc[q] \in Joining
       /\ Target(c) = Target(d)
       => p = q

Waking == \A p \in Procs, c \in Users, u \in Tasks : hand[p] = c /\ current[p] = u =>
            /\ pc[p] = "wake" => joinTask[u] = None /\ (Rash(c) \/ state[c] = "WAITING")
            /\ pc[p] \in {"wake", "deliver"} =>
                 Rash(c) \/ (Started(c) /\ Doing(c) = "join" /\ Target(c) = u)

(* Somebody has passed the exchange of task_join for u.                    *)
Exchanged(u) ==
  \E c \in Users, i \in Nat :
    /\ JoinsAt(c, i, u)
    /\ i < at[c] \/ (i = at[c] /\ \A p \in Procs : current[p] = c => pc[p] # "run")
JoinedBefore == \A u \in Tasks : joinState[u] = "WAIT_TO_JOIN" => Exchanged(u)

Position(c, p, i) == i \in 1 .. Len(deque[p]) /\ deque[p][i] = c
Queued(c) == \E p \in Procs, i \in Nat : Position(c, p, i)
Single(c) == \A p, q \in Procs, i, j \in Nat :
               Position(c, p, i) /\ Position(c, q, j) => p = q /\ i = j

(* A task that is ready is in one place, and only such a task is there.    *)
TaskQueued(t) ==
  /\ Single(t)
  /\ Queued(t) => state[t] = "READY" /\ \A p \in Procs : hand[p] # t /\ to[p] # t
  /\ \A p, q \in Procs : /\ hand[p] = t /\ hand[q] = t => p = q
                         /\ to[p] = t /\ to[q] = t => p = q
                         /\ ~ (hand[p] = t /\ to[q] = t)
  /\ \A p \in Procs : /\ to[p] = t => state[t] = "READY"
                      /\ hand[p] = t /\ pc[p] # "wake" => state[t] = "READY"
  /\ state[t] = "READY" => Queued(t) \/ \E p \in Procs : hand[p] = t \/ to[p] = t
TasksQueued == \A t \in Tasks : TaskQueued(t)

(* An idle task never leaves its processor, nor does a main program that   *)
(* joins nothing.                                                          *)
Homebound(c) == c \in Procs /\ (c = Main => ~ Does(Main, "join"))
AtHome(c) ==
  /\ ~ Queued(c)
  /\ \A p \in Procs : /\ hand[p] # c
                      /\ current[p] = c => p = c
                      /\ to[p] = c => p = c /\ current[p] # c
  /\ current[c] # c => state[c] = "READY"
HomeboundAtHome == \A c \in Procs : Homebound(c) => AtHome(c)

(* On a single processor nobody is woken before it was left, and main is   *)
(* queued like a task.                                                     *)
Alone ==
  N = 1 =>
    /\ pc[Main] \notin {"compare", "steal", "keep"}
    /\ pc[Main] = "no_task" => deque[Main] = <<>>
    /\ \A c \in Users : current[Main] = c /\ Doing(c) = "join" =>
         /\ pc[Main] \in Leaving \cup Switching => state[c] = "WAITING"
         /\ pc[Main] = "resumed" => state[c] = "RUNNING"
    /\ Single(Main)
    /\ Queued(Main) => state[Main] = "READY" /\ hand[Main] # Main /\ to[Main] # Main
    /\ to[Main] = Main => state[Main] = "READY"
    /\ hand[Main] = Main /\ pc[Main] # "wake" => state[Main] = "READY"

(* Joins lead from lower to higher ranks: a task ranks above its creator,  *)
(* and above the tasks its creator creates after it.                       *)
RankedBy(rank, top) ==
  /\ \A c \in Users : rank[c] <= top
  /\ \A e \in Users, u \in Tasks, i \in Nat : Creates(e, i, u) /\ i < at[e] =>
       /\ rank[e] < rank[u]
       /\ \A c \in Tasks, j \in Nat : Creates(e, j, c) /\ i < j /\ j < at[e] => rank[c] < rank[u]
Ranked == \E rank \in [Users -> Nat], top \in Nat : RankedBy(rank, top)

Control == InPrograms /\ OneProcessorEach /\ Registers /\ UsersQueued /\ Placed /\ StatesMean
Creation == Existing /\ Ranked
Joins == Returned /\ Results /\ JoinStates /\ OneJoiner /\ Waking /\ JoinedBefore /\ WillBeWoken
Queues == TasksQueued /\ HomeboundAtHome /\ Alone

Inductive == TypeOK /\ Control /\ Creation /\ Joins /\ Queues /\ FaultsExplained
=============================================================================
