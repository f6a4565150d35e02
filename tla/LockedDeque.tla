---------------------------- MODULE LockedDeque -----------------------------
(***************************************************************************)
(* libtask/locked_linked_deque.c: the singly linked deques the scheduler   *)
(* keeps its READY tasks in, at the granularity of the writes made under   *)
(* the mutex.  deque->head always points at the dummy node that lldq_init  *)
(* allocates, so the deque's own identity stands for that node.            *)
(* Definitions that no action uses, right before the one they vary, are    *)
(* plausible mistakes in that code, kept to show that a property fails     *)
(* with them (README, "Mutations").                                        *)
(*                                                                         *)
(* content is an auxiliary variable: the nodes of each deque in the order  *)
(* they were pushed.  No code reads it; the invariants say that the        *)
(* pointers agree with it and the refinement that it is a FIFO.            *)
(***************************************************************************)
EXTENDS Integers, Sequences

CONSTANTS
  Deques,   \* the deques; each also names its dummy head node
  Nodes,    \* the nodes that are pushed and popped
  Threads,  \* the threads that call the deque
  Null

ASSUME DequeAssumption == /\ Deques \cap Nodes = {}
                          /\ Null \notin Deques \cup Nodes \cup Threads

VARIABLES
  next,     \* next[n]: n->next, for nodes and dummies
  tail,     \* tail[d]: d->tail
  count,    \* count[d]: d->count
  locker,   \* locker[d]: the thread that holds d->locker, or Null
  freed,    \* freed[d]: the node lldq_fini released, or Null before it
  pc,       \* pc[t]: where in lldq_pop_head or lldq_push_tail thread t is
  deque,    \* deque[t]: the argument deque of the call
  node,     \* node[t]: the argument node of a push, Null outside one
  first,    \* first[t]: the local variable first of the last pop
  content   \* content[d]: auxiliary, see above

vars == <<next, tail, count, locker, freed, pc, deque, node, first, content>>

PopLabels  == {"pop_lock", "pop_read", "pop_unlink", "pop_tail", "pop_unlock"}
PushLabels == {"push_lock", "push_link", "push_tail", "push_unlock"}

(* The node a call in progress carries: not yet linked, or already taken.  *)
Carried(t) == CASE pc[t] \in {"push_lock", "push_link"} -> node[t]
                [] pc[t] \in {"pop_unlink", "pop_tail", "pop_unlock"} -> first[t]
                [] OTHER -> Null

(* Nodes in neither a deque nor a call are the callers'.                   *)
InDeque(n) == \E d \in Deques : \E i \in 1 .. Len(content[d]) : content[d][i] = n
Outside(n) == ~ InDeque(n) /\ \A t \in Threads : Carried(t) # n

(* lldq_init for every deque; nodes come zeroed from calloc.               *)
Init == /\ next = [n \in Nodes \cup Deques |-> Null]
        /\ tail = [d \in Deques |-> d]
        /\ count = [d \in Deques |-> 0]
        /\ locker = [d \in Deques |-> Null]
        /\ freed = [d \in Deques |-> Null]
        /\ pc = [t \in Threads |-> "out"]
        /\ deque \in [Threads -> Deques]
        /\ node = [t \in Threads |-> Null]
        /\ first = [t \in Threads |-> Null]
        /\ content = [d \in Deques |-> <<>>]

Goto(t, from, to) == pc[t] = from /\ pc' = [pc EXCEPT ![t] = to]

Lock(t) == /\ locker[deque[t]] = Null
           /\ locker' = [locker EXCEPT ![deque[t]] = t]

Unlock(t) == locker' = [locker EXCEPT ![deque[t]] = Null]

-----------------------------------------------------------------------------
(* lldq_pop_head *)

CallPop(t, d) == /\ freed[d] = Null
                 /\ Goto(t, "out", "pop_lock")
                 /\ deque' = [deque EXCEPT ![t] = d]
                 /\ UNCHANGED <<next, tail, count, locker, freed, node, first, content>>

PopLock(t) == /\ Goto(t, "pop_lock", "pop_read")
              /\ Lock(t)
              /\ UNCHANGED <<next, tail, count, freed, deque, node, first, content>>

(* first = head->next, and where the branch on it leads.                   *)
HeadNode(d) == next[d]
ReturnWithoutUnlock(d) == IF HeadNode(d) = Null THEN "out" ELSE "pop_unlink"
AfterRead(d) == IF HeadNode(d) = Null THEN "pop_unlock" ELSE "pop_unlink"

Rest(s) == IF s = <<>> THEN s ELSE Tail(s)

(* From here on the node is the caller's.                                  *)
PopRead(t) == LET d == deque[t] IN
              /\ first' = [first EXCEPT ![t] = HeadNode(d)]
              /\ Goto(t, "pop_read", AfterRead(d))
              /\ content' = IF HeadNode(d) = Null THEN content
                            ELSE [content EXCEPT ![d] = Rest(@)]
              /\ UNCHANGED <<next, tail, count, locker, freed, deque, node>>

(* head->next = first->next; first->next = NULL                            *)
UnlinkSwapped(d, n) == [next EXCEPT ![d] = Null, ![n] = Null]
Unlink(d, n) == [next EXCEPT ![d] = next[n], ![n] = Null]

PopUnlink(t) == LET d == deque[t] IN
                /\ Goto(t, "pop_unlink", "pop_tail")
                /\ next' = Unlink(d, first[t])
                /\ count' = [count EXCEPT ![d] = @ - 1]
                /\ UNCHANGED <<tail, locker, freed, deque, node, first, content>>

(* if (first == deque->tail) deque->tail = head                            *)
TailKept(d, n) == tail[d]
TailAfterPop(d, n) == IF n = tail[d] THEN d ELSE tail[d]

PopTail(t) == LET d == deque[t] IN
              /\ Goto(t, "pop_tail", "pop_unlock")
              /\ tail' = [tail EXCEPT ![d] = TailAfterPop(d, first[t])]
              /\ UNCHANGED <<next, count, locker, freed, deque, node, first, content>>

PopUnlock(t) == /\ Goto(t, "pop_unlock", "out")
                /\ Unlock(t)
                /\ UNCHANGED <<next, tail, count, freed, deque, node, first, content>>

-----------------------------------------------------------------------------
(* lldq_push_tail *)

CallPush(t, d, n) == /\ freed[d] = Null
                     /\ Outside(n)
                     /\ Goto(t, "out", "push_lock")
                     /\ deque' = [deque EXCEPT ![t] = d]
                     /\ node' = [node EXCEPT ![t] = n]
                     /\ UNCHANGED <<next, tail, count, locker, freed, first, content>>

PushLock(t) == /\ Goto(t, "push_lock", "push_link")
               /\ Lock(t)
               /\ UNCHANGED <<next, tail, count, freed, deque, node, first, content>>

PushLink(t) == LET d == deque[t] IN
               /\ Goto(t, "push_link", "push_tail")
               /\ next' = [next EXCEPT ![tail[d]] = node[t]]
               /\ content' = [content EXCEPT ![d] = Append(@, node[t])]
               /\ UNCHANGED <<tail, count, locker, freed, deque, node, first>>

(* deque->tail = node; deque->count++                                      *)
CountKept(d) == count[d]
CountAfterPush(d) == count[d] + 1

PushTail(t) == LET d == deque[t] IN
               /\ Goto(t, "push_tail", "push_unlock")
               /\ tail' = [tail EXCEPT ![d] = node[t]]
               /\ count' = [count EXCEPT ![d] = CountAfterPush(d)]
               /\ UNCHANGED <<next, locker, freed, deque, node, first, content>>

PushUnlock(t) == /\ Goto(t, "push_unlock", "out")
                 /\ Unlock(t)
                 /\ node' = [node EXCEPT ![t] = Null]
                 /\ UNCHANGED <<next, tail, count, freed, deque, first, content>>

-----------------------------------------------------------------------------
(* lldq_fini, called when no thread is inside the deque any more.          *)
Fini(d) == /\ freed[d] = Null
           /\ \A t \in Threads : pc[t] # "out" => deque[t] # d
           /\ freed' = [freed EXCEPT ![d] = tail[d]]
           /\ tail' = [tail EXCEPT ![d] = Null]
           /\ UNCHANGED <<next, count, locker, pc, deque, node, first, content>>

PopStep(t) == PopLock(t) \/ PopRead(t) \/ PopUnlink(t) \/ PopTail(t)
                \/ PopUnlock(t)
PushStep(t) == PushLock(t) \/ PushLink(t) \/ PushTail(t) \/ PushUnlock(t)
Call(t) == \E d \in Deques : CallPop(t, d) \/ \E n \in Nodes : CallPush(t, d, n)

Next == \/ \E t \in Threads : Call(t) \/ PopStep(t) \/ PushStep(t)
        \/ \E d \in Deques : Fini(d)

Spec == Init /\ [][Next]_vars

(* A thread inside the critical section runs on; pthread mutexes promise   *)
(* no order among waiters, so nothing is assumed of the lock steps.        *)
FairSpec == /\ Spec
            /\ \A t \in Threads :
                 WF_vars((PopStep(t) \/ PushStep(t)) /\ locker[deque[t]] = t)

-----------------------------------------------------------------------------
(* Properties *)

Critical(t) == pc[t] \notin {"out", "pop_lock", "push_lock"}

TypeOK == /\ next \in [Nodes \cup Deques -> Nodes \cup {Null}]
          /\ tail \in [Deques -> Nodes \cup Deques \cup {Null}]
          /\ count \in [Deques -> Int]
          /\ locker \in [Deques -> Threads \cup {Null}]
          /\ freed \in [Deques -> Nodes \cup Deques \cup {Null}]
          /\ pc \in [Threads -> {"out"} \cup PopLabels \cup PushLabels]
          /\ deque \in [Threads -> Deques]
          /\ node \in [Threads -> Nodes \cup {Null}]
          /\ first \in [Threads -> Nodes \cup {Null}]
          /\ content \in [Deques -> Seq(Nodes)]

(* The critical sections of one deque exclude each other, and the mutex    *)
(* names the thread inside.                                                *)
Exclusion == \A t \in Threads, d \in Deques :
               locker[d] = t <=> Critical(t) /\ deque[t] = d

(* A node sits at one place only: one position of one deque, or one call.  *)
SinglePlace ==
  /\ \A d, e \in Deques : \A i \in 1 .. Len(content[d]), j \in 1 .. Len(content[e]) :
       content[d][i] = content[e][j] => d = e /\ i = j
  /\ \A t \in Threads : ~ InDeque(Carried(t))
  /\ \A t, u \in Threads : t # u /\ Carried(t) # Null => Carried(t) # Carried(u)

FirstOf(d) == IF content[d] = <<>> THEN Null ELSE content[d][1]
LastOf(d) == IF content[d] = <<>> THEN d ELSE content[d][Len(content[d])]

(* No call is between its first and its last write to d.                   *)
AtRest(d) == \A t \in Threads :
               deque[t] = d => pc[t] \notin {"pop_unlink", "pop_tail", "push_tail"}

Linked(d) == \A i \in 1 .. Len(content[d]) :
               next[content[d][i]] = IF i = Len(content[d]) THEN Null ELSE content[d][i + 1]

(* What the writes of a call have done to its deque so far.                *)
MidCall(t) ==
  LET d == deque[t] IN
  /\ pc[t] = "pop_unlink" => /\ first[t] # Null
                             /\ next[d] = first[t]
                             /\ next[first[t]] = FirstOf(d)
                             /\ count[d] = Len(content[d]) + 1
  /\ pc[t] = "pop_tail" => /\ first[t] # Null
                           /\ next[d] = FirstOf(d)
                           /\ count[d] = Len(content[d])
  /\ pc[t] \in {"pop_unlink", "pop_tail"} =>
       tail[d] = IF content[d] = <<>> THEN first[t] ELSE LastOf(d)
  /\ pc[t] \in {"push_lock", "push_link"} => node[t] # Null
  /\ pc[t] = "push_tail" => /\ content[d] # <<>>
                            /\ node[t] = LastOf(d)
                            /\ next[d] = FirstOf(d)
                            /\ count[d] = Len(content[d]) - 1

(* The pointers agree with the queue: the chain that starts at the dummy   *)
(* is the queue, the tail is its last node or the dummy when it is empty,  *)
(* the counter is its length; in the middle of a call they differ only by  *)
(* the writes that call still has to make.                                 *)
Pointers ==
  /\ \A d \in Deques :
       /\ Linked(d)
       /\ AtRest(d) => /\ next[d] = FirstOf(d)
                       /\ count[d] = Len(content[d])
                       /\ freed[d] = Null => tail[d] = LastOf(d)
  /\ \A t \in Threads : MidCall(t)

(* lldq_push_tail does not clear node->next: a node its caller holds must  *)
(* already have a NULL one, which lldq_pop_head sees to.                   *)
HeldNodeUnlinked == \A n \in Nodes : Outside(n) => next[n] = Null

(* sched_load_balance reads count without the mutex (task_scheduler_locked.c:99 *)
(* and :105): at any instant it is at most one off and never negative.     *)
CountNear == \A d \in Deques : /\ count[d] >= 0
                               /\ count[d] - Len(content[d]) \in -1 .. 1

(* lldq_fini frees deque->tail: for a drained deque that is the dummy, and *)
(* not a node that still belongs to a task.                                *)
FiniFreesDummy == \A d \in Deques :
                    freed[d] # Null /\ content[d] = <<>> => freed[d] = d

(* The inductive invariant adds that nobody is inside a finished deque and *)
(* that a node in no deque and not being unlinked has a NULL next.         *)
Open(t) == pc[t] # "out" => freed[deque[t]] = Null
Unlinked(n) == \/ InDeque(n)
               \/ \E t \in Threads : pc[t] = "pop_unlink" /\ first[t] = n
               \/ next[n] = Null

Inductive == /\ TypeOK
             /\ Exclusion
             /\ SinglePlace
             /\ Pointers
             /\ FiniFreesDummy
             /\ \A t \in Threads : Open(t)
             /\ \A n \in Nodes : Unlinked(n)

(* Every deque is a FIFO queue.                                            *)
Fifo == INSTANCE FifoDeques WITH items <- content, got <- first
ImplementsFifo == Fifo!FifoSpec

(* Every path through the two operations gives the mutex back.             *)
MutexReleased == \A d \in Deques : locker[d] # Null ~> locker[d] = Null
=============================================================================
