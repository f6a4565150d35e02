----------------------------- MODULE FifoDeques -----------------------------
(***************************************************************************)
(* What the locked linked deque of libtask promises to the scheduler: each *)
(* deque is a first-in first-out queue of nodes, a push and a pop take     *)
(* effect at one instant, a pop of an empty deque answers Null, and a node *)
(* is in at most one deque at a time.  LockedDeque implements it.          *)
(***************************************************************************)
EXTENDS Naturals, Sequences

CONSTANTS
  Deques,   \* the deques, one per processor
  Nodes,    \* the nodes, one per task (task->sched_info)
  Threads,  \* the threads that push and pop
  Null      \* the NULL pointer

VARIABLES
  items,    \* items[d]: the nodes in deque d, head first
  got       \* got[t]: what thread t's last pop returned

fifoVars == <<items, got>>

InSome(n) == \E d \in Deques : \E i \in 1 .. Len(items[d]) : items[d][i] = n

FifoInit == /\ items = [d \in Deques |-> <<>>]
            /\ got = [t \in Threads |-> Null]

FifoPush(d, n) == /\ ~ InSome(n)
                  /\ items' = [items EXCEPT ![d] = Append(@, n)]
                  /\ UNCHANGED got

FifoPop(t, d) == /\ items[d] # <<>>
                 /\ items' = [items EXCEPT ![d] = Tail(@)]
                 /\ got' = [got EXCEPT ![t] = Head(items[d])]

FifoPopEmpty(t, d) == /\ items[d] = <<>>
                      /\ got' = [got EXCEPT ![t] = Null]
                      /\ UNCHANGED items

FifoNext == \E d \in Deques :
              \/ \E n \in Nodes : FifoPush(d, n)
              \/ \E t \in Threads : FifoPop(t, d) \/ FifoPopEmpty(t, d)

FifoSpec == FifoInit /\ [][FifoNext]_fifoVars
=============================================================================
