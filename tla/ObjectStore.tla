---------------------------- MODULE ObjectStore -----------------------------
(***************************************************************************)
(* What the object model promises: an object is a map from its fields to   *)
(* values; a store changes one field of one object and nothing else, and   *)
(* may free objects.  The promise ends when a class is changed after the   *)
(* place of its fields was fixed, or when the program crashes.             *)
(***************************************************************************)
EXTENDS TLC

CONSTANT None

VARIABLES store,  \* store[o]: the fields of object o
          kept    \* the promise still holds

vars == <<store, kept>>

Only(f, S) == [x \in S |-> f[x]]

Init == store = <<>> /\ kept = TRUE

(* A new object, all of whose fields are empty.                            *)
Make == \E o \in DOMAIN store' \ DOMAIN store :
          /\ \A f \in DOMAIN store'[o] : store'[o][f] = None
          /\ store' = store @@ (o :> store'[o])

Set == \E o \in DOMAIN store : \E f \in DOMAIN store[o] :
         \E S \in SUBSET DOMAIN store :
           /\ DOMAIN store' = S
           /\ \/ o \notin S /\ store' = Only(store, S)
              \/ o \in S /\ store' = [Only(store, S) EXCEPT ![o][f] = store'[o][f]]

Free == /\ DOMAIN store' \subseteq DOMAIN store
        /\ store' = Only(store, DOMAIN store')

Next == \/ kept /\ kept' = TRUE /\ (Make \/ Set \/ Free)
        \/ kept /\ kept' = FALSE /\ store' = <<>>

Spec == Init /\ [][Next]_vars
=============================================================================
