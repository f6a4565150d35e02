----------------------------- MODULE OrderedMap -----------------------------
(***************************************************************************)
(* What a hash table promises its callers: a map from keys to nodes that   *)
(* remembers the order in which the nodes were added.  A call returns its  *)
(* answer in ret.                                                          *)
(***************************************************************************)
EXTENDS SequencesExt

CONSTANTS Nodes, KeyOf

VARIABLES order, ret

vars == <<order, ret>>

KeysIn == {KeyOf[order[i]] : i \in DOMAIN order}

Keys == {KeyOf[n] : n \in Nodes}

Answer(op, arg, value) == ret' = [op |-> op, arg |-> arg, value |-> value]

Init == order = <<>> /\ ret = [op |-> "init", arg |-> {}, value |-> {}]

-----------------------------------------------------------------------------

Without(n) == \E i \in DOMAIN order : order[i] = n /\ order' = RemoveAt(order, i)

Insert(n) ==
  IF KeyOf[n] \in KeysIn
  THEN Answer("insert", n, -1) /\ UNCHANGED order
  ELSE Answer("insert", n, 0) /\ order' = Append(order, n)

RemoveNode(n) ==
  IF n \in Range(order)
  THEN Answer("remove", n, 0) /\ Without(n)
  ELSE Answer("remove", n, -1) /\ UNCHANGED order

Find(k) ==
  /\ Answer("find", k, {n \in Range(order) : KeyOf[n] = k})
  /\ UNCHANGED order

(* A visitor takes the node it is shown out of the map.                    *)
Drop(n) ==
  /\ Without(n)
  /\ UNCHANGED ret

Next == \/ \E n \in Nodes : Insert(n) \/ RemoveNode(n) \/ Drop(n)
        \/ \E k \in Keys : Find(k)

Spec == Init /\ [][Next]_vars
=============================================================================
