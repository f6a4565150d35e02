------------------------------ MODULE HashTable ------------------------------
(***************************************************************************)
(* The hash table of src/hashtable.c on the lists of include/list.h,       *)
(* pointer by pointer: a chain of nodes per bucket, in which every node    *)
(* knows the cell that points to it, and a doubly linked ring of all nodes *)
(* in the order they were added.  The table grows when it is too full;     *)
(* iteration keeps the successor of the node the visitor is shown, which   *)
(* the visitor may unlink.                                                 *)
(***************************************************************************)
EXTENDS Integers, SequencesExt

CONSTANTS Nodes,             \* the nodes callers put into the table
          KeyOf,             \* the key of a node
          HashOf,            \* the hash value of a key
          Primes,            \* good_primes: the numbers of buckets to grow through
          LoadNum, LoadDen,  \* LOAD_FACTOR, as a fraction
          MaxCount,          \* bounds nr_nodes, which Remove_HashNode never lowers
          ListHead,              \* the list head of the table
          Null

Keys == {KeyOf[n] : n \in Nodes}

(* A bucket is named by its index, and is no node.                         *)
ASSUME HashTableAssumption ==
  /\ IsFiniteSet(Nodes) /\ \A k \in Keys : HashOf[k] \in Nat
  /\ LoadNum \in Nat \ {0} /\ LoadDen \in Nat \ {0} /\ MaxCount \in Nat
  /\ Primes \in Seq(Nat \ {0}) /\ Primes # <<>>
  /\ ListHead \notin Nodes \cup {Null} /\ Null \notin Nodes
  /\ (Nodes \cup {Null}) \cap Nat = {}

VARIABLES ring,        \* llink of every node and of the table: [next, prev]
          chain,       \* [cell, pprev]: the cells that point to nodes, and back
          hash,        \* hash of every node, set when it is inserted
          primeIndex,  \* index into Primes, from 1
          nrNodes,
          mode,        \* "ready", "visit", "fini", or "dead" without entries
          pos, nxt,    \* the iteration's current node and the saved next one
          visited,     \* the nodes the visitor was shown in this iteration
          shown,       \* what it should be shown: the order at its start
          ret          \* the answer of the last call

table == <<ring, chain, hash, primeIndex, nrNodes>>
walk == <<mode, pos, nxt, visited, shown>>
vars == <<table, walk, ret>>

Links == Nodes \cup {ListHead}
Buckets(size) == 0 .. size - 1
Size == Primes[primeIndex]

-----------------------------------------------------------------------------
(* include/list.h *)

InitRing == [next |-> [x \in Links |-> x], prev |-> [x \in Links |-> x]]

ListAddTail(r, n) ==
  LET last == r.prev[ListHead]
  IN  [next |-> [r.next EXCEPT ![n] = ListHead, ![last] = n],
       prev |-> [r.prev EXCEPT ![n] = last, ![ListHead] = n]]

ListDel(r, n) ==
  [next |-> [r.next EXCEPT ![r.prev[n]] = r.next[n], ![n] = n],
   prev |-> [r.prev EXCEPT ![r.next[n]] = r.prev[n], ![n] = n]]

(* The next pointer of a node is named by the node, the first pointer of a *)
(* bucket by its index.                                                    *)
NewEntries(size) == [cell  |-> [x \in Nodes \cup Buckets(size) |-> Null],
                     pprev |-> [n \in Nodes |-> Null]]

Unhashed(c, n) == c.pprev[n] = Null

HlistAdd(c, n, bucket) ==
  LET first == c.cell[bucket]
  IN  [cell  |-> [c.cell EXCEPT ![n] = first, ![bucket] = n],
       pprev |-> [m \in Nodes |-> CASE m = n -> bucket
                                    [] m = first -> n
                                    [] OTHER -> c.pprev[m]]]

HlistDel(c, n) ==
  IF Unhashed(c, n) THEN c
  ELSE [cell  |-> [c.cell EXCEPT ![c.pprev[n]] = c.cell[n], ![n] = Null],
        pprev |-> [m \in Nodes |-> CASE m = n -> Null
                                     [] m = c.cell[n] -> c.pprev[n]
                                     [] OTHER -> c.pprev[m]]]

(* The nodes that following the pointers f from x reaches before stop.     *)
Follow(f, x, stop) ==
  LET at[k \in 0 .. Cardinality(Nodes)] ==
        IF k = 0 THEN x ELSE IF at[k - 1] = stop THEN stop ELSE f[at[k - 1]]
  IN  [k \in {j \in 1 .. Cardinality(Nodes) : at[j - 1] # stop} |-> at[k - 1]]

ChainOf(c, bucket) == Follow(c.cell, c.cell[bucket], Null)

Order == Follow(ring.next, ring.next[ListHead], ListHead)

-----------------------------------------------------------------------------
(* src/hashtable.c: the parts of the operations *)

Fits(index) == nrNodes * LoadDen < Primes[index] * LoadNum

ProperPrimeIndex ==
  LET fitting == {i \in primeIndex .. Len(Primes) : Fits(i)}
  IN  IF fitting = {} THEN Len(Primes) ELSE Min(fitting)

GrowNow == ~ Fits(primeIndex) /\ ProperPrimeIndex > primeIndex

(* Adds the nodes of a chain to new entries, each in front of the others.  *)
MoveChain(entries, nodes, size) ==
  LET moved[i \in 0 .. Len(nodes)] ==
        IF i = 0 THEN entries ELSE HlistAdd(moved[i - 1], nodes[i], hash[nodes[i]] % size)
  IN  moved[Len(nodes)]

RehashInto(entries, size) ==
  LET moved[b \in 0 .. Size] ==
        IF b = 0 THEN entries ELSE MoveChain(moved[b - 1], ChainOf(chain, b - 1), size)
  IN  moved[Size]

RehashOldSize(index) == RehashInto(NewEntries(Primes[index]), Size)

(* Move every node, bucket by bucket and chain by chain, to new entries.   *)
Rehash(index) == RehashInto(NewEntries(Primes[index]), Primes[index])

(* The node with an equal key in the chain of the hash value, or Null.     *)
FindNode(h, key) ==
  LET nodes == ChainOf(chain, h % Size)
      equal == {i \in DOMAIN nodes : KeyOf[nodes[i]] = key}
  IN  IF equal = {} THEN Null ELSE nodes[Min(equal)]

Answer(op, arg, value) == ret' = [op |-> op, arg |-> arg, value |-> value]

-----------------------------------------------------------------------------
(* Operations *)

Init == /\ ring = InitRing
        /\ chain = NewEntries(Primes[1])
        /\ primeIndex = 1
        /\ nrNodes = 0
        /\ hash = [n \in Nodes |-> 0]
        /\ mode = "ready" /\ pos = Null /\ nxt = Null /\ visited = <<>> /\ shown = <<>>
        /\ ret = [op |-> "init", arg |-> {}, value |-> {}]

(* HashTable_Insert: the hash is stored even when the key is a duplicate.  *)
InsertHashed(n) ==
  /\ mode = "ready"
  /\ ~ Unhashed(chain, n)
  /\ Answer("insert", n, -1)
  /\ UNCHANGED <<table, walk>>

InsertDuplicate(n) ==
  /\ mode = "ready"
  /\ Unhashed(chain, n)
  /\ FindNode(HashOf[KeyOf[n]], KeyOf[n]) # Null
  /\ hash' = [hash EXCEPT ![n] = HashOf[KeyOf[n]]]
  /\ Answer("insert", n, -1)
  /\ UNCHANGED <<ring, chain, primeIndex, nrNodes, walk>>

InsertNew(n) ==
  /\ mode = "ready" /\ nrNodes < MaxCount
  /\ Unhashed(chain, n)
  /\ FindNode(HashOf[KeyOf[n]], KeyOf[n]) = Null
  /\ hash' = [hash EXCEPT ![n] = HashOf[KeyOf[n]]]
  /\ primeIndex' = IF GrowNow THEN ProperPrimeIndex ELSE primeIndex
  /\ LET grown == IF GrowNow THEN Rehash(ProperPrimeIndex) ELSE chain
     IN  chain' = HlistAdd(grown, n, HashOf[KeyOf[n]] % Primes[primeIndex'])
  /\ ring' = ListAddTail(ring, n)
  /\ nrNodes' = nrNodes + 1
  /\ Answer("insert", n, 0)
  /\ UNCHANGED walk

Find(k) ==
  /\ mode = "ready"
  /\ Answer("find", k, {FindNode(HashOf[k], k)} \ {Null})
  /\ UNCHANGED <<table, walk>>

(* HashTable_Remove: only the node the table finds under its own key.      *)
RemoveAbsent(n) ==
  /\ mode = "ready"
  /\ Unhashed(chain, n) \/ FindNode(hash[n], KeyOf[n]) # n
  /\ Answer("remove", n, -1)
  /\ UNCHANGED <<table, walk>>

RemoveNode(n) ==
  /\ mode = "ready"
  /\ ~ Unhashed(chain, n) /\ FindNode(hash[n], KeyOf[n]) = n
  /\ chain' = HlistDel(chain, n)
  /\ ring' = ListDel(ring, n)
  /\ nrNodes' = nrNodes - 1
  /\ Answer("remove", n, 0)
  /\ UNCHANGED <<hash, primeIndex, walk>>

(* HashTable_Visit and HashTable_Fini iterate with list_for_each_safe.     *)
Begin(how) ==
  /\ mode = "ready"
  /\ mode' = how
  /\ pos' = ring.next[ListHead] /\ nxt' = ring.next[ring.next[ListHead]]
  /\ visited' = <<>> /\ shown' = Order
  /\ UNCHANGED <<table, ret>>

AdvanceSkips == /\ nxt' = ring'.next[nxt] /\ pos' = nxt'

(* pos = n, n = pos->next, read after the visitor returned.                *)
Advance == /\ pos' = nxt /\ nxt' = ring'.next[nxt]

UnlinkRingOnly(n) == chain' = chain /\ ring' = ListDel(ring, n)

Unlink(n) == chain' = HlistDel(chain, n) /\ ring' = ListDel(ring, n)

VisitKeep ==
  /\ mode = "visit" /\ pos # ListHead
  /\ visited' = Append(visited, pos)
  /\ UNCHANGED table
  /\ Advance
  /\ UNCHANGED <<mode, shown, ret>>

(* Symbol tables are emptied by a visitor that applies Remove_HashNode to  *)
(* the node it is shown, which leaves nr_nodes alone.                      *)
VisitUnlink ==
  /\ mode = "visit" /\ pos # ListHead
  /\ visited' = Append(visited, pos)
  /\ Unlink(pos)
  /\ Advance
  /\ UNCHANGED <<hash, primeIndex, nrNodes, mode, shown, ret>>

VisitEnd ==
  /\ mode = "visit" /\ pos = ListHead
  /\ mode' = "ready" /\ pos' = Null /\ nxt' = Null /\ visited' = <<>> /\ shown' = <<>>
  /\ UNCHANGED <<table, ret>>

FiniNode ==
  /\ mode = "fini" /\ pos # ListHead
  /\ Unlink(pos)
  /\ visited' = Append(visited, pos)
  /\ Advance
  /\ UNCHANGED <<hash, primeIndex, nrNodes, mode, shown, ret>>

FiniEnd ==
  /\ mode = "fini" /\ pos = ListHead
  /\ mode' = "dead" /\ pos' = Null /\ nxt' = Null /\ visited' = <<>> /\ shown' = <<>>
  /\ primeIndex' = 1 /\ nrNodes' = 0
  /\ chain' = NewEntries(Primes[1])    \* entries is NULL until HashTable_Init
  /\ UNCHANGED <<ring, hash, ret>>

(* HashTable_Init on the memory of a finished table.                       *)
InitAgain ==
  /\ mode = "dead"
  /\ ring' = InitRing /\ chain' = NewEntries(Primes[1]) /\ primeIndex' = 1 /\ nrNodes' = 0
  /\ mode' = "ready"
  /\ UNCHANGED <<hash, pos, nxt, visited, shown, ret>>

Step == VisitKeep \/ VisitUnlink \/ VisitEnd \/ FiniNode \/ FiniEnd

Next == \/ \E n \in Nodes : \/ InsertHashed(n) \/ InsertDuplicate(n) \/ InsertNew(n)
                            \/ RemoveAbsent(n) \/ RemoveNode(n)
        \/ \E k \in Keys : Find(k)
        \/ Begin("visit") \/ Begin("fini")
        \/ Step \/ InitAgain

Spec == Init /\ [][Next]_vars

-----------------------------------------------------------------------------
(* Properties *)

(* Every pointer points to something of its kind.                          *)
TypeOK ==
  /\ ring \in [next : [Links -> Links], prev : [Links -> Links]]
  /\ primeIndex \in 1 .. Len(Primes)
  /\ chain \in [cell  : [Nodes \cup Buckets(Size) -> Nodes \cup {Null}],
                pprev : [Nodes -> Nodes \cup Buckets(Size) \cup {Null}]]
  /\ nrNodes \in 0 .. MaxCount
  /\ hash \in [Nodes -> {0} \cup {HashOf[k] : k \in Keys}]
  /\ mode \in {"ready", "visit", "fini", "dead"}
  /\ {pos, nxt} \subseteq Links \cup {Null}

(* The two directions of the ring, and the two of the chains, agree: what  *)
(* list_del and hlist_del rely on to unlink a node they are only given.    *)
RingLinked == \A x \in Links : ring.prev[ring.next[x]] = x /\ ring.next[ring.prev[x]] = x

ChainsLinked ==
  /\ \A n \in Nodes : ~ Unhashed(chain, n) => chain.cell[chain.pprev[n]] = n
  /\ \A x \in DOMAIN chain.cell : chain.cell[x] # Null => chain.pprev[chain.cell[x]] = x

(* A node is in the ring exactly when it is in a chain, and then in that of *)
(* its own hash value for the present number of buckets: no operation and  *)
(* no growth loses a node for __HashTable_Find.                            *)
WellPlaced ==
  mode # "dead" =>
    \A b \in Buckets(Size) :
      Range(ChainOf(chain, b)) = {n \in Range(Order) : HashOf[KeyOf[n]] % Size = b}

(* The load factor is kept until the last prime is reached, although       *)
(* Remove_HashNode leaves nr_nodes larger than the number of nodes.        *)
LoadKept ==
  /\ nrNodes >= Len(Order) \/ mode = "dead"
  /\ primeIndex < Len(Primes) => (Len(Order) - 1) * LoadDen < Size * LoadNum

(* A visitor is shown the nodes in the order they were added, though it    *)
(* unlinks them, and each of them by the end of the iteration.             *)
InOrder == IsPrefix(visited, shown)

(* The table between any two steps: every part of it that an operation may *)
(* rely on, from the ring and the chains to the load.                      *)
Consistent == TypeOK /\ RingLinked /\ ChainsLinked /\ WellPlaced /\ LoadKept /\ InOrder

(* An iteration ends only when it has shown every node, be it that the     *)
(* visitor unlinks them (HashTable_Visit, HashTable_Fini).                 *)
AllVisited == [][(mode \in {"visit", "fini"} /\ mode' # mode) => visited = shown]_vars

(* The table is an insertion-ordered map: through collisions, growth,      *)
(* removals and re-insertion every call answers as the map would.          *)
Map == INSTANCE OrderedMap WITH order <- Order
ImplementsMap == Map!Spec
=============================================================================
