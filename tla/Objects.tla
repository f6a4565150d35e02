------------------------------ MODULE Objects -------------------------------
(***************************************************************************)
(* Classes, traits and objects of the runtime (src/object.c), and tuples   *)
(* (src/objects/tupleobject.c).  A class is linearised when it is made:    *)
(* its lro holds Any, then what its bases hold, then itself, each with the *)
(* offset of its fields in an object.  An object is a header and an array  *)
(* of slots; a name is looked up from the end of the lro to its start.     *)
(*                                                                         *)
(* The callers, C code that makes classes and objects, own some references *)
(* and borrow others through the slots of what they own.                   *)
(***************************************************************************)
EXTENDS Integers, FiniteSets, SequencesExt

CONSTANTS Klasses,    \* the classes and traits programs make, in this order
          Names,      \* the names of members
          MaxCells,   \* bounds the objects, tuples and values ever made
          MaxMade,    \* bounds what a behaviour makes
          Any_Klass, Tuple, Value, None

ASSUME ObjectsAssumption == {Any_Klass, Tuple, Value, None} \cap Range(Klasses) = {}

VARIABLES klass,   \* klass[k]: [bases, lro, nrvars, total, mtbl], or None
          heap,    \* the objects, tuples and values in memory
          own,     \* own[c]: the references to c that the callers own, 0 or 1
          late     \* a history: the classes a field was added to too late

vars == <<klass, heap, own, late>>

Cells == 1 .. MaxCells
Made == {k \in Range(Klasses) : klass[k] # None}

-----------------------------------------------------------------------------
(* Linearisation *)

(* lro_find *)
Has(lro, k) == \E i \in DOMAIN lro : lro[i].klazz = k

(* lro_build: the nodes of the bases in order, each class once.            *)
AddNode(acc, k) ==
  IF Has(acc.lro, k) THEN acc
  ELSE [lro |-> Append(acc.lro, [klazz |-> k, offset |-> acc.offset]),
        offset |-> acc.offset + klass[k].nrvars]

AddNodeInPlace(acc, node) ==
  IF Has(acc.lro, node.klazz) THEN acc
  ELSE [lro |-> Append(acc.lro, node), offset |-> node.offset + klass[node.klazz].nrvars]

AddBaseInPlace(acc, base) == FoldLeft(AddNodeInPlace, acc, Tail(klass[base].lro))

AddBase(acc, base) ==
  FoldLeft(LAMBDA a, node : AddNode(a, node.klazz), acc, Tail(klass[base].lro))

Linearise(k, bases) ==
  LET any  == [lro |-> <<[klazz |-> Any_Klass, offset |-> 0]>>, offset |-> 0]
      line == FoldLeft(AddBase, any, bases)
  IN  [line EXCEPT !.lro = Append(@, [klazz |-> k, offset |-> line.offset])]

Ancestors(k) == {klass[k].lro[i].klazz : i \in DOMAIN klass[k].lro} \ {Any_Klass}

-----------------------------------------------------------------------------
(* Members *)

AnsweringFirst(k, base, n, super) ==
  LET lro   == klass[k].lro
      at    == CHOOSE i \in DOMAIN lro : lro[i].klazz = base
      first == IF super THEN at - 1 ELSE at
      found == {i \in 2 .. first : n \in DOMAIN klass[lro[i].klazz].mtbl}
  IN  IF found = {} THEN 0 ELSE Min(found)

(* __get_m: the place in the lro of the class that answers for a name,     *)
(* from the place of base on, "super." skipping one; or 0.                 *)
Answering(k, base, n, super) ==
  LET lro   == klass[k].lro
      at    == CHOOSE i \in DOMAIN lro : lro[i].klazz = base
      first == IF super THEN at - 1 ELSE at
      found == {i \in 2 .. first : n \in DOMAIN klass[lro[i].klazz].mtbl}
  IN  IF found = {} THEN 0 ELSE Max(found)

Member(k, i, n) == klass[klass[k].lro[i].klazz].mtbl[n]

SlotUnshifted(k, i, n) == Member(k, i, n).offset + 1

(* The slot of field n of the class at place i, counted from 1.            *)
Slot(k, i, n) == klass[k].lro[i].offset + Member(k, i, n).offset + 1

-----------------------------------------------------------------------------
(* References *)

Incref(h, c) == [h EXCEPT !.refcnt[c] = @ + 1]

(* object_free goes by what its class has now, be it more than the object  *)
(* was allocated with.                                                     *)
Overrun(h, c) == h.kind[c] \in Range(Klasses) /\ klass[h.kind[c]].total > Len(h.slots[c])

(* OB_DECREF, object_free and Tuple_Free *)
RECURSIVE Decref(_, _)
Decref(h, c) ==
  IF c = None \/ h.crash # "none" THEN h
  ELSE IF h.refcnt[c] > 1 THEN [h EXCEPT !.refcnt[c] = @ - 1]
  ELSE LET freed == FoldLeft(Decref, [h EXCEPT !.refcnt[c] = 0, !.live = @ \ {c}], h.slots[c])
       IN  IF Overrun(h, c) THEN [freed EXCEPT !.crash = "out_of_bounds"] ELSE freed

(* What the callers can name: what they own, and what is in its slots.     *)
RECURSIVE Closure(_, _)
Closure(h, S) ==
  LET T == S \cup {d \in h.live : \E c \in S : d \in Range(h.slots[c])}
  IN  IF T = S THEN S ELSE Closure(h, T)
Named == Closure(heap, {c \in heap.live : own[c] > 0})

-----------------------------------------------------------------------------
Init == /\ klass = [k \in Range(Klasses) |-> None]
        /\ heap = [kind   |-> [c \in Cells |-> None],
                   refcnt |-> [c \in Cells |-> 0],
                   slots  |-> [c \in Cells |-> <<>>],
                   avail  |-> [c \in Cells |-> 0],
                   live   |-> {},
                   crash  |-> "none",
                   victim |-> None]
        /\ own = [c \in Cells |-> 0]
        /\ late = {}

Used == {c \in Cells : heap.kind[c] # None}

(* The bound on a behaviour: what it makes, weighed by what it costs TLC.  *)
(* Making a class or a method neither reads nor changes the heap, so no    *)
(* behaviour is lost by doing it before the first object.                  *)
Size == FoldSet(LAMBDA c, n : n + 2 + Len(heap.slots[c]), 0, Used)
        + FoldSet(LAMBDA k, n : n + 2 + klass[k].nrvars
                    + Cardinality({m \in DOMAIN klass[k].mtbl : klass[k].mtbl[m].kind # "var"}),
                  0, Made)

Running == heap.crash = "none"
MayMake(cost) == Running /\ Size + cost <= MaxMade

(* Klass_New and Init_Klass *)
NewKlass(k) ==
  /\ MayMake(2) /\ Used = {} /\ Cardinality(Made) < Len(Klasses)
  /\ k = Klasses[Cardinality(Made) + 1]
  /\ \E n \in 0 .. Cardinality(Made) : \E bases \in Injection(1 .. n, Made) :
       LET line == Linearise(k, bases)
       IN  klass' = [klass EXCEPT ![k] = [bases |-> bases, lro |-> line.lro, nrvars |-> 0,
                                          total |-> line.offset, mtbl |-> <<>>]]
  /\ UNCHANGED <<heap, own, late>>

(* Where the fields of k have their place already: in a class derived from *)
(* it, or in an object.                                                    *)
Laid(k) == \/ \E j \in Made \ {k} : k \in Ancestors(j)
           \/ \E c \in heap.live : heap.kind[c] \in Range(Klasses) /\ k \in Ancestors(heap.kind[c])

(* HashTable_Insert keeps the member that is there.                        *)
Insert(tbl, n, m) == IF n \in DOMAIN tbl THEN tbl ELSE tbl @@ (n :> m)

WithFieldUncounted(k, n) ==
  [k EXCEPT !.mtbl = Insert(@, n, [kind |-> "var", offset |-> k.nrvars]), !.nrvars = @ + 1]

(* Klass_Add_Field counts a field even when its name is taken.             *)
WithField(k, n) ==
  [k EXCEPT !.mtbl = Insert(@, n, [kind |-> "var", offset |-> k.nrvars]),
            !.nrvars = @ + 1, !.total = @ + 1]

AddField(k, n) ==
  /\ MayMake(1) /\ k \in Made
  /\ klass' = [klass EXCEPT ![k] = WithField(@, n)]
  /\ late' = IF Laid(k) THEN late \cup {k} ELSE late
  /\ UNCHANGED <<heap, own>>

(* Klass_Add_Method and Klass_Add_Proto *)
AddOther(k, n, kind) ==
  /\ MayMake(1) /\ k \in Made /\ Used = {}
  /\ klass' = [klass EXCEPT ![k].mtbl = Insert(@, n, [kind |-> kind])]
  /\ UNCHANGED <<heap, own, late>>

Made1(h, kind, slots) ==
  LET c == Min(Cells \ Used)
  IN  [h EXCEPT !.kind[c] = kind, !.refcnt[c] = 1, !.slots[c] = slots, !.live = @ \cup {c}]

(* object_alloc, Tuple_New, Integer_New: the caller owns the reference.    *)
New(kind, slots) ==
  /\ MayMake(2 + Len(slots)) /\ Cells # Used
  /\ heap' = Made1(heap, kind, slots)
  /\ own' = [own EXCEPT ![Min(Cells \ Used)] = 1]
  /\ UNCHANGED <<klass, late>>

Empty(n) == [i \in 1 .. n |-> None]

NewObject(k) == k \in Made /\ New(k, Empty(klass[k].total))
NewTuple(n) == New(Tuple, Empty(n))
NewValue == New(Value, <<>>)

(* OB_DECREF of a reference the caller owns.                               *)
Drop(c) ==
  /\ Running /\ own[c] > 0
  /\ heap' = Decref(heap, c)
  /\ own' = [own EXCEPT ![c] = 0]
  /\ UNCHANGED <<klass, late>>

StoreForgetsOld(h, c, s, v) == Incref([h EXCEPT !.slots[c][s] = v], v)

(* Set_Field takes the new reference before it gives up the old one.       *)
Store(h, c, s, v) ==
  LET old == h.slots[c][s]
  IN  Decref(Incref([h EXCEPT !.slots[c][s] = v], v), old)

SetField(c, base, n, super, v) ==
  LET k == heap.kind[c] IN
  /\ Running /\ {c, v} \subseteq Named /\ k \in Range(Klasses)
  /\ base \in Ancestors(k)
  /\ LET i == Answering(k, base, n, super)
     IN  /\ i > 0 /\ Member(k, i, n).kind = "var"
         /\ heap' = IF Slot(k, i, n) > Len(heap.slots[c])
                    THEN [heap EXCEPT !.crash = "out_of_bounds"]
                    ELSE Store(heap, c, Slot(k, i, n), v)
  /\ UNCHANGED <<klass, own, late>>

(* __Tuple_Set gives up the old reference first, which may free the value  *)
(* that it is about to store.                                              *)
StoreItem(h, c, i, v) ==
  LET freed == Decref(h, h.slots[c][i])
  IN  IF v \notin freed.live THEN [freed EXCEPT !.crash = "use_after_free", !.victim = v]
      ELSE [Incref(freed, v) EXCEPT !.slots[c][i] = v]

SetItem(c, i, v) ==
  /\ Running /\ {c, v} \subseteq Named /\ heap.kind[c] = Tuple
  /\ i \in DOMAIN heap.slots[c]
  /\ heap' = StoreItem(heap, c, i, v)
  /\ UNCHANGED <<klass, own, late>>

(* Tuple_Append counts on even when the tuple is full.                     *)
AppendItem(c, v) ==
  LET i == heap.avail[c] + 1 IN
  /\ Running /\ {c, v} \subseteq Named /\ heap.kind[c] = Tuple
  /\ i <= Len(heap.slots[c]) + 1
  /\ heap' = IF i > Len(heap.slots[c]) THEN [heap EXCEPT !.avail[c] = i]
             ELSE StoreItem([heap EXCEPT !.avail[c] = i], c, i, v)
  /\ UNCHANGED <<klass, own, late>>

(* Tuple_Get_Slice stores what Tuple_Get returns, NULL where nothing is.   *)
Slice(c, i, j) ==
  /\ MayMake(3 + j - i) /\ Cells # Used
  /\ c \in Named /\ heap.kind[c] = Tuple
  /\ LET items == [x \in 1 .. j - i + 1 |-> IF x + i - 1 \in DOMAIN heap.slots[c]
                                            THEN heap.slots[c][x + i - 1] ELSE None]
     IN  heap' = IF None \in Range(items) THEN [heap EXCEPT !.crash = "null_reference"]
                 ELSE Made1(FoldLeft(Incref, heap, items), Tuple, items)
  /\ own' = [own EXCEPT ![Min(Cells \ Used)] = 1]
  /\ UNCHANGED <<klass, late>>

Crashed == ~ Running /\ UNCHANGED vars

Next == \/ \E k \in Range(Klasses) :
             \/ NewKlass(k)
             \/ \E n \in Names : AddField(k, n) \/ \E kind \in {"func", "proto"} : AddOther(k, n, kind)
             \/ NewObject(k)
        \/ \E n \in 1 .. 2 : NewTuple(n)
        \/ NewValue
        \/ \E c \in Used :
             \/ Drop(c)
             \/ \E v \in Used :
                  \/ \E k \in Made, n \in Names, super \in BOOLEAN : SetField(c, k, n, super, v)
                  \/ \E i \in 1 .. 2 : SetItem(c, i, v)
                  \/ AppendItem(c, v)
             \/ \E i, j \in 1 .. 3 : i <= j /\ Slice(c, i, j)
        \/ Crashed

Spec == Init /\ [][Next]_vars

-----------------------------------------------------------------------------
(* Properties *)

TypeOK ==
  /\ \A k \in Made :
       /\ klass[k].bases \in Seq(Range(Klasses))
       /\ klass[k].lro \in Seq([klazz : Range(Klasses) \cup {Any_Klass}, offset : Nat])
       /\ klass[k].nrvars \in Nat /\ klass[k].total \in Nat
       /\ DOMAIN klass[k].mtbl \subseteq Names
  /\ heap \in [kind   : [Cells -> Range(Klasses) \cup {Tuple, Value, None}],
               refcnt : [Cells -> Nat],
               slots  : [Cells -> Seq(Cells \cup {None})],
               avail  : [Cells -> Nat],
               live   : SUBSET Cells,
               crash  : {"none", "out_of_bounds", "use_after_free", "null_reference"},
               victim : Cells \cup {None}]
  /\ own \in [Cells -> 0 .. 1]
  /\ late \subseteq Range(Klasses)

Place(k, j) == CHOOSE i \in DOMAIN klass[k].lro : klass[k].lro[i].klazz = j

(* The line of a class holds Any first, itself last and its ancestors once *)
(* each, every class after those it derives from; of two bases the later   *)
(* one comes later, and so wins a lookup, unless an earlier base derives   *)
(* from it (lro_build, and the order test_trait.c expects).                *)
LroOrdered ==
  \A k \in Made :
    LET lro == klass[k].lro  bases == klass[k].bases IN
    /\ lro[1].klazz = Any_Klass /\ Last(lro).klazz = k
    /\ Cardinality(Ancestors(k)) = Len(lro) - 1
    /\ \A b \in Range(bases) : Ancestors(b) \subseteq Ancestors(k)
    /\ \A j \in Ancestors(k) : \A a \in Ancestors(j) : Place(k, a) <= Place(k, j)
    /\ \A i, j \in DOMAIN bases :
         i < j => \/ Place(k, bases[i]) < Place(k, bases[j])
                  \/ \E m \in 1 .. i : bases[j] \in Ancestors(bases[m])

(* The fields of the classes in a line have slots of their own, all within *)
(* what object_alloc allocates, as long as no class gets a field after it  *)
(* was derived from or instantiated.                                       *)
SlotsDisjoint ==
  late = {} =>
    \A k \in Made :
      LET lro == klass[k].lro
          Slots(i) == (lro[i].offset + 1) .. (lro[i].offset + klass[lro[i].klazz].nrvars)
      IN  /\ UNION {Slots(i) : i \in 2 .. Len(lro)} = 1 .. klass[k].total
          /\ \A i, j \in 2 .. Len(lro) : i # j => Slots(i) \cap Slots(j) = {}

(* A prototype never hides its implementation: if each class of a line     *)
(* that declares n as a prototype has a heir in the line that implements   *)
(* n, Get_Method finds an implementation (it asserts that it does).        *)
ImplementationFound ==
  \A k \in Made, n \in Names :
    LET Declares(kind) == {j \in Ancestors(k) : n \in DOMAIN klass[j].mtbl
                                                /\ klass[j].mtbl[n].kind = kind}
        implemented == \A p \in Declares("proto") : \E f \in Declares("func") : p \in Ancestors(f)
    IN  Declares("func") # {} /\ Declares("var") = {} /\ implemented =>
          Member(k, Answering(k, k, n, FALSE), n).kind = "func"

(* A count is the number of references that callers own and that slots of  *)
(* live objects hold.                                                      *)
References(c) == own[c] + Cardinality({s \in heap.live \X (1 .. MaxMade) :
                                         s[2] \in DOMAIN heap.slots[s[1]]
                                         /\ heap.slots[s[1]][s[2]] = c})
RefcntExact == Running => \A c \in heap.live : heap.refcnt[c] = References(c)

(* What callers own, and what the slots of live objects hold, is live.     *)
NoDangling ==
  Running => /\ \A c \in Cells : own[c] > 0 => c \in heap.live
             /\ \A c \in heap.live : Range(heap.slots[c]) \subseteq heap.live \cup {None}

(* What a class and an object are between any two calls: lines in order,   *)
(* fields apart, and references to live objects only.                      *)
Consistent == TypeOK /\ LroOrdered /\ SlotsDisjoint /\ NoDangling

(* Counting frees everything but cycles: what is live though nobody can    *)
(* name it hangs on an object that reaches itself.                         *)
LeaksAreCyclic ==
  Running =>
    \A c \in heap.live \ Named :
      \E d \in heap.live \ Named :
        /\ c \in Closure(heap, {d})
        /\ d \in Closure(heap, {e \in heap.live : e \in Range(heap.slots[d])})

(* OB_INCREF and OB_DECREF balance over any sequence of calls: the counts  *)
(* are the references there are, and only cycles are left behind.          *)
RefsCounted == RefcntExact /\ LeaksAreCyclic

(* An object is written or freed beyond its slots only if a class got a    *)
(* field too late; a tuple stores a value it has just freed only if the    *)
(* caller does not own the value but borrowed it.                          *)
CrashesExplained ==
  /\ heap.crash = "out_of_bounds" => late # {}
  /\ heap.crash = "use_after_free" => own[heap.victim] = 0

(* The objects in memory are maps from the fields of their classes to      *)
(* values, until a class grows too late.                                   *)
FieldsOf(k) == {f \in Ancestors(k) \X Names :
                  f[2] \in DOMAIN klass[f[1]].mtbl /\ klass[f[1]].mtbl[f[2]].kind = "var"}
Contents(c) == [f \in FieldsOf(heap.kind[c]) |->
                  heap.slots[c][Slot(heap.kind[c], Place(heap.kind[c], f[1]), f[2])]]
Store0 == INSTANCE ObjectStore WITH
  kept  <- late = {} /\ Running,
  store <- IF late = {} /\ Running
           THEN [c \in {d \in heap.live : heap.kind[d] \in Range(Klasses)} |-> Contents(c)]
           ELSE <<>>
ImplementsStore == Store0!Spec
=============================================================================
