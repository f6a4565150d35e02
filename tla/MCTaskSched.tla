---------------------------- MODULE MCTaskSched -----------------------------
(* The programs that TaskSched is checked with.                            *)
EXTENDS TaskSched, SequencesExt

CONSTANTS a, b   \* the two tasks of the exhaustive sets of programs

Op(do, t) == [do |-> do, task |-> t]
create(t) == Op("create", t)
join(t) == Op("join", t)
yield == Op("yield", None)
work == Op("work", None)

(* The sequences of at most n operations, each creation at most once; main *)
(* creates a, and not after b, which loses no generality.                  *)
Bodies(n, ops) ==
  {s \in BoundedSeq(ops, n) :
     \A i, j \in DOMAIN s : s[i] = s[j] /\ s[i].do = "create" => i = j}
Mains(n, ops) ==
  {s \in Bodies(n, ops) : \E i \in DOMAIN s :
     s[i] = create(a) /\ \A j \in 1 .. i : s[j] # create(b)}

All(m, n) ==
  LET ops == {create(a), create(b), join(a), join(b), yield} IN
  {P \in {(Main :> x) @@ (a :> y) @@ (b :> z) @@ [t \in Tasks |-> <<>>] :
            x \in Mains(m, ops),
            y \in Bodies(n, {create(b), join(b), yield}),
            z \in Bodies(n, {join(a), yield})} : WellFormed(P)}

(* Up to 4 operations of main and 2 of each task, or 3 and 1.              *)
AnyProgram == All(4, 2)
SmallProgram == All(3, 1)

(* Tasks that run to completion: main creates all of Tasks but possibly    *)
(* the last, which the first one creates then, yields, and goes on working *)
(* or exits.                                                               *)
CreateAll == [i \in 1 .. Cardinality(Tasks) |-> create(SetToSeq(Tasks)[i])]
RunToEndProgram ==
  LET n == Cardinality(Tasks)
      last == <<CreateAll[n]>>
      bodies(s) == [t \in Tasks |-> IF t = CreateAll[1].task THEN s ELSE <<>>]
  IN {(Main :> (Front(CreateAll) \o x \o <<yield>> \o y)) @@ bodies(IF x = <<>> THEN last ELSE <<>>) :
        x \in {<<>>, last}, y \in {<<>>, <<work>>}}

(* Main waits for a, and then for a task that it creates only after that:  *)
(* processor 0 may still be about to resume it from its first wait.        *)
LateJoinProgram ==
  LET c == CHOOSE t \in Tasks : t \notin {a, b} IN
  {(Main :> <<create(a), create(b), join(a), create(c), join(c)>>) @@ [t \in Tasks |-> <<>>]}

AnyOrMore == AnyProgram \cup RunToEndProgram \cup LateJoinProgram
=============================================================================
