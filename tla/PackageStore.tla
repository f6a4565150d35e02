---------------------------- MODULE PackageStore ----------------------------
(* What state.h promises: a path names one package for good, and a variable *)
(* of a package keeps the value it was last set to.                        *)
EXTENDS Integers

CONSTANTS Paths, Pkgs, Members, Values, None

VARIABLES bound,   \* the package of every path that has one
          store,   \* the value of every variable <<package, name>>
          ret,     \* what the last call returned
          kept     \* FALSE once the program broke the order of calls or stopped

storeVars == <<bound, store, ret, kept>>

Agree(f, g) == \A x \in DOMAIN f : x \in DOMAIN g /\ g[x] = f[x]

Init == bound = <<>> /\ store = <<>> /\ ret = <<"other", None, 0>> /\ kept = TRUE

(* A package, and its variables, become known under a path without one.    *)
Bind(path, p) ==
  /\ path \notin DOMAIN bound
  /\ DOMAIN bound' = DOMAIN bound \cup {path} /\ bound'[path] = p /\ Agree(bound, bound')
  /\ Agree(store, store')
  /\ \A v \in DOMAIN store' \ DOMAIN store : v[1] = p /\ store'[v] = None
  /\ ret' \in {<<"add", path, 0>>, <<"path", path, p>>}

(* What a call answers without changing anything: the package of a path,   *)
(* the value of a variable, -1 for a path that is taken.                   *)
Ask ==
  /\ UNCHANGED <<bound, store>>
  /\ \/ \E path \in DOMAIN bound : ret' \in {<<"path", path, bound[path]>>, <<"add", path, -1>>}
     \/ \E path \in Paths \ DOMAIN bound : ret' \in {<<"path", path, None>>, <<"add", path, -1>>}
     \/ \E v \in DOMAIN store : ret' = <<"get", v, store[v]>>
     \/ ret' = <<"other", None, 0>>

Put(v, x) ==
  /\ v \in DOMAIN store
  /\ store' = [store EXCEPT ![v] = x] /\ ret' = <<"set", v, 0>>
  /\ UNCHANGED bound

Next == \/ /\ kept /\ kept' = TRUE
           /\ \/ \E path \in Paths, p \in Pkgs : Bind(path, p)
              \/ \E v \in Pkgs \X Members, x \in Values : Put(v, x)
              \/ Ask
        \/ kept' = FALSE

Spec == Init /\ [][Next]_storeVars
=============================================================================
