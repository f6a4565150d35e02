---------------------------- MODULE MCHashTable ----------------------------
(***************************************************************************)
(* Five nodes, two of them with the same key.  The hash values collide in  *)
(* two buckets and part in four and in five, so that chains have up to     *)
(* three nodes, growth splits them, and the last prime fills up.           *)
(***************************************************************************)
EXTENDS HashTable

CONSTANTS n1, n2, n3, n4, n5

MCKeyOf == (n1 :> "a") @@ (n2 :> "a") @@ (n3 :> "b") @@ (n4 :> "c") @@ (n5 :> "d")

MCHashOf == [k \in {"a", "b", "c", "d"} |->
               CASE k = "a" -> 0 [] k = "b" -> 2 [] k = "c" -> 4 [] k = "d" -> 7]

MCPrimes == <<2, 4, 5>>
=============================================================================
