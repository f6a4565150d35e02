\* Every call answers as an insertion-ordered map; pointers agree throughout.
SPECIFICATION Spec
CONSTANTS
  n1 = n1
  n2 = n2
  n3 = n3
  n4 = n4
  n5 = n5
  Nodes = {n1, n2, n3, n4, n5}
  KeyOf <- MCKeyOf
  HashOf <- MCHashOf
  Primes <- MCPrimes
  LoadNum = 13
  LoadDen = 20
  MaxCount = 5
  ListHead = ListHead
  Null = Null
INVARIANT Consistent
PROPERTIES AllVisited ImplementsMap
