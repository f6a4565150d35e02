\* Counting is exact but for what the grammar wrongly releases; lists of up to
\* two types are read as they were written.
SPECIFICATION Spec
CONSTANTS
  BaseTypes <- MCBaseTypes
  Types <- MCTypes
  Users = {u1, u2}
  MaxCells = 7
  Stacks <- MCStacks
  MaxStolen = 2
  MaxLeaked = 1
  None = None
SYMMETRY UserSymmetry
INVARIANTS Counted InternedOnce FiniClean TextFaithful
