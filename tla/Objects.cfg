\* Class hierarchies, members, objects and tuples, in any order.
SPECIFICATION Spec
CONSTANTS
  A = A
  B = B
  C = C
  D = D
  Klasses <- ABCD
  Names = {x, y}
  MaxCells = 3
  MaxMade = 10
  Any_Klass = Any_Klass
  Tuple = Tuple
  Value = Value
  None = None
INVARIANTS Consistent ImplementationFound RefsCounted CrashesExplained
PROPERTY ImplementsStore
CHECK_DEADLOCK FALSE
