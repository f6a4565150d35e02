SPECIFICATION FairSpec
CONSTANTS
  N = 1
  Tasks = {a, b}
  a = a
  b = b
  None = None
  Programs <- AnyProgram
INVARIANTS FaultsExplained
PROPERTY Completion
