SPECIFICATION Spec
CONSTANTS
  N = 2
  Tasks = {a, b}
  a = a
  b = b
  None = None
  Programs <- SmallProgram
INVARIANTS ResumedWhenSaved
