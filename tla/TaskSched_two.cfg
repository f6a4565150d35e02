\* Two processors: any program of two tasks, five tasks that run to completion, and
\* a main program that joins twice.
SPECIFICATION FairSpec
CONSTANTS
  N = 2
  Tasks = {a, b, t3, t4, t5}
  a = a
  b = b
  None = None
  Programs <- AnyOrMore
INVARIANTS Consistent NobodyForgotten FaultsExplained
PROPERTIES ImplementsPool TasksRun
