SPECIFICATION Spec
CONSTANTS
  x = x
  y = y
  int = int
  str = str
  null = null
  Names = {x, y}
  Types = {int, str}
  None = null
  Stmts <- MCStmts
  Headers <- MCHeaders
  Modules <- MCModules
  MaxErrors = 1
  MaxStmts = 6
  MaxDepth = 4
INVARIANTS
  Consistent
  CodeFaithful
PROPERTY
  ImplementsScoping
CHECK_DEADLOCK FALSE
