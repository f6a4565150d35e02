\* Two packages under three paths, two of which are prefixes of others.
SPECIFICATION Spec
CONSTANTS
  a = a
  b = b
  x = x
  y = y
  Names = {a, b}
  Paths <- MCPaths
  Images <- MCImages
  Pkgs = {p1, p2}
  Members = {x, y}
  Values = {v1}
  MaxMembers = 2
  None = None
INVARIANTS Consistent FaultsExplained
PROPERTY ImplementsStore
