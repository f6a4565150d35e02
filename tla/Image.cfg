SPECIFICATION Spec
CONSTANTS
  None = None
  Decls <- MCDecls
  Public <- MCPublic
  OperandLimit = 4
  MaxDecls = 3
INVARIANTS
  Consistent
  RoundTrips
  FaultsExplained
