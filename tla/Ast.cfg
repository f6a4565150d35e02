SPECIFICATION Spec
CONSTANTS
  Declarations <- MCDeclarations
  MaxErrors = 1
  ImportErrors = {0, 2}
  MaxDecls = 2
INVARIANTS Consistent NothingLost TypesCounted
CHECK_DEADLOCK FALSE
