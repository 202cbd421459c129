SPECIFICATION Spec
CONSTANTS
  MaxChunks = 2
  MaxOperations = 1
INVARIANTS
  CleanEndIsComplete
