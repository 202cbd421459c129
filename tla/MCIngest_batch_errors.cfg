CONSTANTS
  BoundData <- TwoChunks
  Modes = {"append", "create", "create_append", "replace"}
  MutationLimit = 4
  ByteBudget = 6
  U64Max = 12
  ServerLimit = 4
  IndexEntries = 1
  MaxDisturb = 0
SPECIFICATION Spec
INVARIANTS
  BatchErrorsAnnotated
