CONSTANTS
  Threads = {t1, t2}
  Handles = {"database", "connection", "statement"}
  MaxBatches = 1
  Codes <- SomeCodes
  NoCode = NoCode
SYMMETRY ThreadSymmetry
SPECIFICATION MCSpec
INVARIANTS
  ObjectsOutliveCalls
  PoisonedRunsNothing
  CancelAlwaysPossible
  TransfersBalanced
  ErrorsIntact
PROPERTIES
  TransfersAtomic
