CONSTANTS
  BoundData <- Shapes
  Modes = {"append", "create", "create_append", "replace"}
  MutationLimit = 6
  ByteBudget = 6
  U64Max = 12
  ServerLimit = 4
  IndexEntries = 1
  MaxDisturb = 1
SPECIFICATION Spec
INVARIANTS
  ReportIsExact
  ChunksCutRight
  BisectionEnds
  TargetSafe
