CONSTANTS
  MaxChunks = 4
  MaxOperations = 2
  Callers = {c1, c2}
  MaxSignals = 5
  Bindings <- TheBindings
  ResultSets <- TheResultSets
  BatchSize = 2
  Budget = 3
  MaxWrites = 2
  Versions <- TheVersions
  Filters <- TheFilters
  Concurrency = 2
  MaxFaults = 1
  Values <- TheValues
  MaxSets = 2
  MaxBuffer = 3
SPECIFICATION MCSpec
INVARIANTS
  InOrder
  NoStrayCancel
  CutShortOnlyInCancelRace
  BoundAnswers
  StatisticsExact
  BufferContract
PROPERTIES
  CancelNotMasked
  CancelReaches
  DropEndsTask
  NextReturns
  CallsEnd
