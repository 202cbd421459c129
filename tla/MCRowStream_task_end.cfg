SPECIFICATION LiveSpec
CONSTANTS
  MaxChunks = 3
  MaxOperations = 1
PROPERTIES
  CancelEndsTask
