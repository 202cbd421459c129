CONSTANTS
  Statements = {s1, s2}
  Conn = conn
  Calls = {"dml", "ingest", "readonly"}
  MaxBatch = 2
  MaxWork = 2
  MaxSnapshots = 0
SYMMETRY Symmetry
SPECIFICATION Spec
INVARIANTS
  NoLostWork
  TwiceOnlyIfAmbiguous
  RolledBackStaysOut
  NoCommitWhileReadOnly
PROPERTIES
  ImplementsLedger
