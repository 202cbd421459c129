CONSTANTS
  Statements = {s1}
  Conn = conn
  Calls = {"dml", "ddl"}
  MaxBatch = 1
  MaxWork = 1
  MaxSnapshots = 0
SPECIFICATION Spec
INVARIANTS
  ManualDdlBuffers
