CONSTANTS
  Statements = {s1, s2}
  Conn = conn
  Calls = {"dml", "returning", "partitioned", "query", "ingest", "ddl"}
  MaxBatch = 1
  MaxWork = 1
  MaxSnapshots = 3
SYMMETRY Symmetry
SPECIFICATION Spec
INVARIANTS
  OneSnapshotPerTransaction
PROPERTIES
  KindFixed
