SPECIFICATION RecordsSpec
CONSTANTS
  Asked = {"ledger"}
  Executor = {w1, w2}
  ShardId = {1, 2}
  Verdicts = {"succeeded"}
  Forces = {FALSE}
  TTL = 1
  Durable = TRUE
  MaxTime = 0
  MaxExecutions = 1
  MaxFaults = 0
  MaxInvalidations = 1
  Key = {"a"}
  Slot = {"x"}
  Upstream <- MCUpstream
  Owned <- MCOwned
  None = None
  Attempts = {1, 2, 3}
  RootKinds = {rows, quarantine}
  Names = {stage, quality}
  Manifest = manifest
  RunId = {r1, r2}
  StageCount = 2
  Unwritten = Unwritten
  MaxCalls = 4
  MaxFailures = 1
  MaxDamage = 1
PROPERTIES
  StaleIsFinal
SYMMETRY MCSymmetry
CHECK_DEADLOCK FALSE
