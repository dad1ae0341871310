SPECIFICATION RecordsSpec
CONSTANTS
  Asked = {"ledger", "pointer"}
  Executor = {w1, w2}
  ShardId = {1, 2, 3, 4}
  Verdicts = {"succeeded", "blocked"}
  Forces = {TRUE, FALSE}
  TTL = 2
  Durable = TRUE
  MaxTime = 2
  MaxExecutions = 2
  MaxFaults = 1
  MaxInvalidations = 1
  Key = {"a", "b"}
  Slot = {"x"}
  Upstream <- MCUpstream
  Owned <- MCOwned
  None = None
  Attempts = {1, 2, 3}
  RootKinds = {rows, quarantine}
  Names = {stage, quality}
  Manifest = manifest
  RunId = {r1, r2}
  StageCount = 2
  Unwritten = Unwritten
  MaxCalls = 4
  MaxFailures = 1
  MaxDamage = 1
INVARIANTS
  TypeOK
  LeaseExclusive
  AttemptUnique
  SettledWhole
  FilesAppearWhole
  PointerSound
PROPERTIES
  AcceptedUnderLease
  ActivatesEvidence
  ActivatesAtOnce
SYMMETRY MCSymmetry
CHECK_DEADLOCK FALSE
