SPECIFICATION FairMachines
CONSTANTS
  Asked = {"log", "setup", "client", "stage", "ledger"}
  Producer = {p1, p2}
  QueueSize = 2
  MaxRecords = 4
  MaxLock = 2
  MaxModels = 2
  MaxPolls = 2
  MaxAttempts = 3
  MaxTries = 3
  MaxRepairs = 2
  MaxLines = 2
  CountInterval = 2
  MaxProcessed = 3
  MaxBeats = 1
  MaxSinkFaults = 1
  Executor = {w1, w2}
  ShardId = {1, 2, 3}
  Key = {"a", "b"}
  Slot = {"x"}
  Upstream <- MCUpstream
  Owned <- MCOwned
  Verdicts = {"succeeded"}
  Forces = {FALSE}
  TTL = 1
  Durable = FALSE
  MaxTime = 0
  MaxExecutions = 2
  MaxFaults = 1
  MaxInvalidations = 1
  None = None
INVARIANTS
  SetupSound
PROPERTIES
  LogEnds
  ClientSound
  SessionTold
  StaleIsFinal
  PublishedImmutable
  CallsEnd
CHECK_DEADLOCK FALSE
