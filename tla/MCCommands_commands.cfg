SPECIFICATION CommandsSpec
CONSTANTS
  Command = {p1, p2}
  Run = {A}
  StageOrder <- MCStages
  Producers <- MCProducers
  ShardOrder <- MCDefault
  Forces = {TRUE, FALSE}
  MaxCommands = 4
  MaxAttempts = 3
  MaxFaults = 1
  None = None
  r1 = r1
  r2 = r2
  c1 = c1
  Tools = {t1, t2}
  Versions <- MCVersions
  Ids <- MCIds
  Snapshot <- MCSnapshot
  AgeEnabled = TRUE
  Options <- MCOptions
  Nil = Nil
  MaxStoreCommands = 4
  MaxStoreFaults = 1
INVARIANTS
  IndexSound
  PruneSpares
  CatalogSound
  LoadReconciles
PROPERTIES
  NothingForgotten
  SwitchesTogether
SYMMETRY CommandSymmetry
CHECK_DEADLOCK FALSE
