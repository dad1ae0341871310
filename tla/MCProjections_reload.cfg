SPECIFICATION ProjectionsSpec
CONSTANTS
  r1 = r1
  r2 = r2
  c1 = c1
  Tools = {t1}
  Versions <- MCVersions
  Ids <- MCIds
  Snapshot <- MCSnapshot
  AgeEnabled = TRUE
  Options <- MCNoOptions
  Nil = Nil
  MaxStoreCommands = 4
  MaxStoreFaults = 1
INVARIANT InterruptedLoadsResume
CHECK_DEADLOCK FALSE
