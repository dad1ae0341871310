SPECIFICATION Spec
CONSTANTS
  Command = {c1}
  Run = {A}
  StageOrder <- MCStages
  Producers <- MCProducers
  ShardOrder <- MCShards
  Forces = {FALSE}
  MaxCommands = 2
  MaxAttempts = 1
  MaxFaults = 0
  None = None
PROPERTIES
  ResumeContinues
SYMMETRY MCSymmetry
CHECK_DEADLOCK FALSE
