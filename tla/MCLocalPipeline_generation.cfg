SPECIFICATION Spec
CONSTANTS
  Command = {c1}
  Run = {A, B}
  StageOrder <- MCStages
  Producers <- MCProducers
  ShardOrder <- MCDefault
  Forces = {TRUE, FALSE}
  MaxCommands = 5
  MaxAttempts = 2
  MaxFaults = 0
  None = None
INVARIANTS
  PruneSparesActive
SYMMETRY MCSymmetry
CHECK_DEADLOCK FALSE
