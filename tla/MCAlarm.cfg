SPECIFICATION Spec
CONSTANTS
  MaxCommands = 5
  Batches <- MCBatches
  Requests = 4
  MaxRuns = 4
INVARIANTS TypeOK HeldIfApart AlarmDone
PROPERTIES AlarmEnds
CHECK_DEADLOCK FALSE
