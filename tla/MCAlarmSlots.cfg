SPECIFICATION Spec
CONSTANTS
  MaxCommands = 5
  Batches <- MCBatches
  Requests = 4
  MaxRuns = 4
INVARIANTS AlarmHoldsCommands
CHECK_DEADLOCK FALSE
