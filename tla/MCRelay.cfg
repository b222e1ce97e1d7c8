SPECIFICATION Spec
CONSTANTS
  None = None
  PlantConns = {1, 2}
  ClientConns = {3}
  Views = {v1}
  MaxPending = 2
INVARIANTS TypeOK   
 
CHECK_DEADLOCK FALSE
