SPECIFICATION Spec
CONSTANTS
  None = None
  PlantConns = {1}
  ClientConns = {2}
  Views = {}
  MaxPending = 2
PROPERTIES SendEnds
CHECK_DEADLOCK FALSE
