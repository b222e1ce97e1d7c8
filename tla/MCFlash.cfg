SPECIFICATION Spec
CONSTANTS
  Sectors = 2
  Sizes <- MCSizes
  flashSectorBegin <- MCSectorBegin
  Bits = {b1}
  Buffers <- MCBuffers
  MaxCalls = 2
INVARIANTS TypeOK WriteExact EraseOnly EraseWhole
CHECK_DEADLOCK FALSE
