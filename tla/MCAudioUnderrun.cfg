SPECIFICATION Spec
CONSTANTS
  NIn = 4
  NDec = 2
  InSize = 3
  WBSize = 7
  MinLen = 0
  Frame = 2
  MaxNoData = 2
  FlashChunks = 5
  NetChunks = 4
  SemCap = 3
  Requests = 2
  BadFrames = 0
  InTime = TRUE
  Calm = TRUE
PROPERTIES I2SSpaceComes
CHECK_DEADLOCK FALSE
