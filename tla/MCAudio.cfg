SPECIFICATION Spec
CONSTANTS
  NIn = 4
  NDec = 2
  InSize = 3
  WBSize = 7
  MinLen = 0
  Frame = 2
  MaxNoData = 2
  FlashChunks = 5
  NetChunks = 3
  SemCap = 3
  Requests = 2
  BadFrames = 2
  InTime = TRUE
  Calm = TRUE
INVARIANTS TypeOK BufferOwnership InOrder SpeakerIdle
PROPERTIES FlashMusicEnds HalvesInStep ImplementsMusic
CHECK_DEADLOCK FALSE
