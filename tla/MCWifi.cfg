SPECIFICATION LinkSpec
CONSTANTS
  Threads = {"S", "X", "W", "A"}
  None = None
  NoDataLimit = 1
  MaxSent = 5
INVARIANTS LinkTypeOK Exclusive InStep ChannelIdOwn
PROPERTIES ShutForGood  ImplementsService
CHECK_DEADLOCK FALSE
