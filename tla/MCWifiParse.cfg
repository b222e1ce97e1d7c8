SPECIFICATION LinkSpec
CONSTANTS
  Threads = {"S", "X", "W", "A"}
  None = None
  NoDataLimit = 1
  MaxSent = 5
INVARIANTS ParsesOwn
CHECK_DEADLOCK FALSE
