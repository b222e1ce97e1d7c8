SPECIFICATION Spec
CONSTANTS
  ChannelsNb <- TwoChips
  MaxCommands = 4
  Lists <- MCLists
  Adds = 2
  Errors = 1
INVARIANTS TypeOK NoInterruptLost RunsList PlainKept
 
CHECK_DEADLOCK FALSE
