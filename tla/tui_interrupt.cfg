SPECIFICATION FairSpec
CONSTANTS
  Length = 1
  MaxKeys = 2
  MaxFaults = 0
CHECK_DEADLOCK FALSE
PROPERTIES PauseHolds
