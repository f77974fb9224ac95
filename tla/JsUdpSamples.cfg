SPECIFICATION FairSpec
CONSTANTS
  MaxRuns = 1
  MaxServers = 2
  MaxLines = 2
  MaxClock = 1
  MaxNet = 2
INVARIANT PrintedInOrder
PROPERTIES Establishes LineArrives
CHECK_DEADLOCK FALSE
