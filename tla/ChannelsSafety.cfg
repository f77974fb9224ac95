SPECIFICATION Spec
CONSTANTS
  MaxChans = 2
  MaxPackets = 3
  MaxKeys = 2
  MaxQueue = 2
  Handlers = {"none", "drain", "relay"}
  OldSessions = FALSE
INVARIANTS FindsChannel OpenOnce
CHECK_DEADLOCK FALSE
