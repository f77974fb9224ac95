SPECIFICATION FairSpec
CONSTANTS
  Cap = 3
  Lens = {3, 5}
  MaxPackets = 2
  MaxWire = 6
  Blocking = TRUE
  Frames = {2}
  Serial = {}
  ShortWrites = TRUE
  SerialShort = FALSE
  LastByteAlone = FALSE
INVARIANTS WriteInBounds FramingInSync
PROPERTIES DeliversPackets ComesToRest
CHECK_DEADLOCK FALSE
