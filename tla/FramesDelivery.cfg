SPECIFICATION FairFrameSpec
CONSTANTS
  HeaderLen = 2
  MaxLen = 8
  Lens = {4, 8}
  MaxPackets = 4
  MaxBytes = 12
  MaxWire = 2
  MaxLosses = 1
  Modes = {"stream", "datagram"}
  CutHeaders = FALSE
INVARIANTS NoDangling InOrder LossIsBounded
PROPERTIES Delivers
CHECK_DEADLOCK FALSE
