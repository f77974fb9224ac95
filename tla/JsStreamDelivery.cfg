SPECIFICATION FairSpec
CONSTANTS
  Kinds = {"frames", "chunks", "serial"}
  FrameSize = 3
  MaxSent = 4
INVARIANTS OneWrite NeverIdle
PROPERTIES InOrder Delivers
CHECK_DEADLOCK FALSE
