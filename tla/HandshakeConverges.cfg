\* Ordered but lossy and duplicating network, clocks that move on.
SPECIFICATION FairSpec
CONSTANTS
  MaxClock = 2
  MaxInbox = 2
  MaxResyncs = 1
  MaxDowns = 2
  MaxForgets = 1
  Reordering = FALSE
  ClockBehind = FALSE
  DownResync = FALSE
PROPERTY Converges
