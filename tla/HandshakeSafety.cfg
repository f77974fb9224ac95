\* Every network and clock behaviour.
SPECIFICATION Spec
CONSTANTS
  MaxClock = 2
  MaxInbox = 2
  MaxResyncs = 1
  MaxDowns = 1
  MaxForgets = 1
  Reordering = TRUE
  ClockBehind = TRUE
  DownResync = FALSE
INVARIANTS TypeOK AtProvenance EventsMatchState UpHasSession
