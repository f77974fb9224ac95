SPECIFICATION FairSpec
CONSTANTS
  Out = {a}
  In = {b}
  Slots = {1, 2}
  MaxSent = 1
  Eager = FALSE
INVARIANTS SafeSend
PROPERTIES InOrder Delivers
CHECK_DEADLOCK FALSE
