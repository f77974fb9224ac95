SPECIFICATION FairStartSpec
CONSTANTS
  Transport = {t1, t2}
  MaxRuns = 3
INVARIANTS KeepsIdentity Stoppable
PROPERTIES StartsUp
CHECK_DEADLOCK FALSE
