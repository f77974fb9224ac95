SPECIFICATION TimerSpec
CONSTANTS
  MaxGap = 3
  MaxTimeout = 4
INVARIANTS NotEarly
