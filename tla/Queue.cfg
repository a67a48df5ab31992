\* Two getters, three bodies, spurious wake-ups allowed.
SPECIFICATION Spec
CONSTANTS
  Getters = {g1, g2}
  Spurious = TRUE
  MaxPush = 3
INVARIANTS TypeOK Delivered SleepOnlyWhenEmpty
PROPERTY TimedGetReturns
CHECK_DEADLOCK FALSE
