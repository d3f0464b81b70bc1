SPECIFICATION Spec
CONSTANTS
  WordSize = 64
  RoundsDown <- Lossy
  Capacity = 18
  Sizes = {1, 2}
  Ticks = 3
  EndTime = 34
INVARIANT
  WaitIsPositive
CHECK_DEADLOCK FALSE
