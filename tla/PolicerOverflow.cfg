SPECIFICATION Spec
CONSTANTS
  WordSize = 32
  RoundsDown <- Exact
  CBS = 17
  EBS = 9
  Sizes = {1, 2}
  Ticks = 1
  EndTime = 60
INVARIANT
  AddsTokens
CHECK_DEADLOCK FALSE
