SPECIFICATION Spec
CONSTANTS
  WordSize = 64
  RoundsDown <- Exact
  Capacity = 18
  Sizes = {1, 2}
  Ticks = 3
  EndTime = 34
INVARIANTS
  TypeOK
  Conforms
  WaitIsExact
CHECK_DEADLOCK FALSE
