SPECIFICATION Spec
CONSTANTS
  WordSize = 64
  RoundsDown <- Exact
  CBS = 17
  EBS = 9
  Sizes = {1, 2}
  Ticks = 2
  EndTime = 24
INVARIANTS
  TypeOK
  GreenConforms
  MarkedConforms
PROPERTY
  ImplementsSrTCM
CHECK_DEADLOCK FALSE
