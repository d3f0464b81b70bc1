SPECIFICATION Spec
CONSTANTS
  here = here
  east = east
  north = north
  west = west
  unset = unset
  WordSize = 65536
  RoundsDown <- Exact
  Capacity = 16
  CBS = 24
  EBS = 8
  AvgUnit = 4
  Gain = 2
  HalfLife = 4
  Mtu = 1
  MaxRecords = 2
  Self <- here
  NumPorts = 1
  Ticks <- OneSpeed
  PropagationDelay = 5
  QueueCapacity <- EvenCapacities
  Routing <- OnePort
  Unset <- unset
  Offers <- Mixed
  ArrivalTimes <- FewTimes
  MaxArrivals = 5
INVARIANTS
  SendDelayPositive
CHECK_DEADLOCK FALSE
