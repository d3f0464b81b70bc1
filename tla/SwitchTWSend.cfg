SPECIFICATION Spec
CONSTANTS
  here = here
  east = east
  north = north
  west = west
  unset = unset
  WordSize = 65536
  RoundsDown <- Exact
  Capacity = 16
  CBS = 16
  EBS = 16
  AvgUnit = 4
  Gain = 2
  HalfLife = 4
  Mtu = 1
  MaxRecords = 2
  Self <- here
  NumPorts = 1
  Ticks <- OneSpeed
  PropagationDelay = 5
  QueueCapacity <- EvenCapacities
  Routing <- OnePort
  Unset <- unset
  Offers <- Mixed
  ArrivalTimes <- FewTimes
  MaxArrivals = 4
  MaxCancels = 1
PROPERTIES
  SendReverseRestoresDroppers
CHECK_DEADLOCK FALSE
