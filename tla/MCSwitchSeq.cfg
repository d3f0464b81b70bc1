SPECIFICATION FairSpec
CONSTANTS
  here = here
  east = east
  north = north
  west = west
  unset = unset
  WordSize = 65536
  RoundsDown <- Exact
  Capacity = 16
  CBS = 24
  EBS = 8
  AvgUnit = 4
  Gain = 2
  HalfLife = 4
  Mtu = 1
  MaxRecords = 2
  Self <- here
  NumPorts = 2
  Ticks <- TwoSpeeds
  PropagationDelay = 5
  QueueCapacity <- Capacities
  Routing <- TwoPorts
  Unset <- unset
  Offers <- Uniform
  ArrivalTimes <- SomeTimes
  MaxArrivals = 6
INVARIANTS
  TypeOK
  PortProtocol
  SendDelayPositive
  Conservation
  OneAtATime
  InOrder
  NeverLate
PROPERTY
  Drains
CHECK_DEADLOCK FALSE
