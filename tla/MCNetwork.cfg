SPECIFICATION FairSpec
CONSTANTS
  total_switches = 3
  total_terminals = 1
  g_tw_nkp = 2
  NodeCounts = {2, 3}
  Traces <- SomeTraces
  EndTimes = {40, 1000}
  Unread = unread
  Unset = unset
  None = none
  Seconds = {0, 1}
  Plan <- Line
  WordSize = 65536
  RoundsDown <- Exact
  Capacity = 16
  CBS = 24
  EBS = 8
  AvgUnit = 4
  Gain = 2
  HalfLife = 4
  Mtu = 1
  MaxRecords = 2
  PropagationDelay = 5
  QueueCapacity <- Capacities
INVARIANTS
  LPsAreFound
  ConfigIsRight
  SendsWhatIsDue
  NothingLost
  FlowOrder
  DelayIsPhysical
  ReportAddsUp
  OneReport
PROPERTIES
  ImplementsDelivery
  Terminates
CHECK_DEADLOCK FALSE
