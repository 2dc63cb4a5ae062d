SPECIFICATION FairSpec
CONSTANTS
  NumPorts = 2
  RingSize = 2
  Budget = 2
  MaxPushes = 1
  MaxFailures = 0
  MaxOpens = 1
  EarlyTraffic = TRUE
PROPERTY GieRestored
CHECK_DEADLOCK FALSE
