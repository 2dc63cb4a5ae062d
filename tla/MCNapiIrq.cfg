SPECIFICATION FairSpec
CONSTANTS
  NumPorts = 2
  RingSize = 2
  Budget = 2
  MaxPushes = 6
  MaxFailures = 1
  MaxOpens = 1
  EarlyTraffic = FALSE
INVARIANT TypeOK
INVARIANT OneOwner
INVARIANT NoLostWakeup
PROPERTY RxServed
PROPERTY GieRestored
CHECK_DEADLOCK FALSE
