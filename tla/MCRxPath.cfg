SPECIFICATION FairSpec
CONSTANTS
  BUFFER_LENGTH = 2
  Ports = {p1, p2}
  Outside = Outside
  MaxPackets = 3
  MaxSwitches = 1
  Assumed = {"memory", "peers", "sockets"}
INVARIANT TypeOK
INVARIANT RxIntegrity
INVARIANT RxFifo
INVARIANT RxNoOverrun
PROPERTY RxDelivered
