SPECIFICATION Spec
CONSTANTS
  BUFFER_LENGTH = 2
  Ports = {p1, p2}
  Outside = Outside
  MaxPackets = 3
  MaxSwitches = 0
  Assumed = {"memory", "sockets"}
INVARIANT RxNoOverrun
