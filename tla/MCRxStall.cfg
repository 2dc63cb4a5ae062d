SPECIFICATION Spec
CONSTANTS
  BUFFER_LENGTH = 2
  Ports = {p1, p2}
  Outside = Outside
  MaxPackets = 2
  MaxSwitches = 0
  Assumed = {"peers", "sockets"}
INVARIANT RxIntegrity
