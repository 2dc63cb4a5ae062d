SPECIFICATION Spec
CONSTANTS
  BUFFER_LENGTH = 2
  Senders = {s1, s2}
  MaxPackets = 2
  Skbs <- MCSkbs
  None = None
INVARIANT NoOverrun
