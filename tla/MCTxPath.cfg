SPECIFICATION FairSpec
CONSTANTS
  BUFFER_LENGTH = 2
  Senders = {s1}
  MaxPackets = 6
  Skbs <- MCSkbs
  None = None
INVARIANT TypeOK
INVARIANT NoOverrun
INVARIANT FreshDescriptor
INVARIANT TxFifo
PROPERTY CopyAvoidsLive
PROPERTY Streamed
