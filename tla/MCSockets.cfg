SPECIFICATION FairSpec
CONSTANTS
  Threads = {main, t1}
  Pollers = {t1}
  Applications <- MCApplications
  LastFd = 3
  Inherited = {}
  MAX_EPOLL_FDS = 2
  MAX_UDP_PORTS = 6
  PORT_MIN = 30
  PORT_MAX = 35
  LAST_MAPPED = 35
  TxLength = 2
  Ports <- MCPorts
  MaxEvents = 2
  MaxSockets = 2
  MaxDatagrams = 2
  MaxOthers = 2
  MaxRepeats = 2
  None = None
INVARIANTS
  TypeOK
  Bookkept
  NoStaleEntry
  StatusKept
  PoppedOnce
  InOrderOnce
PROPERTIES
  RecvReturns
  SendReturns
  EpollWakes
CHECK_DEADLOCK FALSE
