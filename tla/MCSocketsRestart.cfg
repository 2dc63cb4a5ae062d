SPECIFICATION Spec
CONSTANTS
  Threads = {main, t1}
  Pollers = {t1}
  Applications <- MCRestarted
  LastFd = 2
  Inherited = {}
  MAX_EPOLL_FDS = 2
  MAX_UDP_PORTS = 6
  PORT_MIN = 30
  PORT_MAX = 35
  LAST_MAPPED = 35
  TxLength = 2
  Ports = {31}
  MaxEvents = 2
  MaxSockets = 1
  MaxDatagrams = 2
  MaxOthers = 2
  MaxRepeats = 2
  None = None
INVARIANTS
  InitCloses
CHECK_DEADLOCK FALSE
