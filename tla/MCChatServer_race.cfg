SPECIFICATION Spec
CONSTANTS
  Conn = {c1, c2}
  MaxFd = 5
  MAX_CLNT = 2
  MaxThreads = 2
  MaxSent = 1
  Stallable = {}
  NoConn = NoConn
  NoThread = NoThread
SYMMETRY Connections
INVARIANTS
  ServedByOwnThread
CHECK_DEADLOCK FALSE
