SPECIFICATION Spec
CONSTANTS
  Conn = {c1, c2, c3}
  MaxFd = 5
  MAX_CLNT = 3
  MaxThreads = 3
  MaxSent = 0
  Stallable = {}
  NoConn = NoConn
  NoThread = NoThread
SYMMETRY Connections
INVARIANTS
  CountMatches
  TableExactUntilDeparture
CHECK_DEADLOCK FALSE
