SPECIFICATION FairSpec
CONSTANTS
  Conn = {c1, c2}
  MaxFd = 5
  MAX_CLNT = 2
  MaxThreads = 2
  MaxSent = 2
  Stallable = {c1}
  NoConn = NoConn
  NoThread = NoThread
INVARIANTS
  TypeOK
  SameOrder
  BroadcastCovers
  RelayedOnce
PROPERTIES
  ImplementsRoom
  TableStable
  LockReleased
CHECK_DEADLOCK FALSE
