SPECIFICATION Spec
CONSTANTS
  c1 = c1
  c2 = c2
  c3 = c3
  Conn = {c1, c2, c3}
  MaxFd = 5
  BUF_SIZE = 1
  MaxSent <- MCMaxSent
  Stallable = {c1}
  NoConn = NoConn
INVARIANTS
  TypeOK
  ScanNeverBlocks
  WatchedAreOpen
PROPERTIES
  ClosedAfterEcho
  EverybodyServed
CHECK_DEADLOCK FALSE
