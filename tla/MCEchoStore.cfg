SPECIFICATION Spec
CONSTANTS
  a = a
  b = b
  Clnt = {a, b}
  BUF_SIZE = 2
  SAVES = 2
  PipeCap = 2
  MaxSent <- MCMaxSent
  None = None
INVARIANTS
  TypeOK
  StoredInOrder
  DiskAllOrNothing
  EofAfterEcho
  ZombiesAreMergedSignals
PROPERTIES
  QuitEnds
CHECK_DEADLOCK FALSE
