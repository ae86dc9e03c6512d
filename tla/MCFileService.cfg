SPECIFICATION Spec
CONSTANTS
  c1 = c1
  c2 = c2
  Clnt = {c1, c2}
  Size <- MCSize
  BUF_SIZE = 2
  NoFile = NoFile
  None = None
INVARIANTS
  TypeOK
  SmallFilesWhole
PROPERTIES
  
  BacklogServed
CHECK_DEADLOCK FALSE
