SPECIFICATION Spec
CONSTANTS
  Clnt = {c1, c2}
  MaxName = 3
  None = None
INVARIANTS
  OneCopyEach
CHECK_DEADLOCK FALSE
