SPECIFICATION ProgramsSpec
CONSTANTS
  NUM_THREAD = 2
  STEPS = 2
  c1 = c1
  c2 = c2
  Clnt = {c1, c2}
  MaxReq = 2
  MaxFd = 2
  MaxServed = 2
  Connected = {c2}
  MaxLines = 2
  MaxExtra = 1
  Server = Server
  Stranger = Stranger
  BUF_SIZE = 4
  MaxText = 3
  MaxTyped = 3
  MaxName = 3
  None = None
INVARIANTS
  OnlyNewText
CHECK_DEADLOCK FALSE
