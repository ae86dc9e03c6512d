SPECIFICATION Spec
CONSTANTS
  c1 = c1
  c2 = c2
  c3 = c3
  Clnt = {c1, c2, c3}
  Answers <- MCAnswers
  GroupDigits <- MCGroupDigits
  File = "large"
  MaxLines = 1
  None = None
INVARIANTS
  TypeOK
  ServedIsAnswered
  AnswerFitsLine
PROPERTIES
  ConnectedServed
CHECK_DEADLOCK FALSE
