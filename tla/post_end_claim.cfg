SPECIFICATION FairSpec
CONSTANTS
  A = A
  B = B
  Clients = {A, B}
  Word = 64
  Scripts <- PostThenGet
PROPERTY CommandsEnd
CHECK_DEADLOCK FALSE
