SPECIFICATION FairSpec
CONSTANTS
  A = A
  B = B
  Clients = {A, B}
  Word = 64
  Scripts <- Sessions
INVARIANTS
  TypeOK
  PostedIsPrefix
  GotIsPrefix
  RequestEndsWhenIdle
  NeverGarbled
  AnswerIsPrinted
PROPERTY
  CommandsEnd
CHECK_DEADLOCK FALSE
