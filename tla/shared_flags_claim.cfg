SPECIFICATION Spec
CONSTANTS
  A = A
  B = B
  Clients = {A, B}
  Word = 64
  Scripts <- TwoClients
INVARIANT RequestEndsWhenIdle
CHECK_DEADLOCK FALSE
