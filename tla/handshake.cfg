SPECIFICATION Spec
CONSTANTS
  Client = C
  Server = S
  MSS = 1
  Span = 1
  MaxCwnd = 43
  MaxTimeout = 1
  Window <- BothTwo
  MessageSizes = {2}
  WriteBudget <- ClientOnly2
  MaxFins = 1
  MaxLives = 1
  MaxInFlight = 2
  Closers = {C}
  Duplicates = FALSE
INVARIANTS
  TypeOK
  DeliveredIsPrefix
  NoFalseCompletion
  IInv
  WindowKnownWhenValid
PROPERTY
  ImplementsByteStream
CHECK_DEADLOCK FALSE
