SPECIFICATION EstSpec
CONSTANTS
  Client = C
  Server = S
  MSS = 1
  Span = 1
  MaxCwnd = 43
  MaxTimeout = 1
  Window <- BothTwo
  MessageSizes = {1}
  WriteBudget <- TwoAndOne
  MaxFins = 1
  MaxLives = 1
  MaxInFlight = 2
  Closers = {}
  Duplicates = TRUE
INVARIANTS
  NoFalseCompletion
  UnackedIsGuarded
  AckIsGuarded
CHECK_DEADLOCK FALSE
