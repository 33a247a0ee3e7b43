SPECIFICATION ReopenSpec
CONSTANTS
  Client = C
  Server = S
  MSS = 1
  Span = 1
  MaxCwnd = 43
  MaxTimeout = 0
  Window <- BothOne
  MessageSizes = {1}
  WriteBudget <- TwoAndOne
  MaxFins = 1
  MaxLives = 2
  MaxInFlight = 2
  Closers = {}
  Duplicates = FALSE
INVARIANTS
  SendStartsBeforeNext
  WindowKnownWhenValid
  AckIsGuarded
PROPERTIES
  ProgressIsKept
  GuardIsKept
CHECK_DEADLOCK FALSE
