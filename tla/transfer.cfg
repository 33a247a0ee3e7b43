SPECIFICATION EstSpec
CONSTANTS
  Client = C
  Server = S
  MSS = 2
  Span = 2
  MaxCwnd = 2
  MaxTimeout = 1
  Window <- BothFive
  MessageSizes = {7}
  WriteBudget <- ClientOnly7
  MaxFins = 1
  MaxLives = 1
  MaxInFlight = 2
  Closers = {}
  Duplicates = FALSE
INVARIANTS
  DeliveredIsPrefix
  UnackedIsGuarded
  AckIsGuarded
  DatagramFitsWindow
PROPERTIES
  ProgressIsKept
CHECK_DEADLOCK FALSE
