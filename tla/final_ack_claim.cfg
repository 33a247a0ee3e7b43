SPECIFICATION HandshakeSpec
CONSTANTS
  Client = C
  Server = S
  MSS = 1
  Span = 1
  MaxCwnd = 43
  MaxTimeout = 0
  Window <- BothTwo
  MessageSizes = {1}
  WriteBudget <- NoData
  MaxFins = 1
  MaxLives = 1
  MaxInFlight = 2
  Closers = {}
  Duplicates = FALSE
PROPERTY HandshakeCompletes
CHECK_DEADLOCK FALSE
