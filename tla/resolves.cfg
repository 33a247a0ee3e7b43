SPECIFICATION FairBothSpec
CONSTANTS
  Client = C
  Server = S
  MSS = 1
  Span = 1
  MaxCwnd = 43
  MaxTimeout = 2
  Window <- BothOne
  MessageSizes = {1}
  WriteBudget <- TwoAndOne
  MaxFins = 1
  MaxLives = 1
  MaxInFlight = 2
  Closers = {C}
  Duplicates = FALSE
PROPERTIES
  SendResolves
  SendResolvesIfDataArrives
  PeerNoticesDeath
CHECK_DEADLOCK FALSE
