SPECIFICATION FairSpec
CONSTANTS
  MaxAsked = 2
  MaxRejected = 1
  MaxStops = 2
  MaxChunks = 2
  WireCapacity = 2
  Requests <- AllRequests
  SlowSend = TRUE
  SlowClose = TRUE
CHECK_DEADLOCK FALSE
INVARIANTS StopsAreFinal
PROPERTIES SupersededIsRejected EverythingSettles
