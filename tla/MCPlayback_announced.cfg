SPECIFICATION Spec
CONSTANTS
  MaxAsked = 2
  MaxRejected = 2
  MaxStops = 0
  MaxChunks = 1
  WireCapacity = 2
  Requests <- SpeakAndSay
  SlowSend = FALSE
  SlowClose = FALSE
CHECK_DEADLOCK FALSE
INVARIANT WantedIsHeard
