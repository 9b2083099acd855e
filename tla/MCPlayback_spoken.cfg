SPECIFICATION Spec
CONSTANTS
  MaxAsked = 3
  MaxRejected = 2
  MaxStops = 2
  MaxChunks = 1
  WireCapacity = 2
  Requests <- SpeakOnly
  SlowSend = FALSE
  SlowClose = FALSE
CHECK_DEADLOCK FALSE
INVARIANTS InterruptedIsSilent WantedIsHeard
