SPECIFICATION FairSpec
CONSTANTS
  MaxAsked = 3
  MaxRejected = 2
  TranscriptLimit = 3
  InFlight = 2
  Conversations <- Conversed
  Faults <- RecogniserFails
CHECK_DEADLOCK FALSE
INVARIANTS PhaseIsHonest ShownFitsTogether
PROPERTIES ClientIsAnswered
