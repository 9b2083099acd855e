SPECIFICATION FairSpec
CONSTANTS
  MaxTurns = 2
  Pieces = 2
  Call <- Calls
  SearchCall <- Calls
  ReplayMin = 2
  WireMax = 1
  QueueMax = 1
  Extras = 1
  Thinking <- First
  Tooling <- Second
  MayFail = TRUE
  MayCancel = TRUE
CHECK_DEADLOCK FALSE
INVARIANTS SpokenIsTheReply QuietStreamsAnswer
PROPERTIES SearchesAreToldTruly QuietStreamsEnd
