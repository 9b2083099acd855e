SPECIFICATION Spec
CONSTANTS
  s1 = s1  s2 = s2
  Session <- TwoSessions
  Installations <- AllOrNoRouter
  Slow <- TheRouter
  Workers = 2
  Threads = 4
  MaxTurns = 3
  MayFail = TRUE
CHECK_DEADLOCK FALSE
INVARIANTS LocksHaveHolders ModelsAreInPlace AnswersAreForTheirTurn
PROPERTIES TurnsEnd
