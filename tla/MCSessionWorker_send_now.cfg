CONSTANTS
  c1 = c1
  c2 = c2
  MaxInputs = 3
  Connection <- OneConnection
  Policies <- SendNow
  Messages <- Message
  Opening <- Message
  Faults <- EnginesRaise
SPECIFICATION FairSpec
INVARIANTS EveryResponseIsInterruptible WorkingTaskOwnsSession NoTurnIsAbandoned BusyIsBacked
PROPERTIES TakesTurns BegunTurnsEnd
