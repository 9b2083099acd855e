SPECIFICATION Spec
CONSTANTS
  s1 = s1  s2 = s2  c1 = c1  c2 = c2  h1 = h1
  Session <- TwoSessions
  Socket <- Sockets
  Request <- Requests
  Nobody = Nobody
  MaxMessages = 3
  MayCrash = TRUE
  MayFail = TRUE
SYMMETRY Symmetric
CHECK_DEADLOCK FALSE
INVARIANTS OneWorker RegistryIsTrue SettledAgree RepliesLetGo
