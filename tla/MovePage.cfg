SPECIFICATION FairSpec
CONSTANTS
  u1 = u1  u2 = u2  u3 = u3
  Requests = {1, 2, 3}
  Uris = {u1, u2, u3}
  None = None
  DBConfigured = TRUE
  Faults <- AnyFault
  Scenes <- TurnsAndPair
INVARIANTS
  TypeOK
  
  StoresAgree
PROPERTIES
  BodiesKept
  Answered
CHECK_DEADLOCK FALSE
