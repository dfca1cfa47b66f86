SPECIFICATION Spec
CONSTANTS
  p1 = p1
  Requests = {r1, r2}
  Visitors = {}
  Pages = {p1, p2}
  Home = p1
  None = None
  Faults <- NoFaults
  Concurrent = 2
  MaxEdits = 3
  MaxKills = 0
INVARIANTS
  PublishesWhatWasSaved
CHECK_DEADLOCK FALSE
