SPECIFICATION Spec
CONSTANTS
  p1 = p1
  Requests = {r1, r2}
  Visitors = {v1}
  Pages = {p1, p2}
  Home = p1
  None = None
  Faults <- PutsBack
  Concurrent = 1
  MaxEdits = 3
  MaxKills = 1
INVARIANTS
  TypeOK
  NoDraftShown
  FrozenIsPublished
  PublishesWhatWasSaved
PROPERTIES
  FailureChangesNothing
CHECK_DEADLOCK FALSE
