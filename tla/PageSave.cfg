SPECIFICATION Spec
CONSTANTS
  p1 = p1  p2 = p2  d1 = d1  d2 = d2  a = a
  Requests = {r1, r2, r3}
  Pages = {p1}
  Dirs = {d1}
  DirOf <- OnePage
  Contents = {a, b}
  Blank = Blank
  Site <- OnePageSite
  None = None
  DBConfigured = TRUE
  Faults <- AnyFault
  MaxKills = 1
  MaxPowerLosses = 1
SYMMETRY Symmetry
INVARIANTS
  TypeOK
  UniqueNumbers
  WriteAhead
  AcknowledgedSurvives
  CompleteOrMarked
PROPERTIES
  NoLostUpdate
  FailedSaveLeavesPage
CHECK_DEADLOCK FALSE
