SPECIFICATION Spec
CONSTANTS
  p1 = p1  p2 = p2  d1 = d1  d2 = d2  a = a
  Requests = {r1, r2}
  Pages = {p1}
  Dirs = {d1}
  DirOf <- OnePage
  Contents = {a, b}
  Blank = Blank
  Site <- OnePageSite
  None = None
  DBConfigured = TRUE
  Faults <- NoFaults
  MaxKills = 1
  MaxPowerLosses = 0
SYMMETRY Symmetry
INVARIANTS
  HistoryReadable
CHECK_DEADLOCK FALSE
