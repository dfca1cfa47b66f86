SPECIFICATION Spec
CONSTANTS
  p1 = p1  p2 = p2  d1 = d1  d2 = d2  a = a
  Requests = {r1, r2, r3}
  Pages = {p1, p2}
  Dirs = {d1}
  DirOf <- SharedDir
  Contents = {a, b}
  Blank = Blank
  Site <- TwoPagesSite
  None = None
  DBConfigured = TRUE
  Faults <- NoFaults
  MaxKills = 0
  MaxPowerLosses = 0
SYMMETRY Symmetry
INVARIANTS
  RestoresOwnPage
CHECK_DEADLOCK FALSE
