SPECIFICATION FairSpec
CONSTANTS
  Tasks = {t1, t2, t3}
  Workers = {w1, w2}
  None = None
  Capacity = 2
  MaxErrors = 2
INVARIANTS
  TypeOK
  NoSilentLoss
  SavedOnce
  OrderKept
PROPERTIES
  EventuallySaved
