SPECIFICATION PostSpec
CONSTANTS
  a = a
  b = b
  x = x
  Clients <- MCClients
  Keys <- MCKeys
  l1 = l1
  l2 = l2
  l3 = l3
  Locks <- MCLocks
  None = None
  Engines = {"sqlite", "postgres"}
  ProcessOf <- MCProcessOf
  PageOf <- MCPageOf
  Heap <- MCHeap
  Askings <- MCAskings
  Faults = {"connect", "commit"}
INVARIANTS
  RefsCountUsers
  NumbersFollowCommits
  ToldTruthfully
  RefusedOnlyByOthers
PROPERTIES
  ImplementsMutex
  EveryoneAnswered
