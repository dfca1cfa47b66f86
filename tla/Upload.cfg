SPECIFICATION Spec
CONSTANTS
  Uploads = {u1, u2, u3}
  DBConfigured = TRUE
  Faults = {"stat", "path", "rename", "sync", "insert", "commit", "remove"}
  MaxFaults = 2
  MaxDowns = 1
SYMMETRY Symmetry
INVARIANTS
  TypeOK
  AcknowledgedIsKept
PROPERTY RefusedLeavesNothing
CHECK_DEADLOCK FALSE
