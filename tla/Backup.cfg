SPECIFICATION Spec
CONSTANTS
  Makers = {m1, m2}
  Restorers = {r}
  Names = {n1, n2}
  Files = {"page", "deep", "deeper", "temp"}
  Site = {"page", "deep"}
  DirOf <- DirectoryOf
  Root = "root"
  Scratch = "temp"
  None = None
  Reserved = Reserved
  Faults <- AnyFault
  MaxWrites = 3
SYMMETRY Symmetry
INVARIANTS
  TypeOK
  BackupIsFaithful
  FailedRestoreLeavesNoTrace
  RestoreBringsBack
CHECK_DEADLOCK FALSE
