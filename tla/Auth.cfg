SPECIFICATION Spec
CONSTANTS
  Requests = {r1, r2, r3}
  Passwords = {a, b}
  EnvPassword = a
  None = None
  Faults = {"read", "write", "sync", "random"}
  MaxKills = 1
  MaxPowerLosses = 1
SYMMETRY Symmetry
INVARIANTS
  TypeOK
  FirstAdminStands
  PasswordStands
  TokenOnce
  LoggedOutStaysOut
CHECK_DEADLOCK FALSE
