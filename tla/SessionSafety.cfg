SPECIFICATION Spec
CHECK_DEADLOCK FALSE
CONSTANTS
  p1 = p1
  p2 = p2
  Procs = {p1, p2}
  Ops = {"login", "validate", "refresh", "revoke", "revokeAll", "revokeHash", "advance"}
  TTL = 2
  Grace = 2
  Life = 3
  MaxTime = 3
  MaxVer = 2
  MaxGen = 2
  MaxStall = 1
  RedisMayFail = TRUE
  VersionRaces = FALSE
  TombstoneMayFail = FALSE
SYMMETRY ProcSymmetry
INVARIANTS
  SessionTypeOK
  RevokedNotServed
  RotationNeverRollsBack
  ReuseIsReplay
