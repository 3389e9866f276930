SPECIFICATION LedgerSpec
CHECK_DEADLOCK FALSE
CONSTANTS
  r1 = r1
  r2 = r2
  Requests = {r1, r2}
  NSubs = 2
  PlanTotal <- Limited
  Amounts = {1, 2}
  Deltas = {1}
  MaxTotal = 2
  MaxUsed = 3
  MaxAttempts = 2
  MaxResets = 1
  MaxConns = 3
  SQLite = FALSE
  DBMayFail = TRUE
  CommitMayFail = FALSE
SYMMETRY RequestSymmetry
INVARIANTS
  LedgerTypeOK
  UsedWithinTotal
  
