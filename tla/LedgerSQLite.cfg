SPECIFICATION FairLedgerSpec
CHECK_DEADLOCK FALSE
CONSTANTS
  r1 = r1
  r2 = r2
  Requests = {r1}
  NSubs = 1
  PlanTotal <- Limited
  Amounts = {1, 2}
  Deltas = {1}
  MaxTotal = 4
  MaxUsed = 3
  MaxAttempts = 3
  MaxResets = 0
  MaxConns = 3
  SQLite = TRUE
  DBMayFail = FALSE
  CommitMayFail = FALSE
PROPERTIES
  RefundRestores
