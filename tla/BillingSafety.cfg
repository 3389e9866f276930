SPECIFICATION SessionSpec
CHECK_DEADLOCK FALSE
CONSTANTS
  r1 = r1
  r2 = r2
  Requests = {r1, r2}
  Playground = {}
  WalletOpening = 2
  TokenOpening = 2
  TrustQuota = 1
  Quotas = {0, 1, 2}
  Actuals = {0, 1, 2}
  NSubs = 1
  PlanTotal <- PlansOfTwo
  Amounts = {1, 2}
  Deltas = {}
  MaxTotal = 2
  MaxUsed = 3
  MaxAttempts = 2
  MaxResets = 0
  MaxConns = 3
  SQLite = FALSE
  DBMayFail = TRUE
  CommitMayFail = FALSE
SYMMETRY RequestSymmetry
INVARIANTS
  SessionTypeOK
  Reconciles
  SubscriptionReconciles
PROPERTIES
  WalletIsPrepaid
  TokenIsPrepaid
