SPECIFICATION Spec
CONSTANTS
  r1 = r1
  r2 = r2
  NoRunner = NoRunner
  Runners = {r1, r2}
  MaxTasks = 2
  TTL = 1
  Interval = 1
  MaxPause = 2
  DBMayFail = TRUE
SYMMETRY RunnerSymmetry
INVARIANTS
  TypeOK
  ActiveKeyExclusive
  OneExecutor
PROPERTIES
  RowsOnlyAdvance
  
