SPECIFICATION LiveSpec
CONSTANTS
  Tabs = {t1, t2}
  MaxSessions = 2
  MaxLogouts = 0
  MaxFaults = 1
CHECK_DEADLOCK FALSE
PROPERTIES
  RevokedSessionDropped
