SPECIFICATION Spec
CONSTANTS
  Tabs = {t1, t2}
  MaxSessions = 2
  MaxLogouts = 1
  MaxFaults = 1
SYMMETRY TabSymmetry
CHECK_DEADLOCK FALSE
INVARIANTS
  WebTypeOK
  SignedOutStaysOut
  
  SignOutRevokes
