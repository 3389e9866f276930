SPECIFICATION Spec
CHECK_DEADLOCK FALSE
CONSTANTS
  p1 = p1
  p2 = p2
  Pollers = {p1, p2}
  Quotas = {1, 2}
  MaxPollFailures = 2
  MaxFaults = 1
  InsertMayLie = FALSE
  EarlyComplete = FALSE
INVARIANTS
  TaskTypeOK
  ChargeMatchesRow
  NeverOverRefunded
  ObservedFailureRefunded
PROPERTIES
  OutcomeIsFinal
  TaskEnds
