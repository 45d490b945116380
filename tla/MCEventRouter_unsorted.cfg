SPECIFICATION Spec
CONSTANTS
  MaxEvents = 2
  MaxTurns = 1
  MaxClock = 1
  BrowserLead = 1
  Interims = {i1}
  CostCap = 2
  CallCosts = {0}
  Reasons = {"quiet"}
  Escalation = 3
  Faults = FALSE
INVARIANTS
  SnapshotsSorted
CHECK_DEADLOCK FALSE
