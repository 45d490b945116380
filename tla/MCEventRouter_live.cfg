SPECIFICATION FairSpec
CONSTANTS
  MaxEvents = 2
  MaxTurns = 1
  MaxClock = 1
  BrowserLead = 1
  Interims = {i1, i2}
  CostCap = 2
  CallCosts = {0}
  Reasons = {"quiet"}
  Escalation = 3
  Faults = TRUE
INVARIANTS
  SortedUpToLead
PROPERTIES
  SettledAfterInterims
  WaitStuckOnlyByBargeIn
  TeardownStuckOnlyByBargeIn
CHECK_DEADLOCK FALSE
