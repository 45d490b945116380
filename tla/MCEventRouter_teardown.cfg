SPECIFICATION FairSpec
CONSTANTS
  MaxEvents = 2
  MaxTurns = 3
  MaxClock = 0
  BrowserLead = 0
  Interims = {i1}
  CostCap = 2
  CallCosts = {0}
  Reasons = {"speak"}
  Escalation = 3
  Faults = FALSE
PROPERTIES
  TeardownCompletes
CHECK_DEADLOCK FALSE
