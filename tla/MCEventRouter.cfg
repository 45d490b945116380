SPECIFICATION Spec
CONSTANTS
  MaxEvents = 3
  MaxTurns = 1
  MaxClock = 1
  BrowserLead = 0
  Interims = {i1}
  CostCap = 3
  CallCosts = {2}
  Reasons = {"violation", "timeout"}
  Escalation = 1
  Faults = TRUE
INVARIANTS
  TypeOK
  OneDispatcher
  NothingLost
  ServedInOrder
  OvershootsByOneCall
  WaiterSeesItsDecision
  EscalatesOncePerRun
  ApologisesOnce
PROPERTIES
  ImplementsDispatcher
CHECK_DEADLOCK FALSE
