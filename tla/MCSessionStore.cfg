SPECIFICATION Spec
CONSTANTS
  CandidateTurns = {t1}
  AiTurns = {a1}
  Canvases = {c1}
  Dispatches = {d1, d2}
  WindowCap = 1
  MaxAttempts = 2
  None = None
INVARIANTS
  TypeOK
  NothingForgotten
PROPERTIES
  ImplementsAtomicState
  GivesUpOnlyToRivals
  DispatchSeesItsEvents
CHECK_DEADLOCK FALSE
