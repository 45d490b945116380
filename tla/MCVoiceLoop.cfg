SPECIFICATION FairSpec
CONSTANTS
  Turns = {t1, t2}
  Canvases = {c1}
  Opening = Opening
  Apology = Apology
  MaxInterims = 1
  MaxPushed = 2
  MaxClock = 1
  TTL = 0
  Grace = 0
  None = None
INVARIANTS
  TypeOK
  SpokenInOrder
  QuietMeansListening
PROPERTIES
  TurnsEndAfterDrawing
CHECK_DEADLOCK FALSE
