SPECIFICATION FairSpec
CONSTANTS
  MaxRetries = 1
  Chunks = 2
  MaxEvents = 2
  Fired = {"turn_end", "canvas_change"}
  Stamps = {1, 2}
  Utterances <- MCUtterances
INVARIANTS
  TurnsSettleOnce
  CostIsCounted
  PlaysItsOwn
PROPERTIES
  RepliesEnd
CHECK_DEADLOCK FALSE
