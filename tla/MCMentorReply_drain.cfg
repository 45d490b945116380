SPECIFICATION Spec
CONSTANTS
  MaxRetries = 0
  Chunks = 1
  MaxEvents = 1
  Fired = {"turn_end"}
  Stamps = {1}
  Utterances <- MCUtterances
INVARIANTS
  EndsDrained
CHECK_DEADLOCK FALSE
