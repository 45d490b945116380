SPECIFICATION FairSpec
CONSTANTS
  Scenes = {a, b}
  None = None
  MaxSends = 2
  Window = 1
  Limit = 1
  MaxMail = 2
INVARIANTS
  NothingStranded
PROPERTIES
  MentorCatchesUp
CHECK_DEADLOCK FALSE
