SPECIFICATION FairSpec
CONSTANTS
  MaxJoins = 3
  MaxFetches = 2
  None = None
INVARIANTS
  JoinButtonWorks
  NoRoomLeaks
  CanvasHasTheRoom
PROPERTIES
  JoinSettles
  WorkerEnds
CHECK_DEADLOCK FALSE
