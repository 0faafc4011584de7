SPECIFICATION FairSpec
CONSTANTS
  Keys <- MCKeys
  Moves <- MCMoves
  MaxKeys = 3
  MaxMoves = 2
  Patient = TRUE
INVARIANT
  ModifiersFollowKeys
PROPERTIES
  ImplementsEventChannels
  BootEnds
  EverythingArrives
CHECK_DEADLOCK FALSE
