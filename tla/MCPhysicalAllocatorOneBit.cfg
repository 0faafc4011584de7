SPECIFICATION Spec
CONSTANTS
  Regions <- MCRegions
  ByteBits = 2
  WordBits = 8
  IntBits = 4
  PageBytes = 4
INVARIANT
  OneBitPerPage
CHECK_DEADLOCK FALSE
