SPECIFICATION Spec
CONSTANTS
  Regions <- MCRegions
  ByteBits = 2
  WordBits = 8
  IntBits = 4
  PageBytes = 4
INVARIANTS
  TypeOK
  OwnedPagesMarked
  UsedPagesHaveOwner
PROPERTY
  ImplementsPagePool
CHECK_DEADLOCK FALSE
