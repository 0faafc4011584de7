SPECIFICATION Spec
CONSTANTS
  HEADER = 4
  ALLOC_ALIGN = 4
  ENTRIES_PER_BYTE = 4
  PAGE_SIZE = 32
  BLOCK_ALLOC_SIZE = 32
  Owners = {o1, o2, o3}
  Sizes = {4, 9, 28}
  PoolPages = 5
SYMMETRY Symmetry
INVARIANTS
  TypeOK
  BitmapMatchesHeld
PROPERTIES
  NewBlockIsEnough
  ImplementsDisjointHeap
CHECK_DEADLOCK FALSE
