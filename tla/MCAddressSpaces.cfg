SPECIFICATION Spec
CONSTANTS
  Overshift = {}
  Fanout = 4
  Reach = 2
  FrameCount = 21
  Excess = 12
  BasePage = 20
  HhdmPml4 = 3
  CodePage = 4
  StackPage = 7
  Counts = {1, 2}
  Processes = 2
  ProbedPage = 21
  KernelStack = 25
INVARIANTS
  TypeOK
  TablesNotMapped
  KernelHalfShared
PROPERTY
  ImplementsAddressMap
CHECK_DEADLOCK FALSE
