SPECIFICATION FairSpec
CONSTANTS
  Kernel = kernel
  First = first
  Typed = {t1, t2}
  SleepTicks = 2
  UserPlaces = {"loop", "call"}
INVARIANTS
  TypeOK
  ContextsPreserved
PROPERTIES
  ImplementsRoundRobin
  KeepsPasting
  EveryProcessRuns
CHECK_DEADLOCK FALSE
