SPECIFICATION FairSpec
CONSTANTS
  l1 = l1
  l2 = l2
  h1 = h1
  h2 = h2
  Low <- LowThreads
  High <- HighThreads
  Free = Free
INVARIANTS
  TypeOK
PROPERTIES
  IsPriorityMutex
  HighGetsIn
  LowGetsIn
CHECK_DEADLOCK FALSE
