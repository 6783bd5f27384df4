SPECIFICATION FairSpec
CONSTANTS
  NoTocb = "none"
  Tocbs = {"t1", "t2", "t3", "t4", "t5"}
  max_entries = 4
  LONG_MAX = 2
  Horizon = 2
INVARIANTS
  HeapSound
PROPERTIES
  KeepsPromise
CHECK_DEADLOCK FALSE
