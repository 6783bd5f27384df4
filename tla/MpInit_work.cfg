\* Two APs that are started and then given work three times.
SPECIFICATION FairSpec
CONSTANTS
  a1 = a1
  a2 = a2
  BSP = BSP
  NULL = NULL
  APs = {a1, a2}
  NumAPs = 2
  ParallelLoad = TRUE
  MaxWork = 3
INVARIANTS
  TypeOK
  SmmAreaSafe
  SuccessMeansAll
  WorkAccepted
PROPERTIES
  NobodyStuck
