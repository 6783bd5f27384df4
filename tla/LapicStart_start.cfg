\* Three APs, any of them dead, cold boot and wake-up; a stack for one second start.
SPECIFICATION FairSpec
CONSTANTS
  N = 3
  MAX_CPUS = 5
  Starts = 2
  Timely = TRUE
INVARIANTS
  SmmRelocated
  OwnStack
  OnlyStartedReported
  LowMemorySafe
PROPERTIES
  BspFinishes
