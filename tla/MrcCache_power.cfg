SPECIFICATION FairSpec
CONSTANTS
  Dimms = {"d1", "d2"}
  Timings <- McTimings
  DataSize = 1
  Align = 2
  Sector = 2
  Region = 12
  Faults = {"cbmem", "probe", "erase", "write"}
INVARIANTS
  CacheSound
  RightTimings
PROPERTIES
  NoRollback
  UpdateEnds
