\* A region at the limit of block addressing (the 1 MiB of the real one), data
\* sizes up to the documented maximum of three blocks less than the region, and
\* an erase operation that empties all of it.
SPECIFICATION FairSpec
CONSTANTS
  A = 2
  W = 4
  T = 16
  SectorBlocks = 16
  Sizes = {1, 4, 6, 13}
  MaxUpdates = 4
  MaxFaults = 2
INVARIANTS
  RegionSound
PROPERTIES
  WriteOnce
  ImplementsRegister
  UpdateEnds
