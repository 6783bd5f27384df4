\* The same with an erase sector of half the region.
SPECIFICATION Spec
CONSTANTS
  A = 2
  W = 4
  T = 6
  SectorBlocks = 3
  Sizes = {1, 2, 3}
  MaxUpdates = 5
  MaxFaults = 2
INVARIANTS
  LatestData
