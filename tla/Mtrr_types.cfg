\* Two uncacheable resources at most; four MTRRs for the firmware, two more in all.
SPECIFICATION Spec
CONSTANTS
  PageSize = 2
  AddressBits = 6
  RANGE_1MB = 4
  RANGE_4GB = 32
  MTRR_MIN_ALIGN = 8
  FixedStep <- McFixedStep
  total_mtrrs = 6
  OS_MTRRS = 2
  LowRam <- McLowRam
  Cacheable <- McCacheable
  Uncacheable <- McUncacheable
  Prefetchable <- McPrefetchable
  MaxUncacheable = 2
  TempRanges <- McTempRanges
  BSP = "bsp"
  CPUs = {"bsp", "ap"}
INVARIANTS
  RangesExact
  CachedAsWanted
  CountedRight
  SameEverywhere
