SPECIFICATION Spec
CONSTANTS
  LIMIT_ALIGN = 8
  RootPointerSize = 1
  RootHeaderSize = 1
  EntrySize = 1
  SIZE_MAX = 255
  CBMEM_ID_IMD_ROOT = root
  SMALL_REGION_ID = small
  Top = 160
  CBMEM_ROOT_MIN_SIZE = 8
  CBMEM_LG_ALIGN = 8
  CBMEM_SM_ROOT_SIZE = 8
  CBMEM_SM_ALIGN = 2
  i1 = i1
  i2 = i2
  i3 = i3
  i4 = i4
  i5 = i5
  i6 = i6
  Ids = {i1, i2, i3, i4, i5, i6}
  Sizes = {1, 4, 9}
SYMMETRY Symmetry
INVARIANTS
  RangesDisjoint
  Recoverable
  IdsUnique
  ResumeIntact
