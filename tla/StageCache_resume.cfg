SPECIFICATION StageSpec
CONSTANTS
  LIMIT_ALIGN = 8
  RootPointerSize = 1
  RootHeaderSize = 1
  EntrySize = 1
  SIZE_MAX = 255
  CBMEM_ID_IMD_ROOT = root
  SMALL_REGION_ID = small
  Top = 160
  CBMEM_ROOT_MIN_SIZE = 8
  CBMEM_LG_ALIGN = 8
  CBMEM_SM_ROOT_SIZE = 4
  CBMEM_SM_ALIGN = 2
  ROMSTAGE_INFO = info
  RAMSTAGE = ramstage
  STAGE_META = meta
  STAGE_CACHE = cache
  o1 = o1
  o2 = o2
  o3 = o3
  o4 = o4
  o5 = o5
  Ids = {info, ramstage, meta, cache, o1, o2, o3, o4, o5}
  Sizes = {1, 4, 9}
  SmallSize = 1
  StageSize = 9
  ResetOnInvalid = FALSE
SYMMETRY OtherSymmetry
INVARIANTS
  RunsPristine
  NoFalseResume
  ResumeSeen
