\* A chain long enough for current to move twice, never reset.
CONSTANTS
  SizeofPool = 64
  SizeofData = 32
  SizeofLarge = 16
  SizeofCleanup = 24
  NGX_ALIGNMENT = 8
  NGX_MAX_ALLOC_FROM_POOL = 4095
  SizeMax = 65536
  NULL = NULL
  PoolSizes = {128}
  PallocSizes = {36, 60}
  PnallocSizes = {}
  PcallocSizes = {}
  CleanupSizes = {}
  Hook = {}
  MaxNodes = 0
  Scenarios = {}
  MaxChunks = 9
SPECIFICATION Spec
INVARIANTS RetiredAfterSix ShortSearch
