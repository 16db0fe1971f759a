\* A pool whose size is not a multiple of the alignment.
CONSTANTS
  SizeofPool = 64
  SizeofData = 32
  SizeofLarge = 16
  SizeofCleanup = 24
  NGX_ALIGNMENT = 8
  NGX_MAX_ALLOC_FROM_POOL = 4095
  SizeMax = 65536
  NULL = NULL
  PoolSizes = {100}
  PallocSizes = {8}
  PnallocSizes = {33}
  PcallocSizes = {}
  CleanupSizes = {}
  Hook = {}
  MaxNodes = 0
  Scenarios = {}
  MaxChunks = 2
SPECIFICATION Spec
INVARIANT WellPlaced
