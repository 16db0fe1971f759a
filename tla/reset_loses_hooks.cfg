\* A reset pool zeroes a cleanup node that is still listed.
CONSTANTS
  SizeofPool = 64
  SizeofData = 32
  SizeofLarge = 16
  SizeofCleanup = 24
  NGX_ALIGNMENT = 8
  NGX_MAX_ALLOC_FROM_POOL = 4095
  SizeMax = 65536
  NULL = NULL
  PoolSizes = {128}
  PallocSizes = {}
  PnallocSizes = {}
  PcallocSizes = {24}
  CleanupSizes = {0}
  Hook = {h1}
  MaxNodes = 1
  Scenarios = {"reset_hooked"}
  MaxChunks = 1
SPECIFICATION Spec
INVARIANT HandlersRunOnce
