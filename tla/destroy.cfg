\* Handlers that call the pool again, and the end of the destruction.
CONSTANTS
  SizeofPool = 32
  SizeofData = 16
  SizeofLarge = 8
  SizeofCleanup = 12
  NGX_ALIGNMENT = 4
  NGX_MAX_ALLOC_FROM_POOL = 4095
  SizeMax = 65536
  NULL = NULL
  PoolSizes = {80}
  PallocSizes = {50}
  PnallocSizes = {}
  PcallocSizes = {}
  CleanupSizes = {0, 50}
  Hook = {h1, h2, h3}
  MaxNodes = 3
  Scenarios = {"reset"}
  MaxChunks = 3
SPECIFICATION FairSpec
INVARIANTS HandlersRunOnce NoUndefined
PROPERTIES DestroyCompletes ImplementsAbstractPool
