\* All operations of the x64 build, and everything a client may do wrong.
CONSTANTS
  SizeofPool = 64
  SizeofData = 32
  SizeofLarge = 16
  SizeofCleanup = 24
  NGX_ALIGNMENT = 8
  NGX_MAX_ALLOC_FROM_POOL = 4095
  SizeMax = 65536
  NULL = NULL
  PoolSizes = {40, 128}
  PallocSizes = {37}
  PnallocSizes = {27}
  PcallocSizes = {100}
  CleanupSizes = {0, 8}
  Hook = {h1}
  MaxNodes = 1
  Scenarios = {"reset_hooked", "destroy_twice", "create_fails"}
  MaxChunks = 3
SPECIFICATION Spec
INVARIANTS TypeOK Disjoint HeapAccounted
PROPERTY ResetReclaims
