\* Three workers, one of which crashes, but neither in ngx_shmtx_wakeup nor just
\* after sem_wait: there it takes a wakeup with it.
CONSTANTS
  Worker = {w1, w2, w3}
  Master = master
  Nobody = nobody
  CrashPoints = {"announce", "recheck", "sleep", "undo", "cs"}
  MaxCrashes = 1
SPECIFICATION ShmtxFairSpec
INVARIANTS MutualExclusion WaitersCounted NoLostWakeup
PROPERTY LockProgress
