\* Two threads, three files, a queue of one, one failing call of the thread library.
CONSTANTS
  Thread = {t1, t2}
  Task = {a, b, c}
  ExitTask = exit
  NULL = NULL
  MaxQueue = 1
  MaxFaults = 1
SPECIFICATION ThreadPoolFairSpec
INVARIANTS ListsClosed BlockedInFlight WaitingCounts DestroyedQuiet
PROPERTIES PostedCompletes DestroyEnds
CHECK_DEADLOCK FALSE
