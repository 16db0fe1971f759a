\* An upgrade is rolled back with SIGHUP, then the old master is asked to quit.
CONSTANTS
  WorkerProcesses = 1
  Signals = {"QUIT", "HUP", "USR2", "WINCH"}
  MaxSignals = 4
  MaxFaults = 0
  Scenarios = {"rollback"}
SPECIFICATION MasterFairSpec
INVARIANT NoOrphans
