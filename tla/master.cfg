\* One worker process configured, three signals of the administrator, two faults.
CONSTANTS
  WorkerProcesses = 1
  Signals = {"QUIT", "TERM", "HUP", "USR1", "USR2", "WINCH"}
  MaxSignals = 3
  MaxFaults = 2
  Scenarios = {}
SPECIFICATION MasterFairSpec
INVARIANTS TableTracksChildren NoOrphans NewestWorkersOnly
PROPERTIES TerminateEnds QuitEnds
