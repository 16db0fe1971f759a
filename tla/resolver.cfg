\* Two names and one that cannot be asked for, two contexts, one of them without a timeout, one fault.
CONSTANTS
  nameX = nameX
  nameY = nameY
  nameZ = nameZ
  Name = {nameX, nameY}
  Wanted = {nameX, nameY}
  BadName = {nameZ}
  Ctx = {c1, c2}
  Untimed = {c2}
  Answers <- MCAnswers
  IPv6 = TRUE
  ResendTimeout = 1
  Expire = 0
  Valid = 1
  MaxRecursion = 1
  NULL = NULL
  MaxDepth = 2
  MaxAsks = 2
  MaxQueries = 2
  MaxTime = 3
  MaxFaults = 1
SPECIFICATION ResolverFairSpec
INVARIANTS NodesAccounted WaitersListed LoopsSafe TimerArmed StillAsking
PROPERTY ResolveEnds
