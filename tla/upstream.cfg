\* Two requests, three servers in four configurations, a cache of one connection.
CONSTANTS
  peerA = peerA
  peerB = peerB
  peerC = peerC
  Req = {r1, r2}
  Peer = {peerA, peerB, peerC}
  Configs <- MCConfigs
  FailTimeout = 0
  MaxCached = 1
  MaxTime = 2
  NULL = NULL
SPECIFICATION UpstreamFairSpec
INVARIANTS ConnsCounted ConnectionsOwned WeightsBalanced OneProbe
PROPERTY RequestEnds
