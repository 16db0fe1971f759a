----------------------------- MODULE MCUpstream -----------------------------
(***************************************************************************)
(* Upstream blocks for TLC: a server with a backup, two servers of         *)
(* different weights, two of which one is down, and a single server.       *)
(***************************************************************************)
EXTENDS Upstream

CONSTANTS peerA, peerB, peerC

Block(groups, weight, maxFails, maxConns, down) ==
  [groups |-> groups, weight |-> weight, maxFails |-> maxFails, maxConns |-> maxConns,
   down |-> down]

All(n) == [p \in Peer |-> n]

MCConfigs ==
  { Block(<<<<peerA>>, <<peerC>>>>, All(2), All(1), [All(0) EXCEPT ![peerC] = 1], {}),
    Block(<<<<peerA, peerB>>>>, [All(1) EXCEPT ![peerA] = 2], [All(1) EXCEPT ![peerB] = 0],
          [All(0) EXCEPT ![peerA] = 1], {}),
    Block(<<<<peerA, peerB>>>>, All(2), All(2), All(0), {peerB}),
    Block(<<<<peerA>>>>, All(1), All(1), All(1), {}) }
=============================================================================
