------------------------------ MODULE Upstream ------------------------------
(***************************************************************************)
(* Choice of an upstream server: weighted round robin with failure         *)
(* accounting (http/ngx_http_upstream_round_robin.c), the cache of idle    *)
(* connections in front of it (http/modules/                               *)
(* ngx_http_upstream_keepalive_module.c), and the part of                  *)
(* http/ngx_http_upstream.c that tries one server after another.           *)
(*                                                                         *)
(*   conf      the upstream block: groups (primary, backup), weights, ...  *)
(*   peer      ngx_http_upstream_rr_peer_t                                 *)
(*   at, req   each request: how far it is, its u->peer and                *)
(*             ngx_http_upstream_rr_peer_data_t; addr: sockaddr is set     *)
(*   cache     kcf->cache, most recent first; the items not in it are free *)
(*   open      the open connections, and the peers they lead to            *)
(*   now       ngx_time()                                                  *)
(*   probe     when a request was given a disabled peer to probe it        *)
(*                                                                         *)
(* A step ends where the lock of the peers is released: workers share the  *)
(* peers of a zone, so another request may come in between.                *)
(***************************************************************************)
EXTENDS Integers, FiniteSets, FiniteSetsExt, Sequences, SequencesExt

CONSTANTS
  Req,          \* requests
  Peer,         \* upstream servers
  Configs,      \* configurations
  FailTimeout,  \* fail_timeout, in seconds
  MaxCached,    \* size of the cache of idle connections
  MaxTime,      \* bound: how long time is watched
  NULL

ASSUME UpstreamAssumption ==
  /\ FailTimeout \in Nat /\ MaxCached \in Nat \ {0} /\ MaxTime \in Nat
  /\ IsFiniteSet(Req) /\ NULL \notin Peer /\ NULL \notin Nat

\* An upstream block: one or two groups, none empty, that share no server.
ASSUME ConfigsAssumption ==
  \A c \in Configs :
    /\ c.groups \in Seq(Seq(Peer)) /\ Len(c.groups) \in 1..2
    /\ \A g \in 1..Len(c.groups) : c.groups[g] \in Seq(Peer) /\ c.groups[g] # <<>>
    /\ Len(c.groups) = 2 => ToSet(c.groups[1]) \cap ToSet(c.groups[2]) = {}
    /\ \A p \in Peer : c.weight[p] \in Nat /\ c.maxFails[p] \in Nat /\ c.maxConns[p] \in Nat

VARIABLES conf, peer, at, req, cache, open, now, probe

upVars == <<conf, peer, at, req, cache, open, now, probe>>

Conn == 1..Cardinality(Req) + MaxCached + 1
Never == -1

Members(g) == ToSet(conf.groups[g])
HasBackup == Len(conf.groups) = 2

\* peers->single: one server and no backup
Single == ~HasBackup /\ Len(conf.groups[1]) = 1

-----------------------------------------------------------------------------
(* ngx_http_upstream_get_peer                                              *)

Disabled(p) ==
  /\ conf.maxFails[p] > 0 /\ peer[p].fails >= conf.maxFails[p]
  /\ now - peer[p].checked <= FailTimeout

\* Mutated form of Eligible: > for >=.
Eligible_over(g, tried) ==
  {p \in Members(g) :
     /\ Single \/ (p \notin tried /\ ~Disabled(p))
     /\ p \notin conf.down
     /\ conf.maxConns[p] = 0 \/ peer[p].conns <= conf.maxConns[p]}

Eligible(g, tried) ==
  {p \in Members(g) :
     /\ Single \/ (p \notin tried /\ ~Disabled(p))
     /\ p \notin conf.down
     /\ conf.maxConns[p] = 0 \/ peer[p].conns < conf.maxConns[p]}

\* The first of the peers E with the greatest weight, in the order of the group.
Best(g, E, weight) ==
  LET s == conf.groups[g]
  IN  s[Min({i \in DOMAIN s : s[i] \in E /\ \A p \in E : weight[s[i]] >= weight[p]})]

\* Mutated form of Weighed: the best loses its own weight, not the total.
Weighed_own(g, E) ==
  LET w == [p \in E |-> peer[p].current + peer[p].effective]
      b == Best(g, E, w)
  IN  [best |-> b, current |-> [w EXCEPT ![b] = @ - peer[b].effective]]

\* Every eligible peer gains its effective weight; the best of them is chosen
\* and loses the total.
Weighed(g, E) ==
  LET w == [p \in E |-> peer[p].current + peer[p].effective]
      total == SumFunctionOnSet([p \in E |-> peer[p].effective], E)
      b == Best(g, E, w)
  IN  [best |-> b, current |-> [w EXCEPT ![b] = @ - total]]

\* Mutated form of Chosen: checked is not moved when a peer is chosen.
Chosen_unchecked(g, E) ==
  LET w == Weighed(g, E)
  IN  [p \in Peer |->
         IF p \notin E THEN peer[p]
         ELSE [peer[p] EXCEPT !.current = w.current[p], !.effective = Min({@ + 1, conf.weight[p]}),
                              !.conns = IF p = w.best THEN @ + 1 ELSE @]]

\* The peers after one of E has been chosen; a peer not checked for
\* fail_timeout counts as checked now.
Chosen(g, E) ==
  LET w == Weighed(g, E)
  IN  [p \in Peer |->
         IF p \notin E THEN peer[p]
         ELSE [peer[p] EXCEPT !.current = w.current[p], !.effective = Min({@ + 1, conf.weight[p]}),
                              !.conns = IF p = w.best THEN @ + 1 ELSE @,
                              !.checked = IF p = w.best /\ now - @ > FailTimeout THEN now ELSE @]]

-----------------------------------------------------------------------------
(* The cache of connections                                                *)

Close(c) == [d \in DOMAIN open \ {c} |-> open[d]]

\* c joins the cache; the item longest unused makes room.
Saved(c, p) ==
  LET full == Len(cache) = MaxCached
      rest == IF full THEN Front(cache) ELSE cache
  IN  /\ cache' = <<[conn |-> c, peer |-> p]>> \o rest
      /\ open' = IF full THEN Close(Last(cache).conn) ELSE open

\* The same, but something can be read from c already: it is closed at once.
SavedAndClosed(c) ==
  LET full == Len(cache) = MaxCached
  IN  /\ cache' = IF full THEN Front(cache) ELSE cache
      /\ open' = [d \in DOMAIN open \ {c, IF full THEN Last(cache).conn ELSE c} |-> open[d]]

\* Mutated form of Dispose: a connection that was saved is closed as well.
Dispose_closed(r, valid) ==
  LET c == req[r].conn
  IN  \/ /\ c # NULL /\ valid
         /\ cache' = <<[conn |-> c, peer |-> req[r].current]>> \o
                       (IF Len(cache) = MaxCached THEN Front(cache) ELSE cache)
         /\ open' = Close(c)
      \/ open' = (IF c = NULL THEN open ELSE Close(c)) /\ UNCHANGED cache

\* What becomes of the request's connection: ngx_http_upstream_free_keepalive_
\* peer may save a valid one, else its owner closes it.
Dispose(r, valid) ==
  LET c == req[r].conn
  IN  \/ c # NULL /\ valid /\ (Saved(c, req[r].current) \/ SavedAndClosed(c))
      \/ open' = (IF c = NULL THEN open ELSE Close(c)) /\ UNCHANGED cache

\* ngx_http_upstream_keepalive_close_handler: the server closes an idle one.
CloseIdle(i) ==
  /\ cache' = RemoveAt(cache, i) /\ open' = Close(cache[i].conn)
  /\ UNCHANGED <<conf, peer, at, req, now, probe>>

-----------------------------------------------------------------------------
(* ngx_http_upstream_free_round_robin_peer                                 *)

\* Failures are counted up to max_fails, which is all that is asked of them.
Failed(p) ==
  LET mf == conf.maxFails[p]
  IN  [peer[p] EXCEPT !.conns = @ - 1, !.fails = Min({@ + 1, mf}),
                      !.accessed = now, !.checked = now,
                      !.effective = IF mf = 0 THEN @ ELSE Max({0, @ - (conf.weight[p] \div mf)})]

Succeeded(p) ==
  [peer[p] EXCEPT !.conns = @ - 1,
                  !.fails = IF peer[p].accessed < peer[p].checked THEN 0 ELSE @]

Freed(p, failed) ==
  IF Single THEN [peer[p] EXCEPT !.conns = @ - 1]
  ELSE IF failed THEN Failed(p) ELSE Succeeded(p)

\* pc->tries afterwards
TriesLeft(r) == IF Single \/ req[r].tries = 0 THEN 0 ELSE req[r].tries - 1

-----------------------------------------------------------------------------
(* A request                                                               *)

Fresh == [group |-> 1, tried |-> {}, current |-> NULL,
          tries |-> 0, conn |-> NULL, cached |-> FALSE, addr |-> FALSE]

Goto(r, to) == at' = [at EXCEPT ![r] = to]

\* ngx_http_upstream_init_round_robin_peer
Begin(r) ==
  /\ at[r] = "idle" /\ Goto(r, "get")
  /\ req' = [req EXCEPT ![r] =
       [Fresh EXCEPT
          !.tries = Len(conf.groups[1]) + (IF HasBackup THEN Len(conf.groups[2]) ELSE 0)]]
  /\ UNCHANGED <<conf, peer, cache, open, now, probe>>

\* The request has ended.
Done(r) ==
  Goto(r, "idle") /\ req' = [req EXCEPT ![r] = Fresh] /\ probe' = [probe EXCEPT ![r] = Never]

\* ngx_http_upstream_get_round_robin_peer fails in both groups: "no live
\* upstreams".
GetBusy(r) ==
  /\ at[r] = "get" /\ Eligible(req[r].group, req[r].tried) = {}
  /\ (req[r].group = 1 /\ HasBackup) => Eligible(2, {}) = {}
  /\ Done(r) /\ UNCHANGED <<conf, peer, cache, open, now>>

\* The most recent idle connection to p, or 0.
Reusable(p) ==
  LET I == {i \in DOMAIN cache : cache[i].peer = p}
  IN  IF I = {} THEN 0 ELSE Min(I)

\* Mutated form of Tried: the bit is not set.
Tried_not(tried, p) == tried

\* rrp->tried[n] |= m
Tried(tried, p) == tried \cup {p}

\* A peer is chosen, a backup when no primary is left, and an idle connection to
\* it is taken from the cache if there is one.
Get(r) ==
  LET q == req[r]
      backup == Eligible(q.group, q.tried) = {}
      g == IF backup THEN 2 ELSE q.group
      tried == IF backup THEN {} ELSE q.tried
      E == Eligible(g, tried)
      b == Weighed(g, E).best
      i == Reusable(b)
  IN  /\ at[r] = "get" /\ (backup => q.group = 1 /\ HasBackup)
      /\ E # {} /\ Goto(r, IF i = 0 THEN "connect" ELSE "connected")
      /\ peer' = IF Single THEN [peer EXCEPT ![b].conns = @ + 1] ELSE Chosen(g, E)
      /\ req' = [req EXCEPT ![r] =
           [q EXCEPT !.group = g, !.tried = Tried(tried, b), !.current = b, !.addr = TRUE,
                     !.conn = IF i = 0 THEN NULL ELSE cache[i].conn, !.cached = i # 0]]
      /\ cache' = IF i = 0 THEN cache ELSE RemoveAt(cache, i)
      /\ probe' = [probe EXCEPT ![r] =
           IF ~Single /\ conf.maxFails[b] > 0 /\ peer[b].fails >= conf.maxFails[b]
           THEN now ELSE Never]
      /\ UNCHANGED <<conf, open, now>>

\* ngx_event_connect_peer has a socket that connects.
Connect(r) ==
  LET c == Min(Conn \ DOMAIN open)
  IN  /\ at[r] = "connect" /\ Goto(r, "connected")
      /\ req' = [req EXCEPT ![r].conn = c]
      /\ open' = [d \in DOMAIN open \cup {c} |-> IF d = c THEN req[r].current ELSE open[d]]
      /\ UNCHANGED <<conf, peer, cache, now, probe>>

\* ngx_http_upstream_finalize_request: a response, an error of our own, or a
\* client that has gone.
Finalize(r) ==
  /\ at[r] \in {"connect", "connected"}
  /\ peer' = [peer EXCEPT ![req[r].current] = Freed(req[r].current, FALSE)]
  /\ Dispose(r, at[r] = "connected") /\ Done(r)
  /\ UNCHANGED <<conf, now>>

\* An idle connection the server has closed meanwhile does not cost a try.
Tries(r, ft) ==
  TriesLeft(r) + (IF req[r].cached /\ ft = "error" THEN 1 ELSE 0)

\* ngx_http_upstream_next: the peer is given back, failed unless it answered 403
\* or 404, and the request ends or goes on to the next peer (what peer.get sets
\* anew is not kept until then).
TryNext(r, ft) ==
  LET p == req[r].current
      failed == ft # "notfound"
      tries == Tries(r, ft)
  IN  /\ at[r] = "connected" \/ (at[r] = "connect" /\ ft = "error")
      /\ peer' = [peer EXCEPT ![p] = Freed(p, failed)]
      /\ Dispose(r, ~failed)
      /\ \/ Done(r)                    \* next_upstream does not allow another
         \/ /\ tries > 0 /\ Goto(r, "get")
            /\ req' = [req EXCEPT ![r] = [@ EXCEPT !.tries = tries, !.addr = FALSE,
                         !.conn = NULL, !.current = NULL, !.cached = FALSE]]
            /\ probe' = [probe EXCEPT ![r] = Never]
      /\ UNCHANGED <<conf, now>>

Tick ==
  /\ now < MaxTime /\ now' = now + 1
  /\ UNCHANGED <<conf, peer, at, req, cache, open, probe>>

-----------------------------------------------------------------------------
UpstreamInit ==
  /\ conf \in Configs
  /\ peer = [p \in Peer |-> [conns |-> 0, fails |-> 0, current |-> 0, checked |-> 0,
                             accessed |-> 0, effective |-> conf.weight[p]]]
  /\ at = [r \in Req |-> "idle"] /\ req = [r \in Req |-> Fresh] /\ cache = <<>> /\ open = <<>>
  /\ now = FailTimeout + 1 /\ probe = [r \in Req |-> Never]

Serve(r) ==
  \/ Get(r) \/ GetBusy(r) \/ Connect(r) \/ Finalize(r)
  \/ \E ft \in {"error", "timeout", "notfound"} : TryNext(r, ft)

UpstreamNext ==
  \/ \E r \in Req : Begin(r) \/ Serve(r)
  \/ \E i \in DOMAIN cache : CloseIdle(i)
  \/ Tick

UpstreamSpec == UpstreamInit /\ [][UpstreamNext]_upVars

Points == {"idle", "get", "connect", "connected"}

\* A request that is not idle goes on: no step of another request changes at[r],
\* and every step of Serve(r) does.
Onward(r) ==
  at[r] # "idle" /\ \E to \in Points \ {at[r]} : Goto(r, to)

\* Timeouts end every wait for an upstream server.
UpstreamFairSpec == UpstreamSpec /\ \A r \in Req : WF_at(Onward(r))

-----------------------------------------------------------------------------
(* Properties.                                                             *)

\* A peer's conns counts the requests that were given it and have not given it
\* back, so that max_conns is neither exceeded nor used up for ever.
ConnsCounted ==
  \A p \in Peer :
    /\ peer[p].conns = Cardinality({r \in Req : req[r].addr /\ req[r].current = p})
    /\ conf.maxConns[p] > 0 => peer[p].conns <= conf.maxConns[p]

Held(c) == {r \in Req : req[r].conn = c}
Kept(c) == {i \in DOMAIN cache : cache[i].conn = c}

\* Every open connection has one owner, a request or the cache, and a closed one
\* has none: nothing leaks, no connection is closed or used twice, the cache
\* keeps within its limit, and a request talks to the peer it was given.
ConnectionsOwned ==
  /\ \A c \in Conn :
       Cardinality(Held(c)) + Cardinality(Kept(c)) = IF c \in DOMAIN open THEN 1 ELSE 0
  /\ \A r \in Req : req[r].conn \in DOMAIN open => open[req[r].conn] = req[r].current
  /\ \A i \in DOMAIN cache : open[cache[i].conn] = cache[i].peer
  /\ Len(cache) <= MaxCached

\* What a choice gives to the weights it takes away again: current weights do
\* not drift, whatever fails, is skipped or comes back.
WeightsBalanced ==
  \A g \in DOMAIN conf.groups :
    SumFunctionOnSet([p \in Peer |-> peer[p].current], Members(g)) = 0

\* A peer that has failed too often is probed by one request per fail_timeout,
\* not by all of those that come in when it has passed.
OneProbe ==
  \A r, s \in Req :
    r # s /\ probe[r] # Never /\ probe[s] # Never /\ req[r].current = req[s].current
      => probe[r] - probe[s] > FailTimeout \/ probe[s] - probe[r] > FailTimeout

\* Every request ends, though idle connections that fail cost it no try.  (With a
\* single server it may go on as long as others fill the cache with connections
\* that the server then closes.)
RequestEnds ==
  \A r \in Req : (at[r] = "get" /\ ~Single) ~> at[r] = "idle"
=============================================================================
