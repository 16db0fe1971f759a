--------------------------- MODULE UpstreamProofs ---------------------------
(***************************************************************************)
(* The round robin balancer and the cache of idle connections, for every   *)
(* number of requests, every configuration and every size of the cache.    *)
(***************************************************************************)
EXTENDS Upstream, DataLemmas

PeerType ==
  [conns : Int, fails : Int, current : Int, checked : Int, accessed : Int, effective : Int]

ReqType ==
  [group : 1..2, tried : SUBSET Peer, current : Peer \cup {NULL}, tries : Int,
   conn : Conn \cup {NULL}, cached : BOOLEAN, addr : BOOLEAN]

Item == [conn : Conn, peer : Peer]

\* The types of the variables; open is a function on some of the connections.
UpstreamType ==
  /\ conf \in Configs
  /\ peer \in [Peer -> PeerType]
  /\ at \in [Req -> Points]
  /\ req \in [Req -> ReqType]
  /\ \A r \in Req : req[r].group \in 1..Len(conf.groups)
  /\ cache \in Seq(Item)
  /\ DOMAIN open \subseteq Conn /\ \A c \in DOMAIN open : open[c] \in Peer
  /\ now \in Nat
  /\ probe \in [Req -> Int]

-----------------------------------------------------------------------------
(* The choice of a peer.                                                   *)

\* What a configuration is made of.
LEMMA ConfIs ==
  ASSUME UpstreamType
  PROVE  /\ Len(conf.groups) \in {1, 2}
         /\ HasBackup <=> Len(conf.groups) = 2
         /\ DOMAIN conf.groups = 1..Len(conf.groups)
         /\ \A g \in 1..Len(conf.groups) :
              /\ conf.groups[g] \in Seq(Peer) /\ conf.groups[g] # <<>>
              /\ Members(g) = {conf.groups[g][i] : i \in 1..Len(conf.groups[g])}
              /\ Members(g) \subseteq Peer
         /\ \A p \in Peer : /\ conf.weight[p] \in Nat /\ conf.maxFails[p] \in Nat
                            /\ conf.maxConns[p] \in Nat
<1>1. /\ conf.groups \in Seq(Seq(Peer)) /\ Len(conf.groups) \in 1..2
      /\ \A g \in 1..Len(conf.groups) : conf.groups[g] \in Seq(Peer) /\ conf.groups[g] # <<>>
      /\ \A p \in Peer : /\ conf.weight[p] \in Nat /\ conf.maxFails[p] \in Nat
                         /\ conf.maxConns[p] \in Nat
  BY ConfigsAssumption DEF UpstreamType
<1>2. ASSUME NEW g \in 1..Len(conf.groups)
      PROVE  /\ Members(g) = {conf.groups[g][i] : i \in 1..Len(conf.groups[g])}
             /\ Members(g) \subseteq Peer
  BY <1>1 DEF Members, ToSet
<1> QED BY <1>1, <1>2 DEF HasBackup

\* The best peer is one of those to choose from.
LEMMA BestIn ==
  ASSUME UpstreamType, NEW g \in 1..Len(conf.groups),
         NEW E, E \subseteq Members(g), E # {}, NEW w, \A p \in E : w[p] \in Int
  PROVE  Best(g, E, w) \in E
<1> DEFINE s == conf.groups[g]
           top == {i \in DOMAIN s : s[i] \in E /\ \A p \in E : w[s[i]] >= w[p]}
<1>1. s \in Seq(Peer) /\ Members(g) = {s[i] : i \in 1..Len(s)} /\ DOMAIN s = 1..Len(s)
  <2>1. s \in Seq(Peer) /\ Members(g) = {s[i] : i \in 1..Len(s)}
    BY ConfIs
  <2>2. DOMAIN s = 1..Len(s)
    BY <2>1
  <2> QED BY <2>1, <2>2
<1>2. \E i \in 1..Len(s) : s[i] \in E
  BY <1>1
<1>3. PICK i \in 1..Len(s) : /\ s[i] \in E
                             /\ \A j \in 1..Len(s) : s[j] \in E => w[s[i]] >= w[s[j]]
  BY <1>1, <1>2, GreatestAt
<1>4. \A p \in E : w[s[i]] >= w[p]
  BY <1>1, <1>3
<1>5. i \in top /\ top \in SUBSET Nat
  BY <1>1, <1>3, <1>4
<1>6. Min(top) \in top
  BY <1>5, MinNat
<1> QED BY <1>6 DEF Best

\* What every eligible peer gains, the best of them loses.
LEMMA WeighedIs ==
  ASSUME UpstreamType, NEW g \in 1..Len(conf.groups),
         NEW E, E \subseteq Members(g), E # {}
  PROVE  LET W == Weighed(g, E)
             total == SumFunctionOnSet([p \in E |-> peer[p].effective], E)
         IN  /\ W.best \in E /\ total \in Int
             /\ \A p \in E :
                  W.current[p] = IF p = W.best
                                 THEN peer[p].current + peer[p].effective - total
                                 ELSE peer[p].current + peer[p].effective
<1> DEFINE w == [p \in E |-> peer[p].current + peer[p].effective]
           f == [p \in E |-> peer[p].effective]
           total == SumFunctionOnSet(f, E)
           b == Best(g, E, w)
<1>1. /\ \A p \in E : peer[p].current \in Int /\ peer[p].effective \in Int
      /\ IsFiniteSet(E)
  <2>1. Members(g) \subseteq Peer /\ conf.groups[g] \in Seq(Peer)
        /\ Members(g) = {conf.groups[g][i] : i \in 1..Len(conf.groups[g])}
    BY ConfIs
  <2>2. IsFiniteSet(Members(g))
    <3> DEFINE s == conf.groups[g]
               h == [i \in 1..Len(s) |-> s[i]]
    <3>1. IsFiniteSet(1..Len(s))
      BY <2>1, FS_Interval
    <3>2. h \in Surjection(1..Len(s), Members(g))
      BY <2>1 DEF Surjection
    <3> QED BY <3>1, <3>2, FS_Surjection
  <2>3. IsFiniteSet(E)
    BY <2>2, FS_Subset
  <2> QED BY <2>1, <2>3 DEF UpstreamType, PeerType
<1>2. \A p \in E : w[p] \in Int
  BY <1>1
<1>3. b \in E
  BY <1>2, BestIn
<1>4. \A p \in E : f[p] \in Int
  BY <1>1
<1>5. total \in Int
  BY <1>1, <1>4, SumInt
<1>6. Weighed(g, E) = [best |-> b, current |-> [w EXCEPT ![b] = @ - total]]
  BY DEF Weighed
<1> HIDE DEF b, total
<1>7. /\ Weighed(g, E).best = b
      /\ Weighed(g, E).current = [w EXCEPT ![b] = w[b] - total]
  BY <1>6
<1>8. \A p \in E : Weighed(g, E).current[p] = IF p = b THEN w[p] - total ELSE w[p]
  BY <1>3, <1>7
<1>9. \A p \in E : w[p] = peer[p].current + peer[p].effective
  OBVIOUS
<1>10. \A p \in E : Weighed(g, E).current[p] =
                     IF p = b THEN peer[p].current + peer[p].effective - total
                     ELSE peer[p].current + peer[p].effective
  BY <1>1, <1>5, <1>8
<1>11. total = SumFunctionOnSet([p \in E |-> peer[p].effective], E)
  BY DEF total
<1> HIDE DEF w, f
<1> QED BY <1>3, <1>5, <1>7, <1>10, <1>11

\* A peer with one field changed.
LEMMA PeerField ==
  ASSUME NEW q \in PeerType, NEW v \in Int
  PROVE  /\ [q EXCEPT !.conns = v] \in PeerType
         /\ [q EXCEPT !.fails = v] \in PeerType
         /\ [q EXCEPT !.current = v] \in PeerType
         /\ [q EXCEPT !.checked = v] \in PeerType
         /\ [q EXCEPT !.accessed = v] \in PeerType
         /\ [q EXCEPT !.effective = v] \in PeerType
BY DEF PeerType

\* A peer with one connection more or less.
LEMMA PeerConns ==
  ASSUME NEW q \in PeerType, NEW n \in Int
  PROVE  LET t == [q EXCEPT !.conns = n]
         IN  /\ t \in PeerType /\ t.conns = n /\ t.checked = q.checked /\ t.current = q.current
             /\ t.fails = q.fails
<1> DEFINE t == [q EXCEPT !.conns = n]
<1>1. t \in PeerType
  BY PeerField
<1> QED BY <1>1 DEF PeerType

\* Chosen(g, E) for every peer; w is what Weighed has found.
LEMMA ChosenIs ==
  ASSUME UpstreamType, NEW g \in 1..Len(conf.groups),
         NEW E, E \subseteq Members(g), E # {}
  PROVE  LET b == Weighed(g, E).best
             new == Chosen(g, E)
         IN  /\ new \in [Peer -> PeerType]
             /\ \A p \in Peer :
                  /\ new[p].conns = IF p = b THEN peer[p].conns + 1 ELSE peer[p].conns
                  /\ new[p].checked = IF p = b /\ now - peer[p].checked > FailTimeout
                                      THEN now ELSE peer[p].checked
                  /\ new[p].fails = peer[p].fails
                  /\ new[p].current = IF p \in E THEN Weighed(g, E).current[p]
                                      ELSE peer[p].current
<1> DEFINE W == Weighed(g, E)
           b == W.best
           new == Chosen(g, E)
           x(p) == [peer[p] EXCEPT
                      !.current = W.current[p],
                      !.effective = Min({@ + 1, conf.weight[p]}),
                      !.conns = IF p = W.best THEN @ + 1 ELSE @,
                      !.checked = IF p = W.best /\ now - @ > FailTimeout THEN now ELSE @]
<1>1. /\ b \in E /\ E \subseteq Peer
      /\ \A p \in E : W.current[p] \in Int
  <2> DEFINE total == SumFunctionOnSet([p \in E |-> peer[p].effective], E)
  <2>2. /\ b \in E /\ total \in Int
        /\ \A p \in E : W.current[p] = IF p = b
                                       THEN peer[p].current + peer[p].effective - total
                                       ELSE peer[p].current + peer[p].effective
    BY WeighedIs, Zenon
  <2> HIDE DEF total
  <2>3. \A p \in E : W.current[p] \in Int
    <3>1. \A p \in E : peer[p].current \in Int /\ peer[p].effective \in Int
      BY ConfIs DEF UpstreamType, PeerType
    <3> QED BY <2>2, <3>1
  <2> QED BY <2>2, <2>3, ConfIs
<1>2. new = [p \in Peer |-> IF p \notin E THEN peer[p] ELSE x(p)]
  BY DEF Chosen
<1> HIDE DEF W
<1>3. ASSUME NEW p \in E
      PROVE  /\ x(p) \in PeerType
             /\ x(p).conns = IF p = b THEN peer[p].conns + 1 ELSE peer[p].conns
             /\ x(p).checked = IF p = b /\ now - peer[p].checked > FailTimeout
                               THEN now ELSE peer[p].checked
             /\ x(p).fails = peer[p].fails
             /\ x(p).current = W.current[p]
  <2>1. peer[p] \in PeerType /\ W.current[p] \in Int /\ now \in Int /\ p \in Peer
    BY <1>1 DEF UpstreamType
  <2>2. Min({peer[p].effective + 1, conf.weight[p]}) \in Int
    <3>1. peer[p].effective + 1 \in Int /\ conf.weight[p] \in Int
      BY <2>1, ConfIs DEF PeerType
    <3> QED BY <3>1, MinMaxPair
  <2> DEFINE e == Min({peer[p].effective + 1, conf.weight[p]})
             n == IF p = b THEN peer[p].conns + 1 ELSE peer[p].conns
             k == IF p = b /\ now - peer[p].checked > FailTimeout THEN now ELSE peer[p].checked
  <2>3. n \in Int /\ k \in Int /\ e \in Int
    BY <2>1, <2>2 DEF PeerType
  <2> DEFINE q == peer[p]
             c == W.current[p]
             t == [q EXCEPT !.current = c, !.effective = e, !.conns = n, !.checked = k]
  <2>4. x(p) = t
    OBVIOUS
  <2> HIDE DEF e, n, k, x, q, c
  <2>5. q \in PeerType /\ c \in Int
    BY <2>1 DEF q, c
  <2>6. /\ t \in PeerType /\ t.conns = n /\ t.checked = k
        /\ t.fails = q.fails /\ t.current = c
    <3>1. t \in PeerType
      BY <2>3, <2>5, PeerField
    <3> QED BY <2>5, <3>1 DEF PeerType
  <2> HIDE DEF t
  <2> QED BY <2>4, <2>6 DEF n, k, q, c
<1> HIDE DEF x
<1>4. \A p \in Peer : peer[p] \in PeerType
  BY DEF UpstreamType
<1> HIDE DEF new
<1>5. new \in [Peer -> PeerType]
  BY <1>2, <1>3, <1>4
<1> QED BY <1>1, <1>2, <1>3, <1>5 DEF W, new

\* A peer that a request gives back.
LEMMA FreedIs ==
  ASSUME UpstreamType, NEW p \in Peer, NEW failed \in BOOLEAN
  PROVE  /\ Freed(p, failed) \in PeerType
         /\ Freed(p, failed).conns = peer[p].conns - 1
         /\ Freed(p, failed).current = peer[p].current
         /\ Freed(p, failed).checked \in {peer[p].checked, now}
<1>1. peer[p] \in PeerType /\ now \in Int /\ conf.weight[p] \in Nat /\ conf.maxFails[p] \in Nat
  BY ConfIs DEF UpstreamType
<1>2. peer[p].conns - 1 \in Int /\ peer[p].fails \in Int
  BY <1>1 DEF PeerType
<1>3. CASE Single
  <2> DEFINE n == peer[p].conns - 1
  <2>1. Freed(p, failed) = [peer[p] EXCEPT !.conns = n]
    BY <1>3 DEF Freed
  <2>2. n \in Int
    BY <1>2
  <2> HIDE DEF n
  <2>3. /\ Freed(p, failed) \in PeerType /\ Freed(p, failed).conns = n
        /\ Freed(p, failed).checked = peer[p].checked
        /\ Freed(p, failed).current = peer[p].current
    BY <1>1, <2>1, <2>2, PeerConns
  <2> QED BY <2>3 DEF n
<1>4. CASE ~Single /\ failed
  <2> DEFINE mf == conf.maxFails[p]
             f == Min({peer[p].fails + 1, mf})
             d == peer[p].effective - (conf.weight[p] \div mf)
             e == IF mf = 0 THEN peer[p].effective ELSE Max({0, d})
             n == peer[p].conns - 1
  <2>1. f \in Int
    <3>1. peer[p].fails + 1 \in Int /\ mf \in Int
      BY <1>1 DEF PeerType
    <3> QED BY <3>1, MinMaxPair
  <2>2. e \in Int
    <3>1. CASE mf = 0
      BY <1>1, <3>1 DEF PeerType
    <3>2. CASE mf # 0
      <4>1. conf.weight[p] \div mf \in Int /\ peer[p].effective \in Int
        BY <1>1, <3>2 DEF PeerType
      <4>2. d \in Int
        BY <4>1
      <4> HIDE DEF d
      <4>3. Max({0, d}) \in Int
        <5>1. 0 \in Int
          OBVIOUS
        <5> QED BY <4>2, <5>1, MinMaxPair
      <4> QED BY <3>2, <4>3
    <3> QED BY <3>1, <3>2
  <2> DEFINE q == peer[p]
             t == [q EXCEPT !.conns = n, !.fails = f, !.accessed = now, !.checked = now,
                            !.effective = e]
  <2>3. Freed(p, failed) = t
    BY <1>4 DEF Freed, Failed
  <2>4. n \in Int /\ q \in PeerType
    BY <1>1, <1>2
  <2> HIDE DEF f, e, n, q
  <2>5. t \in PeerType /\ t.conns = n /\ t.checked = now /\ t.current = q.current
    <3>1. t \in PeerType
      BY <1>1, <2>1, <2>2, <2>4, PeerField
    <3> QED BY <2>4, <3>1 DEF PeerType
  <2> HIDE DEF t
  <2> QED BY <2>3, <2>5 DEF n, q
<1>5. CASE ~Single /\ ~failed
  <2> DEFINE n == peer[p].conns - 1
             f == IF peer[p].accessed < peer[p].checked THEN 0 ELSE peer[p].fails
             q == peer[p]
             t == [q EXCEPT !.conns = n, !.fails = f]
  <2>1. Freed(p, failed) = t
    BY <1>5 DEF Freed, Succeeded
  <2>2. n \in Int /\ f \in Int /\ q \in PeerType
    BY <1>1, <1>2
  <2> HIDE DEF n, f, q
  <2>3. t \in PeerType /\ t.conns = n /\ t.checked = q.checked /\ t.current = q.current
    <3>1. t \in PeerType
      BY <2>2, PeerField
    <3> QED BY <2>2, <3>1 DEF PeerType
  <2> HIDE DEF t
  <2> QED BY <2>1, <2>3 DEF n, q
<1> QED BY <1>3, <1>4, <1>5

-----------------------------------------------------------------------------
(* Who owns a connection, for the connections held by the requests, the    *)
(* cache ca and the open connections op.                                   *)

Owns(held, ca, op) ==
  /\ held \in [Req -> Conn \cup {NULL}] /\ ca \in Seq(Item)
  /\ DOMAIN op \subseteq Conn /\ \A c \in DOMAIN op : op[c] \in Peer
  /\ \A r \in Req : held[r] # NULL => held[r] \in DOMAIN op
  /\ \A r, s \in Req : r # s /\ held[r] = held[s] => held[r] = NULL
  /\ \A i \in 1..Len(ca) : /\ ca[i].conn \in DOMAIN op /\ op[ca[i].conn] = ca[i].peer
                           /\ \A r \in Req : held[r] # ca[i].conn
                           /\ \A j \in 1..Len(ca) : ca[i].conn = ca[j].conn => i = j
  /\ \A c \in DOMAIN op : \/ \E r \in Req : held[r] = c
                          \/ \E i \in 1..Len(ca) : ca[i].conn = c

\* The connections without those in C.
Less(op, C) == [d \in DOMAIN op \ C |-> op[d]]

\* The connections are numbers, and NULL is none of them.
LEMMA ConnIs ==
  /\ Cardinality(Req) \in Nat /\ MaxCached \in Nat /\ NULL \notin Conn
  /\ Conn = 1..(Cardinality(Req) + MaxCached + 1) /\ Conn \subseteq Nat
<1>1. Cardinality(Req) \in Nat
  BY UpstreamAssumption, FS_CardinalityType
<1> QED BY <1>1, UpstreamAssumption DEF Conn

\* A request closes its connection.
LEMMA OwnsClose ==
  ASSUME NEW held, NEW ca, NEW op, Owns(held, ca, op), NEW r \in Req, held[r] # NULL
  PROVE  Owns([held EXCEPT ![r] = NULL], ca, Less(op, {held[r]}))
<1> DEFINE h == [held EXCEPT ![r] = NULL]
           o == Less(op, {held[r]})
<1>1. /\ h \in [Req -> Conn \cup {NULL}]
      /\ \A s \in Req : h[s] = IF s = r THEN NULL ELSE held[s]
  BY DEF Owns
<1>2. /\ DOMAIN o = DOMAIN op \ {held[r]}
      /\ \A d \in DOMAIN o : o[d] = op[d]
  BY DEF Less
<1> HIDE DEF h, o
<1>3. \A s \in Req : h[s] # NULL => h[s] \in DOMAIN o
  BY <1>1, <1>2 DEF Owns
<1>4. \A s, q \in Req : s # q /\ h[s] = h[q] => h[s] = NULL
  BY <1>1 DEF Owns
<1>5. \A i \in 1..Len(ca) : /\ ca[i].conn \in DOMAIN o /\ o[ca[i].conn] = ca[i].peer
                            /\ \A s \in Req : h[s] # ca[i].conn
                            /\ \A j \in 1..Len(ca) : ca[i].conn = ca[j].conn => i = j
  <2>1. \A i \in 1..Len(ca) : ca[i].conn \in Conn /\ ca[i].conn # held[r]
    BY DEF Owns, Item
  <2> QED BY <1>1, <1>2, <2>1, ConnIs DEF Owns
<1>6. \A c \in DOMAIN o : \/ \E s \in Req : h[s] = c
                          \/ \E i \in 1..Len(ca) : ca[i].conn = c
  BY <1>1, <1>2 DEF Owns
<1>7. DOMAIN o \subseteq Conn /\ \A c \in DOMAIN o : o[c] \in Peer
  BY <1>2 DEF Owns
<1> QED BY <1>1, <1>3, <1>4, <1>5, <1>6, <1>7 DEF Owns, h, o

\* A request leaves its connection to the cache.
LEMMA OwnsSave ==
  ASSUME NEW held, NEW ca, NEW op, Owns(held, ca, op), NEW r \in Req, held[r] # NULL
  PROVE  Owns([held EXCEPT ![r] = NULL],
              <<[conn |-> held[r], peer |-> op[held[r]]]>> \o ca, op)
<1> DEFINE h == [held EXCEPT ![r] = NULL]
           x == [conn |-> held[r], peer |-> op[held[r]]]
           cb == <<x>> \o ca
<1>1. /\ h \in [Req -> Conn \cup {NULL}]
      /\ \A s \in Req : h[s] = IF s = r THEN NULL ELSE held[s]
  BY DEF Owns
<1>2. x \in Item /\ x.conn = held[r] /\ x.peer = op[held[r]]
  BY DEF Owns, Item
<1> HIDE DEF h, x
<1>3. ca \in Seq(Item) /\ Len(ca) \in Nat
  BY DEF Owns
<1>4. /\ cb \in Seq(Item) /\ Len(cb) = Len(ca) + 1 /\ cb[1] = x
      /\ \A j \in 2..(Len(ca) + 1) : cb[j] = ca[j - 1]
  BY <1>2, <1>3, PushIs
<1> HIDE DEF cb
<1>5. /\ \A j \in 1..Len(cb) : j = 1 \/ (j \in 2..(Len(ca) + 1) /\ j - 1 \in 1..Len(ca))
      /\ \A i \in 1..Len(ca) : /\ i + 1 \in 2..(Len(ca) + 1) /\ i + 1 \in 1..Len(cb)
                               /\ (i + 1) - 1 = i
  BY <1>3, <1>4
<1>6. \A i \in 1..Len(ca) : ca[i].conn \in Conn /\ ca[i].conn # held[r]
  BY DEF Owns, Item
<1>7. ASSUME NEW j \in 1..Len(cb)
      PROVE  /\ cb[j].conn \in DOMAIN op /\ op[cb[j].conn] = cb[j].peer
             /\ \A s \in Req : h[s] # cb[j].conn
  <2>1. CASE j = 1
    <3>1. cb[j].conn = held[r] /\ cb[j].peer = op[held[r]] /\ held[r] \in DOMAIN op
      BY <1>2, <1>4, <2>1 DEF Owns
    <3>2. \A s \in Req : h[s] # held[r]
      BY <1>1 DEF Owns
    <3> QED BY <3>1, <3>2
  <2>2. CASE j # 1
    <3>1. cb[j] = ca[j - 1] /\ j - 1 \in 1..Len(ca)
      BY <1>4, <1>5, <2>2
    <3> QED BY <1>1, <1>6, <3>1, ConnIs DEF Owns
  <2> QED BY <2>1, <2>2
<1>8. ASSUME NEW i \in 1..Len(cb), NEW j \in 1..Len(cb), cb[i].conn = cb[j].conn
      PROVE  i = j
  <2>1. CASE i = 1 /\ j # 1
    <3>1. cb[j] = ca[j - 1] /\ j - 1 \in 1..Len(ca) /\ cb[i].conn = held[r]
      BY <1>2, <1>4, <1>5, <2>1
    <3> QED BY <1>6, <1>8, <3>1
  <2>2. CASE i # 1 /\ j = 1
    <3>1. cb[i] = ca[i - 1] /\ i - 1 \in 1..Len(ca) /\ cb[j].conn = held[r]
      BY <1>2, <1>4, <1>5, <2>2
    <3> QED BY <1>6, <1>8, <3>1
  <2>3. CASE i # 1 /\ j # 1
    <3>1. /\ cb[i] = ca[i - 1] /\ i - 1 \in 1..Len(ca)
          /\ cb[j] = ca[j - 1] /\ j - 1 \in 1..Len(ca)
      BY <1>4, <1>5, <2>3
    <3>2. i - 1 = j - 1
      BY <1>8, <3>1 DEF Owns
    <3> QED BY <3>2
  <2> QED BY <2>1, <2>2, <2>3
<1>9. ASSUME NEW c \in DOMAIN op
      PROVE  (\E s \in Req : h[s] = c) \/ (\E j \in 1..Len(cb) : cb[j].conn = c)
  <2>1. CASE c = held[r]
    <3>1. 1 \in 1..Len(cb) /\ cb[1].conn = c
      BY <1>2, <1>3, <1>4, <2>1
    <3> QED BY <3>1
  <2>2. ASSUME NEW s \in Req, held[s] = c, c # held[r] PROVE \E q \in Req : h[q] = c
    BY <1>1, <2>2
  <2>3. ASSUME NEW i \in 1..Len(ca), ca[i].conn = c
        PROVE  \E j \in 1..Len(cb) : cb[j].conn = c
    <3>1. cb[i + 1] = ca[i] /\ i + 1 \in 1..Len(cb)
      BY <1>4, <1>5
    <3> QED BY <2>3, <3>1
  <2> QED BY <2>1, <2>2, <2>3 DEF Owns
<1>10. /\ \A s \in Req : h[s] # NULL => h[s] \in DOMAIN op
       /\ \A s, q \in Req : s # q /\ h[s] = h[q] => h[s] = NULL
  BY <1>1 DEF Owns
<1>11. Owns(h, cb, op)
  BY <1>1, <1>4, <1>7, <1>8, <1>9, <1>10 DEF Owns
<1> QED BY <1>11 DEF h, x, cb

\* cb is ca without the item at place i.
Without(cb, ca, i) ==
  /\ cb \in Seq(Item) /\ Len(cb) = Len(ca) - 1
  /\ \A j \in 1..Len(cb) : cb[j] = IF j < i THEN ca[j] ELSE ca[j + 1]

\* The items at the other places are left, each at one place.
Left(cb, ca, i) ==
  /\ \A k \in 1..Len(ca) : k = i \/ \E j \in 1..Len(cb) : cb[j] = ca[k]
  /\ \A j \in 1..Len(cb) : \E m \in 1..Len(ca) : m # i /\ cb[j] = ca[m]
  /\ \A j, l \in 1..Len(cb) :
       j # l => \E m, n \in 1..Len(ca) : m # n /\ cb[j] = ca[m] /\ cb[l] = ca[n]

\* What Without leaves.
LEMMA Remaining ==
  ASSUME NEW ca \in Seq(Item), NEW cb, NEW i \in 1..Len(ca), Without(cb, ca, i)
  PROVE  Left(cb, ca, i)
<1>1. /\ Len(ca) \in Nat /\ i \in Nat /\ 1 <= i /\ i <= Len(ca) /\ Len(cb) = Len(ca) - 1
      /\ \A j \in 1..Len(cb) : cb[j] = IF j < i THEN ca[j] ELSE ca[j + 1]
  BY DEF Without
<1>2. ASSUME NEW k \in 1..Len(ca), k # i
      PROVE  \E j \in 1..Len(cb) : cb[j] = ca[k]
  <2>1. CASE k < i
    <3>1. k \in 1..Len(cb) /\ cb[k] = ca[k]
      BY <1>1, <2>1
    <3> QED BY <3>1
  <2>2. CASE ~(k < i)
    <3>1. k - 1 \in 1..Len(cb) /\ ~(k - 1 < i) /\ (k - 1) + 1 = k
      BY <1>1, <1>2, <2>2
    <3>2. cb[k - 1] = ca[k]
      BY <1>1, <3>1
    <3> QED BY <3>1, <3>2
  <2> QED BY <2>1, <2>2
<1>3. ASSUME NEW j \in 1..Len(cb), NEW l \in 1..Len(cb)
      PROVE  /\ \E m \in 1..Len(ca) : m # i /\ cb[j] = ca[m]
             /\ j # l => \E m, n \in 1..Len(ca) : m # n /\ cb[j] = ca[m] /\ cb[l] = ca[n]
  <2> DEFINE m == IF j < i THEN j ELSE j + 1
             n == IF l < i THEN l ELSE l + 1
  <2>1. /\ m \in 1..Len(ca) /\ n \in 1..Len(ca) /\ m # i /\ n # i /\ (m = n => j = l)
    BY <1>1
  <2>2. cb[j] = ca[m] /\ cb[l] = ca[n]
    BY <1>1
  <2> HIDE DEF m, n
  <2> QED BY <2>1, <2>2
<1> QED BY <1>2, <1>3 DEF Left

\* An item leaves the cache and its connection is closed.
LEMMA OwnsEvict ==
  ASSUME NEW held, NEW ca, NEW op, Owns(held, ca, op), NEW i \in 1..Len(ca),
         NEW cb, Without(cb, ca, i)
  PROVE  Owns(held, cb, Less(op, {ca[i].conn}))
<1> DEFINE o == Less(op, {ca[i].conn})
<1>0. /\ \A k \in 1..Len(ca) : /\ ca[k].conn \in DOMAIN op /\ op[ca[k].conn] = ca[k].peer
                               /\ \A s \in Req : held[s] # ca[k].conn
      /\ \A k, m \in 1..Len(ca) : ca[k].conn = ca[m].conn => k = m
      /\ \A d \in DOMAIN op : (\E s \in Req : held[s] = d) \/ \E k \in 1..Len(ca) : ca[k].conn = d
  BY DEF Owns
<1>1. /\ DOMAIN o = DOMAIN op \ {ca[i].conn}
      /\ \A d \in DOMAIN o : o[d] = op[d]
  BY DEF Less
<1> HIDE DEF o
<1>2. Left(cb, ca, i)
  <2>1. ca \in Seq(Item)
    BY DEF Owns
  <2> QED BY <2>1, Remaining
<1>3. ASSUME NEW j \in 1..Len(cb)
      PROVE  /\ cb[j].conn \in DOMAIN o /\ o[cb[j].conn] = cb[j].peer
             /\ \A s \in Req : held[s] # cb[j].conn
  <2>1. PICK m \in 1..Len(ca) : m # i /\ cb[j] = ca[m]
    BY <1>2 DEF Left
  <2>2. ca[m].conn # ca[i].conn
    BY <1>0, <2>1
  <2> QED BY <1>0, <1>1, <2>1, <2>2
<1>4. ASSUME NEW j \in 1..Len(cb), NEW l \in 1..Len(cb), cb[j].conn = cb[l].conn, j # l
      PROVE  FALSE
  <2>1. PICK m \in 1..Len(ca), n \in 1..Len(ca) : m # n /\ cb[j] = ca[m] /\ cb[l] = ca[n]
    BY <1>2, <1>4 DEF Left
  <2> QED BY <1>0, <1>4, <2>1
<1>5. ASSUME NEW c \in DOMAIN o
      PROVE  (\E s \in Req : held[s] = c) \/ (\E j \in 1..Len(cb) : cb[j].conn = c)
  <2>1. c \in DOMAIN op /\ c # ca[i].conn
    BY <1>1
  <2>2. ASSUME NEW k \in 1..Len(ca), ca[k].conn = c PROVE \E j \in 1..Len(cb) : cb[j].conn = c
    <3>1. k # i
      BY <2>1, <2>2
    <3>2. PICK j \in 1..Len(cb) : cb[j] = ca[k]
      BY <1>2, <3>1 DEF Left
    <3> QED BY <2>2, <3>2
  <2> QED BY <1>0, <2>1, <2>2
<1>6. \A s \in Req : held[s] # NULL => held[s] \in DOMAIN o
  BY <1>1 DEF Owns
<1>7. DOMAIN o \subseteq Conn /\ \A c \in DOMAIN o : o[c] \in Peer
  BY <1>1 DEF Owns
<1>8. cb \in Seq(Item)
  BY DEF Without
<1> QED BY <1>3, <1>4, <1>5, <1>6, <1>7, <1>8 DEF Owns, o

\* A request takes a connection from the cache.
LEMMA OwnsTake ==
  ASSUME NEW held, NEW ca, NEW op, Owns(held, ca, op), NEW i \in 1..Len(ca),
         NEW cb, Without(cb, ca, i), NEW r \in Req, held[r] = NULL
  PROVE  Owns([held EXCEPT ![r] = ca[i].conn], cb, op)
<1> DEFINE c == ca[i].conn
           h == [held EXCEPT ![r] = c]
<1>0. /\ \A k \in 1..Len(ca) : /\ ca[k].conn \in DOMAIN op /\ op[ca[k].conn] = ca[k].peer
                               /\ \A s \in Req : held[s] # ca[k].conn
      /\ \A k, m \in 1..Len(ca) : ca[k].conn = ca[m].conn => k = m
      /\ \A d \in DOMAIN op : (\E s \in Req : held[s] = d) \/ \E k \in 1..Len(ca) : ca[k].conn = d
  BY DEF Owns
<1>1. c \in Conn /\ c \in DOMAIN op /\ c # NULL
  BY ConnIs DEF Owns, Item
<1> HIDE DEF c
<1>2. /\ h \in [Req -> Conn \cup {NULL}]
      /\ \A s \in Req : h[s] = IF s = r THEN c ELSE held[s]
  BY <1>1 DEF Owns
<1> HIDE DEF h
<1>3. Left(cb, ca, i)
  <2>1. ca \in Seq(Item)
    BY DEF Owns
  <2> QED BY <2>1, Remaining
<1>4. ASSUME NEW j \in 1..Len(cb)
      PROVE  /\ cb[j].conn \in DOMAIN op /\ op[cb[j].conn] = cb[j].peer
             /\ \A s \in Req : h[s] # cb[j].conn
  <2>1. PICK m \in 1..Len(ca) : m # i /\ cb[j] = ca[m]
    BY <1>3 DEF Left
  <2>2. ca[m].conn # c
    BY <1>0, <2>1 DEF c
  <2> QED BY <1>0, <1>2, <2>1, <2>2
<1>5. ASSUME NEW j \in 1..Len(cb), NEW l \in 1..Len(cb), cb[j].conn = cb[l].conn, j # l
      PROVE  FALSE
  <2>1. PICK m \in 1..Len(ca), n \in 1..Len(ca) : m # n /\ cb[j] = ca[m] /\ cb[l] = ca[n]
    BY <1>3, <1>5 DEF Left
  <2> QED BY <1>0, <1>5, <2>1
<1>6. ASSUME NEW d \in DOMAIN op
      PROVE  (\E s \in Req : h[s] = d) \/ (\E j \in 1..Len(cb) : cb[j].conn = d)
  <2>1. CASE d = c
    BY <1>2, <2>1
  <2>2. ASSUME NEW s \in Req, held[s] = d PROVE \E q \in Req : h[q] = d
    <3>1. d # NULL
      BY ConnIs DEF Owns
    <3> QED BY <1>2, <2>2, <3>1
  <2>3. ASSUME NEW k \in 1..Len(ca), ca[k].conn = d, d # c
        PROVE  \E j \in 1..Len(cb) : cb[j].conn = d
    BY <1>3, <2>3 DEF c, Left
  <2> QED BY <2>1, <2>2, <2>3 DEF Owns
<1>7. /\ \A s \in Req : h[s] # NULL => h[s] \in DOMAIN op
      /\ \A s, q \in Req : s # q /\ h[s] = h[q] => h[s] = NULL
  <2>1. \A s \in Req : held[s] # c
    BY DEF Owns, c
  <2> QED BY <1>1, <1>2, <2>1 DEF Owns
<1>8. cb \in Seq(Item)
  BY DEF Without
<1>9. Owns(h, cb, op)
  BY <1>2, <1>4, <1>5, <1>6, <1>7, <1>8 DEF Owns
<1> QED BY <1>9 DEF h, c

\* A request opens a connection to p.
LEMMA OwnsOpen ==
  ASSUME NEW held, NEW ca, NEW op, Owns(held, ca, op), NEW r \in Req, held[r] = NULL,
         NEW c \in Conn, c \notin DOMAIN op, NEW p \in Peer
  PROVE  Owns([held EXCEPT ![r] = c], ca,
              [d \in DOMAIN op \cup {c} |-> IF d = c THEN p ELSE op[d]])
<1> DEFINE h == [held EXCEPT ![r] = c]
           o == [d \in DOMAIN op \cup {c} |-> IF d = c THEN p ELSE op[d]]
<1>1. /\ h \in [Req -> Conn \cup {NULL}]
      /\ \A s \in Req : h[s] = IF s = r THEN c ELSE held[s]
  BY DEF Owns
<1>2. /\ DOMAIN o = DOMAIN op \cup {c} /\ o[c] = p
      /\ \A d \in DOMAIN op : o[d] = op[d]
  OBVIOUS
<1> HIDE DEF h, o
<1>3. c # NULL
  BY ConnIs
<1>4. /\ \A s \in Req : h[s] # NULL => h[s] \in DOMAIN o
      /\ \A s, q \in Req : s # q /\ h[s] = h[q] => h[s] = NULL
  BY <1>1, <1>2, <1>3 DEF Owns
<1>5. \A i \in 1..Len(ca) : /\ ca[i].conn \in DOMAIN o /\ o[ca[i].conn] = ca[i].peer
                            /\ \A s \in Req : h[s] # ca[i].conn
                            /\ \A j \in 1..Len(ca) : ca[i].conn = ca[j].conn => i = j
  BY <1>1, <1>2 DEF Owns
<1>6. ASSUME NEW d \in DOMAIN o
      PROVE  (\E s \in Req : h[s] = d) \/ (\E i \in 1..Len(ca) : ca[i].conn = d)
  <2>1. CASE d = c
    BY <1>1, <2>1
  <2>2. CASE d # c
    <3>1. d \in DOMAIN op /\ d # NULL
      BY <1>2, <2>2, ConnIs DEF Owns
    <3> QED BY <1>1, <3>1 DEF Owns
  <2> QED BY <2>1, <2>2
<1>7. DOMAIN o \subseteq Conn /\ \A d \in DOMAIN o : o[d] \in Peer
  BY <1>2 DEF Owns
<1>8. Owns(h, ca, o)
  BY <1>1, <1>4, <1>5, <1>6, <1>7 DEF Owns
<1> QED BY <1>8 DEF h, o

\* There is always a connection to open: each request and each place of the
\* cache has one at most.
LEMMA OwnsRoom ==
  ASSUME NEW held, NEW ca, NEW op, Owns(held, ca, op), Len(ca) <= MaxCached
  PROVE  /\ Min(Conn \ DOMAIN op) \in Conn /\ Min(Conn \ DOMAIN op) \notin DOMAIN op
<1> DEFINE A == {held[r] : r \in Req}
           B == {ca[i].conn : i \in 1..Len(ca)}
<1>1. IsFiniteSet(A) /\ Cardinality(A) <= Cardinality(Req)
  <2> DEFINE f == [r \in Req |-> held[r]]
  <2>1. f \in Surjection(Req, A)
    BY DEF Surjection
  <2> HIDE DEF f
  <2> QED BY <2>1, UpstreamAssumption, FS_Surjection
<1>2. IsFiniteSet(B) /\ Cardinality(B) <= Len(ca) /\ Len(ca) \in Nat
  <2> DEFINE f == [i \in 1..Len(ca) |-> ca[i].conn]
  <2>1. f \in Surjection(1..Len(ca), B)
    BY DEF Surjection
  <2>2. Len(ca) \in Nat
    BY DEF Owns
  <2>3. IsFiniteSet(1..Len(ca)) /\ Cardinality(1..Len(ca)) = Len(ca)
    <3> DEFINE n == Len(ca)
    <3>1. n \in Nat
      BY <2>2
    <3> HIDE DEF n
    <3>2. IsFiniteSet(1..n) /\ Cardinality(1..n) = n
      BY <3>1, FS_Interval
    <3> QED BY <3>2 DEF n
  <2> HIDE DEF f, B
  <2> QED BY <2>1, <2>2, <2>3, FS_Surjection
<1>3. DOMAIN op \subseteq A \cup B
  BY DEF Owns
<1> HIDE DEF A, B
<1>4. /\ IsFiniteSet(A \cup B) /\ Cardinality(A \cup B) <= Cardinality(A) + Cardinality(B)
      /\ Cardinality(A) \in Nat /\ Cardinality(B) \in Nat /\ Cardinality(A \cup B) \in Nat
  <2>1. /\ IsFiniteSet(A \cup B) /\ IsFiniteSet(A \cap B)
        /\ Cardinality(A \cup B) = Cardinality(A) + Cardinality(B) - Cardinality(A \cap B)
    BY <1>1, <1>2, FS_Union, FS_Intersection
  <2>2. /\ Cardinality(A) \in Nat /\ Cardinality(B) \in Nat /\ Cardinality(A \cap B) \in Nat
        /\ Cardinality(A \cup B) \in Nat
    BY <1>1, <1>2, <2>1, FS_CardinalityType
  <2> QED BY <2>1, <2>2
<1>5. Conn \ DOMAIN op # {}
  <2> SUFFICES ASSUME Conn \subseteq DOMAIN op PROVE FALSE
    OBVIOUS
  <2>1. Conn \subseteq A \cup B
    BY <1>3
  <2>2. Cardinality(Conn) <= Cardinality(A \cup B)
    BY <1>4, <2>1, FS_Subset
  <2>3. Cardinality(Conn) = Cardinality(Req) + MaxCached + 1
    <3> DEFINE n == Cardinality(Req) + MaxCached + 1
    <3>1. n \in Nat /\ n >= 1 /\ Conn = 1..n
      BY ConnIs
    <3> HIDE DEF n
    <3>2. Cardinality(1..n) = n
      BY <3>1, FS_Interval
    <3> QED BY <3>1, <3>2 DEF n
  <2> QED BY <1>1, <1>2, <1>4, <2>2, <2>3, ConnIs
<1> DEFINE Free == Conn \ DOMAIN op
<1>6. Free \in SUBSET Nat /\ Free # {}
  BY <1>5, ConnIs
<1> HIDE DEF Free
<1>7. Min(Free) \in Free
  BY <1>6, MinNat
<1> QED BY <1>7 DEF Free

-----------------------------------------------------------------------------
(* The inductive invariant.                                                *)

Holds == [r \in Req |-> req[r].conn]

\* What a request has, by how far it is.
RequestInv(r) ==
  /\ at[r] \in {"idle", "get"} => /\ ~req[r].addr /\ req[r].current = NULL
                                  /\ req[r].conn = NULL /\ probe[r] = Never
  /\ at[r] \in {"connect", "connected"} => req[r].addr /\ req[r].current \in Peer
  /\ at[r] = "connect" => req[r].conn = NULL
  /\ at[r] = "connected" => req[r].conn \in DOMAIN open /\ open[req[r].conn] = req[r].current

UpstreamInv ==
  /\ UpstreamType
  /\ \A r \in Req : RequestInv(r)
  /\ Owns(Holds, cache, open)
  /\ Len(cache) <= MaxCached

\* A peer is not checked in the future, nor a probe's peer before the probe.
ProbeInv ==
  /\ \A p \in Peer : peer[p].checked <= now
  /\ \A r \in Req : probe[r] # Never => probe[r] <= peer[req[r].current].checked

-----------------------------------------------------------------------------
(* The steps, by what they do to the state.                                *)

\* A request that has no peer.
Blank(q) ==
  /\ q \in ReqType /\ q.group \in 1..Len(conf.groups)
  /\ ~q.addr /\ q.current = NULL /\ q.conn = NULL

\* r has no peer after the step.
Leaves(r) ==
  /\ \E q : Blank(q) /\ req' = [req EXCEPT ![r] = q]
  /\ \E to \in {"idle", "get"} : at' = [at EXCEPT ![r] = to]
  /\ probe' = [probe EXCEPT ![r] = Never]
  /\ UNCHANGED <<conf, now>>

Waits(r) == at[r] \in {"idle", "get"} /\ Leaves(r) /\ UNCHANGED <<peer, cache, open>>

GivesBack(r) ==
  /\ at[r] \in {"connect", "connected"} /\ Leaves(r)
  /\ \E f \in BOOLEAN : peer' = [peer EXCEPT ![req[r].current] = Freed(req[r].current, f)]
  /\ \E valid \in BOOLEAN : Dispose(r, valid)

\* Of E, peers of the group g, r is given b, and the idle connection at i if i
\* is not 0.
Gives(r, g, E, b, i) ==
  /\ at[r] = "get"
  /\ g \in 1..Len(conf.groups) /\ E \subseteq Members(g) /\ E # {}
  /\ b = Weighed(g, E).best /\ b \in E /\ b \in Peer
  /\ conf.maxConns[b] = 0 \/ peer[b].conns < conf.maxConns[b]
  /\ ~Single => ~Disabled(b)
  /\ peer' = IF Single THEN [peer EXCEPT ![b].conns = @ + 1] ELSE Chosen(g, E)
  /\ i = 0 \/ (i \in 1..Len(cache) /\ cache[i].peer = b)
  /\ at' = [at EXCEPT ![r] = IF i = 0 THEN "connect" ELSE "connected"]
  /\ \E q \in ReqType :
       /\ req' = [req EXCEPT ![r] = q]
       /\ q.group = g /\ q.addr /\ q.current = b
       /\ q.conn = IF i = 0 THEN NULL ELSE cache[i].conn
  /\ cache' = IF i = 0 THEN cache ELSE RemoveAt(cache, i)
  /\ probe' = [probe EXCEPT ![r] =
       IF ~Single /\ conf.maxFails[b] > 0 /\ peer[b].fails >= conf.maxFails[b]
       THEN now ELSE Never]
  /\ UNCHANGED <<conf, open, now>>

\* A fresh request, whatever its tries.
LEMMA FreshIs ==
  ASSUME UpstreamType
  PROVE  Blank(Fresh) /\ \A n \in Int : Blank([Fresh EXCEPT !.tries = n])
<1>1. {} \in SUBSET Peer /\ 1 \in 1..2 /\ 0 \in Int
  OBVIOUS
<1>2. Fresh \in ReqType
  BY <1>1 DEF Fresh, ReqType
<1>3. /\ Fresh.group = 1 /\ ~Fresh.addr /\ Fresh.current = NULL /\ Fresh.conn = NULL
  BY DEF Fresh
<1>4. 1 \in 1..Len(conf.groups)
  <2>1. Len(conf.groups) \in {1, 2}
    BY ConfIs
  <2> QED BY <2>1
<1>5. ASSUME NEW n \in Int
      PROVE  Blank([Fresh EXCEPT !.tries = n])
  <2> DEFINE t == [Fresh EXCEPT !.tries = n]
  <2>1. t \in ReqType
    BY <1>2 DEF ReqType
  <2>2. t.group = 1 /\ ~t.addr /\ t.current = NULL /\ t.conn = NULL
    BY <1>2, <1>3 DEF ReqType
  <2> QED BY <1>4, <2>1, <2>2 DEF Blank
<1>6. Blank(Fresh)
  BY <1>2, <1>3, <1>4 DEF Blank
<1> QED BY <1>5, <1>6

\* Done leaves the request without a peer.
LEMMA DoneIs ==
  ASSUME UpstreamType, NEW r \in Req, Done(r), UNCHANGED <<conf, now>>
  PROVE  Leaves(r)
<1>1. Blank(Fresh)
  BY FreshIs
<1> QED BY <1>1 DEF Done, Goto, Leaves

\* A request begins without a peer.
LEMMA BeginIs ==
  ASSUME UpstreamInv, NEW r \in Req, Begin(r)
  PROVE  Waits(r)
<1> DEFINE n == Len(conf.groups[1]) + (IF HasBackup THEN Len(conf.groups[2]) ELSE 0)
<1>1. n \in Int
  <2>1. UpstreamType
    BY DEF UpstreamInv
  <2>2. conf.groups[1] \in Seq(Peer) /\ (HasBackup => conf.groups[2] \in Seq(Peer))
    BY <2>1, ConfIs DEF HasBackup
  <2> QED BY <2>2
<1> HIDE DEF n
<1>2. Blank([Fresh EXCEPT !.tries = n])
  BY <1>1, FreshIs DEF UpstreamInv
<1>3. req' = [req EXCEPT ![r] = [Fresh EXCEPT !.tries = n]]
  BY DEF Begin, n
<1>4. probe[r] = Never /\ probe \in [Req -> Int]
  BY DEF UpstreamInv, UpstreamType, RequestInv, Begin
<1>5. probe' = [probe EXCEPT ![r] = Never]
  BY <1>4 DEF Begin
<1> QED BY <1>2, <1>3, <1>5 DEF Begin, Waits, Leaves, Goto

\* A request that finds no peer ends without one.
LEMMA GetBusyIs ==
  ASSUME UpstreamInv, NEW r \in Req, GetBusy(r)
  PROVE  Waits(r)
BY DoneIs DEF UpstreamInv, GetBusy, Waits

\* A request that ends gives its peer back.
LEMMA FinalizeIs ==
  ASSUME UpstreamInv, NEW r \in Req, Finalize(r)
  PROVE  GivesBack(r)
<1>1. Leaves(r)
  BY DoneIs DEF UpstreamInv, Finalize
<1>2. (at[r] = "connected") \in BOOLEAN
  OBVIOUS
<1> QED BY <1>1, <1>2 DEF Finalize, GivesBack

\* So does one that goes on to the next peer.
LEMMA TryNextIs ==
  ASSUME UpstreamInv, NEW r \in Req, NEW ft, TryNext(r, ft)
  PROVE  GivesBack(r)
<1> DEFINE failed == ft # "notfound"
           t == Tries(r, ft)
           q == [req[r] EXCEPT !.tries = t, !.addr = FALSE, !.conn = NULL,
                               !.current = NULL, !.cached = FALSE]
<1>0. UpstreamType
  BY DEF UpstreamInv
<1>1. CASE Done(r)
  <2>1. Leaves(r)
    BY <1>0, <1>1, DoneIs DEF TryNext
  <2> QED BY <2>1 DEF TryNext, GivesBack
<1>2. CASE /\ Goto(r, "get") /\ req' = [req EXCEPT ![r] = q]
           /\ probe' = [probe EXCEPT ![r] = Never]
  <2>1. t \in Int
    <3>1. req[r].tries \in Int
      BY <1>0 DEF UpstreamType, ReqType
    <3>2. TriesLeft(r) \in Int
      BY <3>1 DEF TriesLeft
    <3> QED BY <3>2 DEF Tries
  <2>2. req[r] \in ReqType /\ req[r].group \in 1..Len(conf.groups)
    BY <1>0 DEF UpstreamType
  <2> HIDE DEF t
  <2>3. Blank(q)
    <3> DEFINE z == req[r]
    <3>1. z \in ReqType /\ z.group \in 1..Len(conf.groups)
      BY <2>2
    <3> HIDE DEF z
    <3> DEFINE y == [z EXCEPT !.tries = t, !.addr = FALSE, !.conn = NULL,
                              !.current = NULL, !.cached = FALSE]
    <3>2. y \in ReqType
      BY <2>1, <3>1 DEF ReqType
    <3>3. y.group = z.group /\ ~y.addr /\ y.current = NULL /\ y.conn = NULL
      BY <3>1 DEF ReqType
    <3>4. Blank(y)
      BY <3>1, <3>2, <3>3 DEF Blank
    <3> QED BY <3>4 DEF z
  <2> HIDE DEF q
  <2>4. Leaves(r)
    BY <1>2, <2>3 DEF Leaves, Goto, TryNext
  <2> QED BY <2>4 DEF TryNext, GivesBack
<1> QED BY <1>1, <1>2 DEF TryNext

\* The place of an idle connection to p.
LEMMA ReusableIs ==
  ASSUME UpstreamType, NEW p
  PROVE  \/ Reusable(p) = 0
         \/ Reusable(p) \in 1..Len(cache) /\ cache[Reusable(p)].peer = p
<1> DEFINE I == {i \in DOMAIN cache : cache[i].peer = p}
<1>1. cache \in Seq(Item) /\ DOMAIN cache = 1..Len(cache) /\ Len(cache) \in Nat
  BY DEF UpstreamType
<1>2. I \in SUBSET Nat
  BY <1>1
<1>3. Reusable(p) = IF I = {} THEN 0 ELSE Min(I)
  BY DEF Reusable
<1>4. CASE I # {}
  <2>1. Min(I) \in I
    BY <1>2, <1>4, MinNat
  <2> QED BY <1>1, <1>3, <1>4, <2>1
<1> QED BY <1>3, <1>4

\* A request that finds a peer is given one.
LEMMA GetIs ==
  ASSUME UpstreamInv, NEW r \in Req, Get(r)
  PROVE  \E g, E, b, i : Gives(r, g, E, b, i)
<1> DEFINE q == req[r]
           backup == Eligible(q.group, q.tried) = {}
           g == IF backup THEN 2 ELSE q.group
           tried == IF backup THEN {} ELSE q.tried
           E == Eligible(g, tried)
           b == Weighed(g, E).best
           i == Reusable(b)
           t == Tried(tried, b)
           c == IF i = 0 THEN NULL ELSE cache[i].conn
           new == [q EXCEPT !.group = g, !.tried = t, !.current = b, !.addr = TRUE,
                            !.conn = c, !.cached = i # 0]
<1>0. UpstreamType
  BY DEF UpstreamInv
<1>1. /\ at[r] = "get" /\ (backup => q.group = 1 /\ HasBackup)
      /\ E # {} /\ Goto(r, IF i = 0 THEN "connect" ELSE "connected")
      /\ peer' = IF Single THEN [peer EXCEPT ![b].conns = @ + 1] ELSE Chosen(g, E)
      /\ req' = [req EXCEPT ![r] = new]
      /\ cache' = IF i = 0 THEN cache ELSE RemoveAt(cache, i)
      /\ probe' = [probe EXCEPT ![r] =
           IF ~Single /\ conf.maxFails[b] > 0 /\ peer[b].fails >= conf.maxFails[b]
           THEN now ELSE Never]
      /\ UNCHANGED <<conf, open, now>>
  BY DEF Get
<1>2. q \in ReqType /\ q.group \in 1..Len(conf.groups)
  BY <1>0 DEF UpstreamType
<1>3. g \in 1..Len(conf.groups) /\ g \in 1..2 /\ tried \in SUBSET Peer
  <2>1. /\ Len(conf.groups) \in {1, 2}
        /\ HasBackup <=> Len(conf.groups) = 2
    BY <1>0, ConfIs
  <2>2. q.group \in 1..2 /\ q.tried \in SUBSET Peer
    BY <1>2 DEF ReqType
  <2>3. backup => Len(conf.groups) = 2
    BY <1>1, <2>1
  <2> HIDE DEF backup, q
  <2>4. CASE backup
    <3>1. g = 2 /\ tried = {}
      BY <2>4
    <3> QED BY <2>3, <2>4, <3>1
  <2>5. CASE ~backup
    <3>1. g = q.group /\ tried = q.tried
      BY <2>5
    <3> QED BY <1>2, <2>2, <3>1
  <2> QED BY <2>4, <2>5
<1> HIDE DEF q, backup, g, tried
<1>4. E \subseteq Members(g) /\ Members(g) \subseteq Peer
  BY <1>0, <1>3, ConfIs DEF Eligible
<1>5. /\ \A p \in E : conf.maxConns[p] = 0 \/ peer[p].conns < conf.maxConns[p]
      /\ \A p \in E : Single \/ ~Disabled(p)
  BY DEF Eligible
<1> HIDE DEF E
<1>6. b \in E
  BY <1>0, <1>1, <1>3, <1>4, WeighedIs, Zenon
<1>7. b \in Peer
  BY <1>4, <1>6
<1>8. t \in SUBSET Peer
  BY <1>3, <1>7 DEF Tried
<1>9. b = Weighed(g, E).best
  OBVIOUS
<1> HIDE DEF b, t
<1>10. i = 0 \/ (i \in 1..Len(cache) /\ cache[i].peer = b)
  BY <1>0, ReusableIs
<1> HIDE DEF i
<1>11. c \in Conn \cup {NULL}
  <2>1. \A j \in 1..Len(cache) : cache[j] \in Item
    BY <1>0 DEF UpstreamType
  <2>2. \A j \in 1..Len(cache) : cache[j].conn \in Conn
    BY <2>1 DEF Item
  <2> QED BY <1>10, <2>2
<1> HIDE DEF c
<1>12. new \in ReqType
  BY <1>2, <1>3, <1>7, <1>8, <1>11 DEF ReqType
<1>13. new.group = g /\ new.addr /\ new.current = b /\ new.conn = c
  BY <1>2 DEF ReqType
<1> HIDE DEF new
<1>14. \E z \in ReqType :
         /\ req' = [req EXCEPT ![r] = z]
         /\ z.group = g /\ z.addr /\ z.current = b
         /\ z.conn = IF i = 0 THEN NULL ELSE cache[i].conn
  BY <1>1, <1>12, <1>13 DEF c
<1>15. Gives(r, g, E, b, i)
  BY <1>1, <1>3, <1>4, <1>5, <1>6, <1>7, <1>9, <1>10, <1>14 DEF Gives, Goto
<1> QED BY <1>15

\* A step is one of these.
LEMMA StepIs ==
  ASSUME UpstreamInv, [UpstreamNext]_upVars
  PROVE  \/ \E r \in Req : Waits(r) \/ GivesBack(r) \/ Connect(r)
         \/ \E r \in Req : \E g, E, b, i : Gives(r, g, E, b, i)
         \/ \E i \in DOMAIN cache : CloseIdle(i)
         \/ Tick
         \/ UNCHANGED upVars
<1>1. ASSUME NEW r \in Req, Begin(r) \/ Serve(r)
      PROVE  \/ Waits(r) \/ GivesBack(r) \/ Connect(r)
             \/ \E g, E, b, i : Gives(r, g, E, b, i)
  <2>1. CASE Begin(r)
    BY <2>1, BeginIs
  <2>2. CASE Get(r)
    BY <2>2, GetIs
  <2>3. CASE GetBusy(r)
    BY <2>3, GetBusyIs
  <2>4. CASE Finalize(r)
    BY <2>4, FinalizeIs
  <2>5. ASSUME NEW ft \in {"error", "timeout", "notfound"}, TryNext(r, ft)
        PROVE  GivesBack(r)
    BY <2>5, TryNextIs
  <2> QED BY <1>1, <2>1, <2>2, <2>3, <2>4, <2>5 DEF Serve
<1> QED BY <1>1, Zenon DEF UpstreamNext

-----------------------------------------------------------------------------
(* What the steps do to the connections and to the peers.                  *)

\* The last item makes room.
LEMMA FrontWithout ==
  ASSUME NEW ca \in Seq(Item), Len(ca) > 0
  PROVE  Without(Front(ca), ca, Len(ca)) /\ Last(ca) = ca[Len(ca)] /\ Len(ca) \in 1..Len(ca)
<1>1. /\ Front(ca) \in Seq(Item) /\ Len(Front(ca)) = Len(ca) - 1
      /\ \A j \in 1..(Len(ca) - 1) : Front(ca)[j] = ca[j]
      /\ Last(ca) = ca[Len(ca)] /\ Len(ca) \in 1..Len(ca)
  BY FrontIs
<1>2. Len(ca) \in Nat
  OBVIOUS
<1>3. \A j \in 1..(Len(ca) - 1) : j < Len(ca)
  BY <1>2
<1> QED BY <1>1, <1>3 DEF Without

\* RemoveAt takes one item out.
LEMMA RemoveAtWithout ==
  ASSUME NEW ca \in Seq(Item), NEW i \in 1..Len(ca)
  PROVE  Without(RemoveAt(ca, i), ca, i)
BY RemoveAtIs DEF Without

\* What becomes of a connection that is given up: it has no owner among the
\* requests, and the others keep theirs.
LEMMA DisposeIs ==
  ASSUME UpstreamInv, NEW r \in Req, at[r] \in {"connect", "connected"},
         NEW valid, Dispose(r, valid)
  PROVE  /\ Owns([Holds EXCEPT ![r] = NULL], cache', open')
         /\ Len(cache') <= MaxCached
         /\ \A d \in DOMAIN open' : open'[d] = open[d]
<1> DEFINE c == req[r].conn
           h == [Holds EXCEPT ![r] = NULL]
           full == Len(cache) = MaxCached
           last == cache[Len(cache)].conn
           fewer == Front(cache)
<1>1. /\ Holds \in [Req -> Conn \cup {NULL}] /\ Owns(Holds, cache, open) /\ Holds[r] = c
      /\ cache \in Seq(Item) /\ Len(cache) \in Nat /\ Len(cache) <= MaxCached
      /\ MaxCached \in Nat /\ MaxCached > 0
  BY UpstreamAssumption DEF UpstreamInv, Owns, Holds
<1>2. c # NULL => c \in DOMAIN open /\ open[c] = req[r].current
  BY DEF UpstreamInv, RequestInv
<1>4. /\ \A d : Close(d) = Less(open, {d})
      /\ \A C : \A d \in DOMAIN Less(open, C) : d \in DOMAIN open /\ Less(open, C)[d] = open[d]
  BY DEF Close, Less
<1>5. full => /\ Owns(Holds, fewer, Less(open, {last})) /\ Last(cache).conn = last
              /\ fewer \in Seq(Item) /\ Len(fewer) = Len(cache) - 1
  <2> HAVE full
  <2>1. Len(cache) > 0
    BY <1>1
  <2>2. /\ Without(fewer, cache, Len(cache)) /\ Last(cache) = cache[Len(cache)]
        /\ Len(cache) \in 1..Len(cache)
    BY <1>1, <2>1, FrontWithout
  <2> QED BY <1>1, <2>2, OwnsEvict DEF Without
<1> HIDE DEF h, last, fewer
<1>6. \A ca \in Seq(Item) : Len(<<[conn |-> c, peer |-> req[r].current]>> \o ca) = Len(ca) + 1
  OBVIOUS
<1>7. CASE c # NULL /\ Saved(c, req[r].current)
  <2> DEFINE x == [conn |-> c, peer |-> req[r].current]
  <2>1. CASE full
    <3>1. cache' = <<x>> \o fewer /\ open' = Less(open, {last})
      BY <1>4, <1>5, <1>7, <2>1 DEF Saved, fewer
    <3>2. Less(open, {last})[c] = req[r].current
      <4>1. c \in DOMAIN Less(open, {last})
        BY <1>1, <1>5, <1>7, <2>1 DEF Owns
      <4> QED BY <1>2, <1>4, <1>7, <4>1
    <3>3. Owns(h, <<x>> \o fewer, Less(open, {last}))
      BY <1>1, <1>5, <1>7, <2>1, <3>2, OwnsSave DEF h
    <3>4. Len(<<x>> \o fewer) <= MaxCached
      BY <1>1, <1>5, <1>6, <2>1
    <3> HIDE DEF x
    <3> QED BY <1>4, <3>1, <3>3, <3>4 DEF h
  <2>2. CASE ~full
    <3>1. cache' = <<x>> \o cache /\ open' = open
      BY <1>7, <2>2 DEF Saved
    <3>2. Owns(h, <<x>> \o cache, open)
      BY <1>1, <1>2, <1>7, OwnsSave DEF h
    <3>3. Len(<<x>> \o cache) <= MaxCached
      BY <1>1, <1>6, <2>2
    <3> HIDE DEF x
    <3> QED BY <3>1, <3>2, <3>3 DEF h
  <2> QED BY <2>1, <2>2
<1>8. CASE c # NULL /\ SavedAndClosed(c)
  <2>1. CASE full
    <3>1. cache' = fewer /\ open' = Less(open, {c, last})
      BY <1>5, <1>8, <2>1 DEF SavedAndClosed, fewer, Less
    <3>2. Less(open, {c, last}) = Less(Less(open, {last}), {c})
      BY DEF Less
    <3>3. Owns(h, fewer, Less(Less(open, {last}), {c}))
      BY <1>1, <1>5, <1>8, <2>1, OwnsClose DEF h
    <3>4. Len(fewer) <= MaxCached
      BY <1>1, <1>5, <2>1
    <3> QED BY <1>4, <3>1, <3>2, <3>3, <3>4 DEF h
  <2>2. CASE ~full
    <3>1. cache' = cache /\ open' = Less(open, {c})
      BY <1>8, <2>2 DEF SavedAndClosed, Less
    <3>2. Owns(h, cache, Less(open, {c}))
      BY <1>1, <1>8, OwnsClose DEF h
    <3> QED BY <1>1, <1>4, <3>1, <3>2 DEF h
  <2> QED BY <2>1, <2>2
<1>9. CASE open' = (IF c = NULL THEN open ELSE Close(c)) /\ UNCHANGED cache
  <2>1. CASE c = NULL
    <3>1. h = Holds
      BY <1>1, <2>1 DEF h
    <3> QED BY <1>1, <1>9, <2>1, <3>1 DEF h
  <2>2. CASE c # NULL
    <3>1. open' = Less(open, {c})
      BY <1>4, <1>9, <2>2
    <3>2. Owns(h, cache, Less(open, {c}))
      BY <1>1, <2>2, OwnsClose DEF h
    <3> QED BY <1>1, <1>4, <1>9, <3>1, <3>2 DEF h
  <2> QED BY <2>1, <2>2
<1> QED BY <1>7, <1>8, <1>9 DEF Dispose

\* The peers after b has been given to a request.
PeersGiven(g, E, b) ==
  \A p \in Peer :
    /\ peer'[p].conns = IF p = b THEN peer[p].conns + 1 ELSE peer[p].conns
    /\ peer'[p].checked = IF ~Single /\ p = b /\ now - peer[p].checked > FailTimeout
                          THEN now ELSE peer[p].checked
    /\ peer'[p].current = IF ~Single /\ p \in E THEN Weighed(g, E).current[p]
                          ELSE peer[p].current

\* What a choice does to the peers.
LEMMA GivesPeers ==
  ASSUME UpstreamType, NEW r \in Req, NEW g, NEW E, NEW b, NEW i, Gives(r, g, E, b, i)
  PROVE  /\ peer' \in [Peer -> PeerType]
         /\ PeersGiven(g, E, b)
<1>1. CASE Single
  <2> DEFINE n == peer[b].conns + 1
             t == [peer[b] EXCEPT !.conns = n]
  <2>1. peer' = [peer EXCEPT ![b] = t] /\ b \in Peer
    BY <1>1 DEF Gives
  <2>2. peer[b] \in PeerType /\ n \in Int
    BY <2>1 DEF UpstreamType, PeerType
  <2> HIDE DEF n
  <2>3. t \in PeerType /\ t.conns = n /\ t.checked = peer[b].checked /\ t.current = peer[b].current
    BY <2>2, PeerConns
  <2> HIDE DEF t
  <2>4. /\ peer' \in [Peer -> PeerType]
        /\ \A p \in Peer : peer'[p] = IF p = b THEN t ELSE peer[p]
    BY <2>1, <2>3 DEF UpstreamType
  <2> QED BY <1>1, <2>3, <2>4 DEF n, PeersGiven
<1>2. CASE ~Single
  <2>1. /\ peer' = Chosen(g, E) /\ g \in 1..Len(conf.groups) /\ E \subseteq Members(g) /\ E # {}
        /\ b = Weighed(g, E).best
    BY <1>2 DEF Gives
  <2>2. LET w == Weighed(g, E).best
            new == Chosen(g, E)
        IN  /\ new \in [Peer -> PeerType]
            /\ \A p \in Peer :
                 /\ new[p].conns = IF p = w THEN peer[p].conns + 1 ELSE peer[p].conns
                 /\ new[p].checked = IF p = w /\ now - peer[p].checked > FailTimeout
                                     THEN now ELSE peer[p].checked
                 /\ new[p].fails = peer[p].fails
                 /\ new[p].current = IF p \in E THEN Weighed(g, E).current[p]
                                     ELSE peer[p].current
    BY <2>1, ChosenIs, Zenon
  <2> QED BY <1>2, <2>1, <2>2 DEF PeersGiven
<1> QED BY <1>1, <1>2

\* What giving a peer back does to the peers.
LEMMA GivesBackPeers ==
  ASSUME UpstreamInv, NEW r \in Req, GivesBack(r)
  PROVE  /\ req[r].current \in Peer /\ peer' \in [Peer -> PeerType]
         /\ \A p \in Peer :
              /\ peer'[p].conns = IF p = req[r].current THEN peer[p].conns - 1 ELSE peer[p].conns
              /\ peer'[p].checked \in {peer[p].checked, now}
              /\ peer'[p].current = peer[p].current
<1> DEFINE b == req[r].current
<1>1. b \in Peer /\ UpstreamType
  BY DEF UpstreamInv, RequestInv, GivesBack
<1>2. PICK f \in BOOLEAN : peer' = [peer EXCEPT ![b] = Freed(b, f)]
  BY DEF GivesBack
<1> HIDE DEF b
<1>3. /\ Freed(b, f) \in PeerType
      /\ Freed(b, f).conns = peer[b].conns - 1
      /\ Freed(b, f).current = peer[b].current
      /\ Freed(b, f).checked \in {peer[b].checked, now}
  BY <1>1, FreedIs
<1>4. /\ peer' \in [Peer -> PeerType]
      /\ \A p \in Peer : peer'[p] = IF p = b THEN Freed(b, f) ELSE peer[p]
  BY <1>1, <1>2, <1>3 DEF UpstreamType
<1> QED BY <1>1, <1>3, <1>4 DEF b

\* One request changes.
LEMMA Put ==
  ASSUME UpstreamType, NEW r \in Req, NEW q \in ReqType, req' = [req EXCEPT ![r] = q]
  PROVE  /\ req' \in [Req -> ReqType] /\ req'[r] = q
         /\ \A s \in Req : s # r => req'[s] = req[s]
         /\ Holds' = [Holds EXCEPT ![r] = q.conn]
BY DEF UpstreamType, Holds

\* What is left of a request that has no peer, and of the others.
LEMMA LeavesIs ==
  ASSUME UpstreamInv, NEW r \in Req, Leaves(r)
  PROVE  /\ req' \in [Req -> ReqType] /\ at' \in [Req -> Points] /\ probe' \in [Req -> Int]
         /\ \A s \in Req : req'[s].group \in 1..Len(conf.groups)
         /\ Holds' = [Holds EXCEPT ![r] = NULL]
         /\ at'[r] \in {"idle", "get"} /\ ~req'[r].addr /\ req'[r].current = NULL
         /\ req'[r].conn = NULL /\ probe'[r] = Never
         /\ \A s \in Req : s # r => req'[s] = req[s] /\ at'[s] = at[s] /\ probe'[s] = probe[s]
<1>0. UpstreamType
  BY DEF UpstreamInv
<1>1. PICK q : Blank(q) /\ req' = [req EXCEPT ![r] = q]
  BY DEF Leaves
<1>2. q \in ReqType /\ q.group \in 1..Len(conf.groups) /\ ~q.addr /\ q.current = NULL
      /\ q.conn = NULL
  BY <1>1 DEF Blank
<1>3. /\ req' \in [Req -> ReqType] /\ req'[r] = q
      /\ \A s \in Req : s # r => req'[s] = req[s]
      /\ Holds' = [Holds EXCEPT ![r] = NULL]
  BY <1>0, <1>1, <1>2, Put
<1>4. /\ at' \in [Req -> Points] /\ at'[r] \in {"idle", "get"}
      /\ \A s \in Req : s # r => at'[s] = at[s]
  BY <1>0 DEF UpstreamType, Leaves, Points
<1>5. /\ probe' \in [Req -> Int] /\ probe'[r] = Never
      /\ \A s \in Req : s # r => probe'[s] = probe[s]
  BY <1>0 DEF UpstreamType, Leaves, Never
<1>6. \A s \in Req : req'[s].group \in 1..Len(conf.groups)
  BY <1>0, <1>2, <1>3 DEF UpstreamType
<1> QED BY <1>2, <1>3, <1>4, <1>5, <1>6

\* What a request that is given a peer has, and the others.
LEMMA GivesIs ==
  ASSUME UpstreamInv, NEW r \in Req, NEW g, NEW E, NEW b, NEW i, Gives(r, g, E, b, i)
  PROVE  /\ req' \in [Req -> ReqType] /\ at' \in [Req -> Points] /\ probe' \in [Req -> Int]
         /\ \A s \in Req : req'[s].group \in 1..Len(conf.groups)
         /\ Holds' = [Holds EXCEPT ![r] = req'[r].conn]
         /\ at'[r] = (IF i = 0 THEN "connect" ELSE "connected")
         /\ req'[r].addr /\ req'[r].current = b
         /\ req'[r].conn = (IF i = 0 THEN NULL ELSE cache[i].conn)
         /\ probe'[r] = (IF ~Single /\ conf.maxFails[b] > 0 /\ peer[b].fails >= conf.maxFails[b]
                         THEN now ELSE Never)
         /\ \A s \in Req : s # r => req'[s] = req[s] /\ at'[s] = at[s] /\ probe'[s] = probe[s]
<1>0. UpstreamType
  BY DEF UpstreamInv
<1>1. PICK q \in ReqType : /\ req' = [req EXCEPT ![r] = q]
                           /\ q.group = g /\ q.addr /\ q.current = b
                           /\ q.conn = IF i = 0 THEN NULL ELSE cache[i].conn
  BY DEF Gives
<1>2. /\ req' \in [Req -> ReqType] /\ req'[r] = q
      /\ \A s \in Req : s # r => req'[s] = req[s]
      /\ Holds' = [Holds EXCEPT ![r] = q.conn]
  BY <1>0, <1>1, Put
<1>3. /\ at' \in [Req -> Points] /\ at'[r] = (IF i = 0 THEN "connect" ELSE "connected")
      /\ \A s \in Req : s # r => at'[s] = at[s]
  BY <1>0 DEF UpstreamType, Gives, Points
<1> DEFINE n == IF ~Single /\ conf.maxFails[b] > 0 /\ peer[b].fails >= conf.maxFails[b]
                THEN now ELSE Never
<1>4. n \in Int /\ probe' = [probe EXCEPT ![r] = n]
  BY <1>0 DEF UpstreamType, Gives, Never
<1> HIDE DEF n
<1>5. /\ probe' \in [Req -> Int] /\ probe'[r] = n
      /\ \A s \in Req : s # r => probe'[s] = probe[s]
  BY <1>0, <1>4 DEF UpstreamType
<1>6. \A s \in Req : req'[s].group \in 1..Len(conf.groups)
  BY <1>0, <1>1, <1>2 DEF UpstreamType, Gives
<1> QED BY <1>1, <1>2, <1>3, <1>5, <1>6 DEF n

\* Init establishes the invariant.
LEMMA InitInv == UpstreamInit => UpstreamInv /\ ProbeInv
<1> HAVE UpstreamInit
<1>1. conf \in Configs
  BY DEF UpstreamInit
<1>2. \A p \in Peer : conf.weight[p] \in Nat
  BY <1>1, ConfigsAssumption
<1>3. 1 \in 1..Len(conf.groups)
  <2>1. PICK n : n = Len(conf.groups)
    OBVIOUS
  <2>2. n \in 1..2
    BY <1>1, <2>1, ConfigsAssumption
  <2>3. 1 \in 1..n
    BY <2>2
  <2> QED BY <2>1, <2>3
<1>4. peer \in [Peer -> PeerType]
  BY <1>2 DEF UpstreamInit, PeerType
<1>5. Fresh \in ReqType
  <2>1. {} \in SUBSET Peer /\ 1 \in 1..2 /\ 0 \in Int
    OBVIOUS
  <2> QED BY <2>1 DEF Fresh, ReqType
<1>6. /\ Fresh.group = 1 /\ ~Fresh.addr /\ Fresh.current = NULL /\ Fresh.conn = NULL
  BY DEF Fresh
<1>7. /\ cache = <<>> /\ open = <<>> /\ DOMAIN open = {}
      /\ cache \in Seq(Item) /\ Len(cache) = 0 /\ 1..Len(cache) = {}
  BY DEF UpstreamInit
<1>8. /\ at = [r \in Req |-> "idle"] /\ req = [r \in Req |-> Fresh]
      /\ probe = [r \in Req |-> Never] /\ now = FailTimeout + 1
  BY DEF UpstreamInit
<1>9. now \in Nat /\ Never \in Int
  BY <1>8, UpstreamAssumption DEF Never
<1>10. UpstreamType
  BY <1>1, <1>3, <1>4, <1>5, <1>6, <1>7, <1>8, <1>9 DEF UpstreamType, Points
<1>11. \A r \in Req : RequestInv(r)
  BY <1>6, <1>8 DEF RequestInv
<1>12. Holds = [r \in Req |-> NULL]
  BY <1>6, <1>8 DEF Holds
<1>13. Owns(Holds, cache, open)
  BY <1>7, <1>12 DEF Owns
<1>14. Len(cache) <= MaxCached
  BY <1>7, UpstreamAssumption
<1>15. ProbeInv
  <2>1. \A p \in Peer : peer[p].checked = 0
    BY DEF UpstreamInit
  <2> QED BY <1>8, <1>9, <2>1 DEF ProbeInv
<1> QED BY <1>10, <1>11, <1>13, <1>14, <1>15 DEF UpstreamInv

\* What an unchanged request keeps.
LEMMA Keeps ==
  ASSUME NEW s \in Req, RequestInv(s), req'[s] = req[s], at'[s] = at[s], probe'[s] = probe[s],
         req[s].conn \in DOMAIN open =>
           req[s].conn \in DOMAIN open' /\ open'[req[s].conn] = open[req[s].conn]
  PROVE  RequestInv(s)'
BY DEF RequestInv

\* A connection that a request holds is a number, not NULL.
LEMMA HeldIs ==
  ASSUME UpstreamInv, NEW s \in Req
  PROVE  /\ Holds[s] = req[s].conn
         /\ req[s].conn # NULL => req[s].conn \in DOMAIN open
         /\ NULL \notin DOMAIN open
BY ConnIs DEF UpstreamInv, Owns, Holds

\* A request without a peer keeps the invariant.
LEMMA WaitsInv ==
  ASSUME UpstreamInv, NEW r \in Req, Waits(r)
  PROVE  UpstreamInv'
<1>0. UpstreamType /\ UNCHANGED <<conf, now, peer, cache, open>>
  BY DEF UpstreamInv, Waits, Leaves
<1>1. /\ req' \in [Req -> ReqType] /\ at' \in [Req -> Points] /\ probe' \in [Req -> Int]
      /\ \A s \in Req : req'[s].group \in 1..Len(conf.groups)
      /\ Holds' = [Holds EXCEPT ![r] = NULL]
      /\ at'[r] \in {"idle", "get"} /\ ~req'[r].addr /\ req'[r].current = NULL
      /\ req'[r].conn = NULL /\ probe'[r] = Never
      /\ \A s \in Req : s # r => req'[s] = req[s] /\ at'[s] = at[s] /\ probe'[s] = probe[s]
  BY LeavesIs DEF Waits
<1>2. UpstreamType'
  BY <1>0, <1>1 DEF UpstreamType
<1>3. \A s \in Req : RequestInv(s)'
  <2>1. RequestInv(r)'
    BY <1>1 DEF RequestInv
  <2>2. \A s \in Req : s # r => RequestInv(s)'
    BY <1>0, <1>1, Keeps DEF UpstreamInv
  <2> QED BY <2>1, <2>2
<1>4. Holds' = Holds
  <2>1. Holds[r] = NULL
    BY DEF Holds, UpstreamInv, RequestInv, Waits
  <2>2. Holds = [s \in Req |-> Holds[s]]
    BY DEF Holds
  <2> QED BY <1>1, <2>1, <2>2
<1> QED BY <1>0, <1>2, <1>3, <1>4 DEF UpstreamInv

\* Giving a peer back keeps the invariant.
LEMMA GivesBackInv ==
  ASSUME UpstreamInv, NEW r \in Req, GivesBack(r)
  PROVE  UpstreamInv'
<1>0. UpstreamType /\ UNCHANGED <<conf, now>>
  BY DEF UpstreamInv, GivesBack, Leaves
<1>1. /\ req' \in [Req -> ReqType] /\ at' \in [Req -> Points] /\ probe' \in [Req -> Int]
      /\ \A s \in Req : req'[s].group \in 1..Len(conf.groups)
      /\ Holds' = [Holds EXCEPT ![r] = NULL]
      /\ at'[r] \in {"idle", "get"} /\ ~req'[r].addr /\ req'[r].current = NULL
      /\ req'[r].conn = NULL /\ probe'[r] = Never
      /\ \A s \in Req : s # r => req'[s] = req[s] /\ at'[s] = at[s] /\ probe'[s] = probe[s]
  BY LeavesIs DEF GivesBack
<1>2. /\ Owns(Holds', cache', open') /\ Len(cache') <= MaxCached
      /\ \A d \in DOMAIN open' : open'[d] = open[d]
  BY <1>1, DisposeIs DEF GivesBack
<1>3. peer' \in [Peer -> PeerType]
  BY GivesBackPeers
<1>4. UpstreamType'
  <2>1. /\ cache' \in Seq(Item)
        /\ DOMAIN open' \subseteq Conn /\ \A c \in DOMAIN open' : open'[c] \in Peer
    BY <1>2 DEF Owns
  <2> QED BY <1>0, <1>1, <1>3, <2>1 DEF UpstreamType
<1>5. ASSUME NEW s \in Req, s # r PROVE RequestInv(s)'
  <2>1. req[s].conn \in DOMAIN open => req[s].conn \in DOMAIN open'
    <3>1. Holds'[s] = req[s].conn /\ NULL \notin DOMAIN open
      BY <1>1, <1>5, HeldIs DEF Holds
    <3> QED BY <1>2, <3>1 DEF Owns
  <2>2. RequestInv(s)
    BY DEF UpstreamInv
  <2> QED BY <1>1, <1>2, <1>5, <2>1, <2>2, Keeps
<1>6. RequestInv(r)'
  BY <1>1 DEF RequestInv
<1> QED BY <1>2, <1>4, <1>5, <1>6 DEF UpstreamInv

\* Being given a peer keeps the invariant.
LEMMA GivesInv ==
  ASSUME UpstreamInv, NEW r \in Req, NEW g, NEW E, NEW b, NEW i, Gives(r, g, E, b, i)
  PROVE  UpstreamInv'
<1>0. /\ UpstreamType /\ UNCHANGED <<conf, now, open>> /\ b \in Peer
      /\ i = 0 \/ (i \in 1..Len(cache) /\ cache[i].peer = b)
      /\ cache' = IF i = 0 THEN cache ELSE RemoveAt(cache, i)
  BY DEF UpstreamInv, Gives
<1>1. /\ req' \in [Req -> ReqType] /\ at' \in [Req -> Points] /\ probe' \in [Req -> Int]
      /\ \A s \in Req : req'[s].group \in 1..Len(conf.groups)
      /\ Holds' = [Holds EXCEPT ![r] = req'[r].conn]
      /\ at'[r] = (IF i = 0 THEN "connect" ELSE "connected")
      /\ req'[r].addr /\ req'[r].current = b
      /\ req'[r].conn = (IF i = 0 THEN NULL ELSE cache[i].conn)
      /\ \A s \in Req : s # r => req'[s] = req[s] /\ at'[s] = at[s] /\ probe'[s] = probe[s]
  BY GivesIs
<1>2. Holds[r] = NULL /\ Owns(Holds, cache, open) /\ Len(cache) <= MaxCached
      /\ cache \in Seq(Item) /\ Len(cache) \in Nat /\ MaxCached \in Nat
  BY UpstreamAssumption DEF UpstreamInv, UpstreamType, Holds, RequestInv, Gives
<1>3. Owns(Holds', cache', open') /\ Len(cache') <= MaxCached
  <2>1. CASE i = 0
    <3>1. Holds = [s \in Req |-> Holds[s]]
      BY DEF Holds
    <3>2. Holds' = Holds
      BY <1>1, <1>2, <2>1, <3>1
    <3> QED BY <1>0, <1>2, <2>1, <3>2
  <2>2. CASE i # 0
    <3>1. i \in 1..Len(cache) /\ cache' = RemoveAt(cache, i)
      BY <1>0, <2>2
    <3>2. Without(cache', cache, i)
      BY <1>2, <3>1, RemoveAtWithout
    <3>3. Owns([Holds EXCEPT ![r] = cache[i].conn], cache', open)
      BY <1>2, <3>1, <3>2, OwnsTake
    <3>4. Len(cache') = Len(cache) - 1
      BY <3>2 DEF Without
    <3> QED BY <1>0, <1>1, <1>2, <2>2, <3>3, <3>4
  <2> QED BY <2>1, <2>2
<1>4. peer' \in [Peer -> PeerType]
  BY <1>0, GivesPeers
<1>5. UpstreamType'
  <2>1. cache' \in Seq(Item)
    BY <1>3 DEF Owns
  <2> QED BY <1>0, <1>1, <1>4, <2>1 DEF UpstreamType
<1>6. RequestInv(r)'
  <2>1. i # 0 => cache[i].conn \in DOMAIN open /\ open[cache[i].conn] = b
    BY <1>0, <1>2 DEF Owns
  <2> QED BY <1>0, <1>1, <2>1 DEF RequestInv
<1>7. \A s \in Req : s # r => RequestInv(s)'
  BY <1>0, <1>1, Keeps DEF UpstreamInv
<1> QED BY <1>3, <1>5, <1>6, <1>7 DEF UpstreamInv

\* A new connection keeps the invariant, and changes no peer of a request.
LEMMA ConnectInv ==
  ASSUME UpstreamInv, NEW r \in Req, Connect(r)
  PROVE  /\ UpstreamInv'
         /\ \A s \in Req : req'[s].addr = req[s].addr /\ req'[s].current = req[s].current
<1> DEFINE c == Min(Conn \ DOMAIN open)
           q == [req[r] EXCEPT !.conn = c]
<1>0. UpstreamType /\ at[r] = "connect" /\ UNCHANGED <<conf, peer, cache, now, probe>>
  BY DEF UpstreamInv, Connect
<1>1. /\ Owns(Holds, cache, open) /\ Holds[r] = NULL /\ req[r].current \in Peer /\ req[r].addr
      /\ Len(cache) <= MaxCached
  BY <1>0 DEF UpstreamInv, RequestInv, Holds
<1>2. c \in Conn /\ c \notin DOMAIN open
  BY <1>1, OwnsRoom
<1>3. /\ at' = [at EXCEPT ![r] = "connected"]
      /\ req' = [req EXCEPT ![r] = q]
      /\ open' = [d \in DOMAIN open \cup {c} |-> IF d = c THEN req[r].current ELSE open[d]]
  BY DEF Connect, Goto
<1>4. req[r] \in ReqType
  BY <1>0 DEF UpstreamType
<1> HIDE DEF c
<1>5. /\ q \in ReqType /\ q.conn = c /\ q.addr = req[r].addr /\ q.current = req[r].current
      /\ q.group = req[r].group
  <2> DEFINE z == req[r]
  <2>1. z \in ReqType
    BY <1>4
  <2> HIDE DEF z
  <2>2. [z EXCEPT !.conn = c] \in ReqType
    BY <1>2, <2>1 DEF ReqType
  <2>3. LET y == [z EXCEPT !.conn = c]
        IN  y.conn = c /\ y.addr = z.addr /\ y.current = z.current /\ y.group = z.group
    BY <2>1 DEF ReqType
  <2> QED BY <2>2, <2>3 DEF z
<1> HIDE DEF q
<1>6. /\ req' \in [Req -> ReqType] /\ req'[r] = q
      /\ \A s \in Req : s # r => req'[s] = req[s]
      /\ Holds' = [Holds EXCEPT ![r] = c]
  BY <1>0, <1>3, <1>5, Put
<1>7. Owns(Holds', cache, open')
  <2> DEFINE p == req[r].current
             o == [d \in DOMAIN open \cup {c} |-> IF d = c THEN p ELSE open[d]]
  <2>1. p \in Peer /\ open' = o
    BY <1>1, <1>3
  <2> HIDE DEF p
  <2>2. Owns([Holds EXCEPT ![r] = c], cache, o)
    BY <1>1, <1>2, <2>1, OwnsOpen
  <2> HIDE DEF o
  <2> QED BY <1>6, <2>1, <2>2
<1>8. UpstreamType'
  <2>1. DOMAIN open' \subseteq Conn /\ \A d \in DOMAIN open' : open'[d] \in Peer
    BY <1>7 DEF Owns
  <2>2. at' \in [Req -> Points]
    BY <1>0, <1>3 DEF UpstreamType, Points
  <2>3. \A s \in Req : req'[s].group \in 1..Len(conf.groups)
    BY <1>0, <1>5, <1>6 DEF UpstreamType
  <2> QED BY <1>0, <1>6, <2>1, <2>2, <2>3 DEF UpstreamType
<1>9. ASSUME NEW s \in Req, s # r PROVE RequestInv(s)'
  <2>1. RequestInv(s) /\ at'[s] = at[s]
    BY <1>0, <1>3, <1>9 DEF UpstreamInv, UpstreamType
  <2>2. req[s].conn \in DOMAIN open =>
          req[s].conn \in DOMAIN open' /\ open'[req[s].conn] = open[req[s].conn]
    BY <1>2, <1>3
  <2> QED BY <1>0, <1>6, <1>9, <2>1, <2>2, Keeps
<1>10. RequestInv(r)'
  <2>1. at'[r] = "connected"
    BY <1>0, <1>3 DEF UpstreamType
  <2>2. c \in DOMAIN open' /\ open'[c] = req[r].current
    BY <1>3
  <2> QED BY <1>1, <1>5, <1>6, <2>1, <2>2 DEF RequestInv
<1>11. UpstreamInv'
  BY <1>0, <1>1, <1>7, <1>8, <1>9, <1>10 DEF UpstreamInv
<1> QED BY <1>5, <1>6, <1>11

\* An idle connection that is closed keeps the invariant.
LEMMA CloseIdleInv ==
  ASSUME UpstreamInv, NEW i \in DOMAIN cache, CloseIdle(i)
  PROVE  UpstreamInv'
<1>0. /\ UpstreamType /\ UNCHANGED <<conf, peer, at, req, now, probe>>
      /\ cache' = RemoveAt(cache, i) /\ open' = Close(cache[i].conn)
  BY DEF UpstreamInv, CloseIdle
<1>1. /\ Owns(Holds, cache, open) /\ cache \in Seq(Item) /\ i \in 1..Len(cache)
      /\ Len(cache) <= MaxCached /\ Len(cache) \in Nat /\ MaxCached \in Nat
  BY UpstreamAssumption DEF UpstreamInv, Owns
<1>2. Without(cache', cache, i)
  BY <1>0, <1>1, RemoveAtWithout
<1>3. open' = Less(open, {cache[i].conn})
  BY <1>0 DEF Close, Less
<1>4. Holds' = Holds
  BY <1>0 DEF Holds
<1>5. Owns(Holds', cache', open')
  BY <1>1, <1>2, <1>3, <1>4, OwnsEvict
<1>6. Len(cache') <= MaxCached /\ cache' \in Seq(Item)
  BY <1>1, <1>2 DEF Without
<1>7. UpstreamType'
  <2>1. DOMAIN open' \subseteq Conn /\ \A c \in DOMAIN open' : open'[c] \in Peer
    BY <1>5 DEF Owns
  <2> QED BY <1>0, <1>6, <2>1 DEF UpstreamType
<1>8. ASSUME NEW s \in Req PROVE RequestInv(s)'
  <2>1. RequestInv(s) /\ req[s].conn # cache[i].conn
    BY <1>1 DEF UpstreamInv, Owns, Holds
  <2>2. req[s].conn \in DOMAIN open =>
          req[s].conn \in DOMAIN open' /\ open'[req[s].conn] = open[req[s].conn]
    BY <1>3, <2>1 DEF Less
  <2> QED BY <1>0, <2>1, <2>2, Keeps
<1> QED BY <1>5, <1>6, <1>7, <1>8 DEF UpstreamInv

\* Every step keeps the invariant.
LEMMA StepInv == UpstreamInv /\ [UpstreamNext]_upVars => UpstreamInv'
<1> SUFFICES ASSUME UpstreamInv, [UpstreamNext]_upVars PROVE UpstreamInv'
  OBVIOUS
<1>1. ASSUME NEW r \in Req, Waits(r) \/ GivesBack(r) \/ Connect(r) PROVE UpstreamInv'
  BY <1>1, WaitsInv, GivesBackInv, ConnectInv
<1>2. ASSUME NEW r \in Req, NEW g, NEW E, NEW b, NEW i, Gives(r, g, E, b, i) PROVE UpstreamInv'
  BY <1>2, GivesInv
<1>3. ASSUME NEW i \in DOMAIN cache, CloseIdle(i) PROVE UpstreamInv'
  BY <1>3, CloseIdleInv
<1>4. CASE UNCHANGED <<conf, peer, at, req, cache, open, probe>> /\ now' \in Nat
  <2>1. UpstreamType' /\ Holds' = Holds
    BY <1>4 DEF UpstreamInv, UpstreamType, Holds
  <2>2. \A s \in Req : RequestInv(s)'
    BY <1>4, Keeps DEF UpstreamInv
  <2> QED BY <1>4, <2>1, <2>2 DEF UpstreamInv
<1>5. CASE Tick
  <2>1. now' \in Nat
    BY <1>5 DEF Tick, UpstreamInv, UpstreamType
  <2> QED BY <1>4, <1>5, <2>1 DEF Tick
<1>6. CASE UNCHANGED upVars
  BY <1>4, <1>6 DEF upVars, UpstreamInv, UpstreamType
<1> QED BY <1>1, <1>2, <1>3, <1>5, <1>6, StepIs

\* The invariant holds always.
LEMMA UpstreamInvariant == UpstreamSpec => []UpstreamInv
<1>1. UpstreamInit => UpstreamInv
  BY InitInv
<1>2. UpstreamInv /\ [UpstreamNext]_upVars => UpstreamInv'
  BY StepInv
<1> QED BY <1>1, <1>2, PTL DEF UpstreamSpec

-----------------------------------------------------------------------------
(* Connections                                                             *)

\* Counting who has what only one can have.
LEMMA CountOne ==
  ASSUME NEW S, NEW T, IsFiniteSet(S), \A x, y \in T : x = y, T \subseteq S
  PROVE  Cardinality(T) = IF T = {} THEN 0 ELSE 1
<1>1. CASE T = {}
  BY <1>1, FS_EmptySet
<1>2. CASE T # {}
  <2>1. PICK x : T = {x}
    BY <1>2
  <2> QED BY <1>2, <2>1, FS_Singleton
<1> QED BY <1>1, <1>2

\* Every open connection has exactly one owner, a request or the cache, and none
\* that is closed has one; the cache keeps within its limit and its items and
\* the requests agree with the connections on the peer
\* (ngx_http_upstream_free_keepalive_peer, ngx_http_upstream_get_keepalive_peer,
\* ngx_http_upstream_finalize_request).
THEOREM OneOwner == UpstreamSpec => []ConnectionsOwned
<1>1. UpstreamInv => ConnectionsOwned
  <2> SUFFICES ASSUME UpstreamInv PROVE ConnectionsOwned
    OBVIOUS
  <2>1. /\ Owns(Holds, cache, open) /\ Len(cache) <= MaxCached
        /\ \A r \in Req : Holds[r] = req[r].conn
        /\ cache \in Seq(Item) /\ DOMAIN cache = 1..Len(cache) /\ Len(cache) \in Nat
    BY DEF UpstreamInv, Owns, Holds
  <2>2. ASSUME NEW c \in Conn
        PROVE  Cardinality(Held(c)) + Cardinality(Kept(c)) = IF c \in DOMAIN open THEN 1 ELSE 0
    <3>1. c # NULL
      BY ConnIs
    <3>2. Held(c) = {r \in Req : Holds[r] = c} /\ Kept(c) = {i \in 1..Len(cache) : cache[i].conn = c}
      BY <2>1 DEF Held, Kept
    <3>3. /\ \A r, s \in Held(c) : r = s
          /\ \A i, j \in Kept(c) : i = j
          /\ Held(c) = {} \/ Kept(c) = {}
          /\ Held(c) # {} => c \in DOMAIN open
          /\ Kept(c) # {} => c \in DOMAIN open
          /\ c \in DOMAIN open => Held(c) # {} \/ Kept(c) # {}
      BY <2>1, <3>1, <3>2 DEF Owns
    <3>4. Cardinality(Held(c)) = IF Held(c) = {} THEN 0 ELSE 1
      BY <3>2, <3>3, UpstreamAssumption, CountOne
    <3>5. Cardinality(Kept(c)) = IF Kept(c) = {} THEN 0 ELSE 1
      <4> DEFINE S == 1..Len(cache)
      <4>1. IsFiniteSet(S) /\ Kept(c) \subseteq S
        BY <2>1, <3>2, FS_Interval
      <4> HIDE DEF S
      <4> QED BY <3>3, <4>1, CountOne
    <3> QED BY <3>3, <3>4, <3>5
  <2>3. \A r \in Req : req[r].conn \in DOMAIN open => open[req[r].conn] = req[r].current
    <3> TAKE r \in Req
    <3> HAVE req[r].conn \in DOMAIN open
    <3>1. req[r].conn # NULL
      BY HeldIs
    <3>2. at[r] \in Points
      BY DEF UpstreamInv, UpstreamType
    <3> QED BY <3>1, <3>2 DEF UpstreamInv, RequestInv, Points
  <2>4. \A i \in DOMAIN cache : open[cache[i].conn] = cache[i].peer
    BY <2>1 DEF Owns
  <2> QED BY <2>1, <2>2, <2>3, <2>4 DEF ConnectionsOwned
<1> QED BY <1>1, UpstreamInvariant, PTL

-----------------------------------------------------------------------------
(* The connections of a peer, the probes and the weights.                  *)

Users(p) == {r \in Req : req[r].addr /\ req[r].current = p}

\* Who uses a peer after a request has been given b.
LEMMA UsersGives ==
  ASSUME UpstreamInv, NEW r \in Req, NEW g, NEW E, NEW b, NEW i, Gives(r, g, E, b, i), NEW p
  PROVE  r \notin Users(p) /\ Users(p)' = IF p = b THEN Users(p) \cup {r} ELSE Users(p)
<1>1. ~req[r].addr
  BY DEF UpstreamInv, RequestInv, Gives
<1>2. /\ req'[r].addr /\ req'[r].current = b
      /\ \A s \in Req : s # r => req'[s] = req[s]
  BY GivesIs
<1> QED BY <1>1, <1>2 DEF Users

\* Who uses a peer after a request has given up its own.
LEMMA UsersLeaves ==
  ASSUME UpstreamInv, NEW r \in Req, Leaves(r), NEW p
  PROVE  Users(p)' = Users(p) \ {r}
<1>1. /\ ~req'[r].addr
      /\ \A s \in Req : s # r => req'[s] = req[s]
  BY LeavesIs
<1> QED BY <1>1 DEF Users

\* A number changes with the set it counts.
LEMMA CountChange ==
  ASSUME NEW S, IsFiniteSet(S), NEW x
  PROVE  /\ x \notin S => Cardinality(S \cup {x}) = Cardinality(S) + 1
         /\ x \in S => Cardinality(S \ {x}) = Cardinality(S) - 1
         /\ Cardinality(S) \in Nat
BY FS_AddElement, FS_RemoveElement, FS_CardinalityType

\* ConnsCounted, of one peer.
Counted(p) ==
  /\ peer[p].conns = Cardinality(Users(p))
  /\ conf.maxConns[p] > 0 => peer[p].conns <= conf.maxConns[p]

\* The count of a peer's connections is that of the requests that use it, and
\* max_conns bounds it (ngx_http_upstream_get_peer,
\* ngx_http_upstream_free_round_robin_peer).
THEOREM ConnsRight == UpstreamSpec => []ConnsCounted
<1>0. ConnsCounted <=> \A p \in Peer : Counted(p)
  BY DEF ConnsCounted, Counted, Users
<1>1. UpstreamInit => \A p \in Peer : Counted(p)
  <2> HAVE UpstreamInit
  <2> TAKE p \in Peer
  <2>1. Users(p) = {} /\ peer[p].conns = 0
    BY DEF UpstreamInit, Users, Fresh
  <2>2. conf.maxConns[p] \in Nat
    BY ConfigsAssumption DEF UpstreamInit
  <2> QED BY <2>1, <2>2, FS_EmptySet DEF Counted
<1>2. /\ UpstreamInv /\ (\A p \in Peer : Counted(p)) /\ [UpstreamNext]_upVars
      => (\A p \in Peer : Counted(p))'
  <2> SUFFICES ASSUME UpstreamInv, \A p \in Peer : Counted(p), [UpstreamNext]_upVars,
                      NEW p \in Peer
               PROVE  Counted(p)'
    OBVIOUS
  <2>1. /\ UpstreamType /\ Counted(p) /\ conf.maxConns[p] \in Nat
        /\ IsFiniteSet(Users(p))
    <3>1. Users(p) \subseteq Req
      BY DEF Users
    <3> QED BY <3>1, ConfIs, UpstreamAssumption, FS_Subset DEF UpstreamInv
  <2>2. ASSUME NEW r \in Req, NEW g, NEW E, NEW b, NEW i, Gives(r, g, E, b, i)
        PROVE  Counted(p)'
    <3>1. r \notin Users(p) /\ Users(p)' = IF p = b THEN Users(p) \cup {r} ELSE Users(p)
      BY <2>2, UsersGives
    <3>2. /\ peer'[p].conns = IF p = b THEN peer[p].conns + 1 ELSE peer[p].conns
          /\ conf' = conf
          /\ p = b => conf.maxConns[p] = 0 \/ peer[p].conns < conf.maxConns[p]
      <4>1. peer'[p].conns = IF p = b THEN peer[p].conns + 1 ELSE peer[p].conns
        BY <2>1, <2>2, GivesPeers DEF PeersGiven
      <4> QED BY <2>2, <4>1 DEF Gives
    <3>3. /\ Cardinality(Users(p) \cup {r}) = Cardinality(Users(p)) + 1
          /\ Cardinality(Users(p)) \in Nat
      BY <2>1, <3>1, CountChange
    <3> QED BY <2>1, <3>1, <3>2, <3>3 DEF Counted
  <2>3. ASSUME NEW r \in Req, GivesBack(r)
        PROVE  Counted(p)'
    <3>1. Users(p)' = Users(p) \ {r} /\ conf' = conf
      BY <2>3, UsersLeaves DEF GivesBack, Leaves
    <3>2. r \in Users(p) <=> p = req[r].current
      BY <2>3 DEF UpstreamInv, RequestInv, GivesBack, Users
    <3>3. peer'[p].conns = IF p = req[r].current THEN peer[p].conns - 1 ELSE peer[p].conns
      BY <2>3, GivesBackPeers
    <3>4. /\ r \in Users(p) => Cardinality(Users(p) \ {r}) = Cardinality(Users(p)) - 1
          /\ r \notin Users(p) => Users(p) \ {r} = Users(p)
          /\ Cardinality(Users(p)) \in Nat
      BY <2>1, CountChange
    <3> HIDE DEF Users
    <3>5. CASE p = req[r].current
      <4>1. peer'[p].conns = Cardinality(Users(p)')
        BY <2>1, <3>1, <3>2, <3>3, <3>4, <3>5 DEF Counted
      <4> QED BY <2>1, <3>1, <3>3, <3>4, <3>5, <4>1 DEF Counted
    <3>6. CASE p # req[r].current
      BY <2>1, <3>1, <3>2, <3>3, <3>4, <3>6 DEF Counted
    <3> QED BY <3>5, <3>6
  <2>4. ASSUME Users(p)' = Users(p), conf' = conf, peer' = peer
        PROVE  Counted(p)'
    BY <2>1, <2>4 DEF Counted
  <2>5. ASSUME NEW r \in Req, Waits(r) PROVE Counted(p)'
    <3>1. Users(p)' = Users(p) \ {r} /\ r \notin Users(p) /\ conf' = conf /\ peer' = peer
      <4>1. Users(p)' = Users(p) \ {r}
        BY <2>5, UsersLeaves DEF Waits
      <4>2. r \notin Users(p)
        BY <2>5 DEF UpstreamInv, RequestInv, Waits, Users
      <4> QED BY <2>5, <4>1, <4>2 DEF Waits, Leaves
    <3> QED BY <2>4, <3>1
  <2>6. ASSUME NEW r \in Req, Connect(r) PROVE Counted(p)'
    <3>1. \A s \in Req : req'[s].addr = req[s].addr /\ req'[s].current = req[s].current
      BY <2>6, ConnectInv
    <3>2. Users(p)' = Users(p)
      BY <3>1 DEF Users
    <3> QED BY <2>4, <2>6, <3>2 DEF Connect
  <2>7. CASE (\E i \in DOMAIN cache : CloseIdle(i)) \/ Tick \/ UNCHANGED upVars
    <3>1. UNCHANGED <<req, conf, peer>>
      BY <2>7 DEF CloseIdle, Tick, upVars
    <3>2. Users(p)' = Users(p)
      BY <3>1 DEF Users
    <3> QED BY <2>4, <3>1, <3>2
  <2> QED BY <2>2, <2>3, <2>5, <2>6, <2>7, StepIs
<1> QED BY <1>0, <1>1, <1>2, UpstreamInvariant, PTL DEF UpstreamSpec

\* The times that ProbeInv and OneProbe compare.
LEMMA TimesAre ==
  ASSUME UpstreamInv
  PROVE  /\ now \in Nat /\ FailTimeout \in Nat
         /\ \A p \in Peer : peer[p].checked \in Int /\ conf.maxFails[p] \in Nat
                            /\ peer[p].fails \in Int
         /\ \A r \in Req : probe[r] \in Int /\ (probe[r] # Never => req[r].current \in Peer)
<1>0. UpstreamType
  BY DEF UpstreamInv
<1>1. \A p \in Peer : conf.maxFails[p] \in Nat
  BY <1>0, ConfIs
<1>2. \A r \in Req : probe[r] # Never => req[r].current \in Peer
  BY DEF UpstreamInv, UpstreamType, RequestInv, Points
<1> QED BY <1>0, <1>1, <1>2, UpstreamAssumption DEF UpstreamType, PeerType

\* Probes keep apart when nobody gets a peer.
LEMMA ProbesKept ==
  ASSUME UpstreamInv, ProbeInv, OneProbe, now' \in Nat, now <= now',
         peer' \in [Peer -> PeerType],
         \A p \in Peer : peer'[p].checked \in {peer[p].checked, now},
         \A r \in Req : probe'[r] = Never \/ (probe'[r] = probe[r] /\
                                              req'[r].current = req[r].current)
  PROVE  ProbeInv' /\ OneProbe'
<1>1. /\ now \in Nat
      /\ \A p \in Peer : peer[p].checked \in Int
      /\ \A r \in Req : probe[r] \in Int /\ (probe[r] # Never => req[r].current \in Peer)
  BY TimesAre
<1>2. \A p \in Peer : peer'[p].checked <= now' /\ peer[p].checked <= peer'[p].checked
  BY <1>1 DEF ProbeInv
<1>3. ASSUME NEW r \in Req, probe'[r] # Never
      PROVE  probe'[r] <= peer'[req'[r].current].checked
  <2> DEFINE p == req[r].current
  <2>1. probe'[r] = probe[r] /\ req'[r].current = p /\ p \in Peer /\ probe[r] <= peer[p].checked
    BY <1>1, <1>3 DEF ProbeInv
  <2> HIDE DEF p
  <2>2. peer[p].checked \in Int /\ peer'[p].checked \in Int /\ probe[r] \in Int
    BY <1>1, <2>1 DEF PeerType
  <2> QED BY <1>2, <2>1, <2>2
<1>4. ProbeInv'
  BY <1>2, <1>3 DEF ProbeInv
<1>5. OneProbe'
  BY DEF OneProbe
<1> QED BY <1>4, <1>5

\* Probes of a peer that has failed too often are more than fail_timeout apart:
\* the one who gets it moves checked while the lock of the peers is held
\* (ngx_http_upstream_get_peer).
THEOREM ProbesApart == UpstreamSpec => []OneProbe
<1>1. UpstreamInit => ProbeInv /\ OneProbe
  <2> HAVE UpstreamInit
  <2>1. \A r \in Req : probe[r] = Never
    BY DEF UpstreamInit
  <2> QED BY <2>1, InitInv DEF OneProbe
<1>2. UpstreamInv /\ ProbeInv /\ OneProbe /\ [UpstreamNext]_upVars => (ProbeInv /\ OneProbe)'
  <2> SUFFICES ASSUME UpstreamInv, ProbeInv, OneProbe, [UpstreamNext]_upVars
               PROVE  ProbeInv' /\ OneProbe'
    OBVIOUS
  <2>1. /\ now \in Nat /\ FailTimeout \in Nat
        /\ \A p \in Peer : /\ peer[p].checked \in Int /\ conf.maxFails[p] \in Nat
                           /\ peer[p].fails \in Int
        /\ \A r \in Req : probe[r] \in Int /\ (probe[r] # Never => req[r].current \in Peer)
    BY TimesAre
  <2>2. peer \in [Peer -> PeerType] /\ UpstreamType
    BY DEF UpstreamInv, UpstreamType
  <2>3. ASSUME NEW r \in Req, NEW g, NEW E, NEW b, NEW i, Gives(r, g, E, b, i)
        PROVE  ProbeInv' /\ OneProbe'
    <3>1. /\ req'[r].current = b
          /\ probe'[r] = (IF ~Single /\ conf.maxFails[b] > 0 /\ peer[b].fails >= conf.maxFails[b]
                          THEN now ELSE Never)
          /\ \A s \in Req : s # r => req'[s] = req[s] /\ probe'[s] = probe[s]
      BY <2>3, GivesIs
    <3>2. b \in Peer /\ now' = now /\ (~Single => ~Disabled(b))
      BY <2>3 DEF Gives
    <3>3. \A p \in Peer : peer'[p].checked =
            IF ~Single /\ p = b /\ now - peer[p].checked > FailTimeout
            THEN now ELSE peer[p].checked
      BY <2>2, <2>3, GivesPeers DEF PeersGiven
    <3>4. probe'[r] # Never => /\ probe'[r] = now /\ peer'[b].checked = now
                               /\ now - peer[b].checked > FailTimeout
      BY <2>1, <3>1, <3>2, <3>3 DEF Disabled
    <3>5. \A p \in Peer : /\ peer'[p].checked \in Int /\ peer'[p].checked <= now
                          /\ peer[p].checked <= peer'[p].checked
      BY <2>1, <3>3 DEF ProbeInv
    <3>6. ASSUME NEW s \in Req, probe'[s] # Never
          PROVE  probe'[s] <= peer'[req'[s].current].checked
      <4>1. CASE s = r
        BY <2>1, <3>1, <3>4, <3>6, <4>1
      <4>2. CASE s # r
        <5> DEFINE p == req[s].current
        <5>1. probe'[s] = probe[s] /\ req'[s].current = p /\ p \in Peer
              /\ probe[s] <= peer[p].checked
          BY <2>1, <3>1, <3>6, <4>2 DEF ProbeInv
        <5> HIDE DEF p
        <5> QED BY <2>1, <3>5, <5>1
      <4> QED BY <4>1, <4>2
    <3>7. ASSUME NEW s \in Req, s # r, probe'[r] # Never, probe'[s] # Never, req'[s].current = b
          PROVE  probe'[r] - probe'[s] > FailTimeout
      <4>1. probe'[s] = probe[s] /\ req[s].current = b /\ probe[s] <= peer[b].checked
        BY <3>1, <3>7 DEF ProbeInv
      <4> QED BY <2>1, <3>2, <3>4, <3>7, <4>1
    <3>8. ProbeInv'
      BY <3>2, <3>5, <3>6 DEF ProbeInv
    <3>9. ASSUME NEW s \in Req, NEW t \in Req, s # t, probe'[s] # Never, probe'[t] # Never,
                 req'[s].current = req'[t].current
          PROVE  probe'[s] - probe'[t] > FailTimeout \/ probe'[t] - probe'[s] > FailTimeout
      <4>1. CASE s = r
        BY <3>1, <3>7, <3>9, <4>1
      <4>2. CASE t = r
        BY <3>1, <3>7, <3>9, <4>2
      <4>3. CASE s # r /\ t # r
        BY <3>1, <3>9, <4>3 DEF OneProbe
      <4> QED BY <4>1, <4>2, <4>3
    <3>10. OneProbe'
      BY <3>9 DEF OneProbe
    <3> QED BY <3>8, <3>10
  <2>4. ASSUME NEW r \in Req, GivesBack(r) PROVE ProbeInv' /\ OneProbe'
    <3>1. /\ probe'[r] = Never /\ \A s \in Req : s # r => req'[s] = req[s] /\ probe'[s] = probe[s]
          /\ now' = now
      BY <2>4, LeavesIs DEF GivesBack, Leaves
    <3>2. /\ peer' \in [Peer -> PeerType]
          /\ \A p \in Peer : peer'[p].checked \in {peer[p].checked, now}
      BY <2>4, GivesBackPeers
    <3> QED BY <2>1, <3>1, <3>2, ProbesKept
  <2>5. ASSUME peer' = peer, now' \in Nat, now <= now',
               \A s \in Req : probe'[s] = Never \/ (probe'[s] = probe[s] /\
                                                    req'[s].current = req[s].current)
        PROVE  ProbeInv' /\ OneProbe'
    BY <2>2, <2>5, ProbesKept
  <2>6. ASSUME NEW r \in Req, Waits(r) PROVE ProbeInv' /\ OneProbe'
    <3>1. /\ probe'[r] = Never /\ \A s \in Req : s # r => req'[s] = req[s] /\ probe'[s] = probe[s]
          /\ now' = now /\ peer' = peer
      BY <2>6, LeavesIs DEF Waits, Leaves
    <3> QED BY <2>1, <2>5, <3>1
  <2>7. ASSUME NEW r \in Req, Connect(r) PROVE ProbeInv' /\ OneProbe'
    <3>1. \A s \in Req : req'[s].current = req[s].current
      BY <2>7, ConnectInv
    <3> QED BY <2>1, <2>5, <2>7, <3>1 DEF Connect
  <2>8. CASE (\E i \in DOMAIN cache : CloseIdle(i)) \/ Tick \/ UNCHANGED upVars
    <3>1. UNCHANGED <<req, probe, peer>> /\ (now' = now \/ now' = now + 1)
      BY <2>8 DEF CloseIdle, Tick, upVars
    <3> QED BY <2>1, <2>5, <3>1
  <2> QED BY <2>3, <2>4, <2>6, <2>7, <2>8, StepIs
<1> QED BY <1>1, <1>2, UpstreamInvariant, PTL DEF UpstreamSpec

Currents == [p \in Peer |-> peer[p].current]

\* A group is finite, and no peer is in two of them.
LEMMA GroupsAre ==
  ASSUME UpstreamType, NEW g \in 1..Len(conf.groups)
  PROVE  /\ IsFiniteSet(Members(g)) /\ Members(g) \subseteq Peer
         /\ \A h \in 1..Len(conf.groups) : h # g => Members(g) \cap Members(h) = {}
<1>1. /\ conf.groups[g] \in Seq(Peer) /\ Members(g) \subseteq Peer
      /\ Members(g) = {conf.groups[g][i] : i \in 1..Len(conf.groups[g])}
  BY ConfIs
<1>2. IsFiniteSet(Members(g))
  <2> DEFINE s == conf.groups[g]
             h == [i \in 1..Len(s) |-> s[i]]
  <2>1. IsFiniteSet(1..Len(s))
    BY <1>1, FS_Interval
  <2>2. h \in Surjection(1..Len(s), Members(g))
    BY <1>1 DEF Surjection
  <2> QED BY <2>1, <2>2, FS_Surjection
<1>3. ASSUME NEW h \in 1..Len(conf.groups), h # g PROVE Members(g) \cap Members(h) = {}
  <2>1. /\ Len(conf.groups) \in 1..2
        /\ Len(conf.groups) = 2 => ToSet(conf.groups[1]) \cap ToSet(conf.groups[2]) = {}
    BY ConfigsAssumption DEF UpstreamType
  <2>2. Len(conf.groups) = 2 /\ ((g = 1 /\ h = 2) \/ (g = 2 /\ h = 1))
    <3> DEFINE n == Len(conf.groups)
    <3>1. n \in {1, 2} /\ g \in 1..n /\ h \in 1..n
      BY <2>1
    <3> HIDE DEF n
    <3>2. n = 2 /\ ((g = 1 /\ h = 2) \/ (g = 2 /\ h = 1))
      BY <1>3, <3>1
    <3> QED BY <3>2 DEF n
  <2> QED BY <2>1, <2>2 DEF Members
<1> QED BY <1>1, <1>2, <1>3

\* The sum of zeros.
LEMMA SumZero ==
  ASSUME NEW S, IsFiniteSet(S), NEW f, \A x \in S : f[x] = 0
  PROVE  SumFunctionOnSet(f, S) = 0
<1>1. \A x \in S : f[x] \in Int /\ f[x] \in Int /\ f[x] = f[x] + f[x]
  OBVIOUS
<1>2. SumFunctionOnSet(f, S) = SumFunctionOnSet(f, S) + SumFunctionOnSet(f, S)
  BY <1>1, SumPlus
<1>3. SumFunctionOnSet(f, S) \in Int
  BY <1>1, SumInt
<1> DEFINE n == SumFunctionOnSet(f, S)
<1>4. n \in Int /\ n = n + n
  BY <1>2, <1>3
<1> HIDE DEF n
<1>5. n = 0
  BY <1>4
<1> QED BY <1>5 DEF n

\* f2 is f where each of E has gained its e, and b has lost the sum of it.
Shifted(M, E, b, e, f, f2) ==
  /\ IsFiniteSet(M) /\ E \in SUBSET M /\ b \in E
  /\ \A p \in M : f[p] \in Int
  /\ \A p \in E : e[p] \in Int
  /\ \A p \in M : f2[p] = IF p \notin E THEN f[p]
                          ELSE IF p = b THEN f[p] + e[p] - SumFunctionOnSet(e, E)
                          ELSE f[p] + e[p]

\* A choice takes from one peer what it gives to all: the sum stays.
LEMMA ChoiceBalanced ==
  ASSUME NEW M, NEW E, NEW b, NEW e, NEW f, NEW f2, Shifted(M, E, b, e, f, f2)
  PROVE  SumFunctionOnSet(f2, M) = SumFunctionOnSet(f, M)
<1> USE DEF Shifted
<1> DEFINE w == [p \in E |-> f[p] + e[p]]
           total == SumFunctionOnSet(e, E)
           d == -total
           R == M \ E
<1>1. IsFiniteSet(E) /\ IsFiniteSet(R)
  BY FS_Subset
<1>2. total \in Int
  BY <1>1, SumInt
<1>3. d \in Int
  BY <1>2
<1>4. \A p \in E : f[p] \in Int /\ e[p] \in Int /\ w[p] = f[p] + e[p]
  OBVIOUS
<1>5. SumFunctionOnSet(w, E) = SumFunctionOnSet(f, E) + total
  BY <1>1, <1>4, SumPlus
<1> HIDE DEF w
<1>6. \A p \in E : w[p] \in Int /\ f2[p] = IF p = b THEN w[p] + d ELSE w[p]
  <2>1. \A p \in E : f2[p] = IF p = b THEN f[p] + e[p] - total ELSE f[p] + e[p]
    OBVIOUS
  <2> HIDE DEF total
  <2> QED BY <1>2, <1>4, <2>1
<1> HIDE DEF d
<1>7. SumFunctionOnSet(f2, E) = SumFunctionOnSet(w, E) + d
  BY <1>1, <1>3, <1>6, SumChange
<1>8. \A p \in R : f[p] \in Int /\ f2[p] = f[p]
  OBVIOUS
<1>9. SumFunctionOnSet(f2, R) = SumFunctionOnSet(f, R)
  BY <1>1, <1>8, SumSame
<1>10. SumFunctionOnSet(f, E) \in Int /\ SumFunctionOnSet(f, R) \in Int
  BY <1>1, <1>4, <1>8, SumInt
<1>11. \A p \in M : f2[p] \in Int
  <2>1. \A p \in E : f2[p] \in Int
    BY <1>3, <1>6
  <2> QED BY <1>8, <2>1
<1>12. SumFunctionOnSet(f, M) = SumFunctionOnSet(f, E) + SumFunctionOnSet(f, R)
  BY SumSplit
<1>13. SumFunctionOnSet(f2, M) = SumFunctionOnSet(f2, E) + SumFunctionOnSet(f2, R)
  BY <1>11, SumSplit
<1> HIDE DEF total, R
<1>14. d = -total
  BY DEF d
<1> QED BY <1>2, <1>5, <1>7, <1>9, <1>10, <1>12, <1>13, <1>14

\* The current weights of a group always add up to zero: what a choice gives to
\* the eligible peers it takes from the one chosen, whatever the effective
\* weights have become (ngx_http_upstream_get_peer).
THEOREM WeightsKept == UpstreamSpec => []WeightsBalanced
<1>1. UpstreamInit => WeightsBalanced
  <2> HAVE UpstreamInit
  <2>1. UpstreamType
    BY InitInv DEF UpstreamInv
  <2>2. \A p \in Peer : Currents[p] = 0
    BY DEF UpstreamInit, Currents
  <2>3. ASSUME NEW g \in DOMAIN conf.groups
        PROVE  SumFunctionOnSet(Currents, Members(g)) = 0
    <3>1. g \in 1..Len(conf.groups)
      BY <2>1, ConfIs
    <3>2. IsFiniteSet(Members(g)) /\ Members(g) \subseteq Peer
      BY <2>1, <3>1, GroupsAre
    <3> QED BY <2>2, <3>2, SumZero
  <2> QED BY <2>3 DEF WeightsBalanced, Currents
<1>2. UpstreamInv /\ WeightsBalanced /\ [UpstreamNext]_upVars => WeightsBalanced'
  <2> SUFFICES ASSUME UpstreamInv, WeightsBalanced, [UpstreamNext]_upVars
               PROVE  WeightsBalanced'
    OBVIOUS
  <2>1. /\ UpstreamType
        /\ \A p \in Peer : /\ peer[p].current \in Int /\ peer[p].effective \in Int
                           /\ Currents[p] = peer[p].current
    BY DEF UpstreamInv, UpstreamType, PeerType, Currents
  <2>2. ASSUME conf' = conf,
               \A h \in 1..Len(conf.groups) :
                 SumFunctionOnSet(Currents', Members(h)) = SumFunctionOnSet(Currents, Members(h))
        PROVE  WeightsBalanced'
    <3>1. DOMAIN conf.groups = 1..Len(conf.groups)
      BY <2>1, ConfIs
    <3>2. \A h \in DOMAIN conf.groups : SumFunctionOnSet(Currents, Members(h)) = 0
      BY DEF WeightsBalanced, Currents
    <3>3. \A h : Members(h)' = Members(h)
      BY <2>2 DEF Members
    <3>4. \A h \in DOMAIN conf'.groups : SumFunctionOnSet(Currents', Members(h)') = 0
      BY <2>2, <3>1, <3>2, <3>3
    <3> QED BY <3>4 DEF WeightsBalanced, Currents
  <2>3. ASSUME conf' = conf, \A p \in Peer : peer'[p].current = peer[p].current
        PROVE  WeightsBalanced'
    <3>1. Currents' = Currents
      BY <2>3 DEF Currents
    <3> QED BY <2>2, <2>3, <3>1
  <2>4. ASSUME NEW r \in Req, NEW g, NEW E, NEW b, NEW i, Gives(r, g, E, b, i), ~Single
        PROVE  WeightsBalanced'
    <3>1. /\ g \in 1..Len(conf.groups) /\ E \subseteq Members(g) /\ E # {} /\ conf' = conf
          /\ b = Weighed(g, E).best
      BY <2>4 DEF Gives
    <3>2. \A p \in Peer : Currents'[p] = IF p \in E THEN Weighed(g, E).current[p]
                                         ELSE Currents[p]
      <4>1. \A p \in Peer : peer'[p].current = IF p \in E THEN Weighed(g, E).current[p]
                                               ELSE peer[p].current
        BY <2>1, <2>4, GivesPeers DEF PeersGiven
      <4> QED BY <2>1, <4>1 DEF Currents
    <3> DEFINE e == [p \in E |-> peer[p].effective]
    <3>3. LET W == Weighed(g, E)
              total == SumFunctionOnSet(e, E)
          IN  /\ W.best \in E /\ total \in Int
              /\ \A p \in E : W.current[p] = IF p = W.best
                                             THEN peer[p].current + peer[p].effective - total
                                             ELSE peer[p].current + peer[p].effective
      <4>1. /\ UpstreamType /\ g \in 1..Len(conf.groups) /\ E \subseteq Members(g) /\ E # {}
        BY <2>1, <3>1
      <4> QED BY <4>1, WeighedIs, ZenonT(60)
    <3>4. /\ IsFiniteSet(Members(g)) /\ Members(g) \subseteq Peer
          /\ \A h \in 1..Len(conf.groups) : h # g => Members(g) \cap Members(h) = {}
      BY <2>1, <3>1, GroupsAre
    <3>5. /\ \A p \in E : e[p] = peer[p].effective /\ e[p] \in Int
          /\ \A p \in Members(g) : Currents[p] \in Int
      BY <2>1, <3>1, <3>4
    <3> HIDE DEF e
    <3>6. \A p \in Members(g) :
            Currents'[p] = IF p \notin E THEN Currents[p]
                           ELSE IF p = b THEN Currents[p] + e[p] - SumFunctionOnSet(e, E)
                           ELSE Currents[p] + e[p]
      BY <2>1, <3>1, <3>2, <3>3, <3>4, <3>5
    <3>7. b \in E
      BY <3>1, <3>3
    <3>8. SumFunctionOnSet(Currents', Members(g)) = SumFunctionOnSet(Currents, Members(g))
      <4> DEFINE M == Members(g)
                 f == Currents
                 f2 == Currents'
      <4>1. Shifted(M, E, b, e, f, f2)
        BY <3>1, <3>4, <3>5, <3>6, <3>7 DEF Shifted
      <4> HIDE DEF M, f, f2
      <4>2. SumFunctionOnSet(f2, M) = SumFunctionOnSet(f, M)
        BY <4>1, ChoiceBalanced
      <4> QED BY <4>2 DEF M, f, f2
    <3>9. ASSUME NEW h \in 1..Len(conf.groups), h # g
          PROVE  SumFunctionOnSet(Currents', Members(h)) = SumFunctionOnSet(Currents, Members(h))
      <4>1. IsFiniteSet(Members(h)) /\ Members(h) \subseteq Peer
        BY <2>1, GroupsAre
      <4>2. \A p \in Members(h) : p \in Peer /\ p \notin E
        BY <3>1, <3>4, <3>9, <4>1
      <4>3. \A p \in Members(h) : Currents[p] \in Int /\ Currents'[p] = Currents[p]
        BY <2>1, <3>2, <4>2
      <4> QED BY <4>1, <4>3, SumSame
    <3> QED BY <2>2, <3>1, <3>8, <3>9
  <2>5. ASSUME NEW r \in Req, NEW g, NEW E, NEW b, NEW i, Gives(r, g, E, b, i), Single
        PROVE  WeightsBalanced'
    <3>1. \A p \in Peer : peer'[p].current = peer[p].current
      BY <2>1, <2>5, GivesPeers DEF PeersGiven
    <3> QED BY <2>3, <2>5, <3>1 DEF Gives
  <2>6. ASSUME NEW r \in Req, GivesBack(r) PROVE WeightsBalanced'
    <3>1. \A p \in Peer : peer'[p].current = peer[p].current
      BY <2>6, GivesBackPeers
    <3> QED BY <2>3, <2>6, <3>1 DEF GivesBack, Leaves
  <2>7. CASE \/ \E r \in Req : Waits(r) \/ Connect(r)
             \/ \E i \in DOMAIN cache : CloseIdle(i)
             \/ Tick
             \/ UNCHANGED upVars
    <3>1. UNCHANGED <<conf, peer>>
      BY <2>7 DEF Waits, Leaves, Connect, CloseIdle, Tick, upVars
    <3> QED BY <2>3, <3>1
  <2> QED BY <2>4, <2>5, <2>6, <2>7, StepIs
<1> QED BY <1>1, <1>2, UpstreamInvariant, PTL DEF UpstreamSpec
=============================================================================
