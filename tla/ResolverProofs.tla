--------------------------- MODULE ResolverProofs ---------------------------
(***************************************************************************)
(* The safety properties of Resolver, for all sets of names and contexts,  *)
(* all answers, all time limits and any number of faults.                  *)
(*                                                                         *)
(* The functions of the resolver work on a state that is halfway: a node   *)
(* has left its queue, is answered but still has waiting contexts, or has  *)
(* left the tree; contexts have left the list of a node and have no other  *)
(* yet.  Good(x, W, H) is the invariant with the nodes of W in work and    *)
(* the contexts of H in hand; between two steps both are empty.            *)
(***************************************************************************)
EXTENDS Resolver, DataLemmas

-----------------------------------------------------------------------------
(* Sequences.                                                              *)

\* The elements of a sequence are what stands at its places.
LEMMA ElementsAre ==
  ASSUME NEW S, NEW q \in Seq(S)
  PROVE  /\ DOMAIN q = 1..Len(q) /\ Len(q) \in Nat /\ ToSet(q) \subseteq S
         /\ \A e : e \in ToSet(q) <=> \E i \in 1..Len(q) : q[i] = e
         /\ q = <<>> <=> ToSet(q) = {}
         /\ q = <<>> <=> Len(q) = 0
<1>1. DOMAIN q = 1..Len(q) /\ Len(q) \in Nat /\ (\A i \in 1..Len(q) : q[i] \in S)
      /\ (q = <<>> <=> Len(q) = 0)
  OBVIOUS
<1>2. \A e : e \in ToSet(q) <=> \E i \in 1..Len(q) : q[i] = e
  BY <1>1 DEF ToSet
<1>3. ToSet(q) \subseteq S
  BY <1>1, <1>2
<1>4. Len(q) = 0 => ToSet(q) = {}
  BY <1>1, <1>2
<1>5. Len(q) # 0 => q[1] \in ToSet(q)
  BY <1>1, <1>2
<1> QED BY <1>1, <1>2, <1>3, <1>4, <1>5

\* Earlier elements expire later.
Sorted(q, node) ==
  \A i, j \in DOMAIN q : i < j => node[q[i]].expire >= node[q[j]].expire

\* A queue, or a list, without one of its elements.
LEMMA WithoutIs ==
  ASSUME NEW S, NEW q \in Seq(S), IsInjective(q), NEW n
  PROVE  /\ Without(q, n) \in Seq(S) /\ IsInjective(Without(q, n))
         /\ ToSet(Without(q, n)) = ToSet(q) \ {n}
         /\ \A node : Sorted(q, node) => Sorted(Without(q, n), node)
<1>1. DOMAIN q = 1..Len(q) /\ Len(q) \in Nat /\ (\A e : e \in ToSet(q) <=> \E i \in 1..Len(q) : q[i] = e)
  BY ElementsAre
<1>2. CASE n \notin ToSet(q)
  BY <1>2 DEF Without
<1>3. CASE n \in ToSet(q)
  <2>1. PICK p : p = CHOOSE i \in DOMAIN q : q[i] = n
    OBVIOUS
  <2>2. p \in 1..Len(q) /\ q[p] = n
    <3>1. \E i \in DOMAIN q : q[i] = n
      BY <1>1, <1>3
    <3> QED BY <3>1, <2>1, <1>1
  <2>3. PICK r : r = RemoveAt(q, p)
    OBVIOUS
  <2>4. r \in Seq(S) /\ Len(r) = Len(q) - 1
        /\ \A j \in 1..(Len(q) - 1) : r[j] = IF j < p THEN q[j] ELSE q[j + 1]
    BY <2>2, <2>3, RemoveAtIs
  <2>5. DOMAIN r = 1..Len(q) - 1 /\ (\A e : e \in ToSet(r) <=> \E i \in 1..Len(q) - 1 : r[i] = e)
    BY <2>4, ElementsAre
  <2>6. Without(q, n) = r
    BY <1>3, <2>1, <2>3 DEF Without
  <2>7. \A i, j \in 1..Len(q) : q[i] = q[j] => i = j
    BY <1>1 DEF IsInjective
  <2>8. \A j \in 1..Len(q) - 1 : \E k \in 1..Len(q) :
          r[j] = q[k] /\ k # p /\ k = IF j < p THEN j ELSE j + 1
    BY <1>1, <2>2, <2>4
  <2>9. IsInjective(r)
    <3>1. \A i, j \in 1..Len(q) - 1 : r[i] = r[j] => i = j
      BY <1>1, <2>2, <2>7, <2>8
    <3> QED BY <3>1, <2>5 DEF IsInjective
  <2>10. ToSet(r) = ToSet(q) \ {n}
    <3>1. ASSUME NEW e \in ToSet(r) PROVE e \in ToSet(q) /\ e # n
      BY <2>2, <2>5, <2>7, <2>8, <1>1
    <3>2. ASSUME NEW e \in ToSet(q), e # n PROVE e \in ToSet(r)
      <4>1. PICK k \in 1..Len(q) : q[k] = e
        BY <1>1
      <4>2. CASE k < p
        BY <4>1, <4>2, <1>1, <2>2, <2>4, <2>5
      <4>3. CASE k > p
        <5>1. k - 1 \in 1..Len(q) - 1 /\ ~(k - 1 < p) /\ (k - 1) + 1 = k
          BY <4>3, <1>1, <2>2
        <5>2. r[k - 1] = e
          BY <5>1, <4>1, <2>4
        <5> QED BY <5>1, <5>2, <2>5
      <4> QED BY <4>1, <4>2, <4>3, <2>2, <3>2, <1>1
    <3> QED BY <3>1, <3>2
  <2>11. ASSUME NEW node, Sorted(q, node) PROVE Sorted(r, node)
    <3> SUFFICES ASSUME NEW i \in 1..Len(q) - 1, NEW j \in 1..Len(q) - 1, i < j
                 PROVE  node[r[i]].expire >= node[r[j]].expire
      BY <2>5 DEF Sorted
    <3>1. PICK k, l \in 1..Len(q) : r[i] = q[k] /\ r[j] = q[l] /\ k < l
      BY <2>8, <1>1, <2>2
    <3> QED BY <3>1, <2>11, <1>1 DEF Sorted
  <2> QED BY <2>4, <2>6, <2>9, <2>10, <2>11
<1> QED BY <1>2, <1>3

\* A queue with a node put at its head.
LEMMA PushedIs ==
  ASSUME NEW S, NEW q \in Seq(S), IsInjective(q), NEW n \in S, n \notin ToSet(q)
  PROVE  /\ <<n>> \o q \in Seq(S) /\ IsInjective(<<n>> \o q)
         /\ ToSet(<<n>> \o q) = {n} \cup ToSet(q)
         /\ DOMAIN (<<n>> \o q) = 1..Len(q) + 1 /\ (<<n>> \o q)[1] = n
         /\ \A j \in 2..Len(q) + 1 : (<<n>> \o q)[j] = q[j - 1]
<1>1. DOMAIN q = 1..Len(q) /\ Len(q) \in Nat /\ (\A e : e \in ToSet(q) <=> \E i \in 1..Len(q) : q[i] = e)
  BY ElementsAre
<1>2. PICK r : r = <<n>> \o q
  OBVIOUS
<1>3. r \in Seq(S) /\ Len(r) = Len(q) + 1 /\ r[1] = n /\ \A j \in 2..Len(q) + 1 : r[j] = q[j - 1]
  BY <1>2, PushIs
<1>4. DOMAIN r = 1..Len(q) + 1 /\ (\A e : e \in ToSet(r) <=> \E i \in 1..Len(q) + 1 : r[i] = e)
  BY <1>3, ElementsAre
<1>5. \A i, j \in 1..Len(q) : q[i] = q[j] => i = j
  BY <1>1 DEF IsInjective
<1>6. \A j \in 1..Len(q) + 1 : j = 1 \/ (j - 1 \in 1..Len(q) /\ r[j] = q[j - 1])
  BY <1>1, <1>3
<1>7. IsInjective(r)
  <2>1. ASSUME NEW i \in 1..Len(q) + 1, NEW j \in 1..Len(q) + 1, r[i] = r[j] PROVE i = j
    <3>1. CASE i = 1
      BY <3>1, <2>1, <1>1, <1>3, <1>6
    <3>2. CASE j = 1
      BY <3>2, <2>1, <1>1, <1>3, <1>6
    <3>3. CASE i # 1 /\ j # 1
      BY <3>3, <2>1, <1>1, <1>5, <1>6
    <3> QED BY <3>1, <3>2, <3>3
  <2> QED BY <2>1, <1>4 DEF IsInjective
<1>8. ToSet(r) = {n} \cup ToSet(q)
  <2>1. ASSUME NEW e \in ToSet(r) PROVE e = n \/ e \in ToSet(q)
    BY <1>1, <1>3, <1>4, <1>6
  <2>2. n \in ToSet(r)
    <3>1. 1 \in 1..Len(q) + 1
      BY <1>1
    <3> QED BY <3>1, <1>3, <1>4
  <2>3. ASSUME NEW e \in ToSet(q) PROVE e \in ToSet(r)
    <3>1. PICK k \in 1..Len(q) : q[k] = e
      BY <1>1
    <3>2. k + 1 \in 2..Len(q) + 1 /\ k + 1 \in 1..Len(q) + 1 /\ (k + 1) - 1 = k
      BY <1>1
    <3> QED BY <3>1, <3>2, <1>3, <1>4
  <2> QED BY <2>1, <2>2, <2>3
<1> QED BY <1>2, <1>3, <1>4, <1>7, <1>8

\* A queue that is in order is so with a node at its head that expires last.
LEMMA SortedPush ==
  ASSUME NEW S, NEW q \in Seq(S), NEW n \in S, n \notin ToSet(q), NEW node, Sorted(q, node),
         \A k \in ToSet(q) : node[n].expire >= node[k].expire
  PROVE  Sorted(<<n>> \o q, node)
<1>1. DOMAIN q = 1..Len(q) /\ Len(q) \in Nat /\ (\A e : e \in ToSet(q) <=> \E i \in 1..Len(q) : q[i] = e)
  BY ElementsAre
<1>2. PICK r : r = <<n>> \o q
  OBVIOUS
<1>3. r \in Seq(S) /\ Len(r) = Len(q) + 1 /\ r[1] = n /\ \A j \in 2..Len(q) + 1 : r[j] = q[j - 1]
  BY <1>2, PushIs
<1>4. DOMAIN r = 1..Len(q) + 1
  BY <1>3, ElementsAre
<1>5. ASSUME NEW i \in 1..Len(q) + 1, NEW j \in 1..Len(q) + 1, i < j
      PROVE  node[r[i]].expire >= node[r[j]].expire
  <2>1. j \in 2..Len(q) + 1 /\ j - 1 \in 1..Len(q) /\ r[j] = q[j - 1] /\ q[j - 1] \in ToSet(q)
    BY <1>5, <1>1, <1>3
  <2>2. CASE i = 1
    BY <2>1, <2>2, <1>3
  <2>3. CASE i # 1
    <3>1. i \in 2..Len(q) + 1 /\ i - 1 \in 1..Len(q) /\ r[i] = q[i - 1] /\ i - 1 < j - 1
      BY <2>3, <1>5, <1>1, <1>3
    <3> QED BY <3>1, <2>1, <1>1 DEF Sorted
  <2> QED BY <2>2, <2>3
<1> QED BY <1>2, <1>4, <1>5 DEF Sorted

\* Only what the nodes of a queue expire at matters to its order.
LEMMA SortedSame ==
  ASSUME NEW S, NEW q \in Seq(S), NEW node, NEW node1, Sorted(q, node),
         \A k \in ToSet(q) : node1[k].expire = node[k].expire
  PROVE  Sorted(q, node1)
<1>1. DOMAIN q = 1..Len(q) /\ (\A e : e \in ToSet(q) <=> \E i \in 1..Len(q) : q[i] = e)
  BY ElementsAre
<1>2. \A i \in DOMAIN q : node1[q[i]].expire = node[q[i]].expire
  BY <1>1
<1> QED BY <1>2 DEF Sorted

\* Two lists, one after the other.
LEMMA JoinedIs ==
  ASSUME NEW S, NEW p \in Seq(S), NEW q \in Seq(S)
  PROVE  /\ p \o q \in Seq(S) /\ ToSet(p \o q) = ToSet(p) \cup ToSet(q)
         /\ IsInjective(p) /\ IsInjective(q) /\ ToSet(p) \cap ToSet(q) = {} => IsInjective(p \o q)
<1>1. DOMAIN p = 1..Len(p) /\ Len(p) \in Nat /\ (\A e : e \in ToSet(p) <=> \E i \in 1..Len(p) : p[i] = e)
  BY ElementsAre
<1>2. DOMAIN q = 1..Len(q) /\ Len(q) \in Nat /\ (\A e : e \in ToSet(q) <=> \E i \in 1..Len(q) : q[i] = e)
  BY ElementsAre
<1>3. PICK r : r = p \o q
  OBVIOUS
<1>4. r \in Seq(S) /\ Len(r) = Len(p) + Len(q)
      /\ \A j \in 1..Len(p) + Len(q) : r[j] = IF j <= Len(p) THEN p[j] ELSE q[j - Len(p)]
  BY <1>3
<1>5. DOMAIN r = 1..Len(p) + Len(q) /\ (\A e : e \in ToSet(r) <=> \E i \in 1..Len(p) + Len(q) : r[i] = e)
  BY <1>4, ElementsAre
<1>6. \A j \in 1..Len(p) + Len(q) :
        \/ j \in 1..Len(p) /\ r[j] = p[j]
        \/ j - Len(p) \in 1..Len(q) /\ r[j] = q[j - Len(p)]
  BY <1>1, <1>2, <1>4
<1>7. ToSet(r) = ToSet(p) \cup ToSet(q)
  <2>1. ASSUME NEW e \in ToSet(r) PROVE e \in ToSet(p) \cup ToSet(q)
    BY <1>1, <1>2, <1>5, <1>6
  <2>2. ASSUME NEW e \in ToSet(p) PROVE e \in ToSet(r)
    <3>1. PICK k \in 1..Len(p) : p[k] = e
      BY <1>1
    <3>2. k \in 1..Len(p) + Len(q) /\ r[k] = e
      BY <3>1, <1>1, <1>2, <1>4
    <3> QED BY <3>2, <1>5
  <2>3. ASSUME NEW e \in ToSet(q) PROVE e \in ToSet(r)
    <3>1. PICK k \in 1..Len(q) : q[k] = e
      BY <1>2
    <3>2. k + Len(p) \in 1..Len(p) + Len(q) /\ ~(k + Len(p) <= Len(p)) /\ (k + Len(p)) - Len(p) = k
      BY <1>1, <1>2
    <3>3. r[k + Len(p)] = e
      BY <3>1, <3>2, <1>4
    <3> QED BY <3>2, <3>3, <1>5
  <2> QED BY <2>1, <2>2, <2>3
<1>8. ASSUME IsInjective(p), IsInjective(q), ToSet(p) \cap ToSet(q) = {} PROVE IsInjective(r)
  <2>1. (\A i, j \in 1..Len(p) : p[i] = p[j] => i = j) /\ (\A i, j \in 1..Len(q) : q[i] = q[j] => i = j)
    BY <1>8, <1>1, <1>2 DEF IsInjective
  <2>2. \A i \in 1..Len(p), j \in 1..Len(q) : p[i] # q[j]
    BY <1>8, <1>1, <1>2
  <2>3. ASSUME NEW i \in 1..Len(p) + Len(q), NEW j \in 1..Len(p) + Len(q), r[i] = r[j] PROVE i = j
    BY <2>1, <2>2, <2>3, <1>1, <1>2, <1>6
  <2> QED BY <2>3, <1>5 DEF IsInjective
<1> QED BY <1>3, <1>4, <1>7, <1>8

-----------------------------------------------------------------------------
(* States.                                                                 *)

NodeRecord ==
  [name : Name \cup BadName \cup {NULL}, query : Nat, naddrs : [Type -> Int], tcp : SUBSET Type,
   code : BOOLEAN, cname : Name \cup BadName \cup {NULL}, valid : Int, expire : Int,
   waiting : Seq(Ctx)]

CtxRecord == [waits : BOOLEAN, node : Nat \cup {NULL}, timer : BOOLEAN, recursion : Nat]

Frame ==
  [list : Seq(Ctx), node : Nat \cup {NULL}, after : {"free", "query", "nothing"}, asks : Nat]

NodeMap == UNION {[D -> NodeRecord] : D \in SUBSET Nat}

State ==
  [node : NodeMap, tree : SUBSET Nat, resend : Seq(Nat), expire : Seq(Nat),
   timer : Int \cup {NULL}, ctx : [Ctx -> CtxRecord], stack : Seq(Frame),
   asked : Seq(Name \cup BadName \cup {NULL}), faults : Nat]

\* The nodes, one by one.
LEMMA NodeMapIs ==
  ASSUME NEW f
  PROVE  f \in NodeMap <=> /\ DOMAIN f \subseteq Nat /\ f = [k \in DOMAIN f |-> f[k]]
                           /\ \A k \in DOMAIN f : f[k] \in NodeRecord
<1>1. ASSUME f \in NodeMap
      PROVE  /\ DOMAIN f \subseteq Nat /\ f = [k \in DOMAIN f |-> f[k]]
             /\ \A k \in DOMAIN f : f[k] \in NodeRecord
  <2>1. PICK D \in SUBSET Nat : f \in [D -> NodeRecord]
    BY <1>1 DEF NodeMap
  <2> QED BY <2>1
<1>2. ASSUME DOMAIN f \subseteq Nat, f = [k \in DOMAIN f |-> f[k]],
             \A k \in DOMAIN f : f[k] \in NodeRecord
      PROVE  f \in NodeMap
  <2>1. PICK D : D = DOMAIN f
    OBVIOUS
  <2>2. D \in SUBSET Nat /\ f \in [D -> NodeRecord]
    BY <1>2, <2>1
  <2> QED BY <2>2 DEF NodeMap
<1> QED BY <1>1, <1>2

\* A node is written.
LEMMA NodeSet ==
  ASSUME NEW f \in NodeMap, NEW n \in DOMAIN f, NEW rn \in NodeRecord
  PROVE  /\ [f EXCEPT ![n] = rn] \in NodeMap /\ DOMAIN [f EXCEPT ![n] = rn] = DOMAIN f
         /\ \A k \in DOMAIN f : [f EXCEPT ![n] = rn][k] = IF k = n THEN rn ELSE f[k]
<1>1. DOMAIN f \subseteq Nat /\ f = [k \in DOMAIN f |-> f[k]] /\ \A k \in DOMAIN f : f[k] \in NodeRecord
  BY NodeMapIs
<1>2. PICK g : g = [f EXCEPT ![n] = rn]
  OBVIOUS
<1>3. g = [k \in DOMAIN f |-> IF k = n THEN rn ELSE f[k]]
  BY <1>2
<1>4. DOMAIN g = DOMAIN f /\ (\A k \in DOMAIN f : g[k] = IF k = n THEN rn ELSE f[k])
  BY <1>3
<1>5. g = [k \in DOMAIN g |-> g[k]]
  BY <1>3
<1>6. g \in NodeMap
  BY <1>1, <1>4, <1>5, NodeMapIs
<1> QED BY <1>2, <1>4, <1>6

\* A node is freed.
LEMMA NodeCut ==
  ASSUME NEW f \in NodeMap, NEW n
  PROVE  LET g == [k \in DOMAIN f \ {n} |-> f[k]]
         IN  g \in NodeMap /\ DOMAIN g = DOMAIN f \ {n} /\ \A k \in DOMAIN f \ {n} : g[k] = f[k]
<1>1. DOMAIN f \subseteq Nat /\ \A k \in DOMAIN f : f[k] \in NodeRecord
  BY NodeMapIs
<1>2. PICK g : g = [k \in DOMAIN f \ {n} |-> f[k]]
  OBVIOUS
<1>3. DOMAIN g = DOMAIN f \ {n} /\ g = [k \in DOMAIN g |-> g[k]] /\ \A k \in DOMAIN f \ {n} : g[k] = f[k]
  BY <1>2
<1>4. g \in NodeMap
  BY <1>1, <1>3, NodeMapIs
<1> QED BY <1>2, <1>3, <1>4

\* A node is allocated.
LEMMA NodeAdd ==
  ASSUME NEW f \in NodeMap, NEW n \in Nat, NEW rn \in NodeRecord, NEW g, DOMAIN g = DOMAIN f \cup {n},
         g = [k \in DOMAIN g |-> g[k]], \A k \in DOMAIN g : g[k] = IF k = n THEN rn ELSE f[k]
  PROVE  g \in NodeMap
<1>1. DOMAIN f \subseteq Nat /\ \A k \in DOMAIN f : f[k] \in NodeRecord
  BY NodeMapIs
<1>2. DOMAIN g \subseteq Nat /\ \A k \in DOMAIN g : g[k] \in NodeRecord
  BY <1>1
<1> QED BY <1>2, NodeMapIs

\* The parts of a state.
LEMMA StateIs ==
  ASSUME NEW x \in State
  PROVE  /\ x.node \in NodeMap /\ x.tree \in SUBSET Nat /\ x.resend \in Seq(Nat) /\ x.expire \in Seq(Nat)
         /\ x.timer \in Int \cup {NULL} /\ x.ctx \in [Ctx -> CtxRecord] /\ x.stack \in Seq(Frame)
         /\ x.faults \in Nat /\ DOMAIN x.node \subseteq Nat
         /\ \A k \in DOMAIN x.node :
              /\ x.node[k] \in NodeRecord /\ x.node[k].query \in Nat /\ x.node[k].valid \in Int
              /\ x.node[k].expire \in Int /\ x.node[k].waiting \in Seq(Ctx)
              /\ x.node[k].naddrs \in [Type -> Int]
<1>1. /\ x.node \in NodeMap /\ x.tree \in SUBSET Nat /\ x.resend \in Seq(Nat) /\ x.expire \in Seq(Nat)
      /\ x.timer \in Int \cup {NULL} /\ x.ctx \in [Ctx -> CtxRecord] /\ x.stack \in Seq(Frame)
      /\ x.faults \in Nat
  BY DEF State
<1>2. DOMAIN x.node \subseteq Nat /\ \A k \in DOMAIN x.node : x.node[k] \in NodeRecord
  BY <1>1, NodeMapIs
<1>3. \A r \in NodeRecord : /\ r.query \in Nat /\ r.valid \in Int /\ r.expire \in Int
                            /\ r.waiting \in Seq(Ctx) /\ r.naddrs \in [Type -> Int]
  BY DEF NodeRecord
<1> QED BY <1>1, <1>2, <1>3

\* The loops under way.
LEMMA FramesAre ==
  ASSUME NEW x \in State
  PROVE  /\ DOMAIN x.stack = 1..Len(x.stack) /\ Len(x.stack) \in Nat
         /\ \A i \in DOMAIN x.stack :
              /\ x.stack[i] \in Frame /\ x.stack[i].node \in Nat \cup {NULL}
              /\ x.stack[i].list \in Seq(Ctx) /\ ToSet(x.stack[i].list) \subseteq Ctx
              /\ x.stack[i].after \in {"free", "query", "nothing"}
<1>1. DOMAIN x.stack = 1..Len(x.stack) /\ Len(x.stack) \in Nat /\ \A i \in DOMAIN x.stack : x.stack[i] \in Frame
  <2>1. x.stack \in Seq(Frame)
    BY DEF State
  <2>2. PICK q : q = x.stack
    OBVIOUS
  <2>3. q \in Seq(Frame)
    BY <2>1, <2>2
  <2>4. DOMAIN q = 1..Len(q) /\ Len(q) \in Nat /\ \A i \in DOMAIN q : q[i] \in Frame
    BY <2>3
  <2> QED BY <2>2, <2>4
<1>2. \A f \in Frame : /\ f.list \in Seq(Ctx) /\ f.after \in {"free", "query", "nothing"}
                       /\ f.node \in Nat \cup {NULL}
  BY DEF Frame
<1>3. \A q \in Seq(Ctx) : ToSet(q) \subseteq Ctx
  BY ElementsAre
<1> QED BY <1>1, <1>2, <1>3

-----------------------------------------------------------------------------
(* The invariant, with nodes in work and contexts in hand.                 *)

\* A loop over handlers uses the node, and will leave it in the cache.
Held(x, n) == \E i \in DOMAIN x.stack : x.stack[i].after # "free" /\ x.stack[i].node = n

\* The nodes that loops will free.
Freeing(x) == {x.stack[i].node : i \in {j \in DOMAIN x.stack : x.stack[j].after = "free"}}

Names(x, W) ==
  /\ x.tree \subseteq DOMAIN x.node /\ W \subseteq DOMAIN x.node /\ IsFiniteSet(DOMAIN x.node)
  /\ \A n, k \in x.tree : x.node[n].name = x.node[k].name => n = k

Queues(x, W) ==
  /\ IsInjective(x.resend) /\ IsInjective(x.expire)
  /\ ToSet(x.resend) \cap ToSet(x.expire) = {}
  /\ ToSet(x.resend) \subseteq x.tree /\ ToSet(x.expire) \subseteq x.tree
  /\ x.tree \ W \subseteq ToSet(x.resend) \cup ToSet(x.expire)

Freed(x, W) ==
  /\ DOMAIN x.node \ x.tree = Freeing(x) \cup (W \ x.tree)
  /\ W \cap Freeing(x) = {}
  /\ \A i, j \in DOMAIN x.stack :
       x.stack[i].after = "free" /\ x.stack[j].after = "free" /\ x.stack[i].node = x.stack[j].node => i = j

Lists(x, W) ==
  \A n \in DOMAIN x.node :
    /\ IsInjective(x.node[n].waiting)
    /\ \A c \in ToSet(x.node[n].waiting) :
         x.ctx[c].waits /\ x.ctx[c].node = n /\ (n \in ToSet(x.resend) \/ n \in W)

Waiters(x, H) ==
  \A c \in Ctx \ H : x.ctx[c].waits =>
    IF x.ctx[c].node = NULL THEN x.faults > 0
    ELSE x.ctx[c].node \in x.tree /\ c \in ToSet(x.node[x.ctx[c].node].waiting)

InHand(x, H) ==
  /\ H \subseteq Ctx
  /\ \A c \in H : /\ \A n \in DOMAIN x.node : c \notin ToSet(x.node[n].waiting)
                  /\ \A i \in DOMAIN x.stack : c \notin ToSet(x.stack[i].list)

Loops(x) ==
  /\ \A i \in DOMAIN x.stack : /\ x.stack[i].after # "nothing" => x.stack[i].node # NULL
                               /\ \A c \in ToSet(x.stack[i].list) : ~x.ctx[c].waits
  /\ \A n : Held(x, n) /\ n # NULL =>
       n \in ToSet(x.expire) /\ x.node[n].valid >= now /\ x.node[n].expire >= now
  /\ \A i, j \in DOMAIN x.stack : i # j => ToSet(x.stack[i].list) \cap ToSet(x.stack[j].list) = {}

Clock(x, W) ==
  /\ Sorted(x.resend, x.node)
  /\ \A n \in ToSet(x.resend) :
       /\ x.timer # NULL /\ x.timer <= x.node[n].expire /\ x.node[n].expire <= now + ResendTimeout
       /\ n \in W \/ x.node[n].valid = 0

Asks(x, W) ==
  /\ \A n \in ToSet(x.expire) : x.node[n].query = 0 \/ Outstanding(x.node[n]) = {}
  /\ x.faults = 0 =>
       \A n \in ToSet(x.resend) \ W : x.node[n].query # 0 /\ Outstanding(x.node[n]) # {}

Good(x, W, H) ==
  /\ x \in State /\ now \in Nat /\ now >= 1
  /\ Names(x, W) /\ Queues(x, W) /\ Freed(x, W)
  /\ Lists(x, W) /\ Waiters(x, H) /\ InHand(x, H)
  /\ Loops(x) /\ Clock(x, W) /\ Asks(x, W)

\* What steps leave alone.
SameQueues(x, y) == y.tree = x.tree /\ y.resend = x.resend /\ y.expire = x.expire

SameOthers(x, y) == y.timer = x.timer /\ y.ctx = x.ctx /\ y.stack = x.stack /\ y.faults = x.faults

OneNode(x, y, n) ==
  /\ DOMAIN y.node = DOMAIN x.node /\ n \in DOMAIN x.node
  /\ y.node[n].name = x.node[n].name
  /\ \A k \in DOMAIN x.node : k # n => y.node[k] = x.node[k]

\* A node in work is written to.
LEMMA Touch ==
  ASSUME NEW W, NEW H, NEW x, Good(x, W, H), NEW n \in W, NEW y \in State,
         SameQueues(x, y), SameOthers(x, y), OneNode(x, y, n),
         y.node[n].waiting = x.node[n].waiting,
         n \in ToSet(x.resend) => y.node[n].expire = x.node[n].expire,
         n \in ToSet(x.expire) => y.node[n].query = 0 \/ Outstanding(y.node[n]) = {},
         Held(x, n) => y.node[n].valid >= now /\ y.node[n].expire >= now
  PROVE  Good(y, W, H)
<1>1. \A k \in DOMAIN x.node : y.node[k].waiting = x.node[k].waiting /\ y.node[k].name = x.node[k].name
  BY DEF OneNode
<1>2. x \in State /\ now \in Nat /\ now >= 1
  BY DEF Good
<1>3. x.resend \in Seq(Nat) /\ x.tree \subseteq DOMAIN x.node /\ ToSet(x.resend) \subseteq x.tree /\ ToSet(x.expire) \subseteq x.tree
  BY <1>2, StateIs DEF Good, Names, Queues
<1>4. Names(y, W)
  BY <1>1, <1>3 DEF Good, Names, OneNode, SameQueues
<1>5. Queues(y, W)
  BY DEF Good, Queues, SameQueues
<1>6. Freed(y, W)
  BY DEF Good, Freed, Freeing, OneNode, SameQueues, SameOthers
<1>7. Lists(y, W)
  BY <1>1 DEF Good, Lists, OneNode, SameQueues, SameOthers
<1>8. Waiters(y, H)
  BY <1>1, <1>3 DEF Good, Waiters, SameQueues, SameOthers
<1>9. InHand(y, H)
  BY <1>1 DEF Good, InHand, OneNode, SameOthers
<1>10. Loops(y)
  <2>1. Loops(x) /\ y.stack = x.stack /\ y.ctx = x.ctx /\ y.expire = x.expire
    BY DEF Good, SameQueues, SameOthers
  <2>2. \A k : Held(y, k) <=> Held(x, k)
    BY <2>1 DEF Held
  <2>3. ASSUME NEW k, Held(y, k), k # NULL
        PROVE  k \in ToSet(x.expire) /\ y.node[k].valid >= now /\ y.node[k].expire >= now
    <3>1. Held(x, k) /\ k \in ToSet(x.expire) /\ x.node[k].valid >= now /\ x.node[k].expire >= now
      BY <2>1, <2>2, <2>3 DEF Loops
    <3>2. CASE k = n
      BY <3>1, <3>2
    <3>3. CASE k # n
      <4>1. y.node[k] = x.node[k]
        BY <3>1, <3>3, <1>3 DEF OneNode
      <4> QED BY <3>1, <4>1
    <3> QED BY <3>2, <3>3
  <2> QED BY <2>1, <2>3 DEF Loops
<1>11. Clock(y, W)
  <2>1. \A k \in ToSet(x.resend) : y.node[k].expire = x.node[k].expire /\ (k \in W \/ y.node[k].valid = x.node[k].valid)
    BY <1>3 DEF OneNode
  <2>2. Sorted(x.resend, y.node)
    BY <2>1, <1>3, SortedSame DEF Good, Clock
  <2> QED BY <2>1, <2>2 DEF Good, Clock, SameQueues, SameOthers
<1>12. Asks(y, W)
  BY <1>3 DEF Good, Asks, OneNode, SameQueues, SameOthers
<1> QED BY <1>2, <1>4, <1>5, <1>6, <1>7, <1>8, <1>9, <1>10, <1>11, <1>12 DEF Good

\* A node is taken in work.
LEMMA TakeUp ==
  ASSUME NEW H, NEW x, Good(x, {}, H), NEW n \in x.tree
  PROVE  Good(x, {n}, H)
<1>1. n \in DOMAIN x.node /\ n \notin Freeing(x)
  BY DEF Good, Names, Freed
<1>2. Names(x, {n}) /\ Queues(x, {n})
  BY <1>1 DEF Good, Names, Queues
<1>3. Freed(x, {n})
  BY <1>1 DEF Good, Freed
<1>4. Lists(x, {n})
  BY DEF Good, Lists
<1>5. Clock(x, {n})
  BY DEF Good, Clock
<1>6. Asks(x, {n})
  BY DEF Good, Asks
<1> QED BY <1>2, <1>3, <1>4, <1>5, <1>6 DEF Good

\* A node that waits for an answer, and may be sent again.
Asked(x, n) ==
  /\ x.node[n].valid = 0
  /\ x.faults > 0 \/ (x.node[n].query # 0 /\ Outstanding(x.node[n]) # {})

\* A node that is in a queue again needs no more work.
LEMMA Settle ==
  ASSUME NEW H, NEW x, NEW n, Good(x, {n}, H), n \in ToSet(x.resend) \cup ToSet(x.expire),
         x.node[n].waiting = <<>> \/ n \in ToSet(x.resend),
         n \in ToSet(x.resend) => Asked(x, n)
  PROVE  Good(x, {}, H)
<1>1. n \in x.tree /\ x.faults \in Nat /\ ToSet(<<>>) = {}
  BY StateIs DEF Good, Queues, ToSet
<1>2. Names(x, {}) /\ Queues(x, {}) /\ Freed(x, {}) /\ Lists(x, {})
  BY <1>1 DEF Good, Names, Queues, Freed, Lists
<1>3. Clock(x, {})
  BY DEF Good, Clock, Asked
<1>4. Asks(x, {})
  <2>1. Asks(x, {n})
    BY DEF Good
  <2>2. ASSUME x.faults = 0, NEW k \in ToSet(x.resend)
        PROVE  x.node[k].query # 0 /\ Outstanding(x.node[k]) # {}
    <3>1. CASE k = n
      BY <3>1, <2>2, <1>1 DEF Asked
    <3>2. CASE k # n
      BY <3>2, <2>1, <2>2 DEF Asks
    <3> QED BY <3>1, <3>2
  <2> QED BY <2>1, <2>2 DEF Asks
<1> QED BY <1>2, <1>3, <1>4 DEF Good

\* A node in work leaves its queue.
LEMMA Dequeue ==
  ASSUME NEW W, NEW H, NEW x, Good(x, W, H), NEW n \in W, ~Held(x, n), n # NULL, NEW y \in State,
         y.node = x.node, y.tree = x.tree, SameOthers(x, y),
         y.resend = Without(x.resend, n), y.expire = Without(x.expire, n)
  PROVE  Good(y, W, H)
<1>1. x \in State /\ now \in Nat /\ now >= 1 /\ x.resend \in Seq(Nat) /\ x.expire \in Seq(Nat)
      /\ IsInjective(x.resend) /\ IsInjective(x.expire)
  BY StateIs DEF Good, Queues
<1>2. /\ IsInjective(y.resend) /\ ToSet(y.resend) = ToSet(x.resend) \ {n}
      /\ \A node : Sorted(x.resend, node) => Sorted(y.resend, node)
  BY <1>1, WithoutIs
<1>3. IsInjective(y.expire) /\ ToSet(y.expire) = ToSet(x.expire) \ {n}
  BY <1>1, WithoutIs
<1>4. Names(y, W)
  BY DEF Good, Names
<1>5. Queues(y, W)
  BY <1>2, <1>3 DEF Good, Queues
<1>6. Freed(y, W)
  BY DEF Good, Freed, Freeing, SameOthers
<1>7. Lists(y, W)
  BY <1>2 DEF Good, Lists, SameOthers
<1>8. Waiters(y, H) /\ InHand(y, H)
  BY DEF Good, Waiters, InHand, SameOthers
<1>9. Loops(y)
  BY <1>3 DEF Good, Loops, Held, SameOthers
<1>10. Clock(y, W)
  BY <1>2 DEF Good, Clock, SameOthers
<1>11. Asks(y, W)
  BY <1>2, <1>3 DEF Good, Asks, SameOthers
<1> QED BY <1>1, <1>4, <1>5, <1>6, <1>7, <1>8, <1>9, <1>10, <1>11 DEF Good

\* Where a node is kept but for the queue it is in, and when it expires.
SameNode(x, y, n) ==
  /\ y.node[n].waiting = x.node[n].waiting /\ y.node[n].valid = x.node[n].valid
  /\ y.node[n].query = x.node[n].query /\ y.node[n].naddrs = x.node[n].naddrs

\* What follows for the parts of the invariant that are not about the queues.
LEMMA Moved ==
  ASSUME NEW W, NEW H, NEW x, Good(x, W, H), NEW n, NEW y, y.tree = x.tree,
         SameOthers(x, y), OneNode(x, y, n), SameNode(x, y, n)
  PROVE  /\ Names(y, W) /\ Freed(y, W) /\ Waiters(y, H) /\ InHand(y, H)
         /\ \A k \in DOMAIN x.node : y.node[k].waiting = x.node[k].waiting /\ y.node[k].valid = x.node[k].valid
         /\ \A k \in DOMAIN x.node : y.node[k].query = x.node[k].query
                                     /\ Outstanding(y.node[k]) = Outstanding(x.node[k])
         /\ \A k \in DOMAIN x.node : k # n => y.node[k].expire = x.node[k].expire
<1>1. \A k \in DOMAIN x.node : y.node[k].waiting = x.node[k].waiting /\ y.node[k].name = x.node[k].name
                               /\ y.node[k].valid = x.node[k].valid
  BY DEF OneNode, SameNode
<1>2. \A k \in DOMAIN x.node : y.node[k].query = x.node[k].query
                               /\ Outstanding(y.node[k]) = Outstanding(x.node[k])
  BY DEF OneNode, SameNode, Outstanding
<1>3. \A k \in DOMAIN x.node : k # n => y.node[k].expire = x.node[k].expire
  BY DEF OneNode
<1>4. x.tree \subseteq DOMAIN x.node
  BY DEF Good, Names
<1>5. Names(y, W)
  BY <1>1, <1>4 DEF Good, Names, OneNode
<1>6. Freed(y, W)
  BY DEF Good, Freed, Freeing, OneNode, SameOthers
<1>7. Waiters(y, H)
  BY <1>1, <1>4 DEF Good, Waiters, SameOthers
<1>8. InHand(y, H)
  BY <1>1 DEF Good, InHand, OneNode, SameOthers
<1> QED BY <1>1, <1>2, <1>3, <1>5, <1>6, <1>7, <1>8

ResendMoved(x, y, n) ==
  /\ y.tree = x.tree /\ SameOthers(x, y) /\ OneNode(x, y, n) /\ SameNode(x, y, n)
  /\ y.resend = <<n>> \o Without(x.resend, n) /\ y.expire = Without(x.expire, n)
  /\ y.node[n].expire = now + ResendTimeout

\* A node of the tree goes to the head of the queue of those to be sent again.
LEMMA MoveResend ==
  ASSUME NEW W, NEW H, NEW x, Good(x, W, H), NEW n \in x.tree, ~Held(x, n), n # NULL,
         NEW y \in State, ResendMoved(x, y, n),
         x.timer # NULL, x.timer <= now + ResendTimeout, n \in W \/ Asked(x, n)
  PROVE  /\ Good(y, W, H) /\ n \in ToSet(y.resend)
         /\ ToSet(y.resend) = {n} \cup ToSet(x.resend)
<1>1. x \in State /\ now \in Nat /\ now >= 1 /\ x.resend \in Seq(Nat) /\ x.expire \in Seq(Nat)
      /\ IsInjective(x.resend) /\ IsInjective(x.expire) /\ n \in Nat /\ x.faults \in Nat
      /\ ToSet(x.resend) \cap ToSet(x.expire) = {} /\ x.tree \subseteq DOMAIN x.node
      /\ ToSet(x.resend) \subseteq x.tree /\ ToSet(x.expire) \subseteq x.tree
  BY StateIs DEF Good, Queues, Names
<1>2. PICK q : q = Without(x.resend, n)
  OBVIOUS
<1>3. /\ q \in Seq(Nat) /\ IsInjective(q) /\ ToSet(q) = ToSet(x.resend) \ {n}
      /\ \A node : Sorted(x.resend, node) => Sorted(q, node)
  BY <1>1, <1>2, WithoutIs
<1>4. IsInjective(y.expire) /\ ToSet(y.expire) = ToSet(x.expire) \ {n}
  BY <1>1, WithoutIs DEF ResendMoved
<1>5. y.resend = <<n>> \o q /\ IsInjective(y.resend) /\ ToSet(y.resend) = {n} \cup ToSet(x.resend)
  BY <1>1, <1>2, <1>3, PushedIs DEF ResendMoved
<1>6. /\ y.tree = x.tree /\ y.timer = x.timer /\ y.ctx = x.ctx /\ y.stack = x.stack /\ y.faults = x.faults
      /\ DOMAIN y.node = DOMAIN x.node
  BY DEF ResendMoved, OneNode, SameOthers
<1>7. Names(y, W) /\ Freed(y, W) /\ Waiters(y, H) /\ InHand(y, H)
  BY Moved DEF ResendMoved
<1>8. \A k \in DOMAIN x.node : y.node[k].waiting = x.node[k].waiting /\ y.node[k].valid = x.node[k].valid
  BY Moved DEF ResendMoved
<1>9. \A k \in DOMAIN x.node : y.node[k].query = x.node[k].query
                               /\ Outstanding(y.node[k]) = Outstanding(x.node[k])
  BY Moved DEF ResendMoved
<1>10. \A k \in DOMAIN x.node : k # n => y.node[k].expire = x.node[k].expire
  BY Moved DEF ResendMoved
<1>11. Queues(y, W)
  BY <1>1, <1>4, <1>5, <1>6 DEF Good, Queues
<1>12. Lists(y, W)
  BY <1>5, <1>6, <1>8 DEF Good, Lists
<1>13. Loops(y)
  <2>1. \A k : Held(y, k) <=> Held(x, k)
    BY <1>6 DEF Held
  <2>2. ASSUME NEW k, Held(y, k), k # NULL
        PROVE  k \in ToSet(y.expire) /\ y.node[k].valid >= now /\ y.node[k].expire >= now
    <3>1. k # n /\ k \in ToSet(x.expire) /\ x.node[k].valid >= now /\ x.node[k].expire >= now
      BY <2>1, <2>2 DEF Good, Loops
    <3> QED BY <3>1, <1>1, <1>4, <1>8, <1>10
  <2> QED BY <2>2, <1>6 DEF Good, Loops
<1>14. y.node[n].expire = now + ResendTimeout /\ ResendTimeout \in Nat
  BY ResolverAssumption DEF ResendMoved
<1>15. \A k \in ToSet(x.resend) : /\ x.node[k].expire <= now + ResendTimeout /\ x.node[k].expire \in Int
                                  /\ x.timer <= x.node[k].expire /\ (k \in W \/ x.node[k].valid = 0)
  BY <1>1, StateIs DEF Good, Clock
<1>16. Clock(y, W)
  <2>1. Sorted(q, y.node)
    <3>1. \A k \in ToSet(q) : y.node[k].expire = x.node[k].expire
      BY <1>1, <1>3, <1>10
    <3>2. Sorted(q, x.node)
      BY <1>3 DEF Good, Clock
    <3>3. PICK f, g : f = x.node /\ g = y.node
      OBVIOUS
    <3>4. Sorted(q, g)
      BY <3>1, <3>2, <3>3, <1>3, SortedSame
    <3> QED BY <3>3, <3>4
  <2>2. \A k \in ToSet(q) : y.node[n].expire >= y.node[k].expire
    BY <1>1, <1>3, <1>10, <1>14, <1>15
  <2>3. Sorted(y.resend, y.node)
    <3>1. n \in Nat /\ n \notin ToSet(q)
      BY <1>1, <1>3
    <3>2. PICK g : g = y.node
      OBVIOUS
    <3>3. Sorted(<<n>> \o q, g)
      BY <2>1, <2>2, <3>1, <3>2, <1>3, SortedPush
    <3> QED BY <3>2, <3>3, <1>5
  <2>4. ASSUME NEW k \in ToSet(y.resend)
        PROVE  /\ y.timer # NULL /\ y.timer <= y.node[k].expire /\ y.node[k].expire <= now + ResendTimeout
               /\ k \in W \/ y.node[k].valid = 0
    <3>1. CASE k = n
      BY <3>1, <1>1, <1>6, <1>8, <1>14 DEF Asked
    <3>2. CASE k # n
      BY <3>2, <1>1, <1>5, <1>6, <1>8, <1>10, <1>15
    <3> QED BY <3>1, <3>2
  <2> QED BY <2>3, <2>4 DEF Clock
<1>17. Asks(y, W)
  <2>1. \A k \in ToSet(y.expire) : y.node[k].query = 0 \/ Outstanding(y.node[k]) = {}
    BY <1>1, <1>4, <1>9 DEF Good, Asks
  <2>2. ASSUME y.faults = 0, NEW k \in ToSet(y.resend) \ W
        PROVE  y.node[k].query # 0 /\ Outstanding(y.node[k]) # {}
    <3>1. CASE k = n
      BY <3>1, <2>2, <1>1, <1>6, <1>9 DEF Asked
    <3>2. CASE k # n
      <4>1. k \in ToSet(x.resend) \ W /\ x.faults = 0 /\ k \in DOMAIN x.node
        BY <2>2, <3>2, <1>1, <1>5, <1>6
      <4>2. x.node[k].query # 0 /\ Outstanding(x.node[k]) # {}
        BY <4>1 DEF Good, Asks
      <4> QED BY <4>1, <4>2, <1>9
    <3> QED BY <3>1, <3>2
  <2> QED BY <2>1, <2>2 DEF Asks
<1> QED BY <1>1, <1>5, <1>7, <1>11, <1>12, <1>13, <1>16, <1>17 DEF Good

ExpireMoved(x, y, n) ==
  /\ y.tree = x.tree /\ SameOthers(x, y) /\ OneNode(x, y, n) /\ SameNode(x, y, n)
  /\ y.resend = Without(x.resend, n) /\ y.expire = <<n>> \o Without(x.expire, n)
  /\ y.node[n].expire = now + Expire

\* A node of the tree goes to the head of the queue of those that stay cached.
LEMMA MoveExpire ==
  ASSUME NEW W, NEW H, NEW x, Good(x, W, H), NEW n \in x.tree, NEW y \in State, ExpireMoved(x, y, n),
         n \in W \/ x.node[n].waiting = <<>>,
         x.node[n].query = 0 \/ Outstanding(x.node[n]) = {}
  PROVE  /\ Good(y, W, H) /\ n \in ToSet(y.expire)
         /\ ToSet(y.expire) = {n} \cup ToSet(x.expire)
         /\ ToSet(y.resend) = ToSet(x.resend) \ {n}
<1>1. x \in State /\ now \in Nat /\ now >= 1 /\ x.resend \in Seq(Nat) /\ x.expire \in Seq(Nat)
      /\ IsInjective(x.resend) /\ IsInjective(x.expire) /\ n \in Nat
      /\ ToSet(x.resend) \cap ToSet(x.expire) = {} /\ x.tree \subseteq DOMAIN x.node
      /\ ToSet(x.resend) \subseteq x.tree /\ ToSet(x.expire) \subseteq x.tree
  BY StateIs DEF Good, Queues, Names
<1>2. PICK q : q = Without(x.expire, n)
  OBVIOUS
<1>3. q \in Seq(Nat) /\ IsInjective(q) /\ ToSet(q) = ToSet(x.expire) \ {n}
  BY <1>1, <1>2, WithoutIs
<1>4. /\ IsInjective(y.resend) /\ ToSet(y.resend) = ToSet(x.resend) \ {n} /\ y.resend \in Seq(Nat)
      /\ \A node : Sorted(x.resend, node) => Sorted(y.resend, node)
  BY <1>1, WithoutIs DEF ExpireMoved
<1>5. y.expire = <<n>> \o q /\ IsInjective(y.expire) /\ ToSet(y.expire) = {n} \cup ToSet(x.expire)
  BY <1>1, <1>2, <1>3, PushedIs DEF ExpireMoved
<1>6. /\ y.tree = x.tree /\ y.timer = x.timer /\ y.ctx = x.ctx /\ y.stack = x.stack /\ y.faults = x.faults
      /\ DOMAIN y.node = DOMAIN x.node
  BY DEF ExpireMoved, OneNode, SameOthers
<1>7. Names(y, W) /\ Freed(y, W) /\ Waiters(y, H) /\ InHand(y, H)
  BY Moved DEF ExpireMoved
<1>8. \A k \in DOMAIN x.node : y.node[k].waiting = x.node[k].waiting /\ y.node[k].valid = x.node[k].valid
  BY Moved DEF ExpireMoved
<1>9. \A k \in DOMAIN x.node : y.node[k].query = x.node[k].query
                               /\ Outstanding(y.node[k]) = Outstanding(x.node[k])
  BY Moved DEF ExpireMoved
<1>10. \A k \in DOMAIN x.node : k # n => y.node[k].expire = x.node[k].expire
  BY Moved DEF ExpireMoved
<1>11. Queues(y, W)
  BY <1>1, <1>4, <1>5, <1>6 DEF Good, Queues
<1>12. Lists(y, W)
  <2>1. ToSet(<<>>) = {}
    BY DEF ToSet
  <2>2. Lists(x, W)
    BY DEF Good
  <2>3. ASSUME NEW k \in DOMAIN y.node, NEW c \in ToSet(y.node[k].waiting)
        PROVE  y.ctx[c].waits /\ y.ctx[c].node = k /\ (k \in ToSet(y.resend) \/ k \in W)
    <3>1. k \in DOMAIN x.node /\ c \in ToSet(x.node[k].waiting)
      BY <2>3, <1>6, <1>8
    <3>2. x.ctx[c].waits /\ x.ctx[c].node = k /\ (k \in ToSet(x.resend) \/ k \in W)
      BY <3>1, <2>2 DEF Lists
    <3> QED BY <3>1, <3>2, <2>1, <1>4, <1>6
  <2> QED BY <2>2, <2>3, <1>6, <1>8 DEF Lists
<1>13. Loops(y)
  <2>1. \A k : Held(y, k) <=> Held(x, k)
    BY <1>6 DEF Held
  <2>2. y.node[n].expire = now + Expire /\ Expire \in Nat
    BY ResolverAssumption DEF ExpireMoved
  <2>3. ASSUME NEW k, Held(y, k), k # NULL
        PROVE  k \in ToSet(y.expire) /\ y.node[k].valid >= now /\ y.node[k].expire >= now
    <3>1. k \in ToSet(x.expire) /\ x.node[k].valid >= now /\ x.node[k].expire >= now
      BY <2>1, <2>3 DEF Good, Loops
    <3> QED BY <3>1, <2>2, <1>1, <1>5, <1>8, <1>10
  <2> QED BY <2>3, <1>6 DEF Good, Loops
<1>14. Clock(y, W)
  <2>1. Sorted(y.resend, y.node)
    <3>1. \A k \in ToSet(y.resend) : y.node[k].expire = x.node[k].expire
      BY <1>1, <1>4, <1>10
    <3>2. Sorted(y.resend, x.node)
      BY <1>4 DEF Good, Clock
    <3>3. PICK f, g, p : f = x.node /\ g = y.node /\ p = y.resend
      OBVIOUS
    <3>4. Sorted(p, g)
      BY <3>1, <3>2, <3>3, <1>4, SortedSame
    <3> QED BY <3>3, <3>4
  <2> QED BY <2>1, <1>1, <1>4, <1>6, <1>8, <1>10 DEF Good, Clock
<1>15. Asks(y, W)
  <2>1. \A k \in ToSet(y.expire) : y.node[k].query = 0 \/ Outstanding(y.node[k]) = {}
    BY <1>1, <1>5, <1>9 DEF Good, Asks
  <2>2. ASSUME y.faults = 0, NEW k \in ToSet(y.resend) \ W
        PROVE  y.node[k].query # 0 /\ Outstanding(y.node[k]) # {}
    BY <2>2, <1>1, <1>4, <1>6, <1>9 DEF Good, Asks
  <2> QED BY <2>1, <2>2 DEF Asks
<1> QED BY <1>1, <1>4, <1>5, <1>7, <1>11, <1>12, <1>13, <1>14, <1>15 DEF Good

\* The list of a node is taken from it: its contexts are in hand.
LEMMA TakeList ==
  ASSUME NEW W, NEW H, NEW x, Good(x, W, H), NEW n, NEW y \in State,
         SameQueues(x, y), SameOthers(x, y), OneNode(x, y, n),
         y.node[n].waiting = <<>>, y.node[n].valid = x.node[n].valid, y.node[n].expire = x.node[n].expire,
         y.node[n].query = x.node[n].query, y.node[n].naddrs = x.node[n].naddrs
  PROVE  Good(y, W, H \cup ToSet(x.node[n].waiting))
<1>1. x \in State /\ now \in Nat /\ now >= 1 /\ x.resend \in Seq(Nat)
      /\ x.tree \subseteq DOMAIN x.node /\ ToSet(x.resend) \subseteq x.tree /\ ToSet(x.expire) \subseteq x.tree
  BY StateIs DEF Good, Queues, Names
<1>2. /\ y.tree = x.tree /\ y.resend = x.resend /\ y.expire = x.expire
      /\ y.timer = x.timer /\ y.ctx = x.ctx /\ y.stack = x.stack /\ y.faults = x.faults
      /\ DOMAIN y.node = DOMAIN x.node /\ n \in DOMAIN x.node
  BY DEF SameQueues, SameOthers, OneNode
<1>3. /\ \A k \in DOMAIN x.node : k # n => y.node[k].waiting = x.node[k].waiting
      /\ \A k \in DOMAIN x.node : y.node[k].name = x.node[k].name
      /\ \A k \in DOMAIN x.node : y.node[k].valid = x.node[k].valid /\ y.node[k].expire = x.node[k].expire
  BY DEF OneNode
<1>4. \A k \in DOMAIN x.node : y.node[k].query = x.node[k].query /\ Outstanding(y.node[k]) = Outstanding(x.node[k])
  BY DEF OneNode, Outstanding
<1>5. ToSet(<<>>) = {} /\ IsInjective(<<>>)
  BY DEF ToSet, IsInjective
<1>6. Names(y, W) /\ Queues(y, W)
  BY <1>1, <1>2, <1>3 DEF Good, Names, Queues
<1>7. Freed(y, W)
  BY <1>2 DEF Good, Freed, Freeing
<1>8. Lists(y, W)
  <2>1. Lists(x, W)
    BY DEF Good
  <2>2. ASSUME NEW k \in DOMAIN x.node
        PROVE  /\ IsInjective(y.node[k].waiting)
               /\ \A c \in ToSet(y.node[k].waiting) :
                    x.ctx[c].waits /\ x.ctx[c].node = k /\ (k \in ToSet(x.resend) \/ k \in W)
    <3>1. CASE k = n
      BY <3>1, <1>5
    <3>2. CASE k # n
      BY <3>2, <2>1, <1>3 DEF Lists
    <3> QED BY <3>1, <3>2
  <2> QED BY <2>2, <1>2 DEF Lists
<1>9. Waiters(y, H \cup ToSet(x.node[n].waiting))
  <2>1. Waiters(x, H)
    BY DEF Good
  <2> SUFFICES ASSUME NEW c \in Ctx, c \notin H, c \notin ToSet(x.node[n].waiting), x.ctx[c].waits
               PROVE  IF x.ctx[c].node = NULL THEN x.faults > 0
                      ELSE x.ctx[c].node \in x.tree /\ c \in ToSet(y.node[x.ctx[c].node].waiting)
    BY <1>2 DEF Waiters
  <2>2. IF x.ctx[c].node = NULL THEN x.faults > 0
        ELSE x.ctx[c].node \in x.tree /\ c \in ToSet(x.node[x.ctx[c].node].waiting)
    BY <2>1 DEF Waiters
  <2> QED BY <2>2, <1>1, <1>3
<1>10. InHand(y, H \cup ToSet(x.node[n].waiting))
  <2>1. InHand(x, H) /\ Lists(x, W)
    BY DEF Good
  <2>2. ASSUME NEW c \in ToSet(x.node[n].waiting)
        PROVE  /\ c \in Ctx /\ \A k \in DOMAIN x.node : c \notin ToSet(y.node[k].waiting)
               /\ \A i \in DOMAIN x.stack : c \notin ToSet(x.stack[i].list)
    <3>1. x.ctx[c].waits /\ x.ctx[c].node = n
      BY <2>1, <2>2, <1>2 DEF Lists
    <3>2. \A i \in DOMAIN x.stack : c \notin ToSet(x.stack[i].list)
      BY <3>1 DEF Good, Loops
    <3>3. \A k \in DOMAIN x.node : k # n => c \notin ToSet(x.node[k].waiting)
      BY <3>1, <2>1 DEF Lists
    <3>4. c \in Ctx
      <4>1. x.node[n].waiting \in Seq(Ctx)
        BY <1>1, <1>2, StateIs
      <4> QED BY <4>1, <2>2, ElementsAre
    <3> QED BY <3>2, <3>3, <3>4, <1>3, <1>5
  <2>3. ASSUME NEW c \in H
        PROVE  /\ c \in Ctx /\ \A k \in DOMAIN x.node : c \notin ToSet(y.node[k].waiting)
               /\ \A i \in DOMAIN x.stack : c \notin ToSet(x.stack[i].list)
    BY <2>1, <1>3, <1>5 DEF InHand
  <2> QED BY <2>2, <2>3, <1>2 DEF InHand
<1>11. Loops(y)
  <2>1. \A k : Held(y, k) <=> Held(x, k)
    BY <1>2 DEF Held
  <2> QED BY <2>1, <1>1, <1>2, <1>3 DEF Good, Loops
<1>12. Clock(y, W)
  <2>1. Sorted(x.resend, y.node)
    <3>1. PICK f, g : f = x.node /\ g = y.node
      OBVIOUS
    <3>2. Sorted(x.resend, f) /\ \A k \in ToSet(x.resend) : g[k].expire = f[k].expire
      BY <3>1, <1>1, <1>3 DEF Good, Clock
    <3>3. Sorted(x.resend, g)
      BY <3>2, <1>1, SortedSame
    <3> QED BY <3>1, <3>3
  <2> QED BY <2>1, <1>1, <1>2, <1>3 DEF Good, Clock
<1>13. Asks(y, W)
  BY <1>1, <1>2, <1>4 DEF Good, Asks
<1> QED BY <1>1, <1>6, <1>7, <1>8, <1>9, <1>10, <1>11, <1>12, <1>13 DEF Good

\* The contexts in hand are put before the list of a node that is asked for.
LEMMA JoinList ==
  ASSUME NEW W, NEW x, NEW list \in Seq(Ctx), IsInjective(list), Good(x, W, ToSet(list)),
         NEW n \in x.tree, n \in ToSet(x.resend), NEW y \in State,
         SameQueues(x, y), y.timer = x.timer, y.stack = x.stack, y.faults = x.faults, OneNode(x, y, n),
         y.node[n].waiting = list \o x.node[n].waiting,
         y.node[n].valid = x.node[n].valid, y.node[n].expire = x.node[n].expire,
         y.node[n].query = x.node[n].query, y.node[n].naddrs = x.node[n].naddrs,
         \A c \in ToSet(list) : y.ctx[c].waits /\ y.ctx[c].node = n,
         \A c \in Ctx \ ToSet(list) : y.ctx[c] = x.ctx[c]
  PROVE  Good(y, W, {})
<1> DEFINE H == ToSet(list)
<1>1. x \in State /\ now \in Nat /\ now >= 1 /\ x.resend \in Seq(Nat) /\ n \in Nat /\ n # NULL
      /\ x.tree \subseteq DOMAIN x.node /\ ToSet(x.resend) \subseteq x.tree /\ ToSet(x.expire) \subseteq x.tree
  BY StateIs, ResolverAssumption DEF Good, Queues, Names
<1>2. /\ y.tree = x.tree /\ y.resend = x.resend /\ y.expire = x.expire
      /\ y.timer = x.timer /\ y.stack = x.stack /\ y.faults = x.faults
      /\ DOMAIN y.node = DOMAIN x.node /\ n \in DOMAIN x.node
  BY DEF SameQueues, OneNode
<1>3. /\ \A k \in DOMAIN x.node : k # n => y.node[k].waiting = x.node[k].waiting
      /\ \A k \in DOMAIN x.node : y.node[k].name = x.node[k].name
      /\ \A k \in DOMAIN x.node : y.node[k].valid = x.node[k].valid /\ y.node[k].expire = x.node[k].expire
  BY DEF OneNode
<1>4. \A k \in DOMAIN x.node : y.node[k].query = x.node[k].query /\ Outstanding(y.node[k]) = Outstanding(x.node[k])
  BY DEF OneNode, Outstanding
<1>5. x.node[n].waiting \in Seq(Ctx) /\ IsInjective(x.node[n].waiting) /\ Lists(x, W) /\ InHand(x, H)
  BY <1>1, <1>2, StateIs DEF Good, Lists
<1>6. /\ ToSet(y.node[n].waiting) = H \cup ToSet(x.node[n].waiting)
      /\ IsInjective(y.node[n].waiting)
  <2>1. H \cap ToSet(x.node[n].waiting) = {}
    BY <1>2, <1>5 DEF InHand
  <2>2. PICK q : q = x.node[n].waiting
    OBVIOUS
  <2>3. q \in Seq(Ctx) /\ IsInjective(q) /\ ToSet(list) \cap ToSet(q) = {}
    BY <2>1, <2>2, <1>5
  <2>4. ToSet(list \o q) = ToSet(list) \cup ToSet(q) /\ IsInjective(list \o q)
    BY <2>3, JoinedIs
  <2> QED BY <2>2, <2>4
<1> HIDE DEF H
<1>7. \A c \in H : y.ctx[c].waits /\ y.ctx[c].node = n
  BY DEF H
<1>8. (\A c \in Ctx \ H : y.ctx[c] = x.ctx[c]) /\ H \subseteq Ctx
  BY <1>5 DEF H, InHand
<1>9. Names(y, W) /\ Queues(y, W)
  BY <1>1, <1>2, <1>3 DEF Good, Names, Queues
<1>10. Freed(y, W)
  BY <1>2 DEF Good, Freed, Freeing
<1>11. Lists(y, W)
  <2>1. ASSUME NEW k \in DOMAIN x.node
        PROVE  /\ IsInjective(y.node[k].waiting)
               /\ \A c \in ToSet(y.node[k].waiting) :
                    y.ctx[c].waits /\ y.ctx[c].node = k /\ (k \in ToSet(x.resend) \/ k \in W)
    <3>1. \A c \in ToSet(x.node[k].waiting) :
            /\ x.ctx[c].waits /\ x.ctx[c].node = k /\ (k \in ToSet(x.resend) \/ k \in W)
            /\ c \notin H /\ c \in Ctx
      <4>1. x.node[k].waiting \in Seq(Ctx)
        BY <1>1, StateIs
      <4>2. ToSet(x.node[k].waiting) \subseteq Ctx
        BY <4>1, ElementsAre
      <4> QED BY <4>2, <1>5 DEF Lists, InHand
    <3>2. \A c \in ToSet(x.node[k].waiting) : y.ctx[c] = x.ctx[c]
      BY <3>1, <1>8
    <3>3. CASE k = n
      <4>1. IsInjective(y.node[k].waiting)
        BY <3>3, <1>6
      <4>2. ASSUME NEW c \in H PROVE y.ctx[c].waits /\ y.ctx[c].node = k
        BY <3>3, <1>7
      <4>3. ASSUME NEW c \in ToSet(x.node[k].waiting) PROVE y.ctx[c].waits /\ y.ctx[c].node = k
        BY <3>1, <3>2
      <4>4. \A c \in ToSet(y.node[k].waiting) : y.ctx[c].waits /\ y.ctx[c].node = k
        BY <4>2, <4>3, <3>3, <1>6
      <4> QED BY <4>1, <4>4, <3>3
    <3>4. CASE k # n
      <4>1. IsInjective(x.node[k].waiting)
        BY <1>5 DEF Lists
      <4> QED BY <4>1, <3>1, <3>2, <3>4, <1>3
    <3> QED BY <3>3, <3>4
  <2> QED BY <2>1, <1>2 DEF Lists
<1>12. Waiters(y, {})
  <2>1. Waiters(x, H)
    BY DEF Good, H
  <2> SUFFICES ASSUME NEW c \in Ctx, y.ctx[c].waits
               PROVE  IF y.ctx[c].node = NULL THEN x.faults > 0
                      ELSE y.ctx[c].node \in x.tree /\ c \in ToSet(y.node[y.ctx[c].node].waiting)
    BY <1>2 DEF Waiters
  <2>2. CASE c \in H
    BY <2>2, <1>1, <1>6, <1>7
  <2>3. CASE c \notin H
    <3>1. y.ctx[c] = x.ctx[c]
      BY <2>3, <1>8
    <3>2. IF x.ctx[c].node = NULL THEN x.faults > 0
          ELSE x.ctx[c].node \in x.tree /\ c \in ToSet(x.node[x.ctx[c].node].waiting)
      BY <2>1, <2>3, <3>1 DEF Waiters
    <3>3. CASE x.ctx[c].node = NULL
      BY <3>1, <3>2, <3>3
    <3>4. CASE x.ctx[c].node # NULL
      <4>1. PICK k : k = x.ctx[c].node
        OBVIOUS
      <4>2. k \in x.tree /\ k \in DOMAIN x.node /\ c \in ToSet(x.node[k].waiting)
        BY <3>2, <3>4, <4>1, <1>1
      <4>3. c \in ToSet(y.node[k].waiting)
        BY <4>2, <1>3, <1>6
      <4> QED BY <3>1, <3>4, <4>1, <4>2, <4>3
    <3> QED BY <3>3, <3>4
  <2> QED BY <2>2, <2>3
<1>13. InHand(y, {})
  BY DEF InHand
<1>14. Loops(y)
  <2>1. \A i \in DOMAIN x.stack : \A c \in ToSet(x.stack[i].list) : c \in Ctx => y.ctx[c] = x.ctx[c]
    BY <1>5, <1>8 DEF InHand
  <2>2. \A i \in DOMAIN x.stack : ToSet(x.stack[i].list) \subseteq Ctx
    BY <1>1, FramesAre
  <2>3. \A i \in DOMAIN x.stack : \A c \in ToSet(x.stack[i].list) : ~y.ctx[c].waits
    BY <2>1, <2>2 DEF Good, Loops
  <2>4. \A k : Held(y, k) <=> Held(x, k)
    BY <1>2 DEF Held
  <2>5. Loops(x) /\ \A k \in ToSet(x.expire) : y.node[k].valid = x.node[k].valid /\ y.node[k].expire = x.node[k].expire
    BY <1>1, <1>3 DEF Good
  <2>6. \A k : Held(y, k) /\ k # NULL =>
          k \in ToSet(x.expire) /\ y.node[k].valid >= now /\ y.node[k].expire >= now
    BY <2>4, <2>5 DEF Loops
  <2> QED BY <2>3, <2>5, <2>6, <1>2 DEF Loops
<1>15. Clock(y, W)
  <2>1. Sorted(x.resend, y.node)
    <3>1. PICK f, g : f = x.node /\ g = y.node
      OBVIOUS
    <3>2. Sorted(x.resend, f) /\ \A k \in ToSet(x.resend) : g[k].expire = f[k].expire
      BY <3>1, <1>1, <1>3 DEF Good, Clock
    <3>3. Sorted(x.resend, g)
      BY <3>2, <1>1, SortedSame
    <3> QED BY <3>1, <3>3
  <2> QED BY <2>1, <1>1, <1>2, <1>3 DEF Good, Clock
<1>16. Asks(y, W)
  BY <1>1, <1>2, <1>4 DEF Good, Asks
<1> QED BY <1>1, <1>9, <1>10, <1>11, <1>12, <1>13, <1>14, <1>15, <1>16 DEF Good

\* A context is forgotten that is in hand, or waits for nothing.
LEMMA Forget ==
  ASSUME NEW W, NEW H, NEW x, Good(x, W, H), NEW c \in Ctx, c \in H \/ ~x.ctx[c].waits, NEW y \in State,
         y.node = x.node, SameQueues(x, y), y.timer = x.timer, y.stack = x.stack, y.faults = x.faults,
         ~y.ctx[c].waits, \A d \in Ctx : d # c => y.ctx[d] = x.ctx[d]
  PROVE  Good(y, W, H \ {c})
<1>1. x \in State /\ now \in Nat /\ now >= 1
  BY DEF Good
<1>2. y.tree = x.tree /\ y.resend = x.resend /\ y.expire = x.expire
  BY DEF SameQueues
<1>3. Names(y, W) /\ Queues(y, W) /\ Clock(y, W) /\ Asks(y, W)
  BY <1>2 DEF Good, Names, Queues, Clock, Asks
<1>4. Freed(y, W)
  BY <1>2 DEF Good, Freed, Freeing
<1>5. ASSUME NEW n \in DOMAIN x.node, NEW d \in ToSet(x.node[n].waiting) PROVE d # c /\ d \in Ctx
  <2>1. d \in Ctx
    <3>1. x.node[n].waiting \in Seq(Ctx)
      BY <1>1, StateIs
    <3> QED BY <3>1, ElementsAre
  <2>2. d # c
    BY DEF Good, Lists, InHand
  <2> QED BY <2>1, <2>2
<1>6. Lists(y, W)
  BY <1>2, <1>5 DEF Good, Lists
<1>7. Waiters(y, H \ {c})
  <2>1. Waiters(x, H)
    BY DEF Good
  <2> QED BY <2>1, <1>2 DEF Waiters
<1>8. InHand(y, H \ {c})
  BY DEF Good, InHand
<1>9. Loops(y)
  <2>1. \A k : Held(y, k) <=> Held(x, k)
    BY DEF Held
  <2>2. \A i \in DOMAIN x.stack : ToSet(x.stack[i].list) \subseteq Ctx
    BY <1>1, FramesAre
  <2>3. \A i \in DOMAIN x.stack : \A d \in ToSet(x.stack[i].list) : ~y.ctx[d].waits
    BY <2>2 DEF Good, Loops
  <2> QED BY <2>1, <2>3, <1>2 DEF Good, Loops
<1> QED BY <1>1, <1>3, <1>4, <1>6, <1>7, <1>8, <1>9 DEF Good

\* Contexts in hand change, but not whether they wait.
LEMMA Handle ==
  ASSUME NEW W, NEW H, NEW x, Good(x, W, H), NEW y \in State,
         y.node = x.node, SameQueues(x, y), y.timer = x.timer, y.stack = x.stack, y.faults = x.faults,
         \A d \in Ctx \ H : y.ctx[d] = x.ctx[d]
  PROVE  Good(y, W, H)
<1>1. x \in State /\ now \in Nat /\ now >= 1
  BY DEF Good
<1>2. y.tree = x.tree /\ y.resend = x.resend /\ y.expire = x.expire
  BY DEF SameQueues
<1>3. Names(y, W) /\ Queues(y, W) /\ Clock(y, W) /\ Asks(y, W)
  BY <1>2 DEF Good, Names, Queues, Clock, Asks
<1>4. Freed(y, W)
  BY <1>2 DEF Good, Freed, Freeing
<1>5. ASSUME NEW n \in DOMAIN x.node, NEW d \in ToSet(x.node[n].waiting) PROVE d \notin H /\ d \in Ctx
  <2>1. d \in Ctx
    <3>1. x.node[n].waiting \in Seq(Ctx)
      BY <1>1, StateIs
    <3> QED BY <3>1, ElementsAre
  <2>2. d \notin H
    BY DEF Good, InHand
  <2> QED BY <2>1, <2>2
<1>6. Lists(y, W)
  BY <1>2, <1>5 DEF Good, Lists
<1>7. Waiters(y, H)
  <2>1. Waiters(x, H)
    BY DEF Good
  <2> QED BY <2>1, <1>2 DEF Waiters
<1>8. InHand(y, H)
  BY DEF Good, InHand
<1>9. Loops(y)
  <2>1. \A k : Held(y, k) <=> Held(x, k)
    BY DEF Held
  <2>2. \A i \in DOMAIN x.stack : ToSet(x.stack[i].list) \subseteq Ctx
    BY <1>1, FramesAre
  <2>3. \A i \in DOMAIN x.stack : \A d \in ToSet(x.stack[i].list) : d \notin H
    BY DEF Good, InHand
  <2>4. \A i \in DOMAIN x.stack : \A d \in ToSet(x.stack[i].list) : ~y.ctx[d].waits
    BY <2>2, <2>3 DEF Good, Loops
  <2> QED BY <2>1, <2>4, <1>2 DEF Good, Loops
<1> QED BY <1>1, <1>3, <1>4, <1>6, <1>7, <1>8, <1>9 DEF Good

\* Contexts in hand that wait for no node are left to their timers.
LEMMA LetGo ==
  ASSUME NEW W, NEW H, NEW x, Good(x, W, H), x.faults > 0,
         \A c \in H : x.ctx[c].waits => x.ctx[c].node = NULL
  PROVE  Good(x, W, {})
<1>1. Waiters(x, {})
  <2>1. Waiters(x, H)
    BY DEF Good
  <2> QED BY <2>1 DEF Waiters
<1>2. InHand(x, {})
  BY DEF InHand
<1> QED BY <1>1, <1>2 DEF Good

\* The timer is set anew, there are more faults, or more queries.
LEMMA Sundry ==
  ASSUME NEW W, NEW H, NEW x, Good(x, W, H), NEW y \in State,
         y.node = x.node, SameQueues(x, y), y.ctx = x.ctx, y.stack = x.stack, y.faults >= x.faults,
         \A n \in ToSet(x.resend) : y.timer # NULL /\ y.timer <= x.node[n].expire
  PROVE  Good(y, W, H)
<1>1. x \in State /\ now \in Nat /\ now >= 1 /\ x.faults \in Nat /\ y.faults \in Nat
  BY StateIs DEF Good
<1>2. y.tree = x.tree /\ y.resend = x.resend /\ y.expire = x.expire
  BY DEF SameQueues
<1>3. Names(y, W) /\ Queues(y, W) /\ Clock(y, W)
  BY <1>2 DEF Good, Names, Queues, Clock
<1>4. Freed(y, W)
  BY <1>2 DEF Good, Freed, Freeing
<1>5. Lists(y, W) /\ InHand(y, H)
  BY <1>2 DEF Good, Lists, InHand
<1>6. Waiters(y, H)
  <2>1. Waiters(x, H)
    BY DEF Good
  <2> QED BY <2>1, <1>1, <1>2 DEF Waiters
<1>7. Loops(y)
  <2>1. \A k : Held(y, k) <=> Held(x, k)
    BY DEF Held
  <2> QED BY <2>1, <1>2 DEF Good, Loops
<1>8. Asks(y, W)
  <2>1. Asks(x, W)
    BY DEF Good
  <2> QED BY <2>1, <1>1, <1>2 DEF Asks
<1> QED BY <1>1, <1>3, <1>4, <1>5, <1>6, <1>7, <1>8 DEF Good

\* A node in work that is in no queue and has no list leaves the tree.
LEMMA Uproot ==
  ASSUME NEW W, NEW H, NEW x, Good(x, W, H), NEW n \in W, x.node[n].waiting = <<>>,
         n \notin ToSet(x.resend) \cup ToSet(x.expire), NEW y \in State,
         y.node = x.node, y.tree = x.tree \ {n}, y.resend = x.resend, y.expire = x.expire, SameOthers(x, y)
  PROVE  Good(y, W, H)
<1>1. x \in State /\ now \in Nat /\ now >= 1
  BY DEF Good
<1>2. y.timer = x.timer /\ y.ctx = x.ctx /\ y.stack = x.stack /\ y.faults = x.faults /\ ToSet(<<>>) = {}
  BY DEF SameOthers, ToSet
<1>3. Names(y, W) /\ Queues(y, W)
  BY DEF Good, Names, Queues
<1>4. Freed(y, W)
  <2>1. Freed(x, W) /\ W \subseteq DOMAIN x.node
    BY DEF Good, Names
  <2>2. Freeing(y) = Freeing(x)
    BY <1>2 DEF Freeing
  <2>3. DOMAIN y.node \ y.tree = Freeing(y) \cup (W \ y.tree)
    BY <2>1, <2>2 DEF Freed
  <2> QED BY <2>1, <2>2, <2>3, <1>2 DEF Freed
<1>5. Lists(y, W) /\ InHand(y, H)
  BY <1>2 DEF Good, Lists, InHand
<1>6. Waiters(y, H)
  <2>1. Waiters(x, H)
    BY DEF Good
  <2> QED BY <2>1, <1>2 DEF Waiters
<1>7. Loops(y)
  <2>1. \A k : Held(y, k) <=> Held(x, k)
    BY <1>2 DEF Held
  <2> QED BY <2>1, <1>2 DEF Good, Loops
<1>8. Clock(y, W) /\ Asks(y, W)
  BY <1>2 DEF Good, Clock, Asks
<1> QED BY <1>1, <1>3, <1>4, <1>5, <1>6, <1>7, <1>8 DEF Good

\* A node in work that has left the tree is freed.
LEMMA Release ==
  ASSUME NEW H, NEW x, NEW n, Good(x, {n}, H), n \notin x.tree, NEW y \in State,
         SameQueues(x, y), SameOthers(x, y), DOMAIN y.node = DOMAIN x.node \ {n},
         \A k \in DOMAIN x.node \ {n} : y.node[k] = x.node[k]
  PROVE  Good(y, {}, H)
<1>1. x \in State /\ now \in Nat /\ now >= 1 /\ x.resend \in Seq(Nat)
      /\ x.tree \subseteq DOMAIN x.node /\ ToSet(x.resend) \subseteq x.tree /\ ToSet(x.expire) \subseteq x.tree
  BY StateIs DEF Good, Queues, Names
<1>2. /\ y.tree = x.tree /\ y.resend = x.resend /\ y.expire = x.expire
      /\ y.timer = x.timer /\ y.ctx = x.ctx /\ y.stack = x.stack /\ y.faults = x.faults
  BY DEF SameQueues, SameOthers
<1>3. \A k \in x.tree : k \in DOMAIN y.node /\ y.node[k] = x.node[k]
  BY <1>1
<1>4. Names(y, {})
  <2>1. IsFiniteSet(DOMAIN y.node)
    <3>1. IsFiniteSet(DOMAIN x.node) /\ DOMAIN y.node \in SUBSET DOMAIN x.node
      BY DEF Good, Names
    <3>2. PICK A, B : A = DOMAIN x.node /\ B = DOMAIN y.node
      OBVIOUS
    <3>3. IsFiniteSet(B)
      BY <3>1, <3>2, FS_Subset
    <3> QED BY <3>2, <3>3
  <2> QED BY <2>1, <1>2, <1>3 DEF Good, Names
<1>5. Queues(y, {})
  BY <1>2 DEF Good, Queues
<1>6. Freed(y, {})
  <2>1. Freed(x, {n}) /\ n \in DOMAIN x.node
    BY DEF Good, Names
  <2>2. Freeing(y) = Freeing(x)
    BY <1>2 DEF Freeing
  <2>3. DOMAIN y.node \ y.tree = Freeing(y)
    BY <2>1, <2>2, <1>2 DEF Freed
  <2> QED BY <2>1, <2>2, <2>3, <1>2 DEF Freed
<1>7. Lists(y, {})
  BY <1>2 DEF Good, Lists
<1>8. Waiters(y, H)
  <2>1. Waiters(x, H)
    BY DEF Good
  <2> QED BY <2>1, <1>2, <1>3 DEF Waiters
<1>9. InHand(y, H)
  BY <1>2 DEF Good, InHand
<1>10. Loops(y)
  <2>1. \A k : Held(y, k) <=> Held(x, k)
    BY <1>2 DEF Held
  <2> QED BY <2>1, <1>1, <1>2, <1>3 DEF Good, Loops
<1>11. Clock(y, {})
  <2>1. Sorted(x.resend, y.node)
    <3>1. PICK f, g : f = x.node /\ g = y.node
      OBVIOUS
    <3>2. Sorted(x.resend, f) /\ \A k \in ToSet(x.resend) : g[k].expire = f[k].expire
      BY <3>1, <1>1, <1>3 DEF Good, Clock
    <3>3. Sorted(x.resend, g)
      BY <3>2, <1>1, SortedSame
    <3> QED BY <3>1, <3>3
  <2> QED BY <2>1, <1>1, <1>2, <1>3 DEF Good, Clock
<1>12. Asks(y, {})
  BY <1>1, <1>2, <1>3 DEF Good, Asks
<1> QED BY <1>1, <1>4, <1>5, <1>6, <1>7, <1>8, <1>9, <1>10, <1>11, <1>12 DEF Good

-----------------------------------------------------------------------------
(* Loops begin and end.                                                    *)

\* A sequence and the one with an element before it.
LEMMA PlacesAfterPush ==
  ASSUME NEW S, NEW q \in Seq(S), NEW e \in S, NEW r, r = <<e>> \o q
  PROVE  /\ DOMAIN r = 1..Len(q) + 1 /\ DOMAIN q = 1..Len(q) /\ Len(q) \in Nat /\ r[1] = e /\ 1 \in DOMAIN r
         /\ \A i \in DOMAIN q : i + 1 \in DOMAIN r /\ i + 1 # 1 /\ r[i + 1] = q[i]
         /\ \A j \in DOMAIN r : j = 1 \/ (j - 1 \in DOMAIN q /\ r[j] = q[j - 1])
<1>1. DOMAIN q = 1..Len(q) /\ Len(q) \in Nat
  OBVIOUS
<1>2. r \in Seq(S) /\ Len(r) = Len(q) + 1 /\ r[1] = e /\ \A j \in 2..Len(q) + 1 : r[j] = q[j - 1]
  BY PushIs
<1>3. DOMAIN r = 1..Len(q) + 1
  BY <1>2
<1>4. ASSUME NEW i \in DOMAIN q PROVE i + 1 \in DOMAIN r /\ i + 1 # 1 /\ r[i + 1] = q[i]
  <2>1. i + 1 \in 2..Len(q) + 1 /\ i + 1 \in 1..Len(q) + 1 /\ (i + 1) - 1 = i
    BY <1>1
  <2> QED BY <2>1, <1>2, <1>3
<1>5. ASSUME NEW j \in DOMAIN r, j # 1 PROVE j - 1 \in DOMAIN q /\ r[j] = q[j - 1]
  BY <1>1, <1>2, <1>3, <1>5
<1>6. 1 \in DOMAIN r
  BY <1>1, <1>3
<1> QED BY <1>1, <1>2, <1>3, <1>4, <1>5, <1>6

\* What is known of frames when there is one more: of those there were, and of
\* the new one.
Pushed(q, r, f) ==
  /\ \A j \in DOMAIN r : r[j] = f \/ \E i \in DOMAIN q : r[j] = q[i]
  /\ \A i \in DOMAIN q : \E j \in DOMAIN r : r[j] = q[i]
  /\ \E j \in DOMAIN r : r[j] = f
  /\ \A i, j \in DOMAIN r : i # j =>
       \/ r[i] = f /\ \E l \in DOMAIN q : r[j] = q[l]
       \/ r[j] = f /\ \E l \in DOMAIN q : r[i] = q[l]
       \/ \E k, l \in DOMAIN q : k # l /\ r[i] = q[k] /\ r[j] = q[l]
  /\ \A k, l \in DOMAIN q : k # l =>
       \E i, j \in DOMAIN r : i # j /\ r[i] = q[k] /\ r[j] = q[l]
  /\ \A l \in DOMAIN q :
       \E i, j \in DOMAIN r : i # j /\ r[i] = f /\ r[j] = q[l]

\* Two frames there were are two different frames of the longer stack.
LEMMA PushedPairs ==
  ASSUME NEW q, NEW r, NEW f, Pushed(q, r, f)
  PROVE  \A k, l \in DOMAIN q : k # l =>
           \E i, j \in DOMAIN r : i # j /\ r[i] = q[k] /\ r[j] = q[l]
BY Zenon DEF Pushed

\* Pushing a frame does that.
LEMMA PushedFrame ==
  ASSUME NEW x \in State, NEW f \in Frame, NEW y, y.stack = <<f>> \o x.stack
  PROVE  Pushed(x.stack, y.stack, f)
<1>1. PICK q, r : q = x.stack /\ r = y.stack
  OBVIOUS
<1>2. q \in Seq(Frame) /\ r = <<f>> \o q
  BY <1>1, StateIs
<1>3. /\ r[1] = f /\ 1 \in DOMAIN r /\ DOMAIN q \subseteq Nat
      /\ \A i \in DOMAIN q : i + 1 \in DOMAIN r /\ i + 1 # 1 /\ r[i + 1] = q[i]
      /\ \A j \in DOMAIN r : j = 1 \/ (j - 1 \in DOMAIN q /\ r[j] = q[j - 1])
      /\ DOMAIN r \subseteq Nat
  BY <1>2, PlacesAfterPush
<1>4. \A j \in DOMAIN r : r[j] = f \/ \E i \in DOMAIN q : r[j] = q[i]
  BY <1>3
<1>5. \A i \in DOMAIN q : \E j \in DOMAIN r : r[j] = q[i]
  BY <1>3
<1>6. \E j \in DOMAIN r : r[j] = f
  BY <1>3
<1>7. ASSUME NEW i \in DOMAIN r, NEW j \in DOMAIN r, i # j
      PROVE  \/ r[i] = f /\ \E l \in DOMAIN q : r[j] = q[l]
             \/ r[j] = f /\ \E l \in DOMAIN q : r[i] = q[l]
             \/ \E k, l \in DOMAIN q : k # l /\ r[i] = q[k] /\ r[j] = q[l]
  <2>1. CASE i = 1 \/ j = 1
    BY <2>1, <1>3, <1>7
  <2>2. CASE i # 1 /\ j # 1
    <3>1. i - 1 \in DOMAIN q /\ j - 1 \in DOMAIN q /\ i - 1 # j - 1 /\ r[i] = q[i - 1] /\ r[j] = q[j - 1]
      BY <2>2, <1>3, <1>7
    <3> QED BY <3>1
  <2> QED BY <2>1, <2>2
<1>8. ASSUME NEW k \in DOMAIN q, NEW l \in DOMAIN q, k # l
      PROVE  \E i, j \in DOMAIN r : i # j /\ r[i] = q[k] /\ r[j] = q[l]
  <2>1. k + 1 \in DOMAIN r /\ l + 1 \in DOMAIN r /\ k + 1 # l + 1 /\ r[k + 1] = q[k] /\ r[l + 1] = q[l]
    BY <1>3, <1>8
  <2> QED BY <2>1
<1>9. ASSUME NEW l \in DOMAIN q
      PROVE  \E i, j \in DOMAIN r : i # j /\ r[i] = f /\ r[j] = q[l]
  <2>1. l + 1 \in DOMAIN r /\ 1 # l + 1 /\ r[l + 1] = q[l]
    BY <1>3
  <2> QED BY <2>1, <1>3
<1>10. Pushed(q, r, f)
  BY <1>4, <1>5, <1>6, <1>7, <1>8, <1>9 DEF Pushed
<1> QED BY <1>1, <1>10

\* A loop begins over the contexts in hand: its node will be freed, or it stays in
\* the cache as long as the loop lasts, or there is none.
LEMMA BeginLoop ==
  ASSUME NEW W, NEW H, NEW x, Good(x, W, H), NEW f \in Frame, ToSet(f.list) = H, NEW y \in State,
         y.stack = <<f>> \o x.stack, y.node = x.node, SameQueues(x, y),
         y.timer = x.timer, y.faults = x.faults,
         \A c \in H : ~y.ctx[c].waits, \A c \in Ctx \ H : y.ctx[c] = x.ctx[c],
         \/ f.after = "free" /\ W = {f.node} /\ f.node \notin x.tree
         \/ f.after # "free" /\ W = {} /\ f.node \in ToSet(x.expire)
              /\ x.node[f.node].valid >= now /\ x.node[f.node].expire >= now
         \/ f.after = "nothing" /\ W = {} /\ f.node = NULL
  PROVE  Good(y, {}, {})
<1>1. x \in State /\ now \in Nat /\ now >= 1 /\ x.tree \subseteq DOMAIN x.node /\ DOMAIN x.node \subseteq Nat
      /\ NULL \notin Nat /\ ToSet(x.expire) \subseteq x.tree /\ W \subseteq DOMAIN x.node
  BY StateIs, ResolverAssumption DEF Good, Names, Queues
<1>2. y.tree = x.tree /\ y.resend = x.resend /\ y.expire = x.expire
  BY DEF SameQueues
<1>3. Pushed(x.stack, y.stack, f)
  BY <1>1, PushedFrame
<1>4. Names(y, {})
  BY <1>2 DEF Good, Names
<1>5. Queues(y, {})
  <2>1. Queues(x, W)
    BY DEF Good
  <2>2. x.tree \ W = x.tree
    OBVIOUS
  <2> QED BY <2>1, <2>2, <1>2 DEF Queues
<1>6. Freed(y, {})
  <2>1. Freed(x, W)
    BY DEF Good
  <2>2. Freeing(y) = Freeing(x) \cup (W \ x.tree)
    <3>1. ASSUME NEW n \in Freeing(y) PROVE n \in Freeing(x) \cup (W \ x.tree)
      <4>1. PICK j \in DOMAIN y.stack : y.stack[j].after = "free" /\ y.stack[j].node = n
        BY <3>1 DEF Freeing
      <4>2. CASE y.stack[j] = f
        BY <4>1, <4>2
      <4>3. CASE \E i \in DOMAIN x.stack : y.stack[j] = x.stack[i]
        BY <4>1, <4>3 DEF Freeing
      <4> QED BY <4>2, <4>3, <1>3 DEF Pushed
    <3>2. ASSUME NEW n \in Freeing(x) PROVE n \in Freeing(y)
      <4>1. PICK i \in DOMAIN x.stack : x.stack[i].after = "free" /\ x.stack[i].node = n
        BY <3>2 DEF Freeing
      <4>2. PICK j \in DOMAIN y.stack : y.stack[j] = x.stack[i]
        BY <1>3 DEF Pushed
      <4> QED BY <4>1, <4>2 DEF Freeing
    <3>3. ASSUME NEW n \in W PROVE n \in Freeing(y)
      <4>1. PICK j \in DOMAIN y.stack : y.stack[j] = f
        BY <1>3 DEF Pushed
      <4> QED BY <4>1, <3>3 DEF Freeing
    <3> QED BY <3>1, <3>2, <3>3
  <2>3. ASSUME NEW i \in DOMAIN y.stack, NEW j \in DOMAIN y.stack, i # j, y.stack[i].after = "free",
               y.stack[j].after = "free", y.stack[i].node = y.stack[j].node
        PROVE  FALSE
    <3>1. \A l \in DOMAIN x.stack : x.stack[l].after = "free" => x.stack[l].node \in Freeing(x)
      BY DEF Freeing
    <3>2. \A l \in DOMAIN x.stack : f.after = "free" /\ x.stack[l].after = "free" => x.stack[l].node # f.node
      BY <3>1, <2>1 DEF Freed
    <3>3. CASE y.stack[i] = f /\ \E l \in DOMAIN x.stack : y.stack[j] = x.stack[l]
      BY <2>3, <3>2, <3>3
    <3>4. CASE y.stack[j] = f /\ \E l \in DOMAIN x.stack : y.stack[i] = x.stack[l]
      BY <2>3, <3>2, <3>4
    <3>5. CASE \E k, l \in DOMAIN x.stack : k # l /\ y.stack[i] = x.stack[k] /\ y.stack[j] = x.stack[l]
      BY <2>1, <2>3, <3>5 DEF Freed
    <3> QED BY <2>3, <3>3, <3>4, <3>5, <1>3 DEF Pushed
  <2>4. DOMAIN y.node \ y.tree = Freeing(y) \cup ({} \ y.tree)
    BY <2>1, <2>2, <1>2 DEF Freed
  <2> QED BY <2>3, <2>4 DEF Freed
<1>7. ASSUME NEW n \in DOMAIN x.node, NEW c \in ToSet(x.node[n].waiting) PROVE c \notin H /\ c \in Ctx
  <2>1. c \in Ctx
    <3>1. x.node[n].waiting \in Seq(Ctx)
      BY <1>1, StateIs
    <3> QED BY <3>1, ElementsAre
  <2>2. c \notin H
    BY DEF Good, InHand
  <2> QED BY <2>1, <2>2
<1>8. Lists(y, {})
  <2>1. Lists(x, W)
    BY DEF Good
  <2>2. ASSUME NEW n \in DOMAIN x.node, NEW c \in ToSet(x.node[n].waiting)
        PROVE  y.ctx[c].waits /\ y.ctx[c].node = n /\ n \in ToSet(x.resend)
    <3>1. y.ctx[c] = x.ctx[c]
      BY <1>7
    <3>2. x.ctx[c].waits /\ x.ctx[c].node = n /\ (n \in ToSet(x.resend) \/ n \in W)
      BY <2>1 DEF Lists
    <3>3. n \in x.tree
      <4>1. Waiters(x, H) /\ n # NULL
        BY <1>1 DEF Good
      <4> QED BY <4>1, <3>2, <1>7 DEF Waiters
    <3> QED BY <3>1, <3>2, <3>3
  <2> QED BY <2>1, <2>2, <1>2 DEF Lists
<1>9. Waiters(y, {})
  <2>1. Waiters(x, H)
    BY DEF Good
  <2> QED BY <2>1, <1>2 DEF Waiters
<1>10. InHand(y, {})
  BY DEF InHand
<1>11. Loops(y)
  <2>0. Loops(x) /\ InHand(x, H)
    BY DEF Good
  <2>1. \A i \in DOMAIN x.stack : ToSet(x.stack[i].list) \cap H = {} /\ ToSet(x.stack[i].list) \subseteq Ctx
    BY <2>0, <1>1, FramesAre DEF InHand
  <2>2. \A i \in DOMAIN x.stack : \A c \in ToSet(x.stack[i].list) : ~y.ctx[c].waits
    BY <2>0, <2>1 DEF Loops
  <2>3. ASSUME NEW j \in DOMAIN y.stack
        PROVE  /\ y.stack[j].after # "nothing" => y.stack[j].node # NULL
               /\ \A c \in ToSet(y.stack[j].list) : ~y.ctx[c].waits
    <3>1. CASE y.stack[j] = f
      BY <3>1, <1>1
    <3>2. CASE \E i \in DOMAIN x.stack : y.stack[j] = x.stack[i]
      BY <3>2, <2>0, <2>2 DEF Loops
    <3> QED BY <3>1, <3>2, <1>3 DEF Pushed
  <2>4. ASSUME NEW n, Held(y, n), n # NULL
        PROVE  n \in ToSet(x.expire) /\ x.node[n].valid >= now /\ x.node[n].expire >= now
    <3>1. PICK j \in DOMAIN y.stack : y.stack[j].after # "free" /\ y.stack[j].node = n
      BY <2>4 DEF Held
    <3>2. CASE y.stack[j] = f
      BY <3>1, <3>2, <2>4
    <3>3. CASE \E i \in DOMAIN x.stack : y.stack[j] = x.stack[i]
      <4>1. Held(x, n)
        BY <3>1, <3>3 DEF Held
      <4> QED BY <4>1, <2>0, <2>4 DEF Loops
    <3> QED BY <3>2, <3>3, <1>3 DEF Pushed
  <2>5. ASSUME NEW i \in DOMAIN y.stack, NEW j \in DOMAIN y.stack, i # j
        PROVE  ToSet(y.stack[i].list) \cap ToSet(y.stack[j].list) = {}
    <3>1. CASE y.stack[i] = f /\ \E l \in DOMAIN x.stack : y.stack[j] = x.stack[l]
      BY <3>1, <2>1
    <3>2. CASE y.stack[j] = f /\ \E l \in DOMAIN x.stack : y.stack[i] = x.stack[l]
      BY <3>2, <2>1
    <3>3. CASE \E k, l \in DOMAIN x.stack : k # l /\ y.stack[i] = x.stack[k] /\ y.stack[j] = x.stack[l]
      BY <3>3, <2>0 DEF Loops
    <3> QED BY <2>5, <3>1, <3>2, <3>3, <1>3 DEF Pushed
  <2> QED BY <2>3, <2>4, <2>5, <1>2 DEF Loops
<1>12. Clock(y, {})
  <2>1. \A n \in ToSet(x.resend) : n \notin W
    BY DEF Good, Queues
  <2> QED BY <2>1, <1>2 DEF Good, Clock
<1>13. Asks(y, {})
  <2>1. \A n \in ToSet(x.resend) : n \notin W
    BY DEF Good, Queues
  <2>2. Asks(x, W)
    BY DEF Good
  <2> QED BY <2>1, <2>2, <1>2 DEF Asks
<1> QED BY <1>1, <1>4, <1>5, <1>6, <1>8, <1>9, <1>10, <1>11, <1>12, <1>13 DEF Good

\* A loop ends: its node is one more to be freed, or one less to be kept.
LEMMA EndLoop ==
  ASSUME NEW x, Good(x, {}, {}), x.stack # <<>>, NEW f, f = x.stack[1], NEW y \in State,
         y.stack = Tail(x.stack), y.node = x.node, SameQueues(x, y),
         y.timer = x.timer, y.faults = x.faults, y.ctx = x.ctx,
         NEW W, W = IF f.after = "free" THEN {f.node} ELSE {}
  PROVE  Good(y, W, {}) /\ (f.after = "free" => f.node \notin y.tree) /\ f \in Frame
<1>1. x \in State /\ now \in Nat /\ now >= 1 /\ x.tree \subseteq DOMAIN x.node
  BY DEF Good, Names
<1>2. y.tree = x.tree /\ y.resend = x.resend /\ y.expire = x.expire
  BY DEF SameQueues
<1>3. Pushed(y.stack, x.stack, f) /\ f \in Frame
  <2>1. PICK q, r : q = y.stack /\ r = x.stack
    OBVIOUS
  <2>2. r \in Seq(Frame) /\ r # <<>> /\ q = Tail(r) /\ f = r[1] /\ q \in Seq(Frame)
    BY <2>1, <1>1, StateIs
  <2>3. f \in Frame /\ r = <<f>> \o q
    BY <2>2
  <2>4. x.stack = <<f>> \o y.stack
    BY <2>1, <2>3
  <2> QED BY <2>3, <2>4, PushedFrame
<1>4. PICK i0 \in DOMAIN x.stack : x.stack[i0] = f
  BY <1>3 DEF Pushed
<1>5. f.after = "free" => f.node \in Freeing(x) /\ f.node \notin x.tree /\ f.node \in DOMAIN x.node
  <2>1. f.after = "free" => f.node \in Freeing(x)
    BY <1>4 DEF Freeing
  <2> QED BY <2>1 DEF Good, Freed
<1>6. Names(y, W) /\ Queues(y, W)
  BY <1>2, <1>5 DEF Good, Names, Queues
<1>7. Freed(y, W)
  <2>1. Freed(x, {})
    BY DEF Good
  <2>2. Freeing(x) = Freeing(y) \cup W
    <3>1. ASSUME NEW n \in Freeing(x) PROVE n \in Freeing(y) \cup W
      <4>1. PICK j \in DOMAIN x.stack : x.stack[j].after = "free" /\ x.stack[j].node = n
        BY <3>1 DEF Freeing
      <4>2. CASE x.stack[j] = f
        BY <4>1, <4>2
      <4>3. CASE \E i \in DOMAIN y.stack : x.stack[j] = y.stack[i]
        BY <4>1, <4>3 DEF Freeing
      <4> QED BY <4>2, <4>3, <1>3 DEF Pushed
    <3>2. ASSUME NEW n \in Freeing(y) PROVE n \in Freeing(x)
      <4>1. PICK i \in DOMAIN y.stack : y.stack[i].after = "free" /\ y.stack[i].node = n
        BY <3>2 DEF Freeing
      <4>2. PICK j \in DOMAIN x.stack : x.stack[j] = y.stack[i]
        BY <1>3 DEF Pushed
      <4> QED BY <4>1, <4>2 DEF Freeing
    <3> QED BY <3>1, <3>2, <1>5
  <2>3. W \cap Freeing(y) = {}
    <3>1. ASSUME f.after = "free", NEW l \in DOMAIN y.stack, y.stack[l].after = "free"
          PROVE  y.stack[l].node # f.node
      <4>1. PICK i, j \in DOMAIN x.stack : i # j /\ x.stack[i] = f /\ x.stack[j] = y.stack[l]
        BY <1>3 DEF Pushed
      <4> QED BY <3>1, <4>1, <2>1 DEF Freed
    <3> QED BY <3>1 DEF Freeing
  <2>4. ASSUME NEW k \in DOMAIN y.stack, NEW l \in DOMAIN y.stack, k # l, y.stack[k].after = "free",
               y.stack[l].after = "free", y.stack[k].node = y.stack[l].node
        PROVE  FALSE
    <3>0. \A m, n \in DOMAIN y.stack : m # n =>
            \E i, j \in DOMAIN x.stack : i # j /\ x.stack[i] = y.stack[m] /\ x.stack[j] = y.stack[n]
      BY ONLY <1>3, PushedPairs
    <3>1. PICK i, j \in DOMAIN x.stack : i # j /\ x.stack[i] = y.stack[k] /\ x.stack[j] = y.stack[l]
      BY ONLY <2>4, <3>0
    <3> QED BY <2>4, <3>1, <2>1 DEF Freed
  <2>5. W \ y.tree = W
    BY <1>2, <1>5
  <2>6. DOMAIN y.node \ y.tree = Freeing(y) \cup (W \ y.tree)
    BY <2>1, <2>2, <2>5, <1>2 DEF Freed
  <2> QED BY <2>3, <2>4, <2>6 DEF Freed
<1>8. Lists(y, W)
  BY <1>2 DEF Good, Lists
<1>9. Waiters(y, {}) /\ InHand(y, {})
  BY <1>2 DEF Good, Waiters, InHand
<1>10. Loops(y)
  <2>0. Loops(x)
    BY DEF Good
  <2>1. ASSUME NEW i \in DOMAIN y.stack
        PROVE  /\ y.stack[i].after # "nothing" => y.stack[i].node # NULL
               /\ \A c \in ToSet(y.stack[i].list) : ~x.ctx[c].waits
    <3>1. PICK j \in DOMAIN x.stack : x.stack[j] = y.stack[i]
      BY <1>3 DEF Pushed
    <3> QED BY <3>1, <2>0 DEF Loops
  <2>2. ASSUME NEW n, Held(y, n) PROVE Held(x, n)
    <3>1. PICK i \in DOMAIN y.stack : y.stack[i].after # "free" /\ y.stack[i].node = n
      BY <2>2 DEF Held
    <3>2. PICK j \in DOMAIN x.stack : x.stack[j] = y.stack[i]
      BY <1>3 DEF Pushed
    <3> QED BY <3>1, <3>2 DEF Held
  <2>3. ASSUME NEW k \in DOMAIN y.stack, NEW l \in DOMAIN y.stack, k # l
        PROVE  ToSet(y.stack[k].list) \cap ToSet(y.stack[l].list) = {}
    <3>0. \A m, n \in DOMAIN y.stack : m # n =>
            \E i, j \in DOMAIN x.stack : i # j /\ x.stack[i] = y.stack[m] /\ x.stack[j] = y.stack[n]
      BY ONLY <1>3, PushedPairs
    <3>1. PICK i, j \in DOMAIN x.stack : i # j /\ x.stack[i] = y.stack[k] /\ x.stack[j] = y.stack[l]
      BY ONLY <2>3, <3>0
    <3> QED BY <3>1, <2>0 DEF Loops
  <2>4. \A n : Held(y, n) /\ n # NULL =>
          n \in ToSet(x.expire) /\ x.node[n].valid >= now /\ x.node[n].expire >= now
    BY <2>0, <2>2 DEF Loops
  <2> QED BY <2>1, <2>3, <2>4, <1>2 DEF Loops
<1>11. Clock(y, W)
  BY <1>2 DEF Good, Clock
<1>12. Asks(y, W)
  <2>1. Asks(x, {})
    BY DEF Good
  <2> QED BY <2>1, <1>2 DEF Asks
<1> QED BY <1>1, <1>2, <1>3, <1>5, <1>6, <1>7, <1>8, <1>9, <1>10, <1>11, <1>12 DEF Good

\* A loop has called a handler, or may ask no more.
LEMMA GoOn ==
  ASSUME NEW W, NEW H, NEW x, Good(x, W, H), NEW y \in State, y.node = x.node, SameQueues(x, y),
         y.timer = x.timer, y.faults = x.faults, y.ctx = x.ctx, DOMAIN y.stack = DOMAIN x.stack,
         \A i \in DOMAIN x.stack : /\ y.stack[i].node = x.stack[i].node /\ y.stack[i].after = x.stack[i].after
                                   /\ ToSet(y.stack[i].list) \subseteq ToSet(x.stack[i].list)
  PROVE  Good(y, W, H)
<1>1. x \in State /\ now \in Nat /\ now >= 1
  BY DEF Good
<1>2. y.tree = x.tree /\ y.resend = x.resend /\ y.expire = x.expire
  BY DEF SameQueues
<1>3. Names(y, W) /\ Queues(y, W) /\ Clock(y, W)
  BY <1>2 DEF Good, Names, Queues, Clock
<1>4. Asks(y, W)
  BY <1>2 DEF Good, Asks
<1>5. Freed(y, W)
  <2>1. Freeing(y) = Freeing(x)
    BY DEF Freeing
  <2> QED BY <2>1, <1>2 DEF Good, Freed
<1>6. Lists(y, W) /\ Waiters(y, H)
  BY <1>2 DEF Good, Lists, Waiters
<1>7. InHand(y, H)
  BY DEF Good, InHand
<1>8. Loops(y)
  <2>0. Loops(x)
    BY DEF Good
  <2>1. \A k : Held(y, k) <=> Held(x, k)
    BY DEF Held
  <2>2. \A i \in DOMAIN y.stack : /\ y.stack[i].after # "nothing" => y.stack[i].node # NULL
                                  /\ \A c \in ToSet(y.stack[i].list) : ~y.ctx[c].waits
    BY <2>0 DEF Loops
  <2>3. \A i, j \in DOMAIN y.stack : i # j => ToSet(y.stack[i].list) \cap ToSet(y.stack[j].list) = {}
    <3>1. ASSUME NEW i \in DOMAIN x.stack, NEW j \in DOMAIN x.stack, i # j
          PROVE  ToSet(y.stack[i].list) \cap ToSet(y.stack[j].list) = {}
      <4>1. ToSet(x.stack[i].list) \cap ToSet(x.stack[j].list) = {}
        BY <2>0, <3>1 DEF Loops
      <4> QED BY <4>1
    <3> QED BY <3>1
  <2> QED BY <2>0, <2>1, <2>2, <2>3, <1>2 DEF Loops
<1> QED BY <1>1, <1>3, <1>4, <1>5, <1>6, <1>7, <1>8 DEF Good

\* A node is allocated and put into the tree, under a name that was not there.
LEMMA Plant ==
  ASSUME NEW H, NEW x, Good(x, {}, H), NEW n \in Nat, n \notin DOMAIN x.node, NEW y \in State,
         y.tree = x.tree \cup {n}, y.resend = x.resend, y.expire = x.expire, SameOthers(x, y),
         DOMAIN y.node = DOMAIN x.node \cup {n}, \A k \in DOMAIN x.node : y.node[k] = x.node[k],
         y.node[n].waiting = <<>>, \A k \in x.tree : x.node[k].name # y.node[n].name
  PROVE  Good(y, {n}, H) /\ ~Held(y, n) /\ n # NULL /\ n \notin ToSet(y.resend) \cup ToSet(y.expire)
<1>1. x \in State /\ now \in Nat /\ now >= 1 /\ x.resend \in Seq(Nat) /\ n # NULL
      /\ x.tree \subseteq DOMAIN x.node /\ ToSet(x.resend) \subseteq x.tree /\ ToSet(x.expire) \subseteq x.tree
  BY StateIs, ResolverAssumption DEF Good, Queues, Names
<1>2. /\ y.timer = x.timer /\ y.ctx = x.ctx /\ y.stack = x.stack /\ y.faults = x.faults
      /\ ToSet(<<>>) = {} /\ IsInjective(<<>>)
  BY DEF SameOthers, ToSet, IsInjective
<1>3. \A k : Held(y, k) <=> Held(x, k)
  BY <1>2 DEF Held
<1>4. ~Held(y, n)
  BY <1>1, <1>3 DEF Good, Loops
<1>5. Names(y, {n})
  <2>1. IsFiniteSet(DOMAIN y.node)
    <3>1. PICK A : A = DOMAIN x.node
      OBVIOUS
    <3>2. IsFiniteSet(A)
      BY <3>1 DEF Good, Names
    <3>3. IsFiniteSet(A \cup {n})
      BY <3>2, FS_AddElement
    <3> QED BY <3>1, <3>3
  <2>2. \A k, l \in y.tree : y.node[k].name = y.node[l].name => k = l
    BY <1>1 DEF Good, Names
  <2> QED BY <2>1, <2>2, <1>1 DEF Names
<1>6. Queues(y, {n})
  BY DEF Good, Queues
<1>7. Freed(y, {n})
  <2>1. Freed(x, {})
    BY DEF Good
  <2>2. Freeing(y) = Freeing(x)
    BY <1>2 DEF Freeing
  <2>3. n \notin Freeing(x)
    BY <2>1 DEF Freed
  <2>4. DOMAIN y.node \ y.tree = Freeing(y) \cup ({n} \ y.tree)
    BY <2>1, <2>2, <2>3 DEF Freed
  <2> QED BY <2>1, <2>2, <2>3, <2>4, <1>2 DEF Freed
<1>8. Lists(y, {n})
  BY <1>2 DEF Good, Lists
<1>9. Waiters(y, H)
  <2>1. Waiters(x, H)
    BY DEF Good
  <2> QED BY <2>1, <1>1, <1>2 DEF Waiters
<1>10. InHand(y, H)
  BY <1>2 DEF Good, InHand
<1>11. Loops(y)
  BY <1>1, <1>2, <1>3 DEF Good, Loops
<1>12. Clock(y, {n})
  <2>1. Sorted(x.resend, y.node)
    <3>1. PICK f, g : f = x.node /\ g = y.node
      OBVIOUS
    <3>2. Sorted(x.resend, f) /\ \A k \in ToSet(x.resend) : g[k].expire = f[k].expire
      BY <3>1, <1>1 DEF Good, Clock
    <3>3. Sorted(x.resend, g)
      BY <3>2, <1>1, SortedSame
    <3> QED BY <3>1, <3>3
  <2> QED BY <2>1, <1>1, <1>2 DEF Good, Clock
<1>13. Asks(y, {n})
  <2>1. Asks(x, {})
    BY DEF Good
  <2>2. \A k \in ToSet(y.expire) : y.node[k].query = 0 \/ Outstanding(y.node[k]) = {}
    BY <2>1, <1>1 DEF Asks
  <2>3. ASSUME y.faults = 0, NEW k \in ToSet(y.resend)
        PROVE  y.node[k].query # 0 /\ Outstanding(y.node[k]) # {}
    <3>1. x.faults = 0 /\ k \in ToSet(x.resend) /\ y.node[k] = x.node[k]
      BY <2>3, <1>1, <1>2
    <3> QED BY <3>1, <2>1 DEF Asks
  <2> QED BY <2>2, <2>3 DEF Asks
<1> QED BY <1>1, <1>4, <1>5, <1>6, <1>7, <1>8, <1>9, <1>10, <1>11, <1>12, <1>13 DEF Good

-----------------------------------------------------------------------------
(* The functions of the resolver, on states with nodes in work.            *)

\* One node has been written to, and nothing else.
Wrote(x, y, n, rn) ==
  /\ y \in State /\ SameQueues(x, y) /\ SameOthers(x, y) /\ y.asked = x.asked
  /\ DOMAIN y.node = DOMAIN x.node /\ n \in DOMAIN x.node /\ y.node[n] = rn
  /\ \A k \in DOMAIN x.node : k # n => y.node[k] = x.node[k]

\* Assigning to a node does that.
LEMMA WroteNode ==
  ASSUME NEW x \in State, NEW n \in DOMAIN x.node, NEW rn \in NodeRecord
  PROVE  Wrote(x, [x EXCEPT !.node[n] = rn], n, rn)
<1>1. PICK f : f = [x.node EXCEPT ![n] = rn]
  OBVIOUS
<1>2. f \in NodeMap /\ DOMAIN f = DOMAIN x.node /\ \A k \in DOMAIN x.node : f[k] = IF k = n THEN rn ELSE x.node[k]
  BY <1>1, StateIs, NodeSet
<1>3. PICK y : y = [x EXCEPT !.node[n] = rn]
  OBVIOUS
<1>4. y = [x EXCEPT !.node = f]
  BY <1>1, <1>3 DEF State
<1>5. /\ y \in State /\ y.node = f /\ SameQueues(x, y) /\ SameOthers(x, y) /\ y.asked = x.asked
  BY <1>2, <1>4 DEF State, SameQueues, SameOthers
<1> QED BY <1>2, <1>3, <1>5 DEF Wrote

\* ngx_queue_remove takes the node out of its queue.
LEMMA UnqueueIs ==
  ASSUME NEW x \in State, IsInjective(x.resend), IsInjective(x.expire), NEW n
  PROVE  LET y == Unqueue(x, n)
         IN  /\ y \in State /\ y.node = x.node /\ y.tree = x.tree /\ SameOthers(x, y)
             /\ y.resend = Without(x.resend, n) /\ y.expire = Without(x.expire, n) /\ y.asked = x.asked
<1>1. Without(x.resend, n) \in Seq(Nat) /\ Without(x.expire, n) \in Seq(Nat)
  BY StateIs, WithoutIs
<1>2. PICK p, q : p = Without(x.resend, n) /\ q = Without(x.expire, n)
  OBVIOUS
<1>3. Unqueue(x, n) = [x EXCEPT !.resend = p, !.expire = q]
  BY <1>2 DEF Unqueue
<1> QED BY <1>1, <1>2, <1>3 DEF State, SameOthers

\* The node is put at the head of the queue of those to be sent again.
LEMMA ToResendIs ==
  ASSUME NEW x \in State, IsInjective(x.resend), IsInjective(x.expire), NEW n \in DOMAIN x.node, now \in Nat
  PROVE  LET y == ToResend(x, n)
         IN  /\ y \in State /\ ResendMoved(x, y, n) /\ y.asked = x.asked
             /\ y.node[n] = [x.node[n] EXCEPT !.expire = now + ResendTimeout]
<1>1. PICK u : u = Unqueue(x, n)
  OBVIOUS
<1>2. /\ u \in State /\ u.node = x.node /\ u.tree = x.tree /\ SameOthers(x, u)
      /\ u.resend = Without(x.resend, n) /\ u.expire = Without(x.expire, n) /\ u.asked = x.asked
  BY <1>1, UnqueueIs
<1>3. PICK rn : rn = [x.node[n] EXCEPT !.expire = now + ResendTimeout]
  OBVIOUS
<1>4. /\ rn \in NodeRecord /\ rn.waiting = x.node[n].waiting /\ rn.valid = x.node[n].valid
      /\ rn.query = x.node[n].query /\ rn.naddrs = x.node[n].naddrs /\ rn.name = x.node[n].name
      /\ rn.expire = now + ResendTimeout
  <2>1. x.node[n] \in NodeRecord /\ now + ResendTimeout \in Int
    BY StateIs, ResolverAssumption
  <2> QED BY <2>1, <1>3 DEF NodeRecord
<1>5. PICK v : v = [u EXCEPT !.node[n] = rn]
  OBVIOUS
<1>6. Wrote(u, v, n, rn)
  BY <1>2, <1>4, <1>5, WroteNode
<1>7. PICK q : q = <<n>> \o Without(x.resend, n)
  OBVIOUS
<1>8. q \in Seq(Nat)
  <2>1. Without(x.resend, n) \in Seq(Nat) /\ n \in Nat
    BY StateIs, WithoutIs
  <2> QED BY <2>1, <1>7
<1>9. PICK y : y = ToResend(x, n)
  OBVIOUS
<1>10. y = [v EXCEPT !.resend = q]
  <2>1. y = [u EXCEPT !.resend = <<n>> \o @, !.node[n].expire = now + ResendTimeout]
    BY <1>1, <1>9 DEF ToResend
  <2>2. y = [u EXCEPT !.resend = q, !.node[n] = rn]
    BY <2>1, <1>2, <1>3, <1>7 DEF State
  <2> QED BY <2>2, <1>2, <1>5 DEF State
<1>11. /\ y \in State /\ y.node = v.node /\ y.tree = v.tree /\ y.expire = v.expire /\ y.resend = q
       /\ SameOthers(v, y) /\ y.asked = v.asked
  BY <1>6, <1>8, <1>10 DEF State, SameOthers, Wrote
<1>12. /\ y.tree = x.tree /\ SameOthers(x, y) /\ y.expire = Without(x.expire, n) /\ y.asked = x.asked
  BY <1>2, <1>6, <1>11 DEF Wrote, SameQueues, SameOthers
<1>13. OneNode(x, y, n) /\ SameNode(x, y, n) /\ y.node[n] = rn
  BY <1>2, <1>4, <1>6, <1>11 DEF Wrote, OneNode, SameNode
<1> QED BY <1>3, <1>4, <1>7, <1>9, <1>11, <1>12, <1>13 DEF ResendMoved

\* The node is put at the head of the queue of those that stay cached.
LEMMA ToExpireIs ==
  ASSUME NEW x \in State, IsInjective(x.resend), IsInjective(x.expire), NEW n \in DOMAIN x.node, now \in Nat
  PROVE  LET y == ToExpire(x, n)
         IN  /\ y \in State /\ ExpireMoved(x, y, n) /\ y.asked = x.asked
             /\ y.node[n] = [x.node[n] EXCEPT !.expire = now + Expire]
<1>1. PICK u : u = Unqueue(x, n)
  OBVIOUS
<1>2. /\ u \in State /\ u.node = x.node /\ u.tree = x.tree /\ SameOthers(x, u)
      /\ u.resend = Without(x.resend, n) /\ u.expire = Without(x.expire, n) /\ u.asked = x.asked
  BY <1>1, UnqueueIs
<1>3. PICK rn : rn = [x.node[n] EXCEPT !.expire = now + Expire]
  OBVIOUS
<1>4. /\ rn \in NodeRecord /\ rn.waiting = x.node[n].waiting /\ rn.valid = x.node[n].valid
      /\ rn.query = x.node[n].query /\ rn.naddrs = x.node[n].naddrs /\ rn.name = x.node[n].name
      /\ rn.expire = now + Expire
  <2>1. x.node[n] \in NodeRecord /\ now + Expire \in Int
    BY StateIs, ResolverAssumption
  <2> QED BY <2>1, <1>3 DEF NodeRecord
<1>5. PICK v : v = [u EXCEPT !.node[n] = rn]
  OBVIOUS
<1>6. Wrote(u, v, n, rn)
  BY <1>2, <1>4, <1>5, WroteNode
<1>7. PICK q : q = <<n>> \o Without(x.expire, n)
  OBVIOUS
<1>8. q \in Seq(Nat)
  <2>1. Without(x.expire, n) \in Seq(Nat) /\ n \in Nat
    BY StateIs, WithoutIs
  <2> QED BY <2>1, <1>7
<1>9. PICK y : y = ToExpire(x, n)
  OBVIOUS
<1>10. y = [v EXCEPT !.expire = q]
  <2>1. y = [u EXCEPT !.expire = <<n>> \o @, !.node[n].expire = now + Expire]
    BY <1>1, <1>9 DEF ToExpire
  <2>2. y = [u EXCEPT !.expire = q, !.node[n] = rn]
    BY <2>1, <1>2, <1>3, <1>7 DEF State
  <2> QED BY <2>2, <1>2, <1>5 DEF State
<1>11. /\ y \in State /\ y.node = v.node /\ y.tree = v.tree /\ y.resend = v.resend /\ y.expire = q
       /\ SameOthers(v, y) /\ y.asked = v.asked
  BY <1>6, <1>8, <1>10 DEF State, SameOthers, Wrote
<1>12. /\ y.tree = x.tree /\ SameOthers(x, y) /\ y.resend = Without(x.resend, n) /\ y.asked = x.asked
  BY <1>2, <1>6, <1>11 DEF Wrote, SameQueues, SameOthers
<1>13. OneNode(x, y, n) /\ SameNode(x, y, n) /\ y.node[n] = rn
  BY <1>2, <1>4, <1>6, <1>11 DEF Wrote, OneNode, SameNode
<1> QED BY <1>3, <1>4, <1>7, <1>9, <1>11, <1>12, <1>13 DEF ExpireMoved

\* ngx_resolver_free_node gives the memory of the node back.
LEMMA FreeNodeIs ==
  ASSUME NEW x \in State, NEW n
  PROVE  LET y == FreeNode(x, n)
         IN  /\ y \in State /\ SameQueues(x, y) /\ SameOthers(x, y) /\ y.asked = x.asked
             /\ DOMAIN y.node = DOMAIN x.node \ {n}
             /\ \A k \in DOMAIN x.node \ {n} : y.node[k] = x.node[k]
<1>1. PICK f : f = [k \in DOMAIN x.node \ {n} |-> x.node[k]]
  OBVIOUS
<1>2. f \in NodeMap /\ DOMAIN f = DOMAIN x.node \ {n} /\ \A k \in DOMAIN x.node \ {n} : f[k] = x.node[k]
  BY <1>1, StateIs, NodeCut
<1>3. PICK y : y = FreeNode(x, n)
  OBVIOUS
<1>4. y = [x EXCEPT !.node = f]
  BY <1>1, <1>3 DEF FreeNode
<1>5. y \in State /\ y.node = f /\ SameQueues(x, y) /\ SameOthers(x, y) /\ y.asked = x.asked
  BY <1>2, <1>4 DEF State, SameQueues, SameOthers
<1> QED BY <1>2, <1>3, <1>5

\* A node has left its queue and the tree, and is freed.
Dropped(x, y, n) ==
  /\ y.tree = x.tree \ {n} /\ SameOthers(x, y) /\ y.asked = x.asked
  /\ ToSet(y.resend) = ToSet(x.resend) \ {n} /\ ToSet(y.expire) = ToSet(x.expire) \ {n}
  /\ DOMAIN y.node = DOMAIN x.node \ {n} /\ \A k \in DOMAIN x.node \ {n} : y.node[k] = x.node[k]

\* What is not used by a loop and has no list may be freed.
LEMMA DiscardGood ==
  ASSUME NEW H, NEW x, NEW n, Good(x, {n}, H), n \in x.tree, ~Held(x, n), x.node[n].waiting = <<>>
  PROVE  Good(Discard(x, n), {}, H) /\ Dropped(x, Discard(x, n), n)
<1>1. /\ x \in State /\ IsInjective(x.resend) /\ IsInjective(x.expire) /\ n \in DOMAIN x.node /\ n # NULL
      /\ x.resend \in Seq(Nat) /\ x.expire \in Seq(Nat)
  BY StateIs, ResolverAssumption DEF Good, Queues, Names
<1>2. PICK u : u = Unqueue(x, n)
  OBVIOUS
<1>3. /\ u \in State /\ u.node = x.node /\ u.tree = x.tree /\ SameOthers(x, u)
      /\ u.resend = Without(x.resend, n) /\ u.expire = Without(x.expire, n) /\ u.asked = x.asked
  BY <1>1, <1>2, UnqueueIs
<1>4. Good(u, {n}, H)
  BY <1>1, <1>3, Dequeue
<1>5. ToSet(u.resend) = ToSet(x.resend) \ {n} /\ ToSet(u.expire) = ToSet(x.expire) \ {n}
  BY <1>1, <1>3, WithoutIs
<1>6. PICK v : v = [u EXCEPT !.tree = @ \ {n}]
  OBVIOUS
<1>7. /\ v \in State /\ v.node = u.node /\ v.tree = u.tree \ {n} /\ v.resend = u.resend /\ v.expire = u.expire
      /\ SameOthers(u, v) /\ v.asked = u.asked
  BY <1>3, <1>6 DEF State, SameOthers
<1>8. Good(v, {n}, H)
  BY <1>3, <1>4, <1>5, <1>7, Uproot
<1>9. PICK y : y = FreeNode(v, n)
  OBVIOUS
<1>10. /\ y \in State /\ SameQueues(v, y) /\ SameOthers(v, y) /\ y.asked = v.asked
       /\ DOMAIN y.node = DOMAIN v.node \ {n} /\ \A k \in DOMAIN v.node \ {n} : y.node[k] = v.node[k]
  BY <1>7, <1>9, FreeNodeIs
<1>11. Good(y, {}, H)
  BY <1>7, <1>8, <1>10, Release
<1>12. Dropped(x, y, n)
  BY <1>3, <1>5, <1>7, <1>10 DEF Dropped, SameQueues, SameOthers
<1>13. y = Discard(x, n)
  BY <1>2, <1>6, <1>9 DEF Discard
<1> QED BY <1>11, <1>12, <1>13

\* A node that is in no queue to be sent again has no list.
LEMMA NoList ==
  ASSUME NEW H, NEW x, Good(x, {}, H), NEW n \in DOMAIN x.node, n \notin ToSet(x.resend)
  PROVE  x.node[n].waiting = <<>>
<1>1. x.node[n].waiting \in Seq(Ctx)
  BY StateIs DEF Good
<1>2. ToSet(x.node[n].waiting) = {}
  BY DEF Good, Lists
<1> QED BY <1>1, <1>2, ElementsAre

\* A round of ngx_resolver_expire frees a node that is in no use.
LEMMA ExpireOneGood ==
  ASSUME NEW H, NEW x, Good(x, {}, H)
  PROVE  LET y == ExpireOne(x)
         IN  Good(y, {}, H) /\ SameOthers(x, y) /\ y.asked = x.asked /\ ToSet(y.resend) = ToSet(x.resend)
<1>1. x \in State /\ x.expire \in Seq(Nat) /\ now \in Nat
  BY StateIs DEF Good
<1>2. CASE x.expire = <<>> \/ now <= x.node[Last(x.expire)].expire
  <2>1. ExpireOne(x) = x
    BY <1>2 DEF ExpireOne
  <2> QED BY <2>1 DEF SameOthers
<1>3. CASE ~(x.expire = <<>> \/ now <= x.node[Last(x.expire)].expire)
  <2>1. PICK n : n = Last(x.expire)
    OBVIOUS
  <2>2. n \in ToSet(x.expire)
    <3>1. PICK q : q = x.expire
      OBVIOUS
    <3>2. q \in Seq(Nat) /\ Len(q) > 0
      BY <3>1, <1>1, <1>3
    <3>3. Last(q) = q[Len(q)] /\ Len(q) \in 1..Len(q)
      BY <3>2, FrontIs
    <3>4. Last(q) \in ToSet(q)
      BY <3>2, <3>3, ElementsAre
    <3> QED BY <2>1, <3>1, <3>4
  <2>3. n \in x.tree /\ n \in DOMAIN x.node /\ n \notin ToSet(x.resend) /\ n # NULL
    BY <2>2, StateIs, ResolverAssumption DEF Good, Queues, Names
  <2>4. x.node[n].waiting = <<>>
    BY <2>3, NoList
  <2>5. ~Held(x, n)
    <3>1. x.node[n].expire \in Int /\ ~(now <= x.node[n].expire)
      BY <1>1, <1>3, <2>1, <2>3, StateIs
    <3> QED BY <3>1, <2>3, <1>1 DEF Good, Loops
  <2>6. Good(x, {n}, H)
    BY <2>3, TakeUp
  <2>7. Good(Discard(x, n), {}, H) /\ Dropped(x, Discard(x, n), n)
    BY <2>3, <2>4, <2>5, <2>6, DiscardGood
  <2>8. ExpireOne(x) = Discard(x, n)
    BY <1>3, <2>1 DEF ExpireOne
  <2> QED BY <2>3, <2>7, <2>8 DEF Dropped
<1> QED BY <1>2, <1>3

\* So does ngx_resolver_expire.
LEMMA ExpireGood ==
  ASSUME NEW H, NEW x, Good(x, {}, H)
  PROVE  LET y == ngx_resolver_expire(x)
         IN  Good(y, {}, H) /\ SameOthers(x, y) /\ y.asked = x.asked /\ ToSet(y.resend) = ToSet(x.resend)
<1>1. PICK u : u = ExpireOne(x)
  OBVIOUS
<1>2. Good(u, {}, H) /\ SameOthers(x, u) /\ u.asked = x.asked /\ ToSet(u.resend) = ToSet(x.resend)
  BY <1>1, ExpireOneGood
<1>3. PICK y : y = ExpireOne(u)
  OBVIOUS
<1>4. Good(y, {}, H) /\ SameOthers(u, y) /\ y.asked = u.asked /\ ToSet(y.resend) = ToSet(u.resend)
  BY <1>2, <1>3, ExpireOneGood
<1>5. y = ngx_resolver_expire(x)
  BY <1>1, <1>3 DEF ngx_resolver_expire
<1> QED BY <1>2, <1>4, <1>5 DEF SameOthers

-----------------------------------------------------------------------------
(* Contexts.                                                               *)

\* A context leaves the list of its node and is in hand.
LEMMA Leave ==
  ASSUME NEW W, NEW x, Good(x, W, {}), NEW n, NEW c \in Ctx, x.ctx[c].waits, x.ctx[c].node = n, NEW y \in State,
         SameQueues(x, y), SameOthers(x, y), OneNode(x, y, n),
         y.node[n].waiting = Without(x.node[n].waiting, c),
         y.node[n].valid = x.node[n].valid, y.node[n].expire = x.node[n].expire,
         y.node[n].query = x.node[n].query, y.node[n].naddrs = x.node[n].naddrs
  PROVE  Good(y, W, {c})
<1>1. x \in State /\ now \in Nat /\ now >= 1 /\ x.resend \in Seq(Nat)
      /\ x.tree \subseteq DOMAIN x.node /\ ToSet(x.resend) \subseteq x.tree /\ ToSet(x.expire) \subseteq x.tree
  BY StateIs DEF Good, Queues, Names
<1>2. /\ y.tree = x.tree /\ y.resend = x.resend /\ y.expire = x.expire
      /\ y.timer = x.timer /\ y.ctx = x.ctx /\ y.stack = x.stack /\ y.faults = x.faults
      /\ DOMAIN y.node = DOMAIN x.node /\ n \in DOMAIN x.node
  BY DEF SameQueues, SameOthers, OneNode
<1>3. /\ \A k \in DOMAIN x.node : k # n => y.node[k].waiting = x.node[k].waiting
      /\ \A k \in DOMAIN x.node : y.node[k].name = x.node[k].name
      /\ \A k \in DOMAIN x.node : y.node[k].valid = x.node[k].valid /\ y.node[k].expire = x.node[k].expire
  BY DEF OneNode
<1>4. \A k \in DOMAIN x.node : y.node[k].query = x.node[k].query /\ Outstanding(y.node[k]) = Outstanding(x.node[k])
  BY DEF OneNode, Outstanding
<1>5. Lists(x, W) /\ Waiters(x, {}) /\ Loops(x)
  BY DEF Good
<1>6. IsInjective(y.node[n].waiting) /\ ToSet(y.node[n].waiting) = ToSet(x.node[n].waiting) \ {c}
  <2>1. PICK q : q = x.node[n].waiting
    OBVIOUS
  <2>2. q \in Seq(Ctx) /\ IsInjective(q)
    BY <2>1, <1>1, <1>2, <1>5, StateIs DEF Lists
  <2>3. IsInjective(Without(q, c)) /\ ToSet(Without(q, c)) = ToSet(q) \ {c}
    BY <2>2, WithoutIs
  <2> QED BY <2>1, <2>3
<1>7. \A k \in DOMAIN x.node : ToSet(y.node[k].waiting) = ToSet(x.node[k].waiting) \ {c}
  <2>1. \A k \in DOMAIN x.node : k # n => c \notin ToSet(x.node[k].waiting)
    BY <1>5 DEF Lists
  <2> QED BY <2>1, <1>3, <1>6
<1>8. Names(y, W) /\ Queues(y, W)
  BY <1>1, <1>2, <1>3 DEF Good, Names, Queues
<1>9. Freed(y, W)
  BY <1>2 DEF Good, Freed, Freeing
<1>10. Lists(y, W)
  <2>1. \A k \in DOMAIN x.node : IsInjective(y.node[k].waiting)
    BY <1>3, <1>5, <1>6 DEF Lists
  <2>2. ASSUME NEW k \in DOMAIN x.node, NEW d \in ToSet(y.node[k].waiting)
        PROVE  x.ctx[d].waits /\ x.ctx[d].node = k /\ (k \in ToSet(x.resend) \/ k \in W)
    <3>1. d \in ToSet(x.node[k].waiting)
      BY <2>2, <1>7
    <3> QED BY <3>1, <1>5 DEF Lists
  <2> QED BY <2>1, <2>2, <1>2 DEF Lists
<1>11. Waiters(y, {c})
  <2> SUFFICES ASSUME NEW d \in Ctx, d # c, x.ctx[d].waits
               PROVE  IF x.ctx[d].node = NULL THEN x.faults > 0
                      ELSE x.ctx[d].node \in x.tree /\ d \in ToSet(y.node[x.ctx[d].node].waiting)
    BY <1>2 DEF Waiters
  <2>1. IF x.ctx[d].node = NULL THEN x.faults > 0
        ELSE x.ctx[d].node \in x.tree /\ d \in ToSet(x.node[x.ctx[d].node].waiting)
    BY <1>5 DEF Waiters
  <2> QED BY <2>1, <1>1, <1>7
<1>12. InHand(y, {c})
  <2>1. \A k \in DOMAIN y.node : c \notin ToSet(y.node[k].waiting)
    BY <1>2, <1>7
  <2>2. \A i \in DOMAIN x.stack : c \notin ToSet(x.stack[i].list)
    BY <1>5 DEF Loops
  <2> QED BY <2>1, <2>2, <1>2 DEF InHand
<1>13. Loops(y)
  <2>1. \A k : Held(y, k) <=> Held(x, k)
    BY <1>2 DEF Held
  <2>2. \A k \in ToSet(x.expire) : y.node[k].valid = x.node[k].valid /\ y.node[k].expire = x.node[k].expire
    BY <1>1, <1>3
  <2>3. \A k : Held(y, k) /\ k # NULL =>
          k \in ToSet(x.expire) /\ y.node[k].valid >= now /\ y.node[k].expire >= now
    BY <2>1, <2>2, <1>5 DEF Loops
  <2> QED BY <2>3, <1>2, <1>5 DEF Loops
<1>14. Clock(y, W)
  <2>1. Sorted(x.resend, y.node)
    <3>1. PICK f, g : f = x.node /\ g = y.node
      OBVIOUS
    <3>2. Sorted(x.resend, f) /\ \A k \in ToSet(x.resend) : g[k].expire = f[k].expire
      BY <3>1, <1>1, <1>3 DEF Good, Clock
    <3>3. Sorted(x.resend, g)
      BY <3>2, <1>1, SortedSame
    <3> QED BY <3>1, <3>3
  <2> QED BY <2>1, <1>1, <1>2, <1>3 DEF Good, Clock
<1>15. Asks(y, W)
  BY <1>1, <1>2, <1>4 DEF Good, Asks
<1> QED BY <1>1, <1>8, <1>9, <1>10, <1>11, <1>12, <1>13, <1>14, <1>15 DEF Good

\* NoCtx is a context, and a context may be written to.
LEMMA CtxSet ==
  ASSUME NEW x \in State, NEW c \in Ctx, NEW r \in CtxRecord
  PROVE  LET y == [x EXCEPT !.ctx[c] = r]
         IN  /\ y \in State /\ y.node = x.node /\ SameQueues(x, y) /\ y.timer = x.timer /\ y.stack = x.stack
             /\ y.faults = x.faults /\ y.asked = x.asked /\ y.ctx[c] = r
             /\ \A d \in Ctx : d # c => y.ctx[d] = x.ctx[d]
<1>1. PICK f : f = [x.ctx EXCEPT ![c] = r]
  OBVIOUS
<1>2. x.ctx \in [Ctx -> CtxRecord]
  BY StateIs
<1>3. f \in [Ctx -> CtxRecord] /\ f[c] = r /\ \A d \in Ctx : d # c => f[d] = x.ctx[d]
  BY <1>1, <1>2
<1>4. PICK y : y = [x EXCEPT !.ctx[c] = r]
  OBVIOUS
<1>5. y = [x EXCEPT !.ctx = f]
  BY <1>1, <1>4 DEF State
<1>6. /\ y \in State /\ y.node = x.node /\ SameQueues(x, y) /\ y.timer = x.timer /\ y.stack = x.stack
      /\ y.faults = x.faults /\ y.asked = x.asked /\ y.ctx = f
  BY <1>3, <1>5 DEF State, SameQueues
<1> QED BY <1>3, <1>4, <1>6

\* A context that is not in use waits for nothing.
LEMMA NoCtxIs == NoCtx \in CtxRecord /\ NoCtx.waits = FALSE
BY DEF NoCtx, CtxRecord

\* The context leaves its list, if it is in one.
LEMMA CancelledGood ==
  ASSUME NEW x, Good(x, {}, {}), NEW c \in Ctx
  PROVE  LET y == Cancelled(x, c)
         IN  /\ \E H \in {{}, {c}} : Good(y, {}, H) /\ (c \in H \/ ~y.ctx[c].waits)
             /\ SameOthers(x, y) /\ y.asked = x.asked /\ y.resend = x.resend
<1>1. x \in State /\ x.ctx[c] \in CtxRecord /\ x.tree \subseteq DOMAIN x.node
  BY StateIs DEF Good, Names
<1>2. CASE ~x.ctx[c].waits
  <2>1. Cancelled(x, c) = x
    BY <1>2 DEF Cancelled
  <2> QED BY <2>1, <1>2 DEF SameOthers
<1>3. CASE x.ctx[c].waits /\ x.ctx[c].node = NULL
  <2>1. Cancelled(x, c) = x
    BY <1>3 DEF Cancelled
  <2>2. InHand(x, {c})
    <3>1. \A n \in DOMAIN x.node : n # NULL
      BY <1>1, StateIs, ResolverAssumption
    <3> QED BY <3>1, <1>3 DEF Good, InHand, Lists, Loops
  <2>3. Waiters(x, {c})
    BY DEF Good, Waiters
  <2>4. Good(x, {}, {c})
    BY <2>2, <2>3 DEF Good
  <2> QED BY <2>1, <2>4 DEF SameOthers
<1>4. CASE x.ctx[c].waits /\ x.ctx[c].node # NULL
  <2>1. PICK n : n = x.ctx[c].node
    OBVIOUS
  <2>2. n \in DOMAIN x.node
    BY <2>1, <1>1, <1>4 DEF Good, Waiters
  <2>3. PICK rn : rn = [x.node[n] EXCEPT !.waiting = Without(@, c)]
    OBVIOUS
  <2>4. /\ rn \in NodeRecord /\ rn.waiting = Without(x.node[n].waiting, c) /\ rn.valid = x.node[n].valid
        /\ rn.expire = x.node[n].expire /\ rn.query = x.node[n].query /\ rn.naddrs = x.node[n].naddrs
        /\ rn.name = x.node[n].name
    <3>1. x.node[n] \in NodeRecord /\ x.node[n].waiting \in Seq(Ctx) /\ IsInjective(x.node[n].waiting)
      BY <1>1, <2>2, StateIs DEF Good, Lists
    <3>2. PICK q : q = x.node[n].waiting
      OBVIOUS
    <3>3. Without(q, c) \in Seq(Ctx)
      BY <3>1, <3>2, WithoutIs
    <3>4. rn = [x.node[n] EXCEPT !.waiting = Without(q, c)]
      BY <2>3, <3>2
    <3>5. rn.waiting = Without(q, c)
      BY <3>1, <3>4 DEF NodeRecord
    <3> QED BY <3>1, <3>2, <3>3, <3>4, <3>5 DEF NodeRecord
  <2>5. PICK y : y = [x EXCEPT !.node[n] = rn]
    OBVIOUS
  <2>6. Wrote(x, y, n, rn)
    BY <2>2, <2>4, <2>5, <1>1, WroteNode
  <2>7. Good(y, {}, {c})
    <3>1. OneNode(x, y, n) /\ y \in State /\ SameQueues(x, y) /\ SameOthers(x, y) /\ y.node[n] = rn
      BY <2>4, <2>6 DEF Wrote, OneNode
    <3> QED BY <3>1, <2>1, <2>4, <1>4, Leave
  <2>8. y = Cancelled(x, c)
    <3>1. Cancelled(x, c) = [x EXCEPT !.node[n].waiting = Without(@, c)]
      BY <2>1, <1>4 DEF Cancelled
    <3> QED BY <3>1, <2>3, <2>5
  <2> QED BY <2>6, <2>7, <2>8 DEF Wrote, SameQueues
<1> QED BY <1>2, <1>3, <1>4

\* The timer is dropped when nothing is to be sent again.
LEMMA DropTimerGood ==
  ASSUME NEW W, NEW H, NEW x, Good(x, W, H)
  PROVE  LET y == DropTimer(x)
         IN  /\ Good(y, W, H) /\ y.node = x.node /\ SameQueues(x, y)
             /\ y.ctx = x.ctx /\ y.stack = x.stack /\ y.faults = x.faults /\ y.asked = x.asked
<1>1. x \in State
  BY DEF Good
<1>2. CASE x.resend # <<>>
  <2>1. DropTimer(x) = x
    BY <1>2 DEF DropTimer
  <2> QED BY <2>1 DEF SameQueues
<1>3. CASE x.resend = <<>>
  <2>1. PICK y : y = DropTimer(x)
    OBVIOUS
  <2>2. y = [x EXCEPT !.timer = NULL]
    BY <2>1, <1>3 DEF DropTimer
  <2>3. /\ y \in State /\ y.node = x.node /\ SameQueues(x, y)
        /\ y.ctx = x.ctx /\ y.stack = x.stack /\ y.faults = x.faults /\ y.asked = x.asked
    BY <2>2, <1>1 DEF State, SameQueues
  <2>4. ToSet(x.resend) = {} /\ y.faults >= x.faults
    BY <1>3, <2>3, <1>1, StateIs DEF ToSet
  <2>5. Good(y, W, H)
    BY <2>3, <2>4, Sundry
  <2> QED BY <2>1, <2>3, <2>5
<1> QED BY <1>2, <1>3

\* ngx_resolve_name_done leaves nothing of the context behind.
LEMMA NameDoneGood ==
  ASSUME NEW x, Good(x, {}, {}), NEW c \in Ctx
  PROVE  LET y == ngx_resolve_name_done(x, c)
         IN  Good(y, {}, {}) /\ y.stack = x.stack
<1>1. PICK u : u = Cancelled(x, c)
  OBVIOUS
<1>2. PICK H \in {{}, {c}} : Good(u, {}, H) /\ (c \in H \/ ~u.ctx[c].waits) /\ u.stack = x.stack
  BY <1>1, CancelledGood DEF SameOthers
<1>3. PICK v : v = ngx_resolver_expire(u)
  OBVIOUS
<1>4. Good(v, {}, H) /\ v.ctx = u.ctx /\ v.stack = x.stack
  BY <1>2, <1>3, ExpireGood DEF SameOthers
<1>5. PICK w : w = [v EXCEPT !.ctx[c] = NoCtx]
  OBVIOUS
<1>6. /\ w \in State /\ w.node = v.node /\ SameQueues(v, w) /\ w.timer = v.timer /\ w.stack = v.stack
      /\ w.faults = v.faults /\ ~w.ctx[c].waits /\ \A d \in Ctx : d # c => w.ctx[d] = v.ctx[d]
  <2>1. v \in State
    BY <1>4 DEF Good
  <2>2. /\ w \in State /\ w.node = v.node /\ SameQueues(v, w) /\ w.timer = v.timer /\ w.stack = v.stack
        /\ w.faults = v.faults /\ w.ctx[c] = NoCtx /\ \A d \in Ctx : d # c => w.ctx[d] = v.ctx[d]
    BY <2>1, <1>5, CtxSet, NoCtxIs
  <2> QED BY <2>2, NoCtxIs
<1>7. Good(w, {}, H \ {c})
  BY <1>2, <1>4, <1>6, Forget
<1>8. Good(w, {}, {})
  <2>1. H \ {c} = {}
    OBVIOUS
  <2> QED BY <2>1, <1>7
<1>9. Good(DropTimer(w), {}, {}) /\ DropTimer(w).stack = x.stack
  BY <1>4, <1>6, <1>8, DropTimerGood
<1>10. ngx_resolve_name_done(x, c) = DropTimer(w)
  BY <1>1, <1>3, <1>5 DEF ngx_resolve_name_done
<1> QED BY <1>9, <1>10

\* A node written to twice has been written to.
LEMMA WroteTwice ==
  ASSUME NEW x, NEW u, NEW y, NEW n, NEW r, NEW rn, Wrote(x, u, n, r), Wrote(u, y, n, rn)
  PROVE  Wrote(x, y, n, rn)
BY DEF Wrote, SameQueues, SameOthers

\* rn->query = NULL leaves the rest of the node.
LEMMA DropQueryIs ==
  ASSUME NEW x \in State, NEW n \in DOMAIN x.node
  PROVE  \E rn \in NodeRecord :
           /\ Wrote(x, DropQuery(x, n), n, rn) /\ rn.query = 0 /\ rn.naddrs = x.node[n].naddrs
           /\ rn.waiting = x.node[n].waiting /\ rn.valid = x.node[n].valid /\ rn.expire = x.node[n].expire
           /\ rn.name = x.node[n].name
<1>1. x.node[n] \in NodeRecord
  BY StateIs
<1>2. PICK r1 : r1 = [x.node[n] EXCEPT !.query = 0]
  OBVIOUS
<1>3. PICK r2 : r2 = [r1 EXCEPT !.tcp = {}]
  OBVIOUS
<1>4. PICK r3 : r3 = [r2 EXCEPT !.code = FALSE]
  OBVIOUS
<1>5. r1 \in NodeRecord
  BY <1>1, <1>2 DEF NodeRecord
<1>6. r2 \in NodeRecord
  BY <1>3, <1>5 DEF NodeRecord
<1>7. r3 \in NodeRecord
  BY <1>4, <1>6 DEF NodeRecord
<1>8. /\ r3.query = 0 /\ r3.naddrs = x.node[n].naddrs /\ r3.waiting = x.node[n].waiting
      /\ r3.valid = x.node[n].valid /\ r3.expire = x.node[n].expire /\ r3.name = x.node[n].name
  BY <1>1, <1>2, <1>3, <1>4 DEF NodeRecord
<1>9. PICK u : u = [x EXCEPT !.node[n] = r1]
  OBVIOUS
<1>10. Wrote(x, u, n, r1)
  BY <1>5, <1>9, WroteNode
<1>11. PICK v : v = [u EXCEPT !.node[n] = r2]
  OBVIOUS
<1>12. Wrote(u, v, n, r2)
  BY <1>6, <1>10, <1>11, WroteNode DEF Wrote
<1>13. PICK y : y = [v EXCEPT !.node[n] = r3]
  OBVIOUS
<1>14. Wrote(v, y, n, r3)
  BY <1>7, <1>12, <1>13, WroteNode DEF Wrote
<1>15. Wrote(x, y, n, r3)
  BY <1>10, <1>12, <1>14, WroteTwice
<1>16. y = DropQuery(x, n)
  <2>1. u = [x EXCEPT !.node[n].query = 0]
    BY <1>2, <1>9
  <2>2. v = [u EXCEPT !.node[n].tcp = {}]
    BY <1>3, <1>10, <1>11 DEF Wrote
  <2>3. y = [v EXCEPT !.node[n].code = FALSE]
    BY <1>4, <1>12, <1>13 DEF Wrote
  <2> QED BY <2>1, <2>2, <2>3 DEF DropQuery
<1> QED BY <1>7, <1>8, <1>15, <1>16

\* rn->waiting = NULL leaves the rest of the node.
LEMMA TakeWaitingIs ==
  ASSUME NEW x \in State, NEW n \in DOMAIN x.node, NEW y, y = TakeWaiting(x, n)
  PROVE  /\ y \in State /\ SameQueues(x, y) /\ SameOthers(x, y) /\ OneNode(x, y, n) /\ y.asked = x.asked
         /\ y.node[n].waiting = <<>> /\ y.node[n].valid = x.node[n].valid /\ y.node[n].expire = x.node[n].expire
         /\ y.node[n].query = x.node[n].query /\ y.node[n].naddrs = x.node[n].naddrs
<1>1. x.node[n] \in NodeRecord
  BY StateIs
<1>2. PICK rn : rn = [x.node[n] EXCEPT !.waiting = <<>>]
  OBVIOUS
<1>3. /\ rn \in NodeRecord /\ rn.waiting = <<>> /\ rn.valid = x.node[n].valid /\ rn.expire = x.node[n].expire
      /\ rn.query = x.node[n].query /\ rn.naddrs = x.node[n].naddrs /\ rn.name = x.node[n].name
  <2>1. PICK e : e = <<>>
    OBVIOUS
  <2>2. e \in Seq(Ctx)
    BY <2>1
  <2>3. rn = [x.node[n] EXCEPT !.waiting = e]
    BY <2>1, <1>2
  <2>4. /\ rn \in NodeRecord /\ rn.waiting = e /\ rn.valid = x.node[n].valid /\ rn.expire = x.node[n].expire
        /\ rn.query = x.node[n].query /\ rn.naddrs = x.node[n].naddrs /\ rn.name = x.node[n].name
    BY <2>2, <2>3, <1>1 DEF NodeRecord
  <2> QED BY <2>1, <2>4
<1>4. y = [x EXCEPT !.node[n] = rn]
  BY <1>2 DEF TakeWaiting
<1>5. Wrote(x, y, n, rn)
  BY <1>1, <1>3, <1>4, WroteNode
<1> QED BY <1>3, <1>5 DEF Wrote, OneNode

\* Its contexts are in hand then.
LEMMA TakeWaitingGood ==
  ASSUME NEW W, NEW H, NEW x, Good(x, W, H), NEW n \in DOMAIN x.node
  PROVE  Good(TakeWaiting(x, n), W, H \cup ToSet(x.node[n].waiting))
<1>1. x \in State
  BY DEF Good
<1>2. PICK y : y = TakeWaiting(x, n)
  OBVIOUS
<1>3. /\ y \in State /\ SameQueues(x, y) /\ SameOthers(x, y) /\ OneNode(x, y, n)
      /\ y.node[n].waiting = <<>> /\ y.node[n].valid = x.node[n].valid /\ y.node[n].expire = x.node[n].expire
      /\ y.node[n].query = x.node[n].query /\ y.node[n].naddrs = x.node[n].naddrs
  BY <1>1, <1>2, TakeWaitingIs
<1>4. Good(y, W, H \cup ToSet(x.node[n].waiting))
  BY <1>3, TakeList
<1> QED BY <1>2, <1>4

\* A loop's node: it is freed after the loop, or it is in the cache as long as the
\* loop lasts, or there is none.
LoopNode(x, W, n, after) ==
  \/ after = "free" /\ W = {n} /\ n \notin x.tree /\ n \in Nat
  \/ after \in {"query", "nothing"} /\ W = {} /\ n \in ToSet(x.expire)
       /\ x.node[n].valid >= now /\ x.node[n].expire >= now
  \/ after = "nothing" /\ W = {} /\ n = NULL

\* A node of the cache has its query dropped.
LEMMA QueryDropped ==
  ASSUME NEW x, Good(x, {}, {}), NEW n \in ToSet(x.expire), NEW y, NEW rn, Wrote(x, y, n, rn), rn.query = 0,
         rn.waiting = x.node[n].waiting, rn.valid = x.node[n].valid, rn.expire = x.node[n].expire,
         rn.name = x.node[n].name
  PROVE  Good(y, {}, {})
<1>1. x \in State /\ n \in x.tree /\ n \in DOMAIN x.node /\ n \notin ToSet(x.resend)
  BY DEF Good, Queues, Names
<1>2. OneNode(x, y, n) /\ y \in State /\ SameQueues(x, y) /\ SameOthers(x, y) /\ y.node[n] = rn
  BY DEF Wrote, OneNode
<1>3. Good(x, {n}, {})
  BY <1>1, TakeUp
<1>4. Held(x, n) => x.node[n].valid >= now /\ x.node[n].expire >= now
  <2>1. n # NULL
    BY <1>1, StateIs, ResolverAssumption
  <2> QED BY <2>1 DEF Good, Loops
<1>5. Good(y, {n}, {})
  BY <1>1, <1>2, <1>3, <1>4, Touch
<1>6. y.node[n].waiting = <<>> /\ n \in ToSet(y.expire) /\ n \notin ToSet(y.resend)
  BY <1>1, <1>2, NoList DEF SameQueues
<1> QED BY <1>5, <1>6, Settle

\* What follows a loop.
LEMMA AfterwardsGood ==
  ASSUME NEW W, NEW x, Good(x, W, {}), NEW f, LoopNode(x, W, f.node, f.after)
  PROVE  Good(Afterwards(x, f), {}, {}) /\ Afterwards(x, f).stack = x.stack
<1>1. x \in State /\ ToSet(x.expire) \subseteq x.tree /\ x.tree \subseteq DOMAIN x.node
      /\ ToSet(x.resend) \cap ToSet(x.expire) = {}
  BY DEF Good, Queues, Names
<1>2. CASE f.after = "free"
  <2>1. W = {f.node} /\ f.node \notin x.tree
    BY <1>2 DEF LoopNode
  <2>2. PICK y : y = FreeNode(x, f.node)
    OBVIOUS
  <2>3. /\ y \in State /\ SameQueues(x, y) /\ SameOthers(x, y) /\ DOMAIN y.node = DOMAIN x.node \ {f.node}
        /\ \A k \in DOMAIN x.node \ {f.node} : y.node[k] = x.node[k]
    BY <2>2, <1>1, FreeNodeIs
  <2>4. Good(y, {}, {})
    BY <2>1, <2>3, Release
  <2>5. Afterwards(x, f) = y
    BY <2>2, <1>2 DEF Afterwards
  <2> QED BY <2>3, <2>4, <2>5 DEF SameOthers
<1>3. CASE f.after = "query"
  <2>1. W = {} /\ f.node \in ToSet(x.expire)
    BY <1>3 DEF LoopNode
  <2>2. PICK n : n = f.node
    OBVIOUS
  <2>3. n \in DOMAIN x.node /\ n \in ToSet(x.expire)
    BY <2>1, <2>2, <1>1
  <2>4. PICK y : y = DropQuery(x, n)
    OBVIOUS
  <2>5. PICK rn \in NodeRecord :
           /\ Wrote(x, y, n, rn) /\ rn.query = 0 /\ rn.naddrs = x.node[n].naddrs
           /\ rn.waiting = x.node[n].waiting /\ rn.valid = x.node[n].valid /\ rn.expire = x.node[n].expire
           /\ rn.name = x.node[n].name
    BY <2>3, <2>4, <1>1, DropQueryIs
  <2>6. Good(y, {}, {})
    BY <2>1, <2>3, <2>5, QueryDropped
  <2>7. Afterwards(x, f) = y
    BY <2>2, <2>4, <1>3 DEF Afterwards
  <2> QED BY <2>5, <2>6, <2>7 DEF Wrote, SameOthers
<1>4. CASE f.after = "nothing"
  <2>1. W = {}
    BY <1>4 DEF LoopNode
  <2>2. Afterwards(x, f) = x
    BY <1>4 DEF Afterwards
  <2> QED BY <2>1, <2>2
<1> QED BY <1>2, <1>3, <1>4 DEF LoopNode

\* The contexts are written to.
LEMMA CtxAll ==
  ASSUME NEW x \in State, NEW f \in [Ctx -> CtxRecord]
  PROVE  LET y == [x EXCEPT !.ctx = f]
         IN  /\ y \in State /\ y.node = x.node /\ SameQueues(x, y) /\ y.timer = x.timer /\ y.stack = x.stack
             /\ y.faults = x.faults /\ y.asked = x.asked /\ y.ctx = f
BY DEF State, SameQueues

\* A loop that calls the handlers of the contexts in hand.
LEMMA LoopGood ==
  ASSUME NEW W, NEW x, NEW list \in Seq(Ctx), Good(x, W, ToSet(list)), NEW n, NEW after, LoopNode(x, W, n, after)
  PROVE  Good(Loop(x, list, n, after), {}, {})
<1>1. x \in State /\ x.ctx \in [Ctx -> CtxRecord] /\ x.stack \in Seq(Frame)
      /\ ToSet(x.expire) \subseteq x.tree /\ x.tree \in SUBSET Nat
  BY StateIs DEF Good, Queues
<1>2. PICK f : f = [list |-> list, node |-> n, after |-> after,
                    asks |-> IF Len(x.stack) < MaxDepth - 1 THEN MaxAsks ELSE 0]
  OBVIOUS
<1>3. f \in Frame /\ f.list = list /\ f.node = n /\ f.after = after
  <2>1. n \in Nat \cup {NULL} /\ after \in {"free", "query", "nothing"}
    BY <1>1 DEF LoopNode
  <2>2. (IF Len(x.stack) < MaxDepth - 1 THEN MaxAsks ELSE 0) \in Nat
    BY ResolverAssumption
  <2> QED BY <2>1, <2>2, <1>2 DEF Frame
<1>4. PICK g : g = [c \in Ctx |-> IF c \in ToSet(list) THEN [x.ctx[c] EXCEPT !.waits = FALSE] ELSE x.ctx[c]]
  OBVIOUS
<1>5. /\ g \in [Ctx -> CtxRecord] /\ \A c \in Ctx : c \notin ToSet(list) => g[c] = x.ctx[c]
      /\ \A c \in Ctx : c \in ToSet(list) => ~g[c].waits
  <2>1. \A r \in CtxRecord : [r EXCEPT !.waits = FALSE] \in CtxRecord /\ [r EXCEPT !.waits = FALSE].waits = FALSE
    BY DEF CtxRecord
  <2> QED BY <2>1, <1>1, <1>4
<1>6. PICK u : u = [x EXCEPT !.ctx = g]
  OBVIOUS
<1>7. /\ u \in State /\ u.node = x.node /\ SameQueues(x, u) /\ u.timer = x.timer /\ u.stack = x.stack
      /\ u.faults = x.faults /\ u.ctx = g
  BY <1>1, <1>5, <1>6, CtxAll
<1>8. Loop(x, list, n, after) = IF list = <<>> THEN Afterwards(u, f) ELSE [u EXCEPT !.stack = <<f>> \o @]
  BY <1>2, <1>4, <1>6 DEF Loop
<1>9. CASE list = <<>>
  <2>1. ToSet(list) = {}
    BY <1>9, ElementsAre
  <2>2. Good(u, W, {})
    <3>1. Good(x, W, {}) /\ \A d \in Ctx \ {} : u.ctx[d] = x.ctx[d]
      BY <2>1, <1>5, <1>7
    <3> QED BY <3>1, <1>7, Handle
  <2>3. LoopNode(u, W, f.node, f.after)
    BY <1>3, <1>7 DEF LoopNode, SameQueues
  <2> QED BY <2>2, <2>3, <1>8, <1>9, AfterwardsGood
<1>10. CASE list # <<>>
  <2>1. PICK y : y = [u EXCEPT !.stack = <<f>> \o @]
    OBVIOUS
  <2>2. /\ y \in State /\ y.stack = <<f>> \o x.stack /\ y.node = u.node /\ SameQueues(u, y)
        /\ y.timer = u.timer /\ y.faults = u.faults /\ y.ctx = u.ctx
    <3>1. PICK q : q = <<f>> \o x.stack
      OBVIOUS
    <3>2. q \in Seq(Frame)
      BY <3>1, <1>1, <1>3, PushIs
    <3>3. y = [u EXCEPT !.stack = q]
      BY <2>1, <3>1, <1>7
    <3>4. /\ y \in State /\ y.stack = q /\ y.node = u.node /\ SameQueues(u, y)
          /\ y.timer = u.timer /\ y.faults = u.faults /\ y.ctx = u.ctx
      BY <3>2, <3>3, <1>7 DEF State, SameQueues
    <3> QED BY <3>1, <3>4
  <2>3. SameQueues(x, y) /\ y.node = x.node /\ y.timer = x.timer /\ y.faults = x.faults
    BY <2>2, <1>7 DEF SameQueues
  <2>4. (\A c \in ToSet(list) : ~y.ctx[c].waits) /\ \A c \in Ctx \ ToSet(list) : y.ctx[c] = x.ctx[c]
    <3>1. ToSet(list) \subseteq Ctx
      BY ElementsAre
    <3> QED BY <3>1, <2>2, <1>5, <1>7
  <2>5. \/ f.after = "free" /\ W = {f.node} /\ f.node \notin x.tree
        \/ f.after # "free" /\ W = {} /\ f.node \in ToSet(x.expire)
              /\ x.node[f.node].valid >= now /\ x.node[f.node].expire >= now
        \/ f.after = "nothing" /\ W = {} /\ f.node = NULL
    BY <1>3 DEF LoopNode
  <2>6. ToSet(f.list) = ToSet(list)
    BY <1>3
  <2>7. Good(y, {}, {})
    <3>1. PICK H : H = ToSet(list)
      OBVIOUS
    <3> QED BY <3>1, <2>2, <2>3, <2>4, <2>5, <2>6, <1>3, BeginLoop
  <2> QED BY <2>1, <2>7, <1>8, <1>10
<1> QED BY <1>9, <1>10

\* The contexts of a list wait for a node.
LEMMA WaitIs ==
  ASSUME NEW x \in State, NEW list \in Seq(Ctx), NEW n \in Nat, NEW y, y = Wait(x, list, n)
  PROVE  /\ y \in State /\ y.node = x.node /\ SameQueues(x, y) /\ y.timer = x.timer /\ y.stack = x.stack
         /\ y.faults = x.faults /\ y.asked = x.asked
         /\ \A c \in ToSet(list) : y.ctx[c].waits /\ y.ctx[c].node = n
         /\ \A c \in Ctx \ ToSet(list) : y.ctx[c] = x.ctx[c]
<1>1. x.ctx \in [Ctx -> CtxRecord] /\ ToSet(list) \subseteq Ctx
  BY StateIs, ElementsAre
<1>2. PICK g : g = [c \in Ctx |->
                      IF c \notin ToSet(list) THEN x.ctx[c]
                      ELSE [x.ctx[c] EXCEPT !.waits = TRUE, !.node = n,
                                            !.timer = @ \/ (c = list[1] /\ NeedsTimer(x, c))]]
  OBVIOUS
<1>3. \A r \in CtxRecord, b \in BOOLEAN :
        LET q == [r EXCEPT !.waits = TRUE, !.node = n, !.timer = b]
        IN  q \in CtxRecord /\ q.waits = TRUE /\ q.node = n
  BY DEF CtxRecord
<1>4. /\ g \in [Ctx -> CtxRecord] /\ \A c \in Ctx \ ToSet(list) : g[c] = x.ctx[c]
      /\ \A c \in ToSet(list) : g[c].waits /\ g[c].node = n
  <2>1. ASSUME NEW c \in Ctx, c \in ToSet(list) PROVE g[c] \in CtxRecord /\ g[c].waits /\ g[c].node = n
    <3>1. PICK b \in BOOLEAN : b = (x.ctx[c].timer \/ (c = list[1] /\ NeedsTimer(x, c)))
      OBVIOUS
    <3>2. PICK r \in CtxRecord : r = x.ctx[c]
      BY <1>1
    <3>3. g[c] = [r EXCEPT !.waits = TRUE, !.node = n, !.timer = b]
      BY <2>1, <3>1, <3>2, <1>2
    <3>4. PICK q : q = [r EXCEPT !.waits = TRUE, !.node = n, !.timer = b]
      OBVIOUS
    <3>5. q \in CtxRecord /\ q.waits = TRUE /\ q.node = n
      BY <3>4, <1>3
    <3> QED BY <3>3, <3>4, <3>5
  <2>2. \A c \in Ctx \ ToSet(list) : g[c] = x.ctx[c] /\ g[c] \in CtxRecord
    BY <1>1, <1>2
  <2>3. g = [c \in Ctx |-> g[c]]
    BY <1>2
  <2> QED BY <2>1, <2>2, <2>3, <1>1
<1>5. y = [x EXCEPT !.ctx = g]
  BY <1>2, Zenon DEF Wait
<1>6. /\ y \in State /\ y.node = x.node /\ SameQueues(x, y) /\ y.timer = x.timer /\ y.stack = x.stack
      /\ y.faults = x.faults /\ y.asked = x.asked /\ y.ctx = g
  BY <1>4, <1>5, CtxAll
<1> QED BY <1>4, <1>6

\* Contexts join those that wait for a node.
LEMMA JoinedGood ==
  ASSUME NEW W, NEW x, NEW list \in Seq(Ctx), IsInjective(list), Good(x, W, ToSet(list)),
         NEW n \in ToSet(x.resend)
  PROVE  Good(Joined(x, n, list), W, {})
<1>1. x \in State /\ n \in x.tree /\ n \in DOMAIN x.node /\ n \in Nat
  BY StateIs DEF Good, Queues, Names
<1>2. PICK u : u = Wait(x, list, n)
  OBVIOUS
<1>3. /\ u \in State /\ u.node = x.node /\ SameQueues(x, u) /\ u.timer = x.timer /\ u.stack = x.stack
      /\ u.faults = x.faults
      /\ \A c \in ToSet(list) : u.ctx[c].waits /\ u.ctx[c].node = n
      /\ \A c \in Ctx \ ToSet(list) : u.ctx[c] = x.ctx[c]
  BY <1>1, <1>2, WaitIs
<1>4. PICK q : q = list \o x.node[n].waiting
  OBVIOUS
<1>5. q \in Seq(Ctx) /\ x.node[n] \in NodeRecord
  <2>1. x.node[n].waiting \in Seq(Ctx) /\ x.node[n] \in NodeRecord
    BY <1>1, StateIs
  <2> QED BY <2>1, <1>4
<1>6. PICK rn : rn = [x.node[n] EXCEPT !.waiting = q]
  OBVIOUS
<1>7. /\ rn \in NodeRecord /\ rn.waiting = q /\ rn.valid = x.node[n].valid /\ rn.expire = x.node[n].expire
      /\ rn.query = x.node[n].query /\ rn.naddrs = x.node[n].naddrs /\ rn.name = x.node[n].name
  BY <1>5, <1>6 DEF NodeRecord
<1>8. PICK y : y = [u EXCEPT !.node[n] = rn]
  OBVIOUS
<1>9. Wrote(u, y, n, rn)
  BY <1>1, <1>3, <1>7, <1>8, WroteNode
<1>10. y = Joined(x, n, list)
  <2>1. Joined(x, n, list) = [u EXCEPT !.node[n].waiting = list \o @]
    BY <1>2 DEF Joined
  <2> QED BY <2>1, <1>3, <1>4, <1>6, <1>8
<1>11. /\ y \in State /\ SameQueues(x, y) /\ y.timer = x.timer /\ y.stack = x.stack /\ y.faults = x.faults
       /\ OneNode(x, y, n) /\ y.node[n] = rn /\ y.ctx = u.ctx
  BY <1>3, <1>7, <1>9 DEF Wrote, OneNode, SameQueues, SameOthers
<1>12. /\ y.node[n].waiting = list \o x.node[n].waiting
       /\ y.node[n].valid = x.node[n].valid /\ y.node[n].expire = x.node[n].expire
       /\ y.node[n].query = x.node[n].query /\ y.node[n].naddrs = x.node[n].naddrs
       /\ \A c \in ToSet(list) : y.ctx[c].waits /\ y.ctx[c].node = n
       /\ \A c \in Ctx \ ToSet(list) : y.ctx[c] = x.ctx[c]
  BY <1>3, <1>4, <1>7, <1>11
<1>13. Good(y, W, {})
  BY <1>1, <1>11, <1>12, JoinList
<1> QED BY <1>10, <1>13

\* The timer is set, and not too late for a node that is sent now.
LEMMA ArmGood ==
  ASSUME NEW W, NEW H, NEW x, Good(x, W, H)
  PROVE  LET y == Arm(x)
         IN  /\ Good(y, W, H) /\ y.timer # NULL /\ y.timer <= now + ResendTimeout
             /\ y.node = x.node /\ SameQueues(x, y) /\ y.ctx = x.ctx /\ y.stack = x.stack
             /\ y.faults = x.faults /\ y.asked = x.asked
<1>1. x \in State /\ now \in Nat /\ ResendTimeout \in Nat /\ NULL \notin Int /\ x.faults \in Nat
  BY ResolverAssumption, StateIs DEF Good
<1>2. CASE x.resend = <<>>
  <2>1. PICK y : y = Arm(x)
    OBVIOUS
  <2>2. y = [x EXCEPT !.timer = now + ResendTimeout]
    BY <2>1, <1>2 DEF Arm
  <2>3. /\ y \in State /\ y.node = x.node /\ SameQueues(x, y) /\ y.ctx = x.ctx /\ y.stack = x.stack
        /\ y.faults = x.faults /\ y.asked = x.asked /\ y.timer = now + ResendTimeout
    <3>1. PICK m \in Int : m = now + ResendTimeout
      BY <1>1
    <3>2. y = [x EXCEPT !.timer = m]
      BY <2>2, <3>1
    <3>3. /\ y \in State /\ y.node = x.node /\ SameQueues(x, y) /\ y.ctx = x.ctx /\ y.stack = x.stack
          /\ y.faults = x.faults /\ y.asked = x.asked /\ y.timer = m
      BY <3>2, <1>1 DEF State, SameQueues
    <3> QED BY <3>1, <3>3
  <2>4. ToSet(x.resend) = {} /\ y.faults >= x.faults
    BY <1>1, <1>2, <2>3 DEF ToSet
  <2>5. Good(y, W, H)
    BY <2>3, <2>4, Sundry
  <2>6. y.timer # NULL /\ y.timer <= now + ResendTimeout
    BY <2>3, <1>1
  <2> QED BY <2>1, <2>3, <2>5, <2>6
<1>3. CASE x.resend # <<>>
  <2>1. Arm(x) = x
    BY <1>3 DEF Arm
  <2>2. PICK n : n \in ToSet(x.resend)
    <3>1. x.resend \in Seq(Nat)
      BY <1>1, StateIs
    <3>2. ToSet(x.resend) # {}
      BY <3>1, <1>3, ElementsAre
    <3> QED BY <3>2
  <2>3. /\ x.timer # NULL /\ x.timer <= x.node[n].expire /\ x.node[n].expire <= now + ResendTimeout
        /\ x.timer \in Int \cup {NULL} /\ x.node[n].expire \in Int
    BY <1>1, <2>2, StateIs DEF Good, Clock, Queues, Names
  <2>4. x.timer <= now + ResendTimeout
    BY <2>3, <1>1
  <2> QED BY <2>1, <2>3, <2>4 DEF SameQueues
<1> QED BY <1>2, <1>3

\* The first element of a list.
LEMMA FirstOf ==
  ASSUME NEW S, NEW q \in Seq(S), q # <<>>
  PROVE  q[1] \in ToSet(q) /\ q[1] \in S
<1>1. Len(q) \in Nat /\ Len(q) # 0
  OBVIOUS
<1>2. 1 \in 1..Len(q)
  BY <1>1
<1> QED BY <1>2, ElementsAre

\* A node without a list that is in work, in the tree, and in no queue.
Ready(x, n) ==
  /\ n \in x.tree /\ ~Held(x, n) /\ n # NULL /\ x.node[n].waiting = <<>>
  /\ n \notin ToSet(x.resend) \cup ToSet(x.expire)

\* A node's record, made ready for a new query.
LEMMA NewQuery ==
  ASSUME NEW r \in NodeRecord, NEW q \in Nat, NEW naddrs \in [Type -> Int]
  PROVE  [r EXCEPT !.query = q, !.naddrs = naddrs, !.tcp = {}, !.code = FALSE, !.cname = NULL, !.valid = 0]
           \in NodeRecord
<1>1. PICK u : u = [r EXCEPT !.query = q, !.naddrs = naddrs]
  OBVIOUS
<1>2. u \in NodeRecord
  BY <1>1 DEF NodeRecord
<1>3. PICK v : v = [u EXCEPT !.tcp = {}, !.code = FALSE, !.cname = NULL]
  OBVIOUS
<1>4. v \in NodeRecord
  BY <1>2, <1>3 DEF NodeRecord
<1>5. PICK m \in Int : m = 0
  OBVIOUS
<1>6. PICK w : w = [v EXCEPT !.valid = m]
  OBVIOUS
<1>7. w \in NodeRecord
  BY <1>4, <1>6 DEF NodeRecord
<1> QED BY <1>1, <1>3, <1>5, <1>6, <1>7

\* A query has been sent: the contexts in hand wait for its node.
LEMMA AskingGood ==
  ASSUME NEW x, NEW list \in Seq(Ctx), IsInjective(list), NEW n, Good(x, {n}, ToSet(list)), Ready(x, n),
         Len(x.asked) \in Nat \ {0}
  PROVE  Good(Asking(x, n, list), {}, {})
<1>1. /\ x \in State /\ n \in x.tree /\ n \in DOMAIN x.node /\ n \in Nat /\ now \in Nat
      /\ IsInjective(x.resend) /\ IsInjective(x.expire)
  BY StateIs DEF Good, Queues, Names, Ready
<1>2. PICK a : a = Arm(x)
  OBVIOUS
<1>3. /\ Good(a, {n}, ToSet(list)) /\ a.timer # NULL /\ a.timer <= now + ResendTimeout
      /\ a.node = x.node /\ SameQueues(x, a) /\ a.ctx = x.ctx /\ a.stack = x.stack /\ a.faults = x.faults
  BY <1>2, ArmGood
<1>4. a \in State /\ IsInjective(a.resend) /\ IsInjective(a.expire) /\ n \in a.tree /\ n \in DOMAIN a.node /\ ~Held(a, n)
  BY <1>1, <1>3 DEF Good, SameQueues, Ready, Held
<1>5. PICK y : y = ToResend(a, n)
  OBVIOUS
<1>6. y \in State /\ ResendMoved(a, y, n)
  BY <1>1, <1>4, <1>5, ToResendIs
<1>7. Good(y, {n}, ToSet(list)) /\ n \in ToSet(y.resend)
  <2>1. n # NULL /\ n \in {n}
    BY DEF Ready
  <2>2. PICK W, H : W = {n} /\ H = ToSet(list)
    OBVIOUS
  <2> QED BY <2>1, <2>2, <1>3, <1>4, <1>6, MoveResend
<1>8. y.node[n].waiting = <<>> /\ n \in DOMAIN y.node /\ y.node[n] \in NodeRecord /\ n \in y.tree
      /\ y.stack = x.stack
  <2>1. y.node[n].waiting = <<>> /\ n \in DOMAIN y.node /\ n \in y.tree /\ y.stack = x.stack
    BY <1>1, <1>3, <1>4, <1>6 DEF ResendMoved, SameNode, OneNode, Ready, SameOthers
  <2> QED BY <2>1, <1>6, StateIs
<1>9. PICK naddrs : naddrs = [t \in Type |-> IF t = "A" \/ IPv6 THEN Unknown ELSE 0]
  OBVIOUS
<1>10. naddrs \in [Type -> Int] /\ naddrs["A"] = Unknown
  BY <1>9 DEF Type, Unknown
<1>11. PICK q \in Nat : q = Len(x.asked)
  OBVIOUS
<1>12. PICK e : e = <<>>
  OBVIOUS
<1>13. e \in Seq(Ctx)
  BY <1>12
<1>14. PICK r : r = [y.node[n] EXCEPT !.query = q, !.naddrs = naddrs, !.tcp = {}, !.code = FALSE,
                                      !.cname = NULL, !.valid = 0]
  OBVIOUS
<1>15. /\ r \in NodeRecord /\ r.query = q /\ r.naddrs = naddrs /\ r.valid = 0 /\ r.expire = y.node[n].expire
       /\ r.waiting = y.node[n].waiting /\ r.name = y.node[n].name
  <2>1. PICK r0 \in NodeRecord : r0 = y.node[n]
    BY <1>8
  <2>2. r = [r0 EXCEPT !.query = q, !.naddrs = naddrs, !.tcp = {}, !.code = FALSE, !.cname = NULL, !.valid = 0]
    BY <2>1, <1>14
  <2>3. r \in NodeRecord
    BY <2>2, <1>10, NewQuery
  <2>4. /\ r.query = q /\ r.naddrs = naddrs /\ r.valid = 0 /\ r.expire = r0.expire
        /\ r.waiting = r0.waiting /\ r.name = r0.name
    BY <2>2 DEF NodeRecord
  <2> QED BY <2>1, <2>3, <2>4
<1>16. PICK z0 : z0 = [y EXCEPT !.node[n] = r]
  OBVIOUS
<1>17. Wrote(y, z0, n, r)
  BY <1>6, <1>8, <1>15, <1>16, WroteNode
<1>18. Good(z0, {n}, ToSet(list))
  <2>1. OneNode(y, z0, n) /\ z0 \in State /\ SameQueues(y, z0) /\ SameOthers(y, z0) /\ z0.node[n] = r
    BY <1>15, <1>17 DEF Wrote, OneNode
  <2>2. n \notin ToSet(y.expire)
    BY <1>7 DEF Good, Queues
  <2>3. ~Held(y, n)
    BY <1>8 DEF Held, Ready
  <2>4. PICK W, H : W = {n} /\ H = ToSet(list)
    OBVIOUS
  <2>5. Good(y, W, H) /\ n \in W
    BY <2>4, <1>7
  <2>6. Good(z0, W, H)
    BY <2>1, <2>2, <2>3, <2>5, <1>15, Touch
  <2> QED BY <2>4, <2>6
<1>19. PICK rn : rn = [r EXCEPT !.waiting = list]
  OBVIOUS
<1>20. /\ rn \in NodeRecord /\ rn.query = q /\ rn.naddrs = naddrs /\ rn.valid = 0 /\ rn.expire = r.expire
       /\ rn.waiting = list /\ rn.name = r.name
  BY <1>15, <1>19 DEF NodeRecord
<1>21. PICK z : z = [y EXCEPT !.node[n] = rn]
  OBVIOUS
<1>22. Wrote(y, z, n, rn)
  BY <1>6, <1>8, <1>20, <1>21, WroteNode
<1>23. PICK w : w = Wait(z, list, n)
  OBVIOUS
<1>24. /\ w \in State /\ w.node = z.node /\ SameQueues(z, w) /\ w.timer = z.timer /\ w.stack = z.stack
       /\ w.faults = z.faults
       /\ \A c \in ToSet(list) : w.ctx[c].waits /\ w.ctx[c].node = n
       /\ \A c \in Ctx \ ToSet(list) : w.ctx[c] = z.ctx[c]
  <2>1. z \in State
    BY <1>22 DEF Wrote
  <2>2. n \in Nat
    BY <1>1
  <2>3. list \in Seq(Ctx)
    OBVIOUS
  <2> QED BY ONLY <2>1, <2>2, <2>3, <1>23, WaitIs
<1>25. w = Asking(x, n, list)
  <2>1. rn = [y.node[n] EXCEPT !.query = Len(x.asked),
                !.naddrs = [t \in Type |-> IF t = "A" \/ IPv6 THEN Unknown ELSE 0],
                !.tcp = {}, !.code = FALSE, !.cname = NULL, !.valid = 0, !.waiting = list]
    BY <1>8, <1>9, <1>11, <1>14, <1>19 DEF NodeRecord
  <2> QED BY <2>1, <1>2, <1>5, <1>21, <1>23 DEF Asking
<1>26. /\ SameQueues(z0, w) /\ w.timer = z0.timer /\ w.stack = z0.stack /\ w.faults = z0.faults
       /\ OneNode(z0, w, n) /\ z0.node[n] = r /\ w.node[n] = rn
       /\ \A c \in Ctx \ ToSet(list) : w.ctx[c] = z0.ctx[c]
  BY <1>17, <1>20, <1>22, <1>24 DEF Wrote, OneNode, SameQueues, SameOthers
<1>27. w.node[n].waiting = list \o z0.node[n].waiting
  <2>1. list \o <<>> = list
    OBVIOUS
  <2> QED BY <2>1, <1>8, <1>15, <1>20, <1>26
<1>28. n \in z0.tree /\ n \in ToSet(z0.resend)
  BY <1>7, <1>8, <1>17 DEF Wrote, SameQueues
<1>29. Good(w, {n}, {})
  <2>1. PICK W : W = {n}
    OBVIOUS
  <2>2. Good(z0, W, ToSet(list))
    BY <2>1, <1>18
  <2>3. /\ w.node[n].valid = z0.node[n].valid /\ w.node[n].expire = z0.node[n].expire
        /\ w.node[n].query = z0.node[n].query /\ w.node[n].naddrs = z0.node[n].naddrs
    BY <1>15, <1>20, <1>26
  <2>4. Good(w, W, {})
    BY <2>2, <2>3, <1>24, <1>26, <1>27, <1>28, JoinList
  <2> QED BY <2>1, <2>4
<1>30. Asked(w, n) /\ n \in ToSet(w.resend)
  <2>1. "A" \in Outstanding(w.node[n])
    BY <1>10, <1>20, <1>26 DEF Outstanding, Type
  <2>2. w.node[n].valid = 0 /\ w.node[n].query # 0
    BY <1>11, <1>20, <1>26
  <2>3. n \in ToSet(w.resend)
    BY <1>26, <1>28 DEF SameQueues
  <2> QED BY <2>1, <2>2, <2>3 DEF Asked
<1>31. Good(w, {}, {})
  BY <1>29, <1>30, Settle
<1> QED BY <1>25, <1>31

-----------------------------------------------------------------------------
(* ngx_resolve_name_locked.                                                *)

\* One more fault, and nothing else.
LEMMA FaultGood ==
  ASSUME NEW W, NEW H, NEW x, Good(x, W, H)
  PROVE  LET y == [x EXCEPT !.faults = @ + 1]
         IN  /\ Good(y, W, H) /\ y.faults > 0 /\ y.node = x.node /\ SameQueues(x, y)
             /\ y.ctx = x.ctx /\ y.stack = x.stack /\ y.timer = x.timer /\ y.asked = x.asked
<1>1. x \in State /\ x.faults \in Nat
  BY StateIs DEF Good
<1>2. PICK m \in Nat : m = x.faults + 1
  BY <1>1
<1>3. PICK y : y = [x EXCEPT !.faults = @ + 1]
  OBVIOUS
<1>4. y = [x EXCEPT !.faults = m]
  BY <1>2, <1>3
<1>5. /\ y \in State /\ y.faults = m /\ y.node = x.node /\ SameQueues(x, y)
      /\ y.ctx = x.ctx /\ y.stack = x.stack /\ y.timer = x.timer /\ y.asked = x.asked
  BY <1>1, <1>4 DEF State, SameQueues
<1>6. y.faults >= x.faults /\ y.faults > 0
  BY <1>1, <1>2, <1>5
<1>7. \A n \in ToSet(x.resend) : y.timer # NULL /\ y.timer <= x.node[n].expire
  BY <1>5 DEF Good, Clock
<1>8. Good(y, W, H)
  BY <1>5, <1>6, <1>7, Sundry
<1> QED BY <1>3, <1>5, <1>6, <1>8

\* One more query, and nothing else.
Queried(x, name) == [x EXCEPT !.asked = Append(@, name)]

\* Sending it leaves the rest as it was.
LEMMA AskedGood ==
  ASSUME NEW W, NEW H, NEW x, Good(x, W, H), NEW name \in Name \cup BadName \cup {NULL},
         NEW y, y = Queried(x, name)
  PROVE  /\ Good(y, W, H) /\ y.node = x.node /\ SameQueues(x, y) /\ SameOthers(x, y)
         /\ Len(y.asked) \in Nat \ {0}
<1>1. x \in State /\ x.asked \in Seq(Name \cup BadName \cup {NULL}) /\ x.faults \in Nat
  BY StateIs DEF Good, State
<1>2. PICK q : q = Append(x.asked, name)
  OBVIOUS
<1>3. q \in Seq(Name \cup BadName \cup {NULL}) /\ Len(q) \in Nat \ {0}
  <2>1. PICK S : S = Name \cup BadName \cup {NULL}
    OBVIOUS
  <2>2. x.asked \in Seq(S) /\ name \in S
    BY <2>1, <1>1
  <2>3. q \in Seq(S) /\ Len(q) = Len(x.asked) + 1 /\ Len(x.asked) \in Nat
    BY <2>2, <1>2
  <2> QED BY <2>1, <2>3
<1>4. y = [x EXCEPT !.asked = q]
  BY <1>2 DEF Queried
<1>5. y \in State /\ y.node = x.node /\ SameQueues(x, y) /\ SameOthers(x, y) /\ y.asked = q
  BY <1>1, <1>3, <1>4 DEF State, SameQueues, SameOthers
<1>6. Good(y, W, H)
  <2>1. y.faults >= x.faults /\ y.ctx = x.ctx /\ y.stack = x.stack
    BY <1>1, <1>5 DEF SameOthers
  <2>2. \A n \in ToSet(x.resend) : y.timer # NULL /\ y.timer <= x.node[n].expire
    BY <1>5 DEF Good, Clock, SameOthers
  <2> QED BY <2>1, <2>2, <1>5, Sundry
<1> QED BY <1>3, <1>5, <1>6

\* An outcome: the contexts in hand are called or wait, or nothing but a fault has
\* happened to them.
Outcome(o, x, H) ==
  \/ o.rc # "ERROR" /\ Good(o.s, {}, {})
  \/ /\ o.rc = "ERROR" /\ Good(o.s, {}, H) /\ o.s.faults > 0
     /\ \A c \in H : o.s.ctx[c].waits = x.ctx[c].waits /\ o.s.ctx[c].node = x.ctx[c].node

\* What fails in a good state is such an outcome.
LEMMA FailingGood ==
  ASSUME NEW H, NEW x, NEW u, NEW S, NEW o \in Failing(u, S),
         \A y \in S : /\ Good(y, {}, H)
                      /\ \A c \in H : y.ctx[c].waits = x.ctx[c].waits /\ y.ctx[c].node = x.ctx[c].node
  PROVE  Outcome(o, x, H)
<1>1. PICK z \in OnFault(u, S) : o = Result(z, "ERROR")
  BY DEF Failing
<1>2. PICK y \in S : z = [y EXCEPT !.faults = @ + 1]
  BY <1>1 DEF OnFault
<1>3. Good(z, {}, H) /\ z.faults > 0 /\ z.ctx = y.ctx
  BY <1>2, FaultGood
<1>4. o.s = z /\ o.rc = "ERROR"
  BY <1>1 DEF Result
<1> QED BY <1>2, <1>3, <1>4 DEF Outcome

\* A name is asked for.
LEMMA AskGood ==
  ASSUME NEW x, NEW list \in Seq(Ctx), IsInjective(list), NEW n, Good(x, {n}, ToSet(list)), Ready(x, n),
         NEW o \in Ask(x, n, list)
  PROVE  Outcome(o, x, ToSet(list))
<1>1. x \in State /\ n \in x.tree /\ n \in DOMAIN x.node /\ x.node[n].waiting = <<>> /\ ~Held(x, n)
  BY DEF Good, Names, Ready
<1>2. PICK name : name = x.node[n].name
  OBVIOUS
<1>3. name \in Name \cup BadName \cup {NULL}
  <2>1. x.node[n] \in NodeRecord
    BY <1>1, StateIs
  <2> QED BY <2>1, <1>2 DEF NodeRecord
<1>4. PICK out : out = Queried(x, name)
  OBVIOUS
<1>5. /\ Good(out, {n}, ToSet(list)) /\ out.node = x.node /\ SameQueues(x, out) /\ SameOthers(x, out)
      /\ Len(out.asked) \in Nat \ {0}
  <2>1. PICK W, H : W = {n} /\ H = ToSet(list)
    OBVIOUS
  <2>2. /\ Good(out, W, H) /\ out.node = x.node /\ SameQueues(x, out) /\ SameOthers(x, out)
        /\ Len(out.asked) \in Nat \ {0}
    <3>1. Good(x, W, H)
      BY <2>1
    <3> QED BY ONLY <3>1, <1>3, <1>4, AskedGood
  <2> QED BY <2>1, <2>2
<1>6. Ready(out, n)
  BY <1>5 DEF Ready, Held, SameQueues, SameOthers
<1>7. CASE name \in BadName
  <2>1. PICK d : d = Discard(x, n)
    OBVIOUS
  <2>2. Good(d, {}, ToSet(list))
    BY <2>1, <1>1, DiscardGood
  <2>3. LoopNode(d, {}, NULL, "nothing")
    BY DEF LoopNode
  <2>4. Good(Loop(d, list, NULL, "nothing"), {}, {})
    BY <2>2, <2>3, LoopGood
  <2>5. o = Result(Loop(d, list, NULL, "nothing"), "OK")
    BY <2>1, <1>2, <1>7 DEF Ask
  <2>6. o.s = Loop(d, list, NULL, "nothing") /\ o.rc = "OK"
    BY <2>5 DEF Result
  <2> QED BY <2>4, <2>6 DEF Outcome
<1>8. CASE name \notin BadName
  <2>1. PICK lost : lost = IF NeedsTimer(x, list[1]) THEN {x, out} ELSE {x}
    OBVIOUS
  <2>2. o \in {Result(Asking(out, n, list), "AGAIN")} \cup Failing(x, {Discard(y, n) : y \in lost})
    BY <2>1, <1>2, <1>4, <1>8 DEF Ask, Queried
  <2>3. CASE o = Result(Asking(out, n, list), "AGAIN")
    <3>1. Good(Asking(out, n, list), {}, {})
      BY <1>5, <1>6, AskingGood
    <3>2. o.s = Asking(out, n, list) /\ o.rc = "AGAIN"
      BY <2>3 DEF Result
    <3> QED BY <3>1, <3>2 DEF Outcome
  <2>4. CASE o \in Failing(x, {Discard(y, n) : y \in lost})
    <3>1. ASSUME NEW y \in lost
          PROVE  /\ Good(Discard(y, n), {}, ToSet(list))
                 /\ Discard(y, n).ctx = x.ctx
      <4>1. Good(y, {n}, ToSet(list)) /\ n \in y.tree /\ ~Held(y, n) /\ y.node[n].waiting = <<>> /\ y.ctx = x.ctx
        BY <2>1, <3>1, <1>1, <1>5, <1>6 DEF Ready, SameOthers
      <4> QED BY <4>1, DiscardGood DEF Dropped, SameOthers
    <3>2. PICK S, H : S = {Discard(y, n) : y \in lost} /\ H = ToSet(list)
      OBVIOUS
    <3>3. \A y \in S : /\ Good(y, {}, H)
                       /\ \A c \in H : y.ctx[c].waits = x.ctx[c].waits /\ y.ctx[c].node = x.ctx[c].node
      BY <3>1, <3>2
    <3>4. Outcome(o, x, H)
      BY <2>4, <3>2, <3>3, FailingGood
    <3> QED BY <3>2, <3>4
  <2> QED BY <2>2, <2>3, <2>4
<1> QED BY <1>7, <1>8

\* malloc finds room.
LEMMA NewAddressIs ==
  ASSUME NEW x \in State, IsFiniteSet(DOMAIN x.node)
  PROVE  NewAddress(x) \in Nat /\ NewAddress(x) \notin DOMAIN x.node
<1>1. PICK D : D = DOMAIN x.node
  OBVIOUS
<1>2. IsFiniteSet(D) /\ Cardinality(D) \in Nat
  BY <1>1, FS_CardinalityType
<1>3. PICK m : m = Cardinality(D) + 1
  OBVIOUS
<1>4. (1..m) \ D # {}
  <2> SUFFICES ASSUME (1..m) \in SUBSET D PROVE FALSE
    OBVIOUS
  <2>1. m \in Nat /\ m >= 1 /\ m > Cardinality(D)
    BY <1>2, <1>3
  <2>2. Cardinality(1..m) = m
    <3>1. Cardinality(1..m) = IF 1 > m THEN 0 ELSE m - 1 + 1
      BY <2>1, FS_Interval
    <3> QED BY <3>1, <2>1
  <2>3. Cardinality(1..m) <= Cardinality(D)
    BY <1>2, FS_Subset
  <2> QED BY <2>1, <2>2, <2>3, <1>2
<1>5. (1..m) \ D \in SUBSET Nat
  OBVIOUS
<1>6. Min((1..m) \ D) \in (1..m) \ D
  BY <1>4, <1>5, MinNat
<1>7. NewAddress(x) = Min((1..m) \ D)
  BY <1>1, <1>3 DEF NewAddress
<1> QED BY <1>1, <1>5, <1>6, <1>7

\* A node is made for a name that has none.
LEMMA CreatedGood ==
  ASSUME NEW H, NEW x, Good(x, {}, H), NEW name \in Name \cup BadName \cup {NULL}, Found(x, name) = {}
  PROVE  LET y == Created(x, name)
             n == NewAddress(x)
         IN  Good(y, {n}, H) /\ Ready(y, n) /\ y.ctx = x.ctx
<1>1. x \in State /\ IsFiniteSet(DOMAIN x.node) /\ x.tree \in SUBSET Nat /\ x.node \in NodeMap
      /\ x.tree \subseteq DOMAIN x.node
  BY StateIs DEF Good, Names
<1>2. PICK n : n = NewAddress(x)
  OBVIOUS
<1>3. n \in Nat /\ n \notin DOMAIN x.node
  BY <1>1, <1>2, NewAddressIs
<1>4. PICK a, e : a = [t \in Type |-> Unknown] /\ e = <<>>
  OBVIOUS
<1>5. a \in [Type -> Int] /\ e \in Seq(Ctx)
  BY <1>4 DEF Unknown
<1>6. PICK rn : rn = [name |-> name, query |-> 0, naddrs |-> a, tcp |-> {}, code |-> FALSE, cname |-> NULL,
                      valid |-> 0, expire |-> 0, waiting |-> e]
  OBVIOUS
<1>7. rn \in NodeRecord /\ rn.waiting = <<>> /\ rn.name = name
  <2>1. rn \in NodeRecord
    BY <1>5, <1>6 DEF NodeRecord
  <2>2. rn.waiting = e /\ rn.name = name
    BY <1>6
  <2> QED BY <2>1, <2>2, <1>4
<1>8. PICK f : f = [k \in DOMAIN x.node \cup {n} |-> IF k = n THEN rn ELSE x.node[k]]
  OBVIOUS
<1>9. /\ f \in NodeMap /\ DOMAIN f = DOMAIN x.node \cup {n}
      /\ \A k \in DOMAIN x.node \cup {n} : f[k] = IF k = n THEN rn ELSE x.node[k]
  <2>1. DOMAIN f = DOMAIN x.node \cup {n} /\ f = [k \in DOMAIN f |-> f[k]]
        /\ \A k \in DOMAIN x.node \cup {n} : f[k] = IF k = n THEN rn ELSE x.node[k]
    BY <1>8
  <2>2. rn \in NodeRecord /\ n \in Nat
    BY <1>3, <1>7
  <2>3. PICK h \in NodeMap : h = x.node
    BY <1>1
  <2>4. DOMAIN f = DOMAIN h \cup {n} /\ f = [k \in DOMAIN f |-> f[k]]
        /\ \A k \in DOMAIN f : f[k] = IF k = n THEN rn ELSE h[k]
    BY <2>1, <2>3
  <2>5. f \in NodeMap
    BY <2>2, <2>4, NodeAdd
  <2> QED BY <2>1, <2>5
<1>10. PICK y : y = Created(x, name)
  OBVIOUS
<1>11. y = [x EXCEPT !.tree = x.tree \cup {n}, !.node = f]
  BY <1>2, <1>4, <1>6, <1>8, <1>10 DEF Created
<1>12. /\ y \in State /\ y.node = f /\ y.tree = x.tree \cup {n} /\ y.resend = x.resend /\ y.expire = x.expire
       /\ SameOthers(x, y)
  <2>1. PICK T : T = x.tree \cup {n}
    OBVIOUS
  <2>2. T \in SUBSET Nat
    BY <2>1, <1>1, <1>3
  <2>3. y = [x EXCEPT !.tree = T, !.node = f]
    BY <2>1, <1>11
  <2>4. y \in State /\ y.node = f /\ y.tree = T /\ y.resend = x.resend /\ y.expire = x.expire /\ SameOthers(x, y)
    BY <2>2, <2>3, <1>1, <1>9 DEF State, SameOthers
  <2> QED BY <2>1, <2>4
<1>13. y.node[n] = rn /\ DOMAIN y.node = DOMAIN x.node \cup {n} /\ \A k \in DOMAIN x.node : y.node[k] = x.node[k]
  BY <1>3, <1>9, <1>12
<1>14. \A k \in x.tree : x.node[k].name # y.node[n].name
  BY <1>7, <1>13 DEF Found
<1>15. y.node[n].waiting = <<>>
  BY <1>7, <1>13
<1>16. Good(y, {n}, H) /\ ~Held(y, n) /\ n # NULL /\ n \notin ToSet(y.resend) \cup ToSet(y.expire)
  BY <1>3, <1>12, <1>13, <1>14, <1>15, Plant
<1>17. Ready(y, n)
  BY <1>12, <1>15, <1>16 DEF Ready
<1> QED BY <1>2, <1>10, <1>12, <1>16, <1>17 DEF SameOthers

\* ctx->recursion grows, and nothing else changes.
LEMMA RecursGood ==
  ASSUME NEW W, NEW H, NEW x, Good(x, W, H), NEW c \in H
  PROVE  LET y == Recurs(x, c)
         IN  /\ Good(y, W, H) /\ y.node = x.node /\ SameQueues(x, y)
             /\ \A d \in Ctx : y.ctx[d].waits = x.ctx[d].waits /\ y.ctx[d].node = x.ctx[d].node
<1>1. x \in State /\ c \in Ctx /\ x.ctx[c] \in CtxRecord
  BY StateIs DEF Good, InHand
<1>2. PICK r : r = [x.ctx[c] EXCEPT !.recursion = @ + 1]
  OBVIOUS
<1>3. r \in CtxRecord /\ r.waits = x.ctx[c].waits /\ r.node = x.ctx[c].node
  BY <1>1, <1>2 DEF CtxRecord
<1>4. PICK y : y = [x EXCEPT !.ctx[c] = r]
  OBVIOUS
<1>5. /\ y \in State /\ y.node = x.node /\ SameQueues(x, y) /\ y.timer = x.timer /\ y.stack = x.stack
      /\ y.faults = x.faults /\ y.ctx[c] = r /\ \A d \in Ctx : d # c => y.ctx[d] = x.ctx[d]
  BY <1>1, <1>3, <1>4, CtxSet
<1>6. Good(y, W, H)
  BY <1>5, Handle
<1>7. y = Recurs(x, c)
  BY <1>2, <1>4 DEF Recurs
<1> QED BY <1>3, <1>5, <1>6, <1>7

\* A name's node, in a state where no node is in work.
LEMMA NodeOfIs ==
  ASSUME NEW H, NEW x, Good(x, {}, H), NEW name, Found(x, name) # {}
  PROVE  LET n == NodeOf(x, name)
         IN  n \in x.tree /\ n \in DOMAIN x.node /\ n \in Nat /\ n # NULL
<1>1. NodeOf(x, name) \in Found(x, name)
  BY DEF NodeOf
<1> QED BY <1>1, StateIs, ResolverAssumption DEF Good, Names, Found

\* A cached name's node stays in the cache for longer.
LEMMA StaysCached ==
  ASSUME NEW H, NEW x, Good(x, {}, H), NEW n \in x.tree, x.node[n].valid >= now
  PROVE  LET y == ToExpire(x, n)
         IN  /\ Good(y, {}, H) /\ n \in ToSet(y.expire) /\ y.ctx = x.ctx /\ x.node[n].waiting = <<>>
             /\ n \in DOMAIN y.node /\ y.node[n].valid >= now /\ y.node[n].expire >= now /\ y.node[n].waiting = <<>>
<1>1. /\ x \in State /\ n \in DOMAIN x.node /\ now \in Nat /\ now >= 1 /\ x.node[n].valid \in Int
      /\ IsInjective(x.resend) /\ IsInjective(x.expire)
  BY StateIs DEF Good, Names, Queues
<1>2. n \notin ToSet(x.resend)
  BY <1>1 DEF Good, Clock
<1>3. n \in ToSet(x.expire)
  BY <1>2 DEF Good, Queues
<1>4. x.node[n].waiting = <<>>
  BY <1>1, <1>2, NoList
<1>5. x.node[n].query = 0 \/ Outstanding(x.node[n]) = {}
  BY <1>3 DEF Good, Asks
<1>6. PICK y : y = ToExpire(x, n)
  OBVIOUS
<1>7. y \in State /\ ExpireMoved(x, y, n)
  BY <1>1, <1>6, ToExpireIs
<1>8. Good(y, {}, H) /\ n \in ToSet(y.expire)
  BY <1>4, <1>5, <1>7, MoveExpire
<1>9. y.ctx = x.ctx /\ y.node[n].valid = x.node[n].valid /\ y.node[n].waiting = x.node[n].waiting
      /\ n \in DOMAIN y.node /\ y.node[n].expire = now + Expire
  BY <1>1, <1>7 DEF ExpireMoved, SameOthers, SameNode, OneNode
<1>10. y.node[n].expire >= now
  BY <1>1, <1>9, ResolverAssumption
<1> QED BY <1>4, <1>6, <1>8, <1>9, <1>10

\* What ngx_resolve_name_locked may be called with on the way from x, with the
\* contexts of H in hand.
Calls(x, H) ==
  {w \in [s : State, name : Name \cup BadName \cup {NULL}] :
     /\ Good(w.s, {}, H)
     /\ \A c \in H : w.s.ctx[c].waits = x.ctx[c].waits /\ w.s.ctx[c].node = x.ctx[c].node}

\* It calls itself so.
LEMMA HopGood ==
  ASSUME NEW x, NEW H, NEW w \in Calls(x, H), NEW c \in H
  PROVE  Hop(w, c) \in Calls(x, H)
<1>1. /\ Good(w.s, {}, H) /\ w.name \in Name \cup BadName \cup {NULL} /\ c \in Ctx /\ H \subseteq Ctx
      /\ \A d \in H : w.s.ctx[d].waits = x.ctx[d].waits /\ w.s.ctx[d].node = x.ctx[d].node
  BY DEF Calls, Good, InHand
<1>2. CASE ~(PointsOn(w.s, w.name) /\ w.s.ctx[c].recursion < MaxRecursion)
  <2>1. Hop(w, c) = w
    BY <1>2 DEF Hop
  <2> QED BY <2>1
<1>3. CASE PointsOn(w.s, w.name) /\ w.s.ctx[c].recursion < MaxRecursion
  <2>1. PICK u, n : u = w.s /\ n = NodeOf(w.s, w.name)
    OBVIOUS
  <2>2. Good(u, {}, H) /\ Found(u, w.name) # {} /\ u.node[n].valid >= now
    BY <2>1, <1>1, <1>3 DEF PointsOn, Cached
  <2>3. n \in u.tree /\ n \in DOMAIN u.node
    BY <2>1, <2>2, NodeOfIs
  <2>4. u.node[n].cname \in Name \cup BadName \cup {NULL}
    <3>1. u.node[n] \in NodeRecord
      BY <2>2, <2>3, StateIs DEF Good
    <3> QED BY <3>1 DEF NodeRecord
  <2>5. PICK y : y = ToExpire(u, n)
    OBVIOUS
  <2>6. Good(y, {}, H) /\ y.ctx = u.ctx
    BY <2>2, <2>3, <2>5, StaysCached
  <2>7. PICK z : z = Recurs(y, c)
    OBVIOUS
  <2>8. Good(z, {}, H) /\ \A d \in Ctx : z.ctx[d].waits = y.ctx[d].waits /\ z.ctx[d].node = y.ctx[d].node
    BY <2>6, <2>7, RecursGood
  <2>9. Hop(w, c) = [s |-> z, name |-> u.node[n].cname]
    BY <2>1, <2>5, <2>7, <1>3 DEF Hop
  <2>10. \A d \in H : z.ctx[d].waits = x.ctx[d].waits /\ z.ctx[d].node = x.ctx[d].node
    BY <2>1, <2>6, <2>8, <1>1
  <2>11. z \in State
    BY <2>8 DEF Good
  <2>12. PICK v : v = [s |-> z, name |-> u.node[n].cname]
    OBVIOUS
  <2>13. v.s = z /\ v \in [s : State, name : Name \cup BadName \cup {NULL}]
    BY <2>4, <2>11, <2>12
  <2>14. v \in Calls(x, H)
    BY <2>8, <2>10, <2>13 DEF Calls
  <2> QED BY <2>9, <2>12, <2>14
<1> QED BY <1>2, <1>3

\* The last of its calls is one of these.
LEMMA FollowedGood ==
  ASSUME NEW H, NEW x, Good(x, {}, H), NEW c \in H, NEW name \in Name \cup BadName \cup {NULL}
  PROVE  Followed(x, c, name) \in Calls(x, H)
<1> DEFINE M == MaxRecursion
           S == Calls(x, H)
           a == [s |-> x, name |-> name]
           F == [w \in S |-> Hop(w, c)]
           Is(w) == w = [k \in 0..M |-> IF k = 0 THEN a ELSE Hop(w[k - 1], c)]
<1>1. M \in Nat
  BY ResolverAssumption
<1>2. a \in S
  <2>1. x \in State
    BY DEF Good
  <2>2. PICK v : v = a
    OBVIOUS
  <2>3. v.s = x /\ v \in [s : State, name : Name \cup BadName \cup {NULL}]
    BY <2>1, <2>2
  <2>4. v \in Calls(x, H)
    BY <2>3 DEF Calls
  <2> QED BY <2>2, <2>4
<1>3. \A w \in S : Hop(w, c) \in S
  BY HopGood
<1> HIDE DEF M, S, a
<1>4. F \in [S -> S]
  BY <1>3
<1>5. PICK f : Iterated(f, M, a, F)
  <2> HIDE DEF F
  <2> QED BY <1>1, <1>2, <1>4, Iterates
<1>6. \A k \in 0..M : f[k] \in S
  <2> DEFINE G == {k \in 0..M : f[k] \in S}
  <2> HIDE DEF F
  <2>1. 0 \in G
    BY <1>1, <1>2, <1>5 DEF Iterated
  <2>2. ASSUME NEW k \in 0..M - 1, k \in G PROVE k + 1 \in G
    <3>1. k + 1 \in 0..M /\ k + 1 # 0 /\ (k + 1) - 1 = k
      BY <1>1
    <3>2. f[k + 1] = F[f[k]]
      BY <3>1, <1>5 DEF Iterated
    <3> QED BY <2>2, <3>1, <3>2, <1>4
  <2> HIDE DEF G
  <2>3. \A k \in 0..M : k \in G
    BY <2>1, <2>2, <1>1, Climb
  <2> QED BY <2>3 DEF G
<1>7. Is(f)
  <2>1. f = [k \in 0..M |-> IF k = 0 THEN a ELSE F[f[k - 1]]]
    BY <1>5 DEF Iterated
  <2>2. ASSUME NEW k \in 0..M PROVE (IF k = 0 THEN a ELSE F[f[k - 1]]) = IF k = 0 THEN a ELSE Hop(f[k - 1], c)
    <3>1. CASE k = 0
      BY <3>1
    <3>2. CASE k # 0
      <4>1. k - 1 \in 0..M
        BY <3>2, <1>1
      <4>2. f[k - 1] \in S
        BY <4>1, <1>6
      <4>3. F[f[k - 1]] = Hop(f[k - 1], c)
        BY <4>2
      <4> QED BY <3>2, <4>3
    <3> QED BY <3>1, <3>2
  <2> HIDE DEF F
  <2> QED BY <2>1, <2>2
<1>8. PICK w : Is(w) /\ Followed(x, c, name) = w[M]
  <2> DEFINE v == CHOOSE w : Is(w)
  <2>1. Is(v)
    BY <1>7
  <2>2. Followed(x, c, name) = v[M]
    BY DEF Followed, M, a
  <2> HIDE DEF v
  <2> QED BY <2>1, <2>2
<1>9. \A k \in 0..M : w[k] \in S
  <2> DEFINE G == {k \in 0..M : w[k] \in S}
  <2>1. 0 \in G
    BY <1>1, <1>2, <1>8
  <2>2. ASSUME NEW k \in 0..M - 1, k \in G PROVE k + 1 \in G
    <3>1. k + 1 \in 0..M /\ k + 1 # 0 /\ (k + 1) - 1 = k
      BY <1>1
    <3>2. w[k + 1] = Hop(w[k], c)
      BY <3>1, <1>8
    <3> QED BY <2>2, <3>1, <3>2, <1>3
  <2> HIDE DEF G
  <2>3. \A k \in 0..M : k \in G
    BY <2>1, <2>2, <1>1, Climb
  <2> QED BY <2>3 DEF G
<1>10. w[M] \in S
  BY <1>1, <1>9
<1> QED BY <1>8, <1>10 DEF S

\* What is done with the contexts in hand, once the name is found.
LEMMA LocatedGood ==
  ASSUME NEW x, NEW list \in Seq(Ctx), IsInjective(list), list # <<>>, Good(x, {}, ToSet(list)),
         NEW name \in Name \cup BadName \cup {NULL}, NEW o \in Located(x, list, name)
  PROVE  Outcome(o, x, ToSet(list))
<1> DEFINE H == ToSet(list)
           n == NodeOf(x, name)
           c == list[1]
<1>1. c \in H /\ x \in State /\ H \subseteq Ctx
  BY FirstOf DEF Good, InHand
<1>2. ASSUME NEW u, o \in Failing(u, {u}), Good(u, {}, H), u.ctx = x.ctx PROVE Outcome(o, x, H)
  <2>1. PICK S : S = {u}
    OBVIOUS
  <2>2. \A y \in S : /\ Good(y, {}, H)
                     /\ \A d \in H : y.ctx[d].waits = x.ctx[d].waits /\ y.ctx[d].node = x.ctx[d].node
    BY <2>1, <1>2
  <2> HIDE DEF H
  <2> QED BY <1>2, <2>1, <2>2, FailingGood
<1>3. CASE Found(x, name) = {}
  <2>1. PICK k, u : k = NewAddress(x) /\ u = Created(x, name)
    OBVIOUS
  <2>2. Good(u, {k}, H) /\ Ready(u, k) /\ u.ctx = x.ctx
    <3> HIDE DEF H
    <3>1. Good(x, {}, H)
      BY DEF H
    <3> QED BY <2>1, <3>1, <1>3, CreatedGood
  <2>3. o \in Ask(u, k, list) \/ o \in Failing(x, {x})
    BY <2>1, <1>3 DEF Located
  <2>4. CASE o \in Ask(u, k, list)
    <3>1. Outcome(o, u, H)
      BY <2>2, <2>4, AskGood
    <3> QED BY <3>1, <2>2 DEF Outcome
  <2>5. CASE o \in Failing(x, {x})
    BY <2>5, <1>2
  <2> QED BY <2>3, <2>4, <2>5
<1>4. ASSUME Found(x, name) # {} PROVE n \in x.tree /\ n \in DOMAIN x.node /\ n \in Nat /\ n # NULL
  BY <1>4, NodeOfIs
<1>5. CASE Found(x, name) # {} /\ Cached(x, name)
  <2>1. n \in x.tree /\ x.node[n].valid >= now /\ n \in DOMAIN x.node
    BY <1>4, <1>5 DEF Cached
  <2>2. PICK y : y = ToExpire(x, n)
    OBVIOUS
  <2>3. /\ Good(y, {}, H) /\ n \in ToSet(y.expire) /\ y.ctx = x.ctx /\ x.node[n].waiting = <<>>
        /\ n \in DOMAIN y.node /\ y.node[n].valid >= now /\ y.node[n].expire >= now /\ y.node[n].waiting = <<>>
    <3> HIDE DEF n, H
    <3>1. Good(x, {}, H)
      BY DEF H
    <3> QED BY <3>1, <2>1, <2>2, StaysCached
  <2>4. PICK z : z = IF Answered(x.node[n]) THEN y ELSE Recurs(y, c)
    OBVIOUS
  <2>5. Good(z, {}, H) /\ z.node = y.node /\ z.expire = y.expire
    <3>1. Good(Recurs(y, c), {}, H) /\ Recurs(y, c).node = y.node /\ Recurs(y, c).expire = y.expire
      <4> HIDE DEF c, H
      <4> QED BY <2>3, <1>1, RecursGood DEF SameQueues
    <3> QED BY <3>1, <2>3, <2>4
  <2>6. PICK t : t = TakeWaiting(z, n)
    OBVIOUS
  <2>7. /\ Good(t, {}, H \cup ToSet(z.node[n].waiting)) /\ SameQueues(z, t)
        /\ t.node[n].valid = z.node[n].valid /\ t.node[n].expire = z.node[n].expire
    <3> HIDE DEF n, H
    <3>1. n \in DOMAIN z.node
      BY <2>3, <2>5
    <3>2. PICK W, m : W = {} /\ m = n
      OBVIOUS
    <3>3. Good(z, W, H) /\ m \in DOMAIN z.node /\ t = TakeWaiting(z, m)
      BY <3>1, <3>2, <2>5, <2>6
    <3>4. Good(t, W, H \cup ToSet(z.node[m].waiting))
      BY <3>3, TakeWaitingGood
    <3>5. SameQueues(z, t) /\ t.node[m].valid = z.node[m].valid /\ t.node[m].expire = z.node[m].expire
      BY <3>3, TakeWaitingIs DEF Good
    <3> QED BY <3>2, <3>4, <3>5
  <2>8. Good(t, {}, H)
    <3>1. ToSet(z.node[n].waiting) = {}
      BY <2>3, <2>5 DEF ToSet
    <3> HIDE DEF n, H
    <3> QED BY <3>1, <2>7
  <2>9. LoopNode(t, {}, n, "nothing")
    <3> HIDE DEF n
    <3> QED BY <2>3, <2>5, <2>7 DEF LoopNode, SameQueues
  <2>10. Good(Loop(t, list, n, "nothing"), {}, {})
    <3> HIDE DEF n
    <3> QED BY <2>8, <2>9, LoopGood
  <2>11. \/ o = Result(Loop(t, list \o x.node[n].waiting, n, "nothing"), "OK")
         \/ o \in Failing(y, {y})
    BY <2>2, <2>4, <2>6, <1>5 DEF Located
  <2>12. list \o x.node[n].waiting = list
    <3>1. list \o <<>> = list
      OBVIOUS
    <3> QED BY <3>1, <2>3
  <2>13. CASE o \in Failing(y, {y})
    BY <2>3, <2>13, <1>2
  <2>14. CASE o = Result(Loop(t, list \o x.node[n].waiting, n, "nothing"), "OK")
    <3>1. o.s = Loop(t, list, n, "nothing") /\ o.rc = "OK"
      BY <2>12, <2>14 DEF Result
    <3> QED BY <3>1, <2>10 DEF Outcome
  <2> QED BY <2>11, <2>13, <2>14
<1>6. CASE Found(x, name) # {} /\ ~Cached(x, name) /\ x.node[n].waiting # <<>>
  <2>1. o = Result(Joined(x, n, list), "AGAIN") \/ o \in Failing(x, {x})
    BY <1>6 DEF Located
  <2>2. CASE o = Result(Joined(x, n, list), "AGAIN")
    <3>1. n \in ToSet(x.resend)
      <4> HIDE DEF n
      <4> QED BY <1>4, <1>6, NoList
    <3>2. Good(Joined(x, n, list), {}, {})
      <4> HIDE DEF n
      <4> QED BY <3>1, JoinedGood
    <3>3. o.s = Joined(x, n, list) /\ o.rc = "AGAIN"
      BY <2>2 DEF Result
    <3> QED BY <3>2, <3>3 DEF Outcome
  <2>3. CASE o \in Failing(x, {x})
    BY <2>3, <1>2
  <2> QED BY <2>1, <2>2, <2>3
<1>7. CASE Found(x, name) # {} /\ ~Cached(x, name) /\ x.node[n].waiting = <<>>
  <2>1. PICK u : u = Unqueue(x, n)
    OBVIOUS
  <2>2. o \in Ask(u, n, list)
    BY <2>1, <1>7 DEF Located
  <2> HIDE DEF n
  <2>3. n \in x.tree /\ n \in DOMAIN x.node /\ n # NULL
    BY <1>4, <1>7
  <2>4. IsInjective(x.resend) /\ IsInjective(x.expire) /\ x.resend \in Seq(Nat) /\ x.expire \in Seq(Nat) /\ now \in Nat
    BY <1>1, StateIs DEF Good, Queues
  <2>5. ~Held(x, n)
    <3>1. ~(x.node[n].valid >= now)
      BY <1>7 DEF Cached, n
    <3> QED BY <3>1, <2>3 DEF Good, Loops
  <2>6. /\ u \in State /\ u.node = x.node /\ u.tree = x.tree /\ SameOthers(x, u)
        /\ u.resend = Without(x.resend, n) /\ u.expire = Without(x.expire, n)
    BY <2>1, <2>4, <1>1, UnqueueIs
  <2>7. Good(x, {n}, H)
    BY <2>3, TakeUp
  <2>8. Good(u, {n}, H)
    <3> HIDE DEF H
    <3> QED BY <2>3, <2>5, <2>6, <2>7, Dequeue
  <2>9. n \notin ToSet(u.resend) \cup ToSet(u.expire)
    BY <2>4, <2>6, WithoutIs
  <2>10. Ready(u, n) /\ u.ctx = x.ctx
    BY <2>3, <2>5, <2>6, <2>9, <1>7 DEF Ready, Held, SameOthers
  <2>11. Outcome(o, u, H)
    BY <2>2, <2>8, <2>10, AskGood
  <2> QED BY <2>10, <2>11 DEF Outcome
<1> QED BY <1>3, <1>5, <1>6, <1>7

\* ngx_resolve_name_locked, with the contexts of the list in hand.
LEMMA NameLockedGood ==
  ASSUME NEW x, NEW list \in Seq(Ctx), IsInjective(list), list # <<>>, Good(x, {}, ToSet(list)),
         NEW name \in Name \cup BadName \cup {NULL}, NEW o \in ngx_resolve_name_locked(x, list, name)
  PROVE  Outcome(o, x, ToSet(list))
<1>1. list[1] \in ToSet(list)
  BY FirstOf
<1>2. PICK w : w = Followed(x, list[1], name)
  OBVIOUS
<1>3. w \in Calls(x, ToSet(list))
  <2>1. PICK H, c : H = ToSet(list) /\ c = list[1]
    OBVIOUS
  <2>2. Followed(x, c, name) \in Calls(x, H)
    BY <2>1, <1>1, FollowedGood
  <2> QED BY <2>1, <2>2, <1>2
<1>4. /\ Good(w.s, {}, ToSet(list)) /\ w.name \in Name \cup BadName \cup {NULL}
      /\ \A d \in ToSet(list) : w.s.ctx[d].waits = x.ctx[d].waits /\ w.s.ctx[d].node = x.ctx[d].node
  BY <1>3 DEF Calls
<1>5. o \in Located(w.s, list, w.name)
  BY <1>2 DEF ngx_resolve_name_locked
<1>6. Outcome(o, w.s, ToSet(list))
  BY <1>4, <1>5, LocatedGood
<1> QED BY <1>4, <1>6 DEF Outcome

-----------------------------------------------------------------------------
(* ngx_resolver_process_a.                                                 *)

\* A node that waits for an answer.
Pending(x, n) ==
  /\ n \in x.tree /\ n \in ToSet(x.resend) /\ ~Held(x, n)
  /\ x.node[n].query # 0 /\ x.node[n].valid = 0

\* The node is left to wait for another answer, or for its timer.
LEMMA StayGood ==
  ASSUME NEW x, NEW n, Good(x, {n}, {}), Pending(x, n), x.faults > 0 \/ Outstanding(x.node[n]) # {}
  PROVE  Good(x, {}, {})
<1>1. Asked(x, n) /\ n \in ToSet(x.resend)
  BY DEF Asked, Pending
<1> QED BY <1>1, Settle

\* A node that waits for an answer is written to; what it waits for, and for how
\* long, stays.
LEMMA WritePending ==
  ASSUME NEW x, NEW n, Good(x, {n}, {}), Pending(x, n), NEW y, NEW rn, Wrote(x, y, n, rn),
         rn.waiting = x.node[n].waiting, rn.expire = x.node[n].expire, rn.name = x.node[n].name,
         rn.query = x.node[n].query, rn.valid = x.node[n].valid
  PROVE  Good(y, {n}, {}) /\ Pending(y, n)
<1>1. OneNode(x, y, n) /\ y \in State /\ SameQueues(x, y) /\ SameOthers(x, y) /\ y.node[n] = rn
  BY DEF Wrote, OneNode
<1>2. n \notin ToSet(x.expire)
  BY DEF Good, Queues, Pending
<1>3. PICK W : W = {n}
  OBVIOUS
<1>4. Good(x, W, {}) /\ n \in W /\ ~Held(x, n)
  BY <1>3 DEF Pending
<1>5. Good(y, W, {})
  BY <1>1, <1>2, <1>4, Touch
<1>6. Pending(y, n)
  BY <1>1 DEF Pending, Held, SameQueues, SameOthers
<1> QED BY <1>3, <1>5, <1>6

\* The answer is too long for UDP.
LEMMA TruncatedGood ==
  ASSUME NEW x, NEW n, Good(x, {n}, {}), Pending(x, n), NEW t \in Outstanding(x.node[n]),
         NEW y \in Truncated(x, n, t)
  PROVE  Good(y, {}, {})
<1>1. x \in State /\ n \in x.tree /\ n \in DOMAIN x.node /\ ~Held(x, n) /\ n # NULL /\ now \in Nat
      /\ x.node[n] \in NodeRecord /\ t \in Type
  BY StateIs, ResolverAssumption DEF Good, Names, Pending, Outstanding
<1>2. CASE x.node[n].waiting = <<>>
  <2>1. y = Discard(x, n)
    BY <1>2 DEF Truncated
  <2> QED BY <2>1, <1>1, <1>2, DiscardGood
<1>3. CASE x.node[n].waiting # <<>>
  <2>1. PICK rn : rn = [x.node[n] EXCEPT !.tcp = @ \cup {t}]
    OBVIOUS
  <2>2. /\ rn \in NodeRecord /\ rn.waiting = x.node[n].waiting /\ rn.expire = x.node[n].expire
        /\ rn.query = x.node[n].query /\ rn.valid = x.node[n].valid /\ rn.naddrs = x.node[n].naddrs
        /\ rn.name = x.node[n].name
    BY <2>1, <1>1 DEF NodeRecord
  <2>3. PICK u : u = [x EXCEPT !.node[n] = rn]
    OBVIOUS
  <2>4. Wrote(x, u, n, rn)
    BY <2>2, <2>3, <1>1, WroteNode
  <2>5. Good(u, {n}, {}) /\ Pending(u, n)
    BY <2>2, <2>4, WritePending
  <2>6. y = ToResend(u, n)
    BY <2>1, <2>3, <1>3 DEF Truncated
  <2>7. u \in State /\ n \in u.tree /\ n \in DOMAIN u.node /\ IsInjective(u.resend) /\ IsInjective(u.expire) /\ ~Held(u, n)
    BY <2>5 DEF Good, Names, Queues, Pending
  <2>8. y \in State /\ ResendMoved(u, y, n)
    BY <2>6, <2>7, <1>1, ToResendIs
  <2>9. u.timer # NULL /\ u.timer <= now + ResendTimeout
    <3>1. /\ u.timer # NULL /\ u.timer <= u.node[n].expire /\ u.node[n].expire <= now + ResendTimeout
          /\ u.timer \in Int \cup {NULL} /\ u.node[n].expire \in Int /\ ResendTimeout \in Nat
      BY <2>5, <2>7, StateIs, ResolverAssumption DEF Good, Clock, Pending
    <3> QED BY <3>1, <1>1
  <2>10. Good(y, {n}, {}) /\ n \in ToSet(y.resend)
    <3>1. PICK W, H : W = {n} /\ H = {}
      OBVIOUS
    <3>2. Good(u, W, H) /\ n \in W
      BY <3>1, <2>5
    <3>3. Good(y, W, H) /\ n \in ToSet(y.resend)
      BY <3>2, <2>7, <2>8, <2>9, <1>1, MoveResend
    <3> QED BY <3>1, <3>3
  <2>11. Asked(y, n)
    <3>1. y.node[n].valid = 0 /\ y.node[n].query # 0 /\ y.node[n].naddrs = x.node[n].naddrs
      BY <2>2, <2>4, <2>5, <2>8 DEF ResendMoved, SameNode, Wrote, Pending
    <3>2. t \in Outstanding(y.node[n])
      BY <3>1 DEF Outstanding
    <3> QED BY <3>1, <3>2 DEF Asked
  <2> QED BY <2>10, <2>11, Settle
<1> QED BY <1>2, <1>3

\* All contexts that wait for the node get an error.
LEMMA FailedGood ==
  ASSUME NEW x, NEW n, Good(x, {n}, {}), Pending(x, n)
  PROVE  Good(Failed(x, n), {}, {})
<1>1. /\ x \in State /\ n \in x.tree /\ n \in DOMAIN x.node /\ ~Held(x, n) /\ n # NULL /\ n \in Nat
      /\ IsInjective(x.resend) /\ IsInjective(x.expire) /\ x.resend \in Seq(Nat) /\ x.expire \in Seq(Nat)
      /\ x.node[n].waiting \in Seq(Ctx)
  BY StateIs, ResolverAssumption DEF Good, Names, Queues, Pending
<1>2. PICK W, H, list : W = {n} /\ H = ToSet(x.node[n].waiting) /\ list = x.node[n].waiting
  OBVIOUS
<1>3. PICK u : u = Unqueue(x, n)
  OBVIOUS
<1>4. /\ u \in State /\ u.node = x.node /\ u.tree = x.tree /\ SameOthers(x, u)
      /\ u.resend = Without(x.resend, n) /\ u.expire = Without(x.expire, n)
  BY <1>1, <1>3, UnqueueIs
<1>5. Good(u, W, {}) /\ n \in W
  <2>1. Good(x, W, {}) /\ n \in W
    BY <1>2
  <2> QED BY <2>1, <1>1, <1>4, Dequeue
<1>6. n \notin ToSet(u.resend) \cup ToSet(u.expire)
  BY <1>1, <1>4, WithoutIs
<1>7. PICK v : v = TakeWaiting(u, n)
  OBVIOUS
<1>8. /\ v \in State /\ SameQueues(u, v) /\ SameOthers(u, v) /\ OneNode(u, v, n) /\ v.node[n].waiting = <<>>
  BY <1>1, <1>4, <1>7, TakeWaitingIs
<1>9. Good(v, W, H)
  <2>1. n \in DOMAIN u.node /\ u.node[n].waiting = list
    BY <1>1, <1>2, <1>4
  <2>2. Good(v, W, {} \cup ToSet(u.node[n].waiting))
    BY <2>1, <1>5, <1>7, TakeWaitingGood
  <2>3. {} \cup ToSet(u.node[n].waiting) = H
    BY <2>1, <1>2
  <2> QED BY <2>2, <2>3
<1>10. PICK w : w = [v EXCEPT !.tree = @ \ {n}]
  OBVIOUS
<1>11. /\ w \in State /\ w.node = v.node /\ w.tree = v.tree \ {n} /\ w.resend = v.resend /\ w.expire = v.expire
       /\ SameOthers(v, w)
  BY <1>8, <1>10 DEF State, SameOthers
<1>12. Good(w, W, H)
  <2>1. n \notin ToSet(v.resend) \cup ToSet(v.expire)
    BY <1>6, <1>8 DEF SameQueues
  <2> QED BY <2>1, <1>5, <1>8, <1>9, <1>11, Uproot
<1>13. LoopNode(w, W, n, "free")
  BY <1>1, <1>2, <1>11 DEF LoopNode
<1>14. Good(Loop(w, list, n, "free"), {}, {})
  <2>1. Good(w, W, ToSet(list)) /\ list \in Seq(Ctx)
    BY <1>1, <1>2, <1>12
  <2> QED BY <2>1, <1>13, LoopGood
<1>15. Failed(x, n) = Loop(w, list, n, "free")
  BY <1>2, <1>3, <1>7, <1>10 DEF Failed
<1> QED BY <1>14, <1>15

\* An answered node that is in work and in the cache, and is used by no loop yet.
InCache(x, n) ==
  /\ n \in x.tree /\ n \in ToSet(x.expire) /\ ~Held(x, n)
  /\ Outstanding(x.node[n]) = {} /\ x.node[n].expire >= now

\* An answered node goes to the cache.
LEMMA ToCache ==
  ASSUME NEW x, NEW n, Good(x, {n}, {}), Pending(x, n), Outstanding(x.node[n]) = {}, NEW y, y = ToExpire(x, n)
  PROVE  /\ Good(y, {n}, {}) /\ InCache(y, n) /\ y.ctx = x.ctx
         /\ y.node[n].waiting = x.node[n].waiting
<1>1. /\ x \in State /\ n \in x.tree /\ n \in DOMAIN x.node /\ now \in Nat
      /\ IsInjective(x.resend) /\ IsInjective(x.expire)
  BY DEF Good, Names, Queues, Pending
<1>2. y \in State /\ ExpireMoved(x, y, n)
  BY <1>1, ToExpireIs
<1>3. PICK W, H : W = {n} /\ H = {}
  OBVIOUS
<1>4. Good(x, W, H) /\ n \in W
  BY <1>3
<1>5. Good(y, W, H) /\ n \in ToSet(y.expire)
  BY <1>1, <1>2, <1>4, MoveExpire
<1>6. /\ y.ctx = x.ctx /\ y.stack = x.stack /\ y.tree = x.tree /\ y.node[n].expire = now + Expire
      /\ y.node[n].waiting = x.node[n].waiting /\ y.node[n].naddrs = x.node[n].naddrs
  BY <1>2 DEF ExpireMoved, SameOthers, SameNode
<1>7. Outstanding(y.node[n]) = {} /\ ~Held(y, n)
  BY <1>6 DEF Outstanding, Held, Pending
<1>8. y.node[n].expire >= now
  BY <1>1, <1>6, ResolverAssumption
<1> QED BY <1>1, <1>3, <1>5, <1>6, <1>7, <1>8 DEF InCache

\* A node in the cache is written to.
LEMMA WriteCached ==
  ASSUME NEW x, NEW n, Good(x, {n}, {}), InCache(x, n), NEW y, NEW rn, Wrote(x, y, n, rn),
         rn.waiting = x.node[n].waiting, rn.expire = x.node[n].expire, rn.name = x.node[n].name,
         rn.naddrs = x.node[n].naddrs
  PROVE  Good(y, {n}, {}) /\ InCache(y, n) /\ y.ctx = x.ctx /\ y.node[n] = rn
<1>1. OneNode(x, y, n) /\ y \in State /\ SameQueues(x, y) /\ SameOthers(x, y) /\ y.node[n] = rn
  BY DEF Wrote, OneNode
<1>2. Outstanding(rn) = {}
  BY DEF Outstanding, InCache
<1>3. PICK W : W = {n}
  OBVIOUS
<1>4. Good(x, W, {}) /\ n \in W /\ ~Held(x, n)
  BY <1>3 DEF InCache
<1>5. Good(y, W, {})
  BY <1>1, <1>2, <1>4, Touch
<1>6. InCache(y, n)
  BY <1>1, <1>2 DEF InCache, Held, SameQueues, SameOthers
<1> QED BY <1>1, <1>3, <1>5, <1>6 DEF SameOthers

\* Its list is taken; a loop may use the node now.
LEMMA Emptied ==
  ASSUME NEW x, NEW n, Good(x, {n}, {}), InCache(x, n), NEW y, y = TakeWaiting(x, n)
  PROVE  /\ Good(y, {}, ToSet(x.node[n].waiting)) /\ y.ctx = x.ctx
         /\ x.node[n].valid >= now => LoopNode(y, {}, n, "query")
<1>1. x \in State /\ n \in DOMAIN x.node
  BY DEF Good, Names
<1>2. /\ y \in State /\ SameQueues(x, y) /\ SameOthers(x, y) /\ OneNode(x, y, n) /\ y.node[n].waiting = <<>>
      /\ y.node[n].valid = x.node[n].valid /\ y.node[n].expire = x.node[n].expire
  BY <1>1, TakeWaitingIs
<1>3. PICK W, H : W = {n} /\ H = {}
  OBVIOUS
<1>4. Good(x, W, H)
  BY <1>3
<1>5. Good(y, W, H \cup ToSet(x.node[n].waiting))
  BY <1>1, <1>4, TakeWaitingGood
<1>6. Good(y, {n}, ToSet(x.node[n].waiting))
  <2>1. H \cup ToSet(x.node[n].waiting) = ToSet(x.node[n].waiting)
    BY <1>3
  <2> QED BY <2>1, <1>3, <1>5
<1>7. n \in ToSet(y.expire) /\ n \notin ToSet(y.resend)
  <2>1. n \in ToSet(x.expire) /\ n \notin ToSet(x.resend)
    BY DEF InCache, Good, Queues
  <2> QED BY <2>1, <1>2 DEF SameQueues
<1>8. Good(y, {}, ToSet(x.node[n].waiting))
  <2>1. PICK G : G = ToSet(x.node[n].waiting)
    OBVIOUS
  <2>2. Good(y, {n}, G)
    BY <2>1, <1>6
  <2>3. Good(y, {}, G)
    BY <2>2, <1>2, <1>7, Settle
  <2> QED BY <2>1, <2>3
<1>9. x.node[n].valid >= now => LoopNode(y, {}, n, "query")
  BY <1>2, <1>7 DEF LoopNode, InCache
<1> QED BY <1>2, <1>8, <1>9 DEF SameOthers

\* The node has its addresses: they are given to the contexts.
LEMMA ExportedGood ==
  ASSUME NEW x, NEW n, Good(x, {n}, {}), Pending(x, n), Outstanding(x.node[n]) = {}, NEW y \in Exported(x, n)
  PROVE  Good(y, {}, {})
<1>1. PICK u : u = ToExpire(x, n)
  OBVIOUS
<1>2. Good(u, {n}, {}) /\ InCache(u, n)
  BY <1>1, ToCache
<1>3. u \in State /\ n \in DOMAIN u.node /\ u.node[n] \in NodeRecord /\ now \in Nat /\ Valid \in Nat
  BY <1>2, StateIs, ResolverAssumption DEF Good, Names
<1>4. PICK m \in Int : m = now + Valid /\ m >= now
  BY <1>3
<1>5. PICK rn : rn = [u.node[n] EXCEPT !.valid = m]
  OBVIOUS
<1>6. /\ rn \in NodeRecord /\ rn.valid = m /\ rn.waiting = u.node[n].waiting /\ rn.expire = u.node[n].expire
      /\ rn.name = u.node[n].name /\ rn.naddrs = u.node[n].naddrs
  BY <1>3, <1>5 DEF NodeRecord
<1>7. PICK v : v = [u EXCEPT !.node[n] = rn]
  OBVIOUS
<1>8. Wrote(u, v, n, rn)
  BY <1>3, <1>6, <1>7, WroteNode
<1>9. Good(v, {n}, {}) /\ InCache(v, n) /\ v.node[n] = rn
  BY <1>2, <1>6, <1>8, WriteCached
<1>10. PICK w, list : w = TakeWaiting(v, n) /\ list = v.node[n].waiting
  OBVIOUS
<1>11. Good(w, {}, ToSet(list)) /\ LoopNode(w, {}, n, "query")
  BY <1>4, <1>6, <1>9, <1>10, Emptied
<1>12. list \in Seq(Ctx)
  BY <1>9, <1>10, StateIs DEF Good, Names
<1>13. Good(Loop(w, list, n, "query"), {}, {})
  BY <1>11, <1>12, LoopGood
<1>14. v = [ToExpire(x, n) EXCEPT !.node[n].valid = now + Valid]
  BY <1>1, <1>4, <1>5, <1>7
<1>15. y = Loop(w, list, n, "query") \/ y \in OnFault(x, {x})
  BY <1>10, <1>14 DEF Exported
<1>16. CASE y \in OnFault(x, {x})
  <2>1. y = [x EXCEPT !.faults = @ + 1]
    BY <1>16 DEF OnFault
  <2>2. PICK W : W = {n}
    OBVIOUS
  <2>3. /\ Good(y, W, {}) /\ y.faults > 0 /\ y.node = x.node /\ SameQueues(x, y) /\ y.stack = x.stack
    BY <2>1, <2>2, FaultGood
  <2>4. Pending(y, n)
    BY <2>3 DEF Pending, SameQueues, Held
  <2> QED BY <2>2, <2>3, <2>4, StayGood
<1> QED BY <1>13, <1>15, <1>16

\* next->node = NULL, for contexts in hand.
LEMMA DetachedGood ==
  ASSUME NEW x, NEW list \in Seq(Ctx), Good(x, {}, ToSet(list)), NEW y, y = Detached(x, list)
  PROVE  Good(y, {}, ToSet(list)) /\ \A c \in ToSet(list) : y.ctx[c].node = NULL
<1>1. x \in State /\ x.ctx \in [Ctx -> CtxRecord] /\ ToSet(list) \subseteq Ctx
  BY StateIs, ElementsAre DEF Good
<1>2. PICK g : g = [c \in Ctx |-> IF c \in ToSet(list) THEN [x.ctx[c] EXCEPT !.node = NULL] ELSE x.ctx[c]]
  OBVIOUS
<1>3. /\ g \in [Ctx -> CtxRecord] /\ \A c \in Ctx \ ToSet(list) : g[c] = x.ctx[c]
      /\ \A c \in ToSet(list) : g[c].node = NULL
  <2>1. \A r \in CtxRecord : [r EXCEPT !.node = NULL] \in CtxRecord /\ [r EXCEPT !.node = NULL].node = NULL
    BY DEF CtxRecord
  <2> QED BY <2>1, <1>1, <1>2
<1>4. y = [x EXCEPT !.ctx = g]
  BY <1>2 DEF Detached
<1>5. /\ y \in State /\ y.node = x.node /\ SameQueues(x, y) /\ y.timer = x.timer /\ y.stack = x.stack
      /\ y.faults = x.faults /\ y.ctx = g
  BY <1>1, <1>3, <1>4, CtxAll
<1>6. Good(y, {}, ToSet(list))
  <2>1. PICK W, H : W = {} /\ H = ToSet(list)
    OBVIOUS
  <2>2. Good(x, W, H) /\ \A d \in Ctx \ H : y.ctx[d] = x.ctx[d]
    BY <2>1, <1>3, <1>5
  <2>3. Good(y, W, H)
    BY <2>2, <1>5, Handle
  <2> QED BY <2>1, <2>3
<1> QED BY <1>3, <1>5, <1>6

\* The node turns out to be an alias.
LEMMA AliasedGood ==
  ASSUME NEW x, NEW n, Good(x, {n}, {}), Pending(x, n), Outstanding(x.node[n]) = {},
         NEW cname \in Name \cup BadName, NEW y \in Aliased(x, n, cname)
  PROVE  Good(y, {}, {})
<1>1. PICK u : u = ToExpire(x, n)
  OBVIOUS
<1>2. Good(u, {n}, {}) /\ InCache(u, n) /\ u.node[n].waiting = x.node[n].waiting
  BY <1>1, ToCache
<1>3. u \in State /\ n \in DOMAIN u.node /\ u.node[n] \in NodeRecord /\ now \in Nat /\ Valid \in Nat
  BY <1>2, StateIs, ResolverAssumption DEF Good, Names
<1>4. PICK m \in Int : m = now + Valid
  BY <1>3
<1>5. PICK rn : rn = [u.node[n] EXCEPT !.cname = cname, !.valid = m]
  OBVIOUS
<1>6. /\ rn \in NodeRecord /\ rn.waiting = u.node[n].waiting /\ rn.expire = u.node[n].expire
      /\ rn.name = u.node[n].name /\ rn.naddrs = u.node[n].naddrs
  BY <1>3, <1>5 DEF NodeRecord
<1>7. PICK v : v = [u EXCEPT !.node[n] = rn]
  OBVIOUS
<1>8. Wrote(u, v, n, rn)
  BY <1>3, <1>6, <1>7, WroteNode
<1>9. Good(v, {n}, {}) /\ InCache(v, n) /\ v.node[n] = rn
  BY <1>2, <1>6, <1>8, WriteCached
<1>10. PICK d : d = DropQuery(v, n)
  OBVIOUS
<1>11. Good(d, {n}, {}) /\ InCache(d, n) /\ d.node[n].waiting = x.node[n].waiting
  <2>1. v \in State /\ n \in DOMAIN v.node
    BY <1>9 DEF Good, Names
  <2>2. PICK r \in NodeRecord :
           /\ Wrote(v, d, n, r) /\ r.naddrs = v.node[n].naddrs
           /\ r.waiting = v.node[n].waiting /\ r.expire = v.node[n].expire /\ r.name = v.node[n].name
    BY <2>1, <1>10, DropQueryIs
  <2>3. Good(d, {n}, {}) /\ InCache(d, n) /\ d.node[n] = r
    BY <2>2, <1>9, WriteCached
  <2> QED BY <2>2, <2>3, <1>2, <1>6, <1>9
<1>12. PICK w, list : w = TakeWaiting(d, n) /\ list = x.node[n].waiting
  OBVIOUS
<1>13. Good(w, {}, ToSet(list))
  BY <1>11, <1>12, Emptied
<1>14. list \in Seq(Ctx) /\ IsInjective(list)
  BY <1>12, StateIs DEF Good, Names, Lists
<1>15. w = TakeWaiting(DropQuery([ToExpire(x, n) EXCEPT !.node[n].cname = cname,
                                                        !.node[n].valid = now + Valid], n), n)
  <2>1. v = [u EXCEPT !.node[n].cname = cname, !.node[n].valid = m]
    <3>1. PICK r1 : r1 = [u.node[n] EXCEPT !.cname = cname]
      OBVIOUS
    <3>2. PICK v1 : v1 = [u EXCEPT !.node[n] = r1]
      OBVIOUS
    <3>3. r1 \in NodeRecord
      BY <3>1, <1>3 DEF NodeRecord
    <3>4. Wrote(u, v1, n, r1)
      BY <3>2, <3>3, <1>3, WroteNode
    <3>5. v1 = [u EXCEPT !.node[n].cname = cname]
      BY <3>1, <3>2
    <3>6. rn = [r1 EXCEPT !.valid = m]
      BY <3>1, <1>3, <1>5 DEF NodeRecord
    <3>7. [v1 EXCEPT !.node[n].valid = m] = [v1 EXCEPT !.node[n] = rn]
      BY <3>4, <3>6 DEF Wrote
    <3>8. [v1 EXCEPT !.node[n] = rn] = v
      <4>1. u.node = [k \in DOMAIN u.node |-> u.node[k]]
        BY <1>3, StateIs, NodeMapIs
      <4>2. [[u.node EXCEPT ![n] = r1] EXCEPT ![n] = rn] = [u.node EXCEPT ![n] = rn]
        BY <4>1
      <4> QED BY <3>2, <4>2, <1>3, <1>7 DEF State
    <3> QED BY <3>5, <3>7, <3>8
  <2> QED BY <2>1, <1>1, <1>4, <1>10, <1>12
<1>16. CASE list = <<>>
  <2>1. y = w
    BY <1>12, <1>15, <1>16 DEF Aliased
  <2>2. ToSet(list) = {}
    BY <1>14, <1>16, ElementsAre
  <2> QED BY <2>1, <2>2, <1>13
<1>17. ASSUME list # <<>> PROVE list[1] \in ToSet(list)
  BY <1>14, <1>17, FirstOf
<1>18. PICK z : z = Recurs(w, list[1])
  OBVIOUS
<1>19. ASSUME list # <<>> PROVE Good(z, {}, ToSet(list))
  <2>1. PICK H, c : H = ToSet(list) /\ c = list[1]
    OBVIOUS
  <2>2. Good(w, {}, H) /\ c \in H
    BY <2>1, <1>13, <1>17, <1>19
  <2>3. Good(Recurs(w, c), {}, H)
    BY <2>2, RecursGood
  <2> QED BY <2>1, <2>3, <1>18
<1>20. CASE list # <<>> /\ w.ctx[list[1]].recursion >= MaxRecursion
  <2>1. y = Loop(z, list, NULL, "nothing")
    BY <1>12, <1>15, <1>18, <1>20 DEF Aliased
  <2>2. LoopNode(z, {}, NULL, "nothing")
    BY DEF LoopNode
  <2>3. Good(Loop(z, list, NULL, "nothing"), {}, {})
    BY <2>2, <1>14, <1>19, <1>20, LoopGood
  <2> QED BY <2>1, <2>3
<1>21. CASE list # <<>> /\ ~(w.ctx[list[1]].recursion >= MaxRecursion)
  <2>1. PICK e : e = Detached(z, list)
    OBVIOUS
  <2>2. Good(e, {}, ToSet(list)) /\ \A c \in ToSet(list) : e.ctx[c].node = NULL
    BY <2>1, <1>14, <1>19, <1>21, DetachedGood
  <2>3. PICK o \in ngx_resolve_name_locked(e, list, cname) : y = o.s
    BY <2>1, <1>12, <1>15, <1>18, <1>21 DEF Aliased
  <2>4. Outcome(o, e, ToSet(list))
    BY <2>2, <2>3, <1>14, <1>21, NameLockedGood
  <2>5. CASE Good(o.s, {}, {})
    BY <2>3, <2>5
  <2>6. CASE /\ Good(o.s, {}, ToSet(list)) /\ o.s.faults > 0
             /\ \A c \in ToSet(list) : o.s.ctx[c].node = e.ctx[c].node
    <3>1. PICK W, H : W = {} /\ H = ToSet(list)
      OBVIOUS
    <3>2. Good(y, W, H) /\ y.faults > 0 /\ \A c \in H : y.ctx[c].waits => y.ctx[c].node = NULL
      BY <2>2, <2>3, <2>6, <3>1
    <3>3. Good(y, W, {})
      BY <3>2, LetGo
    <3> QED BY <3>1, <3>3
  <2> QED BY <2>4, <2>5, <2>6 DEF Outcome
<1> QED BY <1>16, <1>20, <1>21

\* There are two types of address.
LEMMA OtherIs ==
  ASSUME NEW t \in Type
  PROVE  Other(t) \in Type /\ Other(t) # t /\ \A u \in Type : u = t \/ u = Other(t)
<1>1. \E u \in Type : u # t
  BY DEF Type
<1>2. Other(t) \in Type /\ Other(t) # t
  BY <1>1 DEF Other
<1> QED BY <1>2 DEF Type

\* One of the queries of the node has been answered.
LEMMA KnownGood ==
  ASSUME NEW x, NEW n, Good(x, {n}, {}), Pending(x, n), NEW t \in Type, NEW count \in Nat,
         NEW y, y = Known(x, n, t, count)
  PROVE  /\ Good(y, {n}, {}) /\ Pending(y, n) /\ y.faults = x.faults
         /\ NotYet(y, n, t) => Outstanding(y.node[n]) # {}
         /\ ~NotYet(y, n, t) => Outstanding(y.node[n]) = {}
<1>1. x \in State /\ n \in DOMAIN x.node /\ x.node[n] \in NodeRecord /\ x.node[n].naddrs \in [Type -> Int]
  BY StateIs DEF Good, Names, Pending
<1>2. PICK g : g = [x.node[n].naddrs EXCEPT ![t] = count]
  OBVIOUS
<1>3. g \in [Type -> Int] /\ g[t] = count
  BY <1>1, <1>2
<1>4. PICK rn : rn = [x.node[n] EXCEPT !.naddrs = g]
  OBVIOUS
<1>5. /\ rn \in NodeRecord /\ rn.waiting = x.node[n].waiting /\ rn.expire = x.node[n].expire
      /\ rn.query = x.node[n].query /\ rn.valid = x.node[n].valid /\ rn.naddrs = g
      /\ rn.name = x.node[n].name
  BY <1>1, <1>3, <1>4 DEF NodeRecord
<1>6. y = [x EXCEPT !.node[n] = rn]
  BY <1>2, <1>4 DEF Known
<1>7. Wrote(x, y, n, rn)
  BY <1>1, <1>5, <1>6, WroteNode
<1>8. Good(y, {n}, {}) /\ Pending(y, n)
  BY <1>5, <1>7, WritePending
<1>9. y.node[n].naddrs = g /\ y.faults = x.faults
  BY <1>5, <1>7 DEF Wrote, SameOthers
<1>10. Other(t) \in Type /\ Other(t) # t /\ \A u \in Type : u = t \/ u = Other(t)
  BY OtherIs
<1>11. NotYet(y, n, t) => Outstanding(y.node[n]) # {}
  BY <1>9, <1>10 DEF NotYet, Outstanding
<1>12. ~NotYet(y, n, t) => Outstanding(y.node[n]) = {}
  <2>1. g[t] # Unknown
    BY <1>3 DEF Unknown
  <2> QED BY <2>1, <1>9, <1>10 DEF NotYet, Outstanding
<1> QED BY <1>8, <1>9, <1>11, <1>12

\* One of the queries is answered by an error or by nothing.
LEMMA NothingGood ==
  ASSUME NEW x, NEW n, Good(x, {n}, {}), Pending(x, n), NEW t \in Type, NEW error \in BOOLEAN,
         NEW z \in Nothing(x, n, t, error)
  PROVE  Good(z, {}, {})
<1>1. PICK count \in Nat : count = 0
  OBVIOUS
<1>2. PICK y : y = Known(x, n, t, count)
  OBVIOUS
<1>3. /\ Good(y, {n}, {}) /\ Pending(y, n)
      /\ NotYet(y, n, t) => Outstanding(y.node[n]) # {}
      /\ ~NotYet(y, n, t) => Outstanding(y.node[n]) = {}
  BY <1>2, KnownGood
<1>4. CASE NotYet(y, n, t)
  <2>1. z = [y EXCEPT !.node[n].code = error]
    BY <1>1, <1>2, <1>4 DEF Nothing
  <2>2. y \in State /\ n \in DOMAIN y.node /\ y.node[n] \in NodeRecord
    BY <1>3, StateIs DEF Good, Names
  <2>3. PICK rn : rn = [y.node[n] EXCEPT !.code = error]
    OBVIOUS
  <2>4. /\ rn \in NodeRecord /\ rn.waiting = y.node[n].waiting /\ rn.expire = y.node[n].expire
        /\ rn.query = y.node[n].query /\ rn.valid = y.node[n].valid /\ rn.naddrs = y.node[n].naddrs
        /\ rn.name = y.node[n].name
    BY <2>2, <2>3 DEF NodeRecord
  <2>5. z = [y EXCEPT !.node[n] = rn]
    BY <2>1, <2>3
  <2>6. Wrote(y, z, n, rn)
    BY <2>2, <2>4, <2>5, WroteNode
  <2>7. Good(z, {n}, {}) /\ Pending(z, n) /\ z.node[n] = rn
    BY <1>3, <2>4, <2>6, WritePending DEF Wrote
  <2>8. Outstanding(z.node[n]) # {}
    BY <1>3, <1>4, <2>4, <2>7 DEF Outstanding
  <2> QED BY <2>7, <2>8, StayGood
<1>5. CASE ~NotYet(y, n, t)
  <2>1. z \in Exported(y, n) \/ z = Failed(y, n)
    BY <1>1, <1>2, <1>5 DEF Nothing
  <2> QED BY <2>1, <1>3, <1>5, ExportedGood, FailedGood
<1> QED BY <1>4, <1>5

\* It is answered by addresses, by an alias, or by records of other types.
LEMMA RecordsGood ==
  ASSUME NEW x, NEW n, Good(x, {n}, {}), Pending(x, n), NEW t \in Type, NEW reply,
         reply \in Name \cup BadName \/ reply = "address" \/ x.faults > 0,
         NEW z \in Records(x, n, t, reply)
  PROVE  Good(z, {}, {})
<1>1. PICK count \in Nat : count = IF reply = "address" THEN 1 ELSE 0
  OBVIOUS
<1>2. PICK y : y = Known(x, n, t, count)
  OBVIOUS
<1>3. /\ Good(y, {n}, {}) /\ Pending(y, n) /\ y.faults = x.faults
      /\ NotYet(y, n, t) => Outstanding(y.node[n]) # {}
      /\ ~NotYet(y, n, t) => Outstanding(y.node[n]) = {}
  <2>1. Good(x, {n}, {}) /\ Pending(x, n) /\ t \in Type /\ count \in Nat
    OBVIOUS
  <2>2. Good(y, {n}, {}) /\ Pending(y, n) /\ y.faults = x.faults
    BY ONLY <2>1, <1>2, KnownGood
  <2>3. NotYet(y, n, t) => Outstanding(y.node[n]) # {}
    BY ONLY <2>1, <1>2, KnownGood
  <2>4. ~NotYet(y, n, t) => Outstanding(y.node[n]) = {}
    BY ONLY <2>1, <1>2, KnownGood
  <2> QED BY ONLY <2>2, <2>3, <2>4
<1>4. CASE NotYet(y, n, t)
  <2>1. z = y
    BY <1>1, <1>2, <1>4 DEF Records
  <2> QED BY <2>1, <1>3, <1>4, StayGood
<1>5. CASE ~NotYet(y, n, t) /\ Answered(y.node[n])
  <2>1. z \in Exported(y, n)
    BY <1>1, <1>2, <1>5 DEF Records
  <2> QED BY <2>1, <1>3, <1>5, ExportedGood
<1>6. CASE ~NotYet(y, n, t) /\ ~Answered(y.node[n]) /\ reply \in Name \cup BadName
  <2>1. z \in Aliased(y, n, reply)
    BY <1>1, <1>2, <1>6 DEF Records
  <2> QED BY <2>1, <1>3, <1>6, AliasedGood
<1>7. CASE ~NotYet(y, n, t) /\ ~Answered(y.node[n]) /\ reply \notin Name \cup BadName
  <2>1. z = y
    BY <1>1, <1>2, <1>7 DEF Records
  <2>2. CASE x.faults > 0
    BY <2>1, <2>2, <1>3, StayGood
  <2>3. CASE reply = "address"
    <3>1. count = 1 /\ Type = {"A", "AAAA"}
      BY <2>3, <1>1 DEF Type
    <3>2. x.node[n].naddrs \in [Type -> Int] /\ x \in State /\ x.node \in NodeMap /\ n \in DOMAIN x.node
      BY StateIs DEF Good, Names, Pending
    <3>3. PICK g : g = [x.node[n].naddrs EXCEPT ![t] = count]
      OBVIOUS
    <3>4. g[t] = 1
      BY <3>1, <3>2, <3>3
    <3>5. y.node[n].naddrs = g
      <4>1. PICK rn : rn = [x.node[n] EXCEPT !.naddrs = g]
        OBVIOUS
      <4>2. x.node[n] \in NodeRecord
        BY <3>2, StateIs
      <4>3. g \in [Type -> Int]
        BY <3>2, <3>3
      <4>4. rn \in NodeRecord /\ rn.naddrs = g
        BY <4>1, <4>2, <4>3 DEF NodeRecord
      <4>5. y = [x EXCEPT !.node[n] = rn]
        BY <1>2, <3>3, <4>1 DEF Known
      <4>6. Wrote(x, y, n, rn)
        BY <3>2, <4>4, <4>5, WroteNode
      <4> QED BY <4>4, <4>6 DEF Wrote
    <3>6. Answered(y.node[n])
      BY <3>1, <3>4, <3>5 DEF Answered
    <3> QED BY <3>6, <1>7
  <2> QED BY <2>2, <2>3, <1>7
<1> QED BY <1>4, <1>5, <1>6, <1>7

\* ngx_resolver_process_a, for an answer that is expected.
LEMMA ProcessGood ==
  ASSUME NEW x, NEW n, Good(x, {}, {}), Pending(x, n), NEW t \in Outstanding(x.node[n]), NEW reply \in Content,
         reply = "useless" => x.faults > 0, NEW z \in ngx_resolver_process_a(x, n, t, reply)
  PROVE  Good(z, {}, {})
<1>1. Good(x, {n}, {}) /\ t \in Type
  BY TakeUp DEF Pending, Outstanding
<1>2. x.node[n].code \in BOOLEAN
  <2>1. x.node[n] \in NodeRecord
    BY StateIs DEF Good, Names, Pending
  <2> QED BY <2>1 DEF NodeRecord
<1>3. CASE reply = "truncated"
  <2>1. z \in Truncated(x, n, t)
    BY <1>3 DEF ngx_resolver_process_a
  <2> QED BY <2>1, <1>1, TruncatedGood
<1>4. CASE reply # "truncated" /\ (reply = "error" \/ x.node[n].code)
  <2>1. PICK error \in BOOLEAN : error = TRUE
    OBVIOUS
  <2>2. z \in Nothing(x, n, t, error)
    BY <1>2, <1>4, <2>1 DEF ngx_resolver_process_a
  <2> QED BY <2>2, <1>1, NothingGood
<1>5. CASE reply = "empty" /\ ~x.node[n].code
  <2>1. PICK error \in BOOLEAN : error = FALSE
    OBVIOUS
  <2>2. z \in Nothing(x, n, t, error)
    BY <1>2, <1>5, <2>1 DEF ngx_resolver_process_a
  <2> QED BY <2>2, <1>1, NothingGood
<1>6. CASE reply \notin {"truncated", "error", "empty"} /\ ~x.node[n].code
  <2>1. z \in Records(x, n, t, reply)
    BY <1>2, <1>6 DEF ngx_resolver_process_a
  <2>2. reply \in Name \cup BadName \/ reply = "address" \/ x.faults > 0
    BY <1>6 DEF Content
  <2> QED BY <2>1, <2>2, <1>1, RecordsGood
<1> QED BY <1>3, <1>4, <1>5, <1>6

-----------------------------------------------------------------------------
(* ngx_resolver_resend_handler.                                            *)

\* A node that waits to be sent again waits for an answer, unless there was a
\* fault.
LEMMA ResendAsked ==
  ASSUME NEW x, Good(x, {}, {}), NEW n \in ToSet(x.resend)
  PROVE  /\ n \in x.tree /\ n \in DOMAIN x.node /\ n # NULL /\ ~Held(x, n) /\ Asked(x, n)
         /\ x.timer # NULL /\ x.timer <= x.node[n].expire /\ x.timer <= now + ResendTimeout
<1>1. n \in x.tree /\ n \in DOMAIN x.node /\ n # NULL /\ n \notin ToSet(x.expire) /\ x \in State /\ now \in Nat
  BY StateIs, ResolverAssumption DEF Good, Queues, Names
<1>2. ~Held(x, n)
  BY <1>1 DEF Good, Loops
<1>3. Asked(x, n)
  <2>1. x.node[n].valid = 0 /\ x.faults \in Nat
    BY <1>1, StateIs DEF Good, Clock
  <2>2. x.faults = 0 => x.node[n].query # 0 /\ Outstanding(x.node[n]) # {}
    BY DEF Good, Asks
  <2> QED BY <2>1, <2>2 DEF Asked
<1>4. x.timer # NULL /\ x.timer <= x.node[n].expire /\ x.node[n].expire <= now + ResendTimeout
  BY DEF Good, Clock
<1>5. x.timer \in Int \cup {NULL} /\ x.node[n].expire \in Int /\ ResendTimeout \in Nat
  BY <1>1, StateIs, ResolverAssumption
<1> QED BY <1>1, <1>2, <1>3, <1>4, <1>5

\* The end of a queue.
LEMMA LastIs ==
  ASSUME NEW q \in Seq(Nat), q # <<>>
  PROVE  Last(q) = q[Len(q)] /\ Len(q) \in DOMAIN q /\ Last(q) \in ToSet(q)
<1>1. Len(q) > 0
  OBVIOUS
<1>2. Last(q) = q[Len(q)] /\ Len(q) \in 1..Len(q)
  BY <1>1, FrontIs
<1> QED BY <1>2, ElementsAre

\* The node at the end of the queue is sent again, or nobody waits for it.
LEMMA ResendOneGood ==
  ASSUME NEW x, Good(x, {}, {})
  PROVE  Good(ResendOne(x), {}, {})
<1>1. x \in State /\ x.resend \in Seq(Nat) /\ now \in Nat /\ IsInjective(x.resend) /\ IsInjective(x.expire)
  BY StateIs DEF Good, Queues
<1>2. CASE x.resend = <<>> \/ now < x.node[Last(x.resend)].expire
  BY <1>2 DEF ResendOne
<1>3. CASE ~(x.resend = <<>> \/ now < x.node[Last(x.resend)].expire)
  <2>1. PICK n : n = Last(x.resend)
    OBVIOUS
  <2>2. n \in ToSet(x.resend)
    BY <1>1, <1>3, <2>1, LastIs
  <2>3. /\ n \in x.tree /\ n \in DOMAIN x.node /\ n # NULL /\ ~Held(x, n) /\ Asked(x, n)
        /\ x.timer # NULL /\ x.timer <= now + ResendTimeout
    BY <2>2, ResendAsked
  <2>4. CASE x.node[n].waiting # <<>>
    <3>1. PICK y : y = ToResend(x, n)
      OBVIOUS
    <3>2. y \in State /\ ResendMoved(x, y, n)
      BY <1>1, <2>3, <3>1, ToResendIs
    <3>3. PICK W, H : W = {} /\ H = {}
      OBVIOUS
    <3>4. Good(x, W, H)
      BY <3>3
    <3>5. Good(y, W, H)
      BY <2>3, <3>2, <3>4, MoveResend
    <3>6. ResendOne(x) = y
      BY <1>3, <2>1, <2>4, <3>1 DEF ResendOne
    <3> QED BY <3>3, <3>5, <3>6
  <2>5. CASE x.node[n].waiting = <<>>
    <3>1. Good(x, {n}, {})
      BY <2>3, TakeUp
    <3>2. Good(Discard(x, n), {}, {})
      BY <2>3, <2>5, <3>1, DiscardGood
    <3>3. ResendOne(x) = Discard(x, n)
      BY <1>3, <2>1, <2>5 DEF ResendOne
    <3> QED BY <3>2, <3>3
  <2> QED BY <2>4, <2>5
<1> QED BY <1>2, <1>3

\* r->event is set for the end of the queue, which is the first to be due.
LEMMA RearmedGood ==
  ASSUME NEW x, Good(x, {}, {})
  PROVE  Good(Rearmed(x), {}, {})
<1>1. x \in State /\ x.resend \in Seq(Nat) /\ Sorted(x.resend, x.node)
  BY StateIs DEF Good, Clock
<1>2. PICK m : m = IF x.resend = <<>> THEN NULL ELSE x.node[Last(x.resend)].expire
  OBVIOUS
<1>3. m \in Int \cup {NULL} /\ \A n \in ToSet(x.resend) : m # NULL /\ m <= x.node[n].expire
  <2>1. CASE x.resend = <<>>
    BY <2>1, <1>1, <1>2, ElementsAre
  <2>2. CASE x.resend # <<>>
    <3>1. PICK q : q = x.resend
      OBVIOUS
    <3>2. q \in Seq(Nat) /\ q # <<>> /\ DOMAIN q = 1..Len(q) /\ Len(q) \in Nat
      BY <3>1, <1>1, <2>2, ElementsAre
    <3>3. Last(q) = q[Len(q)] /\ Len(q) \in DOMAIN q /\ Last(q) \in ToSet(q)
      BY <3>2, LastIs
    <3>4. \A k \in ToSet(q) : x.node[k].expire \in Int
      BY <3>1, <1>1, StateIs DEF Good, Queues, Names
    <3>5. m = x.node[q[Len(q)]].expire /\ m \in Int
      BY <1>2, <2>2, <3>1, <3>3, <3>4
    <3>6. ASSUME NEW n \in ToSet(q) PROVE m <= x.node[n].expire
      <4>1. PICK i \in 1..Len(q) : q[i] = n
        BY <3>2, ElementsAre
      <4>2. CASE i = Len(q)
        BY <4>1, <4>2, <3>5
      <4>3. CASE i < Len(q)
        <5>1. x.node[q[i]].expire >= x.node[q[Len(q)]].expire
          BY <4>1, <4>3, <3>1, <3>2, <3>3, <1>1 DEF Sorted
        <5> QED BY <5>1, <4>1, <3>4, <3>5
      <4>4. i = Len(q) \/ i < Len(q)
        <5>1. Len(q) \in Nat /\ i \in 1..Len(q)
          BY <4>1, <3>2
        <5> QED BY ONLY <5>1
      <4> QED BY ONLY <4>2, <4>3, <4>4
    <3> QED BY <3>1, <3>5, <3>6, ResolverAssumption
  <2> QED BY <2>1, <2>2
<1>4. PICK y : y = [x EXCEPT !.timer = m]
  OBVIOUS
<1>5. /\ y \in State /\ y.node = x.node /\ SameQueues(x, y) /\ y.ctx = x.ctx /\ y.stack = x.stack
      /\ y.faults = x.faults /\ y.timer = m
  BY <1>1, <1>3, <1>4 DEF State, SameQueues
<1>6. PICK W, H : W = {} /\ H = {}
  OBVIOUS
<1>7. Good(x, W, H) /\ y.faults >= x.faults
  BY <1>1, <1>5, <1>6, StateIs
<1>8. Good(y, W, H)
  BY <1>3, <1>5, <1>7, Sundry
<1>9. y = Rearmed(x)
  BY <1>2, <1>4 DEF Rearmed
<1> QED BY <1>6, <1>8, <1>9

\* ngx_resolver_resend: the end of the queue is looked at again and again.
LEMMA ResendGood ==
  ASSUME NEW x, Good(x, {}, {})
  PROVE  Good(ngx_resolver_resend(x), {}, {})
<1> DEFINE M == Len(x.resend)
           S == {u \in State : Good(u, {}, {})}
           F == [u \in S |-> ResendOne(u)]
           Is(r) == r = [k \in 0..M |-> IF k = 0 THEN x ELSE ResendOne(r[k - 1])]
<1>1. M \in Nat /\ x \in S
  <2>1. x \in State
    BY DEF Good
  <2>2. x.resend \in Seq(Nat)
    BY <2>1, StateIs
  <2> QED BY <2>1, <2>2
<1>2. \A u \in S : ResendOne(u) \in S
  <2>1. ASSUME NEW u \in S PROVE ResendOne(u) \in S
    <3>1. Good(ResendOne(u), {}, {})
      BY ResendOneGood
    <3> QED BY <3>1 DEF Good
  <2> QED BY <2>1
<1> HIDE DEF M, S
<1>3. F \in [S -> S]
  BY <1>2
<1>4. PICK f : Iterated(f, M, x, F)
  <2> HIDE DEF F
  <2> QED BY <1>1, <1>3, Iterates
<1>5. \A k \in 0..M : f[k] \in S
  <2> DEFINE G == {k \in 0..M : f[k] \in S}
  <2> HIDE DEF F
  <2>1. 0 \in G
    BY <1>1, <1>4 DEF Iterated
  <2>2. ASSUME NEW k \in 0..M - 1, k \in G PROVE k + 1 \in G
    <3>1. k + 1 \in 0..M /\ k + 1 # 0 /\ (k + 1) - 1 = k
      BY <1>1
    <3>2. f[k + 1] = F[f[k]]
      BY <3>1, <1>4 DEF Iterated
    <3> QED BY <2>2, <3>1, <3>2, <1>3
  <2> HIDE DEF G
  <2>3. \A k \in 0..M : k \in G
    BY <2>1, <2>2, <1>1, Climb
  <2> QED BY <2>3 DEF G
<1>6. Is(f)
  <2>1. f = [k \in 0..M |-> IF k = 0 THEN x ELSE F[f[k - 1]]]
    BY <1>4 DEF Iterated
  <2>2. ASSUME NEW k \in 0..M PROVE (IF k = 0 THEN x ELSE F[f[k - 1]]) = IF k = 0 THEN x ELSE ResendOne(f[k - 1])
    <3>1. CASE k = 0
      BY <3>1
    <3>2. CASE k # 0
      <4>1. k - 1 \in 0..M
        BY <3>2, <1>1
      <4>2. f[k - 1] \in S
        BY <4>1, <1>5
      <4>3. F[f[k - 1]] = ResendOne(f[k - 1])
        BY <4>2
      <4> QED BY <3>2, <4>3
    <3> QED BY <3>1, <3>2
  <2> HIDE DEF F
  <2> QED BY <2>1, <2>2
<1>7. PICK r : Is(r) /\ ngx_resolver_resend(x) = r[M]
  <2> DEFINE v == CHOOSE r : Is(r)
  <2>1. Is(v)
    BY <1>6
  <2>2. ngx_resolver_resend(x) = v[M]
    BY DEF ngx_resolver_resend, M
  <2> HIDE DEF v
  <2> QED BY <2>1, <2>2
<1>8. \A k \in 0..M : r[k] \in S
  <2> DEFINE G == {k \in 0..M : r[k] \in S}
  <2>1. 0 \in G
    BY <1>1, <1>7
  <2>2. ASSUME NEW k \in 0..M - 1, k \in G PROVE k + 1 \in G
    <3>1. k + 1 \in 0..M /\ k + 1 # 0 /\ (k + 1) - 1 = k
      BY <1>1
    <3>2. r[k + 1] = ResendOne(r[k])
      BY <3>1, <1>7
    <3> QED BY <2>2, <3>1, <3>2, <1>2
  <2> HIDE DEF G
  <2>3. \A k \in 0..M : k \in G
    BY <2>1, <2>2, <1>1, Climb
  <2> QED BY <2>3 DEF G
<1>9. r[M] \in S
  BY <1>1, <1>8
<1> QED BY <1>7, <1>9 DEF S

-----------------------------------------------------------------------------
(* The steps.                                                              *)

IInv == Good(s, {}, {})

\* In all steps but the clock's.
LEMMA SameTime ==
  ASSUME Good(s', {}, {}), now' = now
  PROVE  IInv'
<1>1. /\ s' \in State /\ now' \in Nat /\ now' >= 1
      /\ Names(s', {}) /\ Queues(s', {}) /\ Freed(s', {})
      /\ Lists(s', {}) /\ Waiters(s', {}) /\ InHand(s', {}) /\ Asks(s', {})
  BY DEF Good
<1>2. Loops(s)'
  BY DEF Good, Loops
<1>3. Clock(s, {})'
  BY DEF Good, Clock
<1> QED BY <1>1, <1>2, <1>3 DEF IInv, Good

\* The resolver starts with nothing.
LEMMA InitGood ==
  ASSUME ResolverInit
  PROVE  IInv
<1>1. /\ s.node = <<>> /\ s.tree = {} /\ s.resend = <<>> /\ s.expire = <<>> /\ s.timer = NULL
      /\ s.ctx = [c \in Ctx |-> NoCtx] /\ s.stack = <<>> /\ s.faults = 0 /\ now = 1
  BY DEF ResolverInit
<1>2. ToSet(<<>>) = {} /\ DOMAIN <<>> = {} /\ IsInjective(<<>>) /\ IsFiniteSet({})
  BY FS_EmptySet DEF ToSet, IsInjective
<1>3. s \in State
  <2>1. PICK f : f = <<>>
    OBVIOUS
  <2>2. DOMAIN f = {} /\ f = [k \in DOMAIN f |-> f[k]]
    BY <2>1
  <2>3. f \in NodeMap
    BY <2>2, NodeMapIs
  <2>4. [c \in Ctx |-> NoCtx] \in [Ctx -> CtxRecord]
    BY NoCtxIs
  <2>5. <<>> \in Seq(Nat) /\ <<>> \in Seq(Frame) /\ <<>> \in Seq(Name \cup BadName \cup {NULL})
    OBVIOUS
  <2> QED BY <2>1, <2>3, <2>4, <2>5 DEF ResolverInit, State
<1>4. Names(s, {}) /\ Queues(s, {})
  BY <1>1, <1>2 DEF Names, Queues
<1>5. Freed(s, {})
  <2>1. Freeing(s) = {}
    BY <1>1, <1>2 DEF Freeing
  <2> QED BY <2>1, <1>1, <1>2 DEF Freed
<1>6. Lists(s, {}) /\ InHand(s, {})
  BY <1>1, <1>2 DEF Lists, InHand
<1>7. Waiters(s, {})
  BY <1>1, NoCtxIs DEF Waiters
<1>8. Loops(s)
  BY <1>1, <1>2 DEF Loops, Held
<1>9. Clock(s, {}) /\ Asks(s, {})
  BY <1>1, <1>2 DEF Clock, Asks, Sorted
<1> QED BY <1>1, <1>3, <1>4, <1>5, <1>6, <1>7, <1>8, <1>9 DEF IInv, Good

\* A context that is not in use may be taken in hand.
LEMMA TakeContext ==
  ASSUME NEW x, Good(x, {}, {}), NEW c \in Ctx, x.ctx[c] = NoCtx,
         \A i \in DOMAIN x.stack : c \notin ToSet(x.stack[i].list)
  PROVE  Good(x, {}, {c})
<1>1. ~x.ctx[c].waits
  BY NoCtxIs
<1>2. \A n \in DOMAIN x.node : c \notin ToSet(x.node[n].waiting)
  BY <1>1 DEF Good, Lists
<1>3. InHand(x, {c})
  BY <1>2 DEF InHand
<1>4. Waiters(x, {c})
  BY DEF Good, Waiters
<1> QED BY <1>3, <1>4 DEF Good

\* A list of one context.
LEMMA OneContext ==
  ASSUME NEW c \in Ctx
  PROVE  /\ <<c>> \in Seq(Ctx) /\ IsInjective(<<c>>) /\ <<c>> # <<>> /\ ToSet(<<c>>) = {c} /\ <<c>>[1] = c
<1>1. PICK q : q = <<c>>
  OBVIOUS
<1>2. q \in Seq(Ctx) /\ Len(q) = 1 /\ q[1] = c /\ DOMAIN q = 1..1
  BY <1>1
<1>3. ToSet(q) = {c} /\ IsInjective(q)
  BY <1>2 DEF ToSet, IsInjective
<1> QED BY <1>1, <1>2, <1>3

\* The innermost loop is written to.
LEMMA TopSet ==
  ASSUME NEW x \in State, x.stack # <<>>, NEW f \in Frame
  PROVE  LET y == [x EXCEPT !.stack[1] = f]
         IN  /\ y \in State /\ y.node = x.node /\ SameQueues(x, y) /\ y.timer = x.timer /\ y.ctx = x.ctx
             /\ y.faults = x.faults /\ DOMAIN y.stack = DOMAIN x.stack
             /\ \A i \in DOMAIN x.stack : y.stack[i] = IF i = 1 THEN f ELSE x.stack[i]
<1>1. PICK q : q = x.stack
  OBVIOUS
<1>2. q \in Seq(Frame) /\ q # <<>>
  BY <1>1, StateIs
<1>3. PICK p : p = [q EXCEPT ![1] = f]
  OBVIOUS
<1>4. p \in Seq(Frame) /\ DOMAIN p = DOMAIN q /\ \A i \in DOMAIN q : p[i] = IF i = 1 THEN f ELSE q[i]
  BY <1>2, <1>3
<1>5. PICK y : y = [x EXCEPT !.stack[1] = f]
  OBVIOUS
<1>6. y = [x EXCEPT !.stack = p]
  BY <1>1, <1>3, <1>5 DEF State
<1>7. /\ y \in State /\ y.node = x.node /\ SameQueues(x, y) /\ y.timer = x.timer /\ y.ctx = x.ctx
      /\ y.faults = x.faults /\ y.stack = p
  BY <1>4, <1>6 DEF State, SameQueues
<1> QED BY <1>1, <1>4, <1>5, <1>7

\* The innermost loop has a frame.
LEMMA TopFrame ==
  ASSUME NEW x \in State, x.stack # <<>>
  PROVE  x.stack[1] \in Frame /\ 1 \in DOMAIN x.stack
<1>1. PICK q : q = x.stack
  OBVIOUS
<1>2. q \in Seq(Frame) /\ q # <<>>
  BY <1>1, StateIs
<1>3. q[1] \in Frame /\ 1 \in DOMAIN q
  BY <1>2
<1> QED BY <1>1, <1>3

\* ngx_resolve_name.
LEMMA ResolveGood ==
  ASSUME IInv, NEW c \in Ctx, NEW name \in Wanted, Resolve(c, name)
  PROVE  Good(s', {}, {})
<1>1. Good(s, {}, {}) /\ s \in State
  BY DEF IInv, Good
<1>2. s.ctx[c] = NoCtx /\ \A i \in DOMAIN s.stack : c \notin ToSet(s.stack[i].list)
  BY DEF Resolve, Unused
<1>3. PICK x : x = IF Idle THEN s ELSE [s EXCEPT !.stack[1].asks = @ - 1]
  OBVIOUS
<1>4. /\ Good(x, {}, {}) /\ x.ctx = s.ctx
      /\ \A i \in DOMAIN x.stack : c \notin ToSet(x.stack[i].list)
  <2>1. CASE Idle
    BY <2>1, <1>1, <1>2, <1>3
  <2>2. CASE ~Idle
    <3>1. s.stack # <<>>
      BY <2>2 DEF Idle
    <3>2. s.stack[1] \in Frame /\ 1 \in DOMAIN s.stack
      BY <3>1, <1>1, TopFrame
    <3>3. PICK no \in Nat : no = s.stack[1].asks - 1
      <4>1. s.stack[1].asks \in Nat /\ s.stack[1].asks > 0
        BY <2>2, <3>2 DEF Resolve, Frame
      <4> QED BY <4>1
    <3>4. PICK f : f = [s.stack[1] EXCEPT !.asks = no]
      OBVIOUS
    <3>5. f \in Frame /\ f.list = s.stack[1].list /\ f.node = s.stack[1].node /\ f.after = s.stack[1].after
      BY <3>2, <3>4 DEF Frame
    <3>6. x = [s EXCEPT !.stack[1] = f]
      BY <3>3, <3>4, <2>2, <1>3
    <3>7. /\ x \in State /\ x.node = s.node /\ SameQueues(s, x) /\ x.timer = s.timer /\ x.ctx = s.ctx
          /\ x.faults = s.faults /\ DOMAIN x.stack = DOMAIN s.stack
          /\ \A i \in DOMAIN s.stack : x.stack[i] = IF i = 1 THEN f ELSE s.stack[i]
      BY <3>1, <3>5, <3>6, <1>1, TopSet
    <3>8. \A i \in DOMAIN s.stack : /\ x.stack[i].node = s.stack[i].node /\ x.stack[i].after = s.stack[i].after
                                    /\ x.stack[i].list = s.stack[i].list
      BY <3>5, <3>7
    <3>9. PICK W, H : W = {} /\ H = {}
      OBVIOUS
    <3>10. Good(s, W, H)
      BY <3>9, <1>1
    <3>11. Good(x, W, H)
      BY <3>7, <3>8, <3>10, GoOn
    <3> QED BY <3>7, <3>8, <3>9, <3>11, <1>2
  <2> QED BY <2>1, <2>2
<1>5. Good(x, {}, {c})
  BY <1>2, <1>4, TakeContext
<1>6. PICK o \in ngx_resolve_name_locked(x, <<c>>, name) :
        s' = IF o.rc = "ERROR" THEN [o.s EXCEPT !.ctx[c] = NoCtx] ELSE o.s
  BY <1>3 DEF Resolve
<1>7. PICK list : list = <<c>>
  OBVIOUS
<1>8. list \in Seq(Ctx) /\ IsInjective(list) /\ list # <<>> /\ ToSet(list) = {c}
  BY <1>7, OneContext
<1>9. name \in Name \cup BadName \cup {NULL}
  BY ResolverAssumption
<1>10. o \in ngx_resolve_name_locked(x, list, name)
  BY <1>6, <1>7
<1>11. Outcome(o, x, ToSet(list))
  BY <1>5, <1>8, <1>9, <1>10, NameLockedGood
<1>12. CASE o.rc # "ERROR"
  BY <1>6, <1>11, <1>12 DEF Outcome
<1>13. CASE o.rc = "ERROR"
  <2>1. PICK y, W, H, r : y = o.s /\ W = {} /\ H = {c} /\ r = NoCtx
    OBVIOUS
  <2>2. Good(y, W, H) /\ c \in H /\ y \in State
    BY <2>1, <1>8, <1>11, <1>13 DEF Outcome, Good
  <2>3. s' = [y EXCEPT !.ctx[c] = r]
    BY <2>1, <1>6, <1>13
  <2>4. r \in CtxRecord /\ r.waits = FALSE
    BY <2>1, NoCtxIs
  <2>5. /\ s' \in State /\ s'.node = y.node /\ SameQueues(y, s') /\ s'.timer = y.timer /\ s'.stack = y.stack
        /\ s'.faults = y.faults /\ s'.ctx[c] = r /\ \A d \in Ctx : d # c => s'.ctx[d] = y.ctx[d]
    BY <2>2, <2>3, <2>4, CtxSet
  <2>6. Good(s', W, H \ {c})
    BY <2>2, <2>4, <2>5, Forget
  <2>7. H \ {c} = {}
    BY <2>1
  <2> QED BY <2>1, <2>6, <2>7
<1> QED BY <1>12, <1>13

\* An answer arrives.
LEMMA RespondGood ==
  ASSUME IInv, NEW k \in 1..Len(s.asked), NEW t \in Type, NEW reply \in Content, Respond(k, t, reply)
  PROVE  Good(s', {}, {})
<1>1. Good(s, {}, {}) /\ s \in State
  BY DEF IInv, Good
<1>2. PICK n \in Found(s, s.asked[k]), x \in IF reply = "useless" THEN OnFault(s, {s}) ELSE {s} :
        Accepts(s, n, k, t, reply) /\ s' \in ngx_resolver_process_a(x, n, t, reply)
  BY DEF Respond
<1>3. n \in s.tree /\ s.node[n].query # 0 /\ t \in Outstanding(s.node[n])
  BY <1>2 DEF Found, Accepts
<1>4. n \in ToSet(s.resend)
  <2>1. n \in ToSet(s.resend) \cup ToSet(s.expire)
    BY <1>1, <1>3 DEF Good, Queues
  <2>2. n \notin ToSet(s.expire)
    BY <1>1, <1>3 DEF Good, Asks
  <2> QED BY <2>1, <2>2
<1>5. Pending(s, n)
  BY <1>1, <1>3, <1>4, ResendAsked DEF Pending, Asked
<1>6. Good(x, {}, {}) /\ Pending(x, n) /\ t \in Outstanding(x.node[n]) /\ (reply = "useless" => x.faults > 0)
  <2>1. CASE reply # "useless"
    BY <2>1, <1>1, <1>2, <1>3, <1>5
  <2>2. CASE reply = "useless"
    <3>1. x = [s EXCEPT !.faults = @ + 1]
      BY <2>2, <1>2 DEF OnFault
    <3>2. PICK W : W = {}
      OBVIOUS
    <3>3. Good(x, W, W) /\ x.faults > 0 /\ x.node = s.node /\ SameQueues(s, x) /\ x.stack = s.stack
      BY <3>1, <3>2, <1>1, FaultGood
    <3>4. Pending(x, n)
      BY <3>3, <1>5 DEF Pending, SameQueues, Held
    <3> QED BY <3>2, <3>3, <3>4, <1>3
  <2> QED BY <2>1, <2>2
<1> QED BY <1>2, <1>6, ProcessGood

\* The resend timer.
LEMMA ResendTimerGood ==
  ASSUME IInv, ResendTimer
  PROVE  Good(s', {}, {})
<1>1. PICK x : x = ngx_resolver_resend(s)
  OBVIOUS
<1>2. Good(x, {}, {})
  BY <1>1, ResendGood DEF IInv
<1>3. s' = Rearmed(x)
  BY <1>1 DEF ResendTimer
<1> QED BY <1>2, <1>3, RearmedGood

\* A handler of a loop.
LEMMA CallHandlerGood ==
  ASSUME IInv, CallHandler
  PROVE  Good(s', {}, {})
<1>1. Good(s, {}, {}) /\ s \in State /\ s.stack # <<>> /\ s.stack[1].list # <<>>
  BY DEF IInv, Good, CallHandler, Idle
<1>2. PICK q : q = s.stack[1].list
  OBVIOUS
<1>3. s.stack[1] \in Frame /\ 1 \in DOMAIN s.stack
  BY <1>1, TopFrame
<1>4. q \in Seq(Ctx) /\ q # <<>>
  BY <1>1, <1>2, <1>3 DEF Frame
<1>5. q[1] \in Ctx /\ Tail(q) \in Seq(Ctx) /\ ToSet(Tail(q)) \subseteq ToSet(q)
  <2>1. PICK p : p = Tail(q)
    OBVIOUS
  <2>2. q[1] \in Ctx /\ p \in Seq(Ctx) /\ Len(p) = Len(q) - 1 /\ \A i \in 1..Len(p) : p[i] = q[i + 1]
    BY <2>1, <1>4
  <2>3. ToSet(p) \subseteq ToSet(q)
    <3>1. ASSUME NEW e \in ToSet(p) PROVE e \in ToSet(q)
      <4>1. PICK i \in 1..Len(p) : p[i] = e
        BY <2>2, ElementsAre
      <4>2. i + 1 \in 1..Len(q) /\ q[i + 1] = e
        BY <4>1, <2>2, <1>4
      <4> QED BY <4>2, <1>4, ElementsAre
    <3> QED BY <3>1
  <2> QED BY <2>1, <2>2, <2>3
<1>6. PICK x : x = ngx_resolve_name_done(s, q[1])
  OBVIOUS
<1>7. Good(x, {}, {}) /\ x.stack = s.stack
  BY <1>1, <1>5, <1>6, NameDoneGood
<1>8. PICK p : p = Tail(q)
  OBVIOUS
<1>9. PICK f : f = [x.stack[1] EXCEPT !.list = p]
  OBVIOUS
<1>10. f \in Frame /\ f.list = p /\ f.node = x.stack[1].node /\ f.after = x.stack[1].after
  BY <1>3, <1>5, <1>7, <1>8, <1>9 DEF Frame
<1>11. s' = [x EXCEPT !.stack[1] = f]
  <2>1. s' = [x EXCEPT !.stack[1].list = Tail(@)]
    BY <1>2, <1>6 DEF CallHandler
  <2> QED BY <2>1, <1>2, <1>7, <1>8, <1>9
<1>12. x \in State /\ x.stack # <<>>
  BY <1>1, <1>7 DEF Good
<1>13. /\ s' \in State /\ s'.node = x.node /\ SameQueues(x, s') /\ s'.timer = x.timer /\ s'.ctx = x.ctx
       /\ s'.faults = x.faults /\ DOMAIN s'.stack = DOMAIN x.stack
       /\ \A i \in DOMAIN x.stack : s'.stack[i] = IF i = 1 THEN f ELSE x.stack[i]
  BY <1>10, <1>11, <1>12, TopSet
<1>14. \A i \in DOMAIN x.stack : /\ s'.stack[i].node = x.stack[i].node /\ s'.stack[i].after = x.stack[i].after
                                 /\ ToSet(s'.stack[i].list) \subseteq ToSet(x.stack[i].list)
  BY <1>2, <1>5, <1>7, <1>8, <1>10, <1>13
<1>15. PICK W : W = {}
  OBVIOUS
<1>16. Good(x, W, W)
  BY <1>7, <1>15
<1>17. Good(s', W, W)
  BY <1>13, <1>14, <1>16, GoOn
<1> QED BY <1>15, <1>17

\* A loop is over: its node is freed, or has its query dropped, or stays.
LEMMA LoopEndsGood ==
  ASSUME IInv, LoopEnds
  PROVE  Good(s', {}, {})
<1>1. Good(s, {}, {}) /\ s \in State /\ s.stack # <<>>
  BY DEF IInv, Good, LoopEnds, Idle
<1>2. PICK f, y : f = s.stack[1] /\ y = Afterwards(s, f) /\ s' = [y EXCEPT !.stack = Tail(@)]
  BY DEF LoopEnds
<1>3. f \in Frame /\ 1 \in DOMAIN s.stack /\ f.after \in {"free", "query", "nothing"}
  BY <1>1, <1>2, TopFrame DEF Frame
<1>4. PICK q : q = Tail(s.stack)
  OBVIOUS
<1>5. q \in Seq(Frame)
  <2>1. PICK p : p = s.stack
    OBVIOUS
  <2>2. p \in Seq(Frame) /\ p # <<>>
    BY <2>1, <1>1, StateIs
  <2>3. Tail(p) \in Seq(Frame)
    BY <2>2
  <2> QED BY <2>1, <2>3, <1>4
<1>6. PICK x : x = [s EXCEPT !.stack = q]
  OBVIOUS
<1>7. /\ x \in State /\ x.node = s.node /\ SameQueues(s, x) /\ x.timer = s.timer /\ x.faults = s.faults
      /\ x.ctx = s.ctx /\ x.stack = q /\ x.asked = s.asked
  BY <1>1, <1>5, <1>6 DEF State, SameQueues
<1>8. PICK W : W = IF f.after = "free" THEN {f.node} ELSE {}
  OBVIOUS
<1>9. Good(x, W, {}) /\ (f.after = "free" => f.node \notin x.tree)
  BY <1>1, <1>2, <1>4, <1>7, <1>8, EndLoop
<1>10. ASSUME y \in State, SameOthers(s, y)
       PROVE  /\ s' \in State /\ s'.node = y.node /\ SameQueues(y, s') /\ s'.timer = y.timer /\ s'.asked = y.asked
              /\ s'.faults = y.faults /\ s'.ctx = y.ctx /\ s'.stack = q
  <2>1. s' = [y EXCEPT !.stack = q]
    BY <1>2, <1>4, <1>10 DEF SameOthers
  <2> QED BY <2>1, <1>5, <1>10 DEF State, SameQueues
<1>11. CASE f.after = "free"
  <2>1. y = FreeNode(s, f.node)
    BY <1>2, <1>11 DEF Afterwards
  <2>2. /\ y \in State /\ SameQueues(s, y) /\ SameOthers(s, y) /\ DOMAIN y.node = DOMAIN s.node \ {f.node}
        /\ \A k \in DOMAIN s.node \ {f.node} : y.node[k] = s.node[k]
    BY <2>1, <1>1, FreeNodeIs
  <2>3. /\ s' \in State /\ SameQueues(x, s') /\ SameOthers(x, s') /\ DOMAIN s'.node = DOMAIN x.node \ {f.node}
        /\ \A k \in DOMAIN x.node \ {f.node} : s'.node[k] = x.node[k]
    BY <2>2, <1>7, <1>10 DEF SameQueues, SameOthers
  <2>4. PICK n, H : n = f.node /\ H = {}
    OBVIOUS
  <2>5. Good(x, {n}, H) /\ n \notin x.tree
    BY <2>4, <1>8, <1>9, <1>11
  <2>6. Good(s', {}, H)
    BY <2>3, <2>4, <2>5, Release
  <2> QED BY <2>4, <2>6
<1>12. CASE f.after = "query"
  <2>1. PICK n : n = f.node
    OBVIOUS
  <2>2. n # NULL /\ Held(s, n)
    BY <2>1, <1>1, <1>2, <1>3, <1>12 DEF Good, Loops, Held
  <2>3. n \in ToSet(s.expire) /\ n \in DOMAIN s.node
    BY <2>2, <1>1 DEF Good, Loops, Queues, Names
  <2>4. y = DropQuery(s, n)
    BY <2>1, <1>2, <1>12 DEF Afterwards
  <2>5. PICK rn \in NodeRecord :
           /\ Wrote(s, y, n, rn) /\ rn.query = 0 /\ rn.naddrs = s.node[n].naddrs
           /\ rn.waiting = s.node[n].waiting /\ rn.valid = s.node[n].valid /\ rn.expire = s.node[n].expire
           /\ rn.name = s.node[n].name
    BY <2>3, <2>4, <1>1, DropQueryIs
  <2>6. Wrote(x, s', n, rn)
    <3>1. y \in State /\ SameOthers(s, y)
      BY <2>5 DEF Wrote
    <3> QED BY <3>1, <2>5, <1>7, <1>10 DEF Wrote, SameQueues, SameOthers
  <2>7. Good(x, {}, {}) /\ n \in ToSet(x.expire)
    BY <2>3, <1>7, <1>8, <1>9, <1>12 DEF SameQueues
  <2> QED BY <2>5, <2>6, <2>7, <1>7, QueryDropped
<1>13. CASE f.after = "nothing"
  <2>1. y = s
    BY <1>2, <1>13 DEF Afterwards
  <2>2. s' = x
    BY <2>1, <1>2, <1>4, <1>6
  <2> QED BY <2>2, <1>8, <1>9, <1>13
<1> QED BY <1>3, <1>11, <1>12, <1>13

\* Time goes by while no loop is under way.
LEMMA TickGood ==
  ASSUME IInv, Tick
  PROVE  IInv'
<1>1. /\ s' = s /\ now' = now + 1 /\ s.stack = <<>> /\ Good(s, {}, {}) /\ s \in State /\ now \in Nat
  BY DEF Tick, Idle, IInv, Good
<1>2. now' \in Nat /\ now' >= 1
  BY <1>1
<1>3. /\ s' \in State
      /\ Names(s', {}) /\ Queues(s', {}) /\ Freed(s', {})
      /\ Lists(s', {}) /\ Waiters(s', {}) /\ InHand(s', {}) /\ Asks(s', {})
  BY <1>1 DEF Good
<1>4. Loops(s)'
  <2>1. s'.stack = <<>> /\ DOMAIN <<>> = {}
    BY <1>1
  <2> QED BY <2>1 DEF Loops, Held
<1>5. Clock(s, {})'
  <2>1. \A n \in ToSet(s.resend) : s.node[n].expire \in Int
    BY <1>1, StateIs DEF Good, Queues, Names
  <2>2. \A n \in ToSet(s.resend) : s.node[n].expire <= (now + 1) + ResendTimeout
    <3>1. \A n \in ToSet(s.resend) : s.node[n].expire <= now + ResendTimeout
      BY <1>1 DEF Good, Clock
    <3>2. ResendTimeout \in Nat
      BY ResolverAssumption
    <3> QED BY <3>1, <3>2, <2>1, <1>1
  <2> QED BY <2>2, <1>1 DEF Good, Clock
<1> QED BY <1>2, <1>3, <1>4, <1>5 DEF IInv, Good

\* Every step keeps the invariant.
LEMMA StepGood ==
  ASSUME IInv, [ResolverNext]_resolverVars
  PROVE  IInv'
<1>1. Good(s, {}, {})
  BY DEF IInv
<1>2. ASSUME NEW c \in Ctx, NEW name \in Wanted, Resolve(c, name) PROVE IInv'
  <2>1. Good(s', {}, {}) /\ now' = now
    BY <1>2, ResolveGood DEF Resolve
  <2> QED BY <2>1, SameTime
<1>3. ASSUME NEW c \in Ctx, Cancel(c) \/ Timeout(c) PROVE IInv'
  <2>1. s' = ngx_resolve_name_done(s, c) /\ now' = now
    BY <1>3 DEF Cancel, Timeout
  <2>2. Good(s', {}, {})
    BY <2>1, <1>1, NameDoneGood
  <2> QED BY <2>1, <2>2, SameTime
<1>4. ASSUME NEW k \in 1..Len(s.asked), NEW a \in Answers, Respond(k, a[1], a[2]) PROVE IInv'
  <2>1. a[1] \in Type /\ a[2] \in Content
    BY AnswersAssumption
  <2>2. Good(s', {}, {}) /\ now' = now
    BY <2>1, <1>4, RespondGood DEF Respond
  <2> QED BY <2>2, SameTime
<1>5. CASE ResendTimer
  <2>1. Good(s', {}, {}) /\ now' = now
    BY <1>5, ResendTimerGood DEF ResendTimer
  <2> QED BY <2>1, SameTime
<1>6. CASE CallHandler
  <2>1. Good(s', {}, {}) /\ now' = now
    BY <1>6, CallHandlerGood DEF CallHandler
  <2> QED BY <2>1, SameTime
<1>7. CASE LoopEnds
  <2>1. Good(s', {}, {}) /\ now' = now
    BY <1>7, LoopEndsGood DEF LoopEnds
  <2> QED BY <2>1, SameTime
<1>8. CASE Tick
  BY <1>8, TickGood
<1>9. CASE Over \/ UNCHANGED resolverVars
  <2>1. s' = s /\ now' = now
    BY <1>9 DEF Over, resolverVars
  <2> QED BY <2>1, <1>1, SameTime
<1> QED BY <1>2, <1>3, <1>4, <1>5, <1>6, <1>7, <1>8, <1>9 DEF ResolverNext, Handlers

\* The inductive invariant of the resolver: its nodes, queues, lists, loops and
\* timer fit together between any two steps, whatever clients, servers and the
\* allocator do.
THEOREM ResolverInvariant == ResolverSpec => []IInv
<1>1. ResolverInit => IInv
  BY InitGood
<1>2. IInv /\ [ResolverNext]_resolverVars => IInv'
  BY StepGood
<1> QED BY <1>1, <1>2, PTL DEF ResolverSpec

-----------------------------------------------------------------------------
(* The properties.                                                         *)

\* How often an element stands in a queue without repetitions.
LEMMA Occurrences ==
  ASSUME NEW q \in Seq(Nat), IsInjective(q), NEW n
  PROVE  Cardinality({i \in DOMAIN q : q[i] = n}) = IF n \in ToSet(q) THEN 1 ELSE 0
<1>1. CASE n \in ToSet(q)
  <2>1. PICK i \in DOMAIN q : q[i] = n
    BY <1>1, ElementsAre
  <2>2. \A j \in DOMAIN q : q[j] = n => j = i
    BY <2>1 DEF IsInjective
  <2>3. {j \in DOMAIN q : q[j] = n} = {i}
    BY <2>1, <2>2
  <2> QED BY <2>3, <1>1, FS_Singleton
<1>2. CASE n \notin ToSet(q)
  <2>1. {j \in DOMAIN q : q[j] = n} = {}
    BY <1>2, ElementsAre
  <2> QED BY <2>1, <1>2, FS_EmptySet
<1> QED BY <1>1, <1>2

\* ngx_resolver_expire, ngx_resolver_process_a, ngx_resolve_name_locked and the
\* ends of loops lose no node and free none twice: a name has one node, in one of
\* the two queues, once, and what has left the tree is what loops still free.
THEOREM ResolverNodesAccounted == ResolverSpec => []NodesAccounted
<1>1. IInv => NodesAccounted
  <2> SUFFICES ASSUME IInv PROVE NodesAccounted
    OBVIOUS
  <2>1. /\ s \in State /\ s.resend \in Seq(Nat) /\ s.expire \in Seq(Nat)
        /\ IsInjective(s.resend) /\ IsInjective(s.expire)
    BY StateIs DEF IInv, Good, Queues
  <2>2. \A n, k \in s.tree : s.node[n].name = s.node[k].name => n = k
    BY DEF IInv, Good, Names
  <2>3. ToSet(s.resend) \cup ToSet(s.expire) \subseteq s.tree
    BY DEF IInv, Good, Queues
  <2>4. DOMAIN s.node \ s.tree =
          {s.stack[i].node : i \in {j \in DOMAIN s.stack : s.stack[j].after = "free"}}
    BY DEF IInv, Good, Freed, Freeing
  <2>5. ASSUME NEW n \in s.tree
        PROVE  Cardinality({i \in DOMAIN s.resend : s.resend[i] = n})
                 + Cardinality({i \in DOMAIN s.expire : s.expire[i] = n}) = 1
    <3>1. PICK p, q : p = s.resend /\ q = s.expire
      OBVIOUS
    <3>2. p \in Seq(Nat) /\ q \in Seq(Nat) /\ IsInjective(p) /\ IsInjective(q)
      BY <3>1, <2>1
    <3>3. Cardinality({i \in DOMAIN p : p[i] = n}) = IF n \in ToSet(p) THEN 1 ELSE 0
      BY <3>2, Occurrences
    <3>4. Cardinality({i \in DOMAIN q : q[i] = n}) = IF n \in ToSet(q) THEN 1 ELSE 0
      BY <3>2, Occurrences
    <3>5. n \in ToSet(p) <=> n \notin ToSet(q)
      BY <3>1 DEF IInv, Good, Queues
    <3>6. Cardinality({i \in DOMAIN p : p[i] = n}) + Cardinality({i \in DOMAIN q : q[i] = n}) = 1
      BY <3>3, <3>4, <3>5
    <3> QED BY <3>1, <3>6
  <2> QED BY <2>2, <2>3, <2>4, <2>5 DEF NodesAccounted
<1> QED BY <1>1, ResolverInvariant, PTL

\* A context that waits is in the list of one node, once; that node exists and is
\* in the queue of those to be sent again, through cancellations, timeouts,
\* answers and aliases.
THEOREM ResolverWaitersListed == ResolverSpec => []WaitersListed
<1>1. IInv => WaitersListed
  <2> SUFFICES ASSUME IInv PROVE WaitersListed
    OBVIOUS
  <2>1. s \in State /\ Lists(s, {}) /\ Waiters(s, {})
    BY DEF IInv, Good
  <2>2. ASSUME NEW n \in DOMAIN s.node, NEW i \in DOMAIN s.node[n].waiting
        PROVE  LET c == s.node[n].waiting[i]
               IN  /\ s.ctx[c].waits /\ s.ctx[c].node = n /\ n \in ToSet(s.resend)
                   /\ \A j \in DOMAIN s.node[n].waiting : s.node[n].waiting[j] = c => i = j
    <3>1. PICK q : q = s.node[n].waiting
      OBVIOUS
    <3>2. q \in Seq(Ctx) /\ IsInjective(q) /\ i \in DOMAIN q
      BY <3>1, <2>1, <2>2, StateIs DEF Lists
    <3>3. q[i] \in ToSet(q) /\ \A j \in DOMAIN q : q[j] = q[i] => i = j
      BY <3>2, ElementsAre DEF IsInjective
    <3>4. s.ctx[q[i]].waits /\ s.ctx[q[i]].node = n /\ n \in ToSet(s.resend)
      BY <3>1, <3>3, <2>1 DEF Lists
    <3> QED BY <3>1, <3>3, <3>4
  <2>3. \A c \in Ctx : s.ctx[c].waits =>
          IF s.ctx[c].node = NULL THEN s.faults > 0
          ELSE s.ctx[c].node \in s.tree /\ c \in ToSet(s.node[s.ctx[c].node].waiting)
    BY <2>1 DEF Waiters
  <2> QED BY <2>2, <2>3 DEF WaitersListed
<1> QED BY <1>1, ResolverInvariant, PTL

\* Handlers that expire nodes, ask again or are answered from the cache free
\* neither the node that a loop around them uses nor the contexts it has left.
THEOREM ResolverLoopsSafe == ResolverSpec => []LoopsSafe
<1>1. IInv => LoopsSafe
  <2> SUFFICES ASSUME IInv PROVE LoopsSafe
    OBVIOUS
  <2>1. /\ s \in State /\ Loops(s) /\ Freed(s, {}) /\ ToSet(s.expire) \subseteq s.tree
        /\ s.tree \subseteq DOMAIN s.node
    BY DEF IInv, Good, Queues, Names
  <2>2. ASSUME NEW i \in DOMAIN s.stack, s.stack[i].node # NULL PROVE s.stack[i].node \in DOMAIN s.node
    <3>1. CASE s.stack[i].after = "free"
      BY <3>1, <2>1 DEF Freed, Freeing
    <3>2. CASE s.stack[i].after # "free"
      <4>1. Held(s, s.stack[i].node)
        BY <3>2 DEF Held
      <4> QED BY <4>1, <2>1, <2>2 DEF Loops
    <3> QED BY <3>1, <3>2
  <2> QED BY <2>1, <2>2 DEF LoopsSafe, Loops
<1> QED BY <1>1, ResolverInvariant, PTL

\* r->event is set whenever a query is under way, and fires in time for each.
THEOREM ResolverTimerArmed == ResolverSpec => []TimerArmed
<1>1. IInv => TimerArmed
  BY DEF IInv, Good, Clock, TimerArmed
<1> QED BY <1>1, ResolverInvariant, PTL

\* Without faults every node that waits to be sent again has a query, and
\* something to ask for.
THEOREM ResolverStillAsking == ResolverSpec => []StillAsking
<1>1. IInv => StillAsking
  BY DEF IInv, Good, Asks, StillAsking
<1> QED BY <1>1, ResolverInvariant, PTL
=============================================================================
