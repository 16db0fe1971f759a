----------------------------- MODULE NgxMemPool -----------------------------
(***************************************************************************)
(* The class ngx_mem_pool (ngx_mem_pool_x64.cpp; m32/ngx_mem_pool.cpp is   *)
(* the same text): one pool object, driven by the client that owns it, by  *)
(* the cleanup handlers the client registered, and by its destructor.      *)
(*                                                                         *)
(* Beside the fields of SmallBlocks, the pool state has                    *)
(*   large    the list pool->large, head first; each header is             *)
(*            [hdr, alloc]: its own address and the chunk, or NULL         *)
(*   cleanup  pool->cleanup, the address of a node or NULL                 *)
(*   cell     the cleanup nodes in memory: address -> [handler, data, next]*)
(*            An address whose bytes were overwritten or freed is not in   *)
(*            its domain: what a read of it returns is undefined.          *)
(* The other variables:                                                    *)
(*   status   the life of the object; "handler" while a handler runs,      *)
(*            "ub" once the program has done something undefined           *)
(*   it       the loop variable c of ngx_destroy_pool                      *)
(*   given    history: the regions given away and not taken back           *)
(*   todo     history: what the client has registered, newest first        *)
(*   misrun   history: a handler ran twice or out of order                 *)
(***************************************************************************)
EXTENDS SmallBlocks, Functions, FiniteSets

CONSTANTS
  PoolSizes,     \* arguments of the constructor
  PallocSizes,   \* requests of the client: ngx_palloc,
  PnallocSizes,  \* ngx_pnalloc
  PcallocSizes,  \* and ngx_pcalloc
  CleanupSizes,  \* arguments of ngx_pool_cleanup_add
  Hook,          \* the client's handlers, each one registered once
  MaxNodes,      \* bound: cleanup nodes at a time
  Scenarios      \* what else the client or the system may do, among
                 \* "reset", "reset_hooked", "destroy_twice", "create_fails"

ASSUME SizesAssumption ==
  /\ PoolSizes \subseteq Nat /\ PallocSizes \subseteq Nat
  /\ PnallocSizes \subseteq Nat /\ PcallocSizes \subseteq Nat
  /\ CleanupSizes \subseteq Nat

VARIABLES pool, status, it, given, todo, misrun

vars == <<pool, status, it, given, todo, misrun>>

NoPool == [heap |-> {}, size |-> 0, max |-> 0, blk |-> <<>>, current |-> 1,
           large |-> <<>>, cleanup |-> NULL, cell |-> <<>>]

\* Client code runs, its own or one of its handlers.
InUse == status \in {"live", "handler"}

-----------------------------------------------------------------------------
(* Cleanup nodes in memory.                                                *)

Overlap(r, q) == /\ r.at = q.at
                 /\ r.off < q.off + q.len /\ q.off < r.off + r.len

NodeAt(a) == Region(a, SizeofCleanup, "node")

\* Someone writes region r: the nodes it touches are lost.
Overwritten(cell, r) ==
  RestrictDomain(cell, LAMBDA a : ~Overlap(NodeAt(a), r))

Scribble(s, r) == [s EXCEPT !.cell = Overwritten(@, r)]

\* Nodes wholly inside r become all zero, others that it touches are lost.
Zeroed(cell, r) ==
  LET inside == {a \in DOMAIN cell : /\ a.at = r.at /\ r.off <= a.off
                                     /\ a.off + SizeofCleanup <= r.off + r.len}
      zero   == [handler |-> NULL, data |-> NULL, next |-> NULL]
  IN  [a \in inside \cup DOMAIN Overwritten(cell, r) |->
         IF a \in inside THEN zero ELSE cell[a]]

ngx_memzero(s, r) == [s EXCEPT !.cell = Zeroed(@, r)]

\* free
Free(s, chunks) ==
  [s EXCEPT !.heap = @ \ chunks,
            !.cell = RestrictDomain(@, LAMBDA a : a.at \notin chunks)]

-----------------------------------------------------------------------------
(* Large memory.                                                           *)

\* The headers the loop of ngx_palloc_large looks at: n++ > 3 ends it.
ReuseWindow == 5

\* The first of those headers without a chunk.
Reusable(s) ==
  FirstOf({j \in 1..Len(s.large) : j <= ReuseWindow /\ s.large[j].alloc = NULL})

\* large->alloc = p
ReuseHeader(s, j, c) == [s EXCEPT !.large[j].alloc = c]

\* large->alloc, large->next and pool_->large for a new header at a.
PushHeader(s, a, c) ==
  [s EXCEPT !.large = <<[hdr |-> a, alloc |-> c]>> \o @,
            !.cell  = Overwritten(@, Region(a, SizeofLarge, "header"))]

\* Mutated form of LargeHeaderFailed: free(p) is forgotten.
LargeHeaderFailed_leak(s, c) == Outcome(s, NULL, {})

\* No memory for the header: free(p).
LargeHeaderFailed(s, c) == Outcome(Free(s, {c}), NULL, {})

\* ngx_palloc_large, once malloc has returned c.
LargeIn(s, c, size, kind) ==
  LET whole == Region(Addr(c, 0), size, kind)
  IN  IF Reusable(s) # {}
      THEN {Outcome(ReuseHeader(s, j, c), Addr(c, 0), {whole})
              : j \in Reusable(s)}
      ELSE {IF o.ret = NULL THEN LargeHeaderFailed(o.s, c)
            ELSE Outcome(PushHeader(o.s, o.ret, c), Addr(c, 0),
                         o.new \cup {whole})
              : o \in ngx_palloc_small(s, SizeofLarge, TRUE, "header")}

\* malloc has handed out chunk c.
Taken(s, c) == [s EXCEPT !.heap = @ \cup {c}]

ngx_palloc_large(s, size, kind) ==
  UNION {IF c = NULL THEN {Outcome(s, NULL, {})}
         ELSE LargeIn(Taken(s, c), c, size, kind)
           : c \in Malloc(s.heap)}

ngx_palloc(s, size, kind) ==
  IF size <= s.max THEN ngx_palloc_small(s, size, TRUE, kind)
  ELSE ngx_palloc_large(s, size, kind)

ngx_pnalloc(s, size, kind) ==
  IF size <= s.max THEN ngx_palloc_small(s, size, FALSE, kind)
  ELSE ngx_palloc_large(s, size, kind)

ngx_pcalloc(s, size, kind) ==
  {IF o.ret = NULL THEN o
   ELSE Outcome(ngx_memzero(o.s, Region(o.ret, size, kind)), o.ret, o.new)
     : o \in ngx_palloc(s, size, kind)}

\* free(l->alloc); l->alloc = nullptr
DropAlloc(s, j) == [Free(s, {s.large[j].alloc}) EXCEPT !.large[j].alloc = NULL]

\* Mutated form of Holder: any header with a chunk is taken for p's.
Holder_any(s, p) ==
  FirstOf({j \in 1..Len(s.large) : s.large[j].alloc # NULL})

\* The first header whose alloc is p: only the start of a large chunk is
\* found; p = nullptr is found too, and freeing nullptr does nothing.
Holder(s, p) ==
  FirstOf({j \in 1..Len(s.large) :
             s.large[j].alloc # NULL /\ Addr(s.large[j].alloc, 0) = p})

ngx_pfree(s, p) ==
  IF Holder(s, p) = {} THEN {s} ELSE {DropAlloc(s, j) : j \in Holder(s, p)}

-----------------------------------------------------------------------------
(* Cleanup, reset, destruction.                                            *)

\* Mutated form of LinkNode: c->next is not set to the old list.
LinkNode_cut(s, a, data) ==
  LET node == [handler |-> NULL, data |-> data, next |-> NULL]
      kept == Overwritten(s.cell, NodeAt(a))
  IN  [s EXCEPT !.cleanup = a,
                !.cell = [b \in DOMAIN kept \cup {a} |->
                            IF b = a THEN node ELSE kept[b]]]

\* c->handler, c->next and pool_->cleanup for a node at a.
LinkNode(s, a, data) ==
  LET node == [handler |-> NULL, data |-> data, next |-> s.cleanup]
      kept == Overwritten(s.cell, NodeAt(a))
  IN  [s EXCEPT !.cleanup = a,
                !.cell = [b \in DOMAIN kept \cup {a} |->
                            IF b = a THEN node ELSE kept[b]]]

\* ngx_pool_cleanup_add: the node, its data if any, then the links.
ngx_pool_cleanup_add(s, size) ==
  UNION {IF c.ret = NULL THEN {c}
         ELSE {IF size > 0 /\ d.ret = NULL
               THEN Outcome(Scribble(d.s, NodeAt(c.ret)), NULL, c.new \cup d.new)
               ELSE Outcome(LinkNode(d.s, c.ret, d.ret), c.ret, c.new \cup d.new)
                 : d \in IF size > 0 THEN ngx_palloc(c.s, size, "data")
                         ELSE {Outcome(c.s, NULL, {})}}
           : c \in ngx_palloc(s, SizeofCleanup, "node")}

Allocs(s) == {s.large[j].alloc : j \in 1..Len(s.large)} \ {NULL}

Blocks(s) == {s.blk[i].at : i \in 1..Len(s.blk)}

\* The loops over pool_->large read every header and free every chunk once.
LargeFreeable(s) ==
  /\ \A j \in 1..Len(s.large) : s.large[j].hdr.at \in s.heap
  /\ Allocs(s) \subseteq s.heap
  /\ \A j, k \in 1..Len(s.large) :
       j # k /\ s.large[j].alloc = s.large[k].alloc => s.large[j].alloc = NULL

\* The loop over the blocks reads d.next of, and frees, every block once.
BlocksFreeable(s) ==
  /\ Blocks(s) \subseteq s.heap
  /\ \A i, k \in 1..Len(s.blk) : s.blk[i].at = s.blk[k].at => i = k

\* Mutated form of Rewound: only the first block is rewound.
Rewound_first(s) ==
  [i \in 1..Len(s.blk) |->
     IF i = 1 THEN [s.blk[i] EXCEPT !.last = SizeofPool, !.failed = 0]
     ELSE s.blk[i]]

\* d.last and d.failed of every block in ngx_rest_pool.
Rewound(s) ==
  [i \in 1..Len(s.blk) |->
     [s.blk[i] EXCEPT !.last = SizeofPool, !.failed = 0]]

\* Mutated form of ngx_rest_pool: pool_->large still lists freed chunks.
ngx_rest_pool_large(s) ==
  [Free(s, Allocs(s)) EXCEPT !.blk = Rewound(s), !.current = 1]

\* ngx_rest_pool: pool_->cleanup is left as it is.
ngx_rest_pool(s) ==
  [Free(s, Allocs(s)) EXCEPT !.blk = Rewound(s), !.current = 1, !.large = <<>>]

-----------------------------------------------------------------------------
(* Steps of the client.                                                    *)

\* Mutated form of NewPool: pool->current is not set.
NewPool_uninit(c, size) ==
  [NoPool EXCEPT !.heap = {c}, !.size = size, !.max = MaxOf(size), !.current = 0,
                 !.blk = <<[at |-> c, last |-> SizeofPool, failed |-> 0]>>]

\* What ngx_create_pool stores in the chunk c.
NewPool(c, size) ==
  [NoPool EXCEPT !.heap = {c}, !.size = size, !.max = MaxOf(size),
                 !.blk = <<[at |-> c, last |-> SizeofPool, failed |-> 0]>>]

\* The constructor.  When malloc fails pool_ keeps an indeterminate value,
\* and the test of pool_ reports the failure or does not.  The header of a
\* pool that is too small is written past the end of the chunk.
Create(size) ==
  /\ status = "none"
  /\ \/ \E c \in Malloc(pool.heap) \ {NULL} :
          /\ pool' = NewPool(c, size)
          /\ status' = IF size >= SizeofPool THEN "live" ELSE "ub"
     \/ /\ "create_fails" \in Scenarios
        /\ pool' = pool
        /\ status' \in {"failed_reported", "failed_silent"}
  /\ UNCHANGED <<it, given, todo, misrun>>

\* Any member function, the destructor included, after a failed constructor.
UseFailed ==
  /\ status \in {"failed_reported", "failed_silent"}
  /\ status' = "ub"
  /\ UNCHANGED <<pool, it, given, todo, misrun>>

Apply(outcomes) ==
  /\ InUse
  /\ \E o \in outcomes : /\ pool' = o.s
                         /\ given' = given \cup o.new
  /\ UNCHANGED <<status, it, todo, misrun>>

Palloc(size)  == Apply(ngx_palloc(pool, size, "client"))
Pnalloc(size) == Apply(ngx_pnalloc(pool, size, "raw"))
Pcalloc(size) == Apply(ngx_pcalloc(pool, size, "client"))

\* The client passes a pointer it got; small memory is not taken back.
Pfree ==
  /\ InUse
  /\ \E r \in {g \in given : g.kind \in {"client", "raw"}} :
       /\ pool' \in ngx_pfree(pool, Addr(r.at, r.off))
       /\ given' = IF r.at \in Blocks(pool) THEN given ELSE given \ {r}
  /\ UNCHANGED <<status, it, todo, misrun>>

\* The client stores into memory it got, over what was a cleanup node.
ClientWrite ==
  /\ InUse
  /\ \E r \in {g \in given : g.kind \in {"client", "raw", "data"}} :
       /\ \E a \in DOMAIN pool.cell : Overlap(NodeAt(a), r)
       /\ pool' = Scribble(pool, r)
  /\ UNCHANGED <<status, it, given, todo, misrun>>

\* todo expects nothing of a node added while the pool is being destroyed.
CleanupAdd(size) ==
  /\ InUse /\ Len(todo) < MaxNodes
  /\ Cardinality({r \in given : r.kind = "node"}) < MaxNodes
  /\ \E o \in ngx_pool_cleanup_add(pool, size) :
       /\ pool' = o.s
       /\ given' = given \cup o.new
       /\ todo' = IF o.ret = NULL \/ status = "handler" THEN todo
                  ELSE <<[node |-> o.ret, hook |-> NULL, done |-> FALSE]>> \o todo
  /\ UNCHANGED <<status, it, misrun>>

WithHandler(s, a, h) == [s EXCEPT !.cell[a].handler = h]

\* c->handler = h, through the pointer that ngx_pool_cleanup_add returned.
\* A handler may do so for a node it has added itself.
SetHandler(h) ==
  /\ InUse
  /\ \A a \in DOMAIN pool.cell : pool.cell[a].handler # h
  /\ \A k \in 1..Len(todo) : todo[k].hook # h
  /\ \E a \in DOMAIN pool.cell :
       /\ NodeAt(a) \in given /\ pool.cell[a].handler = NULL
       /\ status = "live" \/ \A k \in 1..Len(todo) : todo[k].node # a
       /\ pool' = WithHandler(pool, a, h)
       /\ LET k == FirstOf({j \in 1..Len(todo) : todo[j].node = a})
          IN  todo' = [j \in 1..Len(todo) |->
                         IF j \in k THEN [todo[j] EXCEPT !.hook = h] ELSE todo[j]]
  /\ UNCHANGED <<status, it, given, misrun>>

ResetPool ==
  /\ status = "live"
  /\ \/ "reset" \in Scenarios /\ pool.cleanup = NULL
     \/ "reset_hooked" \in Scenarios
  /\ IF LargeFreeable(pool)
     THEN pool' = ngx_rest_pool(pool) /\ given' = {} /\ UNCHANGED status
     ELSE status' = "ub" /\ UNCHANGED <<pool, given>>
  /\ UNCHANGED <<it, todo, misrun>>

-----------------------------------------------------------------------------
(* ngx_destroy_pool, called by the destructor: handlers are client code    *)
(* that may call the pool again, so each iteration is a step.              *)

BeginDestroy ==
  /\ status = "live"
  /\ status' = "cleanup" /\ it' = pool.cleanup
  /\ UNCHANGED <<pool, given, todo, misrun>>

\* The read of a node that is no longer there.
LostNode ==
  /\ status \in {"cleanup", "handler"} /\ it # NULL /\ it \notin DOMAIN pool.cell
  /\ status' = "ub"
  /\ UNCHANGED <<pool, it, given, todo, misrun>>

SkipHandler ==
  /\ status = "cleanup" /\ it # NULL /\ it \in DOMAIN pool.cell
  /\ pool.cell[it].handler = NULL
  /\ it' = pool.cell[it].next
  /\ UNCHANGED <<pool, status, given, todo, misrun>>

\* The registrations with a handler that has not run.
Pending(t) == {k \in 1..Len(t) : t[k].hook # NULL /\ ~t[k].done}

CallHandler ==
  /\ status = "cleanup" /\ it # NULL /\ it \in DOMAIN pool.cell
  /\ pool.cell[it].handler # NULL
  /\ status' = "handler"
  /\ LET h == pool.cell[it].handler
     IN  /\ misrun' = (misrun \/ \A k \in FirstOf(Pending(todo)) : todo[k].hook # h)
         /\ todo' = [k \in 1..Len(todo) |->
                       [todo[k] EXCEPT !.done = @ \/ todo[k].hook = h]]
  /\ UNCHANGED <<pool, it, given>>

\* Mutated form of HandlerReturns: c is not advanced.
HandlerReturns_stuck ==
  /\ status = "handler" /\ it \in DOMAIN pool.cell
  /\ status' = "cleanup" /\ it' = it
  /\ UNCHANGED <<pool, given, todo, misrun>>

HandlerReturns ==
  /\ status = "handler" /\ it \in DOMAIN pool.cell
  /\ status' = "cleanup" /\ it' = pool.cell[it].next
  /\ UNCHANGED <<pool, given, todo, misrun>>

FreeLarge ==
  /\ status = "cleanup" /\ it = NULL
  /\ IF LargeFreeable(pool)
     THEN /\ pool' = Free(pool, Allocs(pool)) /\ status' = "blocks"
          /\ given' = {r \in given : r.at \notin Allocs(pool)}
     ELSE status' = "ub" /\ UNCHANGED <<pool, given>>
  /\ UNCHANGED <<it, todo, misrun>>

FreeBlocks ==
  /\ status = "blocks"
  /\ IF BlocksFreeable(pool)
     THEN pool' = Free(pool, Blocks(pool)) /\ status' = "destroyed" /\ given' = {}
     ELSE status' = "ub" /\ UNCHANGED <<pool, given>>
  /\ UNCHANGED <<it, todo, misrun>>

\* The destructor after an explicit ngx_destroy_pool: pool_ still points at
\* the freed first block, and pool_->cleanup is read from it.
DestroyAgain ==
  /\ status = "destroyed" /\ "destroy_twice" \in Scenarios
  /\ status' = "ub"
  /\ UNCHANGED <<pool, it, given, todo, misrun>>

\* The object is gone, or nothing more can be said.
Ended ==
  /\ status \in {"destroyed", "ub"}
  /\ UNCHANGED vars

-----------------------------------------------------------------------------
Init ==
  /\ pool = NoPool /\ status = "none" /\ it = NULL
  /\ given = {} /\ todo = <<>> /\ misrun = FALSE

DestroyStep ==
  \/ LostNode \/ SkipHandler \/ CallHandler \/ HandlerReturns
  \/ FreeLarge \/ FreeBlocks

Next ==
  \/ \E size \in PoolSizes : Create(size)
  \/ UseFailed
  \/ \E size \in PallocSizes : Palloc(size)
  \/ \E size \in PnallocSizes : Pnalloc(size)
  \/ \E size \in PcallocSizes : Pcalloc(size)
  \/ Pfree
  \/ ClientWrite
  \/ \E size \in CleanupSizes : CleanupAdd(size)
  \/ \E h \in Hook : SetHandler(h)
  \/ ResetPool
  \/ BeginDestroy
  \/ DestroyStep
  \/ DestroyAgain
  \/ Ended

Spec == Init /\ [][Next]_vars

\* One thread runs the destructor to its end, and handlers return.
FairSpec == Spec /\ WF_vars(DestroyStep)
=============================================================================
