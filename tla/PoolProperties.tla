--------------------------- MODULE PoolProperties ---------------------------
(***************************************************************************)
(* What makes the pool correct.                                            *)
(***************************************************************************)
EXTENDS NgxMemPool

Kind == {"client", "raw", "header", "node", "data"}

Status == {"none", "live", "cleanup", "handler", "blocks", "destroyed", "ub",
           "failed_reported", "failed_silent"}

Address == [at : Chunk, off : Nat]

Block == [at : Chunk, last : Nat, failed : Nat]

Header == [hdr : Address, alloc : Chunk \cup {NULL}]

Node == [handler : Hook \cup {NULL}, data : Address \cup {NULL},
         next : Address \cup {NULL}]

Entry == [node : Address, hook : Hook \cup {NULL}, done : BOOLEAN]

\* A record with the fields of a pool.
PoolShape(s) ==
  s = [heap |-> s.heap, size |-> s.size, max |-> s.max, blk |-> s.blk,
       current |-> s.current, large |-> s.large, cleanup |-> s.cleanup,
       cell |-> s.cell]

\* The fields of a pool, and current on the chain as soon as there is one.
PoolType(s) ==
  /\ PoolShape(s)
  /\ s.heap \subseteq Chunk
  /\ s.size \in Nat /\ s.max \in Nat
  /\ s.blk \in Seq(Block)
  /\ s.blk # <<>> => s.current \in 1..Len(s.blk)
  /\ s.large \in Seq(Header)
  /\ s.cleanup \in Address \cup {NULL}
  /\ \A a \in DOMAIN s.cell : a \in Address /\ s.cell[a] \in Node

(***************************************************************************)
(* The types of the pool's fields and of the model's own variables; there  *)
(* is a block, and pool->current is one of the chain, while the pool lives.*)
(***************************************************************************)
TypeOK ==
  /\ PoolType(pool)
  /\ status \in Status
  /\ status \in {"live", "cleanup", "handler", "blocks"} => pool.blk # <<>>
  /\ it \in Address \cup {NULL}
  /\ given \subseteq [at : Chunk, off : Nat, len : Nat, kind : Kind]
  /\ todo \in Seq(Entry)
  /\ misrun \in BOOLEAN

(***************************************************************************)
(* Memory.                                                                 *)
(***************************************************************************)

\* Bytes at the front of block i that hold its header.
HeaderOf(i) == IF i = 1 THEN SizeofPool ELSE SizeofData

\* Everything ngx_palloc_small and ngx_palloc_block give away lies inside its
\* block, behind the block's header, and aligned unless pnalloc asked.
WellPlaced ==
  \A i \in 1..Len(pool.blk), r \in given :
    r.at = pool.blk[i].at =>
      /\ HeaderOf(i) <= r.off /\ r.off + r.len <= pool.size
      /\ r.kind # "raw" => r.off % NGX_ALIGNMENT = 0

\* Two regions given away (client memory, headers of large memory, cleanup
\* nodes and their data) never share a byte, through any sequence of
\* palloc, pnalloc, pcalloc, pfree, cleanup_add and reset.
Disjoint == \A r, q \in given : r # q => ~Overlap(r, q)

\* Memory given away stays malloc'ed until the client or the destructor gives
\* it up: no pfree of one pointer frees another's chunk.
GivenLive == \A r \in given : r.at \in pool.heap

\* Every chunk that is malloc'ed is owned by exactly one block or one large
\* header, also after each failure path, while handlers run nothing has been
\* freed, and after ngx_destroy_pool nothing is left.
HeapAccounted ==
  /\ status \in {"live", "cleanup", "handler"} =>
       /\ pool.heap = Blocks(pool) \cup Allocs(pool)
       /\ Blocks(pool) \cap Allocs(pool) = {}
       /\ BlocksFreeable(pool) /\ LargeFreeable(pool)
  /\ status = "blocks" => pool.heap = Blocks(pool)
  /\ status = "destroyed" => pool.heap = {}

\* No double free, no use of freed or overwritten memory, no write past a
\* chunk, in the pool's own code.
NoUndefined == status # "ub"

\* A block is given up (current moves past it) exactly when a sixth request
\* has failed on it; from current on the counters never rise along the chain,
\* and the last block has never failed.
RetiredAfterSix ==
  \A i \in 1..Len(pool.blk) :
    /\ i < pool.current => pool.blk[i].failed = 6
    /\ i >= pool.current => pool.blk[i].failed <= 5
    /\ i = Len(pool.blk) => pool.blk[i].failed = 0
    /\ \A j \in pool.current..i : pool.blk[j].failed >= pool.blk[i].failed

\* In a pool that is never reset ngx_palloc_small looks at 7 blocks at most.
ShortSearch == Len(pool.blk) - pool.current <= 6

\* ngx_rest_pool makes every block it keeps fit for any small request.
ResetReclaims ==
  [][ResetPool /\ status' = "live" =>
       \A i \in 1..Len(pool.blk) :
         Room(pool', pool'.blk[i], TRUE) >= pool.max]_vars

(***************************************************************************)
(* Cleanup.                                                                *)
(***************************************************************************)

\* Every handler registered before the destruction runs exactly once, the
\* last one registered first, even if handlers allocate, free and register.
HandlersRunOnce ==
  /\ ~misrun
  /\ status \in {"blocks", "destroyed"} => Pending(todo) = {}

\* ngx_destroy_pool comes to its end.
DestroyCompletes == (status = "cleanup") ~> (status = "destroyed")
=============================================================================
