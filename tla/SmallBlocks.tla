---------------------------- MODULE SmallBlocks -----------------------------
(***************************************************************************)
(* The chain of small blocks: ngx_palloc_small and ngx_palloc_block.       *)
(*                                                                         *)
(* The operators act on a pool state s, a record of which this module uses *)
(*   heap     the chunks that malloc has handed out and free not taken     *)
(*   size     the size ngx_create_pool was given; every block has it       *)
(*   max      pool->max, the largest request the blocks serve              *)
(*   blk      the chain by d.next, first block first; each block is        *)
(*            [at, last, failed]: its chunk, d.last as an offset, d.failed *)
(*   current  the index of pool->current in the chain                      *)
(*                                                                         *)
(* malloc may always fail, so an operation has a set of outcomes           *)
(* [s, ret, new]: the pool after it, the address it returns (or NULL), and *)
(* the regions it gave away (to the client, or to a structure of its own). *)
(***************************************************************************)
EXTENDS PoolLayout, Sequences

CONSTANTS
  MaxChunks,   \* bound: at most this many chunks are malloc'ed at a time
  NULL

Chunk == 1..MaxChunks

ASSUME ChunksAssumption == MaxChunks \in Nat /\ NULL \notin Chunk

Addr(c, o) == [at |-> c, off |-> o]

Region(a, len, kind) ==
  [at |-> a.at, off |-> a.off, len |-> len, kind |-> kind]

Outcome(s, ret, new) == [s |-> s, ret |-> ret, new |-> new]

\* The first elements of a walk by increasing index (at most one).
FirstOf(S) == {i \in S : \A j \in S : i <= j}

(***************************************************************************)
(* malloc: no memory, or a chunk that is not in use.  Which one makes no   *)
(* difference but for reuse after free: take the lowest.                   *)
(***************************************************************************)
Malloc(heap) == {NULL} \cup FirstOf(Chunk \ heap)

-----------------------------------------------------------------------------
\* Where a request starts in block b: d.last, aligned on demand.
Start(b, align) ==
  IF align THEN ngx_align_ptr(b.last, NGX_ALIGNMENT) ELSE b.last

\* (size_t) (p->d.end - m)
Room(s, b, align) == ToSizeT(s.size - Start(b, align))

\* Blocks of the do-while walk, from pool->current on, with room for size.
Fitting(s, size, align) ==
  {i \in s.current..Len(s.blk) : Room(s, s.blk[i], align) >= size}

\* Mutated form of Carve: d.last moves by size, the alignment gap is lost.
Carve_gap(s, i, size, align) == [s EXCEPT !.blk[i].last = @ + size]

\* p->d.last = m + size
Carve(s, i, size, align) ==
  [s EXCEPT !.blk[i].last = Start(s.blk[i], align) + size]

-----------------------------------------------------------------------------
\* Mutated form of Exhausted: the threshold is off by one.
Exhausted_late(s) ==
  {i \in s.current..(Len(s.blk) - 1) : s.blk[i].failed > 5}

\* Blocks the loop of ngx_palloc_block finds with failed > 4.
Exhausted(s) == {i \in s.current..(Len(s.blk) - 1) : s.blk[i].failed > 4}

\* Mutated form of NextCurrent: an exhausted block stays current.
NextCurrent_stay(s) == {s.current}

\* pool->current after that loop: the block behind the last exhausted one,
\* or unchanged (a singleton).
NextCurrent(s) ==
  {c \in s.current..Len(s.blk) :
     /\ \A i \in Exhausted(s) : i < c
     /\ c = s.current \/ c - 1 \in Exhausted(s)}

\* d.failed++ for every block from current on, the last one excepted.
Aged(s) ==
  [i \in 1..Len(s.blk) |->
     IF s.current <= i /\ i < Len(s.blk)
     THEN [s.blk[i] EXCEPT !.failed = @ + 1] ELSE s.blk[i]]

\* The first address behind the header of a new block.
BlockStart == ngx_align_ptr(SizeofData, NGX_ALIGNMENT)

\* A new block in chunk c serves a request of size at once.
AppendBlock(s, c, cur, size) ==
  [s EXCEPT !.heap = @ \cup {c},
            !.blk = Append(Aged(s), [at |-> c, failed |-> 0,
                                     last |-> BlockStart + size]),
            !.current = cur]

\* ngx_palloc_block
ngx_palloc_block(s, size, kind) ==
  {IF c = NULL THEN Outcome(s, NULL, {})
   ELSE Outcome(AppendBlock(s, c, cur, size), Addr(c, BlockStart),
                {Region(Addr(c, BlockStart), size, kind)})
     : c \in Malloc(s.heap), cur \in NextCurrent(s)}

\* ngx_palloc_small: the first block with room, or else a new block.
ngx_palloc_small(s, size, align, kind) ==
  LET fit     == Fitting(s, size, align)
      addr(i) == Addr(s.blk[i].at, Start(s.blk[i], align))
  IN  {Outcome(Carve(s, i, size, align), addr(i), {Region(addr(i), size, kind)})
         : i \in FirstOf(fit)}
      \cup (IF fit = {} THEN ngx_palloc_block(s, size, kind) ELSE {})
=============================================================================
