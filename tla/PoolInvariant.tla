---------------------------- MODULE PoolInvariant ----------------------------
(***************************************************************************)
(* The inductive invariants behind the memory properties.  They are stated *)
(* for a pool s, the regions g given away, and the chunks loose that       *)
(* malloc has handed out but that no list holds yet: in the middle of      *)
(* ngx_palloc_large that is the new chunk, between operations none.        *)
(***************************************************************************)
EXTENDS PoolProperties

\* The pool sizes the header file's comments ask for: room for the header,
\* and a multiple of the alignment.
SoundSizes ==
  \A size \in PoolSizes :
    SizeofPool <= size /\ size < SizeMax /\ size % NGX_ALIGNMENT = 0

Sized(s) ==
  /\ SizeofPool <= s.size /\ s.size < SizeMax /\ s.size % NGX_ALIGNMENT = 0
  /\ s.max <= s.size - SizeofPool

\* d.last stays between the block's header and d.end.
Filled(s) ==
  \A i \in 1..Len(s.blk) :
    HeaderOf(i) <= s.blk[i].last /\ s.blk[i].last <= s.size

\* No two blocks share a chunk, no two headers hold the same chunk, and every
\* chunk is a block's, a header's or loose.
Owned(s, loose) ==
  /\ \A i, k \in 1..Len(s.blk) : s.blk[i].at = s.blk[k].at => i = k
  /\ \A j, k \in 1..Len(s.large) :
       j # k /\ s.large[j].alloc = s.large[k].alloc => s.large[j].alloc = NULL
  /\ s.heap = Blocks(s) \cup Allocs(s) \cup loose
  /\ Blocks(s) \cap Allocs(s) = {}
  /\ (Blocks(s) \cup Allocs(s)) \cap loose = {}
  /\ \A j \in 1..Len(s.large) : s.large[j].hdr.at \in Blocks(s)

\* What was given away lies in the filled part of a block, or is a whole
\* large chunk.
Placed(s, g) ==
  \A r \in g :
    /\ r.at \in Blocks(s) \cup Allocs(s)
    /\ \A i \in 1..Len(s.blk) : r.at = s.blk[i].at =>
         /\ HeaderOf(i) <= r.off /\ r.off + r.len <= s.blk[i].last
         /\ r.kind # "raw" => r.off % NGX_ALIGNMENT = 0
    /\ r.at \in Allocs(s) => r.off = 0 /\ \A q \in g : q.at = r.at => q = r

Apart(g) == \A r, q \in g : r # q => ~Overlap(r, q)

Sound(s, g, loose) ==
  Sized(s) /\ Filled(s) /\ Owned(s, loose) /\ Placed(s, g) /\ Apart(g)

\* Between FreeLarge and FreeBlocks only the blocks are left.
BlocksLeft(s, g) ==
  /\ s.heap = Blocks(s) /\ BlocksFreeable(s)
  /\ \A r \in g : r.at \in Blocks(s)

\* The inductive invariant of the pool's memory: between any two operations,
\* failed ones included, the pool is sound and owns all of its heap.
MemoryInv ==
  /\ status \in {"live", "cleanup", "handler"} => Sound(pool, given, {})
  /\ status = "blocks" => BlocksLeft(pool, given)
  /\ status = "destroyed" => pool.heap = {}
  /\ status = "none" => given = {} /\ pool.blk = <<>>
  /\ WellPlaced /\ Disjoint /\ GivenLive

-----------------------------------------------------------------------------
(* The failure counters of the chain, for a pool s.                        *)

\* RetiredAfterSix.
Ages(s) ==
  \A i \in 1..Len(s.blk) :
    /\ i < s.current => s.blk[i].failed = 6
    /\ i >= s.current => s.blk[i].failed <= 5
    /\ i = Len(s.blk) => s.blk[i].failed = 0
    /\ \A j \in s.current..i : s.blk[j].failed >= s.blk[i].failed

\* Without a reset a block has failed once for every block after its next.
Lockstep(s) ==
  \A i \in s.current..(Len(s.blk) - 1) : s.blk[i].failed = Len(s.blk) - i - 1

NeverReset == Scenarios \cap {"reset", "reset_hooked"} = {}

ChainOK(s) == s.current \in Nat /\ Ages(s) /\ (NeverReset => Lockstep(s))

\* The inductive invariant of the failure counters: they are what the number
\* of blocks allocated since the last reset makes them.
ChainInv == ChainOK(pool)

-----------------------------------------------------------------------------
(* The cleanup nodes, for a pool s, the regions g given away and what the  *)
(* client has registered, t.                                               *)

\* The clients that destroy the pool once, reset it only without cleanup nodes
\* and do not go on after a failed constructor.
CarefulClient == Scenarios \cap {"reset_hooked", "destroy_twice", "create_fails"} = {}

\* Where the list is after its first k - 1 nodes.
NodeFrom(t, k) == IF k <= Len(t) THEN t[k].node ELSE NULL

\* What was registered is what the nodes in memory say: they are linked in the
\* order of t, each with its handler, and their bytes are nobody else's.
Listed(s, g, t) ==
  \A k \in 1..Len(t) :
    /\ t[k].node # NULL /\ t[k].node \in DOMAIN s.cell /\ NodeAt(t[k].node) \in g
    /\ s.cell[t[k].node].handler = t[k].hook
    /\ s.cell[t[k].node].next = NodeFrom(t, k + 1)
    /\ \A j \in 1..Len(t) : j # k => /\ t[j].node # t[k].node
                                     /\ t[k].hook # NULL => t[j].hook # t[k].hook

\* The loop of ngx_destroy_pool is done with the first n nodes.
Passed(t, n) ==
  \A k \in 1..Len(t) : /\ k <= n => t[k].hook = NULL \/ t[k].done
                       /\ k > n => ~t[k].done

\* The inductive invariant of the cleanup list: while handlers run, which may add
\* nodes in front of the list, c points at the nodes registered before.
CleanupInv ==
  /\ status \notin {"ub", "failed_reported", "failed_silent"} /\ ~misrun
  /\ status = "none" => todo = <<>>
  /\ status \in {"live", "cleanup", "handler"} => Listed(pool, given, todo)
  /\ status = "live" =>
       /\ pool.cleanup = NodeFrom(todo, 1) /\ Passed(todo, 0)
       /\ \A a \in DOMAIN pool.cell : \E k \in 1..Len(todo) : todo[k].node = a
  /\ status = "cleanup" =>
       \E n \in 0..Len(todo) : it = NodeFrom(todo, n + 1) /\ Passed(todo, n)
  /\ status = "handler" =>
       \E n \in 1..Len(todo) : it = NodeFrom(todo, n) /\ Passed(todo, n)
  /\ status \in {"blocks", "destroyed"} => Passed(todo, Len(todo))
=============================================================================
