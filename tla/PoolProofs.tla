----------------------------- MODULE PoolProofs -----------------------------
(***************************************************************************)
(* Lemmas about the operators of PoolLayout, SmallBlocks and NgxMemPool:   *)
(* the arithmetic of addresses, what each update of a pool leaves alone,   *)
(* and the outcomes each operation of the pool can have; type correctness; *)
(* then memory safety of the pool for every layout, every number of chunks *)
(* and all request sizes, when the pool's size is a multiple of the        *)
(* alignment and has room for the header.                                  *)
(*                                                                         *)
(* Last, the cleanup list of the pool and its destruction, for any number  *)
(* of handlers and whatever they do with the pool, when the client is a    *)
(* careful one: the nodes registered stay in memory as they were written,  *)
(* because MemoryInv keeps their bytes apart from all others, so the loop  *)
(* of ngx_destroy_pool meets each of them once.  From that the pool        *)
(* implements AbstractPool.                                                *)
(***************************************************************************)
EXTENDS PoolProperties, PoolInvariant, PoolRefinement, TLAPS

-----------------------------------------------------------------------------
(* Arithmetic and helpers.                                                 *)

\* ngx_align_ptr moves up, by less than the alignment, to a multiple of it.
LEMMA AlignUp ==
  ASSUME NEW p \in Nat, NEW a \in {4, 8}
  PROVE  /\ ngx_align_ptr(p, a) \in Nat
         /\ p <= ngx_align_ptr(p, a) /\ ngx_align_ptr(p, a) < p + a
         /\ ngx_align_ptr(p, a) % a = 0
<1>1. CASE a = 4 BY <1>1 DEF ngx_align_ptr
<1>2. CASE a = 8 BY <1>2 DEF ngx_align_ptr
<1> QED BY <1>1, <1>2

\* It never passes a multiple of the alignment, so never an aligned end.
LEMMA AlignBelow ==
  ASSUME NEW p \in Nat, NEW a \in {4, 8}, NEW e \in Nat, e % a = 0, p <= e
  PROVE  ngx_align_ptr(p, a) <= e
<1>1. CASE a = 4 BY <1>1 DEF ngx_align_ptr
<1>2. CASE a = 8 BY <1>2 DEF ngx_align_ptr
<1> QED BY <1>1, <1>2

\* A length that is not negative and fits a size_t is stored as it is.
LEMMA SizeTExact ==
  ASSUME NEW n \in Nat, n < SizeMax
  PROVE  ToSizeT(n) = n
BY LayoutAssumption DEF ToSizeT

\* Whatever the difference, a size_t is a natural number.
LEMMA SizeTNat ==
  ASSUME NEW n \in Int
  PROVE  ToSizeT(n) \in Nat
BY LayoutAssumption DEF ToSizeT

\* pool->max is a natural number, whatever size wraps to.
LEMMA MaxOfNat ==
  ASSUME NEW size \in Nat
  PROVE  MaxOf(size) \in Nat
BY LayoutAssumption, SizeTNat DEF MaxOf

\* FirstOf picks from its set.
LEMMA FirstOfSubset ==
  ASSUME NEW S
  PROVE  FirstOf(S) \subseteq S
BY DEF FirstOf

\* malloc returns NULL or a chunk that was not in use.
LEMMA MallocFresh ==
  ASSUME NEW heap, NEW c \in Malloc(heap), c # NULL
  PROVE  c \in Chunk /\ c \notin heap
BY DEF Malloc, FirstOf

\* The new-block header ends at sizeof(ngx_pool_data_t), which is aligned.
LEMMA BlockStartIs ==
  BlockStart = SizeofData
<1>1. NGX_ALIGNMENT \in {4, 8} /\ SizeofData \in Nat /\ SizeofData % NGX_ALIGNMENT = 0
  BY LayoutAssumption
<1>2. ngx_align_ptr(SizeofData, NGX_ALIGNMENT) <= SizeofData
  BY <1>1, AlignBelow
<1>3. SizeofData <= ngx_align_ptr(SizeofData, NGX_ALIGNMENT)
      /\ ngx_align_ptr(SizeofData, NGX_ALIGNMENT) \in Nat
  BY <1>1, AlignUp
<1> QED BY <1>1, <1>2, <1>3 DEF BlockStart

\* A request starts at a natural offset.
LEMMA StartNat ==
  ASSUME NEW b \in Block, NEW align
  PROVE  Start(b, align) \in Nat /\ b.last <= Start(b, align)
<1>1. b.last \in Nat BY DEF Block
<1>2. NGX_ALIGNMENT \in {4, 8} BY LayoutAssumption
<1>3. ngx_align_ptr(b.last, NGX_ALIGNMENT) \in Nat
      /\ b.last <= ngx_align_ptr(b.last, NGX_ALIGNMENT)
  BY <1>1, <1>2, AlignUp
<1> QED BY <1>1, <1>3 DEF Start

-----------------------------------------------------------------------------
(* What each update of a pool leaves alone.                                *)

\* Assigning a field keeps the fields there are.
LEMMA ShapeKept ==
  ASSUME NEW s, PoolShape(s), NEW v
  PROVE  /\ PoolShape([s EXCEPT !.heap = v])
         /\ PoolShape([s EXCEPT !.size = v])
         /\ PoolShape([s EXCEPT !.max = v])
         /\ PoolShape([s EXCEPT !.blk = v])
         /\ PoolShape([s EXCEPT !.current = v])
         /\ PoolShape([s EXCEPT !.large = v])
         /\ PoolShape([s EXCEPT !.cleanup = v])
         /\ PoolShape([s EXCEPT !.cell = v])
BY DEF PoolShape

\* Everything but the field(s) named is as it was.
SameBut(t, s, fields) ==
  /\ PoolShape(t)
  /\ t.size = s.size /\ t.max = s.max
  /\ "heap" \notin fields => t.heap = s.heap
  /\ "blk" \notin fields => t.blk = s.blk
  /\ "current" \notin fields => t.current = s.current
  /\ "large" \notin fields => t.large = s.large
  /\ "cleanup" \notin fields => t.cleanup = s.cleanup
  /\ "cell" \notin fields => t.cell = s.cell

\* An update of heap changes nothing else.
LEMMA HeapUpdate ==
  ASSUME NEW s, PoolShape(s), NEW v
  PROVE  LET t == [s EXCEPT !.heap = v]
         IN  SameBut(t, s, {"heap"}) /\ t.heap = v
<1>1. PoolShape([s EXCEPT !.heap = v]) BY ShapeKept
<1> QED BY <1>1 DEF SameBut, PoolShape

\* An update of the cleanup nodes changes nothing else.
LEMMA CellUpdate ==
  ASSUME NEW s, PoolShape(s), NEW v
  PROVE  LET t == [s EXCEPT !.cell = v]
         IN  SameBut(t, s, {"cell"}) /\ t.cell = v
<1>1. PoolShape([s EXCEPT !.cell = v]) BY ShapeKept
<1> QED BY <1>1 DEF SameBut, PoolShape

\* free changes heap, and loses the nodes in what it frees.
LEMMA FreeIs ==
  ASSUME NEW s, PoolShape(s), NEW chunks
  PROVE  LET t == Free(s, chunks)
         IN  /\ SameBut(t, s, {"heap", "cell"})
             /\ t.heap = s.heap \ chunks
             /\ DOMAIN t.cell = {a \in DOMAIN s.cell : a.at \notin chunks}
             /\ \A a \in DOMAIN t.cell : t.cell[a] = s.cell[a]
<1> DEFINE h == s.heap \ chunks
           c == RestrictDomain(s.cell, LAMBDA a : a.at \notin chunks)
           t == [s EXCEPT !.heap = h, !.cell = c]
<1>1. Free(s, chunks) = t
  BY DEF Free
<1>2. /\ DOMAIN c = {a \in DOMAIN s.cell : a.at \notin chunks}
      /\ \A a \in DOMAIN c : c[a] = s.cell[a]
  BY DEF RestrictDomain, Restrict
<1> HIDE DEF h, c
<1>3. PoolShape(t)
  BY ShapeKept
<1>4. SameBut(t, s, {"heap", "cell"}) /\ t.heap = h /\ t.cell = c
  BY <1>3 DEF SameBut, PoolShape
<1> HIDE DEF t
<1> QED BY <1>1, <1>2, <1>4 DEF h

\* A store keeps the nodes it does not touch.
LEMMA OverwrittenIs ==
  ASSUME NEW cell, NEW r
  PROVE  LET w == Overwritten(cell, r)
         IN  /\ DOMAIN w = {a \in DOMAIN cell : ~Overlap(NodeAt(a), r)}
             /\ \A a \in DOMAIN w : w[a] = cell[a]
BY DEF Overwritten, RestrictDomain, Restrict

\* The new header goes in front of pool_->large; its bytes are stored into.
LEMMA PushHeaderIs ==
  ASSUME NEW s, PoolShape(s), NEW a, NEW c
  PROVE  LET t == PushHeader(s, a, c)
         IN  /\ SameBut(t, s, {"large", "cell"})
             /\ t.large = <<[hdr |-> a, alloc |-> c]>> \o s.large
             /\ t.cell = Overwritten(s.cell, Region(a, SizeofLarge, "header"))
<1> DEFINE l == <<[hdr |-> a, alloc |-> c]>> \o s.large
           w == Overwritten(s.cell, Region(a, SizeofLarge, "header"))
           t == [s EXCEPT !.large = l, !.cell = w]
<1>1. PushHeader(s, a, c) = t
  BY DEF PushHeader
<1> HIDE DEF l, w
<1>2. PoolShape(t)
  BY ShapeKept
<1>3. SameBut(t, s, {"large", "cell"}) /\ t.large = l /\ t.cell = w
  BY <1>2 DEF SameBut, PoolShape
<1> HIDE DEF t
<1> QED BY <1>1, <1>3 DEF l, w

\* Carving moves d.last of one block.
LEMMA CarveIs ==
  ASSUME NEW s, PoolType(s), NEW i \in 1..Len(s.blk), NEW size, NEW align
  PROVE  LET t == Carve(s, i, size, align)
         IN  /\ SameBut(t, s, {"blk"})
             /\ t.blk = [s.blk EXCEPT ![i] =
                           [at |-> s.blk[i].at, failed |-> s.blk[i].failed,
                            last |-> Start(s.blk[i], align) + size]]
<1> DEFINE l == Start(s.blk[i], align) + size
           b == [s.blk[i] EXCEPT !.last = l]
           f == [s.blk EXCEPT ![i] = b]
           t == [s EXCEPT !.blk = f]
<1>1. Carve(s, i, size, align) = t
  BY DEF Carve
<1>2. s.blk[i] \in Block
  BY DEF PoolType
<1>3. b = [at |-> s.blk[i].at, failed |-> s.blk[i].failed, last |-> l]
  BY <1>2 DEF Block
<1> HIDE DEF b, l, f
<1>4. PoolShape(s) BY DEF PoolType
<1>5. PoolShape(t) BY <1>4, ShapeKept
<1>6. SameBut(t, s, {"blk"}) /\ t.blk = f
  BY <1>4, <1>5 DEF SameBut, PoolShape
<1> HIDE DEF t
<1> QED BY <1>1, <1>3, <1>6 DEF f, l

\* malloc changes heap only.
LEMMA TakenIs ==
  ASSUME NEW s, PoolShape(s), NEW c
  PROVE  SameBut(Taken(s, c), s, {"heap"}) /\ Taken(s, c).heap = s.heap \cup {c}
BY HeapUpdate DEF Taken

\* A store of the client changes nodes only.
LEMMA ScribbleIs ==
  ASSUME NEW s, PoolShape(s), NEW r
  PROVE  /\ SameBut(Scribble(s, r), s, {"cell"})
         /\ Scribble(s, r).cell = Overwritten(s.cell, r)
BY CellUpdate DEF Scribble

\* ngx_memzero changes nodes only.
LEMMA MemzeroIs ==
  ASSUME NEW s, PoolShape(s), NEW r
  PROVE  /\ SameBut(ngx_memzero(s, r), s, {"cell"})
         /\ ngx_memzero(s, r).cell = Zeroed(s.cell, r)
BY CellUpdate DEF ngx_memzero

\* What a node holds after ngx_memzero: nothing, or what it held.
LEMMA ZeroedIs ==
  ASSUME NEW cell, NEW r, NEW a \in DOMAIN Zeroed(cell, r)
  PROVE  /\ a \in DOMAIN cell
         /\ \/ Zeroed(cell, r)[a] = [handler |-> NULL, data |-> NULL, next |-> NULL]
            \/ Zeroed(cell, r)[a] = cell[a]
<1> DEFINE inside == {b \in DOMAIN cell : /\ b.at = r.at /\ r.off <= b.off
                                          /\ b.off + SizeofCleanup <= r.off + r.len}
           w == DOMAIN Overwritten(cell, r)
<1>1. w \subseteq DOMAIN cell
  BY OverwrittenIs
<1>2. Zeroed(cell, r) =
        [b \in inside \cup w |->
           IF b \in inside THEN [handler |-> NULL, data |-> NULL, next |-> NULL]
           ELSE cell[b]]
  BY DEF Zeroed
<1>3. inside \subseteq DOMAIN cell
  OBVIOUS
<1> HIDE DEF inside, w
<1> QED BY <1>1, <1>2, <1>3

\* Reusing a header sets its alloc and nothing else.
LEMMA ReuseHeaderIs ==
  ASSUME NEW s, PoolType(s), NEW j \in 1..Len(s.large), NEW c
  PROVE  LET t == ReuseHeader(s, j, c)
         IN  /\ SameBut(t, s, {"large"})
             /\ t.large = [s.large EXCEPT ![j] =
                             [hdr |-> s.large[j].hdr, alloc |-> c]]
<1> DEFINE b == [s.large[j] EXCEPT !.alloc = c]
           f == [s.large EXCEPT ![j] = b]
           t == [s EXCEPT !.large = f]
<1>1. ReuseHeader(s, j, c) = t
  BY DEF ReuseHeader
<1>2. s.large[j] \in Header
  BY DEF PoolType
<1>3. b = [hdr |-> s.large[j].hdr, alloc |-> c]
  BY <1>2 DEF Header
<1> HIDE DEF b, f
<1>4. PoolShape(s) BY DEF PoolType
<1>5. PoolShape(t) BY <1>4, ShapeKept
<1>6. SameBut(t, s, {"large"}) /\ t.large = f
  BY <1>4, <1>5 DEF SameBut, PoolShape
<1> HIDE DEF t
<1> QED BY <1>1, <1>3, <1>6 DEF f

\* free(l->alloc); l->alloc = nullptr, as a whole.
LEMMA DropAllocIs ==
  ASSUME NEW s, PoolType(s), NEW j \in 1..Len(s.large)
  PROVE  LET t == DropAlloc(s, j)
             u == Free(s, {s.large[j].alloc})
         IN  /\ SameBut(t, s, {"heap", "cell", "large"})
             /\ t.heap = u.heap /\ t.cell = u.cell
             /\ t.large = [s.large EXCEPT ![j] =
                             [hdr |-> s.large[j].hdr, alloc |-> NULL]]
<1> DEFINE u == Free(s, {s.large[j].alloc})
           b == [u.large[j] EXCEPT !.alloc = NULL]
           f == [u.large EXCEPT ![j] = b]
           t == [u EXCEPT !.large = f]
<1>0. PoolShape(s) BY DEF PoolType
<1>1. SameBut(u, s, {"heap", "cell"}) /\ PoolShape(u) /\ u.large = s.large
  BY <1>0, FreeIs DEF SameBut
<1>2. DropAlloc(s, j) = t
  BY DEF DropAlloc
<1> HIDE DEF u
<1>3. s.large[j] \in Header
  BY DEF PoolType
<1>4. b = [hdr |-> s.large[j].hdr, alloc |-> NULL]
  BY <1>1, <1>3 DEF Header
<1> HIDE DEF b, f
<1>5. PoolShape(t) BY <1>1, ShapeKept
<1>6. SameBut(t, u, {"large"}) /\ t.large = f
  BY <1>1, <1>5 DEF SameBut, PoolShape
<1> HIDE DEF t
<1>7. SameBut(t, s, {"heap", "cell", "large"}) /\ t.heap = u.heap /\ t.cell = u.cell
  BY <1>1, <1>6 DEF SameBut
<1> QED BY <1>1, <1>2, <1>4, <1>6, <1>7 DEF f, u

\* The new node becomes pool_->cleanup and points at the old list.
LEMMA LinkNodeIs ==
  ASSUME NEW s, PoolShape(s), NEW a, NEW data
  PROVE  LET t == LinkNode(s, a, data)
             w == Overwritten(s.cell, NodeAt(a))
         IN  /\ SameBut(t, s, {"cleanup", "cell"})
             /\ t.cleanup = a
             /\ DOMAIN t.cell = DOMAIN w \cup {a}
             /\ t.cell[a] = [handler |-> NULL, data |-> data, next |-> s.cleanup]
             /\ \A b \in DOMAIN w : b # a => t.cell[b] = w[b]
<1> DEFINE w == Overwritten(s.cell, NodeAt(a))
           n == [handler |-> NULL, data |-> data, next |-> s.cleanup]
           c == [b \in DOMAIN w \cup {a} |->
                   IF b = a THEN n ELSE w[b]]
           t == [s EXCEPT !.cleanup = a, !.cell = c]
<1>1. LinkNode(s, a, data) = t
  BY DEF LinkNode
<1> HIDE DEF c
<1>2. PoolShape(t)
  BY ShapeKept
<1>3. SameBut(t, s, {"cleanup", "cell"}) /\ t.cleanup = a /\ t.cell = c
  BY <1>2 DEF SameBut, PoolShape
<1> HIDE DEF t, w, n
<1>4. /\ DOMAIN c = DOMAIN w \cup {a} /\ c[a] = n
      /\ \A b \in DOMAIN w : b # a => c[b] = w[b]
  BY DEF c
<1> QED BY <1>1, <1>3, <1>4 DEF w, n

\* c->handler = h changes that field of that node.
LEMMA WithHandlerIs ==
  ASSUME NEW s, PoolType(s), NEW a \in DOMAIN s.cell, NEW h
  PROVE  LET t == WithHandler(s, a, h)
         IN  /\ SameBut(t, s, {"cell"})
             /\ DOMAIN t.cell = DOMAIN s.cell
             /\ t.cell[a] = [handler |-> h, data |-> s.cell[a].data,
                             next |-> s.cell[a].next]
             /\ \A b \in DOMAIN s.cell : b # a => t.cell[b] = s.cell[b]
<1> DEFINE n == [s.cell[a] EXCEPT !.handler = h]
           c == [s.cell EXCEPT ![a] = n]
           t == [s EXCEPT !.cell = c]
<1>1. WithHandler(s, a, h) = t
  BY DEF WithHandler
<1>2. s.cell[a] \in Node
  BY DEF PoolType
<1>3. n = [handler |-> h, data |-> s.cell[a].data, next |-> s.cell[a].next]
  BY <1>2 DEF Node
<1> HIDE DEF n
<1>4. /\ DOMAIN c = DOMAIN s.cell /\ c[a] = n
      /\ \A b \in DOMAIN s.cell : b # a => c[b] = s.cell[b]
  OBVIOUS
<1> HIDE DEF c
<1>5. SameBut(t, s, {"cell"}) /\ t.cell = c
  BY CellUpdate DEF PoolType
<1> HIDE DEF t
<1> QED BY <1>1, <1>3, <1>4, <1>5

\* ngx_rest_pool keeps pool_->cleanup, max and the size.
LEMMA RestPoolIs ==
  ASSUME NEW s, PoolShape(s)
  PROVE  LET t == ngx_rest_pool(s)
             u == Free(s, Allocs(s))
         IN  /\ SameBut(t, s, {"heap", "cell", "blk", "current", "large"})
             /\ t.heap = u.heap /\ t.cell = u.cell
             /\ t.blk = Rewound(s) /\ t.current = 1 /\ t.large = <<>>
<1> DEFINE u == Free(s, Allocs(s))
           b == Rewound(s)
           t == [u EXCEPT !.blk = b, !.current = 1, !.large = <<>>]
<1>1. SameBut(u, s, {"heap", "cell"}) /\ PoolShape(u)
  BY FreeIs DEF SameBut
<1>2. ngx_rest_pool(s) = t
  BY DEF ngx_rest_pool
<1> HIDE DEF u, b
<1>3. PoolShape(t) BY <1>1, ShapeKept
<1>4. /\ SameBut(t, u, {"blk", "current", "large"})
      /\ t.blk = b /\ t.current = 1 /\ t.large = <<>>
  BY <1>1, <1>3 DEF SameBut, PoolShape
<1> HIDE DEF t
<1>5. /\ SameBut(t, s, {"heap", "cell", "blk", "current", "large"})
      /\ t.heap = u.heap /\ t.cell = u.cell
  BY <1>1, <1>4 DEF SameBut
<1> QED BY <1>2, <1>4, <1>5 DEF b, u

\* The fields of a new pool, one by one.
LEMMA NewPoolIs ==
  ASSUME NEW c, NEW size
  PROVE  NewPool(c, size) =
           [heap |-> {c}, size |-> size, max |-> MaxOf(size),
            blk |-> <<[at |-> c, last |-> SizeofPool, failed |-> 0]>>,
            current |-> 1, large |-> <<>>, cleanup |-> NULL, cell |-> <<>>]
<1> DEFINE b == <<[at |-> c, last |-> SizeofPool, failed |-> 0]>>
           h == {c}
           m == MaxOf(size)
           t == [NoPool EXCEPT !.heap = h, !.size = size, !.max = m, !.blk = b]
<1>1. NewPool(c, size) = t
  BY DEF NewPool
<1>2. PoolShape(NoPool) BY DEF PoolShape, NoPool
<1> HIDE DEF b, h, m
<1>3. PoolShape(t)
  BY <1>2, ShapeKept
<1>4. /\ t.heap = h /\ t.size = size /\ t.max = m /\ t.blk = b
      /\ t.current = 1 /\ t.large = <<>> /\ t.cleanup = NULL /\ t.cell = <<>>
  BY DEF NoPool
<1> HIDE DEF t
<1> QED BY <1>1, <1>3, <1>4 DEF PoolShape, b, h, m

-----------------------------------------------------------------------------
(* The outcomes of the operations.                                         *)

\* A new block: heap, the chain and current change.
LEMMA AppendBlockIs ==
  ASSUME NEW s, PoolShape(s), NEW c, NEW cur, NEW size
  PROVE  LET t == AppendBlock(s, c, cur, size)
         IN  /\ SameBut(t, s, {"heap", "blk", "current"})
             /\ t.heap = s.heap \cup {c}
             /\ t.blk = Append(Aged(s), [at |-> c, failed |-> 0,
                                         last |-> BlockStart + size])
             /\ t.current = cur
<1> DEFINE b == Append(Aged(s), [at |-> c, failed |-> 0,
                                 last |-> BlockStart + size])
           h == s.heap \cup {c}
           t == [s EXCEPT !.heap = h, !.blk = b, !.current = cur]
<1>1. AppendBlock(s, c, cur, size) = t
  BY DEF AppendBlock
<1> HIDE DEF b, h
<1>2. PoolShape(t)
  BY ShapeKept
<1>3. /\ SameBut(t, s, {"heap", "blk", "current"})
      /\ t.heap = h /\ t.blk = b /\ t.current = cur
  BY <1>2 DEF SameBut, PoolShape
<1> HIDE DEF t
<1> QED BY <1>1, <1>3 DEF b, h

\* ngx_palloc_block fails and changes nothing, or appends a block.
LEMMA BlockOutcome ==
  ASSUME NEW s, NEW size, NEW kind, NEW o \in ngx_palloc_block(s, size, kind)
  PROVE  \/ o = Outcome(s, NULL, {})
         \/ \E c \in Chunk \ s.heap, cur \in NextCurrent(s) :
              o = Outcome(AppendBlock(s, c, cur, size), Addr(c, BlockStart),
                          {Region(Addr(c, BlockStart), size, kind)})
<1>1. PICK c \in Malloc(s.heap), cur \in NextCurrent(s) :
        o = IF c = NULL THEN Outcome(s, NULL, {})
            ELSE Outcome(AppendBlock(s, c, cur, size), Addr(c, BlockStart),
                         {Region(Addr(c, BlockStart), size, kind)})
  BY DEF ngx_palloc_block
<1>2. CASE c = NULL
  BY <1>1, <1>2
<1>3. CASE c # NULL
  BY <1>1, <1>3, MallocFresh
<1> QED BY <1>2, <1>3

\* ngx_palloc_small carves the request off a block that has room for it, or
\* leaves it to ngx_palloc_block.
LEMMA SmallOutcome ==
  ASSUME NEW s, NEW size, NEW align, NEW kind,
         NEW o \in ngx_palloc_small(s, size, align, kind)
  PROVE  \/ \E i \in s.current..Len(s.blk) :
              LET a == Addr(s.blk[i].at, Start(s.blk[i], align))
              IN  /\ Room(s, s.blk[i], align) >= size
                  /\ o = Outcome(Carve(s, i, size, align), a,
                                 {Region(a, size, kind)})
         \/ o \in ngx_palloc_block(s, size, kind)
<1> DEFINE a(i) == Addr(s.blk[i].at, Start(s.blk[i], align))
           r(i) == Outcome(Carve(s, i, size, align), a(i), {Region(a(i), size, kind)})
           fit  == Fitting(s, size, align)
<1>1. CASE o \in {r(i) : i \in FirstOf(fit)}
  <2>1. PICK i \in FirstOf(fit) : o = r(i)
    BY <1>1
  <2>2. i \in fit
    BY <2>1, FirstOfSubset
  <2>3. i \in s.current..Len(s.blk) /\ Room(s, s.blk[i], align) >= size
    BY <2>2 DEF Fitting
  <2> QED BY <2>1, <2>3
<1>2. CASE o \notin {r(i) : i \in FirstOf(fit)}
  BY <1>2 DEF ngx_palloc_small
<1> QED BY <1>1, <1>2

\* What ngx_palloc_large may do with the chunk c: put it in a header that has
\* none; free it, without memory for a header; or push a new header.
LargeCases(o, s, c, size, kind) ==
  \/ \E j \in 1..Len(Taken(s, c).large) :
       /\ Taken(s, c).large[j].alloc = NULL
       /\ o = Outcome(ReuseHeader(Taken(s, c), j, c), Addr(c, 0),
                      {Region(Addr(c, 0), size, kind)})
  \/ \E h \in ngx_palloc_small(Taken(s, c), SizeofLarge, TRUE, "header") :
       h.ret = NULL /\ o = Outcome(Free(h.s, {c}), NULL, {})
  \/ \E h \in ngx_palloc_small(Taken(s, c), SizeofLarge, TRUE, "header") :
       /\ h.ret # NULL
       /\ o = Outcome(PushHeader(h.s, h.ret, c), Addr(c, 0),
                      h.new \cup {Region(Addr(c, 0), size, kind)})

\* ngx_palloc_large fails without a chunk, or does one of LargeCases.
LEMMA LargeOutcome ==
  ASSUME NEW s, NEW size, NEW kind, NEW o \in ngx_palloc_large(s, size, kind)
  PROVE  \/ o = Outcome(s, NULL, {})
         \/ \E c \in Chunk \ s.heap : LargeCases(o, s, c, size, kind)
<1>1. PICK c \in Malloc(s.heap) :
        o \in IF c = NULL THEN {Outcome(s, NULL, {})}
              ELSE LargeIn(Taken(s, c), c, size, kind)
  BY DEF ngx_palloc_large
<1>2. CASE c = NULL
  BY <1>1, <1>2
<1>3. CASE c # NULL
  <2> DEFINE t == Taken(s, c)
             whole == Region(Addr(c, 0), size, kind)
             small == ngx_palloc_small(t, SizeofLarge, TRUE, "header")
             x(h) == IF h.ret = NULL THEN LargeHeaderFailed(h.s, c)
                     ELSE Outcome(PushHeader(h.s, h.ret, c), Addr(c, 0),
                                  h.new \cup {whole})
  <2>1. c \in Chunk \ s.heap
    BY <1>3, MallocFresh
  <2>2. o \in LargeIn(t, c, size, kind)
    BY <1>1, <1>3
  <2>3. CASE Reusable(t) # {}
    <3>1. o \in {Outcome(ReuseHeader(t, j, c), Addr(c, 0), {whole})
                   : j \in Reusable(t)}
      BY <2>2, <2>3 DEF LargeIn
    <3>2. PICK j \in Reusable(t) :
            o = Outcome(ReuseHeader(t, j, c), Addr(c, 0), {whole})
      BY <3>1
    <3>3. j \in 1..Len(t.large) /\ t.large[j].alloc = NULL
      BY <3>2, FirstOfSubset DEF Reusable
    <3> QED BY <2>1, <3>2, <3>3 DEF LargeCases
  <2>4. CASE Reusable(t) = {}
    <3>1. o \in {x(h) : h \in small}
      BY <2>2, <2>4 DEF LargeIn
    <3>2. PICK h \in small : o = x(h)
      BY <3>1
    <3> QED BY <2>1, <3>2 DEF LargeHeaderFailed, LargeCases
  <2> QED BY <2>3, <2>4
<1> QED BY <1>2, <1>3

\* ngx_pcalloc: the outcomes of ngx_palloc, zeroed.
LEMMA PcallocOutcome ==
  ASSUME NEW s, NEW size, NEW kind, NEW o \in ngx_pcalloc(s, size, kind)
  PROVE  \E p \in ngx_palloc(s, size, kind) :
           \/ o = p
           \/ /\ p.ret # NULL
              /\ o = Outcome(ngx_memzero(p.s, Region(p.ret, size, kind)),
                             p.ret, p.new)
BY DEF ngx_pcalloc

\* ngx_pool_cleanup_add: no node; or a node without its data; or a node,
\* with or without data, in front of the list.
LEMMA CleanupAddOutcome ==
  ASSUME NEW s, NEW size, NEW o \in ngx_pool_cleanup_add(s, size)
  PROVE  \E c \in ngx_palloc(s, SizeofCleanup, "node") :
           \/ c.ret = NULL /\ o = c
           \/ /\ c.ret # NULL
              /\ \/ /\ ~(size > 0)
                    /\ o = Outcome(LinkNode(c.s, c.ret, NULL), c.ret, c.new)
                 \/ \E d \in ngx_palloc(c.s, size, "data") :
                      \/ /\ d.ret = NULL
                         /\ o = Outcome(Scribble(d.s, NodeAt(c.ret)), NULL,
                                        c.new \cup d.new)
                      \/ /\ d.ret # NULL
                         /\ o = Outcome(LinkNode(d.s, c.ret, d.ret), c.ret,
                                        c.new \cup d.new)
<1> DEFINE y(c, d) == IF size > 0 /\ d.ret = NULL
                      THEN Outcome(Scribble(d.s, NodeAt(c.ret)), NULL, c.new \cup d.new)
                      ELSE Outcome(LinkNode(d.s, c.ret, d.ret), c.ret, c.new \cup d.new)
           ds(c) == IF size > 0 THEN ngx_palloc(c.s, size, "data")
                    ELSE {Outcome(c.s, NULL, {})}
           x(c) == IF c.ret = NULL THEN {c} ELSE {y(c, d) : d \in ds(c)}
<1>1. PICK c \in ngx_palloc(s, SizeofCleanup, "node") : o \in x(c)
  BY DEF ngx_pool_cleanup_add
<1>2. CASE c.ret = NULL
  BY <1>1, <1>2
<1>3. CASE c.ret # NULL /\ size > 0
  <2>1. PICK d \in ngx_palloc(c.s, size, "data") : o = y(c, d)
    BY <1>1, <1>3
  <2> QED BY <1>1, <1>3, <2>1
<1>4. CASE c.ret # NULL /\ ~(size > 0)
  <2>1. o = y(c, Outcome(c.s, NULL, {}))
    BY <1>1, <1>4
  <2>2. o = Outcome(LinkNode(c.s, c.ret, NULL), c.ret, c.new)
    BY <1>4, <2>1 DEF Outcome
  <2> QED BY <1>1, <1>4, <2>2
<1> QED BY <1>2, <1>3, <1>4

\* ngx_pfree changes nothing, or drops the chunk that starts at p.
LEMMA PfreeOutcome ==
  ASSUME NEW s, NEW p, NEW t \in ngx_pfree(s, p)
  PROVE  \/ Holder(s, p) = {} /\ t = s
         \/ \E j \in 1..Len(s.large) :
              /\ s.large[j].alloc # NULL /\ Addr(s.large[j].alloc, 0) = p
              /\ t = DropAlloc(s, j)
<1>1. CASE Holder(s, p) = {}
  BY <1>1 DEF ngx_pfree
<1>2. CASE Holder(s, p) # {}
  <2>1. PICK j \in Holder(s, p) : t = DropAlloc(s, j)
    BY <1>2 DEF ngx_pfree
  <2>2. /\ j \in 1..Len(s.large)
        /\ s.large[j].alloc # NULL /\ Addr(s.large[j].alloc, 0) = p
    BY <2>1, FirstOfSubset DEF Holder
  <2> QED BY <2>1, <2>2
<1> QED BY <1>1, <1>2

RegionType == [at : Chunk, off : Nat, len : Nat, kind : Kind]

\* A pool that operations may be called on.
Live(s) == PoolType(s) /\ s.blk # <<>>

\* What every operation returns.
OutcomeType(o) ==
  /\ Live(o.s)
  /\ o.ret \in Address \cup {NULL}
  /\ o.new \subseteq RegionType

-----------------------------------------------------------------------------
\* Updates of a block as records.
LEMMA BlockUpdate ==
  ASSUME NEW b \in Block
  PROVE  /\ [b EXCEPT !.failed = @ + 1] =
              [at |-> b.at, last |-> b.last, failed |-> b.failed + 1]
         /\ [b EXCEPT !.last = SizeofPool, !.failed = 0] =
              [at |-> b.at, last |-> SizeofPool, failed |-> 0]
<1> DEFINE n == b.failed + 1
<1>1. [b EXCEPT !.failed = n] = [at |-> b.at, last |-> b.last, failed |-> n]
  BY DEF Block
<1> DEFINE c == [b EXCEPT !.last = SizeofPool]
<1>2. c = [at |-> b.at, last |-> SizeofPool, failed |-> b.failed]
  BY DEF Block
<1>3. c = [at |-> c.at, last |-> c.last, failed |-> c.failed]
      /\ c.at = b.at /\ c.last = SizeofPool
  BY <1>2
<1> HIDE DEF c
<1>4. [c EXCEPT !.failed = 0] = [at |-> c.at, last |-> c.last, failed |-> 0]
  BY <1>3
<1> QED BY <1>1, <1>3, <1>4 DEF c

\* The loop of ngx_palloc_block keeps the blocks and where they are filled.
LEMMA AgedIs ==
  ASSUME NEW s, s.blk \in Seq(Block)
  PROVE  /\ Aged(s) \in Seq(Block) /\ Len(Aged(s)) = Len(s.blk)
         /\ \A i \in 1..Len(s.blk) :
              /\ Aged(s)[i].at = s.blk[i].at /\ Aged(s)[i].last = s.blk[i].last
              /\ Aged(s)[i].failed =
                   IF s.current <= i /\ i < Len(s.blk)
                   THEN s.blk[i].failed + 1 ELSE s.blk[i].failed
<1> DEFINE n == Len(s.blk)
           b(i) == IF s.current <= i /\ i < n
                   THEN [s.blk[i] EXCEPT !.failed = @ + 1] ELSE s.blk[i]
<1>1. Aged(s) = [i \in 1..n |-> b(i)]
  BY DEF Aged
<1>2. n \in Nat /\ \A i \in 1..n : s.blk[i] \in Block
  OBVIOUS
<1>3. \A i \in 1..n :
        /\ b(i) \in Block
        /\ b(i).at = s.blk[i].at /\ b(i).last = s.blk[i].last
        /\ b(i).failed = IF s.current <= i /\ i < n
                         THEN s.blk[i].failed + 1 ELSE s.blk[i].failed
  <2> TAKE i \in 1..n
  <2>1. s.blk[i] \in Block
    BY <1>2
  <2>2. [s.blk[i] EXCEPT !.failed = @ + 1] =
          [at |-> s.blk[i].at, last |-> s.blk[i].last,
           failed |-> s.blk[i].failed + 1]
    BY <2>1, BlockUpdate
  <2> QED BY <2>1, <2>2 DEF Block
<1> HIDE DEF b, n
<1>4. /\ Aged(s) \in Seq(Block) /\ Len(Aged(s)) = n
      /\ \A i \in 1..n : Aged(s)[i] = b(i)
  BY <1>1, <1>2, <1>3
<1> QED BY <1>3, <1>4 DEF n

\* Carving keeps the types.
LEMMA CarveType ==
  ASSUME NEW s, Live(s), NEW i \in 1..Len(s.blk), NEW size \in Nat, NEW align
  PROVE  Live(Carve(s, i, size, align))
<1> DEFINE t == Carve(s, i, size, align)
           b == [at |-> s.blk[i].at, failed |-> s.blk[i].failed,
                 last |-> Start(s.blk[i], align) + size]
<1>1. SameBut(t, s, {"blk"}) /\ t.blk = [s.blk EXCEPT ![i] = b]
  BY CarveIs DEF Live
<1>2. s.blk \in Seq(Block) /\ s.blk[i] \in Block
  BY DEF Live, PoolType
<1>3. b \in Block
  BY <1>2, StartNat DEF Block
<1> HIDE DEF t, b
<1>4. t.blk \in Seq(Block) /\ Len(t.blk) = Len(s.blk) /\ t.blk # <<>>
  BY <1>1, <1>2, <1>3 DEF Live
<1>5. PoolType(t)
  BY <1>1, <1>4 DEF Live, PoolType, SameBut
<1> QED BY <1>4, <1>5 DEF Live, t

\* A new block keeps the types, and current stays on the chain.
LEMMA AppendBlockType ==
  ASSUME NEW s, Live(s), NEW c \in Chunk, NEW cur \in NextCurrent(s),
         NEW size \in Nat
  PROVE  Live(AppendBlock(s, c, cur, size))
<1> DEFINE t == AppendBlock(s, c, cur, size)
           b == [at |-> c, failed |-> 0, last |-> BlockStart + size]
<1>1. /\ SameBut(t, s, {"heap", "blk", "current"})
      /\ t.heap = s.heap \cup {c} /\ t.blk = Append(Aged(s), b)
      /\ t.current = cur
  BY AppendBlockIs DEF Live, PoolType
<1>2. s.blk \in Seq(Block) /\ s.current \in 1..Len(s.blk)
  BY DEF Live, PoolType
<1>3. Aged(s) \in Seq(Block) /\ Len(Aged(s)) = Len(s.blk)
  BY <1>2, AgedIs
<1>4. b \in Block
  BY BlockStartIs, LayoutAssumption DEF Block
<1>5. cur \in 1..Len(s.blk)
  BY <1>2 DEF NextCurrent
<1> HIDE DEF t, b
<1>6. t.blk \in Seq(Block) /\ Len(t.blk) = Len(s.blk) + 1 /\ t.blk # <<>>
  BY <1>1, <1>2, <1>3, <1>4
<1>7. PoolType(t)
  BY <1>1, <1>2, <1>5, <1>6 DEF Live, PoolType, SameBut
<1> QED BY <1>6, <1>7 DEF Live, t

\* ngx_palloc_small and ngx_palloc_block.
LEMMA SmallType ==
  ASSUME NEW s, Live(s), NEW size \in Nat, NEW align, NEW kind \in Kind,
         NEW o \in ngx_palloc_small(s, size, align, kind)
  PROVE  OutcomeType(o)
<1>1. ASSUME NEW i \in s.current..Len(s.blk), NEW a,
             a = Addr(s.blk[i].at, Start(s.blk[i], align)),
             o = Outcome(Carve(s, i, size, align), a, {Region(a, size, kind)})
      PROVE  OutcomeType(o)
  <2>1. i \in 1..Len(s.blk) /\ s.blk[i] \in Block
    BY DEF Live, PoolType
  <2>2. Live(Carve(s, i, size, align))
    BY <2>1, CarveType
  <2>3. a \in Address /\ Region(a, size, kind) \in RegionType
    BY <1>1, <2>1, StartNat DEF Address, Addr, Region, RegionType, Block
  <2> QED BY <1>1, <2>2, <2>3 DEF OutcomeType, Outcome
<1>2. ASSUME o = Outcome(s, NULL, {})
      PROVE  OutcomeType(o)
  BY <1>2 DEF OutcomeType, Outcome
<1>3. ASSUME NEW c \in Chunk \ s.heap, NEW cur \in NextCurrent(s),
             o = Outcome(AppendBlock(s, c, cur, size), Addr(c, BlockStart),
                         {Region(Addr(c, BlockStart), size, kind)})
      PROVE  OutcomeType(o)
  <2>1. Live(AppendBlock(s, c, cur, size))
    BY AppendBlockType
  <2>2. /\ Addr(c, BlockStart) \in Address
        /\ Region(Addr(c, BlockStart), size, kind) \in RegionType
    BY BlockStartIs, LayoutAssumption DEF Address, Addr, Region, RegionType
  <2> QED BY <1>3, <2>1, <2>2 DEF OutcomeType, Outcome
<1>4. \/ \E i \in s.current..Len(s.blk) :
           o = Outcome(Carve(s, i, size, align),
                       Addr(s.blk[i].at, Start(s.blk[i], align)),
                       {Region(Addr(s.blk[i].at, Start(s.blk[i], align)),
                               size, kind)})
      \/ o \in ngx_palloc_block(s, size, kind)
  BY SmallOutcome
<1>5. CASE o \in ngx_palloc_block(s, size, kind)
  <2>1. \/ o = Outcome(s, NULL, {})
        \/ \E c \in Chunk \ s.heap, cur \in NextCurrent(s) :
             o = Outcome(AppendBlock(s, c, cur, size), Addr(c, BlockStart),
                         {Region(Addr(c, BlockStart), size, kind)})
    BY <1>5, BlockOutcome
  <2> QED BY <1>2, <1>3, <2>1
<1> QED BY <1>1, <1>4, <1>5

-----------------------------------------------------------------------------
(* Changes of the cleanup nodes, of the list of large memory and of heap.  *)

\* Fewer chunks and well-typed nodes keep the types.
LEMMA SameButCell ==
  ASSUME NEW s, Live(s), NEW t, SameBut(t, s, {"heap", "cell"}),
         t.heap \subseteq Chunk,
         \A a \in DOMAIN t.cell : a \in Address /\ t.cell[a] \in Node
  PROVE  Live(t)
BY DEF Live, PoolType, SameBut

\* The nodes that a store leaves are the nodes there were.
LEMMA OverwrittenType ==
  ASSUME NEW cell, NEW r, \A a \in DOMAIN cell : a \in Address /\ cell[a] \in Node
  PROVE  \A a \in DOMAIN Overwritten(cell, r) :
           a \in Address /\ Overwritten(cell, r)[a] \in Node
<1> DEFINE w == Overwritten(cell, r)
<1>1. /\ DOMAIN w = {a \in DOMAIN cell : ~Overlap(NodeAt(a), r)}
      /\ \A a \in DOMAIN w : w[a] = cell[a]
  BY OverwrittenIs
<1> HIDE DEF w
<1>2. \A a \in DOMAIN w : a \in DOMAIN cell
  BY <1>1
<1>3. \A a \in DOMAIN w : a \in Address /\ w[a] \in Node
  BY <1>1, <1>2
<1> QED BY <1>3 DEF w

\* A store of the client keeps the types.
LEMMA ScribbleType ==
  ASSUME NEW s, Live(s), NEW r
  PROVE  Live(Scribble(s, r))
<1>1. /\ SameBut(Scribble(s, r), s, {"cell"})
      /\ Scribble(s, r).cell = Overwritten(s.cell, r)
  BY ScribbleIs DEF Live, PoolType
<1>2. \A a \in DOMAIN Overwritten(s.cell, r) :
        a \in Address /\ Overwritten(s.cell, r)[a] \in Node
  <2>1. \A a \in DOMAIN s.cell : a \in Address /\ s.cell[a] \in Node
    BY DEF Live, PoolType
  <2> QED BY <2>1, OverwrittenType
<1> QED BY <1>1, <1>2 DEF Live, PoolType, SameBut

\* ngx_memzero keeps the types.
LEMMA MemzeroType ==
  ASSUME NEW s, Live(s), NEW r
  PROVE  Live(ngx_memzero(s, r))
<1>1. /\ SameBut(ngx_memzero(s, r), s, {"cell"})
      /\ ngx_memzero(s, r).cell = Zeroed(s.cell, r)
  BY MemzeroIs DEF Live, PoolType
<1>2. [handler |-> NULL, data |-> NULL, next |-> NULL] \in Node
  BY DEF Node
<1>3. \A a \in DOMAIN Zeroed(s.cell, r) :
        a \in Address /\ Zeroed(s.cell, r)[a] \in Node
  BY <1>2, ZeroedIs DEF Live, PoolType
<1> QED BY <1>1, <1>3 DEF Live, PoolType, SameBut

\* free keeps the types.
LEMMA FreeType ==
  ASSUME NEW s, Live(s), NEW chunks
  PROVE  Live(Free(s, chunks))
<1>1. /\ SameBut(Free(s, chunks), s, {"heap", "cell"})
      /\ Free(s, chunks).heap = s.heap \ chunks
      /\ DOMAIN Free(s, chunks).cell = {a \in DOMAIN s.cell : a.at \notin chunks}
      /\ \A a \in DOMAIN Free(s, chunks).cell : Free(s, chunks).cell[a] = s.cell[a]
  BY FreeIs DEF Live, PoolType
<1> QED BY <1>1 DEF Live, PoolType, SameBut

\* malloc keeps the types.
LEMMA TakenType ==
  ASSUME NEW s, Live(s), NEW c \in Chunk
  PROVE  Live(Taken(s, c))
<1>1. SameBut(Taken(s, c), s, {"heap"}) /\ Taken(s, c).heap = s.heap \cup {c}
  BY TakenIs DEF Live, PoolType
<1> QED BY <1>1 DEF Live, PoolType, SameBut

\* large->alloc = p keeps the types.
LEMMA ReuseHeaderType ==
  ASSUME NEW s, Live(s), NEW j \in 1..Len(s.large), NEW c \in Chunk
  PROVE  Live(ReuseHeader(s, j, c))
<1> DEFINE t == ReuseHeader(s, j, c)
           h == [hdr |-> s.large[j].hdr, alloc |-> c]
<1>1. SameBut(t, s, {"large"}) /\ t.large = [s.large EXCEPT ![j] = h]
  BY ReuseHeaderIs DEF Live
<1>2a. s.large \in Seq(Header) /\ s.large[j] \in Header
  BY DEF Live, PoolType
<1>2. s.large \in Seq(Header) /\ h \in Header
  BY <1>2a DEF Header
<1> HIDE DEF t, h
<1>3. t.large \in Seq(Header)
  BY <1>1, <1>2
<1>4. Live(t) BY <1>1, <1>3 DEF Live, PoolType, SameBut
<1> QED BY <1>4 DEF t

\* A new header keeps the types.
LEMMA PushHeaderType ==
  ASSUME NEW s, Live(s), NEW a \in Address, NEW c \in Chunk
  PROVE  Live(PushHeader(s, a, c))
<1> DEFINE t == PushHeader(s, a, c)
           h == [hdr |-> a, alloc |-> c]
           r == Region(a, SizeofLarge, "header")
<1>1. /\ SameBut(t, s, {"large", "cell"})
      /\ t.large = <<h>> \o s.large /\ t.cell = Overwritten(s.cell, r)
  BY PushHeaderIs DEF Live, PoolType
<1>2. s.large \in Seq(Header) /\ h \in Header
  BY DEF Live, PoolType, Header
<1>3. \A b \in DOMAIN Overwritten(s.cell, r) :
        b \in Address /\ Overwritten(s.cell, r)[b] \in Node
  <2>1. \A b \in DOMAIN s.cell : b \in Address /\ s.cell[b] \in Node
    BY DEF Live, PoolType
  <2> QED BY <2>1, OverwrittenType
<1> HIDE DEF t, h, r
<1>4. t.large \in Seq(Header)
  BY <1>1, <1>2
<1>5. Live(t) BY <1>1, <1>3, <1>4 DEF Live, PoolType, SameBut
<1> QED BY <1>5 DEF t

\* ngx_pfree of a large chunk keeps the types.
LEMMA DropAllocType ==
  ASSUME NEW s, Live(s), NEW j \in 1..Len(s.large)
  PROVE  Live(DropAlloc(s, j))
<1> DEFINE t == DropAlloc(s, j)
           u == Free(s, {s.large[j].alloc})
           h == [hdr |-> s.large[j].hdr, alloc |-> NULL]
<1>1. /\ SameBut(t, s, {"heap", "cell", "large"})
      /\ t.heap = u.heap /\ t.cell = u.cell
      /\ t.large = [s.large EXCEPT ![j] = h]
  BY DropAllocIs DEF Live
<1>2a. s.large \in Seq(Header) /\ s.large[j] \in Header
  BY DEF Live, PoolType
<1>2. s.large \in Seq(Header) /\ h \in Header
  BY <1>2a DEF Header
<1>3. Live(u)
  BY FreeType
<1> HIDE DEF t, u, h
<1>4. t.large \in Seq(Header)
  BY <1>1, <1>2
<1>5. Live(t) BY <1>1, <1>3, <1>4 DEF Live, PoolType, SameBut
<1> QED BY <1>5 DEF t

\* A new cleanup node keeps the types.
LEMMA LinkNodeType ==
  ASSUME NEW s, Live(s), NEW a \in Address, NEW data \in Address \cup {NULL}
  PROVE  Live(LinkNode(s, a, data))
<1> DEFINE t == LinkNode(s, a, data)
           w == Overwritten(s.cell, NodeAt(a))
           n == [handler |-> NULL, data |-> data, next |-> s.cleanup]
<1>1. /\ SameBut(t, s, {"cleanup", "cell"}) /\ t.cleanup = a
      /\ DOMAIN t.cell = DOMAIN w \cup {a} /\ t.cell[a] = n
      /\ \A b \in DOMAIN w : b # a => t.cell[b] = w[b]
  BY LinkNodeIs DEF Live, PoolType
<1>2. n \in Node
  BY DEF Live, PoolType, Node
<1>3. \A b \in DOMAIN w : b \in Address /\ w[b] \in Node
  <2>1. \A b \in DOMAIN s.cell : b \in Address /\ s.cell[b] \in Node
    BY DEF Live, PoolType
  <2> QED BY <2>1, OverwrittenType
<1> HIDE DEF t, w, n
<1>4. Live(t) BY <1>1, <1>2, <1>3 DEF Live, PoolType, SameBut
<1> QED BY <1>4 DEF t

\* ngx_rest_pool keeps the types; current is the first block.
LEMMA RestPoolType ==
  ASSUME NEW s, Live(s)
  PROVE  Live(ngx_rest_pool(s))
<1> DEFINE t == ngx_rest_pool(s)
           u == Free(s, Allocs(s))
           b(i) == [s.blk[i] EXCEPT !.last = SizeofPool, !.failed = 0]
<1>1. /\ SameBut(t, s, {"heap", "cell", "blk", "current", "large"})
      /\ t.heap = u.heap /\ t.cell = u.cell
      /\ t.blk = Rewound(s) /\ t.current = 1 /\ t.large = <<>>
  BY RestPoolIs DEF Live, PoolType
<1>2. Live(u)
  BY FreeType
<1>3. s.blk \in Seq(Block) /\ Len(s.blk) \in Nat \ {0}
  BY DEF Live, PoolType
<1>4. \A i \in 1..Len(s.blk) : b(i) \in Block
  <2> TAKE i \in 1..Len(s.blk)
  <2>1. s.blk[i] \in Block
    BY <1>3
  <2>2. b(i) = [at |-> s.blk[i].at, last |-> SizeofPool, failed |-> 0]
    BY <2>1, BlockUpdate
  <2> QED BY <2>1, <2>2, LayoutAssumption DEF Block
<1>5. Rewound(s) = [i \in 1..Len(s.blk) |-> b(i)]
  BY DEF Rewound
<1> HIDE DEF t, u, b
<1>6. t.blk \in Seq(Block) /\ Len(t.blk) = Len(s.blk) /\ t.blk # <<>>
  BY <1>1, <1>3, <1>4, <1>5
<1>7. t.large \in Seq(Header)
  BY <1>1
<1>8. Live(t) BY <1>1, <1>2, <1>3, <1>6, <1>7 DEF Live, PoolType, SameBut
<1> QED BY <1>8 DEF t

\* ngx_create_pool makes a well-typed pool.
LEMMA NewPoolType ==
  ASSUME NEW c \in Chunk, NEW size \in Nat
  PROVE  Live(NewPool(c, size))
<1> DEFINE b == [at |-> c, last |-> SizeofPool, failed |-> 0]
           m == MaxOf(size)
           t == NewPool(c, size)
<1>1. b \in Block
  BY LayoutAssumption DEF Block
<1>2. m \in Nat
  BY MaxOfNat
<1>3. t = [heap |-> {c}, size |-> size, max |-> m, blk |-> <<b>>, current |-> 1,
           large |-> <<>>, cleanup |-> NULL, cell |-> <<>>]
  BY NewPoolIs
<1> HIDE DEF b, m, t
<1>4. PoolShape(t)
  BY <1>3 DEF PoolShape
<1>5. PoolType(t) /\ t.blk # <<>>
  BY <1>1, <1>2, <1>3, <1>4 DEF PoolType
<1> QED BY <1>5 DEF Live, t

-----------------------------------------------------------------------------
(* The operations.                                                         *)

\* ngx_palloc_large returns well-typed outcomes.
LEMMA LargeType ==
  ASSUME NEW s, Live(s), NEW size \in Nat, NEW kind \in Kind,
         NEW o \in ngx_palloc_large(s, size, kind)
  PROVE  OutcomeType(o)
<1>1. ASSUME o = Outcome(s, NULL, {})
      PROVE  OutcomeType(o)
  BY <1>1 DEF OutcomeType, Outcome
<1>2. ASSUME NEW c \in Chunk \ s.heap, LargeCases(o, s, c, size, kind)
      PROVE  OutcomeType(o)
  <2> DEFINE t == Taken(s, c)
             whole == Region(Addr(c, 0), size, kind)
  <2>1. Live(t)
    BY TakenType
  <2>2. Addr(c, 0) \in Address /\ whole \in RegionType
    BY DEF Addr, Address, Region, RegionType
  <2>3. ASSUME NEW j \in 1..Len(t.large),
               o = Outcome(ReuseHeader(t, j, c), Addr(c, 0), {whole})
        PROVE  OutcomeType(o)
    <3>1. Live(ReuseHeader(t, j, c))
      BY <2>1, ReuseHeaderType
    <3> QED BY <2>2, <2>3, <3>1 DEF OutcomeType, Outcome
  <2>4. ASSUME NEW h \in ngx_palloc_small(t, SizeofLarge, TRUE, "header"),
               o = Outcome(Free(h.s, {c}), NULL, {})
        PROVE  OutcomeType(o)
    <3>1. OutcomeType(h)
      BY <2>1, SmallType, LayoutAssumption DEF Kind
    <3>2. Live(Free(h.s, {c}))
      BY <3>1, FreeType DEF OutcomeType
    <3> QED BY <2>4, <3>2 DEF OutcomeType, Outcome
  <2>5. ASSUME NEW h \in ngx_palloc_small(t, SizeofLarge, TRUE, "header"),
               h.ret # NULL,
               o = Outcome(PushHeader(h.s, h.ret, c), Addr(c, 0),
                           h.new \cup {whole})
        PROVE  OutcomeType(o)
    <3>1. OutcomeType(h)
      BY <2>1, SmallType, LayoutAssumption DEF Kind
    <3>2. h.ret \in Address /\ Live(h.s)
      BY <2>5, <3>1 DEF OutcomeType
    <3>3. Live(PushHeader(h.s, h.ret, c))
      BY <3>2, PushHeaderType
    <3> QED BY <2>2, <2>5, <3>1, <3>3 DEF OutcomeType, Outcome
  <2> QED BY <1>2, <2>3, <2>4, <2>5 DEF LargeCases
<1> QED BY <1>1, <1>2, LargeOutcome

\* So do ngx_palloc and ngx_pnalloc,
LEMMA PallocType ==
  ASSUME NEW s, Live(s), NEW size \in Nat, NEW kind \in Kind,
         NEW o \in ngx_palloc(s, size, kind) \cup ngx_pnalloc(s, size, kind)
  PROVE  OutcomeType(o)
<1>1. \/ o \in ngx_palloc_small(s, size, TRUE, kind)
      \/ o \in ngx_palloc_small(s, size, FALSE, kind)
      \/ o \in ngx_palloc_large(s, size, kind)
  BY DEF ngx_palloc, ngx_pnalloc
<1> QED BY <1>1, SmallType, LargeType

\* ngx_pcalloc,
LEMMA PcallocType ==
  ASSUME NEW s, Live(s), NEW size \in Nat, NEW kind \in Kind,
         NEW o \in ngx_pcalloc(s, size, kind)
  PROVE  OutcomeType(o)
<1>1. PICK p \in ngx_palloc(s, size, kind) :
        \/ o = p
        \/ o = Outcome(ngx_memzero(p.s, Region(p.ret, size, kind)), p.ret, p.new)
  BY PcallocOutcome
<1>2. OutcomeType(p)
  BY PallocType
<1>3. Live(ngx_memzero(p.s, Region(p.ret, size, kind)))
  BY <1>2, MemzeroType DEF OutcomeType
<1> QED BY <1>1, <1>2, <1>3 DEF OutcomeType, Outcome

\* and ngx_pool_cleanup_add.
LEMMA CleanupAddType ==
  ASSUME NEW s, Live(s), NEW size \in Nat,
         NEW o \in ngx_pool_cleanup_add(s, size)
  PROVE  OutcomeType(o)
<1>1. PICK c \in ngx_palloc(s, SizeofCleanup, "node") :
        \/ c.ret = NULL /\ o = c
        \/ /\ c.ret # NULL
           /\ \/ o = Outcome(LinkNode(c.s, c.ret, NULL), c.ret, c.new)
              \/ \E d \in ngx_palloc(c.s, size, "data") :
                   \/ o = Outcome(Scribble(d.s, NodeAt(c.ret)), NULL,
                                  c.new \cup d.new)
                   \/ /\ d.ret # NULL
                      /\ o = Outcome(LinkNode(d.s, c.ret, d.ret), c.ret,
                                     c.new \cup d.new)
  BY CleanupAddOutcome
<1>2. OutcomeType(c)
  BY PallocType, LayoutAssumption DEF Kind
<1>3. CASE o = c
  BY <1>2, <1>3
<1>4. CASE c.ret # NULL /\ o = Outcome(LinkNode(c.s, c.ret, NULL), c.ret, c.new)
  <2>1. Live(LinkNode(c.s, c.ret, NULL))
    BY <1>2, <1>4, LinkNodeType DEF OutcomeType
  <2> QED BY <1>2, <1>4, <2>1 DEF OutcomeType, Outcome
<1>5. ASSUME c.ret # NULL, NEW d \in ngx_palloc(c.s, size, "data"),
             \/ o = Outcome(Scribble(d.s, NodeAt(c.ret)), NULL, c.new \cup d.new)
             \/ o = Outcome(LinkNode(d.s, c.ret, d.ret), c.ret, c.new \cup d.new)
      PROVE  OutcomeType(o)
  <2>1. OutcomeType(d)
    BY <1>2, PallocType DEF OutcomeType, Kind
  <2>2. Live(Scribble(d.s, NodeAt(c.ret)))
    BY <2>1, ScribbleType DEF OutcomeType
  <2>3. Live(LinkNode(d.s, c.ret, d.ret))
    BY <1>2, <1>5, <2>1, LinkNodeType DEF OutcomeType
  <2> QED BY <1>2, <1>5, <2>1, <2>2, <2>3 DEF OutcomeType, Outcome
<1> QED BY <1>1, <1>3, <1>4, <1>5

\* ngx_pfree keeps the types.
LEMMA PfreeType ==
  ASSUME NEW s, Live(s), NEW p, NEW t \in ngx_pfree(s, p)
  PROVE  Live(t)
BY PfreeOutcome, DropAllocType

\* c->handler = h keeps the types.
LEMMA WithHandlerType ==
  ASSUME NEW s, Live(s), NEW a \in DOMAIN s.cell, NEW h \in Hook
  PROVE  Live(WithHandler(s, a, h))
<1> DEFINE t == WithHandler(s, a, h)
           n == [handler |-> h, data |-> s.cell[a].data, next |-> s.cell[a].next]
<1>1. /\ SameBut(t, s, {"cell"}) /\ DOMAIN t.cell = DOMAIN s.cell
      /\ t.cell[a] = n
      /\ \A b \in DOMAIN s.cell : b # a => t.cell[b] = s.cell[b]
  BY WithHandlerIs DEF Live
<1>2. n \in Node
  <2>1. s.cell[a] \in Node BY DEF Live, PoolType
  <2> QED BY <2>1 DEF Node
<1> HIDE DEF t, n
<1>3. Live(t) BY <1>1, <1>2 DEF Live, PoolType, SameBut
<1> QED BY <1>3 DEF t

-----------------------------------------------------------------------------
(* The state machine.                                                      *)

\* Before the constructor there is no block.
LEMMA InitType == Init => TypeOK
<1> SUFFICES ASSUME Init PROVE TypeOK
  OBVIOUS
<1>1. PoolShape(NoPool)
  BY DEF PoolShape, NoPool
<1>2. PoolType(NoPool)
  BY <1>1 DEF PoolType, NoPool
<1>3. PoolType(pool) /\ todo \in Seq(Entry) /\ it \in Address \cup {NULL}
  BY <1>2 DEF Init
<1>4. misrun \in BOOLEAN /\ status \in Status /\ given = {} /\ status = "none"
  BY DEF Init, Status
<1> QED BY <1>3, <1>4 DEF TypeOK

\* Steps that only move the client or the destructor along.
LEMMA ControlType ==
  ASSUME TypeOK, pool' = pool, given' = given, todo' = todo,
         misrun' = misrun, status' \in Status, it' \in Address \cup {NULL},
         status' \in {"live", "cleanup", "handler", "blocks"} => pool.blk # <<>>
  PROVE  TypeOK'
BY DEF TypeOK

\* An operation with well-typed outcomes keeps TypeOK.
LEMMA ApplyType ==
  ASSUME TypeOK, NEW outcomes, Apply(outcomes),
         Live(pool) => \A o \in outcomes : OutcomeType(o)
  PROVE  TypeOK'
<1>1. Live(pool)
  BY DEF TypeOK, Live, Apply, InUse
<1>2. PICK o \in outcomes : pool' = o.s /\ given' = given \cup o.new
  BY DEF Apply
<1>3. Live(pool') /\ given' \subseteq RegionType
  BY <1>1, <1>2 DEF OutcomeType, TypeOK, RegionType
<1> QED BY <1>3 DEF TypeOK, Live, RegionType, Apply

\* Every step keeps TypeOK.
LEMMA StepType == TypeOK /\ [Next]_vars => TypeOK'
<1> SUFFICES ASSUME TypeOK, [Next]_vars PROVE TypeOK'
  OBVIOUS
<1> USE DEF TypeOK
<1>1. ASSUME NEW size \in PoolSizes, Create(size) PROVE TypeOK'
  <2>1. size \in Nat BY SizesAssumption
  <2>2. ASSUME NEW c \in Malloc(pool.heap) \ {NULL}, pool' = NewPool(c, size)
        PROVE  Live(pool')
    BY <2>1, <2>2, MallocFresh, NewPoolType
  <2>3. PoolType(pool') /\ (status' \in {"live"} => pool'.blk # <<>>)
        /\ status' \in {"live", "ub", "failed_reported", "failed_silent"}
    BY <1>1, <2>2 DEF Create, Live
  <2> QED BY <1>1, <2>3 DEF Create, Status
<1>2. CASE UseFailed
  BY <1>2, ControlType DEF UseFailed, Status
<1>3. ASSUME NEW size \in PallocSizes, Palloc(size) PROVE TypeOK'
  BY <1>3, ApplyType, PallocType, SizesAssumption DEF Palloc, Kind
<1>4. ASSUME NEW size \in PnallocSizes, Pnalloc(size) PROVE TypeOK'
  BY <1>4, ApplyType, PallocType, SizesAssumption DEF Pnalloc, Kind
<1>5. ASSUME NEW size \in PcallocSizes, Pcalloc(size) PROVE TypeOK'
  BY <1>5, ApplyType, PcallocType, SizesAssumption DEF Pcalloc, Kind
<1>6. CASE Pfree
  <2>1. Live(pool)
    BY <1>6 DEF Pfree, InUse, Live
  <2>2. Live(pool') /\ given' \subseteq given
    BY <1>6, <2>1, PfreeType DEF Pfree
  <2> QED BY <1>6, <2>2 DEF Pfree, Live
<1>7. CASE ClientWrite
  <2>1. Live(pool)
    BY <1>7 DEF ClientWrite, InUse, Live
  <2>2. Live(pool')
    BY <1>7, <2>1, ScribbleType DEF ClientWrite
  <2> QED BY <1>7, <2>2 DEF ClientWrite, Live
<1>8. ASSUME NEW size \in CleanupSizes, CleanupAdd(size) PROVE TypeOK'
  <2>1. Live(pool) /\ size \in Nat
    BY <1>8, SizesAssumption DEF CleanupAdd, InUse, Live
  <2>2. PICK o \in ngx_pool_cleanup_add(pool, size) :
          /\ pool' = o.s /\ given' = given \cup o.new
          /\ todo' = IF o.ret = NULL \/ status = "handler" THEN todo
                     ELSE <<[node |-> o.ret, hook |-> NULL, done |-> FALSE]>> \o todo
    BY <1>8 DEF CleanupAdd
  <2>3. OutcomeType(o)
    BY <2>1, CleanupAddType
  <2>4. Live(pool') /\ given' \subseteq RegionType
    BY <2>2, <2>3 DEF OutcomeType, RegionType
  <2>5. todo' \in Seq(Entry)
    <3>1. CASE o.ret = NULL \/ status = "handler"
      BY <2>2, <3>1
    <3>2. CASE ~(o.ret = NULL \/ status = "handler")
      <4> DEFINE e == [node |-> o.ret, hook |-> NULL, done |-> FALSE]
      <4>1. e \in Entry
        BY <2>3, <3>2 DEF OutcomeType, Entry
      <4>2. todo' = <<e>> \o todo
        BY <2>2, <3>2
      <4> HIDE DEF e
      <4> QED BY <4>1, <4>2
    <3> QED BY <3>1, <3>2
  <2> QED BY <1>8, <2>4, <2>5 DEF CleanupAdd, Live, RegionType
<1>9. ASSUME NEW h \in Hook, SetHandler(h) PROVE TypeOK'
  <2>1. Live(pool)
    BY <1>9 DEF SetHandler, InUse, Live
  <2>2. PICK a \in DOMAIN pool.cell :
          /\ pool' = WithHandler(pool, a, h)
          /\ LET k == FirstOf({j \in 1..Len(todo) : todo[j].node = a})
             IN  todo' = [j \in 1..Len(todo) |->
                            IF j \in k THEN [todo[j] EXCEPT !.hook = h] ELSE todo[j]]
    BY <1>9 DEF SetHandler
  <2>3. Live(pool')
    BY <2>1, <2>2, WithHandlerType
  <2>4. todo' \in Seq(Entry)
    <3> DEFINE k == FirstOf({j \in 1..Len(todo) : todo[j].node = a})
               e(j) == IF j \in k THEN [todo[j] EXCEPT !.hook = h] ELSE todo[j]
    <3>1. todo' = [j \in 1..Len(todo) |-> e(j)]
      BY <2>2
    <3> HIDE DEF k
    <3>2. \A j \in 1..Len(todo) : todo[j] \in Entry
      OBVIOUS
    <3>3. \A j \in 1..Len(todo) : e(j) \in Entry
      BY <3>2 DEF Entry
    <3> HIDE DEF e
    <3> QED BY <3>1, <3>3
  <2> QED BY <1>9, <2>3, <2>4 DEF SetHandler, Live
<1>10. CASE ResetPool
  <2>1. Live(pool)
    BY <1>10 DEF ResetPool, Live
  <2>2. /\ Live(pool') /\ given' \subseteq given /\ status' \in Status
    BY <1>10, <2>1, RestPoolType DEF ResetPool, Status
  <2> QED BY <1>10, <2>2 DEF ResetPool, Live
<1>11. CASE BeginDestroy
  BY <1>11, ControlType DEF BeginDestroy, Status, PoolType
<1>12. CASE LostNode
  BY <1>12, ControlType DEF LostNode, Status
<1>13. ASSUME it \in DOMAIN pool.cell PROVE pool.cell[it].next \in Address \cup {NULL}
  BY <1>13 DEF PoolType, Node
<1>14. CASE SkipHandler
  BY <1>13, <1>14, ControlType DEF SkipHandler
<1>15. CASE CallHandler
  <2> DEFINE h == pool.cell[it].handler
             e(k) == [todo[k] EXCEPT !.done = @ \/ todo[k].hook = h]
  <2>1. todo' = [k \in 1..Len(todo) |-> e(k)]
    BY <1>15 DEF CallHandler
  <2>2. \A k \in 1..Len(todo) : todo[k] \in Entry
    OBVIOUS
  <2> HIDE DEF h
  <2>3. \A k \in 1..Len(todo) : e(k) \in Entry
    BY <2>2 DEF Entry
  <2> HIDE DEF e
  <2>4. todo' \in Seq(Entry)
    BY <2>1, <2>3
  <2>5. misrun' \in BOOLEAN
    BY <1>15 DEF CallHandler
  <2> QED BY <1>15, <2>4, <2>5 DEF CallHandler, Status
<1>16. CASE HandlerReturns
  BY <1>13, <1>16, ControlType DEF HandlerReturns, Status
<1>17. CASE FreeLarge
  <2>1. Live(pool)
    BY <1>17 DEF FreeLarge, Live
  <2>2. Live(pool') /\ given' \subseteq given /\ status' \in Status
    BY <1>17, <2>1, FreeType DEF FreeLarge, Status
  <2> QED BY <1>17, <2>2 DEF FreeLarge, Live
<1>18. CASE FreeBlocks
  <2>1. Live(pool)
    BY <1>18 DEF FreeBlocks, Live
  <2>2. Live(pool') /\ given' \subseteq given /\ status' \in Status
    BY <1>18, <2>1, FreeType DEF FreeBlocks, Status
  <2> QED BY <1>18, <2>2 DEF FreeBlocks, Live
<1>19. CASE DestroyAgain
  BY <1>19, ControlType DEF DestroyAgain, Status
<1>20. CASE UNCHANGED vars
  BY <1>20 DEF vars
<1> QED
  BY <1>1, <1>2, <1>3, <1>4, <1>5, <1>6, <1>7, <1>8, <1>9, <1>10, <1>11, <1>12,
     <1>14, <1>15, <1>16, <1>17, <1>18, <1>19, <1>20
  DEF Next, DestroyStep, Ended

(***************************************************************************)
(* The fields of the pool keep their types through every operation, every  *)
(* failure of malloc, reset, destruction and misuse: d.last never becomes  *)
(* negative, and pool->current is always a block of the chain.             *)
(***************************************************************************)
THEOREM TypeCorrect == Spec => []TypeOK
<1>1. Init => TypeOK
  BY InitType
<1>2. TypeOK /\ [Next]_vars => TypeOK'
  BY StepType
<1> QED BY <1>1, <1>2, PTL DEF Spec

-----------------------------------------------------------------------------
(* Memory safety.                                                          *)

\* The sizes of a pool never change.
SameSizes(t, s) == t.size = s.size /\ t.max = s.max

-----------------------------------------------------------------------------
(* Arithmetic.                                                             *)

\* In a sound pool the start of a request does not pass d.end, the room is
\* what is left behind it, and so no size_t wraps.
LEMMA RoomIs ==
  ASSUME NEW s, Live(s), Sized(s), Filled(s), NEW i \in 1..Len(s.blk),
         NEW align \in BOOLEAN
  PROVE  /\ Start(s.blk[i], align) \in Nat
         /\ s.blk[i].last <= Start(s.blk[i], align)
         /\ Start(s.blk[i], align) <= s.size
         /\ align => Start(s.blk[i], align) % NGX_ALIGNMENT = 0
         /\ Room(s, s.blk[i], align) = s.size - Start(s.blk[i], align)
<1> DEFINE l == s.blk[i].last
           m == Start(s.blk[i], align)
<1>1. s.blk[i] \in Block /\ s.size \in Nat
  BY DEF Live, PoolType
<1>2. l \in Nat /\ l <= s.size
  BY <1>1 DEF Filled, Block
<1>3. NGX_ALIGNMENT \in {4, 8} /\ s.size % NGX_ALIGNMENT = 0 /\ s.size < SizeMax
      /\ SizeMax \in Nat
  BY LayoutAssumption DEF Sized
<1>4. /\ ngx_align_ptr(l, NGX_ALIGNMENT) \in Nat
      /\ l <= ngx_align_ptr(l, NGX_ALIGNMENT)
      /\ ngx_align_ptr(l, NGX_ALIGNMENT) % NGX_ALIGNMENT = 0
  BY <1>2, <1>3, AlignUp
<1>5. ngx_align_ptr(l, NGX_ALIGNMENT) <= s.size
  BY <1>1, <1>2, <1>3, AlignBelow
<1>6. /\ m \in Nat /\ l <= m /\ m <= s.size
      /\ align => m % NGX_ALIGNMENT = 0
  BY <1>2, <1>4, <1>5 DEF Start
<1> HIDE DEF m
<1>7. s.size - m \in Nat /\ s.size - m < SizeMax
  BY <1>1, <1>3, <1>6
<1>8. ToSizeT(s.size - m) = s.size - m
  BY <1>7, SizeTExact
<1> QED BY <1>6, <1>8 DEF Room, m

\* A request that passed for small fits a new block, and so does a header.
LEMMA SmallFits ==
  ASSUME NEW s, Live(s), Sized(s)
  PROVE  /\ \A size \in Nat : size <= s.max => SizeofData + size <= s.size
         /\ SizeofData + SizeofLarge <= s.size
<1>1. s.max \in Nat /\ s.size \in Nat /\ s.max <= s.size - SizeofPool
      /\ SizeofPool <= s.size
  BY DEF Live, PoolType, Sized
<1>2. SizeofPool \in Nat /\ SizeofData \in Nat /\ SizeofLarge \in Nat
      /\ SizeofData + SizeofLarge <= SizeofPool
  BY LayoutAssumption
<1> QED BY <1>1, <1>2

-----------------------------------------------------------------------------
(* Small blocks.                                                           *)

\* Carving a request off a block: the region is new, and behind all others.
LEMMA CarveSound ==
  ASSUME NEW s, NEW g, NEW loose, Live(s), Sound(s, g, loose),
         g \subseteq RegionType,
         NEW i \in 1..Len(s.blk), NEW size \in Nat, NEW align \in BOOLEAN,
         NEW kind \in Kind, align \/ kind = "raw",
         Room(s, s.blk[i], align) >= size
  PROVE  LET t == Carve(s, i, size, align)
             r == Region(Addr(s.blk[i].at, Start(s.blk[i], align)), size, kind)
         IN  Sound(t, g \cup {r}, loose) /\ SameSizes(t, s)
<1> DEFINE t == Carve(s, i, size, align)
           m == Start(s.blk[i], align)
           r == Region(Addr(s.blk[i].at, m), size, kind)
           n == Len(s.blk)
<1>1. /\ SameBut(t, s, {"blk"})
      /\ t.blk = [s.blk EXCEPT ![i] = [at |-> s.blk[i].at,
                                       failed |-> s.blk[i].failed,
                                       last |-> m + size]]
  BY CarveIs DEF Live
<1>2. /\ m \in Nat /\ s.blk[i].last <= m /\ m <= s.size
      /\ align => m % NGX_ALIGNMENT = 0
      /\ m + size <= s.size
  BY RoomIs DEF Sound, Live, PoolType
<1>3. s.blk \in Seq(Block) /\ s.blk[i] \in Block /\ n \in Nat
  BY DEF Live, PoolType
<1>4. r.at = s.blk[i].at /\ r.off = m /\ r.len = size /\ r.kind = kind
  BY DEF Region, Addr
<1> HIDE DEF t, m, r
<1>5. /\ Len(t.blk) = n
      /\ \A k \in 1..n : t.blk[k].at = s.blk[k].at
      /\ \A k \in 1..n : k # i => t.blk[k].last = s.blk[k].last
      /\ t.blk[i].last = m + size
  BY <1>1, <1>3
<1>6. /\ t.size = s.size /\ t.max = s.max /\ t.large = s.large /\ t.heap = s.heap
  BY <1>1 DEF SameBut
<1>7. Blocks(t) = Blocks(s) /\ Allocs(t) = Allocs(s)
  BY <1>5, <1>6 DEF Blocks, Allocs
<1>8. Sized(t)
  BY <1>6 DEF Sized, Sound
<1>9. Filled(t)
  <2> SUFFICES ASSUME NEW k \in 1..n
               PROVE  HeaderOf(k) <= t.blk[k].last /\ t.blk[k].last <= s.size
    BY <1>5, <1>6 DEF Filled
  <2>1. HeaderOf(k) <= s.blk[k].last /\ s.blk[k].last <= s.size
    BY DEF Sound, Filled
  <2>2. CASE k # i
    BY <1>5, <2>1, <2>2
  <2>3. CASE k = i
    <3>1. HeaderOf(k) \in Nat
      BY LayoutAssumption DEF HeaderOf
    <3>2. s.blk[i].last \in Nat
      BY <1>3 DEF Block
    <3> QED BY <1>2, <1>5, <2>1, <2>3, <3>1, <3>2
  <2> QED BY <2>2, <2>3
<1>10. Owned(t, loose)
  BY <1>5, <1>6, <1>7 DEF Owned, Sound
<1>11. \A q \in g : q.at = s.blk[i].at => q.off + q.len <= s.blk[i].last
  BY DEF Sound, Placed
<1>12. Placed(t, g \cup {r})
  <2>1. s.blk[i].at \in Blocks(s) /\ s.blk[i].at \notin Allocs(s)
    BY DEF Blocks, Sound, Owned
  <2>2. \A k \in 1..n : s.blk[k].at = s.blk[i].at => k = i
    BY DEF Sound, Owned
  <2>3. ASSUME NEW q \in g, NEW k \in 1..n, q.at = t.blk[k].at
        PROVE  /\ HeaderOf(k) <= q.off /\ q.off + q.len <= t.blk[k].last
               /\ q.kind # "raw" => q.off % NGX_ALIGNMENT = 0
    <3>1. /\ HeaderOf(k) <= q.off /\ q.off + q.len <= s.blk[k].last
          /\ q.kind # "raw" => q.off % NGX_ALIGNMENT = 0
      BY <1>5, <2>3 DEF Sound, Placed
    <3>2. CASE k # i
      BY <1>5, <3>1, <3>2
    <3>3. CASE k = i
      <4>1. q.off \in Nat /\ q.len \in Nat /\ s.blk[i].last \in Nat
        BY <1>3 DEF RegionType, Block
      <4> QED BY <1>2, <1>5, <3>1, <3>3, <4>1
    <3> QED BY <3>2, <3>3
  <2>4. ASSUME NEW k \in 1..n, r.at = t.blk[k].at
        PROVE  /\ HeaderOf(k) <= r.off /\ r.off + r.len <= t.blk[k].last
               /\ r.kind # "raw" => r.off % NGX_ALIGNMENT = 0
    <3>1. k = i
      BY <1>4, <1>5, <2>2, <2>4
    <3>2. HeaderOf(i) <= s.blk[i].last /\ HeaderOf(i) \in Nat /\ s.blk[i].last \in Nat
      BY <1>3, LayoutAssumption DEF Sound, Filled, HeaderOf, Block
    <3> QED BY <1>2, <1>4, <1>5, <3>1, <3>2
  <2>5. \A q \in g : q.at \in Blocks(t) \cup Allocs(t)
                     /\ (q.at \in Allocs(t) =>
                           q.off = 0 /\ \A p \in g \cup {r} : p.at = q.at => p = q)
    BY <1>4, <1>7, <2>1 DEF Sound, Placed
  <2>6. r.at \in Blocks(t) \cup Allocs(t) /\ r.at \notin Allocs(t)
    BY <1>4, <1>7, <2>1
  <2> QED BY <1>5, <2>3, <2>4, <2>5, <2>6 DEF Placed
<1>13. Apart(g \cup {r})
  <2>1. \A q \in g : ~Overlap(r, q) /\ ~Overlap(q, r)
    <3> TAKE q \in g
    <3>1. CASE q.at # r.at
      BY <3>1 DEF Overlap
    <3>2. CASE q.at = r.at
      <4>1. q.off \in Nat /\ q.len \in Nat /\ s.blk[i].last \in Nat
        BY <1>3 DEF RegionType, Block
      <4>2. q.off + q.len <= r.off
        BY <1>2, <1>4, <1>11, <3>2, <4>1
      <4> QED BY <1>2, <1>4, <4>1, <4>2 DEF Overlap
    <3> QED BY <3>1, <3>2
  <2> QED BY <2>1 DEF Apart, Sound
<1>14. Sound(t, g \cup {r}, loose) /\ SameSizes(t, s)
  BY <1>6, <1>8, <1>9, <1>10, <1>12, <1>13 DEF Sound, SameSizes
<1> QED BY <1>14 DEF t, r, m

\* A new block: a chunk nobody had, with the request behind its header.
LEMMA AppendBlockSound ==
  ASSUME NEW s, NEW g, NEW loose, Live(s), Sound(s, g, loose),
         g \subseteq RegionType,
         NEW c \in Chunk \ s.heap, NEW cur, NEW size \in Nat, NEW kind \in Kind,
         SizeofData + size <= s.size
  PROVE  LET t == AppendBlock(s, c, cur, size)
             r == Region(Addr(c, BlockStart), size, kind)
         IN  Sound(t, g \cup {r}, loose) /\ SameSizes(t, s)
<1> DEFINE t == AppendBlock(s, c, cur, size)
           b == [at |-> c, failed |-> 0, last |-> BlockStart + size]
           r == Region(Addr(c, BlockStart), size, kind)
           n == Len(s.blk)
<1>1. /\ SameBut(t, s, {"heap", "blk", "current"})
      /\ t.heap = s.heap \cup {c} /\ t.blk = Append(Aged(s), b)
  BY AppendBlockIs DEF Live, PoolType
<1>2. s.blk \in Seq(Block) /\ n \in Nat \ {0}
  BY DEF Live, PoolType
<1>3. /\ Aged(s) \in Seq(Block) /\ Len(Aged(s)) = n
      /\ \A k \in 1..n : /\ Aged(s)[k].at = s.blk[k].at
                         /\ Aged(s)[k].last = s.blk[k].last
  BY <1>2, AgedIs
<1>4. BlockStart = SizeofData /\ SizeofData \in Nat
      /\ SizeofData % NGX_ALIGNMENT = 0
  BY BlockStartIs, LayoutAssumption
<1>5. b.at = c /\ b.last = SizeofData + size
  BY <1>4
<1>6. r.at = c /\ r.off = SizeofData /\ r.len = size
  BY <1>4 DEF Region, Addr
<1> HIDE DEF t, b, r
<1>7. /\ Len(t.blk) = n + 1
      /\ \A k \in 1..n : t.blk[k] = Aged(s)[k]
      /\ t.blk[n + 1] = b
  BY <1>1, <1>2, <1>3
<1>8. /\ \A k \in 1..n : t.blk[k].at = s.blk[k].at /\ t.blk[k].last = s.blk[k].last
      /\ t.blk[n + 1].at = c /\ t.blk[n + 1].last = SizeofData + size
  BY <1>3, <1>5, <1>7
<1>9. t.size = s.size /\ t.max = s.max /\ t.large = s.large
  BY <1>1 DEF SameBut
<1>10. 1..(n + 1) = (1..n) \cup {n + 1} /\ n + 1 \notin 1..n
  BY <1>2
<1>11. Blocks(t) = Blocks(s) \cup {c} /\ Allocs(t) = Allocs(s)
  <2>1. Blocks(t) = {t.blk[k].at : k \in (1..n) \cup {n + 1}}
    BY <1>7, <1>10 DEF Blocks
  <2>2. ASSUME NEW x \in Blocks(s) PROVE x \in Blocks(t)
    <3>1. PICK k \in 1..n : x = s.blk[k].at
      BY <2>2 DEF Blocks
    <3> QED BY <1>8, <2>1, <3>1
  <2>3. ASSUME NEW x \in Blocks(t) PROVE x \in Blocks(s) \cup {c}
    <3>1. PICK k \in (1..n) \cup {n + 1} : x = t.blk[k].at
      BY <2>1, <2>3
    <3>2. CASE k \in 1..n
      BY <1>8, <3>1, <3>2 DEF Blocks
    <3>3. CASE k = n + 1
      BY <1>8, <3>1, <3>3
    <3> QED BY <3>1, <3>2, <3>3
  <2>4. c \in Blocks(t)
    BY <1>8, <2>1
  <2>5. Allocs(t) = Allocs(s)
    BY <1>9 DEF Allocs
  <2> QED BY <2>2, <2>3, <2>4, <2>5
<1>12. c \notin Blocks(s) \cup Allocs(s) \cup loose
  BY DEF Sound, Owned
<1>13. \A k \in 1..n : s.blk[k].at # c
  BY <1>12 DEF Blocks
<1>14. HeaderOf(n + 1) = SizeofData
  BY <1>2 DEF HeaderOf
<1>15. Filled(t)
  <2>1. \A k \in 1..n : HeaderOf(k) <= t.blk[k].last /\ t.blk[k].last <= t.size
    BY <1>8, <1>9 DEF Sound, Filled
  <2>2. HeaderOf(n + 1) <= t.blk[n + 1].last /\ t.blk[n + 1].last <= t.size
    BY <1>4, <1>8, <1>9, <1>14
  <2> QED BY <1>7, <1>10, <2>1, <2>2 DEF Filled
<1>16. Owned(t, loose)
  <2>1. \A i, k \in 1..(n + 1) : t.blk[i].at = t.blk[k].at => i = k
    BY <1>8, <1>10, <1>13 DEF Sound, Owned
  <2>2. t.heap = Blocks(t) \cup Allocs(t) \cup loose
    BY <1>1, <1>11 DEF Sound, Owned
  <2> QED BY <1>7, <1>9, <1>11, <1>12, <2>1, <2>2 DEF Sound, Owned
<1>17. \A q \in g : q.at # c
  BY <1>12 DEF Sound, Placed
<1>18. Placed(t, g \cup {r})
  <2>1. ASSUME NEW q \in g, NEW k \in 1..(n + 1), q.at = t.blk[k].at
        PROVE  /\ HeaderOf(k) <= q.off /\ q.off + q.len <= t.blk[k].last
               /\ q.kind # "raw" => q.off % NGX_ALIGNMENT = 0
    BY <1>8, <1>10, <1>17, <2>1 DEF Sound, Placed
  <2>2. ASSUME NEW k \in 1..(n + 1), r.at = t.blk[k].at
        PROVE  /\ HeaderOf(k) <= r.off /\ r.off + r.len <= t.blk[k].last
               /\ r.kind # "raw" => r.off % NGX_ALIGNMENT = 0
    <3>1. k = n + 1
      BY <1>6, <1>8, <1>10, <1>13, <2>2
    <3> QED BY <1>4, <1>6, <1>8, <1>14, <3>1
  <2>3. \A q \in g : q.at \in Blocks(t) \cup Allocs(t)
                     /\ (q.at \in Allocs(t) =>
                           q.off = 0 /\ \A p \in g \cup {r} : p.at = q.at => p = q)
    BY <1>6, <1>11, <1>17 DEF Sound, Placed
  <2>4. r.at \in Blocks(t) \cup Allocs(t) /\ r.at \notin Allocs(t)
    BY <1>6, <1>11, <1>12
  <2> QED BY <1>7, <2>1, <2>2, <2>3, <2>4 DEF Placed
<1>19. Apart(g \cup {r})
  BY <1>6, <1>17 DEF Apart, Overlap, Sound
<1>20. Sound(t, g \cup {r}, loose) /\ SameSizes(t, s)
  BY <1>9, <1>15, <1>16, <1>18, <1>19 DEF Sound, SameSizes, Sized
<1> QED BY <1>20 DEF t, r

\* What an operation may do to a sound pool, seen from its caller.
SoundOutcome(o, s, g, loose) ==
  /\ OutcomeType(o)
  /\ Sound(o.s, g \cup o.new, loose)
  /\ SameSizes(o.s, s)

\* A failed operation that changed nothing.
LEMMA Nothing ==
  ASSUME NEW s, NEW g, NEW loose, Live(s), Sound(s, g, loose)
  PROVE  SoundOutcome(Outcome(s, NULL, {}), s, g, loose)
<1>1. g \cup {} = g
  OBVIOUS
<1> QED BY <1>1 DEF SoundOutcome, OutcomeType, Outcome, SameSizes

\* ngx_palloc_small keeps the pool sound, with any chunks loose.
LEMMA SmallSound ==
  ASSUME NEW s, NEW g, NEW loose, Live(s), Sound(s, g, loose),
         g \subseteq RegionType,
         NEW size \in Nat, NEW align \in BOOLEAN, NEW kind \in Kind,
         align \/ kind = "raw", SizeofData + size <= s.size,
         NEW o \in ngx_palloc_small(s, size, align, kind)
  PROVE  SoundOutcome(o, s, g, loose)
<1>0. OutcomeType(o)
  BY SmallType
<1>1. ASSUME NEW i \in s.current..Len(s.blk),
             Room(s, s.blk[i], align) >= size,
             o = Outcome(Carve(s, i, size, align),
                         Addr(s.blk[i].at, Start(s.blk[i], align)),
                         {Region(Addr(s.blk[i].at, Start(s.blk[i], align)),
                                 size, kind)})
      PROVE  SoundOutcome(o, s, g, loose)
  <2> DEFINE r == Region(Addr(s.blk[i].at, Start(s.blk[i], align)), size, kind)
             t == Carve(s, i, size, align)
  <2>1. i \in 1..Len(s.blk)
    BY DEF Live, PoolType
  <2>2. Sound(t, g \cup {r}, loose) /\ SameSizes(t, s)
    BY <1>1, <2>1, CarveSound
  <2>3. o.s = t /\ o.new = {r}
    BY <1>1 DEF Outcome
  <2> QED BY <1>0, <2>2, <2>3 DEF SoundOutcome
<1>2. CASE o = Outcome(s, NULL, {})
  BY <1>2, Nothing
<1>3. ASSUME NEW c \in Chunk \ s.heap, NEW cur \in NextCurrent(s),
             o = Outcome(AppendBlock(s, c, cur, size), Addr(c, BlockStart),
                         {Region(Addr(c, BlockStart), size, kind)})
      PROVE  SoundOutcome(o, s, g, loose)
  <2> DEFINE r == Region(Addr(c, BlockStart), size, kind)
             t == AppendBlock(s, c, cur, size)
  <2>1. Sound(t, g \cup {r}, loose) /\ SameSizes(t, s)
    BY AppendBlockSound
  <2>2. o.s = t /\ o.new = {r}
    BY <1>3 DEF Outcome
  <2> QED BY <1>0, <2>1, <2>2 DEF SoundOutcome
<1>4. \/ \E i \in s.current..Len(s.blk) :
           /\ Room(s, s.blk[i], align) >= size
           /\ o = Outcome(Carve(s, i, size, align),
                          Addr(s.blk[i].at, Start(s.blk[i], align)),
                          {Region(Addr(s.blk[i].at, Start(s.blk[i], align)),
                                  size, kind)})
      \/ o \in ngx_palloc_block(s, size, kind)
  BY SmallOutcome
<1>5. CASE o \in ngx_palloc_block(s, size, kind)
  <2>1. \/ o = Outcome(s, NULL, {})
        \/ \E c \in Chunk \ s.heap, cur \in NextCurrent(s) :
             o = Outcome(AppendBlock(s, c, cur, size), Addr(c, BlockStart),
                         {Region(Addr(c, BlockStart), size, kind)})
    BY <1>5, BlockOutcome
  <2> QED BY <1>2, <1>3, <2>1
<1> QED BY <1>1, <1>4, <1>5

\* The region that was given away is the one returned, in one of the blocks.
LEMMA SmallRegion ==
  ASSUME NEW s, Live(s), NEW size \in Nat, NEW align, NEW kind \in Kind,
         NEW o \in ngx_palloc_small(s, size, align, kind), o.ret # NULL
  PROVE  o.new = {Region(o.ret, size, kind)} /\ o.ret.at \in Blocks(o.s)
<1>1. ASSUME NEW i \in s.current..Len(s.blk), NEW a,
             a = Addr(s.blk[i].at, Start(s.blk[i], align)),
             o = Outcome(Carve(s, i, size, align), a, {Region(a, size, kind)})
      PROVE  o.new = {Region(o.ret, size, kind)} /\ o.ret.at \in Blocks(o.s)
  <2> DEFINE t == Carve(s, i, size, align)
             b == [at |-> s.blk[i].at, failed |-> s.blk[i].failed,
                   last |-> Start(s.blk[i], align) + size]
  <2>1. i \in 1..Len(s.blk) /\ s.blk \in Seq(Block)
    BY DEF Live, PoolType
  <2>2. t.blk = [s.blk EXCEPT ![i] = b]
    BY <2>1, CarveIs DEF Live
  <2>3. o.s = t /\ o.ret = a /\ o.new = {Region(a, size, kind)}
    BY <1>1 DEF Outcome
  <2>4. b.at = s.blk[i].at /\ a.at = s.blk[i].at
    BY <1>1 DEF Addr
  <2> HIDE DEF t, b
  <2>5. i \in 1..Len(t.blk) /\ t.blk[i].at = a.at
    BY <2>1, <2>2, <2>4
  <2> QED BY <2>3, <2>5 DEF Blocks
<1>2. CASE o = Outcome(s, NULL, {})
  BY <1>2 DEF Outcome
<1>3. ASSUME NEW c \in Chunk \ s.heap, NEW cur \in NextCurrent(s),
             o = Outcome(AppendBlock(s, c, cur, size), Addr(c, BlockStart),
                         {Region(Addr(c, BlockStart), size, kind)})
      PROVE  o.new = {Region(o.ret, size, kind)} /\ o.ret.at \in Blocks(o.s)
  <2> DEFINE t == AppendBlock(s, c, cur, size)
             b == [at |-> c, failed |-> 0, last |-> BlockStart + size]
  <2>1. t.blk = Append(Aged(s), b)
    BY AppendBlockIs DEF Live, PoolType
  <2>2. Aged(s) \in Seq(Block)
    BY AgedIs DEF Live, PoolType
  <2>3. o.s = t /\ o.ret = Addr(c, BlockStart) /\ o.new = {Region(o.ret, size, kind)}
    BY <1>3 DEF Outcome
  <2>4. o.ret.at = c /\ b.at = c
    BY <2>3 DEF Addr
  <2> HIDE DEF t, b
  <2>5. Len(t.blk) \in 1..Len(t.blk) /\ t.blk[Len(t.blk)].at = c
    BY <2>1, <2>2, <2>4
  <2> QED BY <2>3, <2>4, <2>5 DEF Blocks
<1>4. \/ \E i \in s.current..Len(s.blk) :
           o = Outcome(Carve(s, i, size, align),
                       Addr(s.blk[i].at, Start(s.blk[i], align)),
                       {Region(Addr(s.blk[i].at, Start(s.blk[i], align)),
                               size, kind)})
      \/ o \in ngx_palloc_block(s, size, kind)
  BY SmallOutcome
<1>5. CASE o \in ngx_palloc_block(s, size, kind)
  <2>1. \/ o = Outcome(s, NULL, {})
        \/ \E c \in Chunk \ s.heap, cur \in NextCurrent(s) :
             o = Outcome(AppendBlock(s, c, cur, size), Addr(c, BlockStart),
                         {Region(Addr(c, BlockStart), size, kind)})
    BY <1>5, BlockOutcome
  <2> QED BY <1>2, <1>3, <2>1
<1> QED BY <1>1, <1>4, <1>5

-----------------------------------------------------------------------------
(* Large memory.                                                           *)

\* Forgetting regions keeps the pool sound.
LEMMA SoundSubset ==
  ASSUME NEW s, NEW g, NEW h, NEW loose, Sound(s, g, loose), h \subseteq g
  PROVE  Sound(s, h, loose)
BY DEF Sound, Placed, Apart

\* Soundness does not depend on the cleanup nodes, nor on current.
LEMMA SoundSame ==
  ASSUME NEW s, NEW t, NEW g, NEW loose, Sound(s, g, loose),
         t.size = s.size, t.max = s.max, t.heap = s.heap, t.blk = s.blk,
         t.large = s.large
  PROVE  Sound(t, g, loose)
<1>1. Blocks(t) = Blocks(s) /\ Allocs(t) = Allocs(s)
  BY DEF Blocks, Allocs
<1> QED BY <1>1 DEF Sound, Sized, Filled, Owned, Placed

\* A chunk from malloc is loose until a list holds it.
LEMMA TakenSound ==
  ASSUME NEW s, NEW g, Live(s), Sound(s, g, {}), NEW c \in Chunk \ s.heap
  PROVE  Sound(Taken(s, c), g, {c}) /\ SameSizes(Taken(s, c), s)
<1> DEFINE t == Taken(s, c)
<1>1. SameBut(t, s, {"heap"}) /\ t.heap = s.heap \cup {c}
  BY TakenIs DEF Live, PoolType
<1> HIDE DEF t
<1>2. t.size = s.size /\ t.max = s.max /\ t.blk = s.blk /\ t.large = s.large
  BY <1>1 DEF SameBut
<1>3. Blocks(t) = Blocks(s) /\ Allocs(t) = Allocs(s)
  BY <1>2 DEF Blocks, Allocs
<1>4. Owned(t, {c})
  BY <1>1, <1>2, <1>3 DEF Owned, Sound
<1>5. Sound(t, g, {c})
  BY <1>2, <1>3, <1>4 DEF Sound, Sized, Filled, Placed
<1> QED BY <1>2, <1>5 DEF SameSizes, t

\* free(p) when there is no memory for the header.
LEMMA FreeLooseSound ==
  ASSUME NEW s, NEW g, NEW c, Live(s), Sound(s, g, {c})
  PROVE  Sound(Free(s, {c}), g, {}) /\ SameSizes(Free(s, {c}), s)
<1> DEFINE t == Free(s, {c})
<1>1. SameBut(t, s, {"heap", "cell"}) /\ t.heap = s.heap \ {c}
  BY FreeIs DEF Live, PoolType
<1> HIDE DEF t
<1>2. t.size = s.size /\ t.max = s.max /\ t.blk = s.blk /\ t.large = s.large
  BY <1>1 DEF SameBut
<1>3. Blocks(t) = Blocks(s) /\ Allocs(t) = Allocs(s)
  BY <1>2 DEF Blocks, Allocs
<1>4. Owned(t, {})
  BY <1>1, <1>2, <1>3 DEF Owned, Sound
<1>5. Sound(t, g, {})
  BY <1>2, <1>3, <1>4 DEF Sound, Sized, Filled, Placed
<1> QED BY <1>2, <1>5 DEF SameSizes, t

\* The loose chunk finds its header, new or reused.
LEMMA HeldSound ==
  ASSUME NEW s, NEW t, NEW g, NEW c \in Chunk, NEW size \in Nat, NEW kind \in Kind,
         Sound(s, g, {c}), g \subseteq RegionType,
         t.size = s.size, t.max = s.max, t.blk = s.blk, t.heap = s.heap,
         Allocs(t) = Allocs(s) \cup {c},
         \A j, k \in 1..Len(t.large) :
           j # k /\ t.large[j].alloc = t.large[k].alloc => t.large[j].alloc = NULL,
         \A j \in 1..Len(t.large) : t.large[j].hdr.at \in Blocks(s)
  PROVE  Sound(t, g \cup {Region(Addr(c, 0), size, kind)}, {})
<1> DEFINE r == Region(Addr(c, 0), size, kind)
<1>1. r.at = c /\ r.off = 0
  BY DEF Region, Addr
<1> HIDE DEF r
<1>2. Blocks(t) = Blocks(s)
  BY DEF Blocks
<1>3. c \notin Blocks(s) /\ c \notin Allocs(s)
  BY DEF Sound, Owned
<1>4. \A q \in g : q.at # c
  BY <1>3 DEF Sound, Placed
<1>5. Owned(t, {})
  BY <1>2, <1>3 DEF Sound, Owned
<1>6. Placed(t, g \cup {r})
  <2>1. \A i \in 1..Len(s.blk) : s.blk[i].at # c
    BY <1>3 DEF Blocks
  <2>2. \A q \in g :
          /\ q.at \in Blocks(t) \cup Allocs(t)
          /\ \A i \in 1..Len(t.blk) : q.at = t.blk[i].at =>
               /\ HeaderOf(i) <= q.off /\ q.off + q.len <= t.blk[i].last
               /\ q.kind # "raw" => q.off % NGX_ALIGNMENT = 0
          /\ q.at \in Allocs(t) =>
               q.off = 0 /\ \A p \in g \cup {r} : p.at = q.at => p = q
    BY <1>1, <1>2, <1>4 DEF Sound, Placed
  <2>3. /\ r.at \in Blocks(t) \cup Allocs(t)
        /\ \A i \in 1..Len(t.blk) : r.at # t.blk[i].at
        /\ r.off = 0 /\ \A p \in g \cup {r} : p.at = r.at => p = r
    BY <1>1, <1>4, <2>1
  <2> QED BY <2>2, <2>3 DEF Placed
<1>7. Apart(g \cup {r})
  BY <1>1, <1>4 DEF Apart, Overlap, Sound
<1>8. Sized(t) /\ Filled(t)
  BY DEF Sound, Sized, Filled
<1> QED BY <1>5, <1>6, <1>7, <1>8 DEF Sound, r

\* The loose chunk goes into an empty header.
LEMMA ReuseHeaderSound ==
  ASSUME NEW s, NEW g, NEW c \in Chunk, NEW size \in Nat, NEW kind \in Kind,
         Live(s), Sound(s, g, {c}), g \subseteq RegionType,
         NEW j \in 1..Len(s.large), s.large[j].alloc = NULL
  PROVE  /\ Sound(ReuseHeader(s, j, c), g \cup {Region(Addr(c, 0), size, kind)}, {})
         /\ SameSizes(ReuseHeader(s, j, c), s)
<1> DEFINE t == ReuseHeader(s, j, c)
           h == [hdr |-> s.large[j].hdr, alloc |-> c]
<1>1. SameBut(t, s, {"large"}) /\ t.large = [s.large EXCEPT ![j] = h]
  BY ReuseHeaderIs DEF Live
<1>2. s.large \in Seq(Header)
  BY DEF Live, PoolType
<1>3. h.hdr = s.large[j].hdr /\ h.alloc = c /\ c # NULL
  BY ChunksAssumption
<1> HIDE DEF t, h
<1>4. /\ Len(t.large) = Len(s.large) /\ t.large[j] = h
      /\ \A k \in 1..Len(s.large) : k # j => t.large[k] = s.large[k]
  BY <1>1, <1>2
<1>5. /\ t.size = s.size /\ t.max = s.max /\ t.blk = s.blk /\ t.heap = s.heap
  BY <1>1 DEF SameBut
<1>6. Allocs(t) = Allocs(s) \cup {c}
  BY <1>3, <1>4 DEF Allocs
<1>7. \A k \in 1..Len(s.large) : s.large[k].alloc # c
  BY <1>3 DEF Sound, Owned, Allocs
<1>8. \A i, k \in 1..Len(t.large) :
        i # k /\ t.large[i].alloc = t.large[k].alloc => t.large[i].alloc = NULL
  BY <1>3, <1>4, <1>7 DEF Sound, Owned
<1>9. \A k \in 1..Len(t.large) : t.large[k].hdr.at \in Blocks(s)
  BY <1>3, <1>4 DEF Sound, Owned
<1>10. Sound(t, g \cup {Region(Addr(c, 0), size, kind)}, {})
  BY <1>5, <1>6, <1>8, <1>9, HeldSound
<1> QED BY <1>5, <1>10 DEF SameSizes, t

\* The loose chunk goes into a new header.
LEMMA PushHeaderSound ==
  ASSUME NEW s, NEW g, NEW c \in Chunk, NEW size \in Nat, NEW kind \in Kind,
         Live(s), Sound(s, g, {c}), g \subseteq RegionType,
         NEW a \in Address, a.at \in Blocks(s)
  PROVE  /\ Sound(PushHeader(s, a, c), g \cup {Region(Addr(c, 0), size, kind)}, {})
         /\ SameSizes(PushHeader(s, a, c), s)
<1> DEFINE t == PushHeader(s, a, c)
           h == [hdr |-> a, alloc |-> c]
           n == Len(s.large)
<1>1. SameBut(t, s, {"large", "cell"}) /\ t.large = <<h>> \o s.large
  BY PushHeaderIs DEF Live, PoolType
<1>2. s.large \in Seq(Header) /\ n \in Nat
  BY DEF Live, PoolType
<1>3. h.hdr = a /\ h.alloc = c /\ c # NULL
  BY ChunksAssumption
<1> HIDE DEF t, h
<1>4. /\ Len(t.large) = n + 1 /\ t.large[1] = h
      /\ \A k \in 2..(n + 1) : t.large[k] = s.large[k - 1]
  BY <1>1, <1>2
<1>5. /\ t.size = s.size /\ t.max = s.max /\ t.blk = s.blk /\ t.heap = s.heap
  BY <1>1 DEF SameBut
<1>6. /\ 1..(n + 1) = {1} \cup (2..(n + 1))
      /\ \A k \in 2..(n + 1) : k - 1 \in 1..n
      /\ \A k \in 1..n : k + 1 \in 2..(n + 1) /\ (k + 1) - 1 = k
  BY <1>2
<1>7. Allocs(t) = Allocs(s) \cup {c}
  <2>1. ASSUME NEW x \in Allocs(s) PROVE x \in Allocs(t)
    <3>1. PICK k \in 1..n : s.large[k].alloc = x /\ x # NULL
      BY <2>1 DEF Allocs
    <3>2. k + 1 \in 1..(n + 1) /\ t.large[k + 1].alloc = x
      BY <1>4, <1>6, <3>1
    <3> QED BY <1>4, <3>1, <3>2 DEF Allocs
  <2>2. c \in Allocs(t)
    BY <1>3, <1>4, <1>6 DEF Allocs
  <2>3. ASSUME NEW x \in Allocs(t) PROVE x \in Allocs(s) \cup {c}
    <3>1. PICK k \in 1..(n + 1) : t.large[k].alloc = x /\ x # NULL
      BY <1>4, <2>3 DEF Allocs
    <3>2. CASE k = 1
      BY <1>3, <1>4, <3>1, <3>2
    <3>3. CASE k # 1
      <4>1. k \in 2..(n + 1) /\ k - 1 \in 1..n
        BY <1>2, <3>3
      <4>2. s.large[k - 1].alloc = x
        BY <1>4, <3>1, <4>1
      <4> QED BY <3>1, <4>1, <4>2 DEF Allocs
    <3> QED BY <3>2, <3>3
  <2> QED BY <2>1, <2>2, <2>3
<1>8. \A k \in 1..n : s.large[k].alloc # c
  BY <1>3 DEF Sound, Owned, Allocs
<1>9. \A i, k \in 1..Len(t.large) :
        i # k /\ t.large[i].alloc = t.large[k].alloc => t.large[i].alloc = NULL
  <2> SUFFICES ASSUME NEW i \in 1..(n + 1), NEW k \in 1..(n + 1), i # k,
                      t.large[i].alloc = t.large[k].alloc
               PROVE  t.large[i].alloc = NULL
    BY <1>4
  <2>1. CASE i = 1
    BY <1>3, <1>4, <1>6, <1>8, <2>1
  <2>2. CASE k = 1
    BY <1>3, <1>4, <1>6, <1>8, <2>2
  <2>3. CASE i # 1 /\ k # 1
    <3>1. i \in 2..(n + 1) /\ k \in 2..(n + 1)
      BY <2>3
    <3>2. i - 1 \in 1..n /\ k - 1 \in 1..n /\ i - 1 # k - 1
      BY <3>1
    <3>3. \A x, y \in 1..n :
            x # y /\ s.large[x].alloc = s.large[y].alloc => s.large[x].alloc = NULL
      BY DEF Sound, Owned
    <3>4. t.large[i] = s.large[i - 1] /\ t.large[k] = s.large[k - 1]
      BY <1>4, <3>1
    <3>5. s.large[i - 1].alloc = s.large[k - 1].alloc
      BY <3>4
    <3>6. s.large[i - 1].alloc = NULL
      BY <3>2, <3>3, <3>5
    <3> QED BY <3>4, <3>6
  <2> QED BY <2>1, <2>2, <2>3
<1>10. \A k \in 1..Len(t.large) : t.large[k].hdr.at \in Blocks(s)
  <2>1. \A k \in 1..n : s.large[k].hdr.at \in Blocks(s)
    BY DEF Sound, Owned
  <2>2. \A k \in 2..(n + 1) : t.large[k].hdr.at \in Blocks(s)
    BY <1>4, <1>6, <2>1
  <2>3. t.large[1].hdr.at \in Blocks(s)
    BY <1>3, <1>4
  <2> QED BY <1>4, <1>6, <2>2, <2>3
<1>11. Sound(t, g \cup {Region(Addr(c, 0), size, kind)}, {})
  BY <1>5, <1>7, <1>9, <1>10, HeldSound
<1> QED BY <1>5, <1>11 DEF SameSizes, t

\* ngx_palloc_large begins and ends with no loose chunk.
LEMMA LargeSound ==
  ASSUME NEW s, NEW g, Live(s), Sound(s, g, {}), g \subseteq RegionType,
         NEW size \in Nat, NEW kind \in Kind,
         NEW o \in ngx_palloc_large(s, size, kind)
  PROVE  SoundOutcome(o, s, g, {})
<1>1. CASE o = Outcome(s, NULL, {})
  BY <1>1, Nothing
<1>2. ASSUME NEW c \in Chunk \ s.heap, LargeCases(o, s, c, size, kind)
      PROVE  SoundOutcome(o, s, g, {})
  <2> DEFINE t == Taken(s, c)
             whole == Region(Addr(c, 0), size, kind)
  <2>1. Live(t) /\ Sound(t, g, {c}) /\ SameSizes(t, s)
    BY TakenType, TakenSound
  <2>2. OutcomeType(o)
    BY LargeType
  <2>3. SizeofData + SizeofLarge <= t.size
    BY <2>1, SmallFits DEF Sound
  <2>4. ASSUME NEW j \in 1..Len(t.large), t.large[j].alloc = NULL,
               o = Outcome(ReuseHeader(t, j, c), Addr(c, 0), {whole})
        PROVE  SoundOutcome(o, s, g, {})
    <3>1. /\ Sound(ReuseHeader(t, j, c), g \cup {whole}, {})
          /\ SameSizes(ReuseHeader(t, j, c), t)
      BY <2>1, <2>4, ReuseHeaderSound
    <3> QED BY <2>1, <2>2, <2>4, <3>1 DEF SoundOutcome, Outcome, SameSizes
  <2> DEFINE small == ngx_palloc_small(t, SizeofLarge, TRUE, "header")
  <2>5. \A h \in small : SoundOutcome(h, t, g, {c})
    BY <2>1, <2>3, SmallSound, LayoutAssumption DEF Kind
  <2>6. ASSUME NEW h \in small, o = Outcome(Free(h.s, {c}), NULL, {})
        PROVE  SoundOutcome(o, s, g, {})
    <3>1. SoundOutcome(h, t, g, {c})
      BY <2>5
    <3>2. Live(h.s) /\ Sound(h.s, g \cup h.new, {c}) /\ SameSizes(h.s, t)
      BY <3>1 DEF SoundOutcome, OutcomeType
    <3>3. g \subseteq g \cup h.new
      OBVIOUS
    <3>4. Sound(h.s, g, {c})
      BY <3>2, <3>3, SoundSubset
    <3>5. Sound(Free(h.s, {c}), g, {}) /\ SameSizes(Free(h.s, {c}), h.s)
      BY <3>2, <3>4, FreeLooseSound
    <3>6. g \cup {} = g
      OBVIOUS
    <3> QED BY <2>1, <2>2, <2>6, <3>2, <3>5, <3>6
            DEF SoundOutcome, Outcome, SameSizes
  <2>7. ASSUME NEW h \in small, h.ret # NULL,
               o = Outcome(PushHeader(h.s, h.ret, c), Addr(c, 0),
                           h.new \cup {whole})
        PROVE  SoundOutcome(o, s, g, {})
    <3>1. /\ Live(h.s) /\ Sound(h.s, g \cup h.new, {c}) /\ SameSizes(h.s, t)
          /\ h.ret \in Address /\ h.new \subseteq RegionType
      BY <2>5, <2>7 DEF SoundOutcome, OutcomeType
    <3>2. h.ret.at \in Blocks(h.s)
      BY <2>1, <2>7, SmallRegion, LayoutAssumption DEF Kind
    <3>3. g \cup h.new \subseteq RegionType
      BY <3>1
    <3>4. /\ Sound(PushHeader(h.s, h.ret, c), (g \cup h.new) \cup {whole}, {})
          /\ SameSizes(PushHeader(h.s, h.ret, c), h.s)
      BY <3>1, <3>2, <3>3, PushHeaderSound
    <3>5. (g \cup h.new) \cup {whole} = g \cup (h.new \cup {whole})
      OBVIOUS
    <3> QED BY <2>1, <2>2, <2>7, <3>1, <3>4, <3>5
            DEF SoundOutcome, Outcome, SameSizes
  <2> QED BY <1>2, <2>4, <2>6, <2>7 DEF LargeCases
<1> QED BY <1>1, <1>2, LargeOutcome

-----------------------------------------------------------------------------
(* The operations of the class.                                            *)

\* ngx_palloc keeps the pool sound.
LEMMA PallocSound ==
  ASSUME NEW s, NEW g, Live(s), Sound(s, g, {}), g \subseteq RegionType,
         NEW size \in Nat, NEW kind \in Kind,
         NEW o \in ngx_palloc(s, size, kind)
  PROVE  SoundOutcome(o, s, g, {})
<1>1. CASE size <= s.max
  <2>1. SizeofData + size <= s.size
    BY <1>1, SmallFits DEF Sound
  <2>2. o \in ngx_palloc_small(s, size, TRUE, kind)
    BY <1>1 DEF ngx_palloc
  <2> QED BY <2>1, <2>2, SmallSound
<1>2. CASE ~(size <= s.max)
  <2>1. o \in ngx_palloc_large(s, size, kind)
    BY <1>2 DEF ngx_palloc
  <2> QED BY <2>1, LargeSound
<1> QED BY <1>1, <1>2

\* ngx_pnalloc keeps the pool sound, without aligning.
LEMMA PnallocSound ==
  ASSUME NEW s, NEW g, Live(s), Sound(s, g, {}), g \subseteq RegionType,
         NEW size \in Nat, NEW o \in ngx_pnalloc(s, size, "raw")
  PROVE  SoundOutcome(o, s, g, {})
<1>0. "raw" \in Kind
  BY DEF Kind
<1>1. CASE size <= s.max
  <2>1. SizeofData + size <= s.size
    BY <1>1, SmallFits DEF Sound
  <2>2. o \in ngx_palloc_small(s, size, FALSE, "raw")
    BY <1>1 DEF ngx_pnalloc
  <2> QED BY <1>0, <2>1, <2>2, SmallSound
<1>2. CASE ~(size <= s.max)
  <2>1. o \in ngx_palloc_large(s, size, "raw")
    BY <1>2 DEF ngx_pnalloc
  <2> QED BY <1>0, <2>1, LargeSound
<1> QED BY <1>1, <1>2

\* Writing to cleanup nodes moves no memory.
LEMMA CellSound ==
  ASSUME NEW s, NEW t, NEW g, NEW loose, Sound(s, g, loose),
         SameBut(t, s, {"cell", "cleanup"})
  PROVE  Sound(t, g, loose) /\ SameSizes(t, s)
<1>1. /\ t.size = s.size /\ t.max = s.max /\ t.heap = s.heap /\ t.blk = s.blk
      /\ t.large = s.large
  BY DEF SameBut
<1> QED BY <1>1, SoundSame DEF SameSizes

\* ngx_pcalloc keeps the pool sound.
LEMMA PcallocSound ==
  ASSUME NEW s, NEW g, Live(s), Sound(s, g, {}), g \subseteq RegionType,
         NEW size \in Nat, NEW kind \in Kind,
         NEW o \in ngx_pcalloc(s, size, kind)
  PROVE  SoundOutcome(o, s, g, {})
<1>1. PICK p \in ngx_palloc(s, size, kind) :
        \/ o = p
        \/ o = Outcome(ngx_memzero(p.s, Region(p.ret, size, kind)), p.ret, p.new)
  BY PcallocOutcome
<1>2. SoundOutcome(p, s, g, {})
  BY PallocSound
<1>3. CASE o = p
  BY <1>2, <1>3
<1>4. CASE o = Outcome(ngx_memzero(p.s, Region(p.ret, size, kind)), p.ret, p.new)
  <2> DEFINE t == ngx_memzero(p.s, Region(p.ret, size, kind))
  <2>1. SameBut(t, p.s, {"cell"})
    BY <1>2, MemzeroIs DEF SoundOutcome, OutcomeType, Live, PoolType
  <2>2. SameBut(t, p.s, {"cell", "cleanup"})
    BY <2>1 DEF SameBut
  <2>3. Sound(t, g \cup p.new, {}) /\ SameSizes(t, p.s)
    BY <1>2, <2>2, CellSound DEF SoundOutcome
  <2>4. OutcomeType(o)
    BY PcallocType
  <2> QED BY <1>2, <1>4, <2>3, <2>4 DEF SoundOutcome, Outcome, SameSizes
<1> QED BY <1>1, <1>3, <1>4

\* ngx_pool_cleanup_add keeps the pool sound, also when it fails half way.
LEMMA CleanupAddSound ==
  ASSUME NEW s, NEW g, Live(s), Sound(s, g, {}), g \subseteq RegionType,
         NEW size \in Nat, NEW o \in ngx_pool_cleanup_add(s, size)
  PROVE  SoundOutcome(o, s, g, {})
<1>0. OutcomeType(o)
  BY CleanupAddType
<1>1. PICK c \in ngx_palloc(s, SizeofCleanup, "node") :
        \/ c.ret = NULL /\ o = c
        \/ /\ c.ret # NULL
           /\ \/ o = Outcome(LinkNode(c.s, c.ret, NULL), c.ret, c.new)
              \/ \E d \in ngx_palloc(c.s, size, "data") :
                   \/ o = Outcome(Scribble(d.s, NodeAt(c.ret)), NULL,
                                  c.new \cup d.new)
                   \/ /\ d.ret # NULL
                      /\ o = Outcome(LinkNode(d.s, c.ret, d.ret), c.ret,
                                     c.new \cup d.new)
  BY CleanupAddOutcome
<1>2. SoundOutcome(c, s, g, {})
  BY PallocSound, LayoutAssumption DEF Kind
<1>3. CASE o = c
  BY <1>2, <1>3
<1>4. CASE o = Outcome(LinkNode(c.s, c.ret, NULL), c.ret, c.new)
  <2>1. SameBut(LinkNode(c.s, c.ret, NULL), c.s, {"cleanup", "cell"})
    BY <1>2, LinkNodeIs DEF SoundOutcome, OutcomeType, Live, PoolType
  <2>2. SameBut(LinkNode(c.s, c.ret, NULL), c.s, {"cell", "cleanup"})
    BY <2>1 DEF SameBut
  <2>3. /\ Sound(LinkNode(c.s, c.ret, NULL), g \cup c.new, {})
        /\ SameSizes(LinkNode(c.s, c.ret, NULL), c.s)
    BY <1>2, <2>2, CellSound DEF SoundOutcome
  <2> QED BY <1>0, <1>2, <1>4, <2>3 DEF SoundOutcome, Outcome, SameSizes
<1>5. ASSUME NEW d \in ngx_palloc(c.s, size, "data"), NEW t, NEW p,
             t = Scribble(d.s, NodeAt(c.ret)) \/ t = LinkNode(d.s, c.ret, d.ret),
             o = Outcome(t, p, c.new \cup d.new)
      PROVE  SoundOutcome(o, s, g, {})
  <2>1. g \cup c.new \subseteq RegionType /\ Live(c.s)
        /\ Sound(c.s, g \cup c.new, {})
    BY <1>2 DEF SoundOutcome, OutcomeType
  <2>2. SoundOutcome(d, c.s, g \cup c.new, {})
    BY <2>1, PallocSound DEF Kind
  <2>3. PoolShape(d.s)
    BY <2>2 DEF SoundOutcome, OutcomeType, Live, PoolType
  <2>4. SameBut(t, d.s, {"cell", "cleanup"})
    <3>1. SameBut(Scribble(d.s, NodeAt(c.ret)), d.s, {"cell"})
      BY <2>3, ScribbleIs
    <3>2. SameBut(LinkNode(d.s, c.ret, d.ret), d.s, {"cleanup", "cell"})
      BY <2>3, LinkNodeIs
    <3> QED BY <1>5, <3>1, <3>2 DEF SameBut
  <2>5. Sound(t, (g \cup c.new) \cup d.new, {}) /\ SameSizes(t, d.s)
    BY <2>2, <2>4, CellSound DEF SoundOutcome
  <2>6. (g \cup c.new) \cup d.new = g \cup (c.new \cup d.new)
    OBVIOUS
  <2> QED BY <1>0, <1>2, <1>5, <2>2, <2>5, <2>6 DEF SoundOutcome, Outcome, SameSizes
<1> QED BY <1>1, <1>3, <1>4, <1>5

\* free(l->alloc) takes back one region, the one that fills the chunk.
LEMMA DropAllocSound ==
  ASSUME NEW s, NEW g, Live(s), Sound(s, g, {}), g \subseteq RegionType,
         NEW j \in 1..Len(s.large), s.large[j].alloc # NULL,
         NEW r \in g, r.at = s.large[j].alloc
  PROVE  Sound(DropAlloc(s, j), g \ {r}, {})
<1> DEFINE t == DropAlloc(s, j)
           c == s.large[j].alloc
           h == [hdr |-> s.large[j].hdr, alloc |-> NULL]
           u == Free(s, {s.large[j].alloc})
<1>1. /\ SameBut(t, s, {"heap", "cell", "large"})
      /\ t.heap = u.heap /\ t.cell = u.cell
      /\ t.large = [s.large EXCEPT ![j] = h]
  BY DropAllocIs DEF Live
<1>2. u.heap = s.heap \ {c}
  BY FreeIs DEF Live, PoolType
<1>3. s.large \in Seq(Header)
  BY DEF Live, PoolType
<1>4. h.hdr = s.large[j].hdr /\ h.alloc = NULL
  OBVIOUS
<1> HIDE DEF t, h, u
<1>5. /\ Len(t.large) = Len(s.large) /\ t.large[j] = h
      /\ \A k \in 1..Len(s.large) : k # j => t.large[k] = s.large[k]
  BY <1>1, <1>3
<1>6. t.size = s.size /\ t.max = s.max /\ t.blk = s.blk
  BY <1>1 DEF SameBut
<1>7. \A k \in 1..Len(s.large) : k # j => s.large[k].alloc # c
  BY DEF Sound, Owned
<1>8. Allocs(t) = Allocs(s) \ {c} /\ Blocks(t) = Blocks(s) /\ c \in Allocs(s)
  BY <1>4, <1>5, <1>6, <1>7 DEF Allocs, Blocks
<1>9. Owned(t, {})
  <2>1. \A i, k \in 1..Len(t.large) :
          i # k /\ t.large[i].alloc = t.large[k].alloc => t.large[i].alloc = NULL
    BY <1>4, <1>5 DEF Sound, Owned
  <2>2. \A k \in 1..Len(t.large) : t.large[k].hdr.at \in Blocks(t)
    BY <1>4, <1>5, <1>8 DEF Sound, Owned
  <2>3. t.heap = Blocks(t) \cup Allocs(t) \cup {} /\ Blocks(t) \cap Allocs(t) = {}
    <3> HIDE DEF c
    <3>1. s.heap = Blocks(s) \cup Allocs(s) \cup {} /\ Blocks(s) \cap Allocs(s) = {}
      BY DEF Sound, Owned
    <3>2. t.heap = s.heap \ {c}
      BY <1>1, <1>2
    <3> QED BY <1>8, <3>1, <3>2
  <2> QED BY <1>6, <2>1, <2>2, <2>3 DEF Sound, Owned
<1>10. \A q \in g \ {r} : q.at # c
  BY <1>8 DEF Sound, Placed
<1>11. Placed(t, g \ {r})
  BY <1>6, <1>8, <1>10 DEF Sound, Placed
<1>12. Apart(g \ {r}) /\ Sized(t) /\ Filled(t)
  BY <1>6 DEF Sound, Apart, Sized, Filled
<1> QED BY <1>9, <1>11, <1>12 DEF Sound, t

\* ngx_pfree of a pointer the client holds: the start of a large chunk frees
\* that chunk and no other, anything in a block frees nothing.
LEMMA PfreeSound ==
  ASSUME NEW s, NEW g, Live(s), Sound(s, g, {}), g \subseteq RegionType,
         NEW r \in g, NEW t \in ngx_pfree(s, Addr(r.at, r.off))
  PROVE  Sound(t, IF r.at \in Blocks(s) THEN g ELSE g \ {r}, {})
<1> DEFINE p == Addr(r.at, r.off)
<1>1. CASE r.at \in Blocks(s)
  <2>1. r.at \notin Allocs(s)
    BY <1>1 DEF Sound, Owned
  <2>2. ASSUME NEW j \in 1..Len(s.large), s.large[j].alloc # NULL,
               Addr(s.large[j].alloc, 0) = p
        PROVE  FALSE
    <3>1. s.large[j].alloc = r.at
      BY <2>2 DEF Addr
    <3> QED BY <2>1, <2>2, <3>1 DEF Allocs
  <2>3. t = s
    BY <2>2, PfreeOutcome
  <2> QED BY <1>1, <2>3
<1>2. CASE r.at \notin Blocks(s)
  <2>1. r.at \in Allocs(s) /\ r.off = 0
    BY <1>2 DEF Sound, Placed
  <2>2. PICK k \in 1..Len(s.large) : s.large[k].alloc = r.at /\ r.at # NULL
    BY <2>1 DEF Allocs
  <2>3. k \in {j \in 1..Len(s.large) :
                 s.large[j].alloc # NULL /\ Addr(s.large[j].alloc, 0) = p}
    BY <2>1, <2>2
  <2>4. \A j \in {j \in 1..Len(s.large) :
                    s.large[j].alloc # NULL /\ Addr(s.large[j].alloc, 0) = p} : j = k
    <3> TAKE j \in {j \in 1..Len(s.large) :
                      s.large[j].alloc # NULL /\ Addr(s.large[j].alloc, 0) = p}
    <3>1. s.large[j].alloc = r.at
      BY DEF Addr
    <3> QED BY <2>2, <3>1 DEF Sound, Owned
  <2>5. k \in Holder(s, p)
    BY <2>3, <2>4 DEF Holder, FirstOf
  <2>6. \E j \in 1..Len(s.large) :
          /\ s.large[j].alloc # NULL /\ Addr(s.large[j].alloc, 0) = p
          /\ t = DropAlloc(s, j)
    BY <2>5, PfreeOutcome
  <2>7. t = DropAlloc(s, k)
    BY <2>4, <2>6
  <2> QED BY <1>2, <2>2, <2>7, DropAllocSound
<1> QED BY <1>1, <1>2

\* In a sound pool the loops over pool_->large and over the blocks free every
\* chunk exactly once.
LEMMA SoundFreeable ==
  ASSUME NEW s, NEW g, Live(s), Sound(s, g, {})
  PROVE  LargeFreeable(s) /\ BlocksFreeable(s)
BY DEF Sound, Owned, LargeFreeable, BlocksFreeable

\* ngx_rest_pool takes everything back and leaves a sound pool.
LEMMA RestPoolSound ==
  ASSUME NEW s, NEW g, Live(s), Sound(s, g, {})
  PROVE  Sound(ngx_rest_pool(s), {}, {})
<1> DEFINE t == ngx_rest_pool(s)
           n == Len(s.blk)
           b(i) == [s.blk[i] EXCEPT !.last = SizeofPool, !.failed = 0]
<1>1. /\ SameBut(t, s, {"heap", "cell", "blk", "current", "large"})
      /\ t.heap = Free(s, Allocs(s)).heap
      /\ t.blk = Rewound(s) /\ t.large = <<>>
  BY RestPoolIs DEF Live, PoolType
<1>2. Free(s, Allocs(s)).heap = s.heap \ Allocs(s)
  BY FreeIs DEF Live, PoolType
<1>3. s.blk \in Seq(Block) /\ n \in Nat
  BY DEF Live, PoolType
<1>4. Rewound(s) = [i \in 1..n |-> b(i)]
  BY DEF Rewound
<1>5. \A i \in 1..n : b(i).at = s.blk[i].at /\ b(i).last = SizeofPool
  <2> TAKE i \in 1..n
  <2>1. s.blk[i] \in Block
    BY <1>3
  <2>2. b(i) = [at |-> s.blk[i].at, last |-> SizeofPool, failed |-> 0]
    BY <2>1, BlockUpdate
  <2> QED BY <2>2
<1> HIDE DEF t, b
<1>6. /\ Len(t.blk) = n
      /\ \A i \in 1..n : t.blk[i].at = s.blk[i].at /\ t.blk[i].last = SizeofPool
  BY <1>1, <1>3, <1>4, <1>5
<1>7. t.size = s.size /\ t.max = s.max
  BY <1>1 DEF SameBut
<1>8. Blocks(t) = Blocks(s) /\ Allocs(t) = {}
  BY <1>1, <1>6 DEF Blocks, Allocs
<1>9. Filled(t)
  <2>1. \A i \in 1..n : HeaderOf(i) <= SizeofPool
    BY LayoutAssumption DEF HeaderOf
  <2>2. SizeofPool <= t.size
    BY <1>7 DEF Sound, Sized
  <2> QED BY <1>6, <2>1, <2>2 DEF Filled
<1>10. Owned(t, {})
  <2>1. t.heap = Blocks(t)
    BY <1>1, <1>2, <1>8 DEF Sound, Owned
  <2>2. \A i, k \in 1..Len(t.blk) : t.blk[i].at = t.blk[k].at => i = k
    BY <1>6 DEF Sound, Owned
  <2>3. Len(t.large) = 0
    BY <1>1
  <2> QED BY <1>8, <2>1, <2>2, <2>3 DEF Owned
<1>11. Placed(t, {}) /\ Apart({}) /\ Sized(t)
  BY <1>7 DEF Placed, Apart, Sized, Sound
<1> QED BY <1>9, <1>10, <1>11 DEF Sound, t

\* max is at most what the first block has behind its header.
LEMMA NewPoolSound ==
  ASSUME NEW c \in Chunk, NEW size \in Nat,
         SizeofPool <= size, size < SizeMax, size % NGX_ALIGNMENT = 0
  PROVE  Sound(NewPool(c, size), {}, {})
<1> DEFINE b == [at |-> c, last |-> SizeofPool, failed |-> 0]
           m == MaxOf(size)
           t == NewPool(c, size)
<1>1. m <= size - SizeofPool
  <2>1. size - SizeofPool \in Nat /\ size - SizeofPool < SizeMax
    BY LayoutAssumption
  <2>2. ToSizeT(size - SizeofPool) = size - SizeofPool
    BY <2>1, SizeTExact
  <2> QED BY <2>1, <2>2, LayoutAssumption DEF MaxOf
<1>2. t = [heap |-> {c}, size |-> size, max |-> m, blk |-> <<b>>, current |-> 1,
           large |-> <<>>, cleanup |-> NULL, cell |-> <<>>]
  BY NewPoolIs
<1>3. b.at = c /\ b.last = SizeofPool
  OBVIOUS
<1> HIDE DEF b, m, t
<1>4. /\ t.heap = {c} /\ t.size = size /\ t.max = m /\ t.blk = <<b>>
      /\ t.large = <<>>
  BY <1>2
<1>5. Len(t.blk) = 1 /\ t.blk[1] = b /\ Len(t.large) = 0
  BY <1>4
<1>6. Blocks(t) = {c} /\ Allocs(t) = {}
  BY <1>3, <1>5 DEF Blocks, Allocs
<1>7. Sized(t)
  BY <1>1, <1>4 DEF Sized
<1>8. Filled(t)
  BY <1>3, <1>4, <1>5, LayoutAssumption DEF Filled, HeaderOf
<1>9. Owned(t, {})
  BY <1>4, <1>5, <1>6 DEF Owned
<1>10. Placed(t, {}) /\ Apart({})
  BY DEF Placed, Apart
<1> QED BY <1>7, <1>8, <1>9, <1>10 DEF Sound, t

-----------------------------------------------------------------------------
(* The state machine.                                                      *)

\* Soundness is what the properties ask for.
LEMMA SoundImplies ==
  TypeOK /\ Sound(pool, given, {}) => WellPlaced /\ Disjoint /\ GivenLive
<1> SUFFICES ASSUME TypeOK, Sound(pool, given, {})
             PROVE  WellPlaced /\ Disjoint /\ GivenLive
  OBVIOUS
<1>1. WellPlaced
  <2> SUFFICES ASSUME NEW i \in 1..Len(pool.blk), NEW r \in given,
                      r.at = pool.blk[i].at
               PROVE  /\ HeaderOf(i) <= r.off /\ r.off + r.len <= pool.size
                      /\ r.kind # "raw" => r.off % NGX_ALIGNMENT = 0
    BY DEF WellPlaced
  <2>1. /\ HeaderOf(i) <= r.off /\ r.off + r.len <= pool.blk[i].last
        /\ r.kind # "raw" => r.off % NGX_ALIGNMENT = 0
        /\ pool.blk[i].last <= pool.size
    BY DEF Sound, Placed, Filled
  <2>2. pool.blk[i] \in Block /\ r.off \in Nat /\ r.len \in Nat /\ pool.size \in Nat
    BY DEF TypeOK, PoolType
  <2> QED BY <2>1, <2>2 DEF Block
<1>2. Disjoint
  BY DEF Sound, Apart, Disjoint
<1>3. GivenLive
  BY DEF Sound, Placed, Owned, GivenLive
<1> QED BY <1>1, <1>2, <1>3

\* A step to a live, sound pool keeps the invariant.
LEMMA KeepsLive ==
  ASSUME TypeOK', status' \in {"live", "cleanup", "handler"},
         Sound(pool', given', {})
  PROVE  MemoryInv'
<1>0. (TypeOK /\ Sound(pool, given, {}))'
  OBVIOUS
<1>1. (WellPlaced /\ Disjoint /\ GivenLive)'
  BY <1>0, SoundImplies, PTL
<1> QED BY <1>1 DEF MemoryInv

\* Nothing moves and the pool is not used any further.
LEMMA KeepsIdle ==
  ASSUME MemoryInv, UNCHANGED <<pool, given>>,
         status' \in {"ub", "failed_reported", "failed_silent"}
  PROVE  MemoryInv'
BY DEF MemoryInv, WellPlaced, Disjoint, GivenLive

\* An operation with sound outcomes keeps the invariant.
LEMMA ApplySound ==
  ASSUME TypeOK, TypeOK', MemoryInv, NEW outcomes, Apply(outcomes),
         Live(pool) /\ Sound(pool, given, {}) /\ given \subseteq RegionType
           => \A o \in outcomes : SoundOutcome(o, pool, given, {})
  PROVE  MemoryInv'
<1>1. Live(pool) /\ Sound(pool, given, {}) /\ given \subseteq RegionType
  BY DEF TypeOK, Live, Apply, InUse, MemoryInv, RegionType
<1>2. Sound(pool', given', {}) /\ status' \in {"live", "cleanup", "handler"}
  BY <1>1 DEF Apply, SoundOutcome, InUse
<1> QED BY <1>2, KeepsLive

\* Every step keeps the invariant.
LEMMA StepMemory ==
  ASSUME SoundSizes
  PROVE  TypeOK /\ TypeOK' /\ MemoryInv /\ [Next]_vars => MemoryInv'
<1> SUFFICES ASSUME TypeOK, TypeOK', MemoryInv, [Next]_vars PROVE MemoryInv'
  OBVIOUS
<1>0. ASSUME status \in {"live", "cleanup", "handler"}
      PROVE  Live(pool) /\ Sound(pool, given, {}) /\ given \subseteq RegionType
  BY <1>0 DEF TypeOK, Live, MemoryInv, RegionType
<1>1. ASSUME NEW size \in PoolSizes, Create(size) PROVE MemoryInv'
  <2>1. size \in Nat /\ SizeofPool <= size /\ size < SizeMax
        /\ size % NGX_ALIGNMENT = 0
    BY SizesAssumption DEF SoundSizes
  <2>2. ASSUME NEW c \in Malloc(pool.heap) \ {NULL}, pool' = NewPool(c, size),
               status' = IF size >= SizeofPool THEN "live" ELSE "ub"
        PROVE  MemoryInv'
    <3>1. c \in Chunk
      BY MallocFresh
    <3>2. Sound(pool', {}, {})
      BY <2>1, <2>2, <3>1, NewPoolSound
    <3>3. given' = {} /\ status' = "live"
      BY <1>1, <2>1, <2>2, LayoutAssumption DEF Create, MemoryInv
    <3> QED BY <3>2, <3>3, KeepsLive
  <2>3. CASE pool' = pool /\ status' \in {"failed_reported", "failed_silent"}
    BY <1>1, <2>3, KeepsIdle DEF Create
  <2> QED BY <1>1, <2>2, <2>3 DEF Create
<1>2. CASE UseFailed
  BY <1>2, KeepsIdle DEF UseFailed
<1>3. ASSUME NEW size \in PallocSizes, Palloc(size) PROVE MemoryInv'
  <2>1. size \in Nat /\ "client" \in Kind
    BY SizesAssumption DEF Kind
  <2> QED BY <1>3, <2>1, ApplySound, PallocSound DEF Palloc
<1>4. ASSUME NEW size \in PnallocSizes, Pnalloc(size) PROVE MemoryInv'
  <2>1. size \in Nat
    BY SizesAssumption
  <2> QED BY <1>4, <2>1, ApplySound, PnallocSound DEF Pnalloc
<1>5. ASSUME NEW size \in PcallocSizes, Pcalloc(size) PROVE MemoryInv'
  <2>1. size \in Nat /\ "client" \in Kind
    BY SizesAssumption DEF Kind
  <2> QED BY <1>5, <2>1, ApplySound, PcallocSound DEF Pcalloc
<1>6. CASE Pfree
  <2>1. PICK r \in given : /\ pool' \in ngx_pfree(pool, Addr(r.at, r.off))
                           /\ given' = IF r.at \in Blocks(pool) THEN given
                                       ELSE given \ {r}
    BY <1>6 DEF Pfree
  <2>2. status \in {"live", "cleanup", "handler"} /\ status' = status
    BY <1>6 DEF Pfree, InUse
  <2>3. Sound(pool', given', {})
    BY <1>0, <2>1, <2>2, PfreeSound
  <2> QED BY <2>2, <2>3, KeepsLive
<1>7. CASE ClientWrite
  <2>1. status \in {"live", "cleanup", "handler"} /\ status' = status
        /\ given' = given
    BY <1>7 DEF ClientWrite, InUse
  <2>2. PICK r : pool' = Scribble(pool, r)
    BY <1>7 DEF ClientWrite
  <2>3. SameBut(pool', pool, {"cell"})
    BY <1>0, <2>1, <2>2, ScribbleIs DEF Live, PoolType
  <2>4. SameBut(pool', pool, {"cell", "cleanup"})
    BY <2>3 DEF SameBut
  <2>5. Sound(pool', given', {})
    BY <1>0, <2>1, <2>4, CellSound
  <2> QED BY <2>1, <2>5, KeepsLive
<1>8. ASSUME NEW size \in CleanupSizes, CleanupAdd(size) PROVE MemoryInv'
  <2>1. size \in Nat
    BY SizesAssumption
  <2>2. status \in {"live", "cleanup", "handler"} /\ status' = status
    BY <1>8 DEF CleanupAdd, InUse
  <2>3. PICK o \in ngx_pool_cleanup_add(pool, size) :
          pool' = o.s /\ given' = given \cup o.new
    BY <1>8 DEF CleanupAdd
  <2>4. SoundOutcome(o, pool, given, {})
    BY <1>0, <2>1, <2>2, CleanupAddSound
  <2>5. Sound(pool', given', {})
    BY <2>3, <2>4 DEF SoundOutcome
  <2> QED BY <2>2, <2>5, KeepsLive
<1>9. ASSUME NEW h \in Hook, SetHandler(h) PROVE MemoryInv'
  <2>1. status \in {"live", "cleanup", "handler"} /\ status' = status
        /\ given' = given
    BY <1>9 DEF SetHandler, InUse
  <2>2. PICK a \in DOMAIN pool.cell : pool' = WithHandler(pool, a, h)
    BY <1>9 DEF SetHandler
  <2>3. SameBut(pool', pool, {"cell"})
    BY <2>2, WithHandlerIs DEF TypeOK
  <2>4. SameBut(pool', pool, {"cell", "cleanup"})
    BY <2>3 DEF SameBut
  <2>5. Sound(pool', given', {})
    BY <1>0, <2>1, <2>4, CellSound
  <2> QED BY <2>1, <2>5, KeepsLive
<1>10. CASE ResetPool
  <2>1. status = "live" /\ LargeFreeable(pool)
    BY <1>0, <1>10, SoundFreeable DEF ResetPool
  <2>2. pool' = ngx_rest_pool(pool) /\ given' = {} /\ status' = "live"
    BY <1>10, <2>1 DEF ResetPool
  <2>3. Sound(pool', given', {})
    BY <1>0, <2>1, <2>2, RestPoolSound
  <2> QED BY <2>2, <2>3, KeepsLive
<1>11. CASE BeginDestroy \/ SkipHandler \/ CallHandler \/ HandlerReturns
  <2>1. /\ status \in {"live", "cleanup", "handler"}
        /\ status' \in {"live", "cleanup", "handler"}
        /\ pool' = pool /\ given' = given
    BY <1>11 DEF BeginDestroy, SkipHandler, CallHandler, HandlerReturns
  <2>2. Sound(pool', given', {})
    BY <1>0, <2>1
  <2> QED BY <2>1, <2>2, KeepsLive
<1>12. CASE LostNode
  BY <1>12, KeepsIdle DEF LostNode
<1>13. CASE FreeLarge
  <2> DEFINE g == {r \in given : r.at \notin Allocs(pool)}
  <2>1. Live(pool) /\ Sound(pool, given, {}) /\ LargeFreeable(pool)
        /\ BlocksFreeable(pool)
    BY <1>0, <1>13, SoundFreeable DEF FreeLarge
  <2>2. pool' = Free(pool, Allocs(pool)) /\ status' = "blocks" /\ given' = g
    BY <1>13, <2>1 DEF FreeLarge
  <2>3. SameBut(pool', pool, {"heap", "cell"}) /\ pool'.heap = pool.heap \ Allocs(pool)
    BY <2>1, <2>2, FreeIs DEF Live, PoolType
  <2>4. pool'.blk = pool.blk /\ pool'.size = pool.size
    BY <2>3 DEF SameBut
  <2>5. Blocks(pool') = Blocks(pool) /\ pool'.heap = Blocks(pool)
    BY <2>1, <2>3, <2>4 DEF Blocks, Sound, Owned
  <2>6. \A r \in g : r.at \in Blocks(pool) /\ r \in given
    BY <2>1 DEF Sound, Placed
  <2>7. BlocksLeft(pool', given')
    BY <2>1, <2>2, <2>4, <2>5, <2>6 DEF BlocksLeft, BlocksFreeable
  <2>8. (WellPlaced /\ Disjoint /\ GivenLive)'
    <3>1. WellPlaced /\ Disjoint BY DEF MemoryInv
    <3> QED BY <2>2, <2>4, <2>5, <2>6, <3>1
            DEF WellPlaced, Disjoint, GivenLive
  <2> QED BY <2>2, <2>7, <2>8 DEF MemoryInv
<1>14. CASE FreeBlocks
  <2>1. BlocksLeft(pool, given) /\ Live(pool)
    BY <1>14 DEF FreeBlocks, MemoryInv, TypeOK, Live
  <2>2. pool' = Free(pool, Blocks(pool)) /\ status' = "destroyed" /\ given' = {}
    BY <1>14, <2>1 DEF FreeBlocks, BlocksLeft
  <2>3. pool'.heap = {}
    BY <2>1, <2>2, FreeIs DEF Live, PoolType, BlocksLeft
  <2> QED BY <2>2, <2>3 DEF MemoryInv, WellPlaced, Disjoint, GivenLive
<1>15. CASE DestroyAgain
  BY <1>15, KeepsIdle DEF DestroyAgain
<1>16. CASE UNCHANGED vars
  BY <1>16 DEF vars, MemoryInv, WellPlaced, Disjoint, GivenLive
<1> QED
  BY <1>1, <1>2, <1>3, <1>4, <1>5, <1>6, <1>7, <1>8, <1>9, <1>10, <1>11, <1>12,
     <1>13, <1>14, <1>15, <1>16
  DEF Next, DestroyStep, Ended

\* Nothing is given away before the constructor.
LEMMA InitMemory == Init => MemoryInv
BY DEF Init, NoPool, MemoryInv, WellPlaced, Disjoint, GivenLive

\* The invariant says who owns every chunk at every point of the pool's life.
LEMMA MemoryAccounted == TypeOK /\ MemoryInv => HeapAccounted
<1> SUFFICES ASSUME TypeOK, MemoryInv PROVE HeapAccounted
  OBVIOUS
<1>1. ASSUME status \in {"live", "cleanup", "handler"}
      PROVE  /\ pool.heap = Blocks(pool) \cup Allocs(pool)
             /\ Blocks(pool) \cap Allocs(pool) = {}
             /\ BlocksFreeable(pool) /\ LargeFreeable(pool)
  <2>1. Live(pool) /\ Sound(pool, given, {})
    BY <1>1 DEF TypeOK, Live, MemoryInv
  <2>2. pool.heap = Blocks(pool) \cup Allocs(pool)
        /\ Blocks(pool) \cap Allocs(pool) = {}
    BY <2>1 DEF Sound, Owned
  <2> QED BY <2>1, <2>2, SoundFreeable
<1> QED BY <1>1 DEF HeapAccounted, MemoryInv, BlocksLeft

\* MemoryInv is an invariant of the pool.
LEMMA MemoryInvariant ==
  ASSUME SoundSizes
  PROVE  Spec => [](TypeOK /\ MemoryInv)
<1>1. Init => MemoryInv
  BY InitMemory
<1>2. TypeOK /\ TypeOK' /\ MemoryInv /\ [Next]_vars => MemoryInv'
  BY StepMemory
<1> QED BY <1>1, <1>2, TypeCorrect, PTL DEF Spec

(***************************************************************************)
(* Whatever the client requests, whenever malloc fails, and even if the    *)
(* pool is reset with handlers or destroyed twice: what ngx_palloc,        *)
(* ngx_pnalloc, ngx_pcalloc and ngx_pool_cleanup_add give away lies inside *)
(* its block and aligned, never shares a byte with anything else given     *)
(* away, and stays allocated until it is given up.                         *)
(***************************************************************************)
THEOREM MemorySafe ==
  ASSUME SoundSizes
  PROVE  Spec => [](WellPlaced /\ Disjoint /\ GivenLive)
<1>1. MemoryInv => WellPlaced /\ Disjoint /\ GivenLive
  BY DEF MemoryInv
<1> QED BY <1>1, MemoryInvariant, PTL

(***************************************************************************)
(* Every chunk has exactly one owner, so that ngx_rest_pool and            *)
(* ngx_destroy_pool free each chunk once, and nothing is left after        *)
(* ngx_destroy_pool; failed allocations leak nothing.                      *)
(***************************************************************************)
THEOREM NoLeakNoDoubleFree ==
  ASSUME SoundSizes
  PROVE  Spec => []HeapAccounted
BY MemoryInvariant, MemoryAccounted, PTL

-----------------------------------------------------------------------------
(* The failure counters and pool->current: how far ngx_palloc_small walks, *)
(* for every pool size and every sequence of requests.                     *)

\* The list of blocks as its counters see it.
SameChain(t, s) == t.blk = s.blk /\ t.current = s.current

\* What leaves the chain alone leaves its counters alone.
LEMMA SameChainOK ==
  ASSUME NEW s, NEW t, ChainOK(s), SameChain(t, s)
  PROVE  ChainOK(t)
BY DEF ChainOK, SameChain, Ages, Lockstep

\* A successful small request changes no counter.
LEMMA CarveChain ==
  ASSUME NEW s, Live(s), ChainOK(s), NEW i \in 1..Len(s.blk), NEW size, NEW align
  PROVE  ChainOK(Carve(s, i, size, align))
<1> DEFINE t == Carve(s, i, size, align)
           b == [at |-> s.blk[i].at, failed |-> s.blk[i].failed,
                 last |-> Start(s.blk[i], align) + size]
<1>1. t.current = s.current /\ t.blk = [s.blk EXCEPT ![i] = b]
  BY CarveIs DEF Live, SameBut
<1>2. s.blk \in Seq(Block) /\ s.current \in Nat
  BY DEF Live, PoolType
<1>3. b.failed = s.blk[i].failed
  OBVIOUS
<1> HIDE DEF t, b
<1>4. /\ Len(t.blk) = Len(s.blk)
      /\ \A k \in 1..Len(s.blk) : t.blk[k].failed = s.blk[k].failed
  BY <1>1, <1>2, <1>3
<1>5. Ages(t)
  <2>1. \A k \in 1..Len(s.blk) : \A j \in s.current..k : j \in 1..Len(s.blk)
    BY DEF Live, PoolType
  <2> QED BY <1>1, <1>4, <2>1 DEF ChainOK, Ages
<1>6. Lockstep(s) => Lockstep(t)
  <2>1. \A j \in s.current..(Len(s.blk) - 1) : j \in 1..Len(s.blk)
    BY DEF Live, PoolType
  <2> QED BY <1>1, <1>4, <2>1 DEF Lockstep
<1>7. ChainOK(t)
  BY <1>1, <1>2, <1>5, <1>6 DEF ChainOK
<1> QED BY <1>7 DEF t

\* The loop of ngx_palloc_block: the blocks it retires have failed six times,
\* because an earlier block has failed at least as often as a later one.
LEMMA AppendBlockChain ==
  ASSUME NEW s, Live(s), ChainOK(s), NEW c, NEW cur \in NextCurrent(s), NEW size
  PROVE  ChainOK(AppendBlock(s, c, cur, size))
<1> DEFINE t == AppendBlock(s, c, cur, size)
           b == [at |-> c, failed |-> 0, last |-> BlockStart + size]
           n == Len(s.blk)
           f(i) == s.blk[i].failed
<1>1. t.current = cur /\ t.blk = Append(Aged(s), b)
  BY AppendBlockIs DEF Live, PoolType
<1>2. s.blk \in Seq(Block) /\ n \in Nat /\ s.current \in 1..n
  BY DEF Live, PoolType
<1>3. /\ Aged(s) \in Seq(Block) /\ Len(Aged(s)) = n
      /\ \A i \in 1..n :
           Aged(s)[i].failed = IF s.current <= i /\ i < n THEN f(i) + 1 ELSE f(i)
  BY <1>2, AgedIs
<1>4. b.failed = 0
  OBVIOUS
<1> HIDE DEF t, b
<1>5. /\ Len(t.blk) = n + 1 /\ t.blk[n + 1] = b
      /\ \A i \in 1..n : t.blk[i] = Aged(s)[i]
  BY <1>1, <1>2, <1>3
<1>6. /\ t.blk[n + 1].failed = 0
      /\ \A i \in 1..n :
           t.blk[i].failed = IF s.current <= i /\ i < n THEN f(i) + 1 ELSE f(i)
  BY <1>3, <1>4, <1>5
<1>7. \A i \in 1..n : f(i) \in Nat
  <2> TAKE i \in 1..n
  <2>1. s.blk[i] \in Block
    BY <1>2
  <2> QED BY <2>1 DEF Block
<1>8. /\ \A i \in 1..n : i < s.current => f(i) = 6
      /\ \A i \in 1..n : i >= s.current => f(i) <= 5
      /\ f(n) = 0
      /\ \A i \in 1..n : \A j \in s.current..i : f(j) >= f(i)
  BY <1>2 DEF ChainOK, Ages
<1>9. /\ cur \in s.current..n
      /\ \A i \in s.current..(n - 1) : f(i) > 4 => i < cur
      /\ cur = s.current \/ (cur - 1 \in s.current..(n - 1) /\ f(cur - 1) > 4)
  BY DEF NextCurrent, Exhausted
<1> HIDE DEF f, n
<1>10. \A i \in 1..n : i < cur => t.blk[i].failed = 6
  <2> TAKE i \in 1..n
  <2> HAVE i < cur
  <2>1. CASE i < s.current
    BY <1>2, <1>6, <1>8, <2>1
  <2>2. CASE i >= s.current
    <3>1. cur - 1 \in s.current..(n - 1) /\ f(cur - 1) > 4
      BY <1>2, <1>9, <2>2
    <3>2. i \in s.current..(cur - 1) /\ cur - 1 \in 1..n /\ i < n
      BY <1>2, <1>9, <2>2, <3>1
    <3>3. f(i) >= f(cur - 1) /\ f(i) <= 5
      BY <1>8, <2>2, <3>2
    <3>4. f(i) = 5
      BY <1>7, <3>1, <3>2, <3>3
    <3> QED BY <1>6, <2>2, <3>2, <3>4
  <2> QED BY <1>2, <2>1, <2>2
<1>11. \A i \in 1..n : i >= cur => /\ t.blk[i].failed <= 5
                                   /\ i = n => t.blk[i].failed = 0
                                   /\ i < n => t.blk[i].failed = f(i) + 1
  <2> TAKE i \in 1..n
  <2> HAVE i >= cur
  <2>1. i >= s.current
    BY <1>2, <1>9
  <2>2. CASE i = n
    BY <1>6, <1>8, <2>2
  <2>3. CASE i < n
    <3>1. f(i) <= 4
      BY <1>2, <1>7, <1>9, <2>1, <2>3
    <3> QED BY <1>6, <1>7, <2>1, <2>3, <3>1
  <2> QED BY <1>2, <2>2, <2>3
<1>12. Ages(t)
  <2> SUFFICES ASSUME NEW i \in 1..(n + 1)
               PROVE  /\ i < cur => t.blk[i].failed = 6
                      /\ i >= cur => t.blk[i].failed <= 5
                      /\ i = n + 1 => t.blk[i].failed = 0
                      /\ \A j \in cur..i : t.blk[j].failed >= t.blk[i].failed
    BY <1>1, <1>5 DEF Ages
  <2>1. CASE i = n + 1
    <3>1. ~(i < cur)
      BY <1>2, <1>9, <2>1
    <3>2. \A j \in cur..i : t.blk[j].failed >= 0
      <4> TAKE j \in cur..i
      <4>1. CASE j = n + 1
        BY <1>6, <4>1
      <4>2. CASE j < n
        <5>1. j \in 1..n /\ j >= cur
          BY <1>2, <1>9, <2>1, <4>2
        <5>2. t.blk[j].failed = f(j) + 1 /\ f(j) \in Nat
          BY <1>7, <1>11, <4>2, <5>1
        <5> QED BY <5>2
      <4>3. CASE j = n
        <5>1. j \in 1..n /\ j >= cur
          BY <1>2, <1>9, <2>1, <4>3
        <5> QED BY <1>11, <4>3, <5>1
      <4> QED BY <1>2, <1>9, <2>1, <4>1, <4>2, <4>3
    <3> QED BY <1>6, <2>1, <3>1, <3>2
  <2>2. CASE i \in 1..n
    <3>1. ASSUME NEW j \in cur..i PROVE t.blk[j].failed >= t.blk[i].failed
      <4>1. j \in 1..n /\ j >= cur /\ i >= cur /\ j <= i /\ j \in s.current..i
        BY <1>2, <1>9, <2>2
      <4>2. f(j) >= f(i) /\ f(j) \in Nat /\ f(i) \in Nat
        BY <1>7, <1>8, <2>2, <4>1
      <4>3. CASE i < n
        BY <1>2, <1>11, <2>2, <4>1, <4>2, <4>3
      <4>4. CASE i = n
        <5>1. CASE j = n
          BY <1>11, <4>1, <4>4, <5>1
        <5>2. CASE j < n
          BY <1>11, <4>1, <4>2, <4>4, <5>2
        <5> QED BY <1>2, <4>1, <5>1, <5>2
      <4> QED BY <1>2, <2>2, <4>3, <4>4
    <3> QED BY <1>2, <1>10, <1>11, <2>2, <3>1
  <2> QED BY <1>2, <2>1, <2>2
<1>13. Lockstep(s) => Lockstep(t)
  <2>5. (n + 1) - 1 = n
    BY <1>2
  <2> SUFFICES ASSUME Lockstep(s), NEW i \in cur..n
               PROVE  t.blk[i].failed = (n + 1) - i - 1
    BY <1>1, <1>5, <2>5 DEF Lockstep
  <2>1. i \in 1..n /\ i >= cur
    BY <1>2, <1>9
  <2>2. CASE i = n
    BY <1>2, <1>11, <2>1, <2>2
  <2>3. CASE i < n
    <3>1. i \in s.current..(n - 1)
      BY <1>2, <1>9, <2>3
    <3>2. f(i) = n - i - 1
      BY <3>1 DEF Lockstep, f, n
    <3> QED BY <1>2, <1>11, <2>1, <2>3, <3>2
  <2> QED BY <1>2, <2>1, <2>2, <2>3
<1>14. ChainOK(t)
  BY <1>1, <1>2, <1>9, <1>12, <1>13 DEF ChainOK
<1> QED BY <1>14 DEF t

\* ngx_palloc_small fills a block, appends one, or fails.
LEMMA SmallChain ==
  ASSUME NEW s, Live(s), ChainOK(s), NEW size \in Nat, NEW align, NEW kind,
         NEW o \in ngx_palloc_small(s, size, align, kind)
  PROVE  ChainOK(o.s)
<1>1. ASSUME NEW i \in s.current..Len(s.blk), NEW a, NEW new,
             o = Outcome(Carve(s, i, size, align), a, new)
      PROVE  ChainOK(o.s)
  <2>1. i \in 1..Len(s.blk)
    BY DEF Live, PoolType
  <2>2. ChainOK(Carve(s, i, size, align))
    BY <2>1, CarveChain
  <2> QED BY <1>1, <2>2 DEF Outcome
<1>2. ASSUME o \in ngx_palloc_block(s, size, kind)
      PROVE  ChainOK(o.s)
  <2>1. CASE o = Outcome(s, NULL, {})
    BY <2>1 DEF Outcome
  <2>2. ASSUME NEW c \in Chunk \ s.heap, NEW cur \in NextCurrent(s), NEW a, NEW new,
               o = Outcome(AppendBlock(s, c, cur, size), a, new)
        PROVE  ChainOK(o.s)
    <3>1. ChainOK(AppendBlock(s, c, cur, size))
      BY AppendBlockChain
    <3> QED BY <2>2, <3>1 DEF Outcome
  <2>3. \/ o = Outcome(s, NULL, {})
        \/ \E c \in Chunk \ s.heap, cur \in NextCurrent(s) :
             o = Outcome(AppendBlock(s, c, cur, size), Addr(c, BlockStart),
                         {Region(Addr(c, BlockStart), size, kind)})
    BY <1>2, BlockOutcome
  <2> QED BY <2>1, <2>2, <2>3
<1>3. \/ \E i \in s.current..Len(s.blk) :
           LET a == Addr(s.blk[i].at, Start(s.blk[i], align))
           IN  o = Outcome(Carve(s, i, size, align), a, {Region(a, size, kind)})
      \/ o \in ngx_palloc_block(s, size, kind)
  BY SmallOutcome
<1> QED BY <1>1, <1>2, <1>3

\* ngx_palloc_large touches the chain only to place a header.
LEMMA LargeChain ==
  ASSUME NEW s, Live(s), ChainOK(s), NEW size \in Nat, NEW kind,
         NEW o \in ngx_palloc_large(s, size, kind)
  PROVE  ChainOK(o.s)
<1>1. CASE o = Outcome(s, NULL, {})
  BY <1>1 DEF Outcome
<1>2. ASSUME NEW c \in Chunk \ s.heap, LargeCases(o, s, c, size, kind)
      PROVE  ChainOK(o.s)
  <2> DEFINE t == Taken(s, c)
             small == ngx_palloc_small(t, SizeofLarge, TRUE, "header")
  <2>1. Live(t)
    BY TakenType
  <2>2. ChainOK(t)
    <3>1. SameChain(t, s)
      BY TakenIs DEF SameChain, SameBut, Live, PoolType
    <3> QED BY <3>1, SameChainOK
  <2> HIDE DEF t
  <2>3. ASSUME NEW j \in 1..Len(t.large), NEW a, NEW new,
               o = Outcome(ReuseHeader(t, j, c), a, new)
        PROVE  ChainOK(o.s)
    <3>1. SameBut(ReuseHeader(t, j, c), t, {"large"})
      BY <2>1, ReuseHeaderIs DEF Live
    <3>2. SameChain(ReuseHeader(t, j, c), t)
      BY <3>1 DEF SameChain, SameBut
    <3>3. ChainOK(ReuseHeader(t, j, c))
      BY <2>2, <3>2, SameChainOK
    <3> QED BY <2>3, <3>3 DEF Outcome
  <2>4. ASSUME NEW h \in small, NEW u, NEW a, NEW new,
               u = Free(h.s, {c}) \/ u = PushHeader(h.s, h.ret, c),
               o = Outcome(u, a, new)
        PROVE  ChainOK(o.s)
    <3>1. SizeofLarge \in Nat /\ "header" \in Kind
      BY LayoutAssumption DEF Kind
    <3>2. Live(h.s) /\ ChainOK(h.s)
      BY <2>1, <2>2, <3>1, SmallChain, SmallType DEF OutcomeType
    <3>3. SameBut(Free(h.s, {c}), h.s, {"heap", "cell"})
          /\ SameBut(PushHeader(h.s, h.ret, c), h.s, {"large", "cell"})
      BY <3>2, FreeIs, PushHeaderIs DEF Live, PoolType
    <3>4. SameChain(u, h.s)
      BY <2>4, <3>3 DEF SameChain, SameBut
    <3>5. ChainOK(u)
      BY <3>2, <3>4, SameChainOK
    <3> QED BY <2>4, <3>5 DEF Outcome
  <2> QED BY <1>2, <2>3, <2>4 DEF LargeCases, t
<1>3. \/ o = Outcome(s, NULL, {})
      \/ \E c \in Chunk \ s.heap : LargeCases(o, s, c, size, kind)
  BY LargeOutcome
<1> QED BY <1>1, <1>2, <1>3

\* ngx_palloc and ngx_pnalloc keep the counters right.
LEMMA PallocChain ==
  ASSUME NEW s, Live(s), ChainOK(s), NEW size \in Nat, NEW kind,
         NEW o \in ngx_palloc(s, size, kind) \cup ngx_pnalloc(s, size, kind)
  PROVE  ChainOK(o.s)
<1>1. \/ o \in ngx_palloc_small(s, size, TRUE, kind)
      \/ o \in ngx_palloc_small(s, size, FALSE, kind)
      \/ o \in ngx_palloc_large(s, size, kind)
  BY DEF ngx_palloc, ngx_pnalloc
<1> QED BY <1>1, SmallChain, LargeChain

\* So does ngx_pcalloc.
LEMMA PcallocChain ==
  ASSUME NEW s, Live(s), ChainOK(s), NEW size \in Nat, NEW kind \in Kind,
         NEW o \in ngx_pcalloc(s, size, kind)
  PROVE  ChainOK(o.s)
<1>1. PICK p \in ngx_palloc(s, size, kind) :
        \/ o = p
        \/ o = Outcome(ngx_memzero(p.s, Region(p.ret, size, kind)), p.ret, p.new)
  BY PcallocOutcome
<1>2. Live(p.s) /\ ChainOK(p.s)
  BY PallocType, PallocChain DEF OutcomeType
<1> DEFINE t == ngx_memzero(p.s, Region(p.ret, size, kind))
<1>3. SameChain(t, p.s)
  BY <1>2, MemzeroIs DEF SameChain, SameBut, Live, PoolType
<1>4. ChainOK(t)
  BY <1>2, <1>3, SameChainOK
<1> QED BY <1>1, <1>2, <1>4 DEF Outcome

\* Two requests, one for the node and one for its data.
LEMMA CleanupAddChain ==
  ASSUME NEW s, Live(s), ChainOK(s), NEW size \in Nat,
         NEW o \in ngx_pool_cleanup_add(s, size)
  PROVE  ChainOK(o.s)
<1>1. PICK c \in ngx_palloc(s, SizeofCleanup, "node") :
        \/ c.ret = NULL /\ o = c
        \/ /\ c.ret # NULL
           /\ \/ o = Outcome(LinkNode(c.s, c.ret, NULL), c.ret, c.new)
              \/ \E d \in ngx_palloc(c.s, size, "data") :
                   \/ o = Outcome(Scribble(d.s, NodeAt(c.ret)), NULL,
                                  c.new \cup d.new)
                   \/ /\ d.ret # NULL
                      /\ o = Outcome(LinkNode(d.s, c.ret, d.ret), c.ret,
                                     c.new \cup d.new)
  BY CleanupAddOutcome
<1>2. Live(c.s) /\ ChainOK(c.s)
  BY PallocType, PallocChain, LayoutAssumption DEF OutcomeType, Kind
<1>3. CASE o = c
  BY <1>2, <1>3
<1>4. ASSUME NEW x, Live(x), ChainOK(x), NEW u, NEW p, NEW data, NEW new,
             u = Scribble(x, NodeAt(c.ret)) \/ u = LinkNode(x, c.ret, data),
             o = Outcome(u, p, new)
      PROVE  ChainOK(o.s)
  <2>1. SameBut(Scribble(x, NodeAt(c.ret)), x, {"cell"})
        /\ SameBut(LinkNode(x, c.ret, data), x, {"cleanup", "cell"})
    BY <1>4, ScribbleIs, LinkNodeIs DEF Live, PoolType
  <2>2. SameChain(u, x)
    BY <1>4, <2>1 DEF SameChain, SameBut
  <2>3. ChainOK(u)
    BY <1>4, <2>2, SameChainOK
  <2> QED BY <1>4, <2>3 DEF Outcome
<1>5. ASSUME NEW d \in ngx_palloc(c.s, size, "data")
      PROVE  Live(d.s) /\ ChainOK(d.s)
  BY <1>2, PallocType, PallocChain DEF OutcomeType, Kind
<1> QED BY <1>1, <1>2, <1>3, <1>4, <1>5

\* ngx_rest_pool forgives every block.
LEMMA RestPoolChain ==
  ASSUME NEW s, Live(s), ~NeverReset
  PROVE  ChainOK(ngx_rest_pool(s))
<1> DEFINE t == ngx_rest_pool(s)
           n == Len(s.blk)
           b(i) == [s.blk[i] EXCEPT !.last = SizeofPool, !.failed = 0]
<1>1. t.blk = Rewound(s) /\ t.current = 1
  BY RestPoolIs DEF Live, PoolType
<1>2. s.blk \in Seq(Block) /\ n \in Nat
  BY DEF Live, PoolType
<1>3. Rewound(s) = [i \in 1..n |-> b(i)]
  BY DEF Rewound
<1>4. \A i \in 1..n : b(i).failed = 0
  <2> TAKE i \in 1..n
  <2>1. s.blk[i] \in Block
    BY <1>2
  <2>2. b(i) = [at |-> s.blk[i].at, last |-> SizeofPool, failed |-> 0]
    BY <2>1, BlockUpdate
  <2> QED BY <2>2
<1> HIDE DEF t, b
<1>5. Len(t.blk) = n /\ \A i \in 1..n : t.blk[i].failed = 0
  BY <1>1, <1>2, <1>3, <1>4
<1>6. Ages(t)
  BY <1>1, <1>2, <1>5 DEF Ages
<1> QED BY <1>1, <1>6 DEF ChainOK, t

\* A new pool has one block that never failed.
LEMMA NewPoolChain ==
  ASSUME NEW c, NEW size
  PROVE  ChainOK(NewPool(c, size))
<1> DEFINE b == [at |-> c, last |-> SizeofPool, failed |-> 0]
           m == MaxOf(size)
           t == NewPool(c, size)
<1>1. t = [heap |-> {c}, size |-> size, max |-> m, blk |-> <<b>>, current |-> 1,
           large |-> <<>>, cleanup |-> NULL, cell |-> <<>>]
  BY NewPoolIs
<1>2. b.failed = 0
  OBVIOUS
<1> HIDE DEF b, m, t
<1>3. Len(t.blk) = 1 /\ t.blk[1] = b /\ t.current = 1
  BY <1>1
<1>4. Ages(t) /\ Lockstep(t)
  BY <1>2, <1>3 DEF Ages, Lockstep
<1> QED BY <1>3, <1>4 DEF ChainOK, t

-----------------------------------------------------------------------------
(* The state machine.                                                      *)

\* An operation whose outcomes keep the counters right keeps ChainInv.
LEMMA ApplyChain ==
  ASSUME TypeOK, ChainInv, NEW outcomes, Apply(outcomes),
         Live(pool) => \A o \in outcomes : ChainOK(o.s)
  PROVE  ChainInv'
<1>1. Live(pool)
  BY DEF TypeOK, Live, Apply, InUse
<1> QED BY <1>1 DEF Apply, ChainInv

\* Every step keeps ChainInv.
LEMMA StepChain == TypeOK /\ ChainInv /\ [Next]_vars => ChainInv'
<1> SUFFICES ASSUME TypeOK, ChainInv, [Next]_vars PROVE ChainInv'
  OBVIOUS
<1>0. /\ ChainOK(pool) /\ PoolType(pool)
      /\ status \in {"live", "cleanup", "handler", "blocks"} => Live(pool)
  BY DEF ChainInv, TypeOK, Live
<1>a. ASSUME SameChain(pool', pool) PROVE ChainInv'
  BY <1>0, <1>a, SameChainOK DEF ChainInv
<1>1. ASSUME NEW size \in PoolSizes, Create(size) PROVE ChainInv'
  <2>1. \/ \E c \in Malloc(pool.heap) \ {NULL} : pool' = NewPool(c, size)
        \/ pool' = pool
    BY <1>1 DEF Create
  <2>2. pool' = pool => SameChain(pool', pool)
    BY DEF SameChain
  <2> QED BY <1>a, <2>1, <2>2, NewPoolChain DEF ChainInv
<1>2. ASSUME NEW size \in PallocSizes, Palloc(size) PROVE ChainInv'
  <2>1. size \in Nat
    BY SizesAssumption
  <2>2. Live(pool) => \A o \in ngx_palloc(pool, size, "client") : ChainOK(o.s)
    BY <1>0, <2>1, PallocChain
  <2> QED BY <1>2, <2>2, ApplyChain DEF Palloc
<1>3. ASSUME NEW size \in PnallocSizes, Pnalloc(size) PROVE ChainInv'
  <2>1. size \in Nat
    BY SizesAssumption
  <2>2. Live(pool) => \A o \in ngx_pnalloc(pool, size, "raw") : ChainOK(o.s)
    BY <1>0, <2>1, PallocChain
  <2> QED BY <1>3, <2>2, ApplyChain DEF Pnalloc
<1>4. ASSUME NEW size \in PcallocSizes, Pcalloc(size) PROVE ChainInv'
  <2>1. size \in Nat /\ "client" \in Kind
    BY SizesAssumption DEF Kind
  <2>2. Live(pool) => \A o \in ngx_pcalloc(pool, size, "client") : ChainOK(o.s)
    BY <1>0, <2>1, PcallocChain
  <2> QED BY <1>4, <2>2, ApplyChain DEF Pcalloc
<1>5. CASE Pfree
  <2>1. PICK p : pool' \in ngx_pfree(pool, p)
    BY <1>5 DEF Pfree
  <2>2. pool' = pool \/ \E j \in 1..Len(pool.large) : pool' = DropAlloc(pool, j)
    BY <2>1, PfreeOutcome
  <2>3. \A j \in 1..Len(pool.large) :
          SameBut(DropAlloc(pool, j), pool, {"heap", "cell", "large"})
    BY <1>0, DropAllocIs
  <2>4. SameChain(pool', pool)
    BY <2>2, <2>3 DEF SameChain, SameBut
  <2> QED BY <1>a, <2>4
<1>6. CASE ClientWrite
  <2>1. PICK r : pool' = Scribble(pool, r)
    BY <1>6 DEF ClientWrite
  <2>2. SameBut(pool', pool, {"cell"})
    BY <1>0, <2>1, ScribbleIs DEF PoolType
  <2> QED BY <1>a, <2>2 DEF SameChain, SameBut
<1>7. ASSUME NEW size \in CleanupSizes, CleanupAdd(size) PROVE ChainInv'
  <2>1. size \in Nat
    BY SizesAssumption
  <2>2. PICK o \in ngx_pool_cleanup_add(pool, size) : pool' = o.s
    BY <1>7 DEF CleanupAdd
  <2>3. Live(pool)
    BY <1>0, <1>7 DEF CleanupAdd, InUse
  <2> QED BY <1>0, <2>1, <2>2, <2>3, CleanupAddChain DEF ChainInv
<1>8. ASSUME NEW h \in Hook, SetHandler(h) PROVE ChainInv'
  <2>1. PICK a \in DOMAIN pool.cell : pool' = WithHandler(pool, a, h)
    BY <1>8 DEF SetHandler
  <2>2. SameBut(pool', pool, {"cell"})
    BY <1>0, <2>1, WithHandlerIs
  <2> QED BY <1>a, <2>2 DEF SameChain, SameBut
<1>9. CASE ResetPool
  <2>1. Live(pool) /\ ~NeverReset
    BY <1>0, <1>9 DEF ResetPool, NeverReset
  <2>2. CASE pool' = ngx_rest_pool(pool)
    BY <2>1, <2>2, RestPoolChain DEF ChainInv
  <2>3. CASE pool' = pool
    BY <1>a, <2>3 DEF SameChain
  <2> QED BY <1>9, <2>2, <2>3 DEF ResetPool
<1>10. CASE FreeLarge \/ FreeBlocks
  <2>1. \A chunks : SameBut(Free(pool, chunks), pool, {"heap", "cell"})
    BY <1>0, FreeIs DEF PoolType
  <2>2. pool' = pool \/ \E chunks : pool' = Free(pool, chunks)
    BY <1>10 DEF FreeLarge, FreeBlocks
  <2>3. SameChain(pool', pool)
    BY <2>1, <2>2 DEF SameChain, SameBut
  <2> QED BY <1>a, <2>3
<1>11. CASE \/ UseFailed \/ BeginDestroy \/ LostNode \/ SkipHandler \/ CallHandler
            \/ HandlerReturns \/ DestroyAgain \/ UNCHANGED vars
  <2>1. pool' = pool
    BY <1>11 DEF UseFailed, BeginDestroy, LostNode, SkipHandler, CallHandler,
                 HandlerReturns, DestroyAgain, vars
  <2> QED BY <1>a, <2>1 DEF SameChain
<1> QED
  BY <1>1, <1>2, <1>3, <1>4, <1>5, <1>6, <1>7, <1>8, <1>9, <1>10, <1>11
  DEF Next, DestroyStep, Ended

\* Before the constructor there is no chain.
LEMMA InitChain == Init => ChainInv
BY DEF Init, NoPool, ChainInv, ChainOK, Ages, Lockstep

\* ChainInv is an invariant of the pool.
LEMMA ChainInvariant == Spec => [](TypeOK /\ ChainInv)
BY InitChain, StepChain, TypeCorrect, PTL DEF Spec

(***************************************************************************)
(* Whatever the client requests, aligned or not, and whether or not the    *)
(* pool is reset: ngx_palloc_block moves pool->current past a block        *)
(* exactly when a sixth request has failed on it, and never past a block   *)
(* that is younger than one it keeps.                                      *)
(***************************************************************************)
THEOREM RetiredCorrect == Spec => []RetiredAfterSix
<1>1. ChainInv => RetiredAfterSix
  BY DEF ChainInv, ChainOK, Ages, RetiredAfterSix
<1> QED BY <1>1, ChainInvariant, PTL

(***************************************************************************)
(* A pool that is never reset is searched over at most 7 blocks, however   *)
(* many it has: the cost of ngx_palloc_small is bounded.                   *)
(***************************************************************************)
THEOREM ShortSearchCorrect ==
  ASSUME NeverReset
  PROVE  Spec => []ShortSearch
<1>1. TypeOK /\ ChainInv => ShortSearch
  <2> SUFFICES ASSUME TypeOK, ChainInv PROVE ShortSearch
    OBVIOUS
  <2>1. pool.blk \in Seq(Block) /\ Ages(pool) /\ Lockstep(pool)
    BY DEF TypeOK, PoolType, ChainInv, ChainOK
  <2>2. CASE pool.blk # <<>> /\ pool.current < Len(pool.blk)
    <3> DEFINE n == Len(pool.blk)
               k == pool.current
    <3>1. n \in Nat /\ k \in 1..n
      BY <2>2 DEF TypeOK, PoolType
    <3>2. k \in k..(n - 1)
      BY <2>2, <3>1
    <3>3. pool.blk[k].failed = n - k - 1 /\ pool.blk[k].failed <= 5
      BY <2>1, <3>1, <3>2 DEF Ages, Lockstep
    <3> QED BY <3>1, <3>3 DEF ShortSearch
  <2>3. CASE pool.blk # <<>> /\ ~(pool.current < Len(pool.blk))
    BY <2>1, <2>3 DEF TypeOK, PoolType, ShortSearch
  <2>4. CASE pool.blk = <<>>
    <3>1. Len(pool.blk) = 0 /\ pool.current \in Nat
      BY <2>4 DEF ChainInv, ChainOK
    <3> QED BY <3>1 DEF ShortSearch
  <2> QED BY <2>2, <2>3, <2>4
<1> QED BY <1>1, ChainInvariant, PTL

(***************************************************************************)
(* After ngx_rest_pool every block has room for the largest small request, *)
(* with its alignment.                                                     *)
(***************************************************************************)
THEOREM ResetReclaimsAll ==
  ASSUME SoundSizes
  PROVE  Spec => ResetReclaims
<1> DEFINE A == ResetPool /\ status' = "live" =>
                  \A i \in 1..Len(pool.blk) :
                    Room(pool', pool'.blk[i], TRUE) >= pool.max
<1>1. TypeOK /\ TypeOK' /\ MemoryInv /\ MemoryInv' /\ [Next]_vars => [A]_vars
  <2> SUFFICES ASSUME TypeOK, TypeOK', MemoryInv, MemoryInv', ResetPool,
                      status' = "live", NEW i \in 1..Len(pool.blk)
               PROVE  Room(pool', pool'.blk[i], TRUE) >= pool.max
    OBVIOUS
  <2>1. Live(pool) /\ Sound(pool, given, {}) /\ LargeFreeable(pool)
    <3>1. Live(pool) /\ Sound(pool, given, {})
      BY DEF ResetPool, TypeOK, Live, MemoryInv
    <3> QED BY <3>1, SoundFreeable
  <2>2. pool' = ngx_rest_pool(pool)
    BY <2>1 DEF ResetPool
  <2>3. /\ pool'.blk = Rewound(pool)
        /\ SameBut(pool', pool, {"heap", "cell", "blk", "current", "large"})
    BY <2>1, <2>2, RestPoolIs DEF Live, PoolType
  <2>4. pool'.size = pool.size /\ pool'.max = pool.max
    BY <2>3 DEF SameBut
  <2>5. Len(pool'.blk) = Len(pool.blk) /\ pool'.blk[i].last = SizeofPool
    <3>1. pool.blk \in Seq(Block) /\ pool.blk[i] \in Block
      BY <2>1 DEF Live, PoolType
    <3>2. [pool.blk[i] EXCEPT !.last = SizeofPool, !.failed = 0] =
            [at |-> pool.blk[i].at, last |-> SizeofPool, failed |-> 0]
      BY <3>1, BlockUpdate
    <3>3. pool'.blk[i] = [pool.blk[i] EXCEPT !.last = SizeofPool, !.failed = 0]
      BY <2>3, <3>1 DEF Rewound
    <3>4. Len(Rewound(pool)) = Len(pool.blk)
      BY <3>1 DEF Rewound
    <3> QED BY <2>3, <3>2, <3>3, <3>4
  <2>6. Live(pool') /\ Sized(pool') /\ Filled(pool')
    BY <2>5 DEF TypeOK, Live, MemoryInv, Sound
  <2>7. Room(pool', pool'.blk[i], TRUE) =
          pool'.size - ngx_align_ptr(SizeofPool, NGX_ALIGNMENT)
    BY <2>5, <2>6, RoomIs DEF Start
  <2>8. ngx_align_ptr(SizeofPool, NGX_ALIGNMENT) <= SizeofPool
    <3>1. SizeofPool <= SizeofPool /\ SizeofPool \in Nat
          /\ SizeofPool % NGX_ALIGNMENT = 0 /\ NGX_ALIGNMENT \in {4, 8}
      BY LayoutAssumption
    <3> QED BY <3>1, AlignBelow
  <2>9. /\ pool'.max <= pool'.size - SizeofPool /\ pool'.size \in Nat
        /\ pool'.max \in Nat /\ SizeofPool \in Nat
        /\ ngx_align_ptr(SizeofPool, NGX_ALIGNMENT) \in Nat
    BY <2>6, LayoutAssumption, AlignUp DEF Sized, Live, PoolType
  <2>10. ASSUME NEW x \in Nat, NEW m \in Nat, NEW n \in Nat, NEW p \in Nat,
                x <= p, m <= n - p
         PROVE  n - x >= m
    BY <2>10
  <2>11. pool'.size - ngx_align_ptr(SizeofPool, NGX_ALIGNMENT) >= pool'.max
    BY <2>8, <2>9, <2>10
  <2> QED BY <2>4, <2>7, <2>11
<1> QED BY <1>1, MemoryInvariant, PTL DEF Spec, ResetReclaims

-----------------------------------------------------------------------------
(* What the operations do to the nodes.                                    *)

\* No node is added, and those in the regions g are as they were.
Spared(new, old, g) ==
  /\ DOMAIN new \subseteq DOMAIN old
  /\ \A a \in DOMAIN old :
       NodeAt(a) \in g => a \in DOMAIN new /\ new[a] = old[a]

\* The nodes in the regions g, and the head of the list, are as they were.
NodesKept(t, s, g) == t.cleanup = s.cleanup /\ Spared(t.cell, s.cell, g)

\* None of the new regions meets one of g.
Fresh(new, g) == \A r \in new, q \in g : ~Overlap(r, q)

\* An allocation of size bytes that keeps the nodes.
Harmless(o, s, g, size, kind) ==
  /\ NodesKept(o.s, s, g) /\ Fresh(o.new, g)
  /\ o.ret # NULL => Region(o.ret, size, kind) \in o.new

\* Overlapping is symmetric.
LEMMA OverlapSym ==
  ASSUME NEW r, NEW q
  PROVE  Overlap(r, q) <=> Overlap(q, r)
BY DEF Overlap

\* Nobody's chunk is free, so what lies in a free chunk meets nothing.
LEMMA OutsideHeap ==
  ASSUME NEW s, NEW g, NEW loose, Sound(s, g, loose), NEW c, c \notin s.heap
  PROVE  \A q \in g : q.at # c
BY DEF Sound, Placed, Owned

\* ngx_palloc_small touches no node, and gives away bytes nobody had.
LEMMA SmallFresh ==
  ASSUME NEW s, NEW g, NEW loose, Live(s), Sound(s, g, loose),
         g \subseteq RegionType, NEW size \in Nat, NEW align, NEW kind \in Kind,
         NEW o \in ngx_palloc_small(s, size, align, kind)
  PROVE  o.s.cell = s.cell /\ o.s.cleanup = s.cleanup /\ Fresh(o.new, g)
<1>1. ASSUME NEW i \in s.current..Len(s.blk), NEW a,
             a = Addr(s.blk[i].at, Start(s.blk[i], align)),
             o = Outcome(Carve(s, i, size, align), a, {Region(a, size, kind)})
      PROVE  o.s.cell = s.cell /\ o.s.cleanup = s.cleanup /\ Fresh(o.new, g)
  <2> DEFINE r == Region(a, size, kind)
  <2>1. i \in 1..Len(s.blk) /\ s.blk[i] \in Block
    BY DEF Live, PoolType
  <2>2. SameBut(Carve(s, i, size, align), s, {"blk"})
    BY <2>1, CarveIs DEF Live
  <2>3. /\ Start(s.blk[i], align) \in Nat /\ s.blk[i].last \in Nat
        /\ s.blk[i].last <= Start(s.blk[i], align)
    BY <2>1, StartNat DEF Block
  <2>4. r.at = s.blk[i].at /\ r.off = Start(s.blk[i], align) /\ r.len = size
    BY <1>1 DEF Region, Addr
  <2> HIDE DEF r
  <2>5. \A q \in g : ~Overlap(r, q)
    <3> TAKE q \in g
    <3>1. CASE q.at # r.at
      BY <3>1 DEF Overlap
    <3>2. CASE q.at = r.at
      <4>1. q.off + q.len <= s.blk[i].last
        BY <2>1, <2>4, <3>2 DEF Sound, Placed
      <4>2. q.off \in Nat /\ q.len \in Nat
        BY DEF RegionType
      <4> QED BY <2>3, <2>4, <4>1, <4>2 DEF Overlap
    <3> QED BY <3>1, <3>2
  <2>6. o.s = Carve(s, i, size, align) /\ o.new = {r}
    BY <1>1 DEF Outcome, r
  <2> QED BY <2>2, <2>5, <2>6 DEF SameBut, Fresh
<1>2. CASE o = Outcome(s, NULL, {})
  BY <1>2 DEF Outcome, Fresh
<1>3. ASSUME NEW c \in Chunk \ s.heap, NEW cur \in NextCurrent(s),
             o = Outcome(AppendBlock(s, c, cur, size), Addr(c, BlockStart),
                         {Region(Addr(c, BlockStart), size, kind)})
      PROVE  o.s.cell = s.cell /\ o.s.cleanup = s.cleanup /\ Fresh(o.new, g)
  <2> DEFINE r == Region(Addr(c, BlockStart), size, kind)
  <2>1. SameBut(AppendBlock(s, c, cur, size), s, {"heap", "blk", "current"})
    BY AppendBlockIs DEF Live, PoolType
  <2>2. r.at = c
    BY DEF Region, Addr
  <2>3. o.s = AppendBlock(s, c, cur, size) /\ o.new = {r}
    BY <1>3 DEF Outcome
  <2> HIDE DEF r
  <2>4. \A q \in g : q.at # c
    BY OutsideHeap
  <2> QED BY <2>1, <2>2, <2>3, <2>4 DEF SameBut, Fresh, Overlap
<1>4. \/ \E i \in s.current..Len(s.blk) :
           o = Outcome(Carve(s, i, size, align),
                       Addr(s.blk[i].at, Start(s.blk[i], align)),
                       {Region(Addr(s.blk[i].at, Start(s.blk[i], align)),
                               size, kind)})
      \/ o \in ngx_palloc_block(s, size, kind)
  BY SmallOutcome
<1>5. CASE o \in ngx_palloc_block(s, size, kind)
  <2>1. \/ o = Outcome(s, NULL, {})
        \/ \E c \in Chunk \ s.heap, cur \in NextCurrent(s) :
             o = Outcome(AppendBlock(s, c, cur, size), Addr(c, BlockStart),
                         {Region(Addr(c, BlockStart), size, kind)})
    BY <1>5, BlockOutcome
  <2> QED BY <1>2, <1>3, <2>1
<1> QED BY <1>1, <1>4, <1>5

\* A store into a region apart from g keeps the nodes of g.
LEMMA OverwrittenSpares ==
  ASSUME NEW cell, NEW g, NEW r, Fresh({r}, g)
  PROVE  Spared(Overwritten(cell, r), cell, g)
<1> DEFINE w == Overwritten(cell, r)
<1>1. /\ DOMAIN w = {a \in DOMAIN cell : ~Overlap(NodeAt(a), r)}
      /\ \A a \in DOMAIN w : w[a] = cell[a]
  BY OverwrittenIs
<1> HIDE DEF w
<1>2. \A a \in DOMAIN cell : NodeAt(a) \in g => ~Overlap(NodeAt(a), r)
  BY OverlapSym DEF Fresh
<1>3. Spared(w, cell, g)
  BY <1>1, <1>2 DEF Spared
<1> QED BY <1>3 DEF w

\* ngx_palloc_large keeps the nodes, whichever way it goes.
LEMMA LargeHarmless ==
  ASSUME NEW s, NEW g, Live(s), Sound(s, g, {}), g \subseteq RegionType,
         NEW size \in Nat, NEW kind \in Kind,
         NEW o \in ngx_palloc_large(s, size, kind)
  PROVE  Harmless(o, s, g, size, kind)
<1>1. CASE o = Outcome(s, NULL, {})
  BY <1>1 DEF Harmless, NodesKept, Spared, Fresh, Outcome
<1>2. ASSUME NEW c \in Chunk \ s.heap, LargeCases(o, s, c, size, kind)
      PROVE  Harmless(o, s, g, size, kind)
  <2> DEFINE t == Taken(s, c)
             whole == Region(Addr(c, 0), size, kind)
             small == ngx_palloc_small(t, SizeofLarge, TRUE, "header")
  <2>1. Live(t) /\ Sound(t, g, {c})
    BY TakenType, TakenSound
  <2>2. t.cell = s.cell /\ t.cleanup = s.cleanup
    <3>1. SameBut(t, s, {"heap"})
      BY TakenIs DEF Live, PoolType
    <3> QED BY <3>1 DEF SameBut
  <2>3. \A q \in g : q.at # c
    BY OutsideHeap
  <2>4. \A q \in g : ~Overlap(whole, q)
    <3>1. whole.at = c
      BY DEF Region, Addr
    <3> HIDE DEF whole
    <3> QED BY <2>3, <3>1 DEF Overlap
  <2> HIDE DEF t, whole
  <2>5. ASSUME NEW j \in 1..Len(t.large),
               o = Outcome(ReuseHeader(t, j, c), Addr(c, 0), {whole})
        PROVE  Harmless(o, s, g, size, kind)
    <3>1. SameBut(ReuseHeader(t, j, c), t, {"large"})
      BY <2>1, ReuseHeaderIs DEF Live
    <3>2. o.s = ReuseHeader(t, j, c) /\ o.new = {whole} /\ o.ret = Addr(c, 0)
      BY <2>5 DEF Outcome
    <3>3. NodesKept(o.s, s, g)
      BY <2>2, <3>1, <3>2 DEF SameBut, NodesKept, Spared
    <3> QED BY <2>4, <3>2, <3>3 DEF Harmless, Fresh, whole
  <2>6. \A h \in small : /\ h.s.cell = s.cell /\ h.s.cleanup = s.cleanup
                         /\ Fresh(h.new, g) /\ Live(h.s)
    <3> TAKE h \in small
    <3>1. SizeofLarge \in Nat /\ "header" \in Kind
      BY LayoutAssumption DEF Kind
    <3>2. OutcomeType(h)
      BY <2>1, <3>1, SmallType
    <3>3. h.s.cell = t.cell /\ h.s.cleanup = t.cleanup /\ Fresh(h.new, g)
      BY <2>1, <3>1, SmallFresh
    <3> QED BY <2>2, <3>2, <3>3 DEF OutcomeType
  <2>7. ASSUME NEW h \in small, o = Outcome(Free(h.s, {c}), NULL, {})
        PROVE  Harmless(o, s, g, size, kind)
    <3> DEFINE u == Free(h.s, {c})
    <3>1. /\ SameBut(u, h.s, {"heap", "cell"})
          /\ DOMAIN u.cell = {a \in DOMAIN h.s.cell : a.at \notin {c}}
          /\ \A a \in DOMAIN u.cell : u.cell[a] = h.s.cell[a]
      <4>1. PoolShape(h.s)
        BY <2>6 DEF Live, PoolType
      <4> QED BY <4>1, FreeIs
    <3>2. o.s = u /\ o.new = {} /\ o.ret = NULL
      BY <2>7 DEF Outcome
    <3> HIDE DEF u
    <3>3. \A a : NodeAt(a) \in g => a.at # c
      <4> TAKE a
      <4>1. NodeAt(a).at = a.at
        BY DEF NodeAt, Region
      <4> QED BY <2>3, <4>1
    <3>4. NodesKept(u, s, g)
      BY <2>6, <3>1, <3>3 DEF SameBut, NodesKept, Spared
    <3> QED BY <3>2, <3>4 DEF Harmless, Fresh
  <2>8. ASSUME NEW h \in small, h.ret # NULL,
               o = Outcome(PushHeader(h.s, h.ret, c), Addr(c, 0),
                           h.new \cup {whole})
        PROVE  Harmless(o, s, g, size, kind)
    <3> DEFINE u == PushHeader(h.s, h.ret, c)
               r == Region(h.ret, SizeofLarge, "header")
    <3> HIDE DEF r
    <3>1. /\ SameBut(u, h.s, {"large", "cell"})
          /\ u.cell = Overwritten(h.s.cell, r)
      <4>1. PoolShape(h.s)
        BY <2>6 DEF Live, PoolType
      <4> QED BY <4>1, PushHeaderIs DEF r
    <3>2. h.new = {r}
      <4>1. SizeofLarge \in Nat /\ "header" \in Kind
        BY LayoutAssumption DEF Kind
      <4>2. h.ret # NULL
        BY <2>8
      <4>3. h \in ngx_palloc_small(t, SizeofLarge, TRUE, "header")
        OBVIOUS
      <4> HIDE DEF u, small
      <4>4. h.new = {Region(h.ret, SizeofLarge, "header")} /\ h.ret.at \in Blocks(h.s)
        BY <2>1, <4>1, <4>2, <4>3, SmallRegion, Zenon
      <4> QED BY <4>4 DEF r
    <3>3. o.s = u /\ o.new = h.new \cup {whole} /\ o.ret = Addr(c, 0)
      BY <2>8 DEF Outcome
    <3> HIDE DEF u
    <3>4. Fresh({r}, g)
      BY <2>6, <3>2
    <3>5. NodesKept(u, s, g)
      <4>1. Spared(Overwritten(s.cell, r), s.cell, g)
        BY <3>4, OverwrittenSpares
      <4>2. u.cell = Overwritten(s.cell, r) /\ u.cleanup = s.cleanup
        BY <2>6, <3>1 DEF SameBut
      <4> QED BY <4>1, <4>2 DEF NodesKept
    <3>6. Fresh(o.new, g)
      BY <2>4, <3>2, <3>3, <3>4 DEF Fresh
    <3> QED BY <3>3, <3>5, <3>6 DEF Harmless, whole
  <2> QED BY <1>2, <2>5, <2>7, <2>8 DEF LargeCases, t, whole
<1> QED BY <1>1, <1>2, LargeOutcome

\* ngx_palloc and ngx_pnalloc keep the nodes.
LEMMA PallocHarmless ==
  ASSUME NEW s, NEW g, Live(s), Sound(s, g, {}), g \subseteq RegionType,
         NEW size \in Nat, NEW kind \in Kind,
         NEW o \in ngx_palloc(s, size, kind) \cup ngx_pnalloc(s, size, kind)
  PROVE  Harmless(o, s, g, size, kind)
<1>1. ASSUME NEW align, o \in ngx_palloc_small(s, size, align, kind)
      PROVE  Harmless(o, s, g, size, kind)
  <2>1. o.s.cell = s.cell /\ o.s.cleanup = s.cleanup /\ Fresh(o.new, g)
    BY <1>1, SmallFresh
  <2>2. o.ret # NULL => o.new = {Region(o.ret, size, kind)}
    BY <1>1, SmallRegion
  <2> QED BY <2>1, <2>2 DEF Harmless, NodesKept, Spared
<1>2. \/ o \in ngx_palloc_small(s, size, TRUE, kind)
      \/ o \in ngx_palloc_small(s, size, FALSE, kind)
      \/ o \in ngx_palloc_large(s, size, kind)
  BY DEF ngx_palloc, ngx_pnalloc
<1> QED BY <1>1, <1>2, LargeHarmless

\* ngx_memzero of a region apart from g keeps the nodes of g.
LEMMA ZeroedSpares ==
  ASSUME NEW cell, NEW g, g \subseteq RegionType, NEW r \in RegionType, Fresh({r}, g)
  PROVE  Spared(Zeroed(cell, r), cell, g)
<1> DEFINE inside == {b \in DOMAIN cell : /\ b.at = r.at /\ r.off <= b.off
                                          /\ b.off + SizeofCleanup <= r.off + r.len}
           w == Overwritten(cell, r)
           z == Zeroed(cell, r)
           d == inside \cup DOMAIN w
<1>1. z = [b \in d |->
             IF b \in inside THEN [handler |-> NULL, data |-> NULL, next |-> NULL]
             ELSE cell[b]]
  BY DEF Zeroed
<1>2. Spared(w, cell, g)
  BY OverwrittenSpares
<1>3. inside \subseteq DOMAIN cell
  OBVIOUS
<1>4. \A a \in inside : NodeAt(a) \notin g
  <2> SUFFICES ASSUME NEW a \in inside, NodeAt(a) \in g PROVE FALSE
    OBVIOUS
  <2>1. /\ NodeAt(a).at = a.at /\ NodeAt(a).off = a.off
        /\ NodeAt(a).len = SizeofCleanup
    BY DEF NodeAt, Region
  <2>2. a.off \in Nat /\ r.off \in Nat /\ r.len \in Nat /\ SizeofCleanup \in Nat \ {0}
    BY <2>1, LayoutAssumption DEF RegionType
  <2>3. a.at = r.at /\ r.off <= a.off /\ a.off + SizeofCleanup <= r.off + r.len
    OBVIOUS
  <2> HIDE DEF inside
  <2>4. /\ r.at = NodeAt(a).at /\ r.off < NodeAt(a).off + NodeAt(a).len
        /\ NodeAt(a).off < r.off + r.len
    BY <2>1, <2>2, <2>3
  <2>5. Overlap(r, NodeAt(a))
    BY <2>4 DEF Overlap
  <2> QED BY <2>5 DEF Fresh
<1> HIDE DEF inside, w, z
<1>5. DOMAIN z = d /\ \A a \in d : a \notin inside => z[a] = cell[a]
  BY <1>1
<1>6. Spared(z, cell, g)
  BY <1>2, <1>3, <1>4, <1>5 DEF Spared
<1> QED BY <1>6 DEF z

\* ngx_pcalloc keeps the nodes: what it clears is the client's.
LEMMA PcallocHarmless ==
  ASSUME NEW s, NEW g, Live(s), Sound(s, g, {}), g \subseteq RegionType,
         NEW size \in Nat, NEW kind \in Kind,
         NEW o \in ngx_pcalloc(s, size, kind)
  PROVE  NodesKept(o.s, s, g)
<1>1. PICK p \in ngx_palloc(s, size, kind) :
        \/ o = p
        \/ /\ p.ret # NULL
           /\ o = Outcome(ngx_memzero(p.s, Region(p.ret, size, kind)), p.ret, p.new)
  BY PcallocOutcome
<1>2. Harmless(p, s, g, size, kind) /\ OutcomeType(p)
  BY PallocHarmless, PallocType
<1>3. CASE o = p
  BY <1>2, <1>3 DEF Harmless
<1>4. CASE p.ret # NULL
           /\ o = Outcome(ngx_memzero(p.s, Region(p.ret, size, kind)), p.ret, p.new)
  <2> DEFINE r == Region(p.ret, size, kind)
             t == ngx_memzero(p.s, r)
  <2>1. r \in RegionType /\ Fresh({r}, g)
    BY <1>2, <1>4 DEF Harmless, OutcomeType, Fresh
  <2> HIDE DEF r
  <2>2. SameBut(t, p.s, {"cell"}) /\ t.cell = Zeroed(p.s.cell, r)
    BY <1>2, MemzeroIs DEF OutcomeType, Live, PoolType
  <2>3. o.s = t
    BY <1>4 DEF Outcome, r
  <2> HIDE DEF t
  <2>4. Spared(Zeroed(p.s.cell, r), p.s.cell, g)
    BY <2>1, ZeroedSpares
  <2>5. p.s.cleanup = s.cleanup /\ Spared(p.s.cell, s.cell, g)
    BY <1>2 DEF Harmless, NodesKept
  <2>6. Spared(t.cell, s.cell, g)
    BY <2>2, <2>4, <2>5 DEF Spared
  <2> QED BY <2>2, <2>3, <2>5, <2>6 DEF NodesKept, SameBut
<1> QED BY <1>1, <1>3, <1>4

\* A new node is in front of the list, and the older ones are as they were.
NodeAdded(t, a, s, g) ==
  /\ t.cleanup = a /\ a \in DOMAIN t.cell
  /\ t.cell[a].handler = NULL /\ t.cell[a].next = s.cleanup
  /\ DOMAIN t.cell \subseteq DOMAIN s.cell \cup {a}
  /\ \A b \in DOMAIN s.cell :
       NodeAt(b) \in g => b # a /\ b \in DOMAIN t.cell /\ t.cell[b] = s.cell[b]

\* A new node is not where an older one is.
LEMMA NodeElsewhere ==
  ASSUME NEW g, g \subseteq RegionType, NEW a, Fresh({NodeAt(a)}, g)
  PROVE  NodeAt(a) \notin g
<1> SUFFICES ASSUME NodeAt(a) \in g PROVE FALSE
  OBVIOUS
<1>1. NodeAt(a).off \in Nat /\ NodeAt(a).len = SizeofCleanup
  BY DEF RegionType, NodeAt, Region
<1>2. SizeofCleanup \in Nat \ {0}
  BY LayoutAssumption
<1>3. Overlap(NodeAt(a), NodeAt(a))
  BY <1>1, <1>2 DEF Overlap
<1> QED BY <1>3 DEF Fresh

\* Linking a node whose bytes nobody else had.
LEMMA LinkNodeAdds ==
  ASSUME NEW s, NEW u, NEW g, NEW a, NEW data, PoolShape(u), NodesKept(u, s, g),
         g \subseteq RegionType, Fresh({NodeAt(a)}, g)
  PROVE  NodeAdded(LinkNode(u, a, data), a, s, g)
<1> DEFINE t == LinkNode(u, a, data)
           w == Overwritten(u.cell, NodeAt(a))
           n == [handler |-> NULL, data |-> data, next |-> u.cleanup]
<1>1. /\ t.cleanup = a /\ DOMAIN t.cell = DOMAIN w \cup {a} /\ t.cell[a] = n
      /\ \A b \in DOMAIN w : b # a => t.cell[b] = w[b]
  BY LinkNodeIs
<1>2. Spared(w, u.cell, g)
  BY OverwrittenSpares
<1>3. n.handler = NULL /\ n.next = s.cleanup /\ Spared(u.cell, s.cell, g)
  BY DEF NodesKept
<1>4. NodeAt(a) \notin g
  BY NodeElsewhere
<1> HIDE DEF t, w, n
<1>5. Spared(w, s.cell, g)
  BY <1>2, <1>3 DEF Spared
<1>6. NodeAdded(t, a, s, g)
  BY <1>1, <1>3, <1>4, <1>5 DEF NodeAdded, Spared
<1> QED BY <1>6 DEF t

\* ngx_pool_cleanup_add adds a node, or keeps the list when it fails.
LEMMA CleanupAddNodes ==
  ASSUME NEW s, NEW g, Live(s), Sound(s, g, {}), g \subseteq RegionType,
         NEW size \in Nat, NEW o \in ngx_pool_cleanup_add(s, size)
  PROVE  \/ o.ret = NULL /\ NodesKept(o.s, s, g)
         \/ o.ret # NULL /\ NodeAt(o.ret) \in o.new /\ NodeAdded(o.s, o.ret, s, g)
<1> DEFINE Goal == \/ o.ret = NULL /\ NodesKept(o.s, s, g)
                   \/ /\ o.ret # NULL /\ NodeAt(o.ret) \in o.new
                      /\ NodeAdded(o.s, o.ret, s, g)
<1>1. PICK c \in ngx_palloc(s, SizeofCleanup, "node") :
        \/ c.ret = NULL /\ o = c
        \/ /\ c.ret # NULL
           /\ \/ o = Outcome(LinkNode(c.s, c.ret, NULL), c.ret, c.new)
              \/ \E d \in ngx_palloc(c.s, size, "data") :
                   \/ o = Outcome(Scribble(d.s, NodeAt(c.ret)), NULL,
                                  c.new \cup d.new)
                   \/ /\ d.ret # NULL
                      /\ o = Outcome(LinkNode(d.s, c.ret, d.ret), c.ret,
                                     c.new \cup d.new)
  BY CleanupAddOutcome
<1>2. SizeofCleanup \in Nat /\ "node" \in Kind /\ "data" \in Kind
  BY LayoutAssumption DEF Kind
<1>3. Harmless(c, s, g, SizeofCleanup, "node") /\ SoundOutcome(c, s, g, {})
  BY <1>2, PallocHarmless, PallocSound
<1>4. NodesKept(c.s, s, g) /\ Live(c.s) /\ PoolShape(c.s)
      /\ g \cup c.new \subseteq RegionType /\ Sound(c.s, g \cup c.new, {})
  BY <1>3 DEF Harmless, SoundOutcome, OutcomeType, Live, PoolType
<1>5. CASE c.ret = NULL /\ o = c
  BY <1>4, <1>5
<1>6. CASE c.ret # NULL
  <2> DEFINE a == c.ret
  <2>1. NodeAt(a) \in c.new /\ Fresh({NodeAt(a)}, g)
    BY <1>3, <1>6 DEF Harmless, Fresh, NodeAt
  <2> HIDE DEF a
  <2>2. CASE o = Outcome(LinkNode(c.s, c.ret, NULL), c.ret, c.new)
    <3>1. o.s = LinkNode(c.s, a, NULL) /\ o.ret = a /\ o.new = c.new
      BY <2>2 DEF Outcome, a
    <3>2. NodeAdded(LinkNode(c.s, a, NULL), a, s, g)
      BY <1>4, <2>1, LinkNodeAdds
    <3> QED BY <1>6, <2>1, <3>1, <3>2 DEF a
  <2>3. ASSUME NEW d \in ngx_palloc(c.s, size, "data"),
               \/ o = Outcome(Scribble(d.s, NodeAt(c.ret)), NULL, c.new \cup d.new)
               \/ o = Outcome(LinkNode(d.s, c.ret, d.ret), c.ret, c.new \cup d.new)
        PROVE  Goal
    <3>1. Harmless(d, c.s, g \cup c.new, size, "data") /\ OutcomeType(d)
      BY <1>2, <1>4, PallocHarmless, PallocType
    <3>2. NodesKept(d.s, c.s, g \cup c.new) /\ PoolShape(d.s)
      BY <3>1 DEF Harmless, OutcomeType, Live, PoolType
    <3>3. NodesKept(d.s, s, g)
      BY <1>4, <3>2 DEF NodesKept, Spared
    <3>4. CASE o = Outcome(Scribble(d.s, NodeAt(c.ret)), NULL, c.new \cup d.new)
      <4> DEFINE t == Scribble(d.s, NodeAt(a))
      <4>1. SameBut(t, d.s, {"cell"}) /\ t.cell = Overwritten(d.s.cell, NodeAt(a))
        BY <3>2, ScribbleIs
      <4>2. Spared(Overwritten(d.s.cell, NodeAt(a)), d.s.cell, g)
        BY <2>1, OverwrittenSpares
      <4>3. o.s = t /\ o.ret = NULL
        BY <3>4 DEF Outcome, a
      <4> HIDE DEF t
      <4>4. NodesKept(t, s, g)
        BY <3>3, <4>1, <4>2 DEF NodesKept, SameBut, Spared
      <4> QED BY <4>3, <4>4
    <3>5. CASE o = Outcome(LinkNode(d.s, c.ret, d.ret), c.ret, c.new \cup d.new)
      <4>1. o.s = LinkNode(d.s, a, d.ret) /\ o.ret = a /\ o.new = c.new \cup d.new
        BY <3>5 DEF Outcome, a
      <4>2. g \subseteq RegionType
        BY <1>4
      <4>3. NodeAdded(LinkNode(d.s, a, d.ret), a, s, g)
        BY <2>1, <3>2, <3>3, <4>2, LinkNodeAdds
      <4> QED BY <1>6, <2>1, <4>1, <4>3 DEF a
    <3> QED BY <2>3, <3>4, <3>5
  <2> QED BY <1>1, <1>6, <2>2, <2>3
<1> QED BY <1>1, <1>5, <1>6

\* ngx_pfree of the client's memory frees no node.
LEMMA PfreeSpares ==
  ASSUME NEW s, NEW g, Live(s), Sound(s, g, {}),
         NEW r \in g, r.kind # "node", NEW t \in ngx_pfree(s, Addr(r.at, r.off))
  PROVE  NodesKept(t, s, g)
<1>1. CASE t = s
  BY <1>1 DEF NodesKept, Spared
<1>2. ASSUME NEW j \in 1..Len(s.large), s.large[j].alloc # NULL,
             Addr(s.large[j].alloc, 0) = Addr(r.at, r.off), t = DropAlloc(s, j)
      PROVE  NodesKept(t, s, g)
  <2> DEFINE c == s.large[j].alloc
             u == Free(s, {c})
  <2>1. c = r.at /\ c \in Allocs(s)
    BY <1>2 DEF Addr, Allocs
  <2>2. SameBut(t, s, {"heap", "cell", "large"}) /\ t.cell = u.cell
    BY <1>2, DropAllocIs DEF Live
  <2>3. /\ DOMAIN u.cell = {a \in DOMAIN s.cell : a.at \notin {c}}
        /\ \A a \in DOMAIN u.cell : u.cell[a] = s.cell[a]
    BY FreeIs DEF Live, PoolType
  <2> HIDE DEF c, u
  <2>4. \A a : NodeAt(a) \in g => a.at # c
    <3> SUFFICES ASSUME NEW a, NodeAt(a) \in g, a.at = c PROVE FALSE
      OBVIOUS
    <3>1. NodeAt(a).at = a.at /\ NodeAt(a).kind = "node"
      BY DEF NodeAt, Region
    <3>2. NodeAt(a) = r
      BY <2>1, <3>1 DEF Sound, Placed
    <3> QED BY <3>1, <3>2
  <2>5. Spared(t.cell, s.cell, g)
    BY <2>2, <2>3, <2>4 DEF Spared
  <2> QED BY <2>2, <2>5 DEF NodesKept, SameBut
<1> QED BY <1>1, <1>2, PfreeOutcome

-----------------------------------------------------------------------------
(* The list and what was registered.                                       *)

\* While the nodes are kept, what is listed is.
LEMMA ListedKept ==
  ASSUME NEW s, NEW u, NEW g, NEW h, NEW t, Listed(s, g, t), NodesKept(u, s, g),
         \A a : NodeAt(a) \in g => NodeAt(a) \in h
  PROVE  Listed(u, h, t)
BY DEF Listed, NodesKept, Spared

\* A registration goes in front of the others, as its node does.
LEMMA ListedAdded ==
  ASSUME NEW s, NEW u, NEW g, NEW h, NEW t \in Seq(Entry), NEW a, NEW e,
         Listed(s, g, t), s.cleanup = NodeFrom(t, 1), NodeAdded(u, a, s, g),
         NodeAt(a) \in h, g \subseteq h, a # NULL, e.node = a, e.hook = NULL
  PROVE  Listed(u, h, <<e>> \o t)
<1> DEFINE v == <<e>> \o t
           n == Len(t)
<1>1. /\ n \in Nat /\ Len(v) = n + 1 /\ v[1] = e
      /\ \A k \in 2..(n + 1) : v[k] = t[k - 1] /\ k - 1 \in 1..n
  OBVIOUS
<1> HIDE DEF v
<1>2. NodeFrom(v, 2) = NodeFrom(t, 1)
  BY <1>1 DEF NodeFrom
<1>3. \A k \in 2..(n + 1) : NodeFrom(v, k + 1) = NodeFrom(t, (k - 1) + 1)
  BY <1>1 DEF NodeFrom
<1>4. \A k \in 1..n : /\ t[k].node \in DOMAIN s.cell /\ NodeAt(t[k].node) \in g
                      /\ t[k].node # a /\ t[k].node \in DOMAIN u.cell
                      /\ u.cell[t[k].node] = s.cell[t[k].node]
  BY DEF Listed, NodeAdded
<1>5. ASSUME NEW k \in 1..(n + 1)
      PROVE  /\ v[k].node # NULL /\ v[k].node \in DOMAIN u.cell
             /\ NodeAt(v[k].node) \in h
             /\ u.cell[v[k].node].handler = v[k].hook
             /\ u.cell[v[k].node].next = NodeFrom(v, k + 1)
  <2>1. CASE k = 1
    BY <1>1, <1>2, <2>1 DEF NodeAdded
  <2>2. CASE k # 1
    <3>1. k \in 2..(n + 1) /\ k - 1 \in 1..n
      BY <1>1, <2>2
    <3>2. v[k] = t[k - 1] /\ NodeFrom(v, k + 1) = NodeFrom(t, (k - 1) + 1)
      BY <1>1, <1>3, <3>1
    <3>3. /\ t[k - 1].node # NULL
          /\ s.cell[t[k - 1].node].handler = t[k - 1].hook
          /\ s.cell[t[k - 1].node].next = NodeFrom(t, (k - 1) + 1)
      BY <3>1 DEF Listed
    <3> QED BY <1>4, <3>1, <3>2, <3>3
  <2> QED BY <2>1, <2>2
<1>6. ASSUME NEW k \in 1..(n + 1), NEW j \in 1..(n + 1), j # k
      PROVE  v[j].node # v[k].node /\ (v[k].hook # NULL => v[j].hook # v[k].hook)
  <2>1. CASE k = 1
    <3>1. j \in 2..(n + 1) /\ j - 1 \in 1..n /\ v[j] = t[j - 1]
      BY <1>1, <1>6, <2>1
    <3> QED BY <1>1, <1>4, <2>1, <3>1
  <2>2. CASE j = 1
    <3>1. k \in 2..(n + 1) /\ k - 1 \in 1..n /\ v[k] = t[k - 1]
      BY <1>1, <1>6, <2>2
    <3> QED BY <1>1, <1>4, <2>2, <3>1
  <2>3. CASE j # 1 /\ k # 1
    <3>1. /\ k - 1 \in 1..n /\ v[k] = t[k - 1] /\ j - 1 \in 1..n /\ v[j] = t[j - 1]
          /\ j - 1 # k - 1
      BY <1>1, <1>6, <2>3
    <3> QED BY <3>1 DEF Listed
  <2> QED BY <2>1, <2>2, <2>3
<1>7. Listed(u, h, v)
  BY <1>1, <1>5, <1>6 DEF Listed
<1> QED BY <1>7 DEF v

\* Steps that leave the list and the registrations alone.
LEMMA KeepsList ==
  ASSUME CleanupInv, InUse, UNCHANGED <<status, it, todo, misrun>>,
         NodesKept(pool', pool, given),
         \A a : NodeAt(a) \in given => NodeAt(a) \in given'
  PROVE  CleanupInv'
<1>1. Listed(pool, given, todo)
  BY DEF CleanupInv, InUse
<1>2. Listed(pool', given', todo)
  BY <1>1, ListedKept
<1>3. pool'.cleanup = pool.cleanup /\ DOMAIN pool'.cell \subseteq DOMAIN pool.cell
  BY DEF NodesKept, Spared
<1> QED BY <1>2, <1>3 DEF CleanupInv, InUse

\* ngx_pool_cleanup_add, by the client or by one of its handlers.
LEMMA AddKeepsList ==
  ASSUME TypeOK, MemoryInv, CleanupInv, NEW size \in Nat, CleanupAdd(size)
  PROVE  CleanupInv'
<1>1. Live(pool) /\ Sound(pool, given, {}) /\ given \subseteq RegionType
  BY DEF TypeOK, Live, MemoryInv, RegionType, CleanupAdd, InUse
<1>2. PICK o \in ngx_pool_cleanup_add(pool, size) :
        /\ pool' = o.s /\ given' = given \cup o.new
        /\ todo' = IF o.ret = NULL \/ status = "handler" THEN todo
                   ELSE <<[node |-> o.ret, hook |-> NULL, done |-> FALSE]>> \o todo
  BY DEF CleanupAdd
<1>3. \/ o.ret = NULL /\ NodesKept(o.s, pool, given)
      \/ /\ o.ret # NULL /\ NodeAt(o.ret) \in o.new
         /\ NodeAdded(o.s, o.ret, pool, given)
  BY <1>1, CleanupAddNodes
<1>4. UNCHANGED <<status, it, misrun>> /\ InUse /\ todo \in Seq(Entry)
  BY DEF CleanupAdd, TypeOK
<1>5. CASE o.ret = NULL /\ NodesKept(o.s, pool, given)
  BY <1>2, <1>4, <1>5, KeepsList
<1>6. CASE /\ o.ret # NULL /\ NodeAt(o.ret) \in o.new
           /\ NodeAdded(o.s, o.ret, pool, given)
  <2>1. Listed(pool, given, todo)
    BY <1>4 DEF CleanupInv, InUse
  <2>2. CASE status = "handler"
    <3>1. todo' = todo
      BY <1>2, <2>2
    <3>2. Listed(pool', given', todo)
      BY <1>2, <1>6, <2>1 DEF Listed, NodeAdded
    <3> QED BY <1>4, <2>2, <3>1, <3>2 DEF CleanupInv
  <2>3. CASE status = "live"
    <3> DEFINE e == [node |-> o.ret, hook |-> NULL, done |-> FALSE]
    <3>1. e.node = o.ret /\ e.hook = NULL /\ e.done = FALSE
      OBVIOUS
    <3>2. todo' = <<e>> \o todo
      BY <1>2, <1>6, <2>3
    <3> HIDE DEF e
    <3>3. /\ pool.cleanup = NodeFrom(todo, 1) /\ Passed(todo, 0)
          /\ \A a \in DOMAIN pool.cell : \E k \in 1..Len(todo) : todo[k].node = a
      BY <2>3 DEF CleanupInv
    <3>4. given \subseteq given' /\ NodeAt(o.ret) \in given'
      BY <1>2, <1>6
    <3>5. Listed(o.s, given', <<e>> \o todo)
      BY <1>4, <1>6, <2>1, <3>1, <3>3, <3>4, ListedAdded
    <3>6. /\ Len(todo') = Len(todo) + 1 /\ todo'[1] = e /\ Len(todo) \in Nat
          /\ \A k \in 2..(Len(todo) + 1) : todo'[k] = todo[k - 1] /\ k - 1 \in 1..Len(todo)
          /\ \A k \in 1..Len(todo) : todo'[k + 1] = todo[k] /\ k + 1 \in 1..(Len(todo) + 1)
      BY <1>4, <3>2
    <3>7. pool'.cleanup = NodeFrom(todo', 1)
      BY <1>2, <1>6, <3>1, <3>6 DEF NodeFrom, NodeAdded
    <3>8. Passed(todo', 0)
      <4>1. \A k \in 1..(Len(todo) + 1) : ~todo'[k].done
        <5> TAKE k \in 1..(Len(todo) + 1)
        <5>1. CASE k = 1
          BY <3>1, <3>6, <5>1
        <5>2. CASE k # 1
          <6>1. k \in 2..(Len(todo) + 1)
            BY <3>6, <5>2
          <6> QED BY <3>3, <3>6, <6>1 DEF Passed
        <5> QED BY <5>1, <5>2
      <4>2. Len(todo') = Len(todo) + 1 /\ \A k \in 1..(Len(todo) + 1) : ~(k <= 0)
        BY <3>6
      <4> QED BY <4>1, <4>2, Zenon DEF Passed
    <3>9. \A a \in DOMAIN pool'.cell : \E k \in 1..Len(todo') : todo'[k].node = a
      <4> TAKE a \in DOMAIN pool'.cell
      <4>1. a \in DOMAIN pool.cell \/ a = o.ret
        BY <1>2, <1>6 DEF NodeAdded
      <4>2. CASE a = o.ret
        BY <3>1, <3>6, <4>2
      <4>3. CASE a \in DOMAIN pool.cell
        <5>1. PICK k \in 1..Len(todo) : todo[k].node = a
          BY <3>3, <4>3
        <5> QED BY <3>6, <5>1
      <4> QED BY <4>1, <4>2, <4>3
    <3> QED BY <1>2, <1>4, <2>3, <3>2, <3>5, <3>7, <3>8, <3>9 DEF CleanupInv
  <2> QED BY <1>4, <2>2, <2>3 DEF InUse
<1> QED BY <1>3, <1>5, <1>6

\* c->handler = h for a node the client has, or that a handler has added.
LEMMA SetHandlerKeepsList ==
  ASSUME TypeOK, CleanupInv, NEW h \in Hook, SetHandler(h)
  PROVE  CleanupInv'
<1> DEFINE n == Len(todo)
<1>1. PICK a \in DOMAIN pool.cell :
        /\ pool.cell[a].handler = NULL
        /\ status = "live" \/ \A k \in 1..n : todo[k].node # a
        /\ pool' = WithHandler(pool, a, h)
        /\ LET k == FirstOf({j \in 1..n : todo[j].node = a})
           IN  todo' = [j \in 1..n |->
                          IF j \in k THEN [todo[j] EXCEPT !.hook = h] ELSE todo[j]]
  BY DEF SetHandler
<1> DEFINE F == FirstOf({j \in 1..n : todo[j].node = a})
           e(j) == IF j \in F THEN [todo[j] EXCEPT !.hook = h] ELSE todo[j]
<1>2. /\ UNCHANGED <<status, it, given, misrun>> /\ InUse
      /\ \A k \in 1..n : todo[k].hook # h
  BY DEF SetHandler
<1>3. /\ SameBut(pool', pool, {"cell"}) /\ DOMAIN pool'.cell = DOMAIN pool.cell
      /\ pool'.cell[a].handler = h /\ pool'.cell[a].next = pool.cell[a].next
      /\ \A b \in DOMAIN pool.cell : b # a => pool'.cell[b] = pool.cell[b]
  <2> DEFINE t == WithHandler(pool, a, h)
             x == [handler |-> h, data |-> pool.cell[a].data, next |-> pool.cell[a].next]
  <2>1. /\ SameBut(t, pool, {"cell"}) /\ DOMAIN t.cell = DOMAIN pool.cell
        /\ t.cell[a] = x
        /\ \A b \in DOMAIN pool.cell : b # a => t.cell[b] = pool.cell[b]
    BY WithHandlerIs DEF TypeOK
  <2>2. x.handler = h /\ x.next = pool.cell[a].next
    OBVIOUS
  <2>3. pool' = t
    BY <1>1
  <2> HIDE DEF t, x
  <2> QED BY <2>1, <2>2, <2>3
<1>4. n \in Nat /\ \A j \in 1..n : todo[j] \in Entry
  BY DEF TypeOK
<1>5. Listed(pool, given, todo)
  BY <1>2 DEF CleanupInv, InUse
<1>6. \A j \in 1..n : j \in F <=> todo[j].node = a
  <2>1. \A i, j \in 1..n : todo[i].node = a /\ todo[j].node = a => i = j
    BY <1>5 DEF Listed
  <2>2. \A j \in 1..n : j <= j
    BY <1>4
  <2> QED BY <2>1, <2>2 DEF FirstOf
<1>7. todo' = [j \in 1..n |-> e(j)]
  BY <1>1
<1> HIDE DEF F
<1>8. \A j \in 1..n :
        /\ e(j).node = todo[j].node /\ e(j).done = todo[j].done
        /\ e(j).hook = IF j \in F THEN h ELSE todo[j].hook
  BY <1>4 DEF Entry
<1> HIDE DEF e
<1>9. /\ Len(todo') = n
      /\ \A j \in 1..n :
           /\ todo'[j].node = todo[j].node /\ todo'[j].done = todo[j].done
           /\ todo'[j].hook = IF todo[j].node = a THEN h ELSE todo[j].hook
  BY <1>4, <1>6, <1>7, <1>8
<1> HIDE DEF n
<1>10. \A k : NodeFrom(todo', k) = IF k <= n THEN todo'[k].node ELSE NULL
  BY <1>9 DEF NodeFrom
<1>11. \A k \in 1..n : NodeFrom(todo', k + 1) = NodeFrom(todo, k + 1)
  BY <1>4, <1>9 DEF NodeFrom, n
<1>12. Listed(pool', given', todo')
  <2>1. ASSUME NEW k \in 1..n
        PROVE  /\ todo'[k].node # NULL /\ todo'[k].node \in DOMAIN pool'.cell
               /\ NodeAt(todo'[k].node) \in given'
               /\ pool'.cell[todo'[k].node].handler = todo'[k].hook
               /\ pool'.cell[todo'[k].node].next = NodeFrom(todo', k + 1)
    <3>1. /\ todo[k].node # NULL /\ todo[k].node \in DOMAIN pool.cell
          /\ NodeAt(todo[k].node) \in given
          /\ pool.cell[todo[k].node].handler = todo[k].hook
          /\ pool.cell[todo[k].node].next = NodeFrom(todo, k + 1)
      BY <1>5 DEF Listed, n
    <3>2. CASE todo[k].node = a
      BY <1>2, <1>3, <1>9, <1>11, <3>1, <3>2
    <3>3. CASE todo[k].node # a
      BY <1>2, <1>3, <1>9, <1>11, <3>1, <3>3
    <3> QED BY <3>2, <3>3
  <2>2. ASSUME NEW k \in 1..n, NEW j \in 1..n, j # k
        PROVE  /\ todo'[j].node # todo'[k].node
               /\ todo'[k].hook # NULL => todo'[j].hook # todo'[k].hook
    <3>1. /\ todo[j].node # todo[k].node
          /\ todo[k].hook # NULL => todo[j].hook # todo[k].hook
      BY <1>5, <2>2 DEF Listed, n
    <3> QED BY <1>2, <1>9, <3>1
  <2> QED BY <1>9, <2>1, <2>2 DEF Listed
<1>13. CASE status = "live"
  <2>1. /\ pool.cleanup = NodeFrom(todo, 1) /\ Passed(todo, 0)
        /\ \A b \in DOMAIN pool.cell : \E k \in 1..n : todo[k].node = b
    BY <1>13 DEF CleanupInv, n
  <2>2. pool'.cleanup = NodeFrom(todo', 1)
    <3>1. NodeFrom(todo', 1) = NodeFrom(todo, 1)
      BY <1>4, <1>9 DEF NodeFrom, n
    <3> QED BY <1>3, <2>1, <3>1 DEF SameBut
  <2>3. Passed(todo', 0)
    <3>1. \A k \in 1..n : ~(k <= 0) /\ k > 0
      BY <1>4
    <3> QED BY <1>9, <2>1, <3>1 DEF Passed, n
  <2>4. \A b \in DOMAIN pool'.cell : \E k \in 1..Len(todo') : todo'[k].node = b
    BY <1>3, <1>9, <2>1
  <2> QED BY <1>2, <1>12, <1>13, <2>2, <2>3, <2>4 DEF CleanupInv
<1>14. CASE status = "handler"
  <2>1. \A k \in 1..n : todo'[k].hook = todo[k].hook
    BY <1>1, <1>9, <1>14
  <2>2. PICK m \in 1..n : it = NodeFrom(todo, m) /\ Passed(todo, m)
    BY <1>14 DEF CleanupInv, n
  <2>3. Passed(todo', m)
    BY <1>9, <2>1, <2>2 DEF Passed, n
  <2>4. NodeFrom(todo', m) = NodeFrom(todo, m)
    BY <1>9, <2>2 DEF NodeFrom, n
  <2> QED BY <1>2, <1>9, <1>12, <1>14, <2>2, <2>3, <2>4 DEF CleanupInv
<1> QED BY <1>2, <1>13, <1>14 DEF InUse

\* The loop calls the handler of the node it is at: the first one pending.
LEMMA CallKeepsList ==
  ASSUME TypeOK, CleanupInv, CallHandler
  PROVE  CleanupInv'
<1> DEFINE n == Len(todo)
           h == pool.cell[it].handler
           e(k) == [todo[k] EXCEPT !.done = @ \/ todo[k].hook = h]
<1>1. /\ status = "cleanup" /\ it # NULL /\ h # NULL /\ status' = "handler"
      /\ pool' = pool /\ it' = it /\ given' = given
      /\ misrun' = (misrun \/ \A k \in FirstOf(Pending(todo)) : todo[k].hook # h)
      /\ todo' = [k \in 1..n |-> e(k)]
  BY DEF CallHandler
<1>2. n \in Nat /\ \A k \in 1..n : todo[k] \in Entry
  BY DEF TypeOK
<1>3. Listed(pool, given, todo) /\ ~misrun
  BY <1>1 DEF CleanupInv
<1>4. PICK p \in 0..n : it = NodeFrom(todo, p + 1) /\ Passed(todo, p)
  BY <1>1 DEF CleanupInv
<1> DEFINE m == p + 1
<1>5. m \in 1..n /\ it = todo[m].node
  BY <1>1, <1>2, <1>4 DEF NodeFrom
<1>6. h = todo[m].hook
  BY <1>3, <1>5 DEF Listed
<1> HIDE DEF h
<1>7. \A k \in 1..n : todo[k].hook = h <=> k = m
  BY <1>1, <1>3, <1>5, <1>6 DEF Listed
<1>8. \A k \in 1..n :
        /\ e(k).node = todo[k].node /\ e(k).hook = todo[k].hook
        /\ e(k).done = (todo[k].done \/ todo[k].hook = h)
  BY <1>2 DEF Entry
<1> HIDE DEF e
<1>9. /\ Len(todo') = n
      /\ \A k \in 1..n :
           /\ todo'[k].node = todo[k].node /\ todo'[k].hook = todo[k].hook
           /\ todo'[k].done = (todo[k].done \/ todo[k].hook = h)
  BY <1>1, <1>2, <1>8
<1>10. /\ \A k \in 1..n : k <= p <=> k < m
       /\ \A k \in 1..n : k > p <=> k >= m
       /\ \A k \in 1..n : k <= m <=> k < m \/ k = m
       /\ \A k \in 1..n : k > m => k >= m /\ k # m
  BY <1>2, <1>4
<1>11. /\ \A k \in 1..n : k < m => todo[k].hook = NULL \/ todo[k].done
       /\ \A k \in 1..n : k >= m => ~todo[k].done
  BY <1>4, <1>10 DEF Passed
<1>12. m \in FirstOf(Pending(todo))
  <2>1. ~todo[m].done
    <3>1. m >= m
      BY <1>2, <1>4
    <3> QED BY <1>5, <1>11, <3>1
  <2>2. m \in Pending(todo)
    BY <1>1, <1>5, <1>6, <2>1 DEF Pending
  <2>3. \A j \in Pending(todo) : ~(j < m) /\ j \in 1..n
    BY <1>11 DEF Pending
  <2>4. \A j \in Pending(todo) : m <= j
    BY <1>4, <2>3
  <2> QED BY <2>2, <2>4 DEF FirstOf
<1>13. ~misrun'
  BY <1>1, <1>3, <1>6, <1>12
<1> HIDE DEF n, m
<1>14. \A k : NodeFrom(todo', k) = IF k <= n THEN todo'[k].node ELSE NULL
  BY <1>9 DEF NodeFrom
<1>15. \A k \in 1..n : NodeFrom(todo', k + 1) = NodeFrom(todo, k + 1)
  BY <1>2, <1>9 DEF NodeFrom, n
<1>16. Listed(pool', given', todo')
  <2>1. ASSUME NEW k \in 1..n
        PROVE  /\ todo'[k].node # NULL /\ todo'[k].node \in DOMAIN pool'.cell
               /\ NodeAt(todo'[k].node) \in given'
               /\ pool'.cell[todo'[k].node].handler = todo'[k].hook
               /\ pool'.cell[todo'[k].node].next = NodeFrom(todo', k + 1)
    <3>1. /\ todo[k].node # NULL /\ todo[k].node \in DOMAIN pool.cell
          /\ NodeAt(todo[k].node) \in given
          /\ pool.cell[todo[k].node].handler = todo[k].hook
          /\ pool.cell[todo[k].node].next = NodeFrom(todo, k + 1)
      BY <1>3 DEF Listed, n
    <3> QED BY <1>1, <1>9, <1>15, <3>1
  <2>2. ASSUME NEW k \in 1..n, NEW j \in 1..n, j # k
        PROVE  /\ todo'[j].node # todo'[k].node
               /\ todo'[k].hook # NULL => todo'[j].hook # todo'[k].hook
    <3>1. /\ todo[j].node # todo[k].node
          /\ todo[k].hook # NULL => todo[j].hook # todo[k].hook
      BY <1>3, <2>2 DEF Listed, n
    <3> QED BY <1>9, <3>1
  <2> QED BY <1>9, <2>1, <2>2 DEF Listed
<1>17. Passed(todo', m)
  <2>1. \A k \in 1..n : k <= m => todo'[k].hook = NULL \/ todo'[k].done
    BY <1>7, <1>9, <1>10, <1>11
  <2>2. \A k \in 1..n : k > m => ~todo'[k].done
    BY <1>7, <1>9, <1>10, <1>11
  <2> QED BY <1>9, <2>1, <2>2 DEF Passed
<1>18. it' = NodeFrom(todo', m)
  BY <1>1, <1>2, <1>5, <1>9 DEF NodeFrom, n
<1> QED BY <1>1, <1>5, <1>9, <1>13, <1>16, <1>17, <1>18 DEF CleanupInv

\* The loop goes on to the next node.
LEMMA AdvanceKeepsList ==
  ASSUME TypeOK, CleanupInv, NEW m \in 1..Len(todo), Passed(todo, m),
         status \in {"cleanup", "handler"}, it = todo[m].node,
         it' = pool.cell[it].next, status' = "cleanup",
         UNCHANGED <<pool, given, todo, misrun>>
  PROVE  CleanupInv'
<1>1. Listed(pool, given, todo)
  BY DEF CleanupInv
<1>2. it' = NodeFrom(todo, m + 1)
  BY <1>1 DEF Listed
<1>3. m \in 0..Len(todo)
  BY DEF TypeOK
<1> QED BY <1>1, <1>2, <1>3 DEF CleanupInv

\* While the loop runs it is at a node of the list or at its end.
LEMMA LoopAtNode ==
  ASSUME TypeOK, CleanupInv, status \in {"cleanup", "handler"}, it # NULL
  PROVE  it \in DOMAIN pool.cell
<1>1. PICK m \in 1..(Len(todo) + 1) : it = NodeFrom(todo, m)
  <2>1. \A n \in 0..Len(todo) : n + 1 \in 1..(Len(todo) + 1)
    BY DEF TypeOK
  <2>2. \A n \in 1..Len(todo) : n \in 1..(Len(todo) + 1)
    BY DEF TypeOK
  <2> QED BY <2>1, <2>2 DEF CleanupInv
<1>2. m \in 1..Len(todo) /\ it = todo[m].node
  BY <1>1 DEF NodeFrom, TypeOK
<1> QED BY <1>2 DEF CleanupInv, Listed

\* Every step of a careful client's pool keeps the invariant.
LEMMA StepCleanup ==
  ASSUME SoundSizes, CarefulClient
  PROVE  TypeOK /\ MemoryInv /\ CleanupInv /\ [Next]_vars => CleanupInv'
<1> SUFFICES ASSUME TypeOK, MemoryInv, CleanupInv, [Next]_vars PROVE CleanupInv'
  OBVIOUS
<1>0. ASSUME status \in {"live", "cleanup", "handler"}
      PROVE  Live(pool) /\ Sound(pool, given, {}) /\ given \subseteq RegionType
  BY <1>0 DEF TypeOK, Live, MemoryInv, RegionType
<1>a. InUse => status \in {"live", "cleanup", "handler"}
  BY DEF InUse
<1>1. ASSUME NEW size \in PoolSizes, Create(size) PROVE CleanupInv'
  <2>1. size \in Nat /\ SizeofPool <= size /\ "create_fails" \notin Scenarios
    BY SizesAssumption DEF SoundSizes, CarefulClient
  <2>2. PICK c \in Malloc(pool.heap) \ {NULL} :
          pool' = NewPool(c, size)
          /\ status' = IF size >= SizeofPool THEN "live" ELSE "ub"
    BY <1>1, <2>1 DEF Create
  <2>3. status' = "live" /\ todo' = <<>> /\ misrun' = misrun
    BY <1>1, <2>1, <2>2, LayoutAssumption DEF Create, CleanupInv
  <2>4. pool'.cleanup = NULL /\ pool'.cell = <<>>
    BY <2>2, NewPoolIs
  <2>5. DOMAIN pool'.cell = {} /\ Len(todo') = 0
    BY <2>3, <2>4
  <2>6. Listed(pool', given', todo') /\ Passed(todo', 0) /\ NodeFrom(todo', 1) = NULL
    BY <2>5 DEF Listed, Passed, NodeFrom
  <2> QED BY <2>3, <2>4, <2>5, <2>6 DEF CleanupInv
<1>2. CASE UseFailed
  BY <1>2 DEF UseFailed, CleanupInv
<1>3. ASSUME NEW outcomes, Apply(outcomes),
             \A o \in outcomes : NodesKept(o.s, pool, given)
      PROVE  CleanupInv'
  <2>1. /\ InUse /\ UNCHANGED <<status, it, todo, misrun>>
        /\ NodesKept(pool', pool, given) /\ given \subseteq given'
    BY <1>3 DEF Apply
  <2> QED BY <2>1, KeepsList
<1>4. ASSUME NEW size \in PallocSizes, Palloc(size) PROVE CleanupInv'
  <2>1. size \in Nat /\ "client" \in Kind /\ InUse
    BY <1>4, SizesAssumption DEF Kind, Palloc, Apply
  <2>2. \A o \in ngx_palloc(pool, size, "client") : NodesKept(o.s, pool, given)
    BY <1>0, <1>a, <2>1, PallocHarmless DEF Harmless
  <2> QED BY <1>3, <1>4, <2>2 DEF Palloc
<1>5. ASSUME NEW size \in PnallocSizes, Pnalloc(size) PROVE CleanupInv'
  <2>1. size \in Nat /\ "raw" \in Kind /\ InUse
    BY <1>5, SizesAssumption DEF Kind, Pnalloc, Apply
  <2>2. \A o \in ngx_pnalloc(pool, size, "raw") : NodesKept(o.s, pool, given)
    BY <1>0, <1>a, <2>1, PallocHarmless DEF Harmless
  <2> QED BY <1>3, <1>5, <2>2 DEF Pnalloc
<1>6. ASSUME NEW size \in PcallocSizes, Pcalloc(size) PROVE CleanupInv'
  <2>1. size \in Nat /\ "client" \in Kind /\ InUse
    BY <1>6, SizesAssumption DEF Kind, Pcalloc, Apply
  <2>2. \A o \in ngx_pcalloc(pool, size, "client") : NodesKept(o.s, pool, given)
    BY <1>0, <1>a, <2>1, PcallocHarmless
  <2> QED BY <1>3, <1>6, <2>2 DEF Pcalloc
<1>7. CASE Pfree
  <2>1. PICK r \in given : /\ r.kind # "node"
                           /\ pool' \in ngx_pfree(pool, Addr(r.at, r.off))
                           /\ given' = IF r.at \in Blocks(pool) THEN given
                                       ELSE given \ {r}
    BY <1>7 DEF Pfree
  <2>2. InUse /\ UNCHANGED <<status, it, todo, misrun>>
    BY <1>7 DEF Pfree
  <2>3. NodesKept(pool', pool, given)
    BY <1>0, <1>a, <2>1, <2>2, PfreeSpares
  <2>4. \A a : NodeAt(a) \in given => NodeAt(a) \in given'
    <3>1. \A a : NodeAt(a).kind = "node"
      BY DEF NodeAt, Region
    <3> QED BY <2>1, <3>1
  <2> QED BY <2>2, <2>3, <2>4, KeepsList
<1>8. CASE ClientWrite
  <2>1. PICK r \in given : r.kind # "node" /\ pool' = Scribble(pool, r)
    BY <1>8 DEF ClientWrite
  <2>2. InUse /\ UNCHANGED <<status, it, given, todo, misrun>>
    BY <1>8 DEF ClientWrite
  <2>3. SameBut(pool', pool, {"cell"}) /\ pool'.cell = Overwritten(pool.cell, r)
    BY <1>0, <1>a, <2>1, <2>2, ScribbleIs DEF Live, PoolType
  <2> DEFINE g == {q \in given : q # r}
  <2>4. Fresh({r}, g)
    BY <1>0, <1>a, <2>1, <2>2 DEF Fresh, Sound, Apart
  <2> HIDE DEF g
  <2>5. Spared(Overwritten(pool.cell, r), pool.cell, g)
    BY <2>4, OverwrittenSpares
  <2>6. \A a : NodeAt(a) \in given => NodeAt(a) \in g
    <3>1. \A a : NodeAt(a).kind = "node"
      BY DEF NodeAt, Region
    <3> QED BY <2>1, <3>1 DEF g
  <2>7. NodesKept(pool', pool, given)
    BY <2>3, <2>5, <2>6 DEF NodesKept, Spared, SameBut
  <2> QED BY <2>2, <2>7, KeepsList
<1>9. ASSUME NEW size \in CleanupSizes, CleanupAdd(size) PROVE CleanupInv'
  BY <1>9, AddKeepsList, SizesAssumption
<1>10. ASSUME NEW h \in Hook, SetHandler(h) PROVE CleanupInv'
  BY <1>10, SetHandlerKeepsList
<1>11. CASE ResetPool
  \* only a pool without cleanup nodes is reset
  <2>1. status = "live" /\ pool.cleanup = NULL
    BY <1>11 DEF ResetPool, CarefulClient
  <2>2. Live(pool) /\ Sound(pool, given, {}) /\ LargeFreeable(pool)
    BY <1>0, <2>1, SoundFreeable
  <2>3. /\ pool' = ngx_rest_pool(pool) /\ status' = "live"
        /\ UNCHANGED <<it, todo, misrun>>
    BY <1>11, <2>1, <2>2 DEF ResetPool
  <2>4. Len(todo) \in Nat /\ ~(1 <= Len(todo))
    BY <2>1 DEF CleanupInv, NodeFrom, Listed, TypeOK
  <2>5. Len(todo) = 0
    BY <2>4
  <2>6. DOMAIN pool.cell = {}
    BY <2>1, <2>5 DEF CleanupInv
  <2>7. /\ SameBut(pool', pool, {"heap", "cell", "blk", "current", "large"})
        /\ pool'.cell = Free(pool, Allocs(pool)).cell
    BY <2>2, <2>3, RestPoolIs DEF Live, PoolType
  <2>8. DOMAIN pool'.cell = {} /\ pool'.cleanup = NULL
    <3>1. DOMAIN Free(pool, Allocs(pool)).cell \subseteq DOMAIN pool.cell
      BY <2>2, FreeIs DEF Live, PoolType
    <3> QED BY <2>1, <2>6, <2>7, <3>1 DEF SameBut
  <2>9. Listed(pool', given', todo') /\ Passed(todo', 0) /\ NodeFrom(todo', 1) = NULL
    BY <2>3, <2>5 DEF Listed, Passed, NodeFrom
  <2> QED BY <2>3, <2>8, <2>9 DEF CleanupInv
<1>12. CASE BeginDestroy
  <2>1. 0 \in 0..Len(todo) /\ 0 + 1 = 1
    BY DEF TypeOK
  <2>2. it' = NodeFrom(todo, 0 + 1) /\ Passed(todo, 0) /\ status' = "cleanup"
    BY <1>12, <2>1 DEF BeginDestroy, CleanupInv
  <2>3. UNCHANGED <<pool, given, todo, misrun>> /\ Listed(pool, given, todo)
    BY <1>12 DEF BeginDestroy, CleanupInv
  <2> QED BY <2>1, <2>2, <2>3 DEF CleanupInv
<1>13. CASE LostNode
  BY <1>13, LoopAtNode DEF LostNode
<1>14. CASE SkipHandler
  <2>1. /\ status = "cleanup" /\ it # NULL /\ pool.cell[it].handler = NULL
        /\ it' = pool.cell[it].next /\ UNCHANGED <<pool, status, given, todo, misrun>>
    BY <1>14 DEF SkipHandler
  <2>2. PICK n \in 0..Len(todo) : it = NodeFrom(todo, n + 1) /\ Passed(todo, n)
    BY <2>1 DEF CleanupInv
  <2>3. n + 1 \in 1..Len(todo) /\ it = todo[n + 1].node
    BY <2>1, <2>2 DEF NodeFrom, TypeOK
  <2>4. todo[n + 1].hook = NULL
    BY <2>1, <2>3 DEF CleanupInv, Listed
  <2>5. Passed(todo, n + 1)
    <3>1. \A k \in 1..Len(todo) : /\ k <= n + 1 => k <= n \/ k = n + 1
                                  /\ k > n + 1 => k > n
      BY <2>2 DEF TypeOK
    <3> QED BY <2>2, <2>4, <3>1 DEF Passed
  <2> QED BY <2>1, <2>3, <2>5, AdvanceKeepsList
<1>15. CASE CallHandler
  BY <1>15, CallKeepsList
<1>16. CASE HandlerReturns
  <2>1. /\ status = "handler" /\ status' = "cleanup" /\ it' = pool.cell[it].next
        /\ UNCHANGED <<pool, given, todo, misrun>>
    BY <1>16 DEF HandlerReturns
  <2>2. PICK n \in 1..Len(todo) : it = NodeFrom(todo, n) /\ Passed(todo, n)
    BY <2>1 DEF CleanupInv
  <2>3. it = todo[n].node
    BY <2>2 DEF NodeFrom, TypeOK
  <2> QED BY <2>1, <2>2, <2>3, AdvanceKeepsList
<1>17. CASE FreeLarge
  <2>1. status = "cleanup" /\ it = NULL /\ LargeFreeable(pool)
    BY <1>0, <1>17, SoundFreeable DEF FreeLarge
  <2>2. status' = "blocks" /\ UNCHANGED <<it, todo, misrun>>
    BY <1>17, <2>1 DEF FreeLarge
  <2>3. PICK n \in 0..Len(todo) : it = NodeFrom(todo, n + 1) /\ Passed(todo, n)
    BY <2>1 DEF CleanupInv
  <2>4. Len(todo) \in Nat /\ ~(n + 1 \in 1..Len(todo))
    <3>1. Listed(pool, given, todo)
      BY <2>1 DEF CleanupInv
    <3> QED BY <2>1, <2>3, <3>1 DEF NodeFrom, Listed, TypeOK
  <2>5. n = Len(todo)
    BY <2>3, <2>4
  <2> QED BY <2>2, <2>3, <2>5 DEF CleanupInv
<1>18. CASE FreeBlocks
  <2>1. status' = "destroyed" /\ UNCHANGED <<it, todo, misrun>>
    BY <1>18 DEF FreeBlocks, MemoryInv, BlocksLeft
  <2> QED BY <1>18, <2>1 DEF FreeBlocks, CleanupInv
<1>19. CASE DestroyAgain
  BY <1>19 DEF DestroyAgain, CarefulClient
<1>20. CASE UNCHANGED vars
  BY <1>20 DEF vars, CleanupInv
<1> QED
  BY <1>1, <1>2, <1>4, <1>5, <1>6, <1>7, <1>8, <1>9, <1>10, <1>11, <1>12, <1>13,
     <1>14, <1>15, <1>16, <1>17, <1>18, <1>19, <1>20
  DEF Next, DestroyStep, Ended

\* Nothing is registered before the constructor.
LEMMA InitCleanup == Init => CleanupInv
BY DEF Init, CleanupInv

\* The invariants of a careful client's pool.
LEMMA CleanupInvariant ==
  ASSUME SoundSizes, CarefulClient
  PROVE  Spec => [](TypeOK /\ MemoryInv /\ CleanupInv)
<1>1. Init => CleanupInv
  BY InitCleanup
<1>2. TypeOK /\ MemoryInv /\ CleanupInv /\ [Next]_vars => CleanupInv'
  BY StepCleanup
<1> QED BY <1>1, <1>2, MemoryInvariant, PTL DEF Spec

(***************************************************************************)
(* The pool's code frees nothing twice, reads no node that was freed or    *)
(* overwritten and writes past no chunk, whatever handlers the client      *)
(* registers and whatever they do with the pool while it is destroyed.     *)
(***************************************************************************)
THEOREM NothingUndefined ==
  ASSUME SoundSizes, CarefulClient
  PROVE  Spec => []NoUndefined
<1>1. CleanupInv => NoUndefined
  BY DEF CleanupInv, NoUndefined
<1> QED BY <1>1, CleanupInvariant, PTL

(***************************************************************************)
(* ngx_destroy_pool runs every handler registered before it exactly once,  *)
(* the newest first, and all of them before it frees any memory.           *)
(***************************************************************************)
THEOREM HandlersCorrect ==
  ASSUME SoundSizes, CarefulClient
  PROVE  Spec => []HandlersRunOnce
<1>1. TypeOK /\ CleanupInv => HandlersRunOnce
  <2> SUFFICES ASSUME TypeOK, CleanupInv PROVE HandlersRunOnce
    OBVIOUS
  <2>1. ASSUME status \in {"blocks", "destroyed"} PROVE Pending(todo) = {}
    <3>1. Passed(todo, Len(todo)) /\ \A k \in 1..Len(todo) : k <= Len(todo)
      BY <2>1 DEF CleanupInv, TypeOK
    <3> QED BY <3>1 DEF Passed, Pending
  <2> QED BY <2>1 DEF HandlersRunOnce, CleanupInv
<1> QED BY <1>1, CleanupInvariant, PTL

-----------------------------------------------------------------------------
(* The pool implements AbstractPool.                                       *)

\* The phases of a careful client's pool.
LEMMA Phases ==
  /\ PhaseOf("none") = "none" /\ PhaseOf("live") = "open"
  /\ PhaseOf("cleanup") = "closing" /\ PhaseOf("handler") = "handler"
  /\ PhaseOf("blocks") = "freeing" /\ PhaseOf("destroyed") = "closed"
BY DEF PhaseOf

\* The slots are as many as the registrations.
LEMMA SlotsAre ==
  ASSUME TypeOK
  PROVE  /\ Len(SlotsOf) = Len(todo) /\ SlotsOf \in Seq(Hook \cup {NULL})
         /\ \A k \in 1..Len(todo) :
              SlotsOf[k] = IF todo[k].done THEN NULL ELSE todo[k].hook
<1>1. Len(todo) \in Nat /\ \A k \in 1..Len(todo) : todo[k] \in Entry
  BY DEF TypeOK
<1>2. \A k \in 1..Len(todo) :
        (IF todo[k].done THEN NULL ELSE todo[k].hook) \in Hook \cup {NULL}
  BY <1>1 DEF Entry
<1> QED BY <1>1, <1>2 DEF SlotsOf

\* Memory that the detailed pool gives away, the abstract one grants.
LEMMA GrantRefines ==
  ASSUME InUse, UNCHANGED <<status, todo>>, given \subseteq given', Disjoint'
  PROVE  Abstract!Grant
<1>1. Abstract!Exclusive(given')
  BY DEF Abstract!Exclusive, Abstract!Meet, Disjoint, Overlap
<1>2. SlotsOf' = SlotsOf
  BY DEF SlotsOf
<1>3. PhaseOf(status) \in {"open", "handler"}
  BY Phases DEF InUse
<1> QED BY <1>1, <1>2, <1>3 DEF Abstract!Grant, Abstract!Granted

\* Steps that change neither the regions nor the registrations nor the phase.
LEMMA StutterRefines ==
  ASSUME UNCHANGED <<given, todo, status>>
  PROVE  UNCHANGED Abstract!absVars
<1>1. SlotsOf' = SlotsOf
  BY DEF SlotsOf
<1> QED BY <1>1 DEF Abstract!absVars

\* A node added by the client is a new slot; a handler's own is memory only.
LEMMA AddRefines ==
  ASSUME TypeOK, TypeOK', Disjoint', NEW size, CleanupAdd(size)
  PROVE  Abstract!Grant \/ Abstract!AddSlot
<1>1. PICK o \in ngx_pool_cleanup_add(pool, size) :
        /\ given' = given \cup o.new
        /\ todo' = IF o.ret = NULL \/ status = "handler" THEN todo
                   ELSE <<[node |-> o.ret, hook |-> NULL, done |-> FALSE]>> \o todo
  BY DEF CleanupAdd
<1>2. InUse /\ UNCHANGED <<status, it, misrun>> /\ given \subseteq given'
  BY <1>1 DEF CleanupAdd
<1>3. CASE o.ret = NULL \/ status = "handler"
  BY <1>1, <1>2, <1>3, GrantRefines
<1>4. CASE ~(o.ret = NULL \/ status = "handler")
  <2> DEFINE e == [node |-> o.ret, hook |-> NULL, done |-> FALSE]
             n == Len(todo)
  <2>1. todo' = <<e>> \o todo /\ status = "live"
    BY <1>1, <1>2, <1>4 DEF InUse
  <2>2. e.hook = NULL /\ n \in Nat /\ todo \in Seq(Entry)
    BY DEF TypeOK
  <2> HIDE DEF e
  <2>3. /\ Len(todo') = n + 1 /\ todo'[1] = e
        /\ \A k \in 2..(n + 1) : todo'[k] = todo[k - 1] /\ k - 1 \in 1..n
    BY <2>1, <2>2
  <2>4. /\ Len(SlotsOf) = n /\ SlotsOf \in Seq(Hook \cup {NULL})
        /\ \A k \in 1..n : SlotsOf[k] = IF todo[k].done THEN NULL ELSE todo[k].hook
    BY SlotsAre
  <2>5. SlotsOf' = [k \in 1..(n + 1) |->
                      IF todo'[k].done THEN NULL ELSE todo'[k].hook]
    BY <2>3 DEF SlotsOf
  <2> DEFINE new == <<NULL>> \o SlotsOf
  <2>6. /\ new = [k \in 1..(n + 1) |-> new[k]] /\ new[1] = NULL
        /\ \A k \in 2..(n + 1) : new[k] = SlotsOf[k - 1]
    BY <2>2, <2>4
  <2> HIDE DEF new, n
  <2>7. \A k \in 1..(n + 1) :
          new[k] = IF todo'[k].done THEN NULL ELSE todo'[k].hook
    <3> TAKE k \in 1..(n + 1)
    <3>1. CASE k = 1
      BY <2>2, <2>3, <2>6, <3>1
    <3>2. CASE k # 1
      <4>1. k \in 2..(n + 1)
        BY <2>2, <3>2
      <4> QED BY <2>3, <2>4, <2>6, <4>1
    <3> QED BY <3>1, <3>2
  <2>8. SlotsOf' = new
    BY <2>5, <2>6, <2>7
  <2>9. Abstract!Exclusive(given')
    BY DEF Abstract!Exclusive, Abstract!Meet, Disjoint, Overlap
  <2> QED BY <1>2, <2>1, <2>8, <2>9, Phases DEF Abstract!AddSlot, Abstract!Granted, new
<1> QED BY <1>3, <1>4

\* A handler stored by the client fills a slot; one that a handler stores in
\* its own node fills none.
LEMMA SetHandlerRefines ==
  ASSUME TypeOK, TypeOK', CleanupInv, NEW h \in Hook, SetHandler(h)
  PROVE  Abstract!Register(h) \/ UNCHANGED Abstract!absVars
<1> DEFINE n == Len(todo)
<1>1. PICK a \in DOMAIN pool.cell :
        /\ pool.cell[a].handler = NULL
        /\ status = "live" \/ \A k \in 1..n : todo[k].node # a
        /\ LET k == FirstOf({j \in 1..n : todo[j].node = a})
           IN  todo' = [j \in 1..n |->
                          IF j \in k THEN [todo[j] EXCEPT !.hook = h] ELSE todo[j]]
  BY DEF SetHandler
<1> DEFINE F == FirstOf({j \in 1..n : todo[j].node = a})
           e(j) == IF j \in F THEN [todo[j] EXCEPT !.hook = h] ELSE todo[j]
<1>2. /\ UNCHANGED <<status, it, given, misrun>> /\ InUse
      /\ \A k \in 1..n : todo[k].hook # h
  BY DEF SetHandler
<1>3. n \in Nat /\ \A j \in 1..n : todo[j] \in Entry
  BY DEF TypeOK
<1>4. Listed(pool, given, todo)
  BY <1>2 DEF CleanupInv, InUse
<1>5. \A j \in 1..n : j \in F <=> todo[j].node = a
  <2>1. \A i, j \in 1..n : todo[i].node = a /\ todo[j].node = a => i = j
    BY <1>4 DEF Listed
  <2>2. \A j \in 1..n : j <= j
    BY <1>3
  <2> QED BY <2>1, <2>2 DEF FirstOf
<1>6. todo' = [j \in 1..n |-> e(j)]
  BY <1>1
<1> HIDE DEF F
<1>7. \A j \in 1..n :
        /\ e(j).done = todo[j].done
        /\ e(j).hook = IF j \in F THEN h ELSE todo[j].hook
  BY <1>3 DEF Entry
<1> HIDE DEF e
<1>8. /\ Len(todo') = n
      /\ \A j \in 1..n :
           /\ todo'[j].done = todo[j].done
           /\ todo'[j].hook = IF todo[j].node = a THEN h ELSE todo[j].hook
  BY <1>3, <1>5, <1>6, <1>7
<1>9. SlotsOf' = [j \in 1..n |-> IF todo'[j].done THEN NULL ELSE todo'[j].hook]
  BY <1>8 DEF SlotsOf
<1>10. CASE status = "handler"
  <2>1. \A j \in 1..n : todo'[j].hook = todo[j].hook
    BY <1>1, <1>8, <1>10
  <2>2. SlotsOf' = SlotsOf
    BY <1>8, <1>9, <2>1 DEF SlotsOf
  <2> QED BY <1>2, <2>2 DEF Abstract!absVars
<1>11. CASE status = "live"
  <2>1. PICK k \in 1..n : todo[k].node = a
    BY <1>11 DEF CleanupInv
  <2>2. todo[k].hook = NULL /\ \A j \in 1..n : todo[j].node = a <=> j = k
    BY <1>1, <1>4, <2>1 DEF Listed
  <2>3. \A j \in 1..n : ~todo[j].done
    <3>1. Passed(todo, 0) /\ \A j \in 1..n : j > 0
      BY <1>3, <1>11 DEF CleanupInv
    <3> QED BY <3>1 DEF Passed
  <2>4. /\ Len(SlotsOf) = n /\ SlotsOf = [j \in 1..n |-> todo[j].hook]
        /\ \A j \in 1..n : SlotsOf[j] = todo[j].hook
    BY <1>3, <2>3, SlotsAre DEF SlotsOf
  <2>5. \A j \in 1..n : SlotsOf'[j] = IF j = k THEN h ELSE SlotsOf[j]
    BY <1>8, <1>9, <2>2, <2>3, <2>4
  <2>6. SlotsOf' = [SlotsOf EXCEPT ![k] = h]
    BY <1>9, <2>4, <2>5
  <2>7. PhaseOf(status) = "open" /\ PhaseOf(status') = PhaseOf(status) /\ given' = given
    BY <1>2, <1>11, Phases
  <2>8. SlotsOf[k] = NULL /\ \A j \in 1..Len(SlotsOf) : SlotsOf[j] # h
    BY <1>2, <2>2, <2>4
  <2> QED BY <2>1, <2>4, <2>6, <2>7, <2>8 DEF Abstract!Register
<1> QED BY <1>2, <1>10, <1>11 DEF InUse

\* The handler the loop calls is the first one of the slots.
LEMMA CallRefines ==
  ASSUME TypeOK, TypeOK', CleanupInv, CallHandler
  PROVE  Abstract!Run
<1> DEFINE n == Len(todo)
           h == pool.cell[it].handler
           e(k) == [todo[k] EXCEPT !.done = @ \/ todo[k].hook = h]
<1>1. /\ status = "cleanup" /\ it # NULL /\ h # NULL /\ status' = "handler"
      /\ given' = given /\ todo' = [k \in 1..n |-> e(k)]
  BY DEF CallHandler
<1>2. n \in Nat /\ \A k \in 1..n : todo[k] \in Entry
  BY DEF TypeOK
<1>3. Listed(pool, given, todo)
  BY <1>1 DEF CleanupInv
<1>4. PICK p \in 0..n : it = NodeFrom(todo, p + 1) /\ Passed(todo, p)
  BY <1>1 DEF CleanupInv
<1> DEFINE m == p + 1
<1>5. m \in 1..n /\ it = todo[m].node
  BY <1>1, <1>2, <1>4 DEF NodeFrom
<1>6. h = todo[m].hook
  BY <1>3, <1>5 DEF Listed
<1> HIDE DEF h
<1>7. \A k \in 1..n : todo[k].hook = h <=> k = m
  BY <1>1, <1>3, <1>5, <1>6 DEF Listed
<1>8. \A k \in 1..n :
        /\ e(k).hook = todo[k].hook
        /\ e(k).done = (todo[k].done \/ todo[k].hook = h)
  BY <1>2 DEF Entry
<1> HIDE DEF e
<1>9. /\ Len(todo') = n
      /\ \A k \in 1..n : /\ todo'[k].hook = todo[k].hook
                         /\ todo'[k].done = (todo[k].done \/ k = m)
  BY <1>1, <1>2, <1>7, <1>8
<1>10. SlotsOf' = [k \in 1..n |-> IF todo'[k].done THEN NULL ELSE todo'[k].hook]
  BY <1>9 DEF SlotsOf
<1>11. /\ Len(SlotsOf) = n
       /\ SlotsOf = [k \in 1..n |-> IF todo[k].done THEN NULL ELSE todo[k].hook]
       /\ \A k \in 1..n : SlotsOf[k] = IF todo[k].done THEN NULL ELSE todo[k].hook
  BY SlotsAre DEF SlotsOf
<1>12. \A k \in 1..n : SlotsOf'[k] = IF k = m THEN NULL ELSE SlotsOf[k]
  BY <1>9, <1>10, <1>11
<1>13. SlotsOf' = [SlotsOf EXCEPT ![m] = NULL]
  BY <1>10, <1>11, <1>12
<1>14. SlotsOf[m] # NULL
  <2>1. m > p
    BY <1>4
  <2>2. ~todo[m].done
    BY <1>4, <1>5, <2>1 DEF Passed
  <2> QED BY <1>1, <1>5, <1>6, <1>11, <2>2
<1>15. \A j \in 1..(m - 1) : SlotsOf[j] = NULL
  <2>1. \A j \in 1..(m - 1) : j \in 1..n /\ j <= p
    BY <1>2, <1>4
  <2> QED BY <1>4, <1>11, <2>1 DEF Passed
<1>16. PhaseOf(status) = "closing" /\ PhaseOf(status') = "handler"
  BY <1>1, Phases
<1> HIDE DEF m, n
<1> QED BY <1>1, <1>5, <1>11, <1>13, <1>14, <1>15, <1>16 DEF Abstract!Run

\* Every step of a careful client's pool is one of the abstract pool, or none.
LEMMA StepRefines ==
  ASSUME SoundSizes, CarefulClient, TypeOK, TypeOK', MemoryInv, MemoryInv',
         CleanupInv, [Next]_vars
  PROVE  Abstract!AbsNext \/ UNCHANGED Abstract!absVars
<1> USE DEF Abstract!AbsNext
<1>d. Disjoint'
  BY DEF MemoryInv
<1>s. ASSUME todo' = todo PROVE SlotsOf' = SlotsOf
  BY <1>s DEF SlotsOf
<1>a. ASSUME NEW outcomes, Apply(outcomes) PROVE Abstract!Grant
  <2>1. InUse /\ UNCHANGED <<status, todo>> /\ given \subseteq given'
    BY <1>a DEF Apply
  <2> QED BY <1>d, <2>1, GrantRefines
<1>1. ASSUME NEW size \in PoolSizes, Create(size) PROVE Abstract!Open
  <2>1. size \in Nat /\ SizeofPool <= size /\ "create_fails" \notin Scenarios
    BY SizesAssumption DEF SoundSizes, CarefulClient
  <2>2. status = "none" /\ status' = "live" /\ UNCHANGED <<given, todo>>
    BY <1>1, <2>1, LayoutAssumption DEF Create
  <2> QED BY <1>s, <2>2, Phases DEF Abstract!Open
<1>2. CASE UseFailed
  BY <1>2 DEF UseFailed, CleanupInv
<1>3. ASSUME NEW size \in PallocSizes, Palloc(size) PROVE Abstract!Grant
  BY <1>a, <1>3 DEF Palloc
<1>4. ASSUME NEW size \in PnallocSizes, Pnalloc(size) PROVE Abstract!Grant
  BY <1>a, <1>4 DEF Pnalloc
<1>5. ASSUME NEW size \in PcallocSizes, Pcalloc(size) PROVE Abstract!Grant
  BY <1>a, <1>5 DEF Pcalloc
<1>6. ASSUME Pfree PROVE Abstract!Release \/ UNCHANGED Abstract!absVars
  <2>1. PICK r \in given :
          /\ r.kind \in {"client", "raw"}
          /\ given' = IF r.at \in Blocks(pool) THEN given ELSE given \ {r}
    BY <1>6 DEF Pfree
  <2>2. InUse /\ UNCHANGED <<status, todo>>
    BY <1>6 DEF Pfree
  <2>3. PhaseOf(status) \in {"open", "handler"} /\ SlotsOf' = SlotsOf
    BY <1>s, <2>2, Phases DEF InUse
  <2>4. CASE r.at \in Blocks(pool)
    BY <2>1, <2>2, <2>4, StutterRefines
  <2>5. CASE r.at \notin Blocks(pool)
    BY <2>1, <2>2, <2>3, <2>5 DEF Abstract!Release
  <2> QED BY <2>4, <2>5
<1>7. ASSUME ClientWrite PROVE UNCHANGED Abstract!absVars
  BY <1>7, StutterRefines DEF ClientWrite
<1>8. ASSUME NEW size \in CleanupSizes, CleanupAdd(size)
      PROVE  Abstract!Grant \/ Abstract!AddSlot
  BY <1>d, <1>8, AddRefines
<1>9. ASSUME NEW h \in Hook, SetHandler(h)
      PROVE  Abstract!Register(h) \/ UNCHANGED Abstract!absVars
  BY <1>9, SetHandlerRefines
<1>10. ASSUME ResetPool PROVE Abstract!Reset
  <2>1. status = "live" /\ LargeFreeable(pool)
    BY <1>10, SoundFreeable DEF ResetPool, TypeOK, Live, MemoryInv
  <2>2. status' = "live" /\ given' = {} /\ todo' = todo
    BY <1>10, <2>1 DEF ResetPool
  <2> QED BY <1>s, <2>1, <2>2, Phases DEF Abstract!Reset
<1>11. ASSUME BeginDestroy PROVE Abstract!Close
  <2>1. status = "live" /\ status' = "cleanup" /\ UNCHANGED <<given, todo>>
    BY <1>11 DEF BeginDestroy
  <2> QED BY <1>s, <2>1, Phases DEF Abstract!Close
<1>12. CASE LostNode
  BY <1>12, LoopAtNode DEF LostNode
<1>13. ASSUME SkipHandler PROVE UNCHANGED Abstract!absVars
  BY <1>13, StutterRefines DEF SkipHandler
<1>14. ASSUME CallHandler PROVE Abstract!Run
  BY <1>14, CallRefines
<1>15. ASSUME HandlerReturns PROVE Abstract!Return
  <2>1. status = "handler" /\ status' = "cleanup" /\ UNCHANGED <<given, todo>>
    BY <1>15 DEF HandlerReturns
  <2> QED BY <1>s, <2>1, Phases DEF Abstract!Return
<1>16. ASSUME FreeLarge PROVE Abstract!FreeSome
  <2>1. status = "cleanup" /\ it = NULL /\ LargeFreeable(pool)
    BY <1>16, SoundFreeable DEF FreeLarge, TypeOK, Live, MemoryInv
  <2>2. status' = "blocks" /\ todo' = todo /\ given' \subseteq given
    BY <1>16, <2>1 DEF FreeLarge
  <2>3. PICK n \in 0..Len(todo) : it = NodeFrom(todo, n + 1) /\ Passed(todo, n)
    BY <2>1 DEF CleanupInv
  <2>4. Len(todo) \in Nat /\ ~(n + 1 \in 1..Len(todo))
    <3>1. Listed(pool, given, todo)
      BY <2>1 DEF CleanupInv
    <3> QED BY <2>1, <2>3, <3>1 DEF NodeFrom, Listed, TypeOK
  <2>5. \A k \in 1..Len(todo) : k <= n
    BY <2>3, <2>4
  <2>6. \A k \in 1..Len(SlotsOf) : SlotsOf[k] = NULL
    BY <2>3, <2>5, SlotsAre DEF Passed
  <2> QED BY <1>s, <2>1, <2>2, <2>6, Phases DEF Abstract!FreeSome
<1>17. ASSUME FreeBlocks PROVE Abstract!FreeRest
  <2>1. status = "blocks" /\ status' = "destroyed" /\ given' = {} /\ todo' = todo
    BY <1>17 DEF FreeBlocks, MemoryInv, BlocksLeft
  <2> QED BY <1>s, <2>1, Phases DEF Abstract!FreeRest
<1>18. CASE DestroyAgain
  BY <1>18 DEF DestroyAgain, CarefulClient
<1>19. ASSUME UNCHANGED vars PROVE UNCHANGED Abstract!absVars
  BY <1>19, StutterRefines DEF vars
<1> QED
  BY <1>1, <1>2, <1>3, <1>4, <1>5, <1>6, <1>7, <1>8, <1>9, <1>10, <1>11, <1>12,
     <1>13, <1>14, <1>15, <1>16, <1>17, <1>18, <1>19
  DEF Next, DestroyStep, Ended

(***************************************************************************)
(* The class ngx_mem_pool implements AbstractPool: memory is granted only  *)
(* where nobody has any, it goes back only on demand, at a reset or after  *)
(* the last handler, and the handlers are called once, the newest first.   *)
(***************************************************************************)
THEOREM PoolImplementsAbstract ==
  ASSUME SoundSizes, CarefulClient
  PROVE  Spec => ImplementsAbstractPool
<1>1. Init => Abstract!AbsInit
  <2> SUFFICES ASSUME Init PROVE Abstract!AbsInit
    OBVIOUS
  <2>1. given = {} /\ PhaseOf(status) = "none" /\ todo = <<>>
    BY Phases DEF Init
  <2>2. SlotsOf = <<>>
    BY <2>1 DEF SlotsOf
  <2> QED BY <2>1, <2>2 DEF Abstract!AbsInit
<1>2. (TypeOK /\ MemoryInv /\ CleanupInv) /\ (TypeOK /\ MemoryInv /\ CleanupInv)'
        /\ [Next]_vars => [Abstract!AbsNext]_Abstract!absVars
  BY StepRefines
<1>3. Spec => [](TypeOK /\ MemoryInv /\ CleanupInv)
  BY CleanupInvariant
<1> QED BY <1>1, <1>2, <1>3, PTL DEF Spec, ImplementsAbstractPool, Abstract!AbsSpec
=============================================================================
