-------------------------------- MODULE Slab --------------------------------
(***************************************************************************)
(* The allocator of shared memory zones (core/ngx_slab.c) on a machine of  *)
(* small pages and words.  Its operations run under the zone's mutex (see  *)
(* Shmtx), so each one is a step.                                          *)
(*                                                                         *)
(*   slab, next, prev   the fields of ngx_slab_page_t, of the pages        *)
(*                      (numbers below Pages) and of the list heads        *)
(*   pfree, stat        pool->pfree, pool->stats[]: total and used         *)
(*   given              what the zone's users hold: [addr, size]           *)
(* slab is [kind, n, map]: a free block of n pages (NGX_SLAB_PAGE_FREE is  *)
(* n = 0), the start of n allocated pages, NGX_SLAB_PAGE_BUSY, or a page   *)
(* of chunks of 2^n bytes of which those in map are busy.  The bitmap of a *)
(* page of small chunks lies in its first chunks, which are busy then.     *)
(* prev is a pointer with the page's type in its low bits: [to, type].     *)
(***************************************************************************)
EXTENDS Integers, FiniteSets, FiniteSetsExt, Sequences

CONSTANTS
  PageShift,  \* ngx_pagesize_shift
  WordBits,   \* 8 * sizeof(uintptr_t)
  MinShift,   \* pool->min_shift
  Pages,      \* pages in the pool
  Sizes,      \* sizes asked for
  MaxGiven    \* bound: how many allocations are held at once

\* 1 << k
Pow2[k \in 0..PageShift] == IF k = 0 THEN 1 ELSE 2 * Pow2[k - 1]

PageSize == Pow2[PageShift]
MaxSize == PageSize \div 2
ExactSize == PageSize \div WordBits
Slots == 0..PageShift - MinShift - 1

ASSUME SlabAssumption ==
  /\ PageShift \in Nat /\ PageShift <= 16      \* a shift fits in NGX_SLAB_SHIFT_MASK
  /\ MinShift \in 0..PageShift - 1 /\ Pages \in Nat \ {0}
  /\ WordBits \in {Pow2[k] : k \in 1..PageShift}
  /\ Sizes \subseteq Nat /\ MaxGiven \in Nat

VARIABLES slab, next, prev, pfree, stat, given

slabVars == <<slab, next, prev, pfree, stat, given>>

NULL == -1
free == Pages                       \* &pool->free
SlotHead(i) == Pages + 1 + i        \* &slots[i]
Page == 0..Pages - 1
Node == Page \cup {free} \cup {SlotHead(i) : i \in Slots}

FreeBlock(n) == [kind |-> "free", n |-> n, map |-> {}]
Start(n) == [kind |-> "start", n |-> n, map |-> {}]
Busy == [kind |-> "busy", n |-> 0, map |-> {}]
ChunkPage(shift, map) == [kind |-> "chunks", n |-> shift, map |-> map]
Ptr(x, type) == [to |-> x, type |-> type]

\* The memory of the page list, as one value that the steps below transform.
Mem == [slab |-> slab, next |-> next, prev |-> prev, pfree |-> pfree]

\* prev->next = x->next; x->next->prev = x->prev
Unlink(s, x) ==
  [s EXCEPT !.next[s.prev[x].to] = s.next[x], !.prev[s.next[x]] = s.prev[x]]

-----------------------------------------------------------------------------
(* ngx_slab_alloc_pages                                                    *)

\* The first free block of at least n pages, or NULL.
FirstFit(s, n) ==
  LET walk[k \in 0..Pages] ==
        LET x == IF k = 0 THEN s.next[free] ELSE walk[k - 1]
        IN  IF k = 0 \/ x \in {free, NULL} \/ s.slab[x].n >= n THEN x ELSE s.next[x]
      x == walk[Pages]
  IN  IF x = free THEN NULL ELSE x

\* Mutated form of Split: the last page of the rest keeps its old prev.
Split_stale(s, x, n) ==
  LET rest == x + n
      t == [s EXCEPT !.slab[rest] = FreeBlock(s.slab[x].n - n),
                     !.next[rest] = s.next[x], !.prev[rest] = s.prev[x]]
  IN  [t EXCEPT !.next[s.prev[x].to] = rest, !.prev[s.next[x]] = Ptr(rest, "PAGE")]

\* The rest of the block takes its place in the list; the rest's last page is
\* made to point to its first.
Split(s, x, n) ==
  LET rest == x + n
      t == [s EXCEPT !.prev[x + s.slab[x].n - 1] = Ptr(rest, "PAGE")]
      u == [t EXCEPT !.slab[rest] = FreeBlock(s.slab[x].n - n),
                     !.next[rest] = t.next[x], !.prev[rest] = t.prev[x]]
  IN  [u EXCEPT !.next[u.prev[x].to] = rest, !.prev[u.next[x]] = Ptr(rest, "PAGE")]

\* The first n pages of the free block x are taken.
TakePages(s, x, n) ==
  LET t == IF s.slab[x].n > n THEN Split(s, x, n) ELSE Unlink(s, x)
      T == x..x + n - 1
  IN  [slab |-> [y \in Page |-> IF y = x THEN Start(n) ELSE IF y \in T THEN Busy ELSE t.slab[y]],
       next |-> [y \in Node |-> IF y \in T THEN NULL ELSE t.next[y]],
       prev |-> [y \in Node |-> IF y \in T THEN Ptr(NULL, "PAGE") ELSE t.prev[y]],
       pfree |-> t.pfree - n]

-----------------------------------------------------------------------------
(* ngx_slab_free_pages                                                     *)

\* x becomes the inner page of a free block.
Absorb(s, x) ==
  [s EXCEPT !.slab[x] = FreeBlock(0), !.next[x] = NULL, !.prev[x] = Ptr(NULL, "PAGE")]

\* The n pages at x are marked free, and x leaves its slot's list.
MarkFree(s, x, n) ==
  LET T == x + 1..x + n - 1
      t == [slab |-> [y \in Page |-> IF y = x THEN FreeBlock(n)
                                     ELSE IF y \in T THEN FreeBlock(0) ELSE s.slab[y]],
            next |-> [y \in Node |-> IF y \in T THEN NULL ELSE s.next[y]],
            prev |-> [y \in Node |-> IF y \in T THEN Ptr(NULL, "PAGE") ELSE s.prev[y]],
            pfree |-> s.pfree + n]
  IN  IF t.next[x] # NULL THEN Unlink(t, x) ELSE t

\* A free block right after the pages at x is joined to them.
JoinNext(s, x) ==
  LET j == x + s.slab[x].n
  IN  IF j < Pages /\ s.prev[j].type = "PAGE" /\ s.next[j] # NULL
      THEN Absorb(Unlink([s EXCEPT !.slab[x].n = @ + s.slab[j].n], j), j)
      ELSE s

\* The block that ends right before x: its last page, unless it is the first
\* one too, points to the first.
Before(s, x) ==
  LET j == x - 1
  IN  IF s.slab[j] = FreeBlock(0) THEN s.prev[j].to ELSE j

\* Is the block before x on a list, that is: free?
JoinsPrevious(s, x) ==
  x > 0 /\ s.prev[x - 1].type = "PAGE" /\ s.next[Before(s, x)] # NULL

PushFree(s, x) ==
  LET last == x + s.slab[x].n - 1
      t == IF last # x THEN [s EXCEPT !.prev[last] = Ptr(x, "PAGE")] ELSE s
      u == [t EXCEPT !.prev[x] = Ptr(free, "PAGE"), !.next[x] = t.next[free]]
  IN  [u EXCEPT !.prev[u.next[x]] = Ptr(x, "PAGE"), !.next[free] = x]

FreePages(s, x, n) ==
  LET t == JoinNext(MarkFree(s, x, n), x)
      b == Before(t, x)
  IN  IF JoinsPrevious(t, x)
      THEN PushFree(Absorb(Unlink([t EXCEPT !.slab[b].n = @ + t.slab[x].n], b), x), b)
      ELSE PushFree(t, x)

-----------------------------------------------------------------------------
(* Chunks                                                                  *)

\* The smallest shift, not below min_shift, whose chunks hold size bytes.
Shift(size) ==
  CHOOSE k \in MinShift..PageShift :
    Pow2[k] >= size /\ \A j \in MinShift..k - 1 : Pow2[j] < size

ExactShift == CHOOSE k \in 0..PageShift : Pow2[k] = ExactSize

TypeOf(shift) ==
  IF shift < ExactShift THEN "SMALL" ELSE IF shift = ExactShift THEN "EXACT" ELSE "BIG"

Chunks(shift) == Pow2[PageShift - shift]

\* Mutated form of BitmapChunks: a bitmap smaller than a chunk takes none.
BitmapChunks_none(shift) ==
  IF shift >= ExactShift THEN 0 ELSE Chunks(shift) \div (Pow2[shift] * 8)

\* The chunks the bitmap of a page of small chunks takes.
BitmapChunks(shift) ==
  IF shift >= ExactShift THEN 0
  ELSE LET n == Chunks(shift) \div (Pow2[shift] * 8) IN IF n = 0 THEN 1 ELSE n

\* What (b << n) - 1, for b = 1 or 2, is in one word, as the set of its bits.  A
\* shift by the width of the word or more is undefined: the machine shifts by the
\* rest, or everything out.
LowBits(b, n) ==
  IF n < WordBits THEN {0..n + b - 2}
  ELSE {0..(n % WordBits) + b - 2, 0..WordBits - 1}

\* No bitmap has to mark itself in more than its first word.
OneWord == \A shift \in MinShift..PageShift - 1 : BitmapChunks(shift) < WordBits

Give(addr, size) == given' = given \cup {[addr |-> addr, size |-> size]}

Store(s) == slab' = s.slab /\ next' = s.next /\ prev' = s.prev /\ pfree' = s.pfree

Room == Cardinality(given) < MaxGiven

PagesFor(size) == (size \div PageSize) + (IF size % PageSize # 0 THEN 1 ELSE 0)

\* Sizes above ngx_slab_max_size get pages of their own.
AllocPages(size) ==
  /\ size > MaxSize /\ Room
  /\ LET n == PagesFor(size)
         x == FirstFit(Mem, n)
     IN  /\ x # NULL
         /\ Store(TakePages(Mem, x, n))
         /\ Give(x * PageSize, size)
  /\ UNCHANGED stat

Full(shift, map) == Cardinality(map) = Chunks(shift)

\* Mutated form of Delist: the type bits are cleared with the pointer.
Delist_untyped(s, x, shift) ==
  [Unlink(s, x) EXCEPT !.next[x] = NULL, !.prev[x] = Ptr(NULL, "PAGE")]

\* A page without a free chunk leaves its slot's list and keeps its type.
Delist(s, x, shift) ==
  [Unlink(s, x) EXCEPT !.next[x] = NULL, !.prev[x] = Ptr(NULL, TypeOf(shift))]

\* The first page of the slot's list has a free chunk.
AllocFromSlot(size) ==
  LET shift == Shift(size)
      slot == shift - MinShift
      x == next[SlotHead(slot)]
  IN  /\ size <= MaxSize /\ Room /\ x # SlotHead(slot)
      /\ LET i == Min((0..Chunks(shift) - 1) \ slab[x].map)
             s == [Mem EXCEPT !.slab[x].map = @ \cup {i}]
         IN  /\ Store(IF Full(shift, s.slab[x].map) THEN Delist(s, x, shift) ELSE s)
             /\ Give(x * PageSize + i * Pow2[shift], size)
      /\ stat' = [stat EXCEPT ![slot].used = @ + 1]

\* No page of the slot has a free chunk: a new one is started.
AllocNewSlotPage(size) ==
  LET shift == Shift(size)
      slot == shift - MinShift
      h == SlotHead(slot)
      x == FirstFit(Mem, 1)
      n == BitmapChunks(shift)
  IN  /\ size <= MaxSize /\ Room /\ next[h] = h /\ x # NULL
      /\ \E map \in LowBits(2, n) :
           LET s == TakePages(Mem, x, 1)
           IN  Store([s EXCEPT !.slab[x] = ChunkPage(shift, map), !.next[x] = h,
                               !.prev[x] = Ptr(h, TypeOf(shift)), !.next[h] = x])
      /\ Give(x * PageSize + n * Pow2[shift], size)
      /\ stat' = [stat EXCEPT ![slot].total = @ + Chunks(shift) - n, ![slot].used = @ + 1]

-----------------------------------------------------------------------------
(* ngx_slab_free_locked                                                    *)

\* Mutated form of Relist: a page that was full stays off its list.
Relist_never(s, x, h, type) == s

\* A page that was full joins its slot's list again.
Relist(s, x, h, type) ==
  IF s.next[x] # NULL THEN s
  ELSE LET t == [s EXCEPT !.next[x] = s.next[h], !.next[h] = x, !.prev[x] = Ptr(h, type)]
       IN  [t EXCEPT !.prev[t.next[x]] = Ptr(x, type)]

\* One chunk less is used, and gone chunks less are there.
CountFree(slot, gone) == [stat EXCEPT ![slot].used = @ - 1, ![slot].total = @ - gone]

\* A chunk is freed, and its page with it when no other chunk of it is busy.
FreeChunk(g) ==
  LET x == g.addr \div PageSize
      shift == slab[x].n
      slot == shift - MinShift
      n == BitmapChunks(shift)
      i == (g.addr % PageSize) \div Pow2[shift]
      s == [Relist(Mem, x, SlotHead(slot), TypeOf(shift)) EXCEPT !.slab[x].map = @ \ {i}]
  IN  /\ prev[x].type # "PAGE" /\ i \in slab[x].map
      /\ \E mask \in LowBits(1, n) :
           LET last == s.slab[x].map \subseteq mask
           IN  /\ Store(IF last THEN FreePages(s, x, 1) ELSE s)
               /\ stat' = CountFree(slot, IF last THEN Chunks(shift) - n ELSE 0)
      /\ given' = given \ {g}

FreePagesOf(g) ==
  LET x == g.addr \div PageSize
  IN  /\ prev[x].type = "PAGE" /\ slab[x].kind = "start"
      /\ Store(FreePages(Mem, x, slab[x].n))
      /\ given' = given \ {g} /\ UNCHANGED stat

-----------------------------------------------------------------------------
\* ngx_slab_init
SlabInit ==
  /\ slab = [x \in Page |-> FreeBlock(IF x = 0 THEN Pages ELSE 0)]
  /\ next = [x \in Node |-> IF x = 0 THEN free ELSE IF x = free THEN 0
                            ELSE IF x \in Page THEN NULL ELSE x]
  /\ prev = [x \in Node |-> Ptr(IF x = 0 THEN free ELSE NULL, "PAGE")]
  /\ pfree = Pages /\ stat = [i \in Slots |-> [total |-> 0, used |-> 0]]
  /\ given = {}

SlabNext ==
  \/ \E size \in Sizes :
       AllocPages(size) \/ AllocFromSlot(size) \/ AllocNewSlotPage(size)
  \/ \E g \in given : FreeChunk(g) \/ FreePagesOf(g)

SlabSpec == SlabInit /\ [][SlabNext]_slabVars

-----------------------------------------------------------------------------
(* Properties.                                                             *)

Bytes(g) == g.addr..g.addr + g.size - 1

\* The bytes of x's bitmap, if its chunks are small.
BitmapBytes(x) ==
  IF slab[x].kind = "chunks" /\ slab[x].n < ExactShift
  THEN x * PageSize..x * PageSize + (Chunks(slab[x].n) \div 8) - 1 ELSE {}

\* No two users hold the same byte, none holds a byte of a bitmap, and all is
\* inside the pool.
GivenDisjoint ==
  \A g \in given :
    /\ Bytes(g) \subseteq 0..Pages * PageSize - 1
    /\ \A x \in Page : Bytes(g) \cap BitmapBytes(x) = {}
    /\ \A h \in given : h # g => Bytes(g) \cap Bytes(h) = {}

\* What has been given out can be freed again: ngx_slab_free finds the page, its
\* type and the chunk, and never logs "already free" or a wrong chunk or page.
FreeAccepts ==
  \A g \in given :
    LET x == g.addr \div PageSize
    IN  IF prev[x].type = "PAGE"
        THEN slab[x].kind = "start" /\ g.addr % PageSize = 0
        ELSE /\ slab[x].kind = "chunks" /\ prev[x].type = TypeOf(slab[x].n)
             /\ g.addr % Pow2[slab[x].n] = 0
             /\ (g.addr % PageSize) \div Pow2[slab[x].n] \in slab[x].map

\* The nodes of a list, in order, up to its head.
Listed(h) ==
  LET w[k \in 0..Pages + 1] ==
        IF k = 0 THEN <<next[h]>>
        ELSE LET v == w[k - 1]
                 x == v[Len(v)]
             IN  IF x \in {h, NULL} THEN v ELSE Append(v, next[x])
      all == w[Pages + 1]
  IN  SubSeq(all, 1, Len(all) - 1)

ListedSet(h) == {Listed(h)[i] : i \in DOMAIN Listed(h)}

FreePagesAt(x) == IF slab[x].kind = "free" THEN x..x + slab[x].n - 1 ELSE {}

\* The free list holds the free pages, each in one block; the last page of a
\* block leads to its first (what a join with the block before relies on); and
\* no two blocks are next to each other.  So pages are found whenever enough of
\* them are free in a row.
FreeListRight ==
  LET B == ListedSet(free)
  IN  /\ \A x \in B : x \in Page /\ slab[x].kind = "free" /\ slab[x].n > 0
      /\ UNION {FreePagesAt(x) : x \in B} = {x \in Page : slab[x].kind = "free"}
      /\ pfree = Cardinality({x \in Page : slab[x].kind = "free"})
      /\ \A n \in 1..Pages : FirstFit(Mem, n) = NULL =>
           \A x \in 0..Pages - n : \E y \in x..x + n - 1 : slab[y].kind # "free"
      /\ \A x \in B : /\ x + slab[x].n \notin B
                      /\ slab[x].n > 1 /\ x + slab[x].n < Pages =>
                           prev[x + slab[x].n - 1] = Ptr(x, "PAGE")

\* A slot's list holds the pages of its chunks that have a free one, and its
\* statistics count what users hold and what its pages offer.
SlotListsRight ==
  \A i \in Slots :
    LET shift == i + MinShift
        its == {x \in Page : slab[x].kind = "chunks" /\ slab[x].n = shift}
    IN  /\ ListedSet(SlotHead(i)) = {x \in its : Cardinality(slab[x].map) < Chunks(shift)}
        /\ stat[i].used = Cardinality({g \in given : g.size <= MaxSize /\ Shift(g.size) = shift})
        /\ stat[i].total = Cardinality(its) * (Chunks(shift) - BitmapChunks(shift))
=============================================================================
