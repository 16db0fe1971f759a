----------------------------- MODULE SlabProofs -----------------------------
(***************************************************************************)
(* Proofs about Slab, for every page size and word size for which a bitmap *)
(* marks itself in its first word (OneWord: pages of 4K to 16K with chunks *)
(* of 8 bytes on a machine of 64 bits, not pages of 64K), for every number *)
(* of pages and every set of sizes asked for.                              *)
(*                                                                         *)
(* The inductive invariant SlabIInv says how the pages are laid out        *)
(* (Layout: blocks of free pages that are never adjacent, blocks of        *)
(* allocated ones), what the fields of a page that is on no list hold      *)
(* (Marks), that next and prev of the others are the doubly linked lists   *)
(* of the heads (Chain), where what users hold lies in the pages           *)
(* (GivenRight) and what the counters count (CountsRight).  A list is      *)
(* described without a walk along it: each listed page has a head, its     *)
(* home, its neighbours have the same, and some rank grows from a page to  *)
(* the next.  That the walks of the code then meet exactly the pages of a  *)
(* home is ListPath.                                                       *)
(***************************************************************************)
EXTENDS Slab, DataLemmas

Heads == {free} \cup {SlotHead(i) : i \in Slots}
Types == {"PAGE", "SMALL", "EXACT", "BIG"}
SlabRecord == [kind : {"free", "start", "busy", "chunks"}, n : Nat, map : SUBSET Nat]
Pointer == [to : Node \cup {NULL}, type : Types]
Memory == [slab : [Page -> SlabRecord], next : [Node -> Node \cup {NULL}],
           prev : [Node -> Pointer], pfree : Int]

\* The type bits of the pages of a list.
HeadType(h) == IF h = free THEN "PAGE" ELSE TypeOf(h - Pages - 1 + MinShift)

\* The list a page of this content is on, or NULL.
Home(p) ==
  IF p.kind = "free" /\ p.n > 0 THEN free
  ELSE IF p.kind = "chunks" /\ ~Full(p.n, p.map) THEN SlotHead(p.n - MinShift)
  ELSE NULL

Homes(sl) == [x \in Page |-> Home(sl[x])]

\* x's neighbours are its list's, and point back to it.
InList(nx, pv, home, r, x) ==
  /\ \/ nx[x] = home[x]
     \/ nx[x] \in Page /\ home[nx[x]] = home[x] /\ pv[nx[x]].to = x /\ r[x] < r[nx[x]]
  /\ pv[x].to = home[x] \/ (pv[x].to \in Page /\ home[pv[x].to] = home[x])
  /\ nx[pv[x].to] = x
  /\ pv[x].type = HeadType(home[x])

Chain(nx, pv, home, r) ==
  /\ \A x \in Page : home[x] # NULL => InList(nx, pv, home, r, x)
  /\ \A h \in Heads : nx[h] = h \/ (nx[h] \in Page /\ home[nx[h]] = h /\ pv[nx[h]].to = h)

Chained(nx, pv, home) == \E r \in [Page -> Int] : Chain(nx, pv, home, r)

FreeStart(p) == p.kind = "free" /\ p.n > 0

\* Where a page's content says its block ends, there is a block.
Block(sl, x) ==
  /\ FreeStart(sl[x]) => /\ x + sl[x].n <= Pages
                         /\ \A y \in x + 1..x + sl[x].n - 1 : sl[y] = FreeBlock(0)
  /\ sl[x].kind = "free" /\ sl[x].n = 0 =>
       \E y \in 0..x - 1 : FreeStart(sl[y]) /\ x < y + sl[y].n
  /\ sl[x].kind = "start" => /\ sl[x].n > 0 /\ x + sl[x].n <= Pages
                             /\ \A y \in x + 1..x + sl[x].n - 1 : sl[y] = Busy
  /\ sl[x].kind = "chunks" => /\ sl[x].n \in MinShift..PageShift - 1
                              /\ sl[x].map \subseteq 0..Chunks(sl[x].n) - 1
                              /\ 0..BitmapChunks(sl[x].n) - 1 \subseteq sl[x].map
  /\ sl[x].kind # "chunks" => sl[x].map = {}

\* No free block right after the one at x.
Apart(sl, x) == x + sl[x].n < Pages => sl[x + sl[x].n].kind # "free"

\* The last page of a free block leads to its first.
LastLeads(s, x) ==
  s.slab[x].n > 1 /\ x + s.slab[x].n < Pages => s.prev[x + s.slab[x].n - 1] = Ptr(x, "PAGE")

\* The fields of a page but for what its list says.
Mark(s, x) ==
  /\ Home(s.slab[x]) = NULL => s.next[x] = NULL
  /\ s.prev[x].type = IF s.slab[x].kind = "chunks" THEN TypeOf(s.slab[x].n) ELSE "PAGE"

Layout(sl) == \A x \in Page : Block(sl, x) /\ (FreeStart(sl[x]) => Apart(sl, x))

Marks(s) == \A x \in Page : Mark(s, x) /\ (FreeStart(s.slab[x]) => LastLeads(s, x))

Good(s) ==
  /\ s \in Memory /\ Layout(s.slab) /\ Marks(s)
  /\ Chained(s.next, s.prev, Homes(s.slab))

FreeSet(sl) == {x \in Page : sl[x].kind = "free"}

\* g is the start of pages of its own, or a chunk beyond its page's bitmap.
HeldPages(g, x) == /\ g.size > MaxSize /\ x \in Page /\ g.addr = x * PageSize
                   /\ slab[x].kind = "start" /\ slab[x].n = PagesFor(g.size)

HeldChunk(g, x, i) ==
  /\ g.size <= MaxSize /\ x \in Page /\ slab[x].kind = "chunks"
  /\ slab[x].n = Shift(g.size) /\ i \in slab[x].map /\ i >= BitmapChunks(slab[x].n)
  /\ g.addr = x * PageSize + i * Pow2[slab[x].n]

GivenRight ==
  /\ IsFiniteSet(given) /\ given \subseteq [addr : Nat, size : Nat]
  /\ \A g \in given : (\E x \in Page : HeldPages(g, x)) \/ \E x \in Page, i \in Nat : HeldChunk(g, x, i)
  /\ \A g, h \in given : g.addr = h.addr => g = h

Offered(i) == {x \in Page : slab[x].kind = "chunks" /\ slab[x].n = i + MinShift}
Users(i) == {g \in given : g.size <= MaxSize /\ Shift(g.size) = i + MinShift}

CountsRight ==
  /\ pfree = Cardinality(FreeSet(slab))
  /\ stat \in [Slots -> [total : Int, used : Int]]
  /\ \A i \in Slots :
       /\ stat[i].used = Cardinality(Users(i))
       /\ stat[i].total = Cardinality(Offered(i)) *
                            (Chunks(i + MinShift) - BitmapChunks(i + MinShift))

SlabIInv == Good(Mem) /\ GivenRight /\ CountsRight

-----------------------------------------------------------------------------
(* Powers of two, and the numbers the code computes from them.             *)

\* Pow2 follows its recursion: there is a function that does.
LEMMA Pow2Def ==
  /\ Pow2 = [k \in 0..PageShift |-> IF k = 0 THEN 1 ELSE 2 * Pow2[k - 1]]
  /\ Pow2[0] = 1
<1> DEFINE Is(f, n) == f = [k \in 0..n |-> IF k = 0 THEN 1 ELSE 2 * f[k - 1]]
           Bad == {n \in 0..PageShift : ~\E f : Is(f, n)}
<1>0. PageShift \in Nat
  BY SlabAssumption
<1>1. Bad = {}
  <2> SUFFICES ASSUME Bad # {} PROVE FALSE
    OBVIOUS
  <2>1. PICK n \in Bad : \A k \in Bad : n <= k
    <3>1. Bad \in SUBSET Nat
      BY <1>0
    <3> QED BY <3>1, LeastNat
  <2>2. n \in Nat /\ n <= PageShift /\ ~\E f : Is(f, n)
    BY <1>0
  <2>3. n # 0
    <3>1. Is([k \in 0..0 |-> 1], 0)
      OBVIOUS
    <3> QED BY <3>1, <2>2
  <2>4. PICK f : Is(f, n - 1)
    <3>1. n - 1 \in 0..PageShift /\ ~(n <= n - 1)
      BY <2>2, <2>3, <1>0
    <3>2. n - 1 \notin Bad
      <4> HIDE DEF Bad
      <4> QED BY <2>1, <3>1
    <3> QED BY <3>1, <3>2
  <2> DEFINE g == [k \in 0..n |-> IF k = n THEN 2 * f[n - 1] ELSE f[k]]
  <2>5. Is(g, n)
    <3>1. ASSUME NEW k \in 0..n PROVE g[k] = IF k = 0 THEN 1 ELSE 2 * g[k - 1]
      <4>1. CASE k = n
        BY <4>1, <2>2, <2>3
      <4>2. CASE k # n
        <5>1. k \in 0..n - 1 /\ g[k] = f[k]
          BY <4>2, <2>2
        <5>2. f[k] = IF k = 0 THEN 1 ELSE 2 * f[k - 1]
          BY <5>1, <2>4
        <5>3. k # 0 => k - 1 \in 0..n /\ k - 1 # n
          BY <5>1, <2>2
        <5> QED BY <5>1, <5>2, <5>3
      <4> QED BY <4>1, <4>2
    <3> QED BY <3>1
  <2> QED BY <2>2, <2>5
<1>2. \E f : Is(f, PageShift)
  <2>1. PageShift \in 0..PageShift
    BY <1>0
  <2>2. PageShift \notin Bad
    BY <1>1
  <2> QED BY <2>1, <2>2
<1>3. Is(Pow2, PageShift)
  BY <1>2 DEF Pow2
<1> QED BY <1>0, <1>3

\* Powers of two are positive, and each is twice the one before.
LEMMA Pow2Type ==
  /\ PageShift \in Nat
  /\ \A k \in 0..PageShift : Pow2[k] \in Nat /\ Pow2[k] > 0
  /\ \A k \in 1..PageShift : Pow2[k] = 2 * Pow2[k - 1]
<1> DEFINE Bad == {k \in 0..PageShift : ~(Pow2[k] \in Nat /\ Pow2[k] > 0)}
<1>0. PageShift \in Nat
  BY SlabAssumption
<1>1. \A k \in 1..PageShift : Pow2[k] = 2 * Pow2[k - 1]
  <2>1. \A k \in 1..PageShift : k \in 0..PageShift /\ k # 0
    BY <1>0
  <2> QED BY <2>1, Pow2Def
<1>2. Bad = {}
  <2> SUFFICES ASSUME Bad # {} PROVE FALSE
    OBVIOUS
  <2>0. Bad \in SUBSET Nat
    BY <1>0
  <2>1. PICK n \in Bad : \A k \in Bad : n <= k
    BY <2>0, LeastNat
  <2>2. n # 0
    BY Pow2Def
  <2>3. n \in 1..PageShift /\ n - 1 \in 0..PageShift /\ n - 1 \notin Bad
    BY <1>0, <2>1, <2>2
  <2>4. Pow2[n] = 2 * Pow2[n - 1] /\ Pow2[n - 1] \in Nat /\ Pow2[n - 1] > 0
    BY <1>1, <2>3
  <2>5. Pow2[n] \in Nat /\ Pow2[n] > 0
    BY <2>4
  <2> QED BY <2>5
<1> QED BY <1>0, <1>1, <1>2

\* 1 << a + b is 1 << a times 1 << b.
LEMMA Pow2Sum ==
  ASSUME NEW a \in Nat, NEW b \in Nat, a + b <= PageShift
  PROVE  Pow2[a + b] = Pow2[a] * Pow2[b]
<1> DEFINE Bad == {c \in 0..b : Pow2[a + c] # Pow2[a] * Pow2[c]}
<1>1. Bad = {}
  <2> SUFFICES ASSUME Bad # {} PROVE FALSE
    OBVIOUS
  <2>0. Bad \in SUBSET Nat
    OBVIOUS
  <2>1. PICK c \in Bad : \A k \in Bad : c <= k
    BY <2>0, LeastNat
  <2>2. a \in 0..PageShift /\ Pow2[a] \in Nat
    BY Pow2Type
  <2>3. c # 0
    <3>1. Pow2[a + 0] = Pow2[a] * Pow2[0]
      BY <2>2, Pow2Def
    <3> QED BY <3>1
  <2>4. c - 1 \in 0..b /\ c - 1 \notin Bad /\ c \in 1..PageShift /\ a + c \in 1..PageShift
    BY <2>1, <2>3, Pow2Type
  <2>5. Pow2[a + (c - 1)] = Pow2[a] * Pow2[c - 1]
    BY <2>4
  <2>6. Pow2[c] = 2 * Pow2[c - 1] /\ Pow2[a + c] = 2 * Pow2[(a + c) - 1]
    BY <2>4, Pow2Type
  <2>7. (a + c) - 1 = a + (c - 1) /\ c - 1 \in 0..PageShift
    BY <2>4, Pow2Type
  <2>8. Pow2[c - 1] \in Nat
    BY <2>7, Pow2Type
  <2>9. Pow2[a + c] = Pow2[a] * Pow2[c]
    BY <2>2, <2>5, <2>6, <2>7, <2>8
  <2> QED BY <2>9
<1>2. b \in 0..b
  OBVIOUS
<1> QED BY <1>1, <1>2

\* A larger shift gives more.
LEMMA Pow2Less ==
  ASSUME NEW a \in Nat, NEW b \in Nat, a < b, b <= PageShift
  PROVE  2 * Pow2[a] <= Pow2[b]
<1>1. b - a \in Nat /\ b - a \in 1..PageShift /\ (b - a) - 1 \in 0..PageShift
      /\ a \in 0..PageShift /\ a + (b - a) = b
  BY Pow2Type
<1>2. Pow2[b] = Pow2[a] * Pow2[b - a]
  BY <1>1, Pow2Sum
<1>3. Pow2[b - a] = 2 * Pow2[(b - a) - 1] /\ Pow2[(b - a) - 1] \in Nat /\ Pow2[(b - a) - 1] > 0
      /\ Pow2[a] \in Nat
  BY <1>1, Pow2Type
<1>4. Pow2[b - a] >= 2 /\ Pow2[b - a] \in Nat
  BY <1>3
<1>5. \A p, q \in Nat : q >= 2 => 2 * p <= p * q
  OBVIOUS
<1> QED BY <1>2, <1>3, <1>4, <1>5

\* Quotients and remainders of the addresses the code takes apart.
LEMMA DivMod ==
  ASSUME NEW P \in Nat, P > 0, NEW x \in Nat, NEW r \in Nat, r < P
  PROVE  (x * P + r) \div P = x /\ (x * P + r) % P = r
OBVIOUS

\* A product of smaller numbers.
LEMMA Monotone ==
  ASSUME NEW P \in Nat, NEW x \in Int, NEW y \in Int, x < y
  PROVE  x * P + P <= y * P
OBVIOUS

\* The page size and ngx_slab_max_size.
LEMMA PageSizeType ==
  /\ PageShift \in Nat /\ PageShift >= 1 /\ MinShift \in Nat /\ MinShift < PageShift
  /\ Pages \in Nat /\ Pages > 0
  /\ PageSize \in Nat /\ PageSize > 0
  /\ MaxSize \in Nat /\ PageSize = 2 * MaxSize /\ MaxSize = Pow2[PageShift - 1]
<1>1. PageShift \in Nat /\ PageShift >= 1 /\ MinShift \in Nat /\ MinShift < PageShift
      /\ Pages \in Nat /\ Pages > 0
  BY SlabAssumption
<1>2. PageShift \in 1..PageShift /\ PageShift - 1 \in 0..PageShift
  BY <1>1
<1>3. PageSize = 2 * Pow2[PageShift - 1] /\ Pow2[PageShift - 1] \in Nat
      /\ Pow2[PageShift - 1] > 0
  BY <1>2, Pow2Type DEF PageSize
<1>4. \A m \in Nat : (2 * m) \div 2 = m
  OBVIOUS
<1> QED BY <1>1, <1>3, <1>4 DEF MaxSize

\* The exact shift is that of the chunks of which a page has a word's bits.
LEMMA ExactShiftType == ExactShift \in Nat /\ ExactShift < PageShift
<1>1. PICK w \in 1..PageShift : WordBits = Pow2[w]
  BY SlabAssumption
<1>2. w \in Nat /\ w >= 1 /\ PageShift - w \in Nat /\ PageShift - w \in 0..PageShift
      /\ (PageShift - w) + w = PageShift /\ w \in 0..PageShift
  BY Pow2Type
<1>3. PageSize = Pow2[PageShift - w] * Pow2[w]
  BY <1>2, Pow2Sum DEF PageSize
<1>4. Pow2[PageShift - w] \in Nat /\ Pow2[w] \in Nat /\ Pow2[w] > 0
  BY <1>2, Pow2Type
<1>5. ExactSize = Pow2[PageShift - w]
  <2>1. (Pow2[PageShift - w] * Pow2[w] + 0) \div Pow2[w] = Pow2[PageShift - w]
    BY <1>4, DivMod
  <2> QED BY <1>1, <1>3, <1>4, <2>1 DEF ExactSize
<1>6. ExactShift \in 0..PageShift /\ Pow2[ExactShift] = Pow2[PageShift - w]
  BY <1>2, <1>5 DEF ExactShift
<1>7. ~(PageShift - w < ExactShift)
  <2> SUFFICES ASSUME PageShift - w < ExactShift PROVE FALSE
    OBVIOUS
  <2>1. ExactShift \in Nat /\ ExactShift <= PageShift
    BY <1>6, Pow2Type
  <2>2. 2 * Pow2[PageShift - w] <= Pow2[ExactShift]
    BY <1>2, <2>1, Pow2Less
  <2>3. Pow2[PageShift - w] > 0
    BY <1>2, Pow2Type
  <2> QED BY <1>4, <1>6, <2>2, <2>3
<1> QED BY <1>2, <1>6, <1>7, Pow2Type

\* Sizes up to ngx_slab_max_size have a shift below the page's, whose chunks
\* hold them.
LEMMA ShiftType ==
  ASSUME NEW size \in Nat, size <= MaxSize
  PROVE  /\ Shift(size) \in MinShift..PageShift - 1
         /\ Pow2[Shift(size)] \in Nat /\ size <= Pow2[Shift(size)]
<1> DEFINE S == {k \in MinShift..PageShift : Pow2[k] >= size}
<1>1. PageShift - 1 \in S /\ S \in SUBSET Nat
  BY PageSizeType
<1>2. PICK m \in S : \A k \in S : m <= k
  BY <1>1, LeastNat
<1>3. m \in MinShift..PageShift - 1
  BY <1>1, <1>2, PageSizeType
<1>4. \A j \in MinShift..m - 1 : Pow2[j] < size
  <2> SUFFICES ASSUME NEW j \in MinShift..m - 1 PROVE Pow2[j] < size
    OBVIOUS
  <2>1. j \in 0..PageShift /\ j \in MinShift..PageShift /\ j < m
    BY <1>3, PageSizeType
  <2>2. Pow2[j] \in Nat
    BY <2>1, Pow2Type
  <2>3. j \notin S
    BY <1>2, <2>1, PageSizeType
  <2> QED BY <2>1, <2>2, <2>3
<1>5. \E k \in MinShift..PageShift :
        Pow2[k] >= size /\ \A j \in MinShift..k - 1 : Pow2[j] < size
  BY <1>2, <1>4
<1>6. /\ Shift(size) \in MinShift..PageShift /\ Pow2[Shift(size)] >= size
      /\ \A j \in MinShift..Shift(size) - 1 : Pow2[j] < size
  BY <1>5 DEF Shift
<1>7. Shift(size) # PageShift
  <2> SUFFICES ASSUME Shift(size) = PageShift PROVE FALSE
    OBVIOUS
  <2>1. m \in MinShift..Shift(size) - 1
    BY <1>3
  <2>2. Pow2[m] < size /\ Pow2[m] >= size
    BY <2>1, <1>2, <1>6
  <2>3. Pow2[m] \in Nat
    BY <1>3, Pow2Type, PageSizeType
  <2> QED BY <2>2, <2>3
<1>8. Shift(size) \in MinShift..PageShift - 1 /\ Shift(size) \in 0..PageShift
  BY <1>6, <1>7, PageSizeType
<1> QED BY <1>6, <1>8, Pow2Type

\* The chunks of a page fill it; its bitmap leaves more than one of them.
LEMMA ChunkFacts ==
  ASSUME NEW k \in MinShift..PageShift - 1
  PROVE  /\ k \in Nat /\ k < PageShift /\ Pow2[k] \in Nat /\ Pow2[k] > 0
         /\ Chunks(k) \in Nat /\ Chunks(k) >= 2 /\ Chunks(k) * Pow2[k] = PageSize
         /\ BitmapChunks(k) \in Nat /\ BitmapChunks(k) + 1 < Chunks(k)
         /\ k < ExactShift => Chunks(k) \div 8 <= BitmapChunks(k) * Pow2[k]
<1>1. k \in Nat /\ k < PageShift /\ PageShift - k \in Nat /\ (PageShift - k) + k = PageShift
      /\ k \in 0..PageShift /\ PageShift - k \in 0..PageShift /\ PageShift \in Nat
  BY PageSizeType
<1>2. Pow2[k] \in Nat /\ Pow2[k] > 0 /\ Chunks(k) \in Nat
  BY <1>1, Pow2Type DEF Chunks
<1>3. Chunks(k) * Pow2[k] = PageSize
  BY <1>1, Pow2Sum DEF Chunks, PageSize
<1>4. Pow2[0] = 1 /\ 0 \in Nat
  BY Pow2Def
<1>5. Chunks(k) >= 2
  <2>1. 2 * Pow2[0] <= Pow2[PageShift - k]
    BY <1>1, <1>4, Pow2Less
  <2> QED BY <1>2, <2>1, <1>4 DEF Chunks
<1>6. CASE k >= ExactShift
  BY <1>1, <1>2, <1>3, <1>5, <1>6, ExactShiftType DEF BitmapChunks
<1>7. CASE k < ExactShift
  <2>1. PageShift - k >= 2 /\ (PageShift - k) - 2 \in Nat /\ 1 \in 1..PageShift
        /\ 2 \in 1..PageShift
    BY <1>1, <1>7, ExactShiftType
  <2>2. Pow2[1] = 2 /\ Pow2[2] = 4
    <3>1. Pow2[1] = 2 * Pow2[1 - 1] /\ Pow2[2] = 2 * Pow2[2 - 1]
      BY <2>1, Pow2Type
    <3> QED BY <3>1, <1>4
  <2>3. Pow2[(PageShift - k) - 2] \in Nat /\ Chunks(k) = Pow2[(PageShift - k) - 2] * 4
    <3>1. ((PageShift - k) - 2) + 2 = PageShift - k /\ (PageShift - k) - 2 \in 0..PageShift
      BY <1>1, <2>1
    <3>2. Pow2[((PageShift - k) - 2) + 2] = Pow2[(PageShift - k) - 2] * Pow2[2]
      BY <3>1, <2>1, <1>1, Pow2Sum
    <3> QED BY <3>1, <3>2, <2>2, Pow2Type DEF Chunks
  <2>4. Chunks(k) >= 4
    <3>1. (PageShift - k) - 2 \in 0..PageShift
      BY <1>1, <2>1
    <3>2. Pow2[(PageShift - k) - 2] > 0
      BY <3>1, Pow2Type
    <3> QED BY <3>2, <2>3
  <2> DEFINE n == Chunks(k) \div (Pow2[k] * 8)
  <2>5. CASE PageShift - k < k + 3
    <3>1. Pow2[(PageShift - k) - 2] <= Pow2[k]
      <4>1. CASE (PageShift - k) - 2 = k
        BY <4>1, <1>2
      <4>2. CASE (PageShift - k) - 2 < k
        <5>1. 2 * Pow2[(PageShift - k) - 2] <= Pow2[k]
          BY <4>2, <1>1, <2>1, Pow2Less
        <5> QED BY <5>1, <1>2, <2>3
      <4> QED BY <4>1, <4>2, <2>5, <2>1, <1>1
    <3>2. Chunks(k) < Pow2[k] * 8
      BY <3>1, <2>3, <1>2
    <3>3. \A c, p \in Nat : c < p /\ p > 0 => c \div p = 0
      OBVIOUS
    <3>4. n = 0
      BY <3>2, <3>3, <1>2
    <3>5. BitmapChunks(k) = 1
      BY <3>4, <1>7, <1>1, ExactShiftType DEF BitmapChunks
    <3>6. Chunks(k) \div 8 <= Pow2[k]
      BY <3>2, <1>2
    <3> QED BY <3>5, <3>6, <2>4, <1>1, <1>2, <1>3
  <2>6. CASE ~(PageShift - k < k + 3)
    <3>1. (PageShift - k) - (k + 3) \in Nat /\ k + 3 \in Nat /\ 3 \in 1..PageShift
          /\ ((PageShift - k) - (k + 3)) + (k + 3) = PageShift - k
          /\ (PageShift - k) - (k + 3) \in 0..PageShift /\ k + 3 <= PageShift
      BY <2>6, <1>1
    <3>2. Pow2[3] = 8
      <4>1. Pow2[3] = 2 * Pow2[3 - 1]
        BY <3>1, Pow2Type
      <4> QED BY <4>1, <2>2
    <3>3. Pow2[k + 3] = Pow2[k] * 8
      BY <3>1, <3>2, <1>1, Pow2Sum
    <3> DEFINE q == Pow2[(PageShift - k) - (k + 3)]
    <3>4. q \in Nat /\ q > 0 /\ Chunks(k) = q * (Pow2[k] * 8)
      <4>1. q \in Nat /\ q > 0
        BY <3>1, Pow2Type
      <4>2. Pow2[((PageShift - k) - (k + 3)) + (k + 3)] = q * Pow2[k + 3]
        BY <3>1, <1>1, Pow2Sum
      <4> QED BY <4>1, <4>2, <3>1, <3>3 DEF Chunks
    <3> HIDE DEF q
    <3>5. n = q
      <4>1. Pow2[k] * 8 \in Nat /\ Pow2[k] * 8 > 0
        BY <1>2
      <4>2. (q * (Pow2[k] * 8) + 0) \div (Pow2[k] * 8) = q
        BY <4>1, <3>4, DivMod
      <4> QED BY <4>1, <4>2, <3>4
    <3>6. BitmapChunks(k) = q
      BY <3>5, <3>4, <1>7, <1>1, ExactShiftType DEF BitmapChunks
    <3>7. Chunks(k) \div 8 = q * Pow2[k]
      <4>1. Chunks(k) = (q * Pow2[k]) * 8 + 0 /\ q * Pow2[k] \in Nat
        BY <3>4, <1>2
      <4>2. ((q * Pow2[k]) * 8 + 0) \div 8 = q * Pow2[k]
        BY <4>1, DivMod
      <4> QED BY <4>1, <4>2
    <3>8. q + 1 < Chunks(k)
      <4>1. \A a, b \in Nat : a > 0 /\ b > 0 => a * b >= a /\ a * b \in Nat
        OBVIOUS
      <4>2. q * Pow2[k] >= q /\ q * Pow2[k] \in Nat
        BY <4>1, <3>4, <1>2
      <4>3. Chunks(k) = 8 * (q * Pow2[k])
        BY <3>4, <1>2
      <4> QED BY <4>2, <4>3, <3>4
    <3> QED BY <3>4, <3>6, <3>7, <3>8, <1>1, <1>2, <1>3, <1>5
  <2> QED BY <2>5, <2>6
<1> QED BY <1>1, <1>6, <1>7, ExactShiftType

-----------------------------------------------------------------------------
(* The lists.                                                              *)

\* The fields of the listed pages and the heads after x was unlinked, put first
\* in the list of h, or replaced in its list by z.
Unlinked(nx, pv, home, x, nx1, pv1, home1) ==
  /\ home1 = [home EXCEPT ![x] = NULL]
  /\ \A y \in Node : y \in Heads \/ home1[y] # NULL =>
       nx1[y] = IF y = pv[x].to THEN nx[x] ELSE nx[y]
  /\ \A y \in Page : home1[y] # NULL => pv1[y] = IF y = nx[x] THEN pv[x] ELSE pv[y]

Pushed(nx, pv, home, x, h, nx1, pv1, home1) ==
  /\ home1 = [home EXCEPT ![x] = h]
  /\ \A y \in Node : y \in Heads \/ home1[y] # NULL =>
       nx1[y] = IF y = h THEN x ELSE IF y = x THEN nx[h] ELSE nx[y]
  /\ \A y \in Page : home1[y] # NULL =>
       pv1[y] = IF y = x THEN Ptr(h, HeadType(h))
                ELSE IF y = nx[h] THEN Ptr(x, HeadType(h)) ELSE pv[y]

Replaced(nx, pv, home, x, z, nx1, pv1, home1) ==
  /\ home1 = [home EXCEPT ![x] = NULL, ![z] = home[x]]
  /\ \A y \in Node : y \in Heads \/ home1[y] # NULL =>
       nx1[y] = IF y = pv[x].to THEN z ELSE IF y = z THEN nx[x] ELSE nx[y]
  /\ \A y \in Page : home1[y] # NULL =>
       pv1[y] = IF y = nx[x] THEN Ptr(z, HeadType(home[x]))
                ELSE IF y = z THEN pv[x] ELSE pv[y]

\* The fields of the listed pages and the heads have not changed.
Same(nx, pv, home, nx1, pv1) ==
  /\ \A y \in Node : y \in Heads \/ home[y] # NULL => nx1[y] = nx[y]
  /\ \A y \in Page : home[y] # NULL => pv1[y] = pv[y]

\* Pages, list heads and NULL are different things.
LEMMA NodeFacts ==
  /\ Node = Page \cup Heads /\ Page \cap Heads = {} /\ NULL \notin Node
  /\ free \in Heads /\ HeadType(free) = "PAGE" /\ HeadType(free) \in Types
  /\ \A i \in Slots : SlotHead(i) \in Heads /\ SlotHead(i) # free
                      /\ HeadType(SlotHead(i)) = TypeOf(i + MinShift)
  /\ \A k : TypeOf(k) \in Types /\ TypeOf(k) # "PAGE"
  /\ \A h \in Heads : h \in Int /\ h >= Pages /\ HeadType(h) \in Types
  /\ \A x : x \in Page <=> x \in Int /\ 0 <= x /\ x < Pages
  /\ \A x \in Page : x \in Nat /\ x \in Node /\ x # NULL
<1>1. Pages \in Nat /\ Slots \subseteq Nat /\ MinShift \in Nat
  BY PageSizeType DEF Slots
<1>2. \A k : TypeOf(k) \in Types /\ TypeOf(k) # "PAGE"
  BY DEF TypeOf, Types
<1>3. \A i \in Slots : SlotHead(i) \in Heads /\ SlotHead(i) # free /\ SlotHead(i) > Pages
                       /\ SlotHead(i) \in Int
                       /\ HeadType(SlotHead(i)) = TypeOf(i + MinShift)
  <2> SUFFICES ASSUME NEW i \in Slots
               PROVE  /\ SlotHead(i) \in Heads /\ SlotHead(i) # free /\ SlotHead(i) > Pages
                      /\ SlotHead(i) \in Int
                      /\ HeadType(SlotHead(i)) = TypeOf(i + MinShift)
    OBVIOUS
  <2>1. i \in Nat /\ SlotHead(i) = Pages + 1 + i /\ free = Pages
    BY <1>1 DEF SlotHead, free
  <2>2. SlotHead(i) - Pages - 1 + MinShift = i + MinShift
    BY <2>1, <1>1
  <2> QED BY <2>1, <2>2, <1>1 DEF HeadType, Heads
<1>4. free \in Heads /\ free = Pages /\ HeadType(free) = "PAGE" /\ HeadType(free) \in Types
  BY DEF Heads, free, HeadType, Types
<1>5. \A h \in Heads : h \in Int /\ h >= Pages /\ HeadType(h) \in Types
  BY <1>1, <1>2, <1>3, <1>4 DEF Heads
<1>6. \A x : x \in Page <=> x \in Int /\ 0 <= x /\ x < Pages
  BY <1>1 DEF Page
<1>7. Node = Page \cup Heads
  BY DEF Node, Heads
<1>8. Page \cap Heads = {} /\ NULL \notin Node
  BY <1>1, <1>5, <1>6, <1>7 DEF NULL
<1>9. \A x \in Page : x \in Nat /\ x \in Node /\ x # NULL
  BY <1>6, <1>7, <1>8
<1> QED BY <1>2, <1>3, <1>4, <1>5, <1>6, <1>7, <1>8, <1>9

\* Where a page of a list has its neighbours.
LEMMA Neighbours ==
  ASSUME NEW nx, NEW pv, NEW home \in [Page -> Heads \cup {NULL}], NEW r \in [Page -> Int],
         Chain(nx, pv, home, r), NEW x \in Page, home[x] # NULL
  PROVE  /\ home[x] \in Heads /\ nx[x] \in Node /\ nx[x] # x /\ pv[x].to \in Node
         /\ pv[x].to # x /\ nx[pv[x].to] = x
         /\ nx[x] \in Page => home[nx[x]] = home[x] /\ pv[nx[x]].to = x /\ r[x] < r[nx[x]]
         /\ nx[x] \notin Page => nx[x] = home[x]
         /\ pv[x].to \in Page => home[pv[x].to] = home[x] /\ r[pv[x].to] < r[x]
         /\ pv[x].to \notin Page => pv[x].to = home[x]
<1>1. InList(nx, pv, home, r, x) /\ home[x] \in Heads
  BY DEF Chain
<1>2. home[x] \notin Page /\ home[x] \in Node /\ x \in Node
  BY <1>1, NodeFacts
<1>3. /\ nx[x] \in Node /\ nx[x] # x /\ nx[pv[x].to] = x
      /\ nx[x] \in Page => home[nx[x]] = home[x] /\ pv[nx[x]].to = x /\ r[x] < r[nx[x]]
      /\ nx[x] \notin Page => nx[x] = home[x]
      /\ pv[x].to \in Page => home[pv[x].to] = home[x]
      /\ pv[x].to \notin Page => pv[x].to = home[x]
      /\ pv[x].to \in Node
  BY <1>1, <1>2, NodeFacts DEF InList
<1>4. ASSUME pv[x].to \in Page PROVE r[pv[x].to] < r[x]
  <2>1. home[pv[x].to] # NULL
    BY <1>3, <1>4
  <2>2. InList(nx, pv, home, r, pv[x].to)
    BY <1>4, <2>1 DEF Chain
  <2> QED BY <1>4, <2>2, <1>2, <1>3 DEF InList
<1> QED BY <1>1, <1>2, <1>3, <1>4

\* The neighbours of a page, under one name.
Beside(nx, pv, home, r, x) ==
  /\ home[x] \in Heads /\ nx[x] \in Node /\ nx[x] # x /\ pv[x].to \in Node
  /\ pv[x].to # x /\ nx[pv[x].to] = x
  /\ nx[x] \in Page => home[nx[x]] = home[x]
  /\ pv[x].to \in Page => home[pv[x].to] = home[x] /\ r[pv[x].to] < r[x]
  /\ pv[x].to \notin Page => pv[x].to = home[x]

\* A page of a list has such neighbours.
LEMMA ListNeighbours ==
  ASSUME NEW nx, NEW pv, NEW home \in [Page -> Heads \cup {NULL}], NEW r \in [Page -> Int],
         Chain(nx, pv, home, r), NEW x \in Page, home[x] # NULL
  PROVE  Beside(nx, pv, home, r, x)
BY Neighbours DEF Beside

\* What is written to the fields of pages that are on no list is nothing to the
\* lists.
LEMMA SameChain ==
  ASSUME NEW nx, NEW pv, NEW home \in [Page -> Heads \cup {NULL}], NEW r \in [Page -> Int],
         Chain(nx, pv, home, r), NEW nx1, NEW pv1, Same(nx, pv, home, nx1, pv1)
  PROVE  Chain(nx1, pv1, home, r)
<1>1. ASSUME NEW y \in Page, home[y] # NULL
      PROVE  InList(nx1, pv1, home, r, y)
  <2>1. InList(nx, pv, home, r, y) /\ y \in Node /\ home[y] \in Heads
    BY <1>1, NodeFacts DEF Chain
  <2>2. nx1[y] = nx[y] /\ pv1[y] = pv[y]
    BY <1>1, <2>1 DEF Same
  <2>3. pv[y].to \in Node /\ (pv[y].to \in Heads \/ home[pv[y].to] # NULL)
    BY <1>1, <2>1, NodeFacts DEF InList
  <2>4. nx1[pv[y].to] = nx[pv[y].to]
    BY <2>3 DEF Same
  <2>5. nx[y] \in Page /\ home[nx[y]] = home[y] => pv1[nx[y]] = pv[nx[y]]
    BY <1>1 DEF Same
  <2> QED BY <2>1, <2>2, <2>4, <2>5 DEF InList
<1>2. ASSUME NEW h \in Heads
      PROVE  nx1[h] = h \/ (nx1[h] \in Page /\ home[nx1[h]] = h /\ pv1[nx1[h]].to = h)
  <2>1. nx[h] = h \/ (nx[h] \in Page /\ home[nx[h]] = h /\ pv[nx[h]].to = h)
    BY DEF Chain
  <2>2. h \in Node /\ h # NULL /\ nx1[h] = nx[h]
    BY NodeFacts DEF Same
  <2> QED BY <2>1, <2>2 DEF Same
<1> QED BY <1>1, <1>2 DEF Chain

\* Unlinking a page leaves the lists of the others.
LEMMA UnlinkChain ==
  ASSUME NEW nx, NEW pv, NEW home \in [Page -> Heads \cup {NULL}], NEW r \in [Page -> Int],
         Chain(nx, pv, home, r), NEW x \in Page, home[x] # NULL,
         NEW nx1, NEW pv1, NEW home1, Unlinked(nx, pv, home, x, nx1, pv1, home1)
  PROVE  Chain(nx1, pv1, home1, r)
<1> USE DEF Unlinked
<1>1. /\ home[x] \in Heads /\ nx[x] \in Node /\ nx[x] # x /\ pv[x].to \in Node
      /\ pv[x].to # x /\ nx[pv[x].to] = x
      /\ nx[x] \in Page => home[nx[x]] = home[x] /\ pv[nx[x]].to = x /\ r[x] < r[nx[x]]
      /\ nx[x] \notin Page => nx[x] = home[x]
      /\ pv[x].to \in Page => home[pv[x].to] = home[x] /\ r[pv[x].to] < r[x]
      /\ pv[x].to \notin Page => pv[x].to = home[x]
  BY Neighbours
<1>2. \A y \in Page : home1[y] = IF y = x THEN NULL ELSE home[y]
  OBVIOUS
<1>3. pv[x].type = HeadType(home[x])
  BY DEF Chain, InList
<1>4. ASSUME NEW y \in Page, home1[y] # NULL
      PROVE  InList(nx1, pv1, home1, r, y)
  <2>1. y # x /\ home1[y] = home[y] /\ y \notin Heads /\ y \in Node
    BY <1>2, <1>4, NodeFacts
  <2>2. /\ home[y] \in Heads /\ nx[y] \in Node /\ nx[y] # y /\ pv[y].to \in Node
        /\ pv[y].to # y /\ nx[pv[y].to] = y
        /\ nx[y] \in Page => home[nx[y]] = home[y] /\ pv[nx[y]].to = y /\ r[y] < r[nx[y]]
        /\ nx[y] \notin Page => nx[y] = home[y]
        /\ pv[y].to \in Page => home[pv[y].to] = home[y] /\ r[pv[y].to] < r[y]
        /\ pv[y].to \notin Page => pv[y].to = home[y]
    BY <1>4, <2>1, Neighbours
  <2>3. pv[y].type = HeadType(home[y])
    BY <1>4, <2>1 DEF Chain, InList
  <2>4. nx1[y] = IF y = pv[x].to THEN nx[x] ELSE nx[y]
    BY <1>4, <2>1
  <2>5. pv1[y] = IF y = nx[x] THEN pv[x] ELSE pv[y]
    BY <1>4
  <2>6. y = nx[x] <=> pv[y].to = x
    BY <1>1, <2>1, <2>2
  <2>7. y = pv[x].to <=> nx[y] = x
    BY <1>1, <2>1, <2>2
  <2>8. home[y] # NULL /\ r \in [Page -> Int]
    BY <2>1, <1>4
  <2>9. /\ nx1[y] = home1[y] \/ (nx1[y] \in Page /\ home1[nx1[y]] = home1[y])
        /\ pv1[y].to = home1[y] \/ (pv1[y].to \in Page /\ home1[pv1[y].to] = home1[y])
        /\ pv1[y].type = HeadType(home1[y])
    BY <1>1, <1>2, <1>3, <2>1, <2>2, <2>3, <2>4, <2>5, <2>6, <2>7
  <2>10. ASSUME nx1[y] # home1[y]
         PROVE  pv1[nx1[y]].to = y /\ r[y] < r[nx1[y]]
    <3>1. nx1[y] \in Page /\ home1[nx1[y]] # NULL /\ nx1[y] # x
      BY <2>10, <2>9, <2>8, <2>1, <1>2
    <3>2. pv1[nx1[y]] = IF nx1[y] = nx[x] THEN pv[x] ELSE pv[nx1[y]]
      BY <3>1
    <3>3. CASE y = pv[x].to
      BY <3>1, <3>2, <3>3, <2>4, <2>2, <1>1
    <3>4. CASE y # pv[x].to
      BY <3>1, <3>2, <3>4, <2>4, <2>2, <2>7, <1>1, <2>1
    <3> QED BY <3>3, <3>4
  <2>11. nx1[pv1[y].to] = y
    <3>1. pv1[y].to \in Node /\ (pv1[y].to \in Heads \/ home1[pv1[y].to] # NULL)
      BY <2>9, <2>8, <2>1, <2>2, NodeFacts
    <3>2. nx1[pv1[y].to] = IF pv1[y].to = pv[x].to THEN nx[x] ELSE nx[pv1[y].to]
      BY <3>1
    <3> QED BY <3>1, <3>2, <2>5, <2>6, <2>1, <2>2, <1>1
  <2> QED BY <2>9, <2>10, <2>11 DEF InList
<1>5. ASSUME NEW h \in Heads
      PROVE  nx1[h] = h \/ (nx1[h] \in Page /\ home1[nx1[h]] = h /\ pv1[nx1[h]].to = h)
  <2>1. nx[h] = h \/ (nx[h] \in Page /\ home[nx[h]] = h /\ pv[nx[h]].to = h)
    BY DEF Chain
  <2>2. h \notin Page /\ h \in Node /\ h # NULL
    BY NodeFacts
  <2>3. nx1[h] = IF h = pv[x].to THEN nx[x] ELSE nx[h]
    BY <2>2
  <2>4. CASE h = pv[x].to
    BY <2>2, <2>3, <2>4, <1>1, <1>2
  <2>5. CASE h # pv[x].to /\ nx[h] # h
    <3>1. nx[h] # x /\ nx1[h] = nx[h]
      BY <2>1, <2>3, <2>5
    <3>2. home1[nx[h]] = h /\ home1[nx[h]] # NULL
      BY <3>1, <2>1, <2>2, <2>5, <1>2
    <3>3. nx[h] # nx[x]
      BY <2>1, <2>2, <2>5, <1>1
    <3> QED BY <3>1, <3>2, <3>3, <2>1, <2>5
  <2> QED BY <2>3, <2>4, <2>5
<1> QED BY <1>4, <1>5 DEF Chain

\* A page put first in a list joins it.
LEMMA PushChain ==
  ASSUME NEW nx, NEW pv, NEW home \in [Page -> Heads \cup {NULL}], NEW r \in [Page -> Int],
         Chain(nx, pv, home, r), NEW x \in Page, home[x] = NULL, NEW h \in Heads,
         NEW nx1, NEW pv1, NEW home1, Pushed(nx, pv, home, x, h, nx1, pv1, home1)
  PROVE  Chained(nx1, pv1, home1)
<1> USE DEF Pushed
<1> DEFINE f == nx[h]
           q == [r EXCEPT ![x] = IF f \in Page THEN r[f] - 1 ELSE 0]
<1>1. f = h \/ (f \in Page /\ home[f] = h /\ pv[f].to = h)
  BY DEF Chain
<1>2. h \notin Page /\ h \in Node /\ h # NULL /\ x \in Node /\ x \notin Heads
  BY NodeFacts
<1>3. q \in [Page -> Int] /\ (f \in Page => q[x] < q[f]) /\ f # x
      /\ \A y \in Page : y # x => q[y] = r[y]
  BY <1>1, <1>2
<1>4. \A y \in Page : home1[y] = IF y = x THEN h ELSE home[y]
  OBVIOUS
<1>5. /\ nx1[h] = x /\ nx1[x] = f /\ pv1[x] = Ptr(h, HeadType(h))
      /\ f \in Page => pv1[f] = Ptr(x, HeadType(h))
  BY <1>1, <1>2, <1>3, <1>4
<1>6. \A a, b : Ptr(a, b).to = a /\ Ptr(a, b).type = b
  BY DEF Ptr
<1> HIDE DEF q, f
<1>7. ASSUME NEW y \in Page, home1[y] # NULL
      PROVE  InList(nx1, pv1, home1, q, y)
  <2>1. CASE y = x
    BY <2>1, <1>1, <1>2, <1>3, <1>4, <1>5, <1>6 DEF InList
  <2>2. CASE y # x
    <3>1. home1[y] = home[y] /\ home[y] # NULL /\ y \in Node /\ y # h /\ y \notin Heads
      BY <1>4, <1>7, <2>2, NodeFacts
    <3>2. /\ home[y] \in Heads /\ nx[y] \in Node /\ nx[y] # y /\ pv[y].to \in Node
          /\ pv[y].to # y /\ nx[pv[y].to] = y
          /\ nx[y] \in Page => home[nx[y]] = home[y] /\ pv[nx[y]].to = y /\ r[y] < r[nx[y]]
          /\ nx[y] \notin Page => nx[y] = home[y]
          /\ pv[y].to \in Page => home[pv[y].to] = home[y] /\ r[pv[y].to] < r[y]
          /\ pv[y].to \notin Page => pv[y].to = home[y]
      BY <3>1, Neighbours
    <3>3. pv[y].type = HeadType(home[y])
      BY <3>1 DEF Chain, InList
    <3>4. nx1[y] = nx[y]
      BY <1>7, <2>2, <3>1
    <3>5. pv1[y] = IF y = f THEN Ptr(x, HeadType(h)) ELSE pv[y]
      BY <1>7, <2>2 DEF f
    <3>6. nx[y] # x /\ (nx[y] \in Page => nx[y] # f)
      <4>1. nx[y] # x
        BY <3>1, <3>2, <1>2
      <4>2. nx[y] \in Page => nx[y] # f
        BY <1>1, <1>2, <3>1, <3>2
      <4> QED BY <4>1, <4>2
    <3>7. nx1[y] = home1[y] \/ (nx1[y] \in Page /\ home1[nx1[y]] = home1[y] /\ pv1[nx1[y]].to = y
                                /\ q[y] < q[nx1[y]])
      <4>1. CASE nx[y] \notin Page
        BY <4>1, <3>1, <3>2, <3>4
      <4>2. CASE nx[y] \in Page
        <5>1. home1[nx[y]] = home[y] /\ home1[nx[y]] # NULL
          BY <4>2, <3>1, <3>2, <3>6, <1>4
        <5>2. pv1[nx[y]] = pv[nx[y]]
          BY <4>2, <5>1, <3>6 DEF f
        <5> QED BY <4>2, <5>1, <5>2, <3>1, <3>2, <3>4, <3>6, <2>2, <1>3
      <4> QED BY <4>1, <4>2
    <3>8. CASE y = f
      <4>1. pv1[y].to = x /\ pv1[y].type = HeadType(h)
        BY <3>5, <3>8, <1>6
      <4>2. home1[y] = h /\ home1[x] = h
        BY <3>1, <3>8, <1>1, <1>4, <1>2
      <4> QED BY <4>1, <4>2, <3>7, <3>8, <1>5 DEF InList
    <3>9. CASE y # f
      <4>1. pv1[y] = pv[y]
        BY <3>5, <3>9
      <4>2. pv[y].to # h /\ pv[y].to # x
        BY <3>1, <3>2, <3>9 DEF f
      <4>3. pv[y].to \in Heads \/ home1[pv[y].to] # NULL
        BY <4>2, <3>1, <3>2, <1>4
      <4>4. nx1[pv[y].to] = nx[pv[y].to]
        BY <4>2, <4>3, <3>2
      <4>5. pv[y].to \in Page => home1[pv[y].to] = home1[y]
        BY <4>2, <3>1, <3>2, <1>4
      <4>6. nx1[pv1[y].to] = y /\ pv1[y].type = HeadType(home1[y])
            /\ (pv1[y].to = home1[y] \/ (pv1[y].to \in Page /\ home1[pv1[y].to] = home1[y]))
        BY <4>1, <4>4, <4>5, <3>1, <3>2, <3>3
      <4> QED BY <4>6, <3>7 DEF InList
    <3> QED BY <3>8, <3>9
  <2> QED BY <2>1, <2>2
<1>8. ASSUME NEW g \in Heads
      PROVE  nx1[g] = g \/ (nx1[g] \in Page /\ home1[nx1[g]] = g /\ pv1[nx1[g]].to = g)
  <2>1. CASE g = h
    BY <2>1, <1>4, <1>5, <1>6
  <2>2. CASE g # h
    <3>1. nx[g] = g \/ (nx[g] \in Page /\ home[nx[g]] = g /\ pv[nx[g]].to = g)
      BY DEF Chain
    <3>2. g \notin Page /\ g \in Node /\ g # NULL
      BY NodeFacts
    <3>3. nx1[g] = nx[g]
      BY <2>2, <3>2
    <3>4. nx[g] # g => nx[g] # x /\ nx[g] # f
      BY <3>1, <3>2, <2>2, <1>1, <1>2
    <3>5. ASSUME nx[g] # g
          PROVE  home1[nx[g]] = g /\ pv1[nx[g]] = pv[nx[g]]
      <4>1. home1[nx[g]] = g
        BY <3>5, <3>1, <3>4, <1>4
      <4> QED BY <4>1, <3>1, <3>2, <3>4, <3>5 DEF f
    <3> QED BY <3>1, <3>3, <3>5
  <2> QED BY <2>1, <2>2
<1>9. Chain(nx1, pv1, home1, q)
  BY <1>7, <1>8 DEF Chain
<1> QED BY <1>3, <1>9 DEF Chained

\* A page that takes another's place in its list is on the list instead of it.
LEMMA ReplaceChain ==
  ASSUME NEW nx, NEW pv, NEW home \in [Page -> Heads \cup {NULL}], NEW r \in [Page -> Int],
         Chain(nx, pv, home, r), NEW x \in Page, home[x] # NULL,
         NEW z \in Page, home[z] = NULL,
         NEW nx1, NEW pv1, NEW home1, Replaced(nx, pv, home, x, z, nx1, pv1, home1)
  PROVE  Chained(nx1, pv1, home1)
<1> USE DEF Replaced
<1> DEFINE q == [r EXCEPT ![z] = r[x]]
<1>1. /\ home[x] \in Heads /\ nx[x] \in Node /\ nx[x] # x /\ pv[x].to \in Node
      /\ pv[x].to # x /\ nx[pv[x].to] = x
      /\ nx[x] \in Page => home[nx[x]] = home[x] /\ pv[nx[x]].to = x /\ r[x] < r[nx[x]]
      /\ nx[x] \notin Page => nx[x] = home[x]
      /\ pv[x].to \in Page => home[pv[x].to] = home[x] /\ r[pv[x].to] < r[x]
      /\ pv[x].to \notin Page => pv[x].to = home[x]
      /\ pv[x].type = HeadType(home[x])
  <2>1. pv[x].type = HeadType(home[x])
    BY DEF Chain, InList
  <2> QED BY <2>1, Neighbours
<1>2. z # x /\ \A y \in Page : home1[y] = IF y = z THEN home[x] ELSE IF y = x THEN NULL ELSE home[y]
  OBVIOUS
<1>3. \A a, b : Ptr(a, b).to = a /\ Ptr(a, b).type = b
  BY DEF Ptr
<1>4. q \in [Page -> Int] /\ q[z] = r[x] /\ \A y \in Page : y # z => q[y] = r[y]
  OBVIOUS
<1>5. /\ z \notin Heads /\ z \in Node /\ nx[x] # z /\ pv[x].to # z
      /\ home[x] \notin Page /\ home[x] # NULL
  BY <1>1, NodeFacts
<1>6. /\ nx1[z] = nx[x] /\ pv1[z] = pv[x] /\ nx1[pv[x].to] = z
      /\ nx[x] \in Page => pv1[nx[x]] = Ptr(z, HeadType(home[x]))
  <2>1. nx1[z] = nx[x] /\ pv1[z] = pv[x]
    BY <1>2, <1>5
  <2>2. pv[x].to \in Heads \/ home1[pv[x].to] # NULL
    BY <1>1, <1>2, <1>5
  <2>3. nx[x] \in Page => home1[nx[x]] # NULL
    BY <1>1, <1>2, <1>5
  <2> QED BY <2>1, <2>2, <2>3, <1>1
<1> HIDE DEF q
<1>7. ASSUME NEW y \in Page, home1[y] # NULL
      PROVE  InList(nx1, pv1, home1, q, y)
  <2>1. CASE y = z
    <3>1. nx1[y] = home1[y] \/ (nx1[y] \in Page /\ home1[nx1[y]] = home1[y] /\ pv1[nx1[y]].to = y
                                /\ q[y] < q[nx1[y]])
      BY <2>1, <1>1, <1>2, <1>3, <1>4, <1>5, <1>6
    <3>2. /\ pv1[y].to = home1[y] \/ (pv1[y].to \in Page /\ home1[pv1[y].to] = home1[y])
          /\ nx1[pv1[y].to] = y /\ pv1[y].type = HeadType(home1[y])
      BY <2>1, <1>1, <1>2, <1>3, <1>5, <1>6
    <3> QED BY <3>1, <3>2 DEF InList
  <2>2. CASE y # z
    <3>1. home1[y] = home[y] /\ home[y] # NULL /\ y \in Node /\ y \notin Heads /\ y # x
      BY <1>2, <1>7, <2>2, NodeFacts
    <3>2. /\ home[y] \in Heads /\ nx[y] \in Node /\ nx[y] # y /\ pv[y].to \in Node
          /\ pv[y].to # y /\ nx[pv[y].to] = y
          /\ nx[y] \in Page => home[nx[y]] = home[y] /\ pv[nx[y]].to = y /\ r[y] < r[nx[y]]
          /\ nx[y] \notin Page => nx[y] = home[y]
          /\ pv[y].to \in Page => home[pv[y].to] = home[y] /\ r[pv[y].to] < r[y]
          /\ pv[y].to \notin Page => pv[y].to = home[y]
          /\ pv[y].type = HeadType(home[y])
      <4>1. pv[y].type = HeadType(home[y])
        BY <3>1 DEF Chain, InList
      <4> QED BY <4>1, <3>1, Neighbours
    <3>3. nx1[y] = IF y = pv[x].to THEN z ELSE nx[y]
      BY <1>7, <2>2, <3>1
    <3>4. pv1[y] = IF y = nx[x] THEN Ptr(z, HeadType(home[x])) ELSE pv[y]
      BY <1>7, <2>2
    <3>5. y = nx[x] <=> pv[y].to = x
      BY <1>1, <3>1, <3>2
    <3>6. y = pv[x].to <=> nx[y] = x
      BY <1>1, <3>1, <3>2
    <3>7. nx[y] # z /\ pv[y].to # z
      BY <3>1, <3>2, <1>5
    <3>8. nx1[y] = home1[y] \/ (nx1[y] \in Page /\ home1[nx1[y]] = home1[y] /\ pv1[nx1[y]].to = y
                                /\ q[y] < q[nx1[y]])
      <4>1. CASE y = pv[x].to
        BY <4>1, <3>1, <3>3, <1>1, <1>2, <1>4, <1>6, <2>2
      <4>2. CASE y # pv[x].to /\ nx[y] \in Page
        <5>1. home1[nx[y]] = home[y] /\ nx1[y] = nx[y]
          BY <4>2, <3>1, <3>2, <3>3, <3>6, <3>7, <1>2
        <5>2. nx[y] # nx[x]
          BY <4>2, <3>2, <3>1, <1>1
        <5>3. pv1[nx[y]] = pv[nx[y]]
          BY <4>2, <5>1, <5>2, <3>7, <3>1
        <5>4. q[y] < q[nx[y]]
          BY <4>2, <3>2, <3>7, <2>2, <1>4
        <5> QED BY <4>2, <5>1, <5>3, <5>4, <3>1, <3>2
      <4>3. CASE y # pv[x].to /\ nx[y] \notin Page
        BY <4>3, <3>1, <3>2, <3>3
      <4> QED BY <4>1, <4>2, <4>3
    <3>9. /\ pv1[y].to = home1[y] \/ (pv1[y].to \in Page /\ home1[pv1[y].to] = home1[y])
          /\ nx1[pv1[y].to] = y /\ pv1[y].type = HeadType(home1[y])
      <4>1. CASE y = nx[x]
        BY <4>1, <3>1, <3>4, <1>1, <1>2, <1>3, <1>6
      <4>2. CASE y # nx[x]
        <5>1. pv1[y] = pv[y] /\ pv[y].to # x /\ pv[y].to # z /\ pv[y].to # pv[x].to
          BY <4>2, <3>1, <3>2, <3>4, <3>5, <3>7, <1>1
        <5>2. pv[y].to \in Page => home1[pv[y].to] = home[y]
          BY <5>1, <3>2, <1>2
        <5>3. pv[y].to \in Heads \/ home1[pv[y].to] # NULL
          BY <5>2, <3>1, <3>2
        <5>4. nx1[pv[y].to] = nx[pv[y].to]
          BY <5>1, <5>3, <3>2
        <5> QED BY <5>1, <5>2, <5>4, <3>1, <3>2
      <4> QED BY <4>1, <4>2
    <3> QED BY <3>8, <3>9 DEF InList
  <2> QED BY <2>1, <2>2
<1>8. ASSUME NEW g \in Heads
      PROVE  nx1[g] = g \/ (nx1[g] \in Page /\ home1[nx1[g]] = g /\ pv1[nx1[g]].to = g)
  <2>1. nx[g] = g \/ (nx[g] \in Page /\ home[nx[g]] = g /\ pv[nx[g]].to = g)
    BY DEF Chain
  <2>2. g \notin Page /\ g \in Node /\ g # NULL /\ g # z
    BY NodeFacts
  <2>3. CASE g = pv[x].to
    BY <2>2, <2>3, <1>1, <1>2, <1>6
  <2>4. CASE g # pv[x].to
    <3>1. nx1[g] = nx[g]
      BY <2>2, <2>4
    <3>2. ASSUME nx[g] # g
          PROVE  home1[nx[g]] = g /\ pv1[nx[g]] = pv[nx[g]]
      <4>1. nx[g] # x /\ nx[g] # z /\ nx[g] # nx[x]
        BY <3>2, <2>1, <2>2, <2>4, <1>1
      <4>2. home1[nx[g]] = g
        BY <4>1, <3>2, <2>1, <1>2
      <4> QED BY <4>1, <4>2, <3>2, <2>1, <2>2
    <3> QED BY <3>1, <3>2, <2>1
  <2> QED BY <2>3, <2>4
<1>9. Chain(nx1, pv1, home1, q)
  BY <1>7, <1>8 DEF Chain
<1> QED BY <1>4, <1>9 DEF Chained

-----------------------------------------------------------------------------
(* The steps of the page list, taken apart.                                *)

\* A pointer's fields.
LEMMA PtrIs ==
  /\ \A a, b : Ptr(a, b).to = a /\ Ptr(a, b).type = b
  /\ \A a \in Node \cup {NULL}, b \in Types : Ptr(a, b) \in Pointer
  /\ \A n : FreeBlock(n).kind = "free" /\ FreeBlock(n).n = n /\ FreeBlock(n).map = {}
  /\ \A n : Start(n).kind = "start" /\ Start(n).n = n /\ Start(n).map = {}
  /\ Busy.kind = "busy" /\ Busy.n = 0 /\ Busy.map = {}
  /\ \A n \in Nat : FreeBlock(n) \in SlabRecord /\ Start(n) \in SlabRecord
  /\ Busy \in SlabRecord
  /\ \A n, m : ChunkPage(n, m).kind = "chunks" /\ ChunkPage(n, m).n = n /\ ChunkPage(n, m).map = m
  /\ \A n \in Nat, m \in SUBSET Nat : ChunkPage(n, m) \in SlabRecord
BY DEF Ptr, Pointer, FreeBlock, Start, Busy, ChunkPage, SlabRecord

\* The memory's parts.
LEMMA MemoryParts ==
  ASSUME NEW s \in Memory
  PROVE  /\ s.slab \in [Page -> SlabRecord] /\ s.next \in [Node -> Node \cup {NULL}]
         /\ s.prev \in [Node -> Pointer] /\ s.pfree \in Int
         /\ \A x \in Page : s.slab[x] \in SlabRecord /\ s.slab[x].n \in Nat
                            /\ s.slab[x].kind \in {"free", "start", "busy", "chunks"}
                            /\ s.slab[x].map \in SUBSET Nat
         /\ \A x \in Node : s.prev[x] \in Pointer /\ s.prev[x].to \in Node \cup {NULL}
                            /\ s.prev[x].type \in Types
BY DEF Memory, SlabRecord, Pointer

\* Free, started and busy pages by their content.
LEMMA ContentIs ==
  ASSUME NEW p \in SlabRecord
  PROVE  /\ p.kind = "free" /\ p.map = {} => p = FreeBlock(p.n)
         /\ p.kind = "start" /\ p.map = {} => p = Start(p.n)
         /\ p.kind = "chunks" => p = ChunkPage(p.n, p.map)
BY DEF SlabRecord, FreeBlock, Start, ChunkPage

\* Unlink changes the two neighbours' fields.
LEMMA UnlinkIs ==
  ASSUME NEW s \in Memory, NEW x \in Page, s.next[x] \in Node, s.prev[x].to \in Node
  PROVE  LET t == Unlink(s, x)
         IN  /\ t \in Memory /\ t.slab = s.slab /\ t.pfree = s.pfree
             /\ \A y \in Node : t.next[y] = IF y = s.prev[x].to THEN s.next[x] ELSE s.next[y]
             /\ \A y \in Node : t.prev[y] = IF y = s.next[x] THEN s.prev[x] ELSE s.prev[y]
<1>1. x \in Node
  BY NodeFacts
<1> DEFINE n == [s.next EXCEPT ![s.prev[x].to] = s.next[x]]
           p == [s.prev EXCEPT ![s.next[x]] = s.prev[x]]
<1>2. Unlink(s, x) = [s EXCEPT !.next = n, !.prev = p]
  BY DEF Unlink, Memory
<1>3. n \in [Node -> Node \cup {NULL}] /\ p \in [Node -> Pointer]
  BY <1>1, MemoryParts
<1>4. /\ Unlink(s, x).slab = s.slab /\ Unlink(s, x).pfree = s.pfree
      /\ Unlink(s, x).next = n /\ Unlink(s, x).prev = p /\ Unlink(s, x) \in Memory
  BY <1>2, <1>3 DEF Memory
<1>5. /\ \A y \in Node : n[y] = IF y = s.prev[x].to THEN s.next[x] ELSE s.next[y]
      /\ \A y \in Node : p[y] = IF y = s.next[x] THEN s.prev[x] ELSE s.prev[y]
  BY MemoryParts
<1> QED BY <1>4, <1>5

\* Each page has a list head or none.
LEMMA HomesType ==
  ASSUME NEW sl \in [Page -> SlabRecord], \A x \in Page : Block(sl, x)
  PROVE  /\ Homes(sl) \in [Page -> Heads \cup {NULL}]
         /\ \A x \in Page : Homes(sl)[x] = Home(sl[x])
         /\ \A x \in Page : Home(sl[x]) = free <=> FreeStart(sl[x])
         /\ \A x \in Page : sl[x].kind \in {"start", "busy"} => Home(sl[x]) = NULL
         /\ \A x \in Page : sl[x].kind = "chunks" =>
              Home(sl[x]) = IF Full(sl[x].n, sl[x].map) THEN NULL ELSE SlotHead(sl[x].n - MinShift)
         /\ \A x \in Page : sl[x].kind = "chunks" => sl[x].n - MinShift \in Slots
<1>1. \A x \in Page : Homes(sl)[x] = Home(sl[x])
  BY DEF Homes
<1>2. \A x \in Page : sl[x].kind = "chunks" => sl[x].n - MinShift \in Slots
  BY PageSizeType DEF Block, Slots, SlabRecord
<1>3. ASSUME NEW x \in Page
      PROVE  /\ Home(sl[x]) \in Heads \cup {NULL}
             /\ Home(sl[x]) = free <=> FreeStart(sl[x])
             /\ sl[x].kind \in {"start", "busy"} => Home(sl[x]) = NULL
             /\ sl[x].kind = "chunks" =>
              Home(sl[x]) = IF Full(sl[x].n, sl[x].map) THEN NULL ELSE SlotHead(sl[x].n - MinShift)
  <2>1. free \in Heads /\ free # NULL
    BY NodeFacts
  <2>2. sl[x].kind = "chunks" =>
           SlotHead(sl[x].n - MinShift) \in Heads /\ SlotHead(sl[x].n - MinShift) # free
    BY <1>2, NodeFacts
  <2> QED BY <2>1, <2>2 DEF Home, FreeStart
<1>4. Homes(sl) \in [Page -> Heads \cup {NULL}]
  BY <1>3 DEF Homes
<1> QED BY <1>1, <1>2, <1>3, <1>4

\* Two blocks of free pages do not overlap.
LEMMA BlocksApart ==
  ASSUME NEW sl \in [Page -> SlabRecord], \A x \in Page : Block(sl, x),
         NEW x \in Page, NEW y \in Page, FreeStart(sl[x]), FreeStart(sl[y]), x # y
  PROVE  y + sl[y].n <= x \/ x + sl[x].n <= y
<1>1. sl[x].n \in Nat /\ sl[y].n \in Nat /\ x \in Int /\ y \in Int
  BY NodeFacts DEF SlabRecord
<1>2. ASSUME NEW a \in Page, NEW b \in Page, FreeStart(sl[a]), FreeStart(sl[b]), a < b
      PROVE  a + sl[a].n <= b
  <2>1. \A z \in a + 1..a + sl[a].n - 1 : sl[z] = FreeBlock(0)
    BY <1>2 DEF Block
  <2>2. sl[b] # FreeBlock(0)
    BY <1>2, PtrIs DEF FreeStart
  <2>3. a \in Int /\ b \in Int /\ sl[a].n \in Nat
    BY NodeFacts DEF SlabRecord
  <2> QED BY <1>2, <2>1, <2>2, <2>3
<1> QED BY <1>1, <1>2

-----------------------------------------------------------------------------
(* Taking pages from a free block.                                         *)

\* What is known of the free block at x in a good memory.
LEMMA FreeBlockFacts ==
  ASSUME NEW s, Good(s), NEW x \in Page, FreeStart(s.slab[x])
  PROVE  LET T == x..x + s.slab[x].n - 1
         IN  /\ s.slab[x].n \in Nat /\ s.slab[x].n > 0 /\ x + s.slab[x].n <= Pages
             /\ s.slab[x] = FreeBlock(s.slab[x].n)
             /\ T \subseteq FreeSet(s.slab)
             /\ \A y \in T : y # x => s.slab[y] = FreeBlock(0) /\ Home(s.slab[y]) = NULL
             /\ Home(s.slab[x]) = free /\ s.prev[x].type = "PAGE"
             /\ s.next[x] \in Node \ T /\ s.prev[x].to \in Node \ T
             /\ s.next[x] \in Page => FreeStart(s.slab[s.next[x]])
             /\ s.next[x] \notin Page => s.next[x] = free
             /\ s.prev[x].to \in Page => FreeStart(s.slab[s.prev[x].to])
             /\ s.prev[x].to \notin Page => s.prev[x].to = free
<1> DEFINE m == s.slab[x].n
           home == Homes(s.slab)
           T == x..x + m - 1
<1>1. s \in Memory /\ (\A y \in Page : Block(s.slab, y)) /\ Marks(s)
  BY DEF Good, Layout
<1>2. s.slab \in [Page -> SlabRecord] /\ m \in Nat /\ m > 0 /\ x \in Int /\ x >= 0
  BY <1>1, MemoryParts, NodeFacts DEF FreeStart
<1>3. x + m <= Pages /\ \A y \in x + 1..x + m - 1 : s.slab[y] = FreeBlock(0)
  BY <1>1 DEF Block
<1>4. T \subseteq Page /\ \A y \in T : y # x => y \in x + 1..x + m - 1
  BY <1>2, <1>3, NodeFacts, PageSizeType
<1>5. /\ home \in [Page -> Heads \cup {NULL}] /\ \A y \in Page : home[y] = Home(s.slab[y])
      /\ \A y \in Page : Home(s.slab[y]) = free <=> FreeStart(s.slab[y])
  BY <1>1, <1>2, HomesType
<1>6. s.slab[x] = FreeBlock(m)
  BY <1>1, <1>2, MemoryParts, ContentIs DEF FreeStart, Block
<1>7. \A y \in T : y # x => s.slab[y] = FreeBlock(0) /\ Home(s.slab[y]) = NULL
                            /\ ~FreeStart(s.slab[y])
  BY <1>3, <1>4, PtrIs DEF Home, FreeStart
<1>8. T \subseteq FreeSet(s.slab)
  BY <1>4, <1>6, <1>7, PtrIs DEF FreeSet
<1>9. s.prev[x].type = "PAGE"
  BY <1>1 DEF Marks, Mark, FreeStart
<1>10. PICK r \in [Page -> Int] : Chain(s.next, s.prev, home, r)
  BY DEF Good, Chained
<1>11. home[x] = free /\ free \in Heads /\ free # NULL
  BY <1>5, NodeFacts
<1> HIDE DEF home
<1>12. /\ s.next[x] \in Node /\ s.next[x] # x /\ s.prev[x].to \in Node /\ s.prev[x].to # x
       /\ s.next[x] \in Page => home[s.next[x]] = free
       /\ s.next[x] \notin Page => s.next[x] = free
       /\ s.prev[x].to \in Page => home[s.prev[x].to] = free
       /\ s.prev[x].to \notin Page => s.prev[x].to = free
  <2>1. home[x] # NULL
    BY <1>11
  <2> QED BY <2>1, <1>5, <1>10, <1>11, Neighbours
<1>13. s.next[x] \notin T /\ s.prev[x].to \notin T
  BY <1>4, <1>5, <1>7, <1>11, <1>12
<1> QED BY <1>2, <1>3, <1>5, <1>6, <1>7, <1>8, <1>9, <1>11, <1>12, <1>13

\* Split in place: the rest takes the block's links, its last page leads to it.
LEMMA SplitIs ==
  ASSUME NEW s \in Memory, NEW x \in Page, NEW n \in Nat, n > 0, n < s.slab[x].n,
         x + s.slab[x].n <= Pages,
         s.next[x] \in Node \ (x..x + s.slab[x].n - 1),
         s.prev[x].to \in Node \ (x..x + s.slab[x].n - 1)
  PROVE  LET t == Split(s, x, n)
             z == x + n
             m == s.slab[x].n
         IN  /\ t \in Memory /\ t.pfree = s.pfree
             /\ \A y \in Page : t.slab[y] = IF y = z THEN FreeBlock(m - n) ELSE s.slab[y]
             /\ \A y \in Node : t.next[y] = IF y = s.prev[x].to THEN z
                                            ELSE IF y = z THEN s.next[x] ELSE s.next[y]
             /\ \A y \in Node : t.prev[y] = IF y = s.next[x] THEN Ptr(z, "PAGE")
                                            ELSE IF y = z THEN s.prev[x]
                                            ELSE IF y = x + m - 1 THEN Ptr(z, "PAGE") ELSE s.prev[y]
<1> DEFINE z == x + n
           m == s.slab[x].n
           last == x + m - 1
           pl == [s.prev EXCEPT ![last] = Ptr(z, "PAGE")]
           t == [s EXCEPT !.prev = pl]
           sl == [s.slab EXCEPT ![z] = FreeBlock(m - n)]
           n1 == [s.next EXCEPT ![z] = s.next[x]]
           p1 == [pl EXCEPT ![z] = s.prev[x]]
           u == [t EXCEPT !.slab = sl, !.next = n1, !.prev = p1]
           n2 == [n1 EXCEPT ![s.prev[x].to] = z]
           p2 == [p1 EXCEPT ![s.next[x]] = Ptr(z, "PAGE")]
<1>1. /\ m \in Nat /\ x \in Int /\ z \in Page /\ last \in Page /\ z # x /\ last # x
      /\ x \in Node /\ z \in Node /\ last \in Node /\ m - n \in Nat
  <2>1. m \in Nat /\ x \in Int /\ x >= 0 /\ Pages \in Nat
    BY MemoryParts, NodeFacts, PageSizeType
  <2>2. z \in Int /\ 0 <= z /\ z < Pages /\ last \in Int /\ 0 <= last /\ last < Pages
        /\ z # x /\ last # x /\ m - n \in Nat
    BY <2>1
  <2>3. z \in Page /\ last \in Page
    BY <2>2, NodeFacts
  <2> QED BY <2>1, <2>2, <2>3, NodeFacts
<1>2. "PAGE" \in Types /\ Ptr(z, "PAGE") \in Pointer
  BY <1>1, PtrIs DEF Types
<1>3. pl \in [Node -> Pointer] /\ pl[x] = s.prev[x]
  BY <1>1, <1>2, MemoryParts
<1>4. t \in Memory /\ t.slab = s.slab /\ t.next = s.next /\ t.prev = pl /\ t.pfree = s.pfree
  BY <1>3 DEF Memory
<1>5. /\ sl \in [Page -> SlabRecord] /\ n1 \in [Node -> Node \cup {NULL}]
      /\ p1 \in [Node -> Pointer]
  BY <1>1, <1>2, <1>3, MemoryParts, PtrIs
<1>6. u \in Memory /\ u.slab = sl /\ u.next = n1 /\ u.prev = p1 /\ u.pfree = s.pfree
  BY <1>4, <1>5 DEF Memory
<1>7. n1[x] = s.next[x] /\ p1[x] = s.prev[x]
  BY <1>1, <1>3, MemoryParts
<1>8. Split(s, x, n) = [u EXCEPT !.next = n2, !.prev = p2]
  <2>1. [s EXCEPT !.prev[x + s.slab[x].n - 1] = Ptr(z, "PAGE")] = t
    BY DEF Memory
  <2>2. [t EXCEPT !.slab[z] = FreeBlock(s.slab[x].n - n),
                  !.next[z] = t.next[x], !.prev[z] = t.prev[x]] = u
    <3>1. t.next[x] = s.next[x] /\ t.prev[x] = s.prev[x]
      BY <1>3, <1>4
    <3> HIDE DEF t
    <3> QED BY <3>1, <1>4 DEF Memory
  <2>3. [u EXCEPT !.next[u.prev[x].to] = z, !.prev[u.next[x]] = Ptr(z, "PAGE")] =
        [u EXCEPT !.next = n2, !.prev = p2]
    <3> HIDE DEF u, n1, p1
    <3> QED BY <1>6, <1>7 DEF Memory
  <2> HIDE DEF t, u
  <2> QED BY <2>1, <2>2, <2>3 DEF Split
<1>9. n2 \in [Node -> Node \cup {NULL}] /\ p2 \in [Node -> Pointer]
  BY <1>1, <1>2, <1>5, MemoryParts
<1>10. LET v == Split(s, x, n)
       IN  v \in Memory /\ v.slab = sl /\ v.next = n2 /\ v.prev = p2 /\ v.pfree = s.pfree
  <2> HIDE DEF u, n2, p2
  <2> QED BY <1>6, <1>8, <1>9 DEF Memory
<1>11. \A y \in Page : sl[y] = IF y = z THEN FreeBlock(m - n) ELSE s.slab[y]
  BY MemoryParts
<1>12. \A y \in Node : n2[y] = IF y = s.prev[x].to THEN z
                               ELSE IF y = z THEN s.next[x] ELSE s.next[y]
  BY MemoryParts
<1>13. \A y \in Node : p2[y] = IF y = s.next[x] THEN Ptr(z, "PAGE")
                               ELSE IF y = z THEN s.prev[x]
                               ELSE IF y = last THEN Ptr(z, "PAGE") ELSE s.prev[y]
  BY MemoryParts
<1> HIDE DEF n2, p2, sl
<1> QED BY <1>10, <1>11, <1>12, <1>13

\* What ngx_slab_alloc_pages leaves behind.
LEMMA TakeIs ==
  ASSUME NEW s, Good(s), NEW x \in Page, FreeStart(s.slab[x]),
         NEW n \in Nat, n > 0, n <= s.slab[x].n
  PROVE  LET t == TakePages(s, x, n)
             m == s.slab[x].n
             z == x + n
             T == x..x + n - 1
         IN  /\ t \in Memory /\ t.pfree = s.pfree - n
             /\ \A y \in Page : t.slab[y] = IF y = x THEN Start(n) ELSE IF y \in T THEN Busy
                                            ELSE IF n < m /\ y = z THEN FreeBlock(m - n) ELSE s.slab[y]
             /\ \A y \in Node : t.next[y] = IF y \in T THEN NULL
                                            ELSE IF y = s.prev[x].to THEN IF n < m THEN z ELSE s.next[x]
                                            ELSE IF n < m /\ y = z THEN s.next[x] ELSE s.next[y]
             /\ \A y \in Node : t.prev[y] = IF y \in T THEN Ptr(NULL, "PAGE")
                                            ELSE IF y = s.next[x] THEN IF n < m THEN Ptr(z, "PAGE") ELSE s.prev[x]
                                            ELSE IF n < m /\ y = z THEN s.prev[x]
                                            ELSE IF n < m /\ y = x + m - 1 THEN Ptr(z, "PAGE")
                                            ELSE s.prev[y]
<1> DEFINE m == s.slab[x].n
           z == x + n
           T == x..x + n - 1
           u == IF m > n THEN Split(s, x, n) ELSE Unlink(s, x)
<1>1. /\ s \in Memory /\ m \in Nat /\ m > 0 /\ x + m <= Pages
      /\ s.next[x] \in Node \ (x..x + m - 1) /\ s.prev[x].to \in Node \ (x..x + m - 1)
  BY FreeBlockFacts DEF Good
<1>2. /\ u \in Memory /\ u.pfree = s.pfree
      /\ \A y \in Page : u.slab[y] = IF n < m /\ y = z THEN FreeBlock(m - n) ELSE s.slab[y]
      /\ \A y \in Node : u.next[y] = IF y = s.prev[x].to THEN IF n < m THEN z ELSE s.next[x]
                                     ELSE IF n < m /\ y = z THEN s.next[x] ELSE s.next[y]
      /\ \A y \in Node : u.prev[y] = IF y = s.next[x] THEN IF n < m THEN Ptr(z, "PAGE") ELSE s.prev[x]
                                     ELSE IF n < m /\ y = z THEN s.prev[x]
                                     ELSE IF n < m /\ y = x + m - 1 THEN Ptr(z, "PAGE")
                                     ELSE s.prev[y]
  <2>1. CASE m > n
    BY <1>1, <2>1, SplitIs
  <2>2. CASE ~(m > n)
    BY <1>1, <2>2, UnlinkIs
  <2> QED BY <2>1, <2>2
<1> HIDE DEF u
<1> DEFINE sl == [y \in Page |-> IF y = x THEN Start(n) ELSE IF y \in T THEN Busy ELSE u.slab[y]]
           nx == [y \in Node |-> IF y \in T THEN NULL ELSE u.next[y]]
           pv == [y \in Node |-> IF y \in T THEN Ptr(NULL, "PAGE") ELSE u.prev[y]]
<1>3. TakePages(s, x, n) = [slab |-> sl, next |-> nx, prev |-> pv, pfree |-> u.pfree - n]
  BY DEF TakePages, u
<1>4. sl \in [Page -> SlabRecord]
  BY <1>2, MemoryParts, PtrIs
<1>5. nx \in [Node -> Node \cup {NULL}]
  BY <1>2, MemoryParts
<1>6. pv \in [Node -> Pointer]
  <2>1. Ptr(NULL, "PAGE") \in Pointer
    BY PtrIs DEF Types
  <2> QED BY <1>2, <2>1, MemoryParts
<1>7. u.pfree - n \in Int
  BY <1>2, MemoryParts
<1>8. LET t == TakePages(s, x, n)
      IN t \in Memory /\ t.slab = sl /\ t.next = nx /\ t.prev = pv /\ t.pfree = s.pfree - n
  <2> HIDE DEF sl, nx, pv
  <2> QED BY <1>2, <1>3, <1>4, <1>5, <1>6, <1>7 DEF Memory
<1> QED BY <1>2, <1>8

\* The pages taken were free; no other page's content changes but the rest's.
LEMMA TakeLayout ==
  ASSUME NEW s, Good(s), NEW x \in Page, FreeStart(s.slab[x]),
         NEW n \in Nat, n > 0, n <= s.slab[x].n
  PROVE  /\ Layout(TakePages(s, x, n).slab)
         /\ FreeSet(TakePages(s, x, n).slab) = FreeSet(s.slab) \ (x..x + n - 1)
         /\ x..x + n - 1 \subseteq FreeSet(s.slab)
<1> DEFINE m == s.slab[x].n
           z == x + n
           T == x..x + n - 1
           sl == s.slab
           tl == TakePages(s, x, n).slab
<1>0. FreeStart(sl[x]) /\ sl[x].n = m
  OBVIOUS
<1>1. /\ s \in Memory /\ m \in Nat /\ m > 0 /\ x + m <= Pages /\ sl[x] = FreeBlock(m)
      /\ x..x + m - 1 \subseteq FreeSet(sl)
      /\ \A y \in x..x + m - 1 : y # x => sl[y] = FreeBlock(0)
  BY FreeBlockFacts DEF Good
<1>2. \A y \in Page : tl[y] = IF y = x THEN Start(n) ELSE IF y \in T THEN Busy
                              ELSE IF n < m /\ y = z THEN FreeBlock(m - n) ELSE sl[y]
  BY TakeIs
<1>3. x \in Int /\ x >= 0 /\ Pages \in Nat /\ \A y : y \in Page <=> y \in Int /\ 0 <= y /\ y < Pages
  BY NodeFacts, PageSizeType
<1>4. sl \in [Page -> SlabRecord] /\ (\A y \in Page : Block(sl, y))
      /\ \A y \in Page : FreeStart(sl[y]) => Apart(sl, y)
  BY <1>1, MemoryParts DEF Good, Layout
<1>5. \A y \in Page : sl[y].n \in Nat
  BY <1>1, MemoryParts
<1>6. T \subseteq x..x + m - 1 /\ (n < m => z \in x..x + m - 1 /\ z # x /\ z \notin T)
  BY <1>1, <1>3
<1>7. T \subseteq FreeSet(sl)
  BY <1>1, <1>6
<1>8. FreeSet(tl) = FreeSet(sl) \ T
  <2>1. ASSUME NEW y \in Page PROVE tl[y].kind = "free" <=> sl[y].kind = "free" /\ y \notin T
    BY <1>1, <1>2, <1>3, <1>6, <1>7, PtrIs DEF FreeSet
  <2> QED BY <2>1 DEF FreeSet
<1> HIDE DEF tl, sl
<1>9. ASSUME NEW y \in Page PROVE Block(tl, y) /\ (FreeStart(tl[y]) => Apart(tl, y))
  <2>1. CASE y = x
    <3>1. tl[y] = Start(n) /\ tl[y].kind = "start" /\ tl[y].n = n /\ tl[y].map = {}
      BY <2>1, <1>2, PtrIs
    <3>2. \A w \in y + 1..y + n - 1 : tl[w] = Busy
      BY <2>1, <1>1, <1>2, <1>3
    <3>3. y + n <= Pages
      BY <2>1, <1>1, <1>3
    <3> QED BY <3>1, <3>2, <3>3 DEF Block, FreeStart
  <2>2. CASE y \in T /\ y # x
    <3>1. tl[y] = Busy
      BY <2>2, <1>2
    <3> QED BY <3>1, PtrIs DEF Block, FreeStart
  <2>3. CASE n < m /\ y = z
    <3>1. tl[y] = FreeBlock(m - n) /\ tl[y].kind = "free" /\ tl[y].n = m - n /\ tl[y].map = {}
      BY <2>3, <1>2, <1>6, PtrIs
    <3>2. m - n > 0 /\ y + (m - n) = x + m /\ y \in Int
      BY <2>3, <1>1, <1>3
    <3>3. \A w \in y + 1..y + (m - n) - 1 : tl[w] = FreeBlock(0)
      <4>1. ASSUME NEW w \in y + 1..y + (m - n) - 1
            PROVE  w \in x..x + m - 1 /\ w # x /\ w \notin T /\ w # z /\ w \in Page
        BY <2>3, <1>1, <1>3
      <4> QED BY <4>1, <1>1, <1>2
    <3>4. Apart(tl, y)
      <4>1. ASSUME x + m < Pages PROVE tl[x + m].kind # "free"
        <5>1. sl[x + m].kind # "free"
          BY <1>4, <1>0, <4>1 DEF Apart
        <5>2. x + m \in Page /\ x + m # x /\ x + m \notin T /\ ~(n < m /\ x + m = z)
          BY <1>1, <1>3, <4>1
        <5> QED BY <5>1, <5>2, <1>2
      <4> QED BY <4>1, <3>1, <3>2 DEF Apart
    <3> QED BY <3>1, <3>2, <3>3, <3>4, <1>1 DEF Block
  <2>4. CASE y # x /\ y \notin T /\ ~(n < m /\ y = z)
    <3>1. tl[y] = sl[y] /\ Block(sl, y) /\ sl[y].n \in Nat /\ y \in Int /\ 0 <= y /\ y < Pages
      BY <2>4, <1>2, <1>3, <1>4, <1>5
    <3>2. ASSUME FreeStart(sl[y])
          PROVE  /\ \A w \in y + 1..y + sl[y].n - 1 : tl[w] = sl[w]
                 /\ Apart(tl, y)
      <4>1. y + sl[y].n <= x \/ x + m <= y
        BY <2>4, <3>2, <1>4, BlocksApart DEF sl
      <4>2. y + sl[y].n <= Pages /\ sl[y].n > 0
        BY <3>1, <3>2 DEF Block, FreeStart
      <4>3. ASSUME NEW w \in y + 1..y + sl[y].n - 1
            PROVE  tl[w] = sl[w]
        <5>1. w \in Page /\ w # x /\ w \notin T /\ ~(n < m /\ w = z)
          BY <4>1, <4>2, <3>1, <1>1, <1>3
        <5> QED BY <5>1, <1>2
      <4>4. ASSUME y + sl[y].n < Pages PROVE tl[y + sl[y].n].kind # "free"
        <5>1. sl[y + sl[y].n].kind # "free"
          BY <3>2, <4>4, <1>4 DEF Apart
        <5>2. y + sl[y].n \in Page /\ y + sl[y].n # x
          BY <5>1, <4>4, <3>1, <1>3, <1>1, PtrIs
        <5>3. y + sl[y].n \notin T /\ ~(n < m /\ y + sl[y].n = z)
          BY <5>2, <4>1, <4>2, <3>1, <1>1, <1>3
        <5> QED BY <5>1, <5>2, <5>3, <1>2
      <4> QED BY <4>3, <4>4, <3>1 DEF Apart
    <3>3. ASSUME sl[y].kind = "free", sl[y].n = 0
          PROVE  \E w \in 0..y - 1 : FreeStart(tl[w]) /\ y < w + tl[w].n
      <4>1. PICK w \in 0..y - 1 : FreeStart(sl[w]) /\ y < w + sl[w].n
        BY <3>1, <3>3 DEF Block
      <4>2. w \in Page /\ w \in Int
        BY <3>1, <1>3
      <4>3. CASE w = x
        <5>1. n < m /\ z \in 0..y - 1 /\ y < z + (m - n)
          BY <4>1, <4>3, <2>4, <3>1, <1>0, <1>1, <1>3
        <5>2. tl[z] = FreeBlock(m - n)
          BY <5>1, <1>2, <1>3, <1>6, <3>1
        <5>3. FreeStart(tl[z]) /\ tl[z].n = m - n
          BY <5>1, <5>2, <1>1, PtrIs DEF FreeStart
        <5> QED BY <5>1, <5>3
      <4>4. CASE w # x
        <5>1. w \notin x..x + m - 1
          BY <4>1, <4>4, <1>1, PtrIs DEF FreeStart
        <5>2. tl[w] = sl[w]
          BY <5>1, <4>2, <4>4, <1>2, <1>6
        <5> QED BY <5>2, <4>1
      <4> QED BY <4>3, <4>4
    <3>4. ASSUME sl[y].kind = "start"
          PROVE  \A w \in y + 1..y + sl[y].n - 1 : tl[w] = Busy
      <4> SUFFICES ASSUME NEW w \in y + 1..y + sl[y].n - 1 PROVE tl[w] = Busy
        OBVIOUS
      <4>1. sl[w] = Busy /\ y + sl[y].n <= Pages
        BY <3>1, <3>4 DEF Block
      <4>2. w \in Page
        BY <4>1, <3>1, <1>3
      <4>3. w \notin x..x + m - 1
        BY <4>1, <1>1, PtrIs DEF FreeSet
      <4>4. w # x /\ w \notin T /\ ~(n < m /\ w = z)
        BY <4>3, <1>6, <1>1, <1>3
      <4> QED BY <4>1, <4>2, <4>4, <1>2
    <3> QED BY <3>1, <3>2, <3>3, <3>4 DEF Block
  <2> QED BY <2>1, <2>2, <2>3, <2>4
<1> QED BY <1>7, <1>8, <1>9 DEF Layout, sl, tl

\* The lists without the taken block, or with its rest in its place.
LEMMA TakeChain ==
  ASSUME NEW s, Good(s), NEW x \in Page, FreeStart(s.slab[x]),
         NEW n \in Nat, n > 0, n <= s.slab[x].n
  PROVE  LET t == TakePages(s, x, n) IN Chained(t.next, t.prev, Homes(t.slab))
<1> DEFINE t == TakePages(s, x, n)
           m == s.slab[x].n
           z == x + n
           T == x..x + n - 1
           home == Homes(s.slab)
           home1 == Homes(t.slab)
<1>1. /\ s \in Memory /\ m \in Nat /\ m > 0 /\ x + m <= Pages
      /\ \A y \in x..x + m - 1 : y # x => s.slab[y] = FreeBlock(0) /\ Home(s.slab[y]) = NULL
      /\ Home(s.slab[x]) = free
      /\ s.next[x] \in Node \ (x..x + m - 1) /\ s.prev[x].to \in Node \ (x..x + m - 1)
  BY FreeBlockFacts DEF Good
<1>2. /\ t \in Memory
      /\ \A y \in Page : t.slab[y] = IF y = x THEN Start(n) ELSE IF y \in T THEN Busy
                                     ELSE IF n < m /\ y = z THEN FreeBlock(m - n) ELSE s.slab[y]
      /\ \A y \in Node : t.next[y] = IF y \in T THEN NULL
                                     ELSE IF y = s.prev[x].to THEN IF n < m THEN z ELSE s.next[x]
                                     ELSE IF n < m /\ y = z THEN s.next[x] ELSE s.next[y]
      /\ \A y \in Node : t.prev[y] = IF y \in T THEN Ptr(NULL, "PAGE")
                                     ELSE IF y = s.next[x] THEN IF n < m THEN Ptr(z, "PAGE") ELSE s.prev[x]
                                     ELSE IF n < m /\ y = z THEN s.prev[x]
                                     ELSE IF n < m /\ y = x + m - 1 THEN Ptr(z, "PAGE")
                                     ELSE s.prev[y]
  BY TakeIs
<1>3. x \in Int /\ x >= 0 /\ Pages \in Nat /\ \A y : y \in Page <=> y \in Int /\ 0 <= y /\ y < Pages
  BY NodeFacts, PageSizeType
<1>4. /\ s.slab \in [Page -> SlabRecord] /\ \A y \in Page : Block(s.slab, y)
      /\ t.slab \in [Page -> SlabRecord] /\ \A y \in Page : Block(t.slab, y)
  BY <1>1, <1>2, MemoryParts, TakeLayout DEF Good, Layout
<1>5. /\ home \in [Page -> Heads \cup {NULL}] /\ \A y \in Page : home[y] = Home(s.slab[y])
      /\ home1 \in [Page -> Heads \cup {NULL}] /\ \A y \in Page : home1[y] = Home(t.slab[y])
  BY <1>4, HomesType
<1>6. PICK r \in [Page -> Int] : Chain(s.next, s.prev, home, r)
  BY DEF Good, Chained
<1>7. home[x] = free /\ free # NULL /\ HeadType(free) = "PAGE"
  BY <1>1, <1>5, NodeFacts
<1>8. /\ Home(Start(n)) = NULL /\ Home(Busy) = NULL
      /\ n < m => Home(FreeBlock(m - n)) = free
  BY <1>1, PtrIs DEF Home
<1>9. \A y \in Page : home1[y] = IF y \in T THEN NULL
                                 ELSE IF n < m /\ y = z THEN free ELSE home[y]
  <2>1. x \in T
    BY <1>3
  <2> QED BY <2>1, <1>2, <1>5, <1>8
<1>10. \A y \in x..x + m - 1 : y \in Page /\ (y # x => home[y] = NULL)
  BY <1>1, <1>3, <1>5
<1>11. T \subseteq x..x + m - 1 /\ x \in T
  BY <1>1, <1>3
<1> HIDE DEF t, home, home1
<1>12. CASE n < m
  <2>1. z \in x..x + m - 1 /\ z # x /\ z \in Page /\ home[z] = NULL /\ z \notin T
        /\ x + m - 1 \in x..x + m - 1 /\ x + m - 1 # x
    BY <1>1, <1>3, <1>10, <1>12
  <2>2. home1 = [home EXCEPT ![x] = NULL, ![z] = home[x]]
    <3>1. \A y \in Page : home1[y] = [home EXCEPT ![x] = NULL, ![z] = home[x]][y]
      BY <1>5, <1>7, <1>9, <1>10, <1>11, <1>12, <2>1
    <3> QED BY <3>1, <1>5
  <2>3. \A y \in Node : y \in Heads \/ home1[y] # NULL =>
          t.next[y] = IF y = s.prev[x].to THEN z ELSE IF y = z THEN s.next[x] ELSE s.next[y]
    <3> SUFFICES ASSUME NEW y \in Node, y \in Heads \/ home1[y] # NULL
                 PROVE  t.next[y] = IF y = s.prev[x].to THEN z
                                    ELSE IF y = z THEN s.next[x] ELSE s.next[y]
      OBVIOUS
    <3>1. y \notin T
      BY <1>9, <1>10, <1>11, NodeFacts
    <3> QED BY <3>1, <1>2, <1>12
  <2>4. \A y \in Page : home1[y] # NULL =>
          t.prev[y] = IF y = s.next[x] THEN Ptr(z, HeadType(home[x]))
                      ELSE IF y = z THEN s.prev[x] ELSE s.prev[y]
    <3> SUFFICES ASSUME NEW y \in Page, home1[y] # NULL
                 PROVE  t.prev[y] = IF y = s.next[x] THEN Ptr(z, HeadType(home[x]))
                                    ELSE IF y = z THEN s.prev[x] ELSE s.prev[y]
      OBVIOUS
    <3>1. y \notin T /\ (y = x + m - 1 => y = z) /\ y \in Node
      BY <1>9, <1>10, <1>11, <2>1, NodeFacts
    <3> QED BY <3>1, <1>2, <1>7, <1>12
  <2>5. home[x] # NULL
    BY <1>7
  <2>6. Chained(t.next, t.prev, home1)
    <3>1. Replaced(s.next, s.prev, home, x, z, t.next, t.prev, home1)
      BY <2>2, <2>3, <2>4 DEF Replaced
    <3> QED BY <1>5, <1>6, <2>1, <2>5, <3>1, ReplaceChain
  <2> QED BY <2>6 DEF t, home1
<1>13. CASE ~(n < m)
  <2>1. home1 = [home EXCEPT ![x] = NULL]
    <3>1. \A y \in Page : home1[y] = [home EXCEPT ![x] = NULL][y]
      BY <1>5, <1>7, <1>9, <1>10, <1>11, <1>13
    <3> QED BY <3>1, <1>5
  <2>2. \A y \in Node : y \in Heads \/ home1[y] # NULL =>
          t.next[y] = IF y = s.prev[x].to THEN s.next[x] ELSE s.next[y]
    <3> SUFFICES ASSUME NEW y \in Node, y \in Heads \/ home1[y] # NULL
                 PROVE  t.next[y] = IF y = s.prev[x].to THEN s.next[x] ELSE s.next[y]
      OBVIOUS
    <3>1. y \notin T
      BY <1>9, <1>10, <1>11, NodeFacts
    <3> QED BY <3>1, <1>2, <1>13
  <2>3. \A y \in Page : home1[y] # NULL =>
          t.prev[y] = IF y = s.next[x] THEN s.prev[x] ELSE s.prev[y]
    <3> SUFFICES ASSUME NEW y \in Page, home1[y] # NULL
                 PROVE  t.prev[y] = IF y = s.next[x] THEN s.prev[x] ELSE s.prev[y]
      OBVIOUS
    <3>1. y \notin T /\ y \in Node
      BY <1>9, <1>10, <1>11, NodeFacts
    <3> QED BY <3>1, <1>2, <1>13
  <2>4. home[x] # NULL
    BY <1>7
  <2>5. Chain(t.next, t.prev, home1, r)
    <3>1. Unlinked(s.next, s.prev, home, x, t.next, t.prev, home1)
      BY <2>1, <2>2, <2>3 DEF Unlinked
    <3> QED BY <1>5, <1>6, <2>4, <3>1, UnlinkChain
  <2> QED BY <2>5 DEF t, home1, Chained
<1> QED BY <1>12, <1>13

\* The fields of the pages that are on no list, after pages were taken.
LEMMA TakeMarks ==
  ASSUME NEW s, Good(s), NEW x \in Page, FreeStart(s.slab[x]),
         NEW n \in Nat, n > 0, n <= s.slab[x].n
  PROVE  Marks(TakePages(s, x, n))
<1> DEFINE t == TakePages(s, x, n)
           m == s.slab[x].n
           z == x + n
           T == x..x + n - 1
<1>1. /\ s \in Memory /\ m \in Nat /\ m > 0 /\ x + m <= Pages
      /\ \A y \in x..x + m - 1 : y # x => s.slab[y] = FreeBlock(0) /\ Home(s.slab[y]) = NULL
      /\ Home(s.slab[x]) = free /\ s.prev[x].type = "PAGE"
      /\ s.next[x] \in Node \ (x..x + m - 1) /\ s.prev[x].to \in Node \ (x..x + m - 1)
      /\ s.next[x] \in Page => FreeStart(s.slab[s.next[x]])
      /\ s.prev[x].to \in Page => FreeStart(s.slab[s.prev[x].to])
  BY FreeBlockFacts DEF Good
<1>2. /\ t \in Memory
      /\ \A y \in Page : t.slab[y] = IF y = x THEN Start(n) ELSE IF y \in T THEN Busy
                                     ELSE IF n < m /\ y = z THEN FreeBlock(m - n) ELSE s.slab[y]
      /\ \A y \in Node : t.next[y] = IF y \in T THEN NULL
                                     ELSE IF y = s.prev[x].to THEN IF n < m THEN z ELSE s.next[x]
                                     ELSE IF n < m /\ y = z THEN s.next[x] ELSE s.next[y]
      /\ \A y \in Node : t.prev[y] = IF y \in T THEN Ptr(NULL, "PAGE")
                                     ELSE IF y = s.next[x] THEN IF n < m THEN Ptr(z, "PAGE") ELSE s.prev[x]
                                     ELSE IF n < m /\ y = z THEN s.prev[x]
                                     ELSE IF n < m /\ y = x + m - 1 THEN Ptr(z, "PAGE")
                                     ELSE s.prev[y]
  BY TakeIs
<1>3. x \in Int /\ x >= 0 /\ Pages \in Nat /\ \A y : y \in Page <=> y \in Int /\ 0 <= y /\ y < Pages
  BY NodeFacts, PageSizeType
<1>4. /\ s.slab \in [Page -> SlabRecord] /\ (\A y \in Page : Block(s.slab, y)) /\ Marks(s)
      /\ \A y \in Page : s.slab[y].n \in Nat
  BY <1>1, MemoryParts DEF Good, Layout
<1>5. T \subseteq x..x + m - 1 /\ x \in T /\ (n < m => z \in x..x + m - 1 /\ z # x /\ z \notin T)
  BY <1>1, <1>3
<1>6. /\ Home(Start(n)) = NULL /\ Home(Busy) = NULL /\ ~FreeStart(Start(n)) /\ ~FreeStart(Busy)
      /\ n < m => Home(FreeBlock(m - n)) # NULL
      /\ \A y \in Page : FreeStart(s.slab[y]) => Home(s.slab[y]) # NULL /\ s.slab[y].kind = "free"
  BY <1>1, PtrIs, NodeFacts DEF Home, FreeStart
<1> HIDE DEF t
<1>7. ASSUME NEW y \in Page PROVE Mark(t, y)
  <2>0. y \in Node
    BY NodeFacts
  <2>1. CASE y \in T
    <3>1. Home(t.slab[y]) = NULL /\ t.slab[y].kind # "chunks" /\ t.next[y] = NULL
          /\ t.prev[y].type = "PAGE"
      BY <2>0, <2>1, <1>2, <1>5, <1>6, PtrIs
    <3> QED BY <3>1 DEF Mark
  <2>2. CASE n < m /\ y = z
    <3>1. Home(t.slab[y]) # NULL /\ t.slab[y].kind # "chunks"
      BY <2>2, <1>2, <1>5, <1>6, PtrIs
    <3>2. t.prev[y].type = "PAGE"
      BY <2>0, <2>2, <1>1, <1>2, <1>5, PtrIs
    <3> QED BY <3>1, <3>2 DEF Mark
  <2>3. CASE y \notin T /\ ~(n < m /\ y = z)
    <3>1. t.slab[y] = s.slab[y] /\ Mark(s, y)
      BY <2>3, <1>2, <1>4, <1>5 DEF Marks
    <3>2. y = s.prev[x].to \/ y = s.next[x] => Home(s.slab[y]) # NULL /\ s.slab[y].kind = "free"
      BY <1>1, <1>6
    <3>3. Home(t.slab[y]) = NULL => t.next[y] = NULL
      BY <2>0, <2>3, <3>1, <3>2, <1>2 DEF Mark
    <3>4. t.prev[y].type = IF t.slab[y].kind = "chunks" THEN TypeOf(t.slab[y].n) ELSE "PAGE"
      <4>1. CASE y = s.next[x]
        BY <2>0, <2>3, <4>1, <3>1, <3>2, <1>1, <1>2, PtrIs
      <4>2. CASE y # s.next[x] /\ n < m /\ y = x + m - 1
        <5>1. y \in x..x + m - 1 /\ y # x
          BY <4>2, <1>1, <1>3
        <5>2. s.slab[y].kind = "free"
          BY <5>1, <1>1, PtrIs
        <5> QED BY <2>0, <2>3, <4>2, <5>2, <3>1, <1>2, PtrIs
      <4>3. CASE y # s.next[x] /\ ~(n < m /\ y = x + m - 1)
        BY <2>0, <2>3, <4>3, <3>1, <1>2 DEF Mark
      <4> QED BY <4>1, <4>2, <4>3
    <3> QED BY <3>3, <3>4 DEF Mark
  <2> QED BY <2>1, <2>2, <2>3
<1>8. ASSUME NEW y \in Page, FreeStart(t.slab[y]) PROVE LastLeads(t, y)
  <2>1. y \notin T /\ y \in Node
    BY <1>8, <1>2, <1>5, <1>6, NodeFacts
  <2>2. CASE n < m /\ y = z
    <3>1. t.slab[y].n = m - n /\ y + (m - n) = x + m /\ y \in Int
      BY <2>1, <2>2, <1>1, <1>2, <1>3, <1>5, PtrIs
    <3>2. ASSUME m - n > 1, x + m < Pages PROVE t.prev[x + m - 1] = Ptr(y, "PAGE")
      <4>1. x + m - 1 \in x..x + m - 1 /\ x + m - 1 \notin T /\ x + m - 1 # z /\ x + m - 1 \in Page
        BY <3>2, <1>1, <1>3
      <4>2. x + m - 1 \in Node /\ x + m - 1 # s.next[x]
        BY <4>1, <1>1, NodeFacts
      <4> QED BY <4>1, <4>2, <1>2, <2>2
    <3>3. y + t.slab[y].n - 1 = x + m - 1 /\ y + t.slab[y].n = x + m
      BY <3>1, <1>1, <1>3
    <3> QED BY <3>1, <3>2, <3>3 DEF LastLeads
  <2>3. CASE ~(n < m /\ y = z)
    <3>1. t.slab[y] = s.slab[y] /\ FreeStart(s.slab[y]) /\ y # x
      BY <2>1, <2>3, <1>2, <1>5, <1>8
    <3>2. y + s.slab[y].n <= x \/ x + m <= y
      BY <3>1, <1>4, BlocksApart
    <3>3. y \in Int /\ y >= 0 /\ s.slab[y].n \in Nat
      BY <1>3, <1>4
    <3>4. LastLeads(s, y)
      BY <3>1, <1>4 DEF Marks
    <3>5. ASSUME s.slab[y].n > 1, y + s.slab[y].n < Pages
          PROVE  t.prev[y + s.slab[y].n - 1] = Ptr(y, "PAGE")
      <4> DEFINE l == y + s.slab[y].n - 1
      <4>1. l \notin x..x + m - 1 /\ l \in Page /\ l # y
        BY <3>2, <3>3, <3>5, <1>1, <1>3
      <4>2. s.slab[l] = FreeBlock(0)
        BY <3>1, <3>3, <3>5, <1>4 DEF Block
      <4>3. l # s.next[x] /\ l \in Node
        BY <4>1, <4>2, <1>1, PtrIs, NodeFacts DEF FreeStart
      <4>4. l # z \/ ~(n < m)
        BY <4>1, <1>5
      <4>5. n < m => l # x + m - 1
        BY <4>1, <1>1, <1>3
      <4>6. l \notin T
        BY <4>1, <1>5
      <4>7. t.prev[l] = s.prev[l]
        <5> HIDE DEF l
        <5> QED BY <4>1, <4>3, <4>4, <4>5, <4>6, <1>2
      <4> QED BY <4>7, <3>4, <3>5 DEF LastLeads
    <3> QED BY <3>1, <3>5 DEF LastLeads
  <2> QED BY <2>2, <2>3
<1> QED BY <1>7, <1>8 DEF Marks, t

\* Taking pages from a free block leaves a good memory.
LEMMA TakeGood ==
  ASSUME NEW s, Good(s), NEW x \in Page, FreeStart(s.slab[x]),
         NEW n \in Nat, n > 0, n <= s.slab[x].n
  PROVE  Good(TakePages(s, x, n))
<1>1. TakePages(s, x, n) \in Memory
  BY TakeIs
<1> QED BY <1>1, TakeLayout, TakeChain, TakeMarks DEF Good

-----------------------------------------------------------------------------
(* Giving pages back.                                                      *)

\* The block at x is free but on no list yet, and may have free neighbours.
Loose(s, x) ==
  /\ s \in Memory /\ \A y \in Page : Block(s.slab, y)
  /\ FreeStart(s.slab[x])
  /\ \A y \in Page : FreeStart(s.slab[y]) /\ y # x /\ y + s.slab[y].n # x => Apart(s.slab, y)
  /\ \A y \in Page : y # x => Mark(s, y) /\ (FreeStart(s.slab[y]) => LastLeads(s, y))
  /\ Chained(s.next, s.prev, [Homes(s.slab) EXCEPT ![x] = NULL])

\* Two adjacent free blocks made one.
Merged(sl, a, b, tl) ==
  /\ tl \in [Page -> SlabRecord]
  /\ \A y \in Page : tl[y] = IF y = a THEN FreeBlock(sl[a].n + sl[b].n)
                             ELSE IF y = b THEN FreeBlock(0) ELSE sl[y]

\* The blocks a and b made one, l of which leaves the free list.
Joined(s, a, b, l) ==
  Absorb(Unlink([s EXCEPT !.slab[a].n = s.slab[a].n + s.slab[b].n], l), b)

\* Merging adjacent free blocks leaves blocks, and the same pages free.
LEMMA MergeBlocks ==
  ASSUME NEW sl \in [Page -> SlabRecord], \A y \in Page : Block(sl, y),
         NEW a \in Page, NEW b \in Page, FreeStart(sl[a]), FreeStart(sl[b]), b = a + sl[a].n,
         NEW tl, Merged(sl, a, b, tl)
  PROVE  /\ \A y \in Page : Block(tl, y)
         /\ \A y \in Page : tl[y].kind = sl[y].kind
         /\ FreeStart(tl[a]) /\ tl[a].n = sl[a].n + sl[b].n
         /\ \A y \in Page : y # a /\ FreeStart(tl[y]) => tl[y] = sl[y] /\ y # b
         /\ \A y \in Page : y # a /\ y # b => tl[y] = sl[y]
<1>1. /\ sl[a].n \in Nat /\ sl[b].n \in Nat /\ sl[a].n > 0 /\ sl[b].n > 0 /\ a # b
      /\ a \in Int /\ b \in Int /\ a >= 0 /\ Pages \in Nat
      /\ sl[a].kind = "free" /\ sl[b].kind = "free"
  BY NodeFacts, PageSizeType DEF SlabRecord, FreeStart
<1>2. \A y \in Page : tl[y] = IF y = a THEN FreeBlock(sl[a].n + sl[b].n)
                              ELSE IF y = b THEN FreeBlock(0) ELSE sl[y]
  BY DEF Merged
<1>3. \A y \in Page : tl[y].kind = sl[y].kind
  BY <1>1, <1>2, PtrIs
<1>4. FreeStart(tl[a]) /\ tl[a].n = sl[a].n + sl[b].n /\ tl[b] = FreeBlock(0) /\ tl[a].map = {}
  BY <1>1, <1>2, PtrIs DEF FreeStart
<1>5. \A y \in Page : y # a /\ FreeStart(tl[y]) => tl[y] = sl[y] /\ y # b
  BY <1>2, <1>4, PtrIs DEF FreeStart
<1>6. /\ b + sl[b].n <= Pages
      /\ \A w \in a + 1..a + sl[a].n - 1 : sl[w] = FreeBlock(0)
      /\ \A w \in b + 1..b + sl[b].n - 1 : sl[w] = FreeBlock(0)
  BY DEF Block
<1>7. ASSUME NEW y \in Page PROVE Block(tl, y)
  <2>0. y \in Int /\ y >= 0 /\ y < Pages /\ sl[y].n \in Nat
        /\ \A w : w \in Page <=> w \in Int /\ 0 <= w /\ w < Pages
    BY NodeFacts DEF SlabRecord
  <2>1. CASE y = a
    <3>1. ASSUME NEW w \in a + 1..a + (sl[a].n + sl[b].n) - 1 PROVE tl[w] = FreeBlock(0)
      <4>1. w \in Page /\ w # a
        BY <1>1, <1>6, <2>0, <2>1
      <4>2. w = b \/ w \in a + 1..a + sl[a].n - 1 \/ w \in b + 1..b + sl[b].n - 1
        BY <1>1
      <4> QED BY <4>1, <4>2, <1>2, <1>6
    <3>2. a + (sl[a].n + sl[b].n) <= Pages
      BY <1>1, <1>6
    <3> QED BY <2>1, <3>1, <3>2, <1>1, <1>4, <1>3 DEF Block
  <2>2. CASE y = b
    <3>1. a \in 0..b - 1 /\ b < a + tl[a].n
      BY <1>1, <1>4
    <3> QED BY <2>2, <3>1, <1>4, PtrIs DEF Block, FreeStart
  <2>3. CASE y # a /\ y # b
    <3>1. tl[y] = sl[y] /\ Block(sl, y)
      BY <2>3, <1>2
    <3>2. ASSUME FreeStart(sl[y])
          PROVE  \A w \in y + 1..y + sl[y].n - 1 : tl[w] = FreeBlock(0)
      <4> SUFFICES ASSUME NEW w \in y + 1..y + sl[y].n - 1 PROVE tl[w] = FreeBlock(0)
        OBVIOUS
      <4>1. sl[w] = FreeBlock(0) /\ y + sl[y].n <= Pages
        BY <3>1, <3>2 DEF Block
      <4>2. w \in Page /\ w # a
        BY <4>1, <1>1, <2>0, PtrIs DEF FreeStart
      <4> QED BY <4>1, <4>2, <1>2
    <3>3. ASSUME sl[y].kind = "free", sl[y].n = 0
          PROVE  \E w \in 0..y - 1 : FreeStart(tl[w]) /\ y < w + tl[w].n
      <4>1. PICK w \in 0..y - 1 : FreeStart(sl[w]) /\ y < w + sl[w].n
        BY <3>1, <3>3 DEF Block
      <4>2. w \in Page /\ w \in Int /\ sl[w].n \in Nat
        BY <2>0, <1>1 DEF SlabRecord
      <4>3. CASE w = a \/ w = b
        <5>1. a \in 0..y - 1 /\ y < a + tl[a].n
          BY <4>1, <4>2, <4>3, <1>1, <1>4, <2>0
        <5> QED BY <5>1, <1>4
      <4>4. CASE w # a /\ w # b
        BY <4>1, <4>2, <4>4, <1>2
      <4> QED BY <4>3, <4>4
    <3>4. ASSUME sl[y].kind = "start"
          PROVE  \A w \in y + 1..y + sl[y].n - 1 : tl[w] = Busy
      <4> SUFFICES ASSUME NEW w \in y + 1..y + sl[y].n - 1 PROVE tl[w] = Busy
        OBVIOUS
      <4>1. sl[w] = Busy /\ y + sl[y].n <= Pages
        BY <3>1, <3>4 DEF Block
      <4>2. w \in Page /\ w # a /\ w # b
        BY <4>1, <1>1, <2>0, PtrIs DEF FreeStart
      <4> QED BY <4>1, <4>2, <1>2
    <3> QED BY <3>1, <3>2, <3>3, <3>4 DEF Block
  <2> QED BY <2>1, <2>2, <2>3
<1> QED BY <1>2, <1>3, <1>4, <1>5, <1>7

\* What a merge makes, under one name.
OneBlock(sl, a, b, tl) ==
  /\ \A y \in Page : Block(tl, y)
  /\ \A y \in Page : tl[y].kind = sl[y].kind
  /\ FreeStart(tl[a]) /\ tl[a].n = sl[a].n + sl[b].n
  /\ \A y \in Page : y # a /\ FreeStart(tl[y]) => tl[y] = sl[y] /\ y # b
  /\ \A y \in Page : y # a /\ y # b => tl[y] = sl[y]

\* Merging two free blocks that lie next to each other makes one.
LEMMA MergedIsOne ==
  ASSUME NEW sl \in [Page -> SlabRecord], \A y \in Page : Block(sl, y),
         NEW a \in Page, NEW b \in Page, FreeStart(sl[a]), FreeStart(sl[b]), b = a + sl[a].n,
         NEW tl, Merged(sl, a, b, tl)
  PROVE  OneBlock(sl, a, b, tl)
BY MergeBlocks DEF OneBlock

\* What absorbing a neighbour does to the fields.
LEMMA AbsorbIs ==
  ASSUME NEW s \in Memory, NEW a \in Page, NEW b \in Page, NEW l \in Page, a # b,
         s.next[l] \in Node, s.prev[l].to \in Node,
         s.slab[a] = FreeBlock(s.slab[a].n)
  PROVE  LET t == Joined(s, a, b, l)
         IN  /\ t \in Memory /\ t.pfree = s.pfree
             /\ Merged(s.slab, a, b, t.slab)
             /\ \A y \in Node : t.next[y] = IF y = b THEN NULL
                                            ELSE IF y = s.prev[l].to THEN s.next[l] ELSE s.next[y]
             /\ \A y \in Node : t.prev[y] = IF y = b THEN Ptr(NULL, "PAGE")
                                            ELSE IF y = s.next[l] THEN s.prev[l] ELSE s.prev[y]
<1> DEFINE k == s.slab[a].n + s.slab[b].n
           sl == [s.slab EXCEPT ![a] = FreeBlock(k)]
           u == [s EXCEPT !.slab[a].n = k]
           v == Unlink(u, l)
           t == Absorb(v, b)
<1>1. k \in Nat /\ FreeBlock(k) \in SlabRecord /\ sl \in [Page -> SlabRecord]
  BY MemoryParts, PtrIs
<1>2. u = [s EXCEPT !.slab = sl]
  <2>1. [s.slab[a] EXCEPT !.n = k] = FreeBlock(k)
    <3>1. [FreeBlock(s.slab[a].n) EXCEPT !.n = k] = FreeBlock(k)
      BY DEF FreeBlock
    <3> QED BY <3>1
  <2>2. [s.slab EXCEPT ![a].n = k] = sl
    BY <2>1, MemoryParts
  <2> QED BY <2>2 DEF Memory
<1>3. u \in Memory /\ u.slab = sl /\ u.next = s.next /\ u.prev = s.prev /\ u.pfree = s.pfree
  BY <1>1, <1>2 DEF Memory
<1> HIDE DEF u, sl
<1>4. /\ v \in Memory /\ v.slab = sl /\ v.pfree = s.pfree
      /\ \A y \in Node : v.next[y] = IF y = s.prev[l].to THEN s.next[l] ELSE s.next[y]
      /\ \A y \in Node : v.prev[y] = IF y = s.next[l] THEN s.prev[l] ELSE s.prev[y]
  BY <1>3, UnlinkIs
<1> HIDE DEF v
<1>5. b \in Node /\ FreeBlock(0) \in SlabRecord /\ Ptr(NULL, "PAGE") \in Pointer
  BY NodeFacts, PtrIs DEF Types
<1> DEFINE sl2 == [v.slab EXCEPT ![b] = FreeBlock(0)]
           n2 == [v.next EXCEPT ![b] = NULL]
           p2 == [v.prev EXCEPT ![b] = Ptr(NULL, "PAGE")]
<1>6. t = [v EXCEPT !.slab = sl2, !.next = n2, !.prev = p2]
  BY <1>4 DEF Absorb, Memory
<1>7. /\ sl2 \in [Page -> SlabRecord] /\ n2 \in [Node -> Node \cup {NULL}]
      /\ p2 \in [Node -> Pointer]
  BY <1>4, <1>5, MemoryParts
<1>8. t \in Memory /\ t.slab = sl2 /\ t.next = n2 /\ t.prev = p2 /\ t.pfree = s.pfree
  <2> HIDE DEF sl2, n2, p2
  <2> QED BY <1>4, <1>6, <1>7 DEF Memory
<1>9. \A y \in Page : sl2[y] = IF y = a THEN FreeBlock(k) ELSE IF y = b THEN FreeBlock(0) ELSE s.slab[y]
  BY <1>4, MemoryParts DEF sl
<1>10. Merged(s.slab, a, b, t.slab)
  BY <1>7, <1>8, <1>9 DEF Merged
<1>11. /\ \A y \in Node : n2[y] = IF y = b THEN NULL
                                  ELSE IF y = s.prev[l].to THEN s.next[l] ELSE s.next[y]
       /\ \A y \in Node : p2[y] = IF y = b THEN Ptr(NULL, "PAGE")
                                  ELSE IF y = s.next[l] THEN s.prev[l] ELSE s.prev[y]
  BY <1>4, MemoryParts
<1> HIDE DEF n2, p2, sl2, t
<1>12. /\ t \in Memory /\ t.pfree = s.pfree /\ Merged(s.slab, a, b, t.slab)
       /\ \A y \in Node : t.next[y] = IF y = b THEN NULL
                                      ELSE IF y = s.prev[l].to THEN s.next[l] ELSE s.next[y]
       /\ \A y \in Node : t.prev[y] = IF y = b THEN Ptr(NULL, "PAGE")
                                      ELSE IF y = s.next[l] THEN s.prev[l] ELSE s.prev[y]
  BY <1>8, <1>10, <1>11
<1> QED BY <1>12 DEF t, v, u, Joined

\* The neighbours in its list of a free block other than the loose one.
LEMMA LooseNeighbours ==
  ASSUME NEW s, NEW c \in Page, Loose(s, c), NEW l \in Page, l # c, FreeStart(s.slab[l])
  PROVE  /\ s.next[l] \in Node /\ s.next[l] # c /\ s.next[l] # l
         /\ s.prev[l].to \in Node /\ s.prev[l].to # c /\ s.prev[l].to # l
         /\ s.prev[l].type = "PAGE"
         /\ s.next[l] \in Page => FreeStart(s.slab[s.next[l]])
         /\ s.prev[l].to \in Page => FreeStart(s.slab[s.prev[l].to])
<1> DEFINE home == [Homes(s.slab) EXCEPT ![c] = NULL]
<1>1. s \in Memory /\ (\A y \in Page : Block(s.slab, y)) /\ Mark(s, l) /\ FreeStart(s.slab[c])
  BY DEF Loose
<1>2. s.slab \in [Page -> SlabRecord]
  BY <1>1, MemoryParts
<1>3. /\ Homes(s.slab) \in [Page -> Heads \cup {NULL}]
      /\ \A y \in Page : Homes(s.slab)[y] = Home(s.slab[y])
      /\ \A y \in Page : Home(s.slab[y]) = free <=> FreeStart(s.slab[y])
  BY <1>1, <1>2, HomesType
<1>4. /\ home \in [Page -> Heads \cup {NULL}]
      /\ \A y \in Page : home[y] = IF y = c THEN NULL ELSE Home(s.slab[y])
  BY <1>3
<1>5. home[l] = free /\ free # NULL /\ free \notin Page /\ home[l] # NULL
  BY <1>3, <1>4, NodeFacts
<1>6. PICK r \in [Page -> Int] : Chain(s.next, s.prev, home, r)
  BY DEF Loose, Chained
<1> HIDE DEF home
<1>7. /\ s.next[l] \in Node /\ s.next[l] # l /\ s.prev[l].to \in Node /\ s.prev[l].to # l
      /\ s.next[l] \in Page => home[s.next[l]] = home[l]
      /\ s.prev[l].to \in Page => home[s.prev[l].to] = home[l]
  <2>1. home \in [Page -> Heads \cup {NULL}] /\ home[l] # NULL
    BY <1>4, <1>5
  <2> QED BY <2>1, <1>6, Neighbours
<1>8. s.next[l] # c /\ s.prev[l].to # c
  BY <1>4, <1>5, <1>7
<1>9. s.prev[l].type = "PAGE"
  BY <1>1 DEF Mark, FreeStart
<1> QED BY <1>3, <1>4, <1>5, <1>7, <1>8, <1>9

\* A free neighbour of the loose block c, the block l before or after it, is made
\* one block with it, which is loose then.
LEMMA JoinLoose ==
  ASSUME NEW s, NEW c \in Page, Loose(s, c), NEW l \in Page, l # c, FreeStart(s.slab[l]),
         NEW a \in Page, NEW b \in Page, b = a + s.slab[a].n,
         (a = c /\ b = l) \/ (a = l /\ b = c)
  PROVE  LET t == Joined(s, a, b, l)
         IN  /\ Loose(t, a) /\ t.pfree = s.pfree
             /\ \A y \in Page : t.slab[y].kind = s.slab[y].kind
             /\ \A y \in Page : s.slab[y].kind # "free" => t.slab[y] = s.slab[y]
             /\ Apart(s.slab, b) => Apart(t.slab, a)
             /\ b = c => \A y \in Page : FreeStart(t.slab[y]) /\ y # a => Apart(t.slab, y)
<1> DEFINE t == Joined(s, a, b, l)
           sl == s.slab
           tl == t.slab
           home == [Homes(sl) EXCEPT ![c] = NULL]
           home1 == [Homes(tl) EXCEPT ![a] = NULL]
<1>1. s \in Memory /\ (\A y \in Page : Block(sl, y)) /\ FreeStart(sl[a]) /\ FreeStart(sl[b])
      /\ FreeStart(sl[c])
  BY DEF Loose
<1>2. sl \in [Page -> SlabRecord] /\ (\A y \in Page : sl[y].n \in Nat) /\ a # b
      /\ a \in Int /\ b \in Int /\ a >= 0 /\ Pages \in Nat /\ sl[a].n > 0 /\ sl[b].n > 0
      /\ sl[a].kind = "free" /\ sl[b].kind = "free"
      /\ \A y : y \in Page <=> y \in Int /\ 0 <= y /\ y < Pages
  BY <1>1, MemoryParts, NodeFacts, PageSizeType DEF FreeStart
<1>3. sl[a] = FreeBlock(sl[a].n)
  BY <1>1, MemoryParts, ContentIs DEF FreeStart, Block
<1>4. /\ s.next[l] \in Node /\ s.next[l] # c /\ s.next[l] # l
      /\ s.prev[l].to \in Node /\ s.prev[l].to # c /\ s.prev[l].to # l
      /\ s.prev[l].type = "PAGE"
      /\ s.next[l] \in Page => FreeStart(sl[s.next[l]])
      /\ s.prev[l].to \in Page => FreeStart(sl[s.prev[l].to])
  BY LooseNeighbours
<1>5. /\ t \in Memory /\ t.pfree = s.pfree /\ Merged(sl, a, b, tl)
      /\ \A y \in Node : t.next[y] = IF y = b THEN NULL
                                     ELSE IF y = s.prev[l].to THEN s.next[l] ELSE s.next[y]
      /\ \A y \in Node : t.prev[y] = IF y = b THEN Ptr(NULL, "PAGE")
                                     ELSE IF y = s.next[l] THEN s.prev[l] ELSE s.prev[y]
  <2>1. s \in Memory /\ a # b /\ s.next[l] \in Node /\ s.prev[l].to \in Node
    BY <1>1, <1>2, <1>4
  <2>2. s.slab[a] = FreeBlock(s.slab[a].n)
    BY <1>3
  <2> HIDE DEF t
  <2>3. /\ Joined(s, a, b, l) \in Memory /\ Joined(s, a, b, l).pfree = s.pfree
        /\ Merged(s.slab, a, b, Joined(s, a, b, l).slab)
        /\ \A y \in Node : Joined(s, a, b, l).next[y] = IF y = b THEN NULL
                                       ELSE IF y = s.prev[l].to THEN s.next[l] ELSE s.next[y]
        /\ \A y \in Node : Joined(s, a, b, l).prev[y] = IF y = b THEN Ptr(NULL, "PAGE")
                                       ELSE IF y = s.next[l] THEN s.prev[l] ELSE s.prev[y]
    BY <2>1, <2>2, AbsorbIs
  <2> QED BY <2>3 DEF t
<1> HIDE DEF t, sl
<1>6. /\ \A y \in Page : Block(tl, y)
      /\ \A y \in Page : tl[y].kind = sl[y].kind
      /\ FreeStart(tl[a]) /\ tl[a].n = sl[a].n + sl[b].n
      /\ \A y \in Page : y # a /\ FreeStart(tl[y]) => tl[y] = sl[y] /\ y # b
      /\ \A y \in Page : y # a /\ y # b => tl[y] = sl[y]
  <2>1. PICK ol, nl : ol = sl /\ nl = tl
    OBVIOUS
  <2>2. /\ ol \in [Page -> SlabRecord] /\ (\A y \in Page : Block(ol, y))
        /\ FreeStart(ol[a]) /\ FreeStart(ol[b]) /\ b = a + ol[a].n /\ Merged(ol, a, b, nl)
    <3>1. b = a + sl[a].n
      BY DEF sl
    <3> QED BY <3>1, <2>1, <1>1, <1>2, <1>5
  <2>3. OneBlock(ol, a, b, nl)
    BY <2>2, MergedIsOne
  <2>4. OneBlock(sl, a, b, tl)
    BY <2>1, <2>3
  <2> QED BY <2>4 DEF OneBlock
<1>7. tl \in [Page -> SlabRecord] /\ tl[b] = FreeBlock(0)
  BY <1>2, <1>5 DEF Merged
<1>8. ASSUME NEW y \in Page, FreeStart(tl[y]), y # a, y + sl[y].n # c
      PROVE  Apart(tl, y)
  <2>1. tl[y] = sl[y] /\ y # b
    BY <1>6, <1>8
  <2>2. Apart(sl, y)
    BY <2>1, <1>8 DEF Loose, sl
  <2>3. y + sl[y].n < Pages => y + sl[y].n \in Page
    BY <1>2
  <2> QED BY <2>1, <2>2, <2>3, <1>6 DEF Apart
<1>9. ASSUME NEW y \in Page, FreeStart(tl[y]), y # a, y + tl[y].n # a
      PROVE  Apart(tl, y)
  <2>1. tl[y] = sl[y] /\ y # b
    BY <1>6, <1>9
  <2>2. y + sl[y].n <= a \/ a + sl[a].n <= y
    BY <2>1, <1>9, <1>1, <1>2, BlocksApart
  <2>3. y + sl[y].n # b
    BY <2>2, <1>2, <1>9, <2>1 DEF sl
  <2>4. y + sl[y].n # c
    BY <2>1, <2>3, <1>9
  <2> QED BY <2>4, <1>8, <1>9
<1>10. ASSUME b = c, NEW y \in Page, FreeStart(tl[y]), y # a
       PROVE  Apart(tl, y)
  <2>1. tl[y] = sl[y] /\ y # b
    BY <1>6, <1>10
  <2>2. y + sl[y].n <= a \/ a + sl[a].n <= y
    BY <2>1, <1>10, <1>1, <1>2, BlocksApart
  <2>3. y + sl[y].n # b
    BY <2>2, <1>2, <1>10, <2>1 DEF sl
  <2> QED BY <2>3, <1>8, <1>10
<1>11. ASSUME Apart(sl, b) PROVE Apart(tl, a)
  <2>1. a + tl[a].n = b + sl[b].n
    BY <1>2, <1>6 DEF sl
  <2>2. b + sl[b].n < Pages => b + sl[b].n \in Page
    BY <1>2
  <2> QED BY <2>1, <2>2, <1>6, <1>11 DEF Apart
<1>12. /\ Homes(sl) \in [Page -> Heads \cup {NULL}]
       /\ \A y \in Page : Homes(sl)[y] = Home(sl[y])
       /\ Homes(tl) \in [Page -> Heads \cup {NULL}]
       /\ \A y \in Page : Homes(tl)[y] = Home(tl[y])
       /\ \A y \in Page : Home(sl[y]) = free <=> FreeStart(sl[y])
       /\ \A y \in Page : Home(tl[y]) = free <=> FreeStart(tl[y])
  BY <1>1, <1>2, <1>6, <1>7, HomesType
<1>13. Home(tl[b]) = NULL /\ tl[b].kind = "free" /\ free # NULL /\ free \notin Page
  BY <1>7, PtrIs, NodeFacts DEF Home
<1>14. ASSUME NEW y \in Page, y # a
       PROVE  Mark(t, y) /\ (FreeStart(tl[y]) => LastLeads(t, y))
  <2>0. y \in Node
    BY NodeFacts
  <2>1. CASE y = b
    <3>1. t.next[y] = NULL /\ t.prev[y].type = "PAGE" /\ ~FreeStart(tl[y])
      BY <2>0, <2>1, <1>5, <1>7, PtrIs DEF FreeStart
    <3> QED BY <3>1, <2>1, <1>13 DEF Mark
  <2>2. CASE y # b
    <3>1. tl[y] = sl[y] /\ y # c /\ y # l
      BY <2>2, <1>6, <1>14
    <3>2. Mark(s, y) /\ (FreeStart(sl[y]) => LastLeads(s, y))
      BY <3>1 DEF Loose, sl
    <3>3. y = s.prev[l].to \/ y = s.next[l] => Home(sl[y]) # NULL /\ sl[y].kind = "free"
      BY <1>4, <1>12, <1>13 DEF FreeStart
    <3>4. Home(tl[y]) = NULL => t.next[y] = NULL
      BY <2>0, <2>2, <3>1, <3>2, <3>3, <1>5 DEF Mark, sl
    <3>5. t.prev[y].type = IF tl[y].kind = "chunks" THEN TypeOf(tl[y].n) ELSE "PAGE"
      <4>1. CASE y = s.next[l]
        BY <2>0, <2>2, <4>1, <3>1, <3>3, <1>4, <1>5
      <4>2. CASE y # s.next[l]
        BY <2>0, <2>2, <4>2, <3>1, <3>2, <1>5 DEF Mark, sl
      <4> QED BY <4>1, <4>2
    <3>6. ASSUME FreeStart(tl[y]), sl[y].n > 1, y + sl[y].n < Pages
          PROVE  t.prev[y + sl[y].n - 1] = Ptr(y, "PAGE")
      <4> DEFINE z == y + sl[y].n - 1
      <4>1. z \in Page /\ z # y /\ z \in y + 1..y + sl[y].n - 1
        BY <3>6, <1>2
      <4>2. sl[z] = FreeBlock(0) /\ ~FreeStart(sl[z])
        BY <4>1, <3>1, <3>6, <1>1, PtrIs DEF Block, FreeStart
      <4>3. z # b /\ z # s.next[l] /\ z \in Node
        BY <4>1, <4>2, <1>1, <1>4, NodeFacts
      <4>4. t.prev[z] = s.prev[z]
        <5> HIDE DEF z
        <5> QED BY <4>3, <1>5
      <4>5. s.prev[z] = Ptr(y, "PAGE")
        BY <3>1, <3>2, <3>6 DEF LastLeads, sl
      <4> QED BY <4>4, <4>5
    <3> QED BY <3>1, <3>4, <3>5, <3>6 DEF Mark, LastLeads
  <2> QED BY <2>1, <2>2
<1>15. Chained(t.next, t.prev, home1)
  <2>1. home \in [Page -> Heads \cup {NULL}] /\ home1 \in [Page -> Heads \cup {NULL}]
        /\ (\A y \in Page : home[y] = IF y = c THEN NULL ELSE Home(sl[y]))
        /\ \A y \in Page : home1[y] = IF y = a THEN NULL ELSE Home(tl[y])
    BY <1>12
  <2>2. PICK r \in [Page -> Int] : Chain(s.next, s.prev, home, r)
    BY DEF Loose, Chained, sl
  <2> HIDE DEF home, home1
  <2>3. home[l] # NULL
    BY <2>1, <1>1, <1>12, <1>13 DEF sl
  <2>4. home1 = [home EXCEPT ![l] = NULL]
    <3>1. \A y \in Page : home1[y] = [home EXCEPT ![l] = NULL][y]
      BY <2>1, <1>6, <1>13
    <3> QED BY <3>1, <2>1
  <2>5. \A y \in Page : home1[y] # NULL => y # b
    BY <2>1, <1>13
  <2>6. Unlinked(s.next, s.prev, home, l, t.next, t.prev, home1)
    <3>1. ASSUME NEW y \in Node, y \in Heads \/ home1[y] # NULL
          PROVE  t.next[y] = IF y = s.prev[l].to THEN s.next[l] ELSE s.next[y]
      <4>1. y # b
        BY <3>1, <2>5, NodeFacts
      <4> QED BY <4>1, <1>5
    <3>2. ASSUME NEW y \in Page, home1[y] # NULL
          PROVE  t.prev[y] = IF y = s.next[l] THEN s.prev[l] ELSE s.prev[y]
      <4>1. y # b /\ y \in Node
        BY <3>2, <2>5, NodeFacts
      <4> QED BY <4>1, <1>5
    <3> QED BY <2>4, <3>1, <3>2 DEF Unlinked
  <2>7. Chain(t.next, t.prev, home1, r)
    BY <2>1, <2>2, <2>3, <2>6, UnlinkChain
  <2> QED BY <2>7 DEF Chained
<1>16. Loose(t, a)
  BY <1>5, <1>6, <1>9, <1>14, <1>15 DEF Loose
<1>17. \A y \in Page : sl[y].kind # "free" => tl[y] = sl[y]
  BY <1>2, <1>6
<1> QED BY <1>5, <1>6, <1>10, <1>11, <1>16, <1>17 DEF t, sl

\* The neighbours of a listed page of a good memory are of its list.
LEMMA GoodNeighbours ==
  ASSUME NEW s, Good(s), NEW x \in Page, Home(s.slab[x]) # NULL
  PROVE  /\ Home(s.slab[x]) \in Heads
         /\ s.next[x] \in Node /\ s.prev[x].to \in Node
         /\ s.next[x] # x /\ s.prev[x].to # x
         /\ s.next[x] \in Page => Home(s.slab[s.next[x]]) = Home(s.slab[x])
         /\ s.prev[x].to \in Page => Home(s.slab[s.prev[x].to]) = Home(s.slab[x])
         /\ s.prev[x].type = HeadType(Home(s.slab[x]))
<1>1. PICK home : home = Homes(s.slab)
  OBVIOUS
<1>2. s.slab \in [Page -> SlabRecord] /\ \A y \in Page : Block(s.slab, y)
  BY MemoryParts DEF Good, Layout
<1>3. home \in [Page -> Heads \cup {NULL}] /\ \A y \in Page : home[y] = Home(s.slab[y])
  BY <1>1, <1>2, HomesType
<1>4. PICK r \in [Page -> Int] : Chain(s.next, s.prev, home, r)
  BY <1>1 DEF Good, Chained
<1>5. home[x] # NULL
  BY <1>3
<1>6. /\ home[x] \in Heads /\ s.next[x] \in Node /\ s.next[x] # x
      /\ s.prev[x].to \in Node /\ s.prev[x].to # x
      /\ s.next[x] \in Page => home[s.next[x]] = home[x]
      /\ s.prev[x].to \in Page => home[s.prev[x].to] = home[x]
  <2>1. Beside(s.next, s.prev, home, r, x)
    BY <1>3, <1>4, <1>5, ListNeighbours
  <2> QED BY <2>1 DEF Beside
<1>7. s.prev[x].type = HeadType(home[x])
  BY <1>4, <1>5 DEF Chain, InList
<1> QED BY <1>3, <1>6, <1>7

\* A page that holds n allocated pages, or one page of chunks.
Taken(sl, x, n) ==
  \/ sl[x].kind = "start" /\ n = sl[x].n
  \/ sl[x].kind = "chunks" /\ n = 1

\* What is known of allocated pages in a good memory.
LEMMA TakenFacts ==
  ASSUME NEW s, Good(s), NEW x \in Page, NEW n, Taken(s.slab, x, n)
  PROVE  LET T == x + 1..x + n - 1
         IN  /\ n \in Nat /\ n > 0 /\ x + n <= Pages
             /\ T \subseteq Page /\ x \notin T
             /\ \A y \in T : s.slab[y] = Busy /\ Home(s.slab[y]) = NULL
             /\ s.slab[x].kind # "free"
             /\ Home(s.slab[x]) = NULL <=> s.next[x] = NULL
             /\ Home(s.slab[x]) # NULL =>
                  /\ s.next[x] \in Node /\ s.prev[x].to \in Node
                  /\ s.next[x] \notin T /\ s.prev[x].to \notin T
                  /\ s.next[x] # x /\ s.prev[x].to # x
                  /\ s.prev[x].type = TypeOf(s.slab[x].n)
                  /\ s.next[x] \in Page => /\ Home(s.slab[s.next[x]]) # NULL
                                           /\ s.slab[s.next[x]].kind = "chunks"
                                           /\ s.slab[s.next[x]].n = s.slab[x].n
                  /\ s.prev[x].to \in Page => Home(s.slab[s.prev[x].to]) # NULL
<1> DEFINE T == x + 1..x + n - 1
           sl == s.slab
           home == Homes(sl)
<1>1. s \in Memory /\ (\A y \in Page : Block(sl, y)) /\ Marks(s) /\ sl \in [Page -> SlabRecord]
      /\ \A y \in Page : sl[y].n \in Nat
  BY MemoryParts DEF Good, Layout
<1>2. x \in Int /\ x >= 0 /\ x < Pages /\ Pages \in Nat
      /\ \A y : y \in Page <=> y \in Int /\ 0 <= y /\ y < Pages
  BY NodeFacts, PageSizeType
<1>3. n \in Nat /\ n > 0 /\ x + n <= Pages /\ (\A y \in T : sl[y] = Busy)
      /\ sl[x].kind # "free" /\ sl[x].kind \in {"start", "chunks"}
  <2>1. CASE sl[x].kind = "start" /\ n = sl[x].n
    BY <2>1, <1>1, <1>2 DEF Block
  <2>2. CASE sl[x].kind = "chunks" /\ n = 1
    BY <2>2, <1>1, <1>2
  <2> QED BY <2>1, <2>2 DEF Taken
<1>4. T \subseteq Page /\ x \notin T
  BY <1>2, <1>3
<1>5. /\ home \in [Page -> Heads \cup {NULL}] /\ \A y \in Page : home[y] = Home(sl[y])
      /\ \A y \in Page : Home(sl[y]) = free <=> FreeStart(sl[y])
      /\ \A y \in Page : sl[y].kind \in {"start", "busy"} => Home(sl[y]) = NULL
      /\ \A y \in Page : sl[y].kind = "chunks" =>
           Home(sl[y]) = IF Full(sl[y].n, sl[y].map) THEN NULL ELSE SlotHead(sl[y].n - MinShift)
      /\ \A y \in Page : sl[y].kind = "chunks" => sl[y].n - MinShift \in Slots
  BY <1>1, HomesType
<1>6. \A y \in T : Home(sl[y]) = NULL
  BY <1>3, <1>4, <1>5, PtrIs
<1>8. Home(sl[x]) = NULL => s.next[x] = NULL
  BY <1>1 DEF Marks, Mark
<1>9. ASSUME Home(sl[x]) # NULL
      PROVE  /\ s.next[x] \in Node /\ s.prev[x].to \in Node
             /\ s.next[x] # x /\ s.prev[x].to # x
             /\ s.next[x] \in Page => Home(sl[s.next[x]]) = Home(sl[x])
             /\ s.prev[x].to \in Page => Home(sl[s.prev[x].to]) = Home(sl[x])
  BY <1>9, GoodNeighbours
<1>10. ASSUME Home(sl[x]) # NULL
       PROVE  /\ s.next[x] \notin T /\ s.prev[x].to \notin T
              /\ s.prev[x].type = TypeOf(sl[x].n)
              /\ s.next[x] \in Page => /\ sl[s.next[x]].kind = "chunks"
                                       /\ sl[s.next[x]].n = sl[x].n
  <2>1. sl[x].kind = "chunks" /\ sl[x].n - MinShift \in Slots
        /\ Home(sl[x]) = SlotHead(sl[x].n - MinShift)
    BY <1>3, <1>5, <1>10
  <2>2. s.prev[x].type = TypeOf(sl[x].n)
    BY <2>1, <1>1 DEF Marks, Mark
  <2>3. s.next[x] \notin T /\ s.prev[x].to \notin T
    BY <1>4, <1>6, <1>9, <1>10
  <2>4. ASSUME s.next[x] \in Page
        PROVE  sl[s.next[x]].kind = "chunks" /\ sl[s.next[x]].n = sl[x].n
    <3> DEFINE y == s.next[x]
    <3>1. Home(sl[y]) = SlotHead(sl[x].n - MinShift) /\ Home(sl[y]) # NULL /\ Home(sl[y]) # free
      BY <2>1, <2>4, <1>9, <1>10, NodeFacts
    <3>2. sl[y].kind = "chunks" /\ Home(sl[y]) = SlotHead(sl[y].n - MinShift)
      <4>1. sl[y].kind \in {"free", "start", "busy", "chunks"}
        BY <2>4, <1>1, MemoryParts
      <4>2. sl[y].kind # "free"
        BY <3>1 DEF Home
      <4> QED BY <2>4, <3>1, <4>1, <4>2, <1>5
    <3>3. sl[y].n \in Nat /\ sl[x].n \in Nat /\ MinShift \in Nat
      BY <2>4, <1>1, PageSizeType
    <3> HIDE DEF y
    <3>4. sl[y].n = sl[x].n
      <4>1. SlotHead(sl[y].n - MinShift) = SlotHead(sl[x].n - MinShift)
        BY <3>1, <3>2
      <4>2. \A a, b, m \in Int : SlotHead(a - m) = SlotHead(b - m) => a = b
        BY <1>2 DEF SlotHead
      <4> QED BY <4>1, <4>2, <3>3
    <3> QED BY <3>2, <3>4 DEF y
  <2> QED BY <2>2, <2>3, <2>4
<1>11. Home(sl[x]) # NULL => s.next[x] # NULL
  BY <1>9, NodeFacts
<1> QED BY <1>3, <1>4, <1>6, <1>8, <1>9, <1>10, <1>11

\* What marking pages free does to the fields.
LEMMA MarkFreeIs ==
  ASSUME NEW s, Good(s), NEW x \in Page, NEW n, Taken(s.slab, x, n)
  PROVE  LET t == MarkFree(s, x, n)
             T == x + 1..x + n - 1
         IN  /\ t \in Memory /\ t.pfree = s.pfree + n
             /\ \A y \in Page : t.slab[y] = IF y = x THEN FreeBlock(n)
                                            ELSE IF y \in T THEN FreeBlock(0) ELSE s.slab[y]
             /\ \A y \in Node : t.next[y] = IF y \in T THEN NULL
                                            ELSE IF s.next[x] # NULL /\ y = s.prev[x].to
                                            THEN s.next[x] ELSE s.next[y]
             /\ \A y \in Node : t.prev[y] = IF y \in T THEN Ptr(NULL, "PAGE")
                                            ELSE IF s.next[x] # NULL /\ y = s.next[x]
                                            THEN s.prev[x] ELSE s.prev[y]
<1> DEFINE T == x + 1..x + n - 1
           sl == [y \in Page |-> IF y = x THEN FreeBlock(n)
                                 ELSE IF y \in T THEN FreeBlock(0) ELSE s.slab[y]]
           nx == [y \in Node |-> IF y \in T THEN NULL ELSE s.next[y]]
           pv == [y \in Node |-> IF y \in T THEN Ptr(NULL, "PAGE") ELSE s.prev[y]]
           u == [slab |-> sl, next |-> nx, prev |-> pv, pfree |-> s.pfree + n]
<1>1. /\ n \in Nat /\ x \notin T /\ T \subseteq Page
      /\ s.next[x] # NULL => /\ s.next[x] \in Node /\ s.prev[x].to \in Node
                             /\ s.next[x] \notin T /\ s.prev[x].to \notin T
  BY TakenFacts
<1>2. s \in Memory /\ x \in Node
  BY NodeFacts DEF Good
<1>3. Ptr(NULL, "PAGE") \in Pointer
  BY PtrIs DEF Types
<1>4. sl \in [Page -> SlabRecord] /\ nx \in [Node -> Node \cup {NULL}] /\ pv \in [Node -> Pointer]
      /\ s.pfree + n \in Int
  BY <1>1, <1>2, <1>3, MemoryParts, PtrIs
<1>5. u \in Memory /\ u.slab = sl /\ u.next = nx /\ u.prev = pv /\ u.pfree = s.pfree + n
  <2> HIDE DEF sl, nx, pv
  <2> QED BY <1>4 DEF Memory
<1>6. nx[x] = s.next[x] /\ pv[x] = s.prev[x]
  BY <1>1, <1>2
<1>7. MarkFree(s, x, n) = IF u.next[x] # NULL THEN Unlink(u, x) ELSE u
  BY DEF MarkFree
<1> HIDE DEF u
<1>8. CASE s.next[x] = NULL
  <2>1. MarkFree(s, x, n) = u
    BY <1>5, <1>6, <1>7, <1>8
  <2> QED BY <2>1, <1>5, <1>8
<1>9. CASE s.next[x] # NULL
  <2>1. MarkFree(s, x, n) = Unlink(u, x) /\ u.next[x] = s.next[x] /\ u.prev[x] = s.prev[x]
    BY <1>5, <1>6, <1>7, <1>9
  <2>2. u.next[x] \in Node /\ u.prev[x].to \in Node
    BY <2>1, <1>1, <1>9
  <2> DEFINE v == Unlink(u, x)
  <2>3. /\ v \in Memory /\ v.slab = sl /\ v.pfree = s.pfree + n
        /\ \A y \in Node : v.next[y] = IF y = s.prev[x].to THEN s.next[x] ELSE nx[y]
        /\ \A y \in Node : v.prev[y] = IF y = s.next[x] THEN s.prev[x] ELSE pv[y]
    <3> HIDE DEF nx, pv, sl
    <3> QED BY <2>1, <2>2, <1>5, UnlinkIs
  <2> HIDE DEF v
  <2>4. /\ \A y \in Node : v.next[y] = IF y \in T THEN NULL
                                       ELSE IF s.next[x] # NULL /\ y = s.prev[x].to
                                       THEN s.next[x] ELSE s.next[y]
        /\ \A y \in Node : v.prev[y] = IF y \in T THEN Ptr(NULL, "PAGE")
                                       ELSE IF s.next[x] # NULL /\ y = s.next[x]
                                       THEN s.prev[x] ELSE s.prev[y]
    BY <2>3, <1>1, <1>9
  <2>5. MarkFree(s, x, n) = v
    BY <2>1 DEF v
  <2> QED BY <2>3, <2>4, <2>5
<1> QED BY <1>8, <1>9

\* Marked free, the pages are a loose block, whose neighbours may be free.
LEMMA MarkFreeBlocks ==
  ASSUME NEW s, Good(s), NEW x \in Page, NEW n, Taken(s.slab, x, n)
  PROVE  LET tl == MarkFree(s, x, n).slab
         IN  /\ \A y \in Page : Block(tl, y)
             /\ \A y \in Page : FreeStart(tl[y]) /\ y # x /\ y + tl[y].n # x => Apart(tl, y)
<1> DEFINE T == x + 1..x + n - 1
           sl == s.slab
           tl == MarkFree(s, x, n).slab
<1>1. /\ n \in Nat /\ n > 0 /\ x + n <= Pages /\ x \notin T /\ T \subseteq Page
      /\ \A y \in T : sl[y] = Busy
      /\ sl[x].kind # "free"
  BY TakenFacts
<1>2. \A y \in Page : tl[y] = IF y = x THEN FreeBlock(n)
                              ELSE IF y \in T THEN FreeBlock(0) ELSE sl[y]
  BY MarkFreeIs
<1>3. x \in Int /\ x >= 0 /\ x < Pages /\ Pages \in Nat
      /\ \A y : y \in Page <=> y \in Int /\ 0 <= y /\ y < Pages
  BY NodeFacts, PageSizeType
<1>4. s \in Memory /\ sl \in [Page -> SlabRecord] /\ (\A y \in Page : Block(sl, y))
      /\ (\A y \in Page : FreeStart(sl[y]) => Apart(sl, y))
      /\ \A y \in Page : sl[y].n \in Nat
  BY MemoryParts DEF Good, Layout
<1>5. sl[x] # Busy
  BY PtrIs DEF Taken
<1>6. tl[x] = FreeBlock(n) /\ FreeStart(tl[x]) /\ tl[x].n = n /\ tl[x].map = {} /\ tl[x].kind = "free"
  BY <1>1, <1>2, PtrIs DEF FreeStart
<1>7. \A y \in T : tl[y] = FreeBlock(0) /\ ~FreeStart(tl[y]) /\ sl[y].kind = "busy"
  BY <1>1, <1>2, PtrIs DEF FreeStart
<1> HIDE DEF tl, sl
<1>8. ASSUME NEW y \in Page PROVE Block(tl, y)
  <2>0. y \in Int /\ y >= 0 /\ y < Pages /\ sl[y].n \in Nat /\ Block(sl, y)
    BY <1>3, <1>4
  <2>1. CASE y = x
    BY <2>1, <1>1, <1>6, <1>7 DEF Block
  <2>2. CASE y \in T
    <3>1. x \in 0..y - 1 /\ y < x + tl[x].n
      BY <2>2, <1>1, <1>3, <1>6
    <3> QED BY <2>2, <3>1, <1>6, <1>7, PtrIs DEF Block, FreeStart
  <2>3. CASE y # x /\ y \notin T
    <3>1. tl[y] = sl[y]
      BY <2>3, <1>2
    <3>2. ASSUME FreeStart(sl[y])
          PROVE  \A w \in y + 1..y + sl[y].n - 1 : tl[w] = FreeBlock(0)
      <4> SUFFICES ASSUME NEW w \in y + 1..y + sl[y].n - 1 PROVE tl[w] = FreeBlock(0)
        OBVIOUS
      <4>1. sl[w] = FreeBlock(0) /\ y + sl[y].n <= Pages
        BY <3>2, <2>0 DEF Block
      <4>2. w \in Page
        BY <4>1, <2>0, <1>3
      <4>3. w # x /\ w \notin T
        BY <4>1, <1>1, <1>7, PtrIs
      <4> QED BY <4>1, <4>2, <4>3, <1>2
    <3>3. ASSUME sl[y].kind = "free", sl[y].n = 0
          PROVE  \E w \in 0..y - 1 : FreeStart(tl[w]) /\ y < w + tl[w].n
      <4>1. PICK w \in 0..y - 1 : FreeStart(sl[w]) /\ y < w + sl[w].n
        BY <3>3, <2>0 DEF Block
      <4>2. w \in Page /\ w # x /\ w \notin T
        BY <4>1, <2>0, <1>1, <1>3, <1>7 DEF FreeStart
      <4> QED BY <4>1, <4>2, <1>2
    <3>4. ASSUME sl[y].kind = "start"
          PROVE  \A w \in y + 1..y + sl[y].n - 1 : tl[w] = Busy
      <4> SUFFICES ASSUME NEW w \in y + 1..y + sl[y].n - 1 PROVE tl[w] = Busy
        OBVIOUS
      <4>1. sl[w] = Busy /\ y + sl[y].n <= Pages /\ \A v \in y + 1..y + sl[y].n - 1 : sl[v] = Busy
        BY <3>4, <2>0 DEF Block
      <4>2. w \in Page /\ w # x
        BY <4>1, <2>0, <1>3, <1>5
      <4>3. y < x => y + sl[y].n <= x
        BY <4>1, <2>0, <1>3, <1>5
      <4>4. y > x => y >= x + n
        BY <2>0, <2>3, <1>1, <1>3
      <4>5. w \notin T
        BY <4>3, <4>4, <2>0, <2>3, <1>1, <1>3
      <4> QED BY <4>1, <4>2, <4>5, <1>2
    <3> QED BY <3>1, <3>2, <3>3, <3>4, <2>0 DEF Block
  <2> QED BY <2>1, <2>2, <2>3
<1>9. ASSUME NEW y \in Page, FreeStart(tl[y]), y # x, y + tl[y].n # x
      PROVE  Apart(tl, y)
  <2>1. y \notin T /\ tl[y] = sl[y] /\ FreeStart(sl[y])
    BY <1>2, <1>7, <1>9
  <2>2. Apart(sl, y) /\ y + sl[y].n <= Pages /\ sl[y].n \in Nat /\ sl[y].n > 0 /\ y \in Int /\ y >= 0
        /\ \A w \in y + 1..y + sl[y].n - 1 : sl[w] = FreeBlock(0)
    BY <2>1, <1>3, <1>4 DEF Block, FreeStart
  <2> DEFINE e == y + sl[y].n
  <2>3. ASSUME e < Pages PROVE tl[e].kind # "free"
    <3>1. e \in Page /\ sl[e].kind # "free" /\ e # x
      BY <2>1, <2>2, <2>3, <1>3, <1>9 DEF Apart
    <3>2. e - 1 = y \/ e - 1 \in y + 1..y + sl[y].n - 1
      BY <2>2
    <3>3. sl[e - 1].kind = "free"
      BY <3>2, <2>1, <2>2, PtrIs DEF FreeStart
    <3>4. e \notin T
      <4> SUFFICES ASSUME e \in T PROVE FALSE
        OBVIOUS
      <4>1. e - 1 = x \/ e - 1 \in T
        BY <2>2, <1>1, <1>3
      <4> QED BY <4>1, <3>3, <1>1, <1>7
    <3> QED BY <3>1, <3>4, <1>2
  <2> QED BY <2>1, <2>3 DEF Apart
<1> QED BY <1>8, <1>9 DEF tl

\* So the block is loose.
LEMMA MarkFreeLoose ==
  ASSUME NEW s, Good(s), NEW x \in Page, NEW n, Taken(s.slab, x, n)
  PROVE  Loose(MarkFree(s, x, n), x)
<1> DEFINE T == x + 1..x + n - 1
           t == MarkFree(s, x, n)
           sl == s.slab
           tl == t.slab
<1>1. /\ n \in Nat /\ n > 0 /\ x + n <= Pages
      /\ T \subseteq Page /\ x \notin T
      /\ \A y \in T : s.slab[y] = Busy /\ Home(s.slab[y]) = NULL
      /\ s.slab[x].kind # "free"
      /\ Home(s.slab[x]) = NULL <=> s.next[x] = NULL
      /\ Home(s.slab[x]) # NULL =>
           /\ s.next[x] \in Node /\ s.prev[x].to \in Node
           /\ s.next[x] \notin T /\ s.prev[x].to \notin T
           /\ s.next[x] # x /\ s.prev[x].to # x
           /\ s.prev[x].type = TypeOf(s.slab[x].n)
           /\ s.next[x] \in Page => /\ Home(s.slab[s.next[x]]) # NULL
                                    /\ s.slab[s.next[x]].kind = "chunks"
                                    /\ s.slab[s.next[x]].n = s.slab[x].n
           /\ s.prev[x].to \in Page => Home(s.slab[s.prev[x].to]) # NULL
  BY TakenFacts
<1>2. /\ t \in Memory
      /\ \A y \in Page : t.slab[y] = IF y = x THEN FreeBlock(n)
                                     ELSE IF y \in T THEN FreeBlock(0) ELSE s.slab[y]
      /\ \A y \in Node : t.next[y] = IF y \in T THEN NULL
                                     ELSE IF s.next[x] # NULL /\ y = s.prev[x].to
                                     THEN s.next[x] ELSE s.next[y]
      /\ \A y \in Node : t.prev[y] = IF y \in T THEN Ptr(NULL, "PAGE")
                                     ELSE IF s.next[x] # NULL /\ y = s.next[x]
                                     THEN s.prev[x] ELSE s.prev[y]
  BY MarkFreeIs
<1>3. /\ \A y \in Page : Block(tl, y)
      /\ \A y \in Page : FreeStart(tl[y]) /\ y # x /\ y + tl[y].n # x => Apart(tl, y)
  BY MarkFreeBlocks
<1>4. s \in Memory /\ sl \in [Page -> SlabRecord] /\ (\A y \in Page : Block(sl, y)) /\ Marks(s)
      /\ (\A y \in Page : sl[y].n \in Nat)
      /\ x \in Int /\ Pages \in Nat /\ \A y : y \in Page <=> y \in Int /\ 0 <= y /\ y < Pages
  BY MemoryParts, NodeFacts, PageSizeType DEF Good, Layout
<1>5. FreeStart(tl[x]) /\ Home(FreeBlock(0)) = NULL /\ ~FreeStart(FreeBlock(0))
  BY <1>1, <1>2, PtrIs DEF FreeStart, Home
<1> HIDE DEF t, sl
<1>6. ASSUME NEW y \in Page, y # x
      PROVE  Mark(t, y) /\ (FreeStart(tl[y]) => LastLeads(t, y))
  <2>0. y \in Node
    BY NodeFacts
  <2>1. CASE y \in T
    <3>1. tl[y] = FreeBlock(0) /\ t.next[y] = NULL /\ t.prev[y].type = "PAGE" /\ tl[y].kind = "free"
      BY <2>0, <2>1, <1>2, <1>6, PtrIs
    <3> QED BY <3>1, <1>5 DEF Mark
  <2>2. CASE y \notin T
    <3>1. tl[y] = sl[y] /\ Mark(s, y) /\ (FreeStart(sl[y]) => LastLeads(s, y))
      BY <2>2, <1>2, <1>4, <1>6 DEF Marks, sl
    <3>2. Home(tl[y]) = NULL => t.next[y] = NULL
      BY <2>0, <2>2, <3>1, <1>1, <1>2 DEF Mark, sl
    <3>3. t.prev[y].type = IF tl[y].kind = "chunks" THEN TypeOf(tl[y].n) ELSE "PAGE"
      <4>1. CASE s.next[x] # NULL /\ y = s.next[x]
        BY <2>0, <2>2, <4>1, <3>1, <1>1, <1>2 DEF sl
      <4>2. CASE ~(s.next[x] # NULL /\ y = s.next[x])
        BY <2>0, <2>2, <4>2, <3>1, <1>2 DEF Mark, sl
      <4> QED BY <4>1, <4>2
    <3>4. ASSUME FreeStart(tl[y]), sl[y].n > 1, y + sl[y].n < Pages
          PROVE  t.prev[y + sl[y].n - 1] = Ptr(y, "PAGE")
      <4> DEFINE z == y + sl[y].n - 1
      <4>1. z \in Page /\ z \in y + 1..y + sl[y].n - 1
        BY <3>4, <1>4
      <4>2. sl[z] = FreeBlock(0) /\ sl[z].kind = "free"
        BY <4>1, <3>1, <3>4, <1>4, PtrIs DEF Block
      <4>3. z \notin T /\ z # x /\ z \in Node /\ ~(s.next[x] # NULL /\ z = s.next[x])
        BY <4>1, <4>2, <1>1, PtrIs, NodeFacts DEF sl
      <4>4. t.prev[z] = s.prev[z]
        <5> HIDE DEF z
        <5> QED BY <4>3, <1>2
      <4>5. s.prev[z] = Ptr(y, "PAGE")
        BY <3>1, <3>4 DEF LastLeads, sl
      <4> QED BY <4>4, <4>5
    <3> QED BY <3>1, <3>2, <3>3, <3>4 DEF Mark, LastLeads
  <2> QED BY <2>1, <2>2
<1>7. Chained(t.next, t.prev, [Homes(tl) EXCEPT ![x] = NULL])
  <2>1. PICK home : home = Homes(sl)
    OBVIOUS
  <2>2. PICK home1 : home1 = [Homes(tl) EXCEPT ![x] = NULL]
    OBVIOUS
  <2>3. tl \in [Page -> SlabRecord]
    BY <1>2, MemoryParts
  <2>4. home \in [Page -> Heads \cup {NULL}] /\ \A y \in Page : home[y] = Home(sl[y])
    BY <2>1, <1>4, HomesType
  <2>5. Homes(tl) \in [Page -> Heads \cup {NULL}] /\ \A y \in Page : Homes(tl)[y] = Home(tl[y])
    BY <2>3, <1>3, HomesType
  <2>6. home1 \in [Page -> Heads \cup {NULL}]
        /\ \A y \in Page : home1[y] = IF y = x THEN NULL ELSE Home(tl[y])
    BY <2>2, <2>5
  <2>7. \A y \in Page : home1[y] = IF y = x THEN NULL ELSE home[y]
    BY <2>4, <2>6, <1>1, <1>2, <1>5 DEF sl
  <2>8. home1 = [home EXCEPT ![x] = NULL]
    BY <2>4, <2>6, <2>7
  <2>9. PICK r \in [Page -> Int] : Chain(s.next, s.prev, home, r)
    BY <2>1 DEF Good, Chained, sl
  <2>10. \A y \in Page : home1[y] # NULL => y \notin T /\ y # x
    BY <2>4, <2>7, <1>1 DEF sl
  <2>11. CASE home[x] # NULL
    <3>1. s.next[x] # NULL
      BY <2>4, <2>11, <1>1 DEF sl
    <3>2. Unlinked(s.next, s.prev, home, x, t.next, t.prev, home1)
      <4>1. ASSUME NEW y \in Node, y \in Heads \/ home1[y] # NULL
            PROVE  t.next[y] = IF y = s.prev[x].to THEN s.next[x] ELSE s.next[y]
        <5>1. y \notin T
          BY <4>1, <2>10, <1>1, NodeFacts
        <5> QED BY <5>1, <3>1, <1>2
      <4>2. ASSUME NEW y \in Page, home1[y] # NULL
            PROVE  t.prev[y] = IF y = s.next[x] THEN s.prev[x] ELSE s.prev[y]
        <5>1. y \notin T /\ y \in Node
          BY <4>2, <2>10, NodeFacts
        <5> QED BY <5>1, <3>1, <1>2
      <4> QED BY <2>8, <4>1, <4>2 DEF Unlinked
    <3>3. Chain(t.next, t.prev, home1, r)
      BY <2>4, <2>9, <2>11, <3>2, UnlinkChain
    <3> QED BY <3>3, <2>2 DEF Chained
  <2>12. CASE home[x] = NULL
    <3>1. s.next[x] = NULL /\ home1 = home
      BY <2>4, <2>7, <2>6, <2>12, <1>1 DEF sl
    <3>2. Same(s.next, s.prev, home, t.next, t.prev)
      <4>1. ASSUME NEW y \in Node, y \in Heads \/ home[y] # NULL
            PROVE  t.next[y] = s.next[y]
        <5>1. y \notin T
          BY <4>1, <3>1, <2>10, <1>1, NodeFacts
        <5> QED BY <5>1, <3>1, <1>2
      <4>2. ASSUME NEW y \in Page, home[y] # NULL
            PROVE  t.prev[y] = s.prev[y]
        <5>1. y \notin T /\ y \in Node
          BY <4>2, <3>1, <2>10, NodeFacts
        <5> QED BY <5>1, <3>1, <1>2
      <4> QED BY <4>1, <4>2 DEF Same
    <3>3. Chain(t.next, t.prev, home, r)
      BY <2>4, <2>9, <3>2, SameChain
    <3> QED BY <3>3, <3>1, <2>2 DEF Chained
  <2> QED BY <2>11, <2>12
<1> QED BY <1>2, <1>3, <1>5, <1>6, <1>7 DEF Loose, t

\* No other page's content changes from sl to tl, and the same pages are free.
SameKinds(sl, tl) ==
  /\ \A y \in Page : tl[y].kind = sl[y].kind
  /\ \A y \in Page : sl[y].kind # "free" => tl[y] = sl[y]

\* A page other than the loose one looks like the start of a free block to
\* ngx_slab_free_pages exactly when it is one.
LEMMA LooksFree ==
  ASSUME NEW s, NEW x \in Page, Loose(s, x), NEW j \in Page, j # x
  PROVE  s.prev[j].type = "PAGE" /\ s.next[j] # NULL <=> FreeStart(s.slab[j])
<1>1. s \in Memory /\ Mark(s, j) /\ (\A y \in Page : Block(s.slab, y))
  BY DEF Loose
<1>2. s.slab \in [Page -> SlabRecord] /\ s.slab[j].kind \in {"free", "start", "busy", "chunks"}
      /\ s.slab[j].n \in Nat
  BY <1>1, MemoryParts
<1>3. ASSUME FreeStart(s.slab[j]) PROVE s.prev[j].type = "PAGE" /\ s.next[j] # NULL
  BY <1>3, LooseNeighbours, NodeFacts
<1>4. ASSUME s.prev[j].type = "PAGE", s.next[j] # NULL PROVE FreeStart(s.slab[j])
  <2>1. s.slab[j].kind # "chunks" /\ Home(s.slab[j]) # NULL
    BY <1>1, <1>4, NodeFacts DEF Mark
  <2> QED BY <2>1, <1>2 DEF Home, FreeStart
<1> QED BY <1>3, <1>4

\* A free block after the loose one is joined to it.
LEMMA JoinNextLoose ==
  ASSUME NEW s, NEW x \in Page, Loose(s, x)
  PROVE  LET t == JoinNext(s, x)
         IN  /\ Loose(t, x) /\ t.pfree = s.pfree /\ SameKinds(s.slab, t.slab)
             /\ Apart(t.slab, x)
<1> DEFINE j == x + s.slab[x].n
<1>1. s \in Memory /\ (\A y \in Page : Block(s.slab, y)) /\ FreeStart(s.slab[x])
      /\ s.slab \in [Page -> SlabRecord]
  BY MemoryParts DEF Loose
<1>2. x \in Int /\ x >= 0 /\ Pages \in Nat /\ s.slab[x].n \in Nat /\ s.slab[x].n > 0
      /\ \A y : y \in Page <=> y \in Int /\ 0 <= y /\ y < Pages
  BY <1>1, MemoryParts, NodeFacts, PageSizeType DEF FreeStart
<1>3. j < Pages => j \in Page /\ j # x
  BY <1>2
<1>4. CASE j < Pages /\ FreeStart(s.slab[j])
  <2>1. s.prev[j].type = "PAGE" /\ s.next[j] # NULL
    BY <1>3, <1>4, LooksFree
  <2>2. JoinNext(s, x) = Joined(s, x, j, j)
    <3>1. JoinNext(s, x) = Absorb(Unlink([s EXCEPT !.slab[x].n = s.slab[x].n + s.slab[j].n], j), j)
      BY <2>1, <1>4 DEF JoinNext, Memory
    <3> QED BY <3>1 DEF Joined
  <2>3. /\ Loose(Joined(s, x, j, j), x) /\ Joined(s, x, j, j).pfree = s.pfree
        /\ \A y \in Page : Joined(s, x, j, j).slab[y].kind = s.slab[y].kind
        /\ \A y \in Page : s.slab[y].kind # "free" => Joined(s, x, j, j).slab[y] = s.slab[y]
        /\ Apart(s.slab, j) => Apart(Joined(s, x, j, j).slab, x)
    BY <1>3, <1>4, JoinLoose
  <2>4. Apart(s.slab, j)
    <3>1. s.slab[j].n \in Nat /\ j + s.slab[j].n # x
      BY <1>1, <1>2, <1>3, <1>4, MemoryParts
    <3> QED BY <3>1, <1>3, <1>4 DEF Loose
  <2> QED BY <2>2, <2>3, <2>4 DEF SameKinds
<1>5. CASE ~(j < Pages /\ FreeStart(s.slab[j]))
  <2>1. JoinNext(s, x) = s
    <3>1. ~(j < Pages /\ s.prev[j].type = "PAGE" /\ s.next[j] # NULL)
      BY <1>3, <1>5, LooksFree
    <3> QED BY <3>1 DEF JoinNext
  <2>2. ASSUME j < Pages, s.slab[j].kind = "free" PROVE FALSE
    <3>1. j \in Page /\ j # x /\ j \in Int
      BY <2>2, <1>2, <1>3
    <3>2. s.slab[j].n = 0
      BY <2>2, <3>1, <1>1, <1>5, MemoryParts DEF FreeStart
    <3>3. Block(s.slab, j)
      BY <3>1, <1>1
    <3>4. PICK w \in 0..j - 1 : FreeStart(s.slab[w]) /\ j < w + s.slab[w].n
      BY <2>2, <3>2, <3>3 DEF Block
    <3>5. w \in Page /\ w # x /\ w \in Int
      BY <2>2, <3>1, <3>4, <1>2
    <3>6. w + s.slab[w].n <= x \/ x + s.slab[x].n <= w
      BY <3>4, <3>5, <1>1, BlocksApart
    <3>7. s.slab[w].n \in Nat
      BY <3>5, <1>1, MemoryParts
    <3> QED BY <3>1, <3>4, <3>5, <3>6, <3>7, <1>2
  <2>3. Apart(s.slab, x)
    BY <2>2 DEF Apart
  <2> QED BY <2>1, <2>3 DEF SameKinds
<1> QED BY <1>4, <1>5

\* The test for a free block that ends right before x finds it and its start.
LEMMA JoinsPreviousIs ==
  ASSUME NEW s, NEW x \in Page, Loose(s, x)
  PROVE  /\ JoinsPrevious(s, x) =>
              /\ Before(s, x) \in Page /\ Before(s, x) # x /\ FreeStart(s.slab[Before(s, x)])
              /\ Before(s, x) + s.slab[Before(s, x)].n = x
         /\ ~JoinsPrevious(s, x) =>
              ~\E y \in Page : FreeStart(s.slab[y]) /\ y + s.slab[y].n = x
<1> DEFINE j == x - 1
<1>1. s \in Memory /\ (\A y \in Page : Block(s.slab, y)) /\ FreeStart(s.slab[x])
      /\ s.slab \in [Page -> SlabRecord] /\ \A y \in Page : s.slab[y].n \in Nat
  BY MemoryParts DEF Loose
<1>2. x \in Int /\ x >= 0 /\ x < Pages /\ Pages \in Nat /\ s.slab[x].n \in Nat /\ s.slab[x].n > 0
      /\ \A y : y \in Page <=> y \in Int /\ 0 <= y /\ y < Pages
  BY <1>1, NodeFacts, PageSizeType DEF FreeStart
<1>3. ASSUME NEW y \in Page, FreeStart(s.slab[y]), y + s.slab[y].n = x
      PROVE  JoinsPrevious(s, x) /\ Before(s, x) = y
  <2>1. y \in Int /\ y >= 0 /\ s.slab[y].n \in Nat /\ s.slab[y].n > 0 /\ y # x /\ x > 0
    BY <1>1, <1>2, <1>3 DEF FreeStart
  <2>2. s.prev[y].type = "PAGE" /\ s.next[y] # NULL
    BY <1>3, <2>1, LooksFree
  <2>3. CASE s.slab[y].n = 1
    <3>1. j = y /\ s.slab[j] # FreeBlock(0)
      BY <1>2, <1>3, <2>1, <2>3, PtrIs
    <3>2. Before(s, x) = y
      BY <3>1 DEF Before
    <3> QED BY <2>1, <2>2, <3>1, <3>2 DEF JoinsPrevious
  <2>4. CASE s.slab[y].n > 1
    <3>1. j = y + s.slab[y].n - 1 /\ j \in y + 1..y + s.slab[y].n - 1
      BY <1>2, <1>3, <2>1, <2>4
    <3>2. s.slab[j] = FreeBlock(0)
      BY <3>1, <1>1, <1>3 DEF Block
    <3>3. LastLeads(s, y)
      BY <1>3, <2>1 DEF Loose
    <3>4. s.prev[j] = Ptr(y, "PAGE")
      BY <3>1, <3>3, <2>4, <1>2, <1>3 DEF LastLeads
    <3>5. Before(s, x) = y
      BY <3>2, <3>4, PtrIs DEF Before
    <3> QED BY <2>1, <2>2, <3>4, <3>5, PtrIs DEF JoinsPrevious
  <2> QED BY <2>1, <2>3, <2>4
<1>4. ASSUME JoinsPrevious(s, x)
      PROVE  \E y \in Page : FreeStart(s.slab[y]) /\ y + s.slab[y].n = x
  <2>1. x > 0 /\ s.prev[j].type = "PAGE" /\ s.next[Before(s, x)] # NULL
    BY <1>4 DEF JoinsPrevious
  <2>2. j \in Page /\ j # x /\ j \in Int
    BY <2>1, <1>2
  <2>3. CASE s.slab[j] = FreeBlock(0)
    <3>1. s.slab[j].kind = "free" /\ s.slab[j].n = 0 /\ Block(s.slab, j)
      BY <2>2, <2>3, <1>1, PtrIs
    <3>2. PICK w \in 0..j - 1 : FreeStart(s.slab[w]) /\ j < w + s.slab[w].n
      BY <3>1 DEF Block
    <3>3. w \in Page /\ w # x /\ w \in Int
      BY <2>2, <1>2
    <3>4. w + s.slab[w].n <= x \/ x + s.slab[x].n <= w
      BY <3>2, <3>3, <1>1, BlocksApart
    <3>5. w + s.slab[w].n = x
      BY <3>2, <3>3, <3>4, <2>2, <1>1, <1>2
    <3> QED BY <3>2, <3>3, <3>5
  <2>4. CASE s.slab[j] # FreeBlock(0)
    <3>1. Before(s, x) = j
      BY <2>4 DEF Before
    <3>2. FreeStart(s.slab[j])
      BY <2>1, <2>2, <3>1, LooksFree
    <3>3. j + s.slab[j].n <= x \/ x + s.slab[x].n <= j
      BY <3>2, <2>2, <1>1, BlocksApart
    <3>4. j + s.slab[j].n = x
      BY <3>2, <3>3, <2>2, <1>1, <1>2 DEF FreeStart
    <3> QED BY <3>2, <3>4, <2>2
  <2> QED BY <2>3, <2>4
<1>5. ASSUME JoinsPrevious(s, x)
      PROVE  /\ Before(s, x) \in Page /\ Before(s, x) # x /\ FreeStart(s.slab[Before(s, x)])
             /\ Before(s, x) + s.slab[Before(s, x)].n = x
  <2>1. PICK y \in Page : FreeStart(s.slab[y]) /\ y + s.slab[y].n = x
    BY <1>4, <1>5
  <2>2. Before(s, x) = y /\ y # x
    BY <2>1, <1>1, <1>2, <1>3 DEF FreeStart
  <2> QED BY <2>1, <2>2
<1> QED BY <1>3, <1>5

\* What pushing a block on the free list does to the fields.
LEMMA PushFreeIs ==
  ASSUME NEW s \in Memory, NEW x \in Page, s.slab[x].n \in Nat, s.slab[x].n > 0,
         x + s.slab[x].n <= Pages, s.next[free] \in Node, s.next[free] # x
  PROVE  LET t == PushFree(s, x)
             last == x + s.slab[x].n - 1
         IN  /\ t \in Memory /\ t.slab = s.slab /\ t.pfree = s.pfree
             /\ \A y \in Node : t.next[y] = IF y = free THEN x
                                            ELSE IF y = x THEN s.next[free] ELSE s.next[y]
             /\ \A y \in Node : t.prev[y] = IF y = s.next[free] THEN Ptr(x, "PAGE")
                                            ELSE IF y = x THEN Ptr(free, "PAGE")
                                            ELSE IF y = last THEN Ptr(x, "PAGE") ELSE s.prev[y]
<1> DEFINE last == x + s.slab[x].n - 1
           p1 == IF last # x THEN [s.prev EXCEPT ![last] = Ptr(x, "PAGE")] ELSE s.prev
           t == IF last # x THEN [s EXCEPT !.prev[last] = Ptr(x, "PAGE")] ELSE s
           p2 == [p1 EXCEPT ![x] = Ptr(free, "PAGE")]
           n2 == [s.next EXCEPT ![x] = s.next[free]]
           u == [t EXCEPT !.prev[x] = Ptr(free, "PAGE"), !.next[x] = t.next[free]]
           p3 == [p2 EXCEPT ![s.next[free]] = Ptr(x, "PAGE")]
           n3 == [n2 EXCEPT ![free] = x]
<1>1. /\ x \in Int /\ x >= 0 /\ x \in Node /\ free \in Node /\ free # x /\ Pages \in Nat
      /\ Ptr(x, "PAGE") \in Pointer /\ Ptr(free, "PAGE") \in Pointer
  BY NodeFacts, PageSizeType, PtrIs DEF Types
<1>2. last \in Node
  <2>1. last \in Int /\ 0 <= last /\ last < Pages
    BY <1>1
  <2> QED BY <2>1, NodeFacts
<1>3. p1 \in [Node -> Pointer]
  BY <1>1, <1>2, MemoryParts
<1>4. t = [s EXCEPT !.prev = p1]
  BY DEF Memory
<1>5. t \in Memory /\ t.slab = s.slab /\ t.next = s.next /\ t.prev = p1 /\ t.pfree = s.pfree
  <2> HIDE DEF p1, t
  <2> QED BY <1>3, <1>4 DEF Memory
<1> HIDE DEF t, p1
<1>6. p2 \in [Node -> Pointer] /\ n2 \in [Node -> Node \cup {NULL}] /\ n2[x] = s.next[free]
  BY <1>1, <1>3, MemoryParts
<1>7. u = [t EXCEPT !.prev = p2, !.next = n2]
  BY <1>5 DEF Memory
<1>8. u \in Memory /\ u.slab = s.slab /\ u.next = n2 /\ u.prev = p2 /\ u.pfree = s.pfree
  <2> HIDE DEF p2, n2, u
  <2> QED BY <1>5, <1>6, <1>7 DEF Memory
<1>9. PushFree(s, x) = [u EXCEPT !.prev[u.next[x]] = Ptr(x, "PAGE"), !.next[free] = x]
  BY DEF PushFree, t
<1> HIDE DEF u, p2, n2
<1>10. PushFree(s, x) = [u EXCEPT !.prev = p3, !.next = n3]
  <2>1. u.next[x] = s.next[free]
    BY <1>6, <1>8
  <2> QED BY <2>1, <1>8, <1>9 DEF Memory
<1>11. p3 \in [Node -> Pointer] /\ n3 \in [Node -> Node \cup {NULL}]
  BY <1>1, <1>6
<1>12. LET v == PushFree(s, x)
       IN  v \in Memory /\ v.slab = s.slab /\ v.next = n3 /\ v.prev = p3 /\ v.pfree = s.pfree
  <2> HIDE DEF p3, n3
  <2> QED BY <1>8, <1>10, <1>11 DEF Memory
<1>13. \A y \in Node : n3[y] = IF y = free THEN x ELSE IF y = x THEN s.next[free] ELSE s.next[y]
  BY <1>1, MemoryParts DEF n2
<1>14. \A y \in Node : p3[y] = IF y = s.next[free] THEN Ptr(x, "PAGE")
                               ELSE IF y = x THEN Ptr(free, "PAGE")
                               ELSE IF y = last THEN Ptr(x, "PAGE") ELSE s.prev[y]
  BY <1>1, <1>2, <1>3, <1>6, MemoryParts DEF p2, p1
<1> HIDE DEF n3, p3
<1> QED BY <1>12, <1>13, <1>14

\* A loose block without free neighbours, put on the free list, leaves a good
\* memory.
LEMMA PushFreeGood ==
  ASSUME NEW s, NEW x \in Page, Loose(s, x),
         \A y \in Page : FreeStart(s.slab[y]) => Apart(s.slab, y)
  PROVE  Good(PushFree(s, x)) /\ PushFree(s, x).slab = s.slab /\ PushFree(s, x).pfree = s.pfree
<1> DEFINE t == PushFree(s, x)
           sl == s.slab
           m == sl[x].n
           last == x + m - 1
<1>1. s \in Memory /\ (\A y \in Page : Block(sl, y)) /\ FreeStart(sl[x])
      /\ sl \in [Page -> SlabRecord] /\ \A y \in Page : sl[y].n \in Nat
  BY MemoryParts DEF Loose
<1>2. x \in Int /\ x >= 0 /\ x < Pages /\ Pages \in Nat /\ m \in Nat /\ m > 0 /\ x + m <= Pages
      /\ (\A y \in x + 1..x + m - 1 : sl[y] = FreeBlock(0))
      /\ (\A y : y \in Page <=> y \in Int /\ 0 <= y /\ y < Pages)
      /\ sl[x].kind = "free" /\ x \in Node
  BY <1>1, NodeFacts, PageSizeType DEF FreeStart, Block
<1>3. PICK home : home = [Homes(sl) EXCEPT ![x] = NULL]
  OBVIOUS
<1>4. /\ Homes(sl) \in [Page -> Heads \cup {NULL}]
      /\ \A y \in Page : Homes(sl)[y] = Home(sl[y])
      /\ \A y \in Page : Home(sl[y]) = free <=> FreeStart(sl[y])
  BY <1>1, HomesType
<1>5. /\ home \in [Page -> Heads \cup {NULL}]
      /\ \A y \in Page : home[y] = IF y = x THEN NULL ELSE Home(sl[y])
  BY <1>3, <1>4
<1>6. PICK r \in [Page -> Int] : Chain(s.next, s.prev, home, r)
  BY <1>3 DEF Loose, Chained
<1>7. free \in Heads /\ free # NULL /\ free \notin Page /\ free \in Node /\ HeadType(free) = "PAGE"
  BY NodeFacts
<1>8. /\ s.next[free] = free \/ (s.next[free] \in Page /\ home[s.next[free]] = free)
      /\ s.next[free] \in Node /\ s.next[free] # x
      /\ s.next[free] \in Page => FreeStart(sl[s.next[free]])
  <2>1. s.next[free] = free \/ (s.next[free] \in Page /\ home[s.next[free]] = free)
    BY <1>6, <1>7 DEF Chain
  <2> QED BY <2>1, <1>4, <1>5, <1>7, NodeFacts
<1>9. /\ t \in Memory /\ t.slab = sl /\ t.pfree = s.pfree
      /\ \A y \in Node : t.next[y] = IF y = free THEN x
                                     ELSE IF y = x THEN s.next[free] ELSE s.next[y]
      /\ \A y \in Node : t.prev[y] = IF y = s.next[free] THEN Ptr(x, "PAGE")
                                     ELSE IF y = x THEN Ptr(free, "PAGE")
                                     ELSE IF y = last THEN Ptr(x, "PAGE") ELSE s.prev[y]
  BY <1>1, <1>2, <1>8, PushFreeIs
<1> HIDE DEF t, sl
<1>10. last \in Page /\ last \in Node /\ last \notin Heads /\ (last # x => sl[last] = FreeBlock(0))
  <2>1. last \in Int /\ 0 <= last /\ last < Pages /\ (last # x => last \in x + 1..x + m - 1)
    BY <1>2
  <2>2. last \in Page
    BY <2>1, <1>2
  <2> QED BY <2>1, <2>2, <1>2, NodeFacts
<1>11. last # x => home[last] = NULL /\ ~FreeStart(sl[last]) /\ sl[last].kind = "free"
                   /\ Home(sl[last]) = NULL
  BY <1>5, <1>10, PtrIs DEF Home, FreeStart
<1>12. Chained(t.next, t.prev, Homes(sl))
  <2>1. PICK home1 : home1 = Homes(sl)
    OBVIOUS
  <2>2. \A y \in Page : home1[y] = IF y = x THEN free ELSE home[y]
    BY <2>1, <1>1, <1>4, <1>5 DEF sl
  <2>3. home1 = [home EXCEPT ![x] = free]
    BY <2>1, <2>2, <1>4, <1>5
  <2>4. Pushed(s.next, s.prev, home, x, free, t.next, t.prev, home1)
    <3>1. ASSUME NEW y \in Page, home1[y] # NULL
          PROVE  t.prev[y] = IF y = x THEN Ptr(free, HeadType(free))
                             ELSE IF y = s.next[free] THEN Ptr(x, HeadType(free)) ELSE s.prev[y]
      <4>1. y \in Node /\ (y = last => y = x)
        BY <3>1, <2>2, <1>11, NodeFacts
      <4> QED BY <4>1, <1>7, <1>8, <1>9
    <3> QED BY <2>3, <3>1, <1>9 DEF Pushed
  <2>5. home[x] = NULL
    BY <1>5
  <2>6. Chained(t.next, t.prev, home1)
    BY <1>5, <1>6, <1>7, <2>4, <2>5, PushChain
  <2> QED BY <2>1, <2>6
<1>13. ASSUME NEW y \in Page PROVE Mark(t, y)
  <2>0. y \in Node /\ y # free
    BY <1>7, NodeFacts
  <2>1. CASE y = x
    <3>1. t.prev[y].type = "PAGE"
      BY <2>0, <2>1, <1>8, <1>9, PtrIs
    <3>2. Home(sl[y]) # NULL
      BY <2>1, <1>1, <1>4, <1>7 DEF sl
    <3> QED BY <2>1, <3>1, <3>2, <1>2, <1>9 DEF Mark, sl
  <2>2. CASE y # x
    <3>1. Mark(s, y)
      BY <2>2 DEF Loose
    <3>2. Home(sl[y]) = NULL => t.next[y] = NULL
      BY <2>0, <2>2, <3>1, <1>9 DEF Mark, sl
    <3>3. t.prev[y].type = IF sl[y].kind = "chunks" THEN TypeOf(sl[y].n) ELSE "PAGE"
      <4>1. CASE y = s.next[free]
        BY <2>0, <4>1, <1>8, <1>9, PtrIs DEF FreeStart
      <4>2. CASE y # s.next[free] /\ y = last
        BY <2>0, <2>2, <4>2, <1>9, <1>11, PtrIs
      <4>3. CASE y # s.next[free] /\ y # last
        BY <2>0, <2>2, <4>3, <3>1, <1>9 DEF Mark, sl
      <4> QED BY <4>1, <4>2, <4>3
    <3> QED BY <3>2, <3>3, <1>9 DEF Mark
  <2> QED BY <2>1, <2>2
<1>14. ASSUME NEW y \in Page, FreeStart(sl[y]) PROVE LastLeads(t, y)
  <2>1. CASE y = x
    <3>1. ASSUME m > 1 PROVE t.prev[last] = Ptr(x, "PAGE")
      <4>1. last # x /\ last # s.next[free]
        BY <3>1, <1>2, <1>8, <1>10, <1>11
      <4> QED BY <4>1, <1>9, <1>10
    <3> QED BY <2>1, <3>1, <1>9 DEF LastLeads
  <2>2. CASE y # x
    <3>1. LastLeads(s, y)
      BY <2>2, <1>14 DEF Loose, sl
    <3>2. y + sl[y].n <= x \/ x + m <= y
      BY <2>2, <1>1, <1>14, BlocksApart DEF sl
    <3>3. ASSUME sl[y].n > 1, y + sl[y].n < Pages
          PROVE  t.prev[y + sl[y].n - 1] = Ptr(y, "PAGE")
      <4> DEFINE z == y + sl[y].n - 1
      <4>1. z \in Page /\ z \in y + 1..y + sl[y].n - 1 /\ z # x /\ z # last
        BY <3>2, <3>3, <1>1, <1>2
      <4>2. sl[z] = FreeBlock(0) /\ ~FreeStart(sl[z])
        BY <4>1, <1>1, <1>14, PtrIs DEF Block, FreeStart
      <4>3. z # s.next[free] /\ z \in Node
        BY <4>1, <4>2, <1>8, NodeFacts
      <4>4. t.prev[z] = s.prev[z]
        <5> HIDE DEF z
        <5> QED BY <4>1, <4>3, <1>9
      <4>5. s.prev[z] = Ptr(y, "PAGE")
        BY <3>1, <3>3 DEF LastLeads, sl
      <4> QED BY <4>4, <4>5
    <3> QED BY <3>3, <1>9 DEF LastLeads
  <2> QED BY <2>1, <2>2
<1>15. Layout(sl)
  BY <1>1 DEF Layout, sl
<1>16. Marks(t)
  BY <1>9, <1>13, <1>14 DEF Marks
<1> QED BY <1>9, <1>12, <1>15, <1>16 DEF Good, t, sl

\* ngx_slab_free_pages leaves a good memory in which the pages, and no others,
\* have become free.
LEMMA FreePagesGood ==
  ASSUME NEW s, Good(s), NEW x \in Page, NEW n, Taken(s.slab, x, n)
  PROVE  LET u == FreePages(s, x, n)
             T == x..x + n - 1
         IN  /\ Good(u) /\ u.pfree = s.pfree + n
             /\ FreeSet(u.slab) = FreeSet(s.slab) \cup T
             /\ T \subseteq Page /\ T \cap FreeSet(s.slab) = {} /\ n \in Nat /\ n > 0
             /\ \A y \in Page : y \notin T /\ s.slab[y].kind # "free" => u.slab[y] = s.slab[y]
<1> DEFINE T == x..x + n - 1
<1>1. PICK m : m = MarkFree(s, x, n)
  OBVIOUS
<1>2. PICK t : t = JoinNext(m, x)
  OBVIOUS
<1>3. PICK b : b = Before(t, x)
  OBVIOUS
<1>4. PICK u : u = FreePages(s, x, n)
  OBVIOUS
<1>5. /\ n \in Nat /\ n > 0 /\ x + n <= Pages
      /\ x + 1..x + n - 1 \subseteq Page /\ x \notin x + 1..x + n - 1
      /\ \A y \in x + 1..x + n - 1 : s.slab[y] = Busy
      /\ s.slab[x].kind # "free"
  BY TakenFacts
<1>6. x \in Int /\ (\A y \in T : y = x \/ y \in x + 1..x + n - 1)
      /\ \A y \in x + 1..x + n - 1 : y \in T
  BY <1>5, NodeFacts
<1>7. T \subseteq Page /\ T \cap FreeSet(s.slab) = {} /\ x \in T
  BY <1>5, <1>6, PtrIs DEF FreeSet
<1>8. /\ m.pfree = s.pfree + n /\ Loose(m, x)
      /\ \A y \in Page : m.slab[y] = IF y = x THEN FreeBlock(n)
                                     ELSE IF y \in x + 1..x + n - 1 THEN FreeBlock(0) ELSE s.slab[y]
  BY <1>1, MarkFreeIs, MarkFreeLoose
<1>9. /\ \A y \in Page : m.slab[y].kind = "free" <=> s.slab[y].kind = "free" \/ y \in T
      /\ \A y \in Page : y \notin T => m.slab[y] = s.slab[y]
  BY <1>6, <1>7, <1>8, PtrIs
<1>10. Loose(t, x) /\ t.pfree = m.pfree /\ SameKinds(m.slab, t.slab) /\ Apart(t.slab, x)
  BY <1>2, <1>8, JoinNextLoose
<1>11. t \in Memory /\ FreeStart(t.slab[x]) /\ \A y \in Page : t.slab[y].n \in Nat
  BY <1>10, MemoryParts DEF Loose
<1>12. u = IF JoinsPrevious(t, x)
           THEN PushFree(Absorb(Unlink([t EXCEPT !.slab[b].n = t.slab[b].n + t.slab[x].n], b), x), b)
           ELSE PushFree(t, x)
  BY <1>1, <1>2, <1>3, <1>4, <1>11 DEF FreePages, Memory
<1>13. Good(u) /\ u.pfree = t.pfree /\ SameKinds(t.slab, u.slab)
  <2>1. CASE ~JoinsPrevious(t, x)
    <3>1. ~\E y \in Page : FreeStart(t.slab[y]) /\ y + t.slab[y].n = x
      BY <2>1, <1>10, JoinsPreviousIs
    <3>2. \A y \in Page : FreeStart(t.slab[y]) => Apart(t.slab, y)
      BY <3>1, <1>10 DEF Loose
    <3>3. u = PushFree(t, x)
      BY <2>1, <1>12
    <3>4. Good(u) /\ u.slab = t.slab /\ u.pfree = t.pfree
      BY <3>2, <3>3, <1>10, PushFreeGood
    <3> QED BY <3>4 DEF SameKinds
  <2>2. CASE JoinsPrevious(t, x)
    <3>1. b \in Page /\ b # x /\ FreeStart(t.slab[b]) /\ b + t.slab[b].n = x
      BY <2>2, <1>3, <1>10, JoinsPreviousIs
    <3>2. PICK v : v = Joined(t, b, x, b)
      OBVIOUS
    <3>3. u = PushFree(v, b)
      BY <2>2, <3>2, <1>12 DEF Joined
    <3>4. /\ Loose(v, b) /\ v.pfree = t.pfree
          /\ \A y \in Page : v.slab[y].kind = t.slab[y].kind
          /\ \A y \in Page : t.slab[y].kind # "free" => v.slab[y] = t.slab[y]
          /\ Apart(v.slab, b)
          /\ \A y \in Page : FreeStart(v.slab[y]) /\ y # b => Apart(v.slab, y)
      BY <3>1, <3>2, <1>10, JoinLoose
    <3>5. \A y \in Page : FreeStart(v.slab[y]) => Apart(v.slab, y)
      BY <3>4
    <3>6. Good(u) /\ u.slab = v.slab /\ u.pfree = v.pfree
      BY <3>1, <3>3, <3>4, <3>5, PushFreeGood
    <3> QED BY <3>4, <3>6 DEF SameKinds
  <2> QED BY <2>1, <2>2
<1>14. \A y \in Page : u.slab[y].kind = "free" <=> s.slab[y].kind = "free" \/ y \in T
  BY <1>9, <1>10, <1>13 DEF SameKinds
<1>15. \A y \in Page : y \notin T /\ s.slab[y].kind # "free" => u.slab[y] = s.slab[y]
  BY <1>9, <1>10, <1>13 DEF SameKinds
<1>16. FreeSet(u.slab) = FreeSet(s.slab) \cup T
  BY <1>7, <1>14 DEF FreeSet
<1>17. u.pfree = s.pfree + n
  BY <1>8, <1>10, <1>13
<1> QED BY <1>4, <1>5, <1>7, <1>13, <1>15, <1>16, <1>17

-----------------------------------------------------------------------------
(* Chunks.                                                                 *)

\* A page of chunks that is content to Layout.
RightChunks(k, map) ==
  /\ k \in MinShift..PageShift - 1 /\ map \subseteq 0..Chunks(k) - 1
  /\ 0..BitmapChunks(k) - 1 \subseteq map

\* Another content of an allocated page leaves the blocks.
LEMMA ChunkBlocks ==
  ASSUME NEW sl \in [Page -> SlabRecord], Layout(sl), NEW x \in Page,
         sl[x].kind = "chunks" \/ sl[x] = Start(1),
         NEW k, NEW map, RightChunks(k, map),
         NEW tl, tl = [sl EXCEPT ![x] = ChunkPage(k, map)]
  PROVE  Layout(tl) /\ FreeSet(tl) = FreeSet(sl) /\ tl \in [Page -> SlabRecord]
<1>1. k \in Nat /\ map \in SUBSET Nat
  BY PageSizeType DEF RightChunks
<1>2. ChunkPage(k, map) \in SlabRecord
  BY <1>1, PtrIs
<1>3. tl \in [Page -> SlabRecord] /\ tl[x] = ChunkPage(k, map)
      /\ \A y \in Page : y # x => tl[y] = sl[y]
  BY <1>2
<1>4. sl[x].kind \in {"chunks", "start"} /\ tl[x].kind = "chunks" /\ tl[x].n = k /\ tl[x].map = map
  BY <1>3, PtrIs
<1>5. \A y \in Page : tl[y].kind = "free" <=> sl[y].kind = "free"
  BY <1>3, <1>4
<1>6. \A y \in Page : sl[y].n \in Nat /\ y \in Int /\ y >= 0
  BY NodeFacts DEF SlabRecord
<1>7. Pages \in Nat /\ \A y : y \in Page <=> y \in Int /\ 0 <= y /\ y < Pages
  BY NodeFacts, PageSizeType
<1>8. ASSUME NEW y \in Page PROVE Block(tl, y) /\ (FreeStart(tl[y]) => Apart(tl, y))
  <2>1. CASE y = x
    BY <2>1, <1>4 DEF Block, RightChunks, FreeStart
  <2>2. CASE y # x
    <3>1. tl[y] = sl[y] /\ Block(sl, y) /\ (FreeStart(sl[y]) => Apart(sl, y))
      BY <2>2, <1>3 DEF Layout
    <3>2. ASSUME FreeStart(sl[y])
          PROVE  (\A w \in y + 1..y + sl[y].n - 1 : tl[w] = FreeBlock(0)) /\ Apart(tl, y)
      <4>1. y + sl[y].n <= Pages /\ \A w \in y + 1..y + sl[y].n - 1 : sl[w] = FreeBlock(0)
        BY <3>1, <3>2 DEF Block
      <4>2. \A w \in y + 1..y + sl[y].n - 1 : w \in Page /\ w # x
        BY <4>1, <1>4, <1>6, <1>7, PtrIs
      <4>3. y + sl[y].n < Pages => y + sl[y].n \in Page
        BY <1>6, <1>7
      <4> QED BY <3>1, <3>2, <4>1, <4>2, <4>3, <1>3, <1>5 DEF Apart
    <3>3. ASSUME sl[y].kind = "free", sl[y].n = 0
          PROVE  \E w \in 0..y - 1 : FreeStart(tl[w]) /\ y < w + tl[w].n
      <4>1. PICK w \in 0..y - 1 : FreeStart(sl[w]) /\ y < w + sl[w].n
        BY <3>1, <3>3 DEF Block
      <4>2. w \in Page /\ w # x
        BY <4>1, <1>4, <1>6, <1>7 DEF FreeStart
      <4> QED BY <4>1, <4>2, <1>3
    <3>4. ASSUME sl[y].kind = "start"
          PROVE  \A w \in y + 1..y + sl[y].n - 1 : tl[w] = Busy
      <4>1. y + sl[y].n <= Pages /\ \A w \in y + 1..y + sl[y].n - 1 : sl[w] = Busy
        BY <3>1, <3>4 DEF Block
      <4>2. \A w \in y + 1..y + sl[y].n - 1 : w \in Page /\ w # x
        BY <4>1, <1>4, <1>6, <1>7, PtrIs
      <4> QED BY <4>1, <4>2, <1>3
    <3> QED BY <3>1, <3>2, <3>3, <3>4 DEF Block
  <2> QED BY <2>1, <2>2
<1> QED BY <1>3, <1>5, <1>8 DEF Layout, FreeSet

\* A page gets another content of chunks, and the lists are those of the new
\* contents: the memory is good again.
LEMMA ChunkGood ==
  ASSUME NEW s, Good(s), NEW x \in Page, s.slab[x].kind = "chunks" \/ s.slab[x] = Start(1),
         NEW k, NEW map, RightChunks(k, map),
         NEW t \in Memory, t.slab = [s.slab EXCEPT ![x] = ChunkPage(k, map)],
         Chained(t.next, t.prev, Homes(t.slab)),
         \A y \in Page : y # x /\ Home(s.slab[y]) = NULL =>
           t.next[y] = s.next[y] /\ t.prev[y] = s.prev[y],
         Home(ChunkPage(k, map)) = NULL => t.next[x] = NULL /\ t.prev[x].type = TypeOf(k)
  PROVE  Good(t) /\ FreeSet(t.slab) = FreeSet(s.slab)
<1>1. s \in Memory /\ s.slab \in [Page -> SlabRecord] /\ Layout(s.slab) /\ Marks(s)
  BY MemoryParts DEF Good
<1>2. Layout(t.slab) /\ FreeSet(t.slab) = FreeSet(s.slab) /\ t.slab \in [Page -> SlabRecord]
  BY <1>1, ChunkBlocks
<1>3. t.slab[x] = ChunkPage(k, map) /\ \A y \in Page : y # x => t.slab[y] = s.slab[y]
  BY <1>1
<1>4. \A y \in Page : Block(t.slab, y)
  BY <1>2 DEF Layout
<1>5. PICK home : home = Homes(t.slab)
  OBVIOUS
<1>6. home \in [Page -> Heads \cup {NULL}] /\ \A y \in Page : home[y] = Home(t.slab[y])
  BY <1>2, <1>4, <1>5, HomesType
<1>7. PICK r \in [Page -> Int] : Chain(t.next, t.prev, home, r)
  BY <1>5 DEF Chained
<1>8. ASSUME NEW y \in Page, Home(t.slab[y]) # NULL
      PROVE  t.prev[y].type = IF t.slab[y].kind = "chunks" THEN TypeOf(t.slab[y].n) ELSE "PAGE"
  <2>1. t.prev[y].type = HeadType(Home(t.slab[y]))
    BY <1>6, <1>7, <1>8 DEF Chain, InList
  <2>2. CASE t.slab[y].kind = "chunks"
    <3>1. Home(t.slab[y]) = SlotHead(t.slab[y].n - MinShift) /\ t.slab[y].n - MinShift \in Slots
      BY <2>2, <1>2, <1>4, <1>8, HomesType
    <3>2. HeadType(SlotHead(t.slab[y].n - MinShift)) = TypeOf((t.slab[y].n - MinShift) + MinShift)
      BY <3>1, NodeFacts
    <3>3. t.slab[y].n \in Nat /\ MinShift \in Nat
      BY MemoryParts, PageSizeType
    <3>4. (t.slab[y].n - MinShift) + MinShift = t.slab[y].n
      BY <3>3
    <3> QED BY <2>1, <2>2, <3>1, <3>2, <3>4
  <2>3. CASE t.slab[y].kind # "chunks"
    <3>1. Home(t.slab[y]) = free
      BY <2>3, <1>8 DEF Home
    <3> QED BY <2>1, <2>3, <3>1, NodeFacts
  <2> QED BY <2>2, <2>3
<1>9. ASSUME NEW y \in Page PROVE Mark(t, y)
  <2>1. CASE y = x
    BY <2>1, <1>3, <1>8, PtrIs DEF Mark
  <2>2. CASE y # x
    <3>1. Mark(s, y)
      BY <1>1 DEF Marks
    <3>2. CASE Home(t.slab[y]) = NULL
      BY <2>2, <3>1, <3>2, <1>3 DEF Mark
    <3>3. CASE Home(t.slab[y]) # NULL
      BY <3>3, <1>8 DEF Mark
    <3> QED BY <3>2, <3>3
  <2> QED BY <2>1, <2>2
<1>10. ASSUME NEW y \in Page, FreeStart(t.slab[y]) PROVE LastLeads(t, y)
  <2>1. y # x /\ t.slab[y] = s.slab[y] /\ FreeStart(s.slab[y])
    BY <1>3, <1>10, PtrIs DEF FreeStart
  <2>2. LastLeads(s, y) /\ Block(s.slab, y)
    BY <2>1, <1>1 DEF Marks, Layout
  <2>3. ASSUME s.slab[y].n > 1, y + s.slab[y].n < Pages
        PROVE  t.prev[y + s.slab[y].n - 1] = Ptr(y, "PAGE")
    <3>1. PICK z : z = y + s.slab[y].n - 1
      OBVIOUS
    <3>2. s.slab[y].n \in Nat /\ y \in Int /\ y >= 0 /\ Pages \in Int
      BY <1>1, MemoryParts, NodeFacts, PageSizeType
    <3>3. z \in Int /\ 0 <= z /\ z < Pages /\ z \in y + 1..y + s.slab[y].n - 1
      BY <2>3, <3>1, <3>2
    <3>4. s.slab[z] = FreeBlock(0)
      BY <2>1, <2>2, <3>3 DEF Block
    <3>5. z \in Page
      BY <3>3, NodeFacts
    <3>6. z # x /\ Home(s.slab[z]) = NULL
      BY <3>4, PtrIs DEF Home
    <3>7. t.prev[z] = s.prev[z]
      BY <3>5, <3>6
    <3> QED BY <2>2, <2>3, <3>1, <3>7 DEF LastLeads
  <2> QED BY <2>1, <2>3 DEF LastLeads
<1>11. Marks(t)
  BY <1>9, <1>10 DEF Marks
<1> QED BY <1>2, <1>11 DEF Good

\* A page of chunks and its list.
LEMMA ChunkPageIs ==
  ASSUME NEW s, Good(s), NEW x \in Page, s.slab[x].kind = "chunks"
  PROVE  LET k == s.slab[x].n
             map == s.slab[x].map
         IN  /\ k \in MinShift..PageShift - 1 /\ k - MinShift \in Slots /\ RightChunks(k, map)
             /\ s.slab[x] = ChunkPage(k, map) /\ s.prev[x].type = TypeOf(k)
             /\ TypeOf(k) # "PAGE" /\ SlotHead(k - MinShift) \in Heads
             /\ HeadType(SlotHead(k - MinShift)) = TypeOf(k)
             /\ IF Full(k, map) THEN Home(s.slab[x]) = NULL /\ s.next[x] = NULL
                ELSE Home(s.slab[x]) = SlotHead(k - MinShift) /\ s.next[x] # NULL
<1>1. s \in Memory /\ s.slab \in [Page -> SlabRecord] /\ (\A y \in Page : Block(s.slab, y)) /\ Mark(s, x)
  BY MemoryParts DEF Good, Layout, Marks
<1>2. s.slab[x].n - MinShift \in Slots
      /\ Home(s.slab[x]) = IF Full(s.slab[x].n, s.slab[x].map) THEN NULL ELSE SlotHead(s.slab[x].n - MinShift)
  BY <1>1, HomesType
<1>3. s.slab[x].n \in MinShift..PageShift - 1 /\ RightChunks(s.slab[x].n, s.slab[x].map)
      /\ s.slab[x].n \in Nat /\ MinShift \in Nat
  BY <1>1, PageSizeType, MemoryParts DEF Block, RightChunks
<1>4. (s.slab[x].n - MinShift) + MinShift = s.slab[x].n
  BY <1>3
<1>5. SlotHead(s.slab[x].n - MinShift) \in Heads
      /\ HeadType(SlotHead(s.slab[x].n - MinShift)) = TypeOf((s.slab[x].n - MinShift) + MinShift)
      /\ TypeOf(s.slab[x].n) # "PAGE"
  BY <1>2, NodeFacts
<1>6. s.slab[x] = ChunkPage(s.slab[x].n, s.slab[x].map)
  BY <1>1, ContentIs
<1>7. s.prev[x].type = TypeOf(s.slab[x].n) /\ (Home(s.slab[x]) = NULL => s.next[x] = NULL)
  BY <1>1 DEF Mark
<1>8. Home(s.slab[x]) = NULL <=> s.next[x] = NULL
  BY TakenFacts DEF Taken
<1>9. Full(s.slab[x].n, s.slab[x].map) <=> Home(s.slab[x]) = NULL
  BY <1>2, <1>5, NodeFacts
<1> QED BY <1>2, <1>3, <1>4, <1>5, <1>6, <1>7, <1>8, <1>9

\* The homes after a page got another content.
LEMMA HomeChange ==
  ASSUME NEW sl \in [Page -> SlabRecord], NEW x \in Page, NEW p,
         NEW tl, tl = [sl EXCEPT ![x] = p]
  PROVE  Homes(tl) = [Homes(sl) EXCEPT ![x] = Home(p)]
BY DEF Homes

\* The memory after a chunk of page x was taken, a page was made one of chunks of
\* 2^k bytes, or a chunk was freed.
AfterTaken(s, x, i) ==
  LET k == s.slab[x].n
      u == [s EXCEPT !.slab[x].map = s.slab[x].map \cup {i}]
  IN  IF Full(k, u.slab[x].map) THEN Delist(u, x, k) ELSE u

AfterNew(s, x, k) ==
  LET h == SlotHead(k - MinShift)
  IN  [TakePages(s, x, 1) EXCEPT !.slab[x] = ChunkPage(k, 0..BitmapChunks(k)), !.next[x] = h,
                                 !.prev[x] = Ptr(h, TypeOf(k)), !.next[h] = x]

AfterFreed(s, x, i) ==
  LET k == s.slab[x].n
      u == Relist(s, x, SlotHead(k - MinShift), TypeOf(k))
  IN  [u EXCEPT !.slab[x].map = u.slab[x].map \ {i}]

\* In s, page x has the free chunk i, or the busy one i beyond the bitmap.
CanTake(s, x, i) ==
  /\ s.slab[x].kind = "chunks" /\ ~Full(s.slab[x].n, s.slab[x].map)
  /\ i \in 0..Chunks(s.slab[x].n) - 1

CanFree(s, x, i) ==
  s.slab[x].kind = "chunks" /\ i \in s.slab[x].map /\ i >= BitmapChunks(s.slab[x].n)

\* From s to t, the busy chunks of page x become those of map.
ChunkStep(s, t, x, map) ==
  /\ Good(t) /\ FreeSet(t.slab) = FreeSet(s.slab) /\ t.pfree = s.pfree
  /\ t.slab = [s.slab EXCEPT ![x] = ChunkPage(s.slab[x].n, map)]

\* ngx_slab_alloc_locked on a page of the slot's list: one more chunk is busy,
\* and a page that is full now has left the list.
LEMMA ChunkTaken ==
  ASSUME NEW s, Good(s), NEW x \in Page, NEW i, CanTake(s, x, i)
  PROVE  ChunkStep(s, AfterTaken(s, x, i), x, s.slab[x].map \cup {i})
<1> USE DEF CanTake
<1>1. PICK k : k = s.slab[x].n
  OBVIOUS
<1>2. PICK map : map = s.slab[x].map \cup {i}
  OBVIOUS
<1>3. PICK u : u = [s EXCEPT !.slab[x].map = s.slab[x].map \cup {i}]
  OBVIOUS
<1>4. PICK t : t = IF Full(k, u.slab[x].map) THEN Delist(u, x, k) ELSE u
  OBVIOUS
<1>5. PICK tl : tl = [s.slab EXCEPT ![x] = ChunkPage(k, map)]
  OBVIOUS
<1>6. /\ RightChunks(k, s.slab[x].map) /\ s.slab[x] = ChunkPage(k, s.slab[x].map)
      /\ s.prev[x].type = TypeOf(k) /\ Home(s.slab[x]) = SlotHead(k - MinShift) /\ s.next[x] # NULL
      /\ SlotHead(k - MinShift) \in Heads
  BY <1>1, ChunkPageIs
<1>7. RightChunks(k, map)
  BY <1>1, <1>2, <1>6 DEF RightChunks
<1>8. s \in Memory /\ s.slab \in [Page -> SlabRecord] /\ Layout(s.slab)
      /\ (\A y \in Page : Block(s.slab, y)) /\ Home(s.slab[x]) # NULL
  BY <1>6, MemoryParts, NodeFacts DEF Good, Layout
<1>9. tl \in [Page -> SlabRecord] /\ tl[x] = ChunkPage(k, map)
  BY <1>5, <1>7, <1>8, ChunkBlocks
<1>10. tl = [s.slab EXCEPT ![x] = [s.slab[x] EXCEPT !.map = map]]
  BY <1>5, <1>6, <1>8 DEF ChunkPage
<1>11. u = [s EXCEPT !.slab = tl]
  BY <1>2, <1>3, <1>10, <1>8 DEF Memory
<1>12. u \in Memory /\ u.slab = tl /\ u.next = s.next /\ u.prev = s.prev /\ u.pfree = s.pfree
  BY <1>8, <1>9, <1>11 DEF Memory
<1>13. u.slab[x].map = map
  BY <1>9, <1>12, PtrIs
<1>14. PICK home : home = Homes(s.slab)
  OBVIOUS
<1>15. home \in [Page -> Heads \cup {NULL}] /\ (\A y \in Page : home[y] = Home(s.slab[y]))
  BY <1>8, <1>14, HomesType
<1>16. PICK r \in [Page -> Int] : Chain(s.next, s.prev, home, r)
  BY <1>14 DEF Good, Chained
<1>17. Homes(tl) = [home EXCEPT ![x] = Home(ChunkPage(k, map))]
  BY <1>5, <1>8, <1>14, HomeChange
<1>18. CASE ~Full(k, map)
  <2>1. t = u
    BY <1>4, <1>13, <1>18
  <2>2. Home(ChunkPage(k, map)) = SlotHead(k - MinShift)
    BY <1>18, PtrIs DEF Home
  <2>3. Homes(tl) = home
    BY <2>2, <1>6, <1>15, <1>17
  <2>4. Chained(t.next, t.prev, Homes(t.slab))
    BY <2>1, <2>3, <1>12, <1>16 DEF Chained
  <2>5. Home(ChunkPage(k, map)) # NULL
    BY <2>2, <1>6, NodeFacts
  <2>6. t \in Memory /\ t.slab = [s.slab EXCEPT ![x] = ChunkPage(k, map)]
        /\ \A y \in Page : t.next[y] = s.next[y] /\ t.prev[y] = s.prev[y]
    BY <2>1, <1>5, <1>12
  <2>7. Good(t) /\ FreeSet(t.slab) = FreeSet(s.slab)
    BY <1>7, <2>4, <2>5, <2>6, ChunkGood
  <2> QED BY <2>1, <2>6, <2>7, <1>1, <1>2, <1>3, <1>4, <1>12 DEF AfterTaken, ChunkStep
<1>19. CASE Full(k, map)
  <2>1. t = Delist(u, x, k)
    BY <1>4, <1>13, <1>19
  <2>2. /\ s.next[x] \in Node /\ s.prev[x].to \in Node
        /\ s.next[x] # x /\ s.prev[x].to # x
        /\ s.next[x] \in Page => Home(s.slab[s.next[x]]) = Home(s.slab[x])
        /\ s.prev[x].to \in Page => Home(s.slab[s.prev[x].to]) = Home(s.slab[x])
    BY <1>8, GoodNeighbours
  <2>3. PICK v : v = Unlink(u, x)
    OBVIOUS
  <2>4. /\ v \in Memory /\ v.slab = tl /\ v.pfree = s.pfree
        /\ \A y \in Node : v.next[y] = IF y = s.prev[x].to THEN s.next[x] ELSE s.next[y]
        /\ \A y \in Node : v.prev[y] = IF y = s.next[x] THEN s.prev[x] ELSE s.prev[y]
    BY <1>12, <2>2, <2>3, UnlinkIs
  <2>5. PICK nx : nx = [v.next EXCEPT ![x] = NULL]
    OBVIOUS
  <2>6. PICK pv : pv = [v.prev EXCEPT ![x] = Ptr(NULL, TypeOf(k))]
    OBVIOUS
  <2>7. x \in Node /\ Ptr(NULL, TypeOf(k)) \in Pointer /\ x \notin Heads
    BY NodeFacts, PtrIs
  <2>8. nx \in [Node -> Node \cup {NULL}] /\ pv \in [Node -> Pointer]
    BY <2>4, <2>5, <2>6, <2>7, MemoryParts
  <2>9. t = [v EXCEPT !.next = nx, !.prev = pv]
    BY <2>1, <2>3, <2>4, <2>5, <2>6 DEF Delist, Memory
  <2>10. t \in Memory /\ t.slab = tl /\ t.next = nx /\ t.prev = pv /\ t.pfree = s.pfree
    BY <2>4, <2>8, <2>9 DEF Memory
  <2>11. /\ \A y \in Node : t.next[y] = IF y = x THEN NULL
                                        ELSE IF y = s.prev[x].to THEN s.next[x] ELSE s.next[y]
         /\ \A y \in Node : t.prev[y] = IF y = x THEN Ptr(NULL, TypeOf(k))
                                        ELSE IF y = s.next[x] THEN s.prev[x] ELSE s.prev[y]
    BY <2>4, <2>5, <2>6, <2>10, MemoryParts
  <2>12. Home(ChunkPage(k, map)) = NULL
    BY <1>19, PtrIs DEF Home
  <2>13. PICK home1 : home1 = Homes(tl)
    OBVIOUS
  <2>14. home1 = [home EXCEPT ![x] = NULL]
    BY <2>12, <2>13, <1>17
  <2>15. home1[x] = NULL
    BY <2>14, <1>15
  <2>16. Unlinked(s.next, s.prev, home, x, t.next, t.prev, home1)
    <3>1. \A y \in Page : y \in Node
      BY NodeFacts
    <3> QED BY <2>7, <2>11, <2>14, <2>15, <3>1 DEF Unlinked
  <2>17. home[x] # NULL
    BY <1>8, <1>15
  <2>18. Chain(t.next, t.prev, home1, r)
    BY <1>15, <1>16, <2>16, <2>17, UnlinkChain
  <2>19. Chained(t.next, t.prev, Homes(t.slab))
    BY <2>10, <2>13, <2>18 DEF Chained
  <2>20. \A y \in Page : y # x /\ Home(s.slab[y]) = NULL =>
           t.next[y] = s.next[y] /\ t.prev[y] = s.prev[y]
    BY <2>2, <2>11, <1>8, NodeFacts
  <2>21. t.next[x] = NULL /\ t.prev[x].type = TypeOf(k)
    BY <2>7, <2>11, PtrIs
  <2>22. t.slab = [s.slab EXCEPT ![x] = ChunkPage(k, map)]
    BY <2>10, <1>5
  <2>23. Good(t) /\ FreeSet(t.slab) = FreeSet(s.slab)
    BY <1>7, <2>10, <2>19, <2>20, <2>21, <2>22, ChunkGood
  <2> QED BY <2>10, <2>22, <2>23, <1>1, <1>2, <1>3, <1>4 DEF AfterTaken, ChunkStep
<1> QED BY <1>18, <1>19

\* ngx_slab_alloc_locked for a slot without a page: a free page becomes one of
\* its chunks, and the only one of the slot's list.
LEMMA ChunkPageNew ==
  ASSUME NEW s, Good(s), NEW x \in Page, FreeStart(s.slab[x]),
         NEW k \in MinShift..PageShift - 1, s.next[SlotHead(k - MinShift)] = SlotHead(k - MinShift)
  PROVE  LET map == 0..BitmapChunks(k)
             t == AfterNew(s, x, k)
         IN  /\ Good(t) /\ FreeSet(t.slab) = FreeSet(s.slab) \ {x} /\ x \in FreeSet(s.slab)
             /\ t.pfree = s.pfree - 1 /\ ~Full(k, map)
             /\ t.slab[x] = ChunkPage(k, map)
             /\ \A y \in Page : y # x /\ s.slab[y].kind # "free" => t.slab[y] = s.slab[y]
             /\ \A y \in Page : y # x /\ s.slab[y].kind = "free" => t.slab[y].kind = "free"
<1>1. PICK v : v = TakePages(s, x, 1)
  OBVIOUS
<1>2. PICK h : h = SlotHead(k - MinShift)
  OBVIOUS
<1>3. PICK map : map = 0..BitmapChunks(k)
  OBVIOUS
<1>4. PICK t : t = [v EXCEPT !.slab[x] = ChunkPage(k, map), !.next[x] = h,
                             !.prev[x] = Ptr(h, TypeOf(k)), !.next[h] = x]
  OBVIOUS
<1>5. /\ k \in Nat /\ MinShift \in Nat /\ k - MinShift \in Slots /\ (k - MinShift) + MinShift = k
      /\ x \in Int
  BY PageSizeType, NodeFacts DEF Slots
<1>6. h \in Heads /\ h # free /\ HeadType(h) = TypeOf(k)
  <2>1. h \in Heads /\ h # free /\ HeadType(h) = TypeOf((k - MinShift) + MinShift)
    BY <1>2, <1>5, NodeFacts
  <2> QED BY <2>1, <1>5
<1>7. /\ h \notin Page /\ h \in Node /\ h # NULL /\ x \in Node /\ x \notin Heads /\ x # NULL /\ h # x
  BY <1>6, NodeFacts
<1>8. s \in Memory /\ s.slab \in [Page -> SlabRecord] /\ (\A y \in Page : Block(s.slab, y))
      /\ s.slab[x].n \in Nat /\ s.slab[x].n > 0 /\ s.slab[x].kind = "free"
  BY MemoryParts DEF Good, Layout, FreeStart
<1>9. Good(v) /\ v.pfree = s.pfree - 1
      /\ FreeSet(v.slab) = FreeSet(s.slab) \ (x..x + 1 - 1) /\ x..x + 1 - 1 \subseteq FreeSet(s.slab)
  <2>1. 1 \in Nat /\ 1 > 0 /\ 1 <= s.slab[x].n
    BY <1>8
  <2>2. Good(v)
    BY <2>1, <1>1, TakeGood
  <2>3. v.pfree = s.pfree - 1
    BY <2>1, <1>1, TakeIs
  <2> QED BY <2>1, <2>2, <2>3, <1>1, TakeLayout
<1>10. x..x + 1 - 1 = {x}
  BY <1>5
<1>11. FreeSet(v.slab) = FreeSet(s.slab) \ {x} /\ x \in FreeSet(s.slab)
  BY <1>9, <1>10
<1>12. v.slab[x] = Start(1)
  BY <1>1, <1>8, TakeIs
<1>13. \A y \in Page : y # x /\ s.slab[y].kind # "free" => v.slab[y] = s.slab[y]
  <2> SUFFICES ASSUME NEW y \in Page, y # x, s.slab[y].kind # "free" PROVE v.slab[y] = s.slab[y]
    OBVIOUS
  <2>1. v.slab[y] = IF y = x THEN Start(1) ELSE IF y \in x..x + 1 - 1 THEN Busy
                    ELSE IF 1 < s.slab[x].n /\ y = x + 1 THEN FreeBlock(s.slab[x].n - 1) ELSE s.slab[y]
    BY <1>1, <1>8, TakeIs
  <2>2. x..x + s.slab[x].n - 1 \subseteq FreeSet(s.slab)
    BY FreeBlockFacts
  <2>3. 1 < s.slab[x].n => x + 1 \in x..x + s.slab[x].n - 1
    BY <1>5, <1>8
  <2>4. ~(1 < s.slab[x].n /\ y = x + 1)
    BY <2>2, <2>3 DEF FreeSet
  <2> QED BY <2>1, <2>4, <1>10
<1>14. v.next[h] = h
  <2>1. v.next[h] = IF h \in x..x + 1 - 1 THEN NULL
                    ELSE IF h = s.prev[x].to THEN IF 1 < s.slab[x].n THEN x + 1 ELSE s.next[x]
                    ELSE IF 1 < s.slab[x].n /\ h = x + 1 THEN s.next[x] ELSE s.next[h]
    BY <1>1, <1>7, <1>8, TakeIs
  <2>2. s.prev[x].to = free \/ s.prev[x].to \in Page
    <3>1. Homes(s.slab)[x] = free /\ Homes(s.slab)[x] # NULL
      BY <1>8, HomesType, NodeFacts
    <3> QED BY <3>1 DEF Good, Chained, Chain, InList
  <2>3. 1 < s.slab[x].n => x + 1 \in Page
    <3>1. x + s.slab[x].n <= Pages /\ x >= 0 /\ Pages \in Int
      BY FreeBlockFacts, NodeFacts, PageSizeType
    <3>2. 1 < s.slab[x].n => x + 1 \in Int /\ 0 <= x + 1 /\ x + 1 < Pages
      BY <3>1, <1>5, <1>8
    <3> QED BY <3>2, NodeFacts
  <2> QED BY <2>1, <2>2, <2>3, <1>2, <1>6, <1>7, <1>10
<1>15. v \in Memory /\ v.slab \in [Page -> SlabRecord] /\ Layout(v.slab)
       /\ \A y \in Page : Block(v.slab, y)
  BY <1>9, MemoryParts DEF Good, Layout
<1>16. RightChunks(k, map) /\ ~Full(k, map)
  <2>1. /\ BitmapChunks(k) \in Nat /\ Chunks(k) \in Nat /\ BitmapChunks(k) + 1 < Chunks(k)
    BY ChunkFacts
  <2>2. Cardinality(0..BitmapChunks(k)) = BitmapChunks(k) - 0 + 1
    BY <2>1, FS_Interval
  <2>3. Cardinality(0..BitmapChunks(k)) # Chunks(k)
    BY <2>1, <2>2
  <2> QED BY <2>1, <2>3, <1>3 DEF RightChunks, Full
<1>17. PICK tl : tl = [v.slab EXCEPT ![x] = ChunkPage(k, map)]
  OBVIOUS
<1>18. tl \in [Page -> SlabRecord] /\ tl[x] = ChunkPage(k, map)
       /\ \A y \in Page : y # x => tl[y] = v.slab[y]
  BY <1>12, <1>15, <1>16, <1>17, ChunkBlocks
<1>19. PICK nx : nx = [v.next EXCEPT ![x] = h, ![h] = x]
  OBVIOUS
<1>20. PICK pv : pv = [v.prev EXCEPT ![x] = Ptr(h, TypeOf(k))]
  OBVIOUS
<1>21. nx \in [Node -> Node \cup {NULL}] /\ pv \in [Node -> Pointer]
       /\ (\A y \in Node : nx[y] = IF y = h THEN x ELSE IF y = x THEN h ELSE v.next[y])
       /\ (\A y \in Node : pv[y] = IF y = x THEN Ptr(h, TypeOf(k)) ELSE v.prev[y])
  <2>1. Ptr(h, TypeOf(k)) \in Pointer
    BY <1>7, PtrIs, NodeFacts
  <2>2. v.next \in [Node -> Node \cup {NULL}] /\ v.prev \in [Node -> Pointer]
    BY <1>15, MemoryParts
  <2> QED BY <2>1, <2>2, <1>7, <1>19, <1>20
<1>22. t = [v EXCEPT !.slab = tl, !.next = nx, !.prev = pv]
  BY <1>4, <1>15, <1>17, <1>19, <1>20 DEF Memory
<1>23. t \in Memory /\ t.slab = tl /\ t.next = nx /\ t.prev = pv /\ t.pfree = v.pfree
  BY <1>15, <1>18, <1>21, <1>22 DEF Memory
<1>24. Home(ChunkPage(k, map)) = h /\ Home(ChunkPage(k, map)) # NULL
  BY <1>2, <1>7, <1>16, PtrIs DEF Home
<1>25. PICK home : home = Homes(v.slab)
  OBVIOUS
<1>26. home \in [Page -> Heads \cup {NULL}] /\ home[x] = NULL
  <2>1. v.slab[x].kind = "start"
    BY <1>12, PtrIs
  <2> QED BY <2>1, <1>15, <1>25, HomesType
<1>27. PICK r \in [Page -> Int] : Chain(v.next, v.prev, home, r)
  BY <1>9, <1>25 DEF Good, Chained
<1>28. PICK home1 : home1 = Homes(tl)
  OBVIOUS
<1>29. home1 = [home EXCEPT ![x] = h]
  BY <1>15, <1>17, <1>24, <1>25, <1>28, HomeChange
<1>30. Pushed(v.next, v.prev, home, x, h, nx, pv, home1)
  <2>1. \A y \in Page : y \in Node /\ y # h
    BY <1>7, NodeFacts
  <2> QED BY <2>1, <1>6, <1>7, <1>14, <1>21, <1>29 DEF Pushed
<1>31. Chained(nx, pv, home1)
  BY <1>6, <1>26, <1>27, <1>30, PushChain
<1>32. Chained(t.next, t.prev, Homes(t.slab))
  BY <1>23, <1>28, <1>31
<1>33. \A y \in Page : y # x /\ Home(v.slab[y]) = NULL =>
         t.next[y] = v.next[y] /\ t.prev[y] = v.prev[y]
  <2>1. \A y \in Page : y \in Node /\ y # h
    BY <1>7, NodeFacts
  <2> QED BY <2>1, <1>21, <1>23
<1>34. t.slab = [v.slab EXCEPT ![x] = ChunkPage(k, map)]
  BY <1>17, <1>23
<1>35. Good(t) /\ FreeSet(t.slab) = FreeSet(v.slab)
  BY <1>9, <1>12, <1>16, <1>23, <1>24, <1>32, <1>33, <1>34, ChunkGood
<1>36. \A y \in Page : y # x /\ s.slab[y].kind # "free" => t.slab[y] = s.slab[y]
  BY <1>13, <1>18, <1>23
<1>37. \A y \in Page : y # x /\ s.slab[y].kind = "free" => t.slab[y].kind = "free"
  BY <1>11, <1>35 DEF FreeSet
<1>38. t = AfterNew(s, x, k)
  BY <1>1, <1>2, <1>3, <1>4 DEF AfterNew
<1> QED BY <1>3, <1>9, <1>11, <1>16, <1>18, <1>23, <1>35, <1>36, <1>37, <1>38

\* A page whose chunks are not all busy is not full.
LEMMA NotFull ==
  ASSUME NEW k, NEW map, RightChunks(k, map)
  PROVE  /\ IsFiniteSet(map) /\ Cardinality(map) \in Nat /\ Cardinality(map) <= Chunks(k)
         /\ Chunks(k) \in Nat
         /\ Full(k, map) <=> map = 0..Chunks(k) - 1
         /\ \A i \in map : ~Full(k, map \ {i})
<1>1. k \in MinShift..PageShift - 1 /\ Chunks(k) \in Nat /\ Chunks(k) > 0
  <2>1. k \in MinShift..PageShift - 1
    BY DEF RightChunks
  <2> QED BY <2>1, ChunkFacts
<1>2. PICK C : C = 0..Chunks(k) - 1
  OBVIOUS
<1>3. IsFiniteSet(C) /\ Cardinality(C) = Chunks(k) /\ map \subseteq C
  <2>1. 0 \in Int /\ Chunks(k) - 1 \in Int /\ 0 <= Chunks(k) - 1
    BY <1>1
  <2>2. IsFiniteSet(C) /\ Cardinality(C) = (Chunks(k) - 1) - 0 + 1
    BY <2>1, <1>2, FS_Interval
  <2> QED BY <2>2, <1>1, <1>2 DEF RightChunks
<1>4. IsFiniteSet(map) /\ Cardinality(map) <= Cardinality(C) /\ (Cardinality(map) = Cardinality(C) => map = C)
      /\ Cardinality(map) \in Nat
  BY <1>3, FS_Subset, FS_CardinalityType
<1>5. Full(k, map) <=> map = C
  BY <1>3, <1>4 DEF Full
<1>6. ASSUME NEW i \in map PROVE ~Full(k, map \ {i})
  <2>1. IsFiniteSet(map \ {i}) /\ Cardinality(map \ {i}) = Cardinality(map) - 1
    BY <1>4, FS_RemoveElement
  <2> QED BY <2>1, <1>3, <1>4 DEF Full
<1> QED BY <1>1, <1>2, <1>3, <1>4, <1>5, <1>6

\* ngx_slab_free_locked on a chunk: it is not busy any more, and its page, if it
\* was full, is on its slot's list again.
LEMMA ChunkFreed ==
  ASSUME NEW s, Good(s), NEW x \in Page, NEW i, CanFree(s, x, i)
  PROVE  ChunkStep(s, AfterFreed(s, x, i), x, s.slab[x].map \ {i})
<1> USE DEF CanFree
<1>1. PICK k : k = s.slab[x].n
  OBVIOUS
<1>2. PICK map : map = s.slab[x].map \ {i}
  OBVIOUS
<1>3. PICK h : h = SlotHead(k - MinShift)
  OBVIOUS
<1>4. PICK u : u = Relist(s, x, h, TypeOf(k))
  OBVIOUS
<1>5. PICK t : t = [u EXCEPT !.slab[x].map = u.slab[x].map \ {i}]
  OBVIOUS
<1>6. PICK tl : tl = [s.slab EXCEPT ![x] = ChunkPage(k, map)]
  OBVIOUS
<1>7. /\ RightChunks(k, s.slab[x].map) /\ s.slab[x] = ChunkPage(k, s.slab[x].map)
      /\ s.prev[x].type = TypeOf(k) /\ h \in Heads /\ HeadType(h) = TypeOf(k)
      /\ IF Full(k, s.slab[x].map) THEN Home(s.slab[x]) = NULL /\ s.next[x] = NULL
         ELSE Home(s.slab[x]) = h /\ s.next[x] # NULL
  BY <1>1, <1>3, ChunkPageIs
<1>8. RightChunks(k, map) /\ ~Full(k, map)
  <2>1. k \in MinShift..PageShift - 1 /\ map \subseteq 0..Chunks(k) - 1
    BY <1>2, <1>7 DEF RightChunks
  <2>2. BitmapChunks(k) \in Nat
    BY <2>1, ChunkFacts
  <2>3. 0..BitmapChunks(k) - 1 \subseteq map
    <3>1. 0..BitmapChunks(k) - 1 \subseteq s.slab[x].map
      BY <1>7 DEF RightChunks
    <3>2. i \notin 0..BitmapChunks(k) - 1
      BY <2>2, <1>1
    <3> QED BY <3>1, <3>2, <1>2
  <2> QED BY <2>1, <2>3, <1>2, <1>7, NotFull DEF RightChunks
<1>9. s \in Memory /\ s.slab \in [Page -> SlabRecord] /\ Layout(s.slab)
      /\ (\A y \in Page : Block(s.slab, y))
  BY MemoryParts DEF Good, Layout
<1>10. tl \in [Page -> SlabRecord] /\ tl[x] = ChunkPage(k, map)
  BY <1>6, <1>8, <1>9, ChunkBlocks
<1>11. tl = [s.slab EXCEPT ![x] = [s.slab[x] EXCEPT !.map = map]]
  BY <1>6, <1>7, <1>9 DEF ChunkPage
<1>12. Home(ChunkPage(k, map)) = h /\ Home(ChunkPage(k, map)) # NULL
  BY <1>3, <1>7, <1>8, PtrIs, NodeFacts DEF Home
<1>13. PICK home : home = Homes(s.slab)
  OBVIOUS
<1>14. home \in [Page -> Heads \cup {NULL}] /\ (\A y \in Page : home[y] = Home(s.slab[y]))
  BY <1>9, <1>13, HomesType
<1>15. PICK r \in [Page -> Int] : Chain(s.next, s.prev, home, r)
  BY <1>13 DEF Good, Chained
<1>16. Homes(tl) = [home EXCEPT ![x] = h]
  BY <1>6, <1>9, <1>12, <1>13, HomeChange
<1>17. x \in Node /\ h \in Node /\ h \notin Page /\ h # NULL /\ x # h
  BY <1>7, NodeFacts
<1>18. /\ u \in Memory /\ u.slab = s.slab /\ u.pfree = s.pfree
       /\ Chained(u.next, u.prev, [home EXCEPT ![x] = h])
       /\ \A y \in Page : y # x /\ home[y] = NULL => u.next[y] = s.next[y] /\ u.prev[y] = s.prev[y]
  <2>1. CASE ~Full(k, s.slab[x].map)
    <3>1. u = s
      BY <2>1, <1>4, <1>7 DEF Relist
    <3>2. [home EXCEPT ![x] = h] = home
      BY <2>1, <1>7, <1>14
    <3> QED BY <3>1, <3>2, <1>9, <1>15 DEF Chained
  <2>2. CASE Full(k, s.slab[x].map)
    <3>1. home[x] = NULL /\ s.next[x] = NULL
      BY <2>2, <1>7, <1>14
    <3>2. s.next[h] = h \/ (s.next[h] \in Page /\ home[s.next[h]] = h)
      BY <1>7, <1>15 DEF Chain
    <3>3. s.next[h] # x /\ s.next[h] \in Node /\ s.next[h] # NULL
      BY <3>1, <3>2, <1>17, NodeFacts
    <3>4. PICK nx : nx = [s.next EXCEPT ![x] = s.next[h], ![h] = x]
      OBVIOUS
    <3>5. PICK p1 : p1 = [s.prev EXCEPT ![x] = Ptr(h, TypeOf(k))]
      OBVIOUS
    <3>6. PICK pv : pv = [p1 EXCEPT ![s.next[h]] = Ptr(x, TypeOf(k))]
      OBVIOUS
    <3>7. s.next \in [Node -> Node \cup {NULL}] /\ s.prev \in [Node -> Pointer]
          /\ Ptr(h, TypeOf(k)) \in Pointer /\ Ptr(x, TypeOf(k)) \in Pointer
      BY <1>9, <1>17, MemoryParts, PtrIs, NodeFacts
    <3>8. /\ nx \in [Node -> Node \cup {NULL}]
          /\ \A y \in Node : nx[y] = IF y = h THEN x ELSE IF y = x THEN s.next[h] ELSE s.next[y]
      BY <3>3, <3>4, <3>7, <1>17
    <3>9. p1 \in [Node -> Pointer]
      BY <3>5, <3>7
    <3>10. /\ pv \in [Node -> Pointer]
           /\ \A y \in Node : pv[y] = IF y = s.next[h] THEN Ptr(x, TypeOf(k))
                                      ELSE IF y = x THEN Ptr(h, TypeOf(k)) ELSE s.prev[y]
      BY <3>3, <3>5, <3>6, <3>7, <3>9, <1>17
    <3>11. PICK v : v = [s EXCEPT !.next[x] = s.next[h], !.next[h] = x, !.prev[x] = Ptr(h, TypeOf(k))]
      OBVIOUS
    <3>12. v = [s EXCEPT !.next = nx, !.prev = p1]
      BY <3>4, <3>5, <3>11, <1>9 DEF Memory
    <3>13. v \in Memory /\ v.slab = s.slab /\ v.next = nx /\ v.prev = p1 /\ v.pfree = s.pfree
      BY <3>8, <3>9, <3>12, <1>9 DEF Memory
    <3>14. v.next[x] = s.next[h]
      BY <3>8, <3>13, <1>17
    <3>15. u = [v EXCEPT !.prev[v.next[x]] = Ptr(x, TypeOf(k))]
      BY <3>1, <3>11, <1>4 DEF Relist
    <3>16. u = [v EXCEPT !.prev = pv]
      BY <3>6, <3>13, <3>14, <3>15 DEF Memory
    <3>17. u \in Memory /\ u.slab = s.slab /\ u.next = nx /\ u.prev = pv /\ u.pfree = s.pfree
      BY <3>10, <3>13, <3>16 DEF Memory
    <3>18. PICK home1 : home1 = [home EXCEPT ![x] = h]
      OBVIOUS
    <3>19. Pushed(s.next, s.prev, home, x, h, nx, pv, home1)
      <4>1. \A y \in Page : y \in Node
        BY NodeFacts
      <4>2. \A y \in Page : pv[y] = IF y = x THEN Ptr(h, HeadType(h))
                     ELSE IF y = s.next[h] THEN Ptr(x, HeadType(h)) ELSE s.prev[y]
        BY <4>1, <3>3, <3>10, <1>7
      <4> QED BY <4>2, <3>8, <3>18 DEF Pushed
    <3>20. Chained(nx, pv, home1)
      BY <1>7, <1>14, <1>15, <3>1, <3>19, PushChain
    <3>21. \A y \in Page : y # x /\ home[y] = NULL => nx[y] = s.next[y] /\ pv[y] = s.prev[y]
      <4>1. \A y \in Page : y \in Node /\ y # h
        BY <1>17, NodeFacts
      <4>2. \A y \in Page : home[y] = NULL => y # s.next[h]
        BY <4>1, <3>2, <1>17
      <4> QED BY <4>1, <4>2, <3>8, <3>10
    <3> QED BY <3>17, <3>18, <3>20, <3>21
  <2> QED BY <2>1, <2>2
<1>19. t = [u EXCEPT !.slab = tl]
  BY <1>2, <1>5, <1>11, <1>18 DEF Memory
<1>20. t \in Memory /\ t.slab = tl /\ t.next = u.next /\ t.prev = u.prev /\ t.pfree = s.pfree
  BY <1>10, <1>18, <1>19 DEF Memory
<1>21. Chained(t.next, t.prev, Homes(t.slab))
  BY <1>16, <1>18, <1>20
<1>22. \A y \in Page : y # x /\ Home(s.slab[y]) = NULL => t.next[y] = s.next[y] /\ t.prev[y] = s.prev[y]
  BY <1>14, <1>18, <1>20
<1>23. t.slab = [s.slab EXCEPT ![x] = ChunkPage(k, map)]
  BY <1>6, <1>20
<1>24. Good(t) /\ FreeSet(t.slab) = FreeSet(s.slab)
  BY <1>8, <1>12, <1>20, <1>21, <1>22, <1>23, ChunkGood
<1>25. t = AfterFreed(s, x, i)
  BY <1>1, <1>3, <1>4, <1>5 DEF AfterFreed
<1> QED BY <1>1, <1>2, <1>20, <1>23, <1>24, <1>25 DEF ChunkStep

-----------------------------------------------------------------------------
(* Walks along a list.                                                     *)

\* Along a list, the pages are those of its home, all of them, and at the end
\* there is the head again.
OnPath(s, h, m, p) ==
  /\ p[0] = s.next[h] /\ p[m] = h
  /\ \A k \in 0..m - 1 : p[k] \in Page /\ Home(s.slab[p[k]]) = h /\ p[k + 1] = s.next[p[k]]
  /\ \A x \in Page : Home(s.slab[x]) = h => \E k \in 0..m - 1 : p[k] = x

\* Whoever follows next from a list's head (ngx_slab_alloc_pages does) meets the
\* pages of that home and no others, and is back at the head after at most Pages steps.
LEMMA ListPath ==
  ASSUME NEW s, Good(s), NEW h \in Heads
  PROVE  \E m \in 0..Pages : \E p : OnPath(s, h, m, p)
<1>1. s \in Memory /\ s.slab \in [Page -> SlabRecord] /\ \A y \in Page : Block(s.slab, y)
  BY MemoryParts DEF Good, Layout
<1>2. PICK home : home = Homes(s.slab)
  OBVIOUS
<1>3. home \in [Page -> Heads \cup {NULL}] /\ (\A y \in Page : home[y] = Home(s.slab[y]))
  BY <1>1, <1>2, HomesType
<1>4. PICK r \in [Page -> Int] : Chain(s.next, s.prev, home, r)
  BY <1>2 DEF Good, Chained
<1>4a. ASSUME NEW x \in Page, home[x] # NULL
       PROVE  /\ s.next[s.prev[x].to] = x
              /\ s.prev[x].to \in Page => home[s.prev[x].to] = home[x] /\ r[s.prev[x].to] < r[x]
              /\ s.prev[x].to \notin Page => s.prev[x].to = home[x]
  <2>1. Beside(s.next, s.prev, home, r, x)
    BY <1>3, <1>4, <1>4a, ListNeighbours
  <2> QED BY <2>1 DEF Beside
<1>5. PICK nx : nx = s.next
  OBVIOUS
<1>6. h \notin Page /\ h \in Node /\ h # NULL /\ Pages \in Nat
  BY NodeFacts, PageSizeType
<1>7. nx[h] = h \/ (nx[h] \in Page /\ home[nx[h]] = h)
  BY <1>4, <1>5 DEF Chain
<1>8. ASSUME NEW x \in Page, home[x] = h
      PROVE  nx[x] = h \/ (nx[x] \in Page /\ home[nx[x]] = h /\ r[x] < r[nx[x]])
  BY <1>4, <1>5, <1>6, <1>8 DEF Chain, InList
<1> DEFINE S == Page \cup {h}
           A == {x \in Page : home[x] = h} \cup {h}
           F == [x \in A |-> IF x = h THEN h ELSE nx[x]]
<1>9. nx[h] \in A /\ F \in [A -> A]
  BY <1>7, <1>8
<1>10. PICK q : Iterated(q, Pages, nx[h], F)
  <2> HIDE DEF A, F
  <2> QED BY <1>6, <1>9, Iterates
<1>11. q[0] = nx[h] /\ \A k \in 0..Pages - 1 : q[k + 1] = F[q[k]]
  <2>1. 0 \in 0..Pages /\ \A k \in 0..Pages - 1 : k + 1 \in 0..Pages /\ k + 1 # 0 /\ (k + 1) - 1 = k
    BY <1>6
  <2> HIDE DEF F
  <2> QED BY <2>1, <1>10 DEF Iterated
<1>12. \A k \in 0..Pages : q[k] \in A
  <2> DEFINE G == {k \in 0..Pages : q[k] \in A}
  <2>1. 0 \in G
    BY <1>6, <1>9, <1>11
  <2>2. ASSUME NEW k \in 0..Pages - 1, k \in G PROVE k + 1 \in G
    <3>1. q[k + 1] \in A
      <4> HIDE DEF A, F
      <4> QED BY <2>2, <1>9, <1>11
    <3> QED BY <3>1, <1>6
  <2> HIDE DEF G
  <2>3. \A k \in 0..Pages : k \in G
    BY <2>1, <2>2, <1>6, Climb
  <2> QED BY <2>3 DEF G
<1>13. \A k \in 0..Pages : q[k] = h \/ (q[k] \in Page /\ home[q[k]] = h)
  BY <1>12
<1>14. \A k \in 0..Pages - 1 : q[k + 1] = IF q[k] = h THEN h ELSE nx[q[k]]
  <2>1. \A k \in 0..Pages - 1 : q[k] \in A
    BY <1>6, <1>12
  <2> QED BY <2>1, <1>11
<1> HIDE DEF A, F
\* Once the head, always the head.
<1>15. ASSUME NEW i \in 0..Pages, q[i] = h PROVE \A k \in 0..Pages : i <= k => q[k] = h
  <2> DEFINE G == {k \in 0..Pages : i <= k => q[k] = h}
  <2>1. 0 \in G
    BY <1>6, <1>15
  <2>2. ASSUME NEW k \in 0..Pages - 1, k \in G PROVE k + 1 \in G
    <3>1. i <= k + 1 => q[k + 1] = h
      <4>1. CASE i = k + 1
        BY <4>1, <1>15
      <4>2. CASE i # k + 1 /\ i <= k + 1
        BY <4>2, <2>2, <1>14, <1>6
      <4> QED BY <4>1, <4>2
    <3> QED BY <3>1, <1>6
  <2> HIDE DEF G
  <2>3. \A k \in 0..Pages : k \in G
    BY <2>1, <2>2, <1>6, Climb
  <2> QED BY <2>3 DEF G
\* The ranks grow up to the head, so the pages differ.
<1>16. ASSUME NEW j \in 0..Pages, q[j] # h
       PROVE  \A i \in 0..Pages : i < j => q[i] # q[j]
  <2> SUFFICES ASSUME NEW i \in 0..Pages, i < j PROVE q[i] # q[j]
    OBVIOUS
  <2>1. \A k \in 0..j : q[k] # h /\ q[k] \in Page /\ home[q[k]] = h /\ r[q[k]] \in Int
    <3>1. \A k \in 0..j : k \in 0..Pages /\ k <= j
      BY <1>6
    <3>2. \A k \in 0..j : q[k] # h
      BY <3>1, <1>15, <1>16
    <3> QED BY <3>1, <3>2, <1>13
  <2> DEFINE G == {k \in 0..j : i < k => r[q[i]] < r[q[k]]}
  <2>2. 0 \in G
    BY <1>6
  <2>3. ASSUME NEW k \in 0..j - 1, k \in G PROVE k + 1 \in G
    <3>1. k \in 0..j /\ k + 1 \in 0..j /\ k \in 0..Pages - 1 /\ i \in 0..j
      BY <1>6
    <3>2. q[k + 1] = nx[q[k]] /\ q[k + 1] # h
      BY <3>1, <2>1, <1>14
    <3>3. r[q[k]] < r[q[k + 1]]
      BY <3>1, <3>2, <2>1, <1>8
    <3>4. i < k + 1 => r[q[i]] < r[q[k + 1]]
      <4>1. r[q[i]] \in Int /\ r[q[k]] \in Int /\ r[q[k + 1]] \in Int
        BY <2>1, <3>1
      <4>2. CASE i = k
        BY <4>2, <3>3
      <4>3. CASE i < k
        BY <4>1, <4>3, <3>3, <2>3
      <4> QED BY <4>2, <4>3, <3>1
    <3> QED BY <3>1, <3>4
  <2> HIDE DEF G
  <2>4. \A k \in 0..j : k \in G
    BY <2>2, <2>3, Climb
  <2>5. j \in 0..j /\ i \in 0..j
    BY <1>6
  <2>6. r[q[i]] < r[q[j]] /\ r[q[i]] \in Int
    BY <2>1, <2>4, <2>5 DEF G
  <2> QED BY <2>6
\* More steps than pages lead to the head.
<1>17. q[Pages] = h
  <2> SUFFICES ASSUME q[Pages] # h PROVE FALSE
    OBVIOUS
  <2>1. \A k \in 0..Pages : q[k] # h
    BY <1>6, <1>15
  <2>2. q \in [0..Pages -> Page]
    BY <2>1, <1>10, <1>13 DEF Iterated
  <2>3. IsFiniteSet(0..Pages) /\ Cardinality(0..Pages) = Pages + 1
    BY <1>6, FS_Interval
  <2>4. IsFiniteSet(Page) /\ Cardinality(Page) = Pages
    <3>1. 0 \in Int /\ Pages - 1 \in Int
      BY <1>6
    <3>2. IsFiniteSet(0..Pages - 1) /\ Cardinality(0..Pages - 1) = IF 0 > Pages - 1 THEN 0 ELSE (Pages - 1) - 0 + 1
      BY <3>1, FS_Interval
    <3> QED BY <3>2, <1>6 DEF Page
  <2>5. PICK i, j \in 0..Pages : i # j /\ q[i] = q[j]
    <3>1. Cardinality(Page) < Cardinality(0..Pages)
      BY <2>3, <2>4, <1>6
    <3>2. PICK D : D = 0..Pages
      OBVIOUS
    <3>3. q \in [D -> Page] /\ IsFiniteSet(D) /\ Cardinality(Page) < Cardinality(D)
      BY <2>2, <2>3, <3>1, <3>2
    <3>4. \E i, j \in D : i # j /\ q[i] = q[j]
      BY <2>4, <3>3, FS_PigeonHole
    <3> QED BY <3>2, <3>4
  <2>6. i < j \/ j < i
    BY <2>5, <1>6
  <2> QED BY <2>1, <2>5, <2>6, <1>16
<1>18. PICK m \in 0..Pages : q[m] = h /\ \A k \in 0..m - 1 : q[k] # h
  <2> DEFINE B == {k \in 0..Pages : q[k] = h}
  <2>1. B \in SUBSET Nat /\ B # {}
    BY <1>6, <1>17
  <2>2. PICK m \in B : \A k \in B : m <= k
    <3> HIDE DEF B
    <3> QED BY <2>1, LeastNat
  <2>3. ASSUME NEW k \in 0..m - 1 PROVE q[k] # h
    <3>1. k \in 0..Pages /\ ~(m <= k)
      BY <1>6
    <3> QED BY <3>1, <2>2
  <2> QED BY <2>2, <2>3
<1>19. \A k \in 0..m - 1 : q[k] \in Page /\ home[q[k]] = h /\ q[k + 1] = nx[q[k]]
  <2>1. \A k \in 0..m - 1 : k \in 0..Pages /\ k \in 0..Pages - 1
    BY <1>6
  <2> QED BY <2>1, <1>13, <1>14, <1>18
<1>20. \A x \in Page : home[x] = h => \E k \in 0..m - 1 : q[k] = x
  <2> DEFINE U == {x \in Page : home[x] = h /\ ~\E k \in 0..m - 1 : q[k] = x}
  <2> SUFFICES ASSUME U # {} PROVE FALSE
    OBVIOUS
  <2>1. IsFiniteSet(U) /\ \A x \in U : r[x] \in Int
    <3>1. IsFiniteSet(Page)
      <4>1. 0 \in Int /\ Pages - 1 \in Int
        BY <1>6
      <4> QED BY <4>1, FS_Interval DEF Page
    <3>2. U \in SUBSET Page
      OBVIOUS
    <3> HIDE DEF U
    <3> QED BY <3>1, <3>2, FS_Subset
  <2>2. PICK x \in U : \A y \in U : r[x] <= r[y]
    <3> HIDE DEF U
    <3> QED BY <2>1, LowestRank
  <2>3. x \in Page /\ home[x] = h /\ home[x] # NULL /\ ~\E k \in 0..m - 1 : q[k] = x
    BY <1>6
  <2>4. PICK y : y = s.prev[x].to
    OBVIOUS
  <2>5. /\ nx[y] = x
        /\ y \in Page => home[y] = h /\ r[y] < r[x]
        /\ y \notin Page => y = h
    <3>1. /\ s.next[s.prev[x].to] = x
          /\ s.prev[x].to \in Page => home[s.prev[x].to] = home[x] /\ r[s.prev[x].to] < r[x]
          /\ s.prev[x].to \notin Page => s.prev[x].to = home[x]
      BY <2>3, <1>4a
    <3> QED BY <3>1, <2>3, <2>4, <1>5
  <2>6. m \in Nat
    BY <1>6
  <2>7. CASE y \notin Page
    <3>1. q[0] = x /\ q[0] # h
      BY <2>3, <2>5, <2>7, <1>6, <1>11
    <3>2. m # 0
      BY <3>1, <1>18
    <3>3. 0 \in 0..m - 1
      BY <2>6, <3>2
    <3> QED BY <2>3, <3>1, <3>3
  <2>8. CASE y \in Page
    <3>1. y \notin U
      <4>1. ~(r[x] <= r[y])
        BY <2>3, <2>5, <2>8
      <4> HIDE DEF U
      <4> QED BY <4>1, <2>2
    <3>2. PICK k \in 0..m - 1 : q[k] = y
      BY <2>5, <2>8, <3>1
    <3>3. q[k + 1] = x
      BY <2>5, <3>2, <1>19
    <3>4. k + 1 # m
      BY <3>3, <2>3, <1>6, <1>18
    <3>5. k + 1 \in 0..m - 1
      BY <3>4, <2>6
    <3> QED BY <2>3, <3>3, <3>5
  <2> QED BY <2>7, <2>8
<1>21. OnPath(s, h, m, q)
  BY <1>3, <1>5, <1>11, <1>18, <1>19, <1>20 DEF OnPath
<1> QED BY <1>21

\* The walk of ngx_slab_alloc_pages finds a free block of n pages if there is
\* one.
LEMMA FirstFitIs ==
  ASSUME NEW s, Good(s), NEW n \in Nat
  PROVE  LET x == FirstFit(s, n)
         IN  /\ x # NULL => x \in Page /\ FreeStart(s.slab[x]) /\ s.slab[x].n >= n
             /\ x = NULL => \A y \in Page : FreeStart(s.slab[y]) => s.slab[y].n < n
<1>1. s \in Memory /\ s.slab \in [Page -> SlabRecord] /\ (\A y \in Page : Block(s.slab, y))
      /\ \A y \in Page : s.slab[y].n \in Nat
  BY MemoryParts DEF Good, Layout
<1>2. free \in Heads /\ free \notin Page /\ free \in Node /\ free # NULL /\ Pages \in Nat
      /\ NULL \notin Page
  BY NodeFacts, PageSizeType
<1>0. PICK m \in 0..Pages : \E p : OnPath(s, free, m, p)
  BY <1>2, ListPath
<1>3. PICK p : OnPath(s, free, m, p)
  BY <1>0
<1>4. m \in Nat /\ p[0] = s.next[free] /\ p[m] = free
      /\ (\A k \in 0..m - 1 : p[k] \in Page /\ Home(s.slab[p[k]]) = free /\ p[k + 1] = s.next[p[k]])
      /\ \A y \in Page : Home(s.slab[y]) = free => \E k \in 0..m - 1 : p[k] = y
  BY <1>2, <1>3 DEF OnPath
<1>5. \A y \in Page : Home(s.slab[y]) = free <=> FreeStart(s.slab[y])
  BY <1>1, HomesType
<1>6. \A k \in 0..m : k = m \/ k \in 0..m - 1
  BY <1>4
<1>7. \A k \in 0..m : p[k] \in Page \cup {free}
  BY <1>4, <1>6
<1> DEFINE A == {p[k] : k \in 0..m}
           F == [x \in A |-> IF x \in {free, NULL} \/ s.slab[x].n >= n THEN x ELSE s.next[x]]
           W(walk) == walk = [k \in 0..Pages |->
                        LET x == IF k = 0 THEN s.next[free] ELSE walk[k - 1]
                        IN  IF k = 0 \/ x \in {free, NULL} \/ s.slab[x].n >= n THEN x ELSE s.next[x]]
<1>8. F \in [A -> A] /\ s.next[free] \in A
  <2>1. ASSUME NEW k \in 0..m
        PROVE  (IF p[k] \in {free, NULL} \/ s.slab[p[k]].n >= n THEN p[k] ELSE s.next[p[k]]) \in A
    <3>1. CASE k = m
      BY <3>1, <1>4
    <3>2. CASE k # m
      <4>1. k \in 0..m - 1 /\ k + 1 \in 0..m
        BY <3>2, <1>4
      <4>2. p[k + 1] = s.next[p[k]]
        BY <4>1, <1>4
      <4> QED BY <4>1, <4>2
    <3> QED BY <3>1, <3>2
  <2>2. 0 \in 0..m
    BY <1>4
  <2> QED BY <2>1, <2>2, <1>4
<1>9. PICK f : Iterated(f, Pages, s.next[free], F)
  <2> HIDE DEF A, F
  <2> QED BY <1>2, <1>8, Iterates
<1>10. \A k \in 0..Pages : f[k] \in A
  <2> DEFINE G == {k \in 0..Pages : f[k] \in A}
  <2> HIDE DEF A, F
  <2>1. 0 \in G
    BY <1>2, <1>8, <1>9 DEF Iterated
  <2>2. ASSUME NEW k \in 0..Pages - 1, k \in G PROVE k + 1 \in G
    <3>1. k + 1 \in 0..Pages /\ k + 1 # 0 /\ (k + 1) - 1 = k
      BY <1>2
    <3>2. f[k + 1] = F[f[k]]
      BY <3>1, <1>9 DEF Iterated
    <3> QED BY <2>2, <3>1, <3>2, <1>8
  <2> HIDE DEF G
  <2>3. \A k \in 0..Pages : k \in G
    BY <2>1, <2>2, <1>2, Climb
  <2> QED BY <2>3 DEF G
<1>11. W(f)
  <2>1. f = [k \in 0..Pages |-> IF k = 0 THEN s.next[free] ELSE F[f[k - 1]]]
    BY <1>9 DEF Iterated
  <2>2. ASSUME NEW k \in 0..Pages
        PROVE  f[k] = LET x == IF k = 0 THEN s.next[free] ELSE f[k - 1]
                      IN  IF k = 0 \/ x \in {free, NULL} \/ s.slab[x].n >= n THEN x ELSE s.next[x]
    <3>1. CASE k = 0
      <4> HIDE DEF F
      <4> QED BY <2>1, <3>1
    <3>2. CASE k # 0
      <4>1. k - 1 \in 0..Pages
        BY <3>2, <1>2
      <4>2. f[k] = F[f[k - 1]] /\ f[k - 1] \in A
        <5> HIDE DEF F, A
        <5> QED BY <2>1, <3>2, <4>1, <1>10
      <4>3. F[f[k - 1]] = IF f[k - 1] \in {free, NULL} \/ s.slab[f[k - 1]].n >= n
                          THEN f[k - 1] ELSE s.next[f[k - 1]]
        <5> HIDE DEF A
        <5> QED BY <4>2
      <4> HIDE DEF F, A
      <4> QED BY <3>2, <4>2, <4>3
    <3> QED BY <3>1, <3>2
  <2> HIDE DEF F, A
  <2> QED BY <2>1, <2>2
<1>12. PICK w : W(w) /\ FirstFit(s, n) = IF w[Pages] = free THEN NULL ELSE w[Pages]
  <2> DEFINE v == CHOOSE walk : W(walk)
  <2>1. W(v)
    BY <1>11
  <2>2. FirstFit(s, n) = IF v[Pages] = free THEN NULL ELSE v[Pages]
    BY DEF FirstFit
  <2> HIDE DEF v
  <2> QED BY <2>1, <2>2
<1> HIDE DEF A, F
<1>13. /\ w[0] = s.next[free]
       /\ \A k \in 0..Pages - 1 :
            w[k + 1] = IF w[k] \in {free, NULL} \/ s.slab[w[k]].n >= n THEN w[k] ELSE s.next[w[k]]
  <2>1. 0 \in 0..Pages /\ \A k \in 0..Pages - 1 : k + 1 \in 0..Pages /\ k + 1 # 0 /\ (k + 1) - 1 = k
    BY <1>2
  <2>2. \A k \in 0..Pages : w[k] =
          LET x == IF k = 0 THEN s.next[free] ELSE w[k - 1]
          IN  IF k = 0 \/ x \in {free, NULL} \/ s.slab[x].n >= n THEN x ELSE s.next[x]
    BY <1>12
  <2>3. w[0] = s.next[free]
    BY <2>1, <2>2
  <2>4. ASSUME NEW k \in 0..Pages - 1
        PROVE  w[k + 1] = IF w[k] \in {free, NULL} \/ s.slab[w[k]].n >= n THEN w[k] ELSE s.next[w[k]]
    <3>1. k + 1 \in 0..Pages /\ k + 1 # 0 /\ (k + 1) - 1 = k
      BY <2>1
    <3>2. w[k + 1] = IF w[(k + 1) - 1] \in {free, NULL} \/ s.slab[w[(k + 1) - 1]].n >= n
                     THEN w[(k + 1) - 1] ELSE s.next[w[(k + 1) - 1]]
      BY <2>2, <3>1
    <3> QED BY <3>1, <3>2
  <2> QED BY <2>3, <2>4
\* At step k the walk is at place k of the list, at its end, or at a fit.
<1> DEFINE At(k, j) == /\ w[k] = p[j] /\ \A i \in 0..j - 1 : s.slab[p[i]].n < n
                       /\ j = k \/ j = m \/ s.slab[p[j]].n >= n
           G == {k \in 0..Pages : \E j \in 0..m : At(k, j)}
<1>14. 0 \in G
  <2>1. 0 \in 0..Pages /\ 0 \in 0..m /\ \A i \in 0..0 - 1 : FALSE
    BY <1>2, <1>4
  <2>2. At(0, 0)
    BY <2>1, <1>4, <1>13
  <2> QED BY <2>1, <2>2
<1>15. ASSUME NEW k \in 0..Pages - 1, k \in G PROVE k + 1 \in G
  <2>1. PICK j \in 0..m : At(k, j)
    BY <1>15
  <2>2. k + 1 \in 0..Pages
    BY <1>2
  <2>3. w[k + 1] = IF p[j] \in {free, NULL} \/ s.slab[p[j]].n >= n THEN p[j] ELSE s.next[p[j]]
    BY <2>1, <1>13
  <2>4. CASE j = m
    <3>1. At(k + 1, j)
      BY <2>1, <2>3, <2>4, <1>4
    <3> QED BY <2>2, <3>1
  <2>5. CASE j # m /\ s.slab[p[j]].n >= n
    <3>1. At(k + 1, j)
      BY <2>1, <2>3, <2>5
    <3> QED BY <2>2, <3>1
  <2>6. CASE j # m /\ ~(s.slab[p[j]].n >= n)
    <3>1. j \in 0..m - 1 /\ j + 1 \in 0..m /\ j = k
      BY <2>1, <2>6, <1>4
    <3>2. p[j] \in Page /\ p[j + 1] = s.next[p[j]]
      BY <3>1, <1>4
    <3>3. w[k + 1] = p[j + 1]
      BY <3>2, <2>3, <2>6, <1>2
    <3>4. s.slab[p[j]].n < n
      BY <3>2, <2>6, <1>1
    <3>5. \A i \in 0..(j + 1) - 1 : i \in 0..j - 1 \/ i = j
      BY <3>1
    <3>6. At(k + 1, j + 1)
      BY <3>1, <3>3, <3>4, <3>5, <2>1
    <3> QED BY <2>2, <3>1, <3>6
  <2> QED BY <2>4, <2>5, <2>6
<1>16. Pages \in G
  <2>1. \A k \in 0..Pages : k \in G
    <3> HIDE DEF G
    <3> QED BY <1>2, <1>14, <1>15, Climb
  <2>2. Pages \in 0..Pages
    BY <1>2
  <2> HIDE DEF G
  <2> QED BY <2>1, <2>2
<1>17. PICK j \in 0..m : At(Pages, j)
  BY <1>16
<1>18. j = m \/ (j \in 0..m - 1 /\ s.slab[p[j]].n >= n)
  <2>1. j = Pages => j = m
    BY <1>2, <1>3
  <2> QED BY <2>1, <1>17, <1>6
<1>19. CASE j = m
  <2>1. FirstFit(s, n) = NULL
    BY <1>4, <1>12, <1>17, <1>19
  <2>2. \A y \in Page : FreeStart(s.slab[y]) => s.slab[y].n < n
    BY <1>4, <1>5, <1>17, <1>19
  <2> QED BY <2>1, <2>2
<1>20. CASE j \in 0..m - 1 /\ s.slab[p[j]].n >= n
  <2>1. p[j] \in Page /\ FreeStart(s.slab[p[j]]) /\ p[j] # free /\ p[j] # NULL
    BY <1>2, <1>4, <1>5, <1>20
  <2>2. FirstFit(s, n) = p[j]
    BY <2>1, <1>12, <1>17
  <2> QED BY <2>1, <2>2, <1>20
<1> QED BY <1>18, <1>19, <1>20

\* Mem is what the variables hold.
LEMMA MemIs == Mem.slab = slab /\ Mem.next = next /\ Mem.prev = prev /\ Mem.pfree = pfree
BY DEF Mem

\* Walking from a head along next, one meets the pages whose contents say that
\* they are on its list.
LEMMA ListedIs ==
  ASSUME Good(Mem), NEW h \in Heads
  PROVE  ListedSet(h) = {x \in Page : Home(slab[x]) = h}
<1>1. h \notin Page /\ h \in Node /\ h # NULL /\ Pages \in Nat /\ NULL \notin Page /\ Pages + 1 \in Nat
  BY NodeFacts, PageSizeType
<1>0. PICK m \in 0..Pages : \E p : OnPath(Mem, h, m, p)
  BY ListPath
<1>2. PICK p : OnPath(Mem, h, m, p)
  BY <1>0
<1>3. m \in Nat /\ p[0] = next[h] /\ p[m] = h
      /\ (\A k \in 0..m - 1 : p[k] \in Page /\ Home(slab[p[k]]) = h /\ p[k + 1] = next[p[k]])
      /\ \A y \in Page : Home(slab[y]) = h => \E k \in 0..m - 1 : p[k] = y
  BY <1>1, <1>2, MemIs DEF OnPath
<1>4. \A k \in 0..m : p[k] \in Node /\ (k = m \/ k \in 0..m - 1)
  <2>1. \A k \in 0..m : k = m \/ k \in 0..m - 1
    BY <1>3
  <2> QED BY <2>1, <1>1, <1>3, NodeFacts
<1> DEFINE A == {v \in Seq(Node) : \E j \in 0..m : Len(v) = j + 1 /\ \A i \in 1..j + 1 : v[i] = p[i - 1]}
           F == [v \in A |-> IF v[Len(v)] \in {h, NULL} THEN v ELSE Append(v, next[v[Len(v)]])]
           W(w) == w = [k \in 0..Pages + 1 |->
                          IF k = 0 THEN <<next[h]>>
                          ELSE LET v == w[k - 1]
                                   x == v[Len(v)]
                               IN  IF x \in {h, NULL} THEN v ELSE Append(v, next[x])]
<1>5. ASSUME NEW v \in A, NEW j \in 0..m, Len(v) = j + 1, \A i \in 1..j + 1 : v[i] = p[i - 1]
      PROVE  /\ v[Len(v)] = p[j]
             /\ j = m => F[v] = v
             /\ j # m => /\ F[v] \in Seq(Node) /\ Len(F[v]) = j + 2
                         /\ \A i \in 1..j + 2 : F[v][i] = p[i - 1]
  <2>1. j \in Nat /\ j + 1 \in 1..j + 1 /\ (j + 1) - 1 = j
    BY <1>3
  <2>2. v[Len(v)] = p[j]
    BY <1>5, <2>1
  <2>3. F[v] = IF p[j] \in {h, NULL} THEN v ELSE Append(v, next[p[j]])
    <3> HIDE DEF A
    <3> QED BY <2>2
  <2>4. ASSUME j # m
        PROVE  /\ F[v] \in Seq(Node) /\ Len(F[v]) = j + 2
               /\ \A i \in 1..j + 2 : F[v][i] = p[i - 1]
    <3>1. j \in 0..m - 1 /\ j + 1 \in 0..m
      BY <2>1, <2>4, <1>3
    <3>2. p[j] \in Page /\ p[j + 1] = next[p[j]] /\ p[j + 1] \in Node
      BY <3>1, <1>3, <1>4
    <3>3. F[v] = Append(v, p[j + 1])
      BY <2>3, <3>2, <1>1
    <3>4. v \in Seq(Node)
      OBVIOUS
    <3> HIDE DEF A, F
    <3>5. F[v] \in Seq(Node) /\ Len(F[v]) = j + 2
      BY <3>2, <3>3, <3>4, <2>1, <1>5
    <3>6. ASSUME NEW i \in 1..j + 2 PROVE F[v][i] = p[i - 1]
      <4>1. CASE i = j + 2
        BY <4>1, <3>2, <3>3, <3>4, <2>1, <1>5
      <4>2. CASE i # j + 2
        <5>1. i \in 1..j + 1 /\ i \in 1..Len(v)
          BY <4>2, <2>1, <1>5
        <5>2. Append(v, p[j + 1])[i] = v[i]
          BY <5>1, <3>2, <3>4
        <5> QED BY <5>1, <5>2, <3>3, <1>5
      <4> QED BY <4>1, <4>2
    <3> QED BY <3>5, <3>6
  <2> HIDE DEF F, A
  <2> QED BY <2>2, <2>3, <2>4, <1>3
<1>6. F \in [A -> A] /\ <<next[h]>> \in A
  <2>1. ASSUME NEW v \in A PROVE F[v] \in A
    <3>1. PICK j \in 0..m : Len(v) = j + 1 /\ \A i \in 1..j + 1 : v[i] = p[i - 1]
      OBVIOUS
    <3>2. CASE j = m
      <4>1. F[v] = v
        <5> HIDE DEF A, F
        <5> QED BY <3>1, <3>2, <1>5
      <4> QED BY <4>1
    <3>3. CASE j # m
      <4>1. F[v] \in Seq(Node) /\ Len(F[v]) = j + 2 /\ \A i \in 1..j + 2 : F[v][i] = p[i - 1]
        <5> HIDE DEF A, F
        <5> QED BY <3>1, <3>3, <1>5
      <4>2. j + 1 \in 0..m /\ (j + 1) + 1 = j + 2
        BY <3>3, <1>3
      <4> HIDE DEF F
      <4> QED BY <4>1, <4>2
    <3> QED BY <3>2, <3>3
  <2>2. <<next[h]>> \in A
    <3>1. p[0] \in Node /\ 0 \in 0..m
      BY <1>3, <1>4
    <3>2. <<p[0]>> \in Seq(Node) /\ Len(<<p[0]>>) = 0 + 1 /\ \A i \in 1..0 + 1 : <<p[0]>>[i] = p[i - 1]
      BY <3>1
    <3> QED BY <3>1, <3>2, <1>3
  <2>3. F = [v \in A |-> F[v]]
    <3> HIDE DEF A
    <3> QED OBVIOUS
  <2> HIDE DEF A, F
  <2> QED BY <2>1, <2>2, <2>3
<1>7. PICK f : Iterated(f, Pages + 1, <<next[h]>>, F)
  <2> HIDE DEF A, F
  <2> QED BY <1>1, <1>6, Iterates
<1>8. \A k \in 0..Pages + 1 : f[k] \in A
  <2> DEFINE G == {k \in 0..Pages + 1 : f[k] \in A}
  <2> HIDE DEF A, F
  <2>1. 0 \in G
    BY <1>1, <1>6, <1>7 DEF Iterated
  <2>2. ASSUME NEW k \in 0..(Pages + 1) - 1, k \in G PROVE k + 1 \in G
    <3>1. k + 1 \in 0..Pages + 1 /\ k + 1 # 0 /\ (k + 1) - 1 = k
      BY <1>1
    <3>2. f[k + 1] = F[f[k]]
      BY <3>1, <1>7 DEF Iterated
    <3> QED BY <2>2, <3>1, <3>2, <1>6
  <2> HIDE DEF G
  <2>3. \A k \in 0..Pages + 1 : k \in G
    BY <2>1, <2>2, <1>1, Climb
  <2> QED BY <2>3 DEF G
<1>9. W(f)
  <2>1. f = [k \in 0..Pages + 1 |-> IF k = 0 THEN <<next[h]>> ELSE F[f[k - 1]]]
    BY <1>7 DEF Iterated
  <2>2. ASSUME NEW k \in 0..Pages + 1
        PROVE  f[k] = IF k = 0 THEN <<next[h]>>
                      ELSE LET v == f[k - 1]
                               x == v[Len(v)]
                           IN  IF x \in {h, NULL} THEN v ELSE Append(v, next[x])
    <3>1. CASE k = 0
      <4> HIDE DEF F
      <4> QED BY <2>1, <3>1
    <3>2. CASE k # 0
      <4>1. k - 1 \in 0..Pages + 1
        BY <3>2, <1>1
      <4>2. PICK v : v = f[k - 1]
        OBVIOUS
      <4>3. f[k] = F[v] /\ v \in A
        <5> HIDE DEF F, A
        <5> QED BY <2>1, <3>2, <4>1, <4>2, <1>8
      <4>4. F[v] = IF v[Len(v)] \in {h, NULL} THEN v ELSE Append(v, next[v[Len(v)]])
        <5> HIDE DEF A
        <5> QED BY <4>3
      <4> HIDE DEF F, A
      <4> QED BY <3>2, <4>2, <4>3, <4>4
    <3> QED BY <3>1, <3>2
  <2> HIDE DEF F, A
  <2> QED BY <2>1, <2>2
<1>10. PICK w : W(w) /\ Listed(h) = SubSeq(w[Pages + 1], 1, Len(w[Pages + 1]) - 1)
  <2> DEFINE u == CHOOSE w : W(w)
  <2>1. W(u)
    BY <1>9
  <2>2. Listed(h) = SubSeq(u[Pages + 1], 1, Len(u[Pages + 1]) - 1)
    BY DEF Listed
  <2> HIDE DEF u
  <2> QED BY <2>1, <2>2
<1>11. w[0] = <<next[h]>>
  <2>1. 0 \in 0..Pages + 1
    BY <1>1
  <2> QED BY <2>1, <1>10
<1>12. ASSUME NEW k \in 0..Pages
       PROVE  w[k + 1] = IF w[k][Len(w[k])] \in {h, NULL} THEN w[k] ELSE Append(w[k], next[w[k][Len(w[k])]])
  <2>1. k + 1 \in 0..Pages + 1 /\ k + 1 # 0 /\ (k + 1) - 1 = k
    BY <1>1
  <2>2. \A l \in 0..Pages + 1 : l # 0 =>
          w[l] = IF w[l - 1][Len(w[l - 1])] \in {h, NULL} THEN w[l - 1]
                 ELSE Append(w[l - 1], next[w[l - 1][Len(w[l - 1])]])
    BY <1>10
  <2>3. w[k + 1] = IF w[(k + 1) - 1][Len(w[(k + 1) - 1])] \in {h, NULL} THEN w[(k + 1) - 1]
                   ELSE Append(w[(k + 1) - 1], next[w[(k + 1) - 1][Len(w[(k + 1) - 1])]])
    BY <2>1, <2>2
  <2> QED BY <2>1, <2>3
\* At step k the walk has met the first k + 1 nodes, or all.
<1> DEFINE At(k) == LET j == IF k < m THEN k ELSE m
                    IN  /\ w[k] \in Seq(Node) /\ Len(w[k]) = j + 1
                        /\ \A i \in 1..j + 1 : w[k][i] = p[i - 1]
           G == {k \in 0..Pages + 1 : At(k)}
<1> HIDE DEF W
<1>13. 0 \in G
  <2>1. p[0] \in Node /\ 0 \in 0..m /\ 0 \in 0..Pages + 1
    BY <1>1, <1>3, <1>4
  <2>2. <<p[0]>> \in Seq(Node) /\ Len(<<p[0]>>) = 0 + 1 /\ \A i \in 1..0 + 1 : <<p[0]>>[i] = p[i - 1]
    BY <2>1
  <2>3. (IF 0 < m THEN 0 ELSE m) = 0 /\ w[0] = <<p[0]>>
    BY <1>3, <1>11
  <2>4. At(0)
    BY <2>2, <2>3
  <2> QED BY <2>1, <2>4
<1>14. ASSUME NEW k \in 0..(Pages + 1) - 1, k \in G PROVE k + 1 \in G
  <2>1. k + 1 \in 0..Pages + 1 /\ k \in 0..Pages /\ k \in Nat
    BY <1>1
  <2>2. PICK j : j = IF k < m THEN k ELSE m
    OBVIOUS
  <2>3. PICK v : v = w[k]
    OBVIOUS
  <2>4. j \in 0..m /\ v \in Seq(Node) /\ Len(v) = j + 1 /\ \A i \in 1..j + 1 : v[i] = p[i - 1]
    BY <2>1, <2>2, <2>3, <1>3, <1>14
  <2>5. v \in A
    BY <2>4
  <2>6. w[k + 1] = F[v]
    <3> HIDE DEF A
    <3> QED BY <2>1, <2>3, <2>5, <1>12
  <2>7. CASE j = m
    <3>1. w[k + 1] = v
      <4> HIDE DEF A, F, G
      <4> QED BY <2>4, <2>5, <2>6, <2>7, <1>5
    <3>2. (IF k + 1 < m THEN k + 1 ELSE m) = m
      BY <2>1, <2>2, <2>7, <1>3
    <3>3. At(k + 1)
      BY <3>1, <3>2, <2>4, <2>7
    <3> QED BY <2>1, <3>3
  <2>8. CASE j # m
    <3>1. w[k + 1] \in Seq(Node) /\ Len(w[k + 1]) = j + 2 /\ \A i \in 1..j + 2 : w[k + 1][i] = p[i - 1]
      <4> HIDE DEF A, F, G
      <4>1. F[v] \in Seq(Node) /\ Len(F[v]) = j + 2 /\ \A i \in 1..j + 2 : F[v][i] = p[i - 1]
        BY <2>4, <2>5, <2>8, <1>5
      <4> QED BY <4>1, <2>6
    <3>2. (IF k + 1 < m THEN k + 1 ELSE m) = k + 1 /\ j + 2 = (k + 1) + 1
      BY <2>1, <2>2, <2>8, <1>3
    <3>3. At(k + 1)
      BY <3>1, <3>2
    <3> QED BY <2>1, <3>3
  <2> QED BY <2>7, <2>8
<1>15. Pages + 1 \in G
  <2>1. \A k \in 0..Pages + 1 : k \in G
    <3> HIDE DEF G
    <3> QED BY <1>1, <1>13, <1>14, Climb
  <2>2. Pages + 1 \in 0..Pages + 1
    BY <1>1
  <2> HIDE DEF G
  <2> QED BY <2>1, <2>2
<1>16. PICK v : v = w[Pages + 1]
  OBVIOUS
<1>17. v \in Seq(Node) /\ Len(v) = m + 1 /\ \A i \in 1..m + 1 : v[i] = p[i - 1]
  <2>1. (IF Pages + 1 < m THEN Pages + 1 ELSE m) = m
    BY <1>1, <1>2
  <2> QED BY <2>1, <1>15, <1>16
<1> HIDE DEF A, F, G
<1>18. PICK l : l = SubSeq(v, 1, m)
  OBVIOUS
<1>19. Listed(h) = l
  <2>1. Len(v) - 1 = m
    BY <1>3, <1>17
  <2> QED BY <2>1, <1>10, <1>16, <1>18
<1>20. DOMAIN l = 1..m /\ \A i \in 1..m : l[i] = p[i - 1]
  <2>1. \A i \in 1..m : v[i] = p[i - 1]
    BY <1>3, <1>17
  <2> QED BY <2>1, <1>3, <1>17, <1>18
<1>21. ListedSet(h) = {l[i] : i \in DOMAIN l}
  BY <1>19 DEF ListedSet
<1>22. ASSUME NEW i \in 1..m PROVE l[i] \in Page /\ Home(slab[l[i]]) = h
  <2>1. i - 1 \in 0..m - 1
    BY <1>3
  <2> QED BY <2>1, <1>3, <1>20
<1>23. ASSUME NEW x \in Page, Home(slab[x]) = h PROVE \E i \in 1..m : l[i] = x
  <2>1. PICK k \in 0..m - 1 : p[k] = x
    BY <1>3, <1>23
  <2>2. k + 1 \in 1..m /\ (k + 1) - 1 = k
    BY <1>3
  <2>3. l[k + 1] = p[(k + 1) - 1]
    BY <2>2, <1>20
  <2> QED BY <2>1, <2>2, <2>3
<1>24. ListedSet(h) = {l[i] : i \in 1..m}
  BY <1>20, <1>21
<1>25. \A x : x \in ListedSet(h) <=> x \in Page /\ Home(slab[x]) = h
  <2> HIDE DEF At
  <2> QED BY <1>22, <1>23, <1>24
<1> QED BY <1>25

-----------------------------------------------------------------------------
(* What users hold.                                                        *)

\* A number of chunks and one more within a page.
LEMMA ChunkOffset ==
  ASSUME NEW k \in MinShift..PageShift - 1, NEW i \in 0..Chunks(k) - 1
  PROVE  /\ i \in Nat /\ i * Pow2[k] \in Nat /\ i * Pow2[k] + Pow2[k] <= PageSize
         /\ i * Pow2[k] < PageSize
<1>1. Pow2[k] \in Nat /\ Pow2[k] > 0 /\ Chunks(k) \in Nat /\ Chunks(k) * Pow2[k] = PageSize
  BY ChunkFacts
<1>2. i \in Nat /\ i \in Int /\ i < Chunks(k) /\ Chunks(k) \in Int
  BY <1>1
<1>3. \A a, b \in Nat : a * b \in Nat
  OBVIOUS
<1>4. i * Pow2[k] \in Nat
  BY <1>1, <1>2, <1>3
<1>5. i * Pow2[k] + Pow2[k] <= Chunks(k) * Pow2[k]
  BY <1>1, <1>2, Monotone
<1> QED BY <1>1, <1>2, <1>4, <1>5, PageSizeType

\* The address of a chunk leads back to its page and to the chunk.
LEMMA ChunkAddress ==
  ASSUME NEW x \in Nat, NEW k \in MinShift..PageShift - 1, NEW i \in 0..Chunks(k) - 1,
         NEW a, a = x * PageSize + i * Pow2[k]
  PROVE  /\ a \in Nat /\ a \div PageSize = x /\ a % PageSize = i * Pow2[k]
         /\ (i * Pow2[k]) \div Pow2[k] = i /\ a % Pow2[k] = 0
<1>1. Pow2[k] \in Nat /\ Pow2[k] > 0 /\ Chunks(k) \in Nat /\ Chunks(k) * Pow2[k] = PageSize
  BY ChunkFacts
<1>2. i \in Nat /\ i * Pow2[k] \in Nat /\ i * Pow2[k] < PageSize
  BY ChunkOffset
<1>3. PageSize \in Nat /\ PageSize > 0
  BY PageSizeType
<1>4. \A b, c \in Nat : b * c \in Nat
  OBVIOUS
<1>5. a \in Nat
  BY <1>2, <1>3, <1>4
<1>6. a \div PageSize = x /\ a % PageSize = i * Pow2[k]
  BY <1>2, <1>3, DivMod
<1>7. (i * Pow2[k] + 0) \div Pow2[k] = i
  BY <1>1, <1>2, DivMod
<1>8. a = (x * Chunks(k) + i) * Pow2[k] + 0
  <2>1. \A p, q, m, n \in Nat : (p * q + m) * n + 0 = p * (q * n) + m * n
    OBVIOUS
  <2> QED BY <2>1, <1>1, <1>2
<1>9. x * Chunks(k) + i \in Nat
  BY <1>1, <1>2, <1>4
<1>10. ((x * Chunks(k) + i) * Pow2[k] + 0) % Pow2[k] = 0
  BY <1>1, <1>9, DivMod
<1>11. i * Pow2[k] + 0 = i * Pow2[k]
  BY <1>2
<1> QED BY <1>5, <1>6, <1>7, <1>8, <1>10, <1>11

\* The address of pages leads back to the first.
LEMMA PagesAddress ==
  ASSUME NEW x \in Nat
  PROVE  x * PageSize \in Nat /\ (x * PageSize) \div PageSize = x /\ (x * PageSize) % PageSize = 0
<1>1. PageSize \in Nat /\ PageSize > 0
  BY PageSizeType
<1>2. (x * PageSize + 0) \div PageSize = x /\ (x * PageSize + 0) % PageSize = 0
  BY <1>1, DivMod
<1>3. \A b, c \in Nat : b * c \in Nat /\ b * c + 0 = b * c
  OBVIOUS
<1> QED BY <1>1, <1>2, <1>3

\* The pages that are allocated for size bytes hold them.
LEMMA PagesForIs ==
  ASSUME NEW size \in Nat, size > 0
  PROVE  PagesFor(size) \in Nat /\ PagesFor(size) > 0 /\ size <= PagesFor(size) * PageSize
<1>1. PageSize \in Nat /\ PageSize > 0
  BY PageSizeType
<1>2. PICK q : q = size \div PageSize
  OBVIOUS
<1>3. PICK m : m = size % PageSize
  OBVIOUS
<1>4. q \in Nat /\ m \in Nat /\ m < PageSize /\ size = q * PageSize + m
  <2>1. q \in Int /\ m \in Int /\ 0 <= m /\ m < PageSize
    BY <1>1, <1>2, <1>3
  <2>2. size = PageSize * q + m
    BY <1>1, <1>2, <1>3
  <2>3. q >= 0
    BY <1>1, <2>1, <2>2
  <2> QED BY <2>1, <2>2, <2>3, <1>1
<1>5. PagesFor(size) = q + (IF m # 0 THEN 1 ELSE 0)
  BY <1>2, <1>3 DEF PagesFor
<1>6. CASE m = 0
  <2>1. q # 0
    BY <1>1, <1>4, <1>6
  <2> QED BY <2>1, <1>1, <1>4, <1>5, <1>6
<1>7. CASE m # 0
  <2>1. PagesFor(size) = q + 1
    BY <1>5, <1>7
  <2>2. (q + 1) * PageSize = q * PageSize + PageSize
    BY <1>1, <1>4
  <2>3. q * PageSize \in Nat
    BY <1>1, <1>4
  <2> QED BY <2>1, <2>2, <2>3, <1>1, <1>4
<1> QED BY <1>6, <1>7

\* What is known of pages that a user holds.
LEMMA HeldPagesIs ==
  ASSUME Good(Mem), NEW g \in [addr : Nat, size : Nat], NEW x \in Page, HeldPages(g, x)
  PROVE  LET n == slab[x].n
         IN  /\ g.addr \div PageSize = x /\ g.addr % PageSize = 0
             /\ slab[x].kind = "start" /\ prev[x].type = "PAGE"
             /\ n \in Nat /\ n > 0 /\ x + n <= Pages /\ g.size <= n * PageSize
             /\ \A y \in x + 1..x + n - 1 : slab[y] = Busy
<1>1. x \in Nat /\ g.addr = x * PageSize /\ slab[x].kind = "start" /\ slab[x].n = PagesFor(g.size)
      /\ g.size \in Nat /\ g.size > MaxSize /\ MaxSize \in Nat
  BY NodeFacts, PageSizeType DEF HeldPages
<1>2. g.size > 0
  BY <1>1
<1>3. PagesFor(g.size) \in Nat /\ g.size <= PagesFor(g.size) * PageSize
  BY <1>1, <1>2, PagesForIs
<1>4. Block(slab, x) /\ Mark(Mem, x)
  BY MemIs DEF Good, Layout, Marks
<1>5. prev[x].type = "PAGE"
  BY <1>1, <1>4, MemIs DEF Mark
<1>6. g.addr \div PageSize = x /\ g.addr % PageSize = 0
  BY <1>1, PagesAddress
<1>7. slab[x].n > 0 /\ x + slab[x].n <= Pages /\ \A y \in x + 1..x + slab[x].n - 1 : slab[y] = Busy
  BY <1>1, <1>4 DEF Block
<1> QED BY <1>1, <1>3, <1>5, <1>6, <1>7

\* What is known of a chunk that a user holds.
LEMMA HeldChunkIs ==
  ASSUME Good(Mem), NEW g \in [addr : Nat, size : Nat], NEW x \in Page, NEW i \in Nat, HeldChunk(g, x, i)
  PROVE  LET k == slab[x].n
         IN  /\ g.addr \div PageSize = x /\ g.addr % PageSize = i * Pow2[k]
             /\ (g.addr % PageSize) \div Pow2[k] = i /\ g.addr % Pow2[k] = 0
             /\ slab[x].kind = "chunks" /\ prev[x].type = TypeOf(k) /\ prev[x].type # "PAGE"
             /\ k \in MinShift..PageShift - 1 /\ i \in 0..Chunks(k) - 1 /\ i \in slab[x].map
             /\ g.size <= Pow2[k] /\ i >= BitmapChunks(k) /\ k = Shift(g.size)
<1>1. /\ x \in Nat /\ g.addr = x * PageSize + i * Pow2[slab[x].n] /\ slab[x].kind = "chunks"
      /\ slab[x].n = Shift(g.size) /\ i \in slab[x].map /\ i >= BitmapChunks(slab[x].n)
      /\ g.size \in Nat /\ g.size <= MaxSize
  BY NodeFacts DEF HeldChunk
<1>2. /\ slab[x].n \in MinShift..PageShift - 1 /\ RightChunks(slab[x].n, slab[x].map)
      /\ prev[x].type = TypeOf(slab[x].n) /\ prev[x].type # "PAGE"
  BY <1>1, MemIs, ChunkPageIs
<1>3. i \in 0..Chunks(slab[x].n) - 1
  BY <1>1, <1>2 DEF RightChunks
<1>4. /\ g.addr \div PageSize = x /\ g.addr % PageSize = i * Pow2[slab[x].n]
      /\ (i * Pow2[slab[x].n]) \div Pow2[slab[x].n] = i /\ g.addr % Pow2[slab[x].n] = 0
  BY <1>1, <1>2, <1>3, ChunkAddress
<1>5. g.size <= Pow2[slab[x].n]
  BY <1>1, ShiftType
<1> QED BY <1>1, <1>2, <1>3, <1>4, <1>5

\* The page of what a user holds is found from its address.
LEMMA GivenPage ==
  ASSUME SlabIInv, NEW g \in given
  PROVE  LET x == g.addr \div PageSize
         IN  /\ g \in [addr : Nat, size : Nat] /\ x \in Page /\ slab[x].kind # "free"
             /\ HeldPages(g, x) \/ \E i \in Nat : HeldChunk(g, x, i)
<1>1. Good(Mem) /\ g \in [addr : Nat, size : Nat]
      /\ ((\E x \in Page : HeldPages(g, x)) \/ \E x \in Page, i \in Nat : HeldChunk(g, x, i))
  BY DEF SlabIInv, GivenRight
<1>2. CASE \E x \in Page : HeldPages(g, x)
  <2>1. PICK x \in Page : HeldPages(g, x)
    BY <1>2
  <2>2. g.addr \div PageSize = x /\ slab[x].kind = "start"
    BY <1>1, <2>1, HeldPagesIs
  <2> QED BY <1>1, <2>1, <2>2
<1>3. CASE \E x \in Page, i \in Nat : HeldChunk(g, x, i)
  <2>1. PICK x \in Page, i \in Nat : HeldChunk(g, x, i)
    BY <1>3
  <2>2. g.addr \div PageSize = x /\ slab[x].kind = "chunks"
    BY <1>1, <2>1, HeldChunkIs
  <2> QED BY <1>1, <2>1, <2>2
<1> QED BY <1>1, <1>2, <1>3

-----------------------------------------------------------------------------
(* What SlabIInv implies.                                                  *)

\* ngx_slab_free finds page, type and chunk of what a user holds from its address.
LEMMA AcceptsHeld == SlabIInv => FreeAccepts
<1> SUFFICES ASSUME SlabIInv, NEW g \in given
             PROVE  LET x == g.addr \div PageSize
                    IN  IF prev[x].type = "PAGE"
                        THEN slab[x].kind = "start" /\ g.addr % PageSize = 0
                        ELSE /\ slab[x].kind = "chunks" /\ prev[x].type = TypeOf(slab[x].n)
                             /\ g.addr % Pow2[slab[x].n] = 0
                             /\ (g.addr % PageSize) \div Pow2[slab[x].n] \in slab[x].map
  BY DEF FreeAccepts
<1>1. PICK x : x = g.addr \div PageSize
  OBVIOUS
<1>2. /\ g \in [addr : Nat, size : Nat] /\ x \in Page /\ Good(Mem)
      /\ HeldPages(g, x) \/ \E i \in Nat : HeldChunk(g, x, i)
  BY <1>1, GivenPage DEF SlabIInv
<1>3. CASE HeldPages(g, x)
  <2>1. prev[x].type = "PAGE" /\ slab[x].kind = "start" /\ g.addr % PageSize = 0
    BY <1>2, <1>3, HeldPagesIs
  <2> QED BY <1>1, <2>1
<1>4. CASE \E i \in Nat : HeldChunk(g, x, i)
  <2>1. PICK i \in Nat : HeldChunk(g, x, i)
    BY <1>4
  <2>2. /\ prev[x].type # "PAGE" /\ slab[x].kind = "chunks" /\ prev[x].type = TypeOf(slab[x].n)
        /\ g.addr % Pow2[slab[x].n] = 0 /\ (g.addr % PageSize) \div Pow2[slab[x].n] = i
        /\ i \in slab[x].map
    BY <1>2, <2>1, HeldChunkIs
  <2> QED BY <1>1, <2>2
<1> QED BY <1>2, <1>3, <1>4

\* The free list is what ngx_slab_alloc_pages and ngx_slab_free_pages rely on.
LEMMA ListsHeld == SlabIInv => FreeListRight
<1> SUFFICES ASSUME SlabIInv PROVE FreeListRight
  OBVIOUS
<1>1. Good(Mem) /\ Mem \in Memory /\ Layout(slab) /\ Marks(Mem) /\ pfree = Cardinality(FreeSet(slab))
      /\ slab \in [Page -> SlabRecord] /\ (\A y \in Page : slab[y].n \in Nat)
  <2>1. Good(Mem) /\ Mem \in Memory /\ Layout(slab) /\ Marks(Mem) /\ pfree = Cardinality(FreeSet(slab))
    BY MemIs DEF SlabIInv, Good, CountsRight
  <2> QED BY <2>1, MemoryParts, MemIs
<1>2. PICK B : B = ListedSet(free)
  OBVIOUS
<1>3. \A x : x \in B <=> x \in Page /\ FreeStart(slab[x])
  <2>1. B = {x \in Page : Home(slab[x]) = free}
    BY <1>1, <1>2, NodeFacts, ListedIs
  <2>2. \A x \in Page : Home(slab[x]) = free <=> FreeStart(slab[x])
    BY <1>1, HomesType DEF Layout
  <2> QED BY <2>1, <2>2
<1>4. Pages \in Nat /\ \A x \in Page : x \in Nat /\ x < Pages
  BY NodeFacts, PageSizeType
<1>5. ASSUME NEW y \in Page, slab[y].kind = "free"
      PROVE  \E x \in Page : FreeStart(slab[x]) /\ x <= y /\ y < x + slab[x].n
  <2>1. CASE slab[y].n > 0
    <3>1. FreeStart(slab[y]) /\ y <= y /\ y < y + slab[y].n
      BY <1>1, <1>4, <1>5, <2>1 DEF FreeStart
    <3> QED BY <3>1
  <2>2. CASE ~(slab[y].n > 0)
    <3>1. slab[y].n = 0
      BY <1>1, <2>2
    <3>2. PICK x \in 0..y - 1 : FreeStart(slab[x]) /\ y < x + slab[x].n
      BY <1>1, <1>5, <3>1 DEF Layout, Block
    <3>3. x \in Page /\ x <= y
      BY <3>2, <1>4, NodeFacts
    <3> QED BY <3>2, <3>3
  <2> QED BY <2>1, <2>2
<1>6. UNION {FreePagesAt(x) : x \in B} = {x \in Page : slab[x].kind = "free"}
  <2>1. ASSUME NEW x \in B PROVE FreePagesAt(x) \subseteq FreeSet(slab) /\ FreePagesAt(x) = x..x + slab[x].n - 1
    <3>1. x \in Page /\ FreeStart(slab[x]) /\ slab[x].kind = "free"
      BY <1>3 DEF FreeStart
    <3>2. x..x + slab[x].n - 1 \subseteq FreeSet(slab)
      BY <1>1, <3>1, MemIs, FreeBlockFacts
    <3> QED BY <3>1, <3>2 DEF FreePagesAt
  <2>2. ASSUME NEW y \in FreeSet(slab) PROVE \E x \in B : y \in FreePagesAt(x)
    <3>1. y \in Page /\ slab[y].kind = "free"
      BY DEF FreeSet
    <3>2. PICK x \in Page : FreeStart(slab[x]) /\ x <= y /\ y < x + slab[x].n
      BY <3>1, <1>5
    <3>3. x \in B /\ FreePagesAt(x) = x..x + slab[x].n - 1
      BY <3>2, <1>3, <2>1
    <3>4. y \in x..x + slab[x].n - 1
      BY <3>1, <3>2, <1>1, <1>4
    <3> QED BY <3>3, <3>4
  <2> QED BY <2>1, <2>2 DEF FreeSet
<1>7. ASSUME NEW n \in 1..Pages, FirstFit(Mem, n) = NULL, NEW x \in 0..Pages - n,
             \A y \in x..x + n - 1 : slab[y].kind = "free"
      PROVE  FALSE
  <2>1. n \in Nat /\ n > 0 /\ x \in Nat /\ x + n <= Pages
    BY <1>4
  <2>2. x \in Page /\ x \in x..x + n - 1
    BY <2>1, <1>4, NodeFacts
  <2>3. PICK b \in Page : FreeStart(slab[b]) /\ b <= x /\ x < b + slab[b].n
    BY <2>2, <1>5, <1>7
  <2>4. slab[b].n < n
    BY <2>1, <2>3, <1>1, <1>7, MemIs, FirstFitIs
  <2>5. PICK e : e = b + slab[b].n
    OBVIOUS
  <2>6. e \in x..x + n - 1 /\ e < Pages
    BY <2>1, <2>3, <2>4, <2>5, <1>1, <1>4
  <2>7. slab[e].kind = "free"
    BY <2>6, <1>7
  <2>8. slab[e].kind # "free"
    BY <2>3, <2>5, <2>6, <1>1 DEF Layout, Apart
  <2> QED BY <2>7, <2>8
<1>8. ASSUME NEW x \in B
      PROVE  /\ x \in Page /\ slab[x].kind = "free" /\ slab[x].n > 0
             /\ x + slab[x].n \notin B
             /\ slab[x].n > 1 /\ x + slab[x].n < Pages => prev[x + slab[x].n - 1] = Ptr(x, "PAGE")
  <2>1. x \in Page /\ FreeStart(slab[x]) /\ Apart(slab, x) /\ LastLeads(Mem, x)
    BY <1>1, <1>3, MemIs DEF Layout, Marks
  <2>2. x + slab[x].n \in B => x + slab[x].n \in Page /\ slab[x + slab[x].n].kind = "free"
    BY <1>3 DEF FreeStart
  <2>3. x + slab[x].n \in Page => x + slab[x].n < Pages
    BY <1>4
  <2>4. x + slab[x].n \notin B
    BY <2>1, <2>2, <2>3 DEF Apart
  <2> QED BY <2>1, <2>4, MemIs DEF FreeStart, LastLeads
<1>9. pfree = Cardinality({x \in Page : slab[x].kind = "free"})
  BY <1>1 DEF FreeSet
<1>10. \A n \in 1..Pages : FirstFit(Mem, n) = NULL =>
           \A x \in 0..Pages - n : \E y \in x..x + n - 1 : slab[y].kind # "free"
  BY <1>7
<1>11. ListedSet(free) = B
  BY <1>2
<1> QED BY <1>6, <1>8, <1>9, <1>10, <1>11 DEF FreeListRight

\* The slots' lists hold the pages with a free chunk, and stats[] counts them.
LEMMA SlotsHeld == SlabIInv => SlotListsRight
<1> SUFFICES ASSUME SlabIInv, NEW i \in Slots
             PROVE  LET shift == i + MinShift
                        its == {x \in Page : slab[x].kind = "chunks" /\ slab[x].n = shift}
                    IN  /\ ListedSet(SlotHead(i)) = {x \in its : Cardinality(slab[x].map) < Chunks(shift)}
                        /\ stat[i].used = Cardinality({g \in given : g.size <= MaxSize /\ Shift(g.size) = shift})
                        /\ stat[i].total = Cardinality(its) * (Chunks(shift) - BitmapChunks(shift))
  BY DEF SlotListsRight
<1>1. Good(Mem) /\ stat[i].used = Cardinality(Users(i))
      /\ stat[i].total = Cardinality(Offered(i)) * (Chunks(i + MinShift) - BitmapChunks(i + MinShift))
  BY DEF SlabIInv, CountsRight
<1>2. SlotHead(i) \in Heads /\ SlotHead(i) # free /\ SlotHead(i) # NULL /\ i \in Nat /\ MinShift \in Nat
      /\ Pages \in Nat
  BY NodeFacts, PageSizeType DEF Slots
<1>3. ListedSet(SlotHead(i)) = {x \in Page : Home(slab[x]) = SlotHead(i)}
  BY <1>1, <1>2, ListedIs
<1>4. ASSUME NEW x \in Page
      PROVE  Home(slab[x]) = SlotHead(i) <=>
               slab[x].kind = "chunks" /\ slab[x].n = i + MinShift /\ Cardinality(slab[x].map) < Chunks(i + MinShift)
  <2>1. CASE slab[x].kind # "chunks"
    BY <2>1, <1>2 DEF Home
  <2>2. CASE slab[x].kind = "chunks"
    <3>1. /\ slab[x].n \in MinShift..PageShift - 1 /\ RightChunks(slab[x].n, slab[x].map)
          /\ IF Full(slab[x].n, slab[x].map) THEN Home(slab[x]) = NULL
             ELSE Home(slab[x]) = SlotHead(slab[x].n - MinShift)
      BY <2>2, <1>1, MemIs, ChunkPageIs
    <3>2. SlotHead(slab[x].n - MinShift) = SlotHead(i) <=> slab[x].n = i + MinShift
      <4>1. slab[x].n \in Int
        BY <3>1, <1>2, PageSizeType
      <4> QED BY <4>1, <1>2 DEF SlotHead
    <3>3. Cardinality(slab[x].map) \in Nat /\ Cardinality(slab[x].map) <= Chunks(slab[x].n)
          /\ Chunks(slab[x].n) \in Nat
      BY <3>1, NotFull
    <3>4. Full(slab[x].n, slab[x].map) <=> ~(Cardinality(slab[x].map) < Chunks(slab[x].n))
      BY <3>3 DEF Full
    <3> QED BY <2>2, <3>1, <3>2, <3>4, <1>2
  <2> QED BY <2>1, <2>2
<1> QED BY <1>1, <1>3, <1>4 DEF Users, Offered

\* Bytes of pages that come after others.
LEMMA PagesAfter ==
  ASSUME NEW a \in Nat, NEW b \in Nat, a <= b
  PROVE  a * PageSize <= b * PageSize /\ a * PageSize \in Nat /\ b * PageSize \in Nat
<1>1. PageSize \in Nat
  BY PageSizeType
<1>2. a * PageSize \in Nat /\ b * PageSize \in Nat
  BY <1>1
<1>3. CASE a = b
  BY <1>2, <1>3
<1>4. CASE a # b
  <2>1. a * PageSize + PageSize <= b * PageSize
    BY <1>1, <1>4, Monotone
  <2> QED BY <2>1, <1>1, <1>2
<1> QED BY <1>3, <1>4

\* The pages that g's bytes lie in are allocated ones.
Spans(g, x, n) ==
  /\ n \in Nat /\ n > 0 /\ x + n <= Pages /\ Taken(slab, x, n)
  /\ Bytes(g) \subseteq x * PageSize..(x + n) * PageSize - 1

\* The bytes a user holds lie in the chunk, or in the pages, that it holds.
LEMMA HeldSpans ==
  ASSUME SlabIInv, NEW g \in given
  PROVE  \E n : Spans(g, g.addr \div PageSize, n)
<1>1. PICK x : x = g.addr \div PageSize
  OBVIOUS
<1>2. /\ g \in [addr : Nat, size : Nat] /\ x \in Page /\ Good(Mem)
      /\ HeldPages(g, x) \/ \E i \in Nat : HeldChunk(g, x, i)
  BY <1>1, GivenPage DEF SlabIInv
<1>3. x \in Nat /\ x < Pages /\ PageSize \in Nat /\ PageSize > 0 /\ Pages \in Nat
  BY <1>2, NodeFacts, PageSizeType
<1>4. CASE HeldPages(g, x)
  <2>1. /\ slab[x].kind = "start" /\ slab[x].n \in Nat /\ slab[x].n > 0 /\ x + slab[x].n <= Pages
        /\ g.size <= slab[x].n * PageSize
    BY <1>2, <1>4, HeldPagesIs
  <2>2. g.addr = x * PageSize
    BY <1>4 DEF HeldPages
  <2>3. (x + slab[x].n) * PageSize = x * PageSize + slab[x].n * PageSize
    BY <2>1, <1>3
  <2>4. x * PageSize \in Nat /\ slab[x].n * PageSize \in Nat
    BY <2>1, <1>3
  <2>5. Bytes(g) \subseteq x * PageSize..(x + slab[x].n) * PageSize - 1
    BY <2>1, <2>2, <2>3, <2>4, <1>2 DEF Bytes
  <2>6. Spans(g, x, slab[x].n)
    BY <2>1, <2>5 DEF Spans, Taken
  <2> QED BY <1>1, <2>6
<1>5. CASE \E i \in Nat : HeldChunk(g, x, i)
  <2>1. PICK i \in Nat : HeldChunk(g, x, i)
    BY <1>5
  <2>2. PICK k : k = slab[x].n
    OBVIOUS
  <2>3. slab[x].kind = "chunks" /\ k \in MinShift..PageShift - 1 /\ i \in 0..Chunks(k) - 1
        /\ g.size <= Pow2[k]
    BY <1>2, <2>1, <2>2, HeldChunkIs
  <2>4. g.addr = x * PageSize + i * Pow2[k]
    BY <2>1, <2>2 DEF HeldChunk
  <2>5. i * Pow2[k] \in Nat /\ i * Pow2[k] + Pow2[k] <= PageSize /\ Pow2[k] \in Nat
    BY <2>3, ChunkOffset, ChunkFacts
  <2>6. (x + 1) * PageSize = x * PageSize + PageSize /\ x * PageSize \in Nat
    BY <1>3
  <2>7. Bytes(g) \subseteq x * PageSize..(x + 1) * PageSize - 1
    BY <2>3, <2>4, <2>5, <2>6, <1>2, <1>3 DEF Bytes
  <2>8. Spans(g, x, 1)
    BY <2>3, <2>7, <1>3 DEF Spans, Taken
  <2> QED BY <1>1, <2>8
<1> QED BY <1>2, <1>4, <1>5

\* Allocations that start in different pages have no page in common.
LEMMA TakenApart ==
  ASSUME Good(Mem), NEW x \in Page, NEW n, Taken(slab, x, n), NEW y \in Page, NEW m, Taken(slab, y, m), x < y
  PROVE  x + n <= y
<1>1. n \in Nat /\ n > 0 /\ x + n <= Pages /\ \A z \in x + 1..x + n - 1 : slab[z] = Busy
  <2>1. Taken(Mem.slab, x, n)
    BY MemIs
  <2>2. n \in Nat /\ n > 0 /\ x + n <= Pages /\ \A z \in x + 1..x + n - 1 : Mem.slab[z] = Busy
    BY <2>1, TakenFacts
  <2> QED BY <2>2, MemIs
<1>2. slab[y] # Busy
  BY PtrIs DEF Taken
<1>3. y \notin x + 1..x + n - 1 /\ x \in Int /\ y \in Int
  BY <1>1, <1>2, NodeFacts
<1> QED BY <1>1, <1>3

\* Bytes in separate pages.
LEMMA RangesApart ==
  ASSUME NEW x \in Nat, NEW n \in Nat, NEW y \in Nat, NEW m \in Nat, x + n <= y,
         NEW A, A \subseteq x * PageSize..(x + n) * PageSize - 1,
         NEW B, B \subseteq y * PageSize..(y + m) * PageSize - 1
  PROVE  A \cap B = {}
<1>1. x + n \in Nat /\ (x + n) * PageSize <= y * PageSize /\ (x + n) * PageSize \in Nat
      /\ y * PageSize \in Nat
  BY PagesAfter
<1>2. ASSUME NEW b \in A, b \in B PROVE FALSE
  <2>1. b \in x * PageSize..(x + n) * PageSize - 1 /\ b \in y * PageSize..(y + m) * PageSize - 1
    BY <1>2
  <2>2. b \in Int /\ b <= (x + n) * PageSize - 1 /\ y * PageSize <= b
    BY <2>1
  <2> QED BY <1>1, <2>2
<1> QED BY <1>2

\* No two users hold a byte, and none holds one of a bitmap.
LEMMA DisjointHeld == SlabIInv => GivenDisjoint
<1> SUFFICES ASSUME SlabIInv, NEW g \in given
             PROVE  /\ Bytes(g) \subseteq 0..Pages * PageSize - 1
                    /\ \A x \in Page : Bytes(g) \cap BitmapBytes(x) = {}
                    /\ \A h \in given : h # g => Bytes(g) \cap Bytes(h) = {}
  BY DEF GivenDisjoint
<1>1. PICK x : x = g.addr \div PageSize
  OBVIOUS
<1>2. /\ g \in [addr : Nat, size : Nat] /\ x \in Page /\ Good(Mem)
      /\ HeldPages(g, x) \/ \E i \in Nat : HeldChunk(g, x, i)
  BY <1>1, GivenPage DEF SlabIInv
<1>3. PICK n : Spans(g, x, n)
  BY <1>1, HeldSpans
<1>4. n \in Nat /\ n > 0 /\ x + n <= Pages /\ Taken(slab, x, n)
      /\ Bytes(g) \subseteq x * PageSize..(x + n) * PageSize - 1
  BY <1>3 DEF Spans
<1>5. x \in Nat /\ PageSize \in Nat /\ PageSize > 0 /\ Pages \in Nat
  BY <1>2, NodeFacts, PageSizeType
<1>6. Bytes(g) \subseteq 0..Pages * PageSize - 1
  <2>1. x + n \in Nat /\ (x + n) * PageSize <= Pages * PageSize /\ (x + n) * PageSize \in Nat
        /\ Pages * PageSize \in Nat /\ x * PageSize \in Nat
    BY <1>4, <1>5, PagesAfter
  <2>2. x * PageSize..(x + n) * PageSize - 1 \subseteq 0..Pages * PageSize - 1
    BY <2>1
  <2> QED BY <2>2, <1>4
<1>7. ASSUME NEW y \in Page, y # x, NEW m \in Nat, Taken(slab, y, m), NEW B,
             B \subseteq y * PageSize..(y + m) * PageSize - 1
      PROVE  Bytes(g) \cap B = {}
  <2>1. y \in Nat /\ (x < y \/ y < x)
    BY <1>5, <1>7, NodeFacts
  <2>2. PICK A : A = Bytes(g)
    OBVIOUS
  <2>3. CASE x < y
    <3>1. x + n <= y
      BY <2>3, <1>2, <1>4, <1>7, TakenApart
    <3> QED BY <2>1, <2>2, <3>1, <1>4, <1>5, <1>7, RangesApart
  <2>4. CASE y < x
    <3>1. y + m <= x
      BY <2>4, <1>2, <1>4, <1>7, TakenApart
    <3>2. B \cap A = {}
      BY <2>1, <2>2, <3>1, <1>4, <1>5, <1>7, RangesApart
    <3> QED BY <2>2, <3>2
  <2> QED BY <2>1, <2>3, <2>4
<1>8. ASSUME NEW y \in Page PROVE Bytes(g) \cap BitmapBytes(y) = {}
  <2>1. CASE ~(slab[y].kind = "chunks" /\ slab[y].n < ExactShift)
    BY <2>1 DEF BitmapBytes
  <2>2. CASE slab[y].kind = "chunks" /\ slab[y].n < ExactShift
    <3>1. PICK k : k = slab[y].n
      OBVIOUS
    <3>2. k \in MinShift..PageShift - 1
      BY <2>2, <3>1, <1>2, MemIs, ChunkPageIs
    <3>3. PICK b : b = Chunks(k) \div 8
      OBVIOUS
    <3>4. BitmapBytes(y) = y * PageSize..y * PageSize + b - 1
      BY <2>2, <3>1, <3>3 DEF BitmapBytes
    <3>5. BitmapChunks(k) \in 0..Chunks(k) - 1 /\ Chunks(k) \in Nat /\ Pow2[k] \in Nat
          /\ b <= BitmapChunks(k) * Pow2[k] /\ b \in Int
      BY <2>2, <3>1, <3>2, <3>3, ChunkFacts
    <3>6. BitmapChunks(k) * Pow2[k] \in Nat /\ BitmapChunks(k) * Pow2[k] < PageSize
      BY <3>2, <3>5, ChunkOffset
    <3>7. y \in Nat /\ y * PageSize \in Nat /\ (y + 1) * PageSize = y * PageSize + PageSize
      BY <1>5, NodeFacts
    <3>8. CASE y # x
      <4>1. BitmapBytes(y) \subseteq y * PageSize..(y + 1) * PageSize - 1
        BY <3>4, <3>5, <3>6, <3>7, <1>5
      <4>2. Taken(slab, y, 1) /\ 1 \in Nat
        BY <2>2 DEF Taken
      <4> QED BY <4>1, <4>2, <3>8, <1>7
    <3>9. CASE y = x
      <4>1. ~HeldPages(g, x)
        BY <2>2, <3>9 DEF HeldPages
      <4>2. PICK i \in Nat : HeldChunk(g, x, i)
        BY <4>1, <1>2
      <4>3. i >= BitmapChunks(k) /\ g.addr = x * PageSize + i * Pow2[k]
        BY <4>2, <3>1, <3>9 DEF HeldChunk
      <4>4. i * Pow2[k] >= BitmapChunks(k) * Pow2[k] /\ i * Pow2[k] \in Nat
        <5>1. \A p, q, c \in Nat : p <= q => p * c <= q * c /\ q * c \in Nat
          OBVIOUS
        <5> QED BY <5>1, <4>3, <3>5
      <4> DEFINE u == i * Pow2[k]
                 v == BitmapChunks(k) * Pow2[k]
                 w == y * PageSize
      <4>5. u \in Nat /\ v \in Nat /\ w \in Nat /\ v <= u /\ b <= v /\ b \in Int /\ g.addr = w + u
            /\ BitmapBytes(y) = w..w + b - 1
        BY <4>3, <4>4, <3>4, <3>5, <3>6, <3>7, <3>9
      <4> HIDE DEF u, v, w
      <4>6. g.addr >= w + b /\ g.addr \in Nat /\ g.size \in Nat
        BY <4>5, <1>2
      <4> QED BY <4>5, <4>6 DEF Bytes
    <3> QED BY <3>8, <3>9
  <2> QED BY <2>1, <2>2
<1>9. ASSUME NEW h \in given, h # g PROVE Bytes(g) \cap Bytes(h) = {}
  <2>1. PICK y : y = h.addr \div PageSize
    OBVIOUS
  <2>2. /\ h \in [addr : Nat, size : Nat] /\ y \in Page
        /\ HeldPages(h, y) \/ \E i \in Nat : HeldChunk(h, y, i)
    BY <2>1, GivenPage
  <2>3. h.addr # g.addr
    BY <1>9 DEF SlabIInv, GivenRight
  <2>4. CASE y # x
    <3>1. PICK m : Spans(h, y, m)
      BY <2>1, HeldSpans
    <3>2. PICK B : B = Bytes(h)
      OBVIOUS
    <3>3. m \in Nat /\ Taken(slab, y, m) /\ B \subseteq y * PageSize..(y + m) * PageSize - 1
      BY <3>1, <3>2 DEF Spans
    <3> QED BY <2>2, <2>4, <3>2, <3>3, <1>7
  <2>5. CASE y = x
    <3>1. ~HeldPages(g, x) /\ ~HeldPages(h, x)
      BY <2>2, <2>3, <2>5, <1>2 DEF HeldPages, HeldChunk
    <3>2. PICK i \in Nat : HeldChunk(g, x, i)
      BY <3>1, <1>2
    <3>3. PICK j \in Nat : HeldChunk(h, x, j)
      BY <3>1, <2>2, <2>5
    <3>4. PICK c : c = Pow2[slab[x].n]
      OBVIOUS
    <3>5. c \in Nat /\ g.size <= c /\ h.size <= c
      <4>1. g.size <= c /\ h.size <= c /\ slab[x].n \in MinShift..PageShift - 1
        BY <3>2, <3>3, <3>4, <1>2, <2>2, HeldChunkIs
      <4> QED BY <4>1, <3>4, ChunkFacts
    <3>6. g.addr = x * PageSize + i * c /\ h.addr = x * PageSize + j * c
      BY <3>2, <3>3, <3>4 DEF HeldChunk
    <3>7. i < j \/ j < i
      <4>1. i # j
        BY <3>6, <2>3
      <4> QED BY <4>1
    <3>8. \A p, q \in Nat : p < q => p * c + c <= q * c
      BY <3>5
    <3>9. i * c \in Nat /\ j * c \in Nat /\ x * PageSize \in Nat
      BY <3>5, <1>5
    <3>10. i * c + c <= j * c \/ j * c + c <= i * c
      BY <3>7, <3>8
    <3>11. g.addr \in Nat /\ h.addr \in Nat /\ g.size \in Nat /\ h.size \in Nat
      BY <1>2, <2>2
    <3>12. g.addr + g.size <= h.addr \/ h.addr + h.size <= g.addr
      <4> DEFINE u == i * c
                 v == j * c
                 w == x * PageSize
      <4>1. u \in Nat /\ v \in Nat /\ w \in Nat /\ g.addr = w + u /\ h.addr = w + v
            /\ (u + c <= v \/ v + c <= u)
        BY <3>6, <3>9, <3>10
      <4> HIDE DEF u, v, w
      <4> QED BY <4>1, <3>5, <3>11
    <3> QED BY <3>11, <3>12 DEF Bytes
  <2> QED BY <2>4, <2>5
<1> QED BY <1>6, <1>8, <1>9

-----------------------------------------------------------------------------
(* SlabIInv is inductive.                                                  *)

\* ngx_slab_init: one free block of all pages, and empty lists of the slots.
LEMMA InitGood == SlabInit => Good(Mem)
<1> SUFFICES ASSUME SlabInit PROVE Good(Mem)
  OBVIOUS
<1>1. /\ Pages \in Nat /\ Pages > 0 /\ 0 \in Page /\ 0 \in Node /\ free \in Node /\ free # 0
      /\ free \notin Page /\ free = Pages /\ free # NULL /\ free \in Heads /\ 0 \notin Heads /\ "PAGE" \in Types
      /\ Node = Page \cup Heads /\ Page \cap Heads = {} /\ NULL \notin Node
  BY NodeFacts, PageSizeType DEF free, Types
<1>2. /\ \A x \in Page : slab[x] = FreeBlock(IF x = 0 THEN Pages ELSE 0)
      /\ \A x \in Node : next[x] = IF x = 0 THEN free ELSE IF x = free THEN 0
                                   ELSE IF x \in Page THEN NULL ELSE x
      /\ \A x \in Node : prev[x] = Ptr(IF x = 0 THEN free ELSE NULL, "PAGE")
  BY DEF SlabInit
<1>3. slab \in [Page -> SlabRecord]
  <2>1. \A x \in Page : FreeBlock(IF x = 0 THEN Pages ELSE 0) \in SlabRecord
    BY <1>1, PtrIs
  <2> QED BY <2>1 DEF SlabInit
<1>4. next \in [Node -> Node \cup {NULL}]
  BY <1>1 DEF SlabInit
<1>5. prev \in [Node -> Pointer]
  <2>1. \A x \in Node : Ptr(IF x = 0 THEN free ELSE NULL, "PAGE") \in Pointer
    BY <1>1, PtrIs
  <2> QED BY <2>1 DEF SlabInit
<1>6. Mem \in Memory
  BY <1>1, <1>3, <1>4, <1>5 DEF Mem, Memory, SlabInit
<1>7. \A x \in Page : slab[x].kind = "free" /\ slab[x].n = (IF x = 0 THEN Pages ELSE 0) /\ slab[x].map = {}
  BY <1>2, PtrIs
<1>8. \A x \in Page : FreeStart(slab[x]) <=> x = 0
  BY <1>1, <1>7 DEF FreeStart
<1>9. ASSUME NEW x \in Page PROVE Block(slab, x) /\ (FreeStart(slab[x]) => Apart(slab, x))
  <2>1. CASE x = 0
    <3>1. \A y \in x + 1..x + slab[x].n - 1 : slab[y] = FreeBlock(0)
      <4>1. \A y \in 1..Pages - 1 : y \in Page /\ y # 0
        BY <1>1, NodeFacts
      <4> QED BY <4>1, <2>1, <1>1, <1>2, <1>7
    <3>2. x + slab[x].n = Pages /\ slab[x].n # 0
      BY <2>1, <1>1, <1>7
    <3> QED BY <3>1, <3>2, <1>1, <1>7 DEF Block, Apart
  <2>2. CASE x # 0
    <3>1. ~FreeStart(slab[x]) /\ slab[x].kind = "free" /\ slab[x].map = {}
      BY <2>2, <1>7, <1>8
    <3>2. 0 \in 0..x - 1 /\ FreeStart(slab[0]) /\ x < 0 + slab[0].n
      BY <2>2, <1>1, <1>7, <1>8, NodeFacts
    <3> QED BY <3>1, <3>2 DEF Block
  <2> QED BY <2>1, <2>2
<1>10. Layout(slab)
  BY <1>9 DEF Layout
<1>11. \A x \in Page : Home(slab[x]) = IF x = 0 THEN free ELSE NULL
  BY <1>7, <1>1 DEF Home
<1>12. Marks(Mem)
  <2>1. ASSUME NEW x \in Page PROVE Mark(Mem, x)
    BY <1>1, <1>2, <1>7, <1>11, MemIs, PtrIs DEF Mark
  <2>2. ASSUME NEW x \in Page, FreeStart(slab[x]) PROVE LastLeads(Mem, x)
    <3>1. x = 0 /\ slab[x].n = Pages
      BY <2>2, <1>7, <1>8
    <3> QED BY <3>1, <1>1, MemIs DEF LastLeads
  <2> QED BY <2>1, <2>2, MemIs DEF Marks
<1>13. PICK home : home = Homes(slab)
  OBVIOUS
<1>14. \A x \in Page : home[x] = IF x = 0 THEN free ELSE NULL
  BY <1>11, <1>13 DEF Homes
<1>15. PICK r : r = [x \in Page |-> 0]
  OBVIOUS
<1>16. ASSUME NEW x \in Page, home[x] # NULL PROVE InList(next, prev, home, r, x)
  <2>1. x = 0 /\ home[x] = free
    BY <1>14, <1>16
  <2>2. next[x] = free /\ prev[x] = Ptr(free, "PAGE") /\ next[free] = 0
    BY <2>1, <1>1, <1>2
  <2> QED BY <2>1, <2>2, <1>1, PtrIs, NodeFacts DEF InList
<1>17. ASSUME NEW h \in Heads
       PROVE  next[h] = h \/ (next[h] \in Page /\ home[next[h]] = h /\ prev[next[h]].to = h)
  <2>1. CASE h = free
    <3>1. next[h] = 0 /\ prev[0] = Ptr(free, "PAGE")
      BY <2>1, <1>1, <1>2
    <3> QED BY <3>1, <2>1, <1>1, <1>14, PtrIs
  <2>2. CASE h # free
    <3>1. h \in Node /\ h \notin Page /\ h # 0
      BY <1>1, <1>17
    <3> QED BY <3>1, <2>2, <1>2
  <2> QED BY <2>1, <2>2
<1>18. Chained(next, prev, Homes(slab))
  <2>1. r \in [Page -> Int]
    BY <1>15
  <2>2. Chain(next, prev, home, r)
    BY <1>16, <1>17 DEF Chain
  <2> QED BY <2>1, <2>2, <1>13 DEF Chained
<1> QED BY <1>6, <1>10, <1>12, <1>18, MemIs DEF Good

\* The pages are finitely many.
LEMMA PagesFinite ==
  /\ IsFiniteSet(Page) /\ Cardinality(Page) = Pages
  /\ \A S \in SUBSET Page : IsFiniteSet(S) /\ Cardinality(S) \in Nat
<1>1. Pages \in Nat /\ Pages > 0 /\ 0 \in Int /\ Pages - 1 \in Int
  BY PageSizeType
<1>2. IsFiniteSet(0..Pages - 1) /\ Cardinality(0..Pages - 1) = IF 0 > Pages - 1 THEN 0 ELSE (Pages - 1) - 0 + 1
  BY <1>1, FS_Interval
<1>3. IsFiniteSet(Page) /\ Cardinality(Page) = Pages
  BY <1>1, <1>2 DEF Page
<1> QED BY <1>3, FS_Subset, FS_CardinalityType

\* ngx_slab_init makes SlabIInv true.
LEMMA InitInv == SlabInit => SlabIInv
<1> SUFFICES ASSUME SlabInit PROVE SlabIInv
  OBVIOUS
<1>1. GivenRight
  BY FS_EmptySet DEF SlabInit, GivenRight
<1>2. \A x \in Page : slab[x].kind = "free"
  BY PtrIs DEF SlabInit
<1>3. FreeSet(slab) = Page
  BY <1>2 DEF FreeSet
<1>4. \A i \in Slots : Users(i) = {} /\ Offered(i) = {}
  BY <1>2 DEF SlabInit, Users, Offered
<1>5. stat = [i \in Slots |-> [total |-> 0, used |-> 0]] /\ pfree = Pages
  BY DEF SlabInit
<1>6. ASSUME NEW i \in Slots
      PROVE  0 * (Chunks(i + MinShift) - BitmapChunks(i + MinShift)) = 0
  <2>1. i + MinShift \in MinShift..PageShift - 1
    BY PageSizeType DEF Slots
  <2>2. Chunks(i + MinShift) - BitmapChunks(i + MinShift) \in Int
    BY <2>1, ChunkFacts
  <2> QED BY <2>2
<1>7. CountsRight
  BY <1>3, <1>4, <1>5, <1>6, FS_EmptySet, PagesFinite DEF CountsRight
<1> QED BY <1>1, <1>7, InitGood DEF SlabIInv

\* What is stored becomes the memory.
LEMMA StoreIs ==
  ASSUME NEW t \in Memory, Store(t)
  PROVE  Mem' = t /\ slab' = t.slab /\ next' = t.next /\ prev' = t.prev /\ pfree' = t.pfree
BY DEF Store, Mem, Memory

\* What a user is given, at an address nobody holds, is added.
LEMMA GivenAdded ==
  ASSUME SlabIInv, NEW g \in [addr : Nat, size : Nat], given' = given \cup {g},
         \A h \in given : h.addr # g.addr,
         \A h \in given' : (\E x \in Page : HeldPages(h, x)') \/ \E x \in Page, i \in Nat : HeldChunk(h, x, i)'
  PROVE  /\ GivenRight'
         /\ \A i \in Slots : Cardinality(Users(i))' = Cardinality(Users(i)) +
              (IF g.size <= MaxSize /\ Shift(g.size) = i + MinShift THEN 1 ELSE 0)
<1>1. /\ IsFiniteSet(given) /\ given \subseteq [addr : Nat, size : Nat]
      /\ \A h, f \in given : h.addr = f.addr => h = f
  BY DEF SlabIInv, GivenRight
<1>2. IsFiniteSet(given') /\ given' \subseteq [addr : Nat, size : Nat] /\ g \notin given
      /\ \A h, f \in given' : h.addr = f.addr => h = f
  <2>1. IsFiniteSet(given \cup {g})
    BY <1>1, FS_AddElement
  <2> QED BY <1>1, <2>1
<1>3. GivenRight'
  BY <1>2 DEF GivenRight
<1>4. ASSUME NEW i \in Slots
      PROVE  Cardinality(Users(i))' = Cardinality(Users(i)) +
               (IF g.size <= MaxSize /\ Shift(g.size) = i + MinShift THEN 1 ELSE 0)
  <2>1. Users(i) \in SUBSET given
    BY DEF Users
  <2>2. IsFiniteSet(Users(i)) /\ Cardinality(Users(i)) \in Nat /\ g \notin Users(i)
    BY <1>1, <1>2, <2>1, FS_Subset, FS_CardinalityType
  <2>3. CASE g.size <= MaxSize /\ Shift(g.size) = i + MinShift
    <3>1. Users(i)' = Users(i) \cup {g}
      BY <2>3 DEF Users
    <3>2. Cardinality(Users(i) \cup {g}) = Cardinality(Users(i)) + 1
      BY <2>2, FS_AddElement
    <3> QED BY <2>3, <3>1, <3>2
  <2>4. CASE ~(g.size <= MaxSize /\ Shift(g.size) = i + MinShift)
    <3>1. Users(i)' = Users(i)
      BY <2>4 DEF Users
    <3> QED BY <2>2, <2>4, <3>1
  <2> QED BY <2>3, <2>4
<1> QED BY <1>3, <1>4

\* What a user gives back is removed.
LEMMA GivenRemoved ==
  ASSUME SlabIInv, NEW g \in given, given' = given \ {g},
         \A h \in given' : (\E x \in Page : HeldPages(h, x)') \/ \E x \in Page, i \in Nat : HeldChunk(h, x, i)'
  PROVE  /\ GivenRight'
         /\ \A i \in Slots : Cardinality(Users(i))' = Cardinality(Users(i)) -
              (IF g.size <= MaxSize /\ Shift(g.size) = i + MinShift THEN 1 ELSE 0)
<1>1. /\ IsFiniteSet(given) /\ given \subseteq [addr : Nat, size : Nat]
      /\ \A h, f \in given : h.addr = f.addr => h = f
  BY DEF SlabIInv, GivenRight
<1>2. IsFiniteSet(given') /\ given' \subseteq [addr : Nat, size : Nat]
      /\ \A h, f \in given' : h.addr = f.addr => h = f
  <2>1. IsFiniteSet(given \ {g})
    BY <1>1, FS_RemoveElement
  <2> QED BY <1>1, <2>1
<1>3. GivenRight'
  BY <1>2 DEF GivenRight
<1>4. ASSUME NEW i \in Slots
      PROVE  Cardinality(Users(i))' = Cardinality(Users(i)) -
               (IF g.size <= MaxSize /\ Shift(g.size) = i + MinShift THEN 1 ELSE 0)
  <2>1. Users(i) \in SUBSET given
    BY DEF Users
  <2>2. IsFiniteSet(Users(i)) /\ Cardinality(Users(i)) \in Nat
    BY <1>1, <1>2, <2>1, FS_Subset, FS_CardinalityType
  <2>3. CASE g.size <= MaxSize /\ Shift(g.size) = i + MinShift
    <3>1. Users(i)' = Users(i) \ {g} /\ g \in Users(i)
      BY <2>3 DEF Users
    <3>2. Cardinality(Users(i) \ {g}) = Cardinality(Users(i)) - 1
      BY <2>2, <3>1, FS_RemoveElement
    <3> QED BY <2>3, <3>1, <3>2
  <2>4. CASE ~(g.size <= MaxSize /\ Shift(g.size) = i + MinShift)
    <3>1. Users(i)' = Users(i)
      BY <2>4 DEF Users
    <3> QED BY <2>2, <2>4, <3>1
  <2> QED BY <2>3, <2>4
<1> QED BY <1>3, <1>4

\* What a user holds in a page that keeps its content stays held.
LEMMA HeldKept ==
  ASSUME SlabIInv, NEW h \in given, NEW x, x = h.addr \div PageSize, slab'[x] = slab[x]
  PROVE  (\E y \in Page : HeldPages(h, y)') \/ \E y \in Page, i \in Nat : HeldChunk(h, y, i)'
<1>1. x \in Page /\ (HeldPages(h, x) \/ \E i \in Nat : HeldChunk(h, x, i))
  BY GivenPage
<1>2. CASE HeldPages(h, x)
  <2>1. HeldPages(h, x)'
    BY <1>2 DEF HeldPages
  <2> QED BY <1>1, <2>1
<1>3. CASE \E i \in Nat : HeldChunk(h, x, i)
  <2>1. PICK i \in Nat : HeldChunk(h, x, i)
    BY <1>3
  <2>2. HeldChunk(h, x, i)'
    BY <2>1 DEF HeldChunk
  <2> QED BY <1>1, <2>2
<1> QED BY <1>1, <1>2, <1>3

\* The pages a slot's counter counts stay the same.
LEMMA OfferedKept ==
  ASSUME \A y \in Page : slab'[y].kind = "chunks" <=> slab[y].kind = "chunks",
         \A y \in Page : slab[y].kind = "chunks" => slab'[y].n = slab[y].n
  PROVE  \A i \in Slots : Offered(i)' = Offered(i)
BY DEF Offered

\* Pages in a row, taken from a set or added to it.
LEMMA RowCount ==
  ASSUME NEW S \in SUBSET Page, NEW x \in Page, NEW n \in Nat, n > 0, NEW T, T = x..x + n - 1
  PROVE  /\ T \subseteq S => Cardinality(S \ T) = Cardinality(S) - n
         /\ T \subseteq Page /\ T \cap S = {} => Cardinality(S \cup T) = Cardinality(S) + n
         /\ Cardinality(S) \in Nat
<1>1. IsFiniteSet(S) /\ Cardinality(S) \in Nat /\ x \in Int /\ x + n - 1 \in Int
  BY PagesFinite, NodeFacts
<1>2. IsFiniteSet(T) /\ Cardinality(T) = n
  <2>1. IsFiniteSet(T) /\ Cardinality(T) = IF x > x + n - 1 THEN 0 ELSE (x + n - 1) - x + 1
    BY <1>1, FS_Interval
  <2> QED BY <2>1, <1>1
<1>3. ASSUME T \subseteq S PROVE Cardinality(S \ T) = Cardinality(S) - n
  <2>1. S \cap T = T
    BY <1>3
  <2>2. Cardinality(S \ T) = Cardinality(S) - Cardinality(S \cap T)
    BY <1>1, FS_Difference
  <2> QED BY <2>1, <2>2, <1>2
<1>4. ASSUME T \cap S = {} PROVE Cardinality(S \cup T) = Cardinality(S) + n
  <2>1. S \cap T = {} /\ Cardinality({}) = 0
    BY <1>4, FS_EmptySet
  <2>2. Cardinality(S \cup T) = Cardinality(S) + Cardinality(T) - Cardinality(S \cap T)
    BY <1>1, <1>2, FS_Union
  <2>3. Cardinality(S \cap T) = 0
    BY <2>1
  <2> QED BY <2>2, <2>3, <1>1, <1>2
<1> QED BY <1>1, <1>3, <1>4

\* A row that is added.
LEMMA RowAdded ==
  ASSUME NEW S \in SUBSET Page, NEW x \in Page, NEW n \in Nat, n > 0, NEW T, T = x..x + n - 1,
         T \subseteq Page, T \cap S = {}
  PROVE  Cardinality(S \cup T) = Cardinality(S) + n
BY RowCount

\* A row that is taken.
LEMMA RowCut ==
  ASSUME NEW S \in SUBSET Page, NEW x \in Page, NEW n \in Nat, n > 0, NEW T, T = x..x + n - 1,
         T \subseteq S
  PROVE  Cardinality(S \ T) = Cardinality(S) - n
BY RowCount

\* Taking pages keeps the contents of the allocated ones, and makes no chunks.
LEMMA TakeKeeps ==
  ASSUME NEW s, Good(s), NEW x \in Page, FreeStart(s.slab[x]),
         NEW n \in Nat, n > 0, n <= s.slab[x].n
  PROVE  LET t == TakePages(s, x, n)
         IN  /\ t.slab[x] = Start(n)
             /\ \A y \in Page : s.slab[y].kind # "free" => t.slab[y] = s.slab[y]
             /\ \A y \in Page : s.slab[y].kind = "free" => t.slab[y].kind # "chunks"
<1>1. PICK t : t = TakePages(s, x, n)
  OBVIOUS
<1>2. \A y \in Page : t.slab[y] = IF y = x THEN Start(n) ELSE IF y \in x..x + n - 1 THEN Busy
        ELSE IF n < s.slab[x].n /\ y = x + n THEN FreeBlock(s.slab[x].n - n) ELSE s.slab[y]
  BY <1>1, TakeIs
<1>3. s.slab[x].n \in Nat /\ x..x + s.slab[x].n - 1 \subseteq FreeSet(s.slab) /\ x \in Int
  BY FreeBlockFacts, NodeFacts
<1>4. \A y \in x..x + n - 1 : y \in x..x + s.slab[x].n - 1
  BY <1>3
<1>5. n < s.slab[x].n => x + n \in x..x + s.slab[x].n - 1
  BY <1>3
<1>6. \A y \in Page : s.slab[y].kind # "free" =>
        y # x /\ y \notin x..x + n - 1 /\ ~(n < s.slab[x].n /\ y = x + n)
  BY <1>3, <1>4, <1>5 DEF FreeSet, FreeStart
<1>7. \A y \in Page : s.slab[y].kind # "free" => t.slab[y] = s.slab[y]
  BY <1>2, <1>6
<1>8. \A y \in Page : s.slab[y].kind = "free" => t.slab[y].kind # "chunks"
  BY <1>2, PtrIs
<1> QED BY <1>1, <1>2, <1>7, <1>8

\* Counters of which only those of one slot change.
LEMMA CountsKept ==
  ASSUME SlabIInv, stat' \in [Slots -> [total : Int, used : Int]],
         pfree' = Cardinality(FreeSet(slab')),
         \A i \in Slots : stat'[i].used = Cardinality(Users(i))',
         \A i \in Slots : stat'[i].total = Cardinality(Offered(i))' *
                            (Chunks(i + MinShift) - BitmapChunks(i + MinShift))
  PROVE  CountsRight'
BY DEF CountsRight

\* ngx_slab_alloc_locked, a size above ngx_slab_max_size.
LEMMA AllocPagesInv ==
  ASSUME SlabIInv, NEW size \in Sizes, AllocPages(size)
  PROVE  SlabIInv'
<1>1. PICK n : n = PagesFor(size)
  OBVIOUS
<1>2. PICK x : x = FirstFit(Mem, n)
  OBVIOUS
<1>3. PICK t : t = TakePages(Mem, x, n)
  OBVIOUS
<1>4. PICK g : g = [addr |-> x * PageSize, size |-> size]
  OBVIOUS
<1>5. /\ size > MaxSize /\ x # NULL /\ Store(t) /\ given' = given \cup {g} /\ stat' = stat
  BY <1>1, <1>2, <1>3, <1>4 DEF AllocPages, Give
<1>6. size \in Nat /\ MaxSize \in Nat /\ size > 0 /\ Good(Mem)
  BY <1>5, SlabAssumption, PageSizeType DEF SlabIInv
<1>7. n \in Nat /\ n > 0
  BY <1>1, <1>6, PagesForIs
<1>8. x \in Page /\ FreeStart(slab[x]) /\ slab[x].n >= n
  BY <1>2, <1>5, <1>6, <1>7, MemIs, FirstFitIs
<1>9. slab[x].n \in Nat /\ x \in Nat /\ slab[x].kind = "free" /\ n <= slab[x].n
  BY <1>6, <1>7, <1>8, MemIs, MemoryParts, NodeFacts DEF Good, FreeStart
<1>10. /\ Good(t) /\ t \in Memory /\ t.pfree = pfree - n
       /\ FreeSet(t.slab) = FreeSet(slab) \ (x..x + n - 1) /\ x..x + n - 1 \subseteq FreeSet(slab)
  <2>1. FreeStart(Mem.slab[x]) /\ n <= Mem.slab[x].n
    BY <1>8, <1>9, MemIs
  <2>2. Good(t)
    BY <1>3, <1>6, <1>7, <1>8, <2>1, TakeGood
  <2>3. t.pfree = Mem.pfree - n
    BY <1>3, <1>6, <1>7, <1>8, <2>1, TakeIs
  <2>4. FreeSet(t.slab) = FreeSet(Mem.slab) \ (x..x + n - 1) /\ x..x + n - 1 \subseteq FreeSet(Mem.slab)
    BY <1>3, <1>6, <1>7, <1>8, <2>1, TakeLayout
  <2> QED BY <2>2, <2>3, <2>4, MemIs DEF Good
<1>11. /\ t.slab[x] = Start(n)
       /\ \A y \in Page : slab[y].kind # "free" => t.slab[y] = slab[y]
       /\ \A y \in Page : slab[y].kind = "free" => t.slab[y].kind # "chunks"
  <2>1. FreeStart(Mem.slab[x]) /\ n <= Mem.slab[x].n
    BY <1>8, <1>9, MemIs
  <2>2. /\ t.slab[x] = Start(n)
        /\ \A y \in Page : Mem.slab[y].kind # "free" => t.slab[y] = Mem.slab[y]
        /\ \A y \in Page : Mem.slab[y].kind = "free" => t.slab[y].kind # "chunks"
    BY <1>3, <1>6, <1>7, <1>8, <2>1, TakeKeeps
  <2> QED BY <2>2, MemIs
<1>12. Mem' = t /\ slab' = t.slab /\ pfree' = t.pfree
  BY <1>5, <1>10, StoreIs
<1>13. Good(Mem)'
  BY <1>10, <1>12
<1>14. g \in [addr : Nat, size : Nat] /\ g.addr = x * PageSize /\ g.size = size
       /\ g.addr \div PageSize = x
  BY <1>4, <1>6, <1>9, PagesAddress
<1>15. \A h \in given : h.addr # g.addr
  BY <1>9, <1>14, GivenPage
<1>16. HeldPages(g, x)'
  BY <1>1, <1>5, <1>8, <1>11, <1>12, <1>14, PtrIs DEF HeldPages
<1>17. ASSUME NEW h \in given'
       PROVE  (\E y \in Page : HeldPages(h, y)') \/ \E y \in Page, i \in Nat : HeldChunk(h, y, i)'
  <2>1. CASE h = g
    BY <2>1, <1>8, <1>16
  <2>2. CASE h \in given
    <3>1. h.addr \div PageSize \in Page /\ slab[h.addr \div PageSize].kind # "free"
      BY <2>2, GivenPage
    <3> QED BY <2>2, <3>1, <1>11, <1>12, HeldKept
  <2> QED BY <2>1, <2>2, <1>5
<1>18. /\ GivenRight'
       /\ \A i \in Slots : Cardinality(Users(i))' = Cardinality(Users(i)) +
            (IF g.size <= MaxSize /\ Shift(g.size) = i + MinShift THEN 1 ELSE 0)
  BY <1>5, <1>14, <1>15, <1>17, GivenAdded
<1>19. ~(g.size <= MaxSize)
  BY <1>5, <1>6, <1>14
<1>20. \A i \in Slots : Offered(i)' = Offered(i)
  BY <1>11, <1>12, OfferedKept
<1>21. pfree' = Cardinality(FreeSet(slab'))
  <2>1. FreeSet(slab) \in SUBSET Page /\ pfree = Cardinality(FreeSet(slab))
    BY DEF FreeSet, SlabIInv, CountsRight
  <2>2. Cardinality(FreeSet(slab) \ (x..x + n - 1)) = Cardinality(FreeSet(slab)) - n
    <3>1. PICK T, F : T = x..x + n - 1 /\ F = FreeSet(slab)
      OBVIOUS
    <3>2. F \in SUBSET Page /\ x \in Page /\ n \in Nat /\ n > 0 /\ T \subseteq F
      BY <3>1, <2>1, <1>7, <1>8, <1>10
    <3>3. Cardinality(F \ T) = Cardinality(F) - n
      BY <3>1, <3>2, RowCut
    <3> QED BY <3>1, <3>3
  <2> QED BY <2>1, <2>2, <1>10, <1>12
<1>22. /\ stat \in [Slots -> [total : Int, used : Int]]
       /\ \A i \in Slots : stat[i].used = Cardinality(Users(i))
       /\ \A i \in Slots : stat[i].used \in Int
       /\ \A i \in Slots : stat[i].total = Cardinality(Offered(i)) *
                            (Chunks(i + MinShift) - BitmapChunks(i + MinShift))
  BY DEF SlabIInv, CountsRight
<1>23. \A i \in Slots : stat'[i].used = Cardinality(Users(i))'
  BY <1>5, <1>18, <1>19, <1>22
<1>24. \A i \in Slots : stat'[i].total = Cardinality(Offered(i))' *
                          (Chunks(i + MinShift) - BitmapChunks(i + MinShift))
  BY <1>5, <1>20, <1>22
<1>25. CountsRight'
  BY <1>5, <1>21, <1>22, <1>23, <1>24, CountsKept
<1> QED BY <1>13, <1>18, <1>25 DEF SlabIInv

\* What a user holds in a page of the same kind, whose chunk stays busy, stays
\* held.
LEMMA HeldStays ==
  ASSUME SlabIInv, NEW h \in given, NEW x, x = h.addr \div PageSize,
         slab'[x].kind = slab[x].kind, slab'[x].n = slab[x].n,
         \A j \in Nat : HeldChunk(h, x, j) => j \in slab'[x].map
  PROVE  (\E y \in Page : HeldPages(h, y)') \/ \E y \in Page, i \in Nat : HeldChunk(h, y, i)'
<1>1. x \in Page /\ (HeldPages(h, x) \/ \E i \in Nat : HeldChunk(h, x, i))
  BY GivenPage
<1>2. CASE HeldPages(h, x)
  <2>1. HeldPages(h, x)'
    BY <1>2 DEF HeldPages
  <2> QED BY <1>1, <2>1
<1>3. CASE \E i \in Nat : HeldChunk(h, x, i)
  <2>1. PICK i \in Nat : HeldChunk(h, x, i)
    BY <1>3
  <2>2. i \in slab'[x].map
    BY <2>1
  <2>3. HeldChunk(h, x, i)'
    BY <2>1, <2>2 DEF HeldChunk
  <2> QED BY <1>1, <2>3
<1> QED BY <1>1, <1>2, <1>3

\* The first page of a slot's list, if it has one.
LEMMA FirstOfSlot ==
  ASSUME Good(Mem), NEW k \in MinShift..PageShift - 1,
         NEW x, x = next[SlotHead(k - MinShift)], x # SlotHead(k - MinShift)
  PROVE  /\ x \in Page /\ slab[x].kind = "chunks" /\ slab[x].n = k
         /\ ~Full(k, slab[x].map)
<1>1. k \in Nat /\ MinShift \in Nat /\ k - MinShift \in Slots /\ Pages \in Nat
  BY PageSizeType DEF Slots
<1>2. PICK h : h = SlotHead(k - MinShift)
  OBVIOUS
<1>3. h \in Heads /\ h # free /\ h # NULL
  BY <1>1, <1>2, NodeFacts
<1>4. slab \in [Page -> SlabRecord] /\ \A y \in Page : Block(slab, y)
  BY MemIs, MemoryParts DEF Good, Layout
<1>5. x \in Page /\ Homes(slab)[x] = h
  <2>1. Chained(next, prev, Homes(slab))
    BY MemIs DEF Good
  <2> QED BY <2>1, <1>2, <1>3 DEF Chained, Chain
<1>6. Home(slab[x]) = h
  BY <1>4, <1>5, HomesType
<1>7. slab[x].kind = "chunks" /\ ~Full(slab[x].n, slab[x].map) /\ h = SlotHead(slab[x].n - MinShift)
  BY <1>3, <1>6 DEF Home
<1>8. slab[x].n \in Nat
  BY <1>4, <1>5 DEF SlabRecord
<1>9. slab[x].n = k
  BY <1>1, <1>2, <1>7, <1>8 DEF SlotHead
<1> QED BY <1>5, <1>7, <1>9

\* ngx_slab_alloc_locked, a chunk of the first page of the slot's list.
LEMMA AllocFromSlotInv ==
  ASSUME SlabIInv, NEW size \in Sizes, AllocFromSlot(size)
  PROVE  SlabIInv'
<1>1. PICK k : k = Shift(size)
  OBVIOUS
<1>2. PICK slot : slot = k - MinShift
  OBVIOUS
<1>3. PICK x : x = next[SlotHead(slot)]
  OBVIOUS
<1>4. PICK i : i = Min((0..Chunks(k) - 1) \ slab[x].map)
  OBVIOUS
<1>5. PICK u : u = [Mem EXCEPT !.slab[x].map = Mem.slab[x].map \cup {i}]
  OBVIOUS
<1>6. PICK t : t = AfterTaken(Mem, x, i)
  OBVIOUS
<1>7. PICK g : g = [addr |-> x * PageSize + i * Pow2[k], size |-> size]
  OBVIOUS
<1>8. size <= MaxSize /\ x # SlotHead(slot)
  BY <1>1, <1>2, <1>3 DEF AllocFromSlot
<1>9. size \in Nat /\ Good(Mem) /\ Mem \in Memory
  BY SlabAssumption DEF SlabIInv, Good
<1>10. k \in MinShift..PageShift - 1 /\ MinShift \in Nat
  BY <1>1, <1>8, <1>9, ShiftType, PageSizeType
<1>11. x \in Page /\ slab[x].kind = "chunks" /\ slab[x].n = k /\ ~Full(k, slab[x].map)
  BY <1>2, <1>3, <1>8, <1>9, <1>10, FirstOfSlot
<1>12. /\ Store(t) /\ given' = given \cup {g} /\ stat' = [stat EXCEPT ![slot].used = @ + 1]
  <2>1. u = [Mem EXCEPT !.slab[x].map = @ \cup {i}]
    BY <1>5, <1>9 DEF Memory
  <2>2. t = IF Full(k, u.slab[x].map) THEN Delist(u, x, k) ELSE u
    BY <1>5, <1>6, <1>11, MemIs DEF AfterTaken
  <2> QED BY <2>1, <2>2, <1>1, <1>2, <1>3, <1>4, <1>7 DEF AllocFromSlot, Give
<1>13. /\ RightChunks(k, slab[x].map) /\ k \in Int /\ slot \in Slots /\ slot + MinShift = k
  <2>1. RightChunks(k, slab[x].map)
    BY <1>9, <1>11, MemIs, ChunkPageIs
  <2> QED BY <2>1, <1>2, <1>10, PageSizeType DEF Slots
<1>14. i \in 0..Chunks(k) - 1 /\ i \notin slab[x].map /\ i \in Nat
  <2>1. PICK C : C = (0..Chunks(k) - 1) \ slab[x].map
    OBVIOUS
  <2>2. C \in SUBSET Nat /\ C # {}
    <3>1. slab[x].map # 0..Chunks(k) - 1 /\ slab[x].map \subseteq 0..Chunks(k) - 1
      BY <1>11, <1>13, NotFull DEF RightChunks
    <3>2. PICK c \in 0..Chunks(k) - 1 : c \notin slab[x].map
      BY <3>1
    <3>3. c \in C
      BY <2>1, <3>2
    <3>4. \A d \in 0..Chunks(k) - 1 : d \in Nat
      OBVIOUS
    <3>5. C \subseteq 0..Chunks(k) - 1
      BY <2>1
    <3> QED BY <3>3, <3>4, <3>5
  <2>3. Min(C) \in C
    BY <2>2, MinNat
  <2> QED BY <2>1, <2>2, <2>3, <1>4
<1>15. BitmapChunks(k) \in Nat /\ 0..BitmapChunks(k) - 1 \subseteq slab[x].map
  BY <1>10, <1>13, ChunkFacts DEF RightChunks
<1>16. i >= BitmapChunks(k)
  BY <1>14, <1>15
<1>17. /\ Good(t) /\ FreeSet(t.slab) = FreeSet(slab) /\ t.pfree = pfree
       /\ t.slab = [slab EXCEPT ![x] = ChunkPage(k, slab[x].map \cup {i})]
  <2>1. Mem.slab[x].kind = "chunks" /\ Mem.slab[x].n = k /\ ~Full(Mem.slab[x].n, Mem.slab[x].map)
        /\ i \in 0..Chunks(Mem.slab[x].n) - 1
    BY <1>11, <1>14, MemIs
  <2>2. PICK s : s = Mem
    OBVIOUS
  <2>3. x \in Page /\ CanTake(s, x, i) /\ Good(s)
    BY <2>1, <2>2, <1>9, <1>11 DEF CanTake
  <2>4. ChunkStep(s, AfterTaken(s, x, i), x, s.slab[x].map \cup {i})
    BY <2>3, ChunkTaken
  <2> QED BY <2>1, <2>2, <2>4, <1>6, MemIs DEF ChunkStep
<1>18. Mem' = t /\ slab' = t.slab /\ pfree' = t.pfree
  BY <1>12, <1>17, StoreIs DEF Good
<1>19. Good(Mem)'
  BY <1>17, <1>18
<1>20. slab \in [Page -> SlabRecord]
  BY <1>9, MemIs, MemoryParts
<1>21. slab'[x] = ChunkPage(k, slab[x].map \cup {i}) /\ \A y \in Page : y # x => slab'[y] = slab[y]
  BY <1>11, <1>17, <1>18, <1>20
<1>22. slab'[x].kind = "chunks" /\ slab'[x].n = k /\ slab'[x].map = slab[x].map \cup {i}
  BY <1>21, PtrIs
<1>23. /\ g.addr = x * PageSize + i * Pow2[k] /\ g.size = size /\ g.addr \in Nat
       /\ g \in [addr : Nat, size : Nat] /\ g.addr \div PageSize = x
       /\ (g.addr % PageSize) \div Pow2[k] = i
  <2>1. x \in Nat /\ g.addr = x * PageSize + i * Pow2[k] /\ g.size = size
    BY <1>7, <1>11, NodeFacts
  <2>2. /\ g.addr \in Nat /\ g.addr \div PageSize = x /\ g.addr % PageSize = i * Pow2[k]
        /\ (i * Pow2[k]) \div Pow2[k] = i
    BY <2>1, <1>10, <1>14, ChunkAddress
  <2> QED BY <2>1, <2>2, <1>7, <1>9
<1>24. ASSUME NEW h \in given PROVE h.addr # g.addr
  <2> SUFFICES ASSUME h.addr = g.addr PROVE FALSE
    OBVIOUS
  <2>1. h \in [addr : Nat, size : Nat] /\ (HeldPages(h, x) \/ \E j \in Nat : HeldChunk(h, x, j))
    BY <1>23, GivenPage
  <2>2. PICK j \in Nat : HeldChunk(h, x, j)
    BY <2>1, <1>11 DEF HeldPages
  <2>3. (h.addr % PageSize) \div Pow2[k] = j /\ j \in slab[x].map
    BY <2>1, <2>2, <1>9, <1>11, HeldChunkIs
  <2> QED BY <2>3, <1>14, <1>23
<1>25. HeldChunk(g, x, i)'
  BY <1>1, <1>8, <1>11, <1>16, <1>22, <1>23 DEF HeldChunk
<1>26. ASSUME NEW h \in given'
       PROVE  (\E y \in Page : HeldPages(h, y)') \/ \E y \in Page, j \in Nat : HeldChunk(h, y, j)'
  <2>1. CASE h = g
    BY <2>1, <1>11, <1>14, <1>25
  <2>2. CASE h \in given
    <3>1. PICK y : y = h.addr \div PageSize
      OBVIOUS
    <3>2. y \in Page
      BY <2>2, <3>1, GivenPage
    <3>3. slab'[y].kind = slab[y].kind /\ slab'[y].n = slab[y].n /\ slab[y].map \subseteq slab'[y].map
      BY <3>2, <1>11, <1>21, <1>22
    <3>4. \A j \in Nat : HeldChunk(h, y, j) => j \in slab'[y].map
      BY <3>3 DEF HeldChunk
    <3> QED BY <2>2, <3>1, <3>3, <3>4, HeldStays
  <2> QED BY <2>1, <2>2, <1>12
<1>27. /\ GivenRight'
       /\ \A j \in Slots : Cardinality(Users(j))' = Cardinality(Users(j)) +
            (IF g.size <= MaxSize /\ Shift(g.size) = j + MinShift THEN 1 ELSE 0)
  BY <1>12, <1>23, <1>24, <1>26, GivenAdded
<1>28. \A j \in Slots : Offered(j)' = Offered(j)
  BY <1>11, <1>21, <1>22, OfferedKept
<1>29. /\ stat \in [Slots -> [total : Int, used : Int]] /\ pfree = Cardinality(FreeSet(slab))
       /\ \A j \in Slots : stat[j].used = Cardinality(Users(j))
       /\ \A j \in Slots : stat[j].used \in Int
       /\ \A j \in Slots : stat[j].total = Cardinality(Offered(j)) *
                            (Chunks(j + MinShift) - BitmapChunks(j + MinShift))
  BY DEF SlabIInv, CountsRight
<1>30. /\ stat' \in [Slots -> [total : Int, used : Int]]
       /\ \A j \in Slots : stat'[j].total = stat[j].total
                           /\ stat'[j].used = stat[j].used + (IF j = slot THEN 1 ELSE 0)
  BY <1>12, <1>13, <1>29
<1>31. \A j \in Slots : stat'[j].used = Cardinality(Users(j))'
  <2>1. \A j \in Slots : (g.size <= MaxSize /\ Shift(g.size) = j + MinShift) <=> j = slot
    <3>1. \A j \in Slots : j \in Int
      BY PageSizeType DEF Slots
    <3> QED BY <3>1, <1>1, <1>2, <1>8, <1>10, <1>13, <1>23
  <2> QED BY <2>1, <1>27, <1>29, <1>30
<1>32. \A j \in Slots : stat'[j].total = Cardinality(Offered(j))' *
                          (Chunks(j + MinShift) - BitmapChunks(j + MinShift))
  BY <1>28, <1>29, <1>30
<1>33. CountsRight'
  <2>1. pfree' = Cardinality(FreeSet(slab'))
    BY <1>17, <1>18, <1>29
  <2> QED BY <2>1, <1>30, <1>31, <1>32, CountsKept
<1> QED BY <1>19, <1>27, <1>33 DEF SlabIInv

\* The chunks of one page more or less are a page's share of the total.
LEMMA OneMore ==
  ASSUME NEW c \in Nat, NEW d \in Int
  PROVE  (c + 1) * d = c * d + d /\ (c - 1) * d = c * d - d /\ c * d \in Int
OBVIOUS

\* A page that becomes one of the slot's chunks adds what it offers.
LEMMA OfferedAdded ==
  ASSUME NEW x \in Page, NEW slot \in Slots, slab[x].kind # "chunks",
         slab'[x].kind = "chunks", slab'[x].n = slot + MinShift,
         \A y \in Page : y # x => (slab'[y].kind = "chunks" <=> slab[y].kind = "chunks"),
         \A y \in Page : y # x /\ slab[y].kind = "chunks" => slab'[y].n = slab[y].n,
         NEW j \in Slots, NEW d \in Int
  PROVE  Cardinality(Offered(j))' * d = Cardinality(Offered(j)) * d + (IF j = slot THEN d ELSE 0)
<1>1. Offered(j) \in SUBSET Page /\ x \notin Offered(j)
  BY DEF Offered
<1>2. IsFiniteSet(Offered(j)) /\ Cardinality(Offered(j)) \in Nat
  BY <1>1, PagesFinite
<1>3. CASE j = slot
  <2>1. Offered(j)' = Offered(j) \cup {x}
    BY <1>3 DEF Offered
  <2>2. Cardinality(Offered(j) \cup {x}) = Cardinality(Offered(j)) + 1
    BY <1>1, <1>2, FS_AddElement
  <2>3. Cardinality(Offered(j))' = Cardinality(Offered(j)) + 1
    BY <2>1, <2>2
  <2> QED BY <1>2, <1>3, <2>3, OneMore
<1>4. CASE j # slot
  <2>1. j + MinShift # slot + MinShift
    BY <1>4, PageSizeType DEF Slots
  <2>2. Offered(j)' = Offered(j)
    BY <2>1 DEF Offered
  <2>3. Cardinality(Offered(j))' = Cardinality(Offered(j))
    BY <2>2
  <2> QED BY <1>2, <1>4, <2>3, OneMore
<1> QED BY <1>3, <1>4

\* A page that stops being one of the slot's chunks takes away what it offered.
LEMMA OfferedRemoved ==
  ASSUME NEW x \in Page, NEW slot \in Slots, slab'[x].kind # "chunks",
         slab[x].kind = "chunks", slab[x].n = slot + MinShift,
         \A y \in Page : y # x => (slab'[y].kind = "chunks" <=> slab[y].kind = "chunks"),
         \A y \in Page : y # x /\ slab[y].kind = "chunks" => slab'[y].n = slab[y].n,
         NEW j \in Slots, NEW d \in Int
  PROVE  Cardinality(Offered(j))' * d = Cardinality(Offered(j)) * d - (IF j = slot THEN d ELSE 0)
<1>1. Offered(j) \in SUBSET Page
  BY DEF Offered
<1>2. IsFiniteSet(Offered(j)) /\ Cardinality(Offered(j)) \in Nat
  BY <1>1, PagesFinite
<1>3. CASE j = slot
  <2>1. Offered(j)' = Offered(j) \ {x} /\ x \in Offered(j)
    BY <1>3 DEF Offered
  <2>2. Cardinality(Offered(j) \ {x}) = Cardinality(Offered(j)) - 1
    BY <2>1, <1>2, FS_RemoveElement
  <2>3. Cardinality(Offered(j))' = Cardinality(Offered(j)) - 1
    BY <2>1, <2>2
  <2> QED BY <1>2, <1>3, <2>3, OneMore
<1>4. CASE j # slot
  <2>1. j + MinShift # slot + MinShift
    BY <1>4, PageSizeType DEF Slots
  <2>2. Offered(j)' = Offered(j)
    BY <2>1 DEF Offered
  <2>3. Cardinality(Offered(j))' = Cardinality(Offered(j))
    BY <2>2
  <2> QED BY <1>2, <1>4, <2>3, OneMore
<1> QED BY <1>3, <1>4

\* Within a word the shifts of the bitmap are defined.
LEMMA LowBitsIs ==
  ASSUME OneWord, NEW k \in MinShift..PageShift - 1, NEW n \in Nat, n = BitmapChunks(k)
  PROVE  LowBits(2, n) = {0..n} /\ LowBits(1, n) = {0..n - 1}
<1>1. n < WordBits
  BY DEF OneWord
<1>2. n + 2 - 2 = n /\ n + 1 - 2 = n - 1
  OBVIOUS
<1> QED BY <1>1, <1>2 DEF LowBits

\* ngx_slab_alloc_locked, a new page of chunks.
LEMMA AllocNewSlotPageInv ==
  ASSUME OneWord, SlabIInv, NEW size \in Sizes, AllocNewSlotPage(size)
  PROVE  SlabIInv'
<1>1. PICK k : k = Shift(size)
  OBVIOUS
<1>2. PICK slot : slot = k - MinShift
  OBVIOUS
<1>3. PICK x : x = FirstFit(Mem, 1)
  OBVIOUS
<1>4. PICK n : n = BitmapChunks(k)
  OBVIOUS
<1>5. PICK t : t = AfterNew(Mem, x, k)
  OBVIOUS
<1>6. PICK g : g = [addr |-> x * PageSize + n * Pow2[k], size |-> size]
  OBVIOUS
<1>7. size <= MaxSize /\ x # NULL /\ next[SlotHead(slot)] = SlotHead(slot)
  BY <1>1, <1>2, <1>3 DEF AllocNewSlotPage
<1>8. size \in Nat /\ Good(Mem)
  BY SlabAssumption DEF SlabIInv
<1>9. /\ k \in MinShift..PageShift - 1 /\ MinShift \in Nat /\ k \in Int /\ slot \in Slots
      /\ slot + MinShift = k
  <2>1. k \in MinShift..PageShift - 1
    BY <1>1, <1>7, <1>8, ShiftType
  <2> QED BY <2>1, <1>2, PageSizeType DEF Slots
<1>10. /\ Store(t) /\ given' = given \cup {g}
       /\ stat' = [stat EXCEPT ![slot].total = @ + Chunks(k) - n, ![slot].used = @ + 1]
  <2>1. n \in Nat
    BY <1>4, <1>9, ChunkFacts
  <2>2. PICK map \in LowBits(2, n) :
          LET v == TakePages(Mem, x, 1)
              h == SlotHead(slot)
          IN  Store([v EXCEPT !.slab[x] = ChunkPage(k, map), !.next[x] = h,
                              !.prev[x] = Ptr(h, TypeOf(k)), !.next[h] = x])
    BY <1>1, <1>2, <1>3, <1>4 DEF AllocNewSlotPage
  <2>3. map = 0..n
    BY <2>1, <1>4, <1>9, LowBitsIs
  <2>4. Store(t)
    BY <2>2, <2>3, <1>2, <1>4, <1>5 DEF AfterNew
  <2> QED BY <2>4, <1>1, <1>2, <1>3, <1>4, <1>6 DEF AllocNewSlotPage, Give
<1>11. x \in Page /\ FreeStart(Mem.slab[x])
  <2>1. 1 \in Nat
    OBVIOUS
  <2> QED BY <2>1, <1>3, <1>7, <1>8, FirstFitIs
<1>12. /\ n \in Nat /\ n \in 0..Chunks(k) - 1 /\ Chunks(k) \in Nat
  BY <1>4, <1>9, ChunkFacts
<1>13. /\ Good(t) /\ FreeSet(t.slab) = FreeSet(slab) \ {x} /\ x \in FreeSet(slab)
       /\ t.pfree = pfree - 1 /\ t.slab[x] = ChunkPage(k, 0..n)
       /\ \A y \in Page : y # x /\ slab[y].kind # "free" => t.slab[y] = slab[y]
       /\ \A y \in Page : y # x /\ slab[y].kind = "free" => t.slab[y].kind = "free"
  <2>1. PICK s : s = Mem
    OBVIOUS
  <2>2. Good(s) /\ FreeStart(s.slab[x]) /\ s.next[SlotHead(k - MinShift)] = SlotHead(k - MinShift)
    BY <2>1, <1>2, <1>7, <1>8, <1>11, MemIs
  <2>3. t = AfterNew(s, x, k)
    BY <2>1, <1>5
  <2>4. /\ Good(t) /\ FreeSet(t.slab) = FreeSet(s.slab) \ {x} /\ x \in FreeSet(s.slab)
        /\ t.pfree = s.pfree - 1 /\ t.slab[x] = ChunkPage(k, 0..BitmapChunks(k))
        /\ \A y \in Page : y # x /\ s.slab[y].kind # "free" => t.slab[y] = s.slab[y]
        /\ \A y \in Page : y # x /\ s.slab[y].kind = "free" => t.slab[y].kind = "free"
    BY <2>2, <2>3, <1>9, <1>11, ChunkPageNew
  <2> QED BY <2>1, <2>4, <1>4, MemIs
<1>14. Mem' = t /\ slab' = t.slab /\ pfree' = t.pfree
  BY <1>10, <1>13, StoreIs DEF Good
<1>15. Good(Mem)'
  BY <1>13, <1>14
<1>16. slab[x].kind = "free" /\ x \in Nat
  BY <1>11, <1>13, NodeFacts DEF FreeSet
<1>17. slab'[x].kind = "chunks" /\ slab'[x].n = k /\ slab'[x].map = 0..n
  BY <1>13, <1>14, PtrIs
<1>18. /\ g.addr = x * PageSize + n * Pow2[k] /\ g.size = size
       /\ g \in [addr : Nat, size : Nat] /\ g.addr \div PageSize = x
  <2>1. g.addr = x * PageSize + n * Pow2[k] /\ g.size = size
    BY <1>6
  <2>2. g.addr \in Nat /\ g.addr \div PageSize = x
    BY <2>1, <1>9, <1>12, <1>16, ChunkAddress
  <2> QED BY <2>1, <2>2, <1>6, <1>8
<1>19. \A h \in given : h.addr # g.addr
  BY <1>16, <1>18, GivenPage
<1>20. HeldChunk(g, x, n)'
  <2>1. n \in 0..n
    BY <1>12
  <2>2. n >= BitmapChunks(k)
    BY <1>4, <1>12
  <2> QED BY <2>1, <2>2, <1>1, <1>7, <1>11, <1>17, <1>18 DEF HeldChunk
<1>21. ASSUME NEW h \in given'
       PROVE  (\E y \in Page : HeldPages(h, y)') \/ \E y \in Page, j \in Nat : HeldChunk(h, y, j)'
  <2>1. CASE h = g
    BY <2>1, <1>11, <1>12, <1>20
  <2>2. CASE h \in given
    <3>1. h.addr \div PageSize \in Page /\ slab[h.addr \div PageSize].kind # "free"
      BY <2>2, GivenPage
    <3> QED BY <2>2, <3>1, <1>13, <1>14, <1>16, HeldKept
  <2> QED BY <2>1, <2>2, <1>10
<1>22. /\ GivenRight'
       /\ \A j \in Slots : Cardinality(Users(j))' = Cardinality(Users(j)) +
            (IF g.size <= MaxSize /\ Shift(g.size) = j + MinShift THEN 1 ELSE 0)
  BY <1>10, <1>18, <1>19, <1>21, GivenAdded
<1>23. /\ stat \in [Slots -> [total : Int, used : Int]] /\ pfree = Cardinality(FreeSet(slab))
       /\ \A j \in Slots : stat[j].used = Cardinality(Users(j))
       /\ \A j \in Slots : stat[j].used \in Int /\ stat[j].total \in Int
       /\ \A j \in Slots : stat[j].total = Cardinality(Offered(j)) *
                            (Chunks(j + MinShift) - BitmapChunks(j + MinShift))
  BY DEF SlabIInv, CountsRight
<1>24. /\ stat' \in [Slots -> [total : Int, used : Int]]
       /\ \A j \in Slots : /\ stat'[j].total = stat[j].total + (IF j = slot THEN Chunks(k) - n ELSE 0)
                           /\ stat'[j].used = stat[j].used + (IF j = slot THEN 1 ELSE 0)
  <2>1. PICK D \in Int : D = Chunks(k) - n
    BY <1>12
  <2>2. PICK r : r = [total |-> stat[slot].total + Chunks(k) - n, used |-> stat[slot].used + 1]
    OBVIOUS
  <2>3. r \in [total : Int, used : Int] /\ r.total = stat[slot].total + D /\ r.used = stat[slot].used + 1
    BY <2>1, <2>2, <1>9, <1>12, <1>23
  <2>4. stat' = [stat EXCEPT ![slot] = r]
    BY <2>2, <1>9, <1>10, <1>23
  <2>5. stat' \in [Slots -> [total : Int, used : Int]]
    BY <2>3, <2>4, <1>23
  <2>6. \A j \in Slots : stat'[j] = IF j = slot THEN r ELSE stat[j]
    BY <2>4, <1>23
  <2> QED BY <2>1, <2>3, <2>5, <2>6, <1>9, <1>23
<1>25. \A j \in Slots : stat'[j].used = Cardinality(Users(j))'
  <2>1. \A j \in Slots : (g.size <= MaxSize /\ Shift(g.size) = j + MinShift) <=> j = slot
    <3>1. \A j \in Slots : j \in Int
      BY PageSizeType DEF Slots
    <3>2. g.size <= MaxSize /\ Shift(g.size) = slot + MinShift
      BY <1>1, <1>7, <1>9, <1>18
    <3>3. slot \in Slots /\ MinShift \in Nat
      BY <1>9
    <3>4. \A j \in Slots : slot + MinShift = j + MinShift <=> j = slot
      <4> SUFFICES ASSUME NEW j \in Slots PROVE slot + MinShift = j + MinShift <=> j = slot
        OBVIOUS
      <4>1. j \in Int /\ slot \in Int /\ MinShift \in Int
        BY <3>1, <3>3
      <4> QED BY <4>1
    <3> QED BY <3>2, <3>4
  <2> QED BY <2>1, <1>22, <1>23, <1>24
<1>26. ASSUME NEW j \in Slots
       PROVE  stat'[j].total = Cardinality(Offered(j))' *
                          (Chunks(j + MinShift) - BitmapChunks(j + MinShift))
  <2>1. PICK d : d = Chunks(j + MinShift) - BitmapChunks(j + MinShift)
    OBVIOUS
  <2>2. d \in Int
    <3>1. j + MinShift \in MinShift..PageShift - 1
      BY PageSizeType DEF Slots
    <3> QED BY <3>1, <2>1, ChunkFacts
  <2>3. Cardinality(Offered(j))' * d = Cardinality(Offered(j)) * d + (IF j = slot THEN d ELSE 0)
    <3>1. \A y \in Page : y # x => (slab'[y].kind = "chunks" <=> slab[y].kind = "chunks")
      BY <1>13, <1>14
    <3>2. \A y \in Page : y # x /\ slab[y].kind = "chunks" => slab'[y].n = slab[y].n
      BY <1>13, <1>14
    <3>3. slab[x].kind # "chunks" /\ slab'[x].kind = "chunks" /\ slab'[x].n = slot + MinShift
      BY <1>9, <1>16, <1>17
    <3> QED BY <3>1, <3>2, <3>3, <2>2, <1>9, <1>11, OfferedAdded
  <2>4. j = slot => d = Chunks(k) - n
    BY <2>1, <1>4, <1>9
  <2>5. stat[j].total = Cardinality(Offered(j)) * d
    BY <2>1, <1>23
  <2>6. stat'[j].total = stat[j].total + (IF j = slot THEN d ELSE 0)
    BY <2>4, <1>24
  <2> QED BY <2>1, <2>3, <2>5, <2>6
<1>27. pfree' = Cardinality(FreeSet(slab'))
  <2>1. IsFiniteSet(FreeSet(slab))
    BY PagesFinite DEF FreeSet
  <2>2. Cardinality(FreeSet(slab) \ {x}) = Cardinality(FreeSet(slab)) - 1
    BY <2>1, <1>13, FS_RemoveElement
  <2> QED BY <2>2, <1>13, <1>14, <1>23
<1>28. CountsRight'
  BY <1>24, <1>25, <1>26, <1>27, CountsKept
<1> QED BY <1>15, <1>22, <1>28 DEF SlabIInv

\* ngx_slab_free_locked on pages of their own.
LEMMA FreePagesOfInv ==
  ASSUME SlabIInv, NEW g \in given, FreePagesOf(g)
  PROVE  SlabIInv'
<1>1. PICK x : x = g.addr \div PageSize
  OBVIOUS
<1>2. PICK n : n = slab[x].n
  OBVIOUS
<1>3. PICK t : t = FreePages(Mem, x, n)
  OBVIOUS
<1>4. /\ prev[x].type = "PAGE" /\ slab[x].kind = "start" /\ Store(t)
      /\ given' = given \ {g} /\ stat' = stat
  BY <1>1, <1>2, <1>3 DEF FreePagesOf
<1>5. Good(Mem) /\ x \in Page /\ g \in [addr : Nat, size : Nat] /\ HeldPages(g, x)
  <2>1. Good(Mem) /\ x \in Page /\ g \in [addr : Nat, size : Nat]
        /\ (HeldPages(g, x) \/ \E i \in Nat : HeldChunk(g, x, i))
    BY <1>1, GivenPage DEF SlabIInv
  <2> QED BY <2>1, <1>4 DEF HeldChunk
<1>6. n \in Nat /\ n > 0 /\ g.addr % PageSize = 0 /\ (\A y \in x + 1..x + n - 1 : slab[y] = Busy)
      /\ x \in Int /\ g.size > MaxSize
  BY <1>2, <1>5, HeldPagesIs, NodeFacts DEF HeldPages
<1>7. /\ Good(t) /\ t.pfree = pfree + n /\ FreeSet(t.slab) = FreeSet(slab) \cup (x..x + n - 1)
      /\ x..x + n - 1 \subseteq Page /\ (x..x + n - 1) \cap FreeSet(slab) = {}
      /\ \A y \in Page : y \notin x..x + n - 1 /\ slab[y].kind # "free" => t.slab[y] = slab[y]
  <2>1. PICK s : s = Mem
    OBVIOUS
  <2>2. Good(s) /\ Taken(s.slab, x, n) /\ t = FreePages(s, x, n)
    BY <2>1, <1>2, <1>3, <1>4, <1>5, MemIs DEF Taken
  <2>3. /\ Good(t) /\ t.pfree = s.pfree + n /\ FreeSet(t.slab) = FreeSet(s.slab) \cup (x..x + n - 1)
        /\ x..x + n - 1 \subseteq Page /\ (x..x + n - 1) \cap FreeSet(s.slab) = {}
        /\ \A y \in Page : y \notin x..x + n - 1 /\ s.slab[y].kind # "free" => t.slab[y] = s.slab[y]
    BY <2>2, <1>5, FreePagesGood
  <2> QED BY <2>1, <2>3, MemIs
<1>8. Mem' = t /\ slab' = t.slab /\ pfree' = t.pfree
  BY <1>4, <1>7, StoreIs DEF Good
<1>9. Good(Mem)'
  BY <1>7, <1>8
<1>10. \A y \in Page : y \in x..x + n - 1 \/ slab[y].kind = "free" => slab'[y].kind = "free"
  BY <1>7, <1>8 DEF FreeSet
<1>11. \A y \in x..x + n - 1 : y = x \/ slab[y] = Busy
  <2>1. \A y \in x..x + n - 1 : y = x \/ y \in x + 1..x + n - 1
    BY <1>6
  <2> QED BY <2>1, <1>6
<1>12. \A y \in x..x + n - 1 : slab[y].kind # "chunks"
  BY <1>4, <1>11, PtrIs
<1>13. ASSUME NEW h \in given'
       PROVE  (\E y \in Page : HeldPages(h, y)') \/ \E y \in Page, i \in Nat : HeldChunk(h, y, i)'
  <2>1. h \in given /\ h # g
    BY <1>4
  <2>2. PICK y : y = h.addr \div PageSize
    OBVIOUS
  <2>3. /\ y \in Page /\ slab[y].kind # "free" /\ h \in [addr : Nat, size : Nat]
        /\ (HeldPages(h, y) \/ \E i \in Nat : HeldChunk(h, y, i))
    BY <2>1, <2>2, GivenPage
  <2>4. y # x
    <3> SUFFICES ASSUME y = x PROVE FALSE
      OBVIOUS
    <3>1. HeldPages(h, x)
      BY <2>3, <1>4 DEF HeldChunk
    <3>2. h.addr = g.addr
      BY <3>1, <1>5 DEF HeldPages
    <3> QED BY <3>2, <2>1 DEF SlabIInv, GivenRight
  <2>5. slab[y].kind # "busy"
    BY <2>3 DEF HeldPages, HeldChunk
  <2>6. y \notin x..x + n - 1
    BY <2>4, <2>5, <1>11, PtrIs
  <2> QED BY <2>1, <2>2, <2>3, <2>6, <1>7, <1>8, HeldKept
<1>14. /\ GivenRight'
       /\ \A i \in Slots : Cardinality(Users(i))' = Cardinality(Users(i)) -
            (IF g.size <= MaxSize /\ Shift(g.size) = i + MinShift THEN 1 ELSE 0)
  BY <1>4, <1>13, GivenRemoved
<1>15. ~(g.size <= MaxSize)
  BY <1>5, <1>6, PageSizeType
<1>16. \A i \in Slots : Offered(i)' = Offered(i)
  <2>1. \A y \in Page : slab[y].kind = "chunks" => slab'[y] = slab[y]
    BY <1>7, <1>8, <1>12
  <2>2. \A y \in Page : slab[y].kind # "chunks" => slab'[y].kind # "chunks"
    BY <1>7, <1>8, <1>10
  <2> QED BY <2>1, <2>2, OfferedKept
<1>17. pfree' = Cardinality(FreeSet(slab'))
  <2>1. FreeSet(slab) \in SUBSET Page /\ pfree = Cardinality(FreeSet(slab))
    BY DEF FreeSet, SlabIInv, CountsRight
  <2>2. Cardinality(FreeSet(slab) \cup (x..x + n - 1)) = Cardinality(FreeSet(slab)) + n
    <3>1. PICK T : T = x..x + n - 1
      OBVIOUS
    <3>2. T \subseteq Page /\ T \cap FreeSet(slab) = {}
      BY <3>1, <1>7
    <3>3. Cardinality(FreeSet(slab) \cup T) = Cardinality(FreeSet(slab)) + n
      <4>1. PICK F : F = FreeSet(slab)
        OBVIOUS
      <4>2. F \in SUBSET Page /\ x \in Page /\ n \in Nat /\ n > 0 /\ T \subseteq Page /\ T \cap F = {}
        BY <4>1, <2>1, <3>2, <1>5, <1>6
      <4>3. Cardinality(F \cup T) = Cardinality(F) + n
        BY <4>2, <3>1, RowAdded
      <4> QED BY <4>1, <4>3
    <3> QED BY <3>1, <3>3
  <2> QED BY <2>1, <2>2, <1>7, <1>8
<1>18. /\ stat \in [Slots -> [total : Int, used : Int]]
       /\ \A i \in Slots : stat[i].used = Cardinality(Users(i))
       /\ \A i \in Slots : stat[i].used \in Int
       /\ \A i \in Slots : stat[i].total = Cardinality(Offered(i)) *
                            (Chunks(i + MinShift) - BitmapChunks(i + MinShift))
  BY DEF SlabIInv, CountsRight
<1>19. \A i \in Slots : stat'[i].used = Cardinality(Users(i))'
  BY <1>4, <1>14, <1>15, <1>18
<1>20. \A i \in Slots : stat'[i].total = Cardinality(Offered(i))' *
                          (Chunks(i + MinShift) - BitmapChunks(i + MinShift))
  BY <1>4, <1>16, <1>18
<1>21. CountsRight'
  BY <1>4, <1>17, <1>18, <1>19, <1>20, CountsKept
<1> QED BY <1>9, <1>14, <1>21 DEF SlabIInv

\* ngx_slab_free_locked on a chunk: its page stays while another of its chunks is
\* busy, and is freed with the last one.
LEMMA FreeChunkInv ==
  ASSUME OneWord, SlabIInv, NEW g \in given, FreeChunk(g)
  PROVE  SlabIInv'
<1>1. PICK x : x = g.addr \div PageSize
  OBVIOUS
<1>2. PICK k : k = slab[x].n
  OBVIOUS
<1>3. PICK slot : slot = k - MinShift
  OBVIOUS
<1>4. PICK n : n = BitmapChunks(k)
  OBVIOUS
<1>5. PICK i : i = (g.addr % PageSize) \div Pow2[k]
  OBVIOUS
<1>6. PICK s : s = AfterFreed(Mem, x, i)
  OBVIOUS
<1>7. PICK m : m = Mem
  OBVIOUS
<1>8. PICK last \in BOOLEAN : last <=> s.slab[x].map \subseteq 0..n - 1
  OBVIOUS
<1>9. PICK gone : gone = IF last THEN Chunks(k) - n ELSE 0
  OBVIOUS
<1>10. PICK u : u = Relist(Mem, x, SlotHead(slot), TypeOf(k))
  OBVIOUS
<1>11. s = [u EXCEPT !.slab[x].map = u.slab[x].map \ {i}]
  BY <1>2, <1>3, <1>6, <1>10, MemIs DEF AfterFreed
<1>12. s = [u EXCEPT !.slab[x].map = @ \ {i}]
  BY <1>11
<1>13. /\ prev[x].type # "PAGE" /\ i \in slab[x].map
       /\ Store(IF last THEN FreePages(s, x, 1) ELSE s)
       /\ stat' = CountFree(slot, gone) /\ given' = given \ {g}
  <2>1. prev[x].type # "PAGE" /\ i \in slab[x].map /\ given' = given \ {g}
    BY <1>1, <1>2, <1>5 DEF FreeChunk
  <2>2. Good(Mem) /\ x \in Page /\ g \in [addr : Nat, size : Nat]
        /\ (HeldPages(g, x) \/ \E j \in Nat : HeldChunk(g, x, j))
    BY <1>1, GivenPage DEF SlabIInv
  <2>3. PICK j \in Nat : HeldChunk(g, x, j)
    BY <2>1, <2>2, HeldPagesIs
  <2>4. k \in MinShift..PageShift - 1
    BY <2>2, <2>3, <1>2, HeldChunkIs
  <2>5. n \in Nat
    BY <2>4, <1>4, ChunkFacts
  <2>6. PICK mask \in LowBits(1, n) :
          LET b == s.slab[x].map \subseteq mask
          IN  /\ Store(IF b THEN FreePages(s, x, 1) ELSE s)
              /\ stat' = CountFree(slot, IF b THEN Chunks(k) - n ELSE 0)
    BY <1>1, <1>2, <1>3, <1>4, <1>5, <1>10, <1>12 DEF FreeChunk
  <2>7. mask = 0..n - 1
    BY <2>4, <2>5, <2>6, <1>4, LowBitsIs
  <2> QED BY <2>1, <2>6, <2>7, <1>8, <1>9
<1>14. Good(Mem) /\ x \in Page /\ g \in [addr : Nat, size : Nat] /\ HeldChunk(g, x, i) /\ i \in Nat
  <2>1. Good(Mem) /\ x \in Page /\ g \in [addr : Nat, size : Nat]
        /\ (HeldPages(g, x) \/ \E j \in Nat : HeldChunk(g, x, j))
    BY <1>1, GivenPage DEF SlabIInv
  <2>2. ~HeldPages(g, x)
    BY <2>1, <1>13, HeldPagesIs
  <2>3. PICK j \in Nat : HeldChunk(g, x, j)
    BY <2>1, <2>2
  <2>4. (g.addr % PageSize) \div Pow2[slab[x].n] = j
    BY <2>1, <2>3, HeldChunkIs
  <2> QED BY <2>1, <2>3, <2>4, <1>2, <1>5
<1>15. /\ slab[x].kind = "chunks" /\ k \in MinShift..PageShift - 1 /\ i >= n
       /\ k = Shift(g.size) /\ g.size <= MaxSize /\ i \in slab[x].map
       /\ g.addr = x * PageSize + i * Pow2[k]
  <2>1. /\ slab[x].kind = "chunks" /\ slab[x].n \in MinShift..PageShift - 1
        /\ i \in slab[x].map /\ i >= BitmapChunks(slab[x].n) /\ slab[x].n = Shift(g.size)
    BY <1>14, HeldChunkIs
  <2>2. g.size <= MaxSize /\ g.addr = x * PageSize + i * Pow2[slab[x].n]
    BY <1>14 DEF HeldChunk
  <2> QED BY <2>1, <2>2, <1>2, <1>4
<1>16. /\ n \in Nat /\ Chunks(k) \in Nat /\ slot \in Slots /\ slot + MinShift = k /\ gone \in Int
       /\ MinShift \in Nat
  <2>1. n \in Nat /\ Chunks(k) \in Nat
    BY <1>4, <1>15, ChunkFacts
  <2>2. slot \in Slots /\ slot + MinShift = k /\ MinShift \in Nat
    BY <1>3, <1>15, PageSizeType DEF Slots
  <2> QED BY <2>1, <2>2, <1>9
<1>17. /\ Good(s) /\ FreeSet(s.slab) = FreeSet(slab) /\ s.pfree = pfree
       /\ s.slab = [slab EXCEPT ![x] = ChunkPage(k, slab[x].map \ {i})]
  <2>1. m.slab[x].kind = "chunks" /\ i \in m.slab[x].map /\ i >= BitmapChunks(m.slab[x].n) /\ m.slab[x].n = k
    BY <1>2, <1>4, <1>7, <1>15, MemIs
  <2>2. x \in Page /\ CanFree(m, x, i) /\ Good(m)
    BY <2>1, <1>7, <1>14 DEF CanFree
  <2>3. ChunkStep(m, AfterFreed(m, x, i), x, m.slab[x].map \ {i})
    BY <2>2, ChunkFreed
  <2> QED BY <2>1, <2>3, <1>6, <1>7, MemIs DEF ChunkStep
<1>18. slab \in [Page -> SlabRecord]
  BY <1>14, MemIs, MemoryParts DEF Good
<1>19. /\ s.slab[x] = ChunkPage(k, slab[x].map \ {i}) /\ s.slab[x].kind = "chunks" /\ s.slab[x].n = k
       /\ s.slab[x].map = slab[x].map \ {i}
       /\ \A y \in Page : y # x => s.slab[y] = slab[y]
  <2>1. s.slab[x] = ChunkPage(k, slab[x].map \ {i}) /\ \A y \in Page : y # x => s.slab[y] = slab[y]
    BY <1>14, <1>17, <1>18
  <2> QED BY <2>1, PtrIs
<1>20. /\ stat \in [Slots -> [total : Int, used : Int]] /\ pfree = Cardinality(FreeSet(slab))
       /\ \A j \in Slots : stat[j].used = Cardinality(Users(j))
       /\ \A j \in Slots : stat[j].used \in Int /\ stat[j].total \in Int
       /\ \A j \in Slots : stat[j].total = Cardinality(Offered(j)) *
                            (Chunks(j + MinShift) - BitmapChunks(j + MinShift))
  BY DEF SlabIInv, CountsRight
<1>21. /\ stat' \in [Slots -> [total : Int, used : Int]]
       /\ \A j \in Slots : /\ stat'[j].total = stat[j].total - (IF j = slot THEN gone ELSE 0)
                           /\ stat'[j].used = stat[j].used - (IF j = slot THEN 1 ELSE 0)
  <2>1. PICK r : r = [total |-> stat[slot].total - gone, used |-> stat[slot].used - 1]
    OBVIOUS
  <2>2. r \in [total : Int, used : Int] /\ r.total = stat[slot].total - gone /\ r.used = stat[slot].used - 1
    BY <2>1, <1>16, <1>20
  <2>3. stat' = [stat EXCEPT ![slot] = r]
    <3>1. stat' = [stat EXCEPT ![slot].used = @ - 1, ![slot].total = @ - gone]
      BY <1>13 DEF CountFree
    <3>2. stat \in [Slots -> [total : Int, used : Int]] /\ slot \in Slots
      BY <1>16, <1>20
    <3>3. PICK a : a = [stat EXCEPT ![slot].used = stat[slot].used - 1]
      OBVIOUS
    <3>4. a \in [Slots -> [total : Int, used : Int]] /\ a[slot].total = stat[slot].total
          /\ a[slot].used = stat[slot].used - 1 /\ \A j \in Slots : j # slot => a[j] = stat[j]
      BY <3>2, <3>3
    <3>5. stat' = [a EXCEPT ![slot].total = a[slot].total - gone]
      BY <3>1, <3>2, <3>3
    <3>6. stat' = [a EXCEPT ![slot] = r]
      <4>1. PICK q : q = a[slot]
        OBVIOUS
      <4>2. q \in [total : Int, used : Int] /\ q.total = stat[slot].total /\ q.used = stat[slot].used - 1
        BY <4>1, <3>2, <3>4
      <4>3. [q EXCEPT !.total = q.total - gone] = r
        BY <4>2, <2>1
      <4> QED BY <4>1, <4>3, <3>5
    <3> QED BY <3>2, <3>3, <3>6
  <2>4. stat' \in [Slots -> [total : Int, used : Int]]
    BY <2>2, <2>3, <1>20
  <2>5. \A j \in Slots : stat'[j] = IF j = slot THEN r ELSE stat[j]
    BY <2>3, <1>20
  <2> QED BY <2>2, <2>4, <2>5, <1>20
\* Another user's chunk in the page is another chunk.
<1>22. ASSUME NEW h \in given, h # g, NEW j \in Nat, HeldChunk(h, x, j)
       PROVE  j \in slab[x].map \ {i} /\ j >= n
  <2>1. j \in slab[x].map /\ j >= BitmapChunks(slab[x].n) /\ h.addr = x * PageSize + j * Pow2[slab[x].n]
    BY <1>22 DEF HeldChunk
  <2>2. h.addr # g.addr
    BY <1>22 DEF SlabIInv, GivenRight
  <2> QED BY <2>1, <2>2, <1>2, <1>4, <1>15
<1>23. \A j \in Slots : (g.size <= MaxSize /\ Shift(g.size) = j + MinShift) <=> j = slot
  <2>1. g.size <= MaxSize /\ Shift(g.size) = slot + MinShift
    BY <1>15, <1>16
  <2>2. \A j \in Slots : slot + MinShift = j + MinShift <=> j = slot
    <3> SUFFICES ASSUME NEW j \in Slots PROVE slot + MinShift = j + MinShift <=> j = slot
      OBVIOUS
    <3>1. j \in Int /\ slot \in Int /\ MinShift \in Int
      BY <1>16, PageSizeType DEF Slots
    <3> QED BY <3>1
  <2> QED BY <2>1, <2>2
<1>24. ASSUME NEW j \in Slots
       PROVE  /\ Chunks(j + MinShift) - BitmapChunks(j + MinShift) \in Int
              /\ j = slot => Chunks(j + MinShift) - BitmapChunks(j + MinShift) = Chunks(k) - n
  <2>1. j + MinShift \in MinShift..PageShift - 1
    BY PageSizeType DEF Slots
  <2>2. Chunks(j + MinShift) - BitmapChunks(j + MinShift) \in Int
    BY <2>1, ChunkFacts
  <2> QED BY <2>2, <1>4, <1>16
\* What both cases have in common.
<1>25. ASSUME Good(Mem)', pfree' = Cardinality(FreeSet(slab')),
              \A h \in given' : (\E y \in Page : HeldPages(h, y)') \/ \E y \in Page, j \in Nat : HeldChunk(h, y, j)',
              \A j \in Slots : Cardinality(Offered(j))' * (Chunks(j + MinShift) - BitmapChunks(j + MinShift)) =
                Cardinality(Offered(j)) * (Chunks(j + MinShift) - BitmapChunks(j + MinShift)) -
                (IF j = slot THEN gone ELSE 0)
       PROVE  SlabIInv'
  <2>1. /\ GivenRight'
        /\ \A j \in Slots : Cardinality(Users(j))' = Cardinality(Users(j)) -
             (IF g.size <= MaxSize /\ Shift(g.size) = j + MinShift THEN 1 ELSE 0)
    BY <1>13, <1>25, GivenRemoved
  <2>2. \A j \in Slots : stat'[j].used = Cardinality(Users(j))'
    BY <2>1, <1>20, <1>21, <1>23
  <2>3. \A j \in Slots : stat'[j].total = Cardinality(Offered(j))' *
                          (Chunks(j + MinShift) - BitmapChunks(j + MinShift))
    <3> SUFFICES ASSUME NEW j \in Slots
                 PROVE  stat'[j].total = Cardinality(Offered(j))' *
                          (Chunks(j + MinShift) - BitmapChunks(j + MinShift))
      OBVIOUS
    <3>1. PICK d : d = Chunks(j + MinShift) - BitmapChunks(j + MinShift)
      OBVIOUS
    <3>2. /\ Cardinality(Offered(j))' * d = Cardinality(Offered(j)) * d - (IF j = slot THEN gone ELSE 0)
          /\ stat[j].total = Cardinality(Offered(j)) * d
      BY <3>1, <1>20, <1>25
    <3> QED BY <3>1, <3>2, <1>21
  <2>4. CountsRight'
    BY <2>2, <2>3, <1>21, <1>25, CountsKept
  <2> QED BY <2>1, <2>4, <1>25 DEF SlabIInv
<1>26. CASE ~last
  <2>1. Mem' = s /\ slab' = s.slab /\ pfree' = s.pfree
    <3>1. Store(s)
      BY <1>13, <1>26
    <3> QED BY <3>1, <1>17, StoreIs DEF Good
  <2>2. Good(Mem)' /\ pfree' = Cardinality(FreeSet(slab'))
    BY <2>1, <1>17, <1>20
  <2>3. ASSUME NEW h \in given'
        PROVE  (\E y \in Page : HeldPages(h, y)') \/ \E y \in Page, j \in Nat : HeldChunk(h, y, j)'
    <3>1. h \in given /\ h # g
      BY <1>13
    <3>2. PICK y : y = h.addr \div PageSize
      OBVIOUS
    <3>3. y \in Page
      BY <3>1, <3>2, GivenPage
    <3>4. slab'[y].kind = slab[y].kind /\ slab'[y].n = slab[y].n
      BY <3>3, <2>1, <1>2, <1>15, <1>19
    <3>5. ASSUME NEW j \in Nat, HeldChunk(h, y, j) PROVE j \in slab'[y].map
      <4>1. CASE y = x
        BY <4>1, <3>1, <3>5, <2>1, <1>19, <1>22
      <4>2. CASE y # x
        BY <4>2, <3>3, <3>5, <2>1, <1>19 DEF HeldChunk
      <4> QED BY <4>1, <4>2
    <3> QED BY <3>1, <3>2, <3>4, <3>5, HeldStays
  <2>4. \A j \in Slots : Offered(j)' = Offered(j)
    <3>1. \A y \in Page : slab'[y].kind = slab[y].kind /\ slab'[y].n = slab[y].n
      BY <2>1, <1>2, <1>15, <1>19
    <3> QED BY <3>1, OfferedKept
  <2>5. ASSUME NEW j \in Slots
        PROVE  Cardinality(Offered(j))' * (Chunks(j + MinShift) - BitmapChunks(j + MinShift)) =
                 Cardinality(Offered(j)) * (Chunks(j + MinShift) - BitmapChunks(j + MinShift)) -
                 (IF j = slot THEN gone ELSE 0)
    <3>1. PICK p : p = Cardinality(Offered(j)) * (Chunks(j + MinShift) - BitmapChunks(j + MinShift))
      OBVIOUS
    <3>2. p = stat[j].total /\ p \in Int
      BY <3>1, <1>20
    <3>3. gone = 0
      BY <1>9, <1>26
    <3>4. Cardinality(Offered(j))' = Cardinality(Offered(j))
      BY <2>4
    <3> QED BY <3>1, <3>2, <3>3, <3>4
  <2> QED BY <2>2, <2>3, <2>5, <1>25
<1>27. CASE last
  <2>1. PICK t : t = FreePages(s, x, 1)
    OBVIOUS
  <2>2. /\ Good(t) /\ t.pfree = s.pfree + 1 /\ FreeSet(t.slab) = FreeSet(s.slab) \cup {x}
        /\ \A y \in Page : y # x /\ s.slab[y].kind # "free" => t.slab[y] = s.slab[y]
    <3>1. Taken(s.slab, x, 1) /\ x..x + 1 - 1 = {x}
      <4>1. x \in Int
        BY <1>14, NodeFacts
      <4> QED BY <4>1, <1>19 DEF Taken
    <3>2. /\ Good(t) /\ t.pfree = s.pfree + 1 /\ FreeSet(t.slab) = FreeSet(s.slab) \cup (x..x + 1 - 1)
          /\ \A y \in Page : y \notin x..x + 1 - 1 /\ s.slab[y].kind # "free" => t.slab[y] = s.slab[y]
      <4>1. PICK one : one = 1
        OBVIOUS
      <4>2. Good(s) /\ Taken(s.slab, x, one) /\ t = FreePages(s, x, one)
        BY <4>1, <2>1, <3>1, <1>17
      <4>3. /\ Good(t) /\ t.pfree = s.pfree + one
            /\ FreeSet(t.slab) = FreeSet(s.slab) \cup (x..x + one - 1)
            /\ \A y \in Page : y \notin x..x + one - 1 /\ s.slab[y].kind # "free" => t.slab[y] = s.slab[y]
        BY <4>2, <1>14, FreePagesGood
      <4> QED BY <4>1, <4>3
    <3> QED BY <3>1, <3>2
  <2>3. Mem' = t /\ slab' = t.slab /\ pfree' = t.pfree
    <3>1. Store(t)
      BY <2>1, <1>13, <1>27
    <3> QED BY <3>1, <2>2, StoreIs DEF Good
  <2>4. Good(Mem)'
    BY <2>2, <2>3
  <2>5. pfree' = Cardinality(FreeSet(slab'))
    <3>1. IsFiniteSet(FreeSet(slab)) /\ x \notin FreeSet(slab)
      BY <1>15, PagesFinite DEF FreeSet
    <3>2. Cardinality(FreeSet(slab) \cup {x}) = Cardinality(FreeSet(slab)) + 1
      BY <3>1, FS_AddElement
    <3> QED BY <3>2, <2>2, <2>3, <1>17, <1>20
  <2>6. /\ \A y \in Page : y # x /\ slab[y].kind # "free" => slab'[y] = slab[y]
        /\ \A y \in Page : y = x \/ slab[y].kind = "free" => slab'[y].kind = "free"
    <3>1. \A y \in Page : y # x /\ slab[y].kind # "free" => slab'[y] = slab[y]
      BY <2>2, <2>3, <1>19
    <3>2. \A y \in Page : y = x \/ slab[y].kind = "free" => y \in FreeSet(slab')
      BY <2>2, <2>3, <1>17 DEF FreeSet
    <3> QED BY <3>1, <3>2 DEF FreeSet
  <2>7. ASSUME NEW h \in given'
        PROVE  (\E y \in Page : HeldPages(h, y)') \/ \E y \in Page, j \in Nat : HeldChunk(h, y, j)'
    <3>1. h \in given /\ h # g
      BY <1>13
    <3>2. PICK y : y = h.addr \div PageSize
      OBVIOUS
    <3>3. y \in Page /\ slab[y].kind # "free" /\ (HeldPages(h, y) \/ \E j \in Nat : HeldChunk(h, y, j))
      BY <3>1, <3>2, GivenPage
    <3>4. y # x
      <4> SUFFICES ASSUME y = x PROVE FALSE
        OBVIOUS
      <4>1. PICK j \in Nat : HeldChunk(h, x, j)
        BY <3>3, <1>15 DEF HeldPages
      <4>2. j \in s.slab[x].map /\ j >= n
        BY <4>1, <3>1, <1>19, <1>22
      <4>3. s.slab[x].map \subseteq 0..n - 1
        BY <1>8, <1>27
      <4> QED BY <4>2, <4>3, <1>16
    <3> QED BY <3>1, <3>2, <3>3, <3>4, <2>6, HeldKept
  <2>8. ASSUME NEW j \in Slots
        PROVE  Cardinality(Offered(j))' * (Chunks(j + MinShift) - BitmapChunks(j + MinShift)) =
                 Cardinality(Offered(j)) * (Chunks(j + MinShift) - BitmapChunks(j + MinShift)) -
                 (IF j = slot THEN gone ELSE 0)
    <3>1. PICK d \in Int : d = Chunks(j + MinShift) - BitmapChunks(j + MinShift)
      BY <1>24
    <3>2. Cardinality(Offered(j))' * d = Cardinality(Offered(j)) * d - (IF j = slot THEN d ELSE 0)
      <4>1. slab'[x].kind # "chunks" /\ slab[x].kind = "chunks" /\ slab[x].n = slot + MinShift
        BY <2>6, <1>2, <1>14, <1>15, <1>16
      <4>2. \A y \in Page : y # x => (slab'[y].kind = "chunks" <=> slab[y].kind = "chunks")
        BY <2>6
      <4>3. \A y \in Page : y # x /\ slab[y].kind = "chunks" => slab'[y].n = slab[y].n
        BY <2>6
      <4> QED BY <4>1, <4>2, <4>3, <3>1, <1>14, <1>16, OfferedRemoved
    <3>3. j = slot => d = gone
      BY <3>1, <1>9, <1>24, <1>27
    <3> QED BY <3>1, <3>2, <3>3
  <2> QED BY <2>4, <2>5, <2>7, <2>8, <1>25
<1> QED BY <1>26, <1>27

\* Every step of the allocator keeps SlabIInv.
LEMMA NextInv ==
  ASSUME OneWord
  PROVE  SlabIInv /\ [SlabNext]_slabVars => SlabIInv'
<1> SUFFICES ASSUME SlabIInv, [SlabNext]_slabVars PROVE SlabIInv'
  OBVIOUS
<1>1. CASE SlabNext
  <2>1. ASSUME NEW size \in Sizes, AllocPages(size) \/ AllocFromSlot(size) \/ AllocNewSlotPage(size)
        PROVE  SlabIInv'
    BY <2>1, AllocPagesInv, AllocFromSlotInv, AllocNewSlotPageInv
  <2>2. ASSUME NEW g \in given, FreeChunk(g) \/ FreePagesOf(g) PROVE SlabIInv'
    BY <2>2, FreeChunkInv, FreePagesOfInv
  <2> QED BY <1>1, <2>1, <2>2 DEF SlabNext
<1>2. CASE UNCHANGED slabVars
  <2>1. slab' = slab /\ next' = next /\ prev' = prev /\ pfree' = pfree /\ stat' = stat /\ given' = given
    BY <1>2 DEF slabVars
  <2>2. Good(Mem)'
    BY <2>1 DEF SlabIInv, Mem
  <2>3. GivenRight'
    BY <2>1 DEF SlabIInv, GivenRight, HeldPages, HeldChunk
  <2>4. CountsRight'
    BY <2>1 DEF SlabIInv, CountsRight, Users, Offered
  <2> QED BY <2>2, <2>3, <2>4 DEF SlabIInv
<1> QED BY <1>1, <1>2

\* In every reachable state of the allocator the page list is sound, users hold
\* what the pages say they hold, and the counters count it, if the bitmaps mark
\* themselves in one word (ngx_slab.c:342; beyond it the bitmap is given away).
THEOREM SlabInvariant ==
  ASSUME OneWord
  PROVE  SlabSpec => []SlabIInv
BY InitInv, NextInv, PTL DEF SlabSpec

\* ngx_slab_alloc and ngx_slab_free, in any order and with any sizes, never give
\* a byte to two users, nor one of a bitmap, nor one outside the pool, on pages
\* whose bitmaps mark themselves in one word.
THEOREM SlabGivenDisjoint ==
  ASSUME OneWord
  PROVE  SlabSpec => []GivenDisjoint
BY SlabInvariant, DisjointHeld, PTL

\* What ngx_slab_alloc gave, ngx_slab_free accepts: it finds the page, its type
\* and the busy chunk from the address alone, on pages whose bitmaps mark
\* themselves in one word.
THEOREM SlabFreeAccepts ==
  ASSUME OneWord
  PROVE  SlabSpec => []FreeAccepts
BY SlabInvariant, AcceptsHeld, PTL

\* The free list holds all free pages, in blocks that are joined with their
\* neighbours, and ngx_slab_alloc_pages finds pages whenever enough are free in a
\* row, on pages whose bitmaps mark themselves in one word.
THEOREM SlabFreeListRight ==
  ASSUME OneWord
  PROVE  SlabSpec => []FreeListRight
BY SlabInvariant, ListsHeld, PTL

\* A slot's list holds the pages with a free chunk of its size, and stats[] is
\* right, on pages whose bitmaps mark themselves in one word.
THEOREM SlabSlotListsRight ==
  ASSUME OneWord
  PROVE  SlabSpec => []SlotListsRight
BY SlabInvariant, SlotsHeld, PTL
=============================================================================
