----------------------------- MODULE PoolLayout -----------------------------
(***************************************************************************)
(* Structure sizes, limits and address arithmetic of the memory pool       *)
(* (ngx_mem_pool_x64.h, and m32/ngx_mem_pool.h for the 32-bit build).      *)
(*                                                                         *)
(* An address is a malloc'ed chunk and an offset in it.  malloc aligns     *)
(* every chunk to at least NGX_ALIGNMENT, so aligning an address and       *)
(* aligning its offset are the same thing.                                 *)
(***************************************************************************)
EXTENDS Integers

CONSTANTS
  SizeofPool,               \* sizeof(ngx_pool_s), header of the first block
  SizeofData,               \* sizeof(ngx_pool_data_t), header of the others
  SizeofLarge,              \* sizeof(ngx_pool_large_s)
  SizeofCleanup,            \* sizeof(ngx_pool_cleanup_s)
  NGX_ALIGNMENT,            \* sizeof(unsigned long)
  NGX_MAX_ALLOC_FROM_POOL,  \* ngx_pagesize - 1
  SizeMax                   \* size_t counts modulo SizeMax

(***************************************************************************)
(* What the compilers of both builds give: 64, 32, 16, 24, 8 for x64 and   *)
(* 32, 16, 8, 12, 4 for m32.                                               *)
(***************************************************************************)
ASSUME LayoutAssumption ==
  /\ SizeofPool \in Nat /\ SizeofData \in Nat
  /\ SizeofLarge \in Nat \ {0} /\ SizeofCleanup \in Nat \ {0}
  /\ NGX_ALIGNMENT \in {4, 8}
  /\ NGX_MAX_ALLOC_FROM_POOL \in Nat /\ SizeMax \in Nat \ {0}
  /\ SizeofPool % NGX_ALIGNMENT = 0 /\ SizeofData % NGX_ALIGNMENT = 0
  /\ SizeofData + SizeofLarge <= SizeofPool

\* ngx_align_ptr(p, a): (p + (a - 1)) & ~(a - 1), a a power of two.
ngx_align_ptr(p, a) == (p + (a - 1)) - ((p + (a - 1)) % a)

\* A signed difference stored in a size_t.
ToSizeT(n) == n % SizeMax

\* pool->max as ngx_create_pool computes it from the size it was given.
MaxOf(size) ==
  LET usable == ToSizeT(size - SizeofPool)
  IN  IF usable < NGX_MAX_ALLOC_FROM_POOL THEN usable
      ELSE NGX_MAX_ALLOC_FROM_POOL
=============================================================================
