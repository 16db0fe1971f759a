--------------------------- MODULE PoolRefinement ---------------------------
(***************************************************************************)
(* The class ngx_mem_pool implements AbstractPool for clients that do not  *)
(* reset a pool with cleanup nodes, destroy it twice, or go on after a     *)
(* failed constructor: the mapping of the detailed state to the abstract.  *)
(***************************************************************************)
EXTENDS PoolProperties

PhaseOf(st) ==
  CASE st = "live"      -> "open"
    [] st = "cleanup"   -> "closing"
    [] st = "handler"   -> "handler"
    [] st = "blocks"    -> "freeing"
    [] st = "destroyed" -> "closed"
    [] st = "ub"        -> "ub"
    [] OTHER            -> "none"

\* The registrations as the client sees them: the handlers still to be called.
SlotsOf == [k \in 1..Len(todo) |-> IF todo[k].done THEN NULL ELSE todo[k].hook]

Abstract == INSTANCE AbstractPool
              WITH regions  <- given,
                   slots    <- SlotsOf,
                   phase    <- PhaseOf(status),
                   Handlers <- Hook,
                   None     <- NULL

\* Every step of the pool and of its clients is one the abstract pool allows:
\* ngx_palloc and its kin only add regions that meet no other, ngx_pfree takes
\* one region away, and ngx_destroy_pool calls the handlers in the order of
\* the nodes, newest first, each once and all before any memory is freed.
ImplementsAbstractPool == Abstract!AbsSpec
=============================================================================
