# Verification of the nginx memory pool port and of nginx 1.12.2

A TLA+ development for the two programs of this repository: the class `ngx_mem_pool`
(`src/ngx_mem_pool_x64.cpp`, `.h`, and their 32-bit twin under `src/m32/`), and the
nginx 1.12.2 kept under `src/cleanup_destructor/nginx-1.12.2/`, from which the
class was ported. The pool is modelled whole and all of its safety properties are
proved; of nginx, the parts are modelled in which several actors, failures or
timeouts meet, and the safety properties of all six are proved too. File names of
nginx are given below from its `src/` on.

## 1. The system

### The pool

A pool is a chain of equally large *small blocks*, a list of *large chunks*, and a
list of *cleanup nodes*. Large headers and cleanup nodes are themselves carved out
of the pool, so the lists live in the memory they manage. Nothing is concurrent.
What is hard is aliasing and order: which bytes belong to whom after any sequence
of calls, failures of `malloc` at every point, and client code (cleanup
handlers) that runs in the middle of the destruction and may call the pool again.

| part | state | operations | what makes it correct |
|---|---|---|---|
| layout (`.h` 26-82) | structure sizes, `NGX_ALIGNMENT`, `pool->max` | `ngx_align_ptr`, `ngx_memzero` | aligning never passes an aligned end; `size_t` differences do not wrap |
| small blocks (`.cpp` 68-132) | `d.last`, `d.end`, `d.next`, `d.failed`, `pool->current` | `ngx_palloc_small`, `ngx_palloc_block` | regions inside the block, aligned, disjoint; blocks retire at the sixth failure; short search |
| large memory (`.cpp` 135-190) | `pool->large`, `large->alloc` | `ngx_palloc_large`, `ngx_pfree` | one owner per chunk; no leak when the header cannot be allocated |
| front end (`.cpp` 32-66) | - | `ngx_palloc`, `ngx_pnalloc`, `ngx_pcalloc` | small up to `max`, large above |
| reset (`.cpp` 194-221) | all of the above | `ngx_rest_pool` | large chunks freed once, every block usable again |
| cleanup (`.cpp` 230-236, 259-289) | `pool->cleanup`, the nodes | `ngx_pool_cleanup_add`, the handler loop | every handler once, last registered first; the loop ends |
| life of the object (`.h` 89-97, 136-139; `.cpp` 3-30, 224-256) | `pool_` | constructor, `ngx_create_pool`, `ngx_destroy_pool`, destructor | nothing used before creation or after destruction, nothing left behind |
| clients (`test_main.cpp`, `cleanup_destructor/nginx_alloc.c`) | pointers they got, their own resources | calls in any order | Section 8 |

`ngx_palloc_large` and `ngx_pool_cleanup_add` call back into `ngx_palloc_small` /
`ngx_palloc` for their own structures; `ngx_destroy_pool` calls the client's
handlers; everything meets in `malloc`.

### nginx

nginx is a master process and worker processes. A worker is one event loop; it shares
memory zones with the other workers, and hands blocking file operations to
threads.

| part | state | operations | what is hard | what makes it correct |
|---|---|---|---|---|
| master cycle (`os/unix/ngx_process_cycle.c`, `ngx_process.c`) | `ngx_processes`, the signal flags, `live`, `delay`, `sigio`, `ngx_new_binary` | signal handlers, reaping and respawning, reload, upgrade, shutdown | signals merge and are handled in the order of the code; workers die and forks fail at any time | the table knows every child; no worker outlives the master; shutdowns end |
| shared memory mutex (`core/ngx_shmtx.c`) | `*lock`, `*wait`, the semaphore | `ngx_shmtx_trylock`, `lock`, `unlock`, `force_unlock`, `wakeup` | single atomic accesses interleave; a holder may die | mutual exclusion; no sleeper beside a free lock |
| slab allocator (`core/ngx_slab.c`) | page descriptors, free list, slot lists, bitmaps, statistics | `ngx_slab_alloc_locked`, `ngx_slab_free_locked` and their helpers | pointers with type bits, bitmaps inside the pages, joining of neighbours | regions disjoint and freeable; the lists say what is free |
| thread pool (`core/ngx_thread_pool.c`) | task queue, done list, `waiting`, each task's event | post, the threads' cycle, completion, destruction | threads against event loop; failing calls; exit with tasks in the queue | no task lost or doubled; its request stays blocked as long as it is in flight; exit ends |
| upstream (`http/ngx_http_upstream_round_robin.c`, keepalive module, retries of `ngx_http_upstream.c`) | peers' `conns`, `fails`, weights; tries of a request; cache of idle connections | get, free, connect, next, finalize; close of an idle connection | requests interleave between get and free; four ways to end; a cached connection may be dead | counts return to zero; each connection has one owner; retries end |
| resolver (`core/ngx_resolver.c`) | name tree, resend and expire queues, waiting contexts, timers | resolve, answer, resend, expire, timeout, cancel | late, repeated, lost and reordered answers; aliases; handlers that ask again while a list is walked | no node lost or freed in use; whoever waits is listed; a waiter always ends |

Interaction: `Slab` runs under `Shmtx` (a slab operation is therefore a step), which
the master unlocks by force for the workers that it reaps in `MasterCycle`;
`Upstream`'s peers may lie in such a zone. These interfaces are small, one lock or
one call, and each module has the neighbour's side of it: `Shmtx` has the master
that unlocks, `MasterCycle` the workers that crash, `ThreadPool` the requests that own
tasks, `Resolver` the clients' handlers.

## 2. Modules

| module | models | extends |
|---|---|---|
| `PoolLayout` | sizes, `ngx_align_ptr`, conversion to `size_t`, `pool->max` | |
| `SmallBlocks` | the chain: `ngx_palloc_small`, `ngx_palloc_block`, `malloc` | `PoolLayout` |
| `NgxMemPool` | the whole class and its clients as a state machine | `SmallBlocks` |
| `PoolProperties` | what the pool promises, and what the documents say of it | `NgxMemPool` |
| `AbstractPool` | what a client may rely on: regions, handlers, phases | |
| `PoolRefinement` | the mapping from `NgxMemPool` to `AbstractPool` | `PoolProperties` |
| `PoolInvariant` | the inductive invariants `MemoryInv`, `ChainInv`, `CleanupInv` | `PoolProperties` |
| `PoolProofs` | arithmetic; what each operation returns; types; memory safety and ownership; failure counters, search length, reset; the cleanup list, the handlers, the refinement | `PoolInvariant`, `PoolRefinement` |
| `DataLemmas` | least numbers, finite sets, sums, sequences, iterated functions | |
| `MasterCycle` | the master process, its table and its children | |
| `MasterProofs` | the table, the end of the master, the workers it leaves running | `MasterCycle`, `DataLemmas` |
| `Shmtx` | the mutex, its users, a master that unlocks by force | |
| `ShmtxProofs` | mutual exclusion, the count of the waiting, no lost wakeup | `Shmtx` |
| `Slab` | the slab allocator | |
| `SlabProofs` | what is given and can be freed, the free list, the slots | `Slab`, `DataLemmas` |
| `ThreadPool` | one thread pool, one event loop, the requests | |
| `ThreadPoolProofs` | lists, blocked requests, `waiting`, destruction | `ThreadPool`, `DataLemmas` |
| `Upstream`, `MCUpstream` | balancing, keepalive, retries; four upstream blocks | |
| `UpstreamProofs` | owners of connections, `conns`, weights, probes | `Upstream`, `DataLemmas` |
| `Resolver`, `MCResolver` | the resolver, its clients and the network; a set of answers | |
| `ResolverProofs` | nodes, waiting contexts, loops over handlers, the timer | `Resolver`, `DataLemmas` |

Definitions whose comment starts with "Mutated form of" are wrong on purpose: each
stands for a plausible slip in the definition after it and shows that some property
notices. They take no part in the specifications.

`src/m32/ngx_mem_pool.cpp` is line for line the text of `ngx_mem_pool_x64.cpp`, and
the model stands for both. The map in `PROJECT.json` points the operators at the
x64 file and the steps of clients and destructor, with a few parts of operations,
at the m32 file.

### The pool: state

* An address is a chunk and an offset in it (`Addr`). `malloc` returns chunks
  aligned to at least `NGX_ALIGNMENT`, so aligning the offset is aligning the
  address. Offsets and sizes are the real byte counts of the build: 64, 32, 16,
  24 bytes for the four structures on x64, and 32, 16, 8, 12 on m32.
* `pool.blk` is the chain by `d.next`. Each block has its chunk, `d.last` as an
  offset, and `d.failed`; `d.end` is `pool.size` for all of them, since
  `ngx_palloc_block` takes the size of the first. `pool.current` is an index.
* `pool.large` is the header list, each header with its own address and its chunk.
* `pool.cell` holds the cleanup nodes *as bytes in memory*: storing into a region
  that touches a node, `memset`ing it or freeing its chunk removes or changes
  the cell. A list that runs through reused memory is therefore modelled by what
  the memory really holds, and reading a node that is gone is `"ub"`.
* `given`, `todo` and `misrun` are history: the regions given away, the
  registrations, and whether a handler ran out of turn.
* `status` is the life of the object. While it is `"handler"` a client handler
  runs and all client steps but reset and a nested destruction are enabled.

### The pool: operations

Operations are operators from a pool to the set of their outcomes, because
`malloc` may fail at every call: `ngx_palloc_large`, for example, takes the
chunk, looks through five headers for one to reuse, else calls `ngx_palloc_small`
(which may call `ngx_palloc_block`, which ages the blocks and calls `malloc`), and
frees the chunk when that fails. An action applies one outcome of a whole call.
Only `ngx_destroy_pool` is split into steps, one for each node of the list, for
handlers to run in between: `BeginDestroy`, then `SkipHandler` / `CallHandler` /
`HandlerReturns` (or `LostNode`), `FreeLarge`, `FreeBlocks`.

Undefined behaviour is explicit. A constructor whose `malloc` failed leaves
`pool_` indeterminate, so the test of `pool_` goes either way (`Create`,
`UseFailed`); freeing a chunk twice, reading a lost node, writing a header past a
chunk that is too small, or destroying twice ends in `"ub"`. What a client may do
beyond the ordinary is chosen by `Scenarios`: `"reset"` (a reset while no cleanup
node is registered), `"reset_hooked"` (at any time), `"destroy_twice"`,
`"create_fails"`.

### nginx: how state and steps correspond

* `MasterCycle`. The master blocks its signals while the body of its loop runs, so a
  step is: deliver all pending signals to the handlers, run the body, run the top
  of the loop up to `sigsuspend`. `pending` is a set, since standard signals merge.
  Operations are operators from a master to the set of outcomes, since `fork` may
  fail. A child is a record: its state, the commands it has not read, its
  configuration. It drains, exits, crashes, hangs on SIGTERM, or cannot start (exit
  code 2) between the master's steps. The forks before the loop may fail like any
  other. `lost` is history: how many workers could not be forked or exited with
  code 2 since `ngx_start_worker_processes` was last called; a crash does not count.
* `Shmtx`. A step is one access of shared memory. `wait` is signed, as the casts in
  `ngx_shmtx_wakeup` read it. The spinning loop is repeated attempts. Crash points
  are a constant; the master's `waitpid` and `ngx_shmtx_force_unlock` are steps of
  their own.
* `Slab`. Page descriptors have the fields of `ngx_slab_page_t`, with `slab` as a tagged
  record instead of a word and bitmaps as sets. `given` is what users hold. The masks
  that are built by one shift in one word (`ngx_slab.c:342`, `:509`) are `LowBits`: a
  shift by the width of the word or more is undefined, and both what a machine that
  shifts by the rest gives and what is left when all is shifted out are possible.
* `ThreadPool`. What happens under a mutex or the spin lock is one step;
  `pthread_cond_wait` is two, and may return unsignalled. `last` pointers that point
  to `first` are `NULL`. A request that is completed may post again in its handler.
  A thread ends when it cannot lock the mutex (`left`; a failing `pthread_sigmask`,
  before its first lock, comes to the same), when its wait fails (`failed`), or when it
  cannot unlock the mutex after it took a task (`lost`, with the task). Whether a
  mutex that could not be unlocked is free is left open: all steps of the others stay
  possible, and none is bound to be taken but by fairness. Unlocks whose result the
  code does not look at are taken to succeed.
* `Upstream`. A step ends where the lock of the peers is released. `open` is the set
  of open connections, so that a second close, or a use after it, shows.
* `Resolver`. An event is a step up to the first handler; from there each handler is a
  step, and `stack` holds the loops under way, because a handler may ask for another
  name whose cached answer starts a loop within the loop. `asked` is the network:
  any answer of `Answers` to any query ever made may come at any time, again and
  again, or never. `ngx_resolve_name_locked` calls itself, as its last act, for the
  name an alias in the cache leads to: `Followed` is the chain of these calls, and
  `Located` what the last of them does. Contexts of `Untimed` have `ctx->timeout` 0
  (`resolver_timeout 0`) and never get a timer (`NeedsTimer`).

## 3. Runs

Passing:

* `memory` - all operations of the x64 build with two chunks beside the first block,
  `malloc` failing at any call, and everything a client may do wrong: resets with
  nodes registered, double destruction, a failed constructor, a pool below
  the header's size. `TypeOK`, `Disjoint`, `HeapAccounted`, `ResetReclaims`.
* `chain` - up to nine blocks, never reset: `current` moves twice. `RetiredAfterSix`,
  `ShortSearch`.
* `destroy` - up to three nodes and handlers, on the 32-bit sizes; handlers
  allocate, free, and register further nodes. The pool is so small that nodes'
  data are large memory. `HandlersRunOnce`, `NoUndefined`, `DestroyCompletes`, and
  the refinement `ImplementsAbstractPool`.
* `master` - up to three signals of any kind, two faults, from the first forks on.
  `TableTracksChildren`, `NoOrphans`, `NewestWorkersOnly` (once all is quiet, all
  workers have the newest configuration, and there are as many as configured less
  those in `lost`; so every crash has been made up for), `TerminateEnds`, `QuitEnds`.
* `shmtx` - three workers, one crash. `MutualExclusion`, `WaitersCounted`,
  `NoLostWakeup`, `LockProgress`.
* `threadpool` - two threads, three tasks, a queue of one, one failing call.
  `ListsClosed`, `BlockedInFlight` (blocked exactly while in flight, or lost with a
  thread), `WaitingCounts`, `DestroyedQuiet`, `PostedCompletes`, `DestroyEnds` (unless
  a thread has ended before its time).
* `slab` - every sequence of allocations and frees in four pages. `GivenDisjoint`,
  `FreeAccepts` (whatever was given is accepted by `ngx_slab_free`), `FreeListRight`,
  `SlotListsRight`.
* `upstream` - two requests over four upstream blocks. `ConnsCounted`,
  `ConnectionsOwned`, `WeightsBalanced`, `OneProbe`, `RequestEnds`.
* `resolver` - two names, two contexts, one of them without a timeout, an unreliable
  network. `NodesAccounted`, `WaitersListed`, `LoopsSafe`, `TimerArmed`,
  `StillAsking`, `ResolveEnds` (every context that has a timeout gets an answer or
  the timeout).

Runs that show where a document and the code part (each with its finding in
`PROJECT.json`):

* `unaligned_size` - `.h:75` says pool sizes are aligned to 16 bytes. Nothing
  aligns them, and with a size of 100, `ngx_palloc_small` grants an aligned
  request that starts past `d.end` (`WellPlaced`).
* `reset_loses_hooks` - `ngx_rest_pool` leaves `pool_->cleanup` pointing into
  memory it has taken back. A later `ngx_pcalloc` wipes a listed node and its
  handler is never called (`HandlersRunOnce`). The same stale list lets a new node
  be linked to itself, and then `ngx_destroy_pool` does not end: that is why
  `DestroyCompletes` is stated for clients that do not reset a pool with nodes.
* `master_rollback` - after SIGUSR2 and SIGWINCH the old master has no workers and
  `live` is 0. SIGHUP starts workers again (`ngx_process_cycle.c:223`) without
  setting `live`, and a SIGQUIT then makes the master exit at once while these run
  (`NoOrphans`). Run `master` leaves out this SIGHUP (`Scenarios`).

What the reading brought up besides, without a run:

* `NGX_MIN_POOL_SIZE` (`.h:77-82`) is never used: with 48 bytes the header is written
  past the chunk. `README.md:418` says all large headers are searched for a free
  one; the loop stops after five. `README.md:501-503` asks for later blocks to be rewound
  to their own, shorter header; `.cpp:215` uses the long one. A failed constructor
  leaves `pool_` uninitialised (`.h:92-94`).
* A failed upgrade leaves `ngx_new_binary` at -1, which is not 0: from then on SIGHUP
  starts workers and no longer reads the configuration. When all forks fail, `live`
  is 1 all the same and the master waits for nobody.
* A worker that dies inside `ngx_shmtx_wakeup`, or just after `sem_wait`, takes a
  wakeup with it: the next sleeper is woken only by the next unlock.
* `ngx_slab.c:341` says the "n" chunks of a bitmap are marked. They are marked by a
  shift by n in one word, which is undefined when n is the width of the word or
  more, as with pages of 64K and chunks of 8 bytes (n = 128); on x86 only chunk 0 is
  then marked, and the rest of the bitmap is given to users. With the constants of
  `slab.cfg` replaced by `PageShift = 6`, `WordBits = 8`, `MinShift = 0`,
  `Sizes = {1}`, TLC finds `FreeAccepts` violated by
  the first allocation, whose chunk is not marked, and `GivenDisjoint` by the second,
  which gets a chunk of the bitmap.
* A failing `pthread_cond_signal` leaves the task active and not queued, and a failing
  `pthread_cond_wait` leaves `waiting` one too low and the destruction without
  the thread it waits for; a thread that cannot unlock the mutex takes a task with it,
  whose request stays blocked; a full queue refuses the exit task. The properties of
  `ThreadPool` say what still holds then.
* A resolver answer of no use leaves waiting contexts to their own timers, and those
  without a timeout waiting until the query is answered or sent again. A name for which
  no query can be made is NXDOMAIN at once (`ngx_resolver.c:828-845`). Whether an empty AAAA answer comes before
  or after an A answer with an alias decides between following it and NXDOMAIN.
* With a single server a request gives itself a new try for every cached connection
  that fails; `RequestEnds` is therefore stated for groups of several.

## 4. Bounds

* `MaxChunks` - chunks malloc'ed at a time (2 to 9). Beyond it `malloc` fails, which
  it may at any call anyway. Three chunks allow for a new block next to a large
  chunk, two large chunks, and a header that needs a new block; nine is what it
  takes for `current` to leave two blocks.
* `MaxNodes`, `Hook` - cleanup nodes and handlers: three suffice for a list whose
  middle element is neither first nor last.
* Request and pool sizes fall on both sides of `max`, leave gaps to align, and leave
  a block with room for the one but not the other. `SizeMax = 65536` stands for
  2^64 (2^32): any number far above all offsets gives the same wraps. `malloc` returns
  the lowest free chunk; a choice among unused chunks changes names only.
* `master`: one worker configured, because what matters is old against new workers,
  and a reload makes two generations; three signals allow reload and upgrade
  before a shutdown, or two of a kind; two faults a crash and a failed respawn.
* `shmtx`: three workers are a holder, one that sleeps and one that comes between.
* `threadpool`: three tasks are one running on each thread and one that waits, which
  fills the queue.
* `slab`: pages of 16 bytes and words of 4 bits give one size of chunks of each kind;
  four pages allow a join on both sides. With at most 5 allocations held, pages of
  exact and big chunks fill; a page of small chunks does not.
* `upstream`: a block with a backup, two servers of unequal weight, one of two
  down, and a single server; one place in the cache, so that saving a second
  connection evicts the first; two seconds of time with `fail_timeout` 0.
* `resolver`: two names that may be aliases of each other reach the recursion limit
  (1 instead of 50); one further name that cannot be queried; handlers nest twice, and
  those of one loop ask up to `MaxAsks` = 2 times; one context is `Untimed`;
  three seconds of time cover resend, expiry and validity; one fault.

Deadlock is checked in all runs but `threadpool`, where a worker that gave up its
exit, or has destroyed the pool, really stops.

## 5. Fairness

* `FairSpec` (pool): weak fairness of `DestroyStep`. The destructor is straight-line
  code on the one thread there is, and handlers are assumed to return after
  finitely many calls. Client steps have no fairness.
* `MasterFairSpec`: the kernel delivers signals and the timer, and what was killed or
  drains ends. A worker need not react to SIGTERM; no signal need be sent.
* `ShmtxFairSpec`: processes that are not idle go on, and the master reaps the dead.
* `ThreadPoolFairSpec`: threads and event loop are scheduled and get the mutex in the
  end; files are read in finite time. Nobody has to post, and the library's calls need not fail or succeed.
* `UpstreamFairSpec`: a request that is under way moves on; the code has a timeout for
  each wait for a server.
* `ResolverFairSpec`: handlers return, and a context's timer that has expired is come
  to, strongly fair because handlers of other events run in between. Nothing makes
  a server answer, and nothing bounds repeated answers.

## 6. Proofs

Each theorem holds for all values of the constants that satisfy the assumptions of the
module; where it needs more, that is a named hypothesis of the theorem. Every
invariant below was first checked by TLC on the instance of the component's run.

The pool's assumptions are `LayoutAssumption` (what the compilers of both builds
give: alignment 4 or 8, headers that are multiples of it, room for a large
header in the difference between the two block headers), `ChunksAssumption` and
`SizesAssumption` (naturals).

* `TypeCorrect`: `Spec => []TypeOK`, for every pool and request size. The only
  conjunct with content is that `current` stays on the chain.
* `MemorySafe`, `NoLeakNoDoubleFree`: under `SoundSizes` (pool sizes aligned, not
  below the header, below `SizeMax`: what `.h:75-82` asks for),
  `Spec => [](WellPlaced /\ Disjoint /\ GivenLive)` and `Spec => []HeapAccounted`,
  in all scenarios, misuse included. `unaligned_size` shows that the assumption is
  needed.
* `RetiredCorrect`: `Spec => []RetiredAfterSix`, for all sizes and scenarios.
* `ShortSearchCorrect`: without resets `Spec => []ShortSearch`.
* `ResetReclaimsAll`: under `SoundSizes` `Spec => ResetReclaims`, an action property.
* `NothingUndefined`, `HandlersCorrect`, `PoolImplementsAbstract`: under `SoundSizes`
  and `CarefulClient` (no reset with nodes registered, no second destruction, no use
  of an object whose creation failed), `Spec => []NoUndefined`,
  `Spec => []HandlersRunOnce` and `Spec => ImplementsAbstractPool`.
  `reset_loses_hooks` shows that the first is needed; the second and third
  are undefined behaviour of the client's making.

The mutex, for any finite set of workers and any number of crashes:

* `LockExcludes`: `ShmtxSpec => []MutualExclusion`, wherever workers crash.
* `WaitersAccounted`: `ShmtxSpec => []WaitersCounted` unless a worker dies between
  lowering `wait` and `sem_post`. `NoSleeperForgotten`: `ShmtxSpec => []NoLostWakeup`
  unless one dies in `ngx_shmtx_wakeup` or between `sem_wait` and its next attempt. A
  crash there does lose a wakeup (Section 3).

The upstream, for any set of blocks, peers and requests (`ConfigsAssumption`: a
group of servers and perhaps one of backups, not empty and without a common peer;
weights and limits are naturals):

* `OneOwner`, `ConnsRight`, `ProbesApart`, `WeightsKept`:
  `UpstreamSpec => []ConnectionsOwned`, `[]ConnsCounted`, `[]OneProbe`,
  `[]WeightsBalanced`.

The thread pool, for any finite sets of threads and tasks:

* `ListsStayClosed`, `TasksKept`, `WaitingRight`, `DestroyedLast`:
  `ThreadPoolSpec => []ListsClosed`, `[]BlockedInFlight`, `[]WaitingCounts`,
  `[]DestroyedQuiet`, failing calls of the thread library included: lock, unlock, wait,
  signal and notification.

The master, for any number of workers, signals and faults:

* `ChildrenTracked`: `MasterSpec => []TableTracksChildren`, in all scenarios.
* `NobodyOrphaned`: `MasterSpec => []NoOrphans` unless an upgrade is rolled back;
  `master_rollback` is the counterexample with it.
* `OnlyNewestWorkers`: `MasterSpec => []NewestWorkersOnly`, in all scenarios and
  after any number of crashes.

The slab allocator, for any number of pages, any size of page, word and smallest chunk
that is a power of two (`SlabAssumption`: a page has at most 2^16 bytes, so that a
shift fits in `NGX_SLAB_SHIFT_MASK`, a word at least two bits and no more than a page
has bytes), and any sizes asked for, under `OneWord`: no bitmap takes as many chunks
as a word has bits. With `min_shift` 3 that is pages of 4K to 16K on 64 bits (n is at
most 32) and of 4K and 8K on 32 bits (n is at most 16); it is not pages of 64K, and
Section 3 has an instance that shows that the hypothesis is needed:

* `SlabGivenDisjoint`, `SlabFreeAccepts`, `SlabFreeListRight`, `SlabSlotListsRight`:
  under `OneWord`, `SlabSpec => []GivenDisjoint`, `[]FreeAccepts`, `[]FreeListRight`,
  `[]SlotListsRight`.

The resolver, for any names, contexts with and without timeouts, and answers, all time limits, any depth of nested
requests and any number of faults (`ResolverAssumption`: the resend timeout is not
zero, and names that can be queried are not among those that cannot):

* `ResolverNodesAccounted`, `ResolverWaitersListed`, `ResolverLoopsSafe`,
  `ResolverTimerArmed`, `ResolverStillAsking`: `ResolverSpec => []NodesAccounted`,
  `[]WaitersListed`, `[]LoopsSafe`, `[]TimerArmed`, `[]StillAsking`.

**The memory argument.** `Disjoint` is not inductive: it says nothing of where the
next region goes. `Sound(s, g, loose)` adds that every region given away lies
below its block's `d.last` (`Placed`), that `d.last` never passes the end
(`Filled`), that a large chunk is one region, and that the heap is the disjoint
union of the blocks' chunks, the headers' chunks and `loose` (`Owned`). `loose`
is what makes it inductive through the *inside* of a call: `ngx_palloc_large`
holds a chunk no list knows of while it allocates the header, so the lemmas for
`ngx_palloc_small` are stated for any `loose`, and those for the whole call begin
and end with none. `RoomIs` is the arithmetic heart: in a sound pool the aligned
start stays at or below an aligned `d.end`, so the `size_t` difference does not wrap.
`SmallFits` shows that a request let through by `max` fits a new block.

**The chain argument.** That retired blocks have failed exactly six times needs that
counters never rise along the chain from `current` on: the loop's last `failed > 4`
block decides where `current` goes, and every block before it must be exhausted as
well. `Lockstep`, that without resets the counter of a block is the number of
blocks added behind its successor, gives the bound of the search. After a reset all
counters are zero and the chain is long, so there the search is not bounded.

**The cleanup argument.** The list of handlers lies in the memory it belongs to, so
`CleanupInv` says three things at once: that the bytes of every node still to be
visited are a region given to the list and to nobody else (`Listed`, which with
`Disjoint` and `HeapAccounted` keeps clients and handlers off them), that the nodes
are linked in the order of registration, and that `it` has passed exactly those whose
handlers have run (`Passed`). That a handler may call the pool is the hard case: it
may push nodes in front of the list while `it` points into the middle. The
refinement needs no invariant beyond these; each step of the code is matched with a step
of `AbstractPool`, the steps inside the destructor with none.

**Layout of the pool's proofs.** `PoolProofs` turns every record update into "these fields change, to this,
and nothing else does" (`SameBut`) and every operation into its cases
(`SmallOutcome`, `LargeOutcome`, ...). For each invariant there is one lemma per
operation over these cases, then one step of the step lemma per action.

**The lock argument.** `MutualExclusion` alone is not inductive: it must be known that
the lock carries the pid of whoever is inside (`LockInv`). A step that enters writes
its own pid into a lock that was free; the master's forced unlock compares the lock
with the pid of a process that is dead, and the dead are not inside; a crash only
leaves the lock with a pid that nobody alive has.

**The waiting argument.** `WaitersCounted` compares sums over all processes with two
shared words; each step of a process is shown to change both sides alike (`Balance`),
and a crash to leave at most one wakeup too many. `NoLostWakeup` follows from
`SleepersServed`, which is stronger: beside a free lock a sleeper has a unit in
the semaphore, or somebody who is on the way through `ngx_shmtx_wakeup` or about to try the
lock. The worker that announces itself and looks again is not counted on, and need
not be.

**The ownership argument.** `UpstreamInv` sees the connections as a function from owners
(a request, a place of the cache) to connections and says that it is one to one and onto
those that are open (`Owns`); every step then is one of a few changes of that
function (`Leaves`, a connection moved, saved, evicted, closed). `ConnsCounted`
counts requests by peer; the steps `Gives` and `GivesBack` change one peer by one. For
`OneProbe` the point is that `checked` never moves back and is moved by
the one who probes (`ProbeInv`). `WeightsBalanced` is a sum over a group: a choice adds
the effective weights of the eligible and subtracts their total from the best.

**The list argument.** In the thread pool a list is a chain through `next` fields that
threads and event loop write. `ThreadPoolInv` says that *there are* sequences, one
for the queue, one for what is done, one for what is being delivered, without a
common or repeated task, of which the `next` fields and the `first` and `last`
pointers are the picture (`Placed`); every operation is then an operation on
sequences. `Owned` ties each task to the one list or thread that has it, `Waits` the
counter to the queue and to the threads ready for it, and `Leaving` the number of exit
tasks posted so far to the threads that have exited. `DestroyedQuiet` rests on the
last: nothing is queued behind an exit task.

**The table argument.** `Tracked` says that slots and processes correspond: no
process has two slots, whoever can still be waited for has one, and a slot marked
`exited` is that of a process that is gone; the last is what allows
`ngx_reap_children` to give a slot away. `Alike(s, t)` is the common shape of the
steps that leave every process in its slot (handlers, commands, flags, the steps of
children), and only forking and reaping need arguments of their own.
`ngx_reap_children` recomputes `live` from nothing, slot by slot, while it respawns,
vacates and shortens the table: `Left(s, i)` says that after `i` slots, if `live` is
still unset, the workers that are left have slots behind `i`. `NobodyOrphaned` then needs
`Holding` (if `live` is unset no worker is left) at every step, which all places that start workers
keep because they set `live`, except the one for a rollback (`NoRollback`).

**The argument for the newest workers.** `NewestWorkersOnly` speaks of the quiet
moments; what is true at all times is about the workers that *serve*, those that run
and have no command to go in their box: they have the newest configuration
(`Newest`), whoever is marked `exiting` is not one of them (`Going`), `just_spawn`,
which spares the new ones while the old are told to go, does not outlive the
reconfiguration (`Settled`), and unless a flag says that the master does without
workers there are as many as configured, less those in `lost` (`Manned`). The last must hold in the middle of a
round of the loop, where a dead worker is replaced before the old ones are told to go.

**The page argument.** In the slab allocator what a page is follows from its own
descriptor and those of its block. `Layout` says that blocks tile the pages and that no
two free ones are neighbours; `Marks` what `next` and `prev` hold in pages that are on no
list, in particular that the last page of a free block leads to its first, which is all
that `ngx_slab_free_pages` looks at before it joins with the block before; `GivenRight`
that every region held is a block of pages or a chunk whose bit is set, and that no
two have the same address; `CountsRight` what the counters count. The
lists are described without walking along them: each listed page has a home, which its
content determines (`Home`), its neighbours on the list have the same one and point
back, and some ranks grow from a page to the next (`Chain`). Unlinking, pushing and
replacing a page keep that, with a new rank for that page at most; and that the walks
of the code and of the properties meet exactly the pages of a home is `ListPath`: as
the ranks grow no page is met twice. Both joins, the split and the three kinds of chunk pages are then
changes of a few descriptors.

**The halfway argument.** The functions of the resolver work on states in which a node
has left its queue and is in no other yet, is answered but still has a list, or
has left the tree, and contexts have left one list and are not in the next.
`Good(x, W, H)` is the invariant with the nodes of `W` in work and the contexts of `H`
in hand: what is demanded of nodes outside `W` and contexts outside `H` is all that the
properties say and more. One lemma for each elementary change (`TakeUp`,
`Dequeue`, `MoveResend`, `Uproot`, `Release`, `TakeList`, `JoinList`, `BeginLoop`, ...)
says how `W` and `H` change, the lemmas about the functions are their chains, and each
step of the resolver starts and ends with both empty. Three strengthenings matter.
A node that a loop over handlers uses and does not free (`Held`) is in the expire queue and
has neither expired nor become invalid at the present time; as time stands still while
handlers run, `ngx_resolver_expire`, which they all end in, cannot take it, and a
request for its name is answered from the cache. A node that waits to be sent again
is not valid, so that no such request meets it there. And the resend queue is sorted by
time (`Sorted`), so the timer, set for its end, is early enough for all.

**Induction over data.** Loops of the code are recursive functions in the model, and sums
are the folds of the community modules. What they compute is proved by the least
counterexample: `LeastNat` gives the smallest index at which a claim fails, and
`FiniteInduction` the smallest finite set. That a recursive function
exists at all, which the provers do not know, is shown in the same way, by
extending a function on `0..n` by one (`SignalsExist`, `StartingExists`,
`ReapingExists`, and in general `Iterates`).

## 7. Checked by TLC only

Liveness (`DestroyCompletes`, `TerminateEnds`, `QuitEnds`, `LockProgress`,
`PostedCompletes`, `DestroyEnds`, `RequestEnds`, `ResolveEnds`) is outside the prover's
reach: it needs fairness and `ENABLED`. These properties are model-checked, on the
instances of Section 4. Every invariant, action property and refinement that
a passing run checks is also proved.

## 8. Not modelled

The pool:

* Bytes other than cleanup nodes: client data are opaque. Large headers are never
  overwritten while listed (proved: `Disjoint` covers them). `c->data` is only
  passed on.
* The address casts of `ngx_align_ptr`; in `m32/ngx_mem_pool.h:65` they go through
  `unsigned int`, which on 64 bits cuts the address (`core_file/README.md`).
* A second call of the public `ngx_create_pool` on one object.
* The programs `test_main.cpp` and `nginx_alloc.c`, with the results they do not
  test. Their calls are client steps of the model.

Of the nginx parts that are modelled:

* `MasterCycle`: the channels between siblings, cache manager and loader processes,
  pid files, reading of the configuration, single-process mode.
* `Shmtx`: the build without atomic operations (file locks).
* `Slab`: frees of addresses that were never given, which the code reports and
  ignores; the counters `reqs` and `fails`; what a forced unlock leaves of a slab
  operation that was under way.
* `ThreadPool`: threads that write files, several pools, the configuration.
* `Upstream`: what is sent and received, caching, SSL, `next_upstream_tries` and its
  timeout, the other balancers.
* `Resolver`: addresses (PTR) and services (SRV), TCP, several addresses in an
  answer, times to live (all are `Valid`), collisions of identifiers, handlers that cancel
  another context of the loop that runs them.

The rest of nginx, by far the largest part of the 167,000 lines in the repository: HTTP,
mail and stream protocol handling, configuration directives, parsers, filters and
output chains, variables, SSL, event modules and ports to operating systems. It is
third-party code, of which nothing is called by the port, and most of it transforms data within one
event of one process: its state machines are parsers, and a model of them would
repeat the code. `ngx_palloc.c` itself is the original of the port, operation for operation;
its extra operations are system calls.

## 9. Plan

1. *Channels*: the messages by which workers learn of each other's slots, over
   `MasterCycle`.
2. *Open file cache and shared zones of limits* (`ngx_open_file_cache.c`,
   `ngx_http_limit_conn_module.c`): reference counts across cleanup handlers.
3. *Resolver*: addresses (PTR) and services (SRV), whose trees and queues have the same
   shape as those of the names; `Good` and its lemmas carry over.
