-------------------------------- MODULE Shmtx --------------------------------
(***************************************************************************)
(* The mutex of shared memory zones (core/ngx_shmtx.c, with atomic         *)
(* operations and POSIX semaphores), the workers that use it, and the      *)
(* master that unlocks it for a worker that died (os/unix/ngx_process.c).  *)
(*                                                                         *)
(* Each step is one atomic access of shared memory:                        *)
(*   lock, wait, sem   *mtx->lock (0 or a pid), *mtx->wait, the semaphore; *)
(*                     wait is signed: it may be -1 for a while            *)
(*   pc, seen          where each process is, and its local copy of wait   *)
(*   crashes           how many workers have crashed                       *)
(* "read lock, compare and set" is one step: when either of the two fails  *)
(* the step fails, and only the second one changes anything.               *)
(***************************************************************************)
EXTENDS Integers, FiniteSets

CONSTANTS
  Worker,       \* worker processes
  Master,       \* the master process
  Nobody,       \* lock = 0
  CrashPoints,  \* the points at which a worker may crash
  MaxCrashes    \* bound: how many do

Points == {"idle", "try", "announce", "recheck", "sleep", "undo", "cs",
           "read", "cas", "post", "dead"}

ASSUME ShmtxAssumption ==
  /\ IsFiniteSet(Worker) /\ Master \notin Worker /\ Nobody \notin Worker \cup {Master}
  /\ CrashPoints \subseteq Points \ {"dead"} /\ MaxCrashes \in Nat

VARIABLES lock, wait, sem, pc, seen, crashes

shmtxVars == <<lock, wait, sem, pc, seen, crashes>>

Process == Worker \cup {Master}

Goto(p, from, to) == pc[p] = from /\ pc' = [pc EXCEPT ![p] = to]

\* *mtx->lock == 0 && ngx_atomic_cmp_set(mtx->lock, 0, ngx_pid)
Acquire(p) == lock = Nobody /\ lock' = p

-----------------------------------------------------------------------------
(* ngx_shmtx_trylock, ngx_shmtx_lock                                       *)

TryLock(p) ==
  /\ Goto(p, "idle", "cs") /\ Acquire(p)
  /\ UNCHANGED <<wait, sem, seen, crashes>>

Enter(p) ==
  /\ Goto(p, "idle", "try")
  /\ UNCHANGED <<lock, wait, sem, seen, crashes>>

\* The first attempt, or one of those while spinning.
Try(p) ==
  /\ Goto(p, "try", "cs") /\ Acquire(p)
  /\ UNCHANGED <<wait, sem, seen, crashes>>

\* The last attempt while spinning has failed.
GiveUpSpinning(p) ==
  /\ lock # Nobody /\ Goto(p, "try", "announce")
  /\ UNCHANGED <<lock, wait, sem, seen, crashes>>

\* ngx_atomic_fetch_add(mtx->wait, 1)
Announce(p) ==
  /\ Goto(p, "announce", "recheck") /\ wait' = wait + 1
  /\ UNCHANGED <<lock, sem, seen, crashes>>

\* Mutated form of Recheck: the lock is not looked at again before sem_wait.
Recheck_skip(p) ==
  /\ Goto(p, "recheck", "sleep")
  /\ UNCHANGED <<lock, wait, sem, seen, crashes>>

\* The lock is looked at once more after wait was raised.
Recheck(p) ==
  /\ \/ Acquire(p) /\ Goto(p, "recheck", "undo")
     \/ lock # Nobody /\ Goto(p, "recheck", "sleep") /\ UNCHANGED lock
  /\ UNCHANGED <<wait, sem, seen, crashes>>

\* Mutated form of Undo: wait is not lowered again.
Undo_forgotten(p) ==
  /\ Goto(p, "undo", "cs") /\ UNCHANGED wait
  /\ UNCHANGED <<lock, sem, seen, crashes>>

\* ngx_atomic_fetch_add(mtx->wait, -1)
Undo(p) ==
  /\ Goto(p, "undo", "cs") /\ wait' = wait - 1
  /\ UNCHANGED <<lock, sem, seen, crashes>>

\* sem_wait returns (EINTR makes it start again), and the loop does too.
Awake(p) ==
  /\ sem > 0 /\ sem' = sem - 1 /\ Goto(p, "sleep", "try")
  /\ UNCHANGED <<lock, wait, seen, crashes>>

-----------------------------------------------------------------------------
(* ngx_shmtx_unlock, ngx_shmtx_wakeup                                      *)

Unlock(p) ==
  /\ lock = p /\ Goto(p, "cs", "read") /\ lock' = Nobody
  /\ UNCHANGED <<wait, sem, seen, crashes>>

\* wait = *mtx->wait; nobody to wake?
ReadWait(p) ==
  /\ Goto(p, "read", IF wait <= 0 THEN "idle" ELSE "cas")
  /\ seen' = [seen EXCEPT ![p] = IF wait <= 0 THEN 0 ELSE wait]
  /\ UNCHANGED <<lock, wait, sem, crashes>>

\* ngx_atomic_cmp_set(mtx->wait, wait, wait - 1), else once more.
LowerWait(p) ==
  /\ \/ wait = seen[p] /\ wait' = wait - 1 /\ Goto(p, "cas", "post")
     \/ wait # seen[p] /\ UNCHANGED wait /\ Goto(p, "cas", "read")
  /\ seen' = [seen EXCEPT ![p] = 0]
  /\ UNCHANGED <<lock, sem, crashes>>

Post(p) ==
  /\ Goto(p, "post", "idle") /\ sem' = sem + 1
  /\ UNCHANGED <<lock, wait, seen, crashes>>

-----------------------------------------------------------------------------
(* Death of a worker.                                                      *)

Crash(p) ==
  /\ pc[p] \in CrashPoints /\ crashes < MaxCrashes
  /\ pc' = [pc EXCEPT ![p] = "dead"] /\ seen' = [seen EXCEPT ![p] = 0]
  /\ crashes' = crashes + 1
  /\ UNCHANGED <<lock, wait, sem>>

\* Mutated form of ForceUnlock: the lock is released whoever holds it.
ForceUnlock_any(p) ==
  /\ pc[Master] = "idle" /\ pc[p] = "dead"
  /\ pc' = [pc EXCEPT ![p] = "idle", ![Master] = "read"] /\ lock' = Nobody
  /\ UNCHANGED <<wait, sem, seen, crashes>>

\* Mutated form of ForceUnlock: the master only waits for the dead worker.
ForceUnlock_never(p) ==
  /\ pc[Master] = "idle" /\ pc[p] = "dead"
  /\ UNCHANGED shmtxVars

\* ngx_process_get_status calls ngx_shmtx_force_unlock for the pid it has
\* waited for; then another worker takes the dead one's place.
ForceUnlock(p) ==
  /\ pc[Master] = "idle" /\ pc[p] = "dead"
  /\ \/ /\ lock = p /\ lock' = Nobody
        /\ pc' = [pc EXCEPT ![p] = "idle", ![Master] = "read"]
     \/ /\ lock # p /\ UNCHANGED lock
        /\ pc' = [pc EXCEPT ![p] = "idle"]
  /\ UNCHANGED <<wait, sem, seen, crashes>>

-----------------------------------------------------------------------------
ShmtxInit ==
  /\ lock = Nobody /\ wait = 0 /\ sem = 0 /\ crashes = 0
  /\ pc = [p \in Process |-> "idle"] /\ seen = [p \in Process |-> 0]

Wakeup(p) == ReadWait(p) \/ LowerWait(p) \/ Post(p)

\* The steps of a worker inside ngx_shmtx_lock and ngx_shmtx_unlock.
Inside(p) ==
  \/ Try(p) \/ GiveUpSpinning(p) \/ Announce(p) \/ Recheck(p) \/ Undo(p)
  \/ Awake(p) \/ Unlock(p) \/ Wakeup(p)

ShmtxNext ==
  \/ \E p \in Worker : \/ TryLock(p) \/ Enter(p) \/ Inside(p)
                       \/ Crash(p) \/ ForceUnlock(p)
  \/ Wakeup(Master)

ShmtxSpec == ShmtxInit /\ [][ShmtxNext]_shmtxVars

\* Every process goes on: critical sections end, dead workers are waited for.
\* Nothing makes a worker ask for the lock.
ShmtxFairSpec ==
  /\ ShmtxSpec
  /\ \A p \in Worker : WF_shmtxVars(Inside(p)) /\ WF_shmtxVars(ForceUnlock(p))
  /\ WF_shmtxVars(Wakeup(Master))

-----------------------------------------------------------------------------
(* Properties.                                                             *)

Holds(p) == pc[p] \in {"undo", "cs"}

\* At most one process is inside, and the lock carries its pid, so that a
\* force unlock for another dead worker cannot let a second one in.
MutualExclusion ==
  \A p \in Process : Holds(p) =>
    lock = p /\ \A q \in Process : Holds(q) => q = p

Count(points) == Cardinality({p \in Process : pc[p] \in points})

\* Semaphore and counter together know of everyone who announced to sleep:
\* whoever finds the lock free after all takes back a wakeup already on its
\* way by leaving wait at -1.  A worker that crashed may be counted still.
WaitersCounted ==
  /\ wait + sem + Count({"post"}) >= Count({"recheck", "sleep", "undo"})
  /\ wait + sem + Count({"post"}) <= Count({"recheck", "sleep", "undo"}) + crashes

\* Nobody sleeps beside a free lock unless someone is on the way to wake him
\* or to take the lock and wake him afterwards.
NoLostWakeup ==
  lock = Nobody /\ sem = 0 /\ Count({"sleep"}) > 0 =>
    Count({"read", "cas", "post", "recheck", "announce", "try"}) > 0

\* The lock is taken over and over: as long as some worker waits for it, some
\* worker gets it, though holders crash.
LockProgress ==
  (\E p \in Worker : pc[p] \in {"try", "announce", "recheck", "sleep"})
    ~> (\E p \in Worker : Holds(p)) \/ (\A p \in Worker : pc[p] \in {"idle", "dead"})
=============================================================================
