---------------------------- MODULE ShmtxProofs ----------------------------
(***************************************************************************)
(* The shared memory mutex for any number of workers and crashes.          *)
(* MutualExclusion: a process inside has its pid in the lock, and the      *)
(* master never is inside.  WaitersCounted: the words of the semaphore     *)
(* change against what a step moves.  NoLostWakeup: from both.             *)
(***************************************************************************)
EXTENDS Shmtx, FiniteSetTheorems, TLAPS

\* The inductive invariant: what MutualExclusion says of the lock, and the type
\* of pc, without which its updates say nothing.
LockInv ==
  /\ pc \in [Process -> Points]
  /\ \A p \in Process : Holds(p) => lock = p

\* Initially nobody is inside.
LEMMA LockInvInit == ShmtxInit => LockInv
BY DEF ShmtxInit, LockInv, Points, Holds

\* A step of p that leaves the lock alone and leads to a point outside.
LEMMA StepOutside ==
  ASSUME LockInv, NEW p \in Process, NEW from, NEW to \in Points \ {"undo", "cs"},
         Goto(p, from, to), UNCHANGED lock
  PROVE  LockInv'
BY DEF LockInv, Goto, Holds

\* A step of p that takes the free lock: nobody else was inside.
LEMMA StepAcquire ==
  ASSUME LockInv, NEW p \in Process, NEW from, NEW to \in Points,
         Goto(p, from, to), Acquire(p)
  PROVE  LockInv'
BY ShmtxAssumption DEF LockInv, Goto, Holds, Acquire, Process

\* ngx_shmtx_wakeup never touches the lock.
LEMMA StepWakeup ==
  ASSUME LockInv, NEW p \in Process, Wakeup(p)
  PROVE  LockInv'
<1>1. CASE ReadWait(p)
  <2>1. (IF wait <= 0 THEN "idle" ELSE "cas") \in Points \ {"undo", "cs"}
    BY DEF Points
  <2>2. QED BY <1>1, <2>1, StepOutside DEF ReadWait
<1>2. CASE LowerWait(p)
  <2>1. {"post", "read"} \subseteq Points \ {"undo", "cs"}
    BY DEF Points
  <2>2. UNCHANGED lock /\ (Goto(p, "cas", "post") \/ Goto(p, "cas", "read"))
    BY <1>2 DEF LowerWait
  <2>3. QED BY <2>1, <2>2, StepOutside
<1>3. CASE Post(p)
  <2>1. "idle" \in Points \ {"undo", "cs"}
    BY DEF Points
  <2>2. QED BY <1>3, <2>1, StepOutside DEF Post
<1>4. QED BY <1>1, <1>2, <1>3 DEF Wakeup

\* The steps of ngx_shmtx_lock and ngx_shmtx_unlock.
LEMMA StepInside ==
  ASSUME LockInv, NEW p \in Worker, Inside(p)
  PROVE  LockInv'
<1>0. /\ p \in Process /\ "cs" \in Points /\ "undo" \in Points
      /\ {"announce", "recheck", "sleep", "try", "read"} \subseteq Points \ {"undo", "cs"}
  BY DEF Process, Points
<1>1. CASE Try(p)
  BY <1>0, <1>1, StepAcquire DEF Try
<1>2. CASE GiveUpSpinning(p)
  BY <1>0, <1>2, StepOutside DEF GiveUpSpinning
<1>3. CASE Announce(p)
  BY <1>0, <1>3, StepOutside DEF Announce
<1>4. CASE Recheck(p)
  <2>1. CASE Acquire(p) /\ Goto(p, "recheck", "undo")
    BY <1>0, <2>1, StepAcquire
  <2>2. CASE Goto(p, "recheck", "sleep") /\ UNCHANGED lock
    BY <1>0, <2>2, StepOutside
  <2>3. QED BY <1>4, <2>1, <2>2 DEF Recheck
<1>5. CASE Undo(p)
  \* p was inside already
  BY <1>0, <1>5 DEF Undo, Goto, LockInv, Holds
<1>6. CASE Awake(p)
  BY <1>0, <1>6, StepOutside DEF Awake
<1>7. CASE Unlock(p)
  \* the lock carried p's pid, so nobody but p was inside
  BY <1>0, <1>7 DEF Unlock, Goto, LockInv, Holds
<1>8. CASE Wakeup(p)
  BY <1>0, <1>8, StepWakeup
<1>9. QED
  BY <1>1, <1>2, <1>3, <1>4, <1>5, <1>6, <1>7, <1>8 DEF Inside

\* The death of a worker, and the master unlocking for the pid it waited for.
LEMMA StepDeath ==
  ASSUME LockInv, NEW p \in Worker, Crash(p) \/ ForceUnlock(p)
  PROVE  LockInv'
<1>0. /\ p \in Process /\ Master \in Process /\ p # Master
      /\ {"dead", "idle", "read"} \subseteq Points \ {"undo", "cs"}
  BY ShmtxAssumption DEF Process, Points
<1>1. CASE Crash(p)
  BY <1>0, <1>1 DEF Crash, LockInv, Holds
<1>2. CASE lock = p /\ lock' = Nobody /\ pc[p] = "dead"
           /\ pc' = [pc EXCEPT ![p] = "idle", ![Master] = "read"]
  <2>1. pc' \in [Process -> Points]
    BY <1>0, <1>2 DEF LockInv
  <2>2. ASSUME NEW q \in Process, Holds(q)' PROVE FALSE
    <3>1. q # p /\ q # Master /\ Holds(q)
      BY <1>0, <1>2, <2>2 DEF LockInv, Holds
    <3>2. QED BY <1>2, <3>1 DEF LockInv
  <2>3. QED BY <2>1, <2>2 DEF LockInv
<1>3. CASE UNCHANGED lock /\ pc' = [pc EXCEPT ![p] = "idle"]
  BY <1>0, <1>3 DEF LockInv, Holds
<1>4. QED BY <1>1, <1>2, <1>3 DEF ForceUnlock

\* Every step keeps the invariant.
LEMMA LockInvStep == LockInv /\ [ShmtxNext]_shmtxVars => LockInv'
<1> SUFFICES ASSUME LockInv, [ShmtxNext]_shmtxVars PROVE LockInv'
  OBVIOUS
<1>1. CASE UNCHANGED shmtxVars
  BY <1>1 DEF shmtxVars, LockInv, Holds
<1>2. ASSUME NEW p \in Worker, TryLock(p) PROVE LockInv'
  <2>1. p \in Process /\ "cs" \in Points
    BY DEF Process, Points
  <2>2. QED BY <1>2, <2>1, StepAcquire DEF TryLock
<1>3. ASSUME NEW p \in Worker, Enter(p) PROVE LockInv'
  <2>1. p \in Process /\ "try" \in Points \ {"undo", "cs"}
    BY DEF Process, Points
  <2>2. QED BY <1>3, <2>1, StepOutside DEF Enter
<1>4. ASSUME NEW p \in Worker, Inside(p) PROVE LockInv'
  BY <1>4, StepInside
<1>5. ASSUME NEW p \in Worker, Crash(p) \/ ForceUnlock(p) PROVE LockInv'
  BY <1>5, StepDeath
<1>6. CASE Wakeup(Master)
  <2>1. Master \in Process
    BY DEF Process
  <2>2. QED BY <1>6, <2>1, StepWakeup
<1>7. QED BY <1>1, <1>2, <1>3, <1>4, <1>5, <1>6 DEF ShmtxNext

\* For any number of workers that crash anywhere, any number of times, at most
\* one process is inside a mutex of core/ngx_shmtx.c at a time, and the lock has
\* its pid: ngx_shmtx_force_unlock for a dead worker lets nobody in beside it.
THEOREM LockExcludes == ShmtxSpec => []MutualExclusion
<1>1. ShmtxInit => LockInv
  BY LockInvInit
<1>2. LockInv /\ [ShmtxNext]_shmtxVars => LockInv'
  BY LockInvStep
<1>3. LockInv => MutualExclusion
  BY DEF LockInv, MutualExclusion
<1>4. QED BY <1>1, <1>2, <1>3, PTL DEF ShmtxSpec

-----------------------------------------------------------------------------
(***************************************************************************)
(* The count of those who announced to sleep.  A step moves one process    *)
(* from one point to another, so every Count changes by what that process  *)
(* contributes to it before and after.                                     *)
(***************************************************************************)

\* What a process at point x contributes to Count(S).
One(x, S) == IF x \in S THEN 1 ELSE 0

\* There are finitely many processes.
LEMMA ProcessFinite == IsFiniteSet(Process)
BY ShmtxAssumption, FS_AddElement DEF Process

\* Counts are natural numbers, and 0 only if nobody is there.
LEMMA CountType ==
  ASSUME NEW S
  PROVE  Count(S) \in Nat /\ (Count(S) > 0 <=> \E p \in Process : pc[p] \in S)
<1> DEFINE A == {p \in Process : pc[p] \in S}
<1>1. IsFiniteSet(A)
  BY ProcessFinite, FS_Subset
<1>2. Cardinality(A) \in Nat /\ (Cardinality(A) = 0 <=> A = {})
  BY <1>1, FS_CardinalityType, FS_EmptySet
<1>3. QED BY <1>2 DEF Count

\* The counts after p has gone to the point to.
LEMMA CountMove ==
  ASSUME LockInv, NEW p \in Process, NEW to, pc' = [pc EXCEPT ![p] = to], NEW S
  PROVE  Count(S)' = Count(S) - One(pc[p], S) + One(to, S)
<1> DEFINE A == {r \in Process : pc[r] \in S}
           B == {r \in Process : pc'[r] \in S}
<1>0. Count(S) = Cardinality(A) /\ Count(S)' = Cardinality(B)
  BY DEF Count
<1>1. IsFiniteSet(A) /\ IsFiniteSet(A \ {p}) /\ Cardinality(A) \in Nat
  BY ProcessFinite, FS_Subset, FS_CardinalityType
<1>2. Cardinality(A \ {p}) = IF p \in A THEN Cardinality(A) - 1 ELSE Cardinality(A)
  BY <1>1, FS_RemoveElement
<1>3. Cardinality((A \ {p}) \cup {p}) = Cardinality(A \ {p}) + 1
  BY <1>1, FS_AddElement
<1>4. p \in A <=> pc[p] \in S
  OBVIOUS
<1>5. CASE to \in S
  <2>1. B = (A \ {p}) \cup {p}
    BY <1>5 DEF LockInv
  <2> HIDE DEF A, B
  <2>2. QED BY <1>0, <1>1, <1>2, <1>3, <1>4, <1>5, <2>1 DEF One
<1>6. CASE to \notin S
  <2>1. B = A \ {p}
    BY <1>6 DEF LockInv
  <2> HIDE DEF A, B
  <2>2. QED BY <1>0, <1>1, <1>2, <1>4, <1>6, <2>1 DEF One
<1>7. QED BY <1>5, <1>6

\* WaitersCounted with the types of the words it adds up.
WaitInv == wait \in Int /\ sem \in Nat /\ crashes \in Nat /\ WaitersCounted

Announced == {"recheck", "sleep", "undo"}

\* How a move of a process from one point to another tips the balance between the
\* wakeups and those they are for.
Tip(from, to) ==
  (One(to, {"post"}) - One(from, {"post"})) - (One(to, Announced) - One(from, Announced))

\* A step keeps the balance if it changes wait and sem the other way, except that
\* a crash may leave one wakeup over.
LEMMA Balance ==
  ASSUME LockInv, WaitInv, NEW p \in Process, NEW to, pc' = [pc EXCEPT ![p] = to],
         wait' \in Int, sem' \in Nat, crashes' \in Nat,
         wait' + sem' - (wait + sem) + Tip(pc[p], to) >= 0,
         wait' + sem' - (wait + sem) + Tip(pc[p], to) <= crashes' - crashes
  PROVE  WaitInv'
<1>1. /\ Count({"post"})' = Count({"post"}) - One(pc[p], {"post"}) + One(to, {"post"})
      /\ Count(Announced)' = Count(Announced) - One(pc[p], Announced) + One(to, Announced)
  BY CountMove
<1>2. Count({"post"}) \in Nat /\ Count(Announced) \in Nat
  BY CountType
<1>3. /\ WaitersCounted <=>
           /\ wait + sem + Count({"post"}) >= Count(Announced)
           /\ wait + sem + Count({"post"}) <= Count(Announced) + crashes
      /\ WaitersCounted' <=>
           /\ wait' + sem' + Count({"post"})' >= Count(Announced)'
           /\ wait' + sem' + Count({"post"})' <= Count(Announced)' + crashes'
  BY DEF WaitersCounted, Announced
<1>4. \A x, S : One(x, S) \in Int
  BY DEF One
<1>5. QED BY <1>1, <1>2, <1>3, <1>4 DEF WaitInv, Tip

\* A step of a process that is alive: wait and sem change against the tip.
LEMMA Moved ==
  ASSUME LockInv, WaitInv, NEW p \in Process, NEW from, NEW to, Goto(p, from, to),
         wait' \in Int, sem' \in Nat, UNCHANGED crashes, Tip(from, to) \in Int,
         wait' + sem' + Tip(from, to) = wait + sem
  PROVE  WaitInv'
<1>1. pc' = [pc EXCEPT ![p] = to] /\ pc[p] = from
  BY DEF Goto
<1>2. wait \in Int /\ sem \in Nat /\ crashes \in Nat
  BY DEF WaitInv
<1>3. /\ wait' + sem' - (wait + sem) + Tip(pc[p], to) >= 0
      /\ wait' + sem' - (wait + sem) + Tip(pc[p], to) <= crashes' - crashes
      /\ crashes' \in Nat
  BY <1>1, <1>2
<1>4. QED BY <1>1, <1>3, Balance

\* The tips of the moves there are.
LEMMA Tips ==
  /\ Tip("idle", "cs") = 0 /\ Tip("idle", "try") = 0 /\ Tip("try", "cs") = 0
  /\ Tip("try", "announce") = 0 /\ Tip("announce", "recheck") = -1
  /\ Tip("recheck", "undo") = 0 /\ Tip("recheck", "sleep") = 0
  /\ Tip("undo", "cs") = 1 /\ Tip("sleep", "try") = 1 /\ Tip("cs", "read") = 0
  /\ Tip("read", "idle") = 0 /\ Tip("read", "cas") = 0 /\ Tip("cas", "read") = 0
  /\ Tip("cas", "post") = 1 /\ Tip("post", "idle") = -1
BY DEF Tip, One, Announced

\* Steps of the processes that are alive: each adjusts wait and sem to its move.
LEMMA WaitInvMove ==
  ASSUME LockInv, WaitInv, NEW p \in Process,
         TryLock(p) \/ Enter(p) \/ Inside(p)
  PROVE  WaitInv'
<1>0. wait \in Int /\ sem \in Nat
  BY DEF WaitInv
<1>1. CASE TryLock(p)
  BY <1>0, <1>1, Moved, Tips DEF TryLock
<1>2. CASE Enter(p)
  BY <1>0, <1>2, Moved, Tips DEF Enter
<1>3. CASE Try(p)
  BY <1>0, <1>3, Moved, Tips DEF Try
<1>4. CASE GiveUpSpinning(p)
  BY <1>0, <1>4, Moved, Tips DEF GiveUpSpinning
<1>5. CASE Announce(p)
  BY <1>0, <1>5, Moved, Tips DEF Announce
<1>6. CASE Recheck(p)
  BY <1>0, <1>6, Moved, Tips DEF Recheck
<1>7. CASE Undo(p)
  BY <1>0, <1>7, Moved, Tips DEF Undo
<1>8. CASE Awake(p)
  BY <1>0, <1>8, Moved, Tips DEF Awake
<1>9. CASE Unlock(p)
  BY <1>0, <1>9, Moved, Tips DEF Unlock
<1>10. CASE ReadWait(p)
  BY <1>0, <1>10, Moved, Tips DEF ReadWait
<1>11. CASE LowerWait(p)
  BY <1>0, <1>11, Moved, Tips DEF LowerWait
<1>12. CASE Post(p)
  BY <1>0, <1>12, Moved, Tips DEF Post
<1>13. QED
  BY <1>1, <1>2, <1>3, <1>4, <1>5, <1>6, <1>7, <1>8, <1>9, <1>10, <1>11, <1>12
     DEF Inside, Wakeup

\* A worker that has announced itself and crashes leaves one wakeup too many; one
\* that crashes elsewhere changes nothing.
LEMMA WaitInvCrash ==
  ASSUME LockInv, WaitInv, "post" \notin CrashPoints, NEW p \in Process, Crash(p)
  PROVE  WaitInv'
<1>1. wait \in Int /\ sem \in Nat /\ crashes \in Nat
  BY DEF WaitInv
<1>2. /\ pc' = [pc EXCEPT ![p] = "dead"] /\ pc[p] # "post"
      /\ crashes' = crashes + 1 /\ wait' = wait /\ sem' = sem
  BY DEF Crash
<1>3. Tip(pc[p], "dead") \in {0, 1}
  BY <1>2 DEF Tip, One, Announced
<1>4. /\ wait' + sem' - (wait + sem) + Tip(pc[p], "dead") >= 0
      /\ wait' + sem' - (wait + sem) + Tip(pc[p], "dead") <= crashes' - crashes
      /\ wait' \in Int /\ sem' \in Nat /\ crashes' \in Nat
  BY <1>1, <1>2, <1>3
<1>5. QED BY <1>2, <1>4, Balance

\* The force unlock moves processes between points that nothing counts.
LEMMA WaitInvForce ==
  ASSUME LockInv, WaitInv, NEW p \in Worker, ForceUnlock(p)
  PROVE  WaitInv'
<1>1. Master \in Process /\ p \in Process /\ p # Master
  BY ShmtxAssumption DEF Process
<1>2. \A r \in Process :
        (pc[r] \in {"post"} <=> pc'[r] \in {"post"})
          /\ (pc[r] \in Announced <=> pc'[r] \in Announced)
  BY <1>1 DEF ForceUnlock, LockInv, Announced
<1>3. /\ {r \in Process : pc[r] \in {"post"}} = {r \in Process : pc'[r] \in {"post"}}
      /\ {r \in Process : pc[r] \in Announced} = {r \in Process : pc'[r] \in Announced}
  BY <1>2
<1>4. Count({"post"})' = Count({"post"}) /\ Count(Announced)' = Count(Announced)
  BY <1>3 DEF Count
<1>5. wait' = wait /\ sem' = sem /\ crashes' = crashes
  BY DEF ForceUnlock
<1>6. QED BY <1>4, <1>5 DEF WaitInv, WaitersCounted, Announced

\* Every step keeps WaitInv.
LEMMA WaitInvStep ==
  ASSUME "post" \notin CrashPoints, LockInv, WaitInv, [ShmtxNext]_shmtxVars
  PROVE  WaitInv'
<1>1. CASE UNCHANGED shmtxVars
  BY <1>1 DEF shmtxVars, WaitInv, WaitersCounted, Count
<1>2. ASSUME NEW p \in Worker, TryLock(p) \/ Enter(p) \/ Inside(p) \/ Crash(p)
      PROVE  WaitInv'
  <2>1. p \in Process
    BY DEF Process
  <2>2. QED BY <1>2, <2>1, WaitInvMove, WaitInvCrash
<1>3. ASSUME NEW p \in Worker, ForceUnlock(p) PROVE WaitInv'
  BY <1>3, WaitInvForce
<1>4. CASE Wakeup(Master)
  <2>1. Master \in Process /\ Inside(Master)
    BY <1>4 DEF Process, Inside
  <2>2. QED BY <2>1, WaitInvMove
<1>5. QED BY <1>1, <1>2, <1>3, <1>4 DEF ShmtxNext

\* WaitInv holds at the start.
LEMMA WaitInvInit == ShmtxInit => WaitInv
<1> SUFFICES ASSUME ShmtxInit PROVE WaitInv
  OBVIOUS
<1>1. wait = 0 /\ sem = 0 /\ crashes = 0 /\ \A p \in Process : pc[p] = "idle"
  BY DEF ShmtxInit
<1>2. /\ {p \in Process : pc[p] \in {"post"}} = {}
      /\ {p \in Process : pc[p] \in {"recheck", "sleep", "undo"}} = {}
  BY <1>1
<1>3. Count({"post"}) = 0 /\ Count({"recheck", "sleep", "undo"}) = 0
  BY <1>2, FS_EmptySet DEF Count
<1>4. QED BY <1>1, <1>3 DEF WaitInv, WaitersCounted

\* For any number of workers, the semaphore, the counter and the wakeups on their
\* way never fall short of the workers that announced to sleep, and exceed them by
\* no more than one for each crash, unless a worker crashes between lowering wait
\* and sem_post in ngx_shmtx_wakeup.
THEOREM WaitersAccounted ==
  ASSUME "post" \notin CrashPoints
  PROVE  ShmtxSpec => []WaitersCounted
<1>1. ShmtxInit => LockInv /\ WaitInv
  BY LockInvInit, WaitInvInit
<1>2. LockInv /\ WaitInv /\ [ShmtxNext]_shmtxVars => (LockInv /\ WaitInv)'
  BY LockInvStep, WaitInvStep
<1>3. LockInv /\ WaitInv => WaitersCounted
  BY DEF WaitInv
<1>4. QED BY <1>1, <1>2, <1>3, PTL DEF ShmtxSpec

-----------------------------------------------------------------------------
(***************************************************************************)
(* No lost wakeup.  Whoever sleeps beside a free lock will be woken: the   *)
(* semaphore has been posted, or a process is in ngx_shmtx_wakeup, or one  *)
(* that was woken has yet to try the lock.  A process leaves the wakeup    *)
(* without posting only when it reads wait <= 0, and by WaitersCounted the *)
(* wakeup is then in the semaphore or on its way.                          *)
(***************************************************************************)

\* The points from which a process still acts for the sleepers.
Serving == {"read", "cas", "post", "try"}

SleepersServed ==
  lock = Nobody /\ (\E p \in Process : pc[p] = "sleep") =>
    sem > 0 \/ \E q \in Process : pc[q] \in Serving

\* With nobody at post and nothing in the semaphore, wait counts the sleepers.
LEMMA SleeperSeen ==
  ASSUME WaitInv, NEW p \in Process, pc[p] = "sleep", sem = 0,
         \A q \in Process : pc[q] # "post"
  PROVE  wait > 0
<1>1. Count({"post"}) \in Nat /\ ~(Count({"post"}) > 0)
  <2>1. Count({"post"}) \in Nat /\ (Count({"post"}) > 0 <=> \E q \in Process : pc[q] \in {"post"})
    BY CountType
  <2>2. QED BY <2>1
<1>2. Count(Announced) \in Nat /\ Count(Announced) > 0
  <2>1. Count(Announced) \in Nat /\ (Count(Announced) > 0 <=> \E q \in Process : pc[q] \in Announced)
    BY CountType
  <2>2. pc[p] \in Announced
    BY DEF Announced
  <2>3. QED BY <2>1, <2>2
<1>3. wait + sem + Count({"post"}) >= Count(Announced) /\ wait \in Int
  BY DEF WaitInv, WaitersCounted, Announced
<1>4. QED BY <1>1, <1>2, <1>3

\* A step of a process keeps the sleepers served.
LEMMA ServedMove ==
  ASSUME LockInv, WaitInv, SleepersServed, NEW p \in Process,
         TryLock(p) \/ Enter(p) \/ Inside(p)
  PROVE  SleepersServed'
<1>0. p # Nobody /\ sem \in Nat /\ wait \in Int
  BY ShmtxAssumption DEF Process, WaitInv
<1>1. CASE lock' = p
  \* the lock has been taken, or is held still
  BY <1>0, <1>1 DEF SleepersServed
<1>2. CASE Enter(p)
  BY <1>2 DEF Enter, Goto, LockInv, SleepersServed, Serving
<1>3. CASE GiveUpSpinning(p) \/ (Recheck(p) /\ lock' # p)
  BY <1>3 DEF GiveUpSpinning, Recheck, Acquire, SleepersServed
<1>4. CASE Announce(p)
  BY <1>4 DEF Announce, Goto, LockInv, SleepersServed, Serving
<1>5. CASE Undo(p)
  <2>1. lock = p
    BY <1>5 DEF Undo, Goto, LockInv, Holds
  <2>2. QED BY <1>0, <1>5, <2>1 DEF Undo, SleepersServed
<1>6. CASE Awake(p) \/ Unlock(p) \/ LowerWait(p)
  \* p goes to a point of Serving
  <2>1. pc'[p] \in Serving
    BY <1>6 DEF Awake, Unlock, LowerWait, Goto, LockInv, Serving
  <2>2. QED BY <2>1 DEF SleepersServed
<1>7. CASE Post(p)
  <2>1. sem' > 0
    BY <1>0, <1>7 DEF Post
  <2>2. QED BY <2>1 DEF SleepersServed
<1>8. CASE ReadWait(p)
  <2>1. CASE ~(wait <= 0)
    <3>1. pc'[p] \in Serving
      BY <1>8, <2>1 DEF ReadWait, Goto, LockInv, Serving
    <3>2. QED BY <3>1 DEF SleepersServed
  <2>2. CASE wait <= 0
    <3> SUFFICES ASSUME NEW r \in Process, pc'[r] = "sleep", ~(sem' > 0),
                        \A q \in Process : pc'[q] \notin Serving
                 PROVE  FALSE
      BY DEF SleepersServed
    <3>1. pc' = [pc EXCEPT ![p] = "idle"] /\ pc[p] = "read" /\ sem' = sem
      BY <1>8, <2>2 DEF ReadWait, Goto
    <3>2. pc[r] = "sleep" /\ sem = 0
      BY <1>0, <3>1 DEF LockInv
    <3>3. \A q \in Process : pc[q] # "post"
      BY <3>1 DEF LockInv, Serving
    <3>4. QED BY <1>0, <2>2, <3>2, <3>3, SleeperSeen
  <2>3. QED BY <2>1, <2>2
<1>9. QED
  BY <1>1, <1>2, <1>3, <1>4, <1>5, <1>6, <1>7, <1>8
     DEF TryLock, Try, Acquire, Inside, Wakeup

\* So does the death of one.
LEMMA ServedDeath ==
  ASSUME CrashPoints \cap Serving = {}, LockInv, SleepersServed, NEW p \in Worker,
         Crash(p) \/ ForceUnlock(p)
  PROVE  SleepersServed'
<1>0. p \in Process /\ Master \in Process /\ p # Master
  BY ShmtxAssumption DEF Process
<1>1. CASE Crash(p)
  <2>1. pc[p] \notin Serving /\ pc' = [pc EXCEPT ![p] = "dead"] /\ lock' = lock /\ sem' = sem
    BY <1>1 DEF Crash
  <2>2. QED BY <1>0, <2>1 DEF LockInv, SleepersServed
<1>2. CASE ForceUnlock(p) /\ lock = p
  <2>1. pc'[Master] \in Serving
    BY <1>0, <1>2 DEF ForceUnlock, LockInv, Serving
  <2>2. QED BY <1>0, <2>1 DEF SleepersServed
<1>3. CASE ForceUnlock(p) /\ lock # p
  <2>1. pc[p] = "dead" /\ pc' = [pc EXCEPT ![p] = "idle"] /\ lock' = lock /\ sem' = sem
    BY <1>3 DEF ForceUnlock
  <2>2. QED BY <1>0, <2>1 DEF LockInv, SleepersServed, Serving
<1>4. QED BY <1>1, <1>2, <1>3

\* Every step keeps the sleepers served.
LEMMA ServedStep ==
  ASSUME CrashPoints \cap Serving = {}, LockInv, WaitInv, SleepersServed,
         [ShmtxNext]_shmtxVars
  PROVE  SleepersServed'
<1>1. CASE UNCHANGED shmtxVars
  BY <1>1 DEF shmtxVars, SleepersServed
<1>2. ASSUME NEW p \in Worker, TryLock(p) \/ Enter(p) \/ Inside(p)
      PROVE  SleepersServed'
  <2>1. p \in Process
    BY DEF Process
  <2>2. QED BY <1>2, <2>1, ServedMove
<1>3. ASSUME NEW p \in Worker, Crash(p) \/ ForceUnlock(p) PROVE SleepersServed'
  BY <1>3, ServedDeath
<1>4. CASE Wakeup(Master)
  <2>1. Master \in Process /\ Inside(Master)
    BY <1>4 DEF Process, Inside
  <2>2. QED BY <2>1, ServedMove
<1>5. QED BY <1>1, <1>2, <1>3, <1>4 DEF ShmtxNext

\* For any number of workers and crashes, nobody is left asleep beside a free lock
\* with nobody about to wake him, unless a worker crashes in ngx_shmtx_wakeup or
\* between its sem_wait and its next attempt.
THEOREM NoSleeperForgotten ==
  ASSUME CrashPoints \cap Serving = {}
  PROVE  ShmtxSpec => []NoLostWakeup
<1>0. "post" \notin CrashPoints
  BY DEF Serving
<1>1. ShmtxInit => LockInv /\ WaitInv /\ SleepersServed
  BY LockInvInit, WaitInvInit DEF ShmtxInit, SleepersServed
<1>2. LockInv /\ WaitInv /\ SleepersServed /\ [ShmtxNext]_shmtxVars
        => (LockInv /\ WaitInv /\ SleepersServed)'
  BY <1>0, LockInvStep, WaitInvStep, ServedStep
<1>3. LockInv /\ WaitInv /\ SleepersServed => NoLostWakeup
  <2>1. Count({"sleep"}) > 0 => \E p \in Process : pc[p] = "sleep"
    BY CountType
  <2>2. (\E q \in Process : pc[q] \in Serving)
          => Count({"read", "cas", "post", "recheck", "announce", "try"}) > 0
    BY CountType DEF Serving
  <2>3. QED BY <2>1, <2>2 DEF WaitInv, SleepersServed, NoLostWakeup
<1>4. QED BY <1>1, <1>2, <1>3, PTL DEF ShmtxSpec
=============================================================================
