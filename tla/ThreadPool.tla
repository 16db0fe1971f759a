----------------------------- MODULE ThreadPool -----------------------------
(***************************************************************************)
(* A pool of threads for blocking file operations (core/ngx_thread_pool.c),*)
(* one worker's event loop that posts tasks to it and is notified of the   *)
(* finished ones, and the requests that own the tasks (os/unix/            *)
(* ngx_files.c, http/ngx_http_copy_filter_module.c).                       *)
(*                                                                         *)
(*   q, done    tp->queue and ngx_thread_pool_done: [first, last], where   *)
(*              last = NULL stands for last == &first                      *)
(*   next       task->next                                                 *)
(*   ev         task->event: active, complete; aio: its request is blocked *)
(*   waiting    tp->waiting                                                *)
(*   th         each thread's place in ngx_thread_pool_cycle and its task  *)
(*   notified   the eventfd of ngx_notify has been written                 *)
(*   main       the event loop: its place, the local variable task of      *)
(*              ngx_thread_pool_handler, n and lock of ..._destroy         *)
(*   faults     how many calls of the thread library have failed           *)
(*                                                                         *)
(* What happens under tp->mtx or under ngx_thread_pool_done_lock is one    *)
(* step; pthread_cond_wait is two, and may return without a signal.  A     *)
(* failing call ends its caller; whether a mutex that could not be         *)
(* unlocked can be locked again is left open, the steps of those who never *)
(* get it simply not being taken.                                          *)
(***************************************************************************)
EXTENDS Integers, FiniteSets, Sequences

CONSTANTS
  Thread,      \* the threads; tp->threads of them
  Task,        \* tasks, one for each of the files being read
  ExitTask,    \* the task on the stack of ngx_thread_pool_destroy
  NULL,
  MaxQueue,    \* tp->max_queue
  MaxFaults    \* bound: how many calls fail

AnyTask == Task \cup {ExitTask}

ASSUME ThreadPoolAssumption ==
  /\ ExitTask \notin Task /\ NULL \notin AnyTask
  /\ MaxQueue \in Nat /\ MaxFaults \in Nat
  /\ IsFiniteSet(Thread) /\ IsFiniteSet(Task)

VARIABLES q, done, next, ev, aio, waiting, th, notified, main, faults

poolVars == <<q, done, next, ev, aio, waiting, th, notified, main, faults>>

Empty == [first |-> NULL, last |-> NULL]

\* *l.last = x; l.last = &x->next
Push(l, x) == [first |-> IF l.last = NULL THEN x ELSE l.first, last |-> x]

\* x->next = NULL before, and the last task's next if there is one.
Link(l, x) ==
  [y \in AnyTask |-> IF y = l.last THEN x ELSE IF y = x THEN NULL ELSE next[y]]

\* Mutated form of Pop: last still points into the task that was taken.
Pop_dangling(l) == [l EXCEPT !.first = next[l.first]]

Pop(l) ==
  IF next[l.first] = NULL THEN Empty ELSE [l EXCEPT !.first = next[l.first]]

Fault == faults < MaxFaults /\ faults' = faults + 1

-----------------------------------------------------------------------------
(* ngx_thread_pool_cycle                                                   *)

Move(t, pc, task) == th' = [th EXCEPT ![t] = [pc |-> pc, task |-> task]]

\* while (tp->queue.first == NULL) wait; take the first task and unlock mtx.  A
\* thread that cannot unlock it ends, and the task it has taken with it.
Proceed(t) ==
  \/ /\ q.first = NULL /\ Move(t, "waiting", NULL) /\ UNCHANGED <<q, faults>>
  \/ /\ q.first # NULL /\ q' = Pop(q)
     /\ \/ Move(t, "run", q.first) /\ UNCHANGED faults
        \/ Fault /\ Move(t, "lost", q.first)

\* pthread_cond_wait fails, and the thread ends.
WaitFails(t) == Fault /\ Move(t, "failed", NULL) /\ UNCHANGED q

\* "the number may become negative".  A thread that cannot lock mtx ends, before
\* it is counted.
Fetch(t) ==
  /\ th[t].pc = "top"
  /\ \/ waiting' = waiting - 1 /\ (Proceed(t) \/ (q.first = NULL /\ WaitFails(t)))
     \/ Fault /\ Move(t, "left", NULL) /\ UNCHANGED <<q, waiting>>
  /\ UNCHANGED <<done, next, ev, aio, notified, main>>

\* Whatever is queued, a wait that fails ends the thread.
WaitReturns(t) ==
  /\ th[t].pc = "woken" /\ (Proceed(t) \/ WaitFails(t))
  /\ UNCHANGED <<done, next, ev, aio, waiting, notified, main>>

\* POSIX lets pthread_cond_wait return unsignalled.
SpuriousWakeup(t) ==
  /\ th[t].pc = "waiting" /\ Move(t, "woken", NULL)
  /\ UNCHANGED <<q, done, next, ev, aio, waiting, notified, main, faults>>

\* The task's handler has run; the task joins ngx_thread_pool_done.
Finish(t) ==
  /\ th[t].pc = "run" /\ th[t].task # ExitTask
  /\ done' = Push(done, th[t].task) /\ next' = Link(done, th[t].task)
  /\ Move(t, "notify", NULL)
  /\ UNCHANGED <<q, ev, aio, waiting, notified, main, faults>>

\* Mutated form of Notify: the event loop is not told.
Notify_never(t) ==
  /\ th[t].pc = "notify" /\ Move(t, "top", NULL)
  /\ UNCHANGED <<q, done, next, ev, aio, waiting, notified, main, faults>>

\* The result of ngx_notify is not looked at.
Notify(t) ==
  /\ th[t].pc = "notify" /\ Move(t, "top", NULL)
  /\ \/ notified' = TRUE /\ UNCHANGED faults
     \/ Fault /\ UNCHANGED notified
  /\ UNCHANGED <<q, done, next, ev, aio, waiting, main>>

\* Mutated form of ExitHandler: pthread_exit before *lock = 0.
ExitHandler_silent(t) ==
  /\ th[t].pc = "run" /\ th[t].task = ExitTask /\ Move(t, "exited", NULL)
  /\ UNCHANGED <<q, done, next, ev, aio, waiting, notified, main, faults>>

\* ngx_thread_pool_exit_handler
ExitHandler(t) ==
  /\ th[t].pc = "run" /\ th[t].task = ExitTask
  /\ Move(t, "exited", NULL) /\ main' = [main EXCEPT !.lock = 0]
  /\ UNCHANGED <<q, done, next, ev, aio, waiting, notified, faults>>

-----------------------------------------------------------------------------
(* ngx_thread_task_post, ngx_thread_read                                   *)

\* pthread_cond_signal wakes a waiting thread, if there is one.
Signal ==
  LET W == {t \in Thread : th[t].pc = "waiting"}
  IN  IF W = {} THEN UNCHANGED th
      ELSE \E t \in W : Move(t, "woken", NULL)

\* Mutated form of Accepted: one too many.
Accepted_more(x) == ~ev[x].active /\ waiting <= MaxQueue

\* A task already active is refused, and so is one too many.
Accepted(x) == ~ev[x].active /\ waiting < MaxQueue

Queued(x) ==
  /\ ev' = [ev EXCEPT ![x].active = TRUE]
  /\ Signal
  /\ q' = Push(q, x) /\ next' = Link(q, x) /\ waiting' = waiting + 1
  /\ UNCHANGED faults

\* pthread_cond_signal fails: the task stays active, though it is not queued.
SignalFails(x) ==
  /\ Fault /\ ev' = [ev EXCEPT ![x].active = TRUE]
  /\ next' = [next EXCEPT ![x] = NULL]
  /\ UNCHANGED <<q, waiting, th>>

\* Code of requests runs in the event loop's handlers, those of tasks included.
Handling == main.pc \in {"loop", "callback"}

\* ngx_thread_read, and the thread_handler of ngx_http_copy_filter_module, which
\* blocks the request: the result of a complete task is returned, else the task
\* is posted.  A refused post, one that cannot lock mtx too, changes nothing.
Read(x) ==
  /\ Handling /\ ~aio[x]
  /\ \/ /\ ev[x].complete /\ ev' = [ev EXCEPT ![x].complete = FALSE]
        /\ UNCHANGED <<q, next, aio, waiting, th, faults>>
     \/ /\ ~ev[x].complete /\ Accepted(x)
        /\ \/ Queued(x) /\ aio' = [aio EXCEPT ![x] = TRUE]
           \/ SignalFails(x) /\ UNCHANGED aio
  /\ UNCHANGED <<done, notified, main>>

Fresh == [active |-> FALSE, complete |-> FALSE]

\* A request that is not blocked ends; the next one allocates its task, zeroed,
\* in the same place.
NewRequest(x) ==
  /\ Handling /\ ~aio[x] /\ ev[x] # Fresh
  /\ ev' = [ev EXCEPT ![x] = Fresh] /\ next' = [next EXCEPT ![x] = NULL]
  /\ UNCHANGED <<q, done, aio, waiting, th, notified, main, faults>>

-----------------------------------------------------------------------------
(* ngx_epoll_notify_handler, ngx_thread_pool_handler                       *)

Notified ==
  /\ main.pc = "loop" /\ notified /\ notified' = FALSE
  /\ main' = [main EXCEPT !.pc = "deliver", !.task = done.first]
  /\ done' = Empty
  /\ UNCHANGED <<q, next, ev, aio, waiting, th, faults>>

\* Mutated form of Complete: task->next is read after the handler has run.
Complete_late ==
  LET x == main.task
  IN  /\ main.pc = "deliver" /\ x # NULL
      /\ ev' = [ev EXCEPT ![x] = [active |-> FALSE, complete |-> TRUE]]
      /\ aio' = [aio EXCEPT ![x] = FALSE]
      /\ main' = [main EXCEPT !.pc = "callback"]
      /\ UNCHANGED <<q, done, next, waiting, th, notified, faults>>

\* The event of the next task; its handler unblocks the request.
Complete ==
  LET x == main.task
  IN  /\ main.pc = "deliver" /\ x # NULL
      /\ ev' = [ev EXCEPT ![x] = [active |-> FALSE, complete |-> TRUE]]
      /\ aio' = [aio EXCEPT ![x] = FALSE]
      /\ main' = [main EXCEPT !.pc = "callback", !.task = next[x]]
      /\ UNCHANGED <<q, done, next, waiting, th, notified, faults>>

HandlerReturns ==
  /\ \/ main.pc = "callback" /\ main' = [main EXCEPT !.pc = "deliver"]
     \/ main.pc = "deliver" /\ main.task = NULL /\ main' = [main EXCEPT !.pc = "loop"]
  /\ UNCHANGED <<q, done, next, ev, aio, waiting, th, notified, faults>>

-----------------------------------------------------------------------------
(* ngx_thread_pool_exit_worker, ngx_thread_pool_destroy                    *)

ExitWorker ==
  /\ main.pc = "loop" /\ main' = [main EXCEPT !.pc = "exiting"]
  /\ UNCHANGED <<q, done, next, ev, aio, waiting, th, notified, faults>>

\* Destruction ends early when the exit task is refused, or mtx cannot be locked.
PostExit ==
  /\ main.pc = "exiting"
  /\ \/ /\ Accepted(ExitTask) /\ Queued(ExitTask)
        /\ main' = [main EXCEPT !.pc = "spin", !.lock = 1]
     \/ /\ Accepted(ExitTask) /\ SignalFails(ExitTask)
        /\ main' = [main EXCEPT !.pc = "gaveup", !.lock = 1]
     \/ /\ \/ ~Accepted(ExitTask) /\ UNCHANGED faults
           \/ Accepted(ExitTask) /\ Fault
        /\ main' = [main EXCEPT !.pc = "gaveup", !.lock = 1]
        /\ UNCHANGED <<q, next, ev, waiting, th>>
  /\ UNCHANGED <<done, aio, notified>>

\* Mutated form of SpinEnds: one exit task too few.
SpinEnds_fewer ==
  /\ main.pc = "spin" /\ main.lock = 0
  /\ ev' = [ev EXCEPT ![ExitTask].active = FALSE]
  /\ main' = [main EXCEPT !.n = @ + 1,
                !.pc = IF main.n + 2 = Cardinality(Thread) THEN "destroyed" ELSE "exiting"]
  /\ UNCHANGED <<q, done, next, aio, waiting, th, notified, faults>>

\* One more thread has exited; after the last, cond and mtx are destroyed.
SpinEnds ==
  /\ main.pc = "spin" /\ main.lock = 0
  /\ ev' = [ev EXCEPT ![ExitTask].active = FALSE]
  /\ main' = [main EXCEPT !.n = @ + 1,
                !.pc = IF main.n + 1 = Cardinality(Thread) THEN "destroyed" ELSE "exiting"]
  /\ UNCHANGED <<q, done, next, aio, waiting, th, notified, faults>>

-----------------------------------------------------------------------------
ThreadPoolInit ==
  /\ q = Empty /\ done = Empty /\ next = [x \in AnyTask |-> NULL]
  /\ ev = [x \in AnyTask |-> Fresh] /\ aio = [x \in Task |-> FALSE]
  /\ waiting = 0 /\ th = [t \in Thread |-> [pc |-> "top", task |-> NULL]]
  /\ notified = FALSE /\ faults = 0
  /\ main = [pc |-> "loop", task |-> NULL, n |-> 0, lock |-> 0]

Cycle(t) ==
  Fetch(t) \/ WaitReturns(t) \/ Finish(t) \/ Notify(t) \/ ExitHandler(t)

EventLoop == Notified \/ Complete \/ HandlerReturns \/ PostExit \/ SpinEnds

ThreadPoolNext ==
  \/ \E t \in Thread : Cycle(t) \/ SpuriousWakeup(t)
  \/ \E x \in Task : Read(x) \/ NewRequest(x)
  \/ EventLoop \/ ExitWorker

ThreadPoolSpec == ThreadPoolInit /\ [][ThreadPoolNext]_poolVars

\* Threads are scheduled and the event loop goes round; nothing makes a request
\* read or the worker exit.  A waiting thread needs a signal.
ThreadPoolFairSpec ==
  /\ ThreadPoolSpec
  /\ \A t \in Thread : WF_poolVars(Cycle(t))
  /\ WF_poolVars(EventLoop)

-----------------------------------------------------------------------------
(* Properties.                                                             *)

\* The tasks a list leads to, in order; a list that does not end is cut off.
Chain(p) ==
  LET c[k \in 0..Cardinality(AnyTask) + 1] ==
        IF k = 0 THEN [at |-> p, seq |-> <<>>]
        ELSE LET d == c[k - 1]
             IN  IF d.at = NULL THEN d
                 ELSE [at |-> next[d.at], seq |-> Append(d.seq, d.at)]
  IN  c[Cardinality(AnyTask) + 1].seq

Times(x, s) == Cardinality({i \in DOMAIN s : s[i] = x})

\* How often x is known to the pool: queued, being run, done, being delivered.
InFlight(x) ==
  Times(x, Chain(q.first)) + Times(x, Chain(done.first))
    + (IF main.pc \in {"deliver", "callback"} THEN Times(x, Chain(main.task)) ELSE 0)
    + Cardinality({t \in Thread : th[t].pc = "run" /\ th[t].task = x})

\* How many threads have taken x from the queue and ended without running it.
Lost(x) == Cardinality({t \in Thread : th[t].pc = "lost" /\ th[t].task = x})

\* A request is blocked, and so keeps its task's memory, exactly as long as its
\* task is known to the pool, which knows it only once, whatever is posted while
\* completions are delivered and threads append to the lists; and for ever if a
\* thread that could not unlock mtx has ended with it, which one thread does at
\* most and after which the pool knows it no more.
BlockedInFlight ==
  \A x \in Task : InFlight(x) + Lost(x) = IF aio[x] THEN 1 ELSE 0

\* last of a list is the end of the chain that starts with first, and a thread
\* that goes on past the queue has got a task from it, whoever was woken meanwhile.
ListsClosed ==
  /\ \A l \in {q, done} :
       LET c == Chain(l.first)
       IN  l.last = IF c = <<>> THEN NULL ELSE c[Len(c)]
  /\ \A t \in Thread : th[t].pc \in {"run", "lost"} <=> th[t].task # NULL

\* waiting is the queue less the threads ready for it (one whose wait failed is
\* counted for ever, one that ended otherwise no more); so the queue holds
\* max_queue tasks beyond those.
WaitingCounts ==
  /\ waiting <= MaxQueue
  /\ waiting = Len(Chain(q.first))
                 - Cardinality({t \in Thread : th[t].pc \in {"waiting", "woken", "failed"}})

\* When cond and mtx are destroyed no thread can use them any more, and every
\* task posted before has been run.
DestroyedQuiet ==
  main.pc = "destroyed" =>
    q = Empty /\ \A t \in Thread : th[t].pc = "exited"

\* Every read that was posted completes, unless the worker exits first or a
\* call of the thread library fails.
PostedCompletes ==
  \A x \in Task :
    aio[x] ~> (~aio[x] \/ faults > 0 \/ main.pc \in {"exiting", "spin", "gaveup", "destroyed"})

\* A thread has ended without an exit task, because it could not lock mtx, wait
\* or unlock mtx.
EndedEarly == \E t \in Thread : th[t].pc \in {"left", "failed", "lost"}

\* The event loop never spins for ever on an exit task: destruction ends, whatever
\* notification or signal failed, unless a thread has ended before.
DestroyEnds ==
  main.pc = "exiting" ~> (main.pc \in {"gaveup", "destroyed"} \/ EndedEarly)
=============================================================================
