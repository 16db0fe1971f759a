----------------------------- MODULE MasterCycle -----------------------------
(***************************************************************************)
(* The master process of nginx and its children: ngx_master_process_cycle, *)
(* the table ngx_processes, and what the workers do with what they are     *)
(* told (os/unix/ngx_process_cycle.c, os/unix/ngx_process.c).              *)
(*                                                                         *)
(* The master blocks its signals while the body of its loop runs: they are *)
(* delivered in sigsuspend, all that are pending.  One step of the master  *)
(* is therefore: handlers, body, and the top of the next iteration up to   *)
(* sigsuspend.  Children run, exit and crash in between.                   *)
(*                                                                         *)
(* m, the master and its children:                                         *)
(*   table    ngx_processes up to ngx_last_process; pid 0 stands for -1    *)
(*   flags    the ngx_... flags that are set                               *)
(*   live, delay, sigio, new_binary (-1: the attempt failed)               *)
(*   cycle    the number of the configuration in use                       *)
(*   procs    every process ever forked, by pid: its state, the commands   *)
(*            it has not read, the configuration it runs, and what it is   *)
(*   faults   how many crashes and failed forks are still to come          *)
(*   lost     history: workers given up since workers were last started    *)
(*            (a failed fork, a worker that exited with the code 2)        *)
(*   exited   the master has called ngx_master_process_exit                *)
(* pending: signals of the master not yet delivered; sent: signals so far. *)
(***************************************************************************)
EXTENDS Integers, Sequences, SequencesExt, FiniteSets

CONSTANTS
  WorkerProcesses,  \* ccf->worker_processes
  Signals,          \* signals the administrator may send
  MaxSignals,       \* bound: how many of them
  MaxFaults,        \* bound: crashes, fatal exits and failed forks
  Scenarios         \* "rollback": SIGHUP while a new binary runs

ASSUME MasterAssumption ==
  /\ WorkerProcesses \in Nat \ {0} /\ MaxSignals \in Nat /\ MaxFaults \in Nat
  /\ Signals \subseteq {"QUIT", "TERM", "HUP", "USR1", "USR2", "WINCH"}

VARIABLES m, pending, sent

masterVars == <<m, pending, sent>>

\* m.flags holds the names of the ngx_* flags that are set: reap, terminate, quit,
\* reconfigure, restart, reopen, change_binary, noaccept, noaccepting, sigalrm.
Has(s, f) == f \in s.flags
Set(s, f) == [s EXCEPT !.flags = @ \cup {f}]
Unset(s, f) == [s EXCEPT !.flags = @ \ {f}]

\* Applies a step with several outcomes to each of several states.
Each(S, Op(_)) == UNION {Op(s) : s \in S}

Fault(s) == [s EXCEPT !.faults = @ - 1]

\* The same, and a worker is given up.
Losing(s) == [s EXCEPT !.faults = @ - 1, !.lost = @ + 1]

-----------------------------------------------------------------------------
(* ngx_spawn_process                                                       *)

Slot(pid, type) ==
  [pid |-> pid, exiting |-> FALSE, exited |-> FALSE,
   respawn    |-> type \in {"RESPAWN", "JUST_RESPAWN"},
   just_spawn |-> type = "JUST_RESPAWN",
   detached   |-> type = "DETACHED"]

\* The child that fork creates.
Forked(s, what) ==
  [s EXCEPT !.procs =
     Append(@, [state |-> "run", box |-> {}, cycle |-> s.cycle, what |-> what])]

\* Mutated form of FreeSlot: the last slot is taken whatever it holds.
FreeSlot_last(s) == IF s.table = <<>> THEN 1 ELSE Len(s.table)

\* The first free slot, or the one after the last.
FreeSlot(s) ==
  LET free == {i \in 1..Len(s.table) : s.table[i].pid = 0}
  IN  IF free = {} THEN Len(s.table) + 1
      ELSE CHOOSE i \in free : \A j \in free : i <= j

\* fork fails (or socketpair does): the table stays as it is.
SpawnFails(s, what) ==
  IF s.faults = 0 THEN {} ELSE {IF what = "worker" THEN Losing(s) ELSE Fault(s)}

ngx_spawn_process(s, what, type) ==
  LET f    == Forked(s, what)
      slot == Slot(Len(f.procs), type)
      i    == FreeSlot(s)
  IN  {[f EXCEPT !.table = IF i > Len(@) THEN Append(@, slot)
                           ELSE [@ EXCEPT ![i] = slot]]}
        \cup SpawnFails(s, what)

\* ngx_spawn_process with a slot to reuse: only pid and exited are set.
Respawn(s, i) ==
  LET f == Forked(s, "worker")
  IN  [f EXCEPT !.table[i].pid = Len(f.procs), !.table[i].exited = FALSE,
                !.live = TRUE]

ngx_start_worker_processes(s, type) ==
  LET started[k \in 0..WorkerProcesses] ==
        IF k = 0 THEN {s}
        ELSE UNION {ngx_spawn_process(x, "worker", type) : x \in started[k - 1]}
  IN  started[WorkerProcesses]

\* The call that starts all the workers: whom it starts makes up for those lost.
Anew(s) == [s EXCEPT !.lost = 0]

-----------------------------------------------------------------------------
(* ngx_signal_worker_processes: a command over the channel, or a signal.   *)
(* A process that is gone is found out by kill: ESRCH.                     *)

Tell(s, i, signo) ==
  LET p == s.table[i].pid
  IN  IF s.procs[p].state = "gone"
      THEN Set([s EXCEPT !.table[i].exited = TRUE, !.table[i].exiting = FALSE],
               "reap")
      ELSE [s EXCEPT !.procs[p].box = IF s.procs[p].state \in {"zombie", "fatal"} THEN @
                                      ELSE @ \cup {signo},
                     !.table[i].exiting = @ \/ signo # "USR1"]

SignalSlot(s, i, signo) ==
  LET e == s.table[i]
  IN  CASE e.detached \/ e.pid = 0           -> s
        [] ~e.detached /\ e.pid # 0 /\ e.just_spawn ->
             [s EXCEPT !.table[i].just_spawn = FALSE]
        [] OTHER -> IF e.exiting /\ signo = "QUIT" THEN s ELSE Tell(s, i, signo)

ngx_signal_worker_processes(s, signo) ==
  LET told[i \in 0..Len(s.table)] ==
        IF i = 0 THEN s ELSE SignalSlot(told[i - 1], i, signo)
  IN  told[Len(s.table)]

-----------------------------------------------------------------------------
(* ngx_reap_children                                                       *)

\* The new binary's process is gone: the old one may take over again.
BinaryGone(s, pid) ==
  IF pid # s.new_binary THEN s
  ELSE LET t == [s EXCEPT !.new_binary = 0]
       IN  IF Has(t, "noaccepting") THEN Set(Unset(t, "noaccepting"), "restart")
           ELSE t

\* The last slot is given up, another one is marked free.
Vacate(s, i) ==
  IF i = Len(s.table) THEN [s EXCEPT !.table = Front(@)]
  ELSE [s EXCEPT !.table[i].pid = 0]

\* Mutated form of MayRespawn: a reload is trusted to start a worker instead.
MayRespawn_reload(s, e) ==
  /\ e.respawn /\ ~e.exiting /\ ~Has(s, "terminate") /\ ~Has(s, "quit")
  /\ ~Has(s, "reconfigure")

MayRespawn(s, e) ==
  e.respawn /\ ~e.exiting /\ ~Has(s, "terminate") /\ ~Has(s, "quit")

ReapSlot(s, i) ==
  LET e == s.table[i]
  IN  CASE e.pid = 0 -> {s}
        [] e.pid # 0 /\ ~e.exited ->
             {[s EXCEPT !.live = @ \/ e.exiting \/ ~e.detached]}
        [] OTHER ->
             IF MayRespawn(s, e) THEN {Respawn(s, i)} \cup SpawnFails(s, "worker")
             ELSE {Vacate(BinaryGone(s, e.pid), i)}

ngx_reap_children(s) ==
  LET reaped[i \in 0..Len(s.table)] ==
        IF i = 0 THEN {[s EXCEPT !.live = FALSE]}
        ELSE UNION {ReapSlot(x, i) : x \in reaped[i - 1]}
  IN  reaped[Len(s.table)]

-----------------------------------------------------------------------------
(* ngx_signal_handler in the master, and ngx_process_get_status            *)

Raised ==
  [QUIT |-> "quit", TERM |-> "terminate", HUP |-> "reconfigure",
   USR1 |-> "reopen", USR2 |-> "change_binary", WINCH |-> "noaccept",
   ALRM |-> "sigalrm", CHLD |-> "reap"]

\* The slot of a process that waitpid may have returned; one that exited with the
\* fatal code 2 is not to be respawned.
Waited(s, e) ==
  LET q == s.procs[e.pid].state
  IN  IF e.pid = 0 THEN e
      ELSE [e EXCEPT !.exited = @ \/ q \in {"zombie", "fatal"}, !.respawn = @ /\ q # "fatal"]

\* waitpid until there is nothing to wait for.
ngx_process_get_status(s) ==
  [s EXCEPT
     !.procs = [p \in DOMAIN @ |->
        IF @[p].state \in {"zombie", "fatal"} THEN [@[p] EXCEPT !.state = "gone"]
        ELSE @[p]],
     !.table = [i \in DOMAIN @ |-> Waited(s, @[i])]]

\* SIGUSR2 is ignored while a new binary runs.
ngx_signal_handler(s, sigs) ==
  LET heard == {x \in sigs : x = "USR2" => s.new_binary <= 0}
      t     == [s EXCEPT !.flags = @ \cup {Raised[x] : x \in heard}]
  IN  IF "CHLD" \in sigs THEN ngx_process_get_status(t) ELSE t

-----------------------------------------------------------------------------
(* The body of the loop of ngx_master_process_cycle, by its parts.         *)

Terminating(s) ==
  LET t == [s EXCEPT !.delay = IF @ = 0 THEN 50 ELSE @]
  IN  IF t.sigio > 0 THEN [t EXCEPT !.sigio = @ - 1]
      ELSE ngx_signal_worker_processes(
             [t EXCEPT !.sigio = WorkerProcesses + 2],
             IF t.delay > 1000 THEN "KILL" ELSE "TERM")

\* ngx_init_cycle has read a new configuration.
Reconfigured(s) ==
  {ngx_signal_worker_processes([x EXCEPT !.live = TRUE], "QUIT") :
     x \in ngx_start_worker_processes(Anew([s EXCEPT !.cycle = @ + 1]), "JUST_RESPAWN")}

Restarted(s) ==
  {[x EXCEPT !.live = TRUE] : x \in ngx_start_worker_processes(Anew(s), "RESPAWN")}

\* ngx_new_binary = ngx_exec_new_binary(...)
ChangedBinary(s) ==
  {[x EXCEPT !.new_binary = IF x.procs = s.procs THEN -1 ELSE Len(x.procs)] :
     x \in ngx_spawn_process(s, "binary", "DETACHED")}

NotAccepting(s) == ngx_signal_worker_processes(Set(s, "noaccepting"), "QUIT")

\* "if (flag) { flag = 0; ... }"
When(S, f, Op(_)) ==
  Each(S, LAMBDA s : IF Has(s, f) THEN Op(Unset(s, f)) ELSE {s})

AfterReconfigure(S) ==
  LET r == When(S, "restart", Restarted)
      o == When(r, "reopen", LAMBDA s : {ngx_signal_worker_processes(s, "USR1")})
      b == When(o, "change_binary", ChangedBinary)
  IN  When(b, "noaccept", LAMBDA s : {NotAccepting(s)})

\* A configuration with an error leaves the old one in use.
Running(s) ==
  IF ~Has(s, "reconfigure") THEN AfterReconfigure({s})
  ELSE LET t == Unset(s, "reconfigure")
       IN  IF t.new_binary # 0
           THEN {Unset(x, "noaccepting") :
                   x \in ngx_start_worker_processes(Anew(t), "RESPAWN")}
           ELSE {t} \cup AfterReconfigure(Reconfigured(t))

\* Mutated form of MayExit: the master does not wait for its workers.
MayExit_early(s) == Has(s, "terminate") \/ Has(s, "quit")

MayExit(s) == ~s.live /\ (Has(s, "terminate") \/ Has(s, "quit"))

\* Mutated form of Body: ngx_reconfigure is looked at before ngx_quit.
Body_order(s) ==
  CASE MayExit(s)          -> {[s EXCEPT !.exited = TRUE]}
    [] ~MayExit(s) /\ Has(s, "terminate") -> {Terminating(s)}
    [] ~MayExit(s) /\ ~Has(s, "terminate") /\ Has(s, "quit")
         /\ ~Has(s, "reconfigure") -> {ngx_signal_worker_processes(s, "QUIT")}
    [] OTHER               -> Running(s)

Body(s) ==
  CASE MayExit(s)          -> {[s EXCEPT !.exited = TRUE]}
    [] ~MayExit(s) /\ Has(s, "terminate") -> {Terminating(s)}
    [] ~MayExit(s) /\ ~Has(s, "terminate") /\ Has(s, "quit") ->
         {ngx_signal_worker_processes(s, "QUIT")}
    [] OTHER               -> Running(s)

\* Mutated form of TopOfLoop: the delay does not grow.
TopOfLoop_flat(s) ==
  IF s.delay > 0 /\ Has(s, "sigalrm") THEN Unset([s EXCEPT !.sigio = 0], "sigalrm")
  ELSE s

\* The delay doubles until it is above 1000; how far above does not matter.
TopOfLoop(s) ==
  IF s.delay > 0 /\ Has(s, "sigalrm")
  THEN Unset([s EXCEPT !.sigio = 0,
                       !.delay = IF @ > 1000 THEN @ ELSE 2 * @], "sigalrm")
  ELSE s

-----------------------------------------------------------------------------
(* Steps.                                                                  *)

Awake(p) == m.procs[p].state \in {"run", "draining"}

\* The administrator.
Send(x) ==
  /\ ~m.exited /\ sent < MaxSignals /\ x \notin pending
  /\ x = "HUP" => "rollback" \in Scenarios \/ m.new_binary = 0
  /\ pending' = pending \cup {x} /\ sent' = sent + 1
  /\ UNCHANGED m

\* setitimer was called in the top of the loop.
Alarm ==
  /\ ~m.exited /\ m.delay > 0 /\ "ALRM" \notin pending
  /\ pending' = pending \cup {"ALRM"}
  /\ UNCHANGED <<m, sent>>

\* sigsuspend returns.
MasterStep ==
  /\ ~m.exited /\ pending # {}
  /\ LET s == ngx_signal_handler(m, pending)
     IN  m' \in {TopOfLoop(x) :
                   x \in Each(When({s}, "reap", ngx_reap_children), Body)}
  /\ pending' = {}
  /\ UNCHANGED sent

Dies(p, how) ==
  /\ m' = [m EXCEPT !.procs[p].state = how, !.procs[p].box = {}]
  /\ pending' = IF m.exited THEN pending ELSE pending \cup {"CHLD"}
  /\ UNCHANGED sent

\* A worker reads NGX_CMD_QUIT: no new connections, the old ones go on.
Drain(p) ==
  /\ m.procs[p].state = "run" /\ "QUIT" \in m.procs[p].box
  /\ m' = [m EXCEPT !.procs[p].state = "draining", !.procs[p].box = @ \ {"QUIT"}]
  /\ UNCHANGED <<pending, sent>>

\* Its last timer is gone: ngx_worker_process_exit.
Drained(p) == m.procs[p].state = "draining" /\ Dies(p, "zombie")

\* NGX_CMD_TERMINATE is read, unless the worker hangs.
Terminated(p) == Awake(p) /\ "TERM" \in m.procs[p].box /\ Dies(p, "zombie")

Killed(p) == Awake(p) /\ "KILL" \in m.procs[p].box /\ Dies(p, "zombie")

Reopen(p) ==
  /\ Awake(p) /\ "USR1" \in m.procs[p].box
  /\ m' = [m EXCEPT !.procs[p].box = @ \ {"USR1"}]
  /\ UNCHANGED <<pending, sent>>

\* A worker crashes, or finds that it cannot start: exit(2).
Crash(p) ==
  /\ Awake(p) /\ m.procs[p].what = "worker" /\ m.faults > 0
  /\ \E how \in {"zombie", "fatal"} :
       LET t == [m EXCEPT !.procs[p].state = how, !.procs[p].box = {}]
       IN  m' = IF how = "fatal" THEN Losing(t) ELSE Fault(t)
  /\ pending' = IF m.exited THEN pending ELSE pending \cup {"CHLD"}
  /\ UNCHANGED sent

\* The new binary's master exits, having failed or having been told so.
BinaryExits(p) ==
  m.procs[p].state = "run" /\ m.procs[p].what = "binary" /\ Dies(p, "zombie")

Over ==
  /\ m.exited \/ sent = MaxSignals \/ Signals = {}
  /\ UNCHANGED masterVars

Empty ==
  [table |-> <<>>, flags |-> {}, live |-> TRUE, new_binary |-> 0, delay |-> 0,
   sigio |-> 0, cycle |-> 1, procs |-> <<>>, faults |-> MaxFaults, lost |-> 0,
   exited |-> FALSE]

MasterInit ==
  /\ m \in ngx_start_worker_processes(Empty, "RESPAWN")
  /\ pending = {} /\ sent = 0

ChildStep(p) ==
  \/ Drain(p) \/ Drained(p) \/ Terminated(p) \/ Killed(p) \/ Reopen(p)
  \/ Crash(p) \/ BinaryExits(p)

MasterNext ==
  \/ \E x \in Signals : Send(x)
  \/ Alarm
  \/ MasterStep
  \/ \E p \in 1..Len(m.procs) : ChildStep(p)
  \/ Over

MasterSpec == MasterInit /\ [][MasterNext]_masterVars

\* A step of the master, told by the signals alone: no other step takes them.
Delivery == ~m.exited /\ pending # {} /\ pending' = {}

\* The kernel runs the master and its timer and kills what is to be killed; a
\* worker may hang on SIGTERM, but what it drains comes to an end.  Each of these
\* steps of a child stays enabled until it is taken and is taken once.
MasterFairSpec ==
  /\ MasterSpec
  /\ WF_pending(Delivery) /\ WF_masterVars(Alarm)
  /\ WF_masterVars(\E p \in 1..Len(m.procs) : Killed(p) \/ Drain(p) \/ Drained(p))

-----------------------------------------------------------------------------
(* Properties.                                                             *)

\* Through respawns, reconfigurations and upgrades, every child that has not
\* been waited for has exactly one slot of ngx_processes: no slot is reused
\* under a process that still runs, and ngx_last_process is never cut too low.
TableTracksChildren ==
  \A p \in 1..Len(m.procs) :
    m.procs[p].state # "gone" =>
      Cardinality({i \in 1..Len(m.table) : m.table[i].pid = p}) = 1

Worker(p) == m.procs[p].what = "worker"

\* ngx_master_process_exit is only reached when no worker is left.
NoOrphans ==
  m.exited => \A p \in 1..Len(m.procs) : Worker(p) => ~Awake(p)

\* Nothing is under way: no signal, no flag, nobody dead or told to go.
Quiet ==
  /\ ~m.exited /\ pending = {} /\ m.flags = {}
  /\ \A p \in 1..Len(m.procs) : m.procs[p].state \in {"run", "gone"}
  /\ \A p \in 1..Len(m.procs) : m.procs[p].box = {}

\* Once a reload, an upgrade or a crash has been dealt with, all workers run
\* the newest configuration, and as many as configured do but for those that
\* could not be forked or exited with the code 2: a worker that crashes is
\* always replaced, whatever else was under way.  (While the old binary has been
\* told to stop accepting, noaccepting is set and the state is not quiet.)
NewestWorkersOnly ==
  Quiet =>
    LET alive == {p \in 1..Len(m.procs) : Worker(p) /\ Awake(p)}
    IN  /\ Cardinality(alive) >= WorkerProcesses - m.lost
        /\ \A p \in alive : m.procs[p].cycle = m.cycle

\* No worker is left whose end could still be reported.  When not one worker
\* could be forked live is set all the same, and the master waits for nobody.
Childless == \A p \in 1..Len(m.procs) : Worker(p) => m.procs[p].state = "gone"

\* A fast shutdown ends although workers may hang on SIGTERM: the delay grows
\* until they are killed, however exits, alarms and sigio interleave.
TerminateEnds == Has(m, "terminate") ~> (m.exited \/ Childless)

\* A graceful shutdown ends once the connections have, whatever reloads,
\* upgrades and crashes were under way when it was asked for.
QuitEnds == Has(m, "quit") ~> (m.exited \/ Childless)
=============================================================================
