---------------------------- MODULE MasterProofs ----------------------------
(***************************************************************************)
(* The table of processes, the end of the master and the workers it leaves *)
(* running, for all numbers of workers, signals, crashes and failed forks. *)
(***************************************************************************)
EXTENDS MasterCycle, DataLemmas

Flag == {"reap", "terminate", "quit", "reconfigure", "restart", "reopen",
         "change_binary", "noaccept", "noaccepting", "sigalrm"}

SlotType ==
  [pid : Nat, exiting : BOOLEAN, exited : BOOLEAN, respawn : BOOLEAN,
   just_spawn : BOOLEAN, detached : BOOLEAN]

ProcType ==
  [state : {"run", "draining", "zombie", "fatal", "gone"},
   box : SUBSET {"QUIT", "TERM", "KILL", "USR1"}, cycle : Nat,
   what : {"worker", "binary"}]

State ==
  [table : Seq(SlotType), flags : SUBSET Flag, live : BOOLEAN, new_binary : Int,
   delay : Nat, sigio : Nat, cycle : Nat, procs : Seq(ProcType), faults : Nat,
   lost : Nat, exited : BOOLEAN]

Slots(s) == 1..Len(s.table)
Pids(s) == 1..Len(s.procs)

Gone(s, p) == s.procs[p].state = "gone"

\* Slots and processes correspond: no process has two slots, one that can still
\* be waited for has one, and a slot marked exited is that of a process gone; the
\* detached slots are those of new binaries, and are never respawned.
Tracked(s) ==
  /\ \A i \in Slots(s) : s.table[i].pid \in 0..Len(s.procs)
  /\ \A i, j \in Slots(s) : s.table[i].pid = s.table[j].pid => i = j \/ s.table[i].pid = 0
  /\ \A p \in Pids(s) : ~Gone(s, p) => \E i \in Slots(s) : s.table[i].pid = p
  /\ \A i \in Slots(s) : s.table[i].pid # 0 /\ s.table[i].exited => Gone(s, s.table[i].pid)
  /\ \A i \in Slots(s) : s.table[i].pid # 0 =>
       (s.table[i].detached <=> s.procs[s.table[i].pid].what = "binary")
  /\ \A i \in Slots(s) : s.table[i].detached => ~s.table[i].respawn

Good(s) == s \in State /\ Tracked(s)

\* live is unset only when no worker is left.
Holding(s) ==
  ~s.live => \A p \in Pids(s) : s.procs[p].what = "worker" => Gone(s, p)

\* A new configuration is not asked for while there is a new binary, or the
\* master goes anyway.
NoRollback(s) ==
  Has(s, "reconfigure") => s.new_binary = 0 \/ Has(s, "terminate") \/ Has(s, "quit")

MasterInv ==
  /\ Good(m) /\ pending \subseteq Signals \cup {"ALRM", "CHLD"}
  /\ "rollback" \notin Scenarios =>
       /\ Holding(m) /\ NoRollback(m)
       /\ m.exited => ~m.live
       /\ "HUP" \in pending => m.new_binary = 0

-----------------------------------------------------------------------------
(* Steps that leave every process in its slot.                             *)

\* The processes of t are those of s, in the same slots; more may be gone.
Same(s, t) ==
  /\ Len(t.table) = Len(s.table) /\ Len(t.procs) = Len(s.procs)
  /\ \A i \in Slots(s) : /\ t.table[i].pid = s.table[i].pid
                         /\ t.table[i].detached = s.table[i].detached
                         /\ t.table[i].respawn => s.table[i].respawn
                         /\ t.table[i].pid # 0 /\ t.table[i].exited => Gone(t, t.table[i].pid)
  /\ \A p \in Pids(s) : t.procs[p].what = s.procs[p].what /\ (Gone(s, p) => Gone(t, p))

\* What the flags and new_binary of t say that could matter for a rollback.
Calm(s, t) ==
  /\ Has(t, "reconfigure") => Has(s, "reconfigure")
  /\ Has(s, "terminate") => Has(t, "terminate")
  /\ Has(s, "quit") => Has(t, "quit")
  /\ t.new_binary \in {s.new_binary, 0}
  /\ t.exited = s.exited

Alike(s, t) == t \in State /\ Same(s, t) /\ Calm(s, t) /\ t.live = s.live

\* The parts of a state.
LEMMA StateIs ==
  ASSUME NEW s \in State
  PROVE  /\ s.table \in Seq(SlotType) /\ s.procs \in Seq(ProcType)
         /\ Len(s.table) \in Nat /\ Len(s.procs) \in Nat
         /\ s.flags \subseteq Flag /\ s.live \in BOOLEAN /\ s.new_binary \in Int
         /\ s.exited \in BOOLEAN /\ s.faults \in Nat /\ s.cycle \in Nat
         /\ s.delay \in Nat /\ s.sigio \in Nat /\ s.lost \in Nat
         /\ \A i \in Slots(s) : s.table[i] \in SlotType
         /\ \A p \in Pids(s) : s.procs[p] \in ProcType
<1>1. s.table \in Seq(SlotType) /\ s.procs \in Seq(ProcType)
  BY DEF State
<1> QED BY <1>1 DEF State, Slots, Pids

\* What is tracked stays so.
LEMMA SameGood ==
  ASSUME NEW s, NEW t, Good(s), t \in State, Same(s, t)
  PROVE  Good(t) /\ (Holding(s) /\ t.live = s.live => Holding(t))
<1>1. Slots(t) = Slots(s) /\ Pids(t) = Pids(s)
  BY DEF Same, Slots, Pids
<1>2. \A i \in Slots(s) : s.table[i].pid \in 0..Len(s.procs)
  BY DEF Good, Tracked
<1>3. \A i \in Slots(s) : s.table[i].pid # 0 => s.table[i].pid \in Pids(s)
  <2>1. Len(s.procs) \in Nat
    BY StateIs DEF Good
  <2> QED BY <1>2, <2>1 DEF Pids
<1>4. Tracked(t)
  <2>1. \A i \in Slots(s) : t.table[i].pid = s.table[i].pid
    BY DEF Same
  <2>2. \A p \in Pids(s) : t.procs[p].what = s.procs[p].what
    BY DEF Same
  <2>3. \A p \in Pids(s) : Gone(s, p) => Gone(t, p)
    BY DEF Same
  <2>4. \A i \in Slots(s) : t.table[i].pid \in 0..Len(t.procs)
    BY <1>2, <2>1 DEF Same
  <2>5. \A i, j \in Slots(s) : t.table[i].pid = t.table[j].pid => i = j \/ t.table[i].pid = 0
    <3>1. \A i, j \in Slots(s) : s.table[i].pid = s.table[j].pid => i = j \/ s.table[i].pid = 0
      BY DEF Good, Tracked
    <3> QED BY <2>1, <3>1
  <2>6. \A p \in Pids(s) : ~Gone(t, p) => \E i \in Slots(s) : t.table[i].pid = p
    <3> TAKE p \in Pids(s)
    <3> HAVE ~Gone(t, p)
    <3>1. PICK i \in Slots(s) : s.table[i].pid = p
      BY <2>3 DEF Good, Tracked
    <3> QED BY <2>1, <3>1
  <2>7. \A i \in Slots(s) : t.table[i].pid # 0 /\ t.table[i].exited => Gone(t, t.table[i].pid)
    BY DEF Same
  <2>8. ASSUME NEW i \in Slots(s), t.table[i].pid # 0
        PROVE  t.table[i].detached <=> t.procs[t.table[i].pid].what = "binary"
    <3>1. t.table[i].pid = s.table[i].pid /\ s.table[i].pid \in Pids(s) /\ s.table[i].pid # 0
      BY <1>3, <2>1, <2>8
    <3>2. t.procs[t.table[i].pid].what = s.procs[s.table[i].pid].what
      BY <2>2, <3>1
    <3>3. s.table[i].detached <=> s.procs[s.table[i].pid].what = "binary"
      BY <3>1 DEF Good, Tracked
    <3>4. t.table[i].detached = s.table[i].detached
      BY DEF Same
    <3> QED BY <3>2, <3>3, <3>4
  <2>9. \A i \in Slots(s) : t.table[i].detached => ~t.table[i].respawn
    BY Zenon DEF Good, Tracked, Same
  <2> QED BY <1>1, <2>4, <2>5, <2>6, <2>7, <2>8, <2>9 DEF Tracked
<1>5. Holding(s) /\ t.live = s.live => Holding(t)
  BY <1>1 DEF Holding, Same
<1> QED BY <1>4, <1>5 DEF Good

\* Nothing changes.
LEMMA AlikeSelf ==
  ASSUME NEW s, Good(s)
  PROVE  Alike(s, s)
BY DEF Alike, Same, Calm, Good, Tracked

\* One such step after another.
LEMMA AlikeTwice ==
  ASSUME NEW s, NEW t, NEW u, Alike(s, t), Alike(t, u)
  PROVE  Alike(s, u)
<1>1. Slots(t) = Slots(s) /\ Pids(t) = Pids(s)
  BY DEF Alike, Same, Slots, Pids
<1>2. Same(s, u)
  BY <1>1 DEF Alike, Same
<1>3. Calm(s, u)
  BY DEF Alike, Calm
<1> QED BY <1>2, <1>3 DEF Alike

\* A state that has changed in other fields only.
LEMMA AlikeFields ==
  ASSUME NEW s, Good(s), NEW t, t \in State, t.table = s.table, t.procs = s.procs,
         t.live = s.live, Calm(s, t)
  PROVE  Alike(s, t)
BY DEF Alike, Same, Good, Tracked, Gone

\* A flag that does not matter is set or unset.
LEMMA FlagIs ==
  ASSUME NEW s, Good(s), NEW f \in Flag
  PROVE  /\ f # "reconfigure" => Alike(s, Set(s, f))
         /\ f \notin {"terminate", "quit"} => Alike(s, Unset(s, f))
<1>1. s \in State /\ s.flags \subseteq Flag
  BY StateIs DEF Good
<1>2. /\ Set(s, f) \in State /\ Set(s, f).table = s.table /\ Set(s, f).procs = s.procs
      /\ Set(s, f).live = s.live /\ Set(s, f).new_binary = s.new_binary
      /\ Set(s, f).exited = s.exited /\ Set(s, f).flags = s.flags \cup {f}
  BY <1>1 DEF Set, State
<1>3. /\ Unset(s, f) \in State /\ Unset(s, f).table = s.table /\ Unset(s, f).procs = s.procs
      /\ Unset(s, f).live = s.live /\ Unset(s, f).new_binary = s.new_binary
      /\ Unset(s, f).exited = s.exited /\ Unset(s, f).flags = s.flags \ {f}
  BY <1>1 DEF Unset, State
<1>4. f # "reconfigure" => Calm(s, Set(s, f))
  BY <1>2 DEF Calm, Has
<1>5. f \notin {"terminate", "quit"} => Calm(s, Unset(s, f))
  BY <1>3 DEF Calm, Has
<1> QED BY <1>2, <1>3, <1>4, <1>5, AlikeFields

\* Slot i is written.
LEMMA SlotWritten ==
  ASSUME NEW s, Good(s), NEW i \in Slots(s), NEW e \in SlotType,
         e.pid = s.table[i].pid, e.detached = s.table[i].detached,
         e.respawn => s.table[i].respawn,
         e.pid # 0 /\ e.exited => Gone(s, e.pid),
         NEW t \in State, t.table = [s.table EXCEPT ![i] = e], t.procs = s.procs,
         t.live = s.live, Calm(s, t)
  PROVE  Alike(s, t)
<1>1. s.table \in Seq(SlotType) /\ Len(s.table) \in Nat
  BY StateIs DEF Good
<1>2. Len(t.table) = Len(s.table) /\ t.table[i] = e
      /\ \A j \in Slots(s) : j # i => t.table[j] = s.table[j]
  BY <1>1 DEF Slots
<1>3. \A p : Gone(t, p) <=> Gone(s, p)
  BY DEF Gone
<1>4. Same(s, t)
  BY <1>2, <1>3 DEF Same, Good, Tracked
<1> QED BY <1>4 DEF Alike

\* A process is told, or found gone.
LEMMA TellIs ==
  ASSUME NEW s, Good(s), NEW i \in Slots(s), s.table[i].pid # 0,
         NEW signo \in {"QUIT", "TERM", "KILL", "USR1"}
  PROVE  Alike(s, Tell(s, i, signo))
<1> DEFINE e == s.table[i]
           p == e.pid
<1>1. /\ s \in State /\ s.table \in Seq(SlotType) /\ s.procs \in Seq(ProcType)
      /\ e \in SlotType /\ Len(s.procs) \in Nat /\ \A k \in Pids(s) : s.procs[k] \in ProcType
  BY StateIs DEF Good
<1>2. p \in Pids(s)
  <2>1. p \in 0..Len(s.procs) /\ p # 0
    BY DEF Good, Tracked
  <2> QED BY <1>1, <2>1 DEF Pids
<1>3. CASE Gone(s, p)
  <2> DEFINE e2 == [e EXCEPT !.exited = TRUE, !.exiting = FALSE]
             t == [s EXCEPT !.table[i].exited = TRUE, !.table[i].exiting = FALSE]
  <2>1. /\ e2 \in SlotType /\ e2.pid = e.pid /\ e2.detached = e.detached
        /\ e2.respawn = e.respawn
    BY <1>1 DEF SlotType
  <2>2. t = [s EXCEPT !.table = [s.table EXCEPT ![i] = e2]]
    BY <1>1 DEF Slots, State, SlotType
  <2>3. [s.table EXCEPT ![i] = e2] \in Seq(SlotType)
    BY <1>1, <2>1 DEF Slots
  <2> HIDE DEF e2, t
  <2>4. /\ t \in State /\ t.table = [s.table EXCEPT ![i] = e2] /\ t.procs = s.procs
        /\ t.live = s.live /\ t.flags = s.flags /\ t.new_binary = s.new_binary
        /\ t.exited = s.exited
    BY <1>1, <2>2, <2>3 DEF State
  <2>5. Calm(s, t)
    BY <2>4 DEF Calm, Has
  <2>6. Alike(s, t)
    BY <1>3, <2>1, <2>4, <2>5, SlotWritten
  <2>7. Good(t)
    BY <2>6, SameGood DEF Alike
  <2>8. Alike(t, Set(t, "reap"))
    BY <2>7, FlagIs DEF Flag
  <2>9. Tell(s, i, signo) = Set(t, "reap")
    BY <1>3 DEF Tell, Gone, t
  <2> QED BY <2>6, <2>8, <2>9, AlikeTwice
<1>4. CASE ~Gone(s, p)
  <2> DEFINE q == s.procs[p]
             e2 == [e EXCEPT !.exiting = @ \/ signo # "USR1"]
             box == IF q.state \in {"zombie", "fatal"} THEN q.box ELSE q.box \cup {signo}
             q2 == [q EXCEPT !.box = box]
             t == Tell(s, i, signo)
  <2>1. /\ e2 \in SlotType /\ e2.pid = e.pid /\ e2.detached = e.detached
        /\ e2.respawn = e.respawn /\ e2.exited = e.exited
    BY <1>1 DEF SlotType
  <2>2. q2 \in ProcType /\ q2.state = q.state /\ q2.what = q.what
    <3>1. q \in ProcType
      BY <1>1, <1>2
    <3>2. box \subseteq {"QUIT", "TERM", "KILL", "USR1"}
      BY <3>1 DEF ProcType
    <3> HIDE DEF q, box
    <3> QED BY <3>1, <3>2 DEF ProcType
  <2>3. t = [s EXCEPT !.table = [s.table EXCEPT ![i] = e2], !.procs = [s.procs EXCEPT ![p] = q2]]
    BY <1>1, <1>2, <1>4 DEF Tell, Gone, State, Slots, Pids, SlotType, ProcType
  <2> HIDE DEF e2, q2, t
  <2>4. /\ [s.table EXCEPT ![i] = e2] \in Seq(SlotType)
        /\ [s.procs EXCEPT ![p] = q2] \in Seq(ProcType)
    BY <1>1, <1>2, <2>1, <2>2 DEF Slots, Pids
  <2>5. /\ t \in State /\ t.table = [s.table EXCEPT ![i] = e2]
        /\ t.procs = [s.procs EXCEPT ![p] = q2]
        /\ t.live = s.live /\ t.flags = s.flags /\ t.new_binary = s.new_binary
        /\ t.exited = s.exited
    BY <1>1, <2>3, <2>4 DEF State
  <2>6. /\ Len(t.table) = Len(s.table) /\ Len(t.procs) = Len(s.procs) /\ t.table[i] = e2
        /\ \A j \in Slots(s) : j # i => t.table[j] = s.table[j]
        /\ \A k \in Pids(s) : t.procs[k].state = s.procs[k].state /\ t.procs[k].what = s.procs[k].what
    <3>1. /\ Len(t.table) = Len(s.table) /\ t.table[i] = e2
          /\ \A j \in Slots(s) : j # i => t.table[j] = s.table[j]
      BY <1>1, <2>5 DEF Slots
    <3>2. /\ Len(t.procs) = Len(s.procs) /\ t.procs[p] = q2
          /\ \A k \in Pids(s) : k # p => t.procs[k] = s.procs[k]
      BY <1>1, <1>2, <2>5 DEF Pids
    <3> QED BY <2>2, <3>1, <3>2
  <2>7. \A k \in Pids(s) : Gone(t, k) <=> Gone(s, k)
    BY <2>6 DEF Gone
  <2>8. \A j \in Slots(s) : s.table[j].pid # 0 => s.table[j].pid \in Pids(s)
    BY <1>1 DEF Good, Tracked, Pids
  <2>9. Same(s, t)
    BY <2>1, <2>6, <2>7, <2>8 DEF Same, Good, Tracked
  <2>10. Calm(s, t)
    BY <2>5 DEF Calm, Has
  <2> QED BY <2>5, <2>9, <2>10 DEF Alike, t
<1> QED BY <1>3, <1>4

\* Signalling one slot.
LEMMA SignalSlotIs ==
  ASSUME NEW s, Good(s), NEW i \in Slots(s), NEW signo \in {"QUIT", "TERM", "KILL", "USR1"}
  PROVE  Alike(s, SignalSlot(s, i, signo))
<1> DEFINE e == s.table[i]
<1>1. Alike(s, s)
  BY AlikeSelf
<1>2. CASE SignalSlot(s, i, signo) = s
  BY <1>1, <1>2
<1>3. CASE ~e.detached /\ e.pid # 0 /\ e.just_spawn
  <2> DEFINE e2 == [e EXCEPT !.just_spawn = FALSE]
             t == [s EXCEPT !.table[i].just_spawn = FALSE]
  <2>1. s \in State /\ s.table \in Seq(SlotType) /\ e \in SlotType
    BY StateIs DEF Good
  <2>2. /\ e2 \in SlotType /\ e2.pid = e.pid /\ e2.detached = e.detached
        /\ e2.respawn = e.respawn /\ e2.exited = e.exited
    BY <2>1 DEF SlotType
  <2>3. t = [s EXCEPT !.table = [s.table EXCEPT ![i] = e2]]
    BY <2>1 DEF Slots, State, SlotType
  <2>4. [s.table EXCEPT ![i] = e2] \in Seq(SlotType)
    BY <2>1, <2>2 DEF Slots
  <2>5. SignalSlot(s, i, signo) = t
    BY <1>3 DEF SignalSlot
  <2> HIDE DEF e2, t
  <2>6. /\ t \in State /\ t.table = [s.table EXCEPT ![i] = e2] /\ t.procs = s.procs
        /\ t.live = s.live /\ t.flags = s.flags /\ t.new_binary = s.new_binary
        /\ t.exited = s.exited
    BY <2>1, <2>3, <2>4 DEF State
  <2>7. Calm(s, t)
    BY <2>6 DEF Calm, Has
  <2>8. e2.pid # 0 /\ e2.exited => Gone(s, e2.pid)
    BY <2>2 DEF Good, Tracked
  <2> QED BY <2>2, <2>5, <2>6, <2>7, <2>8, SlotWritten
<1>4. CASE e.pid # 0 /\ SignalSlot(s, i, signo) = Tell(s, i, signo)
  BY <1>4, TellIs
<1>5. e.detached \/ e.pid = 0 => SignalSlot(s, i, signo) = s
  BY DEF SignalSlot
<1>6. ~e.detached /\ e.pid # 0 /\ ~e.just_spawn =>
        SignalSlot(s, i, signo) \in {s, Tell(s, i, signo)}
  BY DEF SignalSlot
<1> QED BY <1>2, <1>3, <1>4, <1>5, <1>6

\* f goes through the slots 1..n and signals each.
Signalling(f, n, s, signo) ==
  f = [i \in 0..n |-> IF i = 0 THEN s ELSE SignalSlot(f[i - 1], i, signo)]

\* There is such an f.
LEMMA SignalsExist ==
  ASSUME NEW s, NEW signo, NEW n \in Nat
  PROVE  \E f : Signalling(f, n, s, signo)
<1> DEFINE Bad == {k \in Nat : ~\E f : Signalling(f, k, s, signo)}
<1> SUFFICES ASSUME n \in Bad PROVE FALSE
  OBVIOUS
<1>1. PICK k \in Bad : \A j \in Bad : k <= j
  <2>1. Bad \in SUBSET Nat /\ Bad # {}
    OBVIOUS
  <2> HIDE DEF Bad
  <2> QED BY <2>1, LeastNat
<1>2. k \in Nat /\ ~\E f : Signalling(f, k, s, signo)
  OBVIOUS
<1>3. k # 0
  <2> DEFINE f == [i \in 0..0 |-> s]
  <2>1. Signalling(f, 0, s, signo)
    BY DEF Signalling
  <2> QED BY <1>2, <2>1
<1>4. k - 1 \in Nat /\ k - 1 \notin Bad
  BY <1>1, <1>2, <1>3
<1>5. PICK f : Signalling(f, k - 1, s, signo)
  BY <1>4
<1> DEFINE g == [i \in 0..k |-> IF i = k THEN SignalSlot(f[k - 1], k, signo) ELSE f[i]]
<1>6. ASSUME NEW i \in 0..k
      PROVE  g[i] = IF i = 0 THEN s ELSE SignalSlot(g[i - 1], i, signo)
  <2>1. CASE i = k
    <3>1. k - 1 \in 0..k /\ k - 1 # k
      BY <1>2, <1>4
    <3> QED BY <1>3, <2>1, <3>1
  <2>2. CASE i # k
    <3>1. i \in 0..(k - 1) /\ (i # 0 => i - 1 \in 0..k /\ i - 1 # k)
      BY <1>2, <1>4, <2>2
    <3> QED BY <1>5, <2>2, <3>1 DEF Signalling
  <2> QED BY <2>1, <2>2
<1>7. g = [i \in 0..k |-> g[i]]
  OBVIOUS
<1> HIDE DEF g
<1>8. Signalling(g, k, s, signo)
  BY <1>6, <1>7 DEF Signalling
<1> QED BY <1>2, <1>8

\* Signalling the workers leaves every process where it is.
LEMMA SignalIs ==
  ASSUME NEW s, Good(s), NEW signo \in {"QUIT", "TERM", "KILL", "USR1"}
  PROVE  Alike(s, ngx_signal_worker_processes(s, signo))
<1> DEFINE n == Len(s.table)
           f == CHOOSE f : Signalling(f, n, s, signo)
<1>1. n \in Nat
  BY StateIs DEF Good
<1>2. Signalling(f, n, s, signo)
  BY <1>1, SignalsExist
<1>3. ngx_signal_worker_processes(s, signo) = f[n]
  BY DEF ngx_signal_worker_processes, Signalling
<1> HIDE DEF f, n
<1> DEFINE Bad == {k \in 0..n : ~Alike(s, f[k])}
<1>4. Bad = {}
  <2> SUFFICES ASSUME Bad # {} PROVE FALSE
    OBVIOUS
  <2>1. PICK k \in Bad : \A j \in Bad : k <= j
    <3>1. Bad \in SUBSET Nat
      BY <1>1
    <3> HIDE DEF Bad
    <3> QED BY <3>1, LeastNat
  <2>2. k \in 0..n /\ ~Alike(s, f[k])
    BY <2>1
  <2>3. k # 0
    <3>1. 0 \in 0..n => f[0] = s
      BY <1>2 DEF Signalling
    <3> QED BY <2>2, <3>1, AlikeSelf
  <2>4. k - 1 \in 0..n /\ ~(k <= k - 1) /\ k \in 1..n
    BY <1>1, <2>2, <2>3
  <2>5. Alike(s, f[k - 1])
    BY <2>1, <2>4
  <2>6. f[k] = SignalSlot(f[k - 1], k, signo)
    BY <1>2, <2>3, <2>4 DEF Signalling
  <2>7. Good(f[k - 1]) /\ k \in Slots(f[k - 1])
    BY <2>4, <2>5, SameGood DEF Alike, Same, Slots, n
  <2>8. Alike(f[k - 1], f[k])
    BY <2>6, <2>7, SignalSlotIs
  <2> QED BY <2>2, <2>5, <2>8, AlikeTwice
<1>5. n \in 0..n
  BY <1>1
<1> QED BY <1>3, <1>4, <1>5

-----------------------------------------------------------------------------
(* Forking.                                                                *)

\* What forking leaves as it is.
Rest(s, t) ==
  t.flags = s.flags /\ t.live = s.live /\ t.new_binary = s.new_binary /\ t.exited = s.exited

\* The child is new.
LEMMA ForkedIs ==
  ASSUME NEW s, Good(s), NEW what \in {"worker", "binary"}
  PROVE  LET f == Forked(s, what)
             n == Len(s.procs)
         IN  /\ f \in State /\ Rest(s, f) /\ f.table = s.table
             /\ f.procs \in Seq(ProcType) /\ Len(f.procs) = n + 1
             /\ \A p \in Pids(s) : f.procs[p] = s.procs[p]
             /\ f.procs[n + 1].what = what /\ f.procs[n + 1].state = "run"
<1> DEFINE q == [state |-> "run", box |-> {}, cycle |-> s.cycle, what |-> what]
           P == Append(s.procs, q)
           n == Len(s.procs)
           f == Forked(s, what)
<1>1. s \in State /\ s.procs \in Seq(ProcType) /\ s.cycle \in Nat
  BY StateIs DEF Good
<1>2. q \in ProcType /\ q.what = what /\ q.state = "run"
  BY <1>1 DEF ProcType
<1> HIDE DEF q
<1>3. /\ P \in Seq(ProcType) /\ Len(P) = n + 1 /\ P[n + 1] = q
      /\ \A p \in 1..n : P[p] = s.procs[p]
  BY <1>1, <1>2
<1>4. f = [s EXCEPT !.procs = P]
  BY DEF Forked, q
<1> HIDE DEF P, f
<1>5. f \in State /\ Rest(s, f) /\ f.table = s.table /\ f.procs = P
  BY <1>1, <1>3, <1>4 DEF State, Rest
<1> QED BY <1>2, <1>3, <1>5 DEF Pids, f

\* The slot of a new child is free.
LEMMA FreeSlotIs ==
  ASSUME NEW s, Good(s)
  PROVE  LET i == FreeSlot(s)
         IN  \/ i = Len(s.table) + 1
             \/ i \in Slots(s) /\ s.table[i].pid = 0
<1> DEFINE free == {i \in 1..Len(s.table) : s.table[i].pid = 0}
<1>1. CASE free = {}
  BY <1>1 DEF FreeSlot
<1>2. CASE free # {}
  <2>1. free \in SUBSET Nat
    BY StateIs DEF Good
  <2>2. \E i \in free : \A j \in free : i <= j
    <3> HIDE DEF free
    <3> QED BY <1>2, <2>1, LeastNat
  <2>3. FreeSlot(s) \in free
    BY <1>2, <2>2 DEF FreeSlot
  <2> QED BY <2>3 DEF Slots
<1> QED BY <1>1, <1>2

\* A new process n + 1 has got the slot i, which was free, or whose process is gone.
LEMMA PlacedNew ==
  ASSUME NEW s, Good(s), NEW t \in State, NEW i \in Slots(t), NEW what,
         Len(t.procs) = Len(s.procs) + 1,
         \A p \in Pids(s) : t.procs[p] = s.procs[p],
         t.procs[Len(t.procs)].what = what,
         t.table[i].pid = Len(t.procs), t.table[i].exited = FALSE,
         t.table[i].detached <=> what = "binary",
         t.table[i].detached => ~t.table[i].respawn,
         Slots(t) = Slots(s) \cup {i},
         \A j \in Slots(s) : j # i => t.table[j] = s.table[j],
         i \in Slots(s) => s.table[i].pid = 0 \/ Gone(s, s.table[i].pid)
  PROVE  Good(t)
<1> DEFINE n == Len(s.procs)
<1>1. n \in Nat /\ Pids(s) = 1..n /\ Pids(t) = 1..(n + 1) /\ Len(t.procs) = n + 1
  BY StateIs DEF Good, Pids
<1>2. \A j \in Slots(s) : s.table[j].pid \in 0..n
  BY DEF Good, Tracked
<1> HIDE DEF n
<1>3. \A j \in Slots(s) : s.table[j].pid # n + 1 /\ (s.table[j].pid # 0 => s.table[j].pid \in Pids(s))
  BY <1>1, <1>2
<1>4. \A p \in Pids(s) : (Gone(t, p) <=> Gone(s, p)) /\ t.procs[p].what = s.procs[p].what
  BY DEF Gone
<1>5. \A j \in Slots(t) : t.table[j].pid \in 0..Len(t.procs)
  <2> TAKE j \in Slots(t)
  <2>1. CASE j = i
    BY <1>1, <2>1
  <2>2. CASE j # i
    BY <1>1, <1>2, <2>2
  <2> QED BY <2>1, <2>2
<1>6. ASSUME NEW j \in Slots(t), NEW k \in Slots(t), t.table[j].pid = t.table[k].pid, j # k
      PROVE  t.table[j].pid = 0
  <2>1. CASE j = i
    BY <1>1, <1>3, <1>6, <2>1
  <2>2. CASE k = i
    BY <1>1, <1>3, <1>6, <2>2
  <2>3. CASE j # i /\ k # i
    <3>1. j \in Slots(s) /\ k \in Slots(s) /\ s.table[j].pid = s.table[k].pid
      BY <1>6, <2>3
    <3>2. s.table[j].pid = 0
      BY <1>6, <3>1 DEF Good, Tracked
    <3> QED BY <2>3, <3>1, <3>2
  <2> QED BY <2>1, <2>2, <2>3
<1>7. ASSUME NEW p \in Pids(t), ~Gone(t, p)
      PROVE  \E j \in Slots(t) : t.table[j].pid = p
  <2>1. CASE p = n + 1
    BY <1>1, <2>1
  <2>2. CASE p # n + 1
    <3>1. p \in Pids(s) /\ p # 0
      BY <1>1, <2>2
    <3>2. ~Gone(s, p)
      BY <1>4, <1>7, <3>1
    <3>3. PICK j \in Slots(s) : s.table[j].pid = p
      BY <3>1, <3>2 DEF Good, Tracked
    <3>4. j # i
      BY <3>1, <3>2, <3>3
    <3> QED BY <3>3, <3>4
  <2> QED BY <2>1, <2>2
<1>8. ASSUME NEW j \in Slots(t), t.table[j].pid # 0, t.table[j].exited
      PROVE  Gone(t, t.table[j].pid)
  <2>1. j # i
    BY <1>8
  <2>2. j \in Slots(s) /\ t.table[j] = s.table[j]
    BY <2>1
  <2>3. Gone(s, s.table[j].pid)
    BY <1>8, <2>2 DEF Good, Tracked
  <2> QED BY <1>3, <1>4, <1>8, <2>2, <2>3
<1>9. ASSUME NEW j \in Slots(t), t.table[j].pid # 0
      PROVE  t.table[j].detached <=> t.procs[t.table[j].pid].what = "binary"
  <2>1. CASE j = i
    BY <2>1
  <2>2. CASE j # i
    <3>1. j \in Slots(s) /\ t.table[j] = s.table[j] /\ s.table[j].pid \in Pids(s)
      BY <1>3, <1>9, <2>2
    <3>2. s.table[j].detached <=> s.procs[s.table[j].pid].what = "binary"
      BY <1>9, <3>1 DEF Good, Tracked
    <3>3. t.procs[t.table[j].pid].what = s.procs[s.table[j].pid].what
      BY <1>4, <3>1
    <3> QED BY <3>1, <3>2, <3>3
  <2> QED BY <2>1, <2>2
<1>10. ASSUME NEW j \in Slots(t), t.table[j].detached
       PROVE  ~t.table[j].respawn
  <2>1. CASE j = i
    BY <1>10, <2>1
  <2>2. CASE j # i
    <3>1. j \in Slots(s) /\ t.table[j] = s.table[j]
      BY <2>2
    <3> QED BY <1>10, <3>1 DEF Good, Tracked
  <2> QED BY <2>1, <2>2
<1> QED BY <1>5, <1>6, <1>7, <1>8, <1>9, <1>10 DEF Good, Tracked

\* One call that fails.
LEMMA FaultIs ==
  ASSUME NEW s, Good(s), NEW what, NEW x \in SpawnFails(s, what)
  PROVE  /\ Alike(s, x) /\ Rest(s, x) /\ x.procs = s.procs /\ x.table = s.table
         /\ x.cycle = s.cycle /\ x.lost = IF what = "worker" THEN s.lost + 1 ELSE s.lost
<1> DEFINE k == s.faults - 1
           l == IF what = "worker" THEN s.lost + 1 ELSE s.lost
<1>1. s \in State /\ s.faults \in Nat /\ s.lost \in Nat
  BY StateIs DEF Good
<1>2. s.faults # 0 /\ x = IF what = "worker" THEN [s EXCEPT !.faults = k, !.lost = s.lost + 1]
                          ELSE [s EXCEPT !.faults = k]
  BY DEF SpawnFails, Fault, Losing
<1>3. k \in Nat /\ s.lost + 1 \in Nat
  BY <1>1, <1>2
<1> HIDE DEF k
<1>4. /\ x \in State /\ Rest(s, x) /\ x.procs = s.procs /\ x.table = s.table
      /\ x.cycle = s.cycle /\ x.lost = l
  <2>1. CASE what = "worker"
    BY <1>1, <1>2, <1>3, <2>1 DEF State, Rest
  <2>2. CASE what # "worker"
    BY <1>1, <1>2, <1>3, <2>2 DEF State, Rest
  <2> QED BY <2>1, <2>2
<1>5. Calm(s, x)
  BY <1>4 DEF Calm, Rest, Has
<1> QED BY <1>4, <1>5, AlikeFields DEF Rest

\* A child is forked and gets a slot, or the fork fails.
LEMMA SpawnIs ==
  ASSUME NEW s, Good(s), NEW what \in {"worker", "binary"},
         NEW type \in {"RESPAWN", "JUST_RESPAWN", "DETACHED"},
         what = "binary" <=> type = "DETACHED",
         NEW x \in ngx_spawn_process(s, what, type)
  PROVE  /\ Good(x) /\ Rest(s, x)
         /\ what = "binary" /\ Holding(s) => Holding(x)
<1>1. CASE x \in SpawnFails(s, what)
  <2>1. Alike(s, x) /\ Rest(s, x)
    BY <1>1, FaultIs
  <2> QED BY <2>1, SameGood DEF Alike
<1>2. CASE x \notin SpawnFails(s, what)
  <2> DEFINE f == Forked(s, what)
             n == Len(s.procs)
             e == Slot(Len(f.procs), type)
             i == FreeSlot(s)
             T == IF i > Len(f.table) THEN Append(f.table, e) ELSE [f.table EXCEPT ![i] = e]
  <2>1. /\ f \in State /\ Rest(s, f) /\ f.table = s.table
        /\ f.procs \in Seq(ProcType) /\ Len(f.procs) = n + 1
        /\ \A p \in Pids(s) : f.procs[p] = s.procs[p]
        /\ f.procs[n + 1].what = what /\ f.procs[n + 1].state = "run"
    BY ForkedIs
  <2>2. /\ n \in Nat /\ s.table \in Seq(SlotType) /\ Len(s.table) \in Nat
    BY StateIs DEF Good
  <2>3. x = [f EXCEPT !.table = T]
    BY <1>2 DEF ngx_spawn_process
  <2> HIDE DEF f
  <2>4. /\ e \in SlotType /\ e.pid = n + 1 /\ e.exited = FALSE
        /\ (e.detached <=> what = "binary") /\ (e.detached => ~e.respawn)
    <3>1. n + 1 \in Nat
      BY <2>2
    <3>2. PICK pid \in Nat : pid = n + 1
      BY <3>1
    <3>3. e = [pid |-> pid, exiting |-> FALSE, exited |-> FALSE,
               respawn    |-> type \in {"RESPAWN", "JUST_RESPAWN"},
               just_spawn |-> type = "JUST_RESPAWN",
               detached   |-> type = "DETACHED"]
      BY <2>1, <3>2 DEF Slot
    <3> HIDE DEF e, n
    <3>4. e \in SlotType /\ e.pid = pid /\ e.exited = FALSE
      BY <3>3 DEF SlotType
    <3>5. (e.detached <=> type = "DETACHED") /\ (e.respawn <=> type \in {"RESPAWN", "JUST_RESPAWN"})
      BY <3>3
    <3> QED BY <3>2, <3>4, <3>5
  <2>5. i = Len(s.table) + 1 \/ (i \in Slots(s) /\ s.table[i].pid = 0)
    BY FreeSlotIs
  <2> HIDE DEF e, i
  <2>6. /\ T \in Seq(SlotType) /\ i \in 1..Len(T) /\ 1..Len(T) = Slots(s) \cup {i} /\ T[i] = e
        /\ \A j \in Slots(s) : j # i => T[j] = s.table[j]
    <3>1. CASE i = Len(s.table) + 1
      <4>1. T = Append(s.table, e)
        BY <2>1, <2>2, <3>1
      <4> HIDE DEF T
      <4>2. /\ T \in Seq(SlotType) /\ Len(T) = Len(s.table) + 1 /\ T[Len(s.table) + 1] = e
            /\ \A j \in 1..Len(s.table) : T[j] = s.table[j]
        BY <2>2, <2>4, <4>1
      <4> QED BY <2>2, <3>1, <4>2 DEF Slots
    <3>2. CASE i \in Slots(s)
      <4>1. T = [s.table EXCEPT ![i] = e]
        BY <2>1, <2>2, <3>2 DEF Slots
      <4> HIDE DEF T
      <4>2. /\ T \in Seq(SlotType) /\ Len(T) = Len(s.table) /\ T[i] = e
            /\ \A j \in 1..Len(s.table) : j # i => T[j] = s.table[j]
        BY <2>2, <2>4, <3>2, <4>1 DEF Slots
      <4> QED BY <2>2, <3>2, <4>2 DEF Slots
    <3> QED BY <2>5, <3>1, <3>2
  <2> HIDE DEF T
  <2>7. x \in State /\ x.table = T /\ x.procs = f.procs /\ Rest(s, x)
    BY <2>1, <2>3, <2>6 DEF State, Rest
  <2>8. i \in Slots(x) /\ Slots(x) = Slots(s) \cup {i}
    BY <2>6, <2>7 DEF Slots
  <2>9. i \in Slots(s) => s.table[i].pid = 0
    BY <2>2, <2>5 DEF Slots
  <2>10. Good(x)
    <3>1. /\ Len(x.procs) = Len(s.procs) + 1 /\ x.procs[Len(x.procs)].what = what
          /\ \A p \in Pids(s) : x.procs[p] = s.procs[p]
      BY <2>1, <2>7
    <3>2. /\ x.table[i].pid = Len(x.procs) /\ x.table[i].exited = FALSE
          /\ x.table[i].detached <=> what = "binary"
          /\ x.table[i].detached => ~x.table[i].respawn
      <4>1. x.table[i] = e
        BY <2>6, <2>7
      <4> QED BY <2>4, <3>1, <4>1
    <3>3. \A j \in Slots(s) : j # i => x.table[j] = s.table[j]
      BY <2>6, <2>7
    <3>4. x \in State
      BY <2>7
    <3> HIDE DEF n
    <3> QED BY <2>8, <2>9, <3>1, <3>2, <3>3, <3>4, PlacedNew
  <2>11. what = "binary" /\ Holding(s) => Holding(x)
    <3>1. \A p \in Pids(x) : p \in Pids(s) \/ p = n + 1
      BY <2>1, <2>2, <2>7 DEF Pids
    <3> QED BY <2>1, <2>7, <3>1 DEF Holding, Rest, Gone
  <2> QED BY <2>7, <2>10, <2>11
<1> QED BY <1>1, <1>2

\* f starts the workers one after another.
Starting(f, n, s, type) ==
  f = [k \in 0..n |-> IF k = 0 THEN {s}
                      ELSE UNION {ngx_spawn_process(x, "worker", type) : x \in f[k - 1]}]

\* There is such an f.
LEMMA StartingExists ==
  ASSUME NEW s, NEW type, NEW n \in Nat
  PROVE  \E f : Starting(f, n, s, type)
<1> DEFINE Bad == {k \in Nat : ~\E f : Starting(f, k, s, type)}
           More(S) == UNION {ngx_spawn_process(x, "worker", type) : x \in S}
<1> SUFFICES ASSUME n \in Bad PROVE FALSE
  OBVIOUS
<1>1. PICK k \in Bad : \A j \in Bad : k <= j
  <2>1. Bad \in SUBSET Nat /\ Bad # {}
    OBVIOUS
  <2> HIDE DEF Bad
  <2> QED BY <2>1, LeastNat
<1>2. k \in Nat /\ ~\E f : Starting(f, k, s, type)
  OBVIOUS
<1>3. \A f, j : Starting(f, j, s, type) <=> f = [i \in 0..j |-> IF i = 0 THEN {s} ELSE More(f[i - 1])]
  BY DEF Starting
<1> HIDE DEF More
<1>4. k # 0
  <2> DEFINE f == [i \in 0..0 |-> {s}]
  <2>1. f = [i \in 0..0 |-> IF i = 0 THEN {s} ELSE More(f[i - 1])]
    OBVIOUS
  <2> HIDE DEF f
  <2> QED BY <1>2, <1>3, <2>1
<1>5. k - 1 \in Nat /\ k - 1 \notin Bad
  BY <1>1, <1>2, <1>4
<1>6. PICK f : Starting(f, k - 1, s, type)
  BY <1>5
<1>7. f = [i \in 0..(k - 1) |-> IF i = 0 THEN {s} ELSE More(f[i - 1])]
  BY <1>3, <1>6
<1> DEFINE g == [i \in 0..k |-> IF i = k THEN More(f[k - 1]) ELSE f[i]]
<1>8. ASSUME NEW i \in 0..k
      PROVE  g[i] = IF i = 0 THEN {s} ELSE More(g[i - 1])
  <2>1. CASE i = k
    <3>1. k - 1 \in 0..k /\ k - 1 # k
      BY <1>2, <1>5
    <3> QED BY <1>4, <2>1, <3>1
  <2>2. CASE i # k
    <3>1. i \in 0..(k - 1) /\ (i # 0 => i - 1 \in 0..k /\ i - 1 # k)
      BY <1>2, <1>5, <2>2
    <3> QED BY <1>7, <2>2, <3>1
  <2> QED BY <2>1, <2>2
<1>9. g = [i \in 0..k |-> g[i]]
  OBVIOUS
<1> HIDE DEF g
<1>10. g = [i \in 0..k |-> IF i = 0 THEN {s} ELSE More(g[i - 1])]
  BY <1>8, <1>9
<1> QED BY <1>2, <1>3, <1>10

\* However many workers start, they are tracked.
LEMMA StartIs ==
  ASSUME NEW s, Good(s), NEW type \in {"RESPAWN", "JUST_RESPAWN"},
         NEW x \in ngx_start_worker_processes(s, type)
  PROVE  Good(x) /\ Rest(s, x)
<1> DEFINE n == WorkerProcesses
           f == CHOOSE f : Starting(f, n, s, type)
<1>1. n \in Nat
  BY MasterAssumption
<1>2. Starting(f, n, s, type)
  BY <1>1, StartingExists
<1>3. ngx_start_worker_processes(s, type) = f[n]
  BY DEF ngx_start_worker_processes, Starting
<1> HIDE DEF f, n
<1> DEFINE Bad == {k \in 0..n : ~\A y \in f[k] : Good(y) /\ Rest(s, y)}
<1>4. Bad = {}
  <2> SUFFICES ASSUME Bad # {} PROVE FALSE
    OBVIOUS
  <2>1. PICK k \in Bad : \A j \in Bad : k <= j
    <3>1. Bad \in SUBSET Nat
      BY <1>1
    <3> HIDE DEF Bad
    <3> QED BY <3>1, LeastNat
  <2>2. PICK y \in f[k] : ~(Good(y) /\ Rest(s, y))
    BY <2>1
  <2>3. k \in 0..n
    BY <2>1
  <2>4. k # 0
    <3>1. k = 0 => f[k] = {s}
      BY <1>2, <2>3 DEF Starting
    <3> QED BY <2>2, <3>1 DEF Rest
  <2>5. k - 1 \in 0..n /\ ~(k <= k - 1)
    BY <1>1, <2>3, <2>4
  <2>6. \A z \in f[k - 1] : Good(z) /\ Rest(s, z)
    BY <2>1, <2>5
  <2>7. f[k] = UNION {ngx_spawn_process(z, "worker", type) : z \in f[k - 1]}
    BY <1>2, <2>3, <2>4 DEF Starting
  <2>8. PICK z \in f[k - 1] : y \in ngx_spawn_process(z, "worker", type)
    BY <2>2, <2>7
  <2>9. Good(z) /\ Rest(s, z)
    BY <2>6, <2>8
  <2>10. Good(y) /\ Rest(z, y)
    BY <2>8, <2>9, SpawnIs
  <2> QED BY <2>2, <2>9, <2>10 DEF Rest
<1>5. n \in 0..n
  BY <1>1
<1> QED BY <1>3, <1>4, <1>5

\* The count of those lost starts again.
LEMMA AnewIs ==
  ASSUME NEW s, Good(s)
  PROVE  LET t == Anew(s)
         IN  /\ Alike(s, t) /\ Good(t) /\ t.table = s.table /\ t.procs = s.procs
             /\ t.cycle = s.cycle /\ t.flags = s.flags /\ t.lost = 0
<1> DEFINE t == Anew(s)
<1>1. s \in State /\ 0 \in Nat
  BY DEF Good
<1>2. /\ t \in State /\ t.table = s.table /\ t.procs = s.procs /\ t.live = s.live
      /\ t.flags = s.flags /\ t.new_binary = s.new_binary /\ t.exited = s.exited
      /\ t.cycle = s.cycle /\ t.lost = 0
  BY <1>1 DEF Anew, State
<1> HIDE DEF t
<1>3. Calm(s, t)
  BY <1>2 DEF Calm, Has
<1>4. Alike(s, t)
  BY <1>2, <1>3, AlikeFields
<1>5. Good(t)
  BY <1>4, SameGood DEF Alike
<1> QED BY <1>2, <1>4, <1>5 DEF t

-----------------------------------------------------------------------------
(* Reaping.                                                                *)

\* When live is unset, the workers that are left have slots behind i.
Left(s, i) ==
  ~s.live => \A p \in Pids(s) : s.procs[p].what = "worker" /\ ~Gone(s, p) =>
               \E j \in Slots(s) : j > i /\ s.table[j].pid = p

\* A worker that is gone is started again in its slot.
LEMMA RespawnIs ==
  ASSUME NEW s, Good(s), NEW i \in Slots(s), s.table[i].pid # 0, s.table[i].exited,
         s.table[i].respawn
  PROVE  LET t == Respawn(s, i)
         IN  /\ Good(t) /\ t.live /\ Calm(s, t) /\ Len(t.table) = Len(s.table)
<1> DEFINE f == Forked(s, "worker")
           n == Len(s.procs)
           e == s.table[i]
           e2 == [e EXCEPT !.pid = n + 1, !.exited = FALSE]
           T == [s.table EXCEPT ![i] = e2]
           t == Respawn(s, i)
<1>1. /\ f \in State /\ Rest(s, f) /\ f.table = s.table
      /\ f.procs \in Seq(ProcType) /\ Len(f.procs) = n + 1
      /\ \A p \in Pids(s) : f.procs[p] = s.procs[p]
      /\ f.procs[n + 1].what = "worker"
  BY ForkedIs
<1>2. n \in Nat /\ s.table \in Seq(SlotType) /\ e \in SlotType
  BY StateIs DEF Good
<1>3. ~e.detached /\ Gone(s, e.pid)
  BY DEF Good, Tracked
<1>4. /\ e2 \in SlotType /\ e2.pid = n + 1 /\ e2.exited = FALSE /\ e2.detached = e.detached
  <2>1. n + 1 \in Nat
    BY <1>2
  <2> HIDE DEF n, e
  <2> QED BY <1>2, <2>1 DEF SlotType
<1>5. t = [f EXCEPT !.table = T, !.live = TRUE]
  <2>1. t = [f EXCEPT !.table[i].pid = n + 1, !.table[i].exited = FALSE, !.live = TRUE]
    BY <1>1 DEF Respawn
  <2>2. PICK pid \in Nat : pid = n + 1
    BY <1>2
  <2> HIDE DEF t, f, n
  <2>3. f \in State /\ f.table \in Seq(SlotType) /\ i \in Slots(f) /\ f.table[i] \in SlotType
    BY <1>1, <1>2 DEF Slots
  <2>4. t = [f EXCEPT !.table = [f.table EXCEPT ![i] = [f.table[i] EXCEPT !.pid = pid, !.exited = FALSE]],
                      !.live = TRUE]
    <3> DEFINE v == [f EXCEPT !.table[i].pid = pid, !.table[i].exited = FALSE]
               w == [f.table[i] EXCEPT !.pid = pid, !.exited = FALSE]
    <3>1. t = [v EXCEPT !.live = TRUE]
      BY <2>1, <2>2
    <3>2. v = [f EXCEPT !.table = [f.table EXCEPT ![i] = w]]
      BY <2>3 DEF State, Slots, SlotType
    <3> HIDE DEF v
    <3> QED BY <2>3, <3>1, <3>2 DEF State
  <2> QED BY <1>1, <2>2, <2>4
<1> HIDE DEF t, f, e2
<1>6. /\ T \in Seq(SlotType) /\ Len(T) = Len(s.table) /\ T[i] = e2
      /\ \A j \in Slots(s) : j # i => T[j] = s.table[j]
  BY <1>2, <1>4 DEF Slots
<1> HIDE DEF T
<1>7. /\ t \in State /\ t.table = T /\ t.procs = f.procs /\ t.live = TRUE /\ t.flags = s.flags
      /\ t.new_binary = s.new_binary /\ t.exited = s.exited
  BY <1>1, <1>5, <1>6 DEF State, Rest
<1>8. Slots(t) = Slots(s) /\ Slots(s) = Slots(s) \cup {i}
  BY <1>6, <1>7 DEF Slots
<1>9. Good(t)
  <2>1. t.procs[Len(t.procs)].what = "worker" /\ Len(t.procs) = n + 1
    BY <1>1, <1>7
  <2>2. t.table[i].pid = Len(t.procs) /\ t.table[i].exited = FALSE
    BY <1>4, <1>6, <1>7, <2>1
  <2>3. ~t.table[i].detached
    BY <1>3, <1>4, <1>6, <1>7
  <2>4. /\ \A p \in Pids(s) : t.procs[p] = s.procs[p]
        /\ \A j \in Slots(s) : j # i => t.table[j] = s.table[j]
    BY <1>1, <1>6, <1>7
  <2>5. i \in Slots(t) /\ Slots(t) = Slots(s) \cup {i}
    BY <1>8
  <2>6. s.table[i].pid = 0 \/ Gone(s, s.table[i].pid)
    BY <1>3
  <2>7. PICK what : what = "worker"
    OBVIOUS
  <2>8. t.procs[Len(t.procs)].what = what /\ what # "binary"
    BY <2>1, <2>7
  <2> QED BY <1>7, <2>1, <2>2, <2>3, <2>4, <2>5, <2>6, <2>8, PlacedNew
<1>10. Calm(s, t)
  BY <1>7 DEF Calm, Has
<1> QED BY <1>6, <1>7, <1>9, <1>10 DEF t

\* A slot whose process is gone is given up.
LEMMA VacateIs ==
  ASSUME NEW s, Good(s), NEW i \in Slots(s), s.table[i].pid # 0 => Gone(s, s.table[i].pid)
  PROVE  LET t == Vacate(s, i)
         IN  /\ Good(t) /\ Rest(s, t) /\ t.procs = s.procs
             /\ i # Len(s.table) => Len(t.table) = Len(s.table)
             /\ i = Len(s.table) => Len(t.table) = Len(s.table) - 1
             /\ \A j \in Slots(s) : j # i => j \in Slots(t) /\ t.table[j] = s.table[j]
<1> DEFINE t == Vacate(s, i)
           n == Len(s.table)
<1>1. /\ s \in State /\ s.table \in Seq(SlotType) /\ n \in Nat /\ s.table[i] \in SlotType
      /\ i \in 1..n
  BY StateIs DEF Good, Slots
<1>2. /\ t \in State /\ t.procs = s.procs /\ Rest(s, t)
      /\ (i # n => Len(t.table) = n) /\ (i = n => Len(t.table) = n - 1)
      /\ \A j \in 1..n : j # i => j \in 1..Len(t.table) /\ t.table[j] = s.table[j]
      /\ \A j \in 1..Len(t.table) : j \in 1..n /\ (j = i => t.table[j].pid = 0)
      /\ i # n => t.table[i].detached = s.table[i].detached /\ t.table[i].respawn = s.table[i].respawn
  <2>1. CASE i = n
    <3>1. t = [s EXCEPT !.table = Front(s.table)]
      BY <2>1 DEF Vacate
    <3>2. Len(s.table) > 0
      BY <1>1
    <3>3. /\ Front(s.table) \in Seq(SlotType) /\ Len(Front(s.table)) = n - 1
          /\ \A j \in 1..(n - 1) : Front(s.table)[j] = s.table[j]
      BY <1>1, <3>2, FrontIs
    <3> HIDE DEF t
    <3>4. t \in State /\ t.table = Front(s.table) /\ t.procs = s.procs /\ Rest(s, t)
      BY <1>1, <3>1, <3>3 DEF State, Rest
    <3>5. \A j \in 1..n : j # i => j \in 1..(n - 1)
      BY <1>1, <2>1
    <3>6. \A j \in 1..(n - 1) : j \in 1..n /\ j # i
      BY <1>1, <2>1
    <3> HIDE DEF n
    <3> QED BY <2>1, <3>3, <3>4, <3>5, <3>6
  <2>2. CASE i # n
    <3> DEFINE e2 == [s.table[i] EXCEPT !.pid = 0]
               T == [s.table EXCEPT ![i] = e2]
    <3>1. /\ e2 \in SlotType /\ e2.pid = 0 /\ e2.detached = s.table[i].detached
          /\ e2.respawn = s.table[i].respawn
      BY <1>1 DEF SlotType
    <3>2. t = [s EXCEPT !.table = T]
      <4>1. t = [s EXCEPT !.table[i].pid = 0]
        BY <2>2 DEF Vacate
      <4> HIDE DEF t
      <4> QED BY <1>1, <4>1 DEF State, Slots, SlotType
    <3> HIDE DEF e2, t
    <3>3. /\ T \in Seq(SlotType) /\ Len(T) = n /\ T[i] = e2
          /\ \A j \in 1..n : j # i => T[j] = s.table[j]
      BY <1>1, <3>1
    <3> HIDE DEF T
    <3>4. t \in State /\ t.table = T /\ t.procs = s.procs /\ Rest(s, t)
      BY <1>1, <3>2, <3>3 DEF State, Rest
    <3> HIDE DEF n
    <3> QED BY <2>2, <3>1, <3>3, <3>4
  <2> QED BY <2>1, <2>2
<1> HIDE DEF t, n
<1>3. Slots(s) = 1..n /\ Slots(t) = 1..Len(t.table) /\ Pids(t) = Pids(s)
  BY <1>2 DEF Slots, Pids, n
<1>4. \A j \in Slots(t) : j \in Slots(s) /\ (j # i => t.table[j] = s.table[j])
                           /\ (j = i => t.table[j].pid = 0)
  BY <1>2, <1>3
<1>5. \A p : Gone(t, p) <=> Gone(s, p)
  BY <1>2 DEF Gone
<1>6. \A j \in Slots(t) : t.table[j].pid \in 0..Len(t.procs)
  <2>1. Len(s.procs) \in Nat
    BY StateIs DEF Good
  <2> QED BY <1>2, <1>4, <2>1 DEF Good, Tracked
<1>7. ASSUME NEW j \in Slots(t), NEW k \in Slots(t), t.table[j].pid = t.table[k].pid, j # k
      PROVE  t.table[j].pid = 0
  <2>1. CASE j # i /\ k # i
    <3>1. s.table[j].pid = s.table[k].pid /\ j \in Slots(s) /\ k \in Slots(s)
      BY <1>4, <1>7, <2>1
    <3>2. s.table[j].pid = 0
      BY <1>7, <3>1 DEF Good, Tracked
    <3> QED BY <1>4, <2>1, <3>2
  <2> QED BY <1>4, <1>7, <2>1
<1>8. ASSUME NEW p \in Pids(t), ~Gone(t, p)
      PROVE  \E j \in Slots(t) : t.table[j].pid = p
  <2>1. ~Gone(s, p) /\ p \in Pids(s) /\ p # 0
    BY <1>3, <1>5, <1>8 DEF Pids
  <2>2. PICK j \in Slots(s) : s.table[j].pid = p
    BY <2>1 DEF Good, Tracked
  <2>3. j # i
    BY <2>1, <2>2
  <2> QED BY <1>2, <1>3, <2>2, <2>3
<1>9. ASSUME NEW j \in Slots(t), t.table[j].pid # 0
      PROVE  /\ t.table[j].exited => Gone(t, t.table[j].pid)
             /\ t.table[j].detached <=> t.procs[t.table[j].pid].what = "binary"
  <2>1. t.table[j] = s.table[j] /\ j \in Slots(s)
    BY <1>4, <1>9
  <2>2. /\ s.table[j].exited => Gone(s, s.table[j].pid)
        /\ s.table[j].detached <=> s.procs[s.table[j].pid].what = "binary"
    BY <1>9, <2>1 DEF Good, Tracked
  <2> QED BY <1>2, <1>5, <2>1, <2>2
<1>10. ASSUME NEW j \in Slots(t), t.table[j].detached
       PROVE  ~t.table[j].respawn
  <2>1. t.table[j].detached = s.table[j].detached /\ t.table[j].respawn = s.table[j].respawn
        /\ j \in Slots(s)
    <3>1. CASE j # i
      BY <1>4, <3>1
    <3>2. CASE j = i
      <4>1. i # n
        <5>1. i = n => ~(i \in 1..(n - 1))
          BY <1>1
        <5> QED BY <1>2, <1>3, <3>2, <5>1
      <4> QED BY <1>2, <3>2, <4>1
    <3> QED BY <3>1, <3>2
  <2> QED BY <1>10, <2>1 DEF Good, Tracked
<1>11. Good(t)
  BY <1>2, <1>6, <1>7, <1>8, <1>9, <1>10 DEF Good, Tracked
<1> QED BY <1>2, <1>3, <1>11 DEF t, n

\* A new binary that is gone is forgotten.
LEMMA BinaryGoneIs ==
  ASSUME NEW s, Good(s), NEW pid
  PROVE  LET t == BinaryGone(s, pid)
         IN  Alike(s, t) /\ t.procs = s.procs /\ t.table = s.table
<1>1. CASE pid # s.new_binary
  <2>1. BinaryGone(s, pid) = s
    BY <1>1 DEF BinaryGone
  <2> QED BY <2>1, AlikeSelf
<1>2. CASE pid = s.new_binary
  <2> DEFINE t == [s EXCEPT !.new_binary = 0]
             u == BinaryGone(s, pid)
  <2>1. s \in State /\ s.flags \subseteq Flag
    BY StateIs DEF Good
  <2>2. /\ t \in State /\ t.procs = s.procs /\ t.table = s.table /\ t.live = s.live
        /\ t.flags = s.flags /\ t.new_binary = 0 /\ t.exited = s.exited
    <3>1. s \in State /\ 0 \in Int
      BY <2>1
    <3> QED BY <3>1 DEF State
  <2>3. u = IF Has(t, "noaccepting")
            THEN [t EXCEPT !.flags = (t.flags \ {"noaccepting"}) \cup {"restart"}] ELSE t
    BY <1>2, <2>1 DEF BinaryGone, Set, Unset, State
  <2> HIDE DEF t, u
  <2>4. "restart" \in Flag
    BY DEF Flag
  <2>5. (t.flags \ {"noaccepting"}) \cup {"restart"} \subseteq Flag
    BY <2>1, <2>2, <2>4
  <2>6. /\ u \in State /\ u.procs = s.procs /\ u.table = s.table /\ u.live = s.live
        /\ u.new_binary = 0 /\ u.exited = s.exited
        /\ u.flags \in {s.flags, (s.flags \ {"noaccepting"}) \cup {"restart"}}
    <3>1. CASE Has(t, "noaccepting")
      BY <2>2, <2>3, <2>5, <3>1 DEF State
    <3>2. CASE ~Has(t, "noaccepting")
      BY <2>2, <2>3, <3>2
    <3> QED BY <3>1, <3>2
  <2>7. Calm(s, u)
    BY <2>6 DEF Calm, Has
  <2> QED BY <2>6, <2>7, AlikeFields DEF u
<1> QED BY <1>1, <1>2

\* Alike steps keep what is left to the same slots.
LEMMA LeftAlike ==
  ASSUME NEW s, NEW t, Good(s), Alike(s, t), NEW i, Left(s, i)
  PROVE  Left(t, i)
<1>1. Slots(t) = Slots(s) /\ Pids(t) = Pids(s)
  BY DEF Alike, Same, Slots, Pids
<1>2. \A j \in Slots(s) : t.table[j].pid = s.table[j].pid
  BY DEF Alike, Same
<1>3. \A p \in Pids(s) : t.procs[p].what = s.procs[p].what /\ (Gone(s, p) => Gone(t, p))
  BY DEF Alike, Same
<1>4. t.live = s.live
  BY DEF Alike
<1> QED BY <1>1, <1>2, <1>3, <1>4 DEF Left

\* One slot is looked at: what is left is behind it.
LEMMA ReapSlotIs ==
  ASSUME NEW s, Good(s), NEW i \in Slots(s), Left(s, i - 1), NEW x \in ReapSlot(s, i)
  PROVE  /\ Good(x) /\ Calm(s, x) /\ Left(x, i)
         /\ i # Len(s.table) => Len(x.table) = Len(s.table)
         /\ Len(x.table) <= Len(s.table)
<1> DEFINE e == s.table[i]
           n == Len(s.table)
<1>1. /\ s \in State /\ n \in Nat /\ i \in 1..n /\ e \in SlotType /\ Len(s.procs) \in Nat
      /\ s.live \in BOOLEAN
  BY StateIs DEF Good, Slots
<1>2. \A j \in Slots(s) : j > i - 1 => j > i \/ j = i
  BY <1>1 DEF Slots
<1>3. (e.pid # 0 => Gone(s, e.pid) \/ s.procs[e.pid].what # "worker") => Left(s, i)
  <2> SUFFICES ASSUME e.pid # 0 => Gone(s, e.pid) \/ s.procs[e.pid].what # "worker",
                      ~s.live, NEW p \in Pids(s), s.procs[p].what = "worker", ~Gone(s, p)
               PROVE  \E j \in Slots(s) : j > i /\ s.table[j].pid = p
    BY DEF Left
  <2>1. PICK j \in Slots(s) : j > i - 1 /\ s.table[j].pid = p
    BY DEF Left
  <2>2. p # 0
    BY DEF Pids
  <2>3. j # i
    BY <2>1, <2>2
  <2> QED BY <1>2, <2>1, <2>3
<1>4. Alike(s, s)
  BY AlikeSelf
<1>5. CASE e.pid = 0
  <2>1. x = s
    BY <1>5 DEF ReapSlot
  <2> QED BY <1>1, <1>3, <1>4, <1>5, <2>1 DEF Alike
<1>6. CASE e.pid # 0 /\ ~e.exited
  <2> DEFINE live == s.live \/ e.exiting \/ ~e.detached
  <2>1. x = [s EXCEPT !.live = live]
    BY <1>6 DEF ReapSlot
  <2>2. live \in BOOLEAN
    OBVIOUS
  <2> HIDE DEF live
  <2>3. /\ x \in State /\ x.table = s.table /\ x.procs = s.procs /\ x.live = live
        /\ x.flags = s.flags /\ x.new_binary = s.new_binary /\ x.exited = s.exited
    BY <1>1, <2>1, <2>2 DEF State
  <2>4. Good(x)
    BY <2>3 DEF Good, Tracked, Slots, Pids, Gone
  <2>5. Calm(s, x)
    BY <2>3 DEF Calm, Has
  <2>6. Left(x, i)
    <3> SUFFICES ASSUME ~live PROVE Left(x, i)
      BY <2>3 DEF Left
    <3>1. ~s.live /\ e.detached
      BY DEF live
    <3>2. s.procs[e.pid].what = "binary"
      BY <1>6, <3>1 DEF Good, Tracked
    <3>3. Left(s, i)
      BY <1>3, <3>2
    <3> QED BY <2>3, <3>1, <3>3 DEF Left, Slots, Pids, Gone
  <2> QED BY <1>1, <2>3, <2>4, <2>5, <2>6
<1>7. CASE e.pid # 0 /\ e.exited
  <2>1. Gone(s, e.pid)
    BY <1>7 DEF Good, Tracked
  <2>2. Left(s, i)
    BY <1>3, <2>1
  <2>3. CASE MayRespawn(s, e) /\ x = Respawn(s, i)
    <3>1. Good(x) /\ x.live /\ Calm(s, x) /\ Len(x.table) = n
      BY <1>7, <2>3, RespawnIs DEF MayRespawn
    <3> QED BY <1>1, <3>1 DEF Left
  <2>4. CASE x \in SpawnFails(s, "worker")
    <3>1. Alike(s, x) /\ x.table = s.table
      BY <2>4, FaultIs
    <3>2. Good(x) /\ Left(x, i)
      BY <2>2, <3>1, SameGood, LeftAlike DEF Alike
    <3> QED BY <1>1, <3>1, <3>2 DEF Alike
  <2>5. CASE x = Vacate(BinaryGone(s, e.pid), i)
    <3> DEFINE t == BinaryGone(s, e.pid)
    <3>1. Alike(s, t) /\ t.procs = s.procs /\ t.table = s.table
      BY BinaryGoneIs
    <3> HIDE DEF t
    <3>2. Good(t) /\ Left(t, i) /\ Slots(t) = Slots(s)
      BY <2>2, <3>1, SameGood, LeftAlike DEF Alike, Slots
    <3>3. t.table[i].pid # 0 => Gone(t, t.table[i].pid)
      BY <2>1, <3>1 DEF Gone
    <3>4. /\ Good(x) /\ Rest(t, x) /\ x.procs = t.procs
          /\ i # Len(t.table) => Len(x.table) = Len(t.table)
          /\ i = Len(t.table) => Len(x.table) = Len(t.table) - 1
          /\ \A j \in Slots(t) : j # i => j \in Slots(x) /\ x.table[j] = t.table[j]
      BY <2>5, <3>2, <3>3, VacateIs DEF t
    <3>5. Calm(s, x)
      BY <3>1, <3>4 DEF Alike, Calm, Rest, Has
    <3>6. Left(x, i)
      <4> SUFFICES ASSUME ~x.live, NEW p \in Pids(x), x.procs[p].what = "worker", ~Gone(x, p)
                   PROVE  \E j \in Slots(x) : j > i /\ x.table[j].pid = p
        BY DEF Left
      <4>1. ~t.live /\ p \in Pids(t) /\ t.procs[p].what = "worker" /\ ~Gone(t, p)
        BY <3>4 DEF Rest, Pids, Gone
      <4>2. PICK j \in Slots(t) : j > i /\ t.table[j].pid = p
        BY <3>2, <4>1 DEF Left
      <4>3. j # i
        BY <1>1, <3>2, <4>2 DEF Slots
      <4> QED BY <3>4, <4>2, <4>3
    <3> QED BY <1>1, <3>1, <3>4, <3>5, <3>6
  <2> QED BY <1>7, <2>3, <2>4, <2>5 DEF ReapSlot
<1> QED BY <1>5, <1>6, <1>7

\* f goes through the slots 1..n and reaps each.
Reaping(f, n, s) ==
  f = [i \in 0..n |-> IF i = 0 THEN {[s EXCEPT !.live = FALSE]}
                      ELSE UNION {ReapSlot(x, i) : x \in f[i - 1]}]

\* There is such an f.
LEMMA ReapingExists ==
  ASSUME NEW s, NEW n \in Nat
  PROVE  \E f : Reaping(f, n, s)
<1> DEFINE Bad == {k \in Nat : ~\E f : Reaping(f, k, s)}
           More(S, i) == UNION {ReapSlot(x, i) : x \in S}
           S0 == {[s EXCEPT !.live = FALSE]}
<1> SUFFICES ASSUME n \in Bad PROVE FALSE
  OBVIOUS
<1>1. PICK k \in Bad : \A j \in Bad : k <= j
  <2>1. Bad \in SUBSET Nat /\ Bad # {}
    OBVIOUS
  <2> HIDE DEF Bad
  <2> QED BY <2>1, LeastNat
<1>2. k \in Nat /\ ~\E f : Reaping(f, k, s)
  OBVIOUS
<1>3. \A f, j : Reaping(f, j, s) <=> f = [i \in 0..j |-> IF i = 0 THEN S0 ELSE More(f[i - 1], i)]
  BY DEF Reaping
<1> HIDE DEF More, S0
<1>4. k # 0
  <2> DEFINE f == [i \in 0..0 |-> S0]
  <2>1. f = [i \in 0..0 |-> IF i = 0 THEN S0 ELSE More(f[i - 1], i)]
    OBVIOUS
  <2> HIDE DEF f
  <2> QED BY <1>2, <1>3, <2>1
<1>5. k - 1 \in Nat /\ k - 1 \notin Bad
  BY <1>1, <1>2, <1>4
<1>6. PICK f : Reaping(f, k - 1, s)
  BY <1>5
<1>7. f = [i \in 0..(k - 1) |-> IF i = 0 THEN S0 ELSE More(f[i - 1], i)]
  BY <1>3, <1>6
<1> DEFINE g == [i \in 0..k |-> IF i = k THEN More(f[k - 1], k) ELSE f[i]]
<1>8. ASSUME NEW i \in 0..k
      PROVE  g[i] = IF i = 0 THEN S0 ELSE More(g[i - 1], i)
  <2>1. CASE i = k
    <3>1. k - 1 \in 0..k /\ k - 1 # k
      BY <1>2, <1>5
    <3> QED BY <1>4, <2>1, <3>1
  <2>2. CASE i # k
    <3>1. i \in 0..(k - 1) /\ (i # 0 => i - 1 \in 0..k /\ i - 1 # k)
      BY <1>2, <1>5, <2>2
    <3> QED BY <1>7, <2>2, <3>1
  <2> QED BY <2>1, <2>2
<1>9. g = [i \in 0..k |-> g[i]]
  OBVIOUS
<1> HIDE DEF g
<1>10. g = [i \in 0..k |-> IF i = 0 THEN S0 ELSE More(g[i - 1], i)]
  BY <1>8, <1>9
<1> QED BY <1>2, <1>3, <1>10

\* After the children have been reaped, live is unset only when no worker is left.
LEMMA ReapIs ==
  ASSUME NEW s, Good(s), NEW x \in ngx_reap_children(s)
  PROVE  Good(x) /\ Calm(s, x) /\ Holding(x)
<1> DEFINE n == Len(s.table)
           f == CHOOSE f : Reaping(f, n, s)
           t == [s EXCEPT !.live = FALSE]
           OK(y, k) == /\ Good(y) /\ Calm(s, y) /\ Left(y, k) /\ Len(y.table) <= n
                       /\ k # n => Len(y.table) = n
<1>1. n \in Nat /\ s \in State
  BY StateIs DEF Good
<1>2. Reaping(f, n, s)
  BY <1>1, ReapingExists
<1>3. ngx_reap_children(s) = f[n]
  BY DEF ngx_reap_children, Reaping
<1>4. OK(t, 0)
  <2>1. /\ t \in State /\ t.table = s.table /\ t.procs = s.procs /\ t.flags = s.flags
        /\ t.new_binary = s.new_binary /\ t.exited = s.exited
    BY <1>1 DEF State
  <2> HIDE DEF t
  <2>2. Good(t)
    BY <2>1 DEF Good, Tracked, Slots, Pids, Gone
  <2>3. Calm(s, t)
    BY <2>1 DEF Calm, Has
  <2>4. Left(t, 0)
    <3>1. \A j \in Slots(t) : j > 0
      BY DEF Slots
    <3>2. \A p \in Pids(t) : ~Gone(t, p) => \E j \in Slots(t) : t.table[j].pid = p
      BY <2>2 DEF Good, Tracked
    <3> QED BY <3>1, <3>2 DEF Left
  <2> QED BY <1>1, <2>1, <2>2, <2>3, <2>4
<1> HIDE DEF f, n, t
<1> DEFINE Bad == {k \in 0..n : ~\A y \in f[k] : OK(y, k)}
<1>5. Bad = {}
  <2> SUFFICES ASSUME Bad # {} PROVE FALSE
    OBVIOUS
  <2>1. PICK k \in Bad : \A j \in Bad : k <= j
    <3>1. Bad \in SUBSET Nat
      BY <1>1
    <3> HIDE DEF Bad
    <3> QED BY <3>1, LeastNat
  <2> HIDE DEF OK
  <2>2. PICK y \in f[k] : ~OK(y, k)
    BY <2>1
  <2>3. k \in 0..n
    BY <2>1
  <2>4. k # 0
    <3>1. k = 0 => f[k] = {t}
      BY <1>2, <2>3 DEF Reaping, t
    <3> QED BY <1>4, <2>2, <3>1
  <2>5. k - 1 \in 0..n /\ ~(k <= k - 1) /\ k \in 1..n /\ k - 1 # n
    BY <1>1, <2>3, <2>4
  <2>6. \A z \in f[k - 1] : OK(z, k - 1)
    BY <2>1, <2>5
  <2>7. f[k] = UNION {ReapSlot(z, k) : z \in f[k - 1]}
    BY <1>2, <2>3, <2>4 DEF Reaping
  <2>8. PICK z \in f[k - 1] : y \in ReapSlot(z, k)
    BY <2>2, <2>7
  <2>9. Good(z) /\ Calm(s, z) /\ Left(z, k - 1) /\ Len(z.table) = n
    BY <2>5, <2>6, <2>8 DEF OK
  <2>10. k \in Slots(z)
    BY <2>5, <2>9 DEF Slots
  <2>11. /\ Good(y) /\ Calm(z, y) /\ Left(y, k) /\ Len(y.table) <= Len(z.table)
         /\ k # Len(z.table) => Len(y.table) = Len(z.table)
    BY <2>8, <2>9, <2>10, ReapSlotIs
  <2>12. Calm(s, y)
    BY <2>9, <2>11 DEF Calm
  <2> QED BY <2>2, <2>9, <2>11, <2>12 DEF OK
<1>6. OK(x, n) /\ n \in 0..n
  BY <1>1, <1>3, <1>5
<1>7. \A j \in Slots(x) : ~(j > n)
  <2>1. Len(x.table) \in Nat
    BY <1>6, StateIs DEF Good
  <2> QED BY <1>1, <1>6, <2>1 DEF Slots
<1> QED BY <1>6, <1>7 DEF Left, Holding

-----------------------------------------------------------------------------
(* Signals of the master.                                                  *)

\* Whoever has died is gone, and its slot is marked.
LEMMA StatusIs ==
  ASSUME NEW s, Good(s)
  PROVE  Alike(s, ngx_process_get_status(s))
<1> DEFINE t == ngx_process_get_status(s)
           P == [p \in DOMAIN s.procs |->
                   IF s.procs[p].state \in {"zombie", "fatal"} THEN [s.procs[p] EXCEPT !.state = "gone"]
                   ELSE s.procs[p]]
           st(i) == s.procs[s.table[i].pid].state
           E(i) == Waited(s, s.table[i])
           T == [i \in DOMAIN s.table |-> E(i)]
<1>1. /\ s \in State /\ s.procs \in Seq(ProcType) /\ s.table \in Seq(SlotType)
      /\ Len(s.procs) \in Nat /\ Len(s.table) \in Nat
      /\ DOMAIN s.procs = Pids(s) /\ DOMAIN s.table = Slots(s)
      /\ \A i \in Slots(s) : s.table[i] \in SlotType
      /\ \A p \in Pids(s) : s.procs[p] \in ProcType
  BY StateIs DEF Good, Slots, Pids
<1>2. t = [s EXCEPT !.procs = P, !.table = T]
  BY DEF ngx_process_get_status
<1>3. ASSUME NEW i \in Slots(s)
      PROVE  /\ E(i) \in SlotType /\ E(i).pid = s.table[i].pid
             /\ E(i).detached = s.table[i].detached
             /\ E(i).respawn => s.table[i].respawn
             /\ E(i).pid # 0 /\ E(i).exited => s.table[i].exited \/ st(i) \in {"zombie", "fatal"}
  <2> DEFINE e == s.table[i]
             x == e.exited \/ st(i) \in {"zombie", "fatal"}
             r == e.respawn /\ st(i) # "fatal"
  <2>1. e \in SlotType
    BY <1>1
  <2>2. E(i) = IF e.pid = 0 THEN e ELSE [e EXCEPT !.exited = x, !.respawn = r]
    BY DEF Waited
  <2>3. x \in BOOLEAN /\ r \in BOOLEAN
    OBVIOUS
  <2> HIDE DEF E, e, x, r
  <2>4. CASE e.pid = 0
    BY <2>1, <2>2, <2>4 DEF e
  <2>5. CASE e.pid # 0
    <3>1. E(i) \in SlotType /\ E(i).pid = e.pid /\ E(i).detached = e.detached
          /\ E(i).respawn = r /\ E(i).exited = x
      BY <2>1, <2>2, <2>3, <2>5 DEF SlotType
    <3>2. E(i).respawn => e.respawn
      BY <3>1 DEF r
    <3>3. E(i).exited => e.exited \/ st(i) \in {"zombie", "fatal"}
      BY <3>1 DEF x
    <3> QED BY <3>1, <3>2, <3>3 DEF e
  <2> QED BY <2>4, <2>5
<1> HIDE DEF E, st, t
<1>4. T \in Seq(SlotType) /\ Len(T) = Len(s.table) /\ \A i \in Slots(s) : T[i] = E(i)
  <2>1. \A i \in Slots(s) : E(i) \in SlotType
    BY <1>3
  <2> QED BY <1>1, <2>1 DEF Slots
<1>5. P \in Seq(ProcType) /\ Len(P) = Len(s.procs)
      /\ \A p \in Pids(s) : /\ P[p].what = s.procs[p].what
                            /\ P[p].state = IF s.procs[p].state \in {"zombie", "fatal"} THEN "gone"
                                           ELSE s.procs[p].state
  <2> DEFINE v(p) == IF s.procs[p].state \in {"zombie", "fatal"} THEN [s.procs[p] EXCEPT !.state = "gone"]
                     ELSE s.procs[p]
  <2>1. \A p \in Pids(s) : /\ v(p) \in ProcType /\ v(p).what = s.procs[p].what
                          /\ v(p).state = IF s.procs[p].state \in {"zombie", "fatal"} THEN "gone"
                                          ELSE s.procs[p].state
    <3> TAKE p \in Pids(s)
    <3>1. s.procs[p] \in ProcType
      BY <1>1
    <3> QED BY <3>1 DEF ProcType
  <2>2. P = [p \in Pids(s) |-> v(p)]
    BY <1>1
  <2> HIDE DEF v, P
  <2>3. P \in Seq(ProcType) /\ Len(P) = Len(s.procs)
    BY <1>1, <2>1, <2>2 DEF Pids
  <2> QED BY <2>1, <2>2, <2>3
<1> HIDE DEF T, P
<1>6. /\ t \in State /\ t.table = T /\ t.procs = P /\ t.flags = s.flags /\ t.live = s.live
      /\ t.new_binary = s.new_binary /\ t.exited = s.exited
  BY <1>1, <1>2, <1>4, <1>5 DEF State
<1>7. Calm(s, t)
  BY <1>6 DEF Calm, Has
<1>8. ASSUME NEW p \in Pids(s)
      PROVE  /\ t.procs[p].what = s.procs[p].what
             /\ Gone(s, p) \/ s.procs[p].state \in {"zombie", "fatal"} => Gone(t, p)
  BY <1>5, <1>6 DEF Gone
<1>9. ASSUME NEW i \in Slots(s)
      PROVE  /\ t.table[i].pid = s.table[i].pid /\ t.table[i].detached = s.table[i].detached
             /\ t.table[i].respawn => s.table[i].respawn
             /\ t.table[i].pid # 0 /\ t.table[i].exited => Gone(t, t.table[i].pid)
  <2>1. t.table[i] = E(i)
    BY <1>4, <1>6
  <2>2. /\ t.table[i].pid = s.table[i].pid /\ t.table[i].detached = s.table[i].detached
        /\ t.table[i].respawn => s.table[i].respawn
    BY <1>3, <2>1, Zenon
  <2>3. ASSUME t.table[i].pid # 0, t.table[i].exited
        PROVE  Gone(t, t.table[i].pid)
    <3> DEFINE p == s.table[i].pid
    <3>1. p # 0 /\ p \in Pids(s) /\ t.table[i].pid = p
      BY <1>1, <2>2, <2>3 DEF Good, Tracked, Pids
    <3>2. s.table[i].exited \/ s.procs[p].state \in {"zombie", "fatal"}
      BY <1>3, <2>1, <2>3, Zenon DEF st
    <3>3. s.table[i].exited => Gone(s, p)
      BY <3>1 DEF Good, Tracked
    <3>4. Gone(s, p) \/ s.procs[p].state \in {"zombie", "fatal"}
      BY <3>2, <3>3
    <3> HIDE DEF p
    <3>5. Gone(t, p)
      BY <1>8, <3>1, <3>4, Zenon
    <3> QED BY <3>1, <3>5
  <2> QED BY <2>2, <2>3
<1>10. Len(t.table) = Len(s.table) /\ Len(t.procs) = Len(s.procs)
  BY <1>4, <1>5, <1>6
<1>11. Same(s, t)
  BY <1>8, <1>9, <1>10, Zenon DEF Same
<1> QED BY <1>6, <1>7, <1>11 DEF Alike, t

\* The signals the master may get.
Heard == {"QUIT", "TERM", "HUP", "USR1", "USR2", "WINCH", "ALRM", "CHLD"}

\* Signals raise flags, and only SIGHUP asks for a new configuration.
LEMMA HandlerIs ==
  ASSUME NEW s, Good(s), NEW sigs, sigs \subseteq Heard
  PROVE  LET t == ngx_signal_handler(s, sigs)
         IN  /\ Good(t) /\ (Holding(s) => Holding(t)) /\ t.exited = s.exited
             /\ t.new_binary \in {s.new_binary, 0}
             /\ Has(t, "reconfigure") => Has(s, "reconfigure") \/ "HUP" \in sigs
             /\ Has(s, "terminate") => Has(t, "terminate")
             /\ Has(s, "quit") => Has(t, "quit")
<1> DEFINE heard == {x \in sigs : x = "USR2" => s.new_binary <= 0}
           F == s.flags \cup {Raised[x] : x \in heard}
           t == [s EXCEPT !.flags = F]
           u == ngx_signal_handler(s, sigs)
<1>1. s \in State /\ s.flags \subseteq Flag
  BY StateIs DEF Good
<1>2. \A x \in Heard : Raised[x] \in Flag /\ (Raised[x] = "reconfigure" => x = "HUP")
  BY DEF Heard, Raised, Flag
<1>3. F \subseteq Flag /\ s.flags \subseteq F
  BY <1>1, <1>2
<1>4. "reconfigure" \in F => "reconfigure" \in s.flags \/ "HUP" \in sigs
  BY <1>2
<1>5. u = IF "CHLD" \in sigs THEN ngx_process_get_status(t) ELSE t
  BY DEF ngx_signal_handler
<1> HIDE DEF F, u
<1>6. /\ t \in State /\ t.table = s.table /\ t.procs = s.procs /\ t.live = s.live
      /\ t.new_binary = s.new_binary /\ t.exited = s.exited /\ t.flags = F
  BY <1>1, <1>3 DEF State
<1> HIDE DEF t
<1>7. Same(s, t)
  BY <1>6 DEF Same, Good, Tracked, Gone
<1>8. Good(t) /\ (Holding(s) => Holding(t))
  BY <1>6, <1>7, SameGood
<1>9. Alike(t, u)
  <2>1. Alike(t, t) /\ Alike(t, ngx_process_get_status(t))
    BY <1>8, AlikeSelf, StatusIs
  <2> QED BY <1>5, <2>1
<1>10. Good(u) /\ (Holding(t) => Holding(u))
  BY <1>8, <1>9, SameGood DEF Alike
<1>11. /\ Has(u, "reconfigure") => Has(t, "reconfigure")
       /\ Has(t, "terminate") => Has(u, "terminate")
       /\ Has(t, "quit") => Has(u, "quit")
       /\ u.new_binary \in {t.new_binary, 0} /\ u.exited = t.exited
  BY <1>9 DEF Alike, Calm
<1>12. /\ Has(t, "reconfigure") => Has(s, "reconfigure") \/ "HUP" \in sigs
       /\ Has(s, "terminate") => Has(t, "terminate")
       /\ Has(s, "quit") => Has(t, "quit")
  BY <1>3, <1>4, <1>6 DEF Has
<1> QED BY <1>6, <1>8, <1>10, <1>11, <1>12 DEF u

-----------------------------------------------------------------------------
(* The body of the loop.                                                   *)

\* The workers are told to go, or waited for.
LEMMA TerminatingIs ==
  ASSUME NEW s, Good(s)
  PROVE  Alike(s, Terminating(s))
<1> DEFINE t == [s EXCEPT !.delay = IF s.delay = 0 THEN 50 ELSE s.delay]
           a == [t EXCEPT !.sigio = t.sigio - 1]
           b == [t EXCEPT !.sigio = WorkerProcesses + 2]
           signo == IF t.delay > 1000 THEN "KILL" ELSE "TERM"
<1>1. s \in State /\ s.delay \in Nat
  BY StateIs DEF Good
<1>2. (IF s.delay = 0 THEN 50 ELSE s.delay) \in Nat
  BY <1>1
<1>3. /\ t \in State /\ t.table = s.table /\ t.procs = s.procs /\ t.live = s.live
      /\ t.flags = s.flags /\ t.new_binary = s.new_binary /\ t.exited = s.exited
  BY <1>1, <1>2 DEF State
<1>4. Terminating(s) = IF t.sigio > 0 THEN a ELSE ngx_signal_worker_processes(b, signo)
  BY DEF Terminating
<1> HIDE DEF t
<1>5. t.sigio \in Nat
  BY <1>3, StateIs
<1>6. CASE t.sigio > 0
  <2>1. t.sigio - 1 \in Nat
    BY <1>5, <1>6
  <2>2. /\ a \in State /\ a.table = s.table /\ a.procs = s.procs /\ a.live = s.live
        /\ a.flags = s.flags /\ a.new_binary = s.new_binary /\ a.exited = s.exited
    BY <1>3, <2>1 DEF State
  <2> HIDE DEF a
  <2>3. Calm(s, a)
    BY <2>2 DEF Calm, Has
  <2> QED BY <1>4, <1>6, <2>2, <2>3, AlikeFields
<1>7. CASE ~(t.sigio > 0)
  <2>1. WorkerProcesses + 2 \in Nat
    BY MasterAssumption
  <2>2. /\ b \in State /\ b.table = s.table /\ b.procs = s.procs /\ b.live = s.live
        /\ b.flags = s.flags /\ b.new_binary = s.new_binary /\ b.exited = s.exited
    BY <1>3, <2>1 DEF State
  <2>3. signo \in {"QUIT", "TERM", "KILL", "USR1"}
    OBVIOUS
  <2> HIDE DEF b, signo
  <2>4. Calm(s, b)
    BY <2>2 DEF Calm, Has
  <2>5. Alike(s, b)
    BY <2>2, <2>4, AlikeFields
  <2>6. Good(b)
    BY <2>5, SameGood DEF Alike
  <2>7. Alike(b, ngx_signal_worker_processes(b, signo))
    BY <2>3, <2>6, SignalIs
  <2> QED BY <1>4, <1>7, <2>5, <2>7, AlikeTwice
<1> QED BY <1>6, <1>7

\* A state in the running part of the loop; h: it is one without rollbacks.
Fit(s, h) ==
  Good(s) /\ ~Has(s, "reconfigure") /\ s.exited = FALSE /\ (h => Holding(s))

\* What is alike is fit as well.
LEMMA FitAlike ==
  ASSUME NEW s, NEW t, NEW h \in BOOLEAN, Fit(s, h), Alike(s, t)
  PROVE  Fit(t, h)
<1>1. Good(t) /\ (Holding(s) => Holding(t))
  BY SameGood DEF Fit, Alike
<1> QED BY <1>1 DEF Fit, Alike, Calm

\* live is set.
LEMMA LiveIs ==
  ASSUME NEW s, Good(s)
  PROVE  LET t == [s EXCEPT !.live = TRUE]
         IN  /\ Good(t) /\ Holding(t) /\ t.flags = s.flags /\ t.exited = s.exited
<1> DEFINE t == [s EXCEPT !.live = TRUE]
<1>1. s \in State
  BY DEF Good
<1>2. /\ t \in State /\ t.table = s.table /\ t.procs = s.procs /\ t.live = TRUE
      /\ t.flags = s.flags /\ t.exited = s.exited
  BY <1>1 DEF State
<1> HIDE DEF t
<1>3. Good(t)
  BY <1>2 DEF Good, Tracked, Slots, Pids, Gone
<1> QED BY <1>2, <1>3 DEF Holding, t

\* Workers are started again.
LEMMA RestartedIs ==
  ASSUME NEW s, NEW h \in BOOLEAN, Fit(s, h), NEW x \in Restarted(s)
  PROVE  Fit(x, h)
<1> DEFINE a == Anew(s)
<1>0. Fit(a, h)
  BY AnewIs, FitAlike DEF Fit
<1>1. PICK y \in ngx_start_worker_processes(a, "RESPAWN") : x = [y EXCEPT !.live = TRUE]
  BY DEF Restarted
<1> HIDE DEF a
<1>2. Good(y) /\ Rest(a, y)
  BY <1>0, <1>1, StartIs DEF Fit
<1>3. Good(x) /\ Holding(x) /\ x.flags = y.flags /\ x.exited = y.exited
  BY <1>1, <1>2, LiveIs
<1> QED BY <1>0, <1>2, <1>3 DEF Fit, Rest, Has

\* A new configuration, and new workers before the old ones go.
LEMMA ReconfiguredIs ==
  ASSUME NEW s, Good(s), ~Has(s, "reconfigure"), s.exited = FALSE,
         NEW h \in BOOLEAN, NEW x \in Reconfigured(s)
  PROVE  Fit(x, h)
<1> DEFINE d == [s EXCEPT !.cycle = s.cycle + 1]
           c == Anew(d)
<1>1. s \in State /\ s.cycle + 1 \in Nat
  BY StateIs DEF Good
<1>2. /\ c \in State /\ c.table = s.table /\ c.procs = s.procs /\ c.live = s.live
      /\ c.flags = s.flags /\ c.new_binary = s.new_binary /\ c.exited = s.exited
  <2>1. /\ d \in State /\ d.table = s.table /\ d.procs = s.procs /\ d.live = s.live
        /\ d.flags = s.flags /\ d.new_binary = s.new_binary /\ d.exited = s.exited
    BY <1>1 DEF State
  <2> HIDE DEF d
  <2> QED BY <2>1 DEF State, Anew
<1>3. PICK y \in ngx_start_worker_processes(c, "JUST_RESPAWN") :
        x = ngx_signal_worker_processes([y EXCEPT !.live = TRUE], "QUIT")
  BY DEF Reconfigured
<1> HIDE DEF c, d
<1>4. Good(c)
  BY <1>2 DEF Good, Tracked, Slots, Pids, Gone
<1>5. Good(y) /\ Rest(c, y)
  BY <1>3, <1>4, StartIs
<1> DEFINE z == [y EXCEPT !.live = TRUE]
<1>6. Good(z) /\ Holding(z) /\ z.flags = y.flags /\ z.exited = y.exited
  BY <1>5, LiveIs
<1> HIDE DEF z
<1>7. Alike(z, x)
  BY <1>3, <1>6, SignalIs DEF z
<1>8. Fit(z, h)
  BY <1>2, <1>5, <1>6 DEF Fit, Rest, Has
<1> QED BY <1>7, <1>8, FitAlike

\* The new binary is started, or fails.
LEMMA ChangedBinaryIs ==
  ASSUME NEW s, NEW h \in BOOLEAN, Fit(s, h), NEW x \in ChangedBinary(s)
  PROVE  Fit(x, h)
<1>1. PICK y \in ngx_spawn_process(s, "binary", "DETACHED") :
        x = [y EXCEPT !.new_binary = IF y.procs = s.procs THEN -1 ELSE Len(y.procs)]
  BY DEF ChangedBinary
<1>2. Good(y) /\ Rest(s, y) /\ (h => Holding(y))
  BY <1>1, SpawnIs DEF Fit
<1>3. y \in State /\ (IF y.procs = s.procs THEN -1 ELSE Len(y.procs)) \in Int
  BY <1>2, StateIs DEF Good
<1>4. /\ x \in State /\ x.table = y.table /\ x.procs = y.procs /\ x.live = y.live
      /\ x.flags = y.flags /\ x.exited = y.exited
  BY <1>1, <1>3 DEF State
<1>5. Same(y, x)
  BY <1>2, <1>4 DEF Same, Good, Tracked, Gone
<1>6. Good(x) /\ (Holding(y) => Holding(x))
  BY <1>2, <1>4, <1>5, SameGood
<1> QED BY <1>2, <1>4, <1>6 DEF Fit, Rest, Has

\* The workers are told to go while a new binary serves.
LEMMA NotAcceptingIs ==
  ASSUME NEW s, NEW h \in BOOLEAN, Fit(s, h)
  PROVE  Fit(NotAccepting(s), h)
<1> DEFINE u == Set(s, "noaccepting")
<1>1. Fit(u, h)
  BY FlagIs, FitAlike DEF Fit, Flag
<1> HIDE DEF u
<1>2. Alike(u, ngx_signal_worker_processes(u, "QUIT"))
  BY <1>1, SignalIs DEF Fit
<1>3. Fit(ngx_signal_worker_processes(u, "QUIT"), h)
  BY <1>1, <1>2, FitAlike
<1> QED BY <1>3 DEF NotAccepting, u

\* The flags that are looked at after the configuration.
LEMMA AfterReconfigureIs ==
  ASSUME NEW S, NEW h \in BOOLEAN, \A s \in S : Fit(s, h), NEW x \in AfterReconfigure(S)
  PROVE  Fit(x, h)
<1> DEFINE r == When(S, "restart", Restarted)
           o == When(r, "reopen", LAMBDA s : {ngx_signal_worker_processes(s, "USR1")})
           b == When(o, "change_binary", ChangedBinary)
           n == When(b, "noaccept", LAMBDA s : {NotAccepting(s)})
<1>1. ASSUME NEW s, Fit(s, h), NEW f \in {"restart", "reopen", "change_binary", "noaccept"}
      PROVE  Fit(Unset(s, f), h)
  BY <1>1, FlagIs, FitAlike DEF Fit, Flag
<1>2. \A y \in r : Fit(y, h)
  <2> TAKE y \in r
  <2>1. PICK s \in S : y \in IF Has(s, "restart") THEN Restarted(Unset(s, "restart")) ELSE {s}
    BY DEF When, Each
  <2>2. Fit(s, h) /\ Fit(Unset(s, "restart"), h)
    BY <1>1
  <2> QED BY <2>1, <2>2, RestartedIs
<1>3. \A y \in o : Fit(y, h)
  <2> TAKE y \in o
  <2>1. PICK s \in r : y \in IF Has(s, "reopen")
                            THEN {ngx_signal_worker_processes(Unset(s, "reopen"), "USR1")} ELSE {s}
    BY DEF When, Each
  <2> HIDE DEF r
  <2>2. Fit(s, h) /\ Fit(Unset(s, "reopen"), h)
    BY <1>1, <1>2
  <2>3. Fit(ngx_signal_worker_processes(Unset(s, "reopen"), "USR1"), h)
    BY <2>2, SignalIs, FitAlike DEF Fit
  <2> QED BY <2>1, <2>2, <2>3
<1>4. \A y \in b : Fit(y, h)
  <2> TAKE y \in b
  <2>1. PICK s \in o : y \in IF Has(s, "change_binary")
                            THEN ChangedBinary(Unset(s, "change_binary")) ELSE {s}
    BY DEF When, Each
  <2> HIDE DEF o
  <2>2. Fit(s, h) /\ Fit(Unset(s, "change_binary"), h)
    BY <1>1, <1>3
  <2> QED BY <2>1, <2>2, ChangedBinaryIs
<1>5. \A y \in n : Fit(y, h)
  <2> TAKE y \in n
  <2>1. PICK s \in b : y \in IF Has(s, "noaccept") THEN {NotAccepting(Unset(s, "noaccept"))} ELSE {s}
    BY DEF When, Each
  <2> HIDE DEF b
  <2>2. Fit(s, h) /\ Fit(Unset(s, "noaccept"), h)
    BY <1>1, <1>4
  <2>3. Fit(NotAccepting(Unset(s, "noaccept")), h)
    BY <2>2, NotAcceptingIs
  <2> QED BY <2>1, <2>2, <2>3
<1>6. x \in n
  BY DEF AfterReconfigure
<1> QED BY <1>5, <1>6

\* What a step of the master must keep; h when nobody rolls back.
Sound(s, h) ==
  Good(s) /\ (h => Holding(s) /\ NoRollback(s) /\ (s.exited => ~s.live))

\* What is alike is sound as well.
LEMMA SoundAlike ==
  ASSUME NEW s, NEW t, NEW h \in BOOLEAN, Sound(s, h), Alike(s, t)
  PROVE  Sound(t, h)
<1>1. Good(t) /\ (Holding(s) => Holding(t))
  BY SameGood DEF Sound, Alike
<1>2. NoRollback(s) => NoRollback(t)
  BY DEF NoRollback, Alike, Calm
<1>3. t.exited = s.exited /\ t.live = s.live
  BY DEF Alike, Calm
<1> QED BY <1>1, <1>2, <1>3 DEF Sound

\* No configuration is left to be read, and the master goes on.
LEMMA FitSound ==
  ASSUME NEW s, NEW h \in BOOLEAN, Fit(s, h)
  PROVE  Sound(s, h)
<1>1. NoRollback(s)
  BY DEF NoRollback, Fit
<1>2. ~s.exited
  BY DEF Fit
<1> QED BY <1>1, <1>2 DEF Fit, Sound

\* The master is not told to go.
LEMMA RunningIs ==
  ASSUME NEW s, NEW h \in BOOLEAN, Sound(s, h), s.exited = FALSE,
         ~Has(s, "terminate"), ~Has(s, "quit"), NEW x \in Running(s)
  PROVE  Fit(x, h)
<1>1. Good(s) /\ (h => Holding(s)) /\ (h => NoRollback(s))
  BY DEF Sound
<1>2. CASE ~Has(s, "reconfigure")
  <2>1. Fit(s, h)
    BY <1>1, <1>2 DEF Fit
  <2>2. x \in AfterReconfigure({s})
    BY <1>2 DEF Running
  <2>3. \A y \in {s} : Fit(y, h)
    BY <2>1
  <2> QED BY <2>2, <2>3, AfterReconfigureIs
<1>3. CASE Has(s, "reconfigure")
  <2> DEFINE t == Unset(s, "reconfigure")
  <2>1. Alike(s, t)
    BY <1>1, FlagIs DEF Flag
  <2>2. Good(t) /\ (Holding(s) => Holding(t))
    BY <1>1, <2>1, SameGood DEF Alike
  <2>3. t.new_binary = s.new_binary /\ ~Has(t, "reconfigure")
    <3>1. s \in State
      BY <1>1 DEF Good
    <3> QED BY <3>1 DEF Unset, Has, State
  <2>4. t.exited = FALSE
    BY <2>1 DEF Alike, Calm
  <2>5. h => t.new_binary = 0
    BY <1>1, <1>3, <2>3 DEF NoRollback
  <2>6. Fit(t, h)
    BY <1>1, <2>2, <2>3, <2>4 DEF Fit
  <2>7. x \in IF t.new_binary # 0
              THEN {Unset(y, "noaccepting") : y \in ngx_start_worker_processes(Anew(t), "RESPAWN")}
              ELSE {t} \cup AfterReconfigure(Reconfigured(t))
    BY <1>3 DEF Running
  <2> HIDE DEF t
  <2>8. CASE t.new_binary # 0
    <3>1. PICK y \in ngx_start_worker_processes(Anew(t), "RESPAWN") : x = Unset(y, "noaccepting")
      BY <2>7, <2>8
    <3>2. Alike(t, Anew(t)) /\ Good(y) /\ Rest(Anew(t), y)
      BY <2>2, <3>1, AnewIs, StartIs
    <3>3. h = FALSE /\ Fit(Anew(t), h)
      BY <2>5, <2>6, <2>8, <3>2, FitAlike
    <3>4. Fit(y, h)
      BY <3>2, <3>3 DEF Fit, Rest, Has
    <3>5. Alike(y, x)
      BY <3>1, <3>2, FlagIs DEF Flag
    <3> QED BY <3>4, <3>5, FitAlike
  <2>9. CASE t.new_binary = 0
    <3>1. x = t \/ x \in AfterReconfigure(Reconfigured(t))
      BY <2>7, <2>9
    <3>2. \A y \in Reconfigured(t) : Fit(y, h)
      BY <2>2, <2>3, <2>4, ReconfiguredIs
    <3> QED BY <2>6, <3>1, <3>2, AfterReconfigureIs
  <2> QED BY <2>8, <2>9
<1> QED BY <1>2, <1>3

\* The body of the loop.
LEMMA BodyIs ==
  ASSUME NEW s, NEW h \in BOOLEAN, Sound(s, h), s.exited = FALSE, NEW x \in Body(s)
  PROVE  Sound(x, h)
<1>1. Good(s)
  BY DEF Sound
<1>2. CASE MayExit(s)
  <2>1. x = [s EXCEPT !.exited = TRUE]
    BY <1>2 DEF Body
  <2>2. s \in State
    BY <1>1 DEF Good
  <2>3. /\ x \in State /\ x.table = s.table /\ x.procs = s.procs /\ x.live = s.live
        /\ x.flags = s.flags /\ x.new_binary = s.new_binary
    BY <2>1, <2>2 DEF State
  <2>4. Same(s, x)
    BY <1>1, <2>3 DEF Same, Good, Tracked, Gone
  <2>5. Good(x) /\ (Holding(s) => Holding(x))
    BY <1>1, <2>3, <2>4, SameGood
  <2>6. NoRollback(s) => NoRollback(x)
    BY <2>3 DEF NoRollback, Has
  <2>7. ~x.live
    BY <1>2, <2>3 DEF MayExit
  <2> QED BY <2>5, <2>6, <2>7 DEF Sound
<1>3. CASE ~MayExit(s) /\ Has(s, "terminate")
  <2>1. x = Terminating(s)
    BY <1>3 DEF Body
  <2> QED BY <1>1, <2>1, TerminatingIs, SoundAlike
<1>4. CASE ~MayExit(s) /\ ~Has(s, "terminate") /\ Has(s, "quit")
  <2>1. x = ngx_signal_worker_processes(s, "QUIT")
    BY <1>4 DEF Body
  <2>2. Alike(s, x)
    BY <1>1, <2>1, SignalIs
  <2> QED BY <2>2, SoundAlike
<1>5. CASE ~MayExit(s) /\ ~Has(s, "terminate") /\ ~Has(s, "quit")
  <2>1. x \in Running(s)
    BY <1>5 DEF Body
  <2> QED BY <1>5, <2>1, RunningIs, FitSound
<1> QED BY <1>2, <1>3, <1>4, <1>5

\* The delay before sigsuspend.
LEMMA TopOfLoopIs ==
  ASSUME NEW s, Good(s)
  PROVE  Alike(s, TopOfLoop(s))
<1> DEFINE d == IF s.delay > 1000 THEN s.delay ELSE 2 * s.delay
           t == [s EXCEPT !.sigio = 0, !.delay = d]
<1>1. s \in State /\ s.delay \in Nat
  BY StateIs DEF Good
<1>2. d \in Nat
  BY <1>1
<1>3. TopOfLoop(s) = IF s.delay > 0 /\ Has(s, "sigalrm") THEN Unset(t, "sigalrm") ELSE s
  BY DEF TopOfLoop
<1> HIDE DEF d
<1>4. /\ t \in State /\ t.table = s.table /\ t.procs = s.procs /\ t.live = s.live
      /\ t.flags = s.flags /\ t.new_binary = s.new_binary /\ t.exited = s.exited
  BY <1>1, <1>2 DEF State
<1> HIDE DEF t
<1>5. Calm(s, t)
  BY <1>4 DEF Calm, Has
<1>6. Alike(s, t)
  BY <1>4, <1>5, AlikeFields
<1>7. Good(t)
  BY <1>4, <1>6, SameGood DEF Alike
<1>8. Alike(t, Unset(t, "sigalrm"))
  BY <1>7, FlagIs DEF Flag
<1>9. Alike(s, Unset(t, "sigalrm")) /\ Alike(s, s)
  BY <1>6, <1>8, AlikeTwice, AlikeSelf
<1> QED BY <1>3, <1>9

-----------------------------------------------------------------------------
(* The steps of the children.                                              *)

\* A child with another state and box, and the state it is put in.
Child(s, p, how, B) == [s.procs[p] EXCEPT !.state = how, !.box = B]
Moved(s, p, q, k, l) ==
  [s EXCEPT !.procs = [s.procs EXCEPT ![p] = q], !.faults = k, !.lost = l]

\* The same as the actions write it.
Wrote(s, p, how, B) == [s EXCEPT !.procs[p].state = how, !.procs[p].box = B]
WroteBox(s, p, B) == [s EXCEPT !.procs[p].box = B]

\* A process that is not gone moves on; as many faults are left, or fewer.
LEMMA ChildMoves ==
  ASSUME NEW s, Good(s), NEW p \in Pids(s), ~Gone(s, p), NEW q \in ProcType,
         q.what = s.procs[p].what, NEW k \in Nat, NEW l \in Nat, NEW t, t = Moved(s, p, q, k, l)
  PROVE  Alike(s, t) /\ t.new_binary = s.new_binary
<1> DEFINE P == [s.procs EXCEPT ![p] = q]
<1>1. s \in State /\ s.procs \in Seq(ProcType) /\ Len(s.procs) \in Nat
  BY StateIs DEF Good
<1>2. /\ P \in Seq(ProcType) /\ Len(P) = Len(s.procs) /\ P[p] = q
      /\ \A r \in Pids(s) : r # p => P[r] = s.procs[r]
  BY <1>1 DEF Pids
<1> HIDE DEF P
<1>3. t = [s EXCEPT !.procs = P, !.faults = k, !.lost = l]
  BY DEF P, Moved
<1>4. /\ t \in State /\ t.table = s.table /\ t.procs = P /\ t.live = s.live
      /\ t.flags = s.flags /\ t.new_binary = s.new_binary /\ t.exited = s.exited
  BY <1>1, <1>2, <1>3 DEF State
<1>5. Calm(s, t)
  BY <1>4 DEF Calm, Has
<1>6. \A r \in Pids(s) : t.procs[r].what = s.procs[r].what /\ (Gone(s, r) => Gone(t, r))
  BY <1>2, <1>4 DEF Gone
<1>7. \A i \in Slots(s) : s.table[i].pid # 0 /\ s.table[i].exited => Gone(t, s.table[i].pid)
  <2> TAKE i \in Slots(s)
  <2> HAVE s.table[i].pid # 0 /\ s.table[i].exited
  <2>1. Gone(s, s.table[i].pid) /\ s.table[i].pid \in 0..Len(s.procs)
    BY DEF Good, Tracked
  <2>2. s.table[i].pid \in Pids(s)
    BY <1>1, <2>1 DEF Pids
  <2> QED BY <1>6, <2>1, <2>2
<1>8. Same(s, t)
  BY <1>2, <1>4, <1>6, <1>7 DEF Same
<1> QED BY <1>4, <1>5, <1>8 DEF Alike

\* A child that is not gone takes a state and a box.
LEMMA ChildBecomes ==
  ASSUME NEW s, Good(s), NEW p \in Pids(s), ~Gone(s, p),
         NEW how \in {"run", "draining", "zombie", "fatal"}, NEW B \in SUBSET s.procs[p].box,
         NEW k \in Nat, NEW l \in Nat, NEW t, t = Moved(s, p, Child(s, p, how, B), k, l)
  PROVE  Alike(s, t) /\ t.new_binary = s.new_binary
<1> DEFINE q == Child(s, p, how, B)
<1>1. s.procs[p] \in ProcType
  BY StateIs DEF Good
<1>2. B \in SUBSET {"QUIT", "TERM", "KILL", "USR1"}
  BY <1>1 DEF ProcType
<1>3. q \in ProcType /\ q.what = s.procs[p].what
  BY <1>1, <1>2 DEF ProcType, Child
<1> HIDE DEF q
<1>4. t = Moved(s, p, q, k, l)
  BY DEF q
<1> QED BY <1>3, <1>4, ChildMoves

\* The same step, written as the actions write it.
LEMMA MovedIs ==
  ASSUME NEW s \in State, NEW p \in Pids(s), NEW how, NEW B
  PROVE  /\ Wrote(s, p, how, B) = Moved(s, p, Child(s, p, how, B), s.faults, s.lost)
         /\ WroteBox(s, p, B) = Moved(s, p, Child(s, p, s.procs[p].state, B), s.faults, s.lost)
         /\ Fault(Wrote(s, p, how, B)) = Moved(s, p, Child(s, p, how, B), s.faults - 1, s.lost)
         /\ Losing(Wrote(s, p, how, B)) =
              Moved(s, p, Child(s, p, how, B), s.faults - 1, s.lost + 1)
<1>1. s.procs \in Seq(ProcType) /\ s.procs[p] \in ProcType
  BY StateIs
<1> DEFINE t == [s EXCEPT !.procs[p].state = how, !.procs[p].box = B]
           P == [s.procs EXCEPT ![p] = Child(s, p, how, B)]
           Q == [s.procs EXCEPT ![p] = Child(s, p, s.procs[p].state, B)]
<1>2. t = [s EXCEPT !.procs = P]
  <2> DEFINE q == [s.procs[p] EXCEPT !.state = how]
             u == [s EXCEPT !.procs[p].state = how]
             R == [s.procs EXCEPT ![p] = q]
  <2>1. t = [u EXCEPT !.procs[p].box = B]
    OBVIOUS
  <2>2. u = [s EXCEPT !.procs = R] /\ u.procs = R
    BY <1>1 DEF State, Pids, ProcType
  <2>3. R[p] = q
    BY <1>1 DEF Pids
  <2>4. [q EXCEPT !.box = B] = Child(s, p, how, B)
    BY <1>1 DEF ProcType, Child
  <2> HIDE DEF u, q
  <2>5. [R EXCEPT ![p] = [q EXCEPT !.box = B]] = P
    BY <1>1, <2>4
  <2>6. [u EXCEPT !.procs[p].box = B] = [u EXCEPT !.procs = [R EXCEPT ![p] = [q EXCEPT !.box = B]]]
    BY <2>2, <2>3
  <2> HIDE DEF R, P
  <2>7. [u EXCEPT !.procs = P] = [s EXCEPT !.procs = P]
    BY <2>2 DEF State
  <2> QED BY <2>1, <2>5, <2>6, <2>7
<1>3. WroteBox(s, p, B) = [s EXCEPT !.procs = Q]
  BY <1>1 DEF State, Pids, ProcType, Child, WroteBox
<1> HIDE DEF P, Q, t
<1>4. ASSUME NEW R
      PROVE  [s EXCEPT !.procs = R] = [s EXCEPT !.procs = R, !.faults = s.faults, !.lost = s.lost]
  BY DEF State
<1>5. ASSUME NEW R
      PROVE  /\ Fault([s EXCEPT !.procs = R])
                  = [s EXCEPT !.procs = R, !.faults = s.faults - 1, !.lost = s.lost]
             /\ Losing([s EXCEPT !.procs = R])
                  = [s EXCEPT !.procs = R, !.faults = s.faults - 1, !.lost = s.lost + 1]
  BY DEF State, Fault, Losing
<1>7. t = Moved(s, p, Child(s, p, how, B), s.faults, s.lost)
  BY <1>2, <1>4 DEF Moved, P
<1>8. WroteBox(s, p, B) = Moved(s, p, Child(s, p, s.procs[p].state, B), s.faults, s.lost)
  BY <1>3, <1>4 DEF Moved, Q
<1>9. /\ Fault(t) = Moved(s, p, Child(s, p, how, B), s.faults - 1, s.lost)
      /\ Losing(t) = Moved(s, p, Child(s, p, how, B), s.faults - 1, s.lost + 1)
  BY <1>2, <1>5 DEF Moved, P
<1>10. t = Wrote(s, p, how, B)
  BY DEF t, Wrote
<1> QED BY <1>7, <1>8, <1>9, <1>10

\* What a child does, as the master's state sees it.
LEMMA ChildStepIs ==
  ASSUME NEW p \in 1..Len(m.procs), Good(m), ChildStep(p)
  PROVE  /\ Alike(m, m') /\ m'.new_binary = m.new_binary
         /\ pending' \subseteq pending \cup {"CHLD"}
<1>1. p \in Pids(m) /\ m \in State
  BY DEF Pids, Good
<1>2. /\ m.faults \in Nat /\ m.lost \in Nat /\ m.lost + 1 \in Nat
      /\ m.procs[p] \in ProcType /\ m.procs \in Seq(ProcType)
  <2>1. m.faults \in Nat /\ m.lost \in Nat /\ m.procs[p] \in ProcType /\ m.procs \in Seq(ProcType)
    BY <1>1, StateIs
  <2> QED BY <2>1
<1>3. ASSUME NEW how \in {"run", "draining", "zombie", "fatal"}, NEW B \in SUBSET m.procs[p].box,
             NEW k \in Nat, NEW l \in Nat, m' = Moved(m, p, Child(m, p, how, B), k, l),
             ~Gone(m, p)
      PROVE  Alike(m, m') /\ m'.new_binary = m.new_binary
  BY <1>1, <1>3, ChildBecomes
<1>4. ASSUME Dies(p, "zombie"), Awake(p)
      PROVE  Alike(m, m') /\ m'.new_binary = m.new_binary /\ pending' \subseteq pending \cup {"CHLD"}
  <2>1. m' = Moved(m, p, Child(m, p, "zombie", {}), m.faults, m.lost)
    <3>1. m' = Wrote(m, p, "zombie", {})
      BY <1>4 DEF Dies, Wrote
    <3> QED BY <1>1, <3>1, MovedIs
  <2>2. ~Gone(m, p) /\ {} \in SUBSET m.procs[p].box
    BY <1>4 DEF Awake, Gone
  <2>3. pending' \subseteq pending \cup {"CHLD"}
    BY <1>4 DEF Dies
  <2> QED BY <1>2, <1>3, <2>1, <2>2, <2>3
<1>5. CASE Drain(p)
  <2> DEFINE B == m.procs[p].box \ {"QUIT"}
  <2>1. m' = Wrote(m, p, "draining", B)
    <3>1. m' = [m EXCEPT !.procs[p].state = "draining", !.procs[p].box = B]
      BY <1>1, <1>2, <1>5 DEF Drain, State, ProcType, Pids
    <3> QED BY <3>1 DEF Wrote
  <2>2. ~Gone(m, p) /\ B \in SUBSET m.procs[p].box
    BY <1>5 DEF Drain, Gone
  <2>3. pending' = pending
    BY <1>5 DEF Drain
  <2> HIDE DEF B
  <2>4. m' = Moved(m, p, Child(m, p, "draining", B), m.faults, m.lost)
    BY <1>1, <2>1, MovedIs
  <2> QED BY <1>2, <1>3, <2>2, <2>3, <2>4
<1>6. CASE Reopen(p)
  <2> DEFINE B == m.procs[p].box \ {"USR1"}
  <2>1. m' = WroteBox(m, p, B)
    <3>1. m' = [m EXCEPT !.procs[p].box = B]
      BY <1>1, <1>2, <1>6 DEF Reopen, State, ProcType, Pids
    <3> QED BY <3>1 DEF WroteBox
  <2>2. /\ ~Gone(m, p) /\ m.procs[p].state \in {"run", "draining", "zombie", "fatal"}
        /\ B \in SUBSET m.procs[p].box
    BY <1>6 DEF Reopen, Awake, Gone
  <2>3. pending' = pending
    BY <1>6 DEF Reopen
  <2> HIDE DEF B
  <2>4. m' = Moved(m, p, Child(m, p, m.procs[p].state, B), m.faults, m.lost)
    BY <1>1, <2>1, MovedIs
  <2> QED BY <1>2, <1>3, <2>2, <2>3, <2>4
<1>7. CASE Crash(p)
  <2>1. PICK how \in {"zombie", "fatal"} :
          m' = IF how = "fatal" THEN Losing(Wrote(m, p, how, {})) ELSE Fault(Wrote(m, p, how, {}))
    BY <1>7 DEF Crash, Wrote
  <2>2. \E l \in Nat : m' = Moved(m, p, Child(m, p, how, {}), m.faults - 1, l)
    BY <1>1, <1>2, <2>1, MovedIs
  <2>3. ~Gone(m, p) /\ m.faults - 1 \in Nat
    BY <1>2, <1>7 DEF Crash, Awake, Gone
  <2>4. pending' \subseteq pending \cup {"CHLD"}
    BY <1>7 DEF Crash
  <2>5. {} \in SUBSET m.procs[p].box
    OBVIOUS
  <2> QED BY <1>3, <2>2, <2>3, <2>4, <2>5
<1>8. CASE Drained(p) \/ Terminated(p) \/ Killed(p) \/ BinaryExits(p)
  <2>1. Dies(p, "zombie") /\ Awake(p)
    BY <1>8 DEF Drained, Terminated, Killed, BinaryExits, Awake
  <2> QED BY <1>4, <2>1
<1> QED BY <1>5, <1>6, <1>7, <1>8 DEF ChildStep

-----------------------------------------------------------------------------
(* The invariant.                                                          *)

Calmly == "rollback" \notin Scenarios

\* The invariant as the lemmas above put it.
LEMMA InvIs ==
  MasterInv <=> /\ Sound(m, Calmly) /\ pending \subseteq Signals \cup {"ALRM", "CHLD"}
                /\ Calmly => ("HUP" \in pending => m.new_binary = 0)
BY DEF MasterInv, Sound, Calmly

\* The first workers are started.
LEMMA InitInv ==
  ASSUME MasterInit
  PROVE  MasterInv
<1>1. m \in ngx_start_worker_processes(Empty, "RESPAWN")
  BY DEF MasterInit
<1> DEFINE e == Empty
<1>2. /\ e.table = <<>> /\ e.procs = <<>> /\ e.flags = {} /\ e.live = TRUE /\ e.exited = FALSE
      /\ e.new_binary = 0 /\ e \in State
  BY MasterAssumption DEF Empty, State
<1> HIDE DEF e
<1>3. Good(e)
  BY <1>2 DEF Good, Tracked, Slots, Pids
<1>4. Good(m) /\ Rest(e, m)
  BY <1>1, <1>3, StartIs DEF e
<1>5. m.live = TRUE /\ m.exited = FALSE /\ m.flags = {}
  BY <1>2, <1>4 DEF Rest
<1>6. Holding(m) /\ NoRollback(m) /\ ~m.exited
  BY <1>5 DEF Holding, NoRollback, Has
<1>7. pending = {}
  BY DEF MasterInit
<1> QED BY <1>4, <1>6, <1>7 DEF MasterInv

\* sigsuspend returns: handlers, ngx_reap_children, the body, the top of the loop.
LEMMA MasterStepInv ==
  ASSUME MasterInv, MasterStep
  PROVE  MasterInv'
<1> DEFINE h == Calmly
<1>1. /\ Sound(m, h) /\ h \in BOOLEAN /\ pending \subseteq Signals \cup {"ALRM", "CHLD"}
      /\ h => ("HUP" \in pending => m.new_binary = 0)
  BY InvIs DEF Calmly
<1> HIDE DEF h
<1>2. PICK s : s = ngx_signal_handler(m, pending)
  OBVIOUS
<1>3. PICK y \in When({s}, "reap", ngx_reap_children) : \E x \in Body(y) : m' = TopOfLoop(x)
  <2>1. m' \in {TopOfLoop(x) : x \in Each(When({s}, "reap", ngx_reap_children), Body)}
    BY <1>2 DEF MasterStep
  <2> QED BY <2>1 DEF Each
<1>4. Good(m) /\ m.exited = FALSE
  BY <1>1, StateIs DEF Sound, Good, MasterStep
<1>5. pending \subseteq Heard
  BY <1>1, MasterAssumption DEF Heard
<1>6. /\ Good(s) /\ (Holding(m) => Holding(s)) /\ s.exited = FALSE
      /\ s.new_binary \in {m.new_binary, 0}
      /\ Has(s, "reconfigure") => Has(m, "reconfigure") \/ "HUP" \in pending
      /\ Has(m, "terminate") => Has(s, "terminate")
      /\ Has(m, "quit") => Has(s, "quit")
  BY <1>2, <1>4, <1>5, HandlerIs
<1>7. h => NoRollback(s)
  BY <1>1, <1>6 DEF Sound, NoRollback
<1>8. Sound(s, h)
  BY <1>1, <1>6, <1>7 DEF Sound
<1>9. Sound(y, h) /\ y.exited = FALSE
  <2>1. y \in IF Has(s, "reap") THEN ngx_reap_children(Unset(s, "reap")) ELSE {s}
    BY <1>3 DEF When, Each
  <2>2. CASE ~Has(s, "reap")
    BY <1>6, <1>8, <2>1, <2>2
  <2>3. CASE Has(s, "reap")
    <3> DEFINE u == Unset(s, "reap")
    <3>1. Alike(s, u)
      BY <1>6, FlagIs DEF Flag
    <3>2. Sound(u, h) /\ u.exited = FALSE
      BY <1>1, <1>6, <1>8, <3>1, SoundAlike DEF Alike, Calm
    <3> HIDE DEF u
    <3>3. Good(y) /\ Calm(u, y) /\ Holding(y)
      BY <2>1, <2>3, <3>2, ReapIs DEF Sound, u
    <3>4. NoRollback(u) => NoRollback(y)
      BY <3>3 DEF NoRollback, Calm
    <3>5. y.exited = FALSE
      BY <3>2, <3>3 DEF Calm
    <3> QED BY <3>2, <3>3, <3>4, <3>5 DEF Sound
  <2> QED BY <2>2, <2>3
<1>10. PICK x \in Body(y) : m' = TopOfLoop(x)
  BY <1>3
<1>11. Sound(x, h)
  BY <1>1, <1>9, <1>10, BodyIs
<1>12. Alike(x, TopOfLoop(x))
  BY <1>11, TopOfLoopIs DEF Sound
<1>13. Sound(m', h)
  BY <1>1, <1>10, <1>11, <1>12, SoundAlike
<1>14. pending' = {}
  BY DEF MasterStep
<1> QED BY <1>13, <1>14 DEF MasterInv, Sound, h, Calmly

\* Every step of the system keeps the invariant.
LEMMA NextInv ==
  ASSUME MasterInv, [MasterNext]_masterVars
  PROVE  MasterInv'
<1> DEFINE h == Calmly
<1>1. /\ Sound(m, h) /\ h \in BOOLEAN /\ pending \subseteq Signals \cup {"ALRM", "CHLD"}
      /\ h => ("HUP" \in pending => m.new_binary = 0)
  BY InvIs DEF Calmly
<1> HIDE DEF h
<1>2. ASSUME Sound(m', h), pending' \subseteq Signals \cup {"ALRM", "CHLD"},
             h => ("HUP" \in pending' => m'.new_binary = 0)
      PROVE  MasterInv'
  BY <1>2 DEF MasterInv, Sound, h, Calmly
<1>3. ASSUME NEW x \in Signals, Send(x)
      PROVE  MasterInv'
  <2>1. m' = m /\ pending' = pending \cup {x} /\ (x = "HUP" => ~h \/ m.new_binary = 0)
    BY <1>3 DEF Send, h, Calmly
  <2> QED BY <1>1, <1>2, <2>1
<1>4. CASE Alarm
  <2>1. m' = m /\ pending' = pending \cup {"ALRM"}
    BY <1>4 DEF Alarm
  <2> QED BY <1>1, <1>2, <2>1
<1>5. CASE MasterStep
  BY <1>5, MasterStepInv
<1>6. ASSUME NEW p \in 1..Len(m.procs), ChildStep(p)
      PROVE  MasterInv'
  <2>1. /\ Alike(m, m') /\ m'.new_binary = m.new_binary
        /\ pending' \subseteq pending \cup {"CHLD"}
    BY <1>1, <1>6, ChildStepIs DEF Sound
  <2>2. Sound(m', h)
    BY <1>1, <2>1, SoundAlike
  <2> QED BY <1>1, <1>2, <2>1, <2>2
<1>7. CASE Over \/ UNCHANGED masterVars
  <2>1. m' = m /\ pending' = pending
    BY <1>7 DEF Over, masterVars
  <2> QED BY <1>1, <1>2, <2>1
<1> QED BY <1>3, <1>4, <1>5, <1>6, <1>7 DEF MasterNext

\* The invariant holds of every run of the master.
THEOREM MasterInvariant == MasterSpec => []MasterInv
<1>1. MasterInit => MasterInv
  BY InitInv
<1>2. MasterInv /\ [MasterNext]_masterVars => MasterInv'
  BY NextInv
<1> QED BY <1>1, <1>2, PTL DEF MasterSpec

\* Whatever exits, crashes, failed forks, reloads and upgrades interleave, a child
\* that has not been waited for has exactly one slot of ngx_processes.
THEOREM ChildrenTracked == MasterSpec => []TableTracksChildren
<1>1. MasterInv => TableTracksChildren
  <2> SUFFICES ASSUME MasterInv, NEW p \in 1..Len(m.procs), m.procs[p].state # "gone"
               PROVE  Cardinality({i \in 1..Len(m.table) : m.table[i].pid = p}) = 1
    BY DEF TableTracksChildren
  <2>1. Tracked(m) /\ m \in State
    BY DEF MasterInv, Good
  <2>2. Len(m.procs) \in Nat
    BY <2>1, StateIs
  <2>3. PICK j \in 1..Len(m.table) : m.table[j].pid = p
    BY <2>1 DEF Tracked, Gone, Pids, Slots
  <2>4. \A i \in 1..Len(m.table) : m.table[i].pid = p => i = j
    BY <2>1, <2>2, <2>3 DEF Tracked, Slots
  <2>5. {i \in 1..Len(m.table) : m.table[i].pid = p} = {j}
    BY <2>3, <2>4
  <2> QED BY <2>5, FS_Singleton
<1> QED BY <1>1, MasterInvariant, PTL

\* As long as nobody asks for a new configuration while a new binary runs (the
\* case in which the master does leave workers behind), ngx_master_process_exit
\* is reached only when no worker is left, however many there are and whatever
\* crashes and failed forks come in between.
THEOREM NobodyOrphaned ==
  ASSUME "rollback" \notin Scenarios
  PROVE  MasterSpec => []NoOrphans
<1>1. MasterInv => NoOrphans
  <2> SUFFICES ASSUME MasterInv, m.exited, NEW p \in 1..Len(m.procs), Worker(p)
               PROVE  ~Awake(p)
    BY DEF NoOrphans
  <2>1. Holding(m) /\ ~m.live
    BY DEF MasterInv
  <2>2. Gone(m, p)
    BY <2>1 DEF Holding, Worker, Pids
  <2> QED BY <2>2 DEF Gone, Awake
<1> QED BY <1>1, MasterInvariant, PTL

-----------------------------------------------------------------------------
(* The workers that serve: running, and not told to go.                    *)

Ends == {"QUIT", "TERM", "KILL"}

Serves(q) == q.what = "worker" /\ q.state = "run" /\ q.box \cap Ends = {}

\* They have the configuration in use.
Newest(s) == \A p \in Pids(s) : Serves(s.procs[p]) => s.procs[p].cycle = s.cycle

\* Whoever is marked exiting has been told.
Going(s) ==
  \A i \in Slots(s) : s.table[i].pid # 0 /\ s.table[i].exiting =>
    ~Serves(s.procs[s.table[i].pid])

\* just_spawn does not outlive the reconfiguration that sets it.
Settled(s) == \A i \in Slots(s) : ~s.table[i].just_spawn

\* A slot that counts: a worker that is not told to go and is to be replaced when
\* it dies.  Of those that have been waited for only the slots in D count, which
\* ngx_reap_children has still to come to.
Post(s, i, D) ==
  LET e == s.table[i]
  IN  /\ e.pid # 0 /\ e.respawn /\ ~e.exiting
      /\ s.procs[e.pid].state # "fatal"
      /\ Gone(s, e.pid) => e.exited /\ i \in D

Posts(s, D) == {i \in Slots(s) : Post(s, i, D)}

\* As many as configured, but for those lost.
Staffed(s, D) == Cardinality(Posts(s, D)) + s.lost >= WorkerProcesses

\* The flags with which the master does without its workers.
Standby == {"noaccepting", "restart", "quit", "terminate"}

Manned(s, D) == s.flags \cap Standby = {} => Staffed(s, D)

Fresh(s) == Good(s) /\ Newest(s) /\ Going(s) /\ Settled(s)

FreshInv == Fresh(m) /\ Manned(m, {}) /\ pending \subseteq Signals \cup {"ALRM", "CHLD"}

-----------------------------------------------------------------------------
(* Signalling.                                                             *)

\* A process whose box may have grown.
Grown(q, r) ==
  r.state = q.state /\ r.what = q.what /\ r.cycle = q.cycle /\ q.box \subseteq r.box

\* What does not serve does not when its box grows.
LEMMA GrownServes ==
  ASSUME NEW q, NEW r, Grown(q, r), Serves(r)
  PROVE  Serves(q)
BY DEF Grown, Serves

\* What signalling leaves as it is.
Still(s, t) == t.cycle = s.cycle /\ t.lost = s.lost /\ s.flags \subseteq t.flags

\* USR1 makes nobody go.
Kept(q, r, signo) == Grown(q, r) /\ (signo = "USR1" /\ Serves(q) => Serves(r))

\* The slot i of s has been told signo.
Told(s, t, i, signo) ==
  /\ Still(s, t)
  /\ \A j \in Slots(s) : j # i => t.table[j] = s.table[j]
  /\ \A p \in Pids(s) : Kept(s.procs[p], t.procs[p], signo)
  /\ \A p \in Pids(s) : p # s.table[i].pid => t.procs[p] = s.procs[p]
  /\ t.table[i].just_spawn => s.table[i].just_spawn
  /\ s.table[i].pid # 0 /\ t.table[i].exiting => ~Serves(t.procs[s.table[i].pid])
  /\ (signo = "USR1" \/ s.table[i].just_spawn) /\ Post(s, i, {}) => Post(t, i, {})

\* A worker that is told to go does not serve, one just spawned is spared.
Spares(s, t, i, signo) ==
  s.table[i].pid # 0 /\ ~s.table[i].detached =>
    /\ ~t.table[i].just_spawn
    /\ s.table[i].just_spawn => t.procs = s.procs
    /\ ~s.table[i].just_spawn /\ signo # "USR1" => ~Serves(t.procs[s.table[i].pid])

\* Its pid is one of a process.
LEMMA PidIs ==
  ASSUME NEW s, Good(s), NEW i \in Slots(s), s.table[i].pid # 0
  PROVE  s.table[i].pid \in Pids(s) /\ s.procs[s.table[i].pid] \in ProcType
<1>1. s.table[i].pid \in 0..Len(s.procs) /\ Len(s.procs) \in Nat
  BY StateIs DEF Good, Tracked
<1>2. s.table[i].pid \in Pids(s)
  BY <1>1 DEF Pids
<1> QED BY <1>2, StateIs DEF Good

\* A process is told.
LEMMA TellTold ==
  ASSUME NEW s, Good(s), Going(s), NEW i \in Slots(s), s.table[i].pid # 0,
         ~s.table[i].just_spawn, NEW signo \in {"QUIT", "TERM", "KILL", "USR1"}
  PROVE  LET t == Tell(s, i, signo)
         IN  /\ Told(s, t, i, signo) /\ t.table[i].just_spawn = s.table[i].just_spawn
             /\ signo # "USR1" => ~Serves(t.procs[s.table[i].pid])
<1> DEFINE e == s.table[i]
           p == e.pid
           t == Tell(s, i, signo)
<1>1. /\ s \in State /\ s.table \in Seq(SlotType) /\ s.procs \in Seq(ProcType)
      /\ e \in SlotType /\ \A k \in Pids(s) : s.procs[k] \in ProcType
  BY StateIs DEF Good
<1>2. p \in Pids(s) /\ p # 0
  BY PidIs
<1>3. CASE Gone(s, p)
  <2> DEFINE e2 == [e EXCEPT !.exited = TRUE, !.exiting = FALSE]
             u == [s EXCEPT !.table[i].exited = TRUE, !.table[i].exiting = FALSE]
  <2>1. e2 \in SlotType /\ e2.just_spawn = e.just_spawn /\ e2.exiting = FALSE
    BY <1>1 DEF SlotType
  <2>2. u = [s EXCEPT !.table = [s.table EXCEPT ![i] = e2]]
    BY <1>1 DEF Slots, State, SlotType
  <2>3. [s.table EXCEPT ![i] = e2] \in Seq(SlotType)
    BY <1>1, <2>1 DEF Slots
  <2>4. t = Set(u, "reap")
    BY <1>3 DEF Tell, Gone
  <2> HIDE DEF e2, u, t
  <2>5. /\ u \in State /\ u.table = [s.table EXCEPT ![i] = e2] /\ u.procs = s.procs
        /\ u.flags = s.flags /\ u.cycle = s.cycle /\ u.lost = s.lost
    BY <1>1, <2>2, <2>3 DEF State
  <2>6. /\ t.table = [s.table EXCEPT ![i] = e2] /\ t.procs = s.procs
        /\ s.flags \subseteq t.flags /\ t.cycle = s.cycle /\ t.lost = s.lost
    BY <2>4, <2>5 DEF State, Set
  <2>7. t.table[i] = e2 /\ \A j \in Slots(s) : j # i => t.table[j] = s.table[j]
    BY <1>1, <2>6 DEF Slots
  <2>8. \A k \in Pids(s) : Kept(s.procs[k], t.procs[k], signo)
    BY <2>6 DEF Grown, Kept
  <2>9. ~Serves(t.procs[p])
    BY <1>3, <2>6 DEF Serves, Gone
  <2>10. ~Post(s, i, {})
    BY <1>3 DEF Post
  <2> QED BY <2>1, <2>6, <2>7, <2>8, <2>9, <2>10 DEF Told, Still, t
<1>4. CASE ~Gone(s, p)
  <2> DEFINE q == s.procs[p]
             e2 == [e EXCEPT !.exiting = @ \/ signo # "USR1"]
             box == IF q.state \in {"zombie", "fatal"} THEN q.box ELSE q.box \cup {signo}
             q2 == [q EXCEPT !.box = box]
  <2>0. q \in ProcType
    BY <1>1, <1>2
  <2>1. /\ e2 \in SlotType /\ e2.just_spawn = e.just_spawn
        /\ e2.exiting = (e.exiting \/ signo # "USR1")
        /\ e2.pid = e.pid /\ e2.respawn = e.respawn /\ e2.exited = e.exited
    BY <1>1 DEF SlotType
  <2>2. /\ q2 \in ProcType /\ q2.state = q.state /\ q2.what = q.what /\ q2.cycle = q.cycle
        /\ q2.box = box
    <3>2. box \subseteq {"QUIT", "TERM", "KILL", "USR1"}
      BY <2>0 DEF ProcType
    <3> HIDE DEF q, box
    <3> QED BY <2>0, <3>2 DEF ProcType
  <2>3. t = [s EXCEPT !.table = [s.table EXCEPT ![i] = e2], !.procs = [s.procs EXCEPT ![p] = q2]]
    BY <1>1, <1>2, <1>4 DEF Tell, Gone, State, Slots, Pids, SlotType, ProcType
  <2> HIDE DEF e2, q2, t
  <2>4. /\ [s.table EXCEPT ![i] = e2] \in Seq(SlotType)
        /\ [s.procs EXCEPT ![p] = q2] \in Seq(ProcType)
    <3>1. PICK tb, pr, e3, q3 : tb = s.table /\ pr = s.procs /\ e3 = e2 /\ q3 = q2
      OBVIOUS
    <3>2. tb \in Seq(SlotType) /\ i \in 1..Len(tb) /\ e3 \in SlotType
      BY <3>1, <1>1, <2>1 DEF Slots
    <3>3. pr \in Seq(ProcType) /\ p \in 1..Len(pr) /\ q3 \in ProcType
      BY <3>1, <1>1, <1>2, <2>2 DEF Pids
    <3>4. [tb EXCEPT ![i] = e3] \in Seq(SlotType)
      BY <3>2
    <3>5. [pr EXCEPT ![p] = q3] \in Seq(ProcType)
      BY <3>3
    <3> QED BY <3>1, <3>4, <3>5
  <2>5. /\ t.table = [s.table EXCEPT ![i] = e2] /\ t.procs = [s.procs EXCEPT ![p] = q2]
        /\ t.flags = s.flags /\ t.cycle = s.cycle /\ t.lost = s.lost
    BY <1>1, <2>3, <2>4 DEF State
  <2>6. t.table[i] = e2 /\ \A j \in Slots(s) : j # i => t.table[j] = s.table[j]
    BY <1>1, <2>5 DEF Slots
  <2>7. t.procs[p] = q2 /\ \A k \in Pids(s) : k # p => t.procs[k] = s.procs[k]
    BY <1>1, <1>2, <2>5 DEF Pids
  <2>8. Grown(q, q2)
    <3>1. q.box \subseteq box
      OBVIOUS
    <3> QED BY <2>2, <3>1 DEF Grown
  <2>9. signo = "USR1" /\ Serves(q) => Serves(q2)
    <3> SUFFICES ASSUME signo = "USR1", Serves(q) PROVE Serves(q2)
      OBVIOUS
    <3>1. box \cap Ends = {}
      BY DEF Serves, Ends
    <3> QED BY <2>2, <3>1 DEF Serves
  <2>10. signo # "USR1" => ~Serves(q2)
    <3> SUFFICES ASSUME signo # "USR1", Serves(q2) PROVE FALSE
      OBVIOUS
    <3>1. q.state = "run" /\ q2.box \cap Ends = {}
      BY <2>2 DEF Serves
    <3>2. signo \in box /\ signo \in Ends
      BY <3>1 DEF Ends
    <3> QED BY <2>2, <3>1, <3>2
  <2>11. e2.exiting => ~Serves(q2)
    <3> SUFFICES ASSUME e2.exiting, signo = "USR1" PROVE ~Serves(q2)
      BY <2>10
    <3>1. e.exiting
      BY <2>1
    <3>2. ~Serves(q)
      BY <1>2, <3>1 DEF Going
    <3> QED BY <2>8, <3>2, GrownServes
  <2>12. \A k \in Pids(s) : Kept(s.procs[k], t.procs[k], signo)
    <3> TAKE k \in Pids(s)
    <3>1. CASE k = p
      BY <2>7, <2>8, <2>9, <3>1 DEF Kept
    <3>2. CASE k # p
      <4>1. t.procs[k] = s.procs[k]
        BY <2>7, <3>2
      <4> QED BY <4>1 DEF Kept, Grown
    <3> QED BY <3>1, <3>2
  <2>13. Still(s, t)
    BY <2>5 DEF Still
  <2>14. t.table[i].just_spawn = s.table[i].just_spawn
    BY <2>1, <2>6
  <2>15. t.table[i].exiting => ~Serves(t.procs[p])
    BY <2>6, <2>7, <2>11
  <2>16. signo # "USR1" => ~Serves(t.procs[p])
    BY <2>7, <2>10
  <2>17. signo = "USR1" /\ Post(s, i, {}) => Post(t, i, {})
    <3> SUFFICES ASSUME signo = "USR1", Post(s, i, {}) PROVE Post(t, i, {})
      OBVIOUS
    <3>1. e2.exiting = e.exiting /\ t.procs[p].state = q.state
      BY <1>1, <2>1, <2>2, <2>7 DEF SlotType
    <3> HIDE DEF q, box
    <3> QED BY <2>1, <2>6, <3>1 DEF Post, Gone, q
  <2> HIDE DEF q, box
  <2> QED BY <2>6, <2>7, <2>12, <2>13, <2>14, <2>15, <2>16, <2>17 DEF Told, t
<1> QED BY <1>3, <1>4

\* One slot is signalled.
LEMMA SlotTold ==
  ASSUME NEW s, Good(s), Going(s), NEW i \in Slots(s),
         NEW signo \in {"QUIT", "TERM", "KILL", "USR1"}
  PROVE  /\ Told(s, SignalSlot(s, i, signo), i, signo)
         /\ Spares(s, SignalSlot(s, i, signo), i, signo)
<1> DEFINE e == s.table[i]
           t == SignalSlot(s, i, signo)
<1>1. s \in State /\ s.table \in Seq(SlotType) /\ e \in SlotType
  BY StateIs DEF Good
<1>2. Told(s, s, i, signo)
  BY DEF Told, Still, Kept, Grown, Going
<1>3. CASE e.detached \/ e.pid = 0
  <2>1. t = s
    BY <1>3 DEF SignalSlot
  <2> QED BY <1>2, <1>3, <2>1 DEF Spares
<1>4. CASE ~e.detached /\ e.pid # 0 /\ e.just_spawn
  <2> DEFINE e2 == [e EXCEPT !.just_spawn = FALSE]
  <2>1. /\ e2 \in SlotType /\ e2.exiting = e.exiting /\ e2.just_spawn = FALSE
        /\ e2.pid = e.pid /\ e2.respawn = e.respawn /\ e2.exited = e.exited
    BY <1>1 DEF SlotType
  <2>2. t = [s EXCEPT !.table = [s.table EXCEPT ![i] = e2]]
    <3>1. t = [s EXCEPT !.table[i].just_spawn = FALSE]
      BY <1>4 DEF SignalSlot
    <3> HIDE DEF t
    <3> QED BY <1>1, <3>1 DEF Slots, State, SlotType
  <2> HIDE DEF e2, t
  <2>3. [s.table EXCEPT ![i] = e2] \in Seq(SlotType)
    BY <1>1, <2>1 DEF Slots
  <2>4. /\ t.table = [s.table EXCEPT ![i] = e2] /\ t.procs = s.procs
        /\ t.flags = s.flags /\ t.cycle = s.cycle /\ t.lost = s.lost
    BY <1>1, <2>2, <2>3 DEF State
  <2>5. t.table[i] = e2 /\ \A j \in Slots(s) : j # i => t.table[j] = s.table[j]
    BY <1>1, <2>4 DEF Slots
  <2>6. e.exiting => ~Serves(s.procs[e.pid])
    BY <1>4 DEF Going
  <2>7. \A k \in Pids(s) : Kept(s.procs[k], t.procs[k], signo)
    BY <2>4 DEF Kept, Grown
  <2>10. Post(s, i, {}) => Post(t, i, {})
    BY <2>1, <2>4, <2>5 DEF Post, Gone
  <2>8. Told(s, t, i, signo)
    BY <1>4, <2>1, <2>4, <2>5, <2>6, <2>7, <2>10 DEF Told, Still
  <2>9. Spares(s, t, i, signo)
    BY <1>4, <2>1, <2>4, <2>5 DEF Spares
  <2> QED BY <2>8, <2>9 DEF t
<1>5. CASE ~e.detached /\ e.pid # 0 /\ ~e.just_spawn /\ e.exiting /\ signo = "QUIT"
  <2>1. t = s
    BY <1>5 DEF SignalSlot
  <2>2. ~Serves(s.procs[e.pid])
    BY <1>5 DEF Going
  <2> QED BY <1>2, <1>5, <2>1, <2>2 DEF Spares
<1>6. CASE ~e.detached /\ e.pid # 0 /\ ~e.just_spawn /\ ~(e.exiting /\ signo = "QUIT")
  <2>1. t = Tell(s, i, signo)
    BY <1>6 DEF SignalSlot
  <2>2. /\ Told(s, t, i, signo) /\ t.table[i].just_spawn = e.just_spawn
        /\ signo # "USR1" => ~Serves(t.procs[e.pid])
    BY <1>6, <2>1, TellTold
  <2> QED BY <1>6, <2>2 DEF Spares
<1> QED BY <1>3, <1>4, <1>5, <1>6

\* The slots up to k of s have been signalled.
Round(s, t, k, signo) ==
  /\ Alike(s, t) /\ Still(s, t) /\ Going(t)
  /\ \A p \in Pids(s) : Kept(s.procs[p], t.procs[p], signo)
  /\ \A j \in Slots(s) : j > k => t.table[j] = s.table[j]
  /\ \A j \in Slots(s) : t.table[j].just_spawn => s.table[j].just_spawn
  /\ \A j \in Slots(s) : s.table[j].pid # 0 /\ ~s.table[j].detached =>
       /\ s.table[j].just_spawn => t.procs[s.table[j].pid] = s.procs[s.table[j].pid]
       /\ j <= k => ~t.table[j].just_spawn
       /\ j <= k /\ ~s.table[j].just_spawn /\ signo # "USR1" =>
            ~Serves(t.procs[s.table[j].pid])
  /\ \A j \in Slots(s) : (signo = "USR1" \/ s.table[j].just_spawn) /\ Post(s, j, {}) =>
       Post(t, j, {})

\* Kept twice.
LEMMA KeptTwice ==
  ASSUME NEW q, NEW r, NEW v, NEW signo, Kept(q, r, signo), Kept(r, v, signo)
  PROVE  Kept(q, v, signo)
BY DEF Kept, Grown

\* One more slot.
LEMMA RoundMore ==
  ASSUME NEW s, Good(s), NEW signo \in {"QUIT", "TERM", "KILL", "USR1"},
         NEW k \in Slots(s), NEW t, Round(s, t, k - 1, signo)
  PROVE  Round(s, SignalSlot(t, k, signo), k, signo)
<1> DEFINE u == SignalSlot(t, k, signo)
<1>0. Slots(s) \subseteq Nat /\ k \in Nat
  BY StateIs DEF Good, Slots
<1>1. Good(t) /\ Slots(t) = Slots(s) /\ Pids(t) = Pids(s)
  BY SameGood DEF Round, Alike, Same, Slots, Pids
<1>2. Alike(t, u) /\ Told(t, u, k, signo) /\ Spares(t, u, k, signo)
  BY <1>1, SignalSlotIs, SlotTold DEF Round
<1> HIDE DEF u
<1>3. Alike(s, t) /\ Alike(s, u)
  BY <1>2, AlikeTwice DEF Round
<1>4. Good(u) /\ Slots(u) = Slots(s)
  BY <1>1, <1>2, SameGood DEF Alike, Same, Slots
<1>5. \A j \in Slots(s) : /\ t.table[j].pid = s.table[j].pid /\ u.table[j].pid = s.table[j].pid
                          /\ t.table[j].detached = s.table[j].detached
  BY <1>3 DEF Alike, Same
<1>6. t.table[k] = s.table[k]
  <2>1. k > k - 1
    BY <1>0
  <2> QED BY <2>1 DEF Round
<1>7. Still(s, u)
  BY <1>2 DEF Round, Told, Still
<1>8. \A p \in Pids(s) : Kept(s.procs[p], u.procs[p], signo) /\ Kept(t.procs[p], u.procs[p], signo)
  BY <1>1, <1>2, KeptTwice DEF Round, Told
<1>9. \A j \in Slots(s) : j # k => u.table[j] = t.table[j]
  BY <1>1, <1>2 DEF Told
<1>10. \A j \in Slots(s) : s.table[j].pid # 0 => s.table[j].pid \in Pids(s)
  BY PidIs
<1>11. Going(u)
  <2> SUFFICES ASSUME NEW j \in Slots(s), u.table[j].pid # 0, u.table[j].exiting
               PROVE  ~Serves(u.procs[u.table[j].pid])
    BY <1>4 DEF Going
  <2>1. CASE j = k
    BY <1>2, <1>5, <2>1 DEF Told
  <2>2. CASE j # k
    <3>1. ~Serves(t.procs[t.table[j].pid]) /\ t.table[j].pid = u.table[j].pid
      BY <1>1, <1>9, <2>2 DEF Round, Going
    <3>2. Grown(t.procs[t.table[j].pid], u.procs[t.table[j].pid])
      BY <1>5, <1>8, <1>10 DEF Kept
    <3> QED BY <3>1, <3>2, GrownServes
  <2> QED BY <2>1, <2>2
<1>12. \A j \in Slots(s) : j > k => u.table[j] = s.table[j]
  <2> TAKE j \in Slots(s)
  <2> HAVE j > k
  <2>1. j > k - 1 /\ j # k
    BY <1>0
  <2>2. t.table[j] = s.table[j]
    BY <2>1 DEF Round
  <2> QED BY <1>9, <2>1, <2>2
<1>13. \A j \in Slots(s) : u.table[j].just_spawn => s.table[j].just_spawn
  <2> TAKE j \in Slots(s)
  <2>1. CASE j = k
    BY <1>2, <1>6, <2>1 DEF Told
  <2>2. CASE j # k
    BY <1>9, <2>2 DEF Round
  <2> QED BY <2>1, <2>2
<1>14. ASSUME NEW j \in Slots(s), s.table[j].pid # 0, ~s.table[j].detached
       PROVE  /\ s.table[j].just_spawn => u.procs[s.table[j].pid] = s.procs[s.table[j].pid]
              /\ j <= k => ~u.table[j].just_spawn
              /\ j <= k /\ ~s.table[j].just_spawn /\ signo # "USR1" =>
                   ~Serves(u.procs[s.table[j].pid])
  <2> DEFINE p == s.table[j].pid
  <2>1. p \in Pids(s)
    BY <1>10, <1>14
  <2>2. s.table[j].just_spawn => t.procs[p] = s.procs[p]
    BY <1>14 DEF Round
  <2>3. CASE j = k
    <3>1. /\ ~u.table[k].just_spawn
          /\ s.table[k].just_spawn => u.procs = t.procs
          /\ ~s.table[k].just_spawn /\ signo # "USR1" => ~Serves(u.procs[p])
      BY <1>2, <1>6, <1>14, <2>3 DEF Spares
    <3> QED BY <2>2, <2>3, <3>1
  <2>4. CASE j # k
    <3>1. t.table[k].pid # p
      BY <1>5, <1>14, <2>4 DEF Good, Tracked
    <3>2. u.procs[p] = t.procs[p]
      BY <1>1, <1>2, <2>1, <3>1 DEF Told
    <3>3. j <= k => j <= k - 1
      BY <1>0, <2>4
    <3>4. /\ j <= k - 1 => ~t.table[j].just_spawn
          /\ j <= k - 1 /\ ~s.table[j].just_spawn /\ signo # "USR1" => ~Serves(t.procs[p])
      BY <1>14 DEF Round
    <3>5. u.table[j] = t.table[j]
      BY <1>9, <2>4
    <3> QED BY <2>2, <3>2, <3>3, <3>4, <3>5
  <2> QED BY <2>3, <2>4
<1>15. ASSUME NEW j \in Slots(s), signo = "USR1" \/ s.table[j].just_spawn, Post(s, j, {})
       PROVE  Post(u, j, {})
  <2>1. Post(t, j, {})
    BY <1>15 DEF Round
  <2>2. CASE j = k
    BY <1>2, <1>6, <1>15, <2>1, <2>2 DEF Told
  <2>3. CASE j # k
    <3>1. u.table[j] = t.table[j] /\ t.table[j].pid \in Pids(s)
      BY <1>5, <1>9, <1>10, <1>15, <2>3 DEF Post
    <3>2. u.procs[t.table[j].pid].state = t.procs[t.table[j].pid].state
      BY <1>8, <3>1 DEF Kept, Grown
    <3> QED BY <2>1, <3>1, <3>2 DEF Post, Gone
  <2> QED BY <2>2, <2>3
<1> QED BY <1>3, <1>7, <1>8, <1>11, <1>12, <1>13, <1>14, <1>15 DEF Round, u

\* All the slots.
LEMMA SignalRound ==
  ASSUME NEW s, Good(s), Going(s), NEW signo \in {"QUIT", "TERM", "KILL", "USR1"}
  PROVE  Round(s, ngx_signal_worker_processes(s, signo), Len(s.table), signo)
<1> DEFINE n == Len(s.table)
           f == CHOOSE f : Signalling(f, n, s, signo)
<1>1. n \in Nat /\ Slots(s) = 1..n
  BY StateIs DEF Good, Slots
<1>2. Signalling(f, n, s, signo)
  BY <1>1, SignalsExist
<1>3. ngx_signal_worker_processes(s, signo) = f[n]
  BY DEF ngx_signal_worker_processes, Signalling
<1>4. Round(s, s, 0, signo)
  <2>1. Alike(s, s)
    BY AlikeSelf
  <2>2. \A j \in Slots(s) : ~(j <= 0)
    BY <1>1
  <2> QED BY <2>1, <2>2 DEF Round, Still, Kept, Grown
<1> HIDE DEF f, n
<1> DEFINE Bad == {k \in 0..n : ~Round(s, f[k], k, signo)}
<1>5. Bad = {}
  <2> SUFFICES ASSUME Bad # {} PROVE FALSE
    OBVIOUS
  <2>1. PICK k \in Bad : \A j \in Bad : k <= j
    <3>1. Bad \in SUBSET Nat
      BY <1>1
    <3> HIDE DEF Bad
    <3> QED BY <3>1, LeastNat
  <2>2. k \in 0..n /\ ~Round(s, f[k], k, signo)
    BY <2>1
  <2>3. k # 0
    <3>1. 0 \in 0..n => f[0] = s
      BY <1>2 DEF Signalling
    <3> QED BY <1>4, <2>2, <3>1
  <2>4. k - 1 \in 0..n /\ ~(k <= k - 1) /\ k \in 1..n
    BY <1>1, <2>2, <2>3
  <2>5. Round(s, f[k - 1], k - 1, signo)
    BY <2>1, <2>4
  <2>6. f[k] = SignalSlot(f[k - 1], k, signo)
    BY <1>2, <2>3, <2>4 DEF Signalling
  <2>7. k \in Slots(s)
    BY <1>1, <2>4
  <2>8. Round(s, f[k], k, signo)
    BY <2>5, <2>6, <2>7, RoundMore
  <2> QED BY <2>2, <2>8
<1>6. n \in 0..n
  BY <1>1
<1> QED BY <1>3, <1>5, <1>6 DEF n

\* No slot that counts is lost.
Keeps(s, t, D) ==
  t.flags \cap Standby = {} =>
    s.flags \cap Standby = {} /\ t.lost = s.lost /\ Posts(s, D) \subseteq Posts(t, D)

\* There are finitely many.
LEMMA PostsFinite ==
  ASSUME NEW s, Good(s), NEW D
  PROVE  IsFiniteSet(Posts(s, D)) /\ Cardinality(Posts(s, D)) \in Nat
<1>1. Len(s.table) \in Nat
  BY StateIs DEF Good
<1>2. IsFiniteSet(Slots(s))
  BY <1>1, FS_Interval DEF Slots
<1>3. IsFiniteSet(Posts(s, D))
  BY <1>2, FS_Subset DEF Posts
<1> QED BY <1>3, FS_CardinalityType

\* There are enough as long as no slot is lost.
LEMMA StaffedMore ==
  ASSUME NEW s, NEW t, NEW D, NEW E, Good(s), Good(t), Staffed(s, D), t.lost = s.lost,
         Posts(s, D) \subseteq Posts(t, E)
  PROVE  Staffed(t, E)
<1>1. /\ IsFiniteSet(Posts(t, E)) /\ Cardinality(Posts(t, E)) \in Nat
      /\ Cardinality(Posts(s, D)) \in Nat /\ s.lost \in Nat
  BY PostsFinite, StateIs DEF Good
<1>2. Cardinality(Posts(s, D)) <= Cardinality(Posts(t, E))
  BY <1>1, FS_Subset
<1> QED BY <1>1, <1>2, MasterAssumption DEF Staffed

\* Nor when one is and is counted.
LEMMA StaffedLess ==
  ASSUME NEW s, NEW t, NEW D, NEW E, Good(s), Good(t), Staffed(s, D), t.lost = s.lost + 1,
         NEW i, Posts(s, D) \ {i} \subseteq Posts(t, E)
  PROVE  Staffed(t, E)
<1> DEFINE P == Posts(s, D)
           Q == Posts(t, E)
<1>1. /\ IsFiniteSet(P) /\ IsFiniteSet(Q) /\ Cardinality(P) \in Nat
      /\ Cardinality(Q) \in Nat /\ s.lost \in Nat
  BY PostsFinite, StateIs DEF Good
<1>2. Cardinality(P) + s.lost >= WorkerProcesses
  BY DEF Staffed
<1>3. P \ {i} \subseteq Q
  OBVIOUS
<1> HIDE DEF P, Q
<1>4. Cardinality(P \ {i}) = IF i \in P THEN Cardinality(P) - 1 ELSE Cardinality(P)
  BY <1>1, FS_RemoveElement
<1>5. Cardinality(P \ {i}) <= Cardinality(Q)
  BY <1>1, <1>3, FS_Subset
<1>6. Cardinality(Q) + (s.lost + 1) >= WorkerProcesses
  BY <1>1, <1>2, <1>4, <1>5, MasterAssumption
<1> QED BY <1>6 DEF Staffed, Q

\* The same of the states in which it matters.
LEMMA KeepsManned ==
  ASSUME NEW s, NEW t, NEW D, Good(s), Good(t), Manned(s, D), Keeps(s, t, D)
  PROVE  Manned(t, D)
BY StaffedMore DEF Manned, Keeps

\* Nothing changes but fields that do not matter here.
LEMMA FreshFields ==
  ASSUME NEW s, Fresh(s), NEW t \in State, t.table = s.table, t.procs = s.procs,
         t.cycle = s.cycle
  PROVE  Fresh(t) /\ \A D : Posts(t, D) = Posts(s, D)
<1>1. Good(t)
  BY DEF Fresh, Good, Tracked, Slots, Pids, Gone
<1>2. Newest(t) /\ Going(t) /\ Settled(t)
  BY DEF Fresh, Newest, Going, Settled, Pids, Slots
<1>3. ASSUME NEW D PROVE Posts(t, D) = Posts(s, D)
  BY DEF Posts, Post, Slots, Gone
<1> QED BY <1>1, <1>2, <1>3 DEF Fresh

\* A flag is set or unset.
LEMMA FreshFlag ==
  ASSUME NEW s, Fresh(s), NEW f \in Flag
  PROVE  /\ Fresh(Set(s, f)) /\ Fresh(Unset(s, f))
         /\ f \notin Standby => \A D : Keeps(s, Set(s, f), D) /\ Keeps(s, Unset(s, f), D)
         /\ \A D : f \in Standby => Manned(Set(s, f), D)
         /\ \A D : Staffed(s, D) => Staffed(Unset(s, f), D)
<1>1. s \in State /\ s.flags \subseteq Flag
  BY StateIs DEF Fresh, Good
<1>2. /\ Set(s, f) \in State /\ Set(s, f).table = s.table /\ Set(s, f).procs = s.procs
      /\ Set(s, f).cycle = s.cycle /\ Set(s, f).lost = s.lost
      /\ Set(s, f).flags = s.flags \cup {f}
  BY <1>1 DEF Set, State
<1>3. /\ Unset(s, f) \in State /\ Unset(s, f).table = s.table /\ Unset(s, f).procs = s.procs
      /\ Unset(s, f).cycle = s.cycle /\ Unset(s, f).lost = s.lost
      /\ Unset(s, f).flags = s.flags \ {f}
  BY <1>1 DEF Unset, State
<1>4. Fresh(Set(s, f)) /\ \A D : Posts(Set(s, f), D) = Posts(s, D)
  BY <1>2, FreshFields
<1>5. Fresh(Unset(s, f)) /\ \A D : Posts(Unset(s, f), D) = Posts(s, D)
  BY <1>3, FreshFields
<1>6. f \notin Standby => \A D : Keeps(s, Set(s, f), D) /\ Keeps(s, Unset(s, f), D)
  BY <1>2, <1>3, <1>4, <1>5 DEF Keeps
<1>7. \A D : f \in Standby => Manned(Set(s, f), D)
  BY <1>2 DEF Manned
<1>8. \A D : Staffed(s, D) => Staffed(Unset(s, f), D)
  BY <1>3, <1>5 DEF Staffed
<1> QED BY <1>4, <1>5, <1>6, <1>7, <1>8

\* Signalling the workers: what USR1 does, and what a flag that says that they go allows.
LEMMA FreshSignal ==
  ASSUME NEW s, Fresh(s), NEW signo \in {"QUIT", "TERM", "KILL", "USR1"}
  PROVE  LET t == ngx_signal_worker_processes(s, signo)
         IN  /\ Fresh(t) /\ (signo = "USR1" => Keeps(s, t, {}))
             /\ s.flags \cap Standby # {} => Manned(t, {})
<1> DEFINE t == ngx_signal_worker_processes(s, signo)
<1>1. Round(s, t, Len(s.table), signo)
  BY SignalRound DEF Fresh
<1> HIDE DEF t
<1>2. Good(t) /\ Slots(t) = Slots(s) /\ Pids(t) = Pids(s)
  BY <1>1, SameGood DEF Round, Alike, Same, Slots, Pids, Fresh
<1>3. Newest(t)
  <2> SUFFICES ASSUME NEW p \in Pids(s), Serves(t.procs[p])
               PROVE  t.procs[p].cycle = t.cycle
    BY <1>2 DEF Newest
  <2>1. Grown(s.procs[p], t.procs[p]) /\ t.cycle = s.cycle
    BY <1>1 DEF Round, Kept, Still
  <2>2. s.procs[p].cycle = s.cycle
    BY <2>1, GrownServes DEF Fresh, Newest
  <2> QED BY <2>1, <2>2 DEF Grown
<1>4. Settled(t)
  BY <1>1, <1>2 DEF Fresh, Settled, Round
<1>5. Fresh(t)
  BY <1>1, <1>2, <1>3, <1>4 DEF Fresh, Round
<1>6. t.lost = s.lost /\ s.flags \subseteq t.flags
  BY <1>1 DEF Round, Still
<1>7. signo = "USR1" => Keeps(s, t, {})
  <2> SUFFICES ASSUME signo = "USR1" PROVE Keeps(s, t, {})
    OBVIOUS
  <2>1. Posts(s, {}) \subseteq Posts(t, {})
    BY <1>1, <1>2 DEF Posts, Round
  <2> QED BY <1>6, <2>1 DEF Keeps
<1>8. s.flags \cap Standby # {} => Manned(t, {})
  BY <1>6 DEF Manned
<1> QED BY <1>5, <1>7, <1>8 DEF t

-----------------------------------------------------------------------------
(* New workers.                                                            *)

\* A process that has just been forked.
Newborn(q, s, what) ==
  q.state = "run" /\ q.box = {} /\ q.cycle = s.cycle /\ q.what = what

\* The processes of x are those of s and others, just forked, each with a slot.
Placed(s, x, what, type) ==
  /\ x.cycle = s.cycle /\ Len(s.procs) <= Len(x.procs)
  /\ \A p \in Pids(s) : x.procs[p] = s.procs[p]
  /\ \A p \in Pids(x) \ Pids(s) : Newborn(x.procs[p], s, what)
  /\ \A j \in Slots(x) :
       \/ j \in Slots(s) /\ x.table[j] = s.table[j]
       \/ /\ x.table[j].pid \in Pids(x) \ Pids(s) /\ x.table[j].exiting = FALSE
          /\ x.table[j].just_spawn = (type = "JUST_RESPAWN")
          /\ x.table[j].respawn = (type # "DETACHED")

\* No slot in use is touched.
Stays(s, x) ==
  \A j \in Slots(s) : s.table[j].pid # 0 => j \in Slots(x) /\ x.table[j] = s.table[j]

\* The slots that count once workers of a type have been started.
Hired(s, type) == {i \in Posts(s, {}) : type = "JUST_RESPAWN" => s.table[i].just_spawn}

\* The forked child itself.
LEMMA ForkedNew ==
  ASSUME NEW s, Good(s), NEW what \in {"worker", "binary"}
  PROVE  LET f == Forked(s, what)
         IN  Newborn(f.procs[Len(s.procs) + 1], s, what) /\ f.cycle = s.cycle /\ f.lost = s.lost
<1> DEFINE q == [state |-> "run", box |-> {}, cycle |-> s.cycle, what |-> what]
           P == Append(s.procs, q)
           f == Forked(s, what)
<1>1. s \in State /\ s.procs \in Seq(ProcType) /\ s.cycle \in Nat
  BY StateIs DEF Good
<1>2. q \in ProcType /\ Newborn(q, s, what)
  BY <1>1 DEF ProcType, Newborn
<1> HIDE DEF q
<1>3. P \in Seq(ProcType) /\ P[Len(s.procs) + 1] = q
  BY <1>1, <1>2
<1>4. f = [s EXCEPT !.procs = P]
  BY DEF Forked, q
<1> HIDE DEF P, f
<1>5. f.procs = P /\ f.cycle = s.cycle /\ f.lost = s.lost
  BY <1>1, <1>3, <1>4 DEF State
<1> QED BY <1>2, <1>3, <1>5 DEF f

\* One process is started in a slot that was free, or a worker is lost.
LEMMA SpawnPlaced ==
  ASSUME NEW s, Good(s), NEW what \in {"worker", "binary"},
         NEW type \in {"RESPAWN", "JUST_RESPAWN", "DETACHED"},
         NEW x \in ngx_spawn_process(s, what, type)
  PROVE  /\ Placed(s, x, what, type) /\ Stays(s, x)
         /\ x.lost = s.lost \/ (what = "worker" /\ x.lost = s.lost + 1)
         /\ x.lost = s.lost /\ what = "worker" =>
              \E i \in Slots(x) : /\ x.table[i].pid \in Pids(x) \ Pids(s)
                                  /\ i \in Slots(s) => s.table[i].pid = 0
<1>1. s \in State /\ s.lost \in Nat /\ Len(s.procs) \in Nat
  BY StateIs DEF Good
<1>2. CASE x \in SpawnFails(s, what)
  <2>1. /\ x.procs = s.procs /\ x.table = s.table /\ x.cycle = s.cycle
        /\ x.lost = IF what = "worker" THEN s.lost + 1 ELSE s.lost
    BY <1>2, FaultIs
  <2>2. Len(s.procs) <= Len(x.procs) /\ s.lost + 1 # s.lost
    BY <1>1, <2>1
  <2>3. Placed(s, x, what, type) /\ Stays(s, x)
    BY <2>1, <2>2 DEF Placed, Stays, Slots, Pids
  <2> QED BY <2>1, <2>2, <2>3
<1>3. CASE x \notin SpawnFails(s, what)
  <2> DEFINE f == Forked(s, what)
             n == Len(s.procs)
             e == Slot(Len(f.procs), type)
             i == FreeSlot(s)
             T == IF i > Len(f.table) THEN Append(f.table, e) ELSE [f.table EXCEPT ![i] = e]
  <2>1. /\ f \in State /\ f.table = s.table
        /\ f.procs \in Seq(ProcType) /\ Len(f.procs) = n + 1
        /\ \A p \in Pids(s) : f.procs[p] = s.procs[p]
    BY ForkedIs
  <2>2. Newborn(f.procs[n + 1], s, what) /\ f.cycle = s.cycle /\ f.lost = s.lost
    BY ForkedNew
  <2>3. /\ n \in Nat /\ s.table \in Seq(SlotType) /\ Len(s.table) \in Nat
    BY StateIs DEF Good
  <2>4. x = [f EXCEPT !.table = T]
    BY <1>3 DEF ngx_spawn_process
  <2> HIDE DEF f
  <2>5. /\ e \in SlotType /\ e.pid = n + 1 /\ e.exiting = FALSE
        /\ e.just_spawn = (type = "JUST_RESPAWN") /\ e.respawn = (type # "DETACHED")
    <3>1. PICK pid \in Nat : pid = n + 1
      BY <2>3
    <3>2. e = [pid |-> pid, exiting |-> FALSE, exited |-> FALSE,
               respawn    |-> type \in {"RESPAWN", "JUST_RESPAWN"},
               just_spawn |-> type = "JUST_RESPAWN",
               detached   |-> type = "DETACHED"]
      BY <2>1, <3>1 DEF Slot
    <3> HIDE DEF e, n
    <3>3. (type \in {"RESPAWN", "JUST_RESPAWN"}) = (type # "DETACHED")
      OBVIOUS
    <3> QED BY <3>1, <3>2, <3>3 DEF SlotType
  <2>6. i = Len(s.table) + 1 \/ (i \in Slots(s) /\ s.table[i].pid = 0)
    BY FreeSlotIs
  <2> HIDE DEF e, i
  <2>7. /\ T \in Seq(SlotType) /\ 1..Len(T) = Slots(s) \cup {i} /\ T[i] = e
        /\ \A j \in Slots(s) : j # i => T[j] = s.table[j]
    <3>1. CASE i = Len(s.table) + 1
      <4>1. T = Append(s.table, e)
        BY <2>1, <2>3, <3>1
      <4> HIDE DEF T
      <4>2. /\ T \in Seq(SlotType) /\ Len(T) = Len(s.table) + 1 /\ T[Len(s.table) + 1] = e
            /\ \A j \in 1..Len(s.table) : T[j] = s.table[j]
        BY <2>3, <2>5, <4>1
      <4> QED BY <2>3, <3>1, <4>2 DEF Slots
    <3>2. CASE i \in Slots(s)
      <4>1. T = [s.table EXCEPT ![i] = e]
        BY <2>1, <2>3, <3>2 DEF Slots
      <4> HIDE DEF T
      <4>2. /\ T \in Seq(SlotType) /\ Len(T) = Len(s.table) /\ T[i] = e
            /\ \A j \in 1..Len(s.table) : j # i => T[j] = s.table[j]
        BY <2>3, <2>5, <3>2, <4>1 DEF Slots
      <4> QED BY <2>3, <3>2, <4>2 DEF Slots
    <3> QED BY <2>6, <3>1, <3>2
  <2> HIDE DEF T
  <2>8. x.table = T /\ x.procs = f.procs /\ x.cycle = s.cycle /\ x.lost = s.lost
    BY <2>1, <2>2, <2>4, <2>7 DEF State
  <2>9. Slots(x) = Slots(s) \cup {i}
    BY <2>7, <2>8 DEF Slots
  <2>10. Pids(x) \ Pids(s) = {n + 1}
    BY <2>1, <2>3, <2>8 DEF Pids
  <2>11. n <= Len(x.procs) /\ Len(x.procs) = n + 1
    BY <1>1, <2>1, <2>3, <2>8
  <2>12. \A j \in Slots(x) :
           \/ j \in Slots(s) /\ x.table[j] = s.table[j]
           \/ /\ x.table[j].pid \in Pids(x) \ Pids(s) /\ x.table[j].exiting = FALSE
              /\ x.table[j].just_spawn = (type = "JUST_RESPAWN")
              /\ x.table[j].respawn = (type # "DETACHED")
    <3> TAKE j \in Slots(x)
    <3>1. CASE j = i
      <4>1. x.table[j] = e
        BY <2>7, <2>8, <3>1
      <4> QED BY <2>5, <2>10, <4>1
    <3>2. CASE j # i
      BY <2>7, <2>8, <2>9, <3>2
    <3> QED BY <3>1, <3>2
  <2>13. \A p \in Pids(x) \ Pids(s) : Newborn(x.procs[p], s, what)
    BY <2>2, <2>8, <2>10
  <2>14. \A p \in Pids(s) : x.procs[p] = s.procs[p]
    BY <2>1, <2>8
  <2>15. Stays(s, x)
    <3> SUFFICES ASSUME NEW j \in Slots(s), s.table[j].pid # 0
                 PROVE  j \in Slots(x) /\ x.table[j] = s.table[j]
      BY DEF Stays
    <3>1. j # i
      BY <2>3, <2>6 DEF Slots
    <3> QED BY <2>7, <2>8, <2>9, <3>1
  <2>16. \E k \in Slots(x) : /\ x.table[k].pid \in Pids(x) \ Pids(s)
                             /\ k \in Slots(s) => s.table[k].pid = 0
    <3>1. i \in Slots(x) /\ x.table[i].pid = n + 1
      BY <2>5, <2>7, <2>8, <2>9
    <3>2. i \in Slots(s) => s.table[i].pid = 0
      BY <2>3, <2>6 DEF Slots
    <3> QED BY <2>10, <3>1, <3>2
  <2> HIDE DEF n
  <2>17. Placed(s, x, what, type)
    BY <2>8, <2>11, <2>12, <2>13, <2>14 DEF Placed, n
  <2> QED BY <2>8, <2>15, <2>16, <2>17
<1> QED BY <1>2, <1>3

\* One after the other.
LEMMA PlacedTwice ==
  ASSUME NEW s, NEW x, NEW y, NEW what, NEW type, Good(s), Good(x), Good(y),
         Placed(s, x, what, type), Placed(x, y, what, type)
  PROVE  Placed(s, y, what, type)
<1>1. /\ Len(s.procs) \in Nat /\ Len(x.procs) \in Nat /\ Len(y.procs) \in Nat
  BY StateIs DEF Good
<1>2. Len(s.procs) <= Len(x.procs) /\ Len(x.procs) <= Len(y.procs)
  BY DEF Placed
<1>3. Len(s.procs) <= Len(y.procs)
  BY <1>1, <1>2
<1>4. Pids(s) \subseteq Pids(x) /\ Pids(x) \subseteq Pids(y)
  BY <1>1, <1>2 DEF Pids
<1>5. y.cycle = s.cycle
  BY DEF Placed
<1>6. \A p \in Pids(s) : y.procs[p] = s.procs[p]
  BY <1>4 DEF Placed
<1>7. \A p \in Pids(y) \ Pids(s) : Newborn(y.procs[p], s, what)
  <2> TAKE p \in Pids(y) \ Pids(s)
  <2>1. CASE p \in Pids(x)
    <3>1. y.procs[p] = x.procs[p] /\ Newborn(x.procs[p], s, what)
      BY <2>1 DEF Placed
    <3> QED BY <3>1
  <2>2. CASE p \notin Pids(x)
    <3>1. Newborn(y.procs[p], x, what) /\ x.cycle = s.cycle
      BY <2>2 DEF Placed
    <3> QED BY <3>1 DEF Newborn
  <2> QED BY <2>1, <2>2
<1>8. \A j \in Slots(y) :
        \/ j \in Slots(s) /\ y.table[j] = s.table[j]
        \/ /\ y.table[j].pid \in Pids(y) \ Pids(s) /\ y.table[j].exiting = FALSE
           /\ y.table[j].just_spawn = (type = "JUST_RESPAWN")
           /\ y.table[j].respawn = (type # "DETACHED")
  <2> TAKE j \in Slots(y)
  <2>1. CASE j \in Slots(x) /\ y.table[j] = x.table[j]
    <3>1. \/ j \in Slots(s) /\ x.table[j] = s.table[j]
          \/ /\ x.table[j].pid \in Pids(x) \ Pids(s) /\ x.table[j].exiting = FALSE
             /\ x.table[j].just_spawn = (type = "JUST_RESPAWN")
             /\ x.table[j].respawn = (type # "DETACHED")
      BY <2>1 DEF Placed
    <3> QED BY <1>4, <2>1, <3>1
  <2>2. CASE /\ y.table[j].pid \in Pids(y) \ Pids(x) /\ y.table[j].exiting = FALSE
             /\ y.table[j].just_spawn = (type = "JUST_RESPAWN")
             /\ y.table[j].respawn = (type # "DETACHED")
    BY <1>4, <2>2
  <2> QED BY <2>1, <2>2 DEF Placed
<1> QED BY <1>3, <1>5, <1>6, <1>7, <1>8 DEF Placed

\* A slot that counts goes on counting.
LEMMA StaysPosts ==
  ASSUME NEW s, NEW x, NEW what, NEW type, Good(s), Placed(s, x, what, type), Stays(s, x), NEW D
  PROVE  Posts(s, D) \subseteq Posts(x, D)
<1> SUFFICES ASSUME NEW i \in Slots(s), Post(s, i, D) PROVE i \in Slots(x) /\ Post(x, i, D)
  BY DEF Posts
<1>1. s.table[i].pid # 0 /\ s.table[i].pid \in Pids(s)
  BY PidIs DEF Post
<1>2. i \in Slots(x) /\ x.table[i] = s.table[i] /\ x.procs[s.table[i].pid] = s.procs[s.table[i].pid]
  BY <1>1 DEF Stays, Placed
<1> QED BY <1>2 DEF Post, Gone

\* One more worker counts, or is lost.
LEMMA HiredMore ==
  ASSUME NEW s, Good(s), NEW type \in {"RESPAWN", "JUST_RESPAWN"},
         NEW x \in ngx_spawn_process(s, "worker", type), Good(x), NEW k \in Nat,
         Cardinality(Hired(s, type)) + s.lost >= k
  PROVE  Cardinality(Hired(x, type)) + x.lost >= k + 1
<1> DEFINE H == Hired(s, type)
           K == Hired(x, type)
<1>1. /\ Placed(s, x, "worker", type) /\ Stays(s, x)
      /\ x.lost = s.lost \/ x.lost = s.lost + 1
      /\ x.lost = s.lost =>
           \E i \in Slots(x) : /\ x.table[i].pid \in Pids(x) \ Pids(s)
                               /\ i \in Slots(s) => s.table[i].pid = 0
  BY SpawnPlaced
<1>2. s.lost \in Nat /\ x.lost \in Nat
  BY StateIs DEF Good
<1>3. IsFiniteSet(H) /\ IsFiniteSet(K)
  <2>1. H \subseteq Posts(s, {}) /\ K \subseteq Posts(x, {})
    BY DEF Hired
  <2> HIDE DEF H, K
  <2> QED BY <2>1, PostsFinite, FS_Subset
<1>4. H \subseteq K
  <2> SUFFICES ASSUME NEW i \in H PROVE i \in K
    OBVIOUS
  <2>1. i \in Posts(s, {}) /\ i \in Slots(s) /\ s.table[i].pid # 0
    BY DEF Hired, Posts, Post
  <2>2. i \in Posts(x, {})
    BY <1>1, <2>1, StaysPosts
  <2>3. x.table[i] = s.table[i]
    BY <1>1, <2>1 DEF Stays
  <2> QED BY <2>2, <2>3 DEF Hired
<1>5. Cardinality(H) \in Nat /\ Cardinality(K) \in Nat /\ Cardinality(H) <= Cardinality(K)
  <2> HIDE DEF H, K
  <2> QED BY <1>3, <1>4, FS_Subset, FS_CardinalityType
<1>6. Cardinality(H) + s.lost >= k
  OBVIOUS
<1>7. CASE x.lost = s.lost + 1
  <2> HIDE DEF H, K
  <2>1. Cardinality(K) + x.lost >= k + 1
    BY <1>2, <1>5, <1>6, <1>7
  <2> QED BY <2>1 DEF K
<1>8. CASE x.lost = s.lost
  <2>1. PICK i \in Slots(x) : /\ x.table[i].pid \in Pids(x) \ Pids(s)
                              /\ i \in Slots(s) => s.table[i].pid = 0
    BY <1>1, <1>8
  <2>2. i \notin H
    BY <2>1 DEF Hired, Posts, Post
  <2>3. x.table[i].pid # 0
    BY <2>1 DEF Pids
  <2>4. /\ x.table[i].exiting = FALSE /\ x.table[i].respawn = TRUE
        /\ x.table[i].just_spawn = (type = "JUST_RESPAWN")
    <3>1. ~(i \in Slots(s) /\ x.table[i] = s.table[i])
      BY <2>1, <2>3
    <3> QED BY <1>1, <3>1 DEF Placed
  <2>5. x.procs[x.table[i].pid].state = "run"
    BY <1>1, <2>1 DEF Placed, Newborn
  <2>6. i \in K
    BY <2>3, <2>4, <2>5 DEF Hired, Posts, Post, Gone
  <2> HIDE DEF H, K
  <2>7. IsFiniteSet(H \cup {i}) /\ Cardinality(H \cup {i}) = Cardinality(H) + 1
    BY <1>3, <2>2, FS_AddElement
  <2>8. H \cup {i} \in SUBSET K
    BY <1>4, <2>6
  <2>9. Cardinality(H \cup {i}) <= Cardinality(K)
    BY <1>3, <2>8, FS_Subset
  <2>10. Cardinality(K) + x.lost >= k + 1
    BY <1>2, <1>5, <1>6, <1>8, <2>7, <2>9
  <2> QED BY <2>10 DEF K
<1> QED BY <1>1, <1>7, <1>8

\* All the workers, but for those lost.
LEMMA StartPlaced ==
  ASSUME NEW s, Good(s), NEW type \in {"RESPAWN", "JUST_RESPAWN"},
         NEW x \in ngx_start_worker_processes(s, type)
  PROVE  /\ Placed(s, x, "worker", type)
         /\ Cardinality(Hired(x, type)) + x.lost >= WorkerProcesses
<1> DEFINE n == WorkerProcesses
           f == CHOOSE f : Starting(f, n, s, type)
           OK(y, k) == /\ Good(y) /\ Placed(s, y, "worker", type)
                       /\ Cardinality(Hired(y, type)) + y.lost >= k
<1>0. Len(s.procs) \in Nat /\ s.lost \in Nat
  BY StateIs DEF Good
<1>1. n \in Nat
  BY MasterAssumption
<1>2. Starting(f, n, s, type)
  BY <1>1, StartingExists
<1>3. ngx_start_worker_processes(s, type) = f[n]
  BY DEF ngx_start_worker_processes, Starting
<1>4. OK(s, 0)
  <2>1. Len(s.procs) <= Len(s.procs)
    BY <1>0
  <2>2. Placed(s, s, "worker", type)
    BY <2>1 DEF Placed
  <2>3. IsFiniteSet(Hired(s, type))
    BY PostsFinite, FS_Subset DEF Hired
  <2>4. Cardinality(Hired(s, type)) \in Nat
    BY <2>3, FS_CardinalityType
  <2>5. Cardinality(Hired(s, type)) + s.lost >= 0
    BY <1>0, <2>4
  <2> QED BY <2>2, <2>5
<1>5. ASSUME NEW k \in Nat, k # 0, NEW z, OK(z, k - 1), NEW y \in ngx_spawn_process(z, "worker", type)
      PROVE  OK(y, k)
  <2>1. Good(z) /\ Placed(s, z, "worker", type) /\ Cardinality(Hired(z, type)) + z.lost >= k - 1
    BY <1>5
  <2>2. Good(y)
    BY <1>5, <2>1, SpawnIs
  <2>3. Placed(z, y, "worker", type)
    BY <1>5, <2>1, SpawnPlaced
  <2>4. Placed(s, y, "worker", type)
    BY <2>1, <2>2, <2>3, PlacedTwice
  <2>5. k - 1 \in Nat /\ (k - 1) + 1 = k
    BY <1>5
  <2>6. Cardinality(Hired(y, type)) + y.lost >= (k - 1) + 1
    BY <1>5, <2>1, <2>2, <2>5, HiredMore
  <2> QED BY <2>2, <2>4, <2>5, <2>6
<1> HIDE DEF f, n, OK
<1> DEFINE Bad == {k \in 0..n : ~\A y \in f[k] : OK(y, k)}
<1>6. Bad = {}
  <2> SUFFICES ASSUME Bad # {} PROVE FALSE
    OBVIOUS
  <2>1. PICK k \in Bad : \A j \in Bad : k <= j
    <3>1. Bad \in SUBSET Nat
      BY <1>1
    <3> HIDE DEF Bad
    <3> QED BY <3>1, LeastNat
  <2>2. PICK y \in f[k] : ~OK(y, k)
    BY <2>1
  <2>3. k \in 0..n
    BY <2>1
  <2>4. k # 0
    <3>1. k = 0 => f[k] = {s}
      BY <1>2, <2>3 DEF Starting
    <3> QED BY <1>4, <2>2, <3>1
  <2>5. k - 1 \in 0..n /\ ~(k <= k - 1) /\ k \in Nat
    BY <1>1, <2>3, <2>4
  <2>6. \A z \in f[k - 1] : OK(z, k - 1)
    BY <2>1, <2>5
  <2>7. f[k] = UNION {ngx_spawn_process(z, "worker", type) : z \in f[k - 1]}
    BY <1>2, <2>3, <2>4 DEF Starting
  <2>8. PICK z \in f[k - 1] : y \in ngx_spawn_process(z, "worker", type)
    BY <2>2, <2>7
  <2> QED BY <1>5, <2>2, <2>4, <2>5, <2>6, <2>8
<1>7. n \in 0..n
  BY <1>1
<1> QED BY <1>3, <1>6, <1>7 DEF OK, n

\* Processes are added to a state that is fresh.
LEMMA PlacedFresh ==
  ASSUME NEW s, Fresh(s), NEW x, Good(x), NEW what, NEW type, type # "JUST_RESPAWN",
         Placed(s, x, what, type)
  PROVE  Fresh(x)
<1>1. /\ Len(s.procs) \in Nat /\ Len(x.procs) \in Nat /\ Len(s.procs) <= Len(x.procs)
      /\ Good(s)
  BY StateIs DEF Good, Fresh, Placed
<1>2. Pids(s) \subseteq Pids(x)
  BY <1>1 DEF Pids
<1>4. Newest(x)
  <2> SUFFICES ASSUME NEW p \in Pids(x), Serves(x.procs[p])
               PROVE  x.procs[p].cycle = x.cycle
    BY DEF Newest
  <2>1. CASE p \in Pids(s)
    <3>1. x.procs[p] = s.procs[p] /\ x.cycle = s.cycle
      BY <2>1 DEF Placed
    <3> QED BY <2>1, <3>1 DEF Fresh, Newest
  <2>2. CASE p \notin Pids(s)
    BY <2>2 DEF Placed, Newborn
  <2> QED BY <2>1, <2>2
<1>5. ASSUME NEW j \in Slots(x)
      PROVE  /\ ~x.table[j].just_spawn
             /\ x.table[j].pid # 0 /\ x.table[j].exiting => ~Serves(x.procs[x.table[j].pid])
  <2>1. CASE j \in Slots(s) /\ x.table[j] = s.table[j]
    <3>1. ~x.table[j].just_spawn
      BY <2>1 DEF Fresh, Settled
    <3>2. ASSUME x.table[j].pid # 0, x.table[j].exiting
          PROVE  ~Serves(x.procs[x.table[j].pid])
      <4>1. s.table[j].pid \in Pids(s) /\ ~Serves(s.procs[s.table[j].pid])
        BY <1>1, <2>1, <3>2, PidIs DEF Fresh, Going
      <4> QED BY <2>1, <4>1 DEF Placed
    <3> QED BY <3>1, <3>2
  <2>2. CASE /\ x.table[j].exiting = FALSE /\ x.table[j].just_spawn = (type = "JUST_RESPAWN")
    BY <2>2
  <2> QED BY <2>1, <2>2 DEF Placed
<1>6. Going(x) /\ Settled(x)
  BY <1>5 DEF Going, Settled
<1> QED BY <1>4, <1>6 DEF Fresh

\* Workers are started beside those there are.
LEMMA FreshStart ==
  ASSUME NEW s, Fresh(s), NEW x \in ngx_start_worker_processes(s, "RESPAWN")
  PROVE  Fresh(x) /\ Staffed(x, {})
<1>1. /\ Good(x) /\ Placed(s, x, "worker", "RESPAWN")
      /\ Cardinality(Hired(x, "RESPAWN")) + x.lost >= WorkerProcesses
  BY StartIs, StartPlaced DEF Fresh
<1>2. Fresh(x)
  BY <1>1, PlacedFresh
<1>3. Hired(x, "RESPAWN") = Posts(x, {})
  BY DEF Hired
<1> QED BY <1>1, <1>2, <1>3 DEF Staffed

\* New workers with the new configuration, and the old ones are told to go: those
\* just spawned are spared, and nobody else.
LEMMA FreshReconfigured ==
  ASSUME NEW s, Fresh(s), NEW x \in Reconfigured(s)
  PROVE  Fresh(x) /\ Manned(x, {})
<1> DEFINE d == [s EXCEPT !.cycle = s.cycle + 1]
           c == Anew(d)
<1>1. s \in State /\ s.cycle + 1 \in Nat
  BY StateIs DEF Fresh, Good
<1>2. c \in State /\ c.table = s.table /\ c.procs = s.procs
  <2>1. d \in State /\ d.table = s.table /\ d.procs = s.procs
    BY <1>1 DEF State
  <2> HIDE DEF d
  <2> QED BY <2>1 DEF State, Anew
<1>3. PICK y \in ngx_start_worker_processes(c, "JUST_RESPAWN") :
        x = ngx_signal_worker_processes([y EXCEPT !.live = TRUE], "QUIT")
  BY DEF Reconfigured
<1> HIDE DEF c, d
<1>4. Good(c) /\ Settled(c) /\ Going(c)
  BY <1>1, <1>2 DEF Fresh, Good, Tracked, Slots, Pids, Gone, Settled, Going
<1>5. /\ Good(y) /\ Placed(c, y, "worker", "JUST_RESPAWN")
      /\ Cardinality(Hired(y, "JUST_RESPAWN")) + y.lost >= WorkerProcesses
  BY <1>3, <1>4, StartIs, StartPlaced
<1> DEFINE z == [y EXCEPT !.live = TRUE]
<1>6. /\ z.table = y.table /\ z.procs = y.procs /\ z.cycle = y.cycle /\ z.lost = y.lost
  BY <1>5 DEF Good, State
<1>7. Good(z)
  BY <1>5, LiveIs
<1> HIDE DEF z
<1>8. Slots(z) = Slots(y) /\ Pids(z) = Pids(y)
  BY <1>6 DEF Slots, Pids
<1>9. ASSUME NEW j \in Slots(z), z.table[j].pid # 0, z.table[j].pid \in Pids(c)
      PROVE  j \in Slots(c) /\ z.table[j] = c.table[j] /\ ~z.table[j].just_spawn
  <2>1. j \in Slots(c) /\ z.table[j] = c.table[j]
    BY <1>5, <1>6, <1>8, <1>9 DEF Placed
  <2> QED BY <1>4, <2>1 DEF Settled
<1>10. Going(z)
  <2> SUFFICES ASSUME NEW j \in Slots(z), z.table[j].pid # 0, z.table[j].exiting
               PROVE  ~Serves(z.procs[z.table[j].pid])
    BY DEF Going
  <2>1. j \in Slots(c) /\ z.table[j] = c.table[j]
    BY <1>5, <1>6, <1>8 DEF Placed
  <2>2. c.table[j].pid \in Pids(c) /\ ~Serves(c.procs[c.table[j].pid])
    BY <1>4, <2>1, PidIs DEF Going
  <2> QED BY <1>5, <1>6, <2>1, <2>2 DEF Placed
<1>11. Round(z, x, Len(z.table), "QUIT")
  BY <1>3, <1>7, <1>10, SignalRound DEF z
<1>12. Good(x) /\ Slots(x) = Slots(z) /\ Pids(x) = Pids(z)
  BY <1>7, <1>11, SameGood DEF Round, Alike, Same, Slots, Pids
<1>13. /\ x.cycle = c.cycle /\ x.lost = y.lost
       /\ \A p \in Pids(z) : Grown(z.procs[p], x.procs[p])
  BY <1>5, <1>6, <1>11 DEF Round, Still, Kept, Placed
<1>14. \A j \in Slots(z) : j <= Len(z.table)
  BY <1>7, StateIs DEF Good, Slots
<1>15. ASSUME NEW p \in Pids(z), z.procs[p].what = "worker", ~Gone(z, p)
       PROVE  \E j \in Slots(z) : z.table[j].pid = p /\ p # 0 /\ ~z.table[j].detached
  <2>1. PICK j \in Slots(z) : z.table[j].pid = p
    BY <1>7, <1>15 DEF Good, Tracked
  <2>2. p # 0
    BY DEF Pids
  <2>3. ~z.table[j].detached
    BY <1>7, <1>15, <2>1, <2>2 DEF Good, Tracked
  <2> QED BY <2>1, <2>2, <2>3
<1>16. Newest(x)
  <2> SUFFICES ASSUME NEW p \in Pids(z), Serves(x.procs[p])
               PROVE  x.procs[p].cycle = x.cycle
    BY <1>12 DEF Newest
  <2>1. Serves(z.procs[p])
    BY <1>13, GrownServes
  <2>2. CASE p \in Pids(c)
    <3>1. z.procs[p].what = "worker" /\ ~Gone(z, p)
      BY <2>1 DEF Serves, Gone
    <3>2. PICK j \in Slots(z) : z.table[j].pid = p /\ p # 0 /\ ~z.table[j].detached
      BY <1>15, <3>1
    <3>3. ~z.table[j].just_spawn
      BY <1>9, <2>2, <3>2
    <3>4. ~Serves(x.procs[p])
      BY <1>11, <1>14, <3>2, <3>3 DEF Round
    <3> QED BY <3>4
  <2>3. CASE p \notin Pids(c)
    <3>1. Newborn(z.procs[p], c, "worker")
      BY <1>5, <1>6, <1>8, <2>3 DEF Placed
    <3> QED BY <1>13, <3>1 DEF Newborn, Grown
  <2> QED BY <2>2, <2>3
<1>17. Settled(x)
  <2> SUFFICES ASSUME NEW j \in Slots(z), x.table[j].just_spawn PROVE FALSE
    BY <1>12 DEF Settled
  <2>1. z.table[j].just_spawn
    BY <1>11 DEF Round
  <2>2. z.table[j].pid \in Pids(z) \ Pids(c)
    <3>1. j \in Slots(c) => ~c.table[j].just_spawn
      BY <1>4 DEF Settled
    <3> QED BY <1>5, <1>6, <1>8, <2>1, <3>1 DEF Placed
  <2>3. z.table[j].pid # 0
    BY <2>2 DEF Pids
  <2>4. Newborn(z.procs[z.table[j].pid], c, "worker")
    BY <1>5, <1>6, <1>8, <2>2 DEF Placed
  <2>5. ~z.table[j].detached
    BY <1>7, <2>3, <2>4 DEF Good, Tracked, Newborn
  <2> QED BY <1>11, <1>14, <2>3, <2>5 DEF Round
<1>18. Hired(y, "JUST_RESPAWN") \subseteq Posts(x, {})
  <2> SUFFICES ASSUME NEW j \in Slots(y), Post(y, j, {}), y.table[j].just_spawn
               PROVE  j \in Slots(x) /\ Post(x, j, {})
    BY DEF Hired, Posts
  <2>1. j \in Slots(z) /\ Post(z, j, {}) /\ z.table[j].just_spawn
    BY <1>6, <1>8 DEF Post, Gone
  <2> QED BY <1>11, <1>12, <2>1 DEF Round
<1>19. Staffed(x, {})
  <2> DEFINE H == Hired(y, "JUST_RESPAWN")
             P == Posts(x, {})
  <2>1. IsFiniteSet(P) /\ Cardinality(P) \in Nat /\ y.lost \in Nat /\ H \in SUBSET P
    BY <1>5, <1>12, <1>18, PostsFinite, StateIs DEF Good
  <2>2. Cardinality(H) + y.lost >= WorkerProcesses
    BY <1>5
  <2> HIDE DEF H, P
  <2>3. Cardinality(H) <= Cardinality(P) /\ Cardinality(H) \in Nat
    BY <2>1, FS_Subset, FS_CardinalityType
  <2>4. Cardinality(P) + y.lost >= WorkerProcesses
    BY <2>1, <2>2, <2>3, MasterAssumption
  <2> QED BY <1>13, <2>4 DEF Staffed, P
<1>21. Going(x)
  BY <1>11 DEF Round
<1>22. Fresh(x)
  BY <1>12, <1>16, <1>17, <1>21 DEF Fresh
<1> QED BY <1>19, <1>22 DEF Manned

-----------------------------------------------------------------------------
(* Reaping.                                                                *)

\* A worker that is started again in its slot is placed there.
LEMMA RespawnPlaced ==
  ASSUME NEW s, Good(s), NEW i \in Slots(s), s.table[i].exiting = FALSE,
         s.table[i].just_spawn = FALSE, s.table[i].respawn = TRUE
  PROVE  LET t == Respawn(s, i)
         IN  /\ Placed(s, t, "worker", "RESPAWN") /\ t.flags = s.flags /\ t.lost = s.lost
             /\ Slots(t) = Slots(s) /\ t.table[i].pid \in Pids(t) \ Pids(s)
             /\ \A j \in Slots(s) : j # i => t.table[j] = s.table[j]
<1> DEFINE f == Forked(s, "worker")
           n == Len(s.procs)
           e == s.table[i]
           t == Respawn(s, i)
<1>1. /\ f \in State /\ Rest(s, f) /\ f.table = s.table
      /\ f.procs \in Seq(ProcType) /\ Len(f.procs) = n + 1
      /\ \A p \in Pids(s) : f.procs[p] = s.procs[p]
  BY ForkedIs
<1>2. Newborn(f.procs[n + 1], s, "worker") /\ f.cycle = s.cycle /\ f.lost = s.lost
  BY ForkedNew
<1>3. n \in Nat /\ s.table \in Seq(SlotType) /\ e \in SlotType
  BY StateIs DEF Good
<1>4. PICK pid \in Nat : pid = n + 1
  BY <1>3
<1> DEFINE e2 == [e EXCEPT !.pid = pid, !.exited = FALSE]
           T == [s.table EXCEPT ![i] = e2]
           v == [f EXCEPT !.table[i].pid = pid, !.table[i].exited = FALSE]
<1>5. t = [v EXCEPT !.live = TRUE]
  BY <1>1, <1>4 DEF Respawn
<1> HIDE DEF t, f
<1>6. v = [f EXCEPT !.table = [f.table EXCEPT ![i] = [f.table[i] EXCEPT !.pid = pid, !.exited = FALSE]]]
  <2>1. f \in State /\ f.table \in Seq(SlotType) /\ i \in Slots(f) /\ f.table[i] \in SlotType
    BY <1>1, <1>3 DEF Slots
  <2> QED BY <2>1 DEF State, Slots, SlotType
<1>7. v = [f EXCEPT !.table = T]
  BY <1>1, <1>6
<1>8. /\ e2 \in SlotType /\ e2.pid = pid /\ e2.exiting = e.exiting /\ e2.just_spawn = e.just_spawn
      /\ e2.respawn = e.respawn
  BY <1>3 DEF SlotType
<1> HIDE DEF v, e2
<1>9. /\ T \in Seq(SlotType) /\ Len(T) = Len(s.table) /\ T[i] = e2
      /\ \A j \in Slots(s) : j # i => T[j] = s.table[j]
  BY <1>3, <1>8 DEF Slots
<1> HIDE DEF T
<1>10. /\ v \in State /\ v.table = T /\ v.procs = f.procs /\ v.flags = s.flags
       /\ v.cycle = s.cycle /\ v.lost = s.lost
  BY <1>1, <1>2, <1>7, <1>9 DEF State, Rest
<1>11. /\ t.table = T /\ t.procs = f.procs /\ t.flags = s.flags
       /\ t.cycle = s.cycle /\ t.lost = s.lost
  BY <1>5, <1>10 DEF State
<1>12. Slots(t) = Slots(s) /\ Pids(t) \ Pids(s) = {n + 1} /\ n <= Len(t.procs)
  <2>1. Slots(t) = Slots(s)
    BY <1>9, <1>11 DEF Slots
  <2>2. Len(t.procs) = n + 1 /\ n <= n + 1
    BY <1>1, <1>3, <1>11
  <2>3. Pids(t) \ Pids(s) = {n + 1}
    BY <1>3, <2>2 DEF Pids
  <2> QED BY <2>1, <2>2, <2>3
<1>13. \A j \in Slots(t) :
         \/ j \in Slots(s) /\ t.table[j] = s.table[j]
         \/ /\ t.table[j].pid \in Pids(t) \ Pids(s) /\ t.table[j].exiting = FALSE
            /\ t.table[j].just_spawn = ("RESPAWN" = "JUST_RESPAWN")
            /\ t.table[j].respawn = ("RESPAWN" # "DETACHED")
  <2> TAKE j \in Slots(t)
  <2>1. CASE j = i
    <3>1. t.table[j] = e2
      BY <1>9, <1>11, <2>1
    <3> QED BY <1>4, <1>8, <1>12, <3>1
  <2>2. CASE j # i
    BY <1>9, <1>11, <1>12, <2>2
  <2> QED BY <2>1, <2>2
<1>14. \A p \in Pids(t) \ Pids(s) : Newborn(t.procs[p], s, "worker")
  BY <1>2, <1>11, <1>12
<1>15. \A p \in Pids(s) : t.procs[p] = s.procs[p]
  BY <1>1, <1>11
<1>16. t.table[i].pid \in Pids(t) \ Pids(s) /\ \A j \in Slots(s) : j # i => t.table[j] = s.table[j]
  BY <1>4, <1>8, <1>9, <1>11, <1>12
<1> HIDE DEF n
<1>17. Placed(s, t, "worker", "RESPAWN")
  BY <1>11, <1>12, <1>13, <1>14, <1>15 DEF Placed, n
<1> QED BY <1>11, <1>12, <1>16, <1>17 DEF t

\* A slot is given up: the others stay, and so do all processes.
LEMMA VacateRest ==
  ASSUME NEW s, Good(s), Settled(s), NEW i \in Slots(s)
  PROVE  LET t == Vacate(s, i)
         IN  /\ t.cycle = s.cycle /\ t.lost = s.lost /\ t.flags = s.flags
             /\ t.procs = s.procs
             /\ \A j \in Slots(t) : /\ j \in Slots(s) /\ ~t.table[j].just_spawn
                                    /\ t.table[j].pid = 0 \/ t.table[j] = s.table[j]
             /\ \A j \in Slots(s) : j # i => j \in Slots(t) /\ t.table[j] = s.table[j]
<1> DEFINE t == Vacate(s, i)
           n == Len(s.table)
<1>1. /\ s \in State /\ s.table \in Seq(SlotType) /\ n \in Nat /\ s.table[i] \in SlotType
      /\ i \in 1..n /\ Slots(s) = 1..n
  BY StateIs DEF Good, Slots
<1>2. CASE i = n
  <2>1. t = [s EXCEPT !.table = Front(s.table)]
    BY <1>2 DEF Vacate
  <2>2. Len(s.table) > 0
    BY <1>1
  <2>3. /\ Front(s.table) \in Seq(SlotType) /\ Len(Front(s.table)) = n - 1
        /\ \A j \in 1..(n - 1) : Front(s.table)[j] = s.table[j]
    BY <1>1, <2>2, FrontIs
  <2> HIDE DEF t
  <2>4. /\ t.table = Front(s.table) /\ t.procs = s.procs /\ t.cycle = s.cycle
        /\ t.lost = s.lost /\ t.flags = s.flags
    BY <1>1, <2>1, <2>3 DEF State
  <2>5. \A j \in Slots(t) : j \in Slots(s) /\ t.table[j] = s.table[j]
    <3>1. Slots(t) = 1..(n - 1) /\ 1..(n - 1) \subseteq 1..n
      BY <1>1, <2>3, <2>4 DEF Slots
    <3> QED BY <1>1, <2>3, <2>4, <3>1
  <2>6. \A j \in Slots(s) : j # i => j \in Slots(t) /\ t.table[j] = s.table[j]
    <3>1. \A j \in 1..n : j # n => j \in 1..(n - 1)
      BY <1>1
    <3>2. Slots(t) = 1..(n - 1)
      BY <2>3, <2>4 DEF Slots
    <3> QED BY <1>1, <1>2, <2>3, <2>4, <3>1, <3>2
  <2> QED BY <2>4, <2>5, <2>6 DEF Settled, t
<1>3. CASE i # n
  <2> DEFINE e2 == [s.table[i] EXCEPT !.pid = 0]
             T == [s.table EXCEPT ![i] = e2]
  <2>1. e2 \in SlotType /\ e2.pid = 0 /\ e2.just_spawn = s.table[i].just_spawn
    BY <1>1 DEF SlotType
  <2>2. t = [s EXCEPT !.table = T]
    <3>1. t = [s EXCEPT !.table[i].pid = 0]
      BY <1>3 DEF Vacate
    <3> HIDE DEF t
    <3> QED BY <1>1, <3>1 DEF State, Slots, SlotType
  <2> HIDE DEF e2, t
  <2>3. /\ T \in Seq(SlotType) /\ Len(T) = n /\ T[i] = e2
        /\ \A j \in 1..n : j # i => T[j] = s.table[j]
    BY <1>1, <2>1
  <2> HIDE DEF T
  <2>4. /\ t.table = T /\ t.procs = s.procs /\ t.cycle = s.cycle
        /\ t.lost = s.lost /\ t.flags = s.flags
    BY <1>1, <2>2, <2>3 DEF State
  <2>5. Slots(t) = Slots(s)
    BY <2>3, <2>4 DEF Slots
  <2>6. ASSUME NEW j \in Slots(s)
        PROVE  ~t.table[j].just_spawn /\ (t.table[j].pid = 0 \/ t.table[j] = s.table[j])
    <3>1. CASE j = i
      BY <2>1, <2>3, <2>4, <3>1 DEF Settled
    <3>2. CASE j # i
      BY <1>1, <2>3, <2>4, <3>2 DEF Settled
    <3> QED BY <3>1, <3>2
  <2>7. \A j \in Slots(s) : j # i => t.table[j] = s.table[j]
    BY <1>1, <2>3, <2>4
  <2> QED BY <2>4, <2>5, <2>6, <2>7 DEF t
<1> QED BY <1>2, <1>3

\* A new binary that is gone: the workers are to be restarted, or were never stopped.
LEMMA FreshBinaryGone ==
  ASSUME NEW s, Fresh(s), NEW pid, NEW D
  PROVE  LET t == BinaryGone(s, pid)
         IN  Fresh(t) /\ t.procs = s.procs /\ Keeps(s, t, D)
<1>0. s \in State
  BY DEF Fresh, Good
<1>1. CASE pid # s.new_binary
  <2>1. BinaryGone(s, pid) = s
    BY <1>1 DEF BinaryGone
  <2> QED BY <2>1 DEF Keeps
<1>2. CASE pid = s.new_binary
  <2> DEFINE t == [s EXCEPT !.new_binary = 0]
  <2>1. 0 \in Int
    OBVIOUS
  <2>2. /\ t \in State /\ t.procs = s.procs /\ t.table = s.table /\ t.flags = s.flags
        /\ t.cycle = s.cycle /\ t.lost = s.lost
    BY <1>0, <2>1 DEF State
  <2>3. BinaryGone(s, pid) = IF Has(t, "noaccepting") THEN Set(Unset(t, "noaccepting"), "restart")
                             ELSE t
    BY <1>2 DEF BinaryGone
  <2> HIDE DEF t
  <2>4. Fresh(t) /\ Posts(t, D) = Posts(s, D)
    BY <2>2, FreshFields
  <2>5. Keeps(s, t, D)
    BY <2>2, <2>4 DEF Keeps
  <2>6. CASE Has(t, "noaccepting")
    <3> DEFINE u == Unset(t, "noaccepting")
               v == Set(u, "restart")
    <3>1. /\ u \in State /\ u.procs = s.procs /\ u.table = s.table
          /\ u.cycle = s.cycle /\ u.flags \subseteq Flag
      BY <2>2, StateIs DEF Unset, State
    <3> HIDE DEF u
    <3>2. /\ v \in State /\ v.procs = s.procs /\ v.table = s.table
          /\ v.cycle = s.cycle /\ "restart" \in v.flags
      BY <3>1 DEF Set, State, Flag
    <3> HIDE DEF v
    <3>3. Fresh(v)
      BY <3>2, FreshFields
    <3>4. v.flags \cap Standby # {}
      BY <3>2 DEF Standby
    <3>5. Keeps(s, v, D)
      BY <3>4 DEF Keeps
    <3> QED BY <2>3, <2>6, <3>2, <3>3, <3>5 DEF u, v
  <2>7. CASE ~Has(t, "noaccepting")
    BY <2>2, <2>3, <2>4, <2>5, <2>7
  <2> QED BY <2>6, <2>7
<1> QED BY <1>1, <1>2

\* The slots that ngx_reap_children has still to come to.
Ahead(k) == {j \in Nat : j > k}

\* Of the other slots, those that count with i still to come count without it.
LEMMA AheadOthers ==
  ASSUME NEW s, Good(s), NEW i \in Slots(s), NEW j \in Slots(s), j # i, Post(s, j, Ahead(i - 1))
  PROVE  Post(s, j, Ahead(i))
<1>1. i \in Nat /\ j \in Nat
  BY StateIs DEF Good, Slots
<1>2. j \in Ahead(i - 1) => j \in Ahead(i)
  BY <1>1 DEF Ahead
<1> QED BY <1>2 DEF Post

\* A slot is reaped: whoever counted has been replaced, or is lost and counted as such.
LEMMA FreshReapSlot ==
  ASSUME NEW s, Fresh(s), NEW i \in Slots(s), NEW x \in ReapSlot(s, i), Good(x),
         Manned(s, Ahead(i - 1))
  PROVE  Fresh(x) /\ Manned(x, Ahead(i))
<1> DEFINE e == s.table[i]
           A == Ahead(i - 1)
           B == Ahead(i)
<1>1. Good(s) /\ s \in State /\ e \in SlotType
  BY StateIs DEF Fresh, Good
<1>2. ASSUME x.flags \cap Standby = {} => s.flags \cap Standby = {} /\ x.lost = s.lost,
             x.flags \cap Standby = {} => Posts(s, A) \subseteq Posts(x, B)
      PROVE  Manned(x, B)
  BY <1>1, <1>2, StaffedMore DEF Manned
<1>3. ASSUME x.table = s.table, x.procs = s.procs, i \notin Posts(s, A) \/ Post(s, i, B)
      PROVE  Posts(s, A) \subseteq Posts(x, B)
  <2> SUFFICES ASSUME NEW j \in Slots(s), Post(s, j, A) PROVE j \in Slots(x) /\ Post(x, j, B)
    BY DEF Posts
  <2>1. Post(s, j, B)
    BY <1>1, <1>3, AheadOthers DEF Posts
  <2> QED BY <1>3, <2>1 DEF Post, Slots, Gone
<1>4. CASE e.pid = 0
  <2>1. x = s
    BY <1>4 DEF ReapSlot
  <2>2. i \notin Posts(s, A)
    BY <1>4 DEF Posts, Post
  <2> QED BY <1>2, <1>3, <2>1, <2>2
<1>5. CASE e.pid # 0 /\ ~e.exited
  <2> DEFINE live == s.live \/ e.exiting \/ ~e.detached
  <2>1. x = [s EXCEPT !.live = live]
    BY <1>5 DEF ReapSlot
  <2> HIDE DEF live
  <2>2. /\ x.table = s.table /\ x.procs = s.procs /\ x.flags = s.flags
        /\ x.cycle = s.cycle /\ x.lost = s.lost /\ x \in State
    BY <1>1, <2>1 DEF State, Good
  <2>3. Fresh(x)
    BY <2>2, FreshFields
  <2>4. i \notin Posts(s, A) \/ Post(s, i, B)
    BY <1>5 DEF Posts, Post
  <2> QED BY <1>2, <1>3, <2>2, <2>3, <2>4
<1>6. CASE e.pid # 0 /\ e.exited
  <2>1. CASE MayRespawn(s, e) /\ x = Respawn(s, i)
    <3>1. e.exiting = FALSE /\ e.just_spawn = FALSE /\ e.respawn = TRUE
      BY <1>1, <2>1 DEF MayRespawn, Fresh, Settled, SlotType
    <3>2. /\ Placed(s, x, "worker", "RESPAWN") /\ x.flags = s.flags /\ x.lost = s.lost
          /\ Slots(x) = Slots(s) /\ x.table[i].pid \in Pids(x) \ Pids(s)
          /\ \A j \in Slots(s) : j # i => x.table[j] = s.table[j]
      <4>1. x = Respawn(s, i)
        BY <2>1
      <4>2. /\ s.table[i].exiting = FALSE /\ s.table[i].just_spawn = FALSE
            /\ s.table[i].respawn = TRUE
        BY <3>1
      <4>3. LET t == Respawn(s, i)
            IN  /\ Placed(s, t, "worker", "RESPAWN") /\ t.flags = s.flags
                /\ t.lost = s.lost /\ Slots(t) = Slots(s)
                /\ t.table[i].pid \in Pids(t) \ Pids(s)
                /\ \A j \in Slots(s) : j # i => t.table[j] = s.table[j]
        BY <1>1, <4>2, RespawnPlaced, Zenon
      <4> QED BY <4>1, <4>3, Zenon
    <3>3. Fresh(x)
      BY <3>2, PlacedFresh
    <3>4. Post(x, i, B)
      <4>1. x.table[i].pid # 0
        BY <3>2 DEF Pids
      <4>2. ~(x.table[i] = s.table[i])
        BY <1>1, <3>2, <4>1, PidIs
      <4>3. x.table[i].exiting = FALSE /\ x.table[i].respawn = TRUE
        BY <3>2, <4>2 DEF Placed
      <4>4. x.procs[x.table[i].pid].state = "run"
        BY <3>2 DEF Placed, Newborn
      <4> QED BY <4>1, <4>3, <4>4 DEF Post, Gone
    <3>5. ASSUME NEW j \in Slots(s), j # i, Post(s, j, A)
          PROVE  Post(x, j, B)
      <4>1. Post(s, j, B) /\ x.table[j] = s.table[j]
        BY <1>1, <3>2, <3>5, AheadOthers
      <4>2. s.table[j].pid \in Pids(s)
        BY <1>1, <4>1, PidIs DEF Post
      <4>3. x.procs[s.table[j].pid] = s.procs[s.table[j].pid]
        BY <3>2, <4>2 DEF Placed
      <4> QED BY <4>1, <4>3 DEF Post, Gone
    <3>6. Posts(s, A) \subseteq Posts(x, B)
      BY <3>2, <3>4, <3>5 DEF Posts
    <3> QED BY <1>2, <3>2, <3>3, <3>6
  <2>2. CASE x \in SpawnFails(s, "worker")
    <3>1. /\ x.table = s.table /\ x.procs = s.procs /\ x.cycle = s.cycle
          /\ x.lost = s.lost + 1 /\ x.flags = s.flags /\ x \in State
      BY <1>1, <2>2, FaultIs DEF Rest, Alike
    <3>2. Fresh(x)
      BY <3>1, FreshFields
    <3>3. Posts(s, A) \ {i} \subseteq Posts(x, B)
      <4> SUFFICES ASSUME NEW j \in Slots(s), j # i, Post(s, j, A)
                   PROVE  j \in Slots(x) /\ Post(x, j, B)
        BY DEF Posts
      <4>1. Post(s, j, B)
        BY <1>1, AheadOthers
      <4> QED BY <3>1, <4>1 DEF Post, Slots, Gone
    <3>4. Staffed(s, A) => Staffed(x, B)
      BY <1>1, <3>1, <3>3, StaffedLess
    <3> QED BY <3>1, <3>2, <3>4 DEF Manned
  <2>3. CASE ~MayRespawn(s, e) /\ x = Vacate(BinaryGone(s, e.pid), i)
    <3> DEFINE t == BinaryGone(s, e.pid)
    <3>1. Fresh(t) /\ Keeps(s, t, A) /\ t.table = s.table /\ t.procs = s.procs
      BY <1>1, FreshBinaryGone, BinaryGoneIs
    <3> HIDE DEF t
    <3>2. i \in Slots(t) /\ Slots(t) = Slots(s)
      BY <3>1 DEF Slots
    <3>3. /\ x.cycle = t.cycle /\ x.lost = t.lost /\ x.flags = t.flags
          /\ x.procs = t.procs
          /\ \A j \in Slots(x) : /\ j \in Slots(t) /\ ~x.table[j].just_spawn
                                 /\ x.table[j].pid = 0 \/ x.table[j] = t.table[j]
          /\ \A j \in Slots(t) : j # i => j \in Slots(x) /\ x.table[j] = t.table[j]
      BY <2>3, <3>1, <3>2, VacateRest DEF Fresh, t
    <3>4. Newest(x)
      BY <3>1, <3>3 DEF Newest, Fresh, Pids
    <3>5. Going(x) /\ Settled(x)
      BY <3>1, <3>3 DEF Going, Settled, Fresh
    <3>6. Fresh(x)
      BY <3>4, <3>5 DEF Fresh
    <3>7. ASSUME x.flags \cap Standby = {}
          PROVE  /\ s.flags \cap Standby = {} /\ x.lost = s.lost
                 /\ Posts(s, A) \subseteq Posts(x, B)
      <4>1. s.flags \cap Standby = {} /\ x.lost = s.lost
        BY <3>1, <3>3, <3>7 DEF Keeps
      <4>2. ~(e.respawn /\ ~e.exiting)
        BY <2>3, <4>1 DEF MayRespawn, Has, Standby
      <4>3. ASSUME NEW j \in Slots(s), Post(s, j, A)
            PROVE  j \in Slots(x) /\ Post(x, j, B)
        <5>1. j # i
          BY <4>2, <4>3 DEF Post
        <5>2. Post(s, j, B)
          BY <1>1, <4>3, <5>1, AheadOthers
        <5>3. j \in Slots(x) /\ x.table[j] = s.table[j] /\ x.procs = s.procs
          BY <3>1, <3>2, <3>3, <5>1
        <5> QED BY <5>2, <5>3 DEF Post, Gone
      <4> QED BY <4>1, <4>3 DEF Posts
    <3> QED BY <1>2, <3>6, <3>7
  <2> QED BY <1>6, <2>1, <2>2, <2>3 DEF ReapSlot
<1> QED BY <1>4, <1>5, <1>6

\* All of them are.
LEMMA FreshReap ==
  ASSUME NEW s, Fresh(s), Manned(s, Nat), NEW x \in ngx_reap_children(s)
  PROVE  Fresh(x) /\ Manned(x, {})
<1> DEFINE n == Len(s.table)
           f == CHOOSE f : Reaping(f, n, s)
           t == [s EXCEPT !.live = FALSE]
           OK(y, k) == /\ Fresh(y) /\ Manned(y, Ahead(k)) /\ Left(y, k)
                       /\ Len(y.table) <= n /\ (k # n => Len(y.table) = n)
<1>1. n \in Nat /\ s \in State /\ Good(s)
  BY StateIs DEF Fresh, Good
<1>2. Reaping(f, n, s)
  BY <1>1, ReapingExists
<1>3. ngx_reap_children(s) = f[n]
  BY DEF ngx_reap_children, Reaping
<1>4. OK(t, 0)
  <2>1. /\ t \in State /\ t.table = s.table /\ t.procs = s.procs /\ t.flags = s.flags
        /\ t.cycle = s.cycle /\ t.lost = s.lost
    BY <1>1 DEF State
  <2> HIDE DEF t
  <2>2. Fresh(t)
    BY <2>1, FreshFields
  <2>3. Manned(t, Ahead(0))
    <3>1. Slots(s) \subseteq Nat /\ \A j \in Slots(s) : j \in Ahead(0)
      BY <1>1 DEF Slots, Ahead
    <3>2. Posts(s, Nat) \subseteq Posts(t, Ahead(0))
      BY <2>1, <3>1 DEF Posts, Post, Slots, Gone
    <3>3. Good(t)
      BY <2>2 DEF Fresh
    <3> QED BY <1>1, <2>1, <3>2, <3>3, StaffedMore DEF Manned
  <2>4. Left(t, 0)
    <3>1. \A j \in Slots(t) : j > 0
      BY DEF Slots
    <3>2. \A p \in Pids(t) : ~Gone(t, p) => \E j \in Slots(t) : t.table[j].pid = p
      BY <2>2 DEF Fresh, Good, Tracked
    <3> QED BY <3>1, <3>2 DEF Left
  <2>5. Len(t.table) <= n
    BY <1>1, <2>1
  <2> QED BY <2>1, <2>2, <2>3, <2>4, <2>5
<1>5. ASSUME NEW k \in 1..n, NEW z, OK(z, k - 1), NEW y \in ReapSlot(z, k)
      PROVE  OK(y, k)
  <2>1. k - 1 # n
    BY <1>1
  <2>2. Fresh(z) /\ Good(z) /\ Manned(z, Ahead(k - 1)) /\ Left(z, k - 1) /\ Len(z.table) = n
    BY <1>5, <2>1 DEF Fresh
  <2>3. k \in Slots(z)
    BY <2>2 DEF Slots
  <2>4. /\ Good(y) /\ Left(y, k)
        /\ k # Len(z.table) => Len(y.table) = Len(z.table)
        /\ Len(y.table) <= n
    BY <1>1, <1>5, <2>2, <2>3, ReapSlotIs
  <2>5. Fresh(y) /\ Manned(y, Ahead(k))
    BY <1>5, <2>2, <2>3, <2>4, FreshReapSlot
  <2> QED BY <2>2, <2>4, <2>5
<1> HIDE DEF f, n, t, OK
<1> DEFINE Bad == {k \in 0..n : ~\A y \in f[k] : OK(y, k)}
<1>6. Bad = {}
  <2> SUFFICES ASSUME Bad # {} PROVE FALSE
    OBVIOUS
  <2>1. PICK k \in Bad : \A j \in Bad : k <= j
    <3>1. Bad \in SUBSET Nat
      BY <1>1
    <3> HIDE DEF Bad
    <3> QED BY <3>1, LeastNat
  <2>2. PICK y \in f[k] : ~OK(y, k)
    BY <2>1
  <2>3. k \in 0..n
    BY <2>1
  <2>4. k # 0
    <3>1. k = 0 => f[k] = {t}
      BY <1>2, <2>3 DEF Reaping, t
    <3> QED BY <1>4, <2>2, <3>1
  <2>5. k - 1 \in 0..n /\ ~(k <= k - 1) /\ k \in 1..n
    BY <1>1, <2>3, <2>4
  <2>6. \A z \in f[k - 1] : OK(z, k - 1)
    BY <2>1, <2>5
  <2>7. f[k] = UNION {ReapSlot(z, k) : z \in f[k - 1]}
    BY <1>2, <2>3, <2>4 DEF Reaping
  <2>8. PICK z \in f[k - 1] : y \in ReapSlot(z, k)
    BY <2>2, <2>7
  <2> QED BY <1>5, <2>2, <2>5, <2>6, <2>8
<1>7. n \in 0..n
  BY <1>1
<1>8. Fresh(x) /\ Manned(x, Ahead(n)) /\ Len(x.table) <= n
  BY <1>3, <1>6, <1>7 DEF OK
<1>9. Posts(x, Ahead(n)) \subseteq Posts(x, {})
  <2>1. Len(x.table) \in Nat
    BY <1>8, StateIs DEF Fresh, Good
  <2>2. \A j \in Slots(x) : j \notin Ahead(n)
    BY <1>1, <1>8, <2>1 DEF Slots, Ahead
  <2> QED BY <2>2 DEF Posts, Post
<1>10. Good(x)
  BY <1>8 DEF Fresh
<1>11. Manned(x, {})
  BY <1>8, <1>9, <1>10, StaffedMore DEF Manned
<1> QED BY <1>8, <1>11

-----------------------------------------------------------------------------
(* The steps of the master.                                                *)

\* Whoever has died did not serve any more, and counts until he is reaped.
LEMMA FreshStatus ==
  ASSUME NEW s, Fresh(s)
  PROVE  LET t == ngx_process_get_status(s)
         IN  /\ Fresh(t) /\ t.lost = s.lost /\ t.flags = s.flags
             /\ Posts(s, {}) \subseteq Posts(t, Nat)
<1> DEFINE t == ngx_process_get_status(s)
           v(p) == IF s.procs[p].state \in {"zombie", "fatal"} THEN [s.procs[p] EXCEPT !.state = "gone"]
                   ELSE s.procs[p]
           P == [p \in DOMAIN s.procs |-> v(p)]
           E(i) == Waited(s, s.table[i])
           T == [i \in DOMAIN s.table |-> E(i)]
<1>1. /\ Good(s) /\ s \in State /\ s.procs \in Seq(ProcType) /\ s.table \in Seq(SlotType)
      /\ DOMAIN s.procs = Pids(s) /\ DOMAIN s.table = Slots(s)
      /\ \A i \in Slots(s) : s.table[i] \in SlotType
      /\ \A p \in Pids(s) : s.procs[p] \in ProcType
  BY StateIs DEF Fresh, Good, Slots, Pids
<1>2. t = [s EXCEPT !.procs = P, !.table = T]
  BY DEF ngx_process_get_status
<1>3. Alike(s, t)
  BY <1>1, StatusIs
<1>4. ASSUME NEW i \in Slots(s)
      PROVE  /\ E(i).pid = s.table[i].pid /\ E(i).exiting = s.table[i].exiting
             /\ E(i).just_spawn = s.table[i].just_spawn
             /\ s.table[i].pid # 0 =>
                  /\ s.table[i].exited \/ s.procs[s.table[i].pid].state = "zombie" => E(i).exited
                  /\ s.table[i].respawn /\ s.procs[s.table[i].pid].state # "fatal" => E(i).respawn
  <2> DEFINE e == s.table[i]
             x == e.exited \/ s.procs[e.pid].state \in {"zombie", "fatal"}
             r == e.respawn /\ s.procs[e.pid].state # "fatal"
  <2>1. e \in SlotType
    BY <1>1
  <2>2. E(i) = IF e.pid = 0 THEN e ELSE [e EXCEPT !.exited = x, !.respawn = r]
    BY DEF Waited
  <2> HIDE DEF E, e, x, r
  <2>3. E(i).pid = e.pid /\ E(i).exiting = e.exiting /\ E(i).just_spawn = e.just_spawn
    BY <2>1, <2>2 DEF SlotType
  <2>4. e.pid # 0 => E(i).exited = x /\ E(i).respawn = r
    BY <2>1, <2>2 DEF SlotType
  <2> QED BY <2>3, <2>4 DEF e, x, r
<1>5. ASSUME NEW p \in Pids(s)
      PROVE  /\ v(p).cycle = s.procs[p].cycle /\ (Serves(v(p)) <=> Serves(s.procs[p]))
             /\ v(p).state = IF s.procs[p].state \in {"zombie", "fatal"} THEN "gone"
                             ELSE s.procs[p].state
  <2>1. s.procs[p] \in ProcType
    BY <1>1
  <2>2. CASE s.procs[p].state \in {"zombie", "fatal"}
    <3>1. v(p).state = "gone" /\ v(p).cycle = s.procs[p].cycle
      BY <2>1, <2>2 DEF ProcType
    <3>2. ~Serves(v(p)) /\ ~Serves(s.procs[p])
      BY <2>2, <3>1 DEF Serves
    <3> QED BY <2>2, <3>1, <3>2
  <2>3. CASE s.procs[p].state \notin {"zombie", "fatal"}
    BY <2>3
  <2> QED BY <2>2, <2>3
<1> HIDE DEF t, E, v
<1>6. t.procs = P /\ t.table = T /\ t.cycle = s.cycle /\ t.lost = s.lost /\ t.flags = s.flags
  BY <1>1, <1>2 DEF State
<1>7. Good(t) /\ Slots(t) = Slots(s) /\ Pids(t) = Pids(s)
  BY <1>1, <1>3, SameGood DEF Alike, Same, Slots, Pids
<1>8. \A p \in Pids(s) : t.procs[p].cycle = s.procs[p].cycle
                          /\ (Serves(t.procs[p]) <=> Serves(s.procs[p]))
                          /\ t.procs[p].state = IF s.procs[p].state \in {"zombie", "fatal"}
                                                THEN "gone" ELSE s.procs[p].state
  BY <1>1, <1>5, <1>6
<1>9. \A i \in Slots(s) : /\ t.table[i].pid = s.table[i].pid
                          /\ t.table[i].exiting = s.table[i].exiting
                          /\ t.table[i].just_spawn = s.table[i].just_spawn
  BY <1>1, <1>4, <1>6
<1>10. Newest(t)
  BY <1>6, <1>7, <1>8 DEF Fresh, Newest
<1>11. \A i \in Slots(s) : s.table[i].pid # 0 => s.table[i].pid \in Pids(s)
  BY <1>1, PidIs
<1>12. Going(t) /\ Settled(t)
  BY <1>7, <1>8, <1>9, <1>11 DEF Fresh, Going, Settled
<1>13. Posts(s, {}) \subseteq Posts(t, Nat)
  <2> SUFFICES ASSUME NEW i \in Slots(s), Post(s, i, {}) PROVE Post(t, i, Nat)
    BY <1>7 DEF Posts
  <2> DEFINE p == s.table[i].pid
  <2>1. /\ p # 0 /\ p \in Pids(s) /\ s.table[i].respawn /\ ~s.table[i].exiting
        /\ s.procs[p].state # "fatal" /\ s.procs[p].state # "gone"
    BY <1>11 DEF Post, Gone
  <2>2. i \in Nat
    BY <1>1, StateIs DEF Slots
  <2>3. t.table[i] = E(i)
    BY <1>1, <1>6
  <2>4. t.table[i].pid = p /\ ~t.table[i].exiting /\ t.table[i].respawn
    BY <1>4, <2>1, <2>3
  <2>5. t.procs[p].state # "fatal" /\ (t.procs[p].state = "gone" => s.procs[p].state = "zombie")
    BY <1>8, <2>1
  <2>6. t.procs[p].state = "gone" => t.table[i].exited
    BY <1>4, <2>1, <2>3, <2>5
  <2> HIDE DEF p
  <2> QED BY <2>1, <2>2, <2>4, <2>5, <2>6 DEF Post, Gone
<1> QED BY <1>6, <1>7, <1>10, <1>12, <1>13 DEF Fresh, t

\* Signals raise flags: nobody counts less, until he is reaped.
LEMMA FreshHandler ==
  ASSUME NEW s, Fresh(s), Manned(s, {}), NEW sigs, sigs \subseteq Heard
  PROVE  LET t == ngx_signal_handler(s, sigs)
         IN  Fresh(t) /\ Manned(t, Nat) /\ (~Has(t, "reap") => Manned(t, {}))
<1> DEFINE heard == {x \in sigs : x = "USR2" => s.new_binary <= 0}
           F == s.flags \cup {Raised[x] : x \in heard}
           t == [s EXCEPT !.flags = F]
           g == ngx_process_get_status(t)
<1>1. s \in State /\ s.flags \subseteq Flag
  BY StateIs DEF Fresh, Good
<1>2. \A x \in Heard : Raised[x] \in Flag
  BY DEF Heard, Raised, Flag
<1>3. F \subseteq Flag /\ s.flags \subseteq F
  BY <1>1, <1>2
<1>4. "CHLD" \in sigs => "reap" \in F
  <2> SUFFICES ASSUME "CHLD" \in sigs PROVE "reap" \in F
    OBVIOUS
  <2>1. "CHLD" \in heard /\ Raised["CHLD"] = "reap"
    BY DEF Raised
  <2> HIDE DEF heard
  <2> QED BY <2>1
<1>5. ngx_signal_handler(s, sigs) = IF "CHLD" \in sigs THEN g ELSE t
  BY DEF ngx_signal_handler
<1> HIDE DEF F
<1>6. /\ t \in State /\ t.table = s.table /\ t.procs = s.procs /\ t.cycle = s.cycle
      /\ t.lost = s.lost /\ t.flags = F
  BY <1>1, <1>3 DEF State
<1> HIDE DEF t
<1>7. Fresh(t) /\ \A D : Posts(t, D) = Posts(s, D)
  BY <1>6, FreshFields
<1>8. /\ Fresh(g) /\ g.lost = t.lost /\ g.flags = t.flags
      /\ Posts(t, {}) \subseteq Posts(g, Nat)
  BY <1>7, FreshStatus
<1>9. Posts(t, {}) \subseteq Posts(t, Nat)
  BY DEF Posts, Post
<1> HIDE DEF g
<1>10. Good(s) /\ Good(t) /\ Good(g)
  BY <1>7, <1>8 DEF Fresh
<1>11. F \cap Standby = {} => s.flags \cap Standby = {}
  BY <1>3
<1>12. Manned(t, {})
  BY <1>6, <1>7, <1>10, <1>11, StaffedMore DEF Manned
<1>13. Manned(t, Nat) /\ Manned(g, Nat)
  BY <1>8, <1>9, <1>10, <1>12, StaffedMore DEF Manned
<1>14. "CHLD" \in sigs => Has(g, "reap")
  BY <1>4, <1>6, <1>8 DEF Has
<1> QED BY <1>5, <1>7, <1>8, <1>12, <1>13, <1>14

\* Fresh, and enough workers count unless they need not.
Full(s) == Fresh(s) /\ Manned(s, {})

\* A step that keeps all that count.
LEMMA FullKeeps ==
  ASSUME NEW s, NEW t, Full(s), Fresh(t), Keeps(s, t, {})
  PROVE  Full(t)
BY KeepsManned DEF Full, Fresh

\* The flags that are unset in the body.
LEMMA FullUnset ==
  ASSUME NEW s, Full(s), NEW f \in Flag, f \notin Standby
  PROVE  Full(Unset(s, f))
BY FreshFlag, FullKeeps DEF Full

\* A field that does not matter is set.
LEMMA FullFields ==
  ASSUME NEW s, Fresh(s), NEW t \in State, t.table = s.table, t.procs = s.procs,
         t.cycle = s.cycle, t.lost = s.lost, t.flags = s.flags
  PROVE  Fresh(t) /\ (Full(s) => Full(t)) /\ (Staffed(s, {}) => Full(t))
<1>1. Fresh(t) /\ Posts(t, {}) = Posts(s, {})
  BY FreshFields
<1> QED BY <1>1 DEF Full, Manned, Staffed

\* The workers are told to go, or waited for.
LEMMA FullTerminating ==
  ASSUME NEW s, Full(s), Has(s, "terminate")
  PROVE  Full(Terminating(s))
<1> DEFINE t == [s EXCEPT !.delay = IF s.delay = 0 THEN 50 ELSE s.delay]
           a == [t EXCEPT !.sigio = t.sigio - 1]
           b == [t EXCEPT !.sigio = WorkerProcesses + 2]
           signo == IF t.delay > 1000 THEN "KILL" ELSE "TERM"
<1>1. s \in State /\ s.delay \in Nat /\ Fresh(s)
  BY StateIs DEF Full, Fresh, Good
<1>2. (IF s.delay = 0 THEN 50 ELSE s.delay) \in Nat
  BY <1>1
<1>3. /\ t \in State /\ t.table = s.table /\ t.procs = s.procs /\ t.cycle = s.cycle
      /\ t.flags = s.flags /\ t.lost = s.lost
  BY <1>1, <1>2 DEF State
<1>4. Terminating(s) = IF t.sigio > 0 THEN a ELSE ngx_signal_worker_processes(b, signo)
  BY DEF Terminating
<1> HIDE DEF t
<1>5. t.sigio \in Nat
  BY <1>3, StateIs
<1>6. CASE t.sigio > 0
  <2>1. t.sigio - 1 \in Nat
    BY <1>5, <1>6
  <2>2. /\ a \in State /\ a.table = s.table /\ a.procs = s.procs /\ a.cycle = s.cycle
        /\ a.flags = s.flags /\ a.lost = s.lost
    BY <1>3, <2>1 DEF State
  <2> HIDE DEF a
  <2>3. Full(a)
    BY <1>1, <2>2, FullFields
  <2> QED BY <1>4, <1>6, <2>3
<1>7. CASE ~(t.sigio > 0)
  <2>1. WorkerProcesses + 2 \in Nat
    BY MasterAssumption
  <2>2. /\ b \in State /\ b.table = s.table /\ b.procs = s.procs /\ b.cycle = s.cycle
        /\ b.flags = s.flags /\ b.lost = s.lost
    BY <1>3, <2>1 DEF State
  <2>3. signo \in {"QUIT", "TERM", "KILL", "USR1"}
    OBVIOUS
  <2> HIDE DEF b, signo
  <2>4. Fresh(b) /\ b.flags \cap Standby # {}
    BY <1>1, <2>2, FullFields DEF Has, Standby
  <2>5. Full(ngx_signal_worker_processes(b, signo))
    BY <2>3, <2>4, FreshSignal DEF Full
  <2> QED BY <1>4, <1>7, <2>5
<1> QED BY <1>6, <1>7

\* live is set.
LEMMA LiveFields ==
  ASSUME NEW s \in State
  PROVE  LET t == [s EXCEPT !.live = TRUE]
         IN  /\ t \in State /\ t.table = s.table /\ t.procs = s.procs /\ t.cycle = s.cycle
             /\ t.flags = s.flags /\ t.lost = s.lost
BY DEF State

\* The count of those lost starts again.
LEMMA FreshAnew ==
  ASSUME NEW s, Fresh(s)
  PROVE  Fresh(Anew(s))
<1>1. Good(s)
  BY DEF Fresh
<1>2. /\ Anew(s) \in State /\ Anew(s).table = s.table /\ Anew(s).procs = s.procs
      /\ Anew(s).cycle = s.cycle
  BY <1>1, AnewIs DEF Alike
<1> QED BY <1>2, FreshFields

\* Workers are started again.
LEMMA FullRestarted ==
  ASSUME NEW s, Fresh(s), NEW x \in Restarted(s)
  PROVE  Full(x)
<1>0. Fresh(Anew(s))
  BY FreshAnew
<1>1. PICK y \in ngx_start_worker_processes(Anew(s), "RESPAWN") : x = [y EXCEPT !.live = TRUE]
  BY DEF Restarted
<1>2. Fresh(y) /\ Staffed(y, {}) /\ y \in State
  BY <1>0, <1>1, FreshStart DEF Fresh, Good
<1>3. /\ x \in State /\ x.table = y.table /\ x.procs = y.procs /\ x.cycle = y.cycle
      /\ x.flags = y.flags /\ x.lost = y.lost
  BY <1>1, <1>2, LiveFields
<1> QED BY <1>2, <1>3, FullFields

\* The new binary is started, or fails.
LEMMA FullChangedBinary ==
  ASSUME NEW s, Full(s), NEW x \in ChangedBinary(s)
  PROVE  Full(x)
<1>1. PICK y \in ngx_spawn_process(s, "binary", "DETACHED") :
        x = [y EXCEPT !.new_binary = IF y.procs = s.procs THEN -1 ELSE Len(y.procs)]
  BY DEF ChangedBinary
<1>2. Good(s) /\ Fresh(s)
  BY DEF Full, Fresh
<1>3. Good(y) /\ Rest(s, y)
  BY <1>1, <1>2, SpawnIs
<1>4. Placed(s, y, "binary", "DETACHED") /\ Stays(s, y) /\ y.lost = s.lost
  BY <1>1, <1>2, SpawnPlaced
<1>5. Fresh(y) /\ Posts(s, {}) \subseteq Posts(y, {})
  BY <1>2, <1>3, <1>4, PlacedFresh, StaysPosts
<1>6. Keeps(s, y, {})
  BY <1>3, <1>4, <1>5 DEF Keeps, Rest
<1>7. Full(y)
  BY <1>5, <1>6, FullKeeps
<1>8. y \in State /\ (IF y.procs = s.procs THEN -1 ELSE Len(y.procs)) \in Int
  BY <1>3, StateIs DEF Good
<1>9. /\ x \in State /\ x.table = y.table /\ x.procs = y.procs /\ x.cycle = y.cycle
      /\ x.flags = y.flags /\ x.lost = y.lost
  BY <1>1, <1>8 DEF State
<1> QED BY <1>5, <1>7, <1>9, FullFields

\* The workers are told to go while a new binary serves.
LEMMA FullNotAccepting ==
  ASSUME NEW s, Fresh(s)
  PROVE  Full(NotAccepting(s))
<1> DEFINE u == Set(s, "noaccepting")
<1>1. Fresh(u)
  BY FreshFlag DEF Flag
<1>2. u.flags \cap Standby # {}
  <2>1. s \in State
    BY DEF Fresh, Good
  <2>2. "noaccepting" \in u.flags
    BY <2>1 DEF Set, State
  <2> QED BY <2>2 DEF Standby
<1> HIDE DEF u
<1>3. Full(ngx_signal_worker_processes(u, "QUIT"))
  BY <1>1, <1>2, FreshSignal DEF Full
<1> QED BY <1>3 DEF NotAccepting, u

\* The log files are reopened.
LEMMA FullReopen ==
  ASSUME NEW s, Full(s)
  PROVE  Full(ngx_signal_worker_processes(s, "USR1"))
<1>1. Fresh(ngx_signal_worker_processes(s, "USR1")) /\ Keeps(s, ngx_signal_worker_processes(s, "USR1"), {})
  BY FreshSignal DEF Full
<1> QED BY <1>1, FullKeeps

\* The flags that are looked at after the configuration.
LEMMA FullAfterReconfigure ==
  ASSUME NEW S, \A s \in S : Full(s), NEW x \in AfterReconfigure(S)
  PROVE  Full(x)
<1> DEFINE r == When(S, "restart", Restarted)
           o == When(r, "reopen", LAMBDA s : {ngx_signal_worker_processes(s, "USR1")})
           b == When(o, "change_binary", ChangedBinary)
           n == When(b, "noaccept", LAMBDA s : {NotAccepting(s)})
<1>1. ASSUME NEW s, Full(s), NEW f \in {"reopen", "change_binary", "noaccept"}
      PROVE  Full(Unset(s, f))
  <2>1. f \in Flag /\ f \notin Standby
    BY DEF Flag, Standby
  <2> QED BY <1>1, <2>1, FullUnset
<1>2. \A y \in r : Full(y)
  <2> TAKE y \in r
  <2>1. PICK s \in S : y \in IF Has(s, "restart") THEN Restarted(Unset(s, "restart")) ELSE {s}
    BY DEF When, Each
  <2>2. Full(s) /\ Fresh(Unset(s, "restart"))
    <3>1. Full(s) /\ Fresh(s)
      BY DEF Full
    <3> QED BY <3>1, FreshFlag DEF Flag
  <2> QED BY <2>1, <2>2, FullRestarted
<1>3. \A y \in o : Full(y)
  <2> TAKE y \in o
  <2>1. PICK s \in r : y \in IF Has(s, "reopen")
                            THEN {ngx_signal_worker_processes(Unset(s, "reopen"), "USR1")} ELSE {s}
    BY DEF When, Each
  <2> HIDE DEF r
  <2>2. Full(s) /\ Full(Unset(s, "reopen"))
    BY <1>1, <1>2
  <2>3. Full(ngx_signal_worker_processes(Unset(s, "reopen"), "USR1"))
    BY <2>2, FullReopen
  <2> QED BY <2>1, <2>2, <2>3
<1>4. \A y \in b : Full(y)
  <2> TAKE y \in b
  <2>1. PICK s \in o : y \in IF Has(s, "change_binary")
                            THEN ChangedBinary(Unset(s, "change_binary")) ELSE {s}
    BY DEF When, Each
  <2> HIDE DEF o
  <2>2. Full(s) /\ Full(Unset(s, "change_binary"))
    BY <1>1, <1>3
  <2> QED BY <2>1, <2>2, FullChangedBinary
<1>5. \A y \in n : Full(y)
  <2> TAKE y \in n
  <2>1. PICK s \in b : y \in IF Has(s, "noaccept") THEN {NotAccepting(Unset(s, "noaccept"))} ELSE {s}
    BY DEF When, Each
  <2> HIDE DEF b
  <2>2. Full(s) /\ Full(Unset(s, "noaccept"))
    BY <1>1, <1>4
  <2>3. Full(NotAccepting(Unset(s, "noaccept")))
    BY <2>2, FullNotAccepting DEF Full
  <2> QED BY <2>1, <2>2, <2>3
<1>6. x \in n
  BY DEF AfterReconfigure
<1> QED BY <1>5, <1>6

\* The master is not told to go.
LEMMA FullRunning ==
  ASSUME NEW s, Full(s), NEW x \in Running(s)
  PROVE  Full(x)
<1>1. CASE ~Has(s, "reconfigure")
  <2>1. x \in AfterReconfigure({s}) /\ \A y \in {s} : Full(y)
    BY <1>1 DEF Running
  <2> QED BY <2>1, FullAfterReconfigure
<1>2. CASE Has(s, "reconfigure")
  <2> DEFINE t == Unset(s, "reconfigure")
  <2>1. Full(t) /\ Fresh(t)
    <3>1. "reconfigure" \in Flag /\ "reconfigure" \notin Standby
      BY DEF Flag, Standby
    <3> QED BY <3>1, FullUnset DEF Full
  <2>2. x \in IF t.new_binary # 0
              THEN {Unset(y, "noaccepting") : y \in ngx_start_worker_processes(Anew(t), "RESPAWN")}
              ELSE {t} \cup AfterReconfigure(Reconfigured(t))
    BY <1>2 DEF Running
  <2> HIDE DEF t
  <2>3. CASE t.new_binary # 0
    <3>1. PICK y \in ngx_start_worker_processes(Anew(t), "RESPAWN") : x = Unset(y, "noaccepting")
      BY <2>2, <2>3
    <3>2. Fresh(y) /\ Staffed(y, {})
      BY <2>1, <3>1, FreshAnew, FreshStart
    <3>3. Fresh(x) /\ Staffed(x, {})
      BY <3>1, <3>2, FreshFlag DEF Flag
    <3> QED BY <3>3 DEF Full, Manned
  <2>4. CASE t.new_binary = 0
    <3>1. x = t \/ x \in AfterReconfigure(Reconfigured(t))
      BY <2>2, <2>4
    <3>2. \A y \in Reconfigured(t) : Full(y)
      BY <2>1, FreshReconfigured DEF Full
    <3> QED BY <2>1, <3>1, <3>2, FullAfterReconfigure
  <2> QED BY <2>3, <2>4
<1> QED BY <1>1, <1>2

\* The body of the loop.
LEMMA FullBody ==
  ASSUME NEW s, Full(s), NEW x \in Body(s)
  PROVE  Full(x)
<1>1. s \in State /\ Fresh(s)
  BY DEF Full, Fresh, Good
<1>2. CASE MayExit(s)
  <2>1. x = [s EXCEPT !.exited = TRUE]
    BY <1>2 DEF Body
  <2>2. /\ x \in State /\ x.table = s.table /\ x.procs = s.procs /\ x.cycle = s.cycle
        /\ x.flags = s.flags /\ x.lost = s.lost
    BY <1>1, <2>1 DEF State
  <2> QED BY <1>1, <2>2, FullFields
<1>3. CASE ~MayExit(s) /\ Has(s, "terminate")
  <2>1. x = Terminating(s)
    BY <1>3 DEF Body
  <2> QED BY <1>3, <2>1, FullTerminating
<1>4. CASE ~MayExit(s) /\ ~Has(s, "terminate") /\ Has(s, "quit")
  <2>1. x = ngx_signal_worker_processes(s, "QUIT")
    BY <1>4 DEF Body
  <2>2. s.flags \cap Standby # {}
    BY <1>4 DEF Has, Standby
  <2> QED BY <1>1, <2>1, <2>2, FreshSignal DEF Full
<1>5. CASE ~MayExit(s) /\ ~Has(s, "terminate") /\ ~Has(s, "quit")
  <2>1. x \in Running(s)
    BY <1>5 DEF Body
  <2> QED BY <2>1, FullRunning
<1> QED BY <1>2, <1>3, <1>4, <1>5

\* The delay before sigsuspend.
LEMMA FullTopOfLoop ==
  ASSUME NEW s, Full(s)
  PROVE  Full(TopOfLoop(s))
<1> DEFINE d == IF s.delay > 1000 THEN s.delay ELSE 2 * s.delay
           t == [s EXCEPT !.sigio = 0, !.delay = d]
<1>1. s \in State /\ s.delay \in Nat /\ Fresh(s)
  BY StateIs DEF Full, Fresh, Good
<1>2. d \in Nat
  BY <1>1
<1>3. TopOfLoop(s) = IF s.delay > 0 /\ Has(s, "sigalrm") THEN Unset(t, "sigalrm") ELSE s
  BY DEF TopOfLoop
<1> HIDE DEF d
<1>4. /\ t \in State /\ t.table = s.table /\ t.procs = s.procs /\ t.cycle = s.cycle
      /\ t.flags = s.flags /\ t.lost = s.lost
  BY <1>1, <1>2 DEF State
<1> HIDE DEF t
<1>5. Full(t)
  BY <1>1, <1>4, FullFields
<1>6. "sigalrm" \in Flag /\ "sigalrm" \notin Standby
  BY DEF Flag, Standby
<1>7. Full(Unset(t, "sigalrm"))
  BY <1>5, <1>6, FullUnset
<1> QED BY <1>3, <1>7

-----------------------------------------------------------------------------
(* The steps of the children.                                              *)

\* A process moves on and serves no more than before: it counts as before, or is lost.
LEMMA FullMoves ==
  ASSUME NEW s, Full(s), NEW p \in Pids(s), ~Gone(s, p), NEW q \in ProcType,
         q.what = s.procs[p].what, q.cycle = s.procs[p].cycle, q.state # "gone",
         Serves(q) => Serves(s.procs[p]), NEW k \in Nat, NEW l \in Nat,
         \/ q.state # "fatal" /\ l = s.lost
         \/ s.procs[p].state = "fatal" /\ l = s.lost
         \/ l = s.lost + 1,
         NEW t, t = Moved(s, p, q, k, l)
  PROVE  Full(t)
<1> DEFINE P == [s.procs EXCEPT ![p] = q]
<1>1. s \in State /\ Good(s) /\ Fresh(s) /\ s.procs \in Seq(ProcType) /\ s.lost \in Nat
  BY StateIs DEF Full, Fresh, Good
<1>2. /\ P \in Seq(ProcType) /\ Len(P) = Len(s.procs) /\ P[p] = q
      /\ \A r \in Pids(s) : r # p => P[r] = s.procs[r]
  BY <1>1 DEF Pids
<1> HIDE DEF P
<1>3. t = [s EXCEPT !.procs = P, !.faults = k, !.lost = l]
  BY DEF P, Moved
<1>4. /\ t.table = s.table /\ t.procs = P /\ t.cycle = s.cycle
      /\ t.flags = s.flags /\ t.lost = l
  BY <1>1, <1>2, <1>3 DEF State
<1>5. Alike(s, t)
  BY <1>1, ChildMoves
<1>6. Good(t) /\ Slots(t) = Slots(s) /\ Pids(t) = Pids(s)
  BY <1>1, <1>5, SameGood DEF Alike, Same, Slots, Pids
<1>7. \A r \in Pids(s) : /\ t.procs[r].cycle = s.procs[r].cycle
                         /\ Serves(t.procs[r]) => Serves(s.procs[r])
                         /\ r # p => t.procs[r] = s.procs[r]
  BY <1>2, <1>4
<1>8. Newest(t)
  BY <1>1, <1>4, <1>6, <1>7 DEF Fresh, Newest
<1>9. \A i \in Slots(s) : s.table[i].pid # 0 => s.table[i].pid \in Pids(s)
  BY <1>1, PidIs
<1>10. Going(t) /\ Settled(t)
  BY <1>1, <1>4, <1>6, <1>7, <1>9 DEF Fresh, Going, Settled
<1>11. Fresh(t)
  BY <1>6, <1>8, <1>10 DEF Fresh
<1>12. ASSUME NEW i \in Slots(s), Post(s, i, {}), s.table[i].pid # p \/ q.state # "fatal"
       PROVE  i \in Slots(t) /\ Post(t, i, {})
  <2>1. t.table[i] = s.table[i] /\ s.table[i].pid \in Pids(s)
    BY <1>4, <1>9, <1>12 DEF Post
  <2>2. CASE s.table[i].pid # p
    <3>1. t.procs[s.table[i].pid] = s.procs[s.table[i].pid]
      BY <1>7, <2>1, <2>2
    <3> QED BY <1>6, <1>12, <2>1, <3>1 DEF Post, Gone
  <2>3. CASE s.table[i].pid = p /\ q.state # "fatal"
    <3>1. t.procs[s.table[i].pid] = q
      BY <1>2, <1>4, <2>3
    <3> QED BY <1>6, <1>12, <2>1, <2>3, <3>1 DEF Post, Gone
  <2> QED BY <1>12, <2>2, <2>3
<1>13. CASE l = s.lost /\ (q.state # "fatal" \/ s.procs[p].state = "fatal")
  <2>1. \A i \in Slots(s) : Post(s, i, {}) => s.table[i].pid # p \/ q.state # "fatal"
    BY <1>13 DEF Post
  <2>2. Posts(s, {}) \subseteq Posts(t, {})
    BY <1>12, <2>1 DEF Posts
  <2>3. Keeps(s, t, {})
    BY <1>4, <1>13, <2>2 DEF Keeps
  <2> QED BY <1>11, <2>3, FullKeeps
<1>14. CASE l = s.lost + 1
  <2>1. PICK i \in Slots(s) : s.table[i].pid = p
    BY <1>1 DEF Good, Tracked
  <2>2. p # 0
    BY DEF Pids
  <2>3. \A j \in Slots(s) : j # i => s.table[j].pid # p
    BY <1>1, <2>1, <2>2 DEF Good, Tracked
  <2>4. Posts(s, {}) \ {i} \subseteq Posts(t, {})
    BY <1>12, <2>3 DEF Posts
  <2>5. Staffed(s, {}) => Staffed(t, {})
    BY <1>1, <1>4, <1>6, <1>14, <2>4, StaffedLess
  <2> QED BY <1>4, <1>11, <2>5 DEF Full, Manned
<1> QED BY <1>13, <1>14

\* A child takes a state and a box.
LEMMA FullBecomes ==
  ASSUME NEW s, Full(s), NEW p \in Pids(s), ~Gone(s, p),
         NEW how \in {"run", "draining", "zombie", "fatal"}, NEW B \in SUBSET s.procs[p].box,
         NEW k \in Nat, NEW l \in Nat,
         \/ how \notin {"run", "fatal"} /\ l = s.lost
         \/ how = "fatal" /\ l = s.lost + 1
         \/ how = s.procs[p].state /\ s.procs[p].box \cap Ends = B \cap Ends /\ l = s.lost,
         NEW t, t = Moved(s, p, Child(s, p, how, B), k, l)
  PROVE  Full(t)
<1> DEFINE q == Child(s, p, how, B)
<1>1. s.procs[p] \in ProcType
  BY StateIs DEF Full, Fresh, Good
<1>2. B \in SUBSET {"QUIT", "TERM", "KILL", "USR1"}
  BY <1>1 DEF ProcType
<1>3. /\ q \in ProcType /\ q.what = s.procs[p].what /\ q.cycle = s.procs[p].cycle
      /\ q.state = how /\ q.box = B
  BY <1>1, <1>2 DEF ProcType, Child
<1> HIDE DEF q
<1>4. t = Moved(s, p, q, k, l) /\ q.state # "gone"
  BY <1>3 DEF q
<1>5. CASE how \notin {"run", "fatal"} /\ l = s.lost
  <2>1. ~Serves(q) /\ q.state # "fatal"
    BY <1>3, <1>5 DEF Serves
  <2> QED BY <1>3, <1>4, <1>5, <2>1, FullMoves
<1>6. CASE how = "fatal" /\ l = s.lost + 1
  <2>1. ~Serves(q)
    BY <1>3, <1>6 DEF Serves
  <2> QED BY <1>3, <1>4, <1>6, <2>1, FullMoves
<1>7. CASE how = s.procs[p].state /\ s.procs[p].box \cap Ends = B \cap Ends /\ l = s.lost
  <2>1. Serves(q) <=> Serves(s.procs[p])
    BY <1>3, <1>7 DEF Serves
  <2>2. q.state # "fatal" \/ s.procs[p].state = "fatal"
    BY <1>3, <1>7
  <2> QED BY <1>3, <1>4, <1>7, <2>1, <2>2, FullMoves
<1> QED BY <1>5, <1>6, <1>7

\* What a child does.
LEMMA FullChildStep ==
  ASSUME NEW p \in 1..Len(m.procs), Full(m), ChildStep(p)
  PROVE  Full(m')
<1>1. p \in Pids(m) /\ m \in State
  BY DEF Pids, Full, Fresh, Good
<1>2. /\ m.faults \in Nat /\ m.lost \in Nat /\ m.lost + 1 \in Nat
      /\ m.procs[p] \in ProcType /\ m.procs \in Seq(ProcType)
  <2>1. m.faults \in Nat /\ m.lost \in Nat /\ m.procs[p] \in ProcType /\ m.procs \in Seq(ProcType)
    BY <1>1, StateIs
  <2> QED BY <2>1
<1>3. ASSUME NEW how \in {"run", "draining", "zombie", "fatal"}, NEW B \in SUBSET m.procs[p].box,
             NEW k \in Nat, NEW l \in Nat, m' = Moved(m, p, Child(m, p, how, B), k, l),
             ~Gone(m, p),
             \/ how \notin {"run", "fatal"} /\ l = m.lost
             \/ how = "fatal" /\ l = m.lost + 1
             \/ how = m.procs[p].state /\ m.procs[p].box \cap Ends = B \cap Ends /\ l = m.lost
      PROVE  Full(m')
  BY <1>1, <1>3, FullBecomes
<1>4. ASSUME Dies(p, "zombie"), Awake(p)
      PROVE  Full(m')
  <2>1. m' = Moved(m, p, Child(m, p, "zombie", {}), m.faults, m.lost)
    <3>1. m' = Wrote(m, p, "zombie", {})
      BY <1>4 DEF Dies, Wrote
    <3> QED BY <1>1, <3>1, MovedIs
  <2>2. ~Gone(m, p) /\ {} \in SUBSET m.procs[p].box
    BY <1>4 DEF Awake, Gone
  <2> QED BY <1>2, <1>3, <2>1, <2>2
<1>5. CASE Drain(p)
  <2> DEFINE B == m.procs[p].box \ {"QUIT"}
  <2>1. m' = Wrote(m, p, "draining", B)
    <3>1. m' = [m EXCEPT !.procs[p].state = "draining", !.procs[p].box = B]
      BY <1>1, <1>2, <1>5 DEF Drain, State, ProcType, Pids
    <3> QED BY <3>1 DEF Wrote
  <2>2. ~Gone(m, p) /\ B \in SUBSET m.procs[p].box
    BY <1>5 DEF Drain, Gone
  <2> HIDE DEF B
  <2>3. m' = Moved(m, p, Child(m, p, "draining", B), m.faults, m.lost)
    BY <1>1, <2>1, MovedIs
  <2> QED BY <1>2, <1>3, <2>2, <2>3
<1>6. CASE Reopen(p)
  <2> DEFINE B == m.procs[p].box \ {"USR1"}
  <2>1. m' = WroteBox(m, p, B)
    <3>1. m' = [m EXCEPT !.procs[p].box = B]
      BY <1>1, <1>2, <1>6 DEF Reopen, State, ProcType, Pids
    <3> QED BY <3>1 DEF WroteBox
  <2>2. /\ ~Gone(m, p) /\ m.procs[p].state \in {"run", "draining", "zombie", "fatal"}
        /\ B \in SUBSET m.procs[p].box
    BY <1>6 DEF Reopen, Awake, Gone
  <2>3. m.procs[p].box \cap Ends = B \cap Ends
    BY DEF Ends
  <2> HIDE DEF B
  <2>4. m' = Moved(m, p, Child(m, p, m.procs[p].state, B), m.faults, m.lost)
    BY <1>1, <2>1, MovedIs
  <2> QED BY <1>2, <1>3, <2>2, <2>3, <2>4
<1>7. CASE Crash(p)
  <2>1. PICK how \in {"zombie", "fatal"} :
          m' = IF how = "fatal" THEN Losing(Wrote(m, p, how, {})) ELSE Fault(Wrote(m, p, how, {}))
    BY <1>7 DEF Crash, Wrote
  <2>2. ~Gone(m, p) /\ m.faults - 1 \in Nat /\ {} \in SUBSET m.procs[p].box
    BY <1>2, <1>7 DEF Crash, Awake, Gone
  <2>3. CASE how = "fatal"
    <3>1. m' = Moved(m, p, Child(m, p, "fatal", {}), m.faults - 1, m.lost + 1)
      BY <1>1, <2>1, <2>3, MovedIs
    <3> QED BY <1>2, <1>3, <2>2, <3>1
  <2>4. CASE how = "zombie"
    <3>1. m' = Moved(m, p, Child(m, p, "zombie", {}), m.faults - 1, m.lost)
      BY <1>1, <2>1, <2>4, MovedIs
    <3> QED BY <1>2, <1>3, <2>2, <3>1
  <2> QED BY <2>1, <2>3, <2>4
<1>8. CASE Drained(p) \/ Terminated(p) \/ Killed(p) \/ BinaryExits(p)
  <2>1. Dies(p, "zombie") /\ Awake(p)
    BY <1>8 DEF Drained, Terminated, Killed, BinaryExits, Awake
  <2> QED BY <1>4, <2>1
<1> QED BY <1>5, <1>6, <1>7, <1>8 DEF ChildStep

-----------------------------------------------------------------------------
(* The invariant.                                                          *)

\* The first workers are started, or lost.
LEMMA FreshInit ==
  ASSUME MasterInit
  PROVE  FreshInv
<1>1. m \in ngx_start_worker_processes(Empty, "RESPAWN") /\ pending = {}
  BY DEF MasterInit
<1> DEFINE e == Empty
<1>2. e.table = <<>> /\ e.procs = <<>> /\ e \in State
  BY MasterAssumption DEF Empty, State
<1> HIDE DEF e
<1>3. Fresh(e)
  BY <1>2 DEF Fresh, Good, Tracked, Newest, Going, Settled, Slots, Pids
<1>4. Fresh(m) /\ Staffed(m, {})
  BY <1>1, <1>3, FreshStart DEF e
<1> QED BY <1>1, <1>4 DEF FreshInv, Manned

\* sigsuspend returns.
LEMMA FullMasterStep ==
  ASSUME FreshInv, MasterStep
  PROVE  Full(m')
<1>1. Full(m) /\ pending \subseteq Heard
  BY MasterAssumption DEF FreshInv, Full, Heard
<1>2. PICK s : s = ngx_signal_handler(m, pending)
  OBVIOUS
<1>3. PICK y \in When({s}, "reap", ngx_reap_children) : \E x \in Body(y) : m' = TopOfLoop(x)
  <2>1. m' \in {TopOfLoop(x) : x \in Each(When({s}, "reap", ngx_reap_children), Body)}
    BY <1>2 DEF MasterStep
  <2> QED BY <2>1 DEF Each
<1>4. Fresh(s) /\ Manned(s, Nat) /\ (~Has(s, "reap") => Manned(s, {}))
  BY <1>1, <1>2, FreshHandler DEF Full
<1>6. Full(y)
  <2>1. y \in IF Has(s, "reap") THEN ngx_reap_children(Unset(s, "reap")) ELSE {s}
    BY <1>3 DEF When, Each
  <2>2. CASE ~Has(s, "reap")
    BY <1>4, <2>1, <2>2 DEF Full
  <2>3. CASE Has(s, "reap")
    <3> DEFINE u == Unset(s, "reap")
    <3>1. Fresh(u) /\ Manned(u, Nat)
      <4>1. "reap" \in Flag /\ "reap" \notin Standby
        BY DEF Flag, Standby
      <4>2. Fresh(u) /\ Keeps(s, u, Nat)
        BY <1>4, <4>1, FreshFlag
      <4>3. Good(s) /\ Good(u)
        BY <1>4, <4>2 DEF Fresh
      <4> QED BY <1>4, <4>2, <4>3, KeepsManned
    <3> HIDE DEF u
    <3>2. Fresh(y) /\ Manned(y, {})
      BY <2>1, <2>3, <3>1, FreshReap DEF u
    <3> QED BY <3>2 DEF Full
  <2> QED BY <2>2, <2>3
<1>7. PICK x \in Body(y) : m' = TopOfLoop(x)
  BY <1>3
<1>8. Full(x)
  BY <1>6, <1>7, FullBody
<1> QED BY <1>7, <1>8, FullTopOfLoop

\* Every step of the system keeps the invariant.
LEMMA FreshNext ==
  ASSUME FreshInv, [MasterNext]_masterVars
  PROVE  FreshInv'
<1>1. Full(m) /\ pending \subseteq Signals \cup {"ALRM", "CHLD"}
  BY DEF FreshInv, Full
<1>2. ASSUME Full(m'), pending' \subseteq Signals \cup {"ALRM", "CHLD"}
      PROVE  FreshInv'
  BY <1>2 DEF FreshInv, Full
<1>3. ASSUME NEW x \in Signals, Send(x)
      PROVE  FreshInv'
  <2>1. m' = m /\ pending' = pending \cup {x}
    BY <1>3 DEF Send
  <2> QED BY <1>1, <1>2, <2>1
<1>4. CASE Alarm
  <2>1. m' = m /\ pending' = pending \cup {"ALRM"}
    BY <1>4 DEF Alarm
  <2> QED BY <1>1, <1>2, <2>1
<1>5. CASE MasterStep
  <2>1. pending' = {}
    BY <1>5 DEF MasterStep
  <2> QED BY <1>2, <1>5, <2>1, FullMasterStep
<1>6. ASSUME NEW p \in 1..Len(m.procs), ChildStep(p)
      PROVE  FreshInv'
  <2>1. Full(m')
    BY <1>1, <1>6, FullChildStep
  <2>2. pending' \subseteq pending \cup {"CHLD"}
    BY <1>1, <1>6, ChildStepIs DEF Full, Fresh
  <2> QED BY <1>1, <1>2, <2>1, <2>2
<1>7. CASE Over \/ UNCHANGED masterVars
  <2>1. m' = m /\ pending' = pending
    BY <1>7 DEF Over, masterVars
  <2> QED BY <1>1, <1>2, <2>1
<1> QED BY <1>3, <1>4, <1>5, <1>6, <1>7 DEF MasterNext

\* When a reload, an upgrade or a crash has been dealt with, every worker runs the
\* newest configuration, and as many as configured do, but for the forks that failed
\* and the workers that exited with the code 2 since workers were last started: a
\* worker that crashes is replaced, whatever signals, exits and faults interleaved
\* before, rollbacks included.
THEOREM OnlyNewestWorkers == MasterSpec => []NewestWorkersOnly
<1>1. MasterInit => FreshInv
  BY FreshInit
<1>2. FreshInv /\ [MasterNext]_masterVars => FreshInv'
  BY FreshNext
<1>3. FreshInv => NewestWorkersOnly
  <2> SUFFICES ASSUME FreshInv, Quiet PROVE NewestWorkersOnly
    BY DEF NewestWorkersOnly
  <2> DEFINE alive == {p \in 1..Len(m.procs) : Worker(p) /\ Awake(p)}
             P == Posts(m, {})
             f == [i \in P |-> m.table[i].pid]
  <2>1. Fresh(m) /\ Good(m) /\ Manned(m, {}) /\ Len(m.procs) \in Nat /\ m.lost \in Nat
    BY StateIs DEF FreshInv, Fresh, Good
  <2>2. \A p \in 1..Len(m.procs) : Serves(m.procs[p]) <=> Worker(p) /\ Awake(p)
    BY DEF Quiet, Serves, Worker, Awake
  <2>3. ASSUME NEW i \in P PROVE m.table[i].pid \in alive /\ m.table[i].pid # 0 /\ i \in Slots(m)
    <3>1. /\ i \in Slots(m) /\ m.table[i].pid # 0 /\ m.table[i].respawn
          /\ ~Gone(m, m.table[i].pid)
      BY <2>3 DEF Posts, Post
    <3>2. m.table[i].pid \in Pids(m) /\ m.procs[m.table[i].pid] \in ProcType
      BY <2>1, <3>1, PidIs
    <3>3. m.procs[m.table[i].pid].what = "worker"
      BY <2>1, <3>1, <3>2 DEF Good, Tracked, ProcType
    <3>4. m.procs[m.table[i].pid].state = "run"
      BY <3>1, <3>2 DEF Quiet, Gone, Pids
    <3> QED BY <3>1, <3>2, <3>3, <3>4 DEF Worker, Awake, Pids
  <2>4. \A i, j \in P : f[i] = f[j] => i = j
    <3> SUFFICES ASSUME NEW i \in P, NEW j \in P, m.table[i].pid = m.table[j].pid PROVE i = j
      OBVIOUS
    <3> QED BY <2>1, <2>3 DEF Good, Tracked
  <2>5. IsFiniteSet(alive) /\ Cardinality(alive) \in Nat
    <3>1. IsFiniteSet(1..Len(m.procs))
      BY <2>1, FS_Interval
    <3>2. IsFiniteSet(alive)
      BY <3>1, FS_Subset
    <3> QED BY <3>2, FS_CardinalityType
  <2>6. f \in [P -> alive]
    BY <2>3
  <2>7. Cardinality(P) + m.lost >= WorkerProcesses /\ Cardinality(P) \in Nat
    <3>1. Cardinality(P) \in Nat
      BY <2>1, PostsFinite
    <3> QED BY <2>1, <3>1 DEF Quiet, Manned, Staffed
  <2> HIDE DEF f, P
  <2>8. Cardinality(P) <= Cardinality(alive)
    <3> HIDE DEF alive
    <3>1. f \in Injection(P, alive)
      BY <2>4, <2>6 DEF Injection, IsInjective
    <3> QED BY <2>5, <3>1, FS_Injection
  <2>9. Cardinality(alive) >= WorkerProcesses - m.lost
    <3> HIDE DEF alive
    <3> QED BY <2>1, <2>5, <2>7, <2>8, MasterAssumption
  <2>10. \A p \in alive : m.procs[p].cycle = m.cycle
    BY <2>1, <2>2 DEF Fresh, Newest, Pids
  <2> QED BY <2>9, <2>10 DEF NewestWorkersOnly
<1> QED BY <1>1, <1>2, <1>3, PTL DEF MasterSpec
=============================================================================
