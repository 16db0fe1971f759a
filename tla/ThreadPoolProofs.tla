-------------------------- MODULE ThreadPoolProofs --------------------------
(***************************************************************************)
(* The lists of the thread pool, who owns a task, and the end of the pool, *)
(* for every number of threads, tasks and failing calls.                   *)
(*                                                                         *)
(* The tasks on the three lists (the queue, the finished ones, and those   *)
(* being delivered) are kept as sequences L, which the invariant says to   *)
(* exist; Chain, which follows the pointers, is shown to find them.        *)
(***************************************************************************)
EXTENDS ThreadPool, DataLemmas

List == {"queue", "done", "given"}

First(s) == IF s = <<>> THEN NULL ELSE s[1]
End(s) == IF s = <<>> THEN NULL ELSE s[Len(s)]
Ends(s) == [first |-> First(s), last |-> End(s)]

\* No task is twice on the lists L, and nx leads along them.
Lists(L, nx) ==
  /\ L \in [List -> Seq(AnyTask)]
  /\ \A a, b \in List : \A i \in 1..Len(L[a]) : \A j \in 1..Len(L[b]) :
       L[a][i] = L[b][j] => a = b /\ i = j
  /\ \A a \in List : \A i \in 1..Len(L[a]) :
       nx[L[a][i]] = IF i = Len(L[a]) THEN NULL ELSE L[a][i + 1]

On(x, L) == \E a \in List : \E i \in 1..Len(L[a]) : L[a][i] = x
Run(x) == \E t \in Thread : th[t].task = x
Busy(x, L) == On(x, L) \/ Run(x)

ThreadPc ==
  {"top", "waiting", "woken", "left", "failed", "run", "lost", "notify", "exited"}
\* Where a thread has a task.
Holds == {"run", "lost"}
MainPc == {"loop", "deliver", "callback", "exiting", "spin", "gaveup", "destroyed"}
ThreadType == [pc : ThreadPc, task : AnyTask \cup {NULL}]
MainType == [pc : MainPc, task : AnyTask \cup {NULL}, n : Nat, lock : {0, 1}]

ThreadPoolType ==
  /\ next \in [AnyTask -> AnyTask \cup {NULL}]
  /\ aio \in [Task -> BOOLEAN] /\ waiting \in Int
  /\ th \in [Thread -> ThreadType] /\ main \in MainType
  /\ \A t \in Thread : th[t].pc \in Holds <=> th[t].task # NULL

\* The lists are those of the program.
Placed(L) ==
  /\ Lists(L, next)
  /\ q = Ends(L["queue"]) /\ done = Ends(L["done"])
  /\ IF main.pc \in {"deliver", "callback"} THEN main.task = First(L["given"])
     ELSE L["given"] = <<>>

\* A task is run by one thread, when it is on no list; a request is blocked as
\* long as its task is somewhere, and the event loop waits for the exit task.
Owned(L) ==
  /\ \A t \in Thread : th[t].task # NULL => ~On(th[t].task, L)
  /\ \A t, u \in Thread : t # u /\ th[t].task = th[u].task => th[t].task = NULL
  /\ \A x \in Task : aio[x] <=> Busy(x, L)
  /\ Busy(ExitTask, L) <=> main.pc = "spin" /\ main.lock = 1

Ready == {t \in Thread : th[t].pc \in {"waiting", "woken", "failed"}}
Exited == {t \in Thread : th[t].pc = "exited"}

Waits(L) ==
  waiting <= MaxQueue /\ waiting = Len(L["queue"]) - Cardinality(Ready)

\* Nothing is queued behind the exit task, and the exits are counted.
Leaving(L) ==
  /\ main.pc = "spin" => End(L["queue"]) \in {NULL, ExitTask}
  /\ main.pc = "destroyed" => L["queue"] = <<>> /\ Exited = Thread
  /\ main.pc # "destroyed" =>
       Cardinality(Exited) = main.n + (IF main.pc = "spin" /\ main.lock = 0 THEN 1 ELSE 0)

PoolInv(L) == Placed(L) /\ Owned(L) /\ Waits(L) /\ Leaving(L)

ThreadPoolInv == ThreadPoolType /\ \E L : PoolInv(L)

-----------------------------------------------------------------------------
(* What the operations on lists do to the sequences.                       *)

\* The tasks on a list, and its ends.
LEMMA ListIs ==
  ASSUME NEW L, NEW nx, Lists(L, nx), NEW a \in List
  PROVE  /\ L[a] \in Seq(AnyTask) /\ Len(L[a]) \in Nat
         /\ \A i \in 1..Len(L[a]) : L[a][i] \in AnyTask /\ L[a][i] # NULL
         /\ L[a] = <<>> <=> Len(L[a]) = 0
         /\ L[a] # <<>> => /\ 1 \in 1..Len(L[a]) /\ Len(L[a]) \in 1..Len(L[a])
                           /\ First(L[a]) = L[a][1] /\ End(L[a]) = L[a][Len(L[a])]
         /\ L[a] = <<>> => First(L[a]) = NULL /\ End(L[a]) = NULL
<1>1. L[a] \in Seq(AnyTask)
  BY DEF Lists
<1>2. \A i \in 1..Len(L[a]) : L[a][i] \in AnyTask
  BY <1>1
<1>3. Len(L[a]) \in Nat /\ (L[a] = <<>> <=> Len(L[a]) = 0)
  BY <1>1
<1>4. L[a] # <<>> => 1 \in 1..Len(L[a]) /\ Len(L[a]) \in 1..Len(L[a])
  BY <1>3
<1> QED BY <1>1, <1>2, <1>3, <1>4, ThreadPoolAssumption DEF First, End

\* Link, for any pointers: e is the last task, x the new one.
Linked(e, x, nx) == [y \in AnyTask |-> IF y = e THEN x ELSE IF y = x THEN NULL ELSE nx[y]]

\* The lists, with x at the end of the list a.
Extended(L, a, x) == [L EXCEPT ![a] = Append(L[a], x)]

\* x is put at the end of the list a.
LEMMA ListsPush ==
  ASSUME NEW L, NEW nx, Lists(L, nx), NEW a \in List, NEW x \in AnyTask, ~On(x, L)
  PROVE  /\ Lists(Extended(L, a, x), Linked(End(L[a]), x, nx))
         /\ Ends(Extended(L, a, x)[a]) = Push(Ends(L[a]), x)
         /\ Len(Extended(L, a, x)[a]) = Len(L[a]) + 1
         /\ End(Extended(L, a, x)[a]) = x
         /\ \A b \in List : b # a => Extended(L, a, x)[b] = L[b]
         /\ \A y : On(y, Extended(L, a, x)) <=> On(y, L) \/ y = x
<1> DEFINE s == Append(L[a], x)
           L2 == [L EXCEPT ![a] = s]
           n == Len(L[a])
           nx2 == Linked(End(L[a]), x, nx)
<1>0. nx2 = [y \in AnyTask |-> IF y = End(L[a]) THEN x ELSE IF y = x THEN NULL ELSE nx[y]]
  BY DEF Linked
<1> HIDE DEF nx2
<1>1. \A b \in List : /\ L[b] \in Seq(AnyTask) /\ Len(L[b]) \in Nat
                      /\ \A i \in 1..Len(L[b]) : L[b][i] \in AnyTask /\ L[b][i] # NULL
  BY ListIs
<1>2. x # NULL
  BY ThreadPoolAssumption
<1>3. /\ s \in Seq(AnyTask) /\ Len(s) = n + 1 /\ s[n + 1] = x /\ n \in Nat
      /\ \A i \in 1..n : s[i] = L[a][i]
  BY <1>1
<1> HIDE DEF s
<1>4. /\ L2 \in [List -> Seq(AnyTask)] /\ L2[a] = s
      /\ \A b \in List : b # a => L2[b] = L[b]
  BY <1>3 DEF Lists
<1>5. /\ \A b \in List : \A i \in 1..Len(L[b]) : i \in 1..Len(L2[b]) /\ L2[b][i] = L[b][i]
      /\ n + 1 \in 1..Len(L2[a]) /\ L2[a][n + 1] = x
  BY <1>1, <1>3, <1>4
<1>6. \A b \in List : \A i \in 1..Len(L2[b]) : i \in 1..Len(L[b]) \/ (b = a /\ i = n + 1)
  <2> TAKE b \in List
  <2>1. CASE b = a
    BY <1>3, <1>4, <2>1
  <2>2. CASE b # a
    BY <1>4, <2>2
  <2> QED BY <2>1, <2>2
<1>7. \A b \in List : \A i \in 1..Len(L[b]) : L[b][i] # x
  BY DEF On
<1> HIDE DEF L2
<1>8. ASSUME NEW b \in List, NEW c \in List, NEW i \in 1..Len(L2[b]), NEW j \in 1..Len(L2[c]),
             L2[b][i] = L2[c][j]
      PROVE  b = c /\ i = j
  <2>1. CASE i \in 1..Len(L[b]) /\ j \in 1..Len(L[c])
    <3>1. L[b][i] = L[c][j]
      BY <1>5, <1>8, <2>1
    <3> QED BY <2>1, <3>1 DEF Lists
  <2>2. CASE i \in 1..Len(L[b]) /\ c = a /\ j = n + 1
    BY <1>5, <1>7, <1>8, <2>2
  <2>3. CASE b = a /\ i = n + 1 /\ j \in 1..Len(L[c])
    BY <1>5, <1>7, <1>8, <2>3
  <2> QED BY <1>6, <2>1, <2>2, <2>3
<1>9. L[a] # <<>> => End(L[a]) = L[a][n] /\ n \in 1..n
  BY ListIs
<1>10. L[a] = <<>> => End(L[a]) = NULL /\ n = 0
  BY ListIs
<1>11. x # End(L[a])
  BY <1>2, <1>7, <1>9, <1>10
<1>12. ASSUME NEW b \in List, NEW i \in 1..Len(L2[b])
       PROVE  nx2[L2[b][i]] = IF i = Len(L2[b]) THEN NULL ELSE L2[b][i + 1]
  <2>1. CASE b = a /\ i = n + 1
    BY <1>0, <1>3, <1>4, <1>5, <1>11, <2>1
  <2>2. CASE b = a /\ i = n /\ i \in 1..Len(L[b])
    <3>1. L[a] # <<>>
      BY <1>1, <2>2
    <3>2. L2[b][i] = End(L[a]) /\ L2[b][i] \in AnyTask
      BY <1>1, <1>5, <1>9, <2>2, <3>1
    <3>3. nx2[L2[b][i]] = x
      BY <1>0, <3>2
    <3>4. i # Len(L2[b]) /\ L2[b][i + 1] = x
      BY <1>3, <1>4, <1>5, <2>2
    <3> QED BY <3>3, <3>4
  <2>3. CASE i \in 1..Len(L[b]) /\ ~(b = a /\ i = n)
    <3>1. L2[b][i] = L[b][i] /\ L[b][i] \in AnyTask /\ L[b][i] # x
      BY <1>1, <1>5, <1>7, <2>3
    <3>2. L[b][i] # End(L[a])
      <4>1. CASE L[a] = <<>>
        BY <1>1, <1>10, <2>3, <4>1
      <4>2. CASE L[a] # <<>>
        BY <1>9, <2>3, <4>2 DEF Lists
      <4> QED BY <4>1, <4>2
    <3>3. nx2[L2[b][i]] = IF i = Len(L[b]) THEN NULL ELSE L[b][i + 1]
      BY <1>0, <2>3, <3>1, <3>2 DEF Lists
    <3>4. CASE b = a
      <4>1. i # Len(L[b]) /\ i + 1 \in 1..Len(L[b]) /\ i # Len(L2[b])
        BY <1>1, <1>3, <1>4, <2>3, <3>4
      <4> QED BY <1>5, <3>3, <4>1
    <3>5. CASE b # a
      BY <1>4, <3>3, <3>5
    <3> QED BY <3>4, <3>5
  <2> QED BY <1>6, <2>1, <2>2, <2>3
<1>13. Lists(L2, nx2)
  BY <1>4, <1>8, <1>12 DEF Lists
<1>14. Ends(s) = Push(Ends(L[a]), x)
  <2>1. s # <<>> /\ End(s) = x /\ First(s) = s[1]
    BY <1>3 DEF End, First
  <2>2. CASE L[a] = <<>>
    <3>1. s[1] = x
      BY <1>3, <1>10, <2>2
    <3> QED BY <1>10, <2>1, <2>2, <3>1 DEF Ends, Push
  <2>3. CASE L[a] # <<>>
    <3>1. End(L[a]) # NULL /\ First(L[a]) = L[a][1] /\ 1 \in 1..n
      BY <1>1, <1>9, <2>3, ListIs
    <3>2. s[1] = First(L[a])
      BY <1>3, <3>1
    <3> QED BY <2>1, <3>1, <3>2 DEF Ends, Push
  <2> QED BY <2>2, <2>3
<1>15. ASSUME NEW y PROVE On(y, L2) <=> On(y, L) \/ y = x
  BY <1>5, <1>6 DEF On
<1>16. End(s) = x
  BY <1>3 DEF End
<1>17. L2 = Extended(L, a, x)
  BY DEF L2, s, Extended
<1> QED BY <1>3, <1>4, <1>13, <1>14, <1>15, <1>16, <1>17 DEF nx2

\* The first task is taken from the list a.
LEMMA ListsPop ==
  ASSUME NEW L, Lists(L, next), NEW a \in List, L[a] # <<>>
  PROVE  /\ Lists([L EXCEPT ![a] = Tail(L[a])], next)
         /\ Ends(Tail(L[a])) = Pop(Ends(L[a]))
         /\ First(Tail(L[a])) = next[First(L[a])]
         /\ Len(Tail(L[a])) = Len(L[a]) - 1
         /\ First(L[a]) \in AnyTask /\ First(L[a]) # NULL /\ On(First(L[a]), L)
         /\ End(Tail(L[a])) \in {NULL, End(L[a])}
         /\ First(L[a]) = End(L[a]) => Tail(L[a]) = <<>>
         /\ \A y : On(y, [L EXCEPT ![a] = Tail(L[a])]) <=> On(y, L) /\ y # First(L[a])
<1> DEFINE s == Tail(L[a])
           L2 == [L EXCEPT ![a] = s]
           n == Len(L[a])
<1>1. \A b \in List : /\ L[b] \in Seq(AnyTask) /\ Len(L[b]) \in Nat
                      /\ \A i \in 1..Len(L[b]) : L[b][i] \in AnyTask /\ L[b][i] # NULL
  BY ListIs
<1>2. First(L[a]) = L[a][1] /\ End(L[a]) = L[a][n] /\ 1 \in 1..n /\ n \in 1..n /\ n \in Nat
  BY ListIs
<1>3. /\ s \in Seq(AnyTask) /\ Len(s) = n - 1
      /\ \A i \in 1..(n - 1) : s[i] = L[a][i + 1]
  BY <1>1
<1> HIDE DEF s
<1>4. /\ L2 \in [List -> Seq(AnyTask)] /\ L2[a] = s
      /\ \A b \in List : b # a => L2[b] = L[b]
  BY <1>3 DEF Lists
<1> HIDE DEF L2
<1>5. \A i \in 1..Len(s) : i + 1 \in 1..n /\ i + 1 # 1 /\ s[i] = L[a][i + 1]
  BY <1>2, <1>3
<1>6. \A i \in 1..n : i # 1 => i - 1 \in 1..Len(s) /\ s[i - 1] = L[a][i]
  <2> TAKE i \in 1..n
  <2> HAVE i # 1
  <2>1. i - 1 \in 1..(n - 1) /\ (i - 1) + 1 = i
    BY <1>2
  <2> QED BY <1>3, <2>1
<1>7. ASSUME NEW b \in List, NEW c \in List, NEW i \in 1..Len(L2[b]), NEW j \in 1..Len(L2[c]),
             L2[b][i] = L2[c][j]
      PROVE  b = c /\ i = j
  <2>1. CASE b = a /\ c = a
    <3>1. i + 1 = j + 1
      BY <1>4, <1>5, <1>7, <2>1 DEF Lists
    <3> QED BY <2>1, <3>1
  <2>2. CASE b = a /\ c # a
    BY <1>4, <1>5, <1>7, <2>2 DEF Lists
  <2>3. CASE b # a /\ c = a
    BY <1>4, <1>5, <1>7, <2>3 DEF Lists
  <2>4. CASE b # a /\ c # a
    BY <1>4, <1>7, <2>4 DEF Lists
  <2> QED BY <2>1, <2>2, <2>3, <2>4
<1>8. ASSUME NEW b \in List, NEW i \in 1..Len(L2[b])
      PROVE  next[L2[b][i]] = IF i = Len(L2[b]) THEN NULL ELSE L2[b][i + 1]
  <2>1. CASE b = a
    <3>1. next[s[i]] = IF i + 1 = n THEN NULL ELSE L[a][(i + 1) + 1]
      BY <1>4, <1>5, <2>1 DEF Lists
    <3>2. i # Len(s) => /\ i + 1 \in 1..Len(s) /\ s[i + 1] = L[a][(i + 1) + 1]
      BY <1>3, <1>4, <1>5, <2>1
    <3>3. i + 1 = n <=> i = Len(s)
      BY <1>2, <1>3
    <3> QED BY <1>4, <2>1, <3>1, <3>2, <3>3
  <2>2. CASE b # a
    BY <1>4, <2>2 DEF Lists
  <2> QED BY <2>1, <2>2
<1>9. Lists(L2, next)
  BY <1>4, <1>7, <1>8 DEF Lists
<1>10. \A i \in 1..n : next[L[a][i]] = IF i = n THEN NULL ELSE L[a][i + 1]
  BY DEF Lists
<1>11. \A i, j \in 1..n : L[a][i] = L[a][j] => i = j
  BY DEF Lists
<1>12. /\ Ends(s) = Pop(Ends(L[a])) /\ First(s) = next[First(L[a])]
       /\ End(s) \in {NULL, End(L[a])}
       /\ First(L[a]) = End(L[a]) => s = <<>>
  <2>1. CASE n = 1
    <3>1. s = <<>> /\ Len(s) = 0
      BY <1>3, <2>1
    <3>2. next[First(L[a])] = NULL
      BY <1>2, <1>10, <2>1
    <3>3. Ends(s) = Pop(Ends(L[a])) /\ First(s) = NULL /\ End(s) = NULL
      BY <3>1, <3>2 DEF Ends, Pop, Empty, First, End
    <3> QED BY <3>1, <3>2, <3>3
  <2>2. CASE n # 1
    <3>1. /\ n - 1 \in 1..(n - 1) /\ 1 \in 1..(n - 1) /\ (n - 1) + 1 = n /\ n - 1 > 0
          /\ 2 \in 1..n
      <4> HIDE DEF n
      <4> QED BY <1>2, <2>2
    <3>2. s # <<>>
      BY <1>3, <3>1
    <3>3. s[1] = L[a][1 + 1] /\ s[n - 1] = L[a][n]
      BY <1>3, <3>1
    <3>4. First(s) = L[a][2] /\ End(s) = L[a][n]
      BY <1>3, <3>2, <3>3 DEF First, End
    <3>5. next[L[a][1]] = L[a][1 + 1]
      BY <1>2, <1>10, <2>2
    <3>6. next[First(L[a])] = L[a][2] /\ L[a][2] # NULL
      BY <1>1, <1>2, <3>1, <3>5
    <3>7. Ends(s) = Pop(Ends(L[a]))
      BY <1>2, <3>4, <3>6 DEF Ends, Pop
    <3>8. L[a][1] # L[a][n]
      BY <1>2, <1>11, <2>2
    <3> QED BY <1>2, <3>4, <3>6, <3>7, <3>8
  <2> QED BY <2>1, <2>2
<1>13. On(First(L[a]), L) /\ First(L[a]) \in AnyTask /\ First(L[a]) # NULL
  BY <1>1, <1>2 DEF On
<1>14. ASSUME NEW y PROVE On(y, L2) <=> On(y, L) /\ y # First(L[a])
  <2>1. ASSUME NEW b \in List, NEW i \in 1..Len(L2[b]), L2[b][i] = y
        PROVE  On(y, L) /\ y # First(L[a])
    <3>1. CASE b = a
      <4>1. i + 1 \in 1..n /\ i + 1 # 1 /\ L[a][i + 1] = y
        BY <1>4, <1>5, <2>1, <3>1
      <4> QED BY <1>2, <4>1 DEF On, Lists
    <3>2. CASE b # a
      <4>1. i \in 1..Len(L[b]) /\ L[b][i] = y
        BY <1>4, <2>1, <3>2
      <4> QED BY <1>2, <3>2, <4>1 DEF On, Lists
    <3> QED BY <3>1, <3>2
  <2>2. ASSUME NEW b \in List, NEW i \in 1..Len(L[b]), L[b][i] = y, y # First(L[a])
        PROVE  On(y, L2)
    <3>1. CASE b = a
      BY <1>2, <1>4, <1>6, <2>2, <3>1 DEF On
    <3>2. CASE b # a
      BY <1>4, <2>2, <3>2 DEF On
    <3> QED BY <3>1, <3>2
  <2> QED BY <2>1, <2>2 DEF On
<1> QED BY <1>3, <1>9, <1>12, <1>13, <1>14 DEF L2, s

\* The finished tasks become those to deliver.
Moved(L) == [L EXCEPT !["given"] = L["done"], !["done"] = <<>>]

\* No task is lost, and none is on two lists after.
LEMMA ListsMove ==
  ASSUME NEW L, NEW nx, Lists(L, nx), L["given"] = <<>>
  PROVE  /\ Lists(Moved(L), nx) /\ Moved(L)["queue"] = L["queue"]
         /\ Moved(L)["given"] = L["done"] /\ Moved(L)["done"] = <<>>
         /\ \A y : On(y, Moved(L)) <=> On(y, L)
<1> DEFINE L2 == [L EXCEPT !["given"] = L["done"], !["done"] = <<>>]
<1>1. /\ L2 \in [List -> Seq(AnyTask)] /\ L2["queue"] = L["queue"]
      /\ L2["given"] = L["done"] /\ L2["done"] = <<>>
  BY DEF Lists, List
<1> HIDE DEF L2
<1>2. \A b \in List : \A i \in 1..Len(L2[b]) :
        \/ b = "queue" /\ i \in 1..Len(L["queue"]) /\ L2[b][i] = L["queue"][i]
        \/ b = "given" /\ i \in 1..Len(L["done"]) /\ L2[b][i] = L["done"][i]
  <2> TAKE b \in List
  <2>1. CASE b = "done"
    <3>1. Len(L2[b]) = 0
      BY <1>1, <2>1
    <3> QED BY <3>1
  <2> QED BY <1>1, <2>1 DEF List
<1>3. "queue" \in List /\ "done" \in List /\ "given" \in List
  BY DEF List
<1>4. ASSUME NEW b \in List, NEW c \in List, NEW i \in 1..Len(L2[b]), NEW j \in 1..Len(L2[c]),
             L2[b][i] = L2[c][j]
      PROVE  b = c /\ i = j
  <2> DEFINE x == IF b = "given" THEN "done" ELSE b
             y == IF c = "given" THEN "done" ELSE c
  <2>1. /\ x \in List /\ i \in 1..Len(L[x]) /\ L2[b][i] = L[x][i]
        /\ y \in List /\ j \in 1..Len(L[y]) /\ L2[c][j] = L[y][j]
    BY <1>2, <1>3
  <2>2. b # "done" /\ c # "done"
    BY <1>2
  <2> HIDE DEF x, y
  <2>3. \A d, e \in List : \A m \in 1..Len(L[d]) : \A k \in 1..Len(L[e]) :
          L[d][m] = L[e][k] => d = e /\ m = k
    BY DEF Lists
  <2>4. x = y /\ i = j
    <3>1. L[x][i] = L[y][j]
      BY <1>4, <2>1
    <3>2. \A m \in 1..Len(L[x]) : \A k \in 1..Len(L[y]) : L[x][m] = L[y][k] => x = y /\ m = k
      BY <2>1, <2>3
    <3> QED BY <2>1, <3>1, <3>2
  <2> QED BY <2>2, <2>4 DEF x, y
<1>5. ASSUME NEW b \in List, NEW i \in 1..Len(L2[b])
      PROVE  nx[L2[b][i]] = IF i = Len(L2[b]) THEN NULL ELSE L2[b][i + 1]
  <2>1. CASE b = "queue"
    <3>1. L2[b] = L[b]
      BY <1>1, <2>1
    <3> QED BY <3>1 DEF Lists
  <2>2. CASE b = "given"
    <3>1. L2[b] = L["done"]
      BY <1>1, <2>2
    <3> QED BY <1>3, <3>1 DEF Lists
  <2> QED BY <1>2, <2>1, <2>2
<1>6. Lists(L2, nx)
  BY <1>1, <1>4, <1>5 DEF Lists
<1>7. ASSUME NEW y PROVE On(y, L2) <=> On(y, L)
  <2>1. On(y, L2) => On(y, L)
    BY <1>2, <1>3 DEF On
  <2>2. ASSUME NEW b \in List, NEW i \in 1..Len(L[b]), L[b][i] = y PROVE On(y, L2)
    <3>1. b # "given"
      <4>1. b = "given" => Len(L[b]) = 0
        OBVIOUS
      <4> QED BY <4>1
    <3> QED BY <1>1, <1>3, <2>2, <3>1 DEF On, List
  <2> QED BY <2>1, <2>2 DEF On
<1>8. L2 = Moved(L)
  BY DEF L2, Moved
<1> QED BY <1>1, <1>6, <1>7, <1>8

\* The pointer of a task that is on no list may change.
LEMMA ListsSet ==
  ASSUME NEW L, Lists(L, next), NEW x, ~On(x, L), NEW v,
         next \in [AnyTask -> AnyTask \cup {NULL}]
  PROVE  Lists(L, [next EXCEPT ![x] = v])
<1>1. \A a \in List : \A i \in 1..Len(L[a]) : L[a][i] # x /\ L[a][i] \in AnyTask
  BY ListIs DEF On
<1>2. \A y \in AnyTask : y # x => [next EXCEPT ![x] = v][y] = next[y]
  OBVIOUS
<1> QED BY <1>1, <1>2 DEF Lists

-----------------------------------------------------------------------------
(* Chain finds the sequences.                                              *)

Steps == Cardinality(AnyTask) + 1

\* One step along a list.
Along(d) == IF d.at = NULL THEN d ELSE [at |-> next[d.at], seq |-> Append(d.seq, d.at)]

\* c follows the list that starts with p.
Follows(p, c) ==
  c = [k \in 0..Steps |-> IF k = 0 THEN [at |-> p, seq |-> <<>>] ELSE Along(c[k - 1])]

\* Chain is given by what follows the list.
LEMMA ChainFollows ==
  ASSUME NEW p, NEW g, Follows(p, g)
  PROVE  \E c : Follows(p, c) /\ Chain(p) = c[Steps].seq
<1> DEFINE c == CHOOSE c : Follows(p, c)
<1>1. Follows(p, c)
  OBVIOUS
<1>2. Chain(p) = c[Steps].seq
  BY DEF Chain, Follows, Along, Steps
<1> QED BY <1>1, <1>2

\* There are finitely many tasks, and no list is longer than that.
LEMMA StepsEnough ==
  ASSUME NEW L, Lists(L, next), NEW a \in List
  PROVE  Steps \in Nat /\ Len(L[a]) < Steps
<1>1. IsFiniteSet(AnyTask)
  BY ThreadPoolAssumption, FS_AddElement DEF AnyTask
<1>2. Cardinality(AnyTask) \in Nat
  BY <1>1, FS_CardinalityType
<1>3. L[a] \in Seq(AnyTask) /\ Len(L[a]) \in Nat
      /\ \A i \in 1..Len(L[a]) : L[a][i] \in AnyTask
  BY ListIs
<1> DEFINE n == Len(L[a])
           f == [i \in 1..n |-> L[a][i]]
<1>4. f \in Injection(1..n, AnyTask)
  <2>1. \A i, j \in 1..n : L[a][i] = L[a][j] => i = j
    BY DEF Lists
  <2>2. f \in [1..n -> AnyTask]
    BY <1>3
  <2> QED BY <2>1, <2>2 DEF Injection, IsInjective
<1>5. n \in Nat
  BY <1>3
<1> HIDE DEF n, f
<1>6. Cardinality(1..n) = n
  BY <1>5, FS_Interval
<1>7. Cardinality(1..n) <= Cardinality(AnyTask)
  BY <1>1, <1>4, FS_Injection
<1>8. n < Steps /\ Steps \in Nat
  BY <1>2, <1>5, <1>6, <1>7 DEF Steps
<1> QED BY <1>8 DEF n

\* Chain follows the pointers along a list to its end.
LEMMA ChainIs ==
  ASSUME NEW L, Lists(L, next), NEW a \in List
  PROVE  Chain(First(L[a])) = L[a]
<1> DEFINE s == L[a]
           n == Len(s)
           p == First(s)
           at(k) == IF k < n THEN s[k + 1] ELSE NULL
           upto(k) == SubSeq(s, 1, IF k < n THEN k ELSE n)
           val(k) == [at |-> at(k), seq |-> upto(k)]
           g == [k \in 0..Steps |-> val(k)]
<1>1. /\ s \in Seq(AnyTask) /\ n \in Nat /\ Steps \in Nat /\ n < Steps
      /\ \A i \in 1..n : s[i] \in AnyTask /\ s[i] # NULL
      /\ (s = <<>> <=> n = 0) /\ (s # <<>> => p = s[1]) /\ (s = <<>> => p = NULL)
  BY StepsEnough, ListIs
<1>2. \A i \in 1..n : next[s[i]] = IF i = n THEN NULL ELSE s[i + 1]
  BY DEF Lists
<1> HIDE DEF s, n, p
<1>3. val(0) = [at |-> p, seq |-> <<>>]
  <2>1. upto(0) = <<>>
    BY <1>1 DEF n
  <2>2. at(0) = p
    <3>1. CASE n = 0
      BY <1>1, <3>1
    <3>2. CASE n # 0
      <4>1. 0 < n /\ 0 + 1 = 1
        BY <1>1, <3>2
      <4> QED BY <1>1, <3>2, <4>1
    <3> QED BY <3>1, <3>2
  <2> QED BY <2>1, <2>2
<1>4. ASSUME NEW k \in 1..Steps
      PROVE  val(k) = Along(val(k - 1))
  <2>1. k \in Nat /\ k - 1 \in Nat /\ k >= 1 /\ (k - 1) + 1 = k
    BY <1>1
  <2>2. CASE k - 1 >= n
    <3>1. at(k - 1) = NULL /\ at(k) = NULL /\ upto(k - 1) = upto(k)
      BY <1>1, <2>1, <2>2
    <3> HIDE DEF at, upto
    <3> QED BY <3>1 DEF Along
  <2>3. CASE k - 1 < n
    <3>1. k \in 1..n /\ at(k - 1) = s[k] /\ s[k] # NULL /\ s[k] \in AnyTask
      <4>1. k \in 1..n
        BY <1>1, <2>1, <2>3
      <4>2. at(k - 1) = s[k]
        BY <2>1, <2>3
      <4> QED BY <1>1, <4>1, <4>2
    <3>2. at(k) = next[s[k]]
      BY <1>1, <1>2, <2>1, <3>1
    <3>3. upto(k) = Append(upto(k - 1), s[k])
      <4>1. upto(k) = SubSeq(s, 1, k) /\ upto(k - 1) = SubSeq(s, 1, k - 1)
        BY <1>1, <2>1, <2>3, <3>1
      <4>2. SubSeq(s, 1, k) = Append(SubSeq(s, 1, k - 1), s[k])
        <5> DEFINE A == SubSeq(s, 1, k)
                   C == SubSeq(s, 1, k - 1)
                   B == Append(C, s[k])
        <5>1. /\ A \in Seq(AnyTask) /\ Len(A) = k /\ \A i \in 1..k : A[i] = s[i]
              /\ C \in Seq(AnyTask) /\ Len(C) = k - 1 /\ \A i \in 1..(k - 1) : C[i] = s[i]
          BY <1>1, <2>1, <3>1 DEF n
        <5> HIDE DEF A, C
        <5>2. /\ B \in Seq(AnyTask) /\ Len(B) = k /\ B[k] = s[k]
              /\ \A i \in 1..(k - 1) : B[i] = s[i]
          BY <2>1, <3>1, <5>1
        <5> HIDE DEF B
        <5>3. \A i \in 1..k : A[i] = B[i]
          <6>1. \A i \in 1..k : i = k \/ i \in 1..(k - 1)
            BY <2>1
          <6> QED BY <5>1, <5>2, <6>1
        <5>4. A = B
          BY <5>1, <5>2, <5>3
        <5> QED BY <5>4 DEF A, B, C
      <4> QED BY <4>1, <4>2
    <3> HIDE DEF at, upto
    <3> QED BY <3>1, <3>2, <3>3 DEF Along
  <2> QED BY <1>1, <2>1, <2>2, <2>3
<1> HIDE DEF val
<1>5. Follows(p, g)
  <2>1. ASSUME NEW k \in 0..Steps
        PROVE  g[k] = IF k = 0 THEN [at |-> p, seq |-> <<>>] ELSE Along(g[k - 1])
    <3>1. CASE k = 0
      BY <1>3, <3>1
    <3>2. CASE k # 0
      <4>1. k \in 1..Steps /\ k - 1 \in 0..Steps
        BY <1>1, <3>2
      <4> QED BY <1>4, <3>2, <4>1
    <3> QED BY <3>1, <3>2
  <2>2. g = [k \in 0..Steps |-> g[k]]
    OBVIOUS
  <2> HIDE DEF g
  <2> QED BY <2>1, <2>2 DEF Follows
<1>6. PICK c : Follows(p, c) /\ Chain(p) = c[Steps].seq
  BY <1>5, ChainFollows
<1> DEFINE Bad == {k \in 0..Steps : c[k] # val(k)}
<1>7. Bad = {}
  <2> SUFFICES ASSUME Bad # {} PROVE FALSE
    OBVIOUS
  <2>1. Bad \in SUBSET Nat
    BY <1>1
  <2>2. PICK m \in Bad : \A k \in Bad : m <= k
    BY <2>1, LeastNat
  <2>3. m \in 0..Steps /\ c[m] # val(m)
    BY <2>2
  <2>4. m # 0
    BY <1>3, <1>6, <2>3 DEF Follows
  <2>5. m \in 1..Steps /\ m - 1 \in 0..Steps /\ ~(m <= m - 1)
    BY <1>1, <2>3, <2>4
  <2>6. c[m - 1] = val(m - 1)
    BY <2>2, <2>5
  <2>7. c[m] = Along(c[m - 1])
    BY <1>6, <2>4, <2>5 DEF Follows
  <2> QED BY <1>4, <2>3, <2>5, <2>6, <2>7
<1>8. c[Steps] = val(Steps) /\ Steps \in 0..Steps
  BY <1>1, <1>7
<1>9. val(Steps).seq = s
  <2>1. upto(Steps) = SubSeq(s, 1, n)
    BY <1>1
  <2>2. SubSeq(s, 1, n) = s
    BY <1>1 DEF n
  <2> QED BY <2>1, <2>2 DEF val
<1> QED BY <1>6, <1>8, <1>9 DEF p, s

-----------------------------------------------------------------------------
(* The steps of the threads.                                               *)

\* The threads but t stay as they are.
LEMMA MoveIs ==
  ASSUME ThreadPoolType, NEW t \in Thread, NEW pc \in ThreadPc,
         NEW task \in AnyTask \cup {NULL}, Move(t, pc, task)
  PROVE  /\ th' \in [Thread -> ThreadType] /\ th'[t].pc = pc /\ th'[t].task = task
         /\ \A u \in Thread : u # t => th'[u] = th[u]
BY DEF ThreadPoolType, Move, ThreadType

\* The sets of threads are finite.
LEMMA ThreadsFinite ==
  /\ IsFiniteSet(Ready) /\ IsFiniteSet(Exited)
  /\ Cardinality(Ready) \in Nat /\ Cardinality(Exited) \in Nat
<1>1. Ready \subseteq Thread /\ Exited \subseteq Thread
  BY DEF Ready, Exited
<1> QED BY <1>1, ThreadPoolAssumption, FS_Subset, FS_CardinalityType

\* How the sets of threads change when t moves on.
LEMMA MoveCounts ==
  ASSUME NEW t \in Thread, \A u \in Thread : u # t => th'[u] = th[u]
  PROVE  /\ t \in Ready /\ t \notin Ready' => Cardinality(Ready') = Cardinality(Ready) - 1
         /\ t \notin Ready /\ t \in Ready' => Cardinality(Ready') = Cardinality(Ready) + 1
         /\ (t \in Ready <=> t \in Ready') => Ready' = Ready
         /\ t \notin Exited /\ t \in Exited' => Cardinality(Exited') = Cardinality(Exited) + 1
         /\ (t \in Exited <=> t \in Exited') => Exited' = Exited
<1>1. /\ \A u \in Thread : u # t => (u \in Ready <=> u \in Ready') /\ (u \in Exited <=> u \in Exited')
      /\ Ready \subseteq Thread /\ Ready' \subseteq Thread
      /\ Exited \subseteq Thread /\ Exited' \subseteq Thread
  BY DEF Ready, Exited
<1>2. /\ t \in Ready /\ t \notin Ready' => Ready' = Ready \ {t}
      /\ t \notin Ready /\ t \in Ready' => Ready' = Ready \cup {t}
      /\ t \notin Exited /\ t \in Exited' => Exited' = Exited \cup {t}
      /\ (t \in Ready <=> t \in Ready') => Ready' = Ready
      /\ (t \in Exited <=> t \in Exited') => Exited' = Exited
  BY <1>1
<1>3. /\ t \in Ready => Cardinality(Ready \ {t}) = Cardinality(Ready) - 1
      /\ t \notin Ready => Cardinality(Ready \cup {t}) = Cardinality(Ready) + 1
      /\ t \notin Exited => Cardinality(Exited \cup {t}) = Cardinality(Exited) + 1
  BY ThreadsFinite, FS_AddElement, FS_RemoveElement
<1> QED BY <1>2, <1>3

\* A step that leaves the tasks where they are.
LEMMA StaysInv ==
  ASSUME ThreadPoolType, NEW L, PoolInv(L), UNCHANGED <<q, done, next, aio, main>>,
         th' \in [Thread -> ThreadType], Exited' = Exited,
         \A t \in Thread : th'[t].task = th[t].task /\ (th'[t].pc \in Holds <=> th[t].pc \in Holds),
         waiting' \in Int, waiting' <= MaxQueue,
         waiting' = Len(L["queue"]) - Cardinality(Ready')
  PROVE  ThreadPoolType' /\ PoolInv(L)'
<1>1. ThreadPoolType'
  BY DEF ThreadPoolType
<1>2. Placed(L)'
  BY DEF PoolInv, Placed
<1>3. \A x : Run(x)' <=> Run(x)
  BY DEF Run
<1>4. Owned(L)'
  <2>1. \A x : Busy(x, L)' <=> Busy(x, L)
    BY <1>3 DEF Busy, On
  <2>2. \A t \in Thread : th'[t].task # NULL => ~On(th'[t].task, L)
    BY DEF PoolInv, Owned
  <2>3. \A x : On(x, L)' <=> On(x, L)
    BY DEF On
  <2> QED BY <2>1, <2>2, <2>3 DEF PoolInv, Owned
<1>5. Waits(L)' /\ Leaving(L)'
  BY DEF PoolInv, Waits, Leaving, End
<1> QED BY <1>1, <1>2, <1>4, <1>5 DEF PoolInv

\* A thread that takes no task and gives none away.
LEMMA RestInv ==
  ASSUME ThreadPoolType, NEW L, PoolInv(L), UNCHANGED <<q, done, next, aio, main>>,
         NEW t \in Thread, th[t].pc \in ThreadPc \ {"run", "lost", "exited"},
         NEW pc \in ThreadPc \ {"run", "lost", "exited"}, Move(t, pc, NULL),
         \/ waiting' = waiting /\ (t \in Ready <=> pc \in {"waiting", "woken", "failed"})
         \/ waiting' = waiting - 1 /\ t \notin Ready /\ pc \in {"waiting", "woken", "failed"}
  PROVE  ThreadPoolType' /\ PoolInv(L)'
<1>1. /\ th' \in [Thread -> ThreadType] /\ th'[t].pc = pc /\ th'[t].task = NULL
      /\ \A u \in Thread : u # t => th'[u] = th[u]
  BY MoveIs
<1>2. th[t].task = NULL
  BY DEF ThreadPoolType, Holds
<1>3. \A u \in Thread : th'[u].task = th[u].task /\ (th'[u].pc \in Holds <=> th[u].pc \in Holds)
  BY <1>1, <1>2 DEF Holds
<1>4. t \in Ready' <=> pc \in {"waiting", "woken", "failed"}
  BY <1>1 DEF Ready
<1>5. t \notin Exited /\ t \notin Exited'
  BY <1>1 DEF Exited
<1>6. Exited' = Exited
  BY <1>1, <1>5, MoveCounts
<1>7. /\ waiting \in Int /\ waiting <= MaxQueue /\ MaxQueue \in Nat
      /\ waiting = Len(L["queue"]) - Cardinality(Ready)
      /\ Len(L["queue"]) \in Nat /\ Cardinality(Ready) \in Nat
  <2>1. Len(L["queue"]) \in Nat
    BY ListIs DEF PoolInv, Placed, List
  <2> QED BY <2>1, ThreadsFinite, ThreadPoolAssumption DEF ThreadPoolType, PoolInv, Waits
<1>8. /\ waiting' \in Int /\ waiting' <= MaxQueue
      /\ waiting' = Len(L["queue"]) - Cardinality(Ready')
  <2>1. CASE waiting' = waiting /\ (t \in Ready <=> pc \in {"waiting", "woken", "failed"})
    <3>1. Ready' = Ready
      BY <1>1, <1>4, <2>1, MoveCounts
    <3> QED BY <1>7, <2>1, <3>1
  <2>2. CASE waiting' = waiting - 1 /\ t \notin Ready /\ pc \in {"waiting", "woken", "failed"}
    <3>1. Cardinality(Ready') = Cardinality(Ready) + 1
      BY <1>1, <1>4, <2>2, MoveCounts
    <3> QED BY <1>7, <2>2, <3>1
  <2> QED BY <2>1, <2>2
<1> QED BY <1>1, <1>3, <1>6, <1>8, StaysInv

\* A thread takes the first task of the queue, to run it or to end with it.
LEMMA TakeInv ==
  ASSUME ThreadPoolType, NEW L, PoolInv(L), UNCHANGED <<done, next, aio, main>>,
         NEW t \in Thread, th[t].pc \in {"top", "woken"},
         NEW pc \in Holds, q.first # NULL, q' = Pop(q), Move(t, pc, q.first),
         waiting' = IF th[t].pc = "top" THEN waiting - 1 ELSE waiting
  PROVE  ThreadPoolType' /\ \E M : PoolInv(M)'
<1>1. PICK x : x = q.first
  OBVIOUS
<1>2. Lists(L, next) /\ "queue" \in List /\ q = Ends(L["queue"]) /\ x = First(L["queue"])
  BY <1>1 DEF PoolInv, Placed, List, Ends
<1>3. L["queue"] # <<>>
  BY <1>1, <1>2 DEF First
<1> DEFINE Lq == [L EXCEPT !["queue"] = Tail(L["queue"])]
<1>4. /\ Lists(Lq, next) /\ Ends(Tail(L["queue"])) = Pop(q)
      /\ Len(Tail(L["queue"])) = Len(L["queue"]) - 1
      /\ x \in AnyTask /\ x # NULL /\ On(x, L)
      /\ End(Tail(L["queue"])) \in {NULL, End(L["queue"])}
      /\ \A y : On(y, Lq) <=> On(y, L) /\ y # x
  <2> DEFINE s == L["queue"]
  <2>1. /\ Lists(Lq, next) /\ Ends(Tail(s)) = Pop(Ends(s)) /\ Len(Tail(s)) = Len(s) - 1
        /\ First(s) \in AnyTask /\ First(s) # NULL /\ On(First(s), L)
        /\ End(Tail(s)) \in {NULL, End(s)}
        /\ \A y : On(y, Lq) <=> On(y, L) /\ y # First(s)
    BY <1>2, <1>3, ListsPop
  <2> HIDE DEF Lq
  <2>2. Pop(q) = Pop(Ends(s))
    BY <1>2
  <2> QED BY <1>2, <2>1, <2>2
<1>5. /\ Lq["queue"] = Tail(L["queue"]) /\ Lq["done"] = L["done"] /\ Lq["given"] = L["given"]
  BY <1>2 DEF Lists, List
<1>6. PICK M : M = Lq
  OBVIOUS
<1>7. /\ Lists(M, next) /\ Ends(M["queue"]) = Pop(q) /\ Len(M["queue"]) = Len(L["queue"]) - 1
      /\ End(M["queue"]) \in {NULL, End(L["queue"])}
      /\ M["done"] = L["done"] /\ M["given"] = L["given"]
      /\ \A y : On(y, M) <=> On(y, L) /\ y # x
  BY <1>4, <1>5, <1>6
<1> HIDE DEF Lq
<1>8. /\ th' \in [Thread -> ThreadType] /\ th'[t].pc = pc /\ th'[t].task = x
      /\ \A u \in Thread : u # t => th'[u] = th[u]
  <2>1. pc \in ThreadPc
    BY DEF ThreadPc, Holds
  <2> QED BY <1>1, <1>4, <2>1, MoveIs
<1>9. th[t].task = NULL
  BY DEF ThreadPoolType, Holds
<1>10. ThreadPoolType'
  <2>1. waiting' \in Int
    BY DEF ThreadPoolType
  <2> QED BY <1>4, <1>8, <2>1 DEF ThreadPoolType
<1>11. Placed(M)'
  BY <1>7 DEF PoolInv, Placed
<1>12. \A u \in Thread : th[u].task # x
  BY <1>4 DEF PoolInv, Owned
<1>13. \A y \in AnyTask : Busy(y, M)' <=> Busy(y, L)
  <2> TAKE y \in AnyTask
  <2>1. y # NULL
    BY ThreadPoolAssumption
  <2>2. Run(y)' <=> Run(y) \/ y = x
    BY <1>8, <1>9, <2>1 DEF Run
  <2>3. On(y, M)' <=> On(y, M)
    BY DEF On
  <2> QED BY <1>4, <1>7, <2>2, <2>3 DEF Busy
<1>14. Owned(M)'
  <2>1. \A u \in Thread : th'[u].task # NULL => ~On(th'[u].task, M)
    BY <1>7, <1>8 DEF PoolInv, Owned
  <2>2. \A u, v \in Thread : u # v /\ th'[u].task = th'[v].task => th'[u].task = NULL
    BY <1>8, <1>12 DEF PoolInv, Owned
  <2>3. \A y : On(y, M)' <=> On(y, M)
    BY DEF On
  <2>4. \A y \in Task : aio'[y] <=> Busy(y, M)'
    BY <1>13 DEF PoolInv, Owned, AnyTask
  <2>5. Busy(ExitTask, M)' <=> main'.pc = "spin" /\ main'.lock = 1
    BY <1>13 DEF PoolInv, Owned, AnyTask
  <2> QED BY <2>1, <2>2, <2>3, <2>4, <2>5 DEF Owned
<1>15. Waits(M)'
  <2>1. /\ waiting \in Int /\ waiting <= MaxQueue /\ MaxQueue \in Nat
        /\ waiting = Len(L["queue"]) - Cardinality(Ready)
        /\ Len(L["queue"]) \in Nat /\ Cardinality(Ready) \in Nat
    <3>1. Len(L["queue"]) \in Nat
      BY <1>2, ListIs
    <3> QED BY <3>1, ThreadsFinite, ThreadPoolAssumption DEF ThreadPoolType, PoolInv, Waits
  <2>2. t \notin Ready'
    BY <1>8 DEF Ready, Holds
  <2>3. CASE th[t].pc = "top"
    <3>1. t \notin Ready
      BY <2>3 DEF Ready
    <3>2. Ready' = Ready
      BY <1>8, <2>2, <3>1, MoveCounts
    <3> QED BY <1>7, <2>1, <2>3, <3>2 DEF Waits
  <2>4. CASE th[t].pc = "woken"
    <3>1. t \in Ready
      BY <2>4 DEF Ready
    <3>2. Cardinality(Ready') = Cardinality(Ready) - 1
      BY <1>8, <2>2, <3>1, MoveCounts
    <3> QED BY <1>7, <2>1, <2>4, <3>2 DEF Waits
  <2> QED BY <2>3, <2>4
<1>16. Leaving(M)'
  <2>1. t \notin Exited /\ t \notin Exited'
    BY <1>8 DEF Exited, Holds
  <2>2. Exited' = Exited
    BY <1>8, <2>1, MoveCounts
  <2>3. main.pc # "destroyed"
    BY <1>3 DEF PoolInv, Leaving
  <2> QED BY <1>7, <2>2, <2>3 DEF PoolInv, Leaving
<1>17. PoolInv(M)'
  BY <1>11, <1>14, <1>15, <1>16 DEF PoolInv
<1> QED BY <1>10, <1>17

\* A thread has run its task, and puts it on the list of finished ones.
LEMMA FinishInv ==
  ASSUME ThreadPoolType, NEW L, PoolInv(L), NEW t \in Thread, Finish(t)
  PROVE  ThreadPoolType' /\ \E M : PoolInv(M)'
<1>1. PICK x : x = th[t].task
  OBVIOUS
<1>2. /\ th[t].pc = "run" /\ x # ExitTask /\ done' = Push(done, x) /\ next' = Link(done, x)
      /\ Move(t, "notify", NULL) /\ UNCHANGED <<q, aio, waiting, main>>
  BY <1>1 DEF Finish
<1>3. x \in AnyTask /\ x # NULL /\ ~On(x, L)
  BY <1>1, <1>2 DEF ThreadPoolType, ThreadType, PoolInv, Owned, Holds
<1>4. Lists(L, next) /\ "done" \in List /\ done = Ends(L["done"])
  BY DEF PoolInv, Placed, List
<1>5. next' = Linked(End(L["done"]), x, next)
  BY <1>2, <1>4 DEF Link, Linked, Ends
<1>6. PICK M : M = Extended(L, "done", x)
  OBVIOUS
<1>7. /\ Lists(M, next') /\ Ends(M["done"]) = Push(Ends(L["done"]), x)
      /\ \A b \in List : b # "done" => M[b] = L[b]
      /\ \A y : On(y, M) <=> On(y, L) \/ y = x
  <2>1. PICK nx : nx = next
    OBVIOUS
  <2>2. /\ Lists(M, Linked(End(L["done"]), x, nx)) /\ Ends(M["done"]) = Push(Ends(L["done"]), x)
        /\ \A b \in List : b # "done" => M[b] = L[b]
        /\ \A y : On(y, M) <=> On(y, L) \/ y = x
    BY <1>3, <1>4, <1>6, <2>1, ListsPush
  <2> QED BY <1>5, <2>1, <2>2
<1>8. /\ Lists(M, next') /\ Ends(M["done"]) = Push(done, x)
      /\ M["queue"] = L["queue"] /\ M["given"] = L["given"]
      /\ \A y : On(y, M) <=> On(y, L) \/ y = x
  BY <1>4, <1>7 DEF List
<1>9. /\ th' \in [Thread -> ThreadType] /\ th'[t].pc = "notify" /\ th'[t].task = NULL
      /\ \A u \in Thread : u # t => th'[u] = th[u]
  <2>1. "notify" \in ThreadPc
    BY DEF ThreadPc
  <2> QED BY <1>2, <2>1, MoveIs
<1>10. ThreadPoolType'
  <2>1. next' \in [AnyTask -> AnyTask \cup {NULL}]
    BY <1>2, <1>3 DEF Link, ThreadPoolType
  <2> QED BY <1>2, <1>9, <2>1 DEF ThreadPoolType, Holds
<1>11. Placed(M)'
  BY <1>2, <1>8 DEF PoolInv, Placed
<1>12. \A u \in Thread : u # t => th[u].task # x
  BY <1>1, <1>3 DEF PoolInv, Owned
<1>13. \A y \in AnyTask : Busy(y, M)' <=> Busy(y, L)
  <2> TAKE y \in AnyTask
  <2>1. y # NULL
    BY ThreadPoolAssumption
  <2>2. Run(y)' <=> Run(y) /\ y # x
    BY <1>1, <1>9, <1>12, <2>1 DEF Run
  <2>3. On(y, M)' <=> On(y, M)
    BY DEF On
  <2>4. Run(x)
    BY <1>1 DEF Run
  <2> QED BY <1>8, <2>2, <2>3, <2>4 DEF Busy
<1>14. Owned(M)'
  <2>1. \A u \in Thread : th'[u].task # NULL => ~On(th'[u].task, M)
    BY <1>8, <1>9, <1>12 DEF PoolInv, Owned
  <2>2. \A u, v \in Thread : u # v /\ th'[u].task = th'[v].task => th'[u].task = NULL
    BY <1>9 DEF PoolInv, Owned
  <2>3. \A y : On(y, M)' <=> On(y, M)
    BY DEF On
  <2>4. \A y \in Task : aio'[y] <=> Busy(y, M)'
    BY <1>2, <1>13 DEF PoolInv, Owned, AnyTask
  <2>5. Busy(ExitTask, M)' <=> main'.pc = "spin" /\ main'.lock = 1
    BY <1>2, <1>13 DEF PoolInv, Owned, AnyTask
  <2> QED BY <2>1, <2>2, <2>3, <2>4, <2>5 DEF Owned
<1>15. Waits(M)' /\ Leaving(M)'
  <2>1. t \notin Ready /\ t \notin Ready' /\ t \notin Exited /\ t \notin Exited'
    BY <1>2, <1>9 DEF Ready, Exited
  <2>2. Ready' = Ready /\ Exited' = Exited
    BY <1>9, <2>1, MoveCounts
  <2> QED BY <1>2, <1>8, <2>2 DEF PoolInv, Waits, Leaving
<1>16. PoolInv(M)'
  BY <1>11, <1>14, <1>15 DEF PoolInv
<1> QED BY <1>10, <1>16

\* A thread runs the exit task, and ends.
LEMMA ExitInv ==
  ASSUME ThreadPoolType, NEW L, PoolInv(L), NEW t \in Thread, ExitHandler(t)
  PROVE  ThreadPoolType' /\ PoolInv(L)'
<1>1. /\ th[t].pc = "run" /\ th[t].task = ExitTask /\ Move(t, "exited", NULL)
      /\ main' = [main EXCEPT !.lock = 0] /\ UNCHANGED <<q, done, next, aio, waiting>>
  BY DEF ExitHandler
<1>2. /\ th' \in [Thread -> ThreadType] /\ th'[t].pc = "exited" /\ th'[t].task = NULL
      /\ \A u \in Thread : u # t => th'[u] = th[u]
  <2>1. "exited" \in ThreadPc
    BY DEF ThreadPc
  <2> QED BY <1>1, <2>1, MoveIs
<1>3. ExitTask # NULL /\ ExitTask \notin Task /\ NULL \notin AnyTask
  BY ThreadPoolAssumption DEF AnyTask
<1>4. main.pc = "spin" /\ main.lock = 1
  <2>1. Busy(ExitTask, L)
    BY <1>1 DEF Busy, Run
  <2> QED BY <2>1 DEF PoolInv, Owned
<1>5. /\ main' \in MainType /\ main'.pc = "spin" /\ main'.lock = 0
      /\ main'.n = main.n /\ main'.task = main.task
  BY <1>1, <1>4 DEF ThreadPoolType, MainType
<1>6. ThreadPoolType'
  BY <1>1, <1>2, <1>5 DEF ThreadPoolType, Holds
<1>7. Placed(L)'
  BY <1>1, <1>4, <1>5 DEF PoolInv, Placed
<1>8. ~On(ExitTask, L) /\ \A u \in Thread : u # t => th[u].task # ExitTask
  BY <1>1, <1>3 DEF PoolInv, Owned
<1>9. Owned(L)'
  <2>1. \A u \in Thread : th'[u].task # NULL => ~On(th'[u].task, L)
    BY <1>2 DEF PoolInv, Owned
  <2>2. \A u, v \in Thread : u # v /\ th'[u].task = th'[v].task => th'[u].task = NULL
    BY <1>2 DEF PoolInv, Owned
  <2>3. \A y : On(y, L)' <=> On(y, L)
    BY DEF On
  <2>4. \A y \in Task : Run(y)' <=> Run(y)
    BY <1>1, <1>2, <1>3 DEF Run, AnyTask
  <2>5. \A y \in Task : aio'[y] <=> Busy(y, L)'
    BY <1>1, <2>3, <2>4 DEF PoolInv, Owned, Busy
  <2>6. ~Busy(ExitTask, L)'
    BY <1>2, <1>3, <1>8, <2>3 DEF Busy, Run
  <2> QED BY <1>5, <2>1, <2>2, <2>3, <2>5, <2>6 DEF Owned
<1>10. t \notin Ready /\ t \notin Ready' /\ t \notin Exited /\ t \in Exited'
  BY <1>1, <1>2 DEF Ready, Exited
<1>11. Ready' = Ready /\ Cardinality(Exited') = Cardinality(Exited) + 1
  BY <1>2, <1>10, MoveCounts
<1>12. Waits(L)'
  BY <1>1, <1>11 DEF PoolInv, Waits
<1>13. Leaving(L)'
  <2>1. main.n \in Nat
    BY DEF ThreadPoolType, MainType
  <2>2. Cardinality(Exited) = main.n
    BY <1>4, <2>1 DEF PoolInv, Leaving
  <2>3. End(L["queue"])' = End(L["queue"])
    OBVIOUS
  <2> QED BY <1>4, <1>5, <1>11, <2>1, <2>2, <2>3 DEF PoolInv, Leaving
<1> QED BY <1>6, <1>7, <1>9, <1>12, <1>13 DEF PoolInv

\* What a thread of the pool does.
LEMMA ThreadInv ==
  ASSUME ThreadPoolType, NEW L, PoolInv(L), NEW t \in Thread, Cycle(t) \/ SpuriousWakeup(t)
  PROVE  ThreadPoolType' /\ \E M : PoolInv(M)'
<1> USE DEF ThreadPc
<1>1. CASE Fetch(t) /\ \E pc \in {"waiting", "failed"} : Move(t, pc, NULL) /\ UNCHANGED q
                    /\ waiting' = waiting - 1
  <2>1. PICK pc \in {"waiting", "failed"} : Move(t, pc, NULL)
    BY <1>1
  <2>2. t \notin Ready /\ waiting' = waiting - 1 /\ th[t].pc = "top"
    BY <1>1 DEF Fetch, Ready
  <2>3. UNCHANGED <<q, done, next, aio, main>>
    BY <1>1 DEF Fetch
  <2>4. ThreadPoolType' /\ PoolInv(L)'
    BY <2>1, <2>2, <2>3, RestInv
  <2> QED BY <2>4
<1>2. CASE Fetch(t) /\ Move(t, "left", NULL) /\ UNCHANGED <<q, waiting>>
  <2>1. /\ t \notin Ready /\ waiting' = waiting /\ th[t].pc = "top"
        /\ Move(t, "left", NULL) /\ UNCHANGED <<q, done, next, aio, main>>
    BY <1>2 DEF Fetch, Ready
  <2>2. ThreadPoolType' /\ PoolInv(L)'
    BY <2>1, RestInv
  <2> QED BY <2>2
<1>3. CASE WaitReturns(t) /\ \E pc \in {"waiting", "failed"} : Move(t, pc, NULL) /\ UNCHANGED q
  <2>1. PICK pc \in {"waiting", "failed"} : Move(t, pc, NULL)
    BY <1>3
  <2>2. t \in Ready /\ waiting' = waiting /\ th[t].pc = "woken"
    BY <1>3 DEF WaitReturns, Ready
  <2>3. UNCHANGED <<q, done, next, aio, main>>
    BY <1>3 DEF WaitReturns
  <2>4. ThreadPoolType' /\ PoolInv(L)'
    BY <2>1, <2>2, <2>3, RestInv
  <2> QED BY <2>4
<1>4. CASE /\ Fetch(t) \/ WaitReturns(t)
           /\ \E pc \in Holds : q.first # NULL /\ q' = Pop(q) /\ Move(t, pc, q.first)
           /\ waiting' = IF th[t].pc = "top" THEN waiting - 1 ELSE waiting
  <2>1. PICK pc \in Holds : q.first # NULL /\ q' = Pop(q) /\ Move(t, pc, q.first)
    BY <1>4
  <2>2. th[t].pc \in {"top", "woken"} /\ UNCHANGED <<done, next, aio, main>>
    BY <1>4 DEF Fetch, WaitReturns
  <2> QED BY <1>4, <2>1, <2>2, TakeInv
<1>5. CASE SpuriousWakeup(t)
  <2>1. /\ th[t].pc = "waiting" /\ Move(t, "woken", NULL) /\ t \in Ready /\ waiting' = waiting
        /\ UNCHANGED <<q, done, next, aio, main>>
    BY <1>5 DEF SpuriousWakeup, Ready
  <2>2. ThreadPoolType' /\ PoolInv(L)'
    BY <2>1, RestInv
  <2> QED BY <2>2
<1>6. CASE Notify(t)
  <2>1. /\ th[t].pc = "notify" /\ Move(t, "top", NULL) /\ t \notin Ready /\ waiting' = waiting
        /\ UNCHANGED <<q, done, next, aio, main>>
    BY <1>6 DEF Notify, Ready
  <2>2. ThreadPoolType' /\ PoolInv(L)'
    BY <2>1, RestInv
  <2> QED BY <2>2
<1>7. CASE Finish(t)
  BY <1>7, FinishInv
<1>8. CASE ExitHandler(t)
  BY <1>8, ExitInv
<1>9. CASE Fetch(t)
  BY <1>1, <1>2, <1>4, <1>9 DEF Fetch, Proceed, WaitFails, Holds
<1>10. CASE WaitReturns(t)
  BY <1>3, <1>4, <1>10 DEF WaitReturns, Proceed, WaitFails, Holds
<1> QED BY <1>5, <1>6, <1>7, <1>8, <1>9, <1>10 DEF Cycle

-----------------------------------------------------------------------------
(* The steps of the event loop.                                            *)

\* A signal moves no task.
LEMMA SignalIs ==
  ASSUME ThreadPoolType, Signal
  PROVE  /\ th' \in [Thread -> ThreadType] /\ Ready' = Ready /\ Exited' = Exited
         /\ \A t \in Thread : th'[t].task = th[t].task /\ (th'[t].pc \in Holds <=> th[t].pc \in Holds)
<1>1. CASE UNCHANGED th
  BY <1>1 DEF ThreadPoolType, Ready, Exited
<1>2. CASE \E t \in {u \in Thread : th[u].pc = "waiting"} : Move(t, "woken", NULL)
  <2>1. PICK t \in Thread : th[t].pc = "waiting" /\ Move(t, "woken", NULL)
    BY <1>2
  <2>2. "woken" \in ThreadPc
    BY DEF ThreadPc
  <2>3. /\ th' \in [Thread -> ThreadType] /\ th'[t].pc = "woken" /\ th'[t].task = NULL
        /\ \A u \in Thread : u # t => th'[u] = th[u]
    BY <2>1, <2>2, MoveIs
  <2>4. th[t].task = NULL
    BY <2>1 DEF ThreadPoolType, Holds
  <2>5. t \in Ready /\ t \in Ready' /\ t \notin Exited /\ t \notin Exited'
    BY <2>1, <2>3 DEF Ready, Exited
  <2>6. Ready' = Ready /\ Exited' = Exited
    BY <2>3, <2>5, MoveCounts
  <2> QED BY <2>1, <2>3, <2>4, <2>6 DEF Holds
<1> QED BY <1>1, <1>2 DEF Signal

\* What posting the task x, which is nowhere, does to the lists.
LEMMA QueuedIs ==
  ASSUME ThreadPoolType, NEW L, PoolInv(L), NEW x \in AnyTask, ~Busy(x, L),
         Queued(x), waiting < MaxQueue
  PROVE  \E M : /\ Lists(M, next') /\ q' = Ends(M["queue"]) /\ End(M["queue"]) = x
                /\ M["done"] = L["done"] /\ M["given"] = L["given"] /\ Waits(M)'
                /\ next' \in [AnyTask -> AnyTask \cup {NULL}] /\ waiting' \in Int
                /\ th' \in [Thread -> ThreadType] /\ Exited' = Exited
                /\ \A t \in Thread : th'[t].pc \in Holds <=> th'[t].task # NULL
                /\ \A t \in Thread : th'[t].task # NULL => ~On(th'[t].task, M)
                /\ \A t, u \in Thread : t # u /\ th'[t].task = th'[u].task => th'[t].task = NULL
                /\ \A y : Busy(y, M)' <=> Busy(y, L) \/ y = x
<1>1. /\ q' = Push(q, x) /\ next' = Link(q, x) /\ waiting' = waiting + 1 /\ Signal
  BY DEF Queued
<1>2. /\ th' \in [Thread -> ThreadType] /\ Ready' = Ready /\ Exited' = Exited
      /\ \A t \in Thread : th'[t].task = th[t].task /\ (th'[t].pc \in Holds <=> th[t].pc \in Holds)
  BY <1>1, SignalIs
<1>3. Lists(L, next) /\ "queue" \in List /\ q = Ends(L["queue"])
  BY DEF PoolInv, Placed, List
<1>4. next' = Linked(End(L["queue"]), x, next)
  BY <1>1, <1>3 DEF Link, Linked, Ends
<1>5. ~On(x, L) /\ ~Run(x)
  BY DEF Busy
<1>6. PICK M : M = Extended(L, "queue", x)
  OBVIOUS
<1>7. /\ Lists(M, next') /\ Ends(M["queue"]) = Push(Ends(L["queue"]), x)
      /\ Len(M["queue"]) = Len(L["queue"]) + 1 /\ End(M["queue"]) = x
      /\ \A b \in List : b # "queue" => M[b] = L[b]
      /\ \A y : On(y, M) <=> On(y, L) \/ y = x
  <2>1. PICK nx : nx = next
    OBVIOUS
  <2>2. /\ Lists(M, Linked(End(L["queue"]), x, nx)) /\ Ends(M["queue"]) = Push(Ends(L["queue"]), x)
        /\ Len(M["queue"]) = Len(L["queue"]) + 1 /\ End(M["queue"]) = x
        /\ \A b \in List : b # "queue" => M[b] = L[b]
        /\ \A y : On(y, M) <=> On(y, L) \/ y = x
    BY <1>3, <1>5, <1>6, <2>1, ListsPush
  <2> QED BY <1>4, <2>1, <2>2
<1>8. q' = Ends(M["queue"]) /\ M["done"] = L["done"] /\ M["given"] = L["given"]
  BY <1>1, <1>3, <1>7 DEF List
<1>9. next' \in [AnyTask -> AnyTask \cup {NULL}]
  BY <1>1 DEF Link, ThreadPoolType
<1>10. waiting' \in Int /\ Waits(M)'
  <2>1. Len(L["queue"]) \in Nat
    BY <1>3, ListIs
  <2>2. waiting \in Int /\ waiting = Len(L["queue"]) - Cardinality(Ready)
    BY DEF ThreadPoolType, PoolInv, Waits
  <2>3. MaxQueue \in Nat /\ Cardinality(Ready) \in Nat
    BY ThreadsFinite, ThreadPoolAssumption
  <2> QED BY <1>1, <1>2, <1>7, <2>1, <2>2, <2>3 DEF Waits
<1>11. \A y : On(y, M)' <=> On(y, M)
  BY DEF On
<1>12. \A y : Run(y)' <=> Run(y)
  BY <1>2 DEF Run
<1>13. \A y : Busy(y, M)' <=> Busy(y, L) \/ y = x
  BY <1>7, <1>11, <1>12 DEF Busy
<1>14. \A t \in Thread : th'[t].task # NULL => ~On(th'[t].task, M)
  BY <1>2, <1>5, <1>7 DEF PoolInv, Owned, Run
<1>15. /\ \A t, u \in Thread : t # u /\ th'[t].task = th'[u].task => th'[t].task = NULL
       /\ \A t \in Thread : th'[t].pc \in Holds <=> th'[t].task # NULL
  BY <1>2 DEF PoolInv, Owned, ThreadPoolType
<1> QED BY <1>2, <1>7, <1>8, <1>9, <1>10, <1>11, <1>13, <1>14, <1>15

\* A request posts its task.
LEMMA PostInv ==
  ASSUME ThreadPoolType, NEW L, PoolInv(L), NEW x \in Task, ~aio[x], waiting < MaxQueue,
         Handling, Queued(x), aio' = [aio EXCEPT ![x] = TRUE], UNCHANGED <<done, main>>
  PROVE  ThreadPoolType' /\ \E M : PoolInv(M)'
<1>1. x \in AnyTask /\ x # ExitTask /\ ~Busy(x, L)
  BY ThreadPoolAssumption DEF AnyTask, PoolInv, Owned
<1>2. PICK M : /\ Lists(M, next') /\ q' = Ends(M["queue"]) /\ End(M["queue"]) = x
               /\ M["done"] = L["done"] /\ M["given"] = L["given"] /\ Waits(M)'
               /\ next' \in [AnyTask -> AnyTask \cup {NULL}] /\ waiting' \in Int
               /\ th' \in [Thread -> ThreadType] /\ Exited' = Exited
               /\ \A t \in Thread : th'[t].pc \in Holds <=> th'[t].task # NULL
               /\ \A t \in Thread : th'[t].task # NULL => ~On(th'[t].task, M)
               /\ \A t, u \in Thread : t # u /\ th'[t].task = th'[u].task => th'[t].task = NULL
               /\ \A y : Busy(y, M)' <=> Busy(y, L) \/ y = x
  BY <1>1, QueuedIs
<1>3. ThreadPoolType'
  BY <1>2 DEF ThreadPoolType
<1>4. Placed(M)'
  BY <1>2 DEF PoolInv, Placed
<1>5. Owned(M)'
  <2>1. \A y \in Task : aio'[y] <=> Busy(y, M)'
    BY <1>2 DEF PoolInv, Owned, ThreadPoolType
  <2>2. Busy(ExitTask, M)' <=> main'.pc = "spin" /\ main'.lock = 1
    BY <1>1, <1>2 DEF PoolInv, Owned
  <2>3. \A y : On(y, M)' <=> On(y, M)
    BY DEF On
  <2> QED BY <1>2, <2>1, <2>2, <2>3 DEF Owned
<1>6. Leaving(M)'
  BY <1>2 DEF PoolInv, Leaving, Handling
<1>7. PoolInv(M)'
  BY <1>2, <1>4, <1>5, <1>6 DEF PoolInv
<1> QED BY <1>3, <1>7

\* The event loop posts the exit task.
LEMMA PostExitInv ==
  ASSUME ThreadPoolType, NEW L, PoolInv(L), waiting < MaxQueue, main.pc = "exiting",
         Queued(ExitTask), main' = [main EXCEPT !.pc = "spin", !.lock = 1],
         UNCHANGED <<done, aio>>
  PROVE  ThreadPoolType' /\ \E M : PoolInv(M)'
<1>1. ExitTask \in AnyTask /\ ExitTask \notin Task /\ ~Busy(ExitTask, L)
  BY ThreadPoolAssumption DEF AnyTask, PoolInv, Owned
<1>2. PICK M : /\ Lists(M, next') /\ q' = Ends(M["queue"]) /\ End(M["queue"]) = ExitTask
               /\ M["done"] = L["done"] /\ M["given"] = L["given"] /\ Waits(M)'
               /\ next' \in [AnyTask -> AnyTask \cup {NULL}] /\ waiting' \in Int
               /\ th' \in [Thread -> ThreadType] /\ Exited' = Exited
               /\ \A t \in Thread : th'[t].pc \in Holds <=> th'[t].task # NULL
               /\ \A t \in Thread : th'[t].task # NULL => ~On(th'[t].task, M)
               /\ \A t, u \in Thread : t # u /\ th'[t].task = th'[u].task => th'[t].task = NULL
               /\ \A y : Busy(y, M)' <=> Busy(y, L) \/ y = ExitTask
  BY <1>1, QueuedIs
<1>3. /\ main' \in MainType /\ main'.pc = "spin" /\ main'.lock = 1 /\ main'.n = main.n
      /\ main.n \in Nat
  BY DEF ThreadPoolType, MainType, MainPc
<1>4. ThreadPoolType'
  BY <1>2, <1>3 DEF ThreadPoolType
<1>5. Placed(M)'
  BY <1>2, <1>3 DEF PoolInv, Placed
<1>6. Owned(M)'
  <2>1. \A y \in Task : aio'[y] <=> Busy(y, M)'
    BY <1>1, <1>2 DEF PoolInv, Owned
  <2>2. \A y : On(y, M)' <=> On(y, M)
    BY DEF On
  <2> QED BY <1>2, <1>3, <2>1, <2>2 DEF Owned
<1>7. Leaving(M)'
  <2>1. Cardinality(Exited) = main.n
    BY <1>3 DEF PoolInv, Leaving
  <2>2. End(M["queue"])' \in {NULL, ExitTask}
    BY <1>2
  <2> QED BY <1>2, <1>3, <2>1, <2>2 DEF Leaving
<1>8. PoolInv(M)'
  BY <1>2, <1>5, <1>6, <1>7 DEF PoolInv
<1> QED BY <1>4, <1>8

\* A step that moves no task and wakes no thread.
LEMMA MainInv ==
  ASSUME ThreadPoolType, NEW L, PoolInv(L), UNCHANGED <<q, done, aio, th, waiting>>,
         next' \in [AnyTask -> AnyTask \cup {NULL}], Lists(L, next'), main' \in MainType,
         IF main'.pc \in {"deliver", "callback"} THEN main'.task = First(L["given"])
         ELSE L["given"] = <<>>,
         Busy(ExitTask, L) <=> main'.pc = "spin" /\ main'.lock = 1,
         Leaving(L)'
  PROVE  ThreadPoolType' /\ \E M : PoolInv(M)'
<1>1. ThreadPoolType'
  BY DEF ThreadPoolType
<1>2. Placed(L)'
  BY DEF PoolInv, Placed
<1>3. \A y : (On(y, L)' <=> On(y, L)) /\ (Busy(y, L)' <=> Busy(y, L))
  BY DEF On, Busy, Run
<1>4. Owned(L)'
  BY <1>3 DEF PoolInv, Owned
<1>5. Waits(L)'
  BY DEF PoolInv, Waits, Ready
<1>6. PoolInv(L)'
  BY <1>2, <1>4, <1>5 DEF PoolInv
<1> QED BY <1>1, <1>6

\* So also when the pointer of a task that is nowhere is cleared.
LEMMA UnlinkInv ==
  ASSUME ThreadPoolType, NEW L, PoolInv(L), UNCHANGED <<q, done, aio, th, waiting, main>>,
         \/ next' = next
         \/ \E x \in AnyTask : ~Busy(x, L) /\ next' = [next EXCEPT ![x] = NULL]
  PROVE  ThreadPoolType' /\ \E M : PoolInv(M)'
<1>1. next' \in [AnyTask -> AnyTask \cup {NULL}] /\ Lists(L, next')
  <2>1. CASE next' = next
    BY <2>1 DEF ThreadPoolType, PoolInv, Placed
  <2>2. CASE \E x \in AnyTask : ~Busy(x, L) /\ next' = [next EXCEPT ![x] = NULL]
    <3>1. PICK x \in AnyTask : ~Busy(x, L) /\ next' = [next EXCEPT ![x] = NULL]
      BY <2>2
    <3>2. Lists(L, [next EXCEPT ![x] = NULL])
      BY <3>1, ListsSet DEF ThreadPoolType, PoolInv, Placed, Busy
    <3> QED BY <3>1, <3>2 DEF ThreadPoolType
  <2> QED BY <2>1, <2>2
<1>2. Leaving(L)'
  BY DEF PoolInv, Leaving, Exited
<1>3. /\ main' \in MainType /\ (Busy(ExitTask, L) <=> main'.pc = "spin" /\ main'.lock = 1)
      /\ IF main'.pc \in {"deliver", "callback"} THEN main'.task = First(L["given"])
         ELSE L["given"] = <<>>
  BY DEF ThreadPoolType, PoolInv, Owned, Placed
<1> QED BY <1>1, <1>2, <1>3, MainInv

\* The finished tasks are taken, to be delivered.
LEMMA NotifiedInv ==
  ASSUME ThreadPoolType, NEW L, PoolInv(L), Notified
  PROVE  ThreadPoolType' /\ \E M : PoolInv(M)'
<1>1. /\ main.pc = "loop" /\ main' = [main EXCEPT !.pc = "deliver", !.task = done.first]
      /\ done' = Empty /\ UNCHANGED <<q, next, aio, waiting, th>>
  BY DEF Notified
<1>2. Lists(L, next) /\ done = Ends(L["done"]) /\ L["given"] = <<>> /\ "done" \in List
  BY <1>1 DEF PoolInv, Placed, List
<1>3. PICK M : M = Moved(L)
  OBVIOUS
<1>4. /\ Lists(M, next) /\ M["queue"] = L["queue"] /\ M["given"] = L["done"]
      /\ M["done"] = <<>> /\ \A y : On(y, M) <=> On(y, L)
  <2>1. PICK nx : nx = next
    OBVIOUS
  <2> QED BY <1>2, <1>3, <2>1, ListsMove
<1>5. done.first = First(L["done"]) /\ done.first \in AnyTask \cup {NULL}
  <2>1. done.first = First(L["done"])
    BY <1>2 DEF Ends
  <2>2. First(L["done"]) \in AnyTask \cup {NULL}
    BY <1>2, ListIs
  <2> QED BY <2>1, <2>2
<1>6. /\ main' \in MainType /\ main'.pc = "deliver" /\ main'.task = First(L["done"])
      /\ main'.n = main.n /\ main'.lock = main.lock
  BY <1>1, <1>5 DEF ThreadPoolType, MainType, MainPc
<1>7. ThreadPoolType'
  BY <1>1, <1>6 DEF ThreadPoolType
<1>8. Placed(M)'
  <2>1. Ends(M["done"]) = Empty
    BY <1>4 DEF Ends, First, End, Empty
  <2> QED BY <1>1, <1>4, <1>6, <2>1 DEF PoolInv, Placed
<1>9. \A y : (On(y, M)' <=> On(y, L)) /\ (Busy(y, M)' <=> Busy(y, L))
  <2>1. \A y : On(y, M)' <=> On(y, M)
    BY DEF On
  <2>2. \A y : Run(y)' <=> Run(y)
    BY <1>1 DEF Run
  <2> QED BY <1>4, <2>1, <2>2 DEF Busy
<1>10. Owned(M)'
  BY <1>1, <1>6, <1>9 DEF PoolInv, Owned
<1>11. Waits(M)' /\ Leaving(M)'
  <2>1. Ready' = Ready /\ Exited' = Exited
    BY <1>1 DEF Ready, Exited
  <2> QED BY <1>1, <1>4, <1>6, <2>1 DEF PoolInv, Waits, Leaving
<1>12. PoolInv(M)'
  BY <1>8, <1>10, <1>11 DEF PoolInv
<1> QED BY <1>7, <1>12

\* The next finished task is delivered.
LEMMA CompleteInv ==
  ASSUME ThreadPoolType, NEW L, PoolInv(L), Complete
  PROVE  ThreadPoolType' /\ \E M : PoolInv(M)'
<1>1. PICK x : x = main.task
  OBVIOUS
<1>2. /\ main.pc = "deliver" /\ x # NULL /\ aio' = [aio EXCEPT ![x] = FALSE]
      /\ main' = [main EXCEPT !.pc = "callback", !.task = next[x]]
      /\ UNCHANGED <<q, done, next, waiting, th>>
  BY <1>1 DEF Complete
<1>3. Lists(L, next) /\ "given" \in List /\ x = First(L["given"])
  BY <1>1, <1>2 DEF PoolInv, Placed, List
<1>4. L["given"] # <<>>
  BY <1>2, <1>3 DEF First
<1> DEFINE Lq == [L EXCEPT !["given"] = Tail(L["given"])]
<1>5. /\ Lists(Lq, next) /\ First(Tail(L["given"])) = next[x]
      /\ x \in AnyTask /\ On(x, L)
      /\ \A y : On(y, Lq) <=> On(y, L) /\ y # x
  <2> DEFINE s == L["given"]
  <2>1. /\ Lists(Lq, next) /\ First(Tail(s)) = next[First(s)]
        /\ First(s) \in AnyTask /\ On(First(s), L)
        /\ \A y : On(y, Lq) <=> On(y, L) /\ y # First(s)
    BY <1>3, <1>4, ListsPop
  <2> HIDE DEF Lq
  <2> QED BY <1>3, <2>1
<1>6. /\ Lq["queue"] = L["queue"] /\ Lq["done"] = L["done"] /\ Lq["given"] = Tail(L["given"])
  BY <1>3 DEF Lists, List
<1>7. PICK M : M = Lq
  OBVIOUS
<1>8. /\ Lists(M, next) /\ First(M["given"]) = next[x]
      /\ M["queue"] = L["queue"] /\ M["done"] = L["done"]
      /\ \A y : On(y, M) <=> On(y, L) /\ y # x
  BY <1>5, <1>6, <1>7
<1> HIDE DEF Lq
<1>9. x # ExitTask /\ x \in Task
  <2>1. Busy(x, L)
    BY <1>5 DEF Busy
  <2>2. ~Busy(ExitTask, L)
    BY <1>2 DEF PoolInv, Owned
  <2> QED BY <1>5, <2>1, <2>2 DEF AnyTask
<1>10. /\ main' \in MainType /\ main'.pc = "callback" /\ main'.task = next[x]
       /\ main'.n = main.n /\ main'.lock = main.lock
  BY <1>2, <1>5 DEF ThreadPoolType, MainType, MainPc
<1>11. ThreadPoolType'
  BY <1>2, <1>10 DEF ThreadPoolType
<1>12. Placed(M)'
  BY <1>2, <1>8, <1>10 DEF PoolInv, Placed
<1>13. ~Run(x)
  BY <1>2, <1>5 DEF PoolInv, Owned, Run
<1>14. \A y : (On(y, M)' <=> On(y, L) /\ y # x) /\ (Busy(y, M)' <=> Busy(y, L) /\ y # x)
  <2>1. \A y : On(y, M)' <=> On(y, M)
    BY DEF On
  <2>2. \A y : Run(y)' <=> Run(y)
    BY <1>2 DEF Run
  <2> QED BY <1>8, <1>13, <2>1, <2>2 DEF Busy
<1>15. Owned(M)'
  <2>1. \A y \in Task : aio'[y] <=> Busy(y, M)'
    BY <1>2, <1>9, <1>14 DEF PoolInv, Owned, ThreadPoolType
  <2>2. Busy(ExitTask, M)' <=> main'.pc = "spin" /\ main'.lock = 1
    BY <1>2, <1>9, <1>10, <1>14 DEF PoolInv, Owned
  <2> QED BY <1>2, <1>14, <2>1, <2>2 DEF PoolInv, Owned
<1>16. Waits(M)' /\ Leaving(M)'
  <2>1. Ready' = Ready /\ Exited' = Exited
    BY <1>2 DEF Ready, Exited
  <2> QED BY <1>2, <1>8, <1>10, <2>1 DEF PoolInv, Waits, Leaving
<1>17. PoolInv(M)'
  BY <1>12, <1>15, <1>16 DEF PoolInv
<1> QED BY <1>11, <1>17

\* Neither a handler that returns nor the end of the worker moves a task.
LEMMA ReturnInv ==
  ASSUME ThreadPoolType, NEW L, PoolInv(L), HandlerReturns \/ ExitWorker
  PROVE  ThreadPoolType' /\ \E M : PoolInv(M)'
<1>1. UNCHANGED <<q, done, next, aio, th, waiting>>
  BY DEF HandlerReturns, ExitWorker
<1>2. /\ main.pc \notin {"spin", "destroyed"}
      /\ \/ main.pc = "callback" /\ main' = [main EXCEPT !.pc = "deliver"]
         \/ main.pc = "deliver" /\ main.task = NULL /\ main' = [main EXCEPT !.pc = "loop"]
         \/ main.pc = "loop" /\ main' = [main EXCEPT !.pc = "exiting"]
  BY DEF HandlerReturns, ExitWorker
<1>3. /\ main' \in MainType /\ main'.pc \notin {"spin", "destroyed"} /\ main'.n = main.n
      /\ main'.task = main.task
  BY <1>2 DEF ThreadPoolType, MainType, MainPc
<1>4. main.pc = "deliver" /\ main.task = NULL => L["given"] = <<>>
  <2>1. "given" \in List /\ Lists(L, next)
    BY DEF List, PoolInv, Placed
  <2>2. L["given"] # <<>> => First(L["given"]) # NULL
    BY <2>1, ListIs
  <2> QED BY <2>2 DEF PoolInv, Placed
<1>5. IF main'.pc \in {"deliver", "callback"} THEN main'.task = First(L["given"])
      ELSE L["given"] = <<>>
  BY <1>2, <1>3, <1>4 DEF PoolInv, Placed, ThreadPoolType, MainType
<1>6. ~Busy(ExitTask, L)
  BY <1>2 DEF PoolInv, Owned
<1>7. Leaving(L)'
  <2>1. Exited' = Exited
    BY <1>1 DEF Exited
  <2> QED BY <1>2, <1>3, <2>1 DEF PoolInv, Leaving
<1>8. next' \in [AnyTask -> AnyTask \cup {NULL}] /\ Lists(L, next')
  BY <1>1 DEF ThreadPoolType, PoolInv, Placed
<1> QED BY <1>1, <1>3, <1>5, <1>6, <1>7, <1>8, MainInv

\* The exit task cannot be posted, and the event loop gives up.
LEMMA GiveUpInv ==
  ASSUME ThreadPoolType, NEW L, PoolInv(L), main.pc = "exiting",
         main' = [main EXCEPT !.pc = "gaveup", !.lock = 1],
         UNCHANGED <<q, done, aio, th, waiting>>,
         next' = next \/ next' = [next EXCEPT ![ExitTask] = NULL]
  PROVE  ThreadPoolType' /\ \E M : PoolInv(M)'
<1>1. ~Busy(ExitTask, L)
  BY DEF PoolInv, Owned
<1>2. next' \in [AnyTask -> AnyTask \cup {NULL}] /\ Lists(L, next')
  <2>1. Lists(L, next) /\ Lists(L, [next EXCEPT ![ExitTask] = NULL])
    BY <1>1, ListsSet DEF ThreadPoolType, PoolInv, Placed, Busy
  <2> QED BY <2>1 DEF ThreadPoolType
<1>3. /\ main' \in MainType /\ main'.pc = "gaveup" /\ main'.n = main.n /\ main.n \in Nat
  BY DEF ThreadPoolType, MainType, MainPc
<1>4. L["given"] = <<>>
  BY DEF PoolInv, Placed
<1>5. Leaving(L)'
  <2>1. Exited' = Exited
    BY DEF Exited
  <2> QED BY <1>3, <2>1 DEF PoolInv, Leaving
<1> QED BY <1>1, <1>2, <1>3, <1>4, <1>5, MainInv

\* A thread has exited: nothing is left on the queue, and after the last one
\* none is left of the threads.
LEMMA SpinInv ==
  ASSUME ThreadPoolType, NEW L, PoolInv(L), SpinEnds
  PROVE  ThreadPoolType' /\ \E M : PoolInv(M)'
<1> DEFINE pc == IF main.n + 1 = Cardinality(Thread) THEN "destroyed" ELSE "exiting"
<1>1. /\ main.pc = "spin" /\ main.lock = 0 /\ main' = [main EXCEPT !.n = @ + 1, !.pc = pc]
      /\ UNCHANGED <<q, done, next, aio, th, waiting>>
  BY DEF SpinEnds
<1>2. /\ main' \in MainType /\ main'.pc = pc /\ main'.n = main.n + 1 /\ main.n \in Nat
  <2>1. main \in MainType /\ pc \in MainPc
    BY DEF ThreadPoolType, MainPc
  <2> HIDE DEF pc
  <2>2. main.n \in Nat /\ main.n + 1 \in Nat
    BY <2>1 DEF MainType
  <2> QED BY <1>1, <2>1, <2>2 DEF MainType
<1>3. ~Busy(ExitTask, L)
  BY <1>1 DEF PoolInv, Owned
<1>4. L["queue"] = <<>>
  <2>1. "queue" \in List /\ Lists(L, next)
    BY DEF List, PoolInv, Placed
  <2>2. SUFFICES ASSUME L["queue"] # <<>> PROVE FALSE
    OBVIOUS
  <2>3. End(L["queue"]) = L["queue"][Len(L["queue"])] /\ Len(L["queue"]) \in 1..Len(L["queue"])
        /\ L["queue"][Len(L["queue"])] # NULL
    BY <2>1, <2>2, ListIs
  <2>4. On(End(L["queue"]), L)
    BY <2>1, <2>3 DEF On
  <2>5. End(L["queue"]) = ExitTask
    BY <1>1, <2>3 DEF PoolInv, Leaving
  <2> QED BY <1>3, <2>4, <2>5 DEF Busy
<1>5. Cardinality(Exited) = main.n + 1
  BY <1>1, <1>2 DEF PoolInv, Leaving
<1>6. Exited \in SUBSET Thread
  BY DEF Exited
<1>7. main.n + 1 = Cardinality(Thread) => Exited = Thread
  BY <1>5, <1>6, ThreadPoolAssumption, FS_Subset
<1>8. Exited' = Exited
  BY <1>1 DEF Exited
<1>9. Leaving(L)'
  BY <1>2, <1>4, <1>5, <1>7, <1>8 DEF Leaving
<1>10. next' \in [AnyTask -> AnyTask \cup {NULL}] /\ Lists(L, next')
  BY <1>1 DEF ThreadPoolType, PoolInv, Placed
<1>11. L["given"] = <<>>
  BY <1>1 DEF PoolInv, Placed
<1> QED BY <1>1, <1>2, <1>3, <1>9, <1>10, <1>11, MainInv

-----------------------------------------------------------------------------
(* The theorems.                                                           *)

\* The pool starts with empty lists.
LEMMA InitInv == ThreadPoolInit => ThreadPoolInv
<1> SUFFICES ASSUME ThreadPoolInit PROVE ThreadPoolInv
  OBVIOUS
<1>1. PICK L : L = [a \in List |-> <<>>]
  OBVIOUS
<1>2. L \in [List -> Seq(AnyTask)] /\ \A a \in List : L[a] = <<>> /\ Len(L[a]) = 0
  BY <1>1
<1>3. \A a \in List : 1..Len(L[a]) = {}
  BY <1>2
<1>4. Lists(L, next)
  BY <1>2, <1>3 DEF Lists
<1>5. L["queue"] = <<>> /\ L["done"] = <<>> /\ L["given"] = <<>> /\ Len(L["queue"]) = 0
  BY <1>2 DEF List
<1>6. /\ ThreadPoolType
      /\ \A t \in Thread : th[t].pc = "top" /\ th[t].task = NULL
  BY DEF ThreadPoolInit, ThreadPoolType, ThreadType, ThreadPc, MainType, MainPc, Holds
<1>7. Placed(L)
  BY <1>4, <1>5 DEF ThreadPoolInit, Placed, Ends, First, End, Empty
<1>8. Owned(L)
  <2>1. \A x \in AnyTask : ~Busy(x, L)
    BY <1>3, <1>6, ThreadPoolAssumption DEF Busy, On, Run
  <2>2. \A x \in Task : ~aio[x]
    BY DEF ThreadPoolInit
  <2>3. main.pc # "spin" /\ ExitTask \in AnyTask /\ Task \subseteq AnyTask
    BY DEF ThreadPoolInit, AnyTask
  <2> QED BY <1>6, <2>1, <2>2, <2>3 DEF Owned
<1>9. Ready = {} /\ Exited = {}
  BY <1>6 DEF Ready, Exited
<1>10. Cardinality(Ready) = 0 /\ Cardinality(Exited) = 0
  BY <1>9, FS_EmptySet
<1>11. Waits(L) /\ Leaving(L)
  BY <1>5, <1>10, ThreadPoolAssumption DEF ThreadPoolInit, Waits, Leaving
<1> QED BY <1>6, <1>7, <1>8, <1>11 DEF ThreadPoolInv, PoolInv

\* Every step of the pool preserves the invariant.
LEMMA NextInv == ThreadPoolInv /\ [ThreadPoolNext]_poolVars => ThreadPoolInv'
<1> SUFFICES ASSUME ThreadPoolInv, [ThreadPoolNext]_poolVars
             PROVE  ThreadPoolType' /\ \E M : PoolInv(M)'
  BY DEF ThreadPoolInv
<1>1. PICK L : PoolInv(L)
  BY DEF ThreadPoolInv
<1>2. ThreadPoolType
  BY DEF ThreadPoolInv
<1>3. CASE \E t \in Thread : Cycle(t) \/ SpuriousWakeup(t)
  BY <1>1, <1>2, <1>3, ThreadInv
<1>4. ASSUME NEW x \in Task, Read(x) \/ NewRequest(x)
      PROVE  ThreadPoolType' /\ \E M : PoolInv(M)'
  <2>1. x \in AnyTask /\ ~aio[x] /\ ~Busy(x, L)
    BY <1>1, <1>4 DEF Read, NewRequest, AnyTask, PoolInv, Owned
  <2>2. CASE Read(x) /\ Accepted(x) /\ Queued(x) /\ aio' = [aio EXCEPT ![x] = TRUE]
    BY <1>1, <1>2, <2>1, <2>2, PostInv DEF Read, Accepted
  <2>3. CASE Read(x) /\ SignalFails(x) /\ UNCHANGED aio
    BY <1>1, <1>2, <2>1, <2>3, UnlinkInv DEF Read, SignalFails
  <2>4. CASE Read(x) /\ UNCHANGED <<q, next, aio, waiting, th>>
    BY <1>1, <1>2, <2>4, UnlinkInv DEF Read
  <2>5. CASE NewRequest(x)
    BY <1>1, <1>2, <2>1, <2>5, UnlinkInv DEF NewRequest
  <2> QED BY <1>4, <2>2, <2>3, <2>4, <2>5 DEF Read
<1>5. CASE Notified
  BY <1>1, <1>2, <1>5, NotifiedInv
<1>6. CASE Complete
  BY <1>1, <1>2, <1>6, CompleteInv
<1>7. CASE HandlerReturns \/ ExitWorker
  BY <1>1, <1>2, <1>7, ReturnInv
<1>8. CASE PostExit
  <2>1. main.pc = "exiting" /\ UNCHANGED <<done, aio>>
    BY <1>8 DEF PostExit
  <2>2. CASE /\ Accepted(ExitTask) /\ Queued(ExitTask)
             /\ main' = [main EXCEPT !.pc = "spin", !.lock = 1]
    BY <1>1, <1>2, <2>1, <2>2, PostExitInv DEF Accepted
  <2>3. CASE /\ SignalFails(ExitTask)
             /\ main' = [main EXCEPT !.pc = "gaveup", !.lock = 1]
    BY <1>1, <1>2, <2>1, <2>3, GiveUpInv DEF SignalFails
  <2>4. CASE /\ UNCHANGED <<q, next, ev, waiting, th>>
             /\ main' = [main EXCEPT !.pc = "gaveup", !.lock = 1]
    BY <1>1, <1>2, <2>1, <2>4, GiveUpInv
  <2> QED BY <1>8, <2>2, <2>3, <2>4 DEF PostExit
<1>9. CASE SpinEnds
  BY <1>1, <1>2, <1>9, SpinInv
<1>10. CASE UNCHANGED poolVars
  BY <1>1, <1>2, <1>10, UnlinkInv DEF poolVars
<1> QED BY <1>3, <1>4, <1>5, <1>6, <1>7, <1>8, <1>9, <1>10 DEF ThreadPoolNext, EventLoop

\* The invariant holds of the pool.
LEMMA PoolKept == ThreadPoolSpec => []ThreadPoolInv
BY InitInv, NextInv, PTL DEF ThreadPoolSpec

\* The lists the pointers lead along, and the threads and tasks on them.
LEMMA ChainsAre ==
  ASSUME NEW L, PoolInv(L)
  PROVE  /\ Chain(q.first) = L["queue"] /\ Chain(done.first) = L["done"]
         /\ q.last = End(L["queue"]) /\ done.last = End(L["done"])
         /\ main.pc \in {"deliver", "callback"} => Chain(main.task) = L["given"]
         /\ main.pc \notin {"deliver", "callback"} => L["given"] = <<>>
<1>1. /\ Lists(L, next) /\ "queue" \in List /\ "done" \in List /\ "given" \in List
      /\ q = Ends(L["queue"]) /\ done = Ends(L["done"])
      /\ IF main.pc \in {"deliver", "callback"} THEN main.task = First(L["given"])
         ELSE L["given"] = <<>>
  BY DEF PoolInv, Placed, List
<1>2. /\ q.first = First(L["queue"]) /\ done.first = First(L["done"])
      /\ q.last = End(L["queue"]) /\ done.last = End(L["done"])
  BY <1>1 DEF Ends
<1>3. /\ Chain(First(L["queue"])) = L["queue"] /\ Chain(First(L["done"])) = L["done"]
      /\ Chain(First(L["given"])) = L["given"]
  BY <1>1, ChainIs
<1> QED BY <1>1, <1>2, <1>3

\* The last pointer of the queue and of the list of finished tasks is the end of
\* what first leads to, and a thread that goes on has got a task from it: whatever
\* the threads and the event loop append and take (ngx_thread_pool_cycle,
\* ngx_thread_task_post, ngx_thread_pool_handler).
THEOREM ListsStayClosed == ThreadPoolSpec => []ListsClosed
<1>1. ThreadPoolInv => ListsClosed
  <2> SUFFICES ASSUME ThreadPoolType, NEW L, PoolInv(L) PROVE ListsClosed
    BY DEF ThreadPoolInv
  <2>1. \A l \in {q, done} : LET c == Chain(l.first)
                            IN  l.last = IF c = <<>> THEN NULL ELSE c[Len(c)]
    BY ChainsAre DEF End
  <2> QED BY <2>1 DEF ListsClosed, ThreadPoolType, Holds
<1> QED BY <1>1, PoolKept, PTL

\* How often x is on a list.
LEMMA TimesIs ==
  ASSUME NEW L, NEW nx, Lists(L, nx), NEW a \in List, NEW x
  PROVE  Times(x, L[a]) = IF \E i \in 1..Len(L[a]) : L[a][i] = x THEN 1 ELSE 0
<1>1. L[a] \in Seq(AnyTask)
  BY ListIs
<1>2. DOMAIN L[a] = 1..Len(L[a])
  BY <1>1
<1> DEFINE S == {i \in 1..Len(L[a]) : L[a][i] = x}
<1>3. Times(x, L[a]) = Cardinality(S)
  BY <1>2 DEF Times
<1>4. CASE \E i \in 1..Len(L[a]) : L[a][i] = x
  <2>1. PICK i \in 1..Len(L[a]) : L[a][i] = x
    BY <1>4
  <2>2. S = {i}
    BY <2>1 DEF Lists
  <2> QED BY <1>3, <1>4, <2>2, FS_Singleton
<1>5. CASE ~\E i \in 1..Len(L[a]) : L[a][i] = x
  <2>1. S = {}
    BY <1>5
  <2> QED BY <1>3, <1>5, <2>1, FS_EmptySet
<1> QED BY <1>4, <1>5

\* A request is blocked exactly as long as the pool knows its task, which it
\* never knows twice: the memory of a task that is queued, run, finished or being
\* delivered is kept (ngx_http_copy_thread_handler, ngx_thread_task_post).  If a
\* thread ended with the task because it could not unlock mtx (ngx_thread_pool_cycle)
\* the request stays blocked, and no one else knows the task.
THEOREM TasksKept == ThreadPoolSpec => []BlockedInFlight
<1>1. ThreadPoolInv => BlockedInFlight
  <2> SUFFICES ASSUME ThreadPoolType, NEW L, PoolInv(L), NEW x \in Task
               PROVE  InFlight(x) + Lost(x) = IF aio[x] THEN 1 ELSE 0
    BY DEF ThreadPoolInv, BlockedInFlight
  <2> DEFINE in(a) == \E i \in 1..Len(L[a]) : L[a][i] = x
             R == {t \in Thread : th[t].pc = "run" /\ th[t].task = x}
             N == {t \in Thread : th[t].pc = "lost" /\ th[t].task = x}
             A == Times(x, Chain(q.first))
             B == Times(x, Chain(done.first))
             C == IF main.pc \in {"deliver", "callback"} THEN Times(x, Chain(main.task)) ELSE 0
             D == Cardinality(R)
             E == Cardinality(N)
  <2>1. Lists(L, next) /\ "queue" \in List /\ "done" \in List /\ "given" \in List
    BY DEF PoolInv, Placed, List
  <2>2. \A a \in List : Times(x, L[a]) = IF in(a) THEN 1 ELSE 0
    <3>1. PICK nx : nx = next
      OBVIOUS
    <3> QED BY <2>1, <3>1, TimesIs
  <2>3. /\ A = IF in("queue") THEN 1 ELSE 0
        /\ B = IF in("done") THEN 1 ELSE 0
    BY <2>1, <2>2, ChainsAre
  <2>4. C = IF in("given") THEN 1 ELSE 0
    <3>1. CASE main.pc \in {"deliver", "callback"}
      BY <2>1, <2>2, <3>1, ChainsAre
    <3>2. CASE main.pc \notin {"deliver", "callback"}
      <4>1. L["given"] = <<>>
        BY <3>2, ChainsAre
      <4>2. 1..Len(L["given"]) = {}
        BY <4>1
      <4> QED BY <3>2, <4>2
    <3> QED BY <3>1, <3>2
  <2>5. D + E = IF Run(x) THEN 1 ELSE 0
    <3>1. x # NULL
      BY ThreadPoolAssumption DEF AnyTask
    <3>2. CASE Run(x)
      <4>1. PICK t \in Thread : th[t].task = x
        BY <3>2 DEF Run
      <4>2. th[t].pc \in {"run", "lost"} /\ \A u \in Thread : th[u].task = x => u = t
        BY <3>1, <4>1 DEF PoolInv, Owned, ThreadPoolType, Holds
      <4>3. CASE th[t].pc = "run"
        <5>1. R = {t} /\ N = {}
          BY <4>1, <4>2, <4>3
        <5>2. D = 1 /\ E = 0
          BY <5>1, FS_Singleton, FS_EmptySet
        <5> QED BY <3>2, <5>2
      <4>4. CASE th[t].pc = "lost"
        <5>1. R = {} /\ N = {t}
          BY <4>1, <4>2, <4>4
        <5>2. D = 0 /\ E = 1
          BY <5>1, FS_Singleton, FS_EmptySet
        <5> QED BY <3>2, <5>2
      <4> QED BY <4>2, <4>3, <4>4
    <3>3. CASE ~Run(x)
      <4>1. R = {} /\ N = {}
        BY <3>3 DEF Run
      <4>2. D = 0 /\ E = 0
        BY <4>1, FS_EmptySet
      <4> QED BY <3>3, <4>2
    <3> QED BY <3>2, <3>3
  <2>6. Run(x) => ~On(x, L)
    <3>1. x # NULL
      BY ThreadPoolAssumption DEF AnyTask
    <3> QED BY <3>1 DEF PoolInv, Owned, Run
  <2>7. On(x, L) <=> in("queue") \/ in("done") \/ in("given")
    BY <2>1 DEF On, List
  <2>8. ~(in("queue") /\ in("done")) /\ ~(in("queue") /\ in("given")) /\ ~(in("done") /\ in("given"))
    <3>1. \A a, b \in List : in(a) /\ in(b) => a = b
      BY <2>1 DEF Lists
    <3> QED BY <2>1, <3>1
  <2>9. aio[x] <=> On(x, L) \/ Run(x)
    BY DEF PoolInv, Owned, Busy
  <2>10. InFlight(x) = A + B + C + D /\ Lost(x) = E
    BY DEF InFlight, Lost
  <2>11. D \in Nat /\ E \in Nat
    <3>1. R \subseteq Thread /\ N \subseteq Thread
      OBVIOUS
    <3> QED BY <3>1, ThreadPoolAssumption, FS_Subset, FS_CardinalityType
  <2> HIDE DEF in, A, B, C, D, E
  <2> QED BY <2>3, <2>4, <2>5, <2>6, <2>7, <2>8, <2>9, <2>10, <2>11
<1> QED BY <1>1, PoolKept, PTL

\* waiting stays within max_queue and counts the queue less the threads ready for
\* it, one whose wait failed included (ngx_thread_task_post,
\* ngx_thread_pool_cycle).
THEOREM WaitingRight == ThreadPoolSpec => []WaitingCounts
<1>1. ThreadPoolInv => WaitingCounts
  BY ChainsAre DEF ThreadPoolInv, PoolInv, Waits, WaitingCounts, Ready
<1> QED BY <1>1, PoolKept, PTL

\* When ngx_thread_pool_destroy destroys cond and mtx every thread has exited and
\* nothing is queued.
THEOREM DestroyedLast == ThreadPoolSpec => []DestroyedQuiet
<1>1. ThreadPoolInv => DestroyedQuiet
  <2> SUFFICES ASSUME NEW L, PoolInv(L), main.pc = "destroyed"
               PROVE  q = Empty /\ \A t \in Thread : th[t].pc = "exited"
    BY DEF ThreadPoolInv, DestroyedQuiet
  <2>1. L["queue"] = <<>> /\ Exited = Thread
    BY DEF PoolInv, Leaving
  <2>2. q = Empty
    BY <2>1 DEF PoolInv, Placed, Ends, First, End, Empty
  <2> QED BY <2>1, <2>2 DEF Exited
<1> QED BY <1>1, PoolKept, PTL
=============================================================================
