------------------------------ MODULE Resolver ------------------------------
(***************************************************************************)
(* The resolver of host names (core/ngx_resolver.c): a cache of names, the *)
(* queries under way, the contexts that wait for them, and a network that  *)
(* loses, repeats and reorders the answers.                                *)
(*                                                                         *)
(* s, the resolver and its clients:                                        *)
(*   node    the ngx_resolver_node_t that are allocated, by address        *)
(*   tree    those in name_rbtree                                          *)
(*   resend, expire   name_resend_queue and name_expire_queue, head first  *)
(*   timer   when r->event fires, or NULL                                  *)
(*   ctx     each context: waiting for an answer or not, its node, whether *)
(*           its own timer is set, and ctx->recursion                      *)
(*   stack   the loops under way that call handlers, innermost first: the  *)
(*           contexts left, the node, what is done with it afterwards, and *)
(*           how often its handlers may still ask for another name         *)
(*   asked   the names of the queries sent; the place is their identifier  *)
(*   faults  how many allocations and sends have failed, and answers been  *)
(*           of no use                                                     *)
(* now: ngx_time().  It stands still while the handlers of an event run.   *)
(***************************************************************************)
EXTENDS Integers, Sequences, SequencesExt, FiniteSets, FiniteSetsExt

CONSTANTS
  Name,           \* names that can be asked for
  Wanted,         \* names clients ask for; the others are only found as aliases
  BadName,        \* names no query can be made of (a label is too long)
  Ctx,            \* contexts
  Untimed,        \* those whose ctx->timeout is 0 (resolver_timeout 0)
  Answers,        \* the answers there are, pairs of a type and a content
  IPv6,           \* r->ipv6
  ResendTimeout,  \* r->resend_timeout
  Expire,         \* r->expire
  Valid,          \* r->valid, or the time to live of the answers
  MaxRecursion,   \* NGX_RESOLVER_MAX_RECURSION
  NULL,
  MaxDepth,       \* bound: how deep handlers' own requests are nested
  MaxAsks,        \* bound: how many requests the handlers of one loop make
  MaxQueries,     \* bound: how many queries are made
  MaxTime,        \* bound: how long time is watched
  MaxFaults       \* bound: how many faults there are

ASSUME ResolverAssumption ==
  /\ IPv6 \in BOOLEAN /\ ResendTimeout \in Nat \ {0} /\ Expire \in Nat /\ Valid \in Nat
  /\ MaxRecursion \in Nat /\ MaxDepth \in Nat /\ MaxAsks \in Nat /\ MaxQueries \in Nat
  /\ MaxTime \in Nat /\ MaxFaults \in Nat /\ Untimed \subseteq Ctx
  /\ Name \cap BadName = {} /\ Wanted \subseteq Name \cup BadName /\ NULL \notin Name \cup BadName \cup Int

VARIABLES s, now

resolverVars == <<s, now>>

Type == {"A", "AAAA"}

\* Addresses, an error, nothing, too much for UDP, records of other types, or
\* the name this one is an alias of.
Content == {"address", "error", "empty", "truncated", "useless"} \cup Name \cup BadName

ASSUME AnswersAssumption == Answers \subseteq Type \X Content

Unknown == -1

Other(t) == CHOOSE u \in Type : u # t

\* A step that fails, if there may be another fault.
OnFault(x, S) ==
  IF x.faults < MaxFaults THEN {[y EXCEPT !.faults = @ + 1] : y \in S} ELSE {}

-----------------------------------------------------------------------------
(* Nodes, the tree and the queues                                          *)

Found(x, name) == {n \in x.tree : x.node[n].name = name}

Without(q, n) ==
  IF n \in ToSet(q) THEN RemoveAt(q, CHOOSE i \in DOMAIN q : q[i] = n) ELSE q

\* ngx_queue_remove
Unqueue(x, n) ==
  [x EXCEPT !.resend = Without(@, n), !.expire = Without(@, n)]

ToResend(x, n) ==
  LET y == Unqueue(x, n)
  IN  [y EXCEPT !.resend = <<n>> \o @, !.node[n].expire = now + ResendTimeout]

\* Mutated form of ToExpire: rn->expire keeps its value.
ToExpire_stale(x, n) ==
  LET y == Unqueue(x, n) IN [y EXCEPT !.expire = <<n>> \o @]

ToExpire(x, n) ==
  LET y == Unqueue(x, n)
  IN  [y EXCEPT !.expire = <<n>> \o @, !.node[n].expire = now + Expire]

\* Mutated form of FreeNode: the memory is not given back.
FreeNode_leak(x, n) == x

\* ngx_resolver_free_node
FreeNode(x, n) ==
  [x EXCEPT !.node = [k \in DOMAIN @ \ {n} |-> @[k]]]

\* ngx_rbtree_delete, ngx_resolver_free_node
Discard(x, n) == FreeNode([Unqueue(x, n) EXCEPT !.tree = @ \ {n}], n)

\* One round of ngx_resolver_expire: the node at the end of the queue.
ExpireOne(x) ==
  IF x.expire = <<>> \/ now <= x.node[Last(x.expire)].expire THEN x
  ELSE Discard(x, Last(x.expire))

ngx_resolver_expire(x) == ExpireOne(ExpireOne(x))

-----------------------------------------------------------------------------
(* Contexts                                                                *)

NoCtx == [waits |-> FALSE, node |-> NULL, timer |-> FALSE, recursion |-> 0]

\* The context leaves the list of the node it waits for.
Cancelled(x, c) ==
  IF x.ctx[c].waits /\ x.ctx[c].node # NULL
  THEN [x EXCEPT !.node[x.ctx[c].node].waiting = Without(@, c)]
  ELSE x

\* if (r->event->timer_set && ngx_resolver_resend_empty(r))
DropTimer(x) == IF x.resend = <<>> THEN [x EXCEPT !.timer = NULL] ELSE x

ngx_resolve_name_done(x, c) ==
  LET y == ngx_resolver_expire(Cancelled(x, c))
  IN  DropTimer([y EXCEPT !.ctx[c] = NoCtx])

\* rn->query = NULL; what is only read while there is a query has no value then.
DropQuery(x, n) ==
  [x EXCEPT !.node[n].query = 0, !.node[n].tcp = {}, !.node[n].code = FALSE]

\* What follows the loop over the handlers: a node that failed is freed, the
\* query of one that was answered too.
Afterwards(x, frame) ==
  CASE frame.after = "free"  -> FreeNode(x, frame.node)
    [] frame.after = "query" -> DropQuery(x, frame.node)
    [] OTHER                 -> x

\* Begins a loop that calls the handlers of the contexts of list; they have an
\* answer now and wait no longer.
Loop(x, list, n, after) ==
  LET frame == [list |-> list, node |-> n, after |-> after,
                asks |-> IF Len(x.stack) < MaxDepth - 1 THEN MaxAsks ELSE 0]
      y == [x EXCEPT !.ctx = [c \in Ctx |->
              IF c \in ToSet(list) THEN [@[c] EXCEPT !.waits = FALSE] ELSE @[c]]]
  IN  IF list = <<>> THEN Afterwards(y, frame) ELSE [y EXCEPT !.stack = <<frame>> \o @]

\* rn->waiting = NULL
TakeWaiting(x, n) == [x EXCEPT !.node[n].waiting = <<>>]

\* if (ctx->event == NULL && ctx->timeout)
NeedsTimer(x, c) == ~x.ctx[c].timer /\ c \notin Untimed

\* Contexts of list wait for n; the first gets its timer if it needs one.
Wait(x, list, n) ==
  [x EXCEPT !.ctx = [c \in Ctx |->
     IF c \notin ToSet(list) THEN x.ctx[c]
     ELSE [x.ctx[c] EXCEPT !.waits = TRUE, !.node = n,
                           !.timer = @ \/ (c = list[1] /\ NeedsTimer(x, c))]]]

-----------------------------------------------------------------------------
(* ngx_resolve_name_locked: the set of outcomes, each with its result.     *)

Result(x, rc) == [s |-> x, rc |-> rc]

Failing(x, S) == {Result(y, "ERROR") : y \in OnFault(x, S)}

\* ngx_resolver_export, needed for all but a single IPv4 address.
NeedsExport(rn) == ~(rn.naddrs["A"] = 1 /\ rn.naddrs["AAAA"] = 0)

Answered(rn) == rn.naddrs["A"] > 0 \/ rn.naddrs["AAAA"] > 0

\* Mutated form of Joined: only a context that asks itself gets a timer.
Joined_timerless(x, n, list) ==
  [Wait(x, list, n) EXCEPT !.node[n].waiting = list \o @, !.ctx[list[1]].timer = x.ctx[list[1]].timer]

\* Somebody has asked for the name already.
Joined(x, n, list) == [Wait(x, list, n) EXCEPT !.node[n].waiting = list \o @]

\* Mutated form of Arm: the queue is looked at after the node was inserted.
Arm_never(x) == x

\* if (ngx_resolver_resend_empty(r)) ngx_add_timer(r->event, ...)
Arm(x) == IF x.resend = <<>> THEN [x EXCEPT !.timer = now + ResendTimeout] ELSE x

\* The query of n has been sent; its node is set up and waits for the answer.
Asking(x, n, list) ==
  LET y == ToResend(Arm(x), n)
      z == [y EXCEPT !.node[n] =
             [@ EXCEPT !.query = Len(x.asked), !.naddrs = [t \in Type |-> IF t = "A" \/ IPv6 THEN Unknown ELSE 0],
                       !.tcp = {}, !.code = FALSE, !.cname = NULL, !.valid = 0, !.waiting = list]]
  IN  Wait(z, list, n)

\* From the creation of the query on; n is in the tree and in no queue.  The
\* sending fails, or the timer's allocation when the query is out already.
Ask(x, n, list) ==
  LET name == x.node[n].name
      out  == [x EXCEPT !.asked = Append(@, name)]
      lost == IF NeedsTimer(x, list[1]) THEN {x, out} ELSE {x}
  IN  IF name \in BadName
      THEN {Result(Loop(Discard(x, n), list, NULL, "nothing"), "OK")}
      ELSE {Result(Asking(out, n, list), "AGAIN")}
             \cup Failing(x, {Discard(y, n) : y \in lost})

\* Where malloc finds room.
NewAddress(x) == Min((1..Cardinality(DOMAIN x.node) + 1) \ DOMAIN x.node)

Created(x, name) ==
  LET n  == NewAddress(x)
      rn == [name |-> name, query |-> 0, naddrs |-> [t \in Type |-> Unknown], tcp |-> {},
             code |-> FALSE, cname |-> NULL, valid |-> 0, expire |-> 0, waiting |-> <<>>]
  IN  [x EXCEPT !.tree = @ \cup {n},
                !.node = [k \in DOMAIN @ \cup {n} |-> IF k = n THEN rn ELSE @[k]]]

NodeOf(x, name) == CHOOSE n \in Found(x, name) : TRUE

Cached(x, name) == Found(x, name) # {} /\ x.node[NodeOf(x, name)].valid >= now

\* The name is in the cache, and there is no address but the name it points to.
PointsOn(x, name) == Cached(x, name) /\ ~Answered(x.node[NodeOf(x, name)])

Recurs(x, c) == [x EXCEPT !.ctx[c].recursion = @ + 1]

\* ngx_resolve_name_locked calls itself with the name found, as the last thing
\* it does: w is what it is called with.
Hop(w, c) ==
  LET n == NodeOf(w.s, w.name)
  IN  IF PointsOn(w.s, w.name) /\ w.s.ctx[c].recursion < MaxRecursion
      THEN [s |-> Recurs(ToExpire(w.s, n), c), name |-> w.s.node[n].cname]
      ELSE w

\* The last of these calls; ctx->recursion grows in each of the others.
Followed(x, c, name) ==
  LET w[k \in 0..MaxRecursion] == IF k = 0 THEN [s |-> x, name |-> name] ELSE Hop(w[k - 1], c)
  IN  w[MaxRecursion]

\* A name that is in the cache, with its addresses or after too many aliases; a
\* name that is being asked for; and one to ask for.
Located(x, list, name) ==
  LET n  == NodeOf(x, name)
      rn == x.node[n]
      c  == list[1]
      y  == ToExpire(x, n)
      z  == IF Answered(rn) THEN y ELSE Recurs(y, c)
  IN  IF Found(x, name) = {}
      THEN Ask(Created(x, name), NewAddress(x), list) \cup Failing(x, {x})
      ELSE IF Cached(x, name)
      THEN {Result(Loop(TakeWaiting(z, n), list \o rn.waiting, n, "nothing"), "OK")}
             \cup (IF Answered(rn) /\ NeedsExport(rn) THEN Failing(y, {y}) ELSE {})
      ELSE IF rn.waiting # <<>>
      THEN {Result(Joined(x, n, list), "AGAIN")}
             \cup (IF NeedsTimer(x, c) THEN Failing(x, {x}) ELSE {})
      ELSE Ask(Unqueue(x, n), n, list)

ngx_resolve_name_locked(x, list, name) ==
  LET w == Followed(x, list[1], name) IN Located(w.s, list, w.name)

-----------------------------------------------------------------------------
(* ngx_resolver_process_a: the outcomes of an answer of type t to n        *)

\* ngx_resolver_send_udp_query and ..._tcp_query ask for what is not known.
Outstanding(rn) == {t \in Type : rn.naddrs[t] = Unknown}

\* Everything else is an "unexpected response" and changes nothing.
Accepts(x, n, k, t, reply) ==
  /\ x.node[n].query = k /\ t \in Outstanding(x.node[n])
  /\ ~(reply = "truncated" /\ t \in x.node[n].tcp)

\* The query is sent again over TCP, if anybody waits.
Truncated(x, n, t) ==
  IF x.node[n].waiting = <<>> THEN {Discard(x, n)}
  ELSE {ToResend([x EXCEPT !.node[n].tcp = @ \cup {t}], n)}

\* All contexts get the error, then the node is freed.
Failed(x, n) ==
  Loop([TakeWaiting(Unqueue(x, n), n) EXCEPT !.tree = @ \ {n}], x.node[n].waiting, n, "free")

\* The answer to the other query is still to come.
NotYet(x, n, t) == x.node[n].naddrs[Other(t)] = Unknown

Exported(x, n) ==
  LET y == [ToExpire(x, n) EXCEPT !.node[n].valid = now + Valid]
  IN  {Loop(TakeWaiting(y, n), y.node[n].waiting, n, "query")}
        \cup (IF NeedsExport(x.node[n]) THEN OnFault(x, {x}) ELSE {})

\* Mutated form of Detached: ctx->node keeps the old node.
Detached_not(x, list) == x

\* next->node = NULL
Detached(x, list) ==
  [x EXCEPT !.ctx = [c \in Ctx |->
     IF c \in ToSet(list) THEN [@[c] EXCEPT !.node = NULL] ELSE @[c]]]

\* The contexts go on to the name that n is an alias of.  If that fails they
\* are left to their timers.
Aliased(x, n, cname) ==
  LET list == x.node[n].waiting
      y == TakeWaiting(DropQuery([ToExpire(x, n) EXCEPT !.node[n].cname = cname,
                                                    !.node[n].valid = now + Valid], n), n)
      z == Recurs(y, list[1])
  IN  IF list = <<>> THEN {y}
      ELSE IF y.ctx[list[1]].recursion >= MaxRecursion THEN {Loop(z, list, NULL, "nothing")}
      ELSE {o.s : o \in ngx_resolve_name_locked(Detached(z, list), list, cname)}

\* What one of the queries of n was answered, as a number of addresses.
Known(x, n, t, count) == [x EXCEPT !.node[n].naddrs[t] = count]

\* Mutated form of Nothing: no NXDOMAIN when there are no addresses of either type.
Nothing_silent(x, n, t, error) ==
  LET y == Known(x, n, t, 0)
  IN  CASE NotYet(y, n, t) -> {[y EXCEPT !.node[n].code = error]}
        [] ~NotYet(y, n, t) /\ ~error ->
             IF Answered(y.node[n]) THEN Exported(y, n) ELSE {y}
        [] OTHER -> {Failed(y, n)}

\* An error, or nothing: NGX_RESOLVE_NXDOMAIN when the other type has nothing.
Nothing(x, n, t, error) ==
  LET y == Known(x, n, t, 0)
  IN  CASE NotYet(y, n, t) -> {[y EXCEPT !.node[n].code = error]}
        [] ~NotYet(y, n, t) /\ ~error /\ Answered(y.node[n]) -> Exported(y, n)
        [] OTHER -> {Failed(y, n)}

\* Addresses, an alias, or records of other types.
Records(x, n, t, reply) ==
  LET y == Known(x, n, t, IF reply = "address" THEN 1 ELSE 0)
  IN  CASE NotYet(y, n, t) -> {y}
        [] ~NotYet(y, n, t) /\ Answered(y.node[n]) -> Exported(y, n)
        [] OTHER -> IF reply \in Name \cup BadName THEN Aliased(y, n, reply) ELSE {y}

ngx_resolver_process_a(x, n, t, reply) ==
  CASE reply = "truncated" -> Truncated(x, n, t)
    [] reply = "error" \/ (reply # "truncated" /\ x.node[n].code) -> Nothing(x, n, t, TRUE)
    [] reply = "empty" /\ ~x.node[n].code -> Nothing(x, n, t, FALSE)
    [] OTHER -> Records(x, n, t, reply)

-----------------------------------------------------------------------------
(* ngx_resolver_resend_handler                                             *)

\* The node at the end of the queue, if its time has come.
ResendOne(x) ==
  IF x.resend = <<>> \/ now < x.node[Last(x.resend)].expire THEN x
  ELSE LET n == Last(x.resend)
       IN  IF x.node[n].waiting # <<>> THEN ToResend(x, n) ELSE Discard(x, n)

ngx_resolver_resend(x) ==
  LET r[k \in 0..Len(x.resend)] == IF k = 0 THEN x ELSE ResendOne(r[k - 1])
  IN  r[Len(x.resend)]

Rearmed(x) ==
  [x EXCEPT !.timer = IF x.resend = <<>> THEN NULL ELSE x.node[Last(x.resend)].expire]

-----------------------------------------------------------------------------
(* Steps.                                                                  *)

\* No handler is running: the event loop takes the next event.
Idle == s.stack = <<>>

MayAsk == Len(s.asked) < MaxQueries

Unused(c) == s.ctx[c] = NoCtx /\ \A i \in DOMAIN s.stack : c \notin ToSet(s.stack[i].list)

\* ngx_resolve_name, by a request's event or by a handler of the resolver's.
Resolve(c, name) ==
  LET x == IF Idle THEN s ELSE [s EXCEPT !.stack[1].asks = @ - 1]
  IN  /\ MayAsk /\ Unused(c) /\ (~Idle => s.stack[1].asks > 0)
      /\ \E o \in ngx_resolve_name_locked(x, <<c>>, name) :
           s' = IF o.rc = "ERROR" THEN [o.s EXCEPT !.ctx[c] = NoCtx] ELSE o.s
      /\ UNCHANGED now

\* The request is gone before the answer has come.
Cancel(c) ==
  /\ Idle /\ s.ctx[c].waits /\ s' = ngx_resolve_name_done(s, c)
  /\ UNCHANGED now

\* ngx_resolver_timeout_handler; the context's handler ends in
\* ngx_resolve_name_done.
Timeout(c) ==
  /\ Idle /\ s.ctx[c].waits /\ s.ctx[c].timer /\ s' = ngx_resolve_name_done(s, c)
  /\ UNCHANGED now

\* An answer arrives, also a second time or long after its query.
Respond(k, t, reply) ==
  /\ Idle
  /\ reply \in Name \cup BadName => MayAsk
  /\ \E n \in Found(s, s.asked[k]), x \in IF reply = "useless" THEN OnFault(s, {s}) ELSE {s} :
       /\ Accepts(s, n, k, t, reply)
       /\ s' \in ngx_resolver_process_a(x, n, t, reply)
  /\ UNCHANGED now

ResendTimer ==
  /\ Idle /\ s.timer # NULL /\ now >= s.timer
  /\ s' = Rearmed(ngx_resolver_resend(s))
  /\ UNCHANGED now

\* The next context's handler, which ends in ngx_resolve_name_done.
CallHandler ==
  /\ ~Idle /\ s.stack[1].list # <<>>
  /\ s' = [ngx_resolve_name_done(s, s.stack[1].list[1]) EXCEPT !.stack[1].list = Tail(@)]
  /\ UNCHANGED now

LoopEnds ==
  /\ ~Idle /\ s.stack[1].list = <<>>
  /\ s' = [Afterwards(s, s.stack[1]) EXCEPT !.stack = Tail(@)]
  /\ UNCHANGED now

\* Nobody waits, and the bounds are reached.
Over == Idle /\ ~MayAsk /\ s.ctx = [c \in Ctx |-> NoCtx] /\ UNCHANGED resolverVars

Tick == Idle /\ now < MaxTime /\ now' = now + 1 /\ UNCHANGED s

-----------------------------------------------------------------------------
ResolverInit ==
  /\ s = [node |-> <<>>, tree |-> {}, resend |-> <<>>, expire |-> <<>>, timer |-> NULL,
          ctx |-> [c \in Ctx |-> NoCtx], stack |-> <<>>, asked |-> <<>>, faults |-> 0]
  /\ now = 1

Handlers == CallHandler \/ LoopEnds

ResolverNext ==
  \/ \E c \in Ctx : (\E name \in Wanted : Resolve(c, name)) \/ Cancel(c) \/ Timeout(c)
  \/ \E k \in 1..Len(s.asked), a \in Answers : Respond(k, a[1], a[2])
  \/ ResendTimer \/ Handlers \/ Tick \/ Over

ResolverSpec == ResolverInit /\ [][ResolverNext]_resolverVars

\* Handlers return, and the event loop comes to a timer that has expired, however
\* often it runs handlers of other events.  Nothing makes a server answer.
ResolverFairSpec ==
  /\ ResolverSpec
  /\ WF_resolverVars(Handlers) /\ \A c \in Ctx : SF_resolverVars(Timeout(c))

-----------------------------------------------------------------------------
(* Properties.                                                             *)

Calling == UNION {ToSet(s.stack[i].list) : i \in DOMAIN s.stack}

\* There is one node for a name, and it is in one queue, once; a node outside
\* the tree is on its way to be freed: none is lost, none is freed twice.
NodesAccounted ==
  /\ \A n, k \in s.tree : s.node[n].name = s.node[k].name => n = k
  /\ \A n \in s.tree :
       Cardinality({i \in DOMAIN s.resend : s.resend[i] = n})
         + Cardinality({i \in DOMAIN s.expire : s.expire[i] = n}) = 1
  /\ ToSet(s.resend) \cup ToSet(s.expire) \subseteq s.tree
  /\ DOMAIN s.node \ s.tree =
       {s.stack[i].node : i \in {j \in DOMAIN s.stack : s.stack[j].after = "free"}}

\* A context that waits is in the list of its node, once, and in no other; the
\* node exists, and its query is under way.  (An alias that could not be
\* followed leaves contexts without a node.)
WaitersListed ==
  /\ \A n \in DOMAIN s.node : \A i \in DOMAIN s.node[n].waiting :
       LET c == s.node[n].waiting[i]
       IN  /\ s.ctx[c].waits /\ s.ctx[c].node = n /\ n \in ToSet(s.resend)
           /\ \A j \in DOMAIN s.node[n].waiting : s.node[n].waiting[j] = c => i = j
  /\ \A c \in Ctx : s.ctx[c].waits =>
       IF s.ctx[c].node = NULL THEN s.faults > 0
       ELSE s.ctx[c].node \in s.tree /\ c \in ToSet(s.node[s.ctx[c].node].waiting)

\* A loop over handlers uses its node to the end: what handlers do (expire old
\* nodes, ask again, be answered from the cache) frees neither the node nor the
\* contexts to come.
LoopsSafe ==
  /\ \A i \in DOMAIN s.stack :
       /\ s.stack[i].node # NULL => s.stack[i].node \in DOMAIN s.node
       /\ \A c \in ToSet(s.stack[i].list) : ~s.ctx[c].waits
  /\ \A i, j \in DOMAIN s.stack : i # j => ToSet(s.stack[i].list) \cap ToSet(s.stack[j].list) = {}

\* While a query is under way r->event is set, and not too late for any node of
\* the queue, though only its end is looked at.
TimerArmed ==
  \A n \in ToSet(s.resend) : s.timer # NULL /\ s.timer <= s.node[n].expire

\* Whoever waits waits for a query that is sent again at every resend, unless an
\* allocation failed or an answer was of no use: then nothing is asked any more,
\* and the name stays unknown as long as there is somebody waiting for it.
StillAsking ==
  s.faults = 0 =>
    \A n \in ToSet(s.resend) : s.node[n].query # 0 /\ Outstanding(s.node[n]) # {}

\* Every context that was given a timeout gets an answer or the timeout, also
\* where the alias it was to follow could not be asked for, and one without a
\* timeout waits at the same node.
ResolveEnds == \A c \in Ctx \ Untimed : s.ctx[c].waits ~> ~s.ctx[c].waits
=============================================================================
