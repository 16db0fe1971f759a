---------------------------- MODULE AbstractPool ----------------------------
(***************************************************************************)
(* What a client may rely on when it uses a memory pool, with no word about*)
(* blocks, headers, chunks or lists:                                       *)
(*   regions  the regions it holds (and the pool's own, which nobody else  *)
(*            may touch); each is [at, off, len, kind]                     *)
(*   slots    what it has registered, newest first: in each slot the       *)
(*            handler to be called, or None                                *)
(*   phase    "none", "open", "closing" (handlers are called), "handler"   *)
(*            (one runs), "freeing", "closed"                              *)
(***************************************************************************)
EXTENDS Integers, Sequences

CONSTANTS
  Handlers,   \* the handlers a client may register
  None        \* no handler

VARIABLES regions, slots, phase

absVars == <<regions, slots, phase>>

Meet(r, q) == r.at = q.at /\ r.off < q.off + q.len /\ q.off < r.off + r.len

Exclusive(S) == \A r, q \in S : r # q => ~Meet(r, q)

AbsInit == regions = {} /\ slots = <<>> /\ phase = "none"

Open == phase = "none" /\ phase' = "open" /\ UNCHANGED <<regions, slots>>

\* Memory is granted: nothing is taken away, and no byte has two holders.
Granted == regions \subseteq regions' /\ Exclusive(regions')

Grant ==
  /\ phase \in {"open", "handler"} /\ Granted
  /\ UNCHANGED <<slots, phase>>

\* Memory for a registration, which comes before the older ones.
AddSlot ==
  /\ phase = "open" /\ Granted
  /\ slots' = <<None>> \o slots
  /\ UNCHANGED phase

\* A handler is put into a registration; it has no other.
Register(h) ==
  /\ phase = "open"
  /\ \A k \in 1..Len(slots) : slots[k] # h
  /\ \E k \in 1..Len(slots) :
       slots[k] = None /\ slots' = [slots EXCEPT ![k] = h]
  /\ UNCHANGED <<regions, phase>>

\* One region goes back, on demand of the one who holds it.
Release ==
  /\ phase \in {"open", "handler"}
  /\ \E r \in regions : r.kind \in {"client", "raw"} /\ regions' = regions \ {r}
  /\ UNCHANGED <<slots, phase>>

\* All of it goes back at once.
Reset == phase = "open" /\ regions' = {} /\ UNCHANGED <<slots, phase>>

Close == phase = "open" /\ phase' = "closing" /\ UNCHANGED <<regions, slots>>

\* The newest handler is called, once, while all memory is still there.
Run ==
  /\ phase = "closing"
  /\ \E k \in 1..Len(slots) :
       /\ slots[k] # None /\ \A j \in 1..(k - 1) : slots[j] = None
       /\ slots' = [slots EXCEPT ![k] = None]
  /\ phase' = "handler"
  /\ UNCHANGED regions

Return == phase = "handler" /\ phase' = "closing" /\ UNCHANGED <<regions, slots>>

\* Memory goes only after the last handler.
FreeSome ==
  /\ phase = "closing" /\ \A k \in 1..Len(slots) : slots[k] = None
  /\ regions' \subseteq regions /\ phase' = "freeing"
  /\ UNCHANGED slots

FreeRest ==
  /\ phase = "freeing" /\ regions' = {} /\ phase' = "closed"
  /\ UNCHANGED slots

AbsNext ==
  \/ Open \/ Grant \/ AddSlot \/ Release \/ Reset \/ Close \/ Run \/ Return
  \/ FreeSome \/ FreeRest
  \/ \E h \in Handlers : Register(h)

AbsSpec == AbsInit /\ [][AbsNext]_absVars
=============================================================================
