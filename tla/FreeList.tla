------------------------------ MODULE FreeList ------------------------------
(***************************************************************************)
(* What a tier of the buffer pool promises: every slot is in one place,    *)
(* namely free, in the hands of one thread, or out in use; a thread takes  *)
(* a free slot if there is one and falls back to the system allocator only *)
(* when there is none.                                                     *)
(***************************************************************************)
EXTENDS Naturals

CONSTANTS Thread, NumSlots, MaxFallback

Slot == 1..NumSlots
None == 0

VARIABLES
  hand,        \* the slot a thread has in hand, or None
  out,         \* slots in use
  fallbacks    \* buffers in use that came from the system allocator

vars == <<hand, out, fallbacks>>

Free == {s \in Slot : s \notin out /\ \A t \in Thread : hand[t] # s}

Init ==
  /\ hand = [t \in Thread |-> None]
  /\ out = {}
  /\ fallbacks = 0

Take(t) ==
  /\ hand[t] = None
  /\ \E s \in Free : hand' = [hand EXCEPT ![t] = s]
  /\ UNCHANGED <<out, fallbacks>>

HandOut(t) ==
  /\ hand[t] # None
  /\ out' = out \cup {hand[t]}
  /\ hand' = [hand EXCEPT ![t] = None]
  /\ UNCHANGED fallbacks

Claim(t) ==
  /\ hand[t] = None
  /\ \E s \in out : hand' = [hand EXCEPT ![t] = s] /\ out' = out \ {s}
  /\ UNCHANGED fallbacks

GiveBack(t) ==
  /\ hand[t] # None
  /\ hand' = [hand EXCEPT ![t] = None]
  /\ UNCHANGED <<out, fallbacks>>

FallBack ==
  /\ Free = {}
  /\ fallbacks < MaxFallback
  /\ fallbacks' = fallbacks + 1
  /\ UNCHANGED <<hand, out>>

FreeFallback ==
  /\ fallbacks > 0
  /\ fallbacks' = fallbacks - 1
  /\ UNCHANGED <<hand, out>>

Next ==
  \/ \E t \in Thread : Take(t) \/ HandOut(t) \/ Claim(t) \/ GiveBack(t)
  \/ FallBack \/ FreeFallback

Spec == Init /\ [][Next]_vars
=============================================================================
