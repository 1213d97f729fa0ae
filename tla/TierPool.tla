------------------------------ MODULE TierPool ------------------------------
(***************************************************************************)
(* TierPool of torvyn-resources: one tier of the buffer pool, a lock-free  *)
(* Treiber stack of slots, at the granularity of its atomic operations.    *)
(* Threads allocate and release concurrently, outside the resource         *)
(* manager's mutex.                                                        *)
(*                                                                         *)
(* The head packs a tag and a slot index; every swing of the head bumps    *)
(* the tag, which wraps at TagMod (2^32 in the code).  As the code's own    *)
(* note on ABA does, the model assumes that fewer than TagMod swings       *)
(* happen between a thread's load of the head and its compare-and-swap.    *)
(* Slots are numbered from 1, and None stands for STACK_EMPTY.             *)
(***************************************************************************)
EXTENDS Naturals, Sequences, FiniteSets

CONSTANTS
  Thread,        \* threads that use the pool
  NumSlots,      \* pool_size, or 0 for a tier that is not pre-allocated
  TagMod,        \* number of values of the tag
  CountMod,      \* number of values of the availability counter
  MaxFallback    \* bound: system-allocator buffers in use at a time

ASSUME PoolAssumption ==
  /\ NumSlots \in Nat
  /\ TagMod \in Nat \ {0}
  /\ CountMod \in Nat /\ CountMod > NumSlots
  /\ MaxFallback \in Nat

Slot == 1..NumSlots
None == 0
Index == Slot \cup {None}

VARIABLES
  freeTop,       \* packed head: tag and index
  nextFree,      \* next_free of each slot
  available,     \* the metrics counter
  pc,            \* where each thread is in pop or push
  head,          \* the head a thread loaded
  next,          \* the next_free a popping thread loaded
  hand,          \* the slot a thread has popped, or is pushing
  out,           \* slots in use: entered in the resource table
  fallbacks,     \* buffers in use that came from the system allocator
  \* history
  stack,         \* the free slots, bottom first
  age            \* swings of the head since a thread loaded it

vars == <<freeTop, nextFree, available, pc, head, next, hand, out, fallbacks,
          stack, age>>

HeadWord == [tag : 0..(TagMod - 1), index : Index]
NoHead   == [tag |-> 0, index |-> None]

Pcs == {"idle", "popLoad", "popNext", "popSwing", "popCount",
        "pushLoad", "pushLink", "pushSwing", "pushCount"}

(* Between the load of the head and the compare-and-swap.                  *)
InWindow(t) == pc[t] \in {"popNext", "popSwing", "pushLink", "pushSwing"}

Top(s) == IF s = <<>> THEN None ELSE s[Len(s)]

-----------------------------------------------------------------------------
UntaggedMutant(h, i)  == [tag |-> h.tag, index |-> i]
UnwrappedMutant(h, i) == [tag |-> h.tag + 1, index |-> i]

(* make_head with the tag of h bumped, wrapping.                           *)
Swung(h, i) == [tag   |-> IF h.tag + 1 = TagMod THEN 0 ELSE h.tag + 1,
                index |-> i]

(* TierPool::new: the pre-allocated slots are linked in order, slot 1 on   *)
(* top.                                                                    *)
Init ==
  /\ freeTop = [tag |-> 0, index |-> IF NumSlots > 0 THEN 1 ELSE None]
  /\ nextFree = [s \in Slot |-> IF s < NumSlots THEN s + 1 ELSE None]
  /\ available = NumSlots
  /\ pc = [t \in Thread |-> "idle"]
  /\ head = [t \in Thread |-> NoHead]
  /\ next = [t \in Thread |-> None]
  /\ hand = [t \in Thread |-> None]
  /\ out = {}
  /\ fallbacks = 0
  /\ stack = [i \in 1..NumSlots |-> NumSlots + 1 - i]
  /\ age = [t \in Thread |-> 0]

(* Load the head and start a window.                                       *)
LoadHead(t) ==
  /\ head' = [head EXCEPT ![t] = freeTop]
  /\ age' = [age EXCEPT ![t] = 0]

(* The window is over, and with it the thread's copies of head and link.   *)
Forget(t) ==
  /\ head' = [head EXCEPT ![t] = NoHead]
  /\ next' = [next EXCEPT ![t] = None]

(* The compare-and-swap succeeds: the head is what the thread loaded, tag  *)
(* included.                                                               *)
Swing(t, index) ==
  /\ freeTop = head[t]
  /\ \A u \in Thread : u # t /\ InWindow(u) => age[u] < TagMod - 1
  /\ freeTop' = Swung(head[t], index)
  /\ age' = [u \in Thread |-> IF u # t /\ InWindow(u) THEN age[u] + 1 ELSE 0]
  /\ Forget(t)

(* The compare-and-swap fails, for cause or spuriously (it is the weak     *)
(* one).                                                                   *)
Miss(t) ==
  /\ age' = [age EXCEPT ![t] = 0]
  /\ Forget(t)

(* pop: load the head; an empty stack sends BufferPoolSet::allocate to the *)
(* system allocator, which may be out of memory ...                        *)
PopLoad(t) ==
  /\ pc[t] \in {"idle", "popLoad"}
  /\ freeTop.index # None
  /\ LoadHead(t)
  /\ pc' = [pc EXCEPT ![t] = "popNext"]
  /\ UNCHANGED <<freeTop, nextFree, available, next, hand, out, fallbacks, stack>>

MissedMutant(t) ==
  /\ pc[t] = "popSwing" /\ freeTop # head[t]
  /\ fallbacks < MaxFallback
  /\ fallbacks' = fallbacks + 1
  /\ Miss(t)
  /\ pc' = [pc EXCEPT ![t] = "idle"]
  /\ UNCHANGED <<freeTop, nextFree, available, hand, out, stack>>

PopExhausted(t) ==
  /\ pc[t] \in {"idle", "popLoad"}
  /\ freeTop.index = None
  /\ \/ fallbacks < MaxFallback /\ fallbacks' = fallbacks + 1
     \/ UNCHANGED fallbacks
  /\ pc' = [pc EXCEPT ![t] = "idle"]
  /\ UNCHANGED <<freeTop, nextFree, available, head, next, hand, out, stack, age>>

(* ... otherwise load the link of the top slot, which by now may be        *)
(* somebody else's ...                                                     *)
PopNext(t) ==
  /\ pc[t] = "popNext"
  /\ next' = [next EXCEPT ![t] = nextFree[head[t].index]]
  /\ pc' = [pc EXCEPT ![t] = "popSwing"]
  /\ UNCHANGED <<freeTop, nextFree, available, head, hand, out, fallbacks, stack,
                 age>>

(* ... and swing the head to it.                                           *)
PopSwing(t) ==
  /\ pc[t] = "popSwing"
  /\ Swing(t, next[t])
  /\ hand' = [hand EXCEPT ![t] = head[t].index]
  /\ stack' = SubSeq(stack, 1, Len(stack) - 1)
  /\ pc' = [pc EXCEPT ![t] = "popCount"]
  /\ UNCHANGED <<nextFree, available, out, fallbacks>>

(* A miss starts over.                                                     *)
PopRetry(t) ==
  /\ pc[t] = "popSwing"
  /\ Miss(t)
  /\ pc' = [pc EXCEPT ![t] = "popLoad"]
  /\ UNCHANGED <<freeTop, nextFree, available, hand, out, fallbacks, stack>>

(* Count, and hand the buffer to the caller.                               *)
PopCount(t) ==
  /\ pc[t] = "popCount"
  /\ available' = IF available = 0 THEN CountMod - 1 ELSE available - 1
  /\ out' = out \cup {hand[t]}
  /\ hand' = [hand EXCEPT ![t] = None]
  /\ pc' = [pc EXCEPT ![t] = "idle"]
  /\ UNCHANGED <<freeTop, nextFree, head, next, fallbacks, stack, age>>

(* BufferPoolSet::release of a buffer that the caller has just removed     *)
(* from the resource table; a fallback buffer goes back to the system.     *)
PushBegin(t) ==
  /\ pc[t] = "idle"
  /\ \E s \in out : /\ hand' = [hand EXCEPT ![t] = s]
                    /\ out' = out \ {s}
  /\ pc' = [pc EXCEPT ![t] = "pushLoad"]
  /\ UNCHANGED <<freeTop, nextFree, available, head, next, fallbacks, stack, age>>

ReleaseFallback(t) ==
  /\ pc[t] = "idle"
  /\ fallbacks > 0
  /\ fallbacks' = fallbacks - 1
  /\ UNCHANGED <<freeTop, nextFree, available, pc, head, next, hand, out, stack,
                 age>>

PushLoad(t) ==
  /\ pc[t] = "pushLoad"
  /\ LoadHead(t)
  /\ pc' = [pc EXCEPT ![t] = "pushLink"]
  /\ UNCHANGED <<freeTop, nextFree, available, next, hand, out, fallbacks, stack>>

UnlinkedMutant(t) ==
  /\ pc[t] = "pushLink"
  /\ pc' = [pc EXCEPT ![t] = "pushSwing"]
  /\ UNCHANGED <<freeTop, nextFree, available, head, next, hand, out, fallbacks,
                 stack, age>>

PushLink(t) ==
  /\ pc[t] = "pushLink"
  /\ nextFree' = [nextFree EXCEPT ![hand[t]] = head[t].index]
  /\ pc' = [pc EXCEPT ![t] = "pushSwing"]
  /\ UNCHANGED <<freeTop, available, head, next, hand, out, fallbacks, stack, age>>

PushSwing(t) ==
  /\ pc[t] = "pushSwing"
  /\ Swing(t, hand[t])
  /\ stack' = Append(stack, hand[t])
  /\ hand' = [hand EXCEPT ![t] = None]
  /\ pc' = [pc EXCEPT ![t] = "pushCount"]
  /\ UNCHANGED <<nextFree, available, out, fallbacks>>

PushRetry(t) ==
  /\ pc[t] = "pushSwing"
  /\ Miss(t)
  /\ pc' = [pc EXCEPT ![t] = "pushLoad"]
  /\ UNCHANGED <<freeTop, nextFree, available, hand, out, fallbacks, stack>>

UncountedMutant(t) ==
  /\ pc[t] = "pushCount"
  /\ pc' = [pc EXCEPT ![t] = "idle"]
  /\ UNCHANGED <<freeTop, nextFree, available, head, next, hand, out, fallbacks,
                 stack, age>>

PushCount(t) ==
  /\ pc[t] = "pushCount"
  /\ available' = IF available = CountMod - 1 THEN 0 ELSE available + 1
  /\ pc' = [pc EXCEPT ![t] = "idle"]
  /\ UNCHANGED <<freeTop, nextFree, head, next, hand, out, fallbacks, stack, age>>

Pop(t)  == PopLoad(t) \/ PopExhausted(t) \/ PopNext(t) \/ PopSwing(t)
           \/ PopRetry(t) \/ PopCount(t)
Push(t) == PushBegin(t) \/ ReleaseFallback(t) \/ PushLoad(t) \/ PushLink(t)
           \/ PushSwing(t) \/ PushRetry(t) \/ PushCount(t)

Next == \E t \in Thread : Pop(t) \/ Push(t)

Spec == Init /\ [][Next]_vars
-----------------------------------------------------------------------------
(* Properties.                                                             *)

TypeOK ==
  /\ freeTop \in HeadWord
  /\ nextFree \in [Slot -> Index]
  /\ available \in 0..(CountMod - 1)
  /\ pc \in [Thread -> Pcs]
  /\ head \in [Thread -> HeadWord]
  /\ next \in [Thread -> Index]
  /\ hand \in [Thread -> Index]
  /\ out \subseteq Slot
  /\ fallbacks \in 0..MaxFallback
  /\ stack \in Seq(Slot)
  /\ age \in [Thread -> 0..(TagMod - 1)]

Free == {stack[i] : i \in DOMAIN stack}

(* Every slot is in exactly one place: once on the free list, out in use,  *)
(* or in the hands of one thread.  No buffer has two owners and none is    *)
(* leaked, whatever the interleaving of pops and pushes.                   *)
SingleOwner ==
  /\ \A i, j \in DOMAIN stack : stack[i] = stack[j] => i = j
  /\ \A t, u \in Thread : hand[t] = hand[u] /\ hand[t] # None => t = u
  /\ \A t \in Thread : hand[t] \notin Free /\ hand[t] \notin out
  /\ Free \cap out = {}
  /\ \A s \in Slot : s \in Free \/ s \in out \/ \E t \in Thread : hand[t] = s

(* The head and the links spell out the free list: starting at freeTop and *)
(* following next_free visits the free slots, once each, and ends.         *)
ListIntact ==
  /\ freeTop.index = Top(stack)
  /\ \A i \in DOMAIN stack :
       nextFree[stack[i]] = IF i = 1 THEN None ELSE stack[i - 1]

(* With no pop or push between its swing and its count, the availability   *)
(* counter is the number of free slots, although it is updated after the   *)
(* swing and may wrap below zero in between.                               *)
AvailableExact ==
  (\A t \in Thread : pc[t] \notin {"popCount", "pushCount"})
    => available = Len(stack)

(* The tier implements FreeList: each pop that returns a slot takes one    *)
(* that nobody has, and a fallback happens only when no slot is free.      *)
Ownership == INSTANCE FreeList
ImplementsFreeList == Ownership!Spec
-----------------------------------------------------------------------------
(* The inductive strengthening that module TierPoolProofs proves.          *)

(* A thread has a slot in hand from the swing of its pop to the count, and *)
(* from the start of its push to the swing.                                *)
HandInv ==
  \A t \in Thread :
    hand[t] # None <=> pc[t] \in {"popCount", "pushLoad", "pushLink", "pushSwing"}

(* The tag tells how old a thread's copy of the head is, up to wrapping.   *)
TagInv ==
  \A t \in Thread : InWindow(t) =>
    \/ freeTop.tag = head[t].tag + age[t]
    \/ freeTop.tag = head[t].tag + age[t] - TagMod

(* A copy of the head that no swing has aged is exact, and so is the link  *)
(* loaded after it; a slot about to be pushed is linked to the copy.       *)
CopyInv ==
  \A t \in Thread :
    /\ InWindow(t) /\ age[t] = 0 => head[t] = freeTop
    /\ pc[t] \in {"popNext", "popSwing"} => head[t].index # None
    /\ pc[t] = "popSwing" /\ age[t] = 0 => next[t] = nextFree[head[t].index]
    /\ pc[t] = "pushSwing" => nextFree[hand[t]] = head[t].index

IndInv ==
  TypeOK /\ SingleOwner /\ ListIntact /\ HandInv /\ TagInv /\ CopyInv
=============================================================================
