--------------------------- MODULE ResourceManager ---------------------------
(***************************************************************************)
(* DefaultResourceManager of torvyn-resources: the resource table with its *)
(* generations, the ownership state machine, the per-component budgets and *)
(* the reverse indices by component and by flow.                           *)
(*                                                                         *)
(* One action per critical section.  The table and the indices are under   *)
(* one mutex; a budget is a counter of its own and the pool is lock-free,  *)
(* so allocate (reserve, take a buffer, enter it in the table) and release *)
(* (leave the table, hand the buffer back) are interleaved with the calls  *)
(* of other threads.  A call that is refused and changes nothing is not an *)
(* action.                                                                 *)
(*                                                                         *)
(* Buffers are of one tier: capacities matter only as the amount that is   *)
(* reserved and given back, one unit a buffer.  The pool is used through   *)
(* what FreeList promises.  The chain of vacant slots is the set of vacant *)
(* slots, and insert takes any of them.  Payloads are reduced to whose     *)
(* bytes a buffer holds.  The copy ledger is not modelled.                 *)
(***************************************************************************)
EXTENDS Integers, FiniteSets

CONSTANTS
  Thread,         \* threads that call the manager
  Component,      \* component ids
  Host,           \* OwnerId::Host
  Flow,           \* flow ids
  Pooled,         \* the pre-allocated buffers of the tier
  System,         \* bound: buffers the system allocator can provide
  NoBuffer, NoFlow,
  InitCapacity,   \* slots of a new table
  MaxSlots,       \* the table cannot grow beyond this (u32::MAX)
  MaxGeneration,  \* bound: reuses of a slot; the code's generation wraps at 2^32
  MaxBorrows,     \* bound: borrows of one buffer
  BudgetMax,      \* default_max, in buffers
  BudgetMod       \* number of values of a budget counter

Owner      == Component \cup {Host}
Buffer     == Pooled \cup System
Slot       == 1..MaxSlots
Generation == 0..MaxGeneration
Handle     == Slot \X Generation

Unregistered == -1

ASSUME ManagerAssumption ==
  /\ IsFiniteSet(Thread)
  /\ Host \notin Component
  /\ Pooled \cap System = {} /\ NoBuffer \notin Buffer
  /\ NoFlow \notin Flow
  /\ InitCapacity \in Nat \ {0} /\ MaxSlots \in Nat /\ InitCapacity <= MaxSlots
  /\ MaxGeneration \in Nat /\ MaxBorrows \in Nat
  /\ BudgetMax \in Nat /\ BudgetMod \in Nat /\ BudgetMax + 1 < BudgetMod

VARIABLES
  capacity,            \* slots of the table
  live,                \* the occupied slots
  generation,          \* of each slot, kept while it is vacant
  entry,               \* ResourceEntry of each slot
  componentResources,  \* reverse index by owner
  flowResources,       \* reverse index by flow
  budget,              \* current_owned_bytes of each registered component
  idle,                \* buffers in the pool, or not allocated
  pc,                  \* where each thread is in allocate or release
  call,                \* the arguments of that call, and its buffer
  \* history
  residue,             \* the allocations whose bytes a buffer holds
  issued               \* the handles ever returned by allocate

vars == <<capacity, live, generation, entry, componentResources, flowResources,
          budget, idle, pc, call, residue, issued>>

table == <<capacity, live, generation, entry>>
index == <<componentResources, flowResources>>

Entry == [owner : Owner, state : {"Owned", "Borrowed"}, borrows : 0..MaxBorrows,
          buffer : Buffer \cup {NoBuffer}, flow : Flow \cup {NoFlow}]
Call  == [owner : Owner, flow : Flow \cup {NoFlow}, buffer : Buffer \cup {NoBuffer}]

NoEntry == [owner |-> Host, state |-> "Owned", borrows |-> 0,
            buffer |-> NoBuffer, flow |-> NoFlow]
NoCall  == [owner |-> Host, flow |-> NoFlow, buffer |-> NoBuffer]

Rid(s) == <<s, generation[s]>>

(* ResourceTable::get and get_mut succeed.                                 *)
Resolves(h) == h[1] \in live /\ generation[h[1]] = h[2]

(* The threads that are in allocate on behalf of c.                        *)
Allocating(c) == {t \in Thread : pc[t] \in {"reserved", "taken"} /\ call[t].owner = c}

-----------------------------------------------------------------------------
(* Budgets.  The host and unregistered components have none.               *)

(* try_reserve of one buffer succeeds.                                     *)
CanReserve(o) ==
  o \in Component /\ budget[o] # Unregistered
    => (budget[o] + 1) % BudgetMod <= BudgetMax

(* Every registered budget changes by its share; fetch_sub wraps.          *)
Charge(delta) ==
  budget' = [c \in Component |-> IF budget[c] = Unregistered THEN Unregistered
                                 ELSE (budget[c] + delta[c]) % BudgetMod]

One(o) == [c \in Component |-> IF c = o THEN 1 ELSE 0]

(* What the owners of the slots S give back.                               *)
Share(S) == [c \in Component |-> 0 - Cardinality({s \in S : entry[s].owner = c})]

(* BudgetRegistry::register: a fresh counter, whatever was there.          *)
RegisterComponent(c) ==
  /\ budget' = [budget EXCEPT ![c] = 0]
  /\ UNCHANGED <<table, index, idle, pc, call, residue, issued>>

-----------------------------------------------------------------------------
(* The indices without the handles of the slots S.                         *)

WithoutOwner(S) ==
  [c \in Component |->
     componentResources[c] \ {Rid(s) : s \in {x \in S : entry[x].owner = c}}]

WithoutFlow(S) ==
  [f \in Flow |-> flowResources[f] \ {Rid(s) : s \in {x \in S : entry[x].flow = f}}]

(* ResourceTable::remove for each slot of S.                               *)
Leave(S) ==
  /\ live' = live \ S
  /\ entry' = [s \in Slot |-> IF s \in S THEN NoEntry ELSE entry[s]]
  /\ UNCHANGED <<capacity, generation>>

(* The buffers B are zeroed and go back to the pool or to the system.      *)
PutBack(B) ==
  /\ residue' = [b \in Buffer |-> IF b \in B THEN {} ELSE residue[b]]
  /\ idle' = idle \cup B

BuffersOf(S) == {entry[s].buffer : s \in S}

-----------------------------------------------------------------------------
Init ==
  /\ capacity = InitCapacity
  /\ live = {}
  /\ generation = [s \in Slot |-> 0]
  /\ entry = [s \in Slot |-> NoEntry]
  /\ componentResources = [c \in Component |-> {}]
  /\ flowResources = [f \in Flow |-> {}]
  /\ budget = [c \in Component |-> Unregistered]
  /\ idle = Buffer
  /\ pc = [t \in Thread |-> "idle"]
  /\ call = [t \in Thread |-> NoCall]
  /\ residue = [b \in Buffer |-> {}]
  /\ issued = {}

(* allocate: reserve the owner's budget, outside the lock ...              *)
AllocateReserve(t, o, f) ==
  /\ pc[t] = "idle"
  /\ CanReserve(o)
  /\ Charge(One(o))
  /\ call' = [call EXCEPT ![t] = [owner |-> o, flow |-> f, buffer |-> NoBuffer]]
  /\ pc' = [pc EXCEPT ![t] = "reserved"]
  /\ UNCHANGED <<table, index, idle, residue, issued>>

(* ... take a pooled buffer, or a fallback when the tier is exhausted ...  *)
AllocateTake(t) ==
  /\ pc[t] = "reserved"
  /\ \E b \in idle :
       /\ idle \cap Pooled # {} => b \in Pooled
       /\ idle' = idle \ {b}
       /\ call' = [call EXCEPT ![t].buffer = b]
  /\ pc' = [pc EXCEPT ![t] = "taken"]
  /\ UNCHANGED <<table, index, budget, residue, issued>>

(* ... or give up, keeping the reservation, when the system has none ...   *)
AllocateFails(t) ==
  /\ pc[t] = "reserved"
  /\ idle \cap Pooled = {}
  /\ pc' = [pc EXCEPT ![t] = "idle"]
  /\ call' = [call EXCEPT ![t] = NoCall]
  /\ UNCHANGED <<table, index, budget, idle, residue, issued>>

Vacant == (1..capacity) \ live

(* grow: an exhausted table doubles.                                       *)
Grown == IF Vacant = {} THEN 2 * capacity ELSE capacity

(* ... and enter it in the table and the indices.  A slot that is reused   *)
(* gets a new generation.                                                  *)
Enter(t, s, g) ==
  LET c == call[t] IN
  /\ capacity' = Grown
  /\ live' = live \cup {s}
  /\ generation' = [generation EXCEPT ![s] = g]
  /\ entry' = [entry EXCEPT ![s] = [owner |-> c.owner, state |-> "Owned",
                                    borrows |-> 0, buffer |-> c.buffer,
                                    flow |-> c.flow]]
  /\ componentResources' = [d \in Component |-> IF d = c.owner
                              THEN componentResources[d] \cup {<<s, g>>}
                              ELSE componentResources[d]]
  /\ flowResources' = [flowResources EXCEPT ![c.flow] = @ \cup {<<s, g>>}]
  /\ issued' = issued \cup {<<s, g>>}
  /\ pc' = [pc EXCEPT ![t] = "idle"]
  /\ call' = [call EXCEPT ![t] = NoCall]
  /\ UNCHANGED <<budget, idle, residue>>

SameGenerationMutant(t) ==
  /\ pc[t] = "taken"
  /\ Grown <= MaxSlots
  /\ \E s \in (1..Grown) \ live : Enter(t, s, generation[s])

AllocateInsert(t) ==
  /\ pc[t] = "taken"
  /\ Grown <= MaxSlots
  /\ \E s \in (1..Grown) \ live :
       generation[s] < MaxGeneration /\ Enter(t, s, generation[s] + 1)

BufferLostMutant(t) ==
  /\ pc[t] = "taken"
  /\ Grown > MaxSlots
  /\ Charge([c \in Component |-> 0 - One(call[t].owner)[c]])
  /\ pc' = [pc EXCEPT ![t] = "idle"]
  /\ call' = [call EXCEPT ![t] = NoCall]
  /\ UNCHANGED <<table, index, idle, residue, issued>>

(* The table is full: buffer and reservation are given back.               *)
AllocateRollback(t) ==
  /\ pc[t] = "taken"
  /\ Grown > MaxSlots
  /\ idle' = idle \cup {call[t].buffer}
  /\ Charge([c \in Component |-> 0 - One(call[t].owner)[c]])
  /\ pc' = [pc EXCEPT ![t] = "idle"]
  /\ call' = [call EXCEPT ![t] = NoCall]
  /\ UNCHANGED <<table, index, residue, issued>>

(* release: an unborrowed buffer leaves the table, on its owner's word ... *)
Release(t, h) ==
  LET s == h[1] IN
  /\ pc[t] = "idle"
  /\ Resolves(h)
  /\ entry[s].state = "Owned" /\ entry[s].borrows = 0
  /\ Leave({s})
  /\ componentResources' = WithoutOwner({s})
  /\ flowResources' = WithoutFlow({s})
  /\ Charge(Share({s}))
  /\ call' = [call EXCEPT ![t] = [NoCall EXCEPT !.buffer = entry[s].buffer]]
  /\ pc' = [pc EXCEPT ![t] = "returning"]
  /\ UNCHANGED <<idle, residue, issued>>

UnzeroedMutant(t) ==
  /\ pc[t] = "returning"
  /\ idle' = idle \cup {call[t].buffer}
  /\ pc' = [pc EXCEPT ![t] = "idle"]
  /\ call' = [call EXCEPT ![t] = NoCall]
  /\ UNCHANGED <<table, index, budget, residue, issued>>

(* ... and, outside the lock, is zeroed and goes back to the pool.         *)
ReleaseReturn(t) ==
  /\ pc[t] = "returning"
  /\ PutBack({call[t].buffer})
  /\ pc' = [pc EXCEPT ![t] = "idle"]
  /\ call' = [call EXCEPT ![t] = NoCall]
  /\ UNCHANGED <<table, index, budget, issued>>

StaleIndexMutant(h, to) ==
  LET s == h[1] IN
  /\ Resolves(h)
  /\ CanReserve(to)
  /\ entry[s].state = "Owned" /\ entry[s].borrows = 0
  /\ entry' = [entry EXCEPT ![s].owner = to]
  /\ Charge([c \in Component |-> One(to)[c] - One(entry[s].owner)[c]])
  /\ componentResources' = [c \in Component |-> IF c = to
                              THEN componentResources[c] \cup {h}
                              ELSE componentResources[c]]
  /\ UNCHANGED <<capacity, live, generation, flowResources, idle, pc, call, residue,
                 issued>>

(* transfer_ownership, by the owner of an unborrowed buffer.               *)
TransferOwnership(h, to) ==
  LET s == h[1] IN
  /\ Resolves(h)
  /\ CanReserve(to)
  /\ entry[s].state = "Owned" /\ entry[s].borrows = 0
  /\ entry' = [entry EXCEPT ![s].owner = to]
  /\ Charge([c \in Component |-> One(to)[c] - One(entry[s].owner)[c]])
  /\ componentResources' = [c \in Component |-> IF c = to
                              THEN WithoutOwner({s})[c] \cup {h}
                              ELSE WithoutOwner({s})[c]]
  /\ UNCHANGED <<capacity, live, generation, flowResources, idle, pc, call, residue,
                 issued>>

(* The recipient's budget is reserved before the checks that refuse the    *)
(* transfer (a borrow, or a caller who is not the owner), and stays so.    *)
TransferRefused(h, from, to) ==
  /\ Resolves(h)
  /\ CanReserve(to)
  /\ entry[h[1]].state # "Owned" \/ entry[h[1]].owner # from
  /\ Charge(One(to))
  /\ UNCHANGED <<table, index, idle, pc, call, residue, issued>>

BorrowStart(h) ==
  LET s == h[1] IN
  /\ Resolves(h)
  /\ entry[s].borrows < MaxBorrows
  /\ entry' = [entry EXCEPT ![s].borrows = @ + 1, ![s].state = "Borrowed"]
  /\ UNCHANGED <<capacity, live, generation, index, budget, idle, pc, call, residue,
                 issued>>

BorrowEnd(h) ==
  LET s == h[1] IN
  /\ Resolves(h)
  /\ entry[s].state = "Borrowed" /\ entry[s].borrows > 0
  /\ entry' = [entry EXCEPT ![s].borrows = @ - 1,
                 ![s].state = IF entry[s].borrows = 1 THEN "Owned" ELSE "Borrowed"]
  /\ UNCHANGED <<capacity, live, generation, index, budget, idle, pc, call, residue,
                 issued>>

(* write_payload, by the owner of an unborrowed buffer.                    *)
WritePayload(h) ==
  LET s == h[1] IN
  /\ Resolves(h)
  /\ entry[s].state = "Owned"
  /\ residue' = [residue EXCEPT ![entry[s].buffer] = @ \cup {h}]
  /\ UNCHANGED <<table, index, budget, idle, pc, call, issued>>

(* The slots that a walk over a set of indexed handles finds occupied.     *)
Indexed(hs) == {s \in live : Rid(s) \in hs}

(* force_reclaim: everything the component owns leaves the table, borrowed *)
(* or not, and its budget is dropped.                                      *)
ForceReclaim(c) ==
  LET S == Indexed(componentResources[c]) IN
  /\ Leave(S)
  /\ componentResources' = [componentResources EXCEPT ![c] = {}]
  /\ flowResources' = WithoutFlow(S)
  /\ PutBack(BuffersOf(S))
  /\ budget' = [budget EXCEPT ![c] = Unregistered]
  /\ UNCHANGED <<pc, call, issued>>

DoubleChargeMutant(f) ==
  LET S == Indexed(flowResources[f]) IN
  /\ Leave(S)
  /\ flowResources' = [flowResources EXCEPT ![f] = {}]
  /\ componentResources' = WithoutOwner(S)
  /\ Charge([c \in Component |-> 2 * Share(S)[c]])
  /\ PutBack(BuffersOf(S))
  /\ UNCHANGED <<pc, call, issued>>

(* reclaim_flow_buffers: everything of the flow leaves the table, whoever  *)
(* owns it.                                                                *)
ReclaimFlowBuffers(f) ==
  LET S == Indexed(flowResources[f]) IN
  /\ Leave(S)
  /\ flowResources' = [flowResources EXCEPT ![f] = {}]
  /\ componentResources' = WithoutOwner(S)
  /\ Charge(Share(S))
  /\ PutBack(BuffersOf(S))
  /\ UNCHANGED <<pc, call, issued>>

(* What the manager's callers owe it, for its budgets to be right: a       *)
(* component is registered when it is new and holds nothing, and is        *)
(* reclaimed when no allocation is under way on its behalf.                *)
IsNew(c) == budget[c] = Unregistered /\ componentResources[c] = {}
Quiet(c) == Allocating(c) = {}

Next ==
  \/ \E c \in Component : IsNew(c) /\ Quiet(c) /\ RegisterComponent(c)
  \/ \E c \in Component : Quiet(c) /\ ForceReclaim(c)
  \/ \E f \in Flow : ReclaimFlowBuffers(f)
  \/ \E t \in Thread :
       \/ \E o \in Owner, f \in Flow : AllocateReserve(t, o, f)
       \/ AllocateTake(t) \/ AllocateFails(t) \/ AllocateInsert(t)
       \/ AllocateRollback(t) \/ ReleaseReturn(t)
       \/ \E h \in issued : Release(t, h)
  \/ \E h \in issued :
       \/ \E to \in Owner : TransferOwnership(h, to)
       \/ \E from, to \in Owner : TransferRefused(h, from, to)
       \/ BorrowStart(h) \/ BorrowEnd(h) \/ WritePayload(h)

Spec == Init /\ [][Next]_vars
-----------------------------------------------------------------------------
(* Properties.                                                             *)

TypeOK ==
  /\ capacity \in Slot
  /\ live \subseteq 1..capacity
  /\ generation \in [Slot -> Generation]
  /\ entry \in [Slot -> Entry]
  /\ componentResources \in [Component -> SUBSET Handle]
  /\ flowResources \in [Flow -> SUBSET Handle]
  /\ budget \in [Component -> {Unregistered} \cup 0..(BudgetMod - 1)]
  /\ idle \subseteq Buffer
  /\ pc \in [Thread -> {"idle", "reserved", "taken", "returning"}]
  /\ call \in [Thread -> Call]
  /\ residue \in [Buffer -> SUBSET Handle]
  /\ issued \subseteq Handle

(* The reverse indices say exactly what the table says: a component's set  *)
(* is what it owns, a flow's set what was allocated for it.  A reclaim     *)
(* that walks an index therefore misses nothing and takes nothing else.    *)
IndicesExact ==
  /\ \A c \in Component :
       componentResources[c] = {Rid(s) : s \in {x \in live : entry[x].owner = c}}
  /\ \A f \in Flow :
       flowResources[f] = {Rid(s) : s \in {x \in live : entry[x].flow = f}}

(* A registered budget covers what the component holds and what it is      *)
(* allocating, so that giving back never takes the counter below zero; and *)
(* it never exceeds the limit.                                             *)
BudgetCovers ==
  \A c \in Component : budget[c] # Unregistered =>
    /\ Cardinality(componentResources[c]) + Cardinality(Allocating(c)) <= budget[c]
    /\ budget[c] <= BudgetMax

InHand == {t \in Thread : pc[t] \in {"taken", "returning"}}

(* Every buffer is in one place: idle, in one entry of the table, or in    *)
(* the hands of one thread that is allocating or releasing.  None is lost  *)
(* and none is given out twice, by reclaims that race releases either.     *)
BuffersConserved ==
  /\ \A s \in live : entry[s].buffer \in Buffer \ idle
  /\ \A t \in InHand : call[t].buffer \in Buffer \ idle
  /\ \A s, r \in live : entry[s].buffer = entry[r].buffer => s = r
  /\ \A t, u \in InHand : call[t].buffer = call[u].buffer => t = u
  /\ \A s \in live, t \in InHand : entry[s].buffer # call[t].buffer
  /\ \A b \in Buffer \ idle : \/ \E s \in live : entry[s].buffer = b
                              \/ \E t \in InHand : call[t].buffer = b

(* A buffer in use holds only bytes written under its own handle: nothing  *)
(* of an earlier allocation survives a release or a reclaim.               *)
NoResidue ==
  /\ \A s \in live : residue[entry[s].buffer] \subseteq {Rid(s)}
  /\ \A b \in idle : residue[b] = {}

(* What the proofs need besides: the handles of occupied slots have been   *)
(* issued, and no handle of a later generation than the slot's has ...     *)
HandlesKnown ==
  /\ \A s \in live : Rid(s) \in issued
  /\ \A h \in issued : h[2] <= generation[h[1]]

(* ... a buffer on its way into the table is clean ...                     *)
TakenClean == \A t \in Thread : pc[t] = "taken" => residue[call[t].buffer] = {}

(* ... and budgets cover the slots that a component owns.                  *)
Owned(c) == {s \in live : entry[s].owner = c}

BudgetCoversSlots ==
  \A c \in Component : budget[c] # Unregistered =>
    /\ Cardinality(Owned(c)) + Cardinality(Allocating(c)) <= budget[c]
    /\ budget[c] <= BudgetMax

IndInv == /\ TypeOK /\ IndicesExact /\ BudgetCoversSlots /\ BuffersConserved
          /\ NoResidue /\ HandlesKnown /\ TakenClean

(* The manager implements LinearOwnership: a handle is issued once, has    *)
(* one owner while its buffer is in the table, and is dead ever after.     *)
HolderOf(h) == IF Resolves(h) THEN entry[h[1]].owner
               ELSE IF h \in issued THEN "dead" ELSE "unissued"

Linear == INSTANCE LinearOwnership
            WITH holder <- [h \in Handle |-> HolderOf(h)],
                 Unissued <- "unissued", Dead <- "dead"
ImplementsLinearOwnership == Linear!Spec
=============================================================================
