-------------------------- MODULE BufferFlowProofs --------------------------
(***************************************************************************)
(* Proofs about BufferFlow, for any number of flows, stages, buffers and   *)
(* slots: no buffer has two holders, and if component ids are distinct the *)
(* flows use the manager as it wants to be used, hold only live handles,   *)
(* lose none, and leave nothing behind.                                    *)
(***************************************************************************)
EXTENDS BufferFlow, ResourceManagerProofs

-----------------------------------------------------------------------------
(* The tables and the queues.                                              *)

SetTable(f, k, X) == tables' = [tables EXCEPT ![f][k] = X]
SetQueue(f, k, X) == queue' = [queue EXCEPT ![f][k] = X]

(* A step that writes one table leaves the others alone.                   *)
LEMMA TablePut ==
  ASSUME FlowTypeOK, NEW f \in Thread, NEW k \in StagesOf(f), NEW X, SetTable(f, k, X)
  PROVE  /\ tables' = [g \in Thread |-> tables'[g]]
         /\ tables'[f] = [l \in StagesOf(f) |-> IF l = k THEN X ELSE tables[f][l]]
         /\ \A g \in Thread : g # f => tables'[g] = tables[g]
<1>1. /\ tables = [g \in Thread |-> tables[g]]
      /\ tables[f] \in [StagesOf(f) -> SUBSET Wrapper]
  BY DEF FlowTypeOK, HoldingsOK
<1>2. tables' = [g \in Thread |-> IF g = f THEN [tables[f] EXCEPT ![k] = X] ELSE tables[g]]
  BY <1>1 DEF SetTable
<1>3. [tables[f] EXCEPT ![k] = X] = [l \in StagesOf(f) |-> IF l = k THEN X ELSE tables[f][l]]
  BY <1>1
<1> QED BY <1>2, <1>3

(* The same, stage by stage.                                               *)
LEMMA TableAt ==
  ASSUME FlowTypeOK, NEW f \in Thread, NEW k \in StagesOf(f), NEW X, SetTable(f, k, X)
  PROVE  \A g \in Thread : \A l \in StagesOf(g) :
           tables'[g][l] = IF g = f /\ l = k THEN X ELSE tables[g][l]
<1>1. tables'[f] = [m \in StagesOf(f) |-> IF m = k THEN X ELSE tables[f][m]]
  BY TablePut
<1>2. \A g \in Thread : g # f => tables'[g] = tables[g]
  BY TablePut
<1> QED BY <1>1, <1>2

(* So does one that writes a queue.                                        *)
LEMMA QueuePut ==
  ASSUME FlowTypeOK, NEW f \in Thread, NEW k \in StagesOf(f), NEW X, SetQueue(f, k, X)
  PROVE  /\ queue' = [g \in Thread |-> queue'[g]]
         /\ queue'[f] = [l \in StagesOf(f) |-> IF l = k THEN X ELSE queue[f][l]]
         /\ \A g \in Thread : g # f => queue'[g] = queue[g]
<1>1. /\ queue = [g \in Thread |-> queue[g]]
      /\ queue[f] \in [StagesOf(f) -> Seq(issued)]
  BY DEF FlowTypeOK, HoldingsOK
<1>2. queue' = [g \in Thread |-> IF g = f THEN [queue[f] EXCEPT ![k] = X] ELSE queue[g]]
  BY <1>1 DEF SetQueue
<1>3. [queue[f] EXCEPT ![k] = X] = [l \in StagesOf(f) |-> IF l = k THEN X ELSE queue[f][l]]
  BY <1>1
<1> QED BY <1>2, <1>3

(* The same, stage by stage.                                               *)
LEMMA QueueAt ==
  ASSUME FlowTypeOK, NEW f \in Thread, NEW k \in StagesOf(f), NEW X, SetQueue(f, k, X)
  PROVE  \A g \in Thread : \A l \in StagesOf(g) :
           queue'[g][l] = IF g = f /\ l = k THEN X ELSE queue[g][l]
<1>1. queue'[f] = [m \in StagesOf(f) |-> IF m = k THEN X ELSE queue[f][m]]
  BY QueuePut
<1>2. \A g \in Thread : g # f => queue'[g] = queue[g]
  BY QueuePut
<1> QED BY <1>1, <1>2

(* The places of the wrappers and of the queued elements, spelt out.       *)
LEMMA PlacesOf ==
  ASSUME NEW f \in Thread
  PROVE  /\ \A p : p \in WrapperPlaces(f) <=> \E k \in StagesOf(f) : \E w \in tables[f][k] : p = <<f, k, w>>
         /\ \A p : p \in QueuePlaces(f) <=>
              \E k \in StagesOf(f) : \E i \in DOMAIN queue[f][k] : p = <<f, k, i>>
<1>1. \A p : p \in WrapperPlaces(f) <=> \E k \in StagesOf(f) : \E w \in tables[f][k] : p = <<f, k, w>>
  BY DEF WrapperPlaces
<1>2. \A p : p \in QueuePlaces(f) <=>
              \E k \in StagesOf(f) : \E i \in DOMAIN queue[f][k] : p = <<f, k, i>>
  BY DEF QueuePlaces
<1> QED BY <1>1, <1>2

(* OneHolder in three parts, of any tables T and queues Q.                 *)
WrappersApart(T) ==
  \A f, g \in Thread : \A k \in StagesOf(f), l \in StagesOf(g) :
    \A v \in T[f][k], w \in T[g][l] : v.handle = w.handle => f = g /\ k = l /\ v = w
QueuedApart(Q) ==
  \A f, g \in Thread : \A k \in StagesOf(f), l \in StagesOf(g) :
    \A i \in 1..Len(Q[f][k]), j \in 1..Len(Q[g][l]) :
      Q[f][k][i] = Q[g][l][j] => f = g /\ k = l /\ i = j
BothApart(T, Q) ==
  \A f, g \in Thread : \A k \in StagesOf(f), l \in StagesOf(g) :
    \A w \in T[f][k], i \in 1..Len(Q[g][l]) : w.handle # Q[g][l][i]

Apart(T, Q) == WrappersApart(T) /\ QueuedApart(Q) /\ BothApart(T, Q)

(* Apart is OneHolder.                                                     *)
LEMMA ApartOneHolder ==
  ASSUME FlowTypeOK, Apart(tables, queue)
  PROVE  OneHolder
<1> DEFINE wrappers == UNION {WrapperPlaces(f) : f \in Thread}
           queued   == UNION {QueuePlaces(f) : f \in Thread}
<1>1. \A p \in wrappers : \E f \in Thread : \E k \in StagesOf(f) : \E w \in tables[f][k] : p = <<f, k, w>>
  BY PlacesOf
<1>2. \A p \in queued : \E f \in Thread : \E k \in StagesOf(f) : \E i \in 1..Len(queue[f][k]) : p = <<f, k, i>>
  <2>1. \A f \in Thread : \A k \in StagesOf(f) : DOMAIN queue[f][k] = 1..Len(queue[f][k])
    BY DEF FlowTypeOK, HoldingsOK
  <2> QED BY <2>1, PlacesOf
<1> HIDE DEF wrappers, queued
<1>3. ASSUME NEW p \in wrappers, NEW q \in wrappers, p[3].handle = q[3].handle PROVE p = q
  <2>1. PICK f, k, v : f \in Thread /\ k \in StagesOf(f) /\ v \in tables[f][k] /\ p = <<f, k, v>>
    BY <1>1
  <2>2. PICK g, l, w : g \in Thread /\ l \in StagesOf(g) /\ w \in tables[g][l] /\ q = <<g, l, w>>
    BY <1>1
  <2> QED BY <1>3, <2>1, <2>2 DEF Apart, WrappersApart
<1>4. ASSUME NEW p \in queued, NEW q \in queued,
             queue[p[1]][p[2]][p[3]] = queue[q[1]][q[2]][q[3]]
      PROVE  p = q
  <2>1. PICK f, k, i : f \in Thread /\ k \in StagesOf(f) /\ i \in 1..Len(queue[f][k]) /\ p = <<f, k, i>>
    BY <1>2
  <2>2. PICK g, l, j : g \in Thread /\ l \in StagesOf(g) /\ j \in 1..Len(queue[g][l]) /\ q = <<g, l, j>>
    BY <1>2
  <2> QED BY <1>4, <2>1, <2>2 DEF Apart, QueuedApart
<1>5. ASSUME NEW p \in wrappers, NEW q \in queued
      PROVE  p[3].handle # queue[q[1]][q[2]][q[3]]
  <2>1. PICK f, k, v : f \in Thread /\ k \in StagesOf(f) /\ v \in tables[f][k] /\ p = <<f, k, v>>
    BY <1>1
  <2>2. PICK g, l, j : g \in Thread /\ l \in StagesOf(g) /\ j \in 1..Len(queue[g][l]) /\ q = <<g, l, j>>
    BY <1>2
  <2> QED BY <2>1, <2>2 DEF Apart, BothApart
<1> QED BY <1>3, <1>4, <1>5 DEF OneHolder, wrappers, queued

-----------------------------------------------------------------------------
(* The shape of the flows.                                                 *)

PcType == pc \in [Thread -> {"idle", "reserved", "taken", "returning"}]

(* A task is in an allocation only while it calls a stage.                 *)
AllocInv == \A f \in Thread : pc[f] \in {"reserved", "taken"} => at[f] # 0

(* Each step of a flow calls the manager at most once.                     *)
LEMMA ManagerCases ==
  ASSUME NEW f \in Thread, FlowStep(f)
  PROVE  \/ UNCHANGED vars
         \/ InstantiateNode(f) /\ RegisterComponent(IdOf[f][cursor[f] + 1])
         \/ GuestAllocate(f) /\ AllocateReserve(f, IdOf[f][at[f]],
                                  IF phase[f] = "starting" THEN Unassigned ELSE f)
         \/ GuestAllocated(f) /\ AllocateInsert(f)
         \/ ManagerStep(f)
         \/ GuestDrop(f) /\ \E w \in tables[f][at[f]] : Release(f, w.handle)
         \/ ReclaimInputElement(f) /\ Release(f, input[f])
         \/ ConvertOutputElement(f) /\ \E w \in tables[f][at[f]] : TransferOwnership(w.handle, Host)
         \/ ReapComponent(f) /\ ForceReclaim(IdOf[f][cursor[f] + 1])
         \/ ReapFlow(f) /\ ReclaimFlowBuffers(f)
<1>1. CASE \/ InitFails(f) \/ SpawnFlow(f) \/ InvokePull(f)
           \/ (\E k \in StagesOf(f) : InvokeWithInput(f, k))
           \/ GuestFreeze(f) \/ NoOutput(f) \/ InvocationTimeout(f) \/ DriverEnds(f)
  BY <1>1 DEF InitFails, SpawnFlow, InvokePull, InvokeWithInput, GuestFreeze, NoOutput,
              InvocationTimeout, DriverEnds
<1>2. CASE InstantiateNode(f)
  BY <1>2 DEF InstantiateNode
<1>3. CASE GuestAllocate(f)
  BY <1>3 DEF GuestAllocate
<1>4. CASE GuestAllocated(f)
  BY <1>4 DEF GuestAllocated
<1>5. CASE GuestDrop(f)
  BY <1>5 DEF GuestDrop
<1>6. CASE ReclaimInputElement(f)
  BY <1>6 DEF ReclaimInputElement
<1>7. CASE ConvertOutputElement(f)
  BY <1>7 DEF ConvertOutputElement
<1>8. CASE ReapComponent(f)
  BY <1>8 DEF ReapComponent
<1>9. CASE ReapFlow(f)
  BY <1>9 DEF ReapFlow
<1> QED BY <1>1, <1>2, <1>3, <1>4, <1>5, <1>6, <1>7, <1>8, <1>9 DEF FlowStep

(* No handle is forgotten, and a thread's place in the manager is its own. *)
LEMMA IssuedGrows ==
  ASSUME PcType, NEW f \in Thread, FlowStep(f)
  PROVE  /\ issued \subseteq issued'
         /\ PcType'
         /\ \A g \in Thread : g # f => pc'[g] = pc[g]
         /\ pc'[f] \in {"reserved", "taken"} => GuestAllocate(f) \/ pc[f] \in {"reserved", "taken"}
<1>1. CASE UNCHANGED vars
  BY <1>1 DEF vars, PcType
<1>2. CASE RegisterComponent(IdOf[f][cursor[f] + 1])
  BY <1>2 DEF RegisterComponent, PcType
<1>3. CASE GuestAllocate(f)
  BY <1>3 DEF GuestAllocate, AllocateReserve, PcType
<1>4. CASE AllocateInsert(f)
  BY <1>4 DEF AllocateInsert, Enter, PcType
<1>5. CASE ManagerStep(f)
  BY <1>5 DEF ManagerStep, AllocateTake, AllocateFails, AllocateRollback, ReleaseReturn, PcType
<1>6. ASSUME NEW h, Release(f, h)
      PROVE  /\ UNCHANGED issued /\ PcType' /\ \A g \in Thread : g # f => pc'[g] = pc[g]
             /\ pc'[f] \notin {"reserved", "taken"}
  BY <1>6 DEF Release, PcType
<1>7. ASSUME NEW h, TransferOwnership(h, Host) PROVE UNCHANGED <<issued, pc>>
  BY <1>7 DEF TransferOwnership
<1>8. ASSUME NEW c, ForceReclaim(c) PROVE UNCHANGED <<issued, pc>>
  BY <1>8 DEF ForceReclaim
<1>9. ASSUME ReclaimFlowBuffers(f) PROVE UNCHANGED <<issued, pc>>
  BY <1>9 DEF ReclaimFlowBuffers
<1>10. CASE UNCHANGED <<issued, pc>>
  BY <1>10 DEF PcType
<1> QED BY ManagerCases, <1>1, <1>2, <1>3, <1>4, <1>5, <1>6, <1>7, <1>8, <1>9, <1>10

(* What is typed by the handles issued so far stays so.                    *)
LEMMA TypeGrows ==
  ASSUME FlowTypeOK, issued \subseteq issued'
  PROVE  /\ Wrapper \subseteq Wrapper'
         /\ \A q \in Seq(issued) : q \in Seq(issued')
         /\ \A g \in Thread : /\ tables[g] \in [StagesOf(g) -> SUBSET (Wrapper')]
                              /\ queue[g] \in [StagesOf(g) -> Seq(issued')]
         /\ input \in [Thread -> issued' \cup {NoHandle}]
<1>1. Wrapper \subseteq Wrapper'
  BY DEF Wrapper
<1>2. ASSUME NEW q \in Seq(issued) PROVE q \in Seq(issued')
  <2>1. q \in [1..Len(q) -> issued'] /\ Len(q) \in Nat
    OBVIOUS
  <2> QED BY <2>1
<1>3. ASSUME NEW g \in Thread
      PROVE  tables[g] \in [StagesOf(g) -> SUBSET (Wrapper')] /\ queue[g] \in [StagesOf(g) -> Seq(issued')]
  <2>1. tables[g] \in [StagesOf(g) -> SUBSET Wrapper] /\ queue[g] \in [StagesOf(g) -> Seq(issued)]
    BY DEF FlowTypeOK, HoldingsOK
  <2>2. queue[g] \in [StagesOf(g) -> Seq(issued')]
    BY <1>2, <2>1
  <2> QED BY <1>1, <2>1, <2>2
<1>4. input \in [Thread -> issued' \cup {NoHandle}]
  BY DEF FlowTypeOK, HoldingsOK
<1> QED BY <1>1, <1>2, <1>3, <1>4

(* The scalars of the flows stay within their types.                       *)
LEMMA ScalarType ==
  ASSUME FlowTypeOK, NEW f \in Thread, FlowStep(f)
  PROVE  /\ phase' \in [Thread -> {"absent", "starting", "failed", "running", "ended", "reaped"}]
         /\ cursor' \in [Thread -> Nat] /\ \A g \in Thread : cursor'[g] \in 0..NumStages[g]
         /\ at' \in [Thread -> Nat] /\ \A g \in Thread : at'[g] \in 0..NumStages[g]
         /\ step' \in [Thread -> {"guest", "returned"}]
<1>0. /\ phase \in [Thread -> {"absent", "starting", "failed", "running", "ended", "reaped"}]
      /\ cursor \in [Thread -> Nat] /\ \A g \in Thread : cursor[g] \in 0..NumStages[g]
      /\ at \in [Thread -> Nat] /\ \A g \in Thread : at[g] \in 0..NumStages[g]
      /\ step \in [Thread -> {"guest", "returned"}]
      /\ \A g \in Thread : NumStages[g] \in Nat \ {0, 1}
  BY FlowAssumption DEF FlowTypeOK
<1>1. CASE InstantiateNode(f)
  <2>1. cursor[f] + 1 \in 0..NumStages[f] /\ cursor[f] + 1 \in Nat
    BY <1>0, <1>1 DEF InstantiateNode
  <2> QED BY <1>0, <1>1, <2>1 DEF InstantiateNode
<1>2. CASE InitFails(f) \/ SpawnFlow(f)
  BY <1>0, <1>2 DEF InitFails, SpawnFlow
<1>3. CASE InvokePull(f)
  <2>1. 1 \in 0..NumStages[f]
    BY <1>0
  <2> QED BY <1>0, <1>3, <2>1 DEF InvokePull
<1>4. ASSUME NEW k \in StagesOf(f), InvokeWithInput(f, k)
      PROVE  UNCHANGED <<phase, cursor>> /\ at' = [at EXCEPT ![f] = k] /\ step' = [step EXCEPT ![f] = "guest"]
  BY <1>4 DEF InvokeWithInput
<1>5. ASSUME NEW k \in StagesOf(f) PROVE k \in Nat /\ k \in 0..NumStages[f]
  BY <1>0 DEF StagesOf
<1>6. CASE \E k \in StagesOf(f) : InvokeWithInput(f, k)
  BY <1>0, <1>4, <1>5, <1>6
<1>7. CASE ConvertOutputElement(f) \/ NoOutput(f) \/ InvocationTimeout(f) \/ ReclaimInputElement(f)
  <2>1. /\ UNCHANGED <<phase, cursor>>
        /\ at' = at \/ at' = [at EXCEPT ![f] = 0]
        /\ step' = step \/ \E v \in {"guest", "returned"} : step' = [step EXCEPT ![f] = v]
    BY <1>7 DEF ConvertOutputElement, NoOutput, InvocationTimeout, ReclaimInputElement
  <2>2. at' \in [Thread -> Nat] /\ \A g \in Thread : at'[g] \in 0..NumStages[g]
    BY <1>0, <2>1
  <2>3. step' \in [Thread -> {"guest", "returned"}]
    BY <1>0, <2>1
  <2> QED BY <1>0, <2>1, <2>2, <2>3
<1>8. CASE DriverEnds(f)
  BY <1>0, <1>8 DEF DriverEnds
<1>9. CASE ReapComponent(f)
  <2>1. cursor[f] + 1 \in 0..NumStages[f] /\ cursor[f] + 1 \in Nat
    BY <1>0, <1>9 DEF ReapComponent
  <2> QED BY <1>0, <1>9, <2>1 DEF ReapComponent
<1>10. CASE ReapFlow(f)
  BY <1>0, <1>10 DEF ReapFlow
<1>11. CASE GuestAllocate(f) \/ GuestAllocated(f) \/ ManagerStep(f) \/ GuestFreeze(f) \/ GuestDrop(f)
  BY <1>0, <1>11 DEF GuestAllocate, GuestAllocated, ManagerStep, GuestFreeze, GuestDrop, flowVars
<1> QED BY <1>1, <1>2, <1>3, <1>6, <1>7, <1>8, <1>9, <1>10, <1>11 DEF FlowStep

(* What a step of flow f does with the handles the flows hold: nothing, it *)
(* drops those of f, takes a new one, or moves one.                        *)
Clears(f) ==
  /\ tables' = [tables EXCEPT ![f] = [k \in StagesOf(f) |-> {}]]
  /\ queue' = queue \/ queue' = [queue EXCEPT ![f] = [k \in StagesOf(f) |-> <<>>]]
Gains(f, h) ==
  /\ h \in issued' \ issued
  /\ Put(f, at[f], [handle |-> h, kind |-> "mutable"]) /\ UNCHANGED queue
Freezes(f, w) ==
  /\ w \in tables[f][at[f]] /\ w.kind = "mutable"
  /\ tables' = [tables EXCEPT ![f][at[f]] = (@ \ {w}) \cup {[w EXCEPT !.kind = "buffer"]}]
  /\ UNCHANGED queue
Loses(f, w) == Drop(f, at[f], w) /\ UNCHANGED queue
Lends(f, k) ==
  /\ k > 1 /\ queue[f][k - 1] # <<>>
  /\ Put(f, k, [handle |-> Head(queue[f][k - 1]), kind |-> "input"])
  /\ queue' = [queue EXCEPT ![f][k - 1] = Tail(@)]
Emits(f, w) ==
  /\ w \in tables[f][at[f]]
  /\ Drop(f, at[f], w)
  /\ queue' = [queue EXCEPT ![f][at[f]] = Append(@, w.handle)]

(* Each step of a flow does one of these.                                  *)
LEMMA HoldCases ==
  ASSUME FlowTypeOK, AllocInv, NEW f \in Thread, FlowStep(f)
  PROVE  \/ UNCHANGED <<tables, queue>>
         \/ Clears(f)
         \/ at[f] \in StagesOf(f) /\ \E h : Gains(f, h)
         \/ at[f] \in StagesOf(f) /\ \E w : Freezes(f, w)
         \/ at[f] \in StagesOf(f) /\ \E w : Loses(f, w)
         \/ \E k \in StagesOf(f) : Lends(f, k)
         \/ at[f] \in StagesOf(f) /\ \E w : Emits(f, w)
<1>0. at[f] # 0 => at[f] \in StagesOf(f)
  BY FlowAssumption DEF FlowTypeOK, StagesOf
<1>1. CASE \/ InstantiateNode(f) \/ SpawnFlow(f) \/ InvokePull(f) \/ GuestAllocate(f)
           \/ ManagerStep(f) \/ NoOutput(f) \/ InvocationTimeout(f) \/ ReapComponent(f) \/ ReapFlow(f)
  BY <1>1 DEF InstantiateNode, SpawnFlow, InvokePull, GuestAllocate, ManagerStep, NoOutput,
              InvocationTimeout, ReapComponent, ReapFlow, flowVars
<1>2. CASE InitFails(f) \/ DriverEnds(f)
  BY <1>2 DEF InitFails, DriverEnds, Clears
<1>3. CASE GuestAllocated(f)
  <2>1. at[f] # 0
    BY <1>3 DEF GuestAllocated, AllocateInsert, AllocInv
  <2> QED BY <1>0, <1>3, <2>1 DEF GuestAllocated, Gains
<1>4. CASE GuestFreeze(f)
  BY <1>0, <1>4 DEF GuestFreeze, InGuest, Freezes
<1>5. CASE GuestDrop(f)
  BY <1>0, <1>5 DEF GuestDrop, InGuest, Loses
<1>6. CASE ReclaimInputElement(f)
  BY <1>0, <1>6 DEF ReclaimInputElement, InGuest, Loses
<1>7. CASE ConvertOutputElement(f)
  BY <1>0, <1>7 DEF ConvertOutputElement, Returned, Emits
<1>8. CASE \E k \in StagesOf(f) : InvokeWithInput(f, k)
  BY <1>8 DEF InvokeWithInput, Lends
<1> QED BY <1>1, <1>2, <1>3, <1>4, <1>5, <1>6, <1>7, <1>8 DEF FlowStep

(* The stage before one that is lent an input is a stage, and the head of  *)
(* its queue a handle.                                                     *)
LEMMA LendType ==
  ASSUME FlowTypeOK, NEW f \in Thread, NEW k \in StagesOf(f), Lends(f, k)
  PROVE  /\ k - 1 \in StagesOf(f) /\ queue[f][k - 1] \in Seq(issued)
         /\ Len(queue[f][k - 1]) \in Nat \ {0}
         /\ Head(queue[f][k - 1]) = queue[f][k - 1][1] /\ Head(queue[f][k - 1]) \in issued
         /\ Tail(queue[f][k - 1]) \in Seq(issued)
         /\ Len(Tail(queue[f][k - 1])) = Len(queue[f][k - 1]) - 1
         /\ \A i \in 1..(Len(queue[f][k - 1]) - 1) :
              Tail(queue[f][k - 1])[i] = queue[f][k - 1][i + 1]
<1>1. k - 1 \in StagesOf(f)
  BY FlowAssumption DEF StagesOf, Lends
<1>2. queue[f][k - 1] \in Seq(issued) /\ queue[f][k - 1] # <<>>
  BY <1>1 DEF FlowTypeOK, HoldingsOK, Lends
<1> DEFINE q == queue[f][k - 1]
<1> HIDE DEF q
<1>3. q \in Seq(issued) /\ q # <<>>
  BY <1>2 DEF q
<1>4. /\ Len(q) \in Nat \ {0} /\ Head(q) = q[1] /\ Head(q) \in issued
      /\ Tail(q) \in Seq(issued) /\ Len(Tail(q)) = Len(q) - 1
      /\ \A i \in 1..(Len(q) - 1) : Tail(q)[i] = q[i + 1]
  BY <1>3
<1> QED BY <1>1, <1>2, <1>4 DEF q

(* The tables and queues keep their shape.                                 *)
LEMMA HoldType ==
  ASSUME FlowTypeOK, PcType, AllocInv, NEW f \in Thread, FlowStep(f)
  PROVE  HoldingsOK'
<1>0. /\ issued \subseteq issued' /\ Wrapper \subseteq Wrapper'
      /\ \A q \in Seq(issued) : q \in Seq(issued')
      /\ \A g \in Thread : /\ tables[g] \in [StagesOf(g) -> SUBSET (Wrapper')]
                           /\ queue[g] \in [StagesOf(g) -> Seq(issued')]
  BY IssuedGrows, TypeGrows
<1>a. tables = [g \in Thread |-> tables[g]] /\ queue = [g \in Thread |-> queue[g]]
  BY DEF FlowTypeOK, HoldingsOK
<1> DEFINE TablesOK == /\ tables' = [g \in Thread |-> tables'[g]]
                       /\ \A g \in Thread : tables'[g] \in [StagesOf(g) -> SUBSET (Wrapper')]
           QueueOK  == /\ queue' = [g \in Thread |-> queue'[g]]
                       /\ \A g \in Thread : queue'[g] \in [StagesOf(g) -> Seq(issued')]
<1>b. ASSUME NEW k \in StagesOf(f), NEW X \in SUBSET (Wrapper'),
             SetTable(f, k, X)
      PROVE  TablesOK
  <2>1. tables'[f] = [l \in StagesOf(f) |-> IF l = k THEN X ELSE tables[f][l]]
    BY <1>b, TablePut
  <2>2. tables' = [g \in Thread |-> tables'[g]] /\ \A g \in Thread : g # f => tables'[g] = tables[g]
    BY <1>b, TablePut
  <2> QED BY <1>0, <1>b, <2>1, <2>2
<1>c. ASSUME NEW k \in StagesOf(f), NEW X \in Seq(issued'),
             SetQueue(f, k, X)
      PROVE  QueueOK
  <2>1. queue'[f] = [l \in StagesOf(f) |-> IF l = k THEN X ELSE queue[f][l]]
    BY <1>c, QueuePut
  <2>2. queue' = [g \in Thread |-> queue'[g]] /\ \A g \in Thread : g # f => queue'[g] = queue[g]
    BY <1>c, QueuePut
  <2>3. queue'[f] \in [StagesOf(f) -> Seq(issued')]
    BY <1>0, <1>c, <2>1
  <2> QED BY <1>0, <2>2, <2>3
<1>d. UNCHANGED tables => TablesOK
  BY <1>0, <1>a
<1>e. UNCHANGED queue => QueueOK
  BY <1>0, <1>a
<1>1. CASE Clears(f)
  <2>1. TablesOK
    BY <1>0, <1>1, <1>a DEF Clears
  <2>2. QueueOK
    <3> DEFINE none == [k \in StagesOf(f) |-> <<>>]
    <3>1. none \in [StagesOf(f) -> Seq(issued')]
      OBVIOUS
    <3> HIDE DEF none
    <3>2. CASE queue' = [queue EXCEPT ![f] = none]
      BY <1>0, <1>a, <3>1, <3>2
    <3> QED BY <1>1, <1>e, <3>2 DEF Clears, none
  <2> QED BY <2>1, <2>2 DEF HoldingsOK
<1> HIDE DEF TablesOK, QueueOK
<1>f. TablesOK /\ QueueOK => HoldingsOK'
  BY DEF HoldingsOK, TablesOK, QueueOK
<1>2. CASE UNCHANGED <<tables, queue>>
  BY <1>2, <1>d, <1>e, <1>f
<1>g. ASSUME at[f] \in StagesOf(f)
      PROVE  /\ tables[f][at[f]] \subseteq Wrapper /\ tables[f][at[f]] \subseteq Wrapper'
             /\ queue[f][at[f]] \in Seq(issued)
  BY <1>0, <1>g DEF FlowTypeOK, HoldingsOK
<1>3. ASSUME at[f] \in StagesOf(f), NEW h, Gains(f, h) PROVE HoldingsOK'
  <2> DEFINE X == tables[f][at[f]] \cup {[handle |-> h, kind |-> "mutable"]}
  <2>1. X \in SUBSET (Wrapper')
    BY <1>3, <1>g DEF Gains, Wrapper
  <2>2. SetTable(f, at[f], X) /\ UNCHANGED queue
    BY <1>3 DEF Gains, Put, SetTable
  <2> HIDE DEF X
  <2> QED BY <1>3, <1>b, <1>e, <1>f, <2>1, <2>2
<1>4. ASSUME at[f] \in StagesOf(f), NEW w, Freezes(f, w) PROVE HoldingsOK'
  <2> DEFINE X == (tables[f][at[f]] \ {w}) \cup {[w EXCEPT !.kind = "buffer"]}
  <2>0. [w EXCEPT !.kind = "buffer"] \in Wrapper
    BY <1>4, <1>g DEF Freezes, Wrapper
  <2>1. X \in SUBSET (Wrapper')
    BY <1>0, <1>4, <1>g, <2>0
  <2>2. SetTable(f, at[f], X) /\ UNCHANGED queue
    BY <1>4 DEF Freezes, SetTable
  <2> HIDE DEF X
  <2> QED BY <1>4, <1>b, <1>e, <1>f, <2>1, <2>2
<1>5. ASSUME at[f] \in StagesOf(f), NEW w, Drop(f, at[f], w) PROVE TablesOK
  <2> DEFINE X == tables[f][at[f]] \ {w}
  <2>1. X \in SUBSET (Wrapper')
    BY <1>5, <1>g
  <2>2. SetTable(f, at[f], X)
    BY <1>5 DEF Drop, SetTable
  <2> HIDE DEF X
  <2> QED BY <1>5, <1>b, <2>1, <2>2
<1>6. ASSUME at[f] \in StagesOf(f), NEW w, Loses(f, w) PROVE HoldingsOK'
  BY <1>5, <1>6, <1>e, <1>f DEF Loses
<1>7. ASSUME at[f] \in StagesOf(f), NEW w, Emits(f, w) PROVE HoldingsOK'
  <2> DEFINE X == Append(queue[f][at[f]], w.handle)
  <2>1. X \in Seq(issued')
    BY <1>0, <1>7, <1>g DEF Emits, Wrapper
  <2>2. SetQueue(f, at[f], X)
    BY <1>7 DEF Emits, SetQueue
  <2> HIDE DEF X
  <2>3. QueueOK
    BY <1>7, <1>c, <2>1, <2>2
  <2> QED BY <1>5, <1>7, <1>f, <2>3 DEF Emits
<1>8. ASSUME NEW k \in StagesOf(f), Lends(f, k) PROVE HoldingsOK'
  <2> DEFINE X == tables[f][k] \cup {[handle |-> Head(queue[f][k - 1]), kind |-> "input"]}
             Y == Tail(queue[f][k - 1])
  <2>0. /\ Head(queue[f][k - 1]) \in issued /\ Y \in Seq(issued) /\ k - 1 \in StagesOf(f)
        /\ tables[f][k] \subseteq Wrapper
    BY <1>8, LendType DEF FlowTypeOK, HoldingsOK
  <2>1. X \in SUBSET (Wrapper')
    BY <1>0, <2>0 DEF Wrapper
  <2>2. Y \in Seq(issued')
    BY <1>0, <2>0
  <2>3. SetTable(f, k, X) /\ SetQueue(f, k - 1, Y)
    BY <1>8 DEF Lends, Put, SetTable, SetQueue
  <2> HIDE DEF X, Y
  <2>4. TablesOK
    BY <1>b, <2>1, <2>3
  <2>5. QueueOK
    BY <1>c, <2>0, <2>2, <2>3
  <2> QED BY <1>f, <2>4, <2>5
<1> QED BY HoldCases, <1>1, <1>2, <1>3, <1>4, <1>6, <1>7, <1>8

-----------------------------------------------------------------------------
(* No buffer is held twice.                                                *)

(* Every queue of R is what it was in Q, without its head, or empty.       *)
Shifted(Q, R) ==
  \A g \in Thread : \A l \in StagesOf(g) : \E d \in {0, 1} :
    \A i \in 1..Len(R[g][l]) : /\ i \in Nat
                               /\ i + d \in 1..Len(Q[g][l])
                               /\ R[g][l][i] = Q[g][l][i + d]

(* Queues that shift stay apart.                                           *)
LEMMA ShiftApart ==
  ASSUME NEW Q, NEW R, QueuedApart(Q), Shifted(Q, R)
  PROVE  QueuedApart(R)
<1>a. ASSUME NEW f \in Thread, NEW g \in Thread, NEW k \in StagesOf(f), NEW l \in StagesOf(g),
             NEW i \in 1..Len(R[f][k]), NEW j \in 1..Len(R[g][l]),
             R[f][k][i] = R[g][l][j]
      PROVE  f = g /\ k = l /\ i = j
  <2>1. PICK d \in {0, 1} : \A x \in 1..Len(R[f][k]) :
          x \in Nat /\ x + d \in 1..Len(Q[f][k]) /\ R[f][k][x] = Q[f][k][x + d]
    BY DEF Shifted
  <2>2. PICK e \in {0, 1} : \A x \in 1..Len(R[g][l]) :
          x \in Nat /\ x + e \in 1..Len(Q[g][l]) /\ R[g][l][x] = Q[g][l][x + e]
    BY DEF Shifted
  <2>3. Q[f][k][i + d] = Q[g][l][j + e] /\ i \in Nat /\ j \in Nat
    BY <1>a, <2>1, <2>2
  <2>4. f = g /\ k = l /\ i + d = j + e
    BY <2>1, <2>2, <2>3 DEF QueuedApart
  <2>5. CASE d = e
    BY <2>3, <2>4, <2>5
  <2>6. CASE d # e
    <3>1. Q[f][k][i + d] = Q[f][k][i + e] /\ i + d \in 1..Len(Q[f][k]) /\ i + e \in 1..Len(Q[f][k])
      BY <2>1, <2>2, <2>4
    <3>2. i + d = i + e
      BY <3>1 DEF QueuedApart
    <3> QED BY <2>3, <2>6, <3>2
  <2> QED BY <2>5, <2>6
<1> QED BY <1>a DEF QueuedApart

(* Flows that only lose handles stay apart.                                *)
LEMMA LessApart ==
  ASSUME NEW T, NEW Q, NEW S, NEW R, Apart(T, Q), Shifted(Q, R),
         \A g \in Thread : \A l \in StagesOf(g) : S[g][l] \subseteq T[g][l]
  PROVE  Apart(S, R)
<1>1. QueuedApart(R)
  BY ShiftApart DEF Apart
<1>2. WrappersApart(S)
  BY DEF WrappersApart, Apart
<1>a. ASSUME NEW f \in Thread, NEW g \in Thread, NEW k \in StagesOf(f), NEW l \in StagesOf(g),
             NEW w \in S[f][k], NEW i \in 1..Len(R[g][l])
      PROVE  w.handle # R[g][l][i]
  <2>1. PICK d \in {0, 1} : \A x \in 1..Len(R[g][l]) :
          x + d \in 1..Len(Q[g][l]) /\ R[g][l][x] = Q[g][l][x + d]
    BY DEF Shifted
  <2>2. i + d \in 1..Len(Q[g][l]) /\ R[g][l][i] = Q[g][l][i + d] /\ w \in T[f][k]
    BY <2>1
  <2> QED BY <2>2 DEF BothApart, Apart
<1>3. BothApart(S, R)
  BY <1>a DEF BothApart
<1> QED BY <1>1, <1>2, <1>3 DEF Apart

(* One wrapper is added, whose handle nobody else holds.                   *)
Added(T, S, R, f, k, w0) ==
  /\ \A g \in Thread : \A l \in StagesOf(g) : \A w \in S[g][l] :
       (w \in T[g][l] /\ w.handle # w0.handle) \/ (g = f /\ l = k /\ w = w0)
  /\ \A g \in Thread : \A l \in StagesOf(g) : \A i \in 1..Len(R[g][l]) : R[g][l][i] # w0.handle

(* So do flows that gain one wrapper whose handle nobody else holds.       *)
LEMMA MoreApart ==
  ASSUME NEW T, NEW Q, NEW S, NEW R, Apart(T, Q), Shifted(Q, R),
         NEW f \in Thread, NEW k \in StagesOf(f), NEW w0,
         Added(T, S, R, f, k, w0)
  PROVE  Apart(S, R)
<1>0. /\ \A g \in Thread : \A l \in StagesOf(g) : \A w \in S[g][l] :
           (w \in T[g][l] /\ w.handle # w0.handle) \/ (g = f /\ l = k /\ w = w0)
      /\ \A g \in Thread : \A l \in StagesOf(g) : \A i \in 1..Len(R[g][l]) : R[g][l][i] # w0.handle
  BY DEF Added
<1>1. QueuedApart(R)
  BY ShiftApart DEF Apart
<1>a. ASSUME NEW g \in Thread, NEW h \in Thread, NEW l \in StagesOf(g), NEW m \in StagesOf(h),
             NEW v \in S[g][l], NEW w \in S[h][m], v.handle = w.handle
      PROVE  g = h /\ l = m /\ v = w
  <2>1. CASE v.handle = w0.handle
    BY <1>0, <1>a, <2>1
  <2>2. CASE v.handle # w0.handle
    <3>1. v \in T[g][l] /\ w \in T[h][m]
      BY <1>0, <1>a, <2>2
    <3> QED BY <1>a, <3>1 DEF WrappersApart, Apart
  <2> QED BY <2>1, <2>2
<1>2. WrappersApart(S)
  BY <1>a DEF WrappersApart
<1>b. ASSUME NEW g \in Thread, NEW h \in Thread, NEW l \in StagesOf(g), NEW m \in StagesOf(h),
             NEW w \in S[g][l], NEW i \in 1..Len(R[h][m])
      PROVE  w.handle # R[h][m][i]
  <2>1. CASE w \in T[g][l]
    <3>1. PICK d \in {0, 1} : \A x \in 1..Len(R[h][m]) :
            x + d \in 1..Len(Q[h][m]) /\ R[h][m][x] = Q[h][m][x + d]
      BY DEF Shifted
    <3>2. i + d \in 1..Len(Q[h][m]) /\ R[h][m][i] = Q[h][m][i + d]
      BY <3>1
    <3> QED BY <2>1, <3>2 DEF BothApart, Apart
  <2>2. CASE w = w0
    BY <1>0, <2>2
  <2> QED BY <1>0, <2>1, <2>2
<1>3. BothApart(S, R)
  BY <1>b DEF BothApart
<1> QED BY <1>1, <1>2, <1>3 DEF Apart

(* And so do flows that move a handle from a table to the end of a queue.  *)
Moved(T, Q, S, R, f, k, w0, n) ==
  /\ w0 \in T[f][k]
  /\ \A g \in Thread : \A l \in StagesOf(g) : \A v \in S[g][l] :
       v \in T[g][l] /\ ~(g = f /\ l = k /\ v = w0)
  /\ \A g \in Thread : \A l \in StagesOf(g) : \A i \in 1..Len(R[g][l]) :
       \/ i \in 1..Len(Q[g][l]) /\ R[g][l][i] = Q[g][l][i]
       \/ g = f /\ l = k /\ i = n /\ R[g][l][i] = w0.handle

(* Whatever is moved was held once.                                        *)
LEMMA MovedApart ==
  ASSUME NEW T, NEW Q, NEW S, NEW R, Apart(T, Q), NEW f \in Thread, NEW k \in StagesOf(f),
         NEW w0, NEW n, Moved(T, Q, S, R, f, k, w0, n)
  PROVE  Apart(S, R)
<1>0. /\ w0 \in T[f][k]
      /\ \A g \in Thread : \A l \in StagesOf(g) : \A v \in S[g][l] :
           v \in T[g][l] /\ ~(g = f /\ l = k /\ v = w0)
      /\ \A g \in Thread : \A l \in StagesOf(g) : \A i \in 1..Len(R[g][l]) :
           \/ i \in 1..Len(Q[g][l]) /\ R[g][l][i] = Q[g][l][i]
           \/ g = f /\ l = k /\ i = n /\ R[g][l][i] = w0.handle
  BY DEF Moved
<1>1. \A g \in Thread : \A l \in StagesOf(g) : \A i \in 1..Len(Q[g][l]) : Q[g][l][i] # w0.handle
  BY <1>0 DEF Apart, BothApart
<1>2. ASSUME NEW g \in Thread, NEW l \in StagesOf(g), NEW v \in S[g][l]
      PROVE  v \in T[g][l] /\ v.handle # w0.handle
  <2>1. v \in T[g][l] /\ ~(g = f /\ l = k /\ v = w0)
    BY <1>0
  <2>2. WrappersApart(T)
    BY DEF Apart
  <2> QED BY <1>0, <2>1, <2>2 DEF WrappersApart
<1>a. ASSUME NEW g \in Thread, NEW h \in Thread, NEW l \in StagesOf(g), NEW m \in StagesOf(h),
             NEW i \in 1..Len(R[g][l]), NEW j \in 1..Len(R[h][m]), R[g][l][i] = R[h][m][j]
      PROVE  g = h /\ l = m /\ i = j
  <2>1. CASE R[g][l][i] = w0.handle
    <3>1. g = f /\ l = k /\ i = n
      BY <1>0, <1>1, <2>1
    <3>2. h = f /\ m = k /\ j = n
      <4>1. R[h][m][j] = w0.handle
        BY <1>a, <2>1
      <4> QED BY <1>0, <1>1, <4>1
    <3> QED BY <3>1, <3>2
  <2>2. CASE R[g][l][i] # w0.handle
    <3>1. i \in 1..Len(Q[g][l]) /\ R[g][l][i] = Q[g][l][i]
      BY <1>0, <2>2
    <3>2. j \in 1..Len(Q[h][m]) /\ R[h][m][j] = Q[h][m][j]
      BY <1>0, <1>a, <2>2
    <3>3. QueuedApart(Q) /\ Q[g][l][i] = Q[h][m][j]
      BY <1>a, <3>1, <3>2 DEF Apart
    <3> QED BY <3>1, <3>2, <3>3 DEF QueuedApart
  <2> QED BY <2>1, <2>2
<1>3. QueuedApart(R)
  BY <1>a DEF QueuedApart
<1>4. WrappersApart(S)
  BY <1>0, <1>2 DEF Apart, WrappersApart
<1>b. ASSUME NEW g \in Thread, NEW h \in Thread, NEW l \in StagesOf(g), NEW m \in StagesOf(h),
             NEW v \in S[g][l], NEW i \in 1..Len(R[h][m])
      PROVE  v.handle # R[h][m][i]
  <2>1. CASE R[h][m][i] = w0.handle
    BY <1>2, <2>1
  <2>2. CASE R[h][m][i] # w0.handle
    <3>1. i \in 1..Len(Q[h][m]) /\ R[h][m][i] = Q[h][m][i]
      BY <1>0, <2>2
    <3> QED BY <1>2, <3>1 DEF Apart, BothApart
  <2> QED BY <2>1, <2>2
<1>5. BothApart(S, R)
  BY <1>b DEF BothApart
<1> QED BY <1>3, <1>4, <1>5 DEF Apart

(* Every step keeps the holders apart.                                     *)
LEMMA ApartStep ==
  ASSUME FlowTypeOK, PcType, AllocInv, Apart(tables, queue), NEW f \in Thread, FlowStep(f)
  PROVE  Apart(tables', queue')
<1>a. \A g \in Thread : \A l \in StagesOf(g) :
        /\ tables[g][l] \subseteq Wrapper /\ queue[g][l] \in Seq(issued)
        /\ Len(queue[g][l]) \in Nat /\ \A i \in 1..Len(queue[g][l]) : queue[g][l][i] \in issued
  BY DEF FlowTypeOK, HoldingsOK
<1>b. ASSUME \A g \in Thread : \A l \in StagesOf(g) : queue'[g][l] = queue[g][l] \/ queue'[g][l] = <<>>
      PROVE  Shifted(queue, queue')
  <2>1. ASSUME NEW g \in Thread, NEW l \in StagesOf(g), NEW i \in 1..Len(queue'[g][l])
        PROVE  /\ i \in Nat /\ i + 0 \in 1..Len(queue[g][l])
               /\ queue'[g][l][i] = queue[g][l][i + 0]
    <3>1. CASE queue'[g][l] = queue[g][l]
      <4>1. i \in Nat /\ i + 0 = i
        BY <1>a, <3>1
      <4> QED BY <3>1, <4>1
    <3>2. CASE queue'[g][l] = <<>>
      BY <3>2
    <3> QED BY <1>b, <3>1, <3>2
  <2> QED BY <2>1 DEF Shifted
<1>1. CASE UNCHANGED <<tables, queue>>
  BY <1>1
<1>2. CASE Clears(f)
  <2>1. \A g \in Thread : \A l \in StagesOf(g) : tables'[g][l] \subseteq tables[g][l]
    BY <1>2 DEF Clears, FlowTypeOK, HoldingsOK
  <2>2. Shifted(queue, queue')
    BY <1>2, <1>b DEF Clears, FlowTypeOK, HoldingsOK
  <2> QED BY <2>1, <2>2, LessApart
<1>3. ASSUME at[f] \in StagesOf(f), NEW h, Gains(f, h) PROVE Apart(tables', queue')
  <2> DEFINE w0 == [handle |-> h, kind |-> "mutable"]
  <2>1. \A g \in Thread : \A l \in StagesOf(g) : tables'[g][l] \subseteq
          IF g = f /\ l = at[f] THEN tables[g][l] \cup {w0} ELSE tables[g][l]
    <3> DEFINE X == tables[f][at[f]] \cup {w0}
    <3>1. SetTable(f, at[f], X)
      BY <1>3 DEF Gains, Put, SetTable
    <3> HIDE DEF X
    <3>2. \A g \in Thread : \A l \in StagesOf(g) :
            tables'[g][l] = IF g = f /\ l = at[f] THEN X ELSE tables[g][l]
      BY <1>3, <3>1, TableAt
    <3> QED BY <3>2 DEF X
  <2>2. w0.handle = h /\ h \notin issued /\ UNCHANGED queue
    BY <1>3 DEF Gains
  <2>3. \A g \in Thread : \A l \in StagesOf(g) : \A w \in tables[g][l] : w.handle \in issued
    BY <1>a DEF Wrapper
  <2> HIDE DEF w0
  <2>4. \A g \in Thread : \A l \in StagesOf(g) : \A w \in tables'[g][l] :
          (w \in tables[g][l] /\ w.handle # w0.handle) \/ (g = f /\ l = at[f] /\ w = w0)
    BY <2>1, <2>2, <2>3
  <2>5. \A g \in Thread : \A l \in StagesOf(g) : \A i \in 1..Len(queue'[g][l]) :
          queue'[g][l][i] # w0.handle
    BY <1>a, <2>2
  <2>6. Added(tables, tables', queue', f, at[f], w0)
    BY <2>4, <2>5 DEF Added
  <2>7. Shifted(queue, queue')
    BY <1>b, <2>2
  <2> QED BY <1>3, <2>6, <2>7, MoreApart
<1>4. ASSUME at[f] \in StagesOf(f), NEW w, Freezes(f, w) PROVE Apart(tables', queue')
  <2> DEFINE w0 == [w EXCEPT !.kind = "buffer"]
  <2>1. \A g \in Thread : \A l \in StagesOf(g) : tables'[g][l] \subseteq
          IF g = f /\ l = at[f] THEN (tables[g][l] \ {w}) \cup {w0} ELSE tables[g][l]
    <3> DEFINE X == (tables[f][at[f]] \ {w}) \cup {w0}
    <3>1. SetTable(f, at[f], X)
      BY <1>4 DEF Freezes, SetTable
    <3> HIDE DEF X
    <3>2. \A g \in Thread : \A l \in StagesOf(g) :
            tables'[g][l] = IF g = f /\ l = at[f] THEN X ELSE tables[g][l]
      BY <1>4, <3>1, TableAt
    <3> QED BY <3>2 DEF X
  <2>2. w \in tables[f][at[f]] /\ w0.handle = w.handle /\ UNCHANGED queue
    BY <1>4, <1>a DEF Freezes, Wrapper
  <2> HIDE DEF w0
  <2>3. \A g \in Thread : \A l \in StagesOf(g) : \A v \in tables'[g][l] :
          (v \in tables[g][l] /\ v.handle # w0.handle) \/ (g = f /\ l = at[f] /\ v = w0)
    BY <1>4, <2>1, <2>2 DEF Apart, WrappersApart
  <2>4. \A g \in Thread : \A l \in StagesOf(g) : \A i \in 1..Len(queue'[g][l]) :
          queue'[g][l][i] # w0.handle
    BY <1>4, <2>2 DEF Apart, BothApart
  <2>5. Added(tables, tables', queue', f, at[f], w0)
    BY <2>3, <2>4 DEF Added
  <2>6. Shifted(queue, queue')
    BY <1>b, <2>2
  <2> QED BY <1>4, <2>5, <2>6, MoreApart
<1>5. ASSUME at[f] \in StagesOf(f), NEW w, Loses(f, w) PROVE Apart(tables', queue')
  <2>1. \A g \in Thread : \A l \in StagesOf(g) : tables'[g][l] \subseteq tables[g][l]
    <3> DEFINE X == tables[f][at[f]] \ {w}
    <3>1. SetTable(f, at[f], X)
      BY <1>5 DEF Loses, Drop, SetTable
    <3> HIDE DEF X
    <3>2. \A g \in Thread : \A l \in StagesOf(g) :
            tables'[g][l] = IF g = f /\ l = at[f] THEN X ELSE tables[g][l]
      BY <1>5, <3>1, TableAt
    <3> QED BY <3>2 DEF X
  <2> QED BY <1>5, <1>b, <2>1, LessApart DEF Loses
<1>6. ASSUME NEW k \in StagesOf(f), Lends(f, k) PROVE Apart(tables', queue')
  <2> DEFINE q == queue[f][k - 1]
             w0 == [handle |-> Head(q), kind |-> "input"]
  <2>0. /\ k - 1 \in StagesOf(f) /\ Len(q) \in Nat \ {0} /\ w0.handle = q[1]
        /\ Len(Tail(q)) = Len(q) - 1 /\ \A i \in 1..(Len(q) - 1) : Tail(q)[i] = q[i + 1]
    BY <1>6, LendType
  <2>1. \A g \in Thread : \A l \in StagesOf(g) : tables'[g][l] \subseteq
          IF g = f /\ l = k THEN tables[g][l] \cup {w0} ELSE tables[g][l]
    <3> DEFINE X == tables[f][k] \cup {w0}
    <3>1. SetTable(f, k, X)
      BY <1>6 DEF Lends, Put, SetTable
    <3> HIDE DEF X
    <3>2. \A g \in Thread : \A l \in StagesOf(g) :
            tables'[g][l] = IF g = f /\ l = k THEN X ELSE tables[g][l]
      BY <1>6, <3>1, TableAt
    <3> QED BY <3>2 DEF X
  <2>2. \A g \in Thread : \A l \in StagesOf(g) : queue'[g][l] =
          IF g = f /\ l = k - 1 THEN Tail(q) ELSE queue[g][l]
    <3> DEFINE X == Tail(q)
    <3>1. SetQueue(f, k - 1, X)
      BY <1>6 DEF Lends, SetQueue
    <3> HIDE DEF X
    <3> QED BY <2>0, <3>1, QueueAt DEF X
  <2> HIDE DEF w0, q
  <2>3. Shifted(queue, queue')
    <3>1. ASSUME NEW i \in 1..Len(queue'[f][k - 1])
          PROVE  /\ i \in Nat /\ i + 1 \in 1..Len(queue[f][k - 1])
                 /\ queue'[f][k - 1][i] = queue[f][k - 1][i + 1]
      <4>1. queue'[f][k - 1] = Tail(q) /\ queue[f][k - 1] = q
        BY <2>0, <2>2 DEF q
      <4> QED BY <2>0, <4>1
    <3>2. ASSUME NEW g \in Thread, NEW l \in StagesOf(g), ~(g = f /\ l = k - 1),
                 NEW i \in 1..Len(queue'[g][l])
          PROVE  /\ i \in Nat /\ i + 0 \in 1..Len(queue[g][l])
                 /\ queue'[g][l][i] = queue[g][l][i + 0]
      <4>1. queue'[g][l] = queue[g][l]
        BY <2>2, <3>2
      <4>2. i \in Nat /\ i + 0 = i
        BY <1>a, <4>1
      <4> QED BY <4>1, <4>2
    <3> QED BY <3>1, <3>2 DEF Shifted
  <2>4. 1 \in 1..Len(queue[f][k - 1]) /\ queue[f][k - 1][1] = w0.handle
    BY <2>0 DEF q
  <2>5. \A g \in Thread : \A l \in StagesOf(g) : \A w \in tables'[g][l] :
          (w \in tables[g][l] /\ w.handle # w0.handle) \/ (g = f /\ l = k /\ w = w0)
    BY <2>0, <2>1, <2>4 DEF Apart, BothApart
  <2>6. ASSUME NEW g \in Thread, NEW l \in StagesOf(g), NEW i \in 1..Len(queue'[g][l])
        PROVE  queue'[g][l][i] # w0.handle
    <3>1. CASE g = f /\ l = k - 1
      <4>1. queue'[g][l] = Tail(q) /\ queue[g][l] = q /\ i \in 1..(Len(q) - 1)
        BY <2>0, <2>2, <3>1 DEF q
      <4>2. i + 1 \in 1..Len(q) /\ i + 1 # 1 /\ Tail(q)[i] = q[i + 1]
        BY <2>0, <4>1
      <4>3. q[i + 1] # q[1]
        <5>1. QueuedApart(queue) /\ 1 \in 1..Len(queue[f][k - 1]) /\ i + 1 \in 1..Len(queue[f][k - 1])
          BY <2>4, <3>1, <4>1, <4>2 DEF Apart
        <5>2. queue[f][k - 1][i + 1] # queue[f][k - 1][1]
          BY <2>0, <4>2, <5>1 DEF QueuedApart
        <5> QED BY <3>1, <4>1, <5>2
      <4> QED BY <2>0, <4>1, <4>2, <4>3
    <3>2. CASE ~(g = f /\ l = k - 1)
      <4>1. queue'[g][l] = queue[g][l] /\ QueuedApart(queue) /\ 1 \in 1..Len(queue[f][k - 1])
        BY <2>2, <2>4, <3>2 DEF Apart
      <4>2. queue[g][l][i] # queue[f][k - 1][1]
        BY <2>0, <3>2, <4>1 DEF QueuedApart
      <4> QED BY <2>4, <4>1, <4>2
    <3> QED BY <3>1, <3>2
  <2>7. Added(tables, tables', queue', f, k, w0)
    BY <2>5, <2>6 DEF Added
  <2>8. Apart(tables, queue) /\ Shifted(queue, queue')
    BY <2>3
  <2> QED BY <1>6, <2>7, <2>8, MoreApart
<1>7. ASSUME at[f] \in StagesOf(f), NEW w, Emits(f, w) PROVE Apart(tables', queue')
  <2> DEFINE k == at[f]
             q == queue[f][k]
  <2>1. \A g \in Thread : \A l \in StagesOf(g) : tables'[g][l] =
          IF g = f /\ l = k THEN tables[g][l] \ {w} ELSE tables[g][l]
    <3> DEFINE X == tables[f][k] \ {w}
    <3>1. SetTable(f, k, X) /\ k \in StagesOf(f)
      BY <1>7 DEF Emits, Drop, SetTable
    <3> HIDE DEF X, k
    <3>2. \A g \in Thread : \A l \in StagesOf(g) :
            tables'[g][l] = IF g = f /\ l = k THEN X ELSE tables[g][l]
      BY <3>1, TableAt
    <3> QED BY <3>2 DEF X
  <2>2. \A g \in Thread : \A l \in StagesOf(g) : queue'[g][l] =
          IF g = f /\ l = k THEN Append(q, w.handle) ELSE queue[g][l]
    <3> DEFINE X == Append(q, w.handle)
    <3>1. SetQueue(f, k, X) /\ k \in StagesOf(f)
      BY <1>7 DEF Emits, SetQueue
    <3> HIDE DEF X, k
    <3> QED BY <3>1, QueueAt DEF X
  <2>3. w \in tables[f][k] /\ k \in StagesOf(f) /\ q \in Seq(issued) /\ w.handle \in issued
    BY <1>7, <1>a DEF Emits, Wrapper
  <2>4. /\ Len(q) \in Nat /\ Len(Append(q, w.handle)) = Len(q) + 1
        /\ Append(q, w.handle)[Len(q) + 1] = w.handle
        /\ \A i \in 1..Len(q) : Append(q, w.handle)[i] = q[i]
    BY <2>3
  <2> HIDE DEF k
  <2>5. ASSUME NEW g \in Thread, NEW l \in StagesOf(g), NEW i \in 1..Len(queue'[g][l])
        PROVE  \/ i \in 1..Len(queue[g][l]) /\ queue'[g][l][i] = queue[g][l][i]
               \/ g = f /\ l = k /\ i = Len(q) + 1 /\ queue'[g][l][i] = w.handle
    <3>1. CASE g = f /\ l = k
      <4>1. i \in 1..(Len(q) + 1)
        BY <2>2, <2>4, <3>1
      <4>2. i \in 1..Len(q) \/ i = Len(q) + 1
        BY <2>4, <4>1
      <4> QED BY <2>2, <2>4, <3>1, <4>2
    <3>2. CASE ~(g = f /\ l = k)
      BY <2>2, <3>2
    <3> QED BY <3>1, <3>2
  <2> HIDE DEF q
  <2> DEFINE n == Len(q) + 1
  <2> HIDE DEF n
  <2>6. \A g \in Thread : \A l \in StagesOf(g) : \A i \in 1..Len(queue'[g][l]) :
          \/ i \in 1..Len(queue[g][l]) /\ queue'[g][l][i] = queue[g][l][i]
          \/ g = f /\ l = k /\ i = n /\ queue'[g][l][i] = w.handle
    BY <2>5 DEF n
  <2> DEFINE T == tables
             Q == queue
             S == tables'
             R == queue'
  <2>7. Apart(T, Q) /\ k \in StagesOf(f)
    BY <2>3
  <2>8. Moved(T, Q, S, R, f, k, w, n)
    BY <2>1, <2>3, <2>6 DEF Moved
  <2> HIDE DEF T, Q, S, R
  <2>9. Apart(S, R)
    BY <2>7, <2>8, MovedApart
  <2> QED BY <2>9 DEF S, R
<1> QED BY HoldCases, <1>1, <1>2, <1>3, <1>4, <1>5, <1>6, <1>7

-----------------------------------------------------------------------------
(* The inductive invariant of OneHolder.                                   *)

(* A step of one flow leaves the others alone, and the task of a flow goes *)
(* from one call to the next only outside the manager.                     *)
LEMMA FlowFrame ==
  ASSUME FlowTypeOK, NEW f \in Thread, FlowStep(f)
  PROVE  /\ \A g \in Thread : g # f => /\ phase'[g] = phase[g] /\ cursor'[g] = cursor[g]
                                        /\ at'[g] = at[g] /\ input'[g] = input[g]
         /\ at' = at \/ pc[f] = "idle"
<1>0. /\ phase \in [Thread -> {"absent", "starting", "failed", "running", "ended", "reaped"}]
      /\ cursor \in [Thread -> Nat] /\ at \in [Thread -> Nat]
      /\ input \in [Thread -> issued \cup {NoHandle}]
  BY DEF FlowTypeOK
<1>1. CASE \/ InstantiateNode(f) \/ InitFails(f) \/ SpawnFlow(f) \/ InvokePull(f)
           \/ NoOutput(f) \/ InvocationTimeout(f) \/ DriverEnds(f) \/ ReapComponent(f) \/ ReapFlow(f)
  BY <1>0, <1>1 DEF InstantiateNode, InitFails, SpawnFlow, InvokePull, NoOutput, InvocationTimeout,
                    DriverEnds, ReapComponent, ReapFlow, AtRest, Returned, InGuest
<1>2. ASSUME NEW k \in StagesOf(f), InvokeWithInput(f, k)
      PROVE  /\ UNCHANGED <<phase, cursor>> /\ pc[f] = "idle"
             /\ at' = [at EXCEPT ![f] = k] /\ \E h : input' = [input EXCEPT ![f] = h]
  BY <1>2 DEF InvokeWithInput, AtRest
<1>3. CASE \E k \in StagesOf(f) : InvokeWithInput(f, k)
  BY <1>0, <1>2, <1>3
<1>4. CASE GuestAllocate(f) \/ GuestAllocated(f) \/ ManagerStep(f) \/ GuestFreeze(f) \/ GuestDrop(f)
  BY <1>4 DEF GuestAllocate, GuestAllocated, ManagerStep, GuestFreeze, GuestDrop, flowVars
<1>5. CASE ReclaimInputElement(f) \/ ConvertOutputElement(f)
  BY <1>0, <1>5 DEF ReclaimInputElement, ConvertOutputElement, InGuest, Returned
<1> QED BY <1>1, <1>3, <1>4, <1>5 DEF FlowStep

(* What is lent is a handle that has been issued.                          *)
LEMMA InputType ==
  ASSUME FlowTypeOK, PcType, NEW f \in Thread, FlowStep(f)
  PROVE  input' \in [Thread -> issued' \cup {NoHandle}]
<1>0. issued \subseteq issued' /\ input \in [Thread -> issued' \cup {NoHandle}]
  BY IssuedGrows, TypeGrows
<1>1. CASE \/ InstantiateNode(f) \/ InitFails(f) \/ SpawnFlow(f) \/ InvokePull(f) \/ NoOutput(f)
           \/ DriverEnds(f) \/ ReapComponent(f) \/ ReapFlow(f) \/ ConvertOutputElement(f)
           \/ GuestAllocate(f) \/ GuestAllocated(f) \/ ManagerStep(f) \/ GuestFreeze(f) \/ GuestDrop(f)
  <2>1. input' = input
    BY <1>1 DEF InstantiateNode, InitFails, SpawnFlow, InvokePull, NoOutput, DriverEnds,
                ReapComponent, ReapFlow, ConvertOutputElement, GuestAllocate, GuestAllocated,
                ManagerStep, GuestFreeze, GuestDrop, flowVars
  <2> QED BY <1>0, <2>1
<1>2. CASE ReclaimInputElement(f) \/ InvocationTimeout(f)
  <2>1. input' = [input EXCEPT ![f] = NoHandle]
    BY <1>2 DEF ReclaimInputElement, InvocationTimeout
  <2> QED BY <1>0, <2>1
<1>3. ASSUME NEW k \in StagesOf(f), InvokeWithInput(f, k)
      PROVE  input' \in [Thread -> issued' \cup {NoHandle}]
  <2>1. Head(queue[f][k - 1]) \in issued
    BY <1>3, LendType DEF InvokeWithInput, Lends
  <2>2. input' = [input EXCEPT ![f] = Head(queue[f][k - 1])]
    BY <1>3 DEF InvokeWithInput
  <2> DEFINE h == Head(queue[f][k - 1])
  <2> HIDE DEF h
  <2> QED BY <1>0, <2>1, <2>2 DEF h
<1> QED BY <1>1, <1>2, <1>3 DEF FlowStep

(* The flows and their holdings are well formed, and nothing is held twice.*)
HolderInv == FlowTypeOK /\ PcType /\ AllocInv /\ Apart(tables, queue)

(* It holds at first ...                                                   *)
LEMMA HolderInit == FlowInit => HolderInv
<1> SUFFICES ASSUME FlowInit PROVE HolderInv
  OBVIOUS
<1>1. PcType /\ AllocInv
  BY DEF FlowInit, Init, PcType, AllocInv
<1>2. \A f \in Thread : NumStages[f] \in Nat
  BY FlowAssumption
<1>3. HoldingsOK
  <2>1. tables = [f \in Thread |-> [k \in StagesOf(f) |-> {}]]
    BY DEF FlowInit
  <2>2. queue = [f \in Thread |-> [k \in StagesOf(f) |-> <<>>]]
    BY DEF FlowInit
  <2>3. \A f \in Thread : queue[f] \in [StagesOf(f) -> Seq(issued)]
    BY <2>2
  <2> QED BY <2>1, <2>2, <2>3 DEF HoldingsOK
<1>4. FlowTypeOK
  BY <1>2, <1>3 DEF FlowInit, FlowTypeOK
<1>5. \A f \in Thread : \A k \in StagesOf(f) : tables[f][k] = {} /\ queue[f][k] = <<>>
  BY DEF FlowInit
<1>6. \A f \in Thread : \A k \in StagesOf(f) : 1..Len(queue[f][k]) = {}
  BY <1>5
<1>7. Apart(tables, queue)
  BY <1>5, <1>6 DEF Apart, WrappersApart, QueuedApart, BothApart
<1> QED BY <1>1, <1>4, <1>7 DEF HolderInv

(* ... and is preserved.                                                   *)
LEMMA HolderStep ==
  ASSUME HolderInv, NEW f \in Thread, FlowStep(f)
  PROVE  HolderInv'
<1> USE DEF HolderInv
<1>1. FlowTypeOK'
  BY ScalarType, InputType, HoldType DEF FlowTypeOK
<1>2. PcType'
  BY IssuedGrows
<1>3. AllocInv'
  <2>1. ASSUME NEW g \in Thread, pc'[g] \in {"reserved", "taken"} PROVE at'[g] # 0
    <3>1. CASE g # f
      BY <2>1, <3>1, IssuedGrows, FlowFrame DEF AllocInv
    <3>2. CASE GuestAllocate(f)
      BY <2>1, <3>1, <3>2 DEF GuestAllocate, InGuest, flowVars
    <3>3. CASE g = f /\ pc[f] \in {"reserved", "taken"}
      BY <3>3, FlowFrame DEF AllocInv
    <3> QED BY <2>1, <3>1, <3>2, <3>3, IssuedGrows
  <2> QED BY <2>1 DEF AllocInv
<1>4. Apart(tables', queue')
  BY ApartStep
<1>5. Apart(tables, queue)'
  BY <1>4 DEF Apart, WrappersApart, QueuedApart, BothApart, StagesOf
<1> QED BY <1>1, <1>2, <1>3, <1>5

(* No buffer of any flow is ever held twice, in two stores, in two queues  *)
(* or in both: freeze, convert_output_element, convert_input_element and   *)
(* reclaim_input_element move a handle and never copy it.  Component ids   *)
(* that several flows share are no exception.                              *)
THEOREM FlowOneHolder == FlowSpec => []OneHolder
<1>1. FlowInit => HolderInv
  BY HolderInit
<1>2. HolderInv /\ [FlowNext]_allVars => HolderInv'
  <2> SUFFICES ASSUME HolderInv, [FlowNext]_allVars PROVE HolderInv'
    OBVIOUS
  <2>1. CASE FlowNext
    BY <2>1, HolderStep DEF FlowNext
  <2>2. CASE UNCHANGED allVars
    <3>1. UNCHANGED <<issued, pc>> /\ UNCHANGED <<phase, cursor, at, step, input, tables, queue>>
      BY <2>2 DEF allVars, vars, flowVars
    <3>2. FlowTypeOK' /\ PcType' /\ AllocInv'
      BY <3>1 DEF HolderInv, FlowTypeOK, HoldingsOK, Wrapper, PcType, AllocInv, StagesOf
    <3>3. Apart(tables, queue)'
      BY <3>1 DEF HolderInv, Apart, WrappersApart, QueuedApart, BothApart, StagesOf
    <3> QED BY <3>2, <3>3 DEF HolderInv
  <2> QED BY <2>1, <2>2
<1>3. HolderInv => OneHolder
  BY ApartOneHolder DEF HolderInv
<1> QED BY <1>1, <1>2, <1>3, PTL DEF FlowSpec

-----------------------------------------------------------------------------
(* With component ids of their own, the flows use the manager as it asks   *)
(* its callers to.                                                         *)

(* The ids that the pipeline assigns by position are distinct in a host    *)
(* that runs one flow.                                                     *)
LEMMA OneFlowDistinct ==
  ASSUME NEW f, Thread = {f}, \A k, l \in StagesOf(f) : IdOf[f][k] = IdOf[f][l] => k = l
  PROVE  IdsDistinct
  BY DEF IdsDistinct

CustodyParts == IndInv /\ HolderInv /\ CustodyInv /\ CallInv /\ StoresInv /\ StageInv

(* The stage that is called, and the one that is instantiated or reclaimed *)
(* next, are stages.                                                       *)
LEMMA StageTypes ==
  ASSUME FlowTypeOK, NEW f \in Thread
  PROVE  /\ at[f] # 0 => at[f] \in StagesOf(f) /\ IdOf[f][at[f]] \in Component
         /\ cursor[f] < NumStages[f] =>
              cursor[f] + 1 \in StagesOf(f) /\ IdOf[f][cursor[f] + 1] \in Component
         /\ \A k \in StagesOf(f) : IdOf[f][k] \in Component
         /\ f \in Flow /\ f # Unassigned /\ Unassigned \in Flow
<1>1. NumStages[f] \in Nat /\ IdOf[f] \in [StagesOf(f) -> Component]
  BY FlowAssumption DEF StagesOf
<1>2. at[f] \in 0..NumStages[f] /\ cursor[f] \in 0..NumStages[f]
  BY DEF FlowTypeOK
<1>3. at[f] # 0 => at[f] \in StagesOf(f)
  BY <1>1, <1>2 DEF StagesOf
<1>4. cursor[f] < NumStages[f] => cursor[f] + 1 \in StagesOf(f)
  BY <1>1, <1>2 DEF StagesOf
<1> QED BY <1>1, <1>3, <1>4, FlowAssumption

(* A stage is free while it is not being called and not active: no thread  *)
(* allocates for it ...                                                    *)
LEMMA StageQuiet ==
  ASSUME IdsDistinct, FlowTypeOK, CallInv, NEW f \in Thread, NEW k \in StagesOf(f), at[f] # k
  PROVE  Quiet(IdOf[f][k])
<1> SUFFICES ASSUME NEW g \in Thread, pc[g] \in {"reserved", "taken"}, call[g].owner = IdOf[f][k]
             PROVE  FALSE
  BY DEF Quiet, Allocating
<1>1. at[g] # 0 /\ IdOf[g][at[g]] = IdOf[f][k]
  BY DEF CallInv
<1>2. at[g] \in StagesOf(g)
  BY <1>1, StageTypes
<1> QED BY <1>1, <1>2 DEF IdsDistinct

(* ... and it is new.                                                      *)
LEMMA StageNew ==
  ASSUME IndicesExact, FlowTypeOK, StageInv, NEW f \in Thread, NEW k \in StagesOf(f) \ Active(f)
  PROVE  IsNew(IdOf[f][k])
<1>1. IdOf[f][k] \in Component
  BY StageTypes
<1>2. budget[IdOf[f][k]] = Unregistered /\ \A s \in live : entry[s].owner # IdOf[f][k]
  BY DEF StageInv
<1>3. componentResources[IdOf[f][k]] = {}
  BY <1>1, <1>2 DEF IndicesExact
<1> QED BY <1>2, <1>3 DEF IsNew

(* Every step of a flow is a step that the manager's contract allows.      *)
LEMMA FlowStepUses ==
  ASSUME IdsDistinct, CustodyParts, NEW f \in Thread, FlowStep(f)
  PROVE  [Next]_vars
<1> USE DEF CustodyParts, HolderInv
<1>h. Host \in Owner /\ Component \subseteq Owner
  BY DEF Owner
<1>1. CASE UNCHANGED vars
  BY <1>1
<1>2. CASE InstantiateNode(f)
  <2> DEFINE k == cursor[f] + 1
  <2>1. /\ RegisterComponent(IdOf[f][k]) /\ cursor[f] < NumStages[f]
        /\ phase[f] \in {"absent", "starting"} /\ at[f] = 0
    BY <1>2 DEF InstantiateNode, AtRest
  <2>2. k \in StagesOf(f) /\ IdOf[f][k] \in Component
    BY <2>1, StageTypes
  <2>3. k \notin Active(f)
    <3>1. cursor[f] \in Nat
      BY DEF FlowTypeOK
    <3> QED BY <2>1, <3>1 DEF Active
  <2>4. at[f] # k
    BY <2>1, <2>2 DEF StagesOf
  <2> HIDE DEF k
  <2>5. IsNew(IdOf[f][k]) /\ Quiet(IdOf[f][k])
    BY <2>2, <2>3, <2>4, StageNew, StageQuiet DEF IndInv
  <2> QED BY <2>1, <2>2, <2>5 DEF Next
<1>3. CASE GuestAllocate(f)
  <2> DEFINE fl == IF phase[f] = "starting" THEN Unassigned ELSE f
  <2>1. AllocateReserve(f, IdOf[f][at[f]], fl) /\ at[f] # 0
    BY <1>3 DEF GuestAllocate, InGuest
  <2>2. IdOf[f][at[f]] \in Owner /\ fl \in Flow
    BY <1>h, <2>1, StageTypes
  <2> HIDE DEF fl
  <2> QED BY <2>1, <2>2 DEF Next
<1>4. CASE GuestAllocated(f)
  BY <1>4 DEF GuestAllocated, Next
<1>5. CASE ManagerStep(f)
  BY <1>5 DEF ManagerStep, Next
<1>6. CASE GuestDrop(f)
  <2>1. PICK w \in tables[f][at[f]] : Release(f, w.handle) /\ at[f] # 0
    BY <1>6 DEF GuestDrop, InGuest
  <2>2. w.handle \in issued
    BY <2>1, StageTypes DEF FlowTypeOK, HoldingsOK, Wrapper
  <2> QED BY <2>1, <2>2 DEF Next
<1>7. CASE ReclaimInputElement(f)
  <2>1. Release(f, input[f]) /\ input[f] \in issued
    BY <1>7 DEF ReclaimInputElement, FlowTypeOK
  <2> QED BY <2>1 DEF Next
<1>8. CASE ConvertOutputElement(f)
  <2>1. PICK w \in tables[f][at[f]] : TransferOwnership(w.handle, Host) /\ at[f] # 0
    BY <1>8 DEF ConvertOutputElement, Returned
  <2>2. w.handle \in issued
    BY <2>1, StageTypes DEF FlowTypeOK, HoldingsOK, Wrapper
  <2> QED BY <1>h, <2>1, <2>2 DEF Next
<1>9. CASE ReapComponent(f)
  <2> DEFINE k == cursor[f] + 1
  <2>1. ForceReclaim(IdOf[f][k]) /\ k \in StagesOf(f) /\ IdOf[f][k] \in Component
    BY <1>9, StageTypes DEF ReapComponent
  <2>2. at[f] # k
    <3>1. at[f] = 0
      BY <1>9 DEF ReapComponent, CallInv
    <3> QED BY <2>1, <3>1 DEF StagesOf
  <2> HIDE DEF k
  <2>3. Quiet(IdOf[f][k])
    BY <2>1, <2>2, StageQuiet
  <2> QED BY <2>1, <2>3 DEF Next
<1>10. CASE ReapFlow(f)
  BY <1>10, StageTypes DEF ReapFlow, Next
<1> QED BY ManagerCases, <1>1, <1>2, <1>3, <1>4, <1>5, <1>6, <1>7, <1>8, <1>9, <1>10

-----------------------------------------------------------------------------
(* What a step of a flow does to the table of the manager.                 *)

(* The occupied slots are slots.                                           *)
LEMMA LiveSlot == TypeOK => live \subseteq Slot
  BY ManagerAssumption DEF TypeOK, Slot

(* Flow f may hold h on the word of o, as seen by each kind of step: the   *)
(* table is left alone ...                                                 *)
LEMMA HoldsSame ==
  ASSUME UNCHANGED <<live, generation, entry>>, NEW g, NEW h, NEW o, Holds(g, h, o)
  PROVE  Holds(g, h, o)'
  BY DEF Holds, Resolves

(* ... the slots S leave it ...                                            *)
LEMMA HoldsLeft ==
  ASSUME TypeOK, NEW S, Leave(S), NEW g, NEW h, NEW o, Holds(g, h, o), h[1] \notin S
  PROVE  Holds(g, h, o)'
<1>1. h[1] \in Slot
  BY LiveSlot DEF Holds, Resolves
<1> QED BY <1>1 DEF Holds, Resolves, Leave

(* ... a vacant slot is filled ...                                         *)
LEMMA HoldsEntered ==
  ASSUME TypeOK, NEW t, NEW s \in Slot \ live, NEW n, Enter(t, s, n),
         NEW g, NEW h, NEW o, Holds(g, h, o)
  PROVE  Holds(g, h, o)'
<1>1. h[1] \in Slot /\ h[1] \in live /\ h[1] # s
  BY LiveSlot DEF Holds, Resolves
<1>2. /\ live' = live \cup {s} /\ generation' = [generation EXCEPT ![s] = n]
      /\ entry'[h[1]] = entry[h[1]]
  BY <1>1 DEF Enter, TypeOK
<1> QED BY <1>1, <1>2 DEF Holds, Resolves, TypeOK

(* ... or another handle changes hands.                                    *)
LEMMA HoldsPassed ==
  ASSUME TypeOK, NEW x, TransferOwnership(x, Host), NEW g, NEW h, NEW o, Holds(g, h, o), h[1] # x[1]
  PROVE  Holds(g, h, o)'
<1>1. h[1] \in Slot
  BY LiveSlot DEF Holds, Resolves
<1>2. UNCHANGED <<live, generation>> /\ entry'[h[1]] = entry[h[1]]
  BY <1>1 DEF TransferOwnership, TypeOK
<1> QED BY <1>2 DEF Holds, Resolves

(* Two handles that flows hold are of two slots.                           *)
LEMMA SlotsApart ==
  ASSUME TypeOK, NEW h \in issued, NEW x \in issued, Resolves(h), Resolves(x), h # x
  PROVE  h[1] # x[1]
<1>1. h = Rid(h[1]) /\ x = Rid(x[1])
  BY ResolvesRid
<1> QED BY <1>1

-----------------------------------------------------------------------------
(* What a step does to the holdings of the flows.                          *)

(* With tables T and queues Q, flow g holds h on the word of o.            *)
Held(T, Q, g, h, o) ==
  \E k \in StagesOf(g) :
    \/ \E w \in T[g][k] : w.handle = h /\ OwnerOf(g, k, w) = o
    \/ \E i \in 1..Len(Q[g][k]) : Q[g][k][i] = h /\ o = Host

(* CustodyInv, in these terms.                                             *)
LEMMA CustodyHeld ==
  /\ CustodyInv => \A g \in Thread : \A h, o : Held(tables, queue, g, h, o) => Holds(g, h, o)
  /\ (\A g \in Thread : \A h, o : Held(tables', queue', g, h, o) => Holds(g, h, o)') => CustodyInv'
<1>1. CustodyInv => \A g \in Thread : \A h, o : Held(tables, queue, g, h, o) => Holds(g, h, o)
  BY DEF CustodyInv, Held
<1>2. ASSUME \A g \in Thread : \A h, o : Held(tables', queue', g, h, o) => Holds(g, h, o)'
      PROVE  CustodyInv'
  <2>1. ASSUME NEW g \in Thread, NEW k \in StagesOf(g), NEW w \in tables'[g][k]
        PROVE  Holds(g, w.handle, OwnerOf(g, k, w))'
    <3>1. Held(tables', queue', g, w.handle, OwnerOf(g, k, w))
      BY DEF Held
    <3> QED BY <1>2, <3>1
  <2>2. ASSUME NEW g \in Thread, NEW k \in StagesOf(g), NEW i \in 1..Len(queue'[g][k])
        PROVE  Holds(g, queue[g][k][i], Host)'
    <3>1. Held(tables', queue', g, queue'[g][k][i], Host)
      BY DEF Held
    <3> QED BY <1>2, <3>1
  <2> QED BY <2>1, <2>2 DEF CustodyInv, StagesOf
<1> QED BY <1>1, <1>2

(* The flow gains a new wrapper: nothing else changes.                     *)
LEMMA GainsHeld ==
  ASSUME FlowTypeOK, NEW f \in Thread, at[f] \in StagesOf(f), NEW h0, Gains(f, h0),
         NEW g \in Thread, NEW h, NEW o
  PROVE  Held(tables', queue', g, h, o) <=>
           Held(tables, queue, g, h, o) \/ (g = f /\ h = h0 /\ o = IdOf[f][at[f]])
<1> DEFINE w0 == [handle |-> h0, kind |-> "mutable"]
           X  == tables[f][at[f]] \cup {w0}
<1>1. SetTable(f, at[f], X) /\ queue' = queue
  BY DEF Gains, Put, SetTable
<1>2. w0.handle = h0 /\ OwnerOf(f, at[f], w0) = IdOf[f][at[f]]
  BY DEF OwnerOf
<1> HIDE DEF w0, X
<1>3. \A l \in StagesOf(g) : tables'[g][l] = IF g = f /\ l = at[f] THEN X ELSE tables[g][l]
  BY <1>1, TableAt
<1>4. ASSUME NEW l \in StagesOf(g), NEW w
      PROVE  w \in tables'[g][l] <=> w \in tables[g][l] \/ (g = f /\ l = at[f] /\ w = w0)
  BY <1>3 DEF X
<1> QED BY <1>1, <1>2, <1>4 DEF Held

(* A wrapper that is frozen stays on the word of its stage.                *)
LEMMA FreezesHeld ==
  ASSUME FlowTypeOK, NEW f \in Thread, at[f] \in StagesOf(f), NEW w0, Freezes(f, w0),
         NEW g \in Thread, NEW h, NEW o
  PROVE  Held(tables', queue', g, h, o) <=> Held(tables, queue, g, h, o)
<1> DEFINE w1 == [w0 EXCEPT !.kind = "buffer"]
           X  == (tables[f][at[f]] \ {w0}) \cup {w1}
<1>1. SetTable(f, at[f], X) /\ queue' = queue /\ w0 \in tables[f][at[f]]
  BY DEF Freezes, SetTable
<1>2. w1.handle = w0.handle /\ OwnerOf(f, at[f], w1) = OwnerOf(f, at[f], w0)
  <2>1. w0 \in Wrapper /\ w0.kind = "mutable"
    BY DEF Freezes, FlowTypeOK, HoldingsOK
  <2> QED BY <2>1 DEF Wrapper, OwnerOf
<1> HIDE DEF w1, X
<1>3. \A l \in StagesOf(g) : tables'[g][l] = IF g = f /\ l = at[f] THEN X ELSE tables[g][l]
  BY <1>1, TableAt
<1>4. ASSUME NEW l \in StagesOf(g), NEW w
      PROVE  w \in tables'[g][l] <=>
               IF g = f /\ l = at[f] THEN (w \in tables[g][l] /\ w # w0) \/ w = w1 ELSE w \in tables[g][l]
  BY <1>3 DEF X
<1>5. ASSUME NEW l \in StagesOf(g)
      PROVE  (\E w \in tables'[g][l] : w.handle = h /\ OwnerOf(g, l, w) = o) <=>
               (\E w \in tables[g][l] : w.handle = h /\ OwnerOf(g, l, w) = o)
  <2>1. CASE g = f /\ l = at[f]
    BY <1>1, <1>2, <1>4, <2>1
  <2>2. CASE ~(g = f /\ l = at[f])
    BY <1>4, <2>2
  <2> QED BY <2>1, <2>2
<1> QED BY <1>1, <1>5 DEF Held

(* A wrapper that is dropped was the only holder of its handle.            *)
LEMMA LosesHeld ==
  ASSUME FlowTypeOK, Apart(tables, queue), NEW f \in Thread, at[f] \in StagesOf(f),
         NEW w0 \in tables[f][at[f]], Loses(f, w0), NEW g \in Thread, NEW h, NEW o
  PROVE  Held(tables', queue', g, h, o) <=> Held(tables, queue, g, h, o) /\ h # w0.handle
<1> DEFINE X == tables[f][at[f]] \ {w0}
<1>1. SetTable(f, at[f], X) /\ queue' = queue
  BY DEF Loses, Drop, SetTable
<1> HIDE DEF X
<1>3. \A l \in StagesOf(g) : tables'[g][l] = IF g = f /\ l = at[f] THEN X ELSE tables[g][l]
  BY <1>1, TableAt
<1>4. ASSUME NEW l \in StagesOf(g), NEW w
      PROVE  w \in tables'[g][l] <=> w \in tables[g][l] /\ ~(g = f /\ l = at[f] /\ w = w0)
  BY <1>3 DEF X
<1>5. ASSUME NEW l \in StagesOf(g), NEW w \in tables[g][l], w.handle = w0.handle
      PROVE  g = f /\ l = at[f] /\ w = w0
  BY <1>5 DEF Apart, WrappersApart
<1>6. ASSUME NEW l \in StagesOf(g), NEW i \in 1..Len(queue[g][l]) PROVE queue[g][l][i] # w0.handle
  BY DEF Apart, BothApart
<1> QED BY <1>1, <1>4, <1>5, <1>6 DEF Held

(* An element that is lent goes from the queue to the table.               *)
LEMMA LendsHeld ==
  ASSUME FlowTypeOK, NEW f \in Thread, NEW k \in StagesOf(f), Lends(f, k),
         NEW g \in Thread, NEW h, NEW o
  PROVE  Held(tables', queue', g, h, o) <=> Held(tables, queue, g, h, o)
<1> DEFINE q  == queue[f][k - 1]
           w0 == [handle |-> Head(q), kind |-> "input"]
           X  == tables[f][k] \cup {w0}
           Y  == Tail(q)
<1>1. SetTable(f, k, X) /\ SetQueue(f, k - 1, Y)
  BY DEF Lends, Put, SetTable, SetQueue
<1>2. /\ k - 1 \in StagesOf(f) /\ Len(q) \in Nat \ {0} /\ w0.handle = q[1] /\ OwnerOf(f, k, w0) = Host
      /\ Len(Y) = Len(q) - 1 /\ \A i \in 1..(Len(q) - 1) : Y[i] = q[i + 1]
  BY LendType DEF OwnerOf
<1> HIDE DEF w0, X, Y, q
<1>3. \A l \in StagesOf(g) : tables'[g][l] = IF g = f /\ l = k THEN X ELSE tables[g][l]
  BY <1>1, TableAt
<1>4. \A l \in StagesOf(g) : queue'[g][l] = IF g = f /\ l = k - 1 THEN Y ELSE queue[g][l]
  BY <1>1, <1>2, QueueAt
<1>5. \A x : (\E i \in 1..Len(q) : q[i] = x) <=> (x = q[1] \/ \E i \in 1..Len(Y) : Y[i] = x)
  <2>1. ASSUME NEW i \in 1..Len(q) PROVE i = 1 \/ (i - 1 \in 1..Len(Y) /\ Y[i - 1] = q[i])
    <3>1. i - 1 \in 1..(Len(q) - 1) \/ i = 1
      BY <1>2
    <3>2. i - 1 + 1 = i
      BY <1>2
    <3> QED BY <1>2, <3>1, <3>2
  <2>2. ASSUME NEW i \in 1..Len(Y) PROVE i + 1 \in 1..Len(q) /\ Y[i] = q[i + 1]
    BY <1>2
  <2>3. 1 \in 1..Len(q)
    BY <1>2
  <2> QED BY <2>1, <2>2, <2>3
<1>6. CASE g # f
  BY <1>3, <1>4, <1>6 DEF Held
<1>7. CASE g = f
  <2> DEFINE InTable(T, l) == \E w \in T[g][l] : w.handle = h /\ OwnerOf(g, l, w) = o
             InQueue(Q, l) == \E i \in 1..Len(Q[g][l]) : Q[g][l][i] = h /\ o = Host
             isHead == h = q[1] /\ o = Host
  <2>1. \A l \in StagesOf(g) : InTable(tables', l) <=> InTable(tables, l) \/ (l = k /\ isHead)
    <3>1. \A l \in StagesOf(g) : \A w : w \in tables'[g][l] <=> w \in tables[g][l] \/ (l = k /\ w = w0)
      BY <1>3, <1>7 DEF X
    <3> QED BY <1>2, <1>7, <3>1
  <2>2. \A l \in StagesOf(g) : l # k - 1 => (InQueue(queue', l) <=> InQueue(queue, l))
    BY <1>4
  <2>3. queue'[g][k - 1] = Y /\ queue[g][k - 1] = q
    BY <1>2, <1>4, <1>7 DEF q
  <2>4. InQueue(queue, k - 1) <=> InQueue(queue', k - 1) \/ isHead
    BY <1>5, <2>3
  <2>5. /\ Held(tables', queue', g, h, o) <=> \E l \in StagesOf(g) : InTable(tables', l) \/ InQueue(queue', l)
        /\ Held(tables, queue, g, h, o) <=> \E l \in StagesOf(g) : InTable(tables, l) \/ InQueue(queue, l)
    BY DEF Held
  <2>6. k \in StagesOf(g) /\ k - 1 \in StagesOf(g)
    BY <1>2, <1>7
  <2> HIDE DEF InTable, InQueue, isHead
  <2> QED BY <2>1, <2>2, <2>4, <2>5, <2>6
<1> QED BY <1>6, <1>7

(* A buffer that is emitted is held by its flow still, on the host's word. *)
LEMMA EmitsHeld ==
  ASSUME FlowTypeOK, Apart(tables, queue), NEW f \in Thread, at[f] \in StagesOf(f),
         NEW w0, Emits(f, w0), NEW g \in Thread, NEW h, NEW o
  PROVE  Held(tables', queue', g, h, o) <=>
           \/ Held(tables, queue, g, h, o) /\ h # w0.handle
           \/ g = f /\ h = w0.handle /\ o = Host
<1> DEFINE q == queue[f][at[f]]
           X == tables[f][at[f]] \ {w0}
           Y == Append(q, w0.handle)
<1>1. SetTable(f, at[f], X) /\ SetQueue(f, at[f], Y) /\ w0 \in tables[f][at[f]]
  BY DEF Emits, Drop, SetTable, SetQueue
<1>2. \A x : (\E i \in 1..Len(Y) : Y[i] = x) <=> (x = w0.handle \/ \E i \in 1..Len(q) : q[i] = x)
  <2>1. q \in Seq(issued) /\ w0.handle \in issued
    BY <1>1 DEF FlowTypeOK, HoldingsOK, Wrapper
  <2> HIDE DEF q
  <2>2. /\ Len(q) \in Nat /\ Len(Y) = Len(q) + 1 /\ Y[Len(q) + 1] = w0.handle
        /\ \A i \in 1..Len(q) : Y[i] = q[i]
    BY <2>1
  <2> HIDE DEF Y
  <2>3. \A i \in 1..Len(Y) : i \in 1..Len(q) \/ i = Len(q) + 1
    BY <2>2
  <2>4. Len(q) + 1 \in 1..Len(Y) /\ \A i \in 1..Len(q) : i \in 1..Len(Y)
    BY <2>2
  <2> QED BY <2>2, <2>3, <2>4
<1> HIDE DEF X, Y, q
<1>3. \A l \in StagesOf(g) : tables'[g][l] = IF g = f /\ l = at[f] THEN X ELSE tables[g][l]
  BY <1>1, TableAt
<1>4. \A l \in StagesOf(g) : queue'[g][l] = IF g = f /\ l = at[f] THEN Y ELSE queue[g][l]
  BY <1>1, QueueAt
<1>5. ASSUME NEW l \in StagesOf(g), NEW w \in tables[g][l], w.handle = w0.handle
      PROVE  g = f /\ l = at[f] /\ w = w0
  BY <1>1, <1>5 DEF Apart, WrappersApart
<1>6. ASSUME NEW l \in StagesOf(g), NEW i \in 1..Len(queue[g][l]) PROVE queue[g][l][i] # w0.handle
  BY <1>1 DEF Apart, BothApart
<1> DEFINE InTable(T, l) == \E w \in T[g][l] : w.handle = h /\ OwnerOf(g, l, w) = o
           InQueue(Q, l) == \E i \in 1..Len(Q[g][l]) : Q[g][l][i] = h /\ o = Host
           is0 == h = w0.handle
           here(l) == g = f /\ l = at[f]
<1>7. ASSUME NEW l \in StagesOf(g) PROVE InTable(tables', l) <=> InTable(tables, l) /\ ~is0
  <2>1. \A w : w \in tables'[g][l] <=> w \in tables[g][l] /\ ~(g = f /\ l = at[f] /\ w = w0)
    BY <1>3 DEF X
  <2> QED BY <1>5, <2>1
<1>8. ASSUME NEW l \in StagesOf(g)
      PROVE  /\ InQueue(queue', l) <=> InQueue(queue, l) \/ (here(l) /\ is0 /\ o = Host)
             /\ InQueue(queue, l) => ~is0
  <2>1. InQueue(queue, l) => ~is0
    BY <1>6
  <2>2. CASE here(l)
    <3>1. queue'[g][l] = Y /\ queue[g][l] = q
      BY <1>4, <2>2 DEF q
    <3> QED BY <1>2, <2>1, <2>2, <3>1
  <2>3. CASE ~here(l)
    <3>1. queue'[g][l] = queue[g][l]
      BY <1>4, <2>3
    <3> QED BY <2>1, <2>3, <3>1
  <2> QED BY <2>2, <2>3
<1>9. /\ Held(tables', queue', g, h, o) <=> \E l \in StagesOf(g) : InTable(tables', l) \/ InQueue(queue', l)
      /\ Held(tables, queue, g, h, o) <=> \E l \in StagesOf(g) : InTable(tables, l) \/ InQueue(queue, l)
  BY DEF Held
<1>10. /\ g = f => here(at[f]) /\ at[f] \in StagesOf(g)
       /\ \A l : here(l) => g = f
  OBVIOUS
<1>11. is0 <=> h = w0.handle
  OBVIOUS
<1> HIDE DEF InTable, InQueue, is0, here
<1> QED BY <1>7, <1>8, <1>9, <1>10, <1>11

(* A flow that is cleared holds less, and the others what they held.       *)
LEMMA ClearsHeld ==
  ASSUME FlowTypeOK, NEW f \in Thread, Clears(f), NEW g \in Thread, NEW h, NEW o
  PROVE  /\ Held(tables', queue', g, h, o) => Held(tables, queue, g, h, o)
         /\ g # f => (Held(tables', queue', g, h, o) <=> Held(tables, queue, g, h, o))
<1>1. /\ tables = [x \in Thread |-> tables[x]] /\ queue = [x \in Thread |-> queue[x]]
  BY DEF FlowTypeOK, HoldingsOK
<1>2. g # f => tables'[g] = tables[g] /\ queue'[g] = queue[g]
  BY <1>1 DEF Clears
<1>3. \A l \in StagesOf(f) : tables'[f][l] = {} /\ (queue'[f][l] = queue[f][l] \/ queue'[f][l] = <<>>)
  BY <1>1 DEF Clears
<1>4. CASE g # f
  BY <1>2, <1>4 DEF Held
<1>5. CASE g = f
  BY <1>3, <1>5 DEF Held
<1> QED BY <1>4, <1>5

-----------------------------------------------------------------------------
(* The steps of a flow, by what they do to the table and to the holdings.  *)

Rearranges(f) ==
  /\ UNCHANGED <<live, generation, entry>>
  /\ \/ UNCHANGED <<tables, queue>>
     \/ Clears(f) /\ phase'[f] # "running"
     \/ at[f] \in StagesOf(f) /\ \E w : Freezes(f, w)
     \/ \E k \in StagesOf(f) : Lends(f, k)
Allocates(f, s, n) ==
  /\ at[f] \in StagesOf(f) /\ pc[f] = "taken"
  /\ s \in Slot \ live /\ <<s, n>> \notin issued /\ Enter(f, s, n)
  /\ Gains(f, <<s, n>>)
Releases(f, w) ==
  /\ at[f] \in StagesOf(f)
  /\ w \in tables[f][at[f]] /\ Leave({w.handle[1]}) /\ Loses(f, w)
Passes(f, w) ==
  /\ at[f] \in StagesOf(f)
  /\ TransferOwnership(w.handle, Host) /\ Emits(f, w)
Reclaims(f) ==
  /\ UNCHANGED <<tables, queue>> /\ phase[f] = "ended"
  /\ \/ cursor[f] < NumStages[f] /\ Leave(Indexed(componentResources[IdOf[f][cursor[f] + 1]]))
     \/ Leave(Indexed(flowResources[f]))

(* There are no others.                                                    *)
LEMMA StepCases ==
  ASSUME IndInv, HolderInv, CallInv, NEW f \in Thread, FlowStep(f)
  PROVE  \/ Rearranges(f)
         \/ \E s, n : Allocates(f, s, n)
         \/ \E w : Releases(f, w)
         \/ \E w : Passes(f, w)
         \/ Reclaims(f)
<1> USE DEF HolderInv
<1>0. at[f] # 0 => at[f] \in StagesOf(f)
  BY StageTypes
<1>1. CASE \/ InstantiateNode(f) \/ SpawnFlow(f) \/ InvokePull(f) \/ GuestAllocate(f)
           \/ ManagerStep(f) \/ NoOutput(f) \/ InvocationTimeout(f)
  <2>1. UNCHANGED <<live, generation, entry>>
    <3>1. ASSUME NEW c, RegisterComponent(c) PROVE UNCHANGED <<live, generation, entry>>
      BY <3>1 DEF RegisterComponent, table
    <3>2. ASSUME NEW o, NEW fl, AllocateReserve(f, o, fl) PROVE UNCHANGED <<live, generation, entry>>
      BY <3>2 DEF AllocateReserve, table
    <3>3. CASE ManagerStep(f)
      BY <3>3 DEF ManagerStep, AllocateTake, AllocateFails, AllocateRollback, ReleaseReturn, table
    <3> QED BY <1>1, <3>1, <3>2, <3>3 DEF InstantiateNode, SpawnFlow, InvokePull, GuestAllocate,
              NoOutput, InvocationTimeout, vars
  <2>2. UNCHANGED <<tables, queue>>
    BY <1>1 DEF InstantiateNode, SpawnFlow, InvokePull, GuestAllocate, ManagerStep, NoOutput,
                InvocationTimeout, flowVars
  <2> QED BY <2>1, <2>2 DEF Rearranges
<1>2. CASE InitFails(f) \/ DriverEnds(f)
  BY <1>2 DEF InitFails, DriverEnds, Clears, Rearranges, vars, FlowTypeOK
<1>3. CASE GuestFreeze(f)
  BY <1>0, <1>3 DEF GuestFreeze, InGuest, Freezes, Rearranges, vars
<1>4. CASE \E k \in StagesOf(f) : InvokeWithInput(f, k)
  BY <1>4 DEF InvokeWithInput, Lends, Rearranges, vars
<1>5. CASE GuestAllocated(f)
  <2>1. AllocateInsert(f) /\ UNCHANGED queue
    BY <1>5 DEF GuestAllocated
  <2>2. PICK s \in Slot \ live : <<s, generation[s] + 1>> \notin issued /\ Enter(f, s, generation[s] + 1)
    BY <2>1, InsertFresh
  <2>3. issued' = issued \cup {<<s, generation[s] + 1>>}
    BY <2>2 DEF Enter
  <2>4. Put(f, at[f], [handle |-> <<s, generation[s] + 1>>, kind |-> "mutable"])
    BY <1>5, <2>3 DEF GuestAllocated
  <2>5. at[f] # 0 /\ pc[f] = "taken"
    BY <2>1 DEF AllocateInsert, AllocInv
  <2>6. Gains(f, <<s, generation[s] + 1>>)
    BY <2>1, <2>2, <2>3, <2>4 DEF Gains
  <2>7. Allocates(f, s, generation[s] + 1)
    BY <1>0, <2>2, <2>5, <2>6 DEF Allocates
  <2> QED BY <2>7
<1>6. CASE GuestDrop(f)
  <2>1. PICK w \in tables[f][at[f]] : Drop(f, at[f], w) /\ Release(f, w.handle)
    BY <1>6 DEF GuestDrop
  <2>2. at[f] # 0 /\ UNCHANGED queue
    BY <1>6 DEF GuestDrop, InGuest
  <2>3. Leave({w.handle[1]})
    BY <2>1 DEF Release
  <2>4. Releases(f, w)
    BY <1>0, <2>1, <2>2, <2>3 DEF Releases, Loses
  <2> QED BY <2>4
<1>7. CASE ReclaimInputElement(f)
  <2> DEFINE w == [handle |-> input[f], kind |-> "input"]
  <2>1. Drop(f, at[f], w) /\ Release(f, input[f]) /\ at[f] # 0 /\ UNCHANGED queue /\ input[f] # NoHandle
    BY <1>7 DEF ReclaimInputElement, InGuest
  <2>2. w \in tables[f][at[f]] /\ w.handle = input[f]
    BY <2>1 DEF CallInv
  <2> HIDE DEF w
  <2>3. Leave({w.handle[1]})
    BY <2>1, <2>2 DEF Release
  <2>4. Releases(f, w)
    BY <1>0, <2>1, <2>2, <2>3 DEF Releases, Loses
  <2> QED BY <2>4
<1>8. CASE ConvertOutputElement(f)
  BY <1>0, <1>8 DEF ConvertOutputElement, Returned, Passes, Emits
<1>9. CASE ReapComponent(f)
  BY <1>9 DEF ReapComponent, ForceReclaim, Reclaims
<1>10. CASE ReapFlow(f)
  BY <1>10 DEF ReapFlow, ReclaimFlowBuffers, Reclaims
<1> QED BY <1>1, <1>2, <1>3, <1>4, <1>5, <1>6, <1>7, <1>8, <1>9, <1>10 DEF FlowStep

(* Custody is kept.                                                        *)
LEMMA CustodyStep ==
  ASSUME IdsDistinct, CustodyParts, NEW f \in Thread, FlowStep(f)
  PROVE  CustodyInv'
<1> USE DEF CustodyParts, HolderInv
<1>t. TypeOK
  BY DEF IndInv
<1>c. \A g \in Thread : \A h, o : Held(tables, queue, g, h, o) => Holds(g, h, o)
  BY CustodyHeld
<1>i. ASSUME NEW g \in Thread, NEW h, NEW o, Held(tables, queue, g, h, o) PROVE h \in issued
  BY <1>i DEF Held, FlowTypeOK, HoldingsOK, Wrapper
<1> SUFFICES ASSUME NEW g \in Thread, NEW h, NEW o, Held(tables', queue', g, h, o)
             PROVE  Holds(g, h, o)'
  BY CustodyHeld
<1>1. CASE Rearranges(f)
  <2>1. Held(tables, queue, g, h, o)
    BY <1>1, ClearsHeld, FreezesHeld, LendsHeld DEF Rearranges
  <2> QED BY <1>1, <1>c, <2>1, HoldsSame DEF Rearranges
<1>2. ASSUME NEW s, NEW n, Allocates(f, s, n) PROVE Holds(g, h, o)'
  <2>1. CASE Held(tables, queue, g, h, o)
    BY <1>2, <1>c, <1>t, <2>1, HoldsEntered DEF Allocates
  <2>2. CASE g = f /\ h = <<s, n>> /\ o = IdOf[f][at[f]]
    <3>1. /\ live' = live \cup {s} /\ generation'[s] = n
          /\ entry'[s].owner = call[f].owner /\ entry'[s].flow = call[f].flow
      BY <1>2, <1>t DEF Allocates, Enter, TypeOK
    <3>2. call[f].owner = o /\ call[f].flow \in {f, Unassigned}
      <4>1. pc[f] \in {"reserved", "taken"}
        BY <1>2 DEF Allocates
      <4> QED BY <2>2, <4>1 DEF CallInv
    <3> QED BY <2>2, <3>1, <3>2 DEF Holds, Resolves
  <2> QED BY <1>2, <2>1, <2>2, GainsHeld DEF Allocates
<1>3. ASSUME NEW w, Releases(f, w) PROVE Holds(g, h, o)'
  <2>1. Held(tables, queue, g, h, o) /\ h # w.handle
    BY <1>3, LosesHeld DEF Releases
  <2>2. Held(tables, queue, f, w.handle, OwnerOf(f, at[f], w))
    BY <1>3 DEF Releases, Held
  <2>3. Holds(g, h, o) /\ Holds(f, w.handle, OwnerOf(f, at[f], w)) /\ h \in issued /\ w.handle \in issued
    BY <1>c, <1>i, <2>1, <2>2
  <2>4. h[1] # w.handle[1]
    BY <1>t, <2>1, <2>3, SlotsApart DEF Holds
  <2> QED BY <1>3, <1>t, <2>3, <2>4, HoldsLeft DEF Releases
<1>4. ASSUME NEW w, Passes(f, w) PROVE Holds(g, h, o)'
  <2>2. Held(tables, queue, f, w.handle, OwnerOf(f, at[f], w))
    BY <1>4 DEF Passes, Emits, Held
  <2>3. Holds(f, w.handle, OwnerOf(f, at[f], w)) /\ w.handle \in issued
    BY <1>c, <1>i, <2>2
  <2>4. CASE Held(tables, queue, g, h, o) /\ h # w.handle
    <3>1. Holds(g, h, o) /\ h \in issued
      BY <1>c, <1>i, <2>4
    <3>2. h[1] # w.handle[1]
      BY <1>t, <2>3, <2>4, <3>1, SlotsApart DEF Holds
    <3> QED BY <1>4, <1>t, <3>1, <3>2, HoldsPassed DEF Passes
  <2>5. CASE g = f /\ h = w.handle /\ o = Host
    <3>1. h[1] \in Slot
      BY <1>t, <2>3, <2>5, ResolvesRid DEF Holds
    <3>2. /\ UNCHANGED <<live, generation>>
          /\ entry' = [entry EXCEPT ![h[1]].owner = Host]
      BY <1>4, <2>5 DEF Passes, TransferOwnership
    <3>3. entry'[h[1]].owner = Host /\ entry'[h[1]].flow = entry[h[1]].flow
      BY <1>t, <3>1, <3>2 DEF TypeOK, Entry
    <3> QED BY <2>3, <2>5, <3>2, <3>3 DEF Holds, Resolves
  <2> QED BY <1>4, <2>4, <2>5, EmitsHeld DEF Passes
<1>5. CASE Reclaims(f)
  <2>1. UNCHANGED <<tables, queue>> /\ phase[f] = "ended"
    BY <1>5 DEF Reclaims
  <2>2. Held(tables, queue, g, h, o)
    BY <2>1
  <2>3. g # f
    BY <2>1, <2>2 DEF Held, StoresInv
  <2>4. Holds(g, h, o)
    BY <1>c, <2>2
  <2>5. CASE cursor[f] < NumStages[f] /\ Leave(Indexed(componentResources[IdOf[f][cursor[f] + 1]]))
    <3> DEFINE c == IdOf[f][cursor[f] + 1]
    <3>1. c \in Component /\ cursor[f] + 1 \in StagesOf(f)
      BY <2>5, StageTypes
    <3>2. o # c
      <4>1. PICK k \in StagesOf(g) : o = IdOf[g][k] \/ o = Host
        BY <2>2 DEF Held, OwnerOf
      <4> QED BY <2>3, <3>1, <4>1, ManagerAssumption DEF IdsDistinct
    <3> HIDE DEF c
    <3>3. h[1] \notin Indexed(componentResources[c])
      BY <2>4, <3>1, <3>2, IndexedExact DEF IndInv, Owned, Holds
    <3> QED BY <1>t, <2>4, <2>5, <3>3, HoldsLeft DEF c
  <2>6. CASE Leave(Indexed(flowResources[f]))
    <3>1. f \in Flow /\ entry[h[1]].flow # f
      BY <2>3, <2>4, FlowAssumption DEF Holds
    <3>2. h[1] \notin Indexed(flowResources[f])
      BY <3>1, IndexedExact DEF IndInv
    <3> QED BY <1>t, <2>4, <2>6, <3>2, HoldsLeft
  <2> QED BY <1>5, <2>5, <2>6 DEF Reclaims
<1> QED BY StepCases, <1>1, <1>2, <1>3, <1>4, <1>5

-----------------------------------------------------------------------------
(* The calls, the stores and the stages.                                   *)

(* A step of one flow leaves what the others hold alone ...                *)
LEMMA OthersHold ==
  ASSUME FlowTypeOK, AllocInv, NEW f \in Thread, FlowStep(f), NEW g \in Thread, g # f
  PROVE  tables'[g] = tables[g] /\ queue'[g] = queue[g]
<1>0. tables = [x \in Thread |-> tables[x]] /\ queue = [x \in Thread |-> queue[x]]
  BY DEF FlowTypeOK, HoldingsOK
<1>a. ASSUME NEW k \in StagesOf(f), NEW X, SetTable(f, k, X) PROVE tables'[g] = tables[g]
  <2>1. \A x \in Thread : x # f => tables'[x] = tables[x]
    BY <1>a, TablePut
  <2> QED BY <2>1
<1>b. ASSUME NEW k \in StagesOf(f), NEW X, SetQueue(f, k, X) PROVE queue'[g] = queue[g]
  <2>1. \A x \in Thread : x # f => queue'[x] = queue[x]
    BY <1>b, QueuePut
  <2> QED BY <2>1
<1>1. CASE UNCHANGED <<tables, queue>>
  BY <1>1
<1>2. CASE Clears(f)
  BY <1>0, <1>2 DEF Clears
<1>3. ASSUME at[f] \in StagesOf(f), NEW h, Gains(f, h) PROVE tables'[g] = tables[g] /\ queue'[g] = queue[g]
  <2>1. SetTable(f, at[f], tables[f][at[f]] \cup {[handle |-> h, kind |-> "mutable"]}) /\ UNCHANGED queue
    BY <1>3 DEF Gains, Put, SetTable
  <2> QED BY <1>3, <1>a, <2>1
<1>4. ASSUME at[f] \in StagesOf(f), NEW w, Freezes(f, w) PROVE tables'[g] = tables[g] /\ queue'[g] = queue[g]
  <2>1. SetTable(f, at[f], (tables[f][at[f]] \ {w}) \cup {[w EXCEPT !.kind = "buffer"]}) /\ UNCHANGED queue
    BY <1>4 DEF Freezes, SetTable
  <2> QED BY <1>4, <1>a, <2>1
<1>5. ASSUME at[f] \in StagesOf(f), NEW w, Drop(f, at[f], w) PROVE tables'[g] = tables[g]
  <2>1. SetTable(f, at[f], tables[f][at[f]] \ {w})
    BY <1>5 DEF Drop, SetTable
  <2> QED BY <1>5, <1>a, <2>1
<1>6. ASSUME at[f] \in StagesOf(f), NEW w, Loses(f, w) PROVE tables'[g] = tables[g] /\ queue'[g] = queue[g]
  BY <1>5, <1>6 DEF Loses
<1>7. ASSUME at[f] \in StagesOf(f), NEW w, Emits(f, w) PROVE tables'[g] = tables[g] /\ queue'[g] = queue[g]
  <2>1. SetQueue(f, at[f], Append(queue[f][at[f]], w.handle)) /\ Drop(f, at[f], w)
    BY <1>7 DEF Emits, SetQueue
  <2> QED BY <1>5, <1>7, <1>b, <2>1
<1>8. ASSUME NEW k \in StagesOf(f), Lends(f, k) PROVE tables'[g] = tables[g] /\ queue'[g] = queue[g]
  <2>1. /\ SetTable(f, k, tables[f][k] \cup {[handle |-> Head(queue[f][k - 1]), kind |-> "input"]})
        /\ SetQueue(f, k - 1, Tail(queue[f][k - 1]))
    BY <1>8 DEF Lends, Put, SetTable, SetQueue
  <2>2. k - 1 \in StagesOf(f)
    BY <1>8, LendType
  <2> QED BY <1>a, <1>b, <2>1, <2>2
<1> QED BY HoldCases, <1>1, <1>2, <1>3, <1>4, <1>6, <1>7, <1>8

(* ... and their calls; its own, in an allocation, keeps its arguments.    *)
LEMMA CallFrame ==
  ASSUME TypeOK, NEW f \in Thread, FlowStep(f)
  PROVE  /\ \A g \in Thread : g # f => call'[g] = call[g]
         /\ pc[f] \in {"reserved", "taken"} /\ pc'[f] \in {"reserved", "taken"} =>
              call'[f].owner = call[f].owner /\ call'[f].flow = call[f].flow
<1>0. call \in [Thread -> Call] /\ pc \in [Thread -> {"idle", "reserved", "taken", "returning"}]
  BY DEF TypeOK
<1>1. CASE UNCHANGED vars
  BY <1>1 DEF vars
<1>2. ASSUME NEW c, RegisterComponent(c) PROVE UNCHANGED call
  BY <1>2 DEF RegisterComponent
<1>3. CASE GuestAllocate(f)
  BY <1>0, <1>3 DEF GuestAllocate, InGuest, AllocateReserve
<1>4. CASE AllocateInsert(f)
  BY <1>0, <1>4 DEF AllocateInsert, Enter
<1>5. CASE ManagerStep(f)
  <2>1. CASE AllocateTake(f)
    <3>1. PICK b : call' = [call EXCEPT ![f].buffer = b]
      BY <2>1 DEF AllocateTake
    <3>2. call'[f] = [call[f] EXCEPT !.buffer = b] /\ \A g \in Thread : g # f => call'[g] = call[g]
      BY <1>0, <3>1
    <3> QED BY <1>0, <3>2 DEF Call
  <2>2. CASE AllocateFails(f) \/ AllocateRollback(f) \/ ReleaseReturn(f)
    BY <1>0, <2>2 DEF AllocateFails, AllocateRollback, ReleaseReturn
  <2> QED BY <1>5, <2>1, <2>2 DEF ManagerStep
<1>6. ASSUME NEW h, Release(f, h)
      PROVE  /\ \A g \in Thread : g # f => call'[g] = call[g]
             /\ pc[f] = "idle"
  BY <1>0, <1>6 DEF Release
<1>7. ASSUME NEW h, TransferOwnership(h, Host) PROVE UNCHANGED call
  BY <1>7 DEF TransferOwnership
<1>8. ASSUME NEW c, ForceReclaim(c) PROVE UNCHANGED call
  BY <1>8 DEF ForceReclaim
<1>9. CASE ReclaimFlowBuffers(f)
  BY <1>9 DEF ReclaimFlowBuffers
<1>10. CASE UNCHANGED call
  BY <1>10
<1> QED BY ManagerCases, <1>1, <1>2, <1>3, <1>4, <1>5, <1>6, <1>7, <1>8, <1>9, <1>10

(* A call in flight keeps its stage, its arguments and its input.          *)
LEMMA CallStep ==
  ASSUME FlowTypeOK, TypeOK, CallInv, NEW f \in Thread, FlowStep(f)
  PROVE  CallInv'
<1> DEFINE Lent(g) == input[g] # NoHandle =>
             at[g] # 0 /\ [handle |-> input[g], kind |-> "input"] \in tables[g][at[g]]
           Calling(g) == /\ at[g] # 0 => phase[g] \in {"starting", "running"}
                         /\ at[g] # 0 /\ phase[g] = "starting" => at[g] <= cursor[g]
           Allocs(g) == pc[g] \in {"reserved", "taken"} =>
             /\ at[g] # 0
             /\ call[g].owner = IdOf[g][at[g]]
             /\ call[g].flow = IF phase[g] = "starting" THEN Unassigned ELSE g
<1>a. \A g \in Thread : Lent(g) /\ Calling(g) /\ Allocs(g)
  BY DEF CallInv
<1>p. PcType /\ AllocInv
  BY <1>a DEF PcType, TypeOK, AllocInv
<1>s. /\ at[f] # 0 => at[f] \in StagesOf(f)
      /\ phase \in [Thread -> {"absent", "starting", "failed", "running", "ended", "reaped"}]
      /\ cursor \in [Thread -> Nat] /\ at \in [Thread -> Nat]
      /\ input \in [Thread -> issued \cup {NoHandle}]
  BY StageTypes DEF FlowTypeOK
<1>1. ASSUME NEW g \in Thread, g # f PROVE Lent(g)' /\ Calling(g)' /\ Allocs(g)'
  <2>1. /\ phase'[g] = phase[g] /\ cursor'[g] = cursor[g] /\ at'[g] = at[g] /\ input'[g] = input[g]
        /\ pc'[g] = pc[g] /\ tables'[g] = tables[g] /\ call'[g] = call[g]
    BY <1>1, <1>p, FlowFrame, IssuedGrows, OthersHold, CallFrame
  <2> QED BY <1>a, <2>1
<1>2. Calling(f)'
  <2>1. CASE InstantiateNode(f)
    BY <1>s, <2>1 DEF InstantiateNode
  <2>2. CASE InitFails(f) \/ SpawnFlow(f) \/ NoOutput(f) \/ InvocationTimeout(f) \/ DriverEnds(f) \/ ConvertOutputElement(f)
    BY <1>s, <2>2 DEF InitFails, SpawnFlow, NoOutput, InvocationTimeout, DriverEnds,
                      ConvertOutputElement, AtRest
  <2>3. CASE InvokePull(f)
    BY <1>s, <2>3 DEF InvokePull
  <2>4. ASSUME NEW k \in StagesOf(f), InvokeWithInput(f, k) PROVE Calling(f)'
    BY <1>s, <2>4 DEF InvokeWithInput
  <2>5. CASE \/ GuestAllocate(f) \/ GuestAllocated(f) \/ ManagerStep(f) \/ GuestFreeze(f) \/ GuestDrop(f)
             \/ ReclaimInputElement(f)
    BY <1>a, <2>5 DEF GuestAllocate, GuestAllocated, ManagerStep, GuestFreeze, GuestDrop,
                      ReclaimInputElement, flowVars
  <2>6. CASE ReapComponent(f) \/ ReapFlow(f)
    <3>1. at[f] = 0 /\ UNCHANGED at
      BY <1>a, <2>6 DEF ReapComponent, ReapFlow
    <3> QED BY <3>1
  <2> QED BY <2>1, <2>2, <2>3, <2>4, <2>5, <2>6 DEF FlowStep
<1>3. Lent(f)'
  <2>1. CASE UNCHANGED <<tables, input, at>>
    BY <1>a, <2>1
  <2>2. CASE input'[f] = NoHandle
    BY <2>2
  <2>3. ASSUME input[f] = NoHandle, UNCHANGED input PROVE input'[f] = NoHandle
    BY <2>3
  <2>4. CASE InstantiateNode(f) \/ InitFails(f) \/ InvokePull(f) \/ ConvertOutputElement(f) \/ NoOutput(f) \/ DriverEnds(f)
    <3>1. input[f] = NoHandle /\ UNCHANGED input
      BY <1>a, <2>4 DEF InstantiateNode, InitFails, InvokePull, ConvertOutputElement, NoOutput,
                        DriverEnds, AtRest, Returned
    <3> QED BY <2>2, <2>3, <3>1
  <2>5. CASE \/ SpawnFlow(f) \/ GuestAllocate(f) \/ ManagerStep(f) \/ ReapComponent(f) \/ ReapFlow(f)
    BY <2>1, <2>5 DEF SpawnFlow, GuestAllocate, ManagerStep, ReapComponent, ReapFlow, flowVars
  <2>6. CASE ReclaimInputElement(f) \/ InvocationTimeout(f)
    BY <1>s, <2>2, <2>6 DEF ReclaimInputElement, InvocationTimeout
  <2>7. ASSUME NEW k \in StagesOf(f), InvokeWithInput(f, k) PROVE Lent(f)'
    <3> DEFINE h == Head(queue[f][k - 1])
               w == [handle |-> h, kind |-> "input"]
               X == tables[f][k] \cup {w}
    <3>1. /\ SetTable(f, k, X) /\ input' = [input EXCEPT ![f] = h] /\ at' = [at EXCEPT ![f] = k]
      BY <2>7 DEF InvokeWithInput, Put, SetTable
    <3>2. w \in X
      OBVIOUS
    <3> HIDE DEF X
    <3>3. tables'[f][k] = X
      BY <3>1, TableAt
    <3>4. input'[f] = h /\ at'[f] = k /\ k # 0
      BY <1>s, <3>1 DEF StagesOf
    <3> QED BY <3>2, <3>3, <3>4
  <2>8. ASSUME at[f] # 0, UNCHANGED <<input, at>>, NEW X, SetTable(f, at[f], X),
               \A w \in tables[f][at[f]] : w.kind = "input" => w \in X
        PROVE  Lent(f)'
    <3>1. tables'[f][at[f]] = X
      BY <1>s, <2>8, TableAt
    <3> DEFINE w == [handle |-> input[f], kind |-> "input"]
    <3>2. w.kind = "input" /\ (input[f] # NoHandle => w \in tables[f][at[f]])
      BY <1>a
    <3> HIDE DEF w
    <3>3. input[f] # NoHandle => w \in X
      BY <2>8, <3>2
    <3> QED BY <2>8, <3>1, <3>3 DEF w
  <2>9. CASE GuestAllocated(f)
    <3>1. PICK h : Put(f, at[f], [handle |-> h, kind |-> "mutable"])
      BY <2>9 DEF GuestAllocated
    <3>2. SetTable(f, at[f], tables[f][at[f]] \cup {[handle |-> h, kind |-> "mutable"]})
      BY <3>1 DEF Put, SetTable
    <3>3. at[f] # 0 /\ UNCHANGED <<input, at>>
      BY <1>p, <2>9 DEF GuestAllocated, AllocateInsert, AllocInv
    <3> QED BY <2>8, <3>2, <3>3
  <2>10. CASE GuestFreeze(f)
    <3>1. PICK w : w.kind = "mutable" /\ SetTable(f, at[f], (tables[f][at[f]] \ {w}) \cup {[w EXCEPT !.kind = "buffer"]})
      BY <2>10 DEF GuestFreeze, SetTable
    <3>2. at[f] # 0 /\ UNCHANGED <<input, at>>
      BY <2>10 DEF GuestFreeze, InGuest
    <3> DEFINE X == (tables[f][at[f]] \ {w}) \cup {[w EXCEPT !.kind = "buffer"]}
    <3>3. \A v \in tables[f][at[f]] : v.kind = "input" => v \in X
      BY <3>1
    <3> QED BY <2>8, <3>1, <3>2, <3>3
  <2>11. CASE GuestDrop(f)
    <3>1. PICK w : w.kind # "input" /\ SetTable(f, at[f], tables[f][at[f]] \ {w})
      BY <2>11 DEF GuestDrop, Drop, SetTable
    <3>2. at[f] # 0 /\ UNCHANGED <<input, at>>
      BY <2>11 DEF GuestDrop, InGuest
    <3> QED BY <2>8, <3>1, <3>2
  <2> HIDE DEF Lent
  <2> QED BY <2>4, <2>5, <2>6, <2>7, <2>9, <2>10, <2>11 DEF FlowStep
<1>4. Allocs(f)'
  <2>1. CASE GuestAllocate(f)
    <3>1. /\ at[f] # 0 /\ UNCHANGED <<at, phase>>
          /\ AllocateReserve(f, IdOf[f][at[f]], IF phase[f] = "starting" THEN Unassigned ELSE f)
      BY <2>1 DEF GuestAllocate, InGuest, flowVars
    <3>2. /\ call'[f].owner = IdOf[f][at[f]]
          /\ call'[f].flow = IF phase[f] = "starting" THEN Unassigned ELSE f
      BY <3>1 DEF AllocateReserve, TypeOK
    <3> QED BY <3>1, <3>2
  <2>2. ASSUME pc[f] \in {"reserved", "taken"}, pc'[f] \in {"reserved", "taken"}
        PROVE  UNCHANGED at /\ phase'[f] = phase[f]
    <3>1. UNCHANGED at
      BY <2>2, FlowFrame
    <3>2. phase[f] # "ended"
      BY <1>a, <2>2
    <3>3. pc[f] # "idle"
      BY <2>2
    <3>4. phase' = phase
      BY <3>2, <3>3 DEF FlowStep, InstantiateNode, InitFails, SpawnFlow, InvokePull, InvokeWithInput,
           GuestAllocate, GuestAllocated, ManagerStep, GuestFreeze, GuestDrop, ReclaimInputElement,
           ConvertOutputElement, NoOutput, InvocationTimeout, DriverEnds, ReapComponent, ReapFlow,
           AtRest, Returned, InGuest, flowVars
    <3> QED BY <3>1, <3>4
  <2>3. ASSUME pc[f] \in {"reserved", "taken"} PROVE Allocs(f)'
    BY <1>a, <2>2, <2>3, CallFrame
  <2> QED BY <1>p, <2>1, <2>3, IssuedGrows
<1>5. \A g \in Thread : Lent(g)' /\ Calling(g)' /\ Allocs(g)'
  BY <1>1, <1>2, <1>3, <1>4
<1> QED BY <1>5 DEF CallInv

(* A flow that does not start or run has neither stores nor queues.        *)
LEMMA StoresStep ==
  ASSUME FlowTypeOK, AllocInv, CallInv, StoresInv, NEW f \in Thread, FlowStep(f)
  PROVE  StoresInv'
<1> DEFINE Gone(g) == \A k \in StagesOf(g) :
             /\ phase[g] \notin {"starting", "running"} => tables[g][k] = {}
             /\ phase[g] # "running" => queue[g][k] = <<>>
<1>a. \A g \in Thread : Gone(g)
  BY DEF StoresInv
<1>s. /\ phase \in [Thread -> {"absent", "starting", "failed", "running", "ended", "reaped"}]
      /\ tables = [x \in Thread |-> tables[x]] /\ queue = [x \in Thread |-> queue[x]]
  BY DEF FlowTypeOK, HoldingsOK
<1>1. ASSUME NEW g \in Thread, g # f PROVE Gone(g)'
  <2>1. phase'[g] = phase[g] /\ tables'[g] = tables[g] /\ queue'[g] = queue[g]
    BY <1>1, FlowFrame, OthersHold
  <2> QED BY <1>a, <2>1 DEF StagesOf
<1>2. Gone(f)'
  <2>1. CASE InstantiateNode(f)
    <3>1. phase'[f] = "starting" /\ phase[f] # "running" /\ UNCHANGED queue
      BY <1>s, <2>1 DEF InstantiateNode
    <3> QED BY <1>a, <3>1 DEF StagesOf
  <2>2. CASE InitFails(f)
    <3>1. phase[f] = "starting" /\ UNCHANGED queue /\ tables' = [tables EXCEPT ![f] = [k \in StagesOf(f) |-> {}]]
      BY <2>2 DEF InitFails
    <3>2. \A k \in StagesOf(f) : tables'[f][k] = {} /\ queue'[f][k] = <<>>
      BY <1>a, <1>s, <3>1
    <3> QED BY <3>2 DEF StagesOf
  <2>3. CASE DriverEnds(f)
    <3>1. /\ tables' = [tables EXCEPT ![f] = [k \in StagesOf(f) |-> {}]]
          /\ queue' = [queue EXCEPT ![f] = [k \in StagesOf(f) |-> <<>>]]
      BY <2>3 DEF DriverEnds
    <3>2. \A k \in StagesOf(f) : tables'[f][k] = {} /\ queue'[f][k] = <<>>
      BY <1>s, <3>1
    <3> QED BY <3>2 DEF StagesOf
  <2>4. CASE phase'[f] = "running"
    BY <2>4
  <2>5. CASE \/ SpawnFlow(f) \/ InvokePull(f) \/ (\E k \in StagesOf(f) : InvokeWithInput(f, k))
             \/ ConvertOutputElement(f) \/ InvocationTimeout(f)
    BY <1>s, <2>4, <2>5 DEF SpawnFlow, InvokePull, InvokeWithInput, ConvertOutputElement, InvocationTimeout
  <2>6. CASE NoOutput(f) \/ ReapComponent(f)
    <3>1. UNCHANGED <<phase, tables, queue>>
      BY <2>6 DEF NoOutput, ReapComponent
    <3> QED BY <1>a, <3>1 DEF StagesOf
  <2>7. CASE ReapFlow(f)
    <3>1. phase[f] = "ended" /\ UNCHANGED <<tables, queue>>
      BY <2>7 DEF ReapFlow
    <3> QED BY <1>a, <3>1 DEF StagesOf
  <2>8. CASE \/ GuestAllocate(f) \/ GuestAllocated(f) \/ GuestFreeze(f) \/ GuestDrop(f) \/ ReclaimInputElement(f)
    <3>1. at[f] # 0
      BY <2>8 DEF GuestAllocate, GuestAllocated, GuestFreeze, GuestDrop, ReclaimInputElement, InGuest,
                  AllocateInsert, AllocInv
    <3>2. phase[f] \in {"starting", "running"}
      BY <3>1 DEF CallInv
    <3>3. UNCHANGED <<phase, queue>>
      BY <2>8 DEF GuestAllocate, GuestAllocated, GuestFreeze, GuestDrop, ReclaimInputElement, flowVars
    <3> QED BY <1>a, <3>2, <3>3 DEF StagesOf
  <2>9. CASE ManagerStep(f)
    <3>1. UNCHANGED <<phase, tables, queue>>
      BY <2>9 DEF ManagerStep, flowVars
    <3> QED BY <1>a, <3>1 DEF StagesOf
  <2> HIDE DEF Gone
  <2> QED BY <2>1, <2>2, <2>3, <2>5, <2>6, <2>7, <2>8, <2>9 DEF FlowStep
<1>3. \A g \in Thread : Gone(g)'
  BY <1>1, <1>2
<1> QED BY <1>3 DEF StoresInv, StagesOf

(* A flow that has buffers is running or has ended, until it is reaped,    *)
(* and a stage is active from its instantiation to its reclaim.            *)
LEMMA PhaseStep ==
  ASSUME FlowTypeOK, CallInv, NEW f \in Thread, FlowStep(f)
  PROVE  /\ phase[f] \in {"running", "ended"} => phase'[f] \in {"running", "ended"} \/ ReapFlow(f)
         /\ \A k \in StagesOf(f) : k \in Active(f) =>
              k \in Active(f)' \/ (ReapComponent(f) /\ k = cursor[f] + 1)
         /\ InstantiateNode(f) => cursor[f] + 1 \in Active(f)'
         /\ phase'[f] = "running" => phase[f] \in {"starting", "running"}
<1>0. /\ phase \in [Thread -> {"absent", "starting", "failed", "running", "ended", "reaped"}]
      /\ cursor \in [Thread -> Nat] /\ NumStages[f] \in Nat /\ cursor[f] \in 0..NumStages[f]
  BY FlowAssumption DEF FlowTypeOK
<1>1. CASE InstantiateNode(f)
  BY <1>0, <1>1 DEF InstantiateNode, Active, StagesOf
<1>2. CASE InitFails(f) \/ SpawnFlow(f) \/ DriverEnds(f)
  BY <1>0, <1>2 DEF InitFails, SpawnFlow, DriverEnds, Active, StagesOf, InstantiateNode
<1>3. CASE ReapComponent(f)
  BY <1>0, <1>3 DEF ReapComponent, Active, StagesOf, InstantiateNode
<1>4. CASE ReapFlow(f)
  BY <1>0, <1>4 DEF ReapFlow, Active, StagesOf, InstantiateNode
<1>5. CASE UNCHANGED <<phase, cursor>>
  BY <1>0, <1>5 DEF Active, StagesOf, InstantiateNode
<1>6. CASE \/ InvokePull(f) \/ (\E k \in StagesOf(f) : InvokeWithInput(f, k))
           \/ GuestAllocate(f) \/ GuestAllocated(f) \/ ManagerStep(f)
           \/ GuestFreeze(f) \/ GuestDrop(f)
           \/ ReclaimInputElement(f) \/ ConvertOutputElement(f) \/ NoOutput(f)
           \/ InvocationTimeout(f)
  <2>1. UNCHANGED <<phase, cursor>>
    BY <1>6 DEF InvokePull, InvokeWithInput, GuestAllocate, GuestAllocated, ManagerStep, GuestFreeze,
         GuestDrop, ReclaimInputElement, ConvertOutputElement, NoOutput, InvocationTimeout, flowVars
  <2> QED BY <1>5, <2>1
<1> QED BY <1>1, <1>2, <1>3, <1>4, <1>6 DEF FlowStep

(* Only the registration of a stage gives it a budget.                     *)
LEMMA BudgetOnlyNew ==
  ASSUME TypeOK, NEW f \in Thread, FlowStep(f), NEW c \in Component, budget[c] = Unregistered
  PROVE  budget'[c] = Unregistered \/ (InstantiateNode(f) /\ c = IdOf[f][cursor[f] + 1])
<1>0. budget \in [Component -> {Unregistered} \cup 0..(BudgetMod - 1)]
  BY DEF TypeOK
<1>a. ASSUME NEW d, Charge(d) PROVE budget'[c] = Unregistered
  BY <1>a DEF Charge
<1>1. CASE UNCHANGED vars
  BY <1>1 DEF vars
<1>2. ASSUME NEW d, RegisterComponent(d), c # d PROVE budget'[c] = Unregistered
  BY <1>0, <1>2 DEF RegisterComponent
<1>3. ASSUME NEW o, NEW fl, AllocateReserve(f, o, fl) PROVE budget'[c] = Unregistered
  BY <1>3, <1>a DEF AllocateReserve
<1>4. CASE AllocateInsert(f)
  BY <1>4 DEF AllocateInsert, Enter
<1>5. CASE ManagerStep(f)
  BY <1>5, <1>a DEF ManagerStep, AllocateTake, AllocateFails, AllocateRollback, ReleaseReturn
<1>6. ASSUME NEW h, Release(f, h) PROVE budget'[c] = Unregistered
  BY <1>6, <1>a DEF Release
<1>7. ASSUME NEW h, TransferOwnership(h, Host) PROVE budget'[c] = Unregistered
  BY <1>7, <1>a DEF TransferOwnership
<1>8. ASSUME NEW d, ForceReclaim(d) PROVE budget'[c] = Unregistered
  BY <1>0, <1>8 DEF ForceReclaim
<1>9. CASE ReclaimFlowBuffers(f)
  BY <1>9, <1>a DEF ReclaimFlowBuffers
<1> QED BY ManagerCases, <1>1, <1>2, <1>3, <1>4, <1>5, <1>6, <1>7, <1>8, <1>9

(* An entry was there before, or is the one that is being allocated.       *)
LEMMA EntryFrom ==
  ASSUME TypeOK, IndInv, HolderInv, CallInv, NEW f \in Thread, FlowStep(f), NEW s \in live'
  PROVE  \/ /\ s \in live /\ generation'[s] = generation[s]
            /\ entry'[s].flow = entry[s].flow
            /\ entry'[s].owner \in {entry[s].owner, Host}
         \/ /\ \E n : Allocates(f, s, n)
            /\ entry'[s].owner = call[f].owner /\ entry'[s].flow = call[f].flow
<1>t. live \subseteq Slot /\ entry \in [Slot -> Entry] /\ generation \in [Slot -> Generation]
  BY LiveSlot DEF TypeOK
<1>2. ASSUME NEW r, NEW n, Allocates(f, r, n)
      PROVE  \/ /\ s \in live /\ generation'[s] = generation[s] /\ entry'[s] = entry[s]
             \/ /\ s = r
                /\ entry'[s].owner = call[f].owner /\ entry'[s].flow = call[f].flow
  BY <1>2, <1>t DEF Allocates, Enter
<1>3. ASSUME NEW S, Leave(S) PROVE s \in live /\ generation'[s] = generation[s] /\ entry'[s] = entry[s]
  BY <1>3, <1>t DEF Leave
<1>4. ASSUME NEW w, Passes(f, w)
      PROVE  /\ s \in live /\ generation'[s] = generation[s]
             /\ entry'[s].flow = entry[s].flow /\ entry'[s].owner \in {entry[s].owner, Host}
  <2>1. UNCHANGED <<live, generation>> /\ entry' = [entry EXCEPT ![w.handle[1]].owner = Host]
    BY <1>4 DEF Passes, TransferOwnership
  <2>2. s \in Slot /\ entry[s] \in Entry
    BY <1>t, <2>1
  <2>3. entry'[s] = IF s = w.handle[1] THEN [entry[s] EXCEPT !.owner = Host] ELSE entry[s]
    BY <1>t, <2>1, <2>2
  <2>4. [entry[s] EXCEPT !.owner = Host].owner = Host /\ [entry[s] EXCEPT !.owner = Host].flow = entry[s].flow
    BY <2>2 DEF Entry
  <2>5. s \in live /\ generation'[s] = generation[s]
    BY <2>1
  <2>6. entry'[s].flow = entry[s].flow
    BY <2>3, <2>4
  <2>7. entry'[s].owner \in {entry[s].owner, Host}
    BY <2>3, <2>4
  <2> QED BY <2>5, <2>6, <2>7
<1> DEFINE Old == /\ s \in live /\ generation'[s] = generation[s]
                  /\ entry'[s].flow = entry[s].flow
                  /\ entry'[s].owner \in {entry[s].owner, Host}
           New == /\ \E n : Allocates(f, s, n)
                  /\ entry'[s].owner = call[f].owner /\ entry'[s].flow = call[f].flow
<1>5. Rearranges(f) => Old
  BY DEF Rearranges
<1>6. ASSUME NEW r, NEW n, Allocates(f, r, n) PROVE Old \/ New
  BY <1>2, <1>6
<1>7. ASSUME NEW S, Leave(S) PROVE Old
  BY <1>3, <1>7
<1>8. ASSUME NEW w, Passes(f, w) PROVE Old
  BY <1>4, <1>8
<1> HIDE DEF Old, New
<1>9. ASSUME NEW w, Releases(f, w) PROVE Old
  BY <1>7, <1>9 DEF Releases
<1>10. Reclaims(f) => Old
  BY <1>7 DEF Reclaims
<1>11. Old \/ New
  BY StepCases, <1>5, <1>6, <1>8, <1>9, <1>10
<1> QED BY <1>11 DEF Old, New

(* What is in the table belongs to flows and stages that are there.        *)
LEMMA StageStep ==
  ASSUME IdsDistinct, CustodyParts, NEW f \in Thread, FlowStep(f)
  PROVE  StageInv'
<1> USE DEF CustodyParts, HolderInv
<1>t. TypeOK /\ IndicesExact
  BY DEF IndInv
<1>f. /\ Thread \subseteq Flow /\ Unassigned \notin Thread
      /\ \A g \in Thread : \A k \in StagesOf(g) : IdOf[g][k] \in Component
      /\ Host \notin Component
  BY FlowAssumption, StageTypes, ManagerAssumption
<1>p. /\ \A s \in live : entry[s].flow \in Thread \cup {Unassigned}
      /\ \A s \in live : entry[s].flow \in Thread => phase[entry[s].flow] \in {"running", "ended"}
  BY DEF StageInv
<1>q. \A g \in Thread : \A k \in StagesOf(g) \ Active(g) :
        budget[IdOf[g][k]] = Unregistered /\ \A s \in live : entry[s].owner # IdOf[g][k]
  BY DEF StageInv
\* what is being allocated is for a stage that is called
<1>c. ASSUME NEW s, NEW n, Allocates(f, s, n)
      PROVE  /\ at[f] \in StagesOf(f) /\ at[f] \in Active(f) /\ phase[f] \in {"starting", "running"}
             /\ call[f].owner = IdOf[f][at[f]]
             /\ call[f].flow \in {f, Unassigned} /\ (call[f].flow = f => phase[f] = "running")
  <2>1. pc[f] = "taken" /\ at[f] \in StagesOf(f)
    BY <1>c DEF Allocates
  <2>2. /\ at[f] # 0 /\ call[f].owner = IdOf[f][at[f]] /\ phase[f] \in {"starting", "running"}
        /\ phase[f] = "starting" => at[f] <= cursor[f]
        /\ call[f].flow = IF phase[f] = "starting" THEN Unassigned ELSE f
    BY <2>1 DEF CallInv
  <2>3. at[f] \in Active(f)
    <3>1. at[f] \in Nat /\ cursor[f] \in Nat
      BY DEF FlowTypeOK
    <3> QED BY <2>1, <2>2, <3>1 DEF Active
  <2> QED BY <1>f, <2>1, <2>2, <2>3
<1>1. ASSUME NEW s \in live'
      PROVE  /\ entry'[s].flow \in Thread \cup {Unassigned}
             /\ entry'[s].flow \in Thread => phase'[entry'[s].flow] \in {"running", "ended"}
  <2> DEFINE g == entry'[s].flow
  <2>1. /\ g \in Thread \cup {Unassigned}
        /\ g \in Thread => phase[g] \in {"running", "ended"}
    <3>1. CASE s \in live /\ entry'[s].flow = entry[s].flow
      BY <1>p, <3>1
    <3>2. ASSUME NEW n, Allocates(f, s, n), entry'[s].flow = call[f].flow
          PROVE  g \in {f, Unassigned} /\ (g = f => phase[f] = "running")
      BY <1>c, <3>2
    <3>3. \/ s \in live /\ entry'[s].flow = entry[s].flow
          \/ (\E n : Allocates(f, s, n)) /\ entry'[s].flow = call[f].flow
      BY <1>t, EntryFrom
    <3> QED BY <1>f, <3>1, <3>2, <3>3
  <2>2. ReapFlow(f) => g # f
    <3>1. SUFFICES ASSUME ReapFlow(f), g = f PROVE FALSE
      OBVIOUS
    <3>2. Leave(Indexed(flowResources[f]))
      BY <3>1 DEF ReapFlow, ReclaimFlowBuffers
    <3>3. s \in live /\ s \notin Indexed(flowResources[f]) /\ entry'[s] = entry[s]
      BY <1>t, <3>2, LiveSlot DEF Leave
    <3>4. entry[s].flow # f
      BY <1>f, <1>t, <3>3, IndexedExact
    <3> QED BY <3>1, <3>3, <3>4
  <2> HIDE DEF g
  <2>3. g \in Thread => phase'[g] \in {"running", "ended"}
    BY <2>1, <2>2, FlowFrame, PhaseStep
  <2> QED BY <2>1, <2>3 DEF g
<1>2. ASSUME NEW g \in Thread, NEW k \in StagesOf(g), k \notin Active(g)'
      PROVE  budget'[IdOf[g][k]] = Unregistered /\ \A s \in live' : entry'[s].owner # IdOf[g][k]
  <2> DEFINE c == IdOf[g][k]
  <2>0. c \in Component
    BY <1>f
  <2>1. g # f => (Active(g)' <=> Active(g))
    BY FlowFrame DEF Active, StagesOf
  <2>2. CASE k \notin Active(g)
    <3>1. budget[c] = Unregistered /\ \A s \in live : entry[s].owner # c
      BY <1>q, <2>2
    <3>2. budget'[c] = Unregistered
      <4>1. SUFFICES ASSUME InstantiateNode(f), c = IdOf[f][cursor[f] + 1] PROVE FALSE
        BY <1>t, <2>0, <3>1, BudgetOnlyNew
      <4>2. cursor[f] + 1 \in StagesOf(f)
        BY <4>1, StageTypes DEF InstantiateNode
      <4>3. g = f /\ k = cursor[f] + 1
        BY <4>1, <4>2 DEF IdsDistinct
      <4> QED BY <1>2, <4>1, <4>3, PhaseStep
    <3>3. ASSUME NEW s \in live', entry'[s].owner = c PROVE FALSE
      <4>1. entry'[s].owner # Host
        BY <1>f, <2>0, <3>3
      <4>2. CASE s \in live /\ entry'[s].owner \in {entry[s].owner, Host}
        BY <3>1, <3>3, <4>1, <4>2
      <4>3. ASSUME NEW n, Allocates(f, s, n), entry'[s].owner = call[f].owner PROVE FALSE
        <5>1. at[f] \in StagesOf(f) /\ at[f] \in Active(f) /\ c = IdOf[f][at[f]]
          BY <1>c, <3>3, <4>3
        <5>2. g = f /\ k = at[f]
          BY <5>1 DEF IdsDistinct
        <5> QED BY <2>2, <5>1, <5>2
      <4> QED BY <1>t, <4>2, <4>3, EntryFrom
    <3> QED BY <3>2, <3>3
  <2>3. CASE k \in Active(g)
    <3>1. g = f /\ ReapComponent(f) /\ k = cursor[f] + 1
      <4>1. g = f
        BY <1>2, <2>3, FlowFrame DEF Active, StagesOf
      <4> QED BY <1>2, <2>3, <4>1, PhaseStep
    <3>2. ForceReclaim(c)
      BY <3>1 DEF ReapComponent
    <3> HIDE DEF c
    <3>3. budget'[c] = Unregistered
      BY <1>t, <2>0, <3>2 DEF ForceReclaim, TypeOK
    <3>4. Leave(Indexed(componentResources[c]))
      BY <3>2 DEF ForceReclaim
    <3>5. \A s \in live' : s \in live /\ s \notin Owned(c) /\ entry'[s] = entry[s]
      BY <1>t, <2>0, <3>4, IndexedExact, LiveSlot DEF Leave
    <3> QED BY <3>3, <3>5 DEF Owned, c
  <2> QED BY <2>2, <2>3
<1>3. \A g \in Thread : \A k \in StagesOf(g) \ (Active(g)') :
        budget'[IdOf[g][k]] = Unregistered /\ \A s \in live' : entry'[s].owner # IdOf[g][k]
  BY <1>2
<1> QED BY <1>1, <1>3 DEF StageInv, StagesOf

-----------------------------------------------------------------------------
(* Nothing is lost.                                                        *)

(* Flow g holds h.                                                         *)
Kept(T, Q, g, h) == \E o : Held(T, Q, g, h, o)

KeptInv ==
  \A s \in live : entry[s].flow \in Thread /\ phase[entry[s].flow] = "running" =>
    Kept(tables, queue, entry[s].flow, Rid(s))

(* What a flow holds it goes on holding, unless the flow ends or the       *)
(* handle leaves the table.                                                *)
LEMMA KeptStep ==
  ASSUME CustodyParts, KeptInv, NEW f \in Thread, FlowStep(f)
  PROVE  \A s \in live' : entry'[s].flow \in Thread /\ phase'[entry'[s].flow] = "running" =>
           Kept(tables', queue', entry'[s].flow, <<s, generation'[s]>>)
<1> USE DEF CustodyParts, HolderInv
<1>t. TypeOK
  BY DEF IndInv
<1>c. \A g \in Thread : \A h, o : Held(tables, queue, g, h, o) => Holds(g, h, o)
  BY CustodyHeld
<1> SUFFICES ASSUME NEW s \in live', NEW g \in Thread, g = entry'[s].flow, phase'[g] = "running"
             PROVE  Kept(tables', queue', g, <<s, generation'[s]>>)
  OBVIOUS
<1>1. CASE s \in live /\ generation'[s] = generation[s] /\ entry'[s].flow = entry[s].flow
  <2> DEFINE h == Rid(s)
  <2>1. h = <<s, generation'[s]>> /\ h[1] = s
    BY <1>1 DEF Rid
  <2>2. entry[s].flow = g /\ phase[g] = "running"
    <3>1. phase[g] \in {"running", "ended"}
      BY <1>1 DEF StageInv
    <3>2. CASE g # f
      BY <1>1, <3>2, FlowFrame
    <3>3. CASE g = f
      BY <1>1, <3>1, <3>3, PhaseStep
    <3> QED BY <1>1, <3>2, <3>3
  <2>3. PICK o : Held(tables, queue, g, h, o)
    BY <1>1, <2>2 DEF KeptInv, Kept
  <2> HIDE DEF h
  <2>4. ASSUME Rearranges(f) PROVE Kept(tables', queue', g, h)
    <3>1. ASSUME UNCHANGED <<tables, queue>> PROVE Kept(tables', queue', g, h)
      BY <2>3, <3>1 DEF Kept
    <3>2. ASSUME Clears(f), phase'[f] # "running" PROVE Kept(tables', queue', g, h)
      <4>1. g # f
        BY <3>2
      <4> QED BY <2>3, <3>2, <4>1, ClearsHeld DEF Kept
    <3>3. ASSUME at[f] \in StagesOf(f), NEW w, Freezes(f, w) PROVE Kept(tables', queue', g, h)
      BY <2>3, <3>3, FreezesHeld DEF Kept
    <3>4. ASSUME NEW k \in StagesOf(f), Lends(f, k) PROVE Kept(tables', queue', g, h)
      BY <2>3, <3>4, LendsHeld DEF Kept
    <3> QED BY <2>4, <3>1, <3>2, <3>3, <3>4 DEF Rearranges
  <2>5. ASSUME NEW r, NEW n, Allocates(f, r, n) PROVE Kept(tables', queue', g, h)
    BY <2>3, <2>5, GainsHeld DEF Allocates, Kept
  <2>6. ASSUME NEW w, Releases(f, w) PROVE Kept(tables', queue', g, h)
    <3>1. h # w.handle
      BY <2>1, <2>6 DEF Releases, Leave
    <3> QED BY <2>3, <2>6, <3>1, LosesHeld DEF Releases, Kept
  <2>7. ASSUME NEW w, Passes(f, w) PROVE Kept(tables', queue', g, h)
    <3>1. CASE h # w.handle
      BY <2>3, <2>7, <3>1, EmitsHeld DEF Passes, Kept
    <3>2. CASE h = w.handle
      <4>1. Held(tables, queue, f, h, OwnerOf(f, at[f], w))
        BY <2>7, <3>2 DEF Passes, Emits, Held
      <4>2. entry[s].flow \in {f, Unassigned}
        BY <1>c, <2>1, <4>1 DEF Holds
      <4>3. g = f
        BY <2>2, <4>2, FlowAssumption
      <4>4. Held(tables', queue', g, h, Host)
        BY <2>7, <3>2, <4>3, EmitsHeld DEF Passes
      <4> QED BY <4>4 DEF Kept
    <3> QED BY <3>1, <3>2
  <2>8. ASSUME Reclaims(f) PROVE Kept(tables', queue', g, h)
    BY <2>3, <2>8 DEF Reclaims, Kept
  <2>9. Kept(tables', queue', g, h)
    BY StepCases, <2>4, <2>5, <2>6, <2>7, <2>8
  <2> QED BY <2>1, <2>9
<1>2. ASSUME NEW n, Allocates(f, s, n), entry'[s].flow = call[f].flow
      PROVE  Kept(tables', queue', g, <<s, generation'[s]>>)
  <2>1. generation'[s] = n
    BY <1>2, <1>t DEF Allocates, Enter, TypeOK
  <2>2. call[f].flow \in {f, Unassigned}
    <3>1. pc[f] \in {"reserved", "taken"}
      BY <1>2 DEF Allocates
    <3> QED BY <3>1 DEF CallInv
  <2>3. g = f
    BY <1>2, <2>2, FlowAssumption
  <2>4. Held(tables', queue', f, <<s, n>>, IdOf[f][at[f]])
    BY <1>2, GainsHeld DEF Allocates
  <2> QED BY <2>1, <2>3, <2>4 DEF Kept
<1>3. \/ s \in live /\ generation'[s] = generation[s] /\ entry'[s].flow = entry[s].flow
      \/ (\E n : Allocates(f, s, n)) /\ entry'[s].flow = call[f].flow
  BY <1>t, EntryFrom
<1> QED BY <1>1, <1>2, <1>3

-----------------------------------------------------------------------------
(* The theorems.                                                           *)

FlowInv == CustodyParts /\ KeptInv

(* The invariant holds of a new host ...                                   *)
LEMMA FlowInitInv == FlowInit => FlowInv
<1> SUFFICES ASSUME FlowInit PROVE FlowInv
  OBVIOUS
<1>1. IndInv /\ HolderInv
  BY InitInv, HolderInit DEF FlowInit
<1>2. \A f \in Thread : /\ phase[f] = "absent" /\ at[f] = 0 /\ input[f] = NoHandle /\ pc[f] = "idle"
                        /\ \A k \in StagesOf(f) : tables[f][k] = {} /\ queue[f][k] = <<>>
  BY DEF FlowInit, Init
<1>3. live = {} /\ budget = [c \in Component |-> Unregistered]
  BY DEF FlowInit, Init
<1>4. \A f \in Thread : \A k \in StagesOf(f) : 1..Len(queue[f][k]) = {}
  BY <1>2
<1>5. CustodyInv
  BY <1>2, <1>4 DEF CustodyInv
<1>6. CallInv
  BY <1>2 DEF CallInv
<1>7. StoresInv
  BY <1>2 DEF StoresInv
<1>8. StageInv
  <2>1. \A f \in Thread : \A k \in StagesOf(f) : IdOf[f][k] \in Component
    BY FlowAssumption DEF StagesOf
  <2> QED BY <1>3, <2>1 DEF StageInv
<1>9. KeptInv
  BY <1>3 DEF KeptInv
<1> QED BY <1>1, <1>5, <1>6, <1>7, <1>8, <1>9 DEF FlowInv, CustodyParts

(* ... and is preserved.                                                   *)
LEMMA FlowStepInv ==
  ASSUME IdsDistinct, FlowInv, NEW f \in Thread, FlowStep(f)
  PROVE  FlowInv'
<1> USE DEF FlowInv, CustodyParts
<1>1. IndInv'
  BY FlowStepUses, InvStep
<1>2. HolderInv'
  BY HolderStep
<1>3. FlowTypeOK /\ AllocInv /\ TypeOK
  BY DEF HolderInv, IndInv
<1>4. CustodyInv' /\ StageInv'
  BY CustodyStep, StageStep
<1>5. CallInv' /\ StoresInv'
  BY <1>3, CallStep, StoresStep
<1>6. KeptInv'
  BY KeptStep DEF KeptInv, Kept, Held, Rid, StagesOf, OwnerOf
<1> QED BY <1>1, <1>2, <1>4, <1>5, <1>6

(* Steps that change nothing included.                                     *)
LEMMA FlowNextInv ==
  ASSUME IdsDistinct
  PROVE  FlowInv /\ [FlowNext]_allVars => FlowInv' /\ [Next]_vars
<1> SUFFICES ASSUME FlowInv, [FlowNext]_allVars PROVE FlowInv' /\ [Next]_vars
  OBVIOUS
<1>1. CASE FlowNext
  BY <1>1, FlowStepInv, FlowStepUses DEF FlowNext, FlowInv
<1>2. CASE UNCHANGED allVars
  <2>1. /\ UNCHANGED vars /\ UNCHANGED <<live, generation, entry, budget, issued, pc, call>>
        /\ UNCHANGED <<phase, cursor, at, step, input, tables, queue>>
    BY <1>2 DEF allVars, vars, flowVars
  <2>2. IndInv'
    BY <2>1, InvStep DEF FlowInv, CustodyParts
  <2>3. FlowTypeOK' /\ PcType' /\ AllocInv'
    BY <2>1 DEF FlowInv, CustodyParts, HolderInv, FlowTypeOK, HoldingsOK, Wrapper, PcType, AllocInv,
                StagesOf
  <2>4. Apart(tables, queue)'
    BY <2>1 DEF FlowInv, CustodyParts, HolderInv, Apart, WrappersApart, QueuedApart, BothApart, StagesOf
  <2>5. CustodyInv'
    BY <2>1 DEF FlowInv, CustodyParts, CustodyInv, Holds, Resolves, OwnerOf, StagesOf
  <2>6. CallInv' /\ StoresInv'
    BY <2>1 DEF FlowInv, CustodyParts, CallInv, StoresInv, StagesOf
  <2>7. StageInv'
    BY <2>1 DEF FlowInv, CustodyParts, StageInv, Active, StagesOf
  <2>8. KeptInv'
    <3>1. \A s \in live' : entry'[s].flow \in Thread /\ phase'[entry'[s].flow] = "running" =>
            Kept(tables', queue', entry'[s].flow, <<s, generation'[s]>>)
      BY <2>1 DEF FlowInv, KeptInv, Rid
    <3> QED BY <3>1 DEF KeptInv, Kept, Held, Rid, StagesOf, OwnerOf
  <2> QED BY <2>1, <2>2, <2>3, <2>4, <2>5, <2>6, <2>7, <2>8 DEF FlowInv, CustodyParts, HolderInv
<1> QED BY <1>1, <1>2

(* If no two stages have the same id, the flows keep the contract of the   *)
(* resource manager: instantiate_one_node registers only ids that are new  *)
(* and hold nothing, and reclaim_flow_resources never force-reclaims under *)
(* an allocation.  All that is proved of the manager holds of the flows.   *)
THEOREM FlowUsesManager ==
  ASSUME IdsDistinct
  PROVE  FlowSpec => Spec
<1>1. FlowInit => FlowInv /\ Init
  BY FlowInitInv DEF FlowInit
<1>2. FlowInv /\ [FlowNext]_allVars => FlowInv' /\ [Next]_vars
  BY FlowNextInv
<1> QED BY <1>1, <1>2, PTL DEF FlowSpec, Spec

(* The budgets cover what the components of all flows hold.                *)
THEOREM FlowBudgetCovers ==
  ASSUME IdsDistinct
  PROVE  FlowSpec => []BudgetCovers
  BY FlowUsesManager, ManagerBudgetCovers, PTL

(* Then every buffer that a component holds or that is queued is in the    *)
(* table under the owner its holder will name: no release, freeze or       *)
(* transfer of the invoker meets a stale handle, whatever other flows do.  *)
THEOREM FlowHandlesLive ==
  ASSUME IdsDistinct
  PROVE  FlowSpec => []HandlesLive
<1>1. FlowInit => FlowInv
  BY FlowInitInv
<1>2. FlowInv /\ [FlowNext]_allVars => FlowInv'
  BY FlowNextInv
<1>3. FlowInv => HandlesLive
  <2> SUFFICES ASSUME FlowInv PROVE HandlesLive
    OBVIOUS
  <2>1. CustodyInv /\ FlowTypeOK
    BY DEF FlowInv, CustodyParts, HolderInv
  <2>2. ASSUME NEW f \in Thread, NEW p \in WrapperPlaces(f)
        PROVE  Resolves(p[3].handle) /\ entry[p[3].handle[1]].owner = OwnerOf(f, p[2], p[3])
    <3>1. PICK k, w : k \in StagesOf(f) /\ w \in tables[f][k] /\ p = <<f, k, w>>
      BY PlacesOf
    <3>2. Holds(f, w.handle, OwnerOf(f, k, w))
      BY <2>1, <3>1 DEF CustodyInv
    <3>3. p[2] = k /\ p[3] = w
      BY <3>1
    <3> QED BY <3>2, <3>3 DEF Holds
  <2>3. ASSUME NEW f \in Thread, NEW p \in QueuePlaces(f)
        PROVE  Resolves(queue[f][p[2]][p[3]]) /\ entry[queue[f][p[2]][p[3]][1]].owner = Host
    <3>1. PICK k, i : k \in StagesOf(f) /\ i \in DOMAIN queue[f][k] /\ p = <<f, k, i>>
      BY PlacesOf
    <3>2. i \in 1..Len(queue[f][k])
      BY <2>1, <3>1 DEF FlowTypeOK, HoldingsOK
    <3>3. Holds(f, queue[f][k][i], Host)
      BY <2>1, <3>1, <3>2 DEF CustodyInv
    <3>4. p[2] = k /\ p[3] = i
      BY <3>1
    <3> QED BY <3>3, <3>4 DEF Holds
  <2> QED BY <2>2, <2>3 DEF HandlesLive
<1> QED BY <1>1, <1>2, <1>3, PTL DEF FlowSpec

(* While a flow runs, each of its buffers is in one of its stores or       *)
(* queues: consumed elements have been released.                           *)
THEOREM FlowNothingLost ==
  ASSUME IdsDistinct
  PROVE  FlowSpec => []NothingLost
<1>1. FlowInit => FlowInv
  BY FlowInitInv
<1>2. FlowInv /\ [FlowNext]_allVars => FlowInv'
  BY FlowNextInv
<1>3. FlowInv => NothingLost
  <2> SUFFICES ASSUME FlowInv, NEW s \in live, NEW f, f = entry[s].flow, f # Unassigned, phase[f] = "running"
               PROVE  \/ \E p \in WrapperPlaces(f) : p[3].handle = Rid(s)
                      \/ \E p \in QueuePlaces(f) : queue[f][p[2]][p[3]] = Rid(s)
    BY DEF NothingLost
  <2>1. f \in Thread
    BY DEF FlowInv, CustodyParts, StageInv
  <2>2. \E o : Held(tables, queue, f, Rid(s), o)
    BY <2>1 DEF FlowInv, KeptInv, Kept
  <2>3. PICK k \in StagesOf(f) : \/ \E w \in tables[f][k] : w.handle = Rid(s)
                                \/ \E i \in 1..Len(queue[f][k]) : queue[f][k][i] = Rid(s)
    BY <2>2 DEF Held
  <2>4. ASSUME NEW w \in tables[f][k], w.handle = Rid(s)
        PROVE  \E p \in WrapperPlaces(f) : p[3].handle = Rid(s)
    <3>1. <<f, k, w>> \in WrapperPlaces(f) /\ <<f, k, w>>[3] = w
      BY <2>1, PlacesOf
    <3> QED BY <2>4, <3>1
  <2>5. ASSUME NEW i \in 1..Len(queue[f][k]), queue[f][k][i] = Rid(s)
        PROVE  \E p \in QueuePlaces(f) : queue[f][p[2]][p[3]] = Rid(s)
    <3>1. i \in DOMAIN queue[f][k]
      BY <2>1 DEF FlowInv, CustodyParts, HolderInv, FlowTypeOK, HoldingsOK
    <3>2. <<f, k, i>> \in QueuePlaces(f) /\ <<f, k, i>>[2] = k /\ <<f, k, i>>[3] = i
      BY <2>1, <3>1, PlacesOf
    <3> QED BY <2>5, <3>2
  <2> QED BY <2>3, <2>4, <2>5
<1> QED BY <1>1, <1>2, <1>3, PTL DEF FlowSpec

(* And what reclaim_flow_resources leaves of a flow is nothing: no buffer, *)
(* no index entry and no budget.                                           *)
THEOREM FlowReapedClean ==
  ASSUME IdsDistinct
  PROVE  FlowSpec => []ReapedClean
<1>1. FlowInit => FlowInv
  BY FlowInitInv
<1>2. FlowInv /\ [FlowNext]_allVars => FlowInv'
  BY FlowNextInv
<1>3. FlowInv => ReapedClean
  <2> SUFFICES ASSUME FlowInv, NEW f \in Thread, phase[f] = "reaped"
               PROVE  /\ flowResources[f] = {} /\ \A s \in live : entry[s].flow # f
                      /\ \A k \in StagesOf(f) : componentResources[IdOf[f][k]] = {}
                                               /\ budget[IdOf[f][k]] = Unregistered
    BY DEF ReapedClean
  <2>1. IndicesExact /\ FlowTypeOK /\ StageInv
    BY DEF FlowInv, CustodyParts, HolderInv, IndInv
  <2>2. \A s \in live : entry[s].flow # f
    BY <2>1 DEF StageInv
  <2>3. flowResources[f] = {}
    <3>1. f \in Flow
      BY FlowAssumption
    <3> QED BY <2>1, <2>2, <3>1 DEF IndicesExact
  <2>4. \A k \in StagesOf(f) : k \notin Active(f)
    BY DEF Active
  <2>5. \A k \in StagesOf(f) : IsNew(IdOf[f][k])
    BY <2>1, <2>4, StageNew
  <2> QED BY <2>2, <2>3, <2>5 DEF IsNew
<1> QED BY <1>1, <1>2, <1>3, PTL DEF FlowSpec
=============================================================================
