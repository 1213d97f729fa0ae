------------------------ MODULE ResourceManagerProofs ------------------------
(***************************************************************************)
(* Proofs about ResourceManager, for any number of threads, components,    *)
(* flows, buffers and slots: the reverse indices are exact, no buffer is   *)
(* lost or given out twice, no bytes survive a release, and handles are    *)
(* linear.                                                                 *)
(***************************************************************************)
EXTENDS ResourceManager, FiniteSetTheorems, TLAPS

-----------------------------------------------------------------------------
(* The operators.                                                          *)

(* What a counter is charged is again a value of the counter.              *)
LEMMA ChargeType ==
  ASSUME TypeOK, NEW delta, \A c \in Component : delta[c] \in Int, Charge(delta)
  PROVE  budget' \in [Component -> {Unregistered} \cup 0..(BudgetMod - 1)]
<1>1. BudgetMod \in Nat \ {0}
  BY ManagerAssumption
<1>2. ASSUME NEW c \in Component, budget[c] # Unregistered
      PROVE  (budget[c] + delta[c]) % BudgetMod \in 0..(BudgetMod - 1)
  <2>1. budget[c] + delta[c] \in Int
    BY <1>2 DEF TypeOK
  <2> QED BY <1>1, <2>1
<1> QED BY <1>2 DEF Charge

(* Finitely many slots are occupied ...                                    *)
LEMMA LiveFinite == TypeOK => IsFiniteSet(live)
<1> SUFFICES ASSUME TypeOK PROVE IsFiniteSet(live)
  OBVIOUS
<1>1. 1 \in Int /\ capacity \in Int
  BY ManagerAssumption DEF TypeOK, Slot
<1>2. IsFiniteSet(1..capacity)
  BY <1>1, FS_Interval
<1>3. live \in SUBSET (1..capacity)
  BY DEF TypeOK
<1> QED BY <1>2, <1>3, FS_Subset

(* ... so that what their owners give back is an integer.                  *)
LEMMA ShareType ==
  ASSUME TypeOK, NEW S \in SUBSET live, NEW c \in Component
  PROVE  Share(S)[c] \in Int
<1>1. IsFiniteSet(live)
  BY LiveFinite
<1>2. IsFiniteSet({s \in S : entry[s].owner = c})
  BY <1>1, FS_Subset, {s \in S : entry[s].owner = c} \in SUBSET live
<1>3. Cardinality({s \in S : entry[s].owner = c}) \in Nat
  BY <1>2, FS_CardinalityType
<1> QED BY <1>3 DEF Share

(* An empty entry and an idle thread are well typed.                       *)
LEMMA NoneType == NoEntry \in Entry /\ NoCall \in Call
  BY ManagerAssumption DEF NoEntry, Entry, NoCall, Call, Owner

(* Leaving the table keeps its types.                                      *)
LEMMA LeaveType ==
  ASSUME TypeOK, NEW S \in SUBSET live, Leave(S)
  PROVE  /\ capacity' \in Slot
         /\ live' \subseteq 1..capacity'
         /\ generation' \in [Slot -> Generation]
         /\ entry' \in [Slot -> Entry]
  BY NoneType DEF TypeOK, Leave

(* So do the indices, the residues and the set of idle buffers.            *)
LEMMA WithoutType ==
  ASSUME TypeOK, NEW S
  PROVE  /\ WithoutOwner(S) \in [Component -> SUBSET Handle]
         /\ WithoutFlow(S) \in [Flow -> SUBSET Handle]
  BY DEF TypeOK, WithoutOwner, WithoutFlow

(* Buffers that go back keep the types.                                    *)
LEMMA PutBackType ==
  ASSUME TypeOK, NEW B \in SUBSET Buffer, PutBack(B)
  PROVE  residue' \in [Buffer -> SUBSET Handle] /\ idle' \subseteq Buffer
  BY DEF TypeOK, PutBack

(* The slots found by a walk over an index are occupied.                   *)
LEMMA IndexedLive == \A hs : Indexed(hs) \in SUBSET live
  BY DEF Indexed

(* A handle that resolves is the one of its slot.                          *)
LEMMA ResolvesRid ==
  ASSUME TypeOK, NEW h \in issued, Resolves(h)
  PROVE  h[1] \in live /\ h[1] \in Slot /\ h = Rid(h[1])
<1>1. h \in Slot \X Generation
  BY DEF TypeOK, Handle
<1>2. h = <<h[1], h[2]>> /\ h[1] \in Slot
  BY <1>1
<1> QED BY <1>2 DEF Resolves, Rid

-----------------------------------------------------------------------------
(* Initially.                                                              *)

(* A new manager satisfies the invariant: nothing is allocated.            *)
LEMMA InitInv == Init => IndInv
<1> SUFFICES ASSUME Init PROVE IndInv
  OBVIOUS
<1>1. TypeOK
  BY ManagerAssumption, NoneType
     DEF Init, TypeOK, Slot, Generation, Unregistered
<1>2. IndicesExact
  BY DEF Init, IndicesExact
<1>3. BudgetCoversSlots
  BY DEF Init, BudgetCoversSlots
<1>4. BuffersConserved
  BY DEF Init, BuffersConserved, InHand
<1>5. NoResidue /\ HandlesKnown /\ TakenClean
  BY DEF Init, NoResidue, HandlesKnown, TakenClean
<1> QED BY <1>1, <1>2, <1>3, <1>4, <1>5 DEF IndInv

-----------------------------------------------------------------------------
(* Every step keeps the types.                                             *)

(* Steps of allocate.                                                      *)
LEMMA AllocateType ==
  ASSUME IndInv, NEW t \in Thread,
         \/ \E o \in Owner, f \in Flow : AllocateReserve(t, o, f)
         \/ AllocateTake(t) \/ AllocateFails(t) \/ AllocateInsert(t)
         \/ AllocateRollback(t)
  PROVE  TypeOK'
<1> USE DEF IndInv
<1>n. NoCall \in Call
  BY NoneType
<1>1. ASSUME NEW o \in Owner, NEW f \in Flow, AllocateReserve(t, o, f)
      PROVE  TypeOK'
  <2>1. [owner |-> o, flow |-> f, buffer |-> NoBuffer] \in Call
    BY DEF Call
  <2>2. budget' \in [Component -> {Unregistered} \cup 0..(BudgetMod - 1)]
    <3>1. Charge(One(o)) /\ \A c \in Component : One(o)[c] \in Int
      BY <1>1 DEF AllocateReserve, One
    <3> QED BY <3>1, ChargeType
  <2> QED BY <1>1, <2>1, <2>2 DEF AllocateReserve, TypeOK, table, index
<1>2. CASE AllocateTake(t)
  <2>1. call' \in [Thread -> Call] /\ idle' \subseteq Buffer
    BY <1>2 DEF AllocateTake, TypeOK, Call
  <2> QED BY <1>2, <2>1 DEF AllocateTake, TypeOK, table, index
<1>3. CASE AllocateFails(t)
  BY <1>3, <1>n DEF AllocateFails, TypeOK, table, index
<1>4. CASE AllocateInsert(t)
  <2>1. PICK s \in (1..Grown) \ live :
          generation[s] < MaxGeneration /\ Enter(t, s, generation[s] + 1)
    BY <1>4 DEF AllocateInsert
  <2>2. Grown \in Slot /\ capacity <= Grown
    BY <1>4, ManagerAssumption DEF AllocateInsert, Grown, TypeOK, Slot
  <2>3. s \in Slot /\ generation[s] + 1 \in Generation
    BY <2>1, <2>2, ManagerAssumption DEF TypeOK, Slot, Generation
  <2>4. call[t] \in Call
    BY DEF TypeOK
  <2>5. capacity' = Grown /\ live' \subseteq 1..Grown
    BY <2>1, <2>2 DEF Enter, TypeOK, Slot
  <2>6. generation' \in [Slot -> Generation]
    BY <2>1, <2>3 DEF Enter, TypeOK
  <2>7. entry' \in [Slot -> Entry]
    <3>1. [owner |-> call[t].owner, state |-> "Owned", borrows |-> 0,
           buffer |-> call[t].buffer, flow |-> call[t].flow] \in Entry
      BY <2>4, ManagerAssumption DEF Call, Entry
    <3> QED BY <2>1, <3>1 DEF Enter, TypeOK
  <2>8. <<s, generation[s] + 1>> \in Handle
    BY <2>3 DEF Handle
  <2>9. /\ componentResources' \in [Component -> SUBSET Handle]
        /\ flowResources' \in [Flow -> SUBSET Handle]
        /\ issued' \subseteq Handle
    BY <2>1, <2>8 DEF Enter, TypeOK
  <2>10. UNCHANGED <<budget, idle, residue>>
         /\ pc' = [pc EXCEPT ![t] = "idle"] /\ call' = [call EXCEPT ![t] = NoCall]
    BY <2>1 DEF Enter
  <2> QED BY <2>2, <2>5, <2>6, <2>7, <2>9, <2>10, <1>n DEF TypeOK
<1>5. CASE AllocateRollback(t)
  <2>1. budget' \in [Component -> {Unregistered} \cup 0..(BudgetMod - 1)]
    <3> DEFINE d == [c \in Component |-> 0 - One(call[t].owner)[c]]
    <3>1. Charge(d) /\ \A c \in Component : d[c] \in Int
      BY <1>5 DEF AllocateRollback, One
    <3> HIDE DEF d
    <3> QED BY <3>1, ChargeType
  <2>2. call[t].buffer \in Buffer
    BY <1>5 DEF AllocateRollback, BuffersConserved, InHand
  <2> QED BY <1>5, <2>1, <2>2, <1>n DEF AllocateRollback, TypeOK, table, index
<1> QED BY <1>1, <1>2, <1>3, <1>4, <1>5

(* Steps of release, and of the calls under the lock alone.                *)
LEMMA CallType ==
  ASSUME IndInv, NEW h \in issued,
         \/ \E t \in Thread : Release(t, h)
         \/ \E to \in Owner : TransferOwnership(h, to)
         \/ \E from, to \in Owner : TransferRefused(h, from, to)
         \/ BorrowStart(h) \/ BorrowEnd(h) \/ WritePayload(h)
  PROVE  TypeOK'
<1> USE DEF IndInv
<1>s. Resolves(h) /\ h[1] \in live /\ h[1] \in Slot /\ h = Rid(h[1])
  <2>1. Resolves(h)
    BY DEF Release, TransferOwnership, TransferRefused, BorrowStart, BorrowEnd,
           WritePayload
  <2> QED BY <2>1, ResolvesRid
<1>e. entry[h[1]] \in Entry /\ entry[h[1]].buffer \in Buffer
  BY <1>s DEF TypeOK, BuffersConserved
<1>1. ASSUME NEW t \in Thread, Release(t, h) PROVE TypeOK'
  <2> DEFINE S == {h[1]}
  <2>0. S \in SUBSET live
    BY <1>s
  <2>1. /\ Leave(S) /\ componentResources' = WithoutOwner(S)
        /\ flowResources' = WithoutFlow(S) /\ Charge(Share(S))
    BY <1>1 DEF Release
  <2>2. [NoCall EXCEPT !.buffer = entry[h[1]].buffer] \in Call
    BY <1>e, NoneType DEF Call
  <2>3. budget' \in [Component -> {Unregistered} \cup 0..(BudgetMod - 1)]
    BY <2>0, <2>1, ShareType, ChargeType
  <2>4. /\ componentResources' \in [Component -> SUBSET Handle]
        /\ flowResources' \in [Flow -> SUBSET Handle]
    BY <2>1, WithoutType
  <2>5. /\ capacity' \in Slot /\ live' \subseteq 1..capacity'
        /\ generation' \in [Slot -> Generation] /\ entry' \in [Slot -> Entry]
    BY <2>0, <2>1, LeaveType
  <2>6. /\ call' = [call EXCEPT ![t] = [NoCall EXCEPT !.buffer = entry[h[1]].buffer]]
        /\ pc' = [pc EXCEPT ![t] = "returning"] /\ UNCHANGED <<idle, residue, issued>>
    BY <1>1 DEF Release
  <2> QED BY <2>2, <2>3, <2>4, <2>5, <2>6 DEF TypeOK
<1>2. ASSUME NEW to \in Owner, TransferOwnership(h, to) PROVE TypeOK'
  <2>1. budget' \in [Component -> {Unregistered} \cup 0..(BudgetMod - 1)]
    <3> DEFINE d == [c \in Component |-> One(to)[c] - One(entry[h[1]].owner)[c]]
    <3>1. Charge(d) /\ \A c \in Component : d[c] \in Int
      BY <1>2 DEF TransferOwnership, One
    <3> HIDE DEF d
    <3> QED BY <3>1, ChargeType
  <2>2. componentResources' \in [Component -> SUBSET Handle]
    <3>1. WithoutOwner({h[1]}) \in [Component -> SUBSET Handle] /\ h \in Handle
      BY WithoutType DEF TypeOK
    <3> QED BY <1>2, <3>1 DEF TransferOwnership
  <2>3. entry' \in [Slot -> Entry]
    BY <1>2, <1>s, <1>e DEF TransferOwnership, TypeOK, Entry
  <2> QED BY <1>2, <2>1, <2>2, <2>3 DEF TransferOwnership, TypeOK
<1>3. ASSUME NEW from \in Owner, NEW to \in Owner, TransferRefused(h, from, to)
      PROVE  TypeOK'
  <2>1. Charge(One(to)) /\ \A c \in Component : One(to)[c] \in Int
    BY <1>3 DEF TransferRefused, One
  <2>2. budget' \in [Component -> {Unregistered} \cup 0..(BudgetMod - 1)]
    BY <2>1, ChargeType
  <2> QED BY <1>3, <2>2 DEF TransferRefused, TypeOK, table, index
<1>4. CASE BorrowStart(h)
  <2>1. entry[h[1]].borrows + 1 \in 0..MaxBorrows
    BY <1>4, <1>e, ManagerAssumption DEF BorrowStart, Entry
  <2>2. entry' \in [Slot -> Entry]
    BY <1>4, <1>s, <1>e, <2>1 DEF BorrowStart, TypeOK, Entry
  <2> QED BY <1>4, <2>2 DEF BorrowStart, TypeOK, index
<1>5. CASE BorrowEnd(h)
  <2>1. entry[h[1]].borrows - 1 \in 0..MaxBorrows
    BY <1>5, <1>e, ManagerAssumption DEF BorrowEnd, Entry
  <2>2. entry' \in [Slot -> Entry]
    BY <1>5, <1>s, <1>e, <2>1 DEF BorrowEnd, TypeOK, Entry
  <2> QED BY <1>5, <2>2 DEF BorrowEnd, TypeOK, index
<1>6. CASE WritePayload(h)
  <2>1. residue' \in [Buffer -> SUBSET Handle]
    BY <1>6, <1>e DEF WritePayload, TypeOK
  <2> QED BY <1>6, <2>1 DEF WritePayload, TypeOK, table, index
<1> QED BY <1>1, <1>2, <1>3, <1>4, <1>5, <1>6

(* Buffers given back, reclaims and registration.                          *)
LEMMA ReclaimType ==
  ASSUME IndInv,
         \/ \E c \in Component : RegisterComponent(c)
         \/ \E c \in Component : ForceReclaim(c)
         \/ \E f \in Flow : ReclaimFlowBuffers(f)
         \/ \E t \in Thread : ReleaseReturn(t)
  PROVE  TypeOK'
<1> USE DEF IndInv
<1>b. \A S \in SUBSET live : BuffersOf(S) \in SUBSET Buffer
  BY DEF BuffersOf, BuffersConserved
<1>1. ASSUME NEW c \in Component, RegisterComponent(c) PROVE TypeOK'
  BY <1>1, ManagerAssumption DEF RegisterComponent, TypeOK, table, index
<1>2. ASSUME NEW c \in Component, ForceReclaim(c) PROVE TypeOK'
  <2> DEFINE S == Indexed(componentResources[c])
  <2>0. S \in SUBSET live
    BY IndexedLive
  <2>1. /\ Leave(S) /\ PutBack(BuffersOf(S)) /\ flowResources' = WithoutFlow(S)
        /\ componentResources' = [componentResources EXCEPT ![c] = {}]
        /\ budget' = [budget EXCEPT ![c] = Unregistered] /\ UNCHANGED <<pc, call, issued>>
    BY <1>2 DEF ForceReclaim
  <2> HIDE DEF S
  <2>2. /\ capacity' \in Slot /\ live' \subseteq 1..capacity'
        /\ generation' \in [Slot -> Generation] /\ entry' \in [Slot -> Entry]
    BY <2>0, <2>1, LeaveType
  <2>3. residue' \in [Buffer -> SUBSET Handle] /\ idle' \subseteq Buffer
    BY <2>0, <2>1, <1>b, PutBackType
  <2>4. flowResources' \in [Flow -> SUBSET Handle]
    BY <2>1, WithoutType
  <2> QED BY <2>1, <2>2, <2>3, <2>4 DEF TypeOK
<1>3. ASSUME NEW f \in Flow, ReclaimFlowBuffers(f) PROVE TypeOK'
  <2> DEFINE S == Indexed(flowResources[f])
  <2>0. S \in SUBSET live
    BY IndexedLive
  <2>1. /\ Leave(S) /\ PutBack(BuffersOf(S)) /\ componentResources' = WithoutOwner(S)
        /\ flowResources' = [flowResources EXCEPT ![f] = {}]
        /\ Charge(Share(S)) /\ UNCHANGED <<pc, call, issued>>
    BY <1>3 DEF ReclaimFlowBuffers
  <2> HIDE DEF S
  <2>2. /\ capacity' \in Slot /\ live' \subseteq 1..capacity'
        /\ generation' \in [Slot -> Generation] /\ entry' \in [Slot -> Entry]
    BY <2>0, <2>1, LeaveType
  <2>3. residue' \in [Buffer -> SUBSET Handle] /\ idle' \subseteq Buffer
    BY <2>0, <2>1, <1>b, PutBackType
  <2>4. componentResources' \in [Component -> SUBSET Handle]
    BY <2>1, WithoutType
  <2>5. budget' \in [Component -> {Unregistered} \cup 0..(BudgetMod - 1)]
    BY <2>0, <2>1, ShareType, ChargeType
  <2> QED BY <2>1, <2>2, <2>3, <2>4, <2>5 DEF TypeOK
<1>4. ASSUME NEW t \in Thread, ReleaseReturn(t) PROVE TypeOK'
  <2>1. {call[t].buffer} \in SUBSET Buffer
    BY <1>4 DEF ReleaseReturn, BuffersConserved, InHand
  <2>2. PutBack({call[t].buffer})
    BY <1>4 DEF ReleaseReturn
  <2>3. residue' \in [Buffer -> SUBSET Handle] /\ idle' \subseteq Buffer
    BY <2>1, <2>2, PutBackType
  <2> QED BY <1>4, <2>3, NoneType DEF ReleaseReturn, TypeOK, table, index
<1> QED BY <1>1, <1>2, <1>3, <1>4

-----------------------------------------------------------------------------
(* Every step keeps the indices exact.                                     *)

(* Handles of different slots differ.                                      *)
LEMMA RidInjective == \A s, r : Rid(s) = Rid(r) => s = r
  BY DEF Rid

(* A walk over an exact index finds what the table says.                   *)
LEMMA IndexedExact ==
  ASSUME IndicesExact
  PROVE  /\ \A c \in Component : Indexed(componentResources[c]) = Owned(c)
         /\ \A f \in Flow : Indexed(flowResources[f]) = {s \in live : entry[s].flow = f}
<1>1. ASSUME NEW c \in Component PROVE Indexed(componentResources[c]) = Owned(c)
  <2>1. componentResources[c] = {Rid(s) : s \in Owned(c)}
    BY DEF IndicesExact, Owned
  <2> QED BY <2>1, RidInjective DEF Indexed, Owned
<1>2. ASSUME NEW f \in Flow
      PROVE  Indexed(flowResources[f]) = {s \in live : entry[s].flow = f}
  <2>1. flowResources[f] = {Rid(s) : s \in {x \in live : entry[x].flow = f}}
    BY DEF IndicesExact
  <2> QED BY <2>1, RidInjective DEF Indexed
<1> QED BY <1>1, <1>2

(* The indices without some slots fit the table without them.              *)
LEMMA LeaveExact ==
  ASSUME TypeOK, IndicesExact, NEW S \in SUBSET live, Leave(S),
         componentResources' = WithoutOwner(S), flowResources' = WithoutFlow(S)
  PROVE  IndicesExact'
<1>1. /\ live' = live \ S /\ live \subseteq Slot /\ \A s \in live' : entry'[s] = entry[s]
      /\ \A s : Rid(s)' = Rid(s)
  BY ManagerAssumption DEF Leave, Rid, TypeOK, Slot
<1>2. ASSUME NEW c \in Component
      PROVE  componentResources'[c] = {Rid(s)' : s \in {x \in live' : entry'[x].owner = c}}
  <2>1. componentResources'[c] =
          {Rid(s) : s \in {x \in live : entry[x].owner = c}}
            \ {Rid(s) : s \in {x \in S : entry[x].owner = c}}
    BY DEF WithoutOwner, IndicesExact
  <2> QED BY <1>1, <2>1, RidInjective
<1>3. ASSUME NEW f \in Flow
      PROVE  flowResources'[f] = {Rid(s)' : s \in {x \in live' : entry'[x].flow = f}}
  <2>1. flowResources'[f] =
          {Rid(s) : s \in {x \in live : entry[x].flow = f}}
            \ {Rid(s) : s \in {x \in S : entry[x].flow = f}}
    BY DEF WithoutFlow, IndicesExact
  <2> QED BY <1>1, <2>1, RidInjective
<1> QED BY <1>2, <1>3 DEF IndicesExact

(* Emptying the index of a component, or of a flow, is taking its slots    *)
(* out of it.                                                              *)
LEMMA ReclaimIndices ==
  ASSUME TypeOK, IndicesExact
  PROVE  /\ \A c \in Component :
              WithoutOwner(Indexed(componentResources[c]))
                = [componentResources EXCEPT ![c] = {}]
         /\ \A f \in Flow :
              WithoutFlow(Indexed(flowResources[f])) = [flowResources EXCEPT ![f] = {}]
<1>1. ASSUME NEW c \in Component
      PROVE  WithoutOwner(Indexed(componentResources[c]))
               = [componentResources EXCEPT ![c] = {}]
  <2>1. Indexed(componentResources[c]) = Owned(c)
    BY IndexedExact
  <2>2. ASSUME NEW d \in Component
        PROVE  WithoutOwner(Owned(c))[d] = [componentResources EXCEPT ![c] = {}][d]
    <3>1. componentResources[d] = {Rid(s) : s \in {x \in live : entry[x].owner = d}}
      BY DEF IndicesExact
    <3>2. CASE d = c
      BY <3>1, <3>2 DEF WithoutOwner, Owned, TypeOK
    <3>3. CASE d # c
      <4>1. {x \in Owned(c) : entry[x].owner = d} = {}
        BY <3>3 DEF Owned
      <4> QED BY <3>3, <4>1 DEF WithoutOwner, TypeOK
    <3> QED BY <3>2, <3>3
  <2> QED BY <2>1, <2>2 DEF WithoutOwner, TypeOK
<1>2. ASSUME NEW f \in Flow
      PROVE  WithoutFlow(Indexed(flowResources[f])) = [flowResources EXCEPT ![f] = {}]
  <2> DEFINE S == {s \in live : entry[s].flow = f}
  <2>1. Indexed(flowResources[f]) = S
    BY IndexedExact
  <2>2. ASSUME NEW d \in Flow
        PROVE  WithoutFlow(S)[d] = [flowResources EXCEPT ![f] = {}][d]
    <3>1. flowResources[d] = {Rid(s) : s \in {x \in live : entry[x].flow = d}}
      BY DEF IndicesExact
    <3>2. CASE d = f
      BY <3>1, <3>2 DEF WithoutFlow, TypeOK
    <3>3. CASE d # f
      <4>1. {x \in S : entry[x].flow = d} = {}
        BY <3>3
      <4> QED BY <3>3, <4>1 DEF WithoutFlow, TypeOK
    <3> QED BY <3>2, <3>3
  <2> QED BY <2>1, <2>2 DEF WithoutFlow, TypeOK
<1> QED BY <1>1, <1>2

(* Steps that change neither owners, flows, slots nor indices.             *)
LEMMA FrameExact ==
  ASSUME IndicesExact, UNCHANGED <<live, generation, index>>,
         \A s \in live : entry'[s].owner = entry[s].owner /\ entry'[s].flow = entry[s].flow
  PROVE  IndicesExact'
<1>1. \A s : Rid(s)' = Rid(s)
  BY DEF Rid
<1>2. ASSUME NEW c \in Component
      PROVE  {x \in live' : entry'[x].owner = c} = {x \in live : entry[x].owner = c}
  OBVIOUS
<1>3. ASSUME NEW f \in Flow
      PROVE  {x \in live' : entry'[x].flow = f} = {x \in live : entry[x].flow = f}
  OBVIOUS
<1> QED BY <1>1, <1>2, <1>3 DEF IndicesExact, index

(* Entering the table adds the new handle to both indices.                 *)
LEMMA EnterExact ==
  ASSUME IndInv, NEW t \in Thread, AllocateInsert(t)
  PROVE  IndicesExact'
<1> USE DEF IndInv
<1>1. PICK s \in (1..Grown) \ live :
        generation[s] < MaxGeneration /\ Enter(t, s, generation[s] + 1)
  BY DEF AllocateInsert
<1>2. s \in Slot
  BY ManagerAssumption, AllocateInsert(t) DEF AllocateInsert, Grown, TypeOK, Slot
<1> DEFINE g == generation[s] + 1
           new == [owner |-> call[t].owner, state |-> "Owned", borrows |-> 0,
                   buffer |-> call[t].buffer, flow |-> call[t].flow]
<1>3. /\ live' = live \cup {s} /\ s \notin live
      /\ generation' = [generation EXCEPT ![s] = g]
      /\ entry' = [entry EXCEPT ![s] = new]
      /\ componentResources' = [d \in Component |-> IF d = call[t].owner
                                  THEN componentResources[d] \cup {<<s, g>>}
                                  ELSE componentResources[d]]
      /\ flowResources' = [flowResources EXCEPT ![call[t].flow] = @ \cup {<<s, g>>}]
  BY <1>1 DEF Enter
<1>4. /\ entry'[s] = new /\ Rid(s)' = <<s, g>> /\ live \subseteq Slot
      /\ \A x \in live : entry'[x] = entry[x] /\ Rid(x)' = Rid(x)
  BY <1>2, <1>3, ManagerAssumption DEF TypeOK, Rid, Slot
<1>5. new.owner = call[t].owner /\ new.flow = call[t].flow
  OBVIOUS
<1> HIDE DEF new, g
<1>6. ASSUME NEW c \in Component
      PROVE  componentResources'[c] = {Rid(x)' : x \in {y \in live' : entry'[y].owner = c}}
  <2>1. componentResources[c] = {Rid(x) : x \in {y \in live : entry[y].owner = c}}
    BY DEF IndicesExact
  <2>2. CASE c = call[t].owner
    <3>1. {y \in live' : entry'[y].owner = c} = {y \in live : entry[y].owner = c} \cup {s}
      BY <1>3, <1>4, <1>5, <2>2
    <3> QED BY <1>3, <1>4, <2>1, <2>2, <3>1
  <2>3. CASE c # call[t].owner
    <3>1. {y \in live' : entry'[y].owner = c} = {y \in live : entry[y].owner = c}
      BY <1>3, <1>4, <1>5, <2>3
    <3> QED BY <1>3, <1>4, <2>1, <2>3, <3>1
  <2> QED BY <2>2, <2>3
<1>7. ASSUME NEW f \in Flow
      PROVE  flowResources'[f] = {Rid(x)' : x \in {y \in live' : entry'[y].flow = f}}
  <2>1. flowResources[f] = {Rid(x) : x \in {y \in live : entry[y].flow = f}}
    BY DEF IndicesExact
  <2>2. CASE f = call[t].flow
    <3>1. {y \in live' : entry'[y].flow = f} = {y \in live : entry[y].flow = f} \cup {s}
      BY <1>3, <1>4, <1>5, <2>2
    <3>2. flowResources'[f] = flowResources[f] \cup {<<s, g>>}
      BY <1>3, <2>2 DEF TypeOK
    <3> QED BY <1>4, <2>1, <3>1, <3>2
  <2>3. CASE f # call[t].flow
    <3>1. {y \in live' : entry'[y].flow = f} = {y \in live : entry[y].flow = f}
      BY <1>3, <1>4, <1>5, <2>3
    <3>2. flowResources'[f] = flowResources[f]
      BY <1>3, <2>3 DEF TypeOK
    <3> QED BY <1>4, <2>1, <3>1, <3>2
  <2> QED BY <2>2, <2>3
<1> QED BY <1>6, <1>7 DEF IndicesExact

(* A transfer moves the handle from one index to the other.                *)
LEMMA TransferExact ==
  ASSUME IndInv, NEW h \in issued, NEW to \in Owner, TransferOwnership(h, to)
  PROVE  IndicesExact'
<1> USE DEF IndInv
<1> DEFINE s == h[1]
<1>1. s \in live /\ s \in Slot /\ h = Rid(s)
  BY ResolvesRid, TransferOwnership(h, to) DEF TransferOwnership
<1>2. /\ entry' = [entry EXCEPT ![s].owner = to]
      /\ componentResources' = [c \in Component |-> IF c = to
                                  THEN WithoutOwner({s})[c] \cup {h}
                                  ELSE WithoutOwner({s})[c]]
      /\ UNCHANGED <<live, generation, flowResources>>
  BY TransferOwnership(h, to) DEF TransferOwnership
<1>3. /\ \A x : Rid(x)' = Rid(x)
      /\ \A x \in live : entry'[x].flow = entry[x].flow
      /\ \A x \in live : entry'[x].owner = IF x = s THEN to ELSE entry[x].owner
  BY <1>1, <1>2, ManagerAssumption DEF Rid, TypeOK, Slot, Entry
<1> HIDE DEF s
<1>4. ASSUME NEW c \in Component
      PROVE  componentResources'[c] = {Rid(x)' : x \in {y \in live' : entry'[y].owner = c}}
  <2>1. WithoutOwner({s})[c] =
          {Rid(x) : x \in {y \in live : entry[y].owner = c /\ y # s}}
    <3>1. componentResources[c] = {Rid(x) : x \in {y \in live : entry[y].owner = c}}
      BY DEF IndicesExact
    <3>2. WithoutOwner({s})[c] =
            componentResources[c] \ {Rid(x) : x \in {y \in {s} : entry[y].owner = c}}
      BY DEF WithoutOwner
    <3> QED BY <3>1, <3>2, RidInjective
  <2>2. CASE c = to
    <3>1. {y \in live' : entry'[y].owner = c}
            = {y \in live : entry[y].owner = c /\ y # s} \cup {s}
      BY <1>1, <1>2, <1>3, <2>2
    <3>2. componentResources'[c] = WithoutOwner({s})[c] \cup {Rid(s)}
      BY <1>1, <1>2, <2>2
    <3> QED BY <1>3, <2>1, <3>1, <3>2
  <2>3. CASE c # to
    <3>1. {y \in live' : entry'[y].owner = c}
            = {y \in live : entry[y].owner = c /\ y # s}
      BY <1>1, <1>2, <1>3, <2>3
    <3> QED BY <1>2, <1>3, <2>1, <2>3, <3>1
  <2> QED BY <2>2, <2>3
<1>5. ASSUME NEW f \in Flow
      PROVE  flowResources'[f] = {Rid(x)' : x \in {y \in live' : entry'[y].flow = f}}
  <2>1. {y \in live' : entry'[y].flow = f} = {y \in live : entry[y].flow = f}
    BY <1>2, <1>3
  <2> QED BY <1>2, <1>3, <2>1 DEF IndicesExact
<1> QED BY <1>4, <1>5 DEF IndicesExact

(* The steps of Next, one by one.                                          *)
LEMMA NextCases ==
  ASSUME Next
  PROVE  \/ \E c \in Component : \/ IsNew(c) /\ Quiet(c) /\ RegisterComponent(c)
                                 \/ Quiet(c) /\ ForceReclaim(c)
         \/ \E f \in Flow : ReclaimFlowBuffers(f)
         \/ \E t \in Thread :
              \/ \E o \in Owner, f \in Flow : AllocateReserve(t, o, f)
              \/ AllocateTake(t) \/ AllocateFails(t) \/ AllocateInsert(t)
              \/ AllocateRollback(t) \/ ReleaseReturn(t)
         \/ \E h \in issued :
              \/ \E t \in Thread : Release(t, h)
              \/ \E to \in Owner : TransferOwnership(h, to)
              \/ \E from, to \in Owner : TransferRefused(h, from, to)
              \/ BorrowStart(h) \/ BorrowEnd(h) \/ WritePayload(h)
  BY Zenon DEF Next

(* Types and indices.                                                      *)
LEMMA TypeStep == IndInv /\ Next => TypeOK'
  BY NextCases, AllocateType, CallType, ReclaimType

(* A borrow changes neither owner nor flow of an entry.                    *)
LEMMA BorrowFrame ==
  ASSUME TypeOK, NEW h \in issued, BorrowStart(h) \/ BorrowEnd(h)
  PROVE  \A s \in live : /\ entry'[s].owner = entry[s].owner
                         /\ entry'[s].flow = entry[s].flow
                         /\ entry'[s].buffer = entry[s].buffer
<1> SUFFICES ASSUME NEW s \in live
             PROVE  /\ entry'[s].owner = entry[s].owner
                    /\ entry'[s].flow = entry[s].flow
                    /\ entry'[s].buffer = entry[s].buffer
  OBVIOUS
<1>1. s \in Slot /\ entry[s] \in Entry /\ entry \in [Slot -> Entry]
  BY ManagerAssumption DEF TypeOK, Slot
<1>2. CASE BorrowStart(h)
  BY <1>1, <1>2 DEF BorrowStart, Entry
<1>3. CASE BorrowEnd(h)
  BY <1>1, <1>3 DEF BorrowEnd, Entry
<1> QED BY <1>2, <1>3

(* Every action of Next leaves the indices exact.                          *)
LEMMA IndicesStep == IndInv /\ Next => IndicesExact'
<1> SUFFICES ASSUME IndInv, Next PROVE IndicesExact'
  OBVIOUS
<1> USE DEF IndInv
<1>1. ASSUME NEW c \in Component, RegisterComponent(c) PROVE IndicesExact'
  BY <1>1, FrameExact DEF RegisterComponent, table
<1>2. ASSUME NEW c \in Component, ForceReclaim(c) PROVE IndicesExact'
  BY <1>2, ReclaimIndices, LeaveExact, IndexedLive DEF ForceReclaim
<1>3. ASSUME NEW f \in Flow, ReclaimFlowBuffers(f) PROVE IndicesExact'
  BY <1>3, ReclaimIndices, LeaveExact, IndexedLive DEF ReclaimFlowBuffers
<1>4. ASSUME NEW t \in Thread,
             \/ \E o \in Owner, f \in Flow : AllocateReserve(t, o, f)
             \/ AllocateTake(t) \/ AllocateFails(t) \/ AllocateRollback(t)
             \/ ReleaseReturn(t)
      PROVE  IndicesExact'
  <2>1. UNCHANGED <<table, index>>
    BY <1>4 DEF AllocateReserve, AllocateTake, AllocateFails, AllocateRollback,
                ReleaseReturn
  <2> QED BY <2>1, FrameExact DEF table
<1>5. ASSUME NEW t \in Thread, AllocateInsert(t) PROVE IndicesExact'
  BY <1>5, EnterExact
<1>6. ASSUME NEW h \in issued, NEW t \in Thread, Release(t, h) PROVE IndicesExact'
  <2>1. {h[1]} \in SUBSET live
    BY <1>6, ResolvesRid DEF Release
  <2> QED BY <1>6, <2>1, LeaveExact DEF Release
<1>7. ASSUME NEW h \in issued, NEW to \in Owner, TransferOwnership(h, to)
      PROVE  IndicesExact'
  BY <1>7, TransferExact
<1>8. ASSUME NEW h \in issued, NEW from \in Owner, NEW to \in Owner,
             TransferRefused(h, from, to)
      PROVE  IndicesExact'
  BY <1>8, FrameExact DEF TransferRefused, table
<1>9. ASSUME NEW h \in issued, BorrowStart(h) \/ BorrowEnd(h) PROVE IndicesExact'
  <2>1. UNCHANGED <<live, generation, index>>
    BY <1>9 DEF BorrowStart, BorrowEnd
  <2> QED BY <1>9, <2>1, FrameExact, BorrowFrame
<1>10. ASSUME NEW h \in issued, WritePayload(h) PROVE IndicesExact'
  BY <1>10, FrameExact DEF WritePayload, table
<1> QED BY NextCases, <1>1, <1>2, <1>3, <1>4, <1>5, <1>6, <1>7, <1>8, <1>9, <1>10

-----------------------------------------------------------------------------
(* Every step conserves the buffers.                                       *)

(* Steps that move no buffer.                                              *)
LEMMA FrameConserved ==
  ASSUME BuffersConserved, UNCHANGED <<live, idle>>, InHand' = InHand,
         \A s \in live : entry'[s].buffer = entry[s].buffer,
         \A t \in InHand : call'[t].buffer = call[t].buffer
  PROVE  BuffersConserved'
  BY DEF BuffersConserved

(* The slots S leave the table and their buffers become idle.              *)
LEMMA ReclaimConserved ==
  ASSUME TypeOK, BuffersConserved, NEW S \in SUBSET live, Leave(S),
         PutBack(BuffersOf(S)), UNCHANGED <<pc, call>>
  PROVE  BuffersConserved'
<1>1. /\ live' = live \ S /\ InHand' = InHand /\ idle' = idle \cup BuffersOf(S)
      /\ call' = call /\ \A s \in live' : entry'[s] = entry[s]
  BY ManagerAssumption DEF Leave, PutBack, InHand, TypeOK, Slot
<1>2. \A s \in live' : entry[s].buffer \notin BuffersOf(S)
  BY <1>1 DEF BuffersOf, BuffersConserved
<1>3. \A t \in InHand : call[t].buffer \notin BuffersOf(S)
  BY DEF BuffersOf, BuffersConserved
<1>4. ASSUME NEW b \in Buffer \ idle'
      PROVE  \/ \E s \in live' : entry'[s].buffer = b
             \/ \E t \in InHand' : call'[t].buffer = b
  <2>1. b \in Buffer \ idle /\ b \notin BuffersOf(S)
    BY <1>1
  <2>2. ASSUME NEW s \in live, entry[s].buffer = b
        PROVE  s \in live' /\ entry'[s].buffer = b
    BY <1>1, <2>1, <2>2 DEF BuffersOf
  <2> QED BY <1>1, <2>1, <2>2 DEF BuffersConserved
<1> QED BY <1>1, <1>2, <1>3, <1>4 DEF BuffersConserved

(* A thread gets hold of an idle buffer, or lets one go.                   *)
LEMMA TakeConserved ==
  ASSUME IndInv, NEW t \in Thread, AllocateTake(t)
  PROVE  BuffersConserved'
<1> USE DEF IndInv
<1>1. PICK b \in idle : idle' = idle \ {b} /\ call' = [call EXCEPT ![t].buffer = b]
  BY AllocateTake(t) DEF AllocateTake
<1>2. /\ InHand' = InHand \cup {t} /\ t \notin InHand
      /\ UNCHANGED <<live, entry>> /\ call'[t].buffer = b /\ b \in Buffer
      /\ \A u \in InHand : call'[u] = call[u]
  BY <1>1, AllocateTake(t) DEF AllocateTake, InHand, TypeOK, table, Call
<1>3. \A c \in Buffer \ idle' : c = b \/ c \in Buffer \ idle
  BY <1>1
<1> QED BY <1>1, <1>2, <1>3 DEF BuffersConserved

(* A thread hands its buffer back to the pool.                             *)
LEMMA GiveConserved ==
  ASSUME IndInv, NEW t \in Thread, AllocateRollback(t) \/ ReleaseReturn(t)
  PROVE  BuffersConserved'
<1> USE DEF IndInv
<1>1. /\ InHand' = InHand \ {t} /\ t \in InHand /\ idle' = idle \cup {call[t].buffer}
      /\ UNCHANGED <<live, entry>>
      /\ \A u \in InHand' : call'[u] = call[u]
  BY DEF AllocateRollback, ReleaseReturn, PutBack, InHand, TypeOK, table
<1> QED BY <1>1 DEF BuffersConserved

(* A buffer passes from a thread to a slot, or from a slot to a thread.    *)
LEMMA EnterConserved ==
  ASSUME IndInv, NEW t \in Thread, AllocateInsert(t)
  PROVE  BuffersConserved'
<1> USE DEF IndInv
<1>1. PICK s \in (1..Grown) \ live :
        generation[s] < MaxGeneration /\ Enter(t, s, generation[s] + 1)
  BY AllocateInsert(t) DEF AllocateInsert
<1>2. s \in Slot /\ live \subseteq Slot
  BY ManagerAssumption, AllocateInsert(t) DEF AllocateInsert, Grown, TypeOK, Slot
<1>3. /\ live' = live \cup {s} /\ s \notin live /\ idle' = idle
      /\ entry'[s].buffer = call[t].buffer
      /\ \A x \in live : entry'[x] = entry[x]
  BY <1>1, <1>2 DEF Enter, TypeOK
<1>4. /\ InHand' = InHand \ {t} /\ t \in InHand
      /\ \A u \in InHand' : call'[u] = call[u]
  BY <1>1, AllocateInsert(t) DEF AllocateInsert, Enter, InHand, TypeOK
<1> QED BY <1>3, <1>4 DEF BuffersConserved

(* A released buffer passes from its slot to the releasing thread.         *)
LEMMA ReleaseConserved ==
  ASSUME IndInv, NEW t \in Thread, NEW h \in issued, Release(t, h)
  PROVE  BuffersConserved'
<1> USE DEF IndInv
<1> DEFINE s == h[1]
<1>1. s \in live /\ live \subseteq Slot
  BY ResolvesRid, ManagerAssumption DEF Release, TypeOK, Slot
<1>2. /\ live' = live \ {s} /\ idle' = idle
      /\ \A x \in live' : entry'[x] = entry[x]
  BY <1>1 DEF Release, Leave
<1>3. /\ InHand' = InHand \cup {t} /\ t \notin InHand
      /\ call'[t].buffer = entry[s].buffer
      /\ \A u \in InHand : call'[u] = call[u]
  BY DEF Release, InHand, TypeOK, NoCall
<1> HIDE DEF s
<1> QED BY <1>1, <1>2, <1>3 DEF BuffersConserved

(* Every action of Next conserves the buffers.                             *)
LEMMA ConservedStep == IndInv /\ Next => BuffersConserved'
<1> SUFFICES ASSUME IndInv, Next PROVE BuffersConserved'
  OBVIOUS
<1> USE DEF IndInv
<1>1. ASSUME NEW c \in Component, RegisterComponent(c) PROVE BuffersConserved'
  BY <1>1, FrameConserved DEF RegisterComponent, table, InHand
<1>2. ASSUME NEW c \in Component, ForceReclaim(c) PROVE BuffersConserved'
  BY <1>2, ReclaimConserved, IndexedLive DEF ForceReclaim
<1>3. ASSUME NEW f \in Flow, ReclaimFlowBuffers(f) PROVE BuffersConserved'
  BY <1>3, ReclaimConserved, IndexedLive DEF ReclaimFlowBuffers
<1>4. ASSUME NEW t \in Thread,
             \/ \E o \in Owner, f \in Flow : AllocateReserve(t, o, f)
             \/ AllocateFails(t)
      PROVE  BuffersConserved'
  <2>1. /\ UNCHANGED <<live, entry, idle>> /\ InHand' = InHand
        /\ \A u \in InHand : call'[u] = call[u]
    BY <1>4 DEF AllocateReserve, AllocateFails, InHand, TypeOK, table
  <2> QED BY <2>1, FrameConserved
<1>5. ASSUME NEW t \in Thread,
             AllocateTake(t) \/ AllocateInsert(t) \/ AllocateRollback(t) \/ ReleaseReturn(t)
      PROVE  BuffersConserved'
  BY <1>5, TakeConserved, EnterConserved, GiveConserved
<1>6. ASSUME NEW h \in issued, NEW t \in Thread, Release(t, h) PROVE BuffersConserved'
  BY <1>6, ReleaseConserved
<1>7. ASSUME NEW h \in issued, NEW to \in Owner, TransferOwnership(h, to)
      PROVE  BuffersConserved'
  <2>1. \A s \in live : entry'[s].buffer = entry[s].buffer
    BY <1>7, ManagerAssumption DEF TransferOwnership, TypeOK, Slot, Entry
  <2>2. UNCHANGED <<live, idle, call>> /\ InHand' = InHand
    BY <1>7 DEF TransferOwnership, InHand
  <2> QED BY <2>1, <2>2, FrameConserved
<1>8. ASSUME NEW h \in issued, NEW from \in Owner, NEW to \in Owner,
             TransferRefused(h, from, to)
      PROVE  BuffersConserved'
  BY <1>8, FrameConserved DEF TransferRefused, table, InHand
<1>9. ASSUME NEW h \in issued, BorrowStart(h) \/ BorrowEnd(h) PROVE BuffersConserved'
  <2>1. UNCHANGED <<live, idle, call>> /\ InHand' = InHand
    BY <1>9 DEF BorrowStart, BorrowEnd, InHand
  <2> QED BY <1>9, <2>1, FrameConserved, BorrowFrame
<1>10. ASSUME NEW h \in issued, WritePayload(h) PROVE BuffersConserved'
  BY <1>10, FrameConserved DEF WritePayload, table, InHand
<1> QED BY NextCases, <1>1, <1>2, <1>3, <1>4, <1>5, <1>6, <1>7, <1>8, <1>9, <1>10

-----------------------------------------------------------------------------
(* Every step keeps buffers free of foreign bytes.                         *)

(* Steps that write nothing and move no buffer.                            *)
LEMMA FrameClean ==
  ASSUME NoResidue, TakenClean, UNCHANGED <<live, generation, idle, residue>>,
         \A s \in live : entry'[s].buffer = entry[s].buffer,
         \A t \in Thread : pc'[t] = "taken" =>
                             pc[t] = "taken" /\ call'[t].buffer = call[t].buffer
  PROVE  NoResidue' /\ TakenClean'
<1>1. \A s : Rid(s)' = Rid(s)
  BY DEF Rid
<1> QED BY <1>1 DEF NoResidue, TakenClean

(* Slots leave the table and their buffers are zeroed.                     *)
LEMMA ReclaimClean ==
  ASSUME IndInv, NEW S \in SUBSET live, Leave(S), PutBack(BuffersOf(S)),
         UNCHANGED <<pc, call>>
  PROVE  NoResidue' /\ TakenClean'
<1> USE DEF IndInv
<1>1. /\ live' = live \ S /\ idle' = idle \cup BuffersOf(S)
      /\ residue' = [b \in Buffer |-> IF b \in BuffersOf(S) THEN {} ELSE residue[b]]
      /\ \A s \in live' : entry'[s] = entry[s] /\ Rid(s)' = Rid(s)
  BY ManagerAssumption DEF Leave, PutBack, TypeOK, Slot, Rid
<1>2. ASSUME NEW s \in live' PROVE residue'[entry'[s].buffer] \subseteq {Rid(s)'}
  BY <1>1 DEF NoResidue, BuffersConserved
<1>3. ASSUME NEW b \in idle' PROVE residue'[b] = {}
  <2>1. b \in Buffer
    BY <1>1 DEF TypeOK, BuffersOf, BuffersConserved
  <2> QED BY <1>1, <2>1 DEF NoResidue
<1>4. ASSUME NEW t \in Thread, pc'[t] = "taken" PROVE residue'[call'[t].buffer] = {}
  <2>1. call[t].buffer \in Buffer /\ residue[call[t].buffer] = {}
    BY <1>4 DEF TakenClean, BuffersConserved, InHand
  <2> QED BY <1>1, <2>1
<1> QED BY <1>2, <1>3, <1>4 DEF NoResidue, TakenClean

(* A buffer on its way into the table, or back to the pool.                *)
LEMMA AllocateClean ==
  ASSUME IndInv, NEW t \in Thread,
         AllocateTake(t) \/ AllocateInsert(t) \/ AllocateRollback(t) \/ ReleaseReturn(t)
  PROVE  NoResidue' /\ TakenClean'
<1> USE DEF IndInv
<1>1. CASE AllocateTake(t)
  <2>1. PICK b \in idle : idle' = idle \ {b} /\ call' = [call EXCEPT ![t].buffer = b]
    BY <1>1 DEF AllocateTake
  <2>2. /\ UNCHANGED <<live, entry, generation, residue>> /\ call'[t].buffer = b
        /\ \A u \in Thread : u # t => pc'[u] = pc[u] /\ call'[u] = call[u]
        /\ \A s : Rid(s)' = Rid(s)
    BY <1>1, <2>1 DEF AllocateTake, TypeOK, table, Call, Rid
  <2> QED BY <2>1, <2>2 DEF NoResidue, TakenClean
<1>2. CASE AllocateInsert(t)
  <2>1. PICK s \in (1..Grown) \ live :
          generation[s] < MaxGeneration /\ Enter(t, s, generation[s] + 1)
    BY <1>2 DEF AllocateInsert
  <2>2. s \in Slot /\ live \subseteq Slot
    BY ManagerAssumption, <1>2 DEF AllocateInsert, Grown, TypeOK, Slot
  <2>3. /\ live' = live \cup {s} /\ s \notin live /\ UNCHANGED <<idle, residue>>
        /\ entry'[s].buffer = call[t].buffer
        /\ \A x \in live : entry'[x] = entry[x] /\ Rid(x)' = Rid(x)
    BY <2>1, <2>2 DEF Enter, TypeOK, Rid
  <2>4. pc[t] = "taken" /\ \A u \in Thread : pc'[u] = "taken" =>
                             pc[u] = "taken" /\ call'[u] = call[u]
    BY <1>2, <2>1 DEF AllocateInsert, Enter, TypeOK
  <2>5. residue[call[t].buffer] = {}
    BY <2>4 DEF TakenClean
  <2> QED BY <2>3, <2>4, <2>5 DEF NoResidue, TakenClean
<1>3. CASE AllocateRollback(t)
  <2>1. /\ UNCHANGED <<live, entry, generation, residue>>
        /\ idle' = idle \cup {call[t].buffer} /\ pc[t] = "taken"
        /\ \A u \in Thread : pc'[u] = "taken" => pc[u] = "taken" /\ call'[u] = call[u]
        /\ \A s : Rid(s)' = Rid(s)
    BY <1>3 DEF AllocateRollback, TypeOK, table, Rid
  <2> QED BY <2>1 DEF NoResidue, TakenClean
<1>4. CASE ReleaseReturn(t)
  <2> DEFINE b == call[t].buffer
  <2>1. /\ UNCHANGED <<live, entry, generation>> /\ idle' = idle \cup {b}
        /\ t \in InHand /\ b \in Buffer
        /\ residue' = [x \in Buffer |-> IF x = b THEN {} ELSE residue[x]]
        /\ \A u \in Thread : pc'[u] = "taken" => pc[u] = "taken" /\ call'[u] = call[u]
        /\ \A s : Rid(s)' = Rid(s)
    BY <1>4 DEF ReleaseReturn, PutBack, TypeOK, table, Rid, InHand, BuffersConserved
  <2>2. \A u \in Thread : pc[u] = "taken" => u \in InHand /\ call[u].buffer \in Buffer
    BY DEF InHand, BuffersConserved
  <2>3. \A x \in idle' : x \in Buffer
    BY <2>1 DEF TypeOK
  <2> HIDE DEF b
  <2>4. \A s \in live : entry[s].buffer \in Buffer
    BY DEF BuffersConserved
  <2> QED BY <2>1, <2>2, <2>3, <2>4 DEF NoResidue, TakenClean
<1> QED BY <1>1, <1>2, <1>3, <1>4

(* A write leaves its own handle in its own buffer.                        *)
LEMMA WriteClean ==
  ASSUME IndInv, NEW h \in issued, WritePayload(h)
  PROVE  NoResidue' /\ TakenClean'
<1> USE DEF IndInv
<1> DEFINE s == h[1]
           b == entry[s].buffer
<1>1. s \in live /\ h = Rid(s) /\ b \in Buffer /\ b \notin idle
  BY ResolvesRid DEF WritePayload, BuffersConserved
<1>2. /\ residue'[b] = residue[b] \cup {h}
      /\ \A x \in Buffer : x # b => residue'[x] = residue[x]
      /\ UNCHANGED <<live, entry, generation, idle, pc, call>>
      /\ \A x : Rid(x)' = Rid(x)
  BY <1>1 DEF WritePayload, TypeOK, table, Rid
<1>3. \A x \in live : entry[x].buffer \in Buffer /\ (entry[x].buffer = b => x = s)
  BY <1>1 DEF BuffersConserved
<1>4. \A u \in Thread : pc[u] = "taken" => call[u].buffer \in Buffer /\ call[u].buffer # b
  BY <1>1 DEF BuffersConserved, InHand
<1>5. \A x \in idle : x \in Buffer /\ x # b
  BY <1>1 DEF TypeOK
<1>6. residue'[b] \subseteq {Rid(s)}
  BY <1>1, <1>2 DEF NoResidue
<1> HIDE DEF b, s
<1> QED BY <1>1, <1>2, <1>3, <1>4, <1>5, <1>6 DEF NoResidue, TakenClean

(* Every action of Next leaves buffers clean.                              *)
LEMMA CleanStep == IndInv /\ Next => NoResidue' /\ TakenClean'
<1> SUFFICES ASSUME IndInv, Next PROVE NoResidue' /\ TakenClean'
  OBVIOUS
<1> USE DEF IndInv
<1>1. ASSUME NEW c \in Component, RegisterComponent(c) PROVE NoResidue' /\ TakenClean'
  BY <1>1, FrameClean DEF RegisterComponent, table
<1>2. ASSUME NEW c \in Component, ForceReclaim(c) PROVE NoResidue' /\ TakenClean'
  BY <1>2, ReclaimClean, IndexedLive DEF ForceReclaim
<1>3. ASSUME NEW f \in Flow, ReclaimFlowBuffers(f) PROVE NoResidue' /\ TakenClean'
  BY <1>3, ReclaimClean, IndexedLive DEF ReclaimFlowBuffers
<1>4. ASSUME NEW t \in Thread,
             \/ \E o \in Owner, f \in Flow : AllocateReserve(t, o, f)
             \/ AllocateFails(t)
      PROVE  NoResidue' /\ TakenClean'
  <2>1. /\ UNCHANGED <<live, generation, entry, idle, residue>>
        /\ \A u \in Thread : pc'[u] = "taken" => pc[u] = "taken" /\ call'[u] = call[u]
    BY <1>4 DEF AllocateReserve, AllocateFails, TypeOK, table
  <2> QED BY <2>1, FrameClean
<1>5. ASSUME NEW t \in Thread,
             AllocateTake(t) \/ AllocateInsert(t) \/ AllocateRollback(t) \/ ReleaseReturn(t)
      PROVE  NoResidue' /\ TakenClean'
  BY <1>5, AllocateClean
<1>6. ASSUME NEW h \in issued, NEW t \in Thread, Release(t, h)
      PROVE  NoResidue' /\ TakenClean'
  <2>1. /\ live' = live \ {h[1]} /\ UNCHANGED <<generation, idle, residue>>
        /\ \A s \in live' : entry'[s] = entry[s] /\ Rid(s)' = Rid(s)
    BY <1>6, ManagerAssumption DEF Release, Leave, TypeOK, Slot, Rid
  <2>2. \A u \in Thread : pc'[u] = "taken" => pc[u] = "taken" /\ call'[u] = call[u]
    BY <1>6 DEF Release, TypeOK
  <2> QED BY <2>1, <2>2 DEF NoResidue, TakenClean
<1>7. ASSUME NEW h \in issued, NEW to \in Owner, TransferOwnership(h, to)
      PROVE  NoResidue' /\ TakenClean'
  <2>1. \A s \in live : entry'[s].buffer = entry[s].buffer
    BY <1>7, ManagerAssumption DEF TransferOwnership, TypeOK, Slot, Entry
  <2>2. UNCHANGED <<live, generation, idle, residue, pc, call>>
    BY <1>7 DEF TransferOwnership
  <2> QED BY <2>1, <2>2, FrameClean
<1>8. ASSUME NEW h \in issued, NEW from \in Owner, NEW to \in Owner,
             TransferRefused(h, from, to)
      PROVE  NoResidue' /\ TakenClean'
  BY <1>8, FrameClean DEF TransferRefused, table
<1>9. ASSUME NEW h \in issued, BorrowStart(h) \/ BorrowEnd(h)
      PROVE  NoResidue' /\ TakenClean'
  <2>1. UNCHANGED <<live, generation, idle, residue, pc, call>>
    BY <1>9 DEF BorrowStart, BorrowEnd
  <2> QED BY <1>9, <2>1, FrameClean, BorrowFrame
<1>10. ASSUME NEW h \in issued, WritePayload(h) PROVE NoResidue' /\ TakenClean'
  BY <1>10, WriteClean
<1> QED BY NextCases, <1>1, <1>2, <1>3, <1>4, <1>5, <1>6, <1>7, <1>8, <1>9, <1>10

-----------------------------------------------------------------------------
(* Every step keeps handles unique.                                        *)

(* No step but an insertion issues a handle, moves a generation or fills a *)
(* slot.                                                                   *)
LEMMA OnlyInsertIssues ==
  ASSUME IndInv, Next, \A t \in Thread : ~AllocateInsert(t)
  PROVE  UNCHANGED <<generation, issued>> /\ live' \subseteq live
<1>1. ASSUME NEW t \in Thread,
             \/ \E o \in Owner, f \in Flow : AllocateReserve(t, o, f)
             \/ AllocateTake(t) \/ AllocateFails(t)
             \/ AllocateRollback(t) \/ ReleaseReturn(t)
      PROVE  UNCHANGED <<generation, issued>> /\ live' \subseteq live
  BY <1>1 DEF AllocateReserve, AllocateTake, AllocateFails, AllocateRollback,
              ReleaseReturn, table
<1>2. ASSUME NEW h \in issued,
             \/ \E t \in Thread : Release(t, h)
             \/ \E to \in Owner : TransferOwnership(h, to)
             \/ \E from, to \in Owner : TransferRefused(h, from, to)
             \/ BorrowStart(h) \/ BorrowEnd(h) \/ WritePayload(h)
      PROVE  UNCHANGED <<generation, issued>> /\ live' \subseteq live
  BY <1>2 DEF Release, Leave, TransferOwnership, TransferRefused, BorrowStart, BorrowEnd,
              WritePayload, table
<1>3. ASSUME \/ \E c \in Component : RegisterComponent(c) \/ ForceReclaim(c)
             \/ \E f \in Flow : ReclaimFlowBuffers(f)
      PROVE  UNCHANGED <<generation, issued>> /\ live' \subseteq live
  BY <1>3 DEF RegisterComponent, ForceReclaim, ReclaimFlowBuffers, Leave, table
<1> QED BY NextCases, <1>1, <1>2, <1>3

(* An insertion issues a handle that was never issued.                     *)
LEMMA InsertFresh ==
  ASSUME IndInv, NEW t \in Thread, AllocateInsert(t)
  PROVE  \E s \in Slot \ live :
           /\ generation[s] + 1 \in Generation
           /\ <<s, generation[s] + 1>> \notin issued
           /\ Enter(t, s, generation[s] + 1)
<1> USE DEF IndInv
<1>1. PICK s \in (1..Grown) \ live :
        generation[s] < MaxGeneration /\ Enter(t, s, generation[s] + 1)
  BY DEF AllocateInsert
<1>2. s \in Slot \ live
  BY ManagerAssumption DEF AllocateInsert, Grown, TypeOK, Slot
<1>3. generation[s] \in Nat /\ generation[s] + 1 \in Generation
  BY <1>1, <1>2, ManagerAssumption DEF TypeOK, Generation
<1>4. <<s, generation[s] + 1>> \notin issued
  <2> SUFFICES ASSUME <<s, generation[s] + 1>> \in issued PROVE FALSE
    OBVIOUS
  <2>1. generation[s] + 1 <= generation[s]
    BY DEF HandlesKnown
  <2> QED BY <1>3, <2>1
<1> QED BY <1>1, <1>2, <1>3, <1>4

(* Every action of Next leaves the handles of occupied slots issued, and   *)
(* the issued ones no younger than their slots.                            *)
LEMMA HandlesStep == IndInv /\ Next => HandlesKnown'
<1> SUFFICES ASSUME IndInv, Next PROVE HandlesKnown'
  OBVIOUS
<1> USE DEF IndInv
<1>1. CASE \A t \in Thread : ~AllocateInsert(t)
  BY <1>1, OnlyInsertIssues DEF HandlesKnown, Rid
<1>2. ASSUME NEW t \in Thread, AllocateInsert(t) PROVE HandlesKnown'
  <2>1. PICK s \in Slot \ live : /\ generation[s] + 1 \in Generation
                                 /\ Enter(t, s, generation[s] + 1)
    BY <1>2, InsertFresh
  <2>2. /\ live' = live \cup {s} /\ issued' = issued \cup {<<s, generation[s] + 1>>}
        /\ generation' = [generation EXCEPT ![s] = generation[s] + 1]
    BY <2>1 DEF Enter
  <2>3. \A x \in live' : Rid(x)' \in issued'
    BY <2>1, <2>2, ManagerAssumption DEF HandlesKnown, Rid, TypeOK, Slot
  <2>4. \A r \in Slot : /\ generation[r] \in Nat /\ generation'[r] \in Nat
                        /\ generation[r] <= generation'[r]
    BY <2>1, <2>2, ManagerAssumption DEF TypeOK, Generation
  <2>5. ASSUME NEW h \in issued PROVE h[2] <= generation'[h[1]]
    <3>1. h[1] \in Slot /\ h[2] \in Nat /\ h[2] <= generation[h[1]]
      BY DEF TypeOK, Handle, Generation, HandlesKnown
    <3> QED BY <3>1, <2>4
  <2>6. <<s, generation[s] + 1>>[2] <= generation'[<<s, generation[s] + 1>>[1]]
    BY <2>1, <2>2, <2>4 DEF TypeOK
  <2> QED BY <2>2, <2>3, <2>5, <2>6 DEF HandlesKnown
<1> QED BY <1>1, <1>2

-----------------------------------------------------------------------------
(* Every step keeps the budgets covered.                                   *)

(* Sets that are counted are finite.                                       *)
LEMMA CountsFinite ==
  ASSUME TypeOK, NEW c
  PROVE  /\ IsFiniteSet(Owned(c)) /\ IsFiniteSet(Allocating(c))
         /\ Cardinality(Owned(c)) \in Nat /\ Cardinality(Allocating(c)) \in Nat
<1>1. IsFiniteSet(Owned(c))
  BY LiveFinite, FS_Subset, Owned(c) \in SUBSET live DEF Owned
<1>2. IsFiniteSet(Allocating(c))
  BY ManagerAssumption, FS_Subset, Allocating(c) \in SUBSET Thread DEF Allocating
<1> QED BY <1>1, <1>2, FS_CardinalityType

(* Within its limit, a counter that is charged does not wrap.              *)
LEMMA Unwrapped ==
  ASSUME NEW x \in 0..(BudgetMod - 1)
  PROVE  x % BudgetMod = x
  BY ManagerAssumption

(* A charge that stays within the counter's range is exact.                *)
LEMMA ChargeExact ==
  ASSUME TypeOK, NEW delta, Charge(delta), NEW c \in Component, delta[c] \in Int,
         budget[c] # Unregistered, budget[c] + delta[c] \in 0..(BudgetMod - 1)
  PROVE  budget'[c] = budget[c] + delta[c]
<1>1. budget'[c] = (budget[c] + delta[c]) % BudgetMod
  BY DEF Charge
<1>2. budget[c] + delta[c] \in 0..(BudgetMod - 1)
  OBVIOUS
<1> QED BY <1>1, <1>2, Unwrapped

(* A charge registers nobody.                                              *)
LEMMA ChargeRegisters ==
  ASSUME NEW delta, Charge(delta), NEW c \in Component, budget'[c] # Unregistered
  PROVE  budget[c] # Unregistered
  BY DEF Charge

(* A reservation that is granted stays within the limit.                   *)
LEMMA ReserveWithin ==
  ASSUME IndInv, NEW c \in Component, budget[c] # Unregistered, CanReserve(c)
  PROVE  budget[c] \in Nat /\ budget[c] + 1 <= BudgetMax /\ budget[c] + 1 \in 0..(BudgetMod - 1)
<1>1. budget[c] \in Nat /\ budget[c] <= BudgetMax
  BY DEF IndInv, TypeOK, BudgetCoversSlots
<1>2. budget[c] + 1 \in 0..(BudgetMod - 1)
  BY <1>1, ManagerAssumption
<1>3. (budget[c] + 1) % BudgetMod = budget[c] + 1
  BY <1>2, Unwrapped
<1> QED BY <1>1, <1>2, <1>3 DEF CanReserve

(* Slots that leave the table take their share of the budgets with them.   *)
LEMMA LeaveCovers ==
  ASSUME IndInv, NEW S \in SUBSET live, Leave(S), Charge(Share(S)),
         \A c \in Component : Allocating(c)' = Allocating(c)
  PROVE  BudgetCoversSlots'
<1> USE DEF IndInv
<1> SUFFICES ASSUME NEW c \in Component, budget'[c] # Unregistered
             PROVE  /\ Cardinality(Owned(c)') + Cardinality(Allocating(c)') <= budget'[c]
                    /\ budget'[c] <= BudgetMax
  BY DEF BudgetCoversSlots
<1> DEFINE T == {s \in S : entry[s].owner = c}
<1>0. budget[c] # Unregistered /\ budget[c] \in Nat
  BY ChargeRegisters DEF TypeOK
<1>1. /\ Cardinality(Owned(c)) + Cardinality(Allocating(c)) <= budget[c]
      /\ budget[c] <= BudgetMax
  BY <1>0 DEF BudgetCoversSlots
<1>2. Owned(c)' = Owned(c) \ T /\ T \in SUBSET Owned(c)
  <2>1. live' = live \ S /\ \A s \in live' : entry'[s] = entry[s]
    BY ManagerAssumption DEF Leave, TypeOK, Slot
  <2> QED BY <2>1 DEF Owned
<1>3. IsFiniteSet(T) /\ Cardinality(T) \in Nat
  BY <1>2, CountsFinite, FS_Subset, FS_CardinalityType
<1> HIDE DEF T
<1>4. /\ IsFiniteSet(Owned(c) \ T) /\ Cardinality(Owned(c) \ T) \in Nat
      /\ Cardinality(Owned(c) \ T) = Cardinality(Owned(c)) - Cardinality(T)
  <2>1. Owned(c) \cap T = T /\ IsFiniteSet(Owned(c))
    BY <1>2, CountsFinite
  <2>2. /\ IsFiniteSet(Owned(c) \ T)
        /\ Cardinality(Owned(c) \ T) = Cardinality(Owned(c)) - Cardinality(Owned(c) \cap T)
    BY <2>1, FS_Difference
  <2>3. Cardinality(Owned(c) \ T) \in Nat
    BY <2>2, FS_CardinalityType
  <2>4. Cardinality(Owned(c) \cap T) = Cardinality(T)
    BY <2>1
  <2> QED BY <2>2, <2>3, <2>4
<1>5. Share(S)[c] = 0 - Cardinality(T)
  BY DEF Share, T
<1>6. Cardinality(Allocating(c)) \in Nat /\ Cardinality(Owned(c)) \in Nat
  BY CountsFinite
<1>7. budget[c] - Cardinality(T) \in 0..(BudgetMod - 1)
  BY <1>0, <1>1, <1>3, <1>4, <1>6, ManagerAssumption
<1>8. budget'[c] = budget[c] - Cardinality(T)
  <2>1. Share(S)[c] \in Int /\ budget[c] + Share(S)[c] \in 0..(BudgetMod - 1)
    BY <1>0, <1>3, <1>5, <1>7
  <2>2. budget'[c] = budget[c] + Share(S)[c]
    BY <1>0, <2>1, ChargeExact
  <2> QED BY <1>0, <1>3, <1>5, <2>2
<1>9. Cardinality(Owned(c)') = Cardinality(Owned(c)) - Cardinality(T)
  BY <1>2, <1>4
<1>10. Cardinality(Allocating(c)') = Cardinality(Allocating(c))
  OBVIOUS
<1> QED BY <1>0, <1>1, <1>3, <1>6, <1>8, <1>9, <1>10, ManagerAssumption

(* Steps that leave budgets alone and count no more than before.           *)
LEMMA FrameCovers ==
  ASSUME IndInv, UNCHANGED budget,
         \A c \in Component : Owned(c)' = Owned(c) /\ Allocating(c)' \subseteq Allocating(c)
  PROVE  BudgetCoversSlots'
<1> USE DEF IndInv
<1> SUFFICES ASSUME NEW c \in Component, budget[c] # Unregistered
             PROVE  /\ Cardinality(Owned(c)') + Cardinality(Allocating(c)') <= budget[c]
                    /\ budget[c] <= BudgetMax
  BY DEF BudgetCoversSlots
<1>1. /\ Cardinality(Owned(c)) + Cardinality(Allocating(c)) <= budget[c]
      /\ budget[c] <= BudgetMax /\ budget[c] \in Nat
  BY DEF BudgetCoversSlots, TypeOK
<1>2. /\ Cardinality(Allocating(c)') \in Nat
      /\ Cardinality(Allocating(c)') <= Cardinality(Allocating(c))
  BY CountsFinite, FS_Subset, FS_CardinalityType
<1>3. Cardinality(Owned(c)) \in Nat /\ Cardinality(Allocating(c)) \in Nat
  BY CountsFinite
<1>4. Cardinality(Owned(c)') = Cardinality(Owned(c))
  OBVIOUS
<1> QED BY <1>1, <1>2, <1>3, <1>4

(* Steps that charge one more for o, who may be allocating one more.       *)
LEMMA ReserveCovers ==
  ASSUME IndInv, NEW o \in Owner, NEW t, CanReserve(o), Charge(One(o)),
         \A c \in Component : /\ Owned(c)' = Owned(c)
                              /\ Allocating(c)' \subseteq
                                   IF c = o THEN Allocating(c) \cup {t} ELSE Allocating(c)
  PROVE  BudgetCoversSlots'
<1> USE DEF IndInv
<1> SUFFICES ASSUME NEW c \in Component, budget'[c] # Unregistered
             PROVE  /\ Cardinality(Owned(c)') + Cardinality(Allocating(c)') <= budget'[c]
                    /\ budget'[c] <= BudgetMax
  BY DEF BudgetCoversSlots
<1>0. budget[c] # Unregistered /\ budget[c] \in Nat
  BY ChargeRegisters DEF TypeOK
<1>1. /\ Cardinality(Owned(c)) + Cardinality(Allocating(c)) <= budget[c]
      /\ budget[c] <= BudgetMax
  BY <1>0 DEF BudgetCoversSlots
<1>2. /\ Cardinality(Owned(c)) \in Nat /\ Cardinality(Allocating(c)) \in Nat
      /\ Cardinality(Owned(c)') = Cardinality(Owned(c))
  BY CountsFinite
<1>3. CASE c = o
  <2>1. One(o)[c] = 1
    BY <1>3 DEF One
  <2>2. budget[c] + 1 <= BudgetMax /\ budget[c] + 1 \in 0..(BudgetMod - 1)
    BY <1>0, <1>3, ReserveWithin
  <2>3. budget'[c] = budget[c] + 1
    BY <1>0, <2>1, <2>2, ChargeExact
  <2>4. /\ IsFiniteSet(Allocating(c) \cup {t})
        /\ Cardinality(Allocating(c) \cup {t}) \in Nat
        /\ Cardinality(Allocating(c) \cup {t}) <= Cardinality(Allocating(c)) + 1
    <3>1. IsFiniteSet(Allocating(c))
      BY CountsFinite
    <3>2. /\ IsFiniteSet(Allocating(c) \cup {t})
          /\ Cardinality(Allocating(c) \cup {t}) =
               IF t \in Allocating(c) THEN Cardinality(Allocating(c))
                                      ELSE Cardinality(Allocating(c)) + 1
      BY <3>1, FS_AddElement
    <3> HIDE DEF Allocating
    <3> QED BY <1>2, <3>2
  <2>5. Allocating(c)' \in SUBSET (Allocating(c) \cup {t})
    BY <1>3
  <2>6. /\ Cardinality(Allocating(c)') \in Nat
        /\ Cardinality(Allocating(c)') <= Cardinality(Allocating(c) \cup {t})
    BY <2>4, <2>5, FS_Subset, FS_CardinalityType
  <2> QED BY <1>0, <1>1, <1>2, <2>2, <2>3, <2>4, <2>6
<1>4. CASE c # o
  <2>1. One(o)[c] = 0
    BY <1>4 DEF One
  <2>2. budget[c] + One(o)[c] \in 0..(BudgetMod - 1)
    BY <1>0, <1>1, <2>1, ManagerAssumption
  <2>3. budget'[c] = budget[c]
    BY <1>0, <2>1, <2>2, ChargeExact
  <2>4. /\ Cardinality(Allocating(c)') \in Nat
        /\ Cardinality(Allocating(c)') <= Cardinality(Allocating(c))
    BY <1>4, CountsFinite, FS_Subset, FS_CardinalityType
  <2> QED BY <1>0, <1>1, <1>2, <2>3, <2>4
<1> QED BY <1>3, <1>4

(* Entering the table: one allocation fewer, one slot more.                *)
LEMMA InsertCovers ==
  ASSUME IndInv, NEW t \in Thread, AllocateInsert(t)
  PROVE  BudgetCoversSlots'
<1> USE DEF IndInv
<1>1. PICK s \in Slot \ live : Enter(t, s, generation[s] + 1)
  BY InsertFresh
<1> DEFINE o == call[t].owner
<1>2. /\ live' = live \cup {s} /\ s \notin live /\ entry'[s].owner = o
      /\ \A x \in live : entry'[x] = entry[x] /\ UNCHANGED budget
  BY <1>1, ManagerAssumption DEF Enter, TypeOK, Slot
<1>3. /\ pc[t] = "taken" /\ pc' = [pc EXCEPT ![t] = "idle"]
      /\ call' = [call EXCEPT ![t] = NoCall]
  BY <1>1 DEF AllocateInsert, Enter
<1> SUFFICES ASSUME NEW c \in Component, budget[c] # Unregistered
             PROVE  /\ Cardinality(Owned(c)') + Cardinality(Allocating(c)') <= budget[c]
                    /\ budget[c] <= BudgetMax
  BY <1>1 DEF BudgetCoversSlots, Enter
<1>4. /\ Cardinality(Owned(c)) + Cardinality(Allocating(c)) <= budget[c]
      /\ budget[c] <= BudgetMax /\ budget[c] \in Nat
  BY DEF BudgetCoversSlots, TypeOK
<1>5. /\ IsFiniteSet(Owned(c)) /\ IsFiniteSet(Allocating(c))
      /\ Cardinality(Owned(c)) \in Nat /\ Cardinality(Allocating(c)) \in Nat
  BY CountsFinite
<1>6. CASE c = o
  <2>1. Owned(c)' = Owned(c) \cup {s} /\ s \notin Owned(c)
    BY <1>2, <1>6 DEF Owned
  <2>2. Allocating(c)' = Allocating(c) \ {t} /\ t \in Allocating(c)
    BY <1>3, <1>6 DEF Allocating, TypeOK
  <2>3. Cardinality(Owned(c) \cup {s}) = Cardinality(Owned(c)) + 1
    BY <1>5, <2>1, FS_AddElement
  <2>4. Cardinality(Allocating(c) \ {t}) = Cardinality(Allocating(c)) - 1
    BY <1>5, <2>2, FS_RemoveElement
  <2>5. /\ Cardinality(Owned(c)') = Cardinality(Owned(c)) + 1
        /\ Cardinality(Allocating(c)') = Cardinality(Allocating(c)) - 1
    BY <2>1, <2>2, <2>3, <2>4
  <2> QED BY <1>4, <1>5, <2>5
<1>7. CASE c # o
  <2>1. Owned(c)' = Owned(c)
    BY <1>2, <1>7 DEF Owned
  <2>2. Allocating(c)' = Allocating(c)
    BY <1>3, <1>7 DEF Allocating, TypeOK
  <2>3. /\ Cardinality(Owned(c)') = Cardinality(Owned(c))
        /\ Cardinality(Allocating(c)') = Cardinality(Allocating(c))
    BY <2>1, <2>2
  <2> QED BY <1>4, <2>3
<1> QED BY <1>6, <1>7

(* A rolled back allocation gives back what it reserved.                   *)
LEMMA RollbackCovers ==
  ASSUME IndInv, NEW t \in Thread, AllocateRollback(t)
  PROVE  BudgetCoversSlots'
<1> USE DEF IndInv
<1> DEFINE o == call[t].owner
           d == [c \in Component |-> 0 - One(o)[c]]
<1>1. Charge(d) /\ UNCHANGED <<live, entry>>
  BY DEF AllocateRollback, table
<1>2. \A c \in Component : d[c] = IF c = o THEN -1 ELSE 0
  BY DEF One
<1>3. /\ pc[t] = "taken" /\ pc' = [pc EXCEPT ![t] = "idle"]
      /\ call' = [call EXCEPT ![t] = NoCall]
  BY DEF AllocateRollback
<1> HIDE DEF d
<1> SUFFICES ASSUME NEW c \in Component, budget'[c] # Unregistered
             PROVE  /\ Cardinality(Owned(c)') + Cardinality(Allocating(c)') <= budget'[c]
                    /\ budget'[c] <= BudgetMax
  BY DEF BudgetCoversSlots
<1>4. budget[c] # Unregistered /\ budget[c] \in Nat
  BY <1>1, ChargeRegisters DEF TypeOK
<1>5. /\ Cardinality(Owned(c)) + Cardinality(Allocating(c)) <= budget[c]
      /\ budget[c] <= BudgetMax
  BY <1>4 DEF BudgetCoversSlots
<1>6. /\ IsFiniteSet(Allocating(c))
      /\ Cardinality(Owned(c)) \in Nat /\ Cardinality(Allocating(c)) \in Nat
  BY CountsFinite
<1>7. Cardinality(Owned(c)') = Cardinality(Owned(c))
  BY <1>1 DEF Owned
<1>8. CASE c = o
  <2>1. Allocating(c)' = Allocating(c) \ {t} /\ t \in Allocating(c)
    BY <1>3, <1>8 DEF Allocating, TypeOK
  <2>2. /\ Cardinality(Allocating(c)') = Cardinality(Allocating(c)) - 1
        /\ Cardinality(Allocating(c)') \in Nat
    <3>1. Cardinality(Allocating(c) \ {t}) = Cardinality(Allocating(c)) - 1
      BY <1>6, <2>1, FS_RemoveElement
    <3>2. IsFiniteSet(Allocating(c) \ {t})
      BY <1>6, FS_RemoveElement
    <3>3. Cardinality(Allocating(c) \ {t}) \in Nat
      BY <3>2, FS_CardinalityType
    <3> QED BY <2>1, <3>1, <3>3
  <2>3. budget[c] + d[c] \in 0..(BudgetMod - 1) /\ d[c] \in Int /\ d[c] = -1
    BY <1>2, <1>4, <1>5, <1>6, <1>8, <2>2, ManagerAssumption
  <2>4. budget'[c] = budget[c] - 1
    BY <1>1, <1>4, <2>3, ChargeExact
  <2> QED BY <1>4, <1>5, <1>6, <1>7, <2>2, <2>4, ManagerAssumption
<1>9. CASE c # o
  <2>1. Cardinality(Allocating(c)') = Cardinality(Allocating(c))
    <3>1. Allocating(c)' = Allocating(c)
      BY <1>3, <1>9 DEF Allocating, TypeOK
    <3> QED BY <3>1
  <2>2. budget[c] + d[c] \in 0..(BudgetMod - 1) /\ d[c] \in Int /\ d[c] = 0
    BY <1>2, <1>4, <1>5, <1>9, ManagerAssumption
  <2>3. budget'[c] = budget[c]
    BY <1>1, <1>4, <2>2, ChargeExact
  <2> QED BY <1>5, <1>7, <2>1, <2>3
<1> QED BY <1>8, <1>9

(* A transfer moves the slot and its charge together.                      *)
LEMMA TransferCovers ==
  ASSUME IndInv, NEW h \in issued, NEW to \in Owner, TransferOwnership(h, to)
  PROVE  BudgetCoversSlots'
<1> USE DEF IndInv
<1> DEFINE s == h[1]
           o == entry[s].owner
           d == [c \in Component |-> One(to)[c] - One(o)[c]]
<1>1. s \in live /\ s \in Slot
  BY ResolvesRid DEF TransferOwnership
<1>2. Charge(d) /\ CanReserve(to) /\ UNCHANGED <<live, pc, call>>
  BY DEF TransferOwnership
<1>3. \A x \in live : entry'[x].owner = IF x = s THEN to ELSE entry[x].owner
  BY <1>1, ManagerAssumption DEF TransferOwnership, TypeOK, Slot, Entry
<1>4. \A c \in Component : d[c] = IF c = to /\ c # o THEN 1
                                  ELSE IF c # to /\ c = o THEN -1 ELSE 0
  BY DEF One
<1> HIDE DEF d, s
<1> SUFFICES ASSUME NEW c \in Component, budget'[c] # Unregistered
             PROVE  /\ Cardinality(Owned(c)') + Cardinality(Allocating(c)') <= budget'[c]
                    /\ budget'[c] <= BudgetMax
  BY DEF BudgetCoversSlots
<1>5. budget[c] # Unregistered /\ budget[c] \in Nat
  BY <1>2, ChargeRegisters DEF TypeOK
<1>6. /\ Cardinality(Owned(c)) + Cardinality(Allocating(c)) <= budget[c]
      /\ budget[c] <= BudgetMax
  BY <1>5 DEF BudgetCoversSlots
<1>7. /\ IsFiniteSet(Owned(c)) /\ Cardinality(Owned(c)) \in Nat
      /\ Cardinality(Allocating(c)) \in Nat
      /\ Cardinality(Allocating(c)') = Cardinality(Allocating(c))
  <2>1. Allocating(c)' = Allocating(c)
    BY <1>2 DEF Allocating
  <2> QED BY <2>1, CountsFinite
<1>8. CASE c = to /\ c # o
  <2>1. Owned(c)' = Owned(c) \cup {s} /\ s \notin Owned(c)
    BY <1>1, <1>2, <1>3, <1>8 DEF Owned
  <2>2. Cardinality(Owned(c)') = Cardinality(Owned(c)) + 1
    <3>1. Cardinality(Owned(c) \cup {s}) = Cardinality(Owned(c)) + 1
      BY <1>7, <2>1, FS_AddElement
    <3> QED BY <2>1, <3>1
  <2>3. budget[c] + 1 <= BudgetMax /\ budget[c] + 1 \in 0..(BudgetMod - 1)
    BY <1>2, <1>5, <1>8, ReserveWithin
  <2>4. d[c] = 1 /\ budget[c] + d[c] \in 0..(BudgetMod - 1)
    BY <1>4, <1>8, <2>3
  <2>5. budget'[c] = budget[c] + 1
    BY <1>2, <1>5, <2>4, ChargeExact
  <2> QED BY <1>5, <1>6, <1>7, <2>2, <2>3, <2>5
<1>9. CASE c # to /\ c = o
  <2>1. Owned(c)' = Owned(c) \ {s} /\ s \in Owned(c)
    BY <1>1, <1>2, <1>3, <1>9 DEF Owned
  <2>2. /\ Cardinality(Owned(c)') = Cardinality(Owned(c)) - 1
        /\ Cardinality(Owned(c)') \in Nat
    <3>1. Cardinality(Owned(c) \ {s}) = Cardinality(Owned(c)) - 1
      BY <1>7, <2>1, FS_RemoveElement
    <3>2. IsFiniteSet(Owned(c) \ {s})
      BY <1>7, FS_RemoveElement
    <3>3. Cardinality(Owned(c) \ {s}) \in Nat
      BY <3>2, FS_CardinalityType
    <3> QED BY <2>1, <3>1, <3>3
  <2>3. d[c] = -1 /\ budget[c] + d[c] \in 0..(BudgetMod - 1)
    BY <1>4, <1>5, <1>6, <1>7, <1>9, <2>2, ManagerAssumption
  <2>4. budget'[c] = budget[c] - 1
    BY <1>2, <1>5, <2>3, ChargeExact
  <2> QED BY <1>5, <1>6, <1>7, <2>2, <2>4, ManagerAssumption
<1>10. CASE c = to <=> c = o
  <2>1. Owned(c)' = Owned(c)
    BY <1>1, <1>2, <1>3, <1>10 DEF Owned
  <2>2. Cardinality(Owned(c)') = Cardinality(Owned(c))
    BY <2>1
  <2>3. d[c] = 0 /\ budget[c] + d[c] \in 0..(BudgetMod - 1)
    BY <1>4, <1>5, <1>6, <1>10, ManagerAssumption
  <2>4. budget'[c] = budget[c]
    BY <1>2, <1>5, <2>3, ChargeExact
  <2> QED BY <1>6, <1>7, <2>2, <2>4
<1> QED BY <1>8, <1>9, <1>10

(* Registration and forced reclaim of a component without allocations.     *)
LEMMA RegisterCovers ==
  ASSUME IndInv, NEW c \in Component, IsNew(c), Quiet(c), RegisterComponent(c)
  PROVE  BudgetCoversSlots'
<1> USE DEF IndInv
<1>1. /\ UNCHANGED <<live, entry, pc, call>> /\ budget'[c] = 0
      /\ \A d \in Component : d # c => budget'[d] = budget[d]
  BY DEF RegisterComponent, table, TypeOK
<1>2. \A d \in Component : Owned(d)' = Owned(d) /\ Allocating(d)' = Allocating(d)
  BY <1>1 DEF Owned, Allocating
<1>3. Owned(c) = {} /\ Allocating(c) = {}
  <2>1. {Rid(s) : s \in Owned(c)} = {}
    BY DEF IsNew, IndicesExact, Owned
  <2> QED BY <2>1 DEF Quiet
<1>4. Cardinality(Owned(c)') = 0 /\ Cardinality(Allocating(c)') = 0
  BY <1>2, <1>3, FS_EmptySet
<1>5. 0 + 0 <= 0 /\ 0 <= BudgetMax
  BY ManagerAssumption
<1>6. Cardinality(Owned(c)') + Cardinality(Allocating(c)') <= budget'[c]
      /\ budget'[c] <= BudgetMax
  BY <1>1, <1>4, <1>5
<1>7. ASSUME NEW d \in Component, d # c, budget'[d] # Unregistered
      PROVE  /\ Cardinality(Owned(d)') + Cardinality(Allocating(d)') <= budget'[d]
             /\ budget'[d] <= BudgetMax
  <2>1. Owned(d)' = Owned(d) /\ Allocating(d)' = Allocating(d) /\ budget'[d] = budget[d]
    BY <1>1, <1>2, <1>7
  <2>2. /\ Cardinality(Owned(d)) + Cardinality(Allocating(d)) <= budget[d]
        /\ budget[d] <= BudgetMax
    BY <1>7, <2>1 DEF BudgetCoversSlots
  <2> QED BY <2>1, <2>2
<1> QED BY <1>6, <1>7 DEF BudgetCoversSlots

(* force_reclaim drops the component's budget with its slots.              *)
LEMMA ForceCovers ==
  ASSUME IndInv, NEW c \in Component, ForceReclaim(c)
  PROVE  BudgetCoversSlots'
<1> USE DEF IndInv
<1>1. Leave(Owned(c)) /\ UNCHANGED <<pc, call>>
  BY IndexedExact DEF ForceReclaim
<1>2. budget'[c] = Unregistered /\ \A d \in Component : d # c => budget'[d] = budget[d]
  BY DEF ForceReclaim, TypeOK
<1>3. ASSUME NEW d \in Component, budget'[d] # Unregistered
      PROVE  /\ Cardinality(Owned(d)') + Cardinality(Allocating(d)') <= budget'[d]
             /\ budget'[d] <= BudgetMax
  <2>1. d # c /\ budget'[d] = budget[d]
    BY <1>2, <1>3
  <2>2. Owned(d)' = Owned(d)
    <3>1. live' = live \ Owned(c) /\ \A s \in live' : entry'[s] = entry[s]
      BY <1>1, ManagerAssumption DEF Leave, TypeOK, Slot
    <3> QED BY <2>1, <3>1 DEF Owned
  <2>3. Allocating(d)' = Allocating(d)
    BY <1>1 DEF Allocating
  <2>4. /\ Cardinality(Owned(d)) + Cardinality(Allocating(d)) <= budget[d]
        /\ budget[d] <= BudgetMax
    BY <1>3, <2>1 DEF BudgetCoversSlots
  <2> QED BY <2>1, <2>2, <2>3, <2>4
<1> QED BY <1>3 DEF BudgetCoversSlots

(* Every action of Next leaves the budgets covered.                        *)
LEMMA BudgetStep == IndInv /\ Next => BudgetCoversSlots'
<1> SUFFICES ASSUME IndInv, Next PROVE BudgetCoversSlots'
  OBVIOUS
<1> USE DEF IndInv
<1>1. ASSUME NEW c \in Component, IsNew(c), Quiet(c), RegisterComponent(c)
      PROVE  BudgetCoversSlots'
  BY <1>1, RegisterCovers
<1>2. ASSUME NEW c \in Component, ForceReclaim(c) PROVE BudgetCoversSlots'
  BY <1>2, ForceCovers
<1>3. ASSUME NEW f \in Flow, ReclaimFlowBuffers(f) PROVE BudgetCoversSlots'
  <2>1. \A c \in Component : Allocating(c)' = Allocating(c)
    BY <1>3 DEF ReclaimFlowBuffers, Allocating
  <2>2. Indexed(flowResources[f]) \in SUBSET live
    BY IndexedLive
  <2> QED BY <1>3, <2>1, <2>2, LeaveCovers DEF ReclaimFlowBuffers
<1>4. ASSUME NEW t \in Thread, NEW o \in Owner, NEW f \in Flow, AllocateReserve(t, o, f)
      PROVE  BudgetCoversSlots'
  <2>1. CanReserve(o) /\ Charge(One(o))
    BY <1>4 DEF AllocateReserve
  <2>2. ASSUME NEW c \in Component
        PROVE  /\ Owned(c)' = Owned(c)
               /\ Allocating(c)' \subseteq IF c = o THEN Allocating(c) \cup {t}
                                          ELSE Allocating(c)
    BY <1>4 DEF AllocateReserve, Owned, Allocating, table, TypeOK
  <2> QED BY <2>1, <2>2, ReserveCovers
<1>5. ASSUME NEW t \in Thread, AllocateTake(t) \/ AllocateFails(t) \/ ReleaseReturn(t)
      PROVE  BudgetCoversSlots'
  <2>1. UNCHANGED budget /\ \A c \in Component : Owned(c)' = Owned(c)
    BY <1>5 DEF AllocateTake, AllocateFails, ReleaseReturn, Owned, table
  <2>2. \A u \in Thread : /\ call'[u].owner = call[u].owner \/ pc'[u] = "idle"
                          /\ pc'[u] \in {"reserved", "taken"} => pc[u] \in {"reserved", "taken"}
    BY <1>5 DEF AllocateTake, AllocateFails, ReleaseReturn, TypeOK, Call
  <2>3. \A c \in Component : Allocating(c)' \subseteq Allocating(c)
    BY <2>2 DEF Allocating
  <2> QED BY <2>1, <2>3, FrameCovers
<1>6. ASSUME NEW t \in Thread, AllocateInsert(t) \/ AllocateRollback(t)
      PROVE  BudgetCoversSlots'
  BY <1>6, InsertCovers, RollbackCovers
<1>7. ASSUME NEW h \in issued, NEW t \in Thread, Release(t, h) PROVE BudgetCoversSlots'
  <2>1. {h[1]} \in SUBSET live
    BY <1>7, ResolvesRid DEF Release
  <2>2. \A c \in Component : Allocating(c)' = Allocating(c)
    BY <1>7 DEF Release, Allocating, TypeOK
  <2> QED BY <1>7, <2>1, <2>2, LeaveCovers DEF Release
<1>8. ASSUME NEW h \in issued, NEW to \in Owner, TransferOwnership(h, to)
      PROVE  BudgetCoversSlots'
  BY <1>8, TransferCovers
<1>9. ASSUME NEW h \in issued, NEW from \in Owner, NEW to \in Owner,
             TransferRefused(h, from, to)
      PROVE  BudgetCoversSlots'
  <2>1. CanReserve(to) /\ Charge(One(to))
    BY <1>9 DEF TransferRefused
  <2>2. \A c \in Component : Owned(c)' = Owned(c) /\ Allocating(c)' = Allocating(c)
    BY <1>9 DEF TransferRefused, Owned, Allocating, table
  <2> QED BY <2>1, <2>2, ReserveCovers
<1>10. ASSUME NEW h \in issued, BorrowStart(h) \/ BorrowEnd(h) PROVE BudgetCoversSlots'
  <2>1. UNCHANGED <<live, budget, pc, call>>
    BY <1>10 DEF BorrowStart, BorrowEnd
  <2>2. \A c \in Component : Owned(c)' = Owned(c) /\ Allocating(c)' = Allocating(c)
    BY <1>10, <2>1, BorrowFrame DEF Owned, Allocating
  <2> QED BY <2>1, <2>2, FrameCovers
<1>11. ASSUME NEW h \in issued, WritePayload(h) PROVE BudgetCoversSlots'
  BY <1>11, FrameCovers DEF WritePayload, table, Owned, Allocating
<1> QED BY NextCases, <1>1, <1>2, <1>3, <1>4, <1>5, <1>6, <1>7, <1>8, <1>9, <1>10, <1>11

-----------------------------------------------------------------------------
(* The theorems.                                                           *)

(* Every step, stuttering included, keeps the invariant.                   *)
LEMMA InvStep == IndInv /\ [Next]_vars => IndInv'
<1> SUFFICES ASSUME IndInv, [Next]_vars PROVE IndInv'
  OBVIOUS
<1>1. CASE Next
  BY <1>1, TypeStep, IndicesStep, ConservedStep, CleanStep, HandlesStep, BudgetStep
     DEF IndInv
<1>2. CASE UNCHANGED vars
  <2>1. /\ \A s : Rid(s)' = Rid(s) /\ InHand' = InHand
        /\ \A c : Owned(c)' = Owned(c) /\ Allocating(c)' = Allocating(c)
    BY <1>2 DEF vars, Rid, InHand, Owned, Allocating
  <2>2. TypeOK' /\ HandlesKnown' /\ TakenClean' /\ NoResidue'
    BY <1>2, <2>1 DEF vars, IndInv, TypeOK, HandlesKnown, TakenClean, NoResidue
  <2>3. IndicesExact' /\ BuffersConserved'
    BY <1>2, <2>1 DEF vars, IndInv, IndicesExact, BuffersConserved
  <2>4. BudgetCoversSlots'
    BY <1>2, <2>1 DEF vars, IndInv, BudgetCoversSlots
  <2> QED BY <2>2, <2>3, <2>4 DEF IndInv
<1> QED BY <1>1, <1>2

(* The inductive invariant: types, indices, budgets, conservation, clean   *)
(* buffers and unique handles hold together in every reachable state.      *)
THEOREM ManagerInvariant == Spec => []IndInv
  BY InitInv, InvStep, PTL DEF Spec

(* Whatever threads call the manager, and however their calls interleave,  *)
(* the table, the indices and the counters stay within their types; in     *)
(* particular borrow_end takes no borrow count below zero.                 *)
THEOREM ManagerTypeCorrect == Spec => []TypeOK
<1>1. IndInv => TypeOK
  BY DEF IndInv
<1> QED BY <1>1, ManagerInvariant, PTL

(* The indices by component and by flow agree with the table after every   *)
(* allocate, release, transfer_ownership and reclaim: force_reclaim and    *)
(* reclaim_flow_buffers, which walk them, miss nothing.                    *)
THEOREM ManagerIndicesExact == Spec => []IndicesExact
<1>1. IndInv => IndicesExact
  BY DEF IndInv
<1> QED BY <1>1, ManagerInvariant, PTL

(* No interleaving of allocations, releases and reclaims loses a buffer or *)
(* gives one to two holders.                                               *)
THEOREM ManagerConserves == Spec => []BuffersConserved
<1>1. IndInv => BuffersConserved
  BY DEF IndInv
<1> QED BY <1>1, ManagerInvariant, PTL

(* A buffer handed to a new owner holds none of the previous one's bytes.  *)
THEOREM ManagerNoResidue == Spec => []NoResidue
<1>1. IndInv => NoResidue
  BY DEF IndInv
<1> QED BY <1>1, ManagerInvariant, PTL

(* A component's index has as many handles as it owns slots.               *)
LEMMA IndexCount ==
  ASSUME TypeOK, IndicesExact, NEW c \in Component
  PROVE  Cardinality(componentResources[c]) = Cardinality(Owned(c))
<1> DEFINE f == [s \in Owned(c) |-> Rid(s)]
<1>1. componentResources[c] = {Rid(s) : s \in Owned(c)}
  BY DEF IndicesExact, Owned
<1>2. f \in Bijection(Owned(c), componentResources[c])
  <2>1. f \in Injection(Owned(c), componentResources[c])
    <3>1. f \in [Owned(c) -> componentResources[c]]
      BY <1>1
    <3>2. \A s, r \in Owned(c) : f[s] = f[r] => s = r
      BY RidInjective
    <3> QED BY <3>1, <3>2 DEF Injection, IsInjective
  <2>2. f \in Surjection(Owned(c), componentResources[c])
    <3>1. f \in [Owned(c) -> componentResources[c]]
      BY <1>1
    <3>2. \A h \in componentResources[c] : \E s \in Owned(c) : f[s] = h
      BY <1>1
    <3> QED BY <3>1, <3>2 DEF Surjection
  <2> QED BY <2>1, <2>2 DEF Bijection
<1>3. ExistsBijection(Owned(c), componentResources[c])
  BY <1>2 DEF ExistsBijection
<1> QED BY <1>3, CountsFinite, FS_Bijection

(* The bytes counted against a component cover what it holds and what it   *)
(* is allocating, and stay within its limit, so that no release wraps the  *)
(* counter: allocations that fail and transfers that are refused may leave *)
(* it too high, never too low.                                             *)
THEOREM ManagerBudgetCovers == Spec => []BudgetCovers
<1>1. IndInv => BudgetCovers
  BY IndexCount DEF IndInv, BudgetCoversSlots, BudgetCovers
<1> QED BY <1>1, ManagerInvariant, PTL

-----------------------------------------------------------------------------
(* The refinement.                                                         *)

(* Steps that issue, pass and end no handle.                               *)
LEMMA HolderFrame ==
  ASSUME TypeOK, UNCHANGED <<live, generation, issued>>,
         \A s \in live : entry'[s].owner = entry[s].owner
  PROVE  \A h \in Handle : HolderOf(h)' = HolderOf(h)
<1> SUFFICES ASSUME NEW h \in Handle PROVE HolderOf(h)' = HolderOf(h)
  OBVIOUS
<1>1. Resolves(h)' <=> Resolves(h)
  BY DEF Resolves
<1>2. CASE Resolves(h)
  BY <1>1, <1>2 DEF HolderOf, Resolves
<1>3. CASE ~Resolves(h)
  BY <1>1, <1>3 DEF HolderOf
<1> QED BY <1>2, <1>3

(* Slots that leave the table end their handles.                           *)
LEMMA HolderEnd ==
  ASSUME IndInv, NEW S \in SUBSET live, Leave(S), UNCHANGED issued
  PROVE  \E hs \in SUBSET Handle : Linear!End(hs)
<1> USE DEF IndInv
<1> DEFINE hs == {Rid(s) : s \in S}
<1>1. live \subseteq Slot /\ \A s \in live : Rid(s) \in Handle
  BY ManagerAssumption DEF TypeOK, Slot, Rid, Handle
<1>2. live' = live \ S /\ generation' = generation /\ \A s \in live' : entry'[s] = entry[s]
  BY <1>1 DEF Leave
<1>3. hs \in SUBSET Handle
  BY <1>1
<1>5. ASSUME NEW h \in Handle, h \notin hs PROVE HolderOf(h)' = HolderOf(h)
  <2>1. h = <<h[1], h[2]>>
    BY DEF Handle
  <2>2. Resolves(h) => h[1] \in live'
    BY <1>2, <1>5, <2>1 DEF Resolves, Rid
  <2>3. Resolves(h)' <=> Resolves(h)
    BY <1>2, <2>2 DEF Resolves
  <2>4. CASE Resolves(h)
    BY <1>2, <2>2, <2>3, <2>4 DEF HolderOf
  <2>5. CASE ~Resolves(h)
    BY <2>3, <2>5 DEF HolderOf
  <2> QED BY <2>4, <2>5
<1>6. \A h \in hs : h \in Handle /\ HolderOf(h) \in Owner /\ HolderOf(h)' = "dead"
  <2> SUFFICES ASSUME NEW s \in S, NEW h, h = Rid(s)
               PROVE  h \in Handle /\ HolderOf(h) \in Owner /\ HolderOf(h)' = "dead"
    OBVIOUS
  <2>1. h[1] = s /\ h[2] = generation[s] /\ h \in Handle /\ h \in issued
    BY <1>1 DEF Rid, HandlesKnown
  <2>2. Resolves(h) /\ entry[s].owner \in Owner
    BY <1>1, <2>1 DEF Resolves, TypeOK, Entry
  <2>3. h[1] \notin live' /\ h \in issued'
    BY <1>2, <2>1
  <2> QED BY <2>1, <2>2, <2>3 DEF HolderOf, Resolves
<1> HIDE DEF hs
<1>7. [h \in Handle |-> HolderOf(h)']
        = [h \in Handle |-> IF h \in hs THEN "dead" ELSE [k \in Handle |-> HolderOf(k)][h]]
  BY <1>5, <1>6
<1>8. Linear!End(hs)
  BY <1>6, <1>7 DEF Linear!End
<1> QED BY <1>3, <1>8

(* An insertion issues its handle.                                         *)
LEMMA HolderIssue ==
  ASSUME IndInv, NEW t \in Thread, AllocateInsert(t)
  PROVE  \E h \in Handle, o \in Owner : Linear!Issue(h, o)
<1> USE DEF IndInv
<1>1. PICK s \in Slot \ live : /\ generation[s] + 1 \in Generation
                               /\ <<s, generation[s] + 1>> \notin issued
                               /\ Enter(t, s, generation[s] + 1)
  BY InsertFresh
<1>2. PICK n \in Handle : n = <<s, generation[s] + 1>>
  BY <1>1 DEF Handle
<1>3. PICK o \in Owner : o = call[t].owner
  BY DEF TypeOK, Call
<1>4. n[1] = s /\ n[2] = generation[s] + 1 /\ n \notin issued
  BY <1>1, <1>2
<1>5. /\ live' = live \cup {s} /\ s \notin live /\ issued' = issued \cup {n}
      /\ entry'[s].owner = o /\ generation'[s] = n[2] /\ live \subseteq Slot
      /\ \A x \in live : entry'[x] = entry[x] /\ generation'[x] = generation[x]
  BY <1>1, <1>2, <1>3, <1>4, ManagerAssumption DEF Enter, TypeOK, Slot
<1>6. HolderOf(n) = "unissued" /\ HolderOf(n)' = o
  <2>1. ~Resolves(n) /\ Resolves(n)'
    BY <1>4, <1>5 DEF Resolves
  <2> QED BY <2>1, <1>4, <1>5 DEF HolderOf
<1>7. ASSUME NEW h \in Handle, h # n PROVE HolderOf(h)' = HolderOf(h)
  <2>1. h = <<h[1], h[2]>> /\ n = <<n[1], n[2]>>
    BY <1>2 DEF Handle
  <2>2. h[1] = s => h[2] # n[2]
    BY <1>4, <1>7, <2>1
  <2>3. (h \in issued') <=> (h \in issued)
    BY <1>5, <1>7
  <2>4. CASE h[1] = s
    BY <1>5, <2>2, <2>3, <2>4 DEF HolderOf, Resolves
  <2>5. CASE h[1] # s
    <3>1. Resolves(h)' <=> Resolves(h)
      BY <1>5, <2>5 DEF Resolves
    <3>2. CASE Resolves(h)
      BY <1>5, <3>1, <3>2 DEF HolderOf, Resolves
    <3>3. CASE ~Resolves(h)
      BY <2>3, <3>1, <3>3 DEF HolderOf
    <3> QED BY <3>2, <3>3
  <2> QED BY <2>4, <2>5
<1>8. [h \in Handle |-> HolderOf(h)']
        = [[h \in Handle |-> HolderOf(h)] EXCEPT ![n] = o]
  BY <1>6, <1>7
<1>9. Linear!Issue(n, o)
  BY <1>6, <1>8 DEF Linear!Issue
<1> QED BY <1>9

(* A transfer passes its handle on.                                        *)
LEMMA HolderPass ==
  ASSUME IndInv, NEW h \in issued, NEW to \in Owner, TransferOwnership(h, to)
  PROVE  Linear!Pass(h, to) /\ h \in Handle
<1> USE DEF IndInv
<1>1. Resolves(h) /\ h[1] \in live /\ h[1] \in Slot /\ h = Rid(h[1]) /\ h \in Handle
  BY ResolvesRid DEF TransferOwnership, TypeOK
<1>2. /\ UNCHANGED <<live, generation, issued>>
      /\ \A x \in live : entry'[x].owner = IF x = h[1] THEN to ELSE entry[x].owner
  BY <1>1, ManagerAssumption DEF TransferOwnership, TypeOK, Slot, Entry
<1>3. HolderOf(h) \in Owner /\ HolderOf(h)' = to
  <2>1. Resolves(h)' /\ entry[h[1]].owner \in Owner
    BY <1>1, <1>2 DEF Resolves, TypeOK, Entry
  <2> QED BY <1>1, <1>2, <2>1 DEF HolderOf
<1>4. ASSUME NEW k \in Handle, k # h PROVE HolderOf(k)' = HolderOf(k)
  <2>1. k = <<k[1], k[2]>> /\ h = <<h[1], generation[h[1]]>>
    BY <1>1 DEF Handle, Rid
  <2>2. Resolves(k)' <=> Resolves(k)
    BY <1>2 DEF Resolves
  <2>3. CASE Resolves(k)
    <3>1. k[1] # h[1] /\ k[1] \in live
      BY <1>4, <2>1, <2>3 DEF Resolves
    <3> QED BY <1>2, <2>2, <2>3, <3>1 DEF HolderOf
  <2>4. CASE ~Resolves(k)
    BY <1>2, <2>2, <2>4 DEF HolderOf
  <2> QED BY <2>3, <2>4
<1>5. [k \in Handle |-> HolderOf(k)']
        = [[k \in Handle |-> HolderOf(k)] EXCEPT ![h] = to]
  BY <1>1, <1>3, <1>4
<1> QED BY <1>1, <1>3, <1>5 DEF Linear!Pass

(* Every step of the manager is a step of LinearOwnership or a stutter.    *)
LEMMA ManagerSimulates ==
  ASSUME IndInv, Next
  PROVE  Linear!Next \/ \A h \in Handle : HolderOf(h)' = HolderOf(h)
<1> USE DEF IndInv
<1>1. ASSUME NEW c \in Component, ForceReclaim(c) PROVE Linear!Next
  <2>1. Leave(Indexed(componentResources[c])) /\ UNCHANGED issued
    BY <1>1 DEF ForceReclaim
  <2> QED BY <2>1, HolderEnd, IndexedLive DEF Linear!Next
<1>2. ASSUME NEW f \in Flow, ReclaimFlowBuffers(f) PROVE Linear!Next
  <2>1. Leave(Indexed(flowResources[f])) /\ UNCHANGED issued
    BY <1>2 DEF ReclaimFlowBuffers
  <2> QED BY <2>1, HolderEnd, IndexedLive DEF Linear!Next
<1>3. ASSUME NEW h \in issued, NEW t \in Thread, Release(t, h) PROVE Linear!Next
  <2>1. {h[1]} \in SUBSET live /\ Leave({h[1]}) /\ UNCHANGED issued
    BY <1>3, ResolvesRid DEF Release
  <2> QED BY <2>1, HolderEnd DEF Linear!Next
<1>4. ASSUME NEW t \in Thread, AllocateInsert(t) PROVE Linear!Next
  BY <1>4, HolderIssue DEF Linear!Next
<1>5. ASSUME NEW h \in issued, NEW to \in Owner, TransferOwnership(h, to)
      PROVE  Linear!Next
  BY <1>5, HolderPass DEF Linear!Next
<1>6. ASSUME NEW h \in issued, BorrowStart(h) \/ BorrowEnd(h)
      PROVE  \A k \in Handle : HolderOf(k)' = HolderOf(k)
  <2>1. UNCHANGED <<live, generation, issued>>
    BY <1>6 DEF BorrowStart, BorrowEnd
  <2> QED BY <1>6, <2>1, BorrowFrame, HolderFrame
<1>7. ASSUME UNCHANGED <<table, issued>>
      PROVE  \A k \in Handle : HolderOf(k)' = HolderOf(k)
  BY <1>7, HolderFrame DEF table
<1>8. ASSUME NEW c \in Component, RegisterComponent(c) PROVE UNCHANGED <<table, issued>>
  BY <1>8 DEF RegisterComponent
<1>9. ASSUME NEW t \in Thread,
             \/ \E o \in Owner, f \in Flow : AllocateReserve(t, o, f)
             \/ AllocateTake(t) \/ AllocateFails(t)
             \/ AllocateRollback(t) \/ ReleaseReturn(t)
      PROVE  UNCHANGED <<table, issued>>
  BY <1>9 DEF AllocateReserve, AllocateTake, AllocateFails, AllocateRollback, ReleaseReturn
<1>10. ASSUME NEW h \in issued,
              \/ \E from, to \in Owner : TransferRefused(h, from, to)
              \/ WritePayload(h)
       PROVE  UNCHANGED <<table, issued>>
  BY <1>10 DEF TransferRefused, WritePayload
<1> QED BY NextCases, <1>1, <1>2, <1>3, <1>4, <1>5, <1>6, <1>7, <1>8, <1>9, <1>10

(* The manager implements LinearOwnership: a handle is issued once, has    *)
(* one owner at a time until its buffer leaves the table, and reaches      *)
(* nothing ever after, although slots are reused.                          *)
THEOREM ManagerImplements == Spec => ImplementsLinearOwnership
<1>1. Init => Linear!Init
  <2> SUFFICES ASSUME Init PROVE Linear!Init
    OBVIOUS
  <2>1. \A h \in Handle : HolderOf(h) = "unissued"
    BY DEF Init, HolderOf, Resolves
  <2> QED BY <2>1 DEF Linear!Init
<1>2. IndInv /\ [Next]_vars => [Linear!Next]_[h \in Handle |-> HolderOf(h)]
  <2> SUFFICES ASSUME IndInv, [Next]_vars
               PROVE  Linear!Next \/ [h \in Handle |-> HolderOf(h)]' = [h \in Handle |-> HolderOf(h)]
    OBVIOUS
  <2>1. CASE Next
    BY <2>1, ManagerSimulates
  <2>2. CASE UNCHANGED vars
    BY <2>2 DEF vars, HolderOf, Resolves
  <2> QED BY <2>1, <2>2
<1> QED BY ManagerInvariant, <1>1, <1>2, PTL
        DEF Spec, ImplementsLinearOwnership, Linear!Spec
=============================================================================
