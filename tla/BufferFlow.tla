----------------------------- MODULE BufferFlow -----------------------------
(***************************************************************************)
(* The life of a buffer across a flow: the component invoker and the host  *)
(* side of the buffer interface (torvyn-engine), the pipeline's component  *)
(* instantiation and the coordinator's reclaim (torvyn-reactor), composed  *)
(* with the resource manager.                                              *)
(*                                                                         *)
(* Every flow is a linear pipeline, driven by one task that calls one      *)
(* component at a time.  A component holds buffers through wrappers in its *)
(* store's table: mutable ones it has allocated, frozen ones it may emit,  *)
(* and for the time of a call the input it was lent.  Between stages a     *)
(* buffer belongs to the host.  When the driver is done its stores go, and *)
(* what the components still held is left to the coordinator's reap.       *)
(*                                                                         *)
(* Guest code is arbitrary: it allocates, freezes, drops, emits, fails and *)
(* stalls as it likes.  A mutable wrapper that has been frozen names       *)
(* nothing any more and is left out of the tables.  Reads and writes leave *)
(* custody alone.                                                          *)
(***************************************************************************)
EXTENDS ResourceManager, Sequences

CONSTANTS
  Unassigned,    \* FlowId 0, before the reactor has assigned one
  NumStages,     \* stages of each flow
  IdOf,          \* component id of each stage of each flow
  QueueCap,      \* elements a stream holds
  MaxAllocations,\* bound: buffers allocated in all
  NoHandle

ASSUME FlowAssumption ==
  /\ Thread \subseteq Flow \ {Unassigned} /\ Unassigned \in Flow
  /\ \A f \in Thread : /\ NumStages[f] \in Nat \ {0, 1}
                       /\ IdOf[f] \in [1..NumStages[f] -> Component]
  /\ QueueCap \in Nat \ {0}
  /\ NoHandle \notin Handle

VARIABLES
  phase,    \* of each flow
  cursor,   \* components instantiated so far, or reclaimed so far
  at,       \* the stage the task is calling, or 0
  input,    \* the buffer lent to that call, until it is reclaimed
  step,     \* whether that call is in the guest or its input is reclaimed
  tables,   \* wrappers in the store of each stage
  queue     \* the buffers queued behind each stage

flowVars == <<phase, cursor, at, step, input, tables, queue>>
allVars  == <<vars, flowVars>>

StagesOf(f) == 1..NumStages[f]

(* The owner a wrapper of stage k names.                                   *)
OwnerOf(f, k, w) == IF w.kind = "input" THEN Host ELSE IdOf[f][k]

(* The task is inside the guest, and not in a call to the manager; a call  *)
(* can return that has no input, or whose input is reclaimed.              *)
InGuest(f)  == at[f] # 0 /\ step[f] = "guest" /\ pc[f] = "idle"
Returned(f) == at[f] # 0 /\ input[f] = NoHandle /\ pc[f] = "idle"
AtRest(f)   == at[f] = 0 /\ pc[f] = "idle"

Put(f, k, w)  == tables' = [tables EXCEPT ![f][k] = @ \cup {w}]
Drop(f, k, w) == tables' = [tables EXCEPT ![f][k] = @ \ {w}]

FlowInit ==
  /\ Init
  /\ phase = [f \in Thread |-> "absent"]
  /\ cursor = [f \in Thread |-> 0]
  /\ at = [f \in Thread |-> 0]
  /\ step = [f \in Thread |-> "guest"]
  /\ input = [f \in Thread |-> NoHandle]
  /\ tables = [f \in Thread |-> [k \in StagesOf(f) |-> {}]]
  /\ queue = [f \in Thread |-> [k \in StagesOf(f) |-> <<>>]]

-----------------------------------------------------------------------------
(* Start: instantiate_one_node registers the component and calls init, in  *)
(* pipeline order; buffers allocated by init carry no flow yet.            *)
InstantiateNode(f) ==
  /\ phase[f] \in {"absent", "starting"} /\ AtRest(f)
  /\ cursor[f] < NumStages[f]
  /\ RegisterComponent(IdOf[f][cursor[f] + 1])
  /\ phase' = [phase EXCEPT ![f] = "starting"]
  /\ cursor' = [cursor EXCEPT ![f] = @ + 1]
  /\ at' = [at EXCEPT ![f] = cursor[f] + 1]
  /\ step' = [step EXCEPT ![f] = "guest"]
  /\ UNCHANGED <<input, tables, queue>>

(* init fails: the instances so far are torn down and dropped.             *)
InitFails(f) ==
  /\ phase[f] = "starting" /\ Returned(f)
  /\ phase' = [phase EXCEPT ![f] = "failed"]
  /\ at' = [at EXCEPT ![f] = 0]
  /\ tables' = [tables EXCEPT ![f] = [k \in StagesOf(f) |-> {}]]
  /\ UNCHANGED <<vars, cursor, step, input, queue>>

SpawnFlow(f) ==
  /\ phase[f] = "starting" /\ AtRest(f)
  /\ cursor[f] = NumStages[f]
  /\ phase' = [phase EXCEPT ![f] = "running"]
  /\ UNCHANGED <<vars, cursor, at, step, input, tables, queue>>

-----------------------------------------------------------------------------
(* The driver calls a stage whose output stream has room: pull ...         *)
InvokePull(f) ==
  /\ phase[f] = "running" /\ AtRest(f)
  /\ Len(queue[f][1]) < QueueCap
  /\ at' = [at EXCEPT ![f] = 1]
  /\ step' = [step EXCEPT ![f] = "guest"]
  /\ UNCHANGED <<vars, phase, cursor, input, tables, queue>>

(* ... or process and push, which lend the element's buffer to the guest.  *)
InvokeWithInput(f, k) ==
  /\ phase[f] = "running" /\ AtRest(f)
  /\ k > 1 /\ queue[f][k - 1] # <<>>
  /\ k < NumStages[f] => Len(queue[f][k]) < QueueCap
  /\ LET h == Head(queue[f][k - 1]) IN
       /\ Put(f, k, [handle |-> h, kind |-> "input"])
       /\ input' = [input EXCEPT ![f] = h]
  /\ queue' = [queue EXCEPT ![f][k - 1] = Tail(@)]
  /\ at' = [at EXCEPT ![f] = k]
  /\ step' = [step EXCEPT ![f] = "guest"]
  /\ UNCHANGED <<vars, phase, cursor>>

-----------------------------------------------------------------------------
(* What the guest does during a call.                                      *)

(* allocate, or the allocating half of clone_into_mutable.                 *)
GuestAllocate(f) ==
  /\ InGuest(f)
  /\ Cardinality(issued) < MaxAllocations
  /\ AllocateReserve(f, IdOf[f][at[f]],
                     IF phase[f] = "starting" THEN Unassigned ELSE f)
  /\ UNCHANGED flowVars

GuestAllocated(f) ==
  /\ AllocateInsert(f)
  /\ \E h \in issued' \ issued : Put(f, at[f], [handle |-> h, kind |-> "mutable"])
  /\ UNCHANGED <<phase, cursor, at, step, input, queue>>

(* The manager's own steps of a call.                                      *)
ManagerStep(f) ==
  /\ AllocateTake(f) \/ AllocateFails(f) \/ AllocateRollback(f) \/ ReleaseReturn(f)
  /\ UNCHANGED flowVars

NoSentinelMutant(f) ==
  /\ InGuest(f)
  /\ \E w \in tables[f][at[f]] : /\ w.kind = "mutable"
                                 /\ Put(f, at[f], [w EXCEPT !.kind = "buffer"])
  /\ UNCHANGED <<vars, phase, cursor, at, step, input, queue>>

GuestFreeze(f) ==
  /\ InGuest(f)
  /\ \E w \in tables[f][at[f]] :
       /\ w.kind = "mutable"
       /\ tables' = [tables EXCEPT ![f][at[f]] =
                       (@ \ {w}) \cup {[w EXCEPT !.kind = "buffer"]}]
  /\ UNCHANGED <<vars, phase, cursor, at, step, input, queue>>

(* The guest drops a buffer of its own; an input is only borrowed.         *)
GuestDrop(f) ==
  /\ InGuest(f)
  /\ \E w \in tables[f][at[f]] :
       /\ w.kind # "input"
       /\ Drop(f, at[f], w)
       /\ entry[w.handle[1]].owner = IdOf[f][at[f]]
       /\ Release(f, w.handle)
  /\ UNCHANGED <<phase, cursor, at, step, input, queue>>

-----------------------------------------------------------------------------
(* The call ends.                                                          *)

UnreleasedMutant(f) ==
  /\ InGuest(f) /\ input[f] # NoHandle
  /\ Drop(f, at[f], [handle |-> input[f], kind |-> "input"])
  /\ input' = [input EXCEPT ![f] = NoHandle]
  /\ step' = [step EXCEPT ![f] = "returned"]
  /\ UNCHANGED <<vars, phase, cursor, at, queue>>

(* reclaim_input_element releases the input, whatever the guest returned.  *)
ReclaimInputElement(f) ==
  /\ InGuest(f) /\ input[f] # NoHandle
  /\ Drop(f, at[f], [handle |-> input[f], kind |-> "input"])
  /\ entry[input[f][1]].owner = Host
  /\ Release(f, input[f])
  /\ input' = [input EXCEPT ![f] = NoHandle]
  /\ step' = [step EXCEPT ![f] = "returned"]
  /\ UNCHANGED <<phase, cursor, at, queue>>

UntransferredMutant(f) ==
  /\ phase[f] = "running" /\ Returned(f) /\ at[f] < NumStages[f]
  /\ \E w \in tables[f][at[f]] :
       /\ w.kind = "buffer"
       /\ Drop(f, at[f], w)
       /\ queue' = [queue EXCEPT ![f][at[f]] = Append(@, w.handle)]
  /\ at' = [at EXCEPT ![f] = 0]
  /\ step' = [step EXCEPT ![f] = "guest"]
  /\ UNCHANGED <<vars, phase, cursor, input>>

(* convert_output_element: the buffer the guest emits goes to the host and *)
(* into the stream.                                                        *)
ConvertOutputElement(f) ==
  /\ phase[f] = "running" /\ Returned(f) /\ at[f] < NumStages[f]
  /\ \E w \in tables[f][at[f]] :
       /\ w.kind = "buffer"
       /\ Drop(f, at[f], w)
       /\ entry[w.handle[1]].owner = IdOf[f][at[f]]
       /\ TransferOwnership(w.handle, Host)
       /\ queue' = [queue EXCEPT ![f][at[f]] = Append(@, w.handle)]
  /\ at' = [at EXCEPT ![f] = 0]
  /\ step' = [step EXCEPT ![f] = "guest"]
  /\ UNCHANGED <<phase, cursor, input>>

(* No output: init, push, a filtered element, or an error that is skipped. *)
NoOutput(f) ==
  /\ Returned(f)
  /\ at' = [at EXCEPT ![f] = 0]
  /\ step' = [step EXCEPT ![f] = "guest"]
  /\ UNCHANGED <<vars, phase, cursor, input, tables, queue>>

(* The driver drops a call that exceeds component_invocation_timeout, and  *)
(* goes on; the wrapper of the input stays in the store's table.           *)
InvocationTimeout(f) ==
  /\ phase[f] = "running" /\ InGuest(f)
  /\ at' = [at EXCEPT ![f] = 0]
  /\ input' = [input EXCEPT ![f] = NoHandle]
  /\ UNCHANGED <<vars, phase, cursor, step, tables, queue>>

-----------------------------------------------------------------------------
(* The driver is done, for whatever reason: queued elements are discarded  *)
(* and the stores dropped.                                                 *)
DriverEnds(f) ==
  /\ phase[f] = "running" /\ AtRest(f)
  /\ phase' = [phase EXCEPT ![f] = "ended"]
  /\ cursor' = [cursor EXCEPT ![f] = 0]
  /\ tables' = [tables EXCEPT ![f] = [k \in StagesOf(f) |-> {}]]
  /\ queue' = [queue EXCEPT ![f] = [k \in StagesOf(f) |-> <<>>]]
  /\ UNCHANGED <<vars, at, step, input>>

(* reclaim_flow_resources: what each component still owns ...              *)
ReapComponent(f) ==
  /\ phase[f] = "ended" /\ cursor[f] < NumStages[f]
  /\ ForceReclaim(IdOf[f][cursor[f] + 1])
  /\ cursor' = [cursor EXCEPT ![f] = @ + 1]
  /\ UNCHANGED <<phase, at, step, input, tables, queue>>

ComponentSweepOnlyMutant(f) ==
  /\ phase[f] = "ended" /\ cursor[f] = NumStages[f]
  /\ phase' = [phase EXCEPT ![f] = "reaped"]
  /\ UNCHANGED <<vars, cursor, at, step, input, tables, queue>>

(* ... then what the host still owns of the flow.                          *)
ReapFlow(f) ==
  /\ phase[f] = "ended" /\ cursor[f] = NumStages[f]
  /\ ReclaimFlowBuffers(f)
  /\ phase' = [phase EXCEPT ![f] = "reaped"]
  /\ UNCHANGED <<cursor, at, step, input, tables, queue>>

FlowStep(f) ==
  \/ InstantiateNode(f) \/ InitFails(f) \/ SpawnFlow(f)
  \/ InvokePull(f) \/ \E k \in StagesOf(f) : InvokeWithInput(f, k)
  \/ GuestAllocate(f) \/ GuestAllocated(f) \/ ManagerStep(f)
  \/ GuestFreeze(f) \/ GuestDrop(f)
  \/ ReclaimInputElement(f) \/ ConvertOutputElement(f) \/ NoOutput(f)
  \/ InvocationTimeout(f)
  \/ DriverEnds(f) \/ ReapComponent(f) \/ ReapFlow(f)

FlowNext == \E f \in Thread : FlowStep(f)

FlowSpec == FlowInit /\ [][FlowNext]_allVars
-----------------------------------------------------------------------------
(* Properties.                                                             *)

(* The wrappers and queued elements of flow f, each with its place.        *)
WrapperPlaces(f) ==
  UNION {{<<f, k, w>> : w \in tables[f][k]} : k \in StagesOf(f)}
QueuePlaces(f) ==
  UNION {{<<f, k, i>> : i \in DOMAIN queue[f][k]} : k \in StagesOf(f)}

(* Whatever other flows do, allocating, ending and being reaped included,  *)
(* every buffer that a running flow's components hold or that is queued    *)
(* between them is still in the table, under the owner its holder will     *)
(* name: no call of the guest or of the invoker meets a stale handle.      *)
HandlesLive ==
  \A f \in Thread :
    /\ \A p \in WrapperPlaces(f) :
         /\ Resolves(p[3].handle)
         /\ entry[p[3].handle[1]].owner = OwnerOf(f, p[2], p[3])
    /\ \A p \in QueuePlaces(f) :
         /\ Resolves(queue[f][p[2]][p[3]])
         /\ entry[queue[f][p[2]][p[3]][1]].owner = Host

(* No buffer is held twice: freezing, emitting and lending move a handle   *)
(* from one place to another, so that nothing is released under a holder   *)
(* or released twice.                                                      *)
OneHolder ==
  LET wrappers == UNION {WrapperPlaces(f) : f \in Thread}
      queued   == UNION {QueuePlaces(f) : f \in Thread}
      At(p)    == queue[p[1]][p[2]][p[3]]
  IN /\ \A p, q \in wrappers : p[3].handle = q[3].handle => p = q
     /\ \A p, q \in queued : At(p) = At(q) => p = q
     /\ \A p \in wrappers, q \in queued : p[3].handle # At(q)

(* While a flow runs, each of its buffers is in the table of one of its    *)
(* stores or in a queue: consumed elements have gone back to the pool.     *)
(* The input of a call that timed out stays in the table, where nobody     *)
(* will release it before the flow is reaped.                              *)
NothingLost ==
  \A s \in live : LET f == entry[s].flow IN
    f # Unassigned /\ phase[f] = "running" =>
      \/ \E p \in WrapperPlaces(f) : p[3].handle = Rid(s)
      \/ \E p \in QueuePlaces(f) : queue[f][p[2]][p[3]] = Rid(s)

(* A reaped flow has left nothing behind: no buffer of its own, none that  *)
(* its components own, no budget.  What a component allocated in init and  *)
(* emitted is the exception, it belongs to no flow.                        *)
ReapedClean ==
  \A f \in Thread : phase[f] = "reaped" =>
    /\ flowResources[f] = {}
    /\ \A s \in live : entry[s].flow # f
    /\ \A k \in StagesOf(f) : /\ componentResources[IdOf[f][k]] = {}
                              /\ budget[IdOf[f][k]] = Unregistered
-----------------------------------------------------------------------------
(* What module BufferFlowProofs proves these from.                         *)

(* No two stages, of one flow or of two, have the same component id.  The  *)
(* ids that the pipeline assigns by position differ within a flow, so this *)
(* is so of a host that runs one flow at a time.                           *)
IdsDistinct ==
  \A f, g \in Thread : \A k \in StagesOf(f), l \in StagesOf(g) :
    IdOf[f][k] = IdOf[g][l] => f = g /\ k = l

Wrapper == [handle : issued, kind : {"mutable", "buffer", "input"}]

HoldingsOK ==
  /\ tables = [f \in Thread |-> tables[f]]
  /\ queue = [f \in Thread |-> queue[f]]
  /\ \A f \in Thread : /\ tables[f] \in [StagesOf(f) -> SUBSET Wrapper]
                       /\ queue[f] \in [StagesOf(f) -> Seq(issued)]

FlowTypeOK ==
  /\ phase \in [Thread -> {"absent", "starting", "failed", "running", "ended", "reaped"}]
  /\ cursor \in [Thread -> Nat] /\ \A f \in Thread : cursor[f] \in 0..NumStages[f]
  /\ at \in [Thread -> Nat] /\ \A f \in Thread : at[f] \in 0..NumStages[f]
  /\ step \in [Thread -> {"guest", "returned"}]
  /\ input \in [Thread -> issued \cup {NoHandle}]
  /\ HoldingsOK

(* Flow f may hold handle h, on the word of owner o.                       *)
Holds(f, h, o) ==
  /\ Resolves(h)
  /\ entry[h[1]].owner = o
  /\ entry[h[1]].flow \in {f, Unassigned}

(* HandlesLive, and a buffer that a flow holds is of that flow, or of none.*)
CustodyInv ==
  \A f \in Thread : \A k \in StagesOf(f) :
    /\ \A w \in tables[f][k] : Holds(f, w.handle, OwnerOf(f, k, w))
    /\ \A i \in 1..Len(queue[f][k]) : Holds(f, queue[f][k][i], Host)

(* An allocation under way is for the stage that the task is calling, and  *)
(* the input of a call is in that stage's table.                           *)
CallInv ==
  \A f \in Thread :
    /\ input[f] # NoHandle =>
         at[f] # 0 /\ [handle |-> input[f], kind |-> "input"] \in tables[f][at[f]]
    /\ at[f] # 0 => phase[f] \in {"starting", "running"}
    /\ at[f] # 0 /\ phase[f] = "starting" => at[f] <= cursor[f]
    /\ pc[f] \in {"reserved", "taken"} =>
         /\ at[f] # 0
         /\ call[f].owner = IdOf[f][at[f]]
         /\ call[f].flow = IF phase[f] = "starting" THEN Unassigned ELSE f

(* Only a flow that starts or runs has stores, and only one that runs has  *)
(* queued elements.                                                        *)
StoresInv ==
  \A f \in Thread : \A k \in StagesOf(f) :
    /\ phase[f] \notin {"starting", "running"} => tables[f][k] = {}
    /\ phase[f] # "running" => queue[f][k] = <<>>

(* The stages of f that have been instantiated and not yet reclaimed.      *)
Active(f) ==
  CASE phase[f] \in {"running", "failed"} -> StagesOf(f)
    [] phase[f] = "starting"              -> 1..cursor[f]
    [] phase[f] = "ended"                 -> (cursor[f] + 1)..NumStages[f]
    [] OTHER                              -> {}

(* What is in the table is of a flow that is running or not yet reaped, or *)
(* of none; its owner, if it is a stage, is active; and the other stages   *)
(* have no budget.                                                         *)
StageInv ==
  /\ \A s \in live : /\ entry[s].flow \in Thread \cup {Unassigned}
                     /\ entry[s].flow \in Thread => phase[entry[s].flow] \in {"running", "ended"}
  /\ \A f \in Thread : \A k \in StagesOf(f) \ Active(f) :
       /\ budget[IdOf[f][k]] = Unregistered
       /\ \A s \in live : entry[s].owner # IdOf[f][k]
=============================================================================
