# TLA+ models of Torvyn

Torvyn runs streaming pipelines of WebAssembly components. This directory holds
TLA+ models of its runtime core, the TLC runs that check them on small
instances, and TLAPS proofs of the properties that matter most for every
topology, every contract and every number of threads, components, flows and
buffers. `PROJECT.json` links each definition to the source lines it models, each
property of a passing run to a mutant that breaks it, and each hazard of the code to
the properties that would catch it, or says why none does.

## 1. The system

| Part | State | Operations | Talks to |
|---|---|---|---|
| Flow driver (`torvyn-reactor/flow_driver.rs`) | `FlowState`, streams, sequence counter, backpressure flags | main loop: cancel check, schedule, invoke, error policy, backpressure, completion, wait; drain; terminal state | scheduler, invoker, token, event channel |
| Streams (`stream.rs`, `queue.rs`, `demand.rs`, `backpressure.rs`) | bounded queue, credits, flag, `producer_complete` | push, pop, consume/replenish, transition | owned by one driver |
| Scheduler (`scheduling.rs`) | none | `next_ready_stage`: reverse topological order, first ready stage | reads streams |
| Cancellation token (`cancellation.rs`) | set-once reason, flag, waiters | `cancel`, `is_cancelled`, `cancelled` | driver, coordinator, operator |
| Topology (`topology.rs`) | DAG of stages | `validate`, `topological_order` | coordinator, scheduler |
| Coordinator and handle (`coordinator.rs`, `handle.rs`) | flow map, outcomes of ended flows | create, cancel, state, list, shutdown; reaping | commands over a channel; drivers by join handle; resource manager |
| Resource manager (`torvyn-resources/manager.rs`, `table.rs`, `budget.rs`, `ownership.rs`, `accounting.rs`) | generational table, owner index, budgets, copy ledger | allocate, read, write, transfer, release, reclaim | all flows, under one mutex |
| Buffer pool (`pool.rs`) | lock-free free list per tier | pop, push | all threads, outside the mutex |
| Engine (`torvyn-engine`) | compiled components, instances, component cache | compile, instantiate, invoke | driver through `ComponentInvoker` |
| Pipeline (`torvyn-pipeline`) | none | validate, convert, instantiate, shut down | engine, reactor |
| Host (`torvyn-host`) | host status, flow records | start, shut down, inspect | everything |
| Contracts (`compatibility.rs`, `linker.rs`) | none: two packages, or a pipeline, in and a verdict out | `check_compatibility`, `validate_pipeline` | `torvyn link` |
| Linker, security, config, packaging, observability, CLI | configuration, manifests, metrics | resolution, matching, parsing, export | set-up time, or off the data path |

### What is hard

- **One task, many interruptions.** A driver is one Tokio task, so its own steps
  are sequential, but each component call is an await. Between the pop of an
  element and its outcome a cancellation, an error, a timeout or the deadline
  can arrive.
- **Silent assumptions between parts.** The driver ignores `PushResult::Full`
  because credits and the scheduler are supposed to prevent it; the idle branch
  polls because somebody is supposed to make progress; the drain stops at the
  first idle scheduling decision because nothing is supposed to be left.
- **Completion** spreads along the graph one idle round at a time, in stage
  index order, while operators and errors race to set the reason that decides
  the terminal state.
- **Shared memory without locks**: the pool's free list; the shared token; the
  histogram that recorders and the exporter use at once.
- **Several flows** share one resource manager, keyed by component ids. Its calls
  are cut: a budget is reserved, a buffer taken and an entry made in three steps,
  and a guest call may be dropped at any await.
- **Ends that nobody waits for.** A driver ends or panics on its own; the
  coordinator learns of it only when it next handles a command, while callers
  ask for outcomes and a shutdown races the drains.
- **Three validators** (linker, pipeline builder, reactor) look at the same graph
  with different rules.

### What makes each part correct

- Streams: credits and queue never drift apart; lossless FIFO; flags that fit
  the depth.
- Scheduler and driver: bounded queues, no stall, no element lost while running.
- Completion: final, never early, and `Completed` means that all was delivered.
- Cancellation: always ends the flow; the first reason wins.
- Topology: exactly the well-formed DAGs, in an order the scheduler may rely on.
- Coordinator: every ended flow gets an outcome and its resources back; every
  call is answered; nothing is left running behind a shutdown.
- Engine: a buffer that is lent, emitted, dropped or timed out is always
  accounted for, and a handle in use is live.
- Set-up: what one validator accepts the next part can run.
- Contracts: a version is called breaking exactly when it breaks somebody.
- Observability: what is recorded is counted once; what is reported was recorded.
- Pool: each slot has one owner. Manager: no budget is below what is held (what a
  failed call leaves charged too much is modelled, and allowed), stale handles are refused, a flow's end frees its own buffers and nobody else's.

## 2. Modules

| Module | Models |
|---|---|
| `FlowDriver` | one flow: driver, scheduler, streams, token, operator and clock; its properties and the inductive invariant |
| `FlowDriverProofs` | TLAPS proofs about `FlowDriver` |
| `Topology` | `validate` and `topological_order` as operators |
| `MCFlowDriver` | concrete flows for TLC; extends `FlowDriver` and `Topology` |
| `FreeList` | what a tier of the buffer pool promises: who owns which slot |
| `TierPool` | one tier: the Treiber stack, one action per atomic operation; its properties and inductive invariant |
| `TierPoolProofs` | TLAPS proofs about `TierPool`, including that it implements `FreeList` |
| `LinearOwnership` | what the resource manager promises of a handle |
| `ResourceManager` | table, generations, indices, budgets, borrows, reclaims; its properties and inductive invariant |
| `ResourceManagerProofs` | TLAPS proofs about `ResourceManager`, including that it implements `LinearOwnership` |
| `MCResourceManager` | threads, flows and buffers for TLC |
| `BufferFlow` | the composition: invoker, host side of the buffer interface, instantiation and reaping, on top of `ResourceManager` (which it extends) |
| `BufferFlowProofs` | TLAPS proofs about `BufferFlow`, on top of those about `ResourceManager` |
| `MCBufferFlow` | two flows that share the manager, with distinct or with positional component ids |
| `Reactor` | coordinator, handle, host and its callers, drivers that end or panic; its properties and inductive invariant |
| `ReactorProofs` | TLAPS proofs about `Reactor` |
| `MCReactor` | names the instance for TLC |
| `PipelineBuilder` | `PipelineTopologyBuilder::build` and the pipeline's validation, as operators over `Topology` |
| `Linker` | `PipelineLinker::link`, as operators over `Topology` |
| `Submission` | a definition on its way: built, validated, ordered; what the builder and the reactor promise of it |
| `Compatibility` | `check_compatibility`: two versions of a WIT package compared item by item, as operators, and what it means to serve the clients of a version |
| `VersionCheck` | the comparison of two versions as a specification, and what its verdict promises |
| `ContractLinker` | `validate_pipeline` of the contracts crate, as operators over `Linker`'s search, `PipelineBuilder` and `Compatibility` |
| `Assembly` | `Submission` with the linker and the contract check, asked for in any order; what these promise |
| `DefinitionProofs` | TLAPS proofs about `Submission`, `VersionCheck` and `Assembly` |
| `NaturalRecursion` | induction and recursion over the naturals, for the proofs |
| `MCTopology` | `Assembly` and `VersionCheck` over all small definitions and contracts |
| `Collector` | counters, histogram, snapshots, percentiles and span buffer of one component |
| `CollectorProofs` | TLAPS proofs about `Collector` |
| `MCLockFree` | `TierPool` with three symmetric threads, or `Collector` with two symmetric recorders, for TLC |

Operators named `...Mutant` are wrong variants used to show that each property
can fail; no specification uses them.

### FlowDriver

A flow is given by constants: roles, connections (`From`, `To`), the place of
each stage in the topological order (`Pos`), capacities, low watermarks, the error
policies it may have (`policy` is the one it was created with), deadline or none. `TopologyAssumption` is what `validate()` and the
pipeline validator guarantee: a DAG, sources exactly the stages without input,
sinks exactly the other stages without output, all sources ahead of all other
stages in the order. That `topological_order()` really gives this is the
invariant `OrderFeedsDriver` of the run `topology`.

The variables are the fields of `StreamState` per stream (`queue`, `demand`,
`active`, `complete`), the driver's fields and suspension point (`state`, `pc`,
`scan`, `current`, `inHand`, `nextSeq`, `pending`, `told`), the token (`reason`,
`cancelled`), the operator, the clock, and three history variables (`sent`,
`taken`, `fate`). An element is its sequence number and origin sequence number;
the payload is left out, and so are metrics, spans, log lines, events and the
cooperative yield, which change nothing the driver reads.

| Action | Code |
|---|---|
| `Start` | entry of `run` |
| `ObserveCancel` | cancel check at the top of the loop |
| `BeginStage(k)` | `next_ready_stage`, `execute_stage` up to the guest call (with pop and credit for a consumer) |
| `PullElement`, `PullNone`, `ProcessOutput`, `ProcessMultiple`, `ProcessFiltered`, `PushDelivered` | the outcome of the call, then `check_backpressure_all` in the main loop |
| `StageFailed` | an error or a missed `component_invocation_timeout`, with the error policy |
| `NotifyProducer` | one guest call of `notify_producers` |
| `BeginPropagate`, `PropagateStage` | `propagate_producer_complete`, one stage per step |
| `AllStreamsComplete`, `BeginWait`, `WaitCancelled`, `WaitDeadline`, `WaitElapsed` | the idle branch and its `select!` |
| `FinishDrain` | the end of `drain_queues` (nothing ready or `drain_timeout`), the discard, the terminal state |
| `OperatorCancel`, `OperatorStoreFlag` | `cancel()` from another task: the reason, then the flag |
| `DeadlineElapses` | the timer behind `flow_deadline` |

In a release build `consume_demand` saturates at zero, in a debug build it
asserts; the model saturates, and `DemandConservation` together with
`LosslessFifo` show that a running flow never gets there.

`WaitCancelled` takes the check, the registration and the second check of
`cancelled()` (`cancellation.rs:141`) in one step. A wake-up lost between them cannot
be expressed; it would do the driver no harm, since the idle branch wakes every 50us.

**Bounds.** `MaxPulls` bounds the elements per source, so that TLC ends; a source
may end earlier at any pull. Nothing else is bounded: errors are unlimited.

**Fairness.** `WF_vars(Driver)`: Tokio polls a woken task again, component calls
return because `component_invocation_timeout` and the engine's fuel end them,
and the 50us sleep of the idle branch fires. Which outcome a call has, and which
`select!` arm wins, is left open. `WF_vars(OperatorStoreFlag)`: a thread that has
begun `cancel()` finishes it. No fairness on the operator's decision to cancel,
on the clock, or on sources ending: `PullNone` competes with other outcomes.

### Topology

A topology is a record of roles and connections. `KahnFrom` is the work-list
algorithm that `validate`, `topological_order`, the builder and the linker share:
`Seeds` fills the queue in the order the stages come in, `KahnTurn` is one turn of
the loop, in which `Relaxed` goes through the connections. `Reachable` is the
breadth-first marking, `Validate` the checks in the code's order. Loops are
functions of the number of turns taken; that the turns allowed suffice is part of
what is proved. `Submission` makes a state machine of them: a definition of any size
is validated, ordered and built.

### TierPool

Threads run `pop` and `push` concurrently; the state is `free_top` (tag and
index), `next_free` of each slot, the `available` counter, and per thread its
program position and local copies (`head`, `next`, the slot in `hand`). Slots are
numbered from 1 and `None` stands for `STACK_EMPTY`.

| Action | Code |
|---|---|
| `PopLoad`, `PopNext`, `PopSwing`, `PopRetry`, `PopCount` | the atomic operations of `TierPool::pop`: load of the head, load of the link, compare-and-swap, its failure, `fetch_sub` and return |
| `PopExhausted` | `pop` finds the stack empty; `BufferPoolSet::allocate` falls back to the system allocator, which may be out of memory |
| `PushBegin`, `PushLoad`, `PushLink`, `PushSwing`, `PushRetry`, `PushCount` | `BufferPoolSet::release` of a slot, then the atomic operations of `TierPool::push` |
| `ReleaseFallback` | `release` of a buffer of the system allocator |

The compare-and-swap is the weak one: it may fail although the head is equal.
`out` are the slots in use. That a slot is released only by the one caller that
removed its entry from the resource table is the resource manager's promise; the
model builds it into `PushBegin`. `stack` (the free slots, bottom first) and `age`
(swings since a thread loaded the head) are history variables. `age` carries the
model's one assumption, in `Swing`: between a thread's load of the head and its
compare-and-swap there are fewer than `TagMod` swings. `pool.rs:24-27` argues the
same for the tag's 2^32 values. The atomics are sequentially consistent in the
model; the acquire/release pairs that the code relies on instead are the subject
of the repository's own loom tests.

`MaxFallback` bounds the fallback buffers in use, so that TLC ends.

### ResourceManager

One action per critical section; a refused call that changes nothing is none.

| Action | Code |
|---|---|
| `AllocateReserve`, `AllocateTake`, `AllocateFails`, `AllocateInsert`, `AllocateRollback` | `allocate`: budget, buffer (pool or system), out of memory, entry in the table (which may grow), full table |
| `Release`, `ReleaseReturn` | `release`: the entry leaves the table under the lock, the buffer is reset and goes back outside it |
| `TransferOwnership`, `TransferRefused` | `transfer_ownership`; refused after the recipient's budget was reserved |
| `BorrowStart`, `BorrowEnd`, `WritePayload` | the calls of the same names |
| `ForceReclaim`, `ReclaimFlowBuffers`, `RegisterComponent` | the sweeps and the registration of a budget |

A handle is a slot and a generation. The pool is used through what `FreeList`
promises, the chain of vacant slots is a set, buffers have one size, and a
buffer's bytes are reduced to the set of handles they were written through
(`residue`). Two obligations of the callers are guards in `Next` and not in the
actions: a component is registered once (`IsNew`) and swept when none of its
allocations is under way (`Quiet`). `BufferFlow` uses the actions without them.

*Bounds:* `System` (fallback buffers), `MaxGeneration` (reuses of a slot; no
wrap), `MaxBorrows`. `BudgetMod` keeps the counter's width.

### BufferFlow

A flow goes through `InstantiateNode` per component (registration, `init`, which
may allocate), `InitFails` or `SpawnFlow`; then `InvokePull` and
`InvokeWithInput` begin a call in which the guest may `GuestAllocate`,
`GuestFreeze` and `GuestDrop`; `ReclaimInputElement`, then `ConvertOutputElement`
or `NoOutput` end it, or `InvocationTimeout` drops its future at the await;
`DriverEnds` takes stores and queues away; `ReapComponent` and `ReapFlow` are the
coordinator's two sweeps. A flow's task is a thread of `ResourceManager`, whose
actions are conjuncts of these, so allocation and release stay cut where the
manager releases its lock. `tables` holds the wrappers in each component's store.

*Bounds:* `MaxAllocations`. Flows are linear here; fan-out is `FlowDriver`'s.

### Reactor

`Send` and `Receive` are the command channel and the one-shot replies. The
coordinator's `HandleNewFlow`, `HandleCancel`, `HandleOutcome`, `HandleList` and
`HandleShutdown` are followed by `ReapAfterCommand`; in a shutdown it alternates
`ShutdownPoll` and reaping until nothing is left or `ShutdownEnds` at the timeout.
`DriverEnds` is any end, a panic included; an uncancelled driver may also never
end. The host's `run` is `StartFlow`, `FlowStarted`, `AllStarted`, then `PollFlows`
and `FlowsListed` or a `Signal`, then `HostShutdown` and `HostStopped`; a client may
spawn flows at any time, and cancel them and ask for outcomes while the host waits. `Retain` keeps the outcomes
of the `MaxRetained` highest flow ids, as the code does.

`QueryFlowState` and `UpdatePriority` are left out: they change nothing, and the
reaping that follows every command follows the modelled ones too.

*Bounds:* `MaxFlows` created, one call at a time per caller.

*Fairness:* `Coordinate` (the coordinator's task is polled when it has a command
or a poll to do), `ShutdownEnds` (its timeout passes), `Run` and `ClientReturn`
(a task whose reply has arrived is polled). None on drivers ending, on signals or
on clients calling: `WaitEnds` has to assume that the flows end.

### PipelineBuilder, Linker

Operators, one per check, in the code's order: name resolution, the checks of
ports, fan and roles, the two cycle searches with the cycle they report, the
order, import resolution and grants. Both cycle searches are depth-first, with a
stack: the builder's (`SearchTurn`) by colours, with parents through which a back
edge is traced (`Traced`); the linker's (`DfsTurn`) is recursive in the code, and
its activations are the stack. A name stands for a whole interface; the linker's
`HashMap` may yield its nodes in any order (`Listings` in `Assembly`, which lets
the linker and the contract check run at any time on any imports and contracts).

### Compatibility and ContractLinker

A package has worlds and interfaces, an interface functions and types; a type in a
signature is a name, as nested types are only ever compared as wholes.
`ConvertInterface` is what the parser keeps: resources by name, aliases without
what they stand for. A comparison yields a set of changes (the code's list comes
in the order of its hash maps), the verdict their worst severity. There are two
references. `Serves(new, old)`: all that a client of `old` may use is in `new` and
means the same. `Fits(new, old)`: the same of what `check_compatibility` looks at, that
is with flags and aliases reduced to their names and kind. The code decides by `Fits`
where its documentation promises `Serves` (runs `changed_type`, `provider_lacks`).
`ValidatePipeline` yields the set of error codes: topology, contracts across
connections (upstream as the old version), capabilities, major versions.

### Collector

One action per atomic operation of `Histogram::record` and of `snapshot`; the span
buffer is under its mutex. `records`, `errors` and `pushed` are history variables,
`undisturbed` says that no recording met the snapshot. `Rank` is the ceiling of
*p n* / 100 in integers, where `histogram.rs:307` computes in `f64`: for the
percentiles of the run, 50 and 99, they agree, but not for all (for *p* = 7 and
*n* = 100 the code gets 8). Names that `TierPool` has as well are prefixed
(`CollectInit`, `CollectNext`, `phase` for the position of a recorder), so that one
module can extend both. *Bounds:* `MaxRecords`, `MaxSpans`.

## 3. Runs

| Run | Instance | Shows |
|---|---|---|
| `flow` | two sources, router, filter, one sink with three inputs; capacities 1 and 2; FailFast and SkipElement; a deadline; 2 elements per source (221 636 states) | credits exact, streams lossless and at most one deep, one source element in flight, flags accurate and sources told, no stall, completion final, `Completed` sound, nothing left behind by the drain, cancellation ends the flow, the flow terminates |
| `topology` | all three-stage graphs with up to 3 connections (loops, dangling and parallel ones included), four-stage ones with up to 4, duplicate names, the empty pipeline, every order of the linker's map; fan limit 2; all pairs of versions of a small contract; all assignments of small package lists to a chain of three (472 397 states) | the reactor's verdict is exact and its order is what the driver needs; what the builder accepts the reactor accepts; reported cycles are cycles; the linker links exactly the resolvable pipelines; a version is judged breaking exactly when, flags labels and alias targets apart, it fails a client, and breaks some client whenever it is; an accepted pipeline is composed, granted, and has no connection across which neither contract fits the other's clients |
| `lock_free` | either a tier of the pool: three threads, three slots, a tag that wraps at 4, a counter that wraps at 8, one fallback buffer; or the collector: two recorders, durations in each of three buckets, two records, a span buffer of 2, three spans (1 128 499 states) | one owner per slot, the list intact, the counter exact, and `FreeList` implemented; counts exact, percentiles sound, a trace not marked as truncated is whole |
| `resource_manager` | two threads, one component and the host, two flows, one pooled and two system buffers, a table that grows from 1 to 2 slots, a budget of 1 (130 863 states) | indices and table agree, budgets cover what is held, no buffer lost or doubled, no earlier owner's bytes, and `LinearOwnership` implemented |
| `buffer_flow` | flows of three and two stages with distinct component ids, two buffers, 4 allocations, queues of 1 (673 756 states) | handles in use are live and held once, no buffer is lost, a reaped flow leaves nothing behind |
| `reactor` | a host with one flow, one client, two flows in all, one retained outcome (45 169 states) | outcomes are right as far as retained, no flow outlives a shutdown uncancelled, every call returns, the wait for all flows ends |
| `flow_deadline` | linear, SkipElement, one element | **violated**: the deadline is not polled by a busy flow |
| `shared_ids` | as `buffer_flow`, with ids by position in the flow, as the code assigns them | **violated**: reaping one flow takes buffers of another |
| `outcome_lost` | as `reactor` | **violated**: a failed flow is reported as completed |
| `changed_type` | as `topology` | **violated**: a version that takes a flags label away is judged compatible |
| `provider_lacks` | as `topology` | **violated**: a pipeline is accepted whose consumer has a function that its provider lacks |
| `flow_drain` | router with two connections to one processor, capacity 1, FailFast | **violated**: the drain discards an element it could deliver |

Some runs check two things that do not meet: `lock_free` the pool or the collector
(`subject` says which, and the other does not move), `topology` a definition or a pair of
versions. Each is explored as in a run of its own.

Why these bounds: `flow` has fan-out, fan-in, a second source, a stage whose
completion needs several idle rounds (stages are listed sink first), a stream of
capacity 1 on which backpressure activates and one of capacity 2 on which it does
not. A second element per source is what an overfull queue, a missing credit or
a reordering needs. In the pool of `lock_free`, ABA takes one thread between load and swap, a
second that pops two slots and pushes the first back, and a slot below them;
three slots and a third thread leave room for it to interfere with a push as well,
and the tag wraps several times. In `resource_manager` the second buffer makes the
table grow and finds the budget used up, the third finds it full while the second
thread is in the middle of its call; with two generations a handle outlives its
entry and meets the slot's next user. In `buffer_flow` a second flow starts, runs
and is reaped around every step of the first, and two buffers let an output exist
beside the input. In `reactor` a second flow is what it takes to evict an outcome.
In its collector the second record is what a snapshot can see half of. The proofs
below remove the bounds for the safety properties of `flow` (`DrainNeverStuck` under a
hypothesis on capacities, which its stream of capacity 1 does not meet), `lock_free`,
`resource_manager`, `reactor`, `buffer_flow` (all but `OneHolder` given distinct
component ids) and `topology`. What the definitions of `topology` lack
in size they have in shape: three stages and any three connections, or four and four,
hold loops, parallel connections, a cycle behind a source and two ways to one stage.

`CHECK_DEADLOCK FALSE` is said where the system may stop: hosts and flows end, and
the bounds on allocations, records and spans are reached.

### What the runs say of the code and its documentation

- `flow_deadline`: `config.rs:93` promises a "Maximum wall-clock duration for the
  entire flow"; the timer is polled only when no stage is ready.
- `flow_drain`: `flow_driver.rs:947` says "Nothing left to process"; the drain
  loop does not re-evaluate backpressure, so a flag that was Active when the drain
  began keeps the stage behind it from running, and what that stage has queued is
  discarded. In the flow of the run `flow` there is no such stage. It takes a
  component that returns several outputs, which the `ComponentInvoker` contract
  allows and the Wasmtime invoker at present never does.
- `flow`: the backpressure demo expects a queue that fills to 16 elements;
  a running queue never holds two (`QueueDepthAtMostOne`).
- `shared_ids`: `instantiate.rs:140` numbers components from 1 in every flow,
  but the manager's owner index and budgets are shared by all flows. Reaping a
  flow reclaims what same-numbered components of running flows own
  (`coordinator.rs:577-579` calls the sweeps safe for every reaped flow).
- `outcome_lost`: `coordinator.rs:551` takes the lowest id for the oldest outcome;
  a flow that was created early and ends late is evicted as it is entered, and
  then reported as `Completed`.
- `buffer_flow`: an input is reclaimed "on every path"
  (`wasmtime_invoker.rs:383-385`) but not when the invocation times out: it then
  stays until the flow is reaped (`NothingLost` counts it there).
- `topology`: two connections from one provider count as two providers and make
  an import "ambiguous" (`LinkExact`); a new resource is no addition
  (`CompatibilityExact` leaves it out).
- `changed_type`: `compatibility.rs:65` lists a "changed type" as breaking; flags are
  compared without their labels and aliases without their targets, although such a
  change changes every signature that uses the type. What the verdict does say is
  `CompatibilityExact`: Breaking only if a client is not served, and exactly so of what
  is looked at (`Fits`).
- `provider_lacks`: across a connection the upstream's contract is taken for the old
  version (`contracts/linker.rs:342`): a downstream that has a function its upstream
  lacks passes, the reverse is refused, where `docs/src/concepts/contracts.md:160-161`
  wants a consumer to use no more than its provider has. `PipelineSound` promises no
  direction.
- `lock_free`: a snapshot that meets a recording can make `percentile` subtract a
  larger number from a smaller one (`PercentileSound` excepts it). A trace that exactly
  fills the buffer is reported as truncated and its absent evictions are announced,
  which is what `trace.rs:363-365` sets out to avoid; `TraceHonest` therefore speaks
  only of traces that are not marked.

Met while modelling, and part of the models without a property of their own:

- the state in a flow's handle is `Instantiated` for as long as the flow is in the
  map (`coordinator.rs:323`, `427`), although `coordinator.rs:164-166` speaks of live
  state;
- buffers that a component allocates in `init` carry flow id 0, and a failed `init`
  leaves them behind: no sweep of a flow finds them;
- `cleanup_partial` goes in reverse index order where its comment says reverse
  topological order;
- the linker accepts pipelines without source or sink, which the reactor
  refuses; the pipeline builder accepts an isolated source, which the linker
  refuses;
- `validate_topology` returns its order also when its report has errors;
- `deregister_flow` of the collector has no caller, so its registries grow with
  each flow;
- `TorvynHost::run` returns at the first flow that fails to start and leaves the
  flows before it running.

## 4. Proofs

`FlowDriverProofs` proves, for all constants that satisfy the two assumptions:
`TypeCorrect`, `DemandConserved`, `QueueDepthBounded`, `StreamsLossless`,
`BackpressureCorrect`, `NeverStalls`, `OneElementInFlight`, `CompletionFinal` and
`CompletedIsSound`; and `DrainFinishes` for those in which every stream that a
processor writes to has room for two elements.

The inductive invariant `IndInv` adds to the properties:

- `PhaseInv`, `InvokeInv`: which suspension point goes with which state, and
  that an invoked consumer has an element in hand;
- `BackpressureInv`: flags fit the depth wherever no call is under way;
- `CompletionInv`: outputs of a stage complete together and behind complete
  inputs, and the invoked stage has open outputs;
- `DownstreamInv`: nothing is queued downstream of the invoked stage;
- `FifoInv`, `InFlightInv`: the history variables agree with the queues.

The heart is the lemma `NothingDownstream`: if no stage beyond position *b* is
ready, nothing is queued beyond *b*. Take the non-empty stream beyond *b* whose
consumer comes last; that consumer's outputs are empty, an empty stream that is
not complete can take an element (by demand conservation, the flags and the
completion invariant), so the consumer is ready, a contradiction. So a stage is
scheduled only when everything downstream is empty, which gives the depth bound,
losslessness and, with "sources first", the single element in flight; with *b* = 0
it gives `NoStall`.

The last two theorems are about the end of a flow and need more history. `FinalInv`
adds to `IndInv`

- `QuietInv`: a stream with room for two never signals backpressure, since its
  depth stays below the high mark;
- `ReasonInv`: the first reason stays, and the main loop is left only with one;
- `AccountInv`: in the main loop, each element pulled has a fate, is queued or is in
  hand, and nothing has been discarded;
- `EndInv`: the reason `SourceComplete` is given only when all streams are complete
  and empty, so the drain that follows runs nothing and `Completed` says what the
  properties of the main loop left behind.

`DrainFinishes` uses `NothingDownstream` again. The drain loop does not re-evaluate
backpressure, so "an empty stream can take an element" is the hypothesis on
capacities there, by `QuietInv`. `flow_drain`, with capacity 1, is the counterexample
without it.

`TierPoolProofs` proves, for any set of threads, any number of slots and any tag
width: `PoolTypeCorrect`, `PoolSingleOwner`, `PoolListIntact`, `PoolImplements` and
`PoolAvailable`. `SingleOwner` and `ListIntact` are not inductive alone, because
they say nothing about the copies that threads hold. `IndInv` adds

- `HandInv`: at which positions a thread has a slot in hand;
- `TagInv`: head tag = copied tag + age, up to one wrap;
- `CopyInv`: a copy that no swing has aged equals the head and its link the
  top slot's link, and a slot about to be published is linked to the copy.

From `TagInv` and age < `TagMod`, an equal head means age 0 (`SwingFresh`); then
`CopyInv` says that the swing takes exactly the top slot and leaves the one below
on top (`PopTakesTop`), or puts the pushed slot, linked to the former top
(`PushPutsTop`). For the refinement, `PopSwing` is `Take`, `PopCount` `HandOut`,
`PushBegin` `Claim`, `PushSwing` `GiveBack`; an exhausted pop is `FallBack` because
an empty head means an empty list; the other steps stutter. `PoolAvailable` needs
`CountInv`: counter plus pushes not yet counted equals list length plus pops not yet
counted, modulo the counter's width, and finitely many counts are due.

`ResourceManagerProofs` proves, for any number of threads, components, flows,
buffers and slots: `ManagerTypeCorrect`, `ManagerIndicesExact`,
`ManagerConserves`, `ManagerNoResidue`, `ManagerBudgetCovers` and
`ManagerImplements`. `IndInv` consists of the properties and

- `BudgetCoversSlots`: the counter of a registered component is at least the
  number of live slots it owns plus its allocations under way. `BudgetCovers`
  speaks of handles in the index; only counted over slots does a sweep subtract
  exactly what it ends;
- `HandlesKnown`: the handle of every live slot has been issued, and no handle of
  a later generation than the slot's has, which makes a handle a one-time token;
- `TakenClean`: a buffer between pool and table holds nobody's bytes.

For the refinement the holder of a handle is the owner of its entry while it
resolves, `Dead` if it was issued and resolves no longer, and `Unissued` before. `AllocateInsert`
is `Issue` because the generation is new; transfers are `Pass`; releases and both
sweeps are `End`; all other steps stutter. The proof uses that generations do not
wrap: the assumption behind it is that no handle is kept over 2^32 reuses of a slot.

`BufferFlowProofs` proves, for any number of flows, stages, buffers and slots,
`FlowOneHolder` without a hypothesis and, from `IdsDistinct`, `FlowUsesManager`,
`FlowBudgetCovers`, `FlowHandlesLive`, `FlowNothingLost` and `FlowReapedClean`.
`IdsDistinct` says that no two stages have the same component id. It is so of the
instance of `buffer_flow` and of a host that runs one flow, whose ids the pipeline
assigns by position (`OneFlowDistinct`); with two such flows it is not, and
`shared_ids` shows what then happens. `FlowOneHolder` rests on `HolderInv`: handles
move between stores and queues, and a new one is unlike any that was issued. The
others rest on `FlowInv`, which is `HolderInv`, the manager's own `IndInv` and

- `CustodyInv`: a handle that a flow holds resolves, under the owner its holder will
  name, and is of that flow or of none;
- `CallInv`: an allocation under way is for the stage being called, and the input of
  a call is in that stage's store;
- `StoresInv`: only a flow that starts or runs has stores;
- `StageInv`: what is in the table is of a flow not yet reaped, owned by a stage not
  yet reclaimed, and the other stages have no budget;
- `KeptInv`: what is in the table of a running flow is in one of its stores or queues.

`FlowUsesManager` says that every behaviour of the composition is one of the manager's
`Spec`, although the composition drops the guards `IsNew` and `Quiet` of its `Next`:
`StageInv` and `CallInv` supply them, which is where distinct ids are needed. So the
manager's theorems carry over; `FlowBudgetCovers` is one of them.

`ReactorProofs` proves `ReactorTypeCorrect`, `ReactorStopped` and `ReactorOutcomes`,
for any number of callers and flows and any retention. `StoppedMeansCancelled` needs `StopInv`
(a running driver is in the map; once the coordinator is shutting down every flow
of the map has been cancelled; the host has stopped only after a reply to its
shutdown) and `PollingInv` (while the coordinator polls, the shutdown it will
answer is at the head of the channel). `ReactorOutcomes` rests on one fact about
eviction, the lemma `RetainRetained`: keeping the highest ids of what is retained and
newly reaped is keeping the highest ids of all that was ever reaped. So the retained
outcomes depend on which flows have been reaped, not on when.

`CollectorProofs` proves, for any number of recorders, buckets and spans and any
capacity, `TraceIsHonest`, `HistogramExtremes` (once no recording is under way, minimum
and maximum are those of the recorded durations), `MetricsAreExact`, of which that is a
part, and `PercentilesAreSound`. The trace
needs `RingInv` (the span with number *i* is in slot *(i - 1)* mod capacity as long as
fewer than a capacity of spans came after it; lemmas about remainders show that a push
overwrites no other such span) and `QuiescentInv`. The extremes need `BoundInv`, because
a recorder's compare-and-swap loop gives up as soon as it has read a value beyond its
own: a bound is a recorded duration (`Genuine`), lies beyond all whose recorder is past
it (`Covering`), and has only moved outwards since a recorder read it (`Monotone`).

The counts and the sum need `MetricsInv`: there is an assignment of places in `records`
to the recorders under way, no two the same, such that each counter and bucket accounts
for all places but those whose recorder has not come to it (`Accounted`); the sum is
that of the durations with these places masked, and lemmas on `Sums` say what one more
or one less masked place changes. A percentile needs `SnapshotInv`: while a snapshot is undisturbed,
every field it has read still has the value read, so at the end it is a snapshot of
`records`. Then the bucket in which the running total reaches the rank is the bucket of
the duration in that place of their order (`RankedBucket`), and the interpolation within
it grows with the rank (`PercentileGrows`), across buckets because their limits are
ordered.

`DefinitionProofs` is about what happens to a definition before anything runs. The
state machines are shallow there and the algorithms deep; each loop has an invariant.

- *The order* (`ValidateExactHolds`, `OrderFeedsDriverHolds`, `BuiltFeedsReactorHolds`,
  for definitions of any size). `KahnInv`: order and queue together list stages without
  repetition, exactly those of degree 0, those without inputs first; the degree of a
  stage counts its connections from stages not yet in the order; and whatever is in the
  order comes behind all that feeds it. `RelaxInv` says the same in the middle of a turn.
  A turn moves one stage to the order, so as many turns as stages empty the queue, and
  the stages left over each have an input from another one left over (`OrderComplete`):
  the order is complete exactly when no set of stages feeds itself. The marking is the
  least set that has the sources and what its members feed (`ReachableIsFed`).
- *The cycles* (`ReportedCycleRealHolds`, for any size and any order of the map). Both
  searches are instances of one (`SearchInv`): the stack is a path without repetition,
  nodes done lead only to nodes done and, from a node under way, the arcs already looked
  at lead to nodes done or to the next on the stack; no set of nodes done feeds itself
  (`Grounded`). So an arc back to the stack closes a cycle (`BackArc`), and a search that
  ends without one has done every node (`AllDone`), and there is none. That the turns
  suffice takes a measure: `Done`, the nodes begun, the arcs looked at and the nodes left,
  grows with every turn (`Grew`) and has at most as many members as there are turns.
  The linker adds that its path is the stack (`DfsInv`), the builder that the parent
  of a node on the stack is the node below it (`ColorInv`), so that tracing the parents
  follows the stack down (`TracedPath`), and that starting only from nodes the sort left
  over misses none.
- *The linker and the contracts* (`LinkExactHolds`, `PipelineSoundHolds`). With these,
  the conditions on connections and the empty report are those of a composed pipeline
  (`ComposedExact`); an import resolves exactly when the host or one connection brings it
  (`ResolveExact`); all versions of a package agree with the first exactly when every two
  agree (`VersionsExact`), which needs that there is a first; and the comparison across
  the connections is of the packages that meet there (`InheritsExact`, `MeetingFits`).
- *The comparison* (`BreakingExact`, `UpgradesCompose`, `AdditionsExact`,
  `CompatibilityExactHolds`, for every two packages the parser can deliver). There is no
  state: one lemma per comparison says when its changes contain a breaking one, or an
  addition, and the theorems follow the structure of a package. A chain of upgrades none
  of which is breaking has no breaking pair. All this is proved with `Fits`; what serves
  also fits (`ServesFits`), so a version judged breaking really fails a client.
  The subtle case is a name that is a resource in one version and another type in the other: the two are compared in different maps,
  and it is missing from one of them. `WellFormed`, the hypothesis, is checked of the
  run's packages by an `ASSUME` (`VersionAssumption`, `CarriedAssumption`).

Every definition submitted in `topology` is a `Definition` (`SubmittedAreDefinitions`)
and every step of that run but the comparison is one of `AssembleNext`, so the run is an
instance of what is proved.

The library's induction theorems take an operator as a parameter, which the installed
provers cannot instantiate. `NaturalRecursion` restates what is needed of them with sets
and functions: a property is the set of the numbers that have it, and a recursion is given by
the function of one step. This is why the loops of these modules are recursive functions
over `0..n` with one turn per step, and no fold or `RECURSIVE` operator is used.

The parts of the inductive invariants that stand in the components' modules were
checked by TLC on the runs' instances before they were proved.

Only model-checked: liveness (`CancelTerminates`, `FlowTerminates`, `CallsReturn`,
`WaitEnds`), which the prover does not handle; and `DrainNeverStuck` where a processor
writes to a stream with room for one, where it depends on the topology. All other
properties of passing runs are theorems as well. The type invariants of
`ResourceManager` and `Reactor` are proved and not repeated in a run.

## 5. Plan

Done: `Topology`, `FlowDriver`, `TierPool` with `FreeList`; `ResourceManager` with
`LinearOwnership`; `BufferFlow`; `Reactor` with the host; `PipelineBuilder` and
`Linker` with `Submission` and `Assembly`; `Compatibility`, `VersionCheck` and
`ContractLinker`; `Collector`; the runs and proofs above. No safety property of a
passing run is left to prove, except `DrainNeverStuck` without its hypothesis.

Left, in this order:

1. the commands `QueryFlowState` and the coordinator's end when all handles are
   gone;
2. `shutdown_pipeline`, the copy ledger and the event queue of observability;
3. the precedence of configured queue depths and policies: at present
   `[runtime.backpressure]` and the defaults of a flow are parsed and validated, and
   nothing reads them (`FlowConfig::default_with_topology` uses constants), where
   `docs/src/reference/configuration.md:111` says they apply;
4. the artifact cache and the compiled-component cache, once something calls them
   (the former writes the manifest, by which it recognises an artifact, before the
   other files, so a crash leaves an incomplete artifact that counts as cached).

## 6. Not modelled

- *Text*: parsing, validation and formatting of configuration, WIT, manifests,
  capabilities and patterns (config, contracts, packaging, security, CLI). Their results enter the models as parameters; without the texts nothing
  of these parts is left to check. They, error types and unit tests are the larger
  part of the repository's lines.
- *I/O*: OCI, signing, files, exporters.
- *Wasmtime*: a guest is arbitrary code that returns, fails or times out.
- *Data and time*: payload bytes, durations, sizes of buffers within a tier.
- *Memory ordering* weaker than sequential consistency, for the pool and the
  histogram; the repository's loom tests are about the former.
- *Code without callers*: `push_with_policy`, the two caches, `deregister_flow`.

The reasons part by part are in `PROJECT.json`.
