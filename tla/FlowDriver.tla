----------------------------- MODULE FlowDriver -----------------------------
(***************************************************************************)
(* One flow of the reactor: FlowDriver::run of torvyn-reactor, with the    *)
(* streams it owns (StreamState), the consumer-first scheduler             *)
(* (DemandDrivenPolicy) and the shared cancellation token                  *)
(* (FlowCancellation).                                                     *)
(*                                                                         *)
(* The driver is one task, so its own steps are sequential.  What runs     *)
(* beside it is the operator, whose cancel() writes the token in two       *)
(* atomic steps, and the clock.  A component call is an await, and is      *)
(* therefore two steps here: BeginStage (the scheduling decision and, for  *)
(* a consumer, the pop) and one of the outcome actions.                    *)
(*                                                                         *)
(* Stages are numbered 1..NumStages and streams 1..NumStreams in the order *)
(* of FlowTopology.stages and FlowTopology.connections; Pos gives a        *)
(* stage's place in topological_order() (module Topology).  The payload of *)
(* an element is left out: an element is its stream sequence number and    *)
(* the sequence number it got at its source.                               *)
(***************************************************************************)
EXTENDS Integers, Sequences, FiniteSets

CONSTANTS
  NumStages,     \* number of stages
  NumStreams,    \* number of streams (connections)
  Role,          \* ComponentRole of each stage
  From, To,      \* producing and consuming stage of each stream
  Pos,           \* place of each stage in the topological order
  Capacity,      \* queue capacity of each stream
  LowWatermark,  \* low_watermark_depth() of each stream
  ErrorPolicy,   \* the error policies a flow may be configured with
  HasDeadline,   \* whether TimeoutConfig.flow_deadline is set
  MaxPulls       \* bound: elements a source produces before it ends

Stage  == 1..NumStages
Stream == 1..NumStreams

Inputs(k)  == {s \in Stream : To[s] = k}
Outputs(k) == {s \in Stream : From[s] = k}

Roles    == {"Source", "Processor", "Filter", "Router", "Sink"}
Policies == {"FailFast", "SkipElement", "LogAndContinue", "Retry"}

(* The shape of a flow that FlowTopology::validate and the pipeline        *)
(* validator accept; Pos is what topological_order() guarantees.           *)
ASSUME TopologyAssumption ==
  /\ NumStages \in Nat /\ NumStreams \in Nat
  /\ Role \in [Stage -> Roles]
  /\ From \in [Stream -> Stage] /\ To \in [Stream -> Stage]
  /\ Pos \in [Stage -> 1..NumStages]
  /\ \A j, k \in Stage : Pos[j] = Pos[k] => j = k
  /\ \A s \in Stream : Pos[From[s]] < Pos[To[s]]
  /\ \A j, k \in Stage : Role[j] = "Source" /\ Role[k] # "Source" => Pos[j] < Pos[k]
  /\ \A k \in Stage : Role[k] = "Source" <=> Inputs(k) = {}
  /\ \A k \in Stage : Role[k] = "Sink" <=>
                        Outputs(k) = {} /\ Role[k] # "Source"

ASSUME ConfigAssumption ==
  /\ Capacity \in [Stream -> Nat \ {0}]
  /\ LowWatermark \in [Stream -> Nat]
  /\ ErrorPolicy \subseteq Policies
  /\ HasDeadline \in BOOLEAN
  /\ MaxPulls \in Nat

VARIABLES
  \* StreamState, per stream
  queue,         \* the bounded queue
  demand,        \* demand credits
  active,        \* backpressure is Active
  complete,      \* producer_complete
  \* FlowDriver
  state,         \* FlowState
  pc,            \* where the driver's task is suspended
  scan,          \* stage index of the loop in propagate_producer_complete
  current,       \* stage being invoked, 0 when none
  inHand,        \* element popped for the invocation in progress
  nextSeq,       \* next_global_sequence
  pending,       \* streams whose source is still to hear of a transition
  told,          \* the source of a stream was last told to pause
  \* FlowCancellation, and the operator that calls cancel()
  reason, cancelled, operator,
  deadline,      \* the flow deadline has elapsed
  policy,        \* the flow's ErrorPolicy
  \* history
  sent,          \* elements handed to each stream by its producer
  taken,         \* elements removed from each stream by its consumer
  fate           \* how elements left the pipeline

streamVars == <<queue, demand, active, complete>>
driverVars == <<state, pc, scan, current, inHand, nextSeq>>
notifyVars == <<pending, told>>
cancelVars == <<reason, cancelled>>
history    == <<sent, taken, fate>>
vars == <<streamVars, driverVars, notifyVars, cancelVars, operator, deadline,
          policy, history>>

Elements(q) == {q[i] : i \in DOMAIN q}

Elem     == [seq : Nat, origin : Nat]
NoElem   == [seq |-> -1, origin |-> -1]
Terminal == {"Completed", "Cancelled", "Failed"}
Reasons  == {"SourceComplete", "OperatorRequest", "Timeout", "DownstreamError"}
Fates    == {"delivered", "filtered", "errored", "discarded"}

TypeOK ==
  /\ queue \in [Stream -> Seq(Elem)]
  /\ demand \in [Stream -> Nat]
  /\ active \in [Stream -> BOOLEAN]
  /\ complete \in [Stream -> BOOLEAN]
  /\ state \in {"Instantiated", "Running", "Draining"} \cup Terminal
  /\ pc \in {"start", "select", "invoke", "notify", "propagate", "wait", "done"}
  /\ scan \in 1..(NumStages + 1)
  /\ current \in 0..NumStages
  /\ inHand \in Elem \cup {NoElem}
  /\ nextSeq \in Nat
  /\ pending \in SUBSET Stream
  /\ told \in [Stream -> BOOLEAN]
  /\ reason \in Reasons \cup {"None"}
  /\ cancelled \in BOOLEAN
  /\ operator \in {"idle", "storing", "done"}
  /\ deadline \in BOOLEAN
  /\ policy \in ErrorPolicy
  /\ sent \in [Stream -> Seq(Elem)]
  /\ taken \in [Stream -> Seq(Elem)]
  /\ fate \in SUBSET [origin : Nat, kind : Fates]

-----------------------------------------------------------------------------
(* StreamState and the demand and backpressure functions.                  *)

(* Definitions named "...Mutant" are deliberately wrong variants of the     *)
(* definition that follows them; no specification uses them.               *)
ProducerCanProduceMutant(s) ==
  demand[s] > 0 /\ Len(queue[s]) # Capacity[s] /\ ~active[s]

ProducerCanProduce(s) ==
  /\ ~complete[s]
  /\ demand[s] > 0
  /\ Len(queue[s]) # Capacity[s]
  /\ ~active[s]

ConsumerHasInput(s) == queue[s] # <<>>

IsComplete(s) == complete[s] /\ queue[s] = <<>>

ReplenishDemandMutant(d) == d

ReplenishDemand(d) == d + 1

ConsumeDemand(d) == IF d > 0 THEN d - 1 ELSE 0

PushMutant(s, e) == IF Len(queue[s]) + 1 >= Capacity[s] THEN queue[s]
                                                       ELSE Append(queue[s], e)

(* BoundedQueue::push, whose Full result every caller in the driver        *)
(* ignores: the element is lost.                                           *)
Push(s, e) == IF Len(queue[s]) = Capacity[s] THEN queue[s]
                                             ELSE Append(queue[s], e)

ActivatesLateMutant(len, cap, low, act) ==
  IF act THEN len > low ELSE len > cap

(* The backpressure state after check_backpressure_transition.             *)
CheckTransition(len, cap, low, act) ==
  IF act THEN len > low ELSE len >= cap

-----------------------------------------------------------------------------
(* DemandDrivenPolicy::next_ready_stage.                                   *)

HasInput(k)        == \E s \in Inputs(k) : ConsumerHasInput(s)
AllCanProduce(k)   == \A s \in Outputs(k) : ProducerCanProduce(s)
SomeCanProduce(k)  == \E s \in Outputs(k) : ProducerCanProduce(s)

Ready(k) ==
  \/ Role[k] \in {"Sink", "Filter"} /\ HasInput(k)
  \/ Role[k] = "Processor" /\ HasInput(k) /\ AllCanProduce(k)
  \/ Role[k] = "Router" /\ HasInput(k) /\ SomeCanProduce(k)
  \/ Role[k] = "Source" /\ SomeCanProduce(k)

ProducersFirstMutant(k) ==
  /\ Ready(k)
  /\ \A j \in Stage : Pos[j] < Pos[k] => ~Ready(j)

(* The scheduler walks the topological order backwards and returns the     *)
(* first ready stage.                                                      *)
Selected(k) ==
  /\ Ready(k)
  /\ \A j \in Stage : Pos[j] > Pos[k] => ~Ready(j)

NoneReady == \A k \in Stage : ~Ready(k)

(* The first of the stage's input streams that holds an element.           *)
SelectedInput(k, s) ==
  /\ s \in Inputs(k) /\ ConsumerHasInput(s)
  /\ \A t \in Inputs(k) : ConsumerHasInput(t) => s <= t

FirstOutput(k, s) ==
  /\ s \in Outputs(k)
  /\ \A t \in Outputs(k) : s <= t

-----------------------------------------------------------------------------
(* FlowCancellation.                                                       *)

RecordReason(r) == reason' = IF reason = "None" THEN r ELSE reason

FlagOnlyMutant(r) == cancelled' = TRUE /\ UNCHANGED reason

Cancel(r) == RecordReason(r) /\ cancelled' = TRUE

OnlyWhenIdleMutant == cancelled /\ NoneReady

IsCancelled == cancelled

(* cancel() from another task: the reason first, then the flag.            *)
OperatorCancel ==
  /\ operator = "idle"
  /\ operator' = "storing"
  /\ RecordReason("OperatorRequest")
  /\ UNCHANGED <<streamVars, driverVars, notifyVars, cancelled, deadline,
                 policy, history>>

OperatorStoreFlag ==
  /\ operator = "storing"
  /\ operator' = "done"
  /\ cancelled' = TRUE
  /\ UNCHANGED <<streamVars, driverVars, notifyVars, reason, deadline, policy,
                 history>>

DeadlineElapses ==
  /\ HasDeadline /\ ~deadline /\ state = "Running"
  /\ deadline' = TRUE
  /\ UNCHANGED <<streamVars, driverVars, notifyVars, cancelVars, operator,
                 policy, history>>

-----------------------------------------------------------------------------
(* FlowDriver::run.                                                        *)

Init ==
  /\ queue = [s \in Stream |-> <<>>]
  /\ demand = [s \in Stream |-> Capacity[s]]
  /\ active = [s \in Stream |-> FALSE]
  /\ complete = [s \in Stream |-> FALSE]
  /\ state = "Instantiated"
  /\ pc = "start"
  /\ scan = 1
  /\ current = 0
  /\ inHand = NoElem
  /\ nextSeq = 0
  /\ pending = {}
  /\ told = [s \in Stream |-> FALSE]
  /\ reason = "None"
  /\ cancelled = FALSE
  /\ operator = "idle"
  /\ deadline = FALSE
  /\ policy \in ErrorPolicy
  /\ sent = [s \in Stream |-> <<>>]
  /\ taken = [s \in Stream |-> <<>>]
  /\ fate = {}

Start ==
  /\ pc = "start"
  /\ state' = "Running"
  /\ pc' = "select"
  /\ UNCHANGED <<streamVars, scan, current, inHand, nextSeq, cancelVars,
                 operator, deadline, notifyVars, history>>

CompletesAllMutant ==
  /\ state' = "Draining"
  /\ pc' = "select"
  /\ complete' = [s \in Stream |-> TRUE]

(* Leaving the main loop: Draining, and no source is pulled any more.      *)
EnterDrain ==
  /\ state' = "Draining"
  /\ pc' = "select"
  /\ complete' = [s \in Stream |-> complete[s] \/ Inputs(From[s]) = {}]

(* Step 1 of the main loop.                                                *)
ObserveCancel ==
  /\ state = "Running" /\ pc = "select" /\ IsCancelled
  /\ EnterDrain
  /\ UNCHANGED <<queue, demand, active, scan, current, inHand, nextSeq,
                 cancelVars, operator, deadline, notifyVars, history>>

(* Taking the input element of a processor or sink: pop, then a credit     *)
(* back to the producer.                                                   *)
TakeInput(k, s) ==
  /\ SelectedInput(k, s)
  /\ inHand' = Head(queue[s])
  /\ queue' = [queue EXCEPT ![s] = Tail(@)]
  /\ demand' = [demand EXCEPT ![s] = ReplenishDemand(@)]
  /\ taken' = [taken EXCEPT ![s] = Append(@, Head(queue[s]))]

(* Step 2: scheduling, and the invocation is started.  The main loop gets  *)
(* here only when not cancelled; the drain loop does not look.             *)
BeginStage(k) ==
  /\ pc = "select"
  /\ state = "Draining" \/ (state = "Running" /\ ~IsCancelled)
  /\ Selected(k)
  /\ current' = k
  /\ pc' = "invoke"
  /\ \/ Role[k] = "Source" /\ UNCHANGED <<inHand, queue, demand, taken>>
     \/ Role[k] # "Source" /\ \E s \in Stream : TakeInput(k, s)
  /\ UNCHANGED <<active, complete, state, scan, nextSeq, cancelVars, operator,
                 deadline, notifyVars, sent, fate>>

Invoking(roles) == pc = "invoke" /\ Role[current] \in roles

(* Enqueue one element with this origin on each stream of outs, in stream  *)
(* order.                                                                  *)
NewElement(outs, s, origin) ==
  [seq |-> nextSeq + Cardinality({t \in outs : t < s}), origin |-> origin]

Emit(outs, origin) ==
  /\ queue' = [s \in Stream |-> IF s \in outs
                                THEN Push(s, NewElement(outs, s, origin))
                                ELSE queue[s]]
  /\ demand' = [s \in Stream |-> IF s \in outs THEN ConsumeDemand(demand[s])
                                               ELSE demand[s]]
  /\ sent' = [s \in Stream |-> IF s \in outs
                               THEN Append(sent[s], NewElement(outs, s, origin))
                               ELSE sent[s]]
  /\ nextSeq' = nextSeq + Cardinality(outs)

CheckBackpressureAll ==
  active' = [s \in Stream |-> CheckTransition(Len(queue'[s]), Capacity[s],
                                              LowWatermark[s], active[s])]

(* The transitions that notify_producers passes on: only a source has the  *)
(* notify-backpressure hook.                                               *)
Transitions ==
  {s \in Stream : active'[s] # active[s] /\ Role[From[s]] = "Source"}

(* The invocation has returned and the flow goes on: the main loop         *)
(* re-evaluates backpressure on every stream, the drain loop does not.     *)
Continue ==
  /\ current' = 0
  /\ inHand' = NoElem
  /\ \/ state = "Running" /\ CheckBackpressureAll
     \/ state = "Draining" /\ UNCHANGED active
  /\ pending' = Transitions
  /\ pc' = IF pending' = {} THEN "select" ELSE "notify"
  /\ UNCHANGED <<state, scan, told, cancelVars, operator, deadline, taken>>

(* notify_producers: one guest call per transition, in stream order.  A    *)
(* call that fails is logged and otherwise counts as made.                 *)
NotifyProducer ==
  /\ pc = "notify"
  /\ \E s \in pending :
       /\ \A t \in pending : s <= t
       /\ told' = [told EXCEPT ![s] = active[s]]
       /\ pending' = pending \ {s}
  /\ pc' = IF pending' = {} THEN "select" ELSE "notify"
  /\ UNCHANGED <<streamVars, state, scan, current, inHand, nextSeq, cancelVars,
                 operator, deadline, history>>

Settle(kind) == fate' = fate \cup {[origin |-> inHand.origin, kind |-> kind]}

(* execute_pull returned an element: it goes to the first output only.     *)
PullElement ==
  /\ Invoking({"Source"})
  /\ \E s \in Stream : /\ FirstOutput(current, s)
                       /\ Len(sent[s]) < MaxPulls
                       /\ Emit({s}, nextSeq)
  /\ UNCHANGED <<complete, fate>>
  /\ Continue

(* execute_pull returned None: every output of the source is complete.     *)
PullNone ==
  /\ Invoking({"Source"})
  /\ complete' = [s \in Stream |-> complete[s] \/ From[s] = current]
  /\ UNCHANGED <<queue, demand, nextSeq, sent, fate>>
  /\ Continue

(* execute_process returned one output, again for the first stream only.   *)
ProcessOutput ==
  /\ Invoking({"Processor", "Filter", "Router"})
  /\ \E s \in Stream : FirstOutput(current, s) /\ Emit({s}, inHand.origin)
  /\ UNCHANGED <<complete, fate>>
  /\ Continue

(* ... or several: the i-th output goes to the i-th stream, so the streams *)
(* that receive one are a prefix of the stage's outputs (an empty list     *)
(* changes what ProcessFiltered changes, and outputs beyond the last       *)
(* stream are dropped).                                                    *)
ProcessMultiple ==
  /\ Invoking({"Processor", "Filter", "Router"})
  /\ \E last \in Outputs(current) :
        Emit({s \in Outputs(current) : s <= last}, inHand.origin)
  /\ UNCHANGED <<complete, fate>>
  /\ Continue

ProcessFiltered ==
  /\ Invoking({"Processor", "Filter", "Router"})
  /\ Settle("filtered")
  /\ UNCHANGED <<queue, demand, complete, nextSeq, sent>>
  /\ Continue

(* execute_push succeeded.                                                 *)
PushDelivered ==
  /\ Invoking({"Sink"})
  /\ Settle("delivered")
  /\ UNCHANGED <<queue, demand, complete, nextSeq, sent>>
  /\ Continue

(* The component returned an error or missed component_invocation_timeout: *)
(* the element in hand is gone.  FailFast leaves the main loop at once;    *)
(* the other policies (Retry included) and the drain loop go on.           *)
StageFailed ==
  /\ pc = "invoke"
  /\ IF Role[current] = "Source" THEN UNCHANGED fate ELSE Settle("errored")
  /\ UNCHANGED <<queue, demand, nextSeq, sent>>
  /\ \/ /\ state = "Running" /\ policy = "FailFast"
        /\ Cancel("DownstreamError")
        /\ EnterDrain
        /\ current' = 0
        /\ inHand' = NoElem
        /\ UNCHANGED <<active, scan, operator, deadline, notifyVars, taken>>
     \/ /\ state = "Draining" \/ policy # "FailFast"
        /\ Continue
        /\ UNCHANGED complete

(* No stage is ready: propagate_producer_complete, one stage per step...   *)
BeginPropagate ==
  /\ state = "Running" /\ pc = "select" /\ ~IsCancelled
  /\ NoneReady
  /\ pc' = "propagate"
  /\ scan' = 1
  /\ UNCHANGED <<streamVars, state, current, inHand, nextSeq, cancelVars,
                 operator, deadline, notifyVars, history>>

OneTooManyMutant == scan <= NumStages + 1

StageLeft == scan <= NumStages

PropagateStage ==
  /\ pc = "propagate" /\ StageLeft
  /\ scan' = scan + 1
  /\ complete' =
       [s \in Stream |->
          \/ complete[s]
          \/ /\ From[s] = scan
             /\ Inputs(scan) # {}
             /\ \A t \in Inputs(scan) : IsComplete(t)]
  /\ UNCHANGED <<queue, demand, active, state, pc, current, inHand, nextSeq,
                 cancelVars, operator, deadline, notifyVars, history>>

(* ... then either the flow is finished ...                                *)
AllStreamsComplete ==
  /\ pc = "propagate" /\ ~StageLeft
  /\ \A s \in Stream : IsComplete(s)
  /\ scan' = 1
  /\ Cancel("SourceComplete")
  /\ EnterDrain
  /\ UNCHANGED <<queue, demand, active, current, inHand, nextSeq, operator,
                 deadline, notifyVars, history>>

(* ... or the driver waits for a cancellation, the deadline or 50us.       *)
BeginWait ==
  /\ pc = "propagate" /\ ~StageLeft
  /\ \E s \in Stream : ~IsComplete(s)
  /\ pc' = "wait"
  /\ scan' = 1
  /\ UNCHANGED <<streamVars, state, current, inHand, nextSeq, cancelVars,
                 operator, deadline, notifyVars, history>>

WaitCancelled ==
  /\ pc = "wait" /\ IsCancelled
  /\ EnterDrain
  /\ UNCHANGED <<queue, demand, active, scan, current, inHand, nextSeq,
                 cancelVars, operator, deadline, notifyVars, history>>

WaitDeadline ==
  /\ pc = "wait" /\ deadline
  /\ Cancel("Timeout")
  /\ EnterDrain
  /\ UNCHANGED <<queue, demand, active, scan, current, inHand, nextSeq,
                 operator, deadline, notifyVars, history>>

WaitElapsed ==
  /\ pc = "wait"
  /\ pc' = "select"
  /\ UNCHANGED <<streamVars, state, scan, current, inHand, nextSeq,
                 cancelVars, operator, deadline, notifyVars, history>>

(* The terminal state follows the reason read on leaving the main loop;    *)
(* the token already has one by then and keeps it.                         *)
TerminalState ==
  CASE reason \in {"SourceComplete", "None"} -> "Completed"
    [] reason = "OperatorRequest" -> "Cancelled"
    [] OTHER -> "Failed"

(* The drain loop stops when nothing is ready or drain_timeout has passed  *)
(* (any iteration may find it has); what is left is discarded.             *)
FinishDrain ==
  /\ state = "Draining" /\ pc = "select"
  /\ queue' = [s \in Stream |-> <<>>]
  /\ fate' = fate \cup {[origin |-> e.origin, kind |-> "discarded"] :
                           e \in UNION {Elements(queue[s]) : s \in Stream}}
  /\ state' = TerminalState
  /\ pc' = "done"
  /\ UNCHANGED <<demand, active, complete, scan, current, inHand, nextSeq,
                 cancelVars, operator, deadline, notifyVars, sent, taken>>

(* A finished flow stays as it is.                                         *)
Finished == pc = "done" /\ UNCHANGED vars

(* Nothing changes the policy of a flow.                                   *)
Driver ==
  /\ \/ Start \/ ObserveCancel \/ \E k \in Stage : BeginStage(k)
     \/ PullElement \/ PullNone
     \/ ProcessOutput \/ ProcessMultiple \/ ProcessFiltered
     \/ PushDelivered \/ StageFailed \/ NotifyProducer
     \/ BeginPropagate \/ PropagateStage \/ AllStreamsComplete
     \/ BeginWait \/ WaitCancelled \/ WaitDeadline \/ WaitElapsed
     \/ FinishDrain
  /\ UNCHANGED policy

Next == Driver \/ OperatorCancel \/ OperatorStoreFlag \/ DeadlineElapses
        \/ Finished

Fairness == WF_vars(Driver) /\ WF_vars(OperatorStoreFlag)

Spec == Init /\ [][Next]_vars /\ Fairness
-----------------------------------------------------------------------------
(* Properties.                                                             *)

(* Demand credits and queued elements add up to the capacity of the stream *)
(* (consume_demand, replenish_demand, push and pop never drift apart), so  *)
(* a stream without credit is exactly a full one.                          *)
DemandConservation ==
  state \notin Terminal =>
    \A s \in Stream : demand[s] + Len(queue[s]) = Capacity[s]

(* While the flow runs every stream is a lossless FIFO channel: what its   *)
(* producer handed over is what its consumer has taken followed by what is *)
(* queued.  The driver ignores PushResult::Full, so this rests entirely on *)
(* the scheduler never running a producer whose output is full.            *)
LosslessFifo ==
  state = "Running" => \A s \in Stream : sent[s] = taken[s] \o queue[s]

(* Consumer-first scheduling never lets a queue grow: whatever its         *)
(* capacity, a running stream holds at most one element.                   *)
QueueDepthAtMostOne ==
  state = "Running" => \A s \in Stream : Len(queue[s]) <= 1

(* ... and the whole pipeline works on one source element at a time: all   *)
(* queued elements, and the one in hand, stem from the same pull.          *)
SingleElementInFlight ==
  state = "Running" =>
    Cardinality({queue[s][1].origin : s \in {t \in Stream : queue[t] # <<>>}}
                \cup (IF inHand = NoElem THEN {} ELSE {inHand.origin})) <= 1

(* At the top of the main loop the backpressure flag of every stream       *)
(* agrees with its depth (Active only above the low watermark or at        *)
(* capacity, Normal only below capacity or at the low watermark), and      *)
(* every source has been told the state its streams are in.                *)
BackpressureAccurate ==
  state = "Running" /\ pc = "select" =>
    \A s \in Stream :
      /\ IF active[s]
         THEN Len(queue[s]) > LowWatermark[s] \/ Len(queue[s]) = Capacity[s]
         ELSE Len(queue[s]) <= LowWatermark[s] \/ Len(queue[s]) < Capacity[s]
      /\ Role[From[s]] = "Source" => told[s] = active[s]

(* The main loop is never idle with work left: when the scheduler finds no *)
(* ready stage, every queue is empty and every source has ended, so the    *)
(* "wait for something to happen" branch never waits for an element.       *)
NoStall ==
  state = "Running" /\ pc = "select" /\ NoneReady =>
    \A s \in Stream : queue[s] = <<>> /\ (Inputs(From[s]) = {} => complete[s])

(* drain_queues stops on "Nothing left to process": when no stage is ready *)
(* during the drain, no element is left to discard.  It depends on the     *)
(* topology: behind a flag left Active at drain entry an element stays if  *)
(* another of its origin went ahead of it through the same stage.          *)
DrainNeverStuck ==
  state = "Draining" /\ pc = "select" /\ NoneReady =>
    \A s \in Stream : queue[s] = <<>>

(* Nothing is enqueued on a stream whose producer has signalled            *)
(* completion, and completion is never taken back.                         *)
NoEmissionAfterComplete ==
  [][\A s \in Stream : complete[s] => sent'[s] = sent[s] /\ complete'[s]]_vars

(* A flow that reports Completed has finished: every source has ended,     *)
(* every element pulled was delivered to a sink, filtered out or (unless   *)
(* FailFast) skipped after an error, and nothing was discarded.            *)
CompletionSound ==
  state = "Completed" =>
    /\ \A s \in Stream : complete[s]
    /\ \A s \in Stream : Inputs(From[s]) = {} =>
         \A i \in DOMAIN sent[s] : \E f \in fate : f.origin = sent[s][i].origin
    /\ \A f \in fate : /\ f.kind # "discarded"
                       /\ policy = "FailFast" => f.kind # "errored"

(* Once the cancellation flag is stored the flow reaches a terminal state, *)
(* whatever its components do.                                             *)
CancelTerminates == cancelled ~> state \in Terminal

(* With sources that end, a flow reaches a terminal state by itself, unless *)
(* its policy goes on after errors and its components never cease to fail. *)
FlowTerminates ==
  \/ <>(state \in Terminal)
  \/ policy # "FailFast" /\ []<><<StageFailed>>_vars

(* TimeoutConfig documents flow_deadline as the "maximum wall-clock        *)
(* duration for the entire flow": once it has elapsed, run leaves its main *)
(* loop.                                                                   *)
DeadlineEndsFlow == deadline ~> state # "Running"
-----------------------------------------------------------------------------
(* The inductive strengthening that module FlowDriverProofs proves.        *)

Early == state \in {"Instantiated", "Running"}

(* Which suspension points belong to which FlowState.                      *)
PhaseInv ==
  /\ pc = "start" <=> state = "Instantiated"
  /\ pc = "done" <=> state \in Terminal
  /\ pc \in {"notify", "propagate", "wait"} => state = "Running"

InvokeInv ==
  pc = "invoke" => /\ current \in Stage
                   /\ Role[current] # "Source" => inHand \in Elem

(* The backpressure flag fits the depth wherever no invocation is under    *)
(* way, and a source knows its flags unless it is about to be told.        *)
BackpressureInv ==
  Early =>
    /\ pc # "invoke" => \A s \in Stream :
         IF active[s]
         THEN Len(queue[s]) > LowWatermark[s] \/ Len(queue[s]) = Capacity[s]
         ELSE Len(queue[s]) <= LowWatermark[s] \/ Len(queue[s]) < Capacity[s]
    /\ pc # "notify" => pending = {}
    /\ \A s \in Stream : Role[From[s]] = "Source" /\ s \notin pending
                            => told[s] = active[s]

(* Outputs of a stage complete together, and only behind complete inputs;  *)
(* a stage that is being invoked has not completed its outputs.            *)
CompletionInv ==
  /\ \A s, t \in Stream : From[s] = From[t] => complete[s] = complete[t]
  /\ \A s, t \in Stream : complete[s] /\ To[t] = From[s] => IsComplete(t)
  /\ pc = "invoke" => \A s \in Outputs(current) : ~complete[s]

(* Nothing is queued downstream of the stage that is being invoked.        *)
DownstreamInv ==
  Early =>
    /\ \A s \in Stream : Len(queue[s]) <= 1
    /\ pc = "invoke" =>
         \A s \in Stream : Pos[To[s]] > Pos[current] => queue[s] = <<>>

FifoInv == Early => \A s \in Stream : sent[s] = taken[s] \o queue[s]

(* What is queued or in hand stems from one pull, and nothing is in hand   *)
(* unless a consumer is being invoked.                                     *)
OneOrigin(o) ==
  /\ \A s \in Stream : \A i \in DOMAIN queue[s] : queue[s][i].origin = o
  /\ inHand # NoElem => inHand.origin = o

InFlightInv ==
  Early => /\ \E o \in Nat : OneOrigin(o)
           /\ pc # "invoke" \/ Role[current] = "Source" => inHand = NoElem

IndInv ==
  /\ TypeOK /\ PhaseInv /\ InvokeInv /\ DemandConservation
  /\ BackpressureInv /\ CompletionInv /\ DownstreamInv /\ FifoInv
  /\ InFlightInv

(* A stream that has room for two elements never signals backpressure.     *)
QuietInv == \A s \in Stream : Capacity[s] > 1 => ~active[s]

(* The first reason stays.  There is one as soon as anybody cancels, and   *)
(* the driver has left its main loop only with one.                        *)
ReasonInv ==
  /\ cancelled \/ operator # "idle" \/ ~Early => reason # "None"
  /\ state = "Completed" => reason = "SourceComplete"

SourceStream == {s \in Stream : Inputs(From[s]) = {}}

Settled(o) == \E f \in fate : f.origin = o

CleanFates ==
  \A f \in fate : /\ f.kind # "discarded"
                  /\ policy = "FailFast" => f.kind # "errored"

(* In the main loop, something of each element pulled is queued or in      *)
(* hand unless its fate is known.                                          *)
Underway(o) ==
  \/ \E t \in Stream : \E j \in DOMAIN queue[t] : queue[t][j].origin = o
  \/ inHand # NoElem /\ inHand.origin = o

AccountInv ==
  Early =>
    /\ CleanFates
    /\ \A s \in SourceStream : \A i \in DOMAIN sent[s] :
         Settled(sent[s][i].origin) \/ Underway(sent[s][i].origin)

(* A flow that ends because its sources have finds nothing to drain.       *)
EndInv ==
  reason = "SourceComplete" =>
    /\ ~Early /\ pc # "invoke"
    /\ \A s \in Stream : IsComplete(s)
    /\ \A s \in SourceStream : \A i \in DOMAIN sent[s] : Settled(sent[s][i].origin)
    /\ CleanFates
=============================================================================
