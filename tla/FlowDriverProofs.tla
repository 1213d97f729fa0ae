-------------------------- MODULE FlowDriverProofs --------------------------
(***************************************************************************)
(* Proofs about FlowDriver, for every topology, capacity and error policy. *)
(***************************************************************************)
EXTENDS FlowDriver, FiniteSetTheorems, SequenceTheorems,
        WellFoundedInduction, TLAPS

-----------------------------------------------------------------------------
(* Helpers.                                                                *)

(* Every non-empty set of naturals has a least element.                    *)
LEMMA LeastNatural ==
  ASSUME NEW T \in SUBSET Nat, T # {}
  PROVE  \E x \in T : \A y \in T : x <= y
<1>1. \E x \in T : \A y \in T : ~(<<y, x>> \in OpToRel(<, Nat))
  BY NatLessThanWellFounded, WFMin, Zenon
<1>2. PICK x \in T : \A y \in T : ~(<<y, x>> \in OpToRel(<, Nat))
  BY <1>1
<1>3. \A y \in T : ~(y < x)
  BY <1>2 DEF OpToRel
<1> QED BY <1>3

(* A set of streams is finite, so counting it gives a natural number.      *)
LEMMA StreamsCount ==
  ASSUME NEW outs \in SUBSET Stream
  PROVE  Cardinality(outs) \in Nat
<1>1. IsFiniteSet(Stream)
  BY FS_Interval, TopologyAssumption DEF Stream
<1> QED BY <1>1, FS_Subset, FS_CardinalityType

(* The elements that Emit enqueues are well typed.                         *)
LEMMA NewElementType ==
  ASSUME nextSeq \in Nat, NEW outs \in SUBSET Stream, NEW s, NEW origin \in Nat
  PROVE  NewElement(outs, s, origin) \in Elem
<1>1. Cardinality({t \in outs : t < s}) \in Nat
  BY StreamsCount
<1> QED BY <1>1 DEF NewElement, Elem

(* What Emit does to the streams, in terms of types.                       *)
LEMMA EmitType ==
  ASSUME TypeOK, NEW outs \in SUBSET Stream, NEW origin \in Nat,
         Emit(outs, origin)
  PROVE  /\ queue' \in [Stream -> Seq(Elem)]
         /\ demand' \in [Stream -> Nat]
         /\ sent' \in [Stream -> Seq(Elem)]
         /\ nextSeq' \in Nat
<1>1. \A s \in Stream : NewElement(outs, s, origin) \in Elem
  BY NewElementType DEF TypeOK
<1>2. \A s \in Stream : /\ Push(s, NewElement(outs, s, origin)) \in Seq(Elem)
                        /\ Append(sent[s], NewElement(outs, s, origin)) \in Seq(Elem)
  BY <1>1, AppendProperties DEF TypeOK, Push
<1>3. \A s \in Stream : ConsumeDemand(demand[s]) \in Nat
  BY DEF TypeOK, ConsumeDemand
<1>4. nextSeq' \in Nat
  <2>1. Cardinality(outs) \in Nat
    BY StreamsCount
  <2> QED BY <2>1 DEF TypeOK, Emit
<1> HIDE DEF NewElement, Push, ConsumeDemand, Elem
<1>5. queue' \in [Stream -> Seq(Elem)] /\ sent' \in [Stream -> Seq(Elem)]
  BY <1>2 DEF Emit, TypeOK
<1>6. demand' \in [Stream -> Nat]
  BY <1>3 DEF Emit, TypeOK
<1> QED BY <1>4, <1>5, <1>6

(* What Continue leaves behind once the queues are well typed.             *)
LEMMA ContinueType ==
  ASSUME TypeOK, queue' \in [Stream -> Seq(Elem)], Continue
  PROVE  /\ active' \in [Stream -> BOOLEAN]
         /\ pending' \in SUBSET Stream
         /\ pc' \in {"select", "notify"}
         /\ current' = 0
         /\ inHand' = NoElem
         /\ UNCHANGED <<state, scan, told, cancelVars, operator, deadline, taken>>
<1>1. active' \in [Stream -> BOOLEAN]
  <2>1. CASE CheckBackpressureAll
    <3>1. \A len, cap, low \in Nat, act \in BOOLEAN :
            CheckTransition(len, cap, low, act) \in BOOLEAN
      <4>1. \A a, b \in Nat : (a > b) \in BOOLEAN /\ (a >= b) \in BOOLEAN
        OBVIOUS
      <4> QED BY <4>1, Zenon DEF CheckTransition
    <3>2. \A s \in Stream : /\ Len(queue'[s]) \in Nat
                            /\ Capacity[s] \in Nat /\ LowWatermark[s] \in Nat
                            /\ active[s] \in BOOLEAN
      BY ConfigAssumption, LenProperties DEF TypeOK
    <3> QED BY <2>1, <3>1, <3>2 DEF CheckBackpressureAll
  <2>2. CASE UNCHANGED active
    BY <2>2 DEF TypeOK
  <2> QED BY <2>1, <2>2 DEF Continue
<1>2. pending' \in SUBSET Stream
  BY DEF Continue, Transitions
<1> QED BY <1>1, <1>2 DEF Continue

(* Continue finishes a well-typed state.                                   *)
LEMMA ContinueTypeOK ==
  ASSUME TypeOK, Continue, policy' = policy,
         queue' \in [Stream -> Seq(Elem)],
         demand' \in [Stream -> Nat],
         complete' \in [Stream -> BOOLEAN],
         sent' \in [Stream -> Seq(Elem)],
         nextSeq' \in Nat,
         fate' \in SUBSET [origin : Nat, kind : Fates]
  PROVE  TypeOK' /\ InvokeInv'
<1>1. /\ active' \in [Stream -> BOOLEAN]
      /\ pending' \in SUBSET Stream
      /\ pc' \in {"select", "notify"}
      /\ current' = 0
      /\ inHand' = NoElem
      /\ UNCHANGED <<state, scan, told, cancelVars, operator, deadline, taken>>
  BY ContinueType
<1> QED BY <1>1, TopologyAssumption DEF TypeOK, InvokeInv, cancelVars

(* Draining a flow keeps the completion flags Boolean.                     *)
LEMMA EnterDrainType ==
  ASSUME TypeOK, EnterDrain
  PROVE  /\ complete' \in [Stream -> BOOLEAN]
         /\ state' = "Draining"
         /\ pc' = "select"
  BY Zenon DEF TypeOK, EnterDrain

(* Recording the fate of a well-typed element is well typed.               *)
LEMMA SettleType ==
  ASSUME TypeOK, inHand \in Elem, NEW kind \in Fates, Settle(kind)
  PROVE  fate' \in SUBSET [origin : Nat, kind : Fates]
  BY DEF TypeOK, Settle, Elem

-----------------------------------------------------------------------------
(* Type correctness.  A process or push outcome reads the element in hand, *)
(* so InvokeInv is needed with TypeOK.                                     *)

(* A driver that has just been created is well typed.                      *)
LEMMA TypeInit == Init => TypeOK /\ InvokeInv
<1> SUFFICES ASSUME Init PROVE TypeOK /\ InvokeInv
  OBVIOUS
<1>1. InvokeInv
  BY DEF Init, InvokeInv
<1>2. /\ queue \in [Stream -> Seq(Elem)]
      /\ sent \in [Stream -> Seq(Elem)]
      /\ taken \in [Stream -> Seq(Elem)]
  BY EmptySeq DEF Init
<1>3. demand \in [Stream -> Nat] /\ scan \in 1..(NumStages + 1)
  BY ConfigAssumption, TopologyAssumption DEF Init
<1>4. /\ current \in 0..NumStages /\ nextSeq \in Nat
      /\ pending \in SUBSET Stream
      /\ fate \in SUBSET [origin : Nat, kind : Fates]
      /\ inHand \in Elem \cup {NoElem}
  BY TopologyAssumption DEF Init
<1>5. /\ active \in [Stream -> BOOLEAN]
      /\ complete \in [Stream -> BOOLEAN]
      /\ told \in [Stream -> BOOLEAN]
      /\ cancelled \in BOOLEAN /\ deadline \in BOOLEAN /\ policy \in ErrorPolicy
  BY DEF Init
<1> QED BY <1>1, <1>2, <1>3, <1>4, <1>5 DEF Init, TypeOK, Terminal, Reasons

(* The error policy of a flow is fixed when it is created.                 *)
LEMMA PolicyKept ==
  ASSUME [Next]_vars
  PROVE  policy' = policy
BY DEF Next, Driver, OperatorCancel, OperatorStoreFlag, DeadlineElapses, Finished, vars

(* Every step of run, of the operator and of the clock keeps the types.    *)
LEMMA TypeStep ==
  ASSUME TypeOK, InvokeInv, [Next]_vars
  PROVE  TypeOK' /\ InvokeInv'
<1> USE PolicyKept DEF Terminal, Reasons, Fates
<1>a. CASE UNCHANGED vars
  BY <1>a DEF vars, TypeOK, InvokeInv, streamVars, driverVars, cancelVars,
              notifyVars, history
<1>1. CASE Start
  BY <1>1 DEF Start, TypeOK, InvokeInv, streamVars, cancelVars, notifyVars, history
<1>2. CASE ObserveCancel
  BY <1>2, EnterDrainType DEF ObserveCancel, TypeOK, InvokeInv, cancelVars,
                              notifyVars, history
<1>3. ASSUME NEW k \in Stage, BeginStage(k) PROVE TypeOK' /\ InvokeInv'
  <2>1. CASE Role[k] = "Source" /\ UNCHANGED <<inHand, queue, demand, taken>>
    BY <1>3, <2>1 DEF BeginStage, TypeOK, InvokeInv, Stage, cancelVars, notifyVars
  <2>2. ASSUME NEW s \in Stream, TakeInput(k, s) PROVE TypeOK' /\ InvokeInv'
    <3>1. /\ Head(queue[s]) \in Elem
          /\ Tail(queue[s]) \in Seq(Elem)
      BY <2>2, HeadTailProperties DEF TypeOK, TakeInput, SelectedInput, ConsumerHasInput
    <3>2. /\ inHand' \in Elem
          /\ queue' \in [Stream -> Seq(Elem)]
      BY <2>2, <3>1 DEF TypeOK, TakeInput
    <3>3. demand' \in [Stream -> Nat]
      BY <2>2 DEF TypeOK, TakeInput, ReplenishDemand
    <3>4. Append(taken[s], Head(queue[s])) \in Seq(Elem)
      BY <3>1, AppendProperties DEF TypeOK
    <3>5. taken' \in [Stream -> Seq(Elem)]
      BY <2>2, <3>4 DEF TypeOK, TakeInput
    <3> QED BY <1>3, <3>2, <3>3, <3>5
            DEF BeginStage, TypeOK, InvokeInv, Stage, cancelVars, notifyVars
  <2> QED BY <1>3, <2>1, <2>2 DEF BeginStage
<1>4. CASE PullElement
  <2>1. PICK s \in Stream : Emit({s}, nextSeq)
    BY <1>4 DEF PullElement
  <2>2. /\ queue' \in [Stream -> Seq(Elem)]
        /\ demand' \in [Stream -> Nat]
        /\ sent' \in [Stream -> Seq(Elem)]
        /\ nextSeq' \in Nat
    <3>1. nextSeq \in Nat /\ {s} \in SUBSET Stream
      BY DEF TypeOK
    <3> QED BY <2>1, <3>1, EmitType
  <2>3. Continue /\ UNCHANGED <<complete, fate>>
    BY <1>4 DEF PullElement
  <2> QED BY <2>2, <2>3, ContinueTypeOK DEF TypeOK
<1>5. CASE PullNone
  <2>1. /\ Continue
        /\ UNCHANGED <<queue, demand, nextSeq, sent, fate>>
        /\ complete' \in [Stream -> BOOLEAN]
    BY <1>5 DEF PullNone, TypeOK
  <2> QED BY <2>1, ContinueTypeOK DEF TypeOK
<1>b. ASSUME Invoking({"Processor", "Filter", "Router", "Sink"})
      PROVE  inHand \in Elem /\ inHand.origin \in Nat
  BY <1>b DEF Invoking, InvokeInv, Elem
<1>6. CASE ProcessOutput
  <2>1. PICK s \in Stream : Emit({s}, inHand.origin)
    BY <1>6 DEF ProcessOutput
  <2>2. inHand.origin \in Nat /\ {s} \in SUBSET Stream
    BY <1>6, <1>b DEF ProcessOutput, Invoking
  <2>3. /\ queue' \in [Stream -> Seq(Elem)]
        /\ demand' \in [Stream -> Nat]
        /\ sent' \in [Stream -> Seq(Elem)]
        /\ nextSeq' \in Nat
    BY <2>1, <2>2, EmitType
  <2>4. Continue /\ UNCHANGED <<complete, fate>>
    BY <1>6 DEF ProcessOutput
  <2> QED BY <2>3, <2>4, ContinueTypeOK DEF TypeOK
<1>7. CASE ProcessMultiple
  <2>1. PICK last \in Outputs(current) :
              Emit({s \in Outputs(current) : s <= last}, inHand.origin)
    BY <1>7 DEF ProcessMultiple
  <2>2. /\ inHand.origin \in Nat
        /\ {s \in Outputs(current) : s <= last} \in SUBSET Stream
    BY <1>7, <1>b DEF ProcessMultiple, Invoking, Outputs
  <2>3. /\ queue' \in [Stream -> Seq(Elem)]
        /\ demand' \in [Stream -> Nat]
        /\ sent' \in [Stream -> Seq(Elem)]
        /\ nextSeq' \in Nat
    BY <2>1, <2>2, EmitType
  <2>4. Continue /\ UNCHANGED <<complete, fate>>
    BY <1>7 DEF ProcessMultiple
  <2> QED BY <2>3, <2>4, ContinueTypeOK DEF TypeOK
<1>8. CASE ProcessFiltered \/ PushDelivered
  <2>1. PICK kind \in Fates : Settle(kind)
    BY <1>8 DEF ProcessFiltered, PushDelivered
  <2>2. fate' \in SUBSET [origin : Nat, kind : Fates]
    BY <1>8, <1>b, <2>1, SettleType DEF ProcessFiltered, PushDelivered, Invoking
  <2>3. Continue /\ UNCHANGED <<queue, demand, complete, nextSeq, sent>>
    BY <1>8 DEF ProcessFiltered, PushDelivered
  <2> QED BY <2>2, <2>3, ContinueTypeOK DEF TypeOK
<1>9. CASE StageFailed
  <2>1. fate' \in SUBSET [origin : Nat, kind : Fates]
    <3>1. CASE Role[current] = "Source"
      BY <1>9, <3>1 DEF StageFailed, TypeOK
    <3>2. CASE Role[current] # "Source"
      BY <1>9, <3>2, SettleType DEF StageFailed, InvokeInv
    <3> QED BY <3>1, <3>2
  <2>2. UNCHANGED <<queue, demand, nextSeq, sent>>
    BY <1>9 DEF StageFailed
  <2>3. CASE /\ Cancel("DownstreamError") /\ EnterDrain
             /\ current' = 0 /\ inHand' = NoElem
             /\ UNCHANGED <<active, scan, operator, deadline, notifyVars, taken>>
    <3>1. /\ reason' \in Reasons \cup {"None"} /\ cancelled' \in BOOLEAN
          /\ current' \in 0..NumStages
      BY <2>3, TopologyAssumption DEF Cancel, RecordReason, TypeOK
    <3>2. /\ complete' \in [Stream -> BOOLEAN]
          /\ state' = "Draining" /\ pc' = "select"
      BY <2>3, EnterDrainType
    <3> QED BY <2>1, <2>2, <2>3, <3>1, <3>2 DEF TypeOK, InvokeInv, notifyVars
  <2>4. CASE Continue /\ UNCHANGED complete
    BY <2>1, <2>2, <2>4, ContinueTypeOK DEF TypeOK
  <2> QED BY <1>9, <2>3, <2>4 DEF StageFailed
<1>10. CASE NotifyProducer
  <2>1. /\ told' \in [Stream -> BOOLEAN] /\ pending' \in SUBSET Stream
        /\ pc' \in {"select", "notify"}
    BY <1>10 DEF NotifyProducer, TypeOK
  <2> QED BY <1>10, <2>1 DEF NotifyProducer, TypeOK, InvokeInv, streamVars,
                             cancelVars, history
<1>11. CASE BeginPropagate \/ BeginWait \/ WaitElapsed
  BY <1>11, TopologyAssumption
     DEF BeginPropagate, BeginWait, WaitElapsed, TypeOK, InvokeInv, streamVars, cancelVars, notifyVars, history
<1>12. CASE PropagateStage
  <2>1. complete' \in [Stream -> BOOLEAN] /\ scan' \in 1..(NumStages + 1)
    BY <1>12, TopologyAssumption DEF PropagateStage, StageLeft, TypeOK
  <2> QED BY <1>12, <2>1 DEF PropagateStage, TypeOK, InvokeInv, cancelVars,
                             notifyVars, history
<1>13. CASE AllStreamsComplete \/ WaitDeadline
  <2>1. /\ reason' \in Reasons \cup {"None"} /\ cancelled' \in BOOLEAN
        /\ scan' \in 1..(NumStages + 1)
    <3>1. \E r \in Reasons : Cancel(r)
      BY <1>13 DEF AllStreamsComplete, WaitDeadline
    <3>2. reason' \in Reasons \cup {"None"} /\ cancelled' \in BOOLEAN
      BY <3>1 DEF Cancel, RecordReason, TypeOK
    <3>3. scan' = 1 \/ scan' = scan
      BY <1>13 DEF AllStreamsComplete, WaitDeadline
    <3> QED BY <3>2, <3>3, TopologyAssumption DEF TypeOK
  <2>2. /\ complete' \in [Stream -> BOOLEAN]
        /\ state' = "Draining" /\ pc' = "select"
    BY <1>13, EnterDrainType DEF AllStreamsComplete, WaitDeadline
  <2> QED BY <1>13, <2>1, <2>2
          DEF AllStreamsComplete, WaitDeadline, TypeOK, InvokeInv, notifyVars, history
<1>14. CASE WaitCancelled
  BY <1>14, EnterDrainType DEF WaitCancelled, TypeOK, InvokeInv, cancelVars,
                               notifyVars, history
<1>15. CASE FinishDrain
  <2>1. queue' \in [Stream -> Seq(Elem)]
    BY <1>15, EmptySeq DEF FinishDrain
  <2>2. fate' \in SUBSET [origin : Nat, kind : Fates]
    <3>1. ASSUME NEW s \in Stream, NEW e \in Elements(queue[s])
          PROVE  e.origin \in Nat
      <4>1. queue[s] \in [1..Len(queue[s]) -> Elem]
        BY LenProperties DEF TypeOK
      <4> QED BY <4>1 DEF Elements, Elem
    <3> QED BY <1>15, <3>1 DEF FinishDrain, TypeOK
  <2>3. state' \in Terminal
    BY <1>15 DEF FinishDrain, TerminalState
  <2> QED BY <1>15, <2>1, <2>2, <2>3 DEF FinishDrain, TypeOK, InvokeInv,
                                         cancelVars, notifyVars
<1>16. CASE OperatorCancel \/ OperatorStoreFlag \/ DeadlineElapses
  <2> USE DEF TypeOK, InvokeInv, driverVars, streamVars, cancelVars, notifyVars,
              history
  <2>1. CASE OperatorCancel
    BY <2>1 DEF OperatorCancel, RecordReason
  <2>2. CASE OperatorStoreFlag
    BY <2>2 DEF OperatorStoreFlag
  <2>3. CASE DeadlineElapses
    BY <2>3 DEF DeadlineElapses
  <2> QED BY <1>16, <2>1, <2>2, <2>3
<1> QED BY <1>a, <1>1, <1>2, <1>3, <1>4, <1>5, <1>6, <1>7, <1>8, <1>9, <1>10,
           <1>11, <1>12, <1>13, <1>14, <1>15, <1>16 DEF Next, Driver, Finished

(* Every reachable state of a flow driver is well typed: in particular     *)
(* demand never goes negative and a stage only works on an element.        *)
THEOREM TypeCorrect == Spec => []TypeOK
<1>1. Init => TypeOK /\ InvokeInv
  BY TypeInit
<1>2. TypeOK /\ InvokeInv /\ [Next]_vars => TypeOK' /\ InvokeInv'
  BY TypeStep
<1> QED BY <1>1, <1>2, PTL DEF Spec

-----------------------------------------------------------------------------
(* The shape of the steps that end an invocation.                          *)

Outcome == \/ PullElement \/ PullNone \/ ProcessOutput \/ ProcessMultiple
           \/ ProcessFiltered \/ PushDelivered \/ StageFailed

Emission == \E outs \in SUBSET Outputs(current), origin \in Nat :
              /\ Emit(outs, origin)
              /\ Role[current] # "Source" => inHand # NoElem /\ origin = inHand.origin

(* Every return of an invocation is one of the cases of Outcome.           *)
LEMMA OutcomeShape ==
  ASSUME TypeOK, InvokeInv, Outcome
  PROVE  /\ pc = "invoke" /\ current \in Stage
         /\ UNCHANGED taken
         /\ UNCHANGED <<queue, demand, sent>> \/ (Emission /\ UNCHANGED complete)
         /\ \/ Continue /\ (UNCHANGED complete \/ PullNone)
            \/ EnterDrain /\ state = "Running" /\ UNCHANGED queue
<1>1. CASE PullElement
  <2>1. PICK s \in Stream : FirstOutput(current, s) /\ Emit({s}, nextSeq)
    BY <1>1 DEF PullElement
  <2>2. {s} \in SUBSET Outputs(current) /\ nextSeq \in Nat
    BY <2>1 DEF FirstOutput, TypeOK
  <2>3. Emission
    BY <1>1, <2>1, <2>2 DEF Emission, PullElement, Invoking
  <2> QED BY <1>1, <2>3 DEF PullElement, Invoking, InvokeInv, Continue
<1>2. CASE ProcessOutput
  <2>1. PICK s \in Stream : FirstOutput(current, s) /\ Emit({s}, inHand.origin)
    BY <1>2 DEF ProcessOutput
  <2>2. /\ {s} \in SUBSET Outputs(current)
        /\ inHand.origin \in Nat /\ inHand # NoElem
    BY <1>2, <2>1 DEF FirstOutput, ProcessOutput, Invoking, InvokeInv, Elem, NoElem
  <2>3. Emission
    BY <2>1, <2>2 DEF Emission
  <2> QED BY <1>2, <2>3 DEF ProcessOutput, Invoking, InvokeInv, Continue
<1>3. CASE ProcessMultiple
  <2>1. PICK last \in Outputs(current) :
              Emit({s \in Outputs(current) : s <= last}, inHand.origin)
    BY <1>3 DEF ProcessMultiple
  <2>2. /\ {s \in Outputs(current) : s <= last} \in SUBSET Outputs(current)
        /\ inHand.origin \in Nat /\ inHand # NoElem
    BY <1>3 DEF ProcessMultiple, Invoking, InvokeInv, Elem, NoElem
  <2>3. Emission
    BY <2>1, <2>2 DEF Emission
  <2> QED BY <1>3, <2>3 DEF ProcessMultiple, Invoking, InvokeInv, Continue
<1>4. CASE PullNone
  BY <1>4 DEF PullNone, Invoking, InvokeInv, Continue
<1>5. CASE ProcessFiltered \/ PushDelivered
  BY <1>5 DEF ProcessFiltered, PushDelivered, Invoking, InvokeInv, Continue
<1>6. CASE StageFailed
  BY <1>6 DEF StageFailed, InvokeInv, Continue
<1> QED BY <1>1, <1>2, <1>3, <1>4, <1>5, <1>6 DEF Outcome

(* In the drain loop no backpressure changes, so nobody is notified.       *)
LEMMA ContinuePc ==
  ASSUME Continue
  PROVE  /\ pc' = "select" \/ (pc' = "notify" /\ state = "Running")
         /\ state' = state
  BY DEF Continue, Transitions

(* Every step keeps the suspension points in their FlowState.              *)
LEMMA PhaseStep ==
  ASSUME TypeOK, InvokeInv, PhaseInv, [Next]_vars
  PROVE  PhaseInv'
<1> USE DEF PhaseInv, Terminal
<1>1. CASE UNCHANGED vars \/ Finished
  BY <1>1 DEF Finished, vars, driverVars
<1>2. CASE Start \/ ObserveCancel \/ WaitCancelled \/ WaitDeadline \/ AllStreamsComplete
  BY <1>2 DEF Start, ObserveCancel, WaitCancelled, WaitDeadline,
              AllStreamsComplete, EnterDrain
<1>3. ASSUME NEW k \in Stage, BeginStage(k) PROVE PhaseInv'
  BY <1>3 DEF BeginStage
<1>4. CASE Outcome
  <2>1. pc = "invoke" /\ (Continue \/ EnterDrain)
    BY <1>4, OutcomeShape
  <2> QED BY <2>1, ContinuePc DEF EnterDrain
<1>5. CASE NotifyProducer \/ BeginPropagate \/ PropagateStage \/ BeginWait \/ WaitElapsed
  BY <1>5 DEF NotifyProducer, BeginPropagate, PropagateStage, BeginWait, WaitElapsed
<1>6. CASE FinishDrain
  BY <1>6 DEF FinishDrain, TerminalState
<1>7. CASE OperatorCancel \/ OperatorStoreFlag \/ DeadlineElapses
  BY <1>7 DEF OperatorCancel, OperatorStoreFlag, DeadlineElapses, driverVars
<1> QED BY <1>1, <1>2, <1>3, <1>4, <1>5, <1>6, <1>7 DEF Next, Driver, Outcome

(* The steps that touch queues are the scheduling decision, the outcome of *)
(* an invocation and the final discard.                                    *)
LEMMA StepShape ==
  ASSUME [Next]_vars
  PROVE  \/ UNCHANGED <<queue, demand, active, sent, taken>>
         \/ \E k \in Stage : BeginStage(k)
         \/ Outcome
         \/ FinishDrain
<1>1. CASE UNCHANGED vars \/ Finished
  BY <1>1 DEF Finished, vars, streamVars, history
<1>2. CASE \/ Start \/ ObserveCancel \/ BeginPropagate \/ PropagateStage
           \/ AllStreamsComplete \/ BeginWait
  BY <1>2 DEF Start, ObserveCancel, BeginPropagate, PropagateStage,
              AllStreamsComplete, BeginWait, streamVars, history
<1>3. CASE \/ WaitCancelled \/ WaitDeadline \/ WaitElapsed \/ NotifyProducer
           \/ OperatorCancel \/ OperatorStoreFlag \/ DeadlineElapses
  BY <1>3 DEF WaitCancelled, WaitDeadline, WaitElapsed, NotifyProducer,
              OperatorCancel, OperatorStoreFlag, DeadlineElapses, streamVars, history
<1> QED BY <1>1, <1>2, <1>3 DEF Next, Driver, Outcome

(* A terminal state is final, and the main loop is entered only once.      *)
LEMMA StateForward ==
  ASSUME TypeOK, InvokeInv, PhaseInv, [Next]_vars
  PROVE  /\ state \in Terminal => state' = state
         /\ Early' => Early
<1> USE DEF PhaseInv, Early, Terminal
<1>1. CASE UNCHANGED vars \/ Finished
  BY <1>1 DEF Finished, vars, driverVars
<1>2. CASE Start \/ ObserveCancel \/ WaitCancelled \/ WaitDeadline \/ AllStreamsComplete
  BY <1>2 DEF Start, ObserveCancel, WaitCancelled, WaitDeadline,
              AllStreamsComplete, EnterDrain
<1>3. CASE \E k \in Stage : BeginStage(k)
  BY <1>3 DEF BeginStage
<1>4. CASE Outcome
  <2>1. pc = "invoke" /\ (Continue \/ EnterDrain)
    BY <1>4, OutcomeShape
  <2> QED BY <2>1, ContinuePc DEF EnterDrain
<1>5. CASE NotifyProducer \/ BeginPropagate \/ PropagateStage \/ BeginWait \/ WaitElapsed
  BY <1>5 DEF NotifyProducer, BeginPropagate, PropagateStage, BeginWait, WaitElapsed
<1>6. CASE FinishDrain
  BY <1>6 DEF FinishDrain, TerminalState
<1>7. CASE OperatorCancel \/ OperatorStoreFlag \/ DeadlineElapses
  BY <1>7 DEF OperatorCancel, OperatorStoreFlag, DeadlineElapses, driverVars
<1> QED BY <1>1, <1>2, <1>3, <1>4, <1>5, <1>6, <1>7 DEF Next, Driver, Outcome

(* What Emit does to one stream: an element more and a credit less, unless *)
(* the queue is full.                                                      *)
LEMMA EmitEffect ==
  ASSUME TypeOK, NEW outs \in SUBSET Stream, NEW origin \in Nat,
         Emit(outs, origin), NEW s \in Stream
  PROVE  /\ s \notin outs => /\ queue'[s] = queue[s]
                             /\ demand'[s] = demand[s]
                             /\ sent'[s] = sent[s]
         /\ s \in outs => /\ demand'[s] = ConsumeDemand(demand[s])
                          /\ Len(queue[s]) = Capacity[s] => queue'[s] = queue[s]
                          /\ Len(queue[s]) # Capacity[s] =>
                               \E e \in Elem : /\ queue'[s] = Append(queue[s], e)
                                               /\ sent'[s] = Append(sent[s], e)
                                               /\ e.origin = origin
<1>1. /\ NewElement(outs, s, origin) \in Elem
      /\ NewElement(outs, s, origin).origin = origin
  BY NewElementType DEF TypeOK, NewElement
<1> QED BY <1>1 DEF Emit, Push

(* What taking an input does to one stream.                                *)
LEMMA TakeEffect ==
  ASSUME TypeOK, NEW k \in Stage, NEW s \in Stream, TakeInput(k, s),
         NEW t \in Stream
  PROVE  /\ t # s => /\ queue'[t] = queue[t]
                     /\ demand'[t] = demand[t]
                     /\ taken'[t] = taken[t]
         /\ t = s => /\ To[s] = k /\ queue[s] # <<>>
                     /\ queue'[s] = Tail(queue[s])
                     /\ demand'[s] = demand[s] + 1
                     /\ taken'[s] = Append(taken[s], Head(queue[s]))
  BY DEF TypeOK, TakeInput, SelectedInput, ConsumerHasInput, Inputs, ReplenishDemand

-----------------------------------------------------------------------------
(* Demand accounting.                                                      *)

(* Every step keeps credits and queued elements at the capacity: a pop     *)
(* gives one credit, an emission takes one.                                *)
LEMMA DemandStep ==
  ASSUME TypeOK, InvokeInv, PhaseInv, DemandConservation, [Next]_vars
  PROVE  DemandConservation'
<1> SUFFICES ASSUME state' \notin Terminal, NEW s \in Stream
             PROVE  demand'[s] + Len(queue'[s]) = Capacity[s]
  BY DEF DemandConservation
<1>1. demand[s] + Len(queue[s]) = Capacity[s]
  BY StateForward DEF DemandConservation
<1>2. demand[s] \in Nat /\ queue[s] \in Seq(Elem) /\ Len(queue[s]) \in Nat
  BY LenProperties DEF TypeOK
<1>3. CASE UNCHANGED <<queue, demand>>
  BY <1>1, <1>3
<1>4. ASSUME NEW k \in Stage, BeginStage(k)
      PROVE  demand'[s] + Len(queue'[s]) = Capacity[s]
  <2>1. CASE UNCHANGED <<queue, demand>>
    BY <1>1, <2>1
  <2>2. ASSUME NEW t \in Stream, TakeInput(k, t)
        PROVE  demand'[s] + Len(queue'[s]) = Capacity[s]
    <3>1. CASE s # t
      BY <1>1, <2>2, <3>1, TakeEffect
    <3>2. CASE s = t
      <4>1. /\ queue[s] # <<>> /\ queue'[s] = Tail(queue[s])
            /\ demand'[s] = demand[s] + 1
        BY <2>2, <3>2, TakeEffect
      <4>2. Len(Tail(queue[s])) = Len(queue[s]) - 1
        BY <1>2, <4>1, HeadTailProperties
      <4> QED BY <1>1, <1>2, <4>1, <4>2
    <3> QED BY <3>1, <3>2
  <2> QED BY <1>4, <2>1, <2>2 DEF BeginStage
<1>5. CASE Outcome
  <2>1. CASE UNCHANGED <<queue, demand, sent>>
    BY <1>1, <2>1
  <2>2. CASE Emission
    <3>1. PICK outs \in SUBSET Outputs(current), origin \in Nat : Emit(outs, origin)
      BY <2>2 DEF Emission
    <3>2. outs \in SUBSET Stream
      BY DEF Outputs
    <3>3. CASE s \notin outs
      BY <1>1, <3>1, <3>2, <3>3, EmitEffect
    <3>4. CASE s \in outs /\ Len(queue[s]) = Capacity[s]
      <4>1. queue'[s] = queue[s] /\ demand'[s] = ConsumeDemand(demand[s])
        BY <3>1, <3>2, <3>4, EmitEffect
      <4>2. demand[s] = 0
        BY <1>1, <1>2, <3>4
      <4> QED BY <1>1, <4>1, <4>2 DEF ConsumeDemand
    <3>5. CASE s \in outs /\ Len(queue[s]) # Capacity[s]
      <4>1. PICK e \in Elem : /\ queue'[s] = Append(queue[s], e)
                             /\ sent'[s] = Append(sent[s], e)
                             /\ e.origin = origin
        BY <3>1, <3>2, <3>5, EmitEffect
      <4>2. Len(queue'[s]) = Len(queue[s]) + 1
        BY <1>2, <4>1, AppendProperties
      <4>3. demand'[s] = ConsumeDemand(demand[s])
        BY <3>1, <3>2, <3>5, EmitEffect
      <4>4. demand[s] > 0
        BY <1>1, <1>2, <3>5
      <4> QED BY <1>1, <1>2, <4>2, <4>3, <4>4 DEF ConsumeDemand
    <3> QED BY <3>3, <3>4, <3>5
  <2> QED BY <1>5, <2>1, <2>2, OutcomeShape
<1>6. CASE FinishDrain
  <2>1. state' \in Terminal
    BY <1>6 DEF FinishDrain, TerminalState, Terminal
  <2> QED BY <2>1
<1> QED BY <1>3, <1>4, <1>5, <1>6, StepShape

-----------------------------------------------------------------------------
(* Completion.                                                             *)

(* A stage that the scheduler picks has not completed its outputs.         *)
LEMMA ReadyNotComplete ==
  ASSUME CompletionInv, NEW k \in Stage, Ready(k), NEW s \in Outputs(k)
  PROVE  ~complete[s]
<1>1. CASE SomeCanProduce(k)
  BY <1>1 DEF CompletionInv, SomeCanProduce, ProducerCanProduce, Outputs
<1>2. CASE HasInput(k)
  <2>1. PICK t \in Inputs(k) : queue[t] # <<>>
    BY <1>2 DEF HasInput, ConsumerHasInput
  <2> QED BY <2>1 DEF CompletionInv, IsComplete, Inputs, Outputs
<1> QED BY <1>1, <1>2 DEF Ready

(* Every step keeps completion flags behind complete inputs.               *)
LEMMA CompletionStep ==
  ASSUME TypeOK, InvokeInv, CompletionInv, [Next]_vars
  PROVE  CompletionInv'
<1> DEFINE Together == \A s, t \in Stream : From[s] = From[t] => complete[s] = complete[t]
           Behind   == \A s, t \in Stream : complete[s] /\ To[t] = From[s] => IsComplete(t)
<1>a. Together /\ Behind
  BY DEF CompletionInv
<1>1. CASE UNCHANGED <<queue, complete, pc, current>>
  BY <1>1 DEF CompletionInv, IsComplete
<1>2. CASE UNCHANGED <<queue, complete>> /\ pc' # "invoke"
  BY <1>2 DEF CompletionInv, IsComplete
<1>3. CASE EnterDrain /\ UNCHANGED queue
  <2>1. Together'
    BY <1>3, <1>a DEF EnterDrain
  <2>2. ASSUME NEW s \in Stream, NEW t \in Stream, complete'[s], To[t] = From[s]
        PROVE  IsComplete(t)'
    <3>1. complete[s]
      BY <1>3, <2>2 DEF EnterDrain, Inputs
    <3> QED BY <1>3, <1>a, <2>2, <3>1 DEF EnterDrain, IsComplete
  <2> QED BY <1>3, <2>1, <2>2 DEF CompletionInv, EnterDrain
<1>4. ASSUME NEW k \in Stage, BeginStage(k) PROVE CompletionInv'
  <2>1. UNCHANGED complete /\ current' = k /\ Ready(k)
    BY <1>4 DEF BeginStage, Selected
  <2>2. ASSUME NEW t \in Stream, queue[t] = <<>> PROVE queue'[t] = <<>>
    <3>1. CASE UNCHANGED queue
      BY <2>2, <3>1
    <3>2. ASSUME NEW s \in Stream, TakeInput(k, s) PROVE queue'[t] = <<>>
      BY <2>2, <3>2, TakeEffect
    <3> QED BY <1>4, <3>1, <3>2 DEF BeginStage
  <2>3. \A s \in Outputs(k) : ~complete[s]
    BY <2>1, ReadyNotComplete
  <2> QED BY <2>1, <2>2, <2>3, <1>a DEF CompletionInv, IsComplete, Outputs
<1>5. CASE Outcome
  <2>1. CASE Emission /\ UNCHANGED complete
    <3>1. PICK outs \in SUBSET Outputs(current), origin \in Nat : Emit(outs, origin)
      BY <2>1 DEF Emission
    <3>2. pc = "invoke" /\ (pc' # "invoke")
      BY <1>5, OutcomeShape, ContinuePc DEF EnterDrain
    <3>3. \A t \in outs : ~complete[t]
      BY <3>2 DEF CompletionInv
    <3>4. \A t \in Stream : complete[t] => queue'[t] = queue[t]
      <4>1. outs \in SUBSET Stream
        BY DEF Outputs
      <4> QED BY <3>1, <3>3, <4>1, EmitEffect
    <3> QED BY <2>1, <3>2, <3>4, <1>a DEF CompletionInv, IsComplete
  <2>2. CASE UNCHANGED queue /\ Continue /\ UNCHANGED complete
    BY <2>2, <1>2, ContinuePc
  <2>3. CASE UNCHANGED queue /\ Continue /\ PullNone
    <3>1. complete' = [s \in Stream |-> complete[s] \/ From[s] = current]
      BY <2>3 DEF PullNone
    <3>2. \A t \in Stream : To[t] # current
      BY <2>3, <1>5, OutcomeShape, TopologyAssumption DEF PullNone, Invoking, Inputs
    <3>3. Together'
      BY <3>1, <1>a
    <3>4. Behind'
      BY <2>3, <3>1, <3>2, <1>a DEF IsComplete
    <3> QED BY <2>3, <3>3, <3>4, ContinuePc DEF CompletionInv
  <2>4. CASE EnterDrain /\ UNCHANGED queue
    BY <2>4, <1>3
  <2> QED BY <1>5, <2>1, <2>2, <2>3, <2>4, OutcomeShape
<1>6. CASE PropagateStage
  <2>1. Together'
    BY <1>6, <1>a DEF PropagateStage
  <2>2. ASSUME NEW s \in Stream, NEW t \in Stream, complete'[s], To[t] = From[s]
        PROVE  IsComplete(t)'
    <3>1. IsComplete(t)
      BY <1>6, <1>a, <2>2 DEF PropagateStage, Inputs
    <3> QED BY <1>6, <3>1 DEF PropagateStage, IsComplete
  <2> QED BY <1>6, <2>1, <2>2 DEF CompletionInv, PropagateStage
<1>7. CASE FinishDrain
  BY <1>7 DEF FinishDrain, CompletionInv, IsComplete
<1>8. CASE UNCHANGED vars \/ Finished \/ OperatorCancel \/ OperatorStoreFlag \/ DeadlineElapses
  BY <1>8, <1>1 DEF vars, Finished, OperatorCancel, OperatorStoreFlag,
                    DeadlineElapses, streamVars, driverVars
<1>9. CASE Start \/ NotifyProducer \/ BeginPropagate \/ BeginWait \/ WaitElapsed
  BY <1>9, <1>2 DEF Start, NotifyProducer, BeginPropagate, BeginWait, WaitElapsed,
                    streamVars
<1>10. CASE ObserveCancel \/ AllStreamsComplete \/ WaitCancelled \/ WaitDeadline
  BY <1>10, <1>3 DEF ObserveCancel, AllStreamsComplete, WaitCancelled, WaitDeadline
<1> QED BY <1>4, <1>5, <1>6, <1>7, <1>8, <1>9, <1>10 DEF Next, Driver, Outcome

-----------------------------------------------------------------------------
(* Consumer-first scheduling.                                              *)

(* Where no invocation is under way, an empty stream that is not complete  *)
(* can take an element.                                                    *)
LEMMA EmptyCanProduce ==
  ASSUME TypeOK, DemandConservation, BackpressureInv, state = "Running",
         pc # "invoke", NEW s \in Stream, queue[s] = <<>>, ~complete[s]
  PROVE  ProducerCanProduce(s)
<1>1. Len(queue[s]) = 0
  BY EmptySeq
<1>2. demand[s] = Capacity[s]
  BY <1>1 DEF DemandConservation, Terminal, TypeOK
<1>3. Capacity[s] \in Nat /\ Capacity[s] > 0 /\ LowWatermark[s] \in Nat
  BY ConfigAssumption
<1>4. ~active[s]
  BY <1>1, <1>3 DEF BackpressureInv, Early
<1> QED BY <1>1, <1>2, <1>3, <1>4 DEF ProducerCanProduce

(* An empty stream that is not complete can take an element, from any      *)
(* stage that has inputs.                                                  *)
EmptyOpen ==
  \A s \in Stream : Inputs(From[s]) # {} /\ queue[s] = <<>> /\ ~complete[s]
                     => ProducerCanProduce(s)

(* If no stage beyond position b is ready then nothing is queued beyond b: *)
(* of the non-empty streams beyond b, the one with the furthest consumer   *)
(* has a consumer whose outputs are all empty, and which is ready.         *)
LEMMA NothingDownstream ==
  ASSUME TypeOK, CompletionInv, EmptyOpen, NEW b \in Int,
         \A j \in Stage : Pos[j] > b => ~Ready(j)
  PROVE  \A s \in Stream : Pos[To[s]] > b => queue[s] = <<>>
<1> DEFINE Stuck == {s \in Stream : Pos[To[s]] > b /\ queue[s] # <<>>}
           Dist  == {NumStages - Pos[To[s]] : s \in Stuck}
<1> SUFFICES ASSUME Stuck # {} PROVE FALSE
  OBVIOUS
<1>1. \A s \in Stream : /\ To[s] \in Stage /\ Pos[To[s]] \in 1..NumStages
                        /\ NumStages - Pos[To[s]] \in Nat
  <2>1. \A s \in Stream : To[s] \in Stage /\ Pos[To[s]] \in 1..NumStages
    BY TopologyAssumption
  <2> QED BY <2>1, TopologyAssumption
<1>2. Dist \in SUBSET Nat /\ Dist # {}
  BY <1>1
<1>3. PICK d \in Dist : \A e \in Dist : d <= e
  BY <1>2, LeastNatural
<1>4. PICK s \in Stuck : d = NumStages - Pos[To[s]]
  OBVIOUS
<1> DEFINE j == To[s]
<1>5. j \in Stage /\ Pos[j] > b /\ Pos[j] \in 1..NumStages
  BY <1>1, <1>4
<1>6. \A u \in Outputs(j) : u \in Stream /\ Pos[To[u]] > Pos[j]
  BY TopologyAssumption DEF Outputs
<1>7. \A u \in Outputs(j) : u \notin Stuck
  <2> SUFFICES ASSUME NEW u \in Outputs(j), u \in Stuck PROVE FALSE
    OBVIOUS
  <2>1. NumStages - Pos[To[s]] <= NumStages - Pos[To[u]]
    BY <1>3, <1>4
  <2> QED BY <1>1, <1>5, <1>6, <2>1, TopologyAssumption
<1>8. \A u \in Outputs(j) : queue[u] = <<>>
  BY <1>1, <1>5, <1>6, <1>7
<1>9. s \in Inputs(j) /\ queue[s] # <<>> /\ HasInput(j)
  BY <1>4 DEF Inputs, HasInput, ConsumerHasInput
<1>10. \A u \in Outputs(j) : ~complete[u]
  BY <1>4, <1>6, <1>9 DEF CompletionInv, IsComplete, Outputs
<1>11. AllCanProduce(j)
  BY <1>6, <1>8, <1>9, <1>10 DEF AllCanProduce, EmptyOpen, Outputs
<1>12. Role[j] # "Source"
  BY <1>5, <1>9, TopologyAssumption
<1>13. Role[j] # "Sink" => SomeCanProduce(j)
  BY <1>5, <1>11, <1>12, TopologyAssumption DEF AllCanProduce, SomeCanProduce
<1>14. Ready(j)
  BY <1>5, <1>9, <1>11, <1>12, <1>13, TopologyAssumption DEF Ready, Roles
<1> QED BY <1>5, <1>14

(* So whoever is invoked in the main loop has nothing queued downstream,   *)
(* and no queue ever holds a second element.                               *)
LEMMA DownstreamStep ==
  ASSUME TypeOK, InvokeInv, PhaseInv, DemandConservation, BackpressureInv,
         CompletionInv, DownstreamInv, [Next]_vars
  PROVE  DownstreamInv'
<1> SUFFICES ASSUME Early'
             PROVE  /\ \A s \in Stream : Len(queue'[s]) <= 1
                    /\ pc' = "invoke" => \A s \in Stream :
                         Pos[To[s]] > Pos[current'] => queue'[s] = <<>>
  BY DEF DownstreamInv
<1>a. Early
  BY StateForward
<1>b. \A s \in Stream : Len(queue[s]) <= 1 /\ Len(queue[s]) \in Nat /\ queue[s] \in Seq(Elem)
  BY <1>a, LenProperties DEF DownstreamInv, TypeOK
<1>1. ASSUME NEW k \in Stage, BeginStage(k)
      PROVE  /\ \A s \in Stream : Len(queue'[s]) <= 1
             /\ \A s \in Stream : Pos[To[s]] > Pos[k] => queue'[s] = <<>>
  <2>1. state = "Running" /\ pc = "select" /\ Selected(k)
    BY <1>1, <1>a DEF BeginStage, Early
  <2>2. Pos[k] \in Int /\ \A j \in Stage : Pos[j] > Pos[k] => ~Ready(j)
    BY <2>1, TopologyAssumption DEF Selected
  <2>3. \A s \in Stream : Pos[To[s]] > Pos[k] => queue[s] = <<>>
    <3>1. EmptyOpen
      BY <2>1, EmptyCanProduce DEF EmptyOpen
    <3> QED BY <2>2, <3>1, NothingDownstream
  <2>4. CASE UNCHANGED queue
    BY <1>b, <2>3, <2>4
  <2>5. ASSUME NEW t \in Stream, TakeInput(k, t), NEW s \in Stream
        PROVE  Len(queue'[s]) <= 1 /\ (Pos[To[s]] > Pos[k] => queue'[s] = <<>>)
    <3>1. CASE s # t
      BY <1>b, <2>3, <2>5, <3>1, TakeEffect
    <3>2. CASE s = t
      <4>1. queue[s] # <<>> /\ queue'[s] = Tail(queue[s]) /\ To[s] = k
        BY <2>5, <3>2, TakeEffect
      <4>2. Len(Tail(queue[s])) = Len(queue[s]) - 1
        BY <1>b, <4>1, HeadTailProperties
      <4>3. ~(Pos[To[s]] > Pos[k])
        BY <4>1, <2>2
      <4> QED BY <1>b, <4>1, <4>2, <4>3
    <3> QED BY <3>1, <3>2
  <2> QED BY <1>1, <2>4, <2>5 DEF BeginStage
<1>2. CASE Outcome
  <2>1. pc = "invoke" /\ current \in Stage
    BY <1>2, OutcomeShape
  <2>2. pc' # "invoke"
    BY <1>2, OutcomeShape, ContinuePc DEF EnterDrain
  <2>3. CASE UNCHANGED <<queue, demand, sent>>
    BY <1>b, <2>2, <2>3
  <2>4. CASE Emission
    <3>1. PICK outs \in SUBSET Outputs(current), origin \in Nat : Emit(outs, origin)
      BY <2>4 DEF Emission
    <3>2. outs \in SUBSET Stream
      BY DEF Outputs
    <3>3. \A s \in outs : queue[s] = <<>>
      BY <1>a, <2>1, <3>2, TopologyAssumption DEF DownstreamInv, Outputs
    <3>4. ASSUME NEW s \in Stream PROVE Len(queue'[s]) <= 1
      <4>1. CASE s \notin outs
        BY <1>b, <3>1, <3>2, <4>1, EmitEffect
      <4>2. CASE s \in outs
        <5>1. queue[s] = <<>> /\ Len(queue[s]) = 0 /\ Len(queue[s]) # Capacity[s]
          BY <3>3, <4>2, EmptySeq, ConfigAssumption
        <5>2. PICK e \in Elem : /\ queue'[s] = Append(queue[s], e)
                               /\ sent'[s] = Append(sent[s], e)
                               /\ e.origin = origin
          BY <3>1, <3>2, <4>2, <5>1, EmitEffect
        <5>3. Len(queue'[s]) = 1
          BY <1>b, <5>1, <5>2, AppendProperties
        <5> QED BY <5>3
      <4> QED BY <4>1, <4>2
    <3> QED BY <2>2, <3>4
  <2> QED BY <1>2, <2>3, <2>4, OutcomeShape
<1>3. CASE FinishDrain
  <2>1. state' \in Terminal
    BY <1>3 DEF FinishDrain, TerminalState, Terminal
  <2> QED BY <2>1 DEF Early, Terminal
<1>4. CASE UNCHANGED vars \/ Finished \/ OperatorCancel \/ OperatorStoreFlag \/ DeadlineElapses
  <2>1. UNCHANGED <<queue, pc, current>>
    BY <1>4 DEF vars, Finished, OperatorCancel, OperatorStoreFlag,
                DeadlineElapses, streamVars, driverVars
  <2> QED BY <1>a, <1>b, <2>1 DEF DownstreamInv
<1>5. CASE \/ Start \/ NotifyProducer \/ BeginPropagate \/ BeginWait \/ WaitElapsed
           \/ PropagateStage
  <2>1. UNCHANGED queue /\ pc' # "invoke"
    BY <1>5 DEF Start, NotifyProducer, BeginPropagate, BeginWait, WaitElapsed,
                PropagateStage, streamVars
  <2> QED BY <1>b, <2>1
<1>6. CASE ObserveCancel \/ AllStreamsComplete \/ WaitCancelled \/ WaitDeadline
  BY <1>6 DEF ObserveCancel, AllStreamsComplete, WaitCancelled, WaitDeadline,
              EnterDrain, Early
<1>7. CASE \E k \in Stage : BeginStage(k)
  BY <1>1, <1>7 DEF BeginStage
<1> QED BY <1>2, <1>3, <1>4, <1>5, <1>6, <1>7 DEF Next, Driver, Outcome

-----------------------------------------------------------------------------
(* Backpressure.                                                           *)

(* Re-evaluating every stream after a stage gives flags that fit.          *)
LEMMA CheckFits ==
  ASSUME TypeOK, queue' \in [Stream -> Seq(Elem)], CheckBackpressureAll,
         NEW s \in Stream, Len(queue'[s]) <= Capacity[s]
  PROVE  IF active'[s]
         THEN Len(queue'[s]) > LowWatermark[s] \/ Len(queue'[s]) = Capacity[s]
         ELSE Len(queue'[s]) <= LowWatermark[s] \/ Len(queue'[s]) < Capacity[s]
<1>1. /\ Len(queue'[s]) \in Nat /\ active[s] \in BOOLEAN
      /\ Capacity[s] \in Nat /\ LowWatermark[s] \in Nat
  BY ConfigAssumption, LenProperties DEF TypeOK
<1>2. active'[s] = IF active[s] THEN Len(queue'[s]) > LowWatermark[s]
                               ELSE Len(queue'[s]) >= Capacity[s]
  BY Zenon DEF CheckBackpressureAll, CheckTransition
<1>3. CASE active[s]
  <2>1. active'[s] <=> Len(queue'[s]) > LowWatermark[s]
    BY <1>2, <1>3, Zenon
  <2> QED BY <1>1, <2>1
<1>4. CASE ~active[s]
  <2>1. active'[s] <=> Len(queue'[s]) >= Capacity[s]
    BY <1>2, <1>4, Zenon
  <2> QED BY <1>1, <2>1
<1> QED BY <1>3, <1>4

(* Every step keeps the backpressure flags, and what sources know of       *)
(* them, in agreement with the queues.                                     *)
LEMMA BackpressureStep ==
  ASSUME TypeOK, InvokeInv, PhaseInv, DemandConservation, BackpressureInv,
         [Next]_vars
  PROVE  BackpressureInv'
<1> DEFINE Fits == \A s \in Stream :
                     IF active[s]
                     THEN Len(queue[s]) > LowWatermark[s] \/ Len(queue[s]) = Capacity[s]
                     ELSE Len(queue[s]) <= LowWatermark[s] \/ Len(queue[s]) < Capacity[s]
           Told == \A s \in Stream : Role[From[s]] = "Source" /\ s \notin pending
                                       => told[s] = active[s]
<1> SUFFICES ASSUME Early'
             PROVE  /\ pc' # "invoke" => Fits'
                    /\ pc' # "notify" => pending' = {}
                    /\ Told'
  BY DEF BackpressureInv
<1>a. Early
  BY StateForward
<1>b. (pc # "invoke" => Fits) /\ (pc # "notify" => pending = {}) /\ Told
  BY <1>a DEF BackpressureInv
<1>1. CASE Outcome
  <2>1. pc = "invoke" /\ pending = {}
    BY <1>1, <1>b, OutcomeShape
  <2>2. state = "Running"
    BY <1>a, <2>1 DEF PhaseInv, Early
  <2>3. Continue
    BY <1>1, OutcomeShape DEF EnterDrain, Early
  <2>4. CheckBackpressureAll
    BY <2>2, <2>3 DEF Continue
  <2>5. TypeOK' /\ DemandConservation'
    BY TypeStep, DemandStep
  <2>6. \A s \in Stream : Len(queue'[s]) <= Capacity[s]
    <3>1. state' \notin Terminal
      BY DEF Early, Terminal
    <3>2. ASSUME NEW s \in Stream PROVE Len(queue'[s]) <= Capacity[s]
      <4>1. demand'[s] + Len(queue'[s]) = Capacity[s]
        BY <2>5, <3>1 DEF DemandConservation
      <4>2. demand'[s] \in Nat /\ Len(queue'[s]) \in Nat
        BY <2>5, LenProperties DEF TypeOK
      <4> QED BY <4>1, <4>2
    <3> QED BY <3>2
  <2>7. queue' \in [Stream -> Seq(Elem)]
    BY <2>5 DEF TypeOK
  <2>8. Fits'
    BY <2>4, <2>6, <2>7, CheckFits
  <2>9. pc' # "notify" => pending' = {}
    BY <2>3 DEF Continue
  <2>10. Told'
    BY <1>b, <2>1, <2>3 DEF Continue, Transitions
  <2> QED BY <2>8, <2>9, <2>10
<1>2. CASE \E k \in Stage : BeginStage(k)
  <2>1. UNCHANGED <<active, pending, told>> /\ pc = "select" /\ pc' = "invoke"
    BY <1>2 DEF BeginStage, notifyVars
  <2> QED BY <1>b, <2>1
<1>3. CASE NotifyProducer
  <2>1. PICK s \in pending : /\ told' = [told EXCEPT ![s] = active[s]]
                            /\ pending' = pending \ {s}
    BY <1>3 DEF NotifyProducer
  <2>2. UNCHANGED <<active, queue>> /\ pc = "notify"
    BY <1>3 DEF NotifyProducer, streamVars
  <2>3. Told'
    BY <1>b, <2>1, <2>2 DEF TypeOK
  <2>4. pc' # "notify" => pending' = {}
    BY <1>3 DEF NotifyProducer
  <2> QED BY <1>b, <2>2, <2>3, <2>4
<1>4. CASE UNCHANGED vars \/ Finished \/ OperatorCancel \/ OperatorStoreFlag \/ DeadlineElapses
  <2>1. UNCHANGED <<queue, active, pending, told, pc>>
    BY <1>4 DEF vars, Finished, OperatorCancel, OperatorStoreFlag,
                DeadlineElapses, streamVars, driverVars, notifyVars
  <2> QED BY <1>b, <2>1
<1>5. CASE Start \/ BeginPropagate \/ PropagateStage \/ BeginWait \/ WaitElapsed
  <2>1. UNCHANGED <<queue, active, pending, told>> /\ pc \notin {"invoke", "notify"}
    BY <1>5 DEF Start, BeginPropagate, PropagateStage, BeginWait, WaitElapsed,
                streamVars, notifyVars
  <2> QED BY <1>b, <2>1
<1>6. CASE ObserveCancel \/ AllStreamsComplete \/ WaitCancelled \/ WaitDeadline
  BY <1>6 DEF ObserveCancel, AllStreamsComplete, WaitCancelled, WaitDeadline,
              EnterDrain, Early
<1>7. CASE FinishDrain
  <2>1. state' \in Terminal
    BY <1>7 DEF FinishDrain, TerminalState, Terminal
  <2> QED BY <2>1 DEF Early, Terminal
<1> QED BY <1>1, <1>2, <1>3, <1>4, <1>5, <1>6, <1>7 DEF Next, Driver, Outcome

-----------------------------------------------------------------------------
(* The streams are FIFO channels.                                          *)

(* Moving the head of a queue to the end of what was taken keeps their     *)
(* concatenation.                                                          *)
LEMMA TakeFromFifo ==
  ASSUME NEW S, NEW a \in Seq(S), NEW q \in Seq(S), q # <<>>
  PROVE  a \o q = Append(a, Head(q)) \o Tail(q)
<1>1. Head(q) \in S /\ Tail(q) \in Seq(S) /\ <<Head(q)>> \in Seq(S)
  BY HeadTailProperties
<1>2. Append(a, Head(q)) = a \o <<Head(q)>>
  BY <1>1, AppendIsConcat
<1>3. (a \o <<Head(q)>>) \o Tail(q) = a \o (<<Head(q)>> \o Tail(q))
  BY <1>1, ConcatAssociative
<1>4. <<Head(q)>> \o Tail(q) = q
  OBVIOUS
<1> QED BY <1>2, <1>3, <1>4

(* Every step of a running flow keeps its streams lossless channels.       *)
LEMMA FifoStep ==
  ASSUME TypeOK, InvokeInv, PhaseInv, DownstreamInv, FifoInv, [Next]_vars
  PROVE  FifoInv'
<1> SUFFICES ASSUME Early', NEW s \in Stream
             PROVE  sent'[s] = taken'[s] \o queue'[s]
  BY DEF FifoInv
<1>a. Early /\ sent[s] = taken[s] \o queue[s]
  BY StateForward DEF FifoInv
<1>b. queue[s] \in Seq(Elem) /\ taken[s] \in Seq(Elem) /\ sent[s] \in Seq(Elem)
  BY DEF TypeOK
<1>1. CASE UNCHANGED <<queue, sent, taken>>
  BY <1>a, <1>1
<1>2. ASSUME NEW k \in Stage, BeginStage(k)
      PROVE  sent'[s] = taken'[s] \o queue'[s]
  <2>1. UNCHANGED sent
    BY <1>2 DEF BeginStage
  <2>2. CASE UNCHANGED <<queue, taken>>
    BY <1>a, <2>1, <2>2
  <2>3. ASSUME NEW t \in Stream, TakeInput(k, t)
        PROVE  sent'[s] = taken'[s] \o queue'[s]
    <3>1. CASE s # t
      <4>1. queue'[s] = queue[s] /\ taken'[s] = taken[s]
        BY <2>3, <3>1, TakeEffect
      <4> QED BY <1>a, <2>1, <4>1
    <3>2. CASE s = t
      <4>1. /\ queue[s] # <<>> /\ queue'[s] = Tail(queue[s])
            /\ taken'[s] = Append(taken[s], Head(queue[s]))
        BY <2>3, <3>2, TakeEffect
      <4>2. taken[s] \o queue[s] = Append(taken[s], Head(queue[s])) \o Tail(queue[s])
        BY <1>b, <4>1, TakeFromFifo
      <4> QED BY <1>a, <2>1, <4>1, <4>2
    <3> QED BY <3>1, <3>2
  <2> QED BY <1>2, <2>2, <2>3 DEF BeginStage
<1>3. CASE Outcome
  <2>1. UNCHANGED taken /\ pc = "invoke" /\ current \in Stage
    BY <1>3, OutcomeShape
  <2>2. CASE UNCHANGED <<queue, demand, sent>>
    BY <1>a, <2>1, <2>2
  <2>3. CASE Emission
    <3>1. PICK outs \in SUBSET Outputs(current), origin \in Nat : Emit(outs, origin)
      BY <2>3 DEF Emission
    <3>2. outs \in SUBSET Stream
      BY DEF Outputs
    <3>3. CASE s \notin outs
      <4>1. queue'[s] = queue[s] /\ sent'[s] = sent[s]
        BY <3>1, <3>2, <3>3, EmitEffect
      <4> QED BY <1>a, <2>1, <4>1
    <3>4. CASE s \in outs
      <4>1. queue[s] = <<>>
        BY <1>a, <2>1, <3>4, TopologyAssumption DEF DownstreamInv, Outputs
      <4>2. Len(queue[s]) # Capacity[s]
        <5>1. Len(queue[s]) = 0 /\ Capacity[s] # 0
          BY <4>1, EmptySeq, ConfigAssumption
        <5> QED BY <5>1
      <4>3. PICK e \in Elem : /\ queue'[s] = Append(queue[s], e)
                             /\ sent'[s] = Append(sent[s], e)
                             /\ e.origin = origin
        BY <3>1, <3>2, <3>4, <4>2, EmitEffect
      <4>4. sent[s] = taken[s] /\ queue'[s] = <<e>>
        BY <1>a, <1>b, <4>1, <4>3, ConcatEmptySeq
      <4>5. Append(taken[s], e) = taken[s] \o <<e>>
        BY <1>b, AppendIsConcat
      <4> QED BY <2>1, <4>3, <4>4, <4>5
    <3> QED BY <3>3, <3>4
  <2> QED BY <1>3, <2>2, <2>3, OutcomeShape
<1>4. CASE FinishDrain
  <2>1. state' \in Terminal
    BY <1>4 DEF FinishDrain, TerminalState, Terminal
  <2> QED BY <2>1 DEF Early, Terminal
<1> QED BY <1>1, <1>2, <1>3, <1>4, StepShape

-----------------------------------------------------------------------------
(* One source element at a time.                                           *)

(* Every step of a running flow keeps a single source element in flight:   *)
(* a source is selected only when nothing is queued.                       *)
LEMMA InFlightStep ==
  ASSUME TypeOK, InvokeInv, PhaseInv, DownstreamInv, InFlightInv, [Next]_vars
  PROVE  InFlightInv'
<1> SUFFICES ASSUME Early'
             PROVE  /\ \E o \in Nat : OneOrigin(o)'
                    /\ pc' # "invoke" \/ Role[current'] = "Source" => inHand' = NoElem
  BY DEF InFlightInv
<1>a. Early
  BY StateForward
<1>b. PICK o \in Nat : OneOrigin(o)
  BY <1>a DEF InFlightInv
<1>c. pc # "invoke" \/ Role[current] = "Source" => inHand = NoElem
  BY <1>a DEF InFlightInv
<1>1. ASSUME NEW k \in Stage, BeginStage(k)
      PROVE  OneOrigin(o)' /\ (Role[k] = "Source" => inHand' = NoElem)
  <2>1. CASE Role[k] = "Source" /\ UNCHANGED <<inHand, queue>>
    BY <1>1, <1>b, <1>c, <2>1 DEF BeginStage, OneOrigin
  <2>2. ASSUME NEW s \in Stream, TakeInput(k, s) PROVE OneOrigin(o)'
    <3>1. queue[s] \in Seq(Elem) /\ queue[s] # <<>>
      BY <2>2, TakeEffect DEF TypeOK
    <3>2. /\ queue'[s] = Tail(queue[s]) /\ inHand' = Head(queue[s])
          /\ \A t \in Stream : t # s => queue'[t] = queue[t]
      <4>1. inHand' = Head(queue[s])
        BY <2>2 DEF TakeInput
      <4>2. queue'[s] = Tail(queue[s])
        BY <2>2, TakeEffect
      <4>3. ASSUME NEW t \in Stream, t # s PROVE queue'[t] = queue[t]
        BY <2>2, <4>3, TakeEffect
      <4> QED BY <4>1, <4>2, <4>3
    <3>3. Head(queue[s]).origin = o
      BY <3>1, <1>b DEF OneOrigin
    <3>4. \A i \in DOMAIN Tail(queue[s]) : Tail(queue[s])[i].origin = o
      BY <3>1, <1>b DEF OneOrigin
    <3> QED BY <1>b, <3>2, <3>3, <3>4 DEF OneOrigin
  <2> QED BY <1>1, <2>1, <2>2 DEF BeginStage
<1>2. CASE Outcome
  <2>1. /\ pc = "invoke" /\ current \in Stage /\ Continue
    BY <1>2, OutcomeShape DEF EnterDrain, Early
  <2>2. pc' # "invoke" /\ inHand' = NoElem
    BY <2>1, ContinuePc DEF Continue
  <2>3. CASE UNCHANGED <<queue, demand, sent>>
    BY <1>b, <2>2, <2>3 DEF OneOrigin
  <2>4. CASE Emission
    <3>1. PICK outs \in SUBSET Outputs(current), origin \in Nat :
                 /\ Emit(outs, origin)
                 /\ Role[current] # "Source" => inHand # NoElem /\ origin = inHand.origin
      BY <2>4 DEF Emission
    <3>2. outs \in SUBSET Stream
      BY DEF Outputs
    <3>3. \A s \in outs : queue[s] = <<>>
      BY <1>a, <2>1, <3>2, TopologyAssumption DEF DownstreamInv, Outputs
    <3>4. \A s \in Stream \ outs : \A i \in DOMAIN queue[s] : queue[s][i].origin = origin
      <4>1. CASE Role[current] # "Source"
        BY <1>b, <3>1, <4>1 DEF OneOrigin
      <4>2. CASE Role[current] = "Source"
        <5>1. \A s \in Stream : Role[To[s]] # "Source" /\ To[s] \in Stage
          BY TopologyAssumption DEF Inputs
        <5>2. \A s \in Stream : Pos[current] < Pos[To[s]]
          BY <2>1, <4>2, <5>1, TopologyAssumption
        <5>3. \A s \in Stream : Pos[To[s]] > Pos[current]
          BY <2>1, <5>1, <5>2, TopologyAssumption
        <5>4. \A s \in Stream : queue[s] = <<>>
          BY <1>a, <2>1, <5>3 DEF DownstreamInv
        <5> QED BY <5>4
      <4> QED BY <4>1, <4>2
    <3>5. ASSUME NEW s \in Stream, NEW i \in DOMAIN queue'[s]
          PROVE  queue'[s][i].origin = origin
      <4>1. CASE s \notin outs
        <5>1. queue'[s] = queue[s]
          BY <3>1, <3>2, <4>1, EmitEffect
        <5> QED BY <3>4, <3>5, <4>1, <5>1
      <4>2. CASE s \in outs
        <5>1. queue[s] = <<>> /\ Len(queue[s]) = 0 /\ Len(queue[s]) # Capacity[s]
          BY <3>3, <4>2, EmptySeq, ConfigAssumption
        <5>2. PICK e \in Elem : /\ queue'[s] = Append(queue[s], e)
                               /\ sent'[s] = Append(sent[s], e)
                               /\ e.origin = origin
          BY <3>1, <3>2, <4>2, <5>1, EmitEffect
        <5>3. queue'[s] = <<e>>
          BY <5>1, <5>2
        <5> QED BY <3>5, <5>2, <5>3
      <4> QED BY <4>1, <4>2
    <3> QED BY <2>2, <3>5 DEF OneOrigin
  <2> QED BY <1>2, <2>3, <2>4, OutcomeShape
<1>3. CASE FinishDrain
  <2>1. state' \in Terminal
    BY <1>3 DEF FinishDrain, TerminalState, Terminal
  <2> QED BY <2>1 DEF Early, Terminal
<1>4. CASE UNCHANGED vars \/ Finished \/ OperatorCancel \/ OperatorStoreFlag \/ DeadlineElapses
  <2>1. UNCHANGED <<queue, pc, current, inHand>>
    BY <1>4 DEF vars, Finished, OperatorCancel, OperatorStoreFlag,
                DeadlineElapses, streamVars, driverVars
  <2> QED BY <1>b, <1>c, <2>1 DEF OneOrigin
<1>5. CASE \/ Start \/ NotifyProducer \/ BeginPropagate \/ BeginWait \/ WaitElapsed
           \/ PropagateStage
  <2>1. UNCHANGED <<queue, inHand>> /\ pc # "invoke"
    BY <1>5 DEF Start, NotifyProducer, BeginPropagate, BeginWait, WaitElapsed,
                PropagateStage, streamVars
  <2> QED BY <1>b, <1>c, <2>1 DEF OneOrigin
<1>6. CASE ObserveCancel \/ AllStreamsComplete \/ WaitCancelled \/ WaitDeadline
  BY <1>6 DEF ObserveCancel, AllStreamsComplete, WaitCancelled, WaitDeadline,
              EnterDrain, Early
<1>7. CASE \E k \in Stage : BeginStage(k)
  BY <1>1, <1>7 DEF BeginStage
<1> QED BY <1>2, <1>3, <1>4, <1>5, <1>6, <1>7 DEF Next, Driver, Outcome

-----------------------------------------------------------------------------
(* The inductive invariant.                                                *)

(* A driver that has just been created satisfies the invariant.            *)
LEMMA IndInvInit == Init => IndInv
<1> SUFFICES ASSUME Init PROVE IndInv
  OBVIOUS
<1>1. TypeOK /\ InvokeInv
  BY TypeInit
<1>2. PhaseInv
  BY DEF Init, PhaseInv, Terminal
<1>3. \A s \in Stream : queue[s] = <<>> /\ Len(queue[s]) = 0 /\ Capacity[s] \in Nat \ {0}
  BY EmptySeq, ConfigAssumption DEF Init
<1>4. DemandConservation
  BY <1>3 DEF Init, DemandConservation
<1>5. BackpressureInv
  BY <1>3 DEF Init, BackpressureInv
<1>6. CompletionInv
  BY DEF Init, CompletionInv
<1>7. DownstreamInv
  BY <1>3 DEF Init, DownstreamInv
<1>8. FifoInv
  <2>1. \A s \in Stream : sent[s] = <<>> /\ taken[s] = <<>> /\ queue[s] = <<>>
    BY DEF Init
  <2>2. <<>> = <<>> \o <<>>
    OBVIOUS
  <2> QED BY <2>1, <2>2 DEF FifoInv
<1>9. InFlightInv
  <2>1. OneOrigin(0)
    BY <1>3 DEF OneOrigin, Init
  <2> QED BY <2>1 DEF InFlightInv, Init
<1> QED BY <1>1, <1>2, <1>4, <1>5, <1>6, <1>7, <1>8, <1>9 DEF IndInv

(* Every step preserves the invariant.                                     *)
LEMMA IndInvStep == IndInv /\ [Next]_vars => IndInv'
  BY TypeStep, PhaseStep, DemandStep, BackpressureStep, CompletionStep,
     DownstreamStep, FifoStep, InFlightStep DEF IndInv

(* The inductive invariant holds in every reachable state.                 *)
THEOREM InvariantHolds == Spec => []IndInv
  BY IndInvInit, IndInvStep, PTL DEF Spec

(* Demand credits and queued elements always add up to the capacity, for   *)
(* every topology and capacity and also through errors and draining.       *)
THEOREM DemandConserved == Spec => []DemandConservation
<1>1. IndInv => DemandConservation
  BY DEF IndInv
<1> QED BY <1>1, InvariantHolds, PTL

(* While a flow runs no stream ever holds more than one element: the       *)
(* consumer-first scheduler bounds every queue, not its capacity.          *)
THEOREM QueueDepthBounded == Spec => []QueueDepthAtMostOne
<1>1. IndInv => QueueDepthAtMostOne
  BY DEF IndInv, DownstreamInv, Early, QueueDepthAtMostOne
<1> QED BY <1>1, InvariantHolds, PTL

(* While a flow runs no element is lost, duplicated or reordered on any    *)
(* stream, although every caller of push ignores a full queue.             *)
THEOREM StreamsLossless == Spec => []LosslessFifo
<1>1. IndInv => LosslessFifo
  BY DEF IndInv, FifoInv, Early, LosslessFifo
<1> QED BY <1>1, InvariantHolds, PTL

(* The backpressure flags, and what the sources were told of them, are up  *)
(* to date at every scheduling decision of the main loop.                  *)
THEOREM BackpressureCorrect == Spec => []BackpressureAccurate
<1>1. IndInv => BackpressureAccurate
  BY DEF IndInv, BackpressureInv, Early, BackpressureAccurate
<1> QED BY <1>1, InvariantHolds, PTL

(* The main loop finds no stage ready only when every queue is empty and   *)
(* every source has ended: no credit, flag or full queue can stall a flow. *)
THEOREM NeverStalls == Spec => []NoStall
<1>1. IndInv => NoStall
  <2> SUFFICES ASSUME IndInv, state = "Running", pc = "select", NoneReady,
                      NEW s \in Stream
               PROVE  queue[s] = <<>> /\ (Inputs(From[s]) = {} => complete[s])
    BY DEF NoStall
  <2> USE DEF IndInv
  <2>1. -1 \in Int /\ \A j \in Stage : Pos[j] > -1 => ~Ready(j)
    BY DEF NoneReady
  <2>2. \A t \in Stream : Pos[To[t]] > -1 => queue[t] = <<>>
    <3>1. EmptyOpen
      BY EmptyCanProduce DEF EmptyOpen
    <3> QED BY <2>1, <3>1, NothingDownstream
  <2>3. \A t \in Stream : Pos[To[t]] > -1
    BY TopologyAssumption
  <2>4. queue[s] = <<>>
    BY <2>2, <2>3
  <2>5. ASSUME Inputs(From[s]) = {}, ~complete[s] PROVE FALSE
    <3>1. From[s] \in Stage /\ Role[From[s]] = "Source" /\ s \in Outputs(From[s])
      BY <2>5, TopologyAssumption DEF Outputs
    <3>2. ProducerCanProduce(s)
      BY <2>4, <2>5, EmptyCanProduce
    <3>3. Ready(From[s])
      BY <3>1, <3>2 DEF Ready, SomeCanProduce
    <3> QED BY <3>1, <3>3 DEF NoneReady
  <2> QED BY <2>4, <2>5
<1> QED BY <1>1, InvariantHolds, PTL

(* The pipeline works on one source element at a time, however many stages *)
(* and streams it has: stages never overlap.                               *)
THEOREM OneElementInFlight == Spec => []SingleElementInFlight
<1>1. IndInv => SingleElementInFlight
  <2> SUFFICES ASSUME IndInv, state = "Running" PROVE SingleElementInFlight
    BY DEF SingleElementInFlight
  <2> DEFINE Held == {queue[s][1].origin : s \in {t \in Stream : queue[t] # <<>>}}
                     \cup (IF inHand = NoElem THEN {} ELSE {inHand.origin})
  <2>1. PICK o \in Nat : OneOrigin(o)
    BY DEF IndInv, InFlightInv, Early
  <2>2. ASSUME NEW s \in Stream, queue[s] # <<>> PROVE queue[s][1].origin = o
    <3>1. DOMAIN queue[s] = 1..Len(queue[s]) /\ Len(queue[s]) \in Nat \ {0}
      BY <2>2, LenProperties, EmptySeq DEF IndInv, TypeOK
    <3> QED BY <2>1, <3>1 DEF OneOrigin
  <2>3. Held \in SUBSET {o}
    BY <2>1, <2>2 DEF OneOrigin
  <2>4. Cardinality(Held) <= 1
    <3>1. IsFiniteSet({o}) /\ Cardinality({o}) = 1
      BY FS_Singleton
    <3> HIDE DEF Held
    <3> QED BY <2>3, <3>1, FS_Subset
  <2> QED BY <2>4 DEF SingleElementInFlight
<1> QED BY <1>1, InvariantHolds, PTL

(* Completion is final: a stream whose producer has signalled completion   *)
(* never receives another element and never becomes open again.            *)
THEOREM CompletionFinal == Spec => NoEmissionAfterComplete
<1>1. IndInv /\ [Next]_vars =>
        \A s \in Stream : complete[s] => sent'[s] = sent[s] /\ complete'[s]
  <2> SUFFICES ASSUME IndInv, [Next]_vars, NEW s \in Stream, complete[s]
               PROVE  sent'[s] = sent[s] /\ complete'[s]
    OBVIOUS
  <2> USE DEF IndInv
  <2>1. CASE Outcome
    <3>1. CASE Emission /\ UNCHANGED complete
      <4>1. PICK outs \in SUBSET Outputs(current), origin \in Nat : Emit(outs, origin)
        BY <3>1 DEF Emission
      <4>2. outs \in SUBSET Stream
        BY DEF Outputs
      <4>3. s \notin outs
        BY <2>1, OutcomeShape DEF CompletionInv
      <4> QED BY <3>1, <4>1, <4>2, <4>3, EmitEffect
    <3>2. CASE UNCHANGED sent
      <4>1. UNCHANGED complete \/ PullNone \/ EnterDrain
        BY <2>1, OutcomeShape
      <4> QED BY <3>2, <4>1 DEF PullNone, EnterDrain
    <3> QED BY <2>1, <3>1, <3>2, OutcomeShape
  <2>2. CASE FinishDrain \/ \E k \in Stage : BeginStage(k)
    BY <2>2 DEF FinishDrain, BeginStage
  <2>3. CASE UNCHANGED vars \/ Finished \/ OperatorCancel \/ OperatorStoreFlag \/ DeadlineElapses
    BY <2>3 DEF vars, Finished, OperatorCancel, OperatorStoreFlag,
                DeadlineElapses, streamVars, history
  <2>4. CASE Start \/ NotifyProducer \/ BeginPropagate \/ BeginWait \/ WaitElapsed
    BY <2>4 DEF Start, NotifyProducer, BeginPropagate, BeginWait, WaitElapsed,
                streamVars, history
  <2>5. CASE \/ PropagateStage \/ ObserveCancel \/ AllStreamsComplete
             \/ WaitCancelled \/ WaitDeadline
    BY <2>5 DEF PropagateStage, ObserveCancel, AllStreamsComplete, WaitCancelled,
                WaitDeadline, EnterDrain, history
  <2> QED BY <2>1, <2>2, <2>3, <2>4, <2>5 DEF Next, Driver, Outcome
<1> QED BY <1>1, InvariantHolds, PTL DEF Spec, NoEmissionAfterComplete
-----------------------------------------------------------------------------
(* The end of a flow.                                                      *)

(* An invocation returns to the loop it came from, unless it fails under   *)
(* FailFast in the main loop.                                              *)
LEMMA OutcomeEnds ==
  ASSUME TypeOK, InvokeInv, Outcome
  PROVE  \/ Continue
         \/ /\ Cancel("DownstreamError") /\ EnterDrain
            /\ state = "Running" /\ policy = "FailFast"
            /\ UNCHANGED <<active, operator>>
<1>1. CASE StageFailed
  BY <1>1 DEF StageFailed
<1>2. CASE ~StageFailed
  BY <1>2 DEF Outcome, PullElement, PullNone, ProcessOutput, ProcessMultiple,
              ProcessFiltered, PushDelivered
<1> QED BY <1>1, <1>2

(* A queue of at most one element never fills a stream that has room for   *)
(* two, so check_backpressure_all never raises its flag.                   *)
LEMMA QuietStep ==
  ASSUME IndInv, IndInv', QuietInv, [Next]_vars
  PROVE  QuietInv'
<1> SUFFICES ASSUME NEW s \in Stream, Capacity[s] > 1 PROVE ~active'[s]
  BY DEF QuietInv
<1>1. ~active[s] /\ Capacity[s] \in Nat
  BY ConfigAssumption DEF QuietInv
<1>2. CASE UNCHANGED active
  BY <1>1, <1>2
<1>3. CASE Outcome
  <2>1. CASE Continue /\ state = "Running"
    <3>1. CheckBackpressureAll /\ state' = "Running"
      BY <2>1 DEF Continue
    <3>2. active'[s] = CheckTransition(Len(queue'[s]), Capacity[s], LowWatermark[s], active[s])
      BY <3>1 DEF CheckBackpressureAll
    <3>3. Len(queue'[s]) <= 1 /\ Len(queue'[s]) \in Nat
      BY <3>1 DEF IndInv, DownstreamInv, Early, TypeOK
    <3>4. ~(Len(queue'[s]) >= Capacity[s])
      BY <1>1, <3>3
    <3> QED BY <1>1, <3>2, <3>4, Zenon DEF CheckTransition
  <2>2. CASE Continue /\ state # "Running"
    BY <1>1, <2>2 DEF Continue
  <2> QED BY <1>1, <1>3, <2>1, <2>2, OutcomeEnds DEF IndInv
<1>4. CASE FinishDrain \/ \E k \in Stage : BeginStage(k)
  BY <1>1, <1>4 DEF FinishDrain, BeginStage
<1> QED BY <1>2, <1>3, <1>4, StepShape

(* FlowCancellation keeps the first reason, and the terminal state is      *)
(* Completed for no other than SourceComplete.                             *)
LEMMA ReasonStep ==
  ASSUME IndInv, IndInv', ReasonInv, [Next]_vars
  PROVE  ReasonInv'
<1> USE DEF ReasonInv, Early
<1>a. state = "Completed" => pc = "done"
  BY DEF IndInv, PhaseInv, Terminal
<1>1. CASE UNCHANGED vars \/ Finished
  BY <1>1 DEF Finished, vars, driverVars, cancelVars
<1>2. CASE ObserveCancel \/ WaitCancelled
  BY <1>2 DEF ObserveCancel, WaitCancelled, EnterDrain, IsCancelled, cancelVars
<1>3. CASE WaitDeadline \/ AllStreamsComplete
  BY <1>3 DEF WaitDeadline, AllStreamsComplete, EnterDrain, Cancel, RecordReason
<1>4. CASE Outcome
  <2>1. CASE Continue
    BY <2>1 DEF Continue, cancelVars
  <2>2. CASE Cancel("DownstreamError") /\ EnterDrain
    BY <2>2 DEF Cancel, RecordReason, EnterDrain
  <2> QED BY <1>4, <2>1, <2>2, OutcomeEnds DEF IndInv
<1>5. CASE OperatorCancel \/ OperatorStoreFlag
  BY <1>5 DEF OperatorCancel, OperatorStoreFlag, RecordReason, driverVars
<1>6. CASE FinishDrain
  BY <1>6 DEF FinishDrain, TerminalState, cancelVars
<1>7. CASE \/ Start \/ NotifyProducer \/ BeginPropagate \/ BeginWait \/ WaitElapsed
           \/ PropagateStage \/ DeadlineElapses \/ \E k \in Stage : BeginStage(k)
  <2>1. UNCHANGED <<cancelVars, operator>> /\ state' # "Completed" /\ (state' = state \/ Start)
    BY <1>7, <1>a DEF Start, NotifyProducer, BeginPropagate, BeginWait, WaitElapsed,
                PropagateStage, DeadlineElapses, BeginStage, driverVars
  <2> QED BY <2>1 DEF cancelVars, Start
<1> QED BY <1>1, <1>2, <1>3, <1>4, <1>5, <1>6, <1>7 DEF Next, Driver, Outcome

(* Emitting adds to the end of queues, and the element of an invocation    *)
(* in the main loop finds room in each of them.                            *)
LEMMA EmitKeeps ==
  ASSUME IndInv, Early, pc = "invoke", NEW outs \in SUBSET Outputs(current),
         NEW origin \in Nat, Emit(outs, origin)
  PROVE  /\ \A t \in Stream : \A j \in DOMAIN queue[t] :
              j \in DOMAIN queue'[t] /\ queue'[t][j] = queue[t][j]
         /\ \A t \in outs : \E e \in Elem : /\ 1 \in DOMAIN queue'[t] /\ queue'[t][1] = e
                                            /\ sent'[t] = Append(sent[t], e)
                                            /\ e.origin = origin
         /\ \A t \in Stream \ outs : sent'[t] = sent[t]
<1>1. outs \in SUBSET Stream /\ current \in Stage /\ TypeOK
  BY DEF Outputs, IndInv, InvokeInv
<1>2. \A t \in outs : queue[t] = <<>>
  BY <1>1, TopologyAssumption DEF IndInv, DownstreamInv, Outputs
<1>3. ASSUME NEW t \in outs
      PROVE  \E e \in Elem : /\ 1 \in DOMAIN queue'[t] /\ queue'[t][1] = e
                             /\ sent'[t] = Append(sent[t], e)
                             /\ e.origin = origin
  <2>1. queue[t] = <<>> /\ Len(queue[t]) = 0 /\ Len(queue[t]) # Capacity[t] /\ t \in Stream
    BY <1>1, <1>2, EmptySeq, ConfigAssumption
  <2>2. PICK e \in Elem : /\ queue'[t] = Append(queue[t], e)
                          /\ sent'[t] = Append(sent[t], e)
                          /\ e.origin = origin
    BY <1>1, <2>1, EmitEffect
  <2>3. queue'[t] = <<e>>
    BY <2>1, <2>2
  <2> QED BY <2>2, <2>3
<1>4. \A t \in Stream \ outs : queue'[t] = queue[t] /\ sent'[t] = sent[t]
  BY <1>1, EmitEffect
<1> QED BY <1>2, <1>3, <1>4

(* An element that was under way in a queue is so still.                   *)
LEMMA UnderwayKept ==
  ASSUME \A t \in Stream : \A j \in DOMAIN queue[t] :
           j \in DOMAIN queue'[t] /\ queue'[t][j] = queue[t][j],
         NEW o, Underway(o), inHand = NoElem \/ inHand.origin # o
  PROVE  Underway(o)'
  BY DEF Underway

(* Taking the input of a stage moves it from the queue into the hand.      *)
LEMMA BeginKeeps ==
  ASSUME IndInv, Early, NEW k \in Stage, BeginStage(k), NEW o, Underway(o)
  PROVE  Underway(o)'
<1>1. pc = "select" /\ inHand = NoElem
  BY DEF BeginStage, IndInv, InFlightInv
<1>2. CASE UNCHANGED <<queue, inHand>>
  BY <1>2 DEF Underway
<1>3. ASSUME NEW s \in Stream, TakeInput(k, s) PROVE Underway(o)'
  <2>1. queue[s] \in Seq(Elem) /\ queue[s] # <<>> /\ TypeOK
    BY <1>3, TakeEffect DEF IndInv, TypeOK
  <2>2. inHand' = Head(queue[s]) /\ queue'[s] = Tail(queue[s])
    BY <1>3, <2>1, TakeEffect DEF TakeInput
  <2>a. PICK t \in Stream : \E j \in DOMAIN queue[t] : queue[t][j].origin = o
    BY <1>1 DEF Underway
  <2>3. PICK j \in DOMAIN queue[t] : queue[t][j].origin = o
    BY <2>a
  <2>4. CASE t # s
    <3>1. queue'[t] = queue[t]
      BY <1>3, <2>1, <2>4, TakeEffect
    <3> QED BY <2>3, <3>1 DEF Underway
  <2>5. CASE t = s /\ j = 1
    <3>1. inHand' = queue[s][1] /\ inHand' \in Elem
      BY <2>1, <2>2
    <3>2. inHand' # NoElem
      BY <3>1 DEF Elem, NoElem
    <3> QED BY <2>3, <2>5, <3>1, <3>2 DEF Underway
  <2>6. CASE t = s /\ j # 1
    <3>1. j - 1 \in DOMAIN Tail(queue[s]) /\ Tail(queue[s])[j - 1] = queue[s][j]
      BY <2>1, <2>6
    <3> QED BY <2>2, <2>3, <2>6, <3>1 DEF Underway
  <2> QED BY <2>4, <2>5, <2>6
<1> QED BY <1>2, <1>3 DEF BeginStage

(* A return to the main loop leaves every element accounted for: emitting  *)
(* passes it on, any other return settles it.                              *)
LEMMA OutcomeKeeps ==
  ASSUME IndInv, Early, Continue, Outcome, NEW o, Settled(o) \/ Underway(o)
  PROVE  (Settled(o) \/ Underway(o))'
<1>a. TypeOK /\ pc = "invoke" /\ current \in Stage
  BY OutcomeShape DEF IndInv
<1>b. Role[current] = "Source" => inHand = NoElem
  BY <1>a DEF IndInv, InFlightInv
<1>1. ASSUME Settled(o), fate \subseteq fate' PROVE Settled(o)'
  BY <1>1 DEF Settled
<1>2. ASSUME NEW outs \in SUBSET Outputs(current), NEW origin \in Nat, outs # {},
             Emit(outs, origin), inHand = NoElem \/ origin = inHand.origin,
             Underway(o)
      PROVE  Underway(o)'
  <2>1. CASE inHand = NoElem \/ inHand.origin # o
    <3>1. \A t \in Stream : \A j \in DOMAIN queue[t] :
            j \in DOMAIN queue'[t] /\ queue'[t][j] = queue[t][j]
      BY <1>2, <1>a, EmitKeeps
    <3> QED BY <1>2, <2>1, <3>1, UnderwayKept
  <2>2. CASE inHand # NoElem /\ inHand.origin = o
    <3>1. PICK t \in outs : TRUE
      BY <1>2
    <3>2. PICK e \in Elem : 1 \in DOMAIN queue'[t] /\ queue'[t][1] = e /\ e.origin = origin
      BY <1>2, <1>a, <3>1, EmitKeeps
    <3>3. t \in Stream
      BY DEF Outputs
    <3> QED BY <1>2, <2>2, <3>2, <3>3 DEF Underway
  <2> QED BY <2>1, <2>2
<1>3. CASE PullElement
  <2>1. PICK s \in Stream : FirstOutput(current, s) /\ Emit({s}, nextSeq)
    BY <1>3 DEF PullElement
  <2>2. {s} \in SUBSET Outputs(current) /\ {s} # {} /\ nextSeq \in Nat /\ inHand = NoElem
    BY <1>3, <1>a, <1>b, <2>1 DEF FirstOutput, TypeOK, PullElement, Invoking
  <2> QED BY <1>1, <1>2, <1>3, <2>1, <2>2 DEF PullElement
<1>4. CASE ProcessOutput
  <2>1. PICK s \in Stream : FirstOutput(current, s) /\ Emit({s}, inHand.origin)
    BY <1>4 DEF ProcessOutput
  <2>2. {s} \in SUBSET Outputs(current) /\ {s} # {} /\ inHand.origin \in Nat
    BY <1>4, <1>a, <2>1 DEF FirstOutput, ProcessOutput, Invoking, IndInv, InvokeInv, Elem
  <2> QED BY <1>1, <1>2, <1>4, <2>1, <2>2 DEF ProcessOutput
<1>5. CASE ProcessMultiple
  <2>1. PICK last \in Outputs(current) :
              Emit({s \in Outputs(current) : s <= last}, inHand.origin)
    BY <1>5 DEF ProcessMultiple
  <2> DEFINE outs == {s \in Outputs(current) : s <= last}
  <2>2. last \in outs
    BY DEF Outputs, Stream
  <2>3. outs \in SUBSET Outputs(current) /\ outs # {} /\ inHand.origin \in Nat
    BY <1>5, <1>a, <2>2 DEF ProcessMultiple, Invoking, IndInv, InvokeInv, Elem
  <2> HIDE DEF outs
  <2>4. Emit(outs, inHand.origin)
    BY <2>1 DEF outs
  <2> QED BY <1>1, <1>2, <1>5, <2>3, <2>4 DEF ProcessMultiple
<1>6. ASSUME UNCHANGED queue, fate \subseteq fate',
             inHand = NoElem \/ \E f \in fate' : f.origin = inHand.origin
      PROVE  (Settled(o) \/ Underway(o))'
  <2>1. CASE inHand # NoElem /\ inHand.origin = o
    BY <1>6, <2>1 DEF Settled
  <2>2. CASE inHand = NoElem \/ inHand.origin # o
    BY <1>1, <1>6, <2>2, UnderwayKept
  <2> QED BY <2>1, <2>2
<1>7. CASE PullNone \/ (StageFailed /\ Role[current] = "Source")
  BY <1>6, <1>7, <1>b DEF PullNone, StageFailed, Invoking
<1>8. CASE ProcessFiltered \/ PushDelivered \/ (StageFailed /\ Role[current] # "Source")
  <2>1. PICK kind : Settle(kind) /\ UNCHANGED queue
    BY <1>8 DEF ProcessFiltered, PushDelivered, StageFailed
  <2>2. fate \subseteq fate' /\ \E f \in fate' : f.origin = inHand.origin
    <3> DEFINE f0 == [origin |-> inHand.origin, kind |-> kind]
    <3>1. fate' = fate \cup {f0}
      BY <2>1 DEF Settle
    <3>2. f0.origin = inHand.origin
      OBVIOUS
    <3> HIDE DEF f0
    <3> QED BY <3>1, <3>2
  <2> QED BY <1>6, <2>1, <2>2
<1> QED BY <1>3, <1>4, <1>5, <1>7, <1>8 DEF Outcome

(* A return settles an element as it says, and as failed under FailFast    *)
(* only when it leaves the main loop.                                      *)
LEMMA OutcomeClean ==
  ASSUME IndInv, Early, CleanFates, Continue, Outcome, policy' = policy
  PROVE  CleanFates'
<1>1. state = "Running"
  BY OutcomeShape DEF IndInv, PhaseInv, Early
<1>2. ASSUME NEW kind \in {"filtered", "delivered", "errored"}, Settle(kind),
             policy = "FailFast" => kind # "errored"
      PROVE  CleanFates'
  <2> DEFINE f0 == [origin |-> inHand.origin, kind |-> kind]
  <2>1. fate' = fate \cup {f0}
    BY <1>2 DEF Settle
  <2>2. f0.kind = kind
    OBVIOUS
  <2> HIDE DEF f0
  <2> QED BY <1>2, <2>1, <2>2 DEF CleanFates
<1>3. CASE UNCHANGED fate
  BY <1>3 DEF CleanFates
<1>4. CASE StageFailed
  <2>1. policy # "FailFast"
    BY <1>1, <1>4 DEF StageFailed, Continue, EnterDrain
  <2> QED BY <1>2, <1>3, <1>4, <2>1 DEF StageFailed
<1>5. CASE ProcessFiltered \/ PushDelivered
  BY <1>2, <1>5 DEF ProcessFiltered, PushDelivered
<1> QED BY <1>3, <1>4, <1>5 DEF Outcome, PullElement, PullNone, ProcessOutput, ProcessMultiple

(* What a return adds to the output of a source is under way.              *)
LEMMA PulledUnderway ==
  ASSUME IndInv, Early, Continue, Outcome, NEW s \in SourceStream, NEW i \in DOMAIN sent'[s]
  PROVE  \/ i \in DOMAIN sent[s] /\ sent'[s][i] = sent[s][i]
         \/ \E j \in DOMAIN queue'[s] : queue'[s][j].origin = sent'[s][i].origin
<1>a. TypeOK /\ pc = "invoke" /\ current \in Stage /\ s \in Stream
  BY OutcomeShape DEF IndInv, SourceStream
<1>1. CASE UNCHANGED sent
  BY <1>1
<1>2. CASE Emission
  <2>1. PICK outs \in SUBSET Outputs(current), origin \in Nat : Emit(outs, origin)
    BY <1>2 DEF Emission
  <2>2. CASE s \notin outs
    <3>1. sent'[s] = sent[s]
      BY <1>a, <2>1, <2>2, EmitKeeps
    <3> QED BY <3>1
  <2>3. CASE s \in outs
    <3>1. PICK e \in Elem : /\ 1 \in DOMAIN queue'[s] /\ queue'[s][1] = e
                            /\ sent'[s] = Append(sent[s], e)
      BY <1>a, <2>1, <2>3, EmitKeeps
    <3>2. sent[s] \in Seq(Elem)
      BY <1>a DEF TypeOK
    <3>3. \/ i \in DOMAIN sent[s] /\ sent'[s][i] = sent[s][i]
          \/ sent'[s][i] = e
      BY <3>1, <3>2
    <3> QED BY <3>1, <3>3
  <2> QED BY <2>2, <2>3
<1>3. UNCHANGED <<queue, demand, sent>> \/ Emission
  BY OutcomeShape DEF IndInv
<1> QED BY <1>1, <1>2, <1>3

(* In the main loop every element pulled is accounted for.                 *)
LEMMA AccountStep ==
  ASSUME IndInv, AccountInv, [Next]_vars
  PROVE  AccountInv'
<1> DEFINE Accounted(o) == Settled(o) \/ Underway(o)
<1> SUFFICES ASSUME Early'
             PROVE  /\ CleanFates'
                    /\ \A s \in SourceStream : \A i \in DOMAIN sent'[s] :
                         \A o : o = sent'[s][i].origin => Accounted(o)'
  BY DEF AccountInv, SourceStream, Settled, Underway
<1>a. Early
  BY StateForward DEF IndInv
<1>b. /\ CleanFates
      /\ \A s \in SourceStream : \A i \in DOMAIN sent[s] :
           \A o : o = sent[s][i].origin => Accounted(o)
  BY <1>a DEF AccountInv
<1> HIDE DEF Accounted
<1> USE PolicyKept
<1>1. CASE \E k \in Stage : BeginStage(k)
  <2>1. UNCHANGED <<sent, fate>>
    BY <1>1 DEF BeginStage
  <2>2. \A o : Accounted(o) => Accounted(o)'
    BY <1>1, <1>a, <2>1, BeginKeeps DEF Accounted, Settled
  <2> QED BY <1>b, <2>1, <2>2 DEF CleanFates
<1>2. CASE Outcome
  <2>1. Continue
    BY <1>2, OutcomeEnds DEF IndInv, EnterDrain, Early
  <2>2. \A o : Accounted(o) => Accounted(o)'
    BY <1>2, <1>a, <2>1, OutcomeKeeps DEF Accounted
  <2>3. CleanFates'
    BY <1>2, <1>a, <1>b, <2>1, OutcomeClean
  <2>4. ASSUME NEW s \in SourceStream, NEW i \in DOMAIN sent'[s], NEW o, o = sent'[s][i].origin
        PROVE  Accounted(o)'
    <3>1. CASE i \in DOMAIN sent[s] /\ sent'[s][i] = sent[s][i]
      BY <1>b, <2>2, <2>4, <3>1
    <3>2. CASE \E j \in DOMAIN queue'[s] : queue'[s][j].origin = sent'[s][i].origin
      BY <2>4, <3>2 DEF Accounted, Underway, SourceStream
    <3> QED BY <1>2, <1>a, <2>1, <3>1, <3>2, PulledUnderway
  <2> QED BY <2>3, <2>4
<1>3. CASE UNCHANGED <<queue, inHand, sent, fate>>
  BY <1>b, <1>3 DEF Accounted, Settled, Underway, CleanFates
<1>4. CASE FinishDrain
  <2>1. state' \in Terminal
    BY <1>4 DEF FinishDrain, TerminalState, Terminal
  <2> QED BY <2>1 DEF Early, Terminal
<1>5. CASE UNCHANGED vars \/ Finished \/ OperatorCancel \/ OperatorStoreFlag \/ DeadlineElapses
  BY <1>3, <1>5 DEF vars, Finished, OperatorCancel, OperatorStoreFlag,
              DeadlineElapses, streamVars, driverVars, history
<1>6. CASE \/ Start \/ NotifyProducer \/ BeginPropagate \/ BeginWait \/ WaitElapsed
           \/ PropagateStage
  BY <1>3, <1>6 DEF Start, NotifyProducer, BeginPropagate, BeginWait, WaitElapsed,
              PropagateStage, streamVars, history
<1>7. CASE ObserveCancel \/ AllStreamsComplete \/ WaitCancelled \/ WaitDeadline
  BY <1>7 DEF ObserveCancel, AllStreamsComplete, WaitCancelled, WaitDeadline,
              EnterDrain, Early
<1> QED BY <1>1, <1>2, <1>4, <1>5, <1>6, <1>7 DEF Next, Driver, Outcome

(* Only AllStreamsComplete gives the reason SourceComplete; it finds every *)
(* queue empty and every stream complete, so that the drain loop runs no   *)
(* stage and discards nothing.                                             *)
LEMMA EndStep ==
  ASSUME IndInv, IndInv', AccountInv, EndInv, [Next]_vars
  PROVE  EndInv'
<1> DEFINE Ends == /\ \A s \in Stream : IsComplete(s)
                   /\ \A s \in SourceStream : \A i \in DOMAIN sent[s] :
                        \A o : o = sent[s][i].origin => Settled(o)
                   /\ CleanFates
<1>a. EndInv <=> (reason = "SourceComplete" => ~Early /\ pc # "invoke" /\ Ends)
  BY DEF EndInv
<1>b. EndInv' <=> (reason' = "SourceComplete" => ~Early' /\ pc' # "invoke" /\ Ends')
  BY DEF EndInv, SourceStream, Settled
<1>c. UNCHANGED <<queue, complete, sent, fate>> => (Ends' <=> Ends)
  BY PolicyKept DEF IsComplete, Settled, CleanFates
<1> HIDE DEF Ends
<1>1. ASSUME NEW k \in Stage, BeginStage(k) PROVE reason # "SourceComplete" /\ UNCHANGED reason
  <2>1. Ready(k) /\ UNCHANGED reason
    BY <1>1 DEF BeginStage, Selected, cancelVars
  <2>2. ASSUME Ends PROVE ~Ready(k)
    <3>1. \A s \in Stream : complete[s] /\ queue[s] = <<>>
      BY <2>2 DEF Ends, IsComplete
    <3>2. ~HasInput(k)
      BY <3>1 DEF HasInput, ConsumerHasInput, Inputs
    <3>3. ~SomeCanProduce(k)
      BY <3>1 DEF SomeCanProduce, ProducerCanProduce, Outputs
    <3> QED BY <3>2, <3>3 DEF Ready
  <2> QED BY <1>a, <2>1, <2>2
<1>2. CASE Outcome
  <2>1. reason # "SourceComplete"
    BY <1>2, <1>a, OutcomeShape DEF IndInv
  <2>2. reason' # "SourceComplete"
    BY <1>2, <2>1, OutcomeEnds DEF IndInv, Continue, cancelVars, Cancel, RecordReason
  <2> QED BY <1>b, <2>2
<1>3. CASE AllStreamsComplete
  <2>1. pc = "propagate" /\ state = "Running"
    BY <1>3 DEF AllStreamsComplete, IndInv, PhaseInv
  <2>2. inHand = NoElem
    BY <2>1 DEF IndInv, InFlightInv, Early
  <2>3. Ends
    <3>1. \A s \in Stream : IsComplete(s)
      BY <1>3 DEF AllStreamsComplete
    <3>2. \A o : ~Underway(o)
      BY <2>2, <3>1 DEF Underway, IsComplete
    <3> QED BY <2>1, <3>1, <3>2 DEF Ends, AccountInv, Early
  <2>4. UNCHANGED complete
    <3>1. \A s \in Stream : complete[s] = TRUE
      BY <1>3 DEF AllStreamsComplete, IsComplete, IndInv, TypeOK
    <3>2. complete' = [s \in Stream |-> complete[s] \/ Inputs(From[s]) = {}]
      BY <1>3 DEF AllStreamsComplete, EnterDrain
    <3>3. complete \in [Stream -> BOOLEAN]
      BY DEF IndInv, TypeOK
    <3> QED BY <3>1, <3>2, <3>3
  <2>5. UNCHANGED <<queue, sent, fate>> /\ ~Early' /\ pc' # "invoke"
    BY <1>3 DEF AllStreamsComplete, EnterDrain, history, Early
  <2> QED BY <1>b, <1>c, <2>3, <2>4, <2>5
<1>4. CASE FinishDrain
  <2>1. UNCHANGED <<reason, sent, complete>> /\ ~Early' /\ pc' # "invoke"
    BY <1>4 DEF FinishDrain, TerminalState, cancelVars, Early
  <2>2. ASSUME Ends PROVE UNCHANGED <<queue, complete, sent, fate>>
    <3>1. \A s \in Stream : queue[s] = <<>>
      BY <2>2 DEF Ends, IsComplete
    <3>2. queue \in [Stream -> Seq(Elem)]
      BY DEF IndInv, TypeOK
    <3>3. queue' = queue
      BY <1>4, <3>1, <3>2 DEF FinishDrain
    <3>4. UNION {Elements(queue[s]) : s \in Stream} = {}
      BY <3>1 DEF Elements
    <3>5. fate' = fate
      BY <1>4, <3>4 DEF FinishDrain
    <3> QED BY <2>1, <3>3, <3>5
  <2> QED BY <1>a, <1>b, <1>c, <2>1, <2>2
<1>5. CASE UNCHANGED vars \/ Finished \/ OperatorStoreFlag \/ DeadlineElapses
  <2>1. UNCHANGED <<queue, complete, sent, fate, reason, state, pc>>
    BY <1>5 DEF vars, Finished, OperatorStoreFlag, DeadlineElapses, streamVars, driverVars,
                cancelVars, history
  <2> QED BY <1>a, <1>b, <1>c, <2>1 DEF Early
<1>6. CASE OperatorCancel
  <2>1. UNCHANGED <<queue, complete, sent, fate, state, pc>>
    BY <1>6 DEF OperatorCancel, streamVars, driverVars, history
  <2>2. reason' = "SourceComplete" => reason = "SourceComplete"
    BY <1>6 DEF OperatorCancel, RecordReason
  <2> QED BY <1>a, <1>b, <1>c, <2>1, <2>2 DEF Early
<1>7. CASE \/ Start \/ NotifyProducer \/ BeginPropagate \/ BeginWait \/ WaitElapsed
           \/ PropagateStage \/ ObserveCancel \/ WaitCancelled \/ WaitDeadline
  <2>2. CASE Early
    <3>1. reason' # "SourceComplete"
      BY <1>7, <1>a, <2>2 DEF Start, NotifyProducer, BeginPropagate, BeginWait, WaitElapsed,
           PropagateStage, ObserveCancel, WaitCancelled, WaitDeadline, cancelVars, Cancel,
           RecordReason
    <3> QED BY <1>b, <3>1
  <2>3. CASE ~Early
    <3>1. pc # "start" /\ pc \notin {"notify", "propagate", "wait"} /\ state # "Running"
      BY <2>3 DEF IndInv, PhaseInv, Early
    <3> QED BY <1>7, <3>1 DEF Start, NotifyProducer, BeginPropagate, BeginWait, WaitElapsed,
              PropagateStage, ObserveCancel, WaitCancelled, WaitDeadline
  <2> QED BY <2>2, <2>3
<1>8. CASE \E k \in Stage : BeginStage(k)
  BY <1>1, <1>8, <1>b
<1> QED BY <1>2, <1>3, <1>4, <1>5, <1>6, <1>7, <1>8 DEF Next, Driver, Outcome

(* What the end of a flow rests on, besides the invariant of its run.      *)
FinalInv == IndInv /\ QuietInv /\ ReasonInv /\ AccountInv /\ EndInv

(* It holds in every reachable state.                                      *)
THEOREM FinalInvHolds == Spec => []FinalInv
<1>1. Init => FinalInv
  <2> SUFFICES ASSUME Init PROVE FinalInv
    OBVIOUS
  <2>1. QuietInv /\ ReasonInv /\ EndInv
    BY DEF Init, QuietInv, ReasonInv, EndInv, Early
  <2>2. fate = {} /\ \A s \in Stream : DOMAIN sent[s] = {}
    BY DEF Init
  <2>3. AccountInv
    BY <2>2 DEF AccountInv, CleanFates, SourceStream
  <2> QED BY <2>1, <2>3, IndInvInit DEF FinalInv
<1>2. FinalInv /\ [Next]_vars => FinalInv'
  BY IndInvStep, QuietStep, ReasonStep, AccountStep, EndStep DEF FinalInv
<1> QED BY <1>1, <1>2, PTL DEF Spec

(* A flow that reports Completed has pulled its sources to the end and     *)
(* knows what became of every element; it has discarded none, and under    *)
(* FailFast none has failed.  No cancellation that races the end, no error *)
(* and no timeout of the drain can make it report so otherwise.            *)
THEOREM CompletedIsSound == Spec => []CompletionSound
<1>1. FinalInv => CompletionSound
  <2> SUFFICES ASSUME FinalInv, state = "Completed" PROVE CompletionSound
    BY DEF CompletionSound
  <2>1. reason = "SourceComplete"
    BY DEF FinalInv, ReasonInv
  <2>2. /\ \A s \in Stream : IsComplete(s)
        /\ \A s \in SourceStream : \A i \in DOMAIN sent[s] : Settled(sent[s][i].origin)
        /\ CleanFates
    BY <2>1 DEF FinalInv, EndInv
  <2> QED BY <2>2 DEF CompletionSound, IsComplete, SourceStream, Settled, CleanFates
<1> QED BY <1>1, FinalInvHolds, PTL

(* If every stream that a consumer writes to has room for two elements,    *)
(* drain_queues finds nothing ready only when nothing is left: it discards *)
(* an element only when drain_timeout has passed.                          *)
THEOREM DrainFinishes ==
  ASSUME \A s \in Stream : Inputs(From[s]) # {} => Capacity[s] > 1
  PROVE  Spec => []DrainNeverStuck
<1>1. FinalInv => DrainNeverStuck
  <2> SUFFICES ASSUME FinalInv, state = "Draining", pc = "select", NoneReady, NEW s \in Stream
               PROVE  queue[s] = <<>>
    BY DEF DrainNeverStuck
  <2>1. EmptyOpen
    <3> SUFFICES ASSUME NEW t \in Stream, Inputs(From[t]) # {}, queue[t] = <<>>, ~complete[t]
                 PROVE  ProducerCanProduce(t)
      BY DEF EmptyOpen
    <3>1. ~active[t]
      BY DEF FinalInv, QuietInv
    <3>2. Len(queue[t]) = 0
      BY EmptySeq
    <3>3. demand[t] = Capacity[t]
      BY <3>2 DEF FinalInv, IndInv, DemandConservation, Terminal, TypeOK
    <3>4. Capacity[t] \in Nat /\ Capacity[t] > 0
      BY ConfigAssumption
    <3> QED BY <3>1, <3>2, <3>3, <3>4 DEF ProducerCanProduce
  <2>2. -1 \in Int /\ \A j \in Stage : Pos[j] > -1 => ~Ready(j)
    BY DEF NoneReady
  <2>3. \A t \in Stream : Pos[To[t]] > -1 => queue[t] = <<>>
    BY <2>1, <2>2, NothingDownstream DEF FinalInv, IndInv
  <2> QED BY <2>3, TopologyAssumption
<1> QED BY <1>1, FinalInvHolds, PTL
=============================================================================
