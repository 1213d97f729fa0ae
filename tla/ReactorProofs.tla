---------------------------- MODULE ReactorProofs ----------------------------
(***************************************************************************)
(* Proofs about Reactor, for any number of clients, of flows and of        *)
(* retained outcomes: type correctness, that a host that has shut down     *)
(* leaves no flow running that has not been told to stop, and that the     *)
(* outcomes retained are those of the highest reaped ids.                  *)
(***************************************************************************)
EXTENDS Reactor, FiniteSetTheorems, WellFoundedInduction, TLAPS

(* A reactor that nobody has called satisfies both invariants.             *)
LEMMA InitInv == Init => TypeOK /\ StopInv
<1> SUFFICES ASSUME Init PROVE TypeOK /\ StopInv
  OBVIOUS
<1>1. TypeOK
  <2>1. nextFlowId \in 1..(MaxFlows + 1) /\ flows \subseteq 1..(nextFlowId - 1)
    BY ReactorAssumption DEF Init
  <2>2. commands \in Seq(Command)
    BY DEF Init
  <2> QED BY <2>1, <2>2 DEF Init, TypeOK
<1>2. StopInv
  <2>1. answer[Main] = "none"
    BY DEF Init, Caller
  <2> QED BY <2>1 DEF Init, StopInv, Answered
<1> QED BY <1>1, <1>2

(* The command at the head of the channel is one, and so are the others.   *)
LEMMA HeadCommand ==
  ASSUME TypeOK, commands # <<>>
  PROVE  Head(commands) \in Command /\ Tail(commands) \in Seq(Command)
  BY DEF TypeOK

(* A reply is typed, and reaches nobody but its addressee.                 *)
LEMMA ReplyType ==
  ASSUME TypeOK, NEW c \in Caller, NEW kind, NEW value \in Answer, Reply(c, kind, value)
  PROVE  /\ answer' \in [Caller -> Answer \cup {"none"}]
         /\ answer'[Main] # answer[Main] => awaiting[Main] = kind
<1>1. Main \in Caller
  BY DEF Caller
<1> QED BY <1>1 DEF TypeOK, Reply

(* A caller that sends, or takes its reply, stays well typed.              *)
LEMMA SendType ==
  ASSUME TypeOK, NEW c \in Caller, NEW kind \in Kind, NEW f \in IF kind \in AboutOne THEN Id ELSE {0},
         Send(c, kind, f)
  PROVE  /\ commands' \in Seq(Command) /\ awaiting' \in [Caller -> Kind \cup {"none"}]
         /\ answer' = answer /\ about' \in [Caller -> Id \cup {0}]
         /\ \A d \in Caller : d # c => awaiting'[d] = awaiting[d]
         /\ awaiting[c] = "none" /\ awaiting'[c] = kind
<1>1. [kind |-> kind, from |-> c, flow |-> f] \in Command /\ commands \in Seq(Command)
  BY DEF Command, TypeOK, AboutOne, Kind
<1>2. commands' \in Seq(Command)
  BY <1>1 DEF Send
<1> QED BY <1>2 DEF Send, TypeOK

(* Taking a reply clears it and touches no other caller.                   *)
LEMMA ReceiveType ==
  ASSUME TypeOK, NEW c \in Caller, Receive(c)
  PROVE  /\ awaiting' \in [Caller -> Kind \cup {"none"}]
         /\ answer' \in [Caller -> Answer \cup {"none"}]
         /\ about' \in [Caller -> Id \cup {0}]
         /\ answer'[c] = "none"
         /\ \A d \in Caller : d # c => awaiting'[d] = awaiting[d] /\ answer'[d] = answer[d]
  BY DEF Receive, TypeOK

(* A reap takes finished flows out of the map, and no others.              *)
LEMMA ReapType ==
  ASSUME TypeOK, Reap
  PROVE  /\ flows' \subseteq flows
         /\ \A f \in flows : driver[f] = "running" => f \in flows'
         /\ outcomes' \in [Id -> Terminal \cup {"none"}]
<1>1. \A f \in Id : Finished(f) => OutcomeOf(driver[f]) \in Terminal
  BY DEF TypeOK, Finished, OutcomeOf, Terminal
<1>2. flows \subseteq Id
  BY ReactorAssumption DEF TypeOK, Id
<1>3. flows' = flows \ {f \in flows : Finished(f)}
  BY DEF Reap
<1>4. outcomes' \in [Id -> Terminal \cup {"none"}]
  BY <1>1, <1>2 DEF Reap, TypeOK
<1> QED BY <1>3, <1>4 DEF Finished

-----------------------------------------------------------------------------
(* Steps of the coordinator.                                               *)

(* A new flow: only if the coordinator is not shutting down.               *)
LEMMA NewFlowStep ==
  ASSUME TypeOK, StopInv, NEW kind \in {"spawn", "create"}, HandleNewFlow(kind)
  PROVE  TypeOK' /\ StopInv'
<1> DEFINE c == Head(commands).from
<1>1. /\ c \in Caller /\ commands' \in Seq(Command)
      /\ mode = "recv" /\ mode' = "reap"
      /\ UNCHANGED <<awaiting, hostVars, cancelled, outcomes, shuttingDown>>
  BY HeadCommand DEF HandleNewFlow, Handle, Command
<1>2. \/ ~shuttingDown /\ Admit(c, kind)
      \/ Reply(c, kind, "refused") /\ UNCHANGED <<about, nextFlowId, flows, driver>>
  BY DEF HandleNewFlow
<1>a. Main \in Caller /\ {"ok", "refused"} \subseteq Answer
  BY DEF Caller, Answer
<1> HIDE DEF c
<1>3. CASE Admit(c, kind) /\ ~shuttingDown
  <2>1. /\ answer' \in [Caller -> Answer \cup {"none"}]
        /\ answer'[Main] # answer[Main] => awaiting[Main] = kind
    BY <1>1, <1>3, <1>a, ReplyType DEF Admit
  <2>2. /\ nextFlowId \in Id /\ nextFlowId' = nextFlowId + 1
        /\ flows' = flows \cup {nextFlowId} /\ flows \subseteq 1..(nextFlowId - 1)
    BY <1>3, ReactorAssumption DEF Admit, TypeOK, Id
  <2>3. nextFlowId' \in 1..(MaxFlows + 1) /\ flows' \subseteq 1..(nextFlowId' - 1)
    BY <2>2, ReactorAssumption DEF Id
  <2>4. /\ driver' \in [Id -> Terminal \cup {"absent", "running", "panicked"}]
        /\ about' \in [Caller -> Id \cup {0}]
        /\ \A f \in Id : f # nextFlowId => driver'[f] = driver[f]
    BY <1>1, <1>3, <2>2 DEF Admit, TypeOK, Terminal
  <2>5. TypeOK'
    BY <1>1, <2>1, <2>3, <2>4 DEF TypeOK, Command, hostVars
  <2>6. StopInv'
    <3>1. \A f \in Id : driver'[f] = "running" => f \in flows'
      BY <2>2, <2>4 DEF StopInv
    <3>2. Answered(Main, "shutdown")' => Answered(Main, "shutdown")
      BY <1>1, <2>1 DEF Answered
    <3>3. awaiting'[Main] = "none" => answer'[Main] = "none"
      BY <1>1, <2>1 DEF StopInv
    <3> QED BY <1>1, <1>3, <3>1, <3>2, <3>3 DEF StopInv, hostVars
  <2> QED BY <2>5, <2>6
<1>4. CASE Reply(c, kind, "refused") /\ UNCHANGED <<about, nextFlowId, flows, driver>>
  <2>1. /\ answer' \in [Caller -> Answer \cup {"none"}]
        /\ answer'[Main] # answer[Main] => awaiting[Main] = kind
    BY <1>1, <1>4, <1>a, ReplyType
  <2>2. TypeOK'
    BY <1>1, <1>4, <2>1 DEF TypeOK, Command, hostVars
  <2>3. Answered(Main, "shutdown")' => Answered(Main, "shutdown")
    BY <1>1, <2>1 DEF Answered
  <2>4. StopInv'
    BY <1>1, <1>4, <2>1, <2>3 DEF StopInv, hostVars
  <2> QED BY <2>2, <2>4
<1> QED BY <1>2, <1>3, <1>4

(* Cancelling, asking for an outcome and listing.                          *)
LEMMA QueryStep ==
  ASSUME TypeOK, StopInv, HandleCancel \/ HandleOutcome \/ HandleList
  PROVE  TypeOK' /\ StopInv'
<1> DEFINE cmd == Head(commands)
<1>1. /\ cmd \in Command /\ commands' \in Seq(Command)
      /\ mode = "recv" /\ mode' = "reap"
      /\ UNCHANGED <<awaiting, hostVars, about, nextFlowId, flows, outcomes, shuttingDown,
                     driver>>
  BY HeadCommand DEF HandleCancel, HandleOutcome, HandleList, Handle
<1>2. cmd.from \in Caller /\ cmd.flow \in Id \cup {0}
  BY <1>1 DEF Command
<1>3. /\ answer' \in [Caller -> Answer \cup {"none"}]
      /\ answer'[Main] # answer[Main] => awaiting[Main] \in {"cancel", "outcome", "list"}
  <2>1. CASE HandleCancel
    <3>1. PICK v \in Answer : Reply(cmd.from, "cancel", v)
      BY <2>1 DEF HandleCancel, Answer
    <3> QED BY <1>2, <3>1, ReplyType
  <2>2. CASE HandleOutcome
    <3> DEFINE v == IF cmd.flow \in flows THEN "Instantiated"
                    ELSE IF outcomes[cmd.flow] = "none" THEN "unknown"
                    ELSE outcomes[cmd.flow]
    <3>1. Reply(cmd.from, "outcome", v)
      BY <2>2 DEF HandleOutcome
    <3>2. cmd.flow \in Id
      BY <2>2, <1>1 DEF HandleOutcome, Handle, Command, AboutOne
    <3>3. v \in Answer
      BY <3>2 DEF TypeOK, Answer
    <3> HIDE DEF v
    <3> QED BY <1>2, <3>1, <3>3, ReplyType
  <2>3. CASE HandleList
    <3>1. PICK v \in Answer : Reply(cmd.from, "list", v)
      BY <2>3 DEF HandleList, Answer
    <3> QED BY <1>2, <3>1, ReplyType
  <2> QED BY <2>1, <2>2, <2>3
<1>4. cancelled' \in [Id -> BOOLEAN] /\ \A f \in Id : cancelled[f] => cancelled'[f]
  BY DEF HandleCancel, HandleOutcome, HandleList, TypeOK
<1>5. TypeOK'
  BY <1>1, <1>3, <1>4 DEF TypeOK, Command, hostVars
<1>6. Answered(Main, "shutdown")' => Answered(Main, "shutdown")
  BY <1>1, <1>3 DEF Answered
<1>7. flows \subseteq Id
  BY ReactorAssumption DEF TypeOK, Id
<1>8. StopInv'
  BY <1>1, <1>3, <1>4, <1>6, <1>7 DEF StopInv, hostVars
<1> QED BY <1>5, <1>8

(* A shutdown begins by cancelling every flow of the map.                  *)
LEMMA ShutdownStep ==
  ASSUME TypeOK, StopInv, HandleShutdown
  PROVE  TypeOK' /\ StopInv'
<1>1. flows \subseteq Id
  BY ReactorAssumption DEF TypeOK, Id
<1>2. TypeOK'
  BY DEF HandleShutdown, TypeOK, hostVars
<1>3. StopInv'
  BY <1>1 DEF HandleShutdown, StopInv, Answered, hostVars
<1> QED BY <1>2, <1>3

(* Reaping, after a command and while polling.                             *)
LEMMA ReapStep ==
  ASSUME TypeOK, StopInv, ReapAfterCommand \/ ShutdownPoll
  PROVE  TypeOK' /\ StopInv'
<1>1. /\ flows' \subseteq flows /\ \A f \in flows : driver[f] = "running" => f \in flows'
      /\ outcomes' \in [Id -> Terminal \cup {"none"}]
  BY ReapType DEF ReapAfterCommand, ShutdownPoll
<1>2. /\ UNCHANGED <<commands, awaiting, answer, about, nextFlowId, cancelled,
                     shuttingDown, driver, hostVars>>
      /\ mode' = "recv" \/ mode' = mode
  BY DEF ReapAfterCommand, ShutdownPoll
<1>3. TypeOK'
  BY <1>1, <1>2 DEF TypeOK, hostVars
<1>4. StopInv'
  BY <1>1, <1>2 DEF StopInv, Answered, hostVars
<1> QED BY <1>3, <1>4

(* The answer to a shutdown comes from a coordinator that is shutting      *)
(* down.                                                                   *)
LEMMA EndStep ==
  ASSUME TypeOK, StopInv, PollingInv, ShutdownEnds
  PROVE  TypeOK' /\ StopInv'
<1> DEFINE c == Head(commands).from
<1>1. c \in Caller /\ commands' \in Seq(Command)
  BY HeadCommand DEF ShutdownEnds, PollingInv, Command
<1>2. PICK v \in Answer : Reply(c, "shutdown", v)
  BY DEF ShutdownEnds, Answer
<1>3. answer' \in [Caller -> Answer \cup {"none"}]
  BY <1>1, <1>2, ReplyType
<1>4. TypeOK'
  BY <1>1, <1>3 DEF ShutdownEnds, TypeOK, hostVars
<1>5. StopInv'
  <2>1. awaiting'[Main] = "none" => answer'[Main] = "none"
    BY <1>1, <1>2, ReplyType DEF ShutdownEnds, StopInv
  <2> QED BY <2>1 DEF ShutdownEnds, StopInv, hostVars
<1> QED BY <1>4, <1>5

-----------------------------------------------------------------------------
(* The driver tasks, the host and the clients.                             *)

(* Steps that leave the coordinator, the drivers and the replies to Main   *)
(* alone.                                                                  *)
LEMMA OutsideStep ==
  ASSUME TypeOK, StopInv, UNCHANGED <<coordinatorVars, driver>>,
         host' = "stopped" => host = "stopped" \/ Answered(Main, "shutdown"),
         awaiting'[Main] = "none" => answer'[Main] = "none",
         Answered(Main, "shutdown")' => Answered(Main, "shutdown")
  PROVE  StopInv'
  BY DEF StopInv, coordinatorVars

(* A driver task ends.                                                     *)
LEMMA DriverStep ==
  ASSUME TypeOK, StopInv, NEW f \in Id, DriverEnds(f)
  PROVE  TypeOK' /\ StopInv'
<1>1. PICK end \in Terminal \cup {"panicked"} : driver' = [driver EXCEPT ![f] = end]
  BY DEF DriverEnds, Terminal
<1>2. /\ UNCHANGED <<commands, awaiting, answer, about, mode, nextFlowId, flows, cancelled,
                     outcomes, shuttingDown, host, record>>
  BY DEF DriverEnds, coordinatorVars, hostVars
<1>3. /\ driver' \in [Id -> Terminal \cup {"absent", "running", "panicked"}]
      /\ \A g \in Id : driver'[g] = "running" => driver[g] = "running"
  BY <1>1 DEF TypeOK, Terminal
<1>4. TypeOK'
  BY <1>2, <1>3 DEF TypeOK
<1>5. StopInv'
  BY <1>2, <1>3 DEF StopInv, Answered
<1> QED BY <1>4, <1>5

(* A caller sends a command.                                               *)
LEMMA SendStep ==
  ASSUME TypeOK, StopInv, NEW c \in Caller, NEW kind \in Kind,
         NEW f \in IF kind \in AboutOne THEN Id ELSE {0}, Send(c, kind, f),
         UNCHANGED <<coordinatorVars, driver, hostVars>>
  PROVE  TypeOK' /\ StopInv'
<1>1. Main \in Caller
  BY DEF Caller
<1>2. TypeOK'
  BY SendType DEF TypeOK, coordinatorVars, hostVars
<1>3. Answered(Main, "shutdown")' => Answered(Main, "shutdown")
  BY <1>1, SendType DEF Answered, StopInv
<1>4. awaiting'[Main] = "none" => answer'[Main] = "none"
  BY <1>1, SendType DEF StopInv
<1> QED BY <1>2, <1>3, <1>4, OutsideStep DEF hostVars

(* A caller takes its reply, and the host moves on.                        *)
LEMMA ReceiveStep ==
  ASSUME TypeOK, StopInv, NEW c \in Caller, Receive(c),
         UNCHANGED <<commands, coordinatorVars, driver>>,
         host' \in {"starting", "waiting", "stopping", "stopped", "aborted"},
         host' = "stopped" => host = "stopped" \/ Answered(Main, "shutdown"),
         record' \in [Id -> {"none", "Running", "Cancelled"}]
  PROVE  TypeOK' /\ StopInv'
<1>1. Main \in Caller
  BY DEF Caller
<1>2. TypeOK'
  BY ReceiveType DEF TypeOK, coordinatorVars
<1>3. Answered(Main, "shutdown")' => Answered(Main, "shutdown")
  BY <1>1, ReceiveType DEF Answered
<1>4. awaiting'[Main] = "none" => answer'[Main] = "none"
  BY <1>1, ReceiveType DEF StopInv
<1> QED BY <1>2, <1>3, <1>4, OutsideStep

(* Steps of TorvynHost::run.                                               *)
LEMMA RunStep ==
  ASSUME TypeOK, StopInv, Run \/ Signal
  PROVE  TypeOK' /\ StopInv'
<1>1. Main \in Caller
  BY DEF Caller
<1>2. CASE StartFlow \/ PollFlows \/ HostShutdown
  <2>1. PICK kind \in {"spawn", "list", "shutdown"} :
          Send(Main, kind, 0) /\ UNCHANGED <<coordinatorVars, driver, hostVars>>
    BY <1>2 DEF StartFlow, PollFlows, HostShutdown
  <2>2. kind \in Kind /\ 0 \in IF kind \in AboutOne THEN Id ELSE {0}
    BY DEF Kind, AboutOne
  <2> QED BY <1>1, <2>1, <2>2, SendStep
<1>3. CASE FlowStarted \/ FlowsListed \/ Signal \/ HostStopped
  <2>1. Receive(Main) /\ UNCHANGED <<commands, coordinatorVars, driver>>
    BY <1>3 DEF FlowStarted, FlowsListed, Signal, HostStopped
  <2>2. /\ host' \in {"starting", "waiting", "stopping", "stopped", "aborted"}
        /\ host' = "stopped" => host = "stopped" \/ Answered(Main, "shutdown")
        /\ record' \in [Id -> {"none", "Running", "Cancelled"}]
    BY <1>3 DEF FlowStarted, FlowsListed, Signal, HostStopped, TypeOK
  <2> QED BY <1>1, <2>1, <2>2, ReceiveStep
<1>4. CASE AllStarted
  <2>1. TypeOK'
    BY <1>4 DEF AllStarted, TypeOK, coordinatorVars
  <2>2. StopInv'
    BY <1>4 DEF AllStarted, StopInv, Answered, coordinatorVars
  <2> QED BY <2>1, <2>2
<1> QED BY <1>2, <1>3, <1>4 DEF Run

(* Steps of a client.                                                      *)
LEMMA ClientStep ==
  ASSUME TypeOK, StopInv, NEW c \in Client, ClientCall(c) \/ ClientReturn(c)
  PROVE  TypeOK' /\ StopInv'
<1>1. c \in Caller
  BY DEF Caller
<1>2. CASE ClientCall(c)
  <2>0. UNCHANGED <<coordinatorVars, driver, hostVars>>
    BY <1>2 DEF ClientCall
  <2>1. ASSUME NEW f \in Id, NEW kind \in {"cancel", "outcome"}, Send(c, kind, f)
        PROVE  TypeOK' /\ StopInv'
    <3>1. kind \in Kind /\ f \in IF kind \in AboutOne THEN Id ELSE {0}
      BY DEF Kind, AboutOne
    <3> QED BY <1>1, <2>0, <2>1, <3>1, SendStep
  <2>2. ASSUME NEW kind \in {"spawn", "create"}, Send(c, kind, 0)
        PROVE  TypeOK' /\ StopInv'
    <3>1. kind \in Kind /\ 0 \in IF kind \in AboutOne THEN Id ELSE {0}
      BY DEF Kind, AboutOne
    <3> QED BY <1>1, <2>0, <2>2, <3>1, SendStep
  <2> QED BY <1>2, <2>1, <2>2 DEF ClientCall
<1>3. CASE ClientReturn(c)
  <2>1. Receive(c) /\ UNCHANGED <<commands, coordinatorVars, driver, host>>
    BY <1>3 DEF ClientReturn
  <2>2. record' \in [Id -> {"none", "Running", "Cancelled"}]
    BY <1>3 DEF ClientReturn, TypeOK
  <2>3. /\ host' \in {"starting", "waiting", "stopping", "stopped", "aborted"}
        /\ host' = "stopped" => host = "stopped" \/ Answered(Main, "shutdown")
    BY <2>1 DEF TypeOK
  <2> QED BY <1>1, <2>1, <2>2, <2>3, ReceiveStep
<1> QED BY <1>2, <1>3

-----------------------------------------------------------------------------
(* The theorems.                                                           *)

IndInv == TypeOK /\ StopInv /\ PollingInv

(* The command a polling coordinator answers stays at the head: others are *)
(* put behind it.                                                          *)
LEMMA PollingStep ==
  ASSUME IndInv, Next
  PROVE  PollingInv'
<1> USE DEF IndInv
<1>1. ASSUME NEW c \in Caller, NEW kind, NEW f, Send(c, kind, f), mode' = mode
      PROVE  PollingInv'
  <2> SUFFICES ASSUME mode = "polling"
               PROVE  commands' # <<>> /\ Head(commands').kind = "shutdown"
    BY <1>1 DEF PollingInv
  <2> DEFINE new == [kind |-> kind, from |-> c, flow |-> f]
  <2>1. commands # <<>> /\ Head(commands).kind = "shutdown" /\ commands \in Seq(Command)
    BY DEF PollingInv, TypeOK
  <2>2. commands' = Append(commands, new)
    BY <1>1 DEF Send
  <2>3. commands' # <<>> /\ Head(commands') = Head(commands)
    <3>1. Len(commands) \in Nat /\ Len(commands) # 0 /\ Len(commands') = Len(commands) + 1
      BY <2>1, <2>2
    <3>2. commands'[1] = commands[1]
      BY <2>1, <2>2, <3>1
    <3> QED BY <2>1, <2>2, <3>1, <3>2
  <2> QED BY <2>1, <2>3
<1>2. CASE Coordinate
  BY <1>2 DEF Coordinate, HandleNewFlow, HandleCancel, HandleOutcome, HandleList,
              HandleShutdown, ReapAfterCommand, ShutdownPoll, ShutdownEnds, PollingInv
<1>3. CASE UNCHANGED <<commands, mode>>
  BY <1>3 DEF PollingInv
<1>4. CASE Run \/ Signal
  <2>1. Main \in Caller
    BY DEF Caller
  <2>2. \/ UNCHANGED <<commands, mode>>
        \/ \E kind \in Kind : Send(Main, kind, 0) /\ mode' = mode
    BY <1>4 DEF Run, StartFlow, FlowStarted, AllStarted, PollFlows, FlowsListed, HostShutdown,
                HostStopped, Signal, coordinatorVars, Kind
  <2> QED BY <1>1, <1>3, <2>1, <2>2
<1>5. ASSUME NEW c \in Client, ClientCall(c) PROVE PollingInv'
  <2>1. c \in Caller /\ mode' = mode /\ \E kind, f : Send(c, kind, f)
    BY <1>5 DEF ClientCall, Caller, coordinatorVars
  <2> QED BY <1>1, <2>1
<1>6. ASSUME NEW c \in Client, ClientReturn(c) PROVE PollingInv'
  BY <1>3, <1>6 DEF ClientReturn, coordinatorVars
<1>7. ASSUME NEW f \in Id, DriverEnds(f) PROVE PollingInv'
  BY <1>3, <1>7 DEF DriverEnds, coordinatorVars
<1> QED BY <1>2, <1>4, <1>5, <1>6, <1>7 DEF Next

(* The inductive invariant of the reactor and the host.                    *)
THEOREM ReactorInvariant == Spec => []IndInv
<1>1. Init => IndInv
  BY InitInv DEF IndInv, Init, PollingInv
<1>2. IndInv /\ [Next]_vars => IndInv'
  <2> SUFFICES ASSUME IndInv, [Next]_vars PROVE IndInv'
    OBVIOUS
  <2>1. CASE Next
    <3>1. ASSUME Coordinate PROVE TypeOK' /\ StopInv'
      BY <3>1, NewFlowStep, QueryStep, ShutdownStep, ReapStep, EndStep
         DEF Coordinate, IndInv
    <3>2. TypeOK' /\ StopInv'
      BY <2>1, <3>1, RunStep, ClientStep, DriverStep DEF Next, IndInv
    <3> QED BY <2>1, <3>2, PollingStep DEF IndInv
  <2>2. CASE UNCHANGED vars
    <3>1. TypeOK'
      BY <2>2 DEF vars, coordinatorVars, hostVars, IndInv, TypeOK
    <3>2. StopInv' /\ PollingInv'
      BY <2>2 DEF vars, coordinatorVars, hostVars, IndInv, StopInv, PollingInv, Answered
    <3> QED BY <3>1, <3>2 DEF IndInv
  <2> QED BY <2>1, <2>2
<1> QED BY <1>1, <1>2, PTL DEF Spec

(* Channel, replies, flow map, outcomes and records stay well typed: ids   *)
(* below the next one are all that the map holds, and what is retained of  *)
(* a flow is a terminal state.                                             *)
THEOREM ReactorTypeCorrect == Spec => []TypeOK
<1>1. IndInv => TypeOK
  BY DEF IndInv
<1> QED BY <1>1, ReactorInvariant, PTL

(* When TorvynHost::shutdown has returned, every flow that still runs has  *)
(* been cancelled, whatever was spawned while the shutdown was under way.  *)
THEOREM ReactorStopped == Spec => []StoppedMeansCancelled
<1>1. IndInv => StoppedMeansCancelled
  BY DEF IndInv, StopInv, StoppedMeansCancelled
<1> QED BY <1>1, ReactorInvariant, PTL
-----------------------------------------------------------------------------
(* The outcomes that are retained.                                         *)

(* A set of naturals that is not empty has a least element.                *)
LEMMA LeastNatural ==
  ASSUME NEW S \in SUBSET Nat, S # {}
  PROVE  \E m \in S : \A n \in S : m <= n
<1> DEFINE less == OpToRel(<, Nat)
<1>1. IsWellFoundedOn(less, Nat)
  BY NatLessThanWellFounded
<1>2. \A x, y \in Nat : <<y, x>> \in less <=> y < x
  BY DEF OpToRel
<1> HIDE DEF less
<1>3. PICK m \in S : \A n \in S : ~(<<n, m>> \in less)
  BY <1>1, WFMin
<1>4. ASSUME NEW n \in S PROVE m <= n
  <2>1. n \in Nat /\ m \in Nat
    OBVIOUS
  <2>2. ~(n < m)
    BY <1>2, <1>3, <2>1
  <2> QED BY <2>1, <2>2
<1> QED BY <1>4

(* One that is bounded has a greatest: the least of its upper bounds.      *)
LEMMA GreatestNatural ==
  ASSUME NEW S \in SUBSET Nat, S # {}, NEW b \in Nat, \A n \in S : n <= b
  PROVE  \E m \in S : \A n \in S : n <= m
<1> DEFINE U == {u \in Nat : \A n \in S : n <= u}
<1>1. U \in SUBSET Nat /\ U # {}
  OBVIOUS
<1>2. PICK m \in U : \A u \in U : m <= u
  <2> HIDE DEF U
  <2> QED BY <1>1, LeastNatural
<1>3. m \in Nat /\ \A n \in S : n <= m
  OBVIOUS
<1>4. m \in S
  <2> SUFFICES ASSUME m \notin S PROVE FALSE
    OBVIOUS
  <2>1. \A n \in S : n < m
    BY <1>3
  <2>2. m - 1 \in U
    <3>1. PICK s \in S : TRUE
      OBVIOUS
    <3>2. m - 1 \in Nat
      BY <1>3, <2>1, <3>1
    <3>3. \A n \in S : n <= m - 1
      BY <1>3, <2>1
    <3> QED BY <3>2, <3>3
  <2> QED BY <1>2, <1>3, <2>2
<1> QED BY <1>3, <1>4

(* Of a set that has lost some of its flows to evictions, all the higher   *)
(* ones are there: so evicting from what is retained, plus the flows that  *)
(* are reaped now, is evicting from all the flows ever reaped.             *)
LEMMA RetainRetained ==
  ASSUME NEW R \in SUBSET Id, NEW D \in SUBSET Id
  PROVE  Retain(D \cup Retain(R)) = Retain(D \cup R)
<1> DEFINE T == Retain(R)
           Above(S, f) == {g \in S : g > f}
<1>0. Id \subseteq Nat /\ IsFiniteSet(Id) /\ \A f \in Id : f <= MaxFlows
  BY ReactorAssumption, FS_Interval DEF Id
<1>1. T \subseteq R
  BY DEF Retain
<1>2. \A S \in SUBSET Id, f \in Id : f \in Retain(S) <=> f \in S /\ Cardinality(Above(S, f)) < MaxRetained
  BY DEF Retain
<1>3. \A S \in SUBSET Id, f \in Id : Above(S, f) \in SUBSET Id
  OBVIOUS
<1>4. \A A, B \in SUBSET Id : A \subseteq B => /\ Cardinality(A) \in Nat /\ Cardinality(B) \in Nat
                                               /\ Cardinality(A) <= Cardinality(B)
  <2> SUFFICES ASSUME NEW A \in SUBSET Id, NEW B \in SUBSET Id, A \subseteq B
               PROVE  /\ Cardinality(A) \in Nat /\ Cardinality(B) \in Nat
                      /\ Cardinality(A) <= Cardinality(B)
    OBVIOUS
  <2>1. IsFiniteSet(B)
    BY <1>0, FS_Subset
  <2>2. IsFiniteSet(A) /\ Cardinality(A) <= Cardinality(B)
    BY <2>1, FS_Subset
  <2> QED BY <2>1, <2>2, FS_CardinalityType
<1>5. \A S \in SUBSET Id : Retain(S) \subseteq S
  BY DEF Retain
<1>6. MaxRetained \in Nat
  BY ReactorAssumption
<1> HIDE DEF T, Above
<1>7. ASSUME NEW f \in Id, f \in Retain(D \cup R) PROVE f \in Retain(D \cup T)
  <2>1. f \in D \cup R /\ Cardinality(Above(D \cup R, f)) < MaxRetained
    BY <1>2, <1>7
  <2>2. Above(D \cup T, f) \subseteq Above(D \cup R, f) /\ Above(R, f) \subseteq Above(D \cup R, f)
    BY <1>1 DEF Above
  <2>3. Cardinality(Above(D \cup T, f)) < MaxRetained /\ Cardinality(Above(R, f)) < MaxRetained
    <3>1. {Above(D \cup T, f), Above(D \cup R, f), Above(R, f)} \subseteq SUBSET Id
      BY <1>1, <1>3
    <3>2. /\ Cardinality(Above(D \cup T, f)) \in Nat /\ Cardinality(Above(R, f)) \in Nat
          /\ Cardinality(Above(D \cup R, f)) \in Nat
          /\ Cardinality(Above(D \cup T, f)) <= Cardinality(Above(D \cup R, f))
          /\ Cardinality(Above(R, f)) <= Cardinality(Above(D \cup R, f))
      BY <1>4, <2>2, <3>1
    <3> QED BY <1>6, <2>1, <3>2
  <2>4. f \in D \cup T
    BY <1>2, <2>1, <2>3 DEF T
  <2> QED BY <1>1, <1>2, <2>3, <2>4
<1>8. ASSUME NEW f \in Id, f \in Retain(D \cup T) PROVE f \in Retain(D \cup R)
  <2>1. f \in D \cup T /\ Cardinality(Above(D \cup T, f)) < MaxRetained
    BY <1>1, <1>2, <1>8
  <2>2. Above(R, f) \subseteq T
    <3> DEFINE E == Above(R, f) \ T
    <3> SUFFICES ASSUME E # {} PROVE FALSE
      OBVIOUS
    <3>1. E \in SUBSET Nat /\ \A g \in E : g <= MaxFlows
      BY <1>0, <1>3
    <3>2. PICK g \in E : \A h \in E : h <= g
      <4> HIDE DEF E
      <4> QED BY <3>1, ReactorAssumption, GreatestNatural
    <3>3. g \in R /\ g \notin T /\ g > f /\ g \in Id
      BY <1>3, <3>2 DEF Above
    <3>4. ~(Cardinality(Above(R, g)) < MaxRetained)
      BY <1>2, <3>3 DEF T
    <3>5. Above(R, g) \subseteq Above(D \cup T, f)
      <4> SUFFICES ASSUME NEW h \in Above(R, g) PROVE h \in Above(D \cup T, f)
        OBVIOUS
      <4>1. h \in R /\ h > g /\ h \in Nat /\ g \in Nat /\ f \in Nat
        BY <1>0, <3>3 DEF Above
      <4>2. h > f
        BY <3>3, <4>1
      <4>3. h \in T
        BY <3>2, <4>1, <4>2 DEF Above
      <4> QED BY <4>2, <4>3 DEF Above
    <3>6. /\ Cardinality(Above(R, g)) \in Nat /\ Cardinality(Above(D \cup T, f)) \in Nat
          /\ Cardinality(Above(R, g)) <= Cardinality(Above(D \cup T, f))
      <4>1. Above(R, g) \in SUBSET Id /\ Above(D \cup T, f) \in SUBSET Id
        BY <1>1, <1>3, <3>3
      <4> QED BY <1>4, <3>5, <4>1
    <3> QED BY <1>6, <2>1, <3>4, <3>6
  <2>3. Above(D \cup R, f) = Above(D \cup T, f)
    BY <1>1, <2>2 DEF Above
  <2> QED BY <1>1, <1>2, <2>1, <2>3
<1>9. Retain(D \cup R) \subseteq Id /\ Retain(D \cup T) \subseteq Id
  BY <1>1, <1>5
<1>10. Retain(D \cup T) = Retain(D \cup R)
  BY <1>7, <1>8, <1>9
<1> QED BY <1>10 DEF T

(* The outcomes say which of the reaped flows are retained.                *)
LEMMA OutcomeRetained ==
  ASSUME TypeOK
  PROVE  /\ Reaped \in SUBSET Id
         /\ \A f \in Id : OutcomeOf(driver[f]) # "none"
         /\ OutcomeExact <=>
              \A f \in Id : outcomes[f] = IF f \in Retain(Reaped)
                                          THEN OutcomeOf(driver[f]) ELSE "none"
<1>1. Reaped \in SUBSET Id
  BY ReactorAssumption DEF TypeOK, Reaped, Id
<1>2. \A f \in Id : OutcomeOf(driver[f]) # "none"
  BY DEF TypeOK, OutcomeOf, Terminal
<1> QED BY <1>1, <1>2 DEF OutcomeExact, Retain

(* A reap moves the finished flows to the reaped ones and evicts as if all *)
(* that were ever reaped had been retained until now.                      *)
LEMMA ReapExact ==
  ASSUME TypeOK, TypeOK', OutcomeExact, Reap, UNCHANGED <<nextFlowId, driver>>
  PROVE  OutcomeExact'
<1> DEFINE done == {f \in flows : Finished(f)}
           kept == {f \in Id : outcomes[f] # "none"}
<1>1. done \in SUBSET Id /\ flows \subseteq 1..(nextFlowId - 1)
  <2>1. flows \subseteq Id /\ flows \subseteq 1..(nextFlowId - 1)
    BY ReactorAssumption DEF TypeOK, Id
  <2> QED BY <2>1
<1>2. kept = Retain(Reaped) /\ \A f \in kept : outcomes[f] = OutcomeOf(driver[f])
  <2>1. Retain(Reaped) \subseteq Id
    BY OutcomeRetained DEF Retain
  <2> QED BY <2>1, OutcomeRetained
<1>3. Reaped' = done \cup Reaped
  BY <1>1 DEF Reap, Reaped
<1>4. \A f \in Id : outcomes'[f] = IF f \notin Retain(done \cup kept) THEN "none"
                                   ELSE IF f \in done THEN OutcomeOf(driver[f])
                                   ELSE outcomes[f]
  BY DEF Reap
<1>5. Retain(done \cup kept) \subseteq done \cup kept
  BY DEF Retain
<1> HIDE DEF done, kept
<1>6. Retain(done \cup kept) = Retain(done \cup Reaped)
  BY <1>1, <1>2, OutcomeRetained, RetainRetained
<1>7. \A f \in Id : outcomes'[f] = IF f \in Retain(done \cup Reaped)
                                   THEN OutcomeOf(driver[f]) ELSE "none"
  BY <1>2, <1>4, <1>5, <1>6
<1>8. \A f \in Id : outcomes'[f] = IF f \in Retain(Reaped')
                                   THEN OutcomeOf(driver'[f]) ELSE "none"
  BY <1>3, <1>7
<1>9. Retain(Reaped') = Retain(Reaped)'
  BY DEF Retain
<1>10. \A f \in Id : OutcomeOf(driver'[f]) = OutcomeOf(driver[f])'
  BY DEF OutcomeOf
<1>11. OutcomeExact' <=>
         \A f \in Id : outcomes'[f] = IF f \in Retain(Reaped)'
                                      THEN OutcomeOf(driver'[f]) ELSE "none"
  <2>1. Reaped' \in SUBSET Id
    BY <1>1, <1>3, OutcomeRetained
  <2> QED BY <2>1 DEF OutcomeExact, Retain, OutcomeOf
<1> QED BY <1>8, <1>9, <1>11

(* Every other step leaves the outcomes and the reaped flows alone, and    *)
(* what their tasks ended with: only a running task ends, and it is in the *)
(* map.                                                                    *)
LEMMA OutcomeStep ==
  ASSUME IndInv, IndInv', OutcomeExact, [Next]_vars
  PROVE  OutcomeExact'
<1> USE DEF IndInv
<1>1. ASSUME UNCHANGED outcomes, Reaped' = Reaped,
             \A f \in Reaped : driver'[f] = driver[f]
      PROVE  OutcomeExact'
  <2>1. \A f \in Id : (f \in Reaped' /\ Cardinality({g \in Reaped' : g > f}) < MaxRetained)
                  <=> (f \in Reaped /\ Cardinality({g \in Reaped : g > f}) < MaxRetained)
    BY <1>1
  <2>2. \A f \in Reaped : OutcomeOf(driver'[f]) = OutcomeOf(driver[f])
    BY <1>1
  <2> QED BY <1>1, <2>1, <2>2 DEF OutcomeExact, OutcomeOf
<1>2. CASE UNCHANGED <<outcomes, flows, nextFlowId, driver>>
  BY <1>1, <1>2 DEF Reaped
<1>3. CASE ReapAfterCommand \/ ShutdownPoll
  BY <1>3, ReapExact DEF ReapAfterCommand, ShutdownPoll
<1>4. ASSUME NEW kind \in {"spawn", "create"}, HandleNewFlow(kind)
      PROVE  OutcomeExact'
  <2>1. CASE Admit(Head(commands).from, kind)
    <3>1. nextFlowId \in 1..(MaxFlows + 1) /\ flows \subseteq 1..(nextFlowId - 1)
      BY DEF TypeOK
    <3>2. nextFlowId' = nextFlowId + 1 /\ flows' = flows \cup {nextFlowId}
      BY <2>1 DEF Admit
    <3>3. Reaped' = Reaped
      BY <3>1, <3>2, ReactorAssumption DEF Reaped
    <3>4. \A f \in Reaped : f \in Id /\ f # nextFlowId
      BY <3>1, OutcomeRetained DEF Reaped
    <3>5. \A f \in Reaped : driver'[f] = driver[f]
      BY <2>1, <3>4 DEF Admit, TypeOK
    <3> QED BY <1>1, <1>4, <3>3, <3>5 DEF HandleNewFlow
  <2>2. CASE UNCHANGED <<nextFlowId, flows, driver>>
    BY <1>2, <1>4, <2>2 DEF HandleNewFlow
  <2> QED BY <1>4, <2>1, <2>2 DEF HandleNewFlow
<1>5. ASSUME NEW f \in Id, DriverEnds(f) PROVE OutcomeExact'
  <2>1. f \notin Reaped /\ Reaped' = Reaped /\ UNCHANGED outcomes
    BY <1>5 DEF DriverEnds, StopInv, Reaped, coordinatorVars
  <2>2. \A g \in Reaped : g \in Id /\ g # f
    BY <2>1, OutcomeRetained
  <2>3. \A g \in Reaped : driver'[g] = driver[g]
    BY <1>5, <2>2 DEF DriverEnds, TypeOK
  <2> QED BY <1>1, <2>1, <2>3
<1>6. CASE Coordinate
  <2>1. CASE HandleCancel \/ HandleOutcome \/ HandleList \/ HandleShutdown \/ ShutdownEnds
    BY <1>2, <2>1 DEF HandleCancel, HandleOutcome, HandleList, HandleShutdown, ShutdownEnds
  <2> QED BY <1>3, <1>4, <1>6, <2>1 DEF Coordinate
<1>7. CASE Run \/ Signal \/ \E c \in Client : ClientCall(c) \/ ClientReturn(c)
  BY <1>2, <1>7 DEF Run, Signal, StartFlow, FlowStarted, AllStarted, PollFlows, FlowsListed,
                    HostShutdown, HostStopped, ClientCall, ClientReturn, coordinatorVars
<1>8. CASE UNCHANGED vars
  BY <1>2, <1>8 DEF vars, coordinatorVars
<1> QED BY <1>5, <1>6, <1>7, <1>8 DEF Next

(* The coordinator retains the outcomes of exactly the MaxRetained highest *)
(* of the reaped ids, and each is what the flow's task ended with, Failed  *)
(* if it panicked, however many flows a reap collects.                     *)
THEOREM ReactorOutcomes == Spec => []OutcomeExact
<1>1. Init => OutcomeExact
  BY ReactorAssumption DEF Init, OutcomeExact, Reaped
<1>2. IndInv /\ IndInv' /\ OutcomeExact /\ [Next]_vars => OutcomeExact'
  BY OutcomeStep
<1> QED BY <1>1, <1>2, ReactorInvariant, PTL DEF Spec
=============================================================================
