------------------------------- MODULE Reactor -------------------------------
(***************************************************************************)
(* The reactor coordinator (torvyn-reactor) and the host that drives it    *)
(* (torvyn-host): commands over a channel and their replies, driver tasks  *)
(* that end on their own, reaping, the bounded memory of outcomes, and     *)
(* shutdown with a timeout.                                                *)
(*                                                                         *)
(* The coordinator handles one command at a time and reaps finished flows  *)
(* only after a command, or while it polls in a shutdown.  The state in a  *)
(* flow's handle is set when the flow is spawned and never again, so a     *)
(* flow is listed as not terminal for as long as it is in the map.         *)
(*                                                                         *)
(* A driver task is modelled by what it ends with; module FlowDriver is    *)
(* about what happens in between.  Flow ids are 1, 2, ...                  *)
(***************************************************************************)
EXTENDS Naturals, Sequences, FiniteSets

CONSTANTS
  Client,        \* users of the host and of its reactor handle
  Main,          \* the task in TorvynHost::run
  NumFlows,      \* flows in the host's configuration
  MaxFlows,      \* bound: flows ever created
  MaxRetained    \* MAX_RETAINED_OUTCOMES

ASSUME ReactorAssumption ==
  /\ Main \notin Client
  /\ NumFlows \in Nat /\ MaxFlows \in Nat /\ NumFlows <= MaxFlows
  /\ MaxRetained \in Nat \ {0}

Id       == 1..MaxFlows
Caller   == Client \cup {Main}
Terminal == {"Completed", "Cancelled", "Failed"}
Kind     == {"spawn", "create", "cancel", "outcome", "list", "shutdown"}
AboutOne == {"cancel", "outcome"}
Command  == [kind : AboutOne, from : Caller, flow : Id]
            \cup [kind : Kind \ AboutOne, from : Caller, flow : {0}]
Answer   == {"ok", "refused", "not found", "unknown", "Instantiated", "empty", "active",
             "drained", "timed out"} \cup Terminal

VARIABLES
  commands,      \* the channel to the coordinator
  awaiting,      \* the kind of reply each caller waits for, or "none"
  answer,        \* the reply it has got
  about,         \* the flow it asked about, or was given
  \* the coordinator
  mode,          \* waiting for a command, reaping, or polling in a shutdown
  nextFlowId,
  flows,         \* the flow map
  cancelled,     \* the cancellation token of each flow
  outcomes,      \* of reaped flows, as far as they are retained
  shuttingDown,
  \* driver tasks
  driver,
  \* the host
  host,          \* where run is
  record         \* the host's own record of each flow

coordinatorVars == <<mode, nextFlowId, flows, cancelled, outcomes, shuttingDown>>
hostVars        == <<host, record>>
vars == <<commands, awaiting, answer, about, coordinatorVars, driver, hostVars>>

Init ==
  /\ commands = <<>>
  /\ awaiting = [c \in Caller |-> "none"]
  /\ answer = [c \in Caller |-> "none"]
  /\ about = [c \in Caller |-> 0]
  /\ mode = "recv"
  /\ nextFlowId = 1
  /\ flows = {}
  /\ cancelled = [f \in Id |-> FALSE]
  /\ outcomes = [f \in Id |-> "none"]
  /\ shuttingDown = FALSE
  /\ driver = [f \in Id |-> "absent"]
  /\ host = "starting"
  /\ record = [f \in Id |-> "none"]

-----------------------------------------------------------------------------
(* Driver tasks.                                                           *)

(* The task ends: cancelled only if it was told to, or in a panic.         *)
DriverEnds(f) ==
  /\ driver[f] = "running"
  /\ \E end \in {"Completed", "Failed", "panicked"}
                 \cup (IF cancelled[f] THEN {"Cancelled"} ELSE {}) :
       driver' = [driver EXCEPT ![f] = end]
  /\ UNCHANGED <<commands, awaiting, answer, about, coordinatorVars, hostVars>>

Finished(f) == driver[f] \notin {"absent", "running"}

(* What the coordinator records of a task that has ended.                  *)
OutcomeOf(d) == IF d = "panicked" THEN "Failed" ELSE d

-----------------------------------------------------------------------------
(* The channel.                                                            *)

Send(c, kind, f) ==
  /\ awaiting[c] = "none"
  /\ commands' = Append(commands, [kind |-> kind, from |-> c, flow |-> f])
  /\ awaiting' = [awaiting EXCEPT ![c] = kind]
  /\ UNCHANGED answer
  /\ about' = [about EXCEPT ![c] = f]

(* The reply to a command; nobody may be waiting for it any more.          *)
Reply(c, kind, value) ==
  answer' = IF awaiting[c] = kind /\ answer[c] = "none"
            THEN [answer EXCEPT ![c] = value] ELSE answer

Answered(c, kind) == awaiting[c] = kind /\ answer[c] # "none"

Receive(c) ==
  /\ awaiting' = [awaiting EXCEPT ![c] = "none"]
  /\ answer' = [answer EXCEPT ![c] = "none"]
  /\ about' = [about EXCEPT ![c] = 0]

-----------------------------------------------------------------------------
(* The coordinator handles a command.                                      *)

Handle(kind) ==
  /\ mode = "recv" /\ commands # <<>>
  /\ Head(commands).kind = kind
  /\ commands' = Tail(commands)
  /\ UNCHANGED <<awaiting, hostVars>>

(* A flow enters the map: its driver task runs (spawn), or is the stub     *)
(* that completes at once (create).                                        *)
Admit(c, kind) ==
  /\ nextFlowId <= MaxFlows
  /\ nextFlowId' = nextFlowId + 1
  /\ flows' = flows \cup {nextFlowId}
  /\ driver' = [driver EXCEPT ![nextFlowId] =
                  IF kind = "spawn" THEN "running" ELSE "Completed"]
  /\ Reply(c, kind, "ok")
  /\ about' = [about EXCEPT ![c] = nextFlowId]

LateSpawnMutant(kind) ==
  LET c == Head(commands).from IN
  /\ Handle(kind)
  /\ \/ Admit(c, kind)
     \/ Reply(c, kind, "refused") /\ UNCHANGED <<about, nextFlowId, flows, driver>>
  /\ mode' = "reap"
  /\ UNCHANGED <<cancelled, outcomes, shuttingDown>>

SilentRefusalMutant(kind) ==
  LET c == Head(commands).from IN
  /\ Handle(kind)
  /\ \/ ~shuttingDown /\ Admit(c, kind)
     \/ shuttingDown /\ UNCHANGED <<answer, about, nextFlowId, flows, driver>>
  /\ mode' = "reap"
  /\ UNCHANGED <<cancelled, outcomes, shuttingDown>>

(* SpawnFlow and CreateFlow: refused in a shutdown, or if the topology is  *)
(* invalid.                                                                *)
HandleNewFlow(kind) ==
  LET c == Head(commands).from IN
  /\ Handle(kind)
  /\ \/ ~shuttingDown /\ Admit(c, kind)
     \/ Reply(c, kind, "refused") /\ UNCHANGED <<about, nextFlowId, flows, driver>>
  /\ mode' = "reap"
  /\ UNCHANGED <<cancelled, outcomes, shuttingDown>>

(* CancelFlow: sets the token of a flow that is still in the map.          *)
HandleCancel ==
  LET cmd == Head(commands) IN
  /\ Handle("cancel")
  /\ cancelled' = [cancelled EXCEPT ![cmd.flow] = @ \/ cmd.flow \in flows]
  /\ Reply(cmd.from, "cancel", IF cmd.flow \in flows THEN "ok" ELSE "not found")
  /\ mode' = "reap"
  /\ UNCHANGED <<about, nextFlowId, flows, outcomes, shuttingDown, driver>>

(* QueryFlowOutcome: the handle's state for a flow in the map, else what   *)
(* is retained of it.                                                      *)
HandleOutcome ==
  LET cmd == Head(commands) IN
  /\ Handle("outcome")
  /\ Reply(cmd.from, "outcome", IF cmd.flow \in flows THEN "Instantiated"
                                ELSE IF outcomes[cmd.flow] = "none" THEN "unknown"
                                ELSE outcomes[cmd.flow])
  /\ mode' = "reap"
  /\ UNCHANGED <<about, nextFlowId, flows, cancelled, outcomes, shuttingDown, driver>>

UnreapedListMutant ==
  /\ Handle("list")
  /\ Reply(Head(commands).from, "list", IF flows = {} THEN "empty" ELSE "active")
  /\ UNCHANGED <<about, coordinatorVars, driver>>

(* ListFlows, of which the host only asks whether a flow is not terminal.  *)
HandleList ==
  /\ Handle("list")
  /\ Reply(Head(commands).from, "list", IF flows = {} THEN "empty" ELSE "active")
  /\ mode' = "reap"
  /\ UNCHANGED <<about, nextFlowId, flows, cancelled, outcomes, shuttingDown, driver>>

(* Shutdown: no more flows, every token set, then poll.  The command stays *)
(* at the head of the channel until it is answered.                        *)
HandleShutdown ==
  /\ mode = "recv" /\ commands # <<>> /\ Head(commands).kind = "shutdown"
  /\ shuttingDown' = TRUE
  /\ cancelled' = [f \in Id |-> cancelled[f] \/ f \in flows]
  /\ mode' = "polling"
  /\ UNCHANGED <<commands, awaiting, answer, about, nextFlowId, flows, outcomes,
                 driver, hostVars>>

EvictNewestMutant(D) ==
  {f \in D : Cardinality({g \in D : g < f}) < MaxRetained}

(* retain_outcome, for each flow of a reap: while there are more than      *)
(* MaxRetained outcomes, the one with the lowest id goes.                  *)
Retain(D) == {f \in D : Cardinality({g \in D : g > f}) < MaxRetained}

(* reap_completed_flows.                                                   *)
Reap ==
  LET done == {f \in flows : Finished(f)}
      all  == done \cup {f \in Id : outcomes[f] # "none"}
  IN /\ flows' = flows \ done
     /\ outcomes' = [f \in Id |-> IF f \notin Retain(all) THEN "none"
                                  ELSE IF f \in done THEN OutcomeOf(driver[f])
                                  ELSE outcomes[f]]

ReapAfterCommand ==
  /\ mode = "reap"
  /\ Reap
  /\ mode' = "recv"
  /\ UNCHANGED <<commands, awaiting, answer, about, nextFlowId, cancelled,
                 shuttingDown, driver, hostVars>>

ShutdownPoll ==
  /\ mode = "polling"
  /\ flows # {}
  /\ Reap
  /\ UNCHANGED <<commands, awaiting, answer, about, mode, nextFlowId, cancelled,
                 shuttingDown, driver, hostVars>>

(* The flow map is empty, or the timeout has passed.                       *)
ShutdownEnds ==
  /\ mode = "polling"
  /\ commands' = Tail(commands)
  /\ Reply(Head(commands).from, "shutdown", IF flows = {} THEN "drained" ELSE "timed out")
  /\ mode' = "reap"
  /\ UNCHANGED <<awaiting, about, nextFlowId, flows, cancelled, outcomes,
                 shuttingDown, driver, hostVars>>

-----------------------------------------------------------------------------
(* TorvynHost::run: start every configured flow ...                        *)
StartFlow ==
  /\ host = "starting"
  /\ Cardinality({f \in Id : record[f] # "none"}) < NumFlows
  /\ Send(Main, "spawn", 0)
  /\ UNCHANGED <<coordinatorVars, driver, hostVars>>

(* ... recording each; the first refusal ends run, without a shutdown ...  *)
FlowStarted ==
  /\ Answered(Main, "spawn") /\ Receive(Main)
  /\ \/ /\ answer[Main] = "refused"
        /\ host' = "aborted"
        /\ UNCHANGED record
     \/ /\ answer[Main] # "refused"
        /\ record' = [record EXCEPT ![about[Main]] = "Running"]
        /\ UNCHANGED host
  /\ UNCHANGED <<commands, coordinatorVars, driver>>

AllStarted ==
  /\ host = "starting" /\ awaiting[Main] = "none"
  /\ Cardinality({f \in Id : record[f] # "none"}) = NumFlows
  /\ host' = "waiting"
  /\ UNCHANGED <<commands, awaiting, answer, about, coordinatorVars, driver, record>>

(* ... wait_for_all_flows polls the reactor until no flow is listed ...    *)
PollFlows ==
  /\ host = "waiting"
  /\ Send(Main, "list", 0)
  /\ UNCHANGED <<coordinatorVars, driver, hostVars>>

FlowsListed ==
  /\ Answered(Main, "list") /\ Receive(Main)
  /\ host' = IF answer[Main] = "empty" THEN "stopping" ELSE host
  /\ UNCHANGED <<commands, coordinatorVars, driver, record>>

(* ... or a signal drops the wait, and with it a call that is under way.   *)
Signal ==
  /\ host = "waiting"
  /\ host' = "stopping"
  /\ Receive(Main)
  /\ UNCHANGED <<commands, coordinatorVars, driver, record>>

(* shutdown.                                                               *)
HostShutdown ==
  /\ host = "stopping" /\ awaiting[Main] = "none"
  /\ Send(Main, "shutdown", 0)
  /\ UNCHANGED <<coordinatorVars, driver, hostVars>>

HostStopped ==
  /\ Answered(Main, "shutdown") /\ Receive(Main)
  /\ host' = "stopped"
  /\ record' = [f \in Id |-> IF record[f] = "Running" THEN "Cancelled" ELSE record[f]]
  /\ UNCHANGED <<commands, coordinatorVars, driver>>

-----------------------------------------------------------------------------
(* Other users, through the host while it waits, or a reactor handle.      *)

ClientCall(c) ==
  /\ \/ \E f \in {g \in Id : record[g] # "none"}, kind \in {"cancel", "outcome"} :
          host = "waiting" /\ Send(c, kind, f)
     \/ \E kind \in {"spawn", "create"} : nextFlowId <= MaxFlows /\ Send(c, kind, 0)
  /\ UNCHANGED <<coordinatorVars, driver, hostVars>>

(* cancel_flow records the flow as cancelled once the reactor has agreed.  *)
ClientReturn(c) ==
  /\ awaiting[c] # "none" /\ Answered(c, awaiting[c]) /\ Receive(c)
  /\ record' = IF awaiting[c] = "cancel" /\ answer[c] = "ok"
               THEN [record EXCEPT ![about[c]] = "Cancelled"] ELSE record
  /\ UNCHANGED <<commands, coordinatorVars, driver, host>>

(* What flow_outcome tells the caller: what the reactor says, or else the  *)
(* host's record if that is terminal, or else Completed.                   *)
Reported(c) ==
  IF answer[c] # "unknown" THEN answer[c]
  ELSE IF record[about[c]] \in Terminal THEN record[about[c]] ELSE "Completed"

Coordinate ==
  \/ HandleNewFlow("spawn") \/ HandleNewFlow("create")
  \/ HandleCancel \/ HandleOutcome \/ HandleList \/ HandleShutdown
  \/ ReapAfterCommand \/ ShutdownPoll \/ ShutdownEnds

Run ==
  \/ StartFlow \/ FlowStarted \/ AllStarted \/ PollFlows \/ FlowsListed
  \/ HostShutdown \/ HostStopped

Next ==
  \/ Coordinate
  \/ Run \/ Signal
  \/ \E c \in Client : ClientCall(c) \/ ClientReturn(c)
  \/ \E f \in Id : DriverEnds(f)

(* The coordinator and the host's task run when they can, time passes in a *)
(* shutdown, and a caller takes its reply.  Nothing makes a driver end, a  *)
(* signal come or a client call.                                           *)
Fairness ==
  /\ WF_vars(Coordinate)
  /\ WF_vars(ShutdownEnds)
  /\ WF_vars(Run)
  /\ \A c \in Client : WF_vars(ClientReturn(c))

Spec == Init /\ [][Next]_vars /\ Fairness
-----------------------------------------------------------------------------
(* Properties.                                                             *)

TypeOK ==
  /\ commands \in Seq(Command)
  /\ awaiting \in [Caller -> Kind \cup {"none"}]
  /\ answer \in [Caller -> Answer \cup {"none"}]
  /\ about \in [Caller -> Id \cup {0}]
  /\ mode \in {"recv", "reap", "polling"}
  /\ nextFlowId \in 1..(MaxFlows + 1)
  /\ flows \subseteq 1..(nextFlowId - 1)
  /\ cancelled \in [Id -> BOOLEAN]
  /\ outcomes \in [Id -> Terminal \cup {"none"}]
  /\ shuttingDown \in BOOLEAN
  /\ driver \in [Id -> Terminal \cup {"absent", "running", "panicked"}]
  /\ host \in {"starting", "waiting", "stopping", "stopped", "aborted"}
  /\ record \in [Id -> {"none", "Running", "Cancelled"}]

Reaped == {f \in 1..(nextFlowId - 1) : f \notin flows}

(* The reactor remembers, and remembers rightly, how the reaped flows with *)
(* the highest ids ended, as many as it retains: reaps of several flows at *)
(* once, panics and evictions included.                                    *)
OutcomeExact ==
  \A f \in Id :
    outcomes[f] = IF f \in Reaped
                     /\ Cardinality({g \in Reaped : g > f}) < MaxRetained
                  THEN OutcomeOf(driver[f]) ELSE "none"

(* Once run has shut the host down, no flow is left running that has not   *)
(* been told to stop, though flows may be spawned at any time.             *)
StoppedMeansCancelled ==
  host = "stopped" => \A f \in Id : driver[f] = "running" => cancelled[f]

(* What its proof rests on: a running task is in the map, and once the     *)
(* coordinator is shutting down, or has said so, every flow of the map has *)
(* been told to stop.                                                      *)
StopInv ==
  /\ \A f \in Id : driver[f] = "running" => f \in flows
  /\ shuttingDown => \A f \in flows : cancelled[f]
  /\ mode = "polling" => shuttingDown
  /\ awaiting[Main] = "none" => answer[Main] = "none"
  /\ Answered(Main, "shutdown") => shuttingDown
  /\ host = "stopped" => shuttingDown

(* While it polls, the command that it answers is at the head.             *)
PollingInv ==
  mode = "polling" => commands # <<>> /\ Head(commands).kind = "shutdown"

(* Every call to the reactor returns, also one that is made or refused     *)
(* while the coordinator is in a shutdown.                                 *)
CallsReturn == \A c \in Caller : awaiting[c] # "none" ~> awaiting[c] = "none"

(* If every driver task ends, run does not wait for ever: its own polling  *)
(* makes the coordinator reap the flows it is waiting for.                 *)
WaitEnds ==
  <>[](\A f \in Id : driver[f] # "running") => []<>(host # "waiting")

(* A flow that failed is never reported as completed.                      *)
FailureReported ==
  \A c \in Client :
    Answered(c, "outcome") /\ Reported(c) = "Completed" =>
      driver[about[c]] = "Completed"
=============================================================================
