----------------------------- MODULE Submission -----------------------------
(***************************************************************************)
(* A pipeline definition on its way to the reactor: the builder resolves   *)
(* and validates it (module PipelineBuilder), the coordinator validates    *)
(* the flow again and asks for the order of its stages (module Topology).  *)
(* What the three promise is stated against definitions by sets of stages. *)
(***************************************************************************)
EXTENDS PipelineBuilder

CONSTANTS
  Name,        \* of nodes
  Port         \* of connections

VARIABLES
  topo,        \* the definition submitted
  verdict,     \* the result of validate(), "None" before
  order,       \* the result of topological_order(), once accepted
  built        \* the result of build(), no errors before

submission == <<topo, verdict, order, built>>

RoleName   == {"Source", "Processor", "Filter", "Router", "Sink"}
Connection == [from : Name, to : Name, out : Port, in : Port]
Definition == {d \in [names : Seq(Name), roles : Seq(RoleName), conns : Seq(Connection)] :
                 Len(d.names) = Len(d.roles)}

NotBuilt == [errors |-> {}, order |-> <<>>, cycle |-> <<>>]

SubmitInit ==
  /\ topo \in Definition
  /\ verdict = "None"
  /\ order = <<>>
  /\ built = NotBuilt

ValidateFlow ==
  /\ verdict = "None"
  /\ verdict' = Validate(topo)
  /\ UNCHANGED <<topo, order, built>>

OrderStages ==
  /\ verdict = "Ok" /\ order = <<>>
  /\ order' = TopologicalOrder(topo)
  /\ UNCHANGED <<topo, verdict, built>>

BuildPipeline ==
  /\ built = NotBuilt
  /\ built' = Build(topo)
  /\ UNCHANGED <<topo, verdict, order>>

SubmitNext == ValidateFlow \/ OrderStages \/ BuildPipeline

SubmitSpec == SubmitInit /\ [][SubmitNext]_submission
-----------------------------------------------------------------------------
EdgesOf(t) == {<<t.conns[i].from, t.conns[i].to>> : i \in DOMAIN t.conns}

(* No stages feed each other: of any set of stages, one gets nothing from  *)
(* the set.                                                                *)
IsAcyclic(t) ==
  \A S \in SUBSET StagesOf(t) :
    S # {} => \E k \in S : \A e \in EdgesOf(t) : e[2] = k => e[1] \notin S

(* A path leads from a source to stage k: k is in every set that has the   *)
(* sources and what its members feed.                                      *)
IsFed(t, k) ==
  \A S \in SUBSET StagesOf(t) :
    /\ \A j \in StagesOf(t) : t.roles[j] = "Source" => j \in S
    /\ \A e \in EdgesOf(t) : e[1] \in S => e[2] \in S
    => k \in S

(* What a flow has to be.                                                  *)
IsFlow(t) ==
  /\ EdgesOf(t) \subseteq StagesOf(t) \X StagesOf(t)
  /\ \E k \in StagesOf(t) : t.roles[k] = "Source"
  /\ \E k \in StagesOf(t) : t.roles[k] = "Sink"
  /\ IsAcyclic(t)
  /\ \A k \in StagesOf(t) :
       /\ IF t.roles[k] = "Source" THEN \A e \in EdgesOf(t) : e[2] # k ELSE IsFed(t, k)
       /\ t.roles[k] = "Sink" => \A e \in EdgesOf(t) : e[1] # k

(* validate() accepts exactly the acyclic topologies with a source and a   *)
(* sink in which sources have no input, sinks no output and every other    *)
(* stage lies on a path from a source.                                     *)
ValidateExact == verdict # "None" => (verdict = "Ok" <=> IsFlow(topo))

(* The order of an accepted topology is what FlowDriver assumes of Pos:    *)
(* every stage once, connections forward, all sources before all others.   *)
OrderFeedsDriver ==
  order # <<>> =>
    /\ Len(order) = Len(topo.roles)
    /\ ToSet(order) = StagesOf(topo)
    /\ \A i, j \in DOMAIN order :
         /\ <<order[i], order[j]>> \in EdgesOf(topo) => i < j
         /\ topo.roles[order[i]] = "Source" /\ topo.roles[order[j]] # "Source"
              => i < j

(* What the builder accepts the reactor accepts too, and it meets the rest *)
(* of what FlowDriver assumes: the stages without inputs are the sources,  *)
(* and those without outputs, apart from sources, the sinks.  The reactor  *)
(* alone would admit a router without outputs, which is never ready.  The  *)
(* components are instantiated in the order in which they will be driven.  *)
BuiltFeedsReactor ==
  built # NotBuilt /\ built.errors = {} =>
    LET t == ResolvedEdges(topo) IN
    /\ Validate(t) = "Ok"
    /\ built.order = TopologicalOrder(t)
    /\ \A k \in StagesOf(t) :
         /\ t.roles[k] = "Source" <=> \A e \in EdgesOf(t) : e[2] # k
         /\ t.roles[k] = "Sink" <=>
              t.roles[k] # "Source" /\ \A e \in EdgesOf(t) : e[1] # k
=============================================================================
