---------------------------- MODULE MCFlowDriver ----------------------------
(* Small flows for TLC.  Each is given as the reactor gets it, with the    *)
(* place of every stage in the order that topological_order computes.      *)
EXTENDS FlowDriver, Topology

CONSTANT Flow     \* the topology of this run

Edge(a, b) == [from |-> a, to |-> b]

(* source -> processor -> sink                                             *)
Linear == [roles |-> <<"Source", "Processor", "Sink">>,
           conns |-> <<Edge(1, 2), Edge(2, 3)>>,
           pos   |-> <<1, 2, 3>>]

(* Two sources; the first feeds a router that fans out to the sink and to  *)
(* a filter that feeds the sink as well.  Listed sink first, so that       *)
(* completion needs several passes of propagate_producer_complete.         *)
FanOutFanIn == [roles |-> <<"Sink", "Filter", "Router", "Source", "Source">>,
                conns |-> <<Edge(3, 2), Edge(4, 3), Edge(3, 1), Edge(2, 1),
                            Edge(5, 1)>>,
                pos   |-> <<5, 4, 3, 1, 2>>]

(* A router with two connections to the same processor.                    *)
Join == [roles |-> <<"Source", "Router", "Processor", "Sink">>,
         conns |-> <<Edge(1, 2), Edge(2, 3), Edge(2, 3), Edge(3, 4)>>,
         pos   |-> <<1, 2, 3, 4>>]

FlowStages  == Len(Flow.roles)
FlowStreams == Len(Flow.conns)
FlowRole    == Flow.roles
FlowFrom    == [s \in 1..FlowStreams |-> Flow.conns[s].from]
FlowTo      == [s \in 1..FlowStreams |-> Flow.conns[s].to]
FlowPos     == Flow.pos

(* Capacity 1 on the first stream, 2 on the others, and capacity 1         *)
(* everywhere; a ratio of 1/2 truncates to these low watermarks.           *)
MixedCapacity  == [s \in 1..FlowStreams |-> IF s = 1 THEN 1 ELSE 2]
UnitCapacity   == [s \in 1..FlowStreams |-> 1]
HalfWatermark  == [s \in 1..FlowStreams |-> Capacity[s] \div 2]

ASSUME FlowIsValid ==
  /\ Validate(Flow) = "Ok"
  /\ \A k \in Stage : TopologicalOrder(Flow)[Flow.pos[k]] = k
=============================================================================
