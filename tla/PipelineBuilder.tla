--------------------------- MODULE PipelineBuilder ---------------------------
(***************************************************************************)
(* PipelineTopologyBuilder::build of torvyn-pipeline and the validation it *)
(* runs, before any component is instantiated.  A definition d is a        *)
(* topology of module Topology whose stages have names, d.names, and whose *)
(* connections refer to names and ports, [from, to, out, in].  Errors are  *)
(* collected, and reported all together: a report is a set of error kinds. *)
(***************************************************************************)
EXTENDS Topology

CONSTANT MaxFan   \* DEFAULT_MAX_FAN_OUT and DEFAULT_MAX_FAN_IN

When(holds, kind) == IF holds THEN {kind} ELSE {}

-----------------------------------------------------------------------------
(* Resolving names.  node_index keeps the last node of a name.             *)

Named(d, n)     == \E k \in StagesOf(d) : d.names[k] = n
NodeIndex(d, n) == CHOOSE k \in StagesOf(d) :
                     /\ d.names[k] = n
                     /\ \A j \in StagesOf(d) : d.names[j] = n => j <= k

ConstructionErrors(d) ==
  LET Known(c) == Named(d, c.from) /\ Named(d, c.to)
  IN  When(\E j, k \in StagesOf(d) : j # k /\ d.names[j] = d.names[k], "Duplicate")
      \cup When(\E i \in DOMAIN d.conns : ~Known(d.conns[i]), "UnknownNode")
      \cup When(\E i \in DOMAIN d.conns :
                  /\ Known(d.conns[i])
                  /\ NodeIndex(d, d.conns[i].from) = NodeIndex(d, d.conns[i].to),
                "SelfLoop")

ResolvedEdges(d) ==
  [d EXCEPT !.conns = [i \in DOMAIN d.conns |->
     [d.conns[i] EXCEPT !.from = NodeIndex(d, @), !.to = NodeIndex(d, @)]]]

-----------------------------------------------------------------------------
(* find_cycle: a depth-first search by colours, over the neighbours of a   *)
(* node in ascending order, which traces a back edge through the parents.  *)
(* It starts only from nodes that the sort has left over.                  *)

NoParent == 0

(* The nodes from stop, exclusive, to cur along the parents.               *)
Traced(t, parent, cur, stop) ==
  LET back[n \in 0..Len(t.roles)] ==
        IF n = 0 THEN cur
        ELSE IF back[n - 1] \in {stop, NoParent} THEN stop ELSE parent[back[n - 1]]
      ends == {n \in 0..Len(t.roles) : back[n] \in {stop, NoParent}}
  IN  [i \in 1..Min(ends) |-> back[Min(ends) - i]]

Begin(w, k) ==
  [w EXCEPT !.color[k] = "gray", !.stack = Append(@, [node |-> k, index |-> 1])]

RootParentMutant(w, node, next) == Begin([w EXCEPT !.parent[next] = w.stack[1].node], next)

(* A white neighbour is coloured, given its parent and put on the stack.   *)
Descend(w, node, next) == Begin([w EXCEPT !.parent[next] = node], next)

(* The node on top goes on to its neighbour next.                          *)
FollowEdge(t, w, node, next) ==
  LET on == [w EXCEPT !.stack[Len(w.stack)].index = next + 1]
  IN  CASE w.color[next] = "gray"  ->
             [w EXCEPT !.cycle = <<next>> \o Traced(t, w.parent, node, next) \o <<next>>]
        [] w.color[next] = "white" -> Descend(on, node, next)
        [] w.color[next] = "black" -> on

(* One turn of the loops: look at the next neighbour, leave a node whose   *)
(* neighbours are done, or begin at the next start.                        *)
SearchTurn(t, degree, w) ==
  LET top    == w.stack[Len(w.stack)]
      ahead  == {j \in StagesOf(t) : j >= top.index /\ OutEdges(t, top.node) \cap InEdges(t, j) # {}}
      starts == {k \in StagesOf(t) : degree[k] # 0 /\ w.color[k] = "white"}
  IN  IF w.cycle # <<>> THEN w
      ELSE IF w.stack # <<>>
      THEN IF ahead = {} THEN [w EXCEPT !.color[top.node] = "black", !.stack = Front(@)]
           ELSE FollowEdge(t, w, top.node, Min(ahead))
      ELSE IF starts = {} THEN w ELSE Begin(w, Min(starts))

(* A node is begun, left and asked for each neighbour at most once.        *)
SearchTurns(t, degree) ==
  LET start == [color  |-> [k \in StagesOf(t) |-> "white"],
                parent |-> [k \in StagesOf(t) |-> NoParent],
                stack  |-> <<>>,
                cycle  |-> <<>>]
      turns[n \in 0..(Len(t.roles) * (Len(t.roles) + 2))] ==
        IF n = 0 THEN start ELSE SearchTurn(t, degree, turns[n - 1])
  IN  turns

FindCycle(t, degree) == SearchTurns(t, degree)[Len(t.roles) * (Len(t.roles) + 2)].cycle

-----------------------------------------------------------------------------
(* validate_topology.                                                      *)

NoOutputNeededMutant(t, k) ==
  CASE t.roles[k] = "Source" -> InEdges(t, k) = {}
    [] t.roles[k] = "Sink"   -> OutEdges(t, k) = {}
    [] OTHER                 -> InEdges(t, k) # {}

RoleConsistent(t, k) ==
  CASE t.roles[k] = "Source" -> InEdges(t, k) = {}
    [] t.roles[k] = "Sink"   -> OutEdges(t, k) = {}
    [] OTHER                 -> InEdges(t, k) # {} /\ OutEdges(t, k) # {}

(* The connections that share a port with connection c.                    *)
FanOut(t, c) == Cardinality({i \in OutEdges(t, c.from) : t.conns[i].out = c.out})
FanIn(t, c)  == Cardinality({i \in InEdges(t, c.to) : t.conns[i].in = c.in})

FanExceeded(t) ==
  \E i \in DOMAIN t.conns : FanOut(t, t.conns[i]) > MaxFan \/ FanIn(t, t.conns[i]) > MaxFan

ValidateTopology(t) ==
  LET kahn    == Kahn(t)
      sorted  == Len(kahn.order) = Len(t.roles)
      Lacks(r) == \A k \in StagesOf(t) : t.roles[k] # r
      errors  == IF t.roles = <<>> THEN {"Empty"}
                 ELSE When(Lacks("Source"), "NoSource") \cup When(Lacks("Sink"), "NoSink")
                      \cup When(\E k \in StagesOf(t) : ~RoleConsistent(t, k), "Role")
                      \cup When(FanExceeded(t), "FanLimit")
                      \cup When(~sorted, "Cycle")
                      \cup When(sorted /\ Reachable(t) # StagesOf(t), "Disconnected")
  IN [errors |-> errors,
      order  |-> IF sorted THEN kahn.order ELSE <<>>,
      cycle  |-> IF sorted THEN <<>> ELSE FindCycle(t, kahn.degree)]

(* build: construction errors are reported before anything is validated.   *)
Build(d) ==
  IF ConstructionErrors(d) # {}
  THEN [errors |-> ConstructionErrors(d), order |-> <<>>, cycle |-> <<>>]
  ELSE ValidateTopology(ResolvedEdges(d))
=============================================================================
