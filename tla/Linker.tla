------------------------------- MODULE Linker -------------------------------
(***************************************************************************)
(* PipelineLinker::link of torvyn-linker: its own validation of a topology *)
(* (module Topology, with ports), the order of the components, the         *)
(* resolution of their imports and the check of their grants.              *)
(*                                                                         *)
(* Nodes are kept in a HashMap; keys is the order in which it yields them, *)
(* any order.  wit gives the imports and the exports of every node, and    *)
(* its grants.  A name stands for a whole interface.                       *)
(***************************************************************************)
EXTENDS Topology

CONSTANTS
  MaxLinkFan,   \* max_fan_out and max_fan_in
  HostWasi,     \* the WASI interfaces the host provides
  HostTorvyn,   \* the built-in interfaces
  Needs         \* the capability an interface requires, where it does

-----------------------------------------------------------------------------
(* detect_cycle: a depth-first search.  dfs_cycle calls itself; stack holds *)
(* its activations, each with the connection to look at next, and their    *)
(* nodes are the path, in_stack as a set.                                  *)

PathOf(stack) == [i \in 1..Len(stack) |-> stack[i].node]

CycleFrom(path, n) ==
  LET start == CHOOSE i \in DOMAIN path : path[i] = n
  IN  Append(SubSeq(path, start, Len(path)), n)

Enter(w, n) ==
  [w EXCEPT !.visited = @ \cup {n}, !.stack = Append(@, [node |-> n, index |-> 1])]

(* The call on top goes on to connection i.                                *)
FollowConn(t, w, i) ==
  LET to   == t.conns[i].to
      path == PathOf(w.stack)
      on   == [w EXCEPT !.stack[Len(w.stack)].index = i + 1]
  IN  IF to \notin w.visited THEN Enter(on, to)
      ELSE IF to \in ToSet(path) THEN [w EXCEPT !.cycle = CycleFrom(path, to)]
      ELSE on

(* A cycle ends the search.  Otherwise the call on top looks at its next   *)
(* connection or returns, and without a call the next key is begun with.   *)
DfsTurn(t, keys, w) ==
  LET top   == w.stack[Len(w.stack)]
      ahead == {i \in OutEdges(t, top.node) : i >= top.index}
      roots == {i \in DOMAIN keys : keys[i] \notin w.visited}
  IN  IF w.cycle # <<>> THEN w
      ELSE IF w.stack # <<>>
      THEN IF ahead = {} THEN [w EXCEPT !.stack = Front(@)] ELSE FollowConn(t, w, Min(ahead))
      ELSE IF roots = {} THEN w ELSE Enter(w, keys[Min(roots)])

(* The nodes that are named.                                               *)
NodesOf(t, keys) == ToSet(keys) \cup {t.conns[i].to : i \in DOMAIN t.conns}

DfsTurns(t, keys, max) ==
  LET start == [visited |-> {}, stack |-> <<>>, cycle |-> <<>>]
      turns[n \in 0..max] ==
        IF n = 0 THEN start ELSE DfsTurn(t, keys, turns[n - 1])
  IN  turns

(* Each node is entered and left and each connection looked at once.       *)
DetectCycle(t, keys) ==
  LET max == 2 * Cardinality(NodesOf(t, keys)) + Len(t.conns)
  IN  DfsTurns(t, keys, max)[max].cycle

-----------------------------------------------------------------------------
(* PipelineTopology::validate.                                             *)

LinkFan(t, c) ==
  /\ Cardinality({i \in OutEdges(t, c.from) : t.conns[i].out = c.out}) <= MaxLinkFan
  /\ Cardinality({i \in InEdges(t, c.to) : t.conns[i].in = c.in}) <= MaxLinkFan

ValidLink(t, cycle) ==
  /\ t.roles # <<>>
  /\ \A i \in DOMAIN t.conns :
       /\ {t.conns[i].from, t.conns[i].to} \subseteq StagesOf(t)
       /\ LinkFan(t, t.conns[i])
  /\ \A k \in StagesOf(t) :
       /\ OutEdges(t, k) # {} \/ InEdges(t, k) # {}
       /\ t.roles[k] = "Source" => InEdges(t, k) = {}
       /\ t.roles[k] = "Sink" => OutEdges(t, k) = {}
  /\ cycle = <<>>

(* topological_order: the seeds in the order of the map.                   *)
LinkOrder(t, keys) == KahnFrom(t, keys).order

-----------------------------------------------------------------------------
(* resolve_single_import.  The upstreams of a node are listed once for     *)
(* every connection.                                                       *)

AnyUpstreamMutant(t, wit, k, import) ==
  {i \in InEdges(t, k) : \E j \in StagesOf(t) : import \in wit[j].exports}

Providers(t, wit, k, import) ==
  {i \in InEdges(t, k) : import \in wit[t.conns[i].from].exports}

ResolveImport(t, wit, k, import) ==
  LET providers == Providers(t, wit, k, import)
  IN  IF import \in HostWasi \cup HostTorvyn THEN <<"host">>
      ELSE IF providers = {} THEN <<"unresolved">>
      ELSE <<IF Cardinality(providers) > 1 THEN "ambiguous" ELSE "stream",
             t.conns[Min(providers)].from>>

(* check_capability_grants.                                                *)
GrantsSuffice(wit, k) ==
  \A import \in wit[k].imports \cap DOMAIN Needs : Needs[import] \in wit[k].grants

(* link: the topology first; the rest only if that is in order.            *)
Link(t, keys, wit) ==
  LET cycle   == IF t.roles = <<>> THEN <<>> ELSE DetectCycle(t, keys)
      order   == LinkOrder(t, keys)
      imports == [k \in StagesOf(t) |->
                    [import \in wit[k].imports |-> ResolveImport(t, wit, k, import)]]
      failed  == \E k \in StagesOf(t) :
                   \/ ~GrantsSuffice(wit, k)
                   \/ \E import \in wit[k].imports :
                        imports[k][import][1] \in {"unresolved", "ambiguous"}
  IN  IF ~ValidLink(t, cycle)
      THEN [result |-> "invalid", cycle |-> cycle, order |-> <<>>, imports |-> <<>>]
      ELSE [result |-> IF Len(order) # Len(t.roles) THEN "unordered"
                       ELSE IF failed THEN "unlinked" ELSE "linked",
            cycle |-> <<>>, order |-> order, imports |-> imports]
=============================================================================
