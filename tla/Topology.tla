------------------------------ MODULE Topology ------------------------------
(***************************************************************************)
(* FlowTopology of torvyn-reactor: the DAG of stages and connections, its  *)
(* validation and its topological order.  A topology is a record           *)
(*    [roles |-> <<role of stage 1, ...>>, conns |-> <<[from, to], ...>>]   *)
(* with stages numbered from 1.                                            *)
(***************************************************************************)
EXTENDS Integers, Sequences, SequencesExt, FiniteSets

StagesOf(t) == DOMAIN t.roles

(* The connections that leave k and those that reach it, by index.         *)
OutEdges(t, k) == {i \in DOMAIN t.conns : t.conns[i].from = k}
InEdges(t, k)  == {i \in DOMAIN t.conns : t.conns[i].to = k}

InDegree(t) == [k \in StagesOf(t) |-> Cardinality(InEdges(t, k))]

(* One edge less leads to stage k, which goes to the back of the work list *)
(* if this was the last.                                                   *)
Relax(w, k) ==
  [w EXCEPT !.degree[k] = @ - 1,
            !.queue = IF w.degree[k] = 1 THEN Append(@, k) ELSE @]

(* The edges that leave node, in the order of the connections: relaxed[i]  *)
(* is the state after the first i connections.                             *)
Relaxed(t, node, w) ==
  LET relaxed[i \in 0..Len(t.conns)] ==
        IF i = 0 THEN w
        ELSE IF t.conns[i].from = node THEN Relax(relaxed[i - 1], t.conns[i].to)
        ELSE relaxed[i - 1]
  IN  relaxed

(* One turn of the work-list loop of Kahn's algorithm: take the front node *)
(* and put every neighbour whose last incoming edge this was at the back.  *)
LastInMutant(t, w) ==
  IF w.queue = <<>> THEN w
  ELSE LET node == Last(w.queue)
       IN  Relaxed(t, node, [w EXCEPT !.queue = Front(@), !.order = Append(@, node)])[Len(t.conns)]

KahnTurn(t, w) ==
  IF w.queue = <<>> THEN w
  ELSE LET node == Head(w.queue)
       IN  Relaxed(t, node, [w EXCEPT !.queue = Tail(@), !.order = Append(@, node)])[Len(t.conns)]

(* The stages that no edge leads to, in the order of keys: seeds[i] is the *)
(* queue after the first i.                                                *)
Seeds(keys, degree) ==
  LET seeds[i \in 0..Len(keys)] ==
        IF i = 0 THEN <<>>
        ELSE IF degree[keys[i]] = 0 THEN Append(seeds[i - 1], keys[i])
        ELSE seeds[i - 1]
  IN  seeds

KahnStart(t, keys) ==
  [queue  |-> Seeds(keys, InDegree(t))[Len(keys)],
   degree |-> InDegree(t),
   order  |-> <<>>]

(* A node enters the queue at most once, so one turn per stage suffices.   *)
KahnTurns(t, keys) ==
  LET turns[n \in 0..Len(keys)] ==
        IF n = 0 THEN KahnStart(t, keys) ELSE KahnTurn(t, turns[n - 1])
  IN  turns

(* The stages are gone through in the order of keys, in the reactor that   *)
(* of their indices.                                                       *)
KahnFrom(t, keys) == KahnTurns(t, keys)[Len(keys)]

Kahn(t) == KahnFrom(t, [k \in StagesOf(t) |-> k])

TopologicalOrder(t) == Kahn(t).order

(* Breadth-first marking from the sources, to a fixed point.               *)
RootsMutant(t) == {k \in StagesOf(t) : InEdges(t, k) = {}}

Sources(t) == {k \in StagesOf(t) : t.roles[k] = "Source"}

Spread(t, marked) ==
  marked \cup {t.conns[i].to : i \in {j \in DOMAIN t.conns :
                                        t.conns[j].from \in marked}}

Marking(t) ==
  LET marking[n \in 0..Len(t.roles)] ==
        IF n = 0 THEN Sources(t) ELSE Spread(t, marking[n - 1])
  IN  marking

Reachable(t) == Marking(t)[Len(t.roles)]

(* FlowTopology::validate: the first check that fails, or "Ok".            *)
Validate(t) ==
  LET InBounds(c) == c.from \in StagesOf(t) /\ c.to \in StagesOf(t)
      HasRole(r)  == \E k \in StagesOf(t) : t.roles[k] = r
      BadConn     == {i \in DOMAIN t.conns : \/ ~InBounds(t.conns[i])
                                             \/ t.conns[i].from = t.conns[i].to}
      BadRole(k)  == \/ t.roles[k] = "Source" /\ InEdges(t, k) # {}
                     \/ t.roles[k] = "Sink" /\ OutEdges(t, k) # {}
  IN  IF t.roles = <<>> THEN "NoStages"
      ELSE IF ~HasRole("Source") THEN "NoSource"
      ELSE IF ~HasRole("Sink") THEN "NoSink"
      ELSE IF BadConn # {} THEN "BadConnection"
      ELSE IF \E k \in StagesOf(t) : BadRole(k) THEN "BadRoleEdges"
      ELSE IF Len(TopologicalOrder(t)) # Len(t.roles) THEN "Cycle"
      ELSE IF Reachable(t) # StagesOf(t) THEN "Unreachable"
      ELSE "Ok"
=============================================================================
