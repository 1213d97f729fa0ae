----------------------------- MODULE MCTopology -----------------------------
(* A flow definition before anything runs, over every small definition:    *)
(* the reactor's validate() and topological_order(), the pipeline builder, *)
(* the linker and the check of the components' contracts, against          *)
(* definitions by paths, against what module FlowDriver assumes and        *)
(* against what a client of a contract may rely on.                        *)
EXTENDS Assembly, VersionCheck

CONSTANTS
  MaxConns,    \* bound: connections of a three-stage topology
  MaxEdges     \* bound: connections of a four-stage topology

flowVars == <<submission, linkVars>>
vars     == <<flowVars, contractVars, comparison>>

Conn(a, b) == [from |-> a, to |-> b, out |-> "output", in |-> "input"]
Role3      == {"Source", "Processor", "Sink"}

(* Three stages with any roles and any list of up to MaxConns connections, *)
(* self-loops, a dangling connection and one on other ports among them.    *)
Conns3 == {Conn(a, b) : a, b \in 1..3} \cup {Conn(1, 4)}
          \cup {[Conn(1, 3) EXCEPT !.out = "errors"]}
Small  == [names : {<<1, 2, 3>>}, roles : [1..3 -> Role3],
           conns : SeqOf(Conns3, MaxConns)]

(* Four stages, enough for a cycle behind a source: up to MaxEdges distinct *)
(* connections, listed in either direction.                                *)
Conns4 == {Conn(a, b) : a, b \in 1..4} \ {Conn(a, a) : a \in 1..4}
Roles4 == {<<"Source", "Processor", "Router", "Sink">>,
           <<"Sink", "Filter", "Source", "Source">>}
Lists  == LET sets == UNION {kSubset(n, Conns4) : n \in 0..MaxEdges}
          IN  {SetToSeq(s) : s \in sets} \cup {Reverse(SetToSeq(s)) : s \in sets}
Large  == [names : {<<1, 2, 3, 4>>}, roles : Roles4, conns : Lists]

(* Two nodes of one name.                                                  *)
Twice  == [names : {<<1, 2, 1>>}, roles : [1..3 -> Role3],
           conns : SeqOf({Conn(1, 2), Conn(2, 1)}, 2)]

Empty  == [names |-> <<>>, roles |-> <<>>, conns |-> <<>>]

NodeNames == 1..4
PortNames == {"output", "errors", "input"}

Submitted == Small \cup Large \cup Twice \cup {Empty}

ASSUME SubmittedAreDefinitions == \A t \in Submitted : t \in Definition

Init ==
  /\ topo \in Submitted
  /\ verdict = "None" /\ order = <<>> /\ built = NotBuilt
  /\ wit = <<>> /\ linked = NotLinked
  /\ contracts = <<>> /\ lint = NotLinted
  /\ CompareInit

Submit ==
  /\ \/ ValidateFlow /\ lint = NotLinted /\ versions = <<>>
     \/ OrderStages
     \/ verdict # "None" /\ (verdict = "Ok" => order # <<>>) /\ BuildPipeline
  /\ UNCHANGED <<linkVars, contractVars, comparison>>

(* link_topology_only: no imports, and the map yields its keys in any      *)
(* order.                                                                  *)
NoWit == [k \in StagesOf(topo) |-> [imports |-> {}, exports |-> {}, grants |-> {}]]

DistinctNames ==
  \A j, k \in StagesOf(topo) : topo.names[j] = topo.names[k] => j = k

CanLink == built # NotBuilt /\ linked = NotLinked /\ DistinctNames

LinkTopologyOnly ==
  /\ CanLink
  /\ \E keys \in SetToSeqs(StagesOf(topo)) : LinkPipeline(keys, NoWit)
  /\ UNCHANGED comparison

(* link, where one component imports one interface and any may export it.  *)
Required     == [i \in {"random"} |-> "wasi-random"]
Interfaces   == {"io", "random", "buffer-ops", "custom"}
Capabilities == {"wasi-random", "clock"}
Importing(i) ==
  {[k \in StagesOf(topo) |-> [imports |-> IF k = n THEN {i} ELSE {},
                              exports |-> IF k \in E THEN {i} ELSE {},
                              grants  |-> G]] :
     n \in StagesOf(topo), E \in SUBSET StagesOf(topo), G \in {{}, {"wasi-random"}}}

LinkFlow ==
  /\ CanLink
  /\ \E keys \in {[k \in StagesOf(topo) |-> k]} :
       /\ ValidLink(topo, DetectCycle(topo, keys))
       /\ \E i \in Interface : \E w \in Importing(i) : LinkPipeline(keys, w)
  /\ UNCHANGED comparison

(* The versions of a contract: one interface, of which a function, a type, *)
(* both or neither may differ, or a second one.                            *)
Sig(p)        == [params |-> p, result |-> NoType]
Def(k, m, t)  == [kind |-> k, members |-> m, target |-> t]
FunctionMaps  == {<<>>, [g |-> Sig(<<>>)], [f |-> Sig(<<"own">>), g |-> Sig(<<>>)]}
                 \cup {[f |-> Sig(p)] : p \in SeqOf({"own", "borrow"}, 2)}
                 \cup {[f |-> [params |-> <<>>, result |-> "own"]]}
Members       == {[x |-> NoType], [y |-> NoType], [x |-> "own"], [x |-> NoType, y |-> NoType]}
TypeMaps      == {<<>>}
                 \cup {[t |-> Def(k, m, NoType)] : k \in {"record", "variant"}, m \in Members}
                 \cup {[t |-> Def(k, m, NoType)] : k \in {"enum", "flags"},
                                                   m \in Members \ {[x |-> "own"]}}
                 \cup {[t |-> Def("alias", <<>>, a)] : a \in Type}
                 \cup {[t |-> Def("resource", <<>>, NoType)]}
Package(n, v, i, w) == [name |-> n, major |-> v, interfaces |-> i, worlds |-> w]
Faces         == [functions : FunctionMaps, types : TypeMaps]
NoFace        == [functions |-> <<>>, types |-> <<>>]
Versions      == {Package("p", 1, [a |-> i], {}) : i \in Faces}
                 \cup {Package("p", 1, i, w) : i \in {<<>>, [b |-> NoFace], [a |-> NoFace, b |-> NoFace]},
                                               w \in {{}, {"w"}}}

Compare ==
  /\ topo = Empty /\ verdict = "None" /\ lint = NotLinted
  /\ versions = <<>> /\ CompareNext
  /\ UNCHANGED <<flowVars, contractVars>>

(* validate_pipeline: without contracts over every topology, and with them *)
(* over the chains of three.                                               *)
Face(F)    == [a |-> [functions |-> [f \in F |-> Sig(<<>>)], types |-> <<>>]]
Packages   == {Package("p", v, Face(F), {}) : v \in {NoVersion, 1, 2}, F \in SUBSET {"f", "g"}}
              \cup {Package("p", 1, Face({"f"}), {"w"}), Package("q", 2, Face({}), {"w"})}
Lists2     == {<<>>} \cup {<<p>> : p \in {q \in Packages : q.name = "p"}}
              \cup {<<Package("q", 2, Face({}), {"w"}), Package("p", 1, Face({}), {})>>}
Plain      == [packages |-> <<>>, required |-> {}, grants |-> {}]
IsChain    == topo.names = <<1, 2, 3>> /\ topo.roles = <<"Source", "Processor", "Sink">>
              /\ topo.conns = <<Conn(1, 2), Conn(2, 3)>>
Compositions ==
  {[k \in StagesOf(topo) |-> Plain]}
  \cup (IF IsChain THEN [1..3 -> [packages : Lists2, required : {{}}, grants : {{}}]]
                       \cup [1..3 -> [packages : {<<>>}, required : SUBSET {"clock"},
                                      grants : SUBSET {"clock"}]]
        ELSE {})

CheckPipeline ==
  /\ verdict = "None" /\ versions = <<>>
  /\ DistinctNames /\ lint = NotLinted
  /\ \E c \in Compositions : CheckContracts(c)
  /\ UNCHANGED comparison

Next == \/ Submit \/ LinkTopologyOnly \/ LinkFlow
        \/ Compare \/ CheckPipeline

Spec == Init /\ [][Next]_vars
=============================================================================
