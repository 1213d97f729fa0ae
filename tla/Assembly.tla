------------------------------ MODULE Assembly ------------------------------
(***************************************************************************)
(* The other checks that a pipeline definition meets before it runs: the   *)
(* linker (module Linker) and the check of the components' contracts       *)
(* (module ContractLinker), beside the builder and the coordinator of      *)
(* module Submission.  The linker and the contracts refer to a node by its *)
(* name, which here is the number of the stage.                            *)
(***************************************************************************)
EXTENDS ContractLinker, Submission

CONSTANTS
  Interface,   \* what components import and export
  Capability,  \* what they are granted
  Carried      \* the packages in their contracts

ASSUME CarriedAssumption == \A p \in Carried : WellFormed(p)

VARIABLES
  wit,         \* imports, exports and grants of the components
  linked,      \* the result of link()
  contracts,   \* the contracts of the components
  lint         \* the result of validate_pipeline

linkVars     == <<wit, linked>>
contractVars == <<contracts, lint>>
assembly     == <<submission, linkVars, contractVars>>

NotLinked == [result |-> "none", cycle |-> <<>>, order |-> <<>>, imports |-> <<>>]
NotLinted == {"none"}

(* The orders in which the map may yield the nodes.                        *)
Listings(t) ==
  {keys \in [StagesOf(t) -> StagesOf(t)] : \A j, k \in StagesOf(t) : keys[j] = keys[k] => j = k}

Wits(t)      == [StagesOf(t) -> [imports : SUBSET Interface, exports : SUBSET Interface,
                                 grants : SUBSET Capability]]
Contracts(t) == [StagesOf(t) -> [packages : Seq(Carried), required : SUBSET Capability,
                                 grants : SUBSET Capability]]

AssembleInit ==
  /\ SubmitInit
  /\ wit = <<>> /\ linked = NotLinked
  /\ contracts = <<>> /\ lint = NotLinted

LinkPipeline(keys, w) ==
  /\ linked = NotLinked
  /\ wit' = w
  /\ linked' = Link(topo, keys, w)
  /\ UNCHANGED <<submission, contractVars>>

CheckContracts(c) ==
  /\ lint = NotLinted
  /\ contracts' = c
  /\ lint' = ValidatePipeline(topo, c)
  /\ UNCHANGED <<submission, linkVars>>

AssembleNext ==
  \/ SubmitNext /\ UNCHANGED <<linkVars, contractVars>>
  \/ \E keys \in Listings(topo), w \in Wits(topo) : LinkPipeline(keys, w)
  \/ \E c \in Contracts(topo) : CheckContracts(c)

AssembleSpec == AssembleInit /\ [][AssembleNext]_assembly
-----------------------------------------------------------------------------
(* A cycle is a closed walk along connections through distinct stages.     *)
IsCycle(t, c) ==
  /\ Len(c) > 1 /\ c[1] = c[Len(c)]
  /\ \A i \in 1..(Len(c) - 1) : <<c[i], c[i + 1]>> \in EdgesOf(t)
  /\ \A i, j \in 1..(Len(c) - 1) : c[i] = c[j] => i = j

(* The cycle that is reported exists, in the pipeline's report and in the  *)
(* linker's, and one is reported whenever there is one, wherever the       *)
(* search begins.                                                          *)
ReportedCycleReal ==
  /\ "Cycle" \in built.errors => IsCycle(ResolvedEdges(topo), built.cycle)
  /\ built # NotBuilt /\ ConstructionErrors(topo) = {} /\ ~IsAcyclic(ResolvedEdges(topo)) =>
       "Cycle" \in built.errors
  /\ linked.cycle # <<>> => IsCycle(topo, linked.cycle)
  /\ linked # NotLinked /\ ~IsAcyclic(topo) => linked.cycle # <<>>

(* A pipeline whose connections join existing nodes without a cycle, leave *)
(* no node alone and respect the roles.                                    *)
IsComposed(t) ==
  /\ EdgesOf(t) \subseteq StagesOf(t) \X StagesOf(t)
  /\ IsAcyclic(t)
  /\ \A k \in StagesOf(t) :
       /\ \E e \in EdgesOf(t) : k \in {e[1], e[2]}
       /\ t.roles[k] = "Source" => \A e \in EdgesOf(t) : e[2] # k
       /\ t.roles[k] = "Sink" => \A e \in EdgesOf(t) : e[1] # k

(* At most MaxLinkFan connections share a port.                            *)
WithinFan(t) ==
  \A i \in DOMAIN t.conns :
    LET c     == t.conns[i]
        Share(P(_)) == Cardinality({j \in DOMAIN t.conns : P(t.conns[j])})
    IN  /\ Share(LAMBDA d : d.from = c.from /\ d.out = c.out) <= MaxLinkFan
        /\ Share(LAMBDA d : d.to = c.to /\ d.in = c.in) <= MaxLinkFan

(* The host provides what k imports, with the grant that takes, or exactly *)
(* one connection brings it in.                                            *)
IsProvided(t, w, k) ==
  \A i \in w[k].imports :
    /\ \/ i \in HostWasi \cup HostTorvyn
       \/ Cardinality({c \in DOMAIN t.conns :
                         t.conns[c].to = k /\ i \in w[t.conns[c].from].exports}) = 1
    /\ i \in DOMAIN Needs => Needs[i] \in w[k].grants

(* The linker accepts exactly the composed pipelines within the fan limits *)
(* whose imports the host provides, with the grant that takes, or exactly  *)
(* one connection brings in.  Two connections from one provider count as   *)
(* two providers.  Whatever the order of the map, the components come in   *)
(* an order that runs along the connections.                               *)
LinkExact ==
  linked # NotLinked =>
    LET sound    == topo.roles # <<>> /\ IsComposed(topo) /\ WithinFan(topo)
        provided == \A k \in StagesOf(topo) : IsProvided(topo, wit, k)
    IN  /\ linked.result = IF ~sound THEN "invalid" ELSE IF provided THEN "linked" ELSE "unlinked"
        /\ sound => /\ ToSet(linked.order) = StagesOf(topo)
                    /\ \A i, j \in DOMAIN linked.order :
                         <<linked.order[i], linked.order[j]>> \in EdgesOf(topo) => i < j

(* The packages of one name that meet across a connection of t, first the  *)
(* upstream component's, then the downstream one's.                        *)
Meeting(t, c) ==
  {m \in UNION {ToSet(c[e[1]].packages) \X ToSet(c[e[2]].packages) : e \in EdgesOf(t)} :
     m[1].name = m[2].name}

(* A pipeline that validate_pipeline accepts is composed, has the required *)
(* grants and one major version of each package, and across no connection  *)
(* do the two sides' contracts contradict each other: one of them fits the *)
(* clients of the other.  One that is composed in this way is accepted     *)
(* when both do.  Which side has to fit which is not said here.            *)
PipelineSound ==
  lint # NotLinted =>
    LET Packages(k) == ToSet(contracts[k].packages)
        composed ==
          /\ IsComposed(topo)
          /\ \A k \in StagesOf(topo) : contracts[k].required \subseteq contracts[k].grants
          /\ \A j, k \in StagesOf(topo) : \A p \in Packages(j), q \in Packages(k) :
               p.name = q.name /\ NoVersion \notin {p.major, q.major} => p.major = q.major
        FitsUp(m)   == Fits(InterfaceOnly(m[1]), InterfaceOnly(m[2]))
        FitsDown(m) == Fits(InterfaceOnly(m[2]), InterfaceOnly(m[1]))
    IN  /\ lint = {} =>
             composed /\ \A m \in Meeting(topo, contracts) : FitsUp(m) \/ FitsDown(m)
        /\ composed /\ (\A m \in Meeting(topo, contracts) : FitsUp(m) /\ FitsDown(m)) =>
             lint = {}

(* What a consumer uses is present in its provider (contracts.md:160-161): *)
(* in a pipeline that is accepted, the contract of the upstream component  *)
(* of a connection serves the downstream one's.                            *)
ProviderServesConsumer ==
  lint = {} => \A m \in Meeting(topo, contracts) :
                 Serves(InterfaceOnly(m[1]), InterfaceOnly(m[2]))
=============================================================================
