--------------------------- MODULE ContractLinker ---------------------------
(***************************************************************************)
(* validate_pipeline of torvyn-contracts: the composition of components by *)
(* their contracts.  t is a topology of module Topology; comps gives every *)
(* component its packages, in their order, the capabilities it requires    *)
(* and those it is granted.  All diagnostics are collected.                *)
(***************************************************************************)
EXTENDS Linker, PipelineBuilder, Compatibility

(* detect_cycles: the depth-first search of module Linker, from the        *)
(* components in the order in which they are listed.                       *)
HasCycle(t) == DetectCycle(t, [k \in StagesOf(t) |-> k]) # <<>>

TopologyErrors(t) ==
  LET Some(P(_)) == \E k \in StagesOf(t) : P(k)
  IN  When(\E i \in DOMAIN t.conns : ~({t.conns[i].from, t.conns[i].to} \subseteq StagesOf(t)),
           "InvalidTopology")
      \cup When(Some(LAMBDA k : OutEdges(t, k) = {} /\ InEdges(t, k) = {}),
                "DisconnectedComponent")
      \cup When(Some(LAMBDA k : t.roles[k] = "Source" /\ InEdges(t, k) # {}),
                "SourceHasIncoming")
      \cup When(Some(LAMBDA k : t.roles[k] = "Sink" /\ OutEdges(t, k) # {}),
                "SinkHasOutgoing")
      \cup When(HasCycle(t), "InvalidTopology")

(* validate_interface_compatibility: across a connection, every two        *)
(* packages of one name are compared without their worlds, the upstream's  *)
(* as the old version and the downstream's as the new.                     *)
InterfaceOnly(p) == [p EXCEPT !.worlds = {}]

WorldsTooMutant(up, down) == CheckCompatibility(up, down) # "Breaking"

Compatible(up, down) ==
  CheckCompatibility(InterfaceOnly(up), InterfaceOnly(down)) # "Breaking"

CompatibilityErrors(t, comps) ==
  When(\E c \in ToSet(t.conns) :
         /\ {c.from, c.to} \subseteq StagesOf(t)
         /\ \E up \in ToSet(comps[c.from].packages), down \in ToSet(comps[c.to].packages) :
              up.name = down.name /\ ~Compatible(up, down),
       "IncompatibleMajorVersion")

CapabilityErrors(comps) ==
  When(\E k \in DOMAIN comps : ~(comps[k].required \subseteq comps[k].grants), "UnmetCapability")

(* validate_version_ranges: the versioned packages of a name, in the order *)
(* of the components and their lists, against the first.                   *)
Versioned(comps, n) ==
  {at \in UNION {{k} \X DOMAIN comps[k].packages : k \in DOMAIN comps} :
     LET p == comps[at[1]].packages[at[2]] IN p.name = n /\ p.major # NoVersion}

MajorAt(comps, at) == comps[at[1]].packages[at[2]].major

FirstOf(places) ==
  CHOOSE a \in places : \A b \in places : a[1] < b[1] \/ (a[1] = b[1] /\ a[2] <= b[2])

VersionErrors(comps) ==
  LET names == UNION {{p.name : p \in ToSet(comps[k].packages)} : k \in DOMAIN comps}
  IN  When(\E n \in names : \E at \in Versioned(comps, n) :
             MajorAt(comps, at) # MajorAt(comps, FirstOf(Versioned(comps, n))),
           "VersionRangeUnsatisfiable")

ValidatePipeline(t, comps) ==
  TopologyErrors(t) \cup CompatibilityErrors(t, comps)
  \cup CapabilityErrors(comps) \cup VersionErrors(comps)
=============================================================================
