SPECIFICATION Spec
CONSTANTS
  MaxConns = 3
  MaxEdges = 4
  MaxFan = 2
  Name <- NodeNames
  Port <- PortNames
  MaxLinkFan = 2
  HostWasi = {"io", "random"}
  HostTorvyn = {"buffer-ops"}
  Needs <- Required
  Interface <- Interfaces
  Capability <- Capabilities
  Carried <- Packages
  Type = {"own", "borrow"}
  NoType = "none"
  Version <- Versions
INVARIANTS
  ProviderServesConsumer
CHECK_DEADLOCK FALSE
