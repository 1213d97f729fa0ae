SPECIFICATION FlowSpec
CONSTANTS
  f0 = f0
  f1 = f1
  f2 = f2
  c1 = c1
  c2 = c2
  c3 = c3
  c4 = c4
  c5 = c5
  b1 = b1
  b2 = b2
  Host = Host
  NoBuffer = NoBuffer
  NoFlow = NoFlow
  NoHandle = NoHandle
  Unassigned = f0
  Thread <- Tasks
  Component <- Components
  Flow <- Flows
  Pooled <- Buffers
  System = {}
  NumStages <- Stages
  IdOf <- PositionalIds
  QueueCap = 1
  MaxAllocations = 3
  InitCapacity = 1
  MaxSlots = 2
  MaxGeneration = 2
  MaxBorrows = 0
  BudgetMax = 1
  BudgetMod = 8
SYMMETRY Symmetry
CHECK_DEADLOCK FALSE
INVARIANTS
  HandlesLive
