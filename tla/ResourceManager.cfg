SPECIFICATION Spec
CONSTANTS
  t1 = t1
  t2 = t2
  c1 = c1
  f1 = f1
  b1 = b1
  b2 = b2
  b3 = b3
  f2 = f2
  Host = Host
  NoBuffer = NoBuffer
  NoFlow = NoFlow
  Thread <- Threads
  Component <- Components
  Flow <- Flows
  Pooled <- PooledOnes
  System <- SystemOnes
  InitCapacity = 1
  MaxSlots = 2
  MaxGeneration = 2
  MaxBorrows = 1
  BudgetMax = 1
  BudgetMod = 5
SYMMETRY Symmetry
INVARIANTS
  IndicesExact
  BudgetCovers
  BuffersConserved
  NoResidue
PROPERTIES
  ImplementsLinearOwnership
