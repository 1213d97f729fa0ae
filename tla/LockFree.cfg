SPECIFICATION SpecEither
CONSTANTS
  t1 = t1
  t2 = t2
  t3 = t3
  Thread <- Threads3
  NumSlots = 3
  TagMod = 4
  CountMod = 8
  MaxFallback = 1
  r1 = r1
  r2 = r2
  Recorder <- Recorders
  Duration = {2, 5, 9}
  Boundary <- Boundaries
  Infinity = 1000
  Percent = {50, 99}
  Capacity = 2
  MaxRecords = 2
  MaxSpans = 3
SYMMETRY Symmetry
INVARIANTS
  TypeOK
  SingleOwner
  ListIntact
  AvailableExact
  MetricsExact
  PercentileSound
  TraceHonest
PROPERTIES
  ImplementsFreeList
