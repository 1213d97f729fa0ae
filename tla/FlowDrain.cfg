SPECIFICATION Spec
CONSTANTS
  Flow <- Join
  NumStages <- FlowStages
  NumStreams <- FlowStreams
  Role <- FlowRole
  From <- FlowFrom
  To <- FlowTo
  Pos <- FlowPos
  Capacity <- UnitCapacity
  LowWatermark <- HalfWatermark
  ErrorPolicy = {"FailFast"}
  HasDeadline = FALSE
  MaxPulls = 1
INVARIANT DrainNeverStuck
