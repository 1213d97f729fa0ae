SPECIFICATION Spec
CONSTANTS
  Flow <- Linear
  NumStages <- FlowStages
  NumStreams <- FlowStreams
  Role <- FlowRole
  From <- FlowFrom
  To <- FlowTo
  Pos <- FlowPos
  Capacity <- MixedCapacity
  LowWatermark <- HalfWatermark
  ErrorPolicy = {"SkipElement"}
  HasDeadline = TRUE
  MaxPulls = 1
PROPERTY DeadlineEndsFlow
