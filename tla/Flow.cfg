SPECIFICATION Spec
CONSTANTS
  Flow <- FanOutFanIn
  NumStages <- FlowStages
  NumStreams <- FlowStreams
  Role <- FlowRole
  From <- FlowFrom
  To <- FlowTo
  Pos <- FlowPos
  Capacity <- MixedCapacity
  LowWatermark <- HalfWatermark
  ErrorPolicy = {"FailFast", "SkipElement"}
  HasDeadline = TRUE
  MaxPulls = 2
INVARIANTS
  TypeOK
  DemandConservation
  LosslessFifo
  QueueDepthAtMostOne
  SingleElementInFlight
  BackpressureAccurate
  NoStall
  CompletionSound
  DrainNeverStuck
PROPERTIES
  NoEmissionAfterComplete
  CancelTerminates
  FlowTerminates
