SPECIFICATION Spec
CONSTANTS
  Main = Main
  Client = {c1}
  NumFlows = 1
  MaxFlows = 2
  MaxRetained = 1
CHECK_DEADLOCK FALSE
INVARIANTS
  FailureReported
