CONSTANTS
  DpMaxPatterns = 4
  DistinctSampleCap = 64
  x = x
  y = y
  z = z
  Blocks <- MCBlocks
  Cards <- MCCards
  Bounds <- MCBounds
SPECIFICATION Spec
INVARIANTS
  PlansFitTogether
  OrderIsOfKeptPlan
  CostIsOfOrder
CHECK_DEADLOCK FALSE
