SPECIFICATION Spec
CONSTANTS
  t1 = t1
  t2 = t2
  dg = dg
  g1 = g1
  g2 = g2
  r1 = r1
  r2 = r2
  None = None
  VariableGraph = VariableGraph
  DefaultGraph = dg
  Triples <- AllTriples
  Graphs <- AllGraphs
  Requests <- OneRequest
  Scripts <- LiveScripts
  InitStores <- TxStores
  Writers = {"transaction"}
  MaxRestarts = 0
INVARIANT RejectedHasNoEffect
CHECK_DEADLOCK FALSE
