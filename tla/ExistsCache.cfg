SPECIFICATION Spec
CONSTANTS
  q1 = q1
  q2 = q2
  c1 = c1
  c2 = c2
  None = None
  Queries <- TwoQueries
  Contents <- TwoContents
  Depth = 2
  MaxVersion = 3
SYMMETRY Interchangeable
INVARIANTS TypeOK CacheCoherent SnapshotsOfOneMoment
CHECK_DEADLOCK FALSE
