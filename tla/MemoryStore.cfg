SPECIFICATION Spec
CONSTANTS
  a = a
  b = b
  Wildcard = Wildcard
  NoBucket = NoBucket
  Terms <- TwoTerms
  Quads <- FourQuads
  Imports <- SomeImports
  MaxVersion = 4
  MaxStreams = 2
INVARIANTS TypeOK IndexExact AnswersLikeScan
PROPERTY ImplementsQuadSet
CHECK_DEADLOCK FALSE
