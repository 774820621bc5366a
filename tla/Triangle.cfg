\* numVertex as main.cpp passes it, not a multiple of T.
CONSTANTS
  NVertices = 5
  numVertex = 5
  T = 2
  Depth = 2
  Modulus = 32
  Files <- SampleFiles
SPECIFICATION Spec
INVARIANT TypeOK
INVARIANT CountsTriangles
INVARIANT NeverOvercounts
INVARIANT NothingLeftOver
INVARIANT NoCircularWait
PROPERTY CallEnds
