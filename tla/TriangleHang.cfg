\* numVertex as main.cpp passes it, a multiple of T.
CONSTANTS
  NVertices = 4
  numVertex = 4
  T = 4
  Depth = 2
  Modulus = 32
  Files <- OneListFiles
SPECIFICATION Spec
PROPERTY CallEnds
CHECK_DEADLOCK FALSE
