SPECIFICATION Spec
CONSTANTS
  T = 2
INVARIANTS
  CountsTriangles
  PathsAreRight
  GroupsAreRight
  ConversionsAreRight
  NothingIsForgotten
  
  BuffersHoldTheirLists
  StateIsConsistent
PROPERTY
  CallsEnd
