SPECIFICATION Spec
CONSTANTS
  INT_MAX = 7
  Node <- FourNodes
  First <- FirstNode
  Crashers = {}
  Null = Null
INVARIANTS
  TypeOK
  PredecessorClaimed
  OneRing
PROPERTIES
  ImplementsSortedRing
