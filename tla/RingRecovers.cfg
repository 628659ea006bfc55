SPECIFICATION RecoverSpec
CONSTANTS
  INT_MAX = 7
  Node <- ThreeNodes
  First <- FirstNode
  Crashers <- LastCrasher
  Null = Null
PROPERTY
  RingRecovers
CHECK_DEADLOCK FALSE
