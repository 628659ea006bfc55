SPECIFICATION Spec
CONSTANTS
  INT_MAX = 7
  Node <- ThreeNodes
  First <- FirstNode
  Crashers <- ThreeNodes
  Null = Null
PROPERTY
  OnlyUnreachableReplaced
CHECK_DEADLOCK FALSE
