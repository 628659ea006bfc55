SPECIFICATION FairSpec
CONSTANTS
  INT_MAX = 7
  Node <- ThreeNodes
  First <- FirstNode
  Crashers <- ThreeNodes
  Null = Null
INVARIANTS
  OnlyStartedKnown
  DeadOfNullSuccessor
PROPERTY
  Converges
CHECK_DEADLOCK FALSE
