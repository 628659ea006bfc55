SPECIFICATION CrashSpec
CONSTANTS
  INT_MAX = 7
  NUM_FINGERS = 4
  KNUTH = 11
  Node <- ThreeNodes
  First <- FirstNode
  Crashers <- OneCrasher
  Null = Null
INVARIANTS
  LookupTypeOK
  FingersKnown
  DeadOfNullSuccessor
PROPERTIES
  HopsCloser
  ImplementsRing
CHECK_DEADLOCK FALSE
