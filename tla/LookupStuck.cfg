SPECIFICATION StuckSpec
CONSTANTS
  INT_MAX = 7
  NUM_FINGERS = 4
  KNUTH = 11
  Node <- ThreeNodes
  First <- FirstNode
  Crashers <- OneCrasher
  Null = Null
PROPERTIES
  LookupsEnd
CHECK_DEADLOCK FALSE
