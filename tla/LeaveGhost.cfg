SPECIFICATION GhostSpec
CONSTANTS
  INT_MAX = 7
  NUM_FINGERS = 4
  KNUTH = 11
  Node <- FourNodes
  First <- FirstNode
  Leavers <- OneLeaver
  Crashers = {}
  Null = Null
PROPERTY
  LeaversForgotten
CHECK_DEADLOCK FALSE
