SPECIFICATION RingsSpec
CONSTANTS
  INT_MAX = 7
  NUM_FINGERS = 4
  KNUTH = 11
  Node <- FourNodes
  First <- FirstNode
  Leavers <- OneLeaver
  Crashers <- OneCrasher
  Null = Null
INVARIANTS
  LeaveTypeOK
  StayingConnected
  GoneIfQuiet
CHECK_DEADLOCK FALSE
