SPECIFICATION SettledSpec
CONSTANTS
  INT_MAX = 7
  Node <- FourNodes
  First <- FirstNode
  Crashers <- FourNodes
  MaxCrashes = 1
  Null = Null
INVARIANT
  RestartTypeOK
PROPERTIES
  JoinsOthers
  FirstFindsBack
  JoinDecides
CHECK_DEADLOCK FALSE
