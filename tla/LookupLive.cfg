SPECIFICATION JoiningSpec
CONSTANTS
  INT_MAX = 7
  NUM_FINGERS = 4
  KNUTH = 11
  Node <- ThreeNodes
  First <- FirstNode
  Crashers = {}
  Null = Null
PROPERTIES
  AllLinked
  LookupsEnd
  FingersSettle
