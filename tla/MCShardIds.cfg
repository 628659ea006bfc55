SPECIFICATION Spec
CONSTANTS
  INT_MAX = 7
  NUM_FINGERS = 4
  KNUTH = 11
INVARIANTS
  IntervalIsArc
  NodeIntervals
  IntHashOneToOne
  AddressBytesKept
  PrefixesKept
  FingerStarts
