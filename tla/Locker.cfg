SPECIFICATION Spec
CONSTANTS
  INT_MAX = 7
  Node <- FourNodes
  Member <- ThreeMembers
  f = f
  g = g
  File = {f, g}
  Place <- Places
  Hmac <- Keyed
  REPLICATION_FACTOR = 2
  Request = {r1, r2}
  MaxFaults = 1
  Null = Null
INVARIANTS
  TypeOK
  OneFaultTolerated
  OnlyUploadedReturned
  CopiesMade
SYMMETRY AnyRequest
CHECK_DEADLOCK FALSE
