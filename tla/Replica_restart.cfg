CONSTANTS
  Contents = {c1, c2}
  Empty = Empty
  Foreign = Foreign
  RestoreModes = {"unset"}
  Recurs = FALSE
  MaxVersions = 2
  MaxFaults = 0
SPECIFICATION FairReplicaSpec
CHECK_DEADLOCK FALSE
PROPERTY LagIsBounded
