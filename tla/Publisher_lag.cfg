CONSTANTS
  Contents = {c1, c2}
  Empty = Empty
  Foreign = Foreign
  RestoreModes = {"unset"}
  Recurs = TRUE
  MaxVersions = 3
  MaxFaults = 1
SPECIFICATION FairPublisherSpec
CHECK_DEADLOCK FALSE
PROPERTY PublisherConverges
