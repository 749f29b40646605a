CONSTANTS
  Contents = {c1, c2}
  Empty = Empty
  Foreign = Foreign
  RestoreModes = {"unset", "auto", "ignore"}
  Recurs = TRUE
  MaxVersions = 4
  MaxFaults = 2
SPECIFICATION FairPublisherSpec
CHECK_DEADLOCK FALSE
INVARIANT PublisherTypeOK
INVARIANT CleanIsPublished
INVARIANT SignalledIsPublished
PROPERTY SnapshotMovesForward
PROPERTY GoodCopyKept
PROPERTY WritesArePublished
