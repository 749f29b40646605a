SPECIFICATION TransferSpec
CONSTANTS
  Kinds = {"fs", "s3"}
  MaxInt = 7
  MaxTotal = 6
  ChunkSize = 3
  SniffSize = 3
  MaxFaults = 2
INVARIANTS
  TransferTypeOK
  StoredIsWhole
  RefusedIsLarge
  WholeIsRange
CHECK_DEADLOCK FALSE
