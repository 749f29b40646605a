CONSTANTS
  Names = {n1, n2}
  Slugs = {s1, s2, s3}
  Tags = {t1}
  Reqs = {r1, r2}
  PermSets <- MCPermSets
  MaxFaults = 1
  MaxTime = 0
  None = None
SPECIFICATION Spec
SYMMETRY MCSymmetry
INVARIANT TypeOK
INVARIANT LiveIsWhole
INVARIANT DownloadIsWhole
INVARIANT TagsOnPublished
INVARIANT UnprivilegedKeepsFiles
INVARIANT HandlerState
INVARIANT BlobsAccounted
INVARIANT PendingAccounted
PROPERTY CatalogueSpec
PROPERTY TagsGoWithFiles
PROPERTY AppendOnlyKeepsFiles
