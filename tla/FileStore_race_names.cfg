CONSTANTS
  Names = {n1}
  Slugs = {s1, s2, s3}
  Tags = {t1}
  Reqs = {r1, r2}
  PermSets <- MCPermSets
  MaxFaults = 0
  MaxTime = 0
  None = None
SPECIFICATION Spec
SYMMETRY MCSymmetry
INVARIANT OneLivePerName
