CONSTANTS
  Names = {n1}
  Slugs = {s1, s2}
  Tags = {t1}
  Reqs = {r1, r2}
  PermSets <- MCPermSets
  MaxFaults = 0
  MaxTime = 1
  None = None
SPECIFICATION FairSpec
PROPERTY Answered
PROPERTY Reclaimed
PROPERTY OutranksEarlier
