SPECIFICATION MCFairSpec
CONSTANTS
  Title = {1, 2}
  m1 = m1
  m2 = m2
  Media = {m1, m2}
  NoMatch = none
  Script = {"crunchyroll", "plex", "netflix"}
  Runner = {r1}
  FetchCap = 2
  MaxTime = 3
  MaxInterrupts = 1
  Importer = {c1}
  MaxImports = 1
INVARIANTS NothingBehindWatermark SeenIsApplied CountedOnce
PROPERTY EventuallyReviewed
