SPECIFICATION MCSpec
CONSTANTS
  Title = {1, 2}
  m1 = m1
  m2 = m2
  Media = {m1, m2}
  NoMatch = none
  Script = {"crunchyroll", "plex", "netflix"}
  Runner = {r1}
  FetchCap = 4
  MaxTime = 3
  MaxInterrupts = 1
  Importer = {}
  MaxImports = 0
INVARIANT NothingStranded
