SPECIFICATION Spec
CONSTANTS
  Anime = {a1}
  Editors = {e1}
  Field <- StatusOnly
  MaxAttempts = 1
  BatchLimit = 2
  MaxEdits = 2
  MaxFaults = 0
PROPERTIES ClearedRowNeverOverwrites
