SPECIFICATION HFairSpec
CONSTANTS
  Anime = {a1}
  Editors = {e1}
  Field <- StatusOnly
  MaxAttempts = 1
  BatchLimit = 1
  MaxEdits = 3
  MaxFaults = 1
 
PROPERTIES EventuallyConsistent QueuedUpdatesSettle
