SPECIFICATION Spec
CONSTANTS
  Anime = {a1}
  Editors = {e1}
  Field <- StatusAndProgress
  MaxAttempts = 2
  BatchLimit = 2
  MaxEdits = 3
  MaxFaults = 1
INVARIANTS WorkerOwnsItem AckMeansDelivered
PROPERTIES OnlyClearStrands KeepsPromise
