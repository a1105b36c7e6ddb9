SPECIFICATION FairSpec
CONSTANTS
  Follower = {u1, u2}
  Active = {u1}
  Show = {s1}
  Episodes = 2
  MaxTime = 4
  MaxMoves = 1
  MaxEdits = 1
  MaxVisits = 1
  MaxOutages = 1
  Title = {t1}
  Checker = {c1, c2}
  MaxFlips = 3
  MaxChecks = 3
  MaxCrashes = 1
  Id = {1, 2, 3}
  FillerAgain = 2
  FillerRetry = 3
  MangaAgain = 1
  MangaRetry = 2
  Reach = 1
  MaxVersion = 1
  MaxUpdates = 1
  MaxErrors = 1
INVARIANTS  SignalledOnce 
PROPERTIES EveryoneAlerted CatalogueRechecked
CHECK_DEADLOCK FALSE
