SPECIFICATION FairSpec
CHECK_DEADLOCK FALSE
CONSTANTS
  User = {u1, u2}
  Providers = 1
  MaxTasks = 2
  MaxFaults = 2
INVARIANTS SingleFlight LiveRowRunning RowSettles AvailabilityNeedsRefresh
PROPERTIES EveryUserVisited FlagReleased
