SPECIFICATION Spec
CONSTANTS
  Person = {p1, p2}
  Provider = {google, discord}
  Request = {q1, q2}
  MaxAccounts = 2
  MaxChanges = 3
  MaxCrashes = 1
  Browser = {b1}
  Submission = {q1, q2}
  MaxFails = 2
  MaxSetupTries = 1
  MaxSetups = 2
  MaxResets = 1
SYMMETRY Interchangeable
INVARIANTS AlwaysAWayIn Admitted CodeGrantsOnce CodesFollowSwitch LockoutBound
CHECK_DEADLOCK FALSE
