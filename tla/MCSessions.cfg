SPECIFICATION Spec
CHECK_DEADLOCK FALSE
CONSTANTS
  User = {boss, vice}
  Admin = {boss, vice}
  Nobody = nobody
  Browser = {b1}
  Request = {q1, q2}
  MaxSessions = 3
SYMMETRY Symmetry
INVARIANTS WayBack EndedStaysEnded NeverStuck
