SPECIFICATION Spec
CONSTANTS
  c1 = c1
  c2 = c2
  c3 = c3
  c4 = c4
  p1 = p1
  p2 = p2
  Clients = {c1, c2, c3, c4}
  Processes = {p1, p2}
  User = User
  None = None
  MaxRestarts = 1
INVARIANTS
  LaunchedIsRecorded
  FailureIsExplained
PROPERTIES
  StopReachesAll
SYMMETRY MCSymmetry
CHECK_DEADLOCK FALSE
