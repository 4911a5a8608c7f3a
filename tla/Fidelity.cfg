SPECIFICATION FairSpec
CONSTANTS
  c1 = c1
  c2 = c2
  p1 = p1
  p2 = p2
  Clients = {c1, c2}
  Starter = starter
  Processes = {p1, p2}
  Deployments <- MCDeployments
  None = None
  MaxRounds = 2
  Checks = 2
  MaxRows = 3
  MaxCrashes = 1
INVARIANTS
  OneRoundAtATime
  BestMatchesItsRound
PROPERTIES
  EndIsFinal
  ImplementsBestSoFar
  AutoRunsToTheEnd
CHECK_DEADLOCK FALSE
