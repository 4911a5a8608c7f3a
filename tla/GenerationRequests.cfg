SPECIFICATION FairSpec
CONSTANTS
  Requests = {"r1", "r2"}
  Turn <- MCTurn
  InitialJobs = {"j1"}
  None = "none"
  DiskFails = TRUE
  HasLegacyPlan = TRUE
  MaxRestarts = 1
INVARIANTS
  CompletedHasAsset
  CompletedMeansProduced
PROPERTIES
  RecordsAreKept
  FinalStatusIsKept
  RunningJobsSettle
