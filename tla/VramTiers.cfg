SPECIFICATION Spec
CONSTANTS
  m1 = m1
  m2 = m2
  m3 = m3
  Models = {m1, m2, m3}
  Holders = {"job1", "job2"}
  None = None
  VramBudget = 3
  RamBudget = 2
  WarmTierMinRam = 2
  VramSizes <- MCVramSizes
  RamSizes <- MCRamSizes
  MaxMb = 4
  IdleOffload <- MCIdleOffload
  ColdOffload <- MCColdOffload
  MaxTime = 2
INVARIANTS
  WithinBudgets
  EvictionSuffices
  TrainingExcludesModels
  LogReplayMatchesState
PROPERTIES
  ImplementsAdmission
SYMMETRY ModelSymmetry
