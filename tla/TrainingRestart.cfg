SPECIFICATION Spec
CONSTANTS
  e1 = e1
  e2 = e2
  w1 = w1
  w2 = w2
  m1 = m1
  Jobs = {"j1", "j2"}
  Executors = {e1, e2}
  Workers = {w1, w2}
  Models = {m1}
  None = None
  SerialClient = TRUE
  WritesFail = TRUE
  MaxRestarts = 1
INVARIANTS
  LockHasOwner
PROPERTIES
  CompletedMeansExitZero
SYMMETRY MCSymmetry
