SPECIFICATION Spec
CONSTANTS
  Sessions = {s1, s2}
  ParkThreshold = 2
  MaxConcurrency = 1
  GitHistory = FALSE
  WorthyFrom = 1
  MaxVersion = 1
  MaxGeneration = 1
  MaxRevision = 2
  MaxAttempts = 2
  MaxCrashes = 1
  Env = {"timeout"}
SYMMETRY SessionSymmetry
INVARIANTS
  SummarizersWithinCap
CHECK_DEADLOCK FALSE
