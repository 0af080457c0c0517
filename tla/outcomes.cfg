SPECIFICATION Spec
CONSTANTS
  Sessions = {s1}
  ParkThreshold = 2
  MaxConcurrency = 1
  GitHistory = TRUE
  WorthyFrom = 1
  MaxVersion = 2
  MaxGeneration = 2
  MaxRevision = 2
  MaxAttempts = 3
  MaxCrashes = 2
  Env = {"oversized", "rewrite", "defer", "reject", "input-limit", "operator", "force", "write-fails", "git-fails", "no-events"}
INVARIANTS
  ClaimDiscipline
  DurableRecord
  FileDiscipline
  GitRecordsEveryRevision
  ParkIsEarned
  NeverLaundered
PROPERTIES
  ImplementsPromise
CHECK_DEADLOCK FALSE
