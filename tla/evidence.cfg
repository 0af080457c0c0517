SPECIFICATION Spec
CONSTANTS
  Sessions = {s1}
  ParkThreshold = 2
  MaxConcurrency = 1
  GitHistory = FALSE
  WorthyFrom = 1
  MaxVersion = 2
  MaxGeneration = 3
  MaxRevision = 2
  MaxAttempts = 3
  MaxCrashes = 1
  Env = {"phantom", "unreported", "late-hooks", "unresolved", "vanish", "spawn-fails", "no-events", "timeout", "exhaust", "operator"}
INVARIANTS
  TypeOK
  ArchivedCoversEvidence
PROPERTIES
  ImplementsPromise
CHECK_DEADLOCK FALSE
